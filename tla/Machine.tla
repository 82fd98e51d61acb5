------------------------------ MODULE Machine ------------------------------
(***************************************************************************)
(* The machine (core/Machine.cc): the order and the rates in which a tick  *)
(* of the clock calls the devices and the processor. The timer is module   *)
(* Timer; of the serial port there are the bits that are left, of the LCD  *)
(* controller that it may raise an interrupt on any tick, and of the       *)
(* processor what decides when it looks at the requests.                   *)
(*                                                                         *)
(* A tick with a turn of the processor is two steps, the devices' and the  *)
(* processor's, since both may write a register of the timer.              *)
(***************************************************************************)
EXTENDS Timer

CONSTANTS
    CpuEvery,       \* ticks of the clock to one of the processor (4)
    TimerEvery,     \* and of the timer (8)
    Burst,          \* the bit of the clock the serial port waits for (0x200)
    ByteBits,       \* bits in a byte (8)
    MaxCycles       \* cycles of the longest instruction (6)

ASSUME RateAssumption ==
    /\ CpuEvery \in Nat \ {0} /\ TimerEvery \in Nat \ {0} /\ Burst \in Nat \ {0}
    /\ TimerEvery % CpuEvery = 0 /\ (2 * Burst) % TimerEvery = 0
    /\ ByteBits \in Nat \ {0} /\ MaxCycles \in Nat \ {0}

VARIABLES
    t,              \* t, as far as its low bits are looked at
    turn,           \* who goes on: "devices" or "cpu"
    bits,           \* Serial::bits_; bit 7 of SC is set while it is not 0
    requested,      \* if_
    enabled,        \* ie_
    ime, halt,      \* ime_, halt_
    busy,           \* busy_ / 4
    late            \* history: ticks a sleeper has had an enabled request for

clock == <<t, turn>>
cpu == <<enabled, ime, halt, busy>>
machineVars == <<vars, clock, bits, requested, cpu, late>>

Sources == {"lcd", "timer", "serial"}

Pending == requested \cap enabled

MachineInit ==
    /\ Init
    /\ t = 0 /\ turn = "devices" /\ bits = 0
    /\ requested = {} /\ enabled = {} /\ ime = FALSE /\ halt = FALSE /\ busy = 0
    /\ late = 0

-----------------------------------------------------------------------------
(* The devices' part of a tick *)

\* Mutant: a tick in every 512 and not 512 in every 1024.
SerialTurnOnce == t % Burst = 0

SerialTurn == (t \div Burst) % 2 = 0

TimerTurn == t % TimerEvery = 0

CpuTurn == t % CpuEvery = 0

Later == Inc(t, 2 * Burst)

\* Serial::Tick, of which module Serial has the rest.
SerialTick == bits' = IF SerialTurn /\ bits > 0 THEN bits - 1 ELSE bits

TimerTick == IF TimerTurn THEN Tick
             ELSE did' = "tick" /\ UNCHANGED <<fulldiv, tima, tma, tac>>

Raised(lcd) == {s \in {"lcd"} : lcd}
               \cup {s \in {"serial"} : bits = 1 /\ bits' = 0}
               \cup {s \in {"timer"} : did' = "irq"}

\* How long a sleeper has waited when a tick is over, up to one turn.
Waited == IF halt /\ halt' /\ requested' \cap enabled' # {}
          THEN IF late < CpuEvery THEN late + 1 ELSE late
          ELSE 0

Devices ==
    /\ turn = "devices"
    /\ SerialTick /\ TimerTick
    /\ \E lcd \in BOOLEAN : requested' = requested \cup Raised(lcd)
    /\ UNCHANGED cpu
    /\ IF CpuTurn THEN turn' = "cpu" /\ UNCHANGED <<t, late>>
       ELSE t' = Later /\ late' = Waited /\ UNCHANGED turn

-----------------------------------------------------------------------------
(* The processor's part *)

\* Every cycle of an instruction is a turn; the first is the one it is carried out on.
Spend(cycles) == busy' = cycles - 1

Rest == busy > 0 /\ busy' = busy - 1
        /\ UNCHANGED <<vars, bits, requested, enabled, ime, halt>>

\* The most urgent request is accepted; the pushes go to memory.
Dispatch ==
    /\ ime /\ Pending # {}
    /\ Spend(1)
    /\ ime' = FALSE /\ halt' = FALSE
    /\ requested' = requested \ {CHOOSE s \in Pending :
                        s = "lcd" \/ ("lcd" \notin Pending /\ (s = "timer" \/ "timer" \notin Pending))}
    /\ UNCHANGED <<vars, bits, enabled>>

Sleeps == halt /\ Pending = {}

\* Mutant: a sleeper looks at the requests every other turn.
SleepLong == Sleeps /\ Spend(2) /\ UNCHANGED <<vars, bits, requested, enabled, ime, halt>>

Sleep == Sleeps /\ Spend(1) /\ UNCHANGED <<vars, bits, requested, enabled, ime, halt>>

\* What an instruction may do to the devices and to the requests.
Compute == UNCHANGED <<vars, bits, requested, enabled, ime>> /\ halt' = FALSE
SetMaster == ime' \in BOOLEAN /\ halt' = FALSE /\ UNCHANGED <<vars, bits, requested, enabled>>
Halt == halt' = TRUE /\ UNCHANGED <<vars, bits, requested, enabled, ime>>
WriteIE == enabled' \in SUBSET Sources /\ halt' = FALSE
           /\ UNCHANGED <<vars, bits, requested, ime>>
WriteIF == requested' \in SUBSET Sources /\ halt' = FALSE
           /\ UNCHANGED <<vars, bits, enabled, ime>>
WriteTimer == Write /\ halt' = FALSE /\ UNCHANGED <<bits, requested, enabled, ime>>
WriteSC == /\ bits' \in {0, ByteBits} /\ did' = "shift" /\ halt' = FALSE
           /\ UNCHANGED <<fulldiv, tima, tma, tac, requested, enabled, ime>>

Instruction ==
    /\ ~Sleeps /\ ~ (ime /\ Pending # {})
    /\ \/ /\ \E cycles \in 1 .. MaxCycles : Spend(cycles)
          /\ Compute \/ SetMaster \/ WriteIE \/ WriteIF \/ WriteTimer \/ WriteSC
       \/ Spend(1) /\ Halt

Cpu == /\ turn = "cpu"
       /\ \/ (Rest \/ (busy = 0 /\ Sleep)) /\ late' = Waited
          \/ busy = 0 /\ (Dispatch \/ Instruction) /\ late' = 0
       /\ turn' = "devices" /\ t' = Later

MachineNext == Devices \/ Cpu

\* The frontends' loops call Machine::Tick again and again.
MachineSpec == MachineInit /\ [][MachineNext]_machineVars /\ WF_machineVars(MachineNext)

-----------------------------------------------------------------------------
(* Properties *)

\* A processor in HALT looks at its requests on every one of its turns: it wakes
\* less than four ticks after a request that is enabled, whether interrupts are on
\* or off, and on the very tick of the overflow when it is the timer's.
SleeperWakesInTime ==
    /\ late < CpuEvery
    /\ did = "irq" /\ turn = "devices" /\ "timer" \in Pending => late = 0

\* The tick whose devices come next.
Now == IF turn = "cpu" THEN t + 1 ELSE t

\* Ticks of the clock until the timer's interrupt.
TimerLeft == LET n == (TimaMod - 1 - tima) * Width + ToEdge
             IN  1 + ((-Now) % TimerEvery) + TimerEvery * (n - 1)

MachinePeriodic == INSTANCE Countdown
    WITH on <- tac.on,
         left <- TimerLeft,
         period <- TimerEvery * (TimaMod - tma) * Width,
         did <- IF did = "shift" THEN "pause" ELSE did

\* On the clock of the machine, too, timer interrupts come exactly a period apart,
\* however the processor spends its turns and whatever other devices ask for.
KeepsPeriodOnClock == MachinePeriodic!Spec

\* Ticks until the byte has gone: bits go at the pace of the clock in one half of
\* every 1024 ticks, and wait through the other half.
SerialLeft ==
    LET p == Now % (2 * Burst)
    IN  IF p < Burst THEN bits + Burst * ((p + bits - 1) \div Burst)
        ELSE (2 * Burst - p) + bits + Burst * ((bits - 1) \div Burst)

Byte == INSTANCE OneShot
    WITH on <- bits > 0,
         left <- IF bits > 0 THEN SerialLeft ELSE 1,
         cut <- FALSE,
         did <- CASE did = "irq" -> "tick" [] did = "write" -> "pause"
                  [] did = "shift" -> "write" [] OTHER -> did

\* A byte that is left alone takes 8 ticks, and another 512 when the half of the
\* clock in which the port runs ends under it.
SerialOnTime == Byte!Spec

\* A processor at work: it accepts a request or runs an instruction.
Works == Cpu /\ busy = 0 /\ (Dispatch \/ Instruction)

\* A program that sleeps until the timer wakes it does not sleep for ever.
WaitersGoOn ==
    <>[](tac.on /\ "timer" \in enabled /\ did # "write") => []<><<Works>>_machineVars
=============================================================================
