-------------------------------- MODULE CPU --------------------------------
(***************************************************************************)
(* The control core of the processor (core/cpu/CPU.cc): the busy counter   *)
(* that spreads an instruction over clock ticks, interrupt dispatch,       *)
(* HALT/EI/DI/RETI, every instruction that moves pc or sp or writes        *)
(* memory, and the lock-up behind an undefined opcode.                     *)
(*                                                                         *)
(* Abstractions. The general registers and the flags are not kept: a value *)
(* stored or pushed is any byte or word, a condition may hold or not. Code *)
(* gives, for each pc, the instructions memory may hold there. busy counts *)
(* machine cycles (busy_ / 4, every count in op_table being a multiple of  *)
(* four); the value a subtraction below zero leaves in the 64-bit busy_    *)
(* needs 2^62 ticks to run down and is the single value Wrapped.           *)
(***************************************************************************)
EXTENDS Integers

CONSTANTS
    NSources,   \* number of interrupt lines (5: V-blank, LCD, timer, serial, joypad)
    Vector,     \* [Source -> Word], the handlers' entry points
    NWords,     \* number of addresses (2^16)
    Byte,       \* the values of a memory cell
    Lo, Hi,     \* [Word -> Byte], the two bytes of a word
    Join,       \* [Byte -> [Byte -> Word]], low byte first
    Bits,       \* [Byte -> SUBSET Source], the bits of a byte that name a source
    Flags,      \* [SUBSET Source -> Byte], the byte IF or IE reads as
    IFAddr, IEAddr,  \* addresses of the interrupt registers (0xFF0F, 0xFFFF)
    Ram,        \* the addresses that are plain memory
    MaxCycles,  \* the largest cost in op_table, in machine cycles
    Code,       \* [Word -> SUBSET Row]
    Data,       \* the words a register pair may hold when it is pushed
    Entry, Top, \* pc and sp as the constructor of Regs leaves them
    Zero        \* the byte memory is filled with

Source == 0 .. NSources - 1
Word == 0 .. NWords - 1

Op == {"plain", "ld", "ldsp", "setsp", "push", "pop", "jump", "call", "ret",
       "reti", "ei", "di", "halt", "stop", "undefined"}

\* A decoded instruction: what op_table gives for the opcode, its length in
\* bytes and its operand, an address.
Row == [op : Op, len : 1 .. 3, cycles : 0 .. MaxCycles, extra : 0 .. MaxCycles,
        cond : BOOLEAN, arg : Word]

ASSUME SourcesAssumption == NSources \in Nat \ {0} /\ Vector \in [Source -> Word]

ASSUME WordsAssumption ==
    /\ NWords \in Nat /\ NWords >= 4
    /\ Lo \in [Word -> Byte] /\ Hi \in [Word -> Byte]
    /\ Join \in [Byte -> [Byte -> Word]]
    /\ \A w \in Word : Join[Lo[w]][Hi[w]] = w

ASSUME RegistersAssumption ==
    /\ Bits \in [Byte -> SUBSET Source] /\ Flags \in [SUBSET Source -> Byte]
    /\ \A S \in SUBSET Source : Bits[Flags[S]] = S
    /\ IFAddr \in Word /\ IEAddr \in Word /\ IFAddr # IEAddr
    /\ Ram \subseteq Word \ {IFAddr, IEAddr}

\* Every opcode but the undefined ones costs at least one machine cycle, and an
\* undefined opcode is one byte long.
ASSUME CodeAssumption ==
    /\ MaxCycles \in Nat \ {0}
    /\ Code \in [Word -> SUBSET Row]
    /\ \A w \in Word : \A i \in Code[w] :
          IF i.op = "undefined" THEN i.len = 1 ELSE i.cycles >= 1

ASSUME BootAssumption == Data \subseteq Word /\ Entry \in Word /\ Top \in Word /\ Zero \in Byte

VARIABLES
    busy,   \* machine cycles the current step still takes
    pc, sp, \* reg_.pc, reg_.sp
    iflag,  \* if_, the requested sources
    ie,     \* ie_, the enabled sources
    ime,    \* ime_, the master switch
    halt,   \* halt_
    mem,    \* the plain memory behind the IO bus
    event   \* the last callback to CPUObserver

vars == <<busy, pc, sp, iflag, ie, ime, halt, mem, event>>

-----------------------------------------------------------------------------
(* Words, the bus and the busy counter *)

Plus(w, k) == IF w + k < NWords THEN w + k ELSE w + k - NWords
Minus(w, k) == IF w >= k THEN w - k ELSE w + NWords - k

Wrapped == 2 * MaxCycles + 1            \* busy_ after a subtraction below zero
Spend(b) == IF b \in 1 .. 2 * MaxCycles THEN b - 1 ELSE Wrapped

Bus == [mem |-> mem, iflag |-> iflag, ie |-> ie]

\* The bus after a byte is written. Everything that is not plain memory or an
\* interrupt register leaves the three of them alone.
Poke(b, a, v) == CASE a \in Ram -> [b EXCEPT !.mem = [@ EXCEPT ![a] = v]]
                   [] a = IFAddr -> [b EXCEPT !.iflag = Bits[v]]
                   [] a = IEAddr -> [b EXCEPT !.ie = Bits[v]]
                   [] OTHER -> b

\* write_u16: little endian, low byte first.
Poke16(b, a, w) == Poke(Poke(b, a, Lo[w]), Plus(a, 1), Hi[w])

\* The bytes a read may return.
Peek(a) == CASE a \in Ram -> {mem[a]}
             [] a = IFAddr -> {Flags[iflag]}
             [] a = IEAddr -> {Flags[ie]}
             [] OTHER -> Byte

\* read_u16.
Peek16(a) == {Join[lo][hi] : lo \in Peek(a), hi \in Peek(Plus(a, 1))}

SetBus(b) == /\ mem' = b.mem
             /\ iflag' = b.iflag
             /\ ie' = b.ie

-----------------------------------------------------------------------------
(* One step of the processor: CPU::Step *)

Pending == iflag \cap ie

Init == /\ busy = 0
        /\ pc = Entry
        /\ sp = Top
        /\ iflag = {}
        /\ ie = {}
        /\ ime = FALSE
        /\ halt = FALSE
        /\ mem = [a \in Ram |-> Zero]
        /\ event = <<"idle">>

\* CPU::Interrupt, called by a device through Machine::Interrupt.
Interrupt(s) == /\ iflag' = iflag \cup {s}
                /\ event' = <<"raise", s>>
                /\ UNCHANGED <<busy, pc, sp, ie, ime, halt, mem>>

\* Mutant: the request is acknowledged before the return address is pushed.
DispatchAckFirst ==
    /\ busy = 0
    /\ ime
    /\ \E s \in Pending :
          /\ \A t \in Pending : s <= t
          /\ SetBus(Poke16([Bus EXCEPT !.iflag = @ \ {s}], Minus(sp, 2), pc))
          /\ pc' = Vector[s]
          /\ event' = <<"service", s>>
    /\ sp' = Minus(sp, 2)
    /\ busy' = Spend(1)
    /\ ime' = FALSE
    /\ halt' = FALSE

\* Mutant: the bits of pending are tested from the other end.
DispatchLeastUrgent ==
    /\ busy = 0
    /\ ime
    /\ \E s \in Pending :
          LET b == Poke16(Bus, Minus(sp, 2), pc)
          IN  /\ \A t \in Pending : s >= t
              /\ SetBus([b EXCEPT !.iflag = @ \ {s}])
              /\ pc' = Vector[s]
              /\ event' = <<"service", s>>
    /\ sp' = Minus(sp, 2)
    /\ busy' = Spend(1)
    /\ ime' = FALSE
    /\ halt' = FALSE

\* Mutant: the master switch stays on in the handler.
DispatchKeepsIme ==
    /\ busy = 0
    /\ ime
    /\ \E s \in Pending :
          LET b == Poke16(Bus, Minus(sp, 2), pc)
          IN  /\ \A t \in Pending : s <= t
              /\ SetBus([b EXCEPT !.iflag = @ \ {s}])
              /\ pc' = Vector[s]
              /\ event' = <<"service", s>>
    /\ sp' = Minus(sp, 2)
    /\ busy' = Spend(1)
    /\ UNCHANGED ime
    /\ halt' = FALSE

\* The source to serve is chosen from the requests read before the return
\* address is pushed; its bit is cleared after.
Dispatch ==
    /\ busy = 0
    /\ ime
    /\ \E s \in Pending :
          LET b == Poke16(Bus, Minus(sp, 2), pc)
          IN  /\ \A t \in Pending : s <= t
              /\ SetBus([b EXCEPT !.iflag = @ \ {s}])
              /\ pc' = Vector[s]
              /\ event' = <<"service", s>>
    /\ sp' = Minus(sp, 2)
    /\ busy' = Spend(1)
    /\ ime' = FALSE
    /\ halt' = FALSE

Sleep == /\ busy = 0
         /\ halt
         /\ Pending = {}
         /\ busy' = Spend(1)
         /\ event' = <<"idle">>
         /\ UNCHANGED <<pc, sp, iflag, ie, ime, halt, mem>>

\* The conditions under which Step comes to fetch an instruction, and what every
\* instruction does: a pending request has cleared halt_ even with ime_ off.
Fetch(i) == /\ busy = 0
            /\ ~ (ime /\ Pending # {})
            /\ ~ (halt /\ Pending = {})
            /\ i \in Code[pc]
            /\ event' = <<"fetch">>

After(i) == Plus(pc, i.len)
Cost(c) == busy' = Spend(c)
Awake == halt' = FALSE

Plain(i) == /\ i.op = "plain" /\ Fetch(i) /\ Awake /\ Cost(i.cycles)
            /\ pc' = After(i)
            /\ UNCHANGED <<sp, iflag, ie, ime, mem>>

\* LD and the read-modify-write instructions with a memory operand.
Load(i) == /\ i.op = "ld" /\ Fetch(i) /\ Awake /\ Cost(i.cycles)
           /\ \E v \in Byte : SetBus(Poke(Bus, i.arg, v))
           /\ pc' = After(i)
           /\ UNCHANGED <<sp, ime>>

\* LD (imm16),SP, the one store of two bytes.
LoadSP(i) == /\ i.op = "ldsp" /\ Fetch(i) /\ Awake /\ Cost(i.cycles)
             /\ SetBus(Poke16(Bus, i.arg, sp))
             /\ pc' = After(i)
             /\ UNCHANGED <<sp, ime>>

\* LD SP,imm16, LD SP,HL, INC SP, DEC SP and ADD SP,imm8.
SetSP(i) == /\ i.op = "setsp" /\ Fetch(i) /\ Awake /\ Cost(i.cycles)
            /\ sp' = i.arg
            /\ pc' = After(i)
            /\ UNCHANGED <<iflag, ie, ime, mem>>

\* Mutant: the word is written before the stack pointer moves.
PushLate(i) == /\ i.op = "push" /\ Fetch(i) /\ Awake /\ Cost(i.cycles)
               /\ \E w \in Data : SetBus(Poke16(Bus, sp, w))
               /\ sp' = Minus(sp, 2)
               /\ pc' = After(i)
               /\ UNCHANGED ime

Push(i) == /\ i.op = "push" /\ Fetch(i) /\ Awake /\ Cost(i.cycles)
           /\ \E w \in Data : SetBus(Poke16(Bus, Minus(sp, 2), w))
           /\ sp' = Minus(sp, 2)
           /\ pc' = After(i)
           /\ UNCHANGED ime

\* Mutant: POP releases one byte.
PopShort(i) == /\ i.op = "pop" /\ Fetch(i) /\ Awake /\ Cost(i.cycles)
               /\ sp' = Plus(sp, 1)
               /\ pc' = After(i)
               /\ UNCHANGED <<iflag, ie, ime, mem>>

Pop(i) == /\ i.op = "pop" /\ Fetch(i) /\ Awake /\ Cost(i.cycles)
          /\ sp' = Plus(sp, 2)
          /\ pc' = After(i)
          /\ UNCHANGED <<iflag, ie, ime, mem>>

\* A conditional instruction that is not taken only costs its base cycles.
NotTaken(i) == /\ i.op \in {"jump", "call", "ret"} /\ i.cond
               /\ Fetch(i) /\ Awake /\ Cost(i.cycles)
               /\ pc' = After(i)
               /\ UNCHANGED <<sp, iflag, ie, ime, mem>>

Jump(i) == /\ i.op = "jump" /\ Fetch(i) /\ Awake /\ Cost(i.cycles + i.extra)
           /\ pc' = i.arg
           /\ UNCHANGED <<sp, iflag, ie, ime, mem>>

\* CALL and RST push the address behind the whole instruction.
Call(i) == /\ i.op = "call" /\ Fetch(i) /\ Awake /\ Cost(i.cycles + i.extra)
           /\ SetBus(Poke16(Bus, Minus(sp, 2), After(i)))
           /\ sp' = Minus(sp, 2)
           /\ pc' = i.arg
           /\ UNCHANGED ime

\* RET and RETI; RETI turns the master switch on in the same step.
Return(i) == /\ i.op \in {"ret", "reti"} /\ Fetch(i) /\ Awake
             /\ Cost(i.cycles + i.extra)
             /\ pc' \in Peek16(sp)
             /\ sp' = Plus(sp, 2)
             /\ ime' = (ime \/ i.op = "reti")
             /\ UNCHANGED <<iflag, ie, mem>>

\* EI and DI work at once.
Switch(i) == /\ i.op \in {"ei", "di"} /\ Fetch(i) /\ Awake /\ Cost(i.cycles)
             /\ ime' = (i.op = "ei")
             /\ pc' = After(i)
             /\ UNCHANGED <<sp, iflag, ie, mem>>

Halt(i) == /\ i.op = "halt" /\ Fetch(i) /\ Cost(i.cycles)
           /\ halt' = TRUE
           /\ pc' = After(i)
           /\ UNCHANGED <<sp, iflag, ie, ime, mem>>

\* Mutant: an operation without a case fails before its cycles are charged.
StopUncharged(i) == /\ i.op = "stop" /\ Fetch(i) /\ Awake /\ Cost(0)
                    /\ pc' = After(i)
                    /\ UNCHANGED <<sp, iflag, ie, ime, mem>>

\* Execute charges the cycles, then finds no case for OP_STOP and fails: the
\* step is reported bad but has the length and the cost of a no-op.
Stop(i) == /\ i.op = "stop" /\ Fetch(i) /\ Awake /\ Cost(i.cycles)
           /\ pc' = After(i)
           /\ UNCHANGED <<sp, iflag, ie, ime, mem>>

\* Step fails before Execute charges anything: busy_ is 0 when Tick subtracts.
Undefined(i) == /\ i.op = "undefined" /\ Fetch(i) /\ Awake /\ Cost(0)
                /\ pc' = After(i)
                /\ UNCHANGED <<sp, iflag, ie, ime, mem>>

Instruction(i) == \/ Plain(i) \/ Load(i) \/ LoadSP(i) \/ SetSP(i) \/ Push(i)
                  \/ Pop(i) \/ NotTaken(i) \/ Jump(i) \/ Call(i) \/ Return(i)
                  \/ Switch(i) \/ Halt(i) \/ Stop(i) \/ Undefined(i)

Step == Dispatch \/ Sleep \/ \E i \in Code[pc] : Instruction(i)

\* CPU::Tick between two steps.
Wait == /\ busy # 0
        /\ busy' = Spend(busy)
        /\ event' = <<"idle">>
        /\ UNCHANGED <<pc, sp, iflag, ie, ime, halt, mem>>

Tick == Step \/ Wait

Next == Tick \/ \E s \in Source : Interrupt(s)

Spec == Init /\ [][Next]_vars

-----------------------------------------------------------------------------
(* Properties *)

Event == {<<"idle">>, <<"fetch">>} \cup ({"raise", "service"} \X Source)

\* The values the fields can hold.
TypeOK == /\ busy \in 0 .. Wrapped
          /\ pc \in Word
          /\ sp \in Word
          /\ iflag \in SUBSET Source
          /\ ie \in SUBSET Source
          /\ ime \in BOOLEAN
          /\ halt \in BOOLEAN
          /\ mem \in [Ram -> Byte]
          /\ event \in Event

\* The busy counter runs below zero, and the processor never steps again, only
\* right behind an undefined opcode: every other step leaves cycles to spend, the
\* failing STOP included (the assertion of CPU::Tick, CPU.cc:623).
LockedOnlyBehindUndefined ==
    busy = Wrapped => \E i \in Code[Minus(pc, 1)] : i.op = "undefined"

\* The stack pointer is about to cover an interrupt register: the bytes a push
\* writes are those at sp - 2 and sp - 1.
Exposed == {Minus(sp, 1), Minus(sp, 2)} \cap {IFAddr, IEAddr} # {}

\* The processor is an interrupt controller in the sense of the abstract module:
\* no request is lost to a dispatch, the most urgent enabled one is served, no
\* instruction runs while one could be, and sleep ends only for a request.
Controller == INSTANCE InterruptController
    WITH requested <- iflag, enabled <- ie, master <- ime, halted <- halt,
         exposed <- Exposed, event <- event

ImplementsController == Controller!Spec
=============================================================================
