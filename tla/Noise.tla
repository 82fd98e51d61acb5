------------------------------- MODULE Noise -------------------------------
(***************************************************************************)
(* The generator of the noise channel (core/audio/Channel4.cc): a shift    *)
(* register that is fed the difference of its two lowest bits, at its top  *)
(* and, in short mode, in the middle as well, and the divider that clocks  *)
(* it. Volume and length belong to module Audio; whether the channel is    *)
(* on, which they and the trigger decide, is gated here.                   *)
(***************************************************************************)
EXTENDS Integers

CONSTANTS
    Width, Short,   \* bits of the register (15), and of its short mode (7)
    Rates           \* the rates a program chooses from: NR43 bits 2-0 and 7-4

Code == 0 .. 7
Shift == 0 .. 15
Slot == 0 .. Width - 1
Register == [Slot -> BOOLEAN]

ASSUME WidthAssumption ==
    /\ Width \in Nat /\ Short \in Nat
    /\ 2 <= Short /\ Short < Width
ASSUME RateAssumption == Rates \subseteq [code : Code, shift : Shift]

VARIABLES
    sounding,   \* NR52 bits 7 and 3: TickOutput is called
    rate,       \* r3_ bits 2-0 and 7-4
    short,      \* r3_ bit 3
    lsfr,       \* lsfr_
    lsfr_div,   \* lsfr_div_
    high,       \* the output is the volume, not zero
    called,     \* the last call
    switched    \* history: short mode was entered since the last trigger

noiseVars == <<sounding, rate, short, lsfr, lsfr_div, high, called, switched>>

\* The value a trigger puts there.
Ones == [i \in Slot |-> TRUE]

NoiseInit ==
    /\ sounding = FALSE    \* NR52 begins as 0x7F
    /\ rate = [code |-> 0, shift |-> 0] /\ short = FALSE
    /\ lsfr = Ones /\ lsfr_div = 1
    /\ high = FALSE
    /\ called = "start"
    /\ switched = FALSE

\* Mutant: the bits are and-ed.
FeedbackAnd(r) == r[0] /\ r[1]

Feedback(r) == r[0] # r[1]

Shifted(r) == [i \in Slot |-> IF i = Width - 1 \/ (short /\ i = Short - 1)
                              THEN Feedback(r)
                              ELSE r[i + 1]]

\* The ticks between two steps of the register.
Period(rt) == (IF rt.code = 0 THEN 2 ELSE 8 * rt.code) * 2 ^ rt.shift

\* Channel4::TickOutput, which the two highest shifts stop altogether.
Stopped == rate.shift >= 14 /\ UNCHANGED <<lsfr, lsfr_div, high>>

Wait == /\ rate.shift < 14 /\ lsfr_div # 1
        /\ lsfr_div' = lsfr_div - 1
        /\ UNCHANGED <<lsfr, high>>

Step == /\ rate.shift < 14 /\ lsfr_div = 1
        /\ lsfr_div' = Period(rate)
        /\ lsfr' = Shifted(lsfr)
        /\ high' = ~ lsfr'[0]

NoiseTickOutput == Stopped \/ Wait \/ Step

\* Audio::Tick, as far as this channel sees it.
NoiseTick == /\ \/ sounding /\ NoiseTickOutput
                \/ ~sounding /\ UNCHANGED <<lsfr, lsfr_div, high>>
             /\ called' = "tick"
             /\ UNCHANGED <<sounding, rate, short, switched>>

\* WriteNR43. The divider goes on with the old rate until it runs down.
WriteNR43(rt, sh) == /\ rate' = rt
                     /\ short' = sh
                     /\ called' = "write"
                     /\ switched' = (switched \/ (sh /\ ~short))
                     /\ UNCHANGED <<sounding, lsfr, lsfr_div, high>>

\* Mutant: a trigger leaves the register as it is.
TriggerKeeps(b) == /\ sounding' = b
                   /\ called' = "write"
                   /\ switched' = FALSE
                   /\ UNCHANGED <<rate, short, lsfr, lsfr_div, high>>

\* WriteNR44 with bit 7; the channel comes on if the sound as a whole is.
Trigger(b) == /\ sounding' = b
              /\ lsfr' = Ones
              /\ called' = "write"
              /\ switched' = FALSE
              /\ UNCHANGED <<rate, short, lsfr_div, high>>

\* The length counter ran out, or a write to NR52 switched the sound off or on.
NoiseGate(b) == /\ sounding' = b
                /\ called' = "write"
                /\ UNCHANGED <<rate, short, lsfr, lsfr_div, high, switched>>

NoiseNext == \/ NoiseTick
             \/ \E rt \in Rates, sh \in BOOLEAN : WriteNR43(rt, sh)
             \/ \E b \in BOOLEAN : Trigger(b) \/ NoiseGate(b)

NoiseSpec == NoiseInit /\ [][NoiseNext]_noiseVars

\* Machine::Tick calls Audio::Tick on every second tick.
FairNoiseSpec == NoiseSpec /\ WF_noiseVars(NoiseTick)

-----------------------------------------------------------------------------
(* Properties *)

\* While the channel stays in the mode it was triggered in, or leaves short mode,
\* the register is never all zero, the state it could not leave; in short mode
\* the short register is not.
Alive ==
    ~switched => /\ \E i \in Slot : lsfr[i]
                 /\ short => \E i \in 0 .. Short - 1 : lsfr[i]

\* So the output keeps changing, at every rate that runs at all, if the channel
\* is left alone.
KeepsSounding ==
    (/\ <>[][NoiseTick]_noiseVars
     /\ <>[](sounding /\ rate.shift < 14 /\ ~switched)) => []<>high /\ []<>~high
=============================================================================
