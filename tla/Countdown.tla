----------------------------- MODULE Countdown -----------------------------
(***************************************************************************)
(* A periodic interrupt as a program counts on it: while its source is on  *)
(* and nobody sets it anew, interrupts come exactly period ticks apart,    *)
(* and what only stops it for a while takes no time off it and adds none.  *)
(* The timer implements it (MachinePeriodic of module Machine), so do two  *)
(* interrupts of the LCD controller (VBlank and LycInterrupt of LCD), and  *)
(* a tone, where the end of a place in the wave, or of the wave itself,    *)
(* takes the interrupt's part (PlaceTime and WaveOrder of Tone).           *)
(***************************************************************************)
EXTENDS Integers

VARIABLES
    on,      \* the source is enabled
    left,    \* ticks until the next interrupt, while it is on
    period,  \* ticks between two interrupts
    did      \* the last thing that happened

vars == <<on, left, period, did>>

Init == did = "start"

\* A tick that brings the interrupt one step nearer.
Count == /\ on /\ left > 1
         /\ left' = left - 1
         /\ did' = "tick"
         /\ UNCHANGED <<on, period>>

\* The tick of the interrupt starts a whole new period.
Fire == /\ on /\ left = 1
        /\ left' = period
        /\ did' = "irq"
        /\ UNCHANGED <<on, period>>

\* A tick of a source that is off.
Idle == /\ ~on
        /\ did' = "tick"
        /\ UNCHANGED <<on, period>>

\* What is no tick of the source leaves the time as it is: the source may go on or
\* off, and the periods to come may be others.
Pause == did' = "pause" /\ left' = left /\ period' > 0

\* The program may set the source up differently; that raises no interrupt and
\* leaves it some time away.
Write == did' = "write" /\ left' > 0 /\ period' > 0

Next == Count \/ Fire \/ Idle \/ Pause \/ Write

Spec == Init /\ [][Next]_vars
=============================================================================
