------------------------------ MODULE OneShot ------------------------------
(***************************************************************************)
(* A note of limited length as a program counts on it: it ends exactly     *)
(* when its time is up, and before that only if something that may cut it  *)
(* short does so. Every channel of module Audio implements it.             *)
(***************************************************************************)
EXTENDS Integers

VARIABLES
    on,     \* the note sounds and its time is running
    left,   \* ticks until it ends
    cut,    \* something may end it before
    did     \* the last thing that happened

vars == <<on, left, cut, did>>

Init == did = "start"

Count == /\ on /\ left > 1
         /\ on' /\ left' = left - 1
         /\ did' = "tick"

End == /\ on /\ left = 1
       /\ ~on'
       /\ did' = "tick"

Cut == /\ on /\ cut
       /\ ~on'
       /\ did' = "tick"

\* A tick of a channel that is off or plays without limit.
Idle == /\ ~on /\ ~on'
        /\ did' = "tick"

\* What has nothing to do with the note leaves its time alone.
Pause == did' = "pause" /\ on' = on /\ left' = left

\* The program may start a note, stop it, or change its length: it never ends at once.
Write == did' = "write" /\ left' > 0

Next == Count \/ End \/ Cut \/ Idle \/ Pause \/ Write

Spec == Init /\ [][Next]_vars
=============================================================================
