------------------------------ MODULE MCAudio ------------------------------
(***************************************************************************)
(* There are two programs: one plays channel 1 with all it has, the sweep  *)
(* included, the other channel 2 and the wave channel at once. What a      *)
(* program does not play it never writes to.                               *)
(***************************************************************************)
EXTENDS Audio

VARIABLE program    \* the channels it plays

MCInit == Init /\ program \in {{1}, {2, 3}}
MCNext == (Tick \/ WriteTo(program)) /\ UNCHANGED program

MCSpec == MCInit /\ [][MCNext]_<<vars, program>>
=============================================================================
