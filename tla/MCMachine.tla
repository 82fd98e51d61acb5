----------------------------- MODULE MCMachine -----------------------------
(***************************************************************************)
(* A clock of 8 ticks, the processor's turn every second tick, the timer's *)
(* every fourth, the serial port's in one half; a divider of 8 values and  *)
(* a TIMA of 2. There are two programs: one uses the timer and writes its  *)
(* registers at any time, the other sends bytes. Both are interrupted by   *)
(* the LCD controller and sleep.                                           *)
(***************************************************************************)
EXTENDS Machine

VARIABLE program    \* which of them runs

MCBit == [s \in Select |-> <<4, 1, 2, 2>>[s + 1]]

mcVars == <<machineVars, program>>

MCInit == MachineInit /\ program \in {"timer", "serial"}

Same(v) == v' = v

\* What a program leaves alone; it enables all interrupts or none, and clears one
\* request or all.
LeavesAlone ==
    /\ IF program = "timer" THEN Same(bits) ELSE Same(<<tima, tma, tac>>)
    /\ enabled' \in {{}, Sources}
    /\ requested \ requested' \in {{}, requested} \cup {{s} : s \in Sources}

MCNext == MachineNext /\ LeavesAlone /\ UNCHANGED program

MCSpec == MCInit /\ [][MCNext]_mcVars /\ WF_mcVars(MachineNext /\ UNCHANGED program)
=============================================================================
