------------------------ MODULE InterruptController ------------------------
(***************************************************************************)
(* What the CPU promises to the devices and to the program about           *)
(* interrupts, without saying how a step is carried out: a request stays   *)
(* pending until it is accepted or the program overwrites it; only an      *)
(* enabled request is accepted, the most urgent one first, with the master *)
(* switch on; accepting turns the master switch off; the processor sleeps  *)
(* until a request is pending and runs no instruction while one could be   *)
(* accepted.                                                               *)
(*                                                                         *)
(* Module CPU implements this one (CPU!Controller).                        *)
(***************************************************************************)
EXTENDS Integers

CONSTANT NSources     \* number of interrupt lines

VARIABLES
    requested,  \* the sources asking for service
    enabled,    \* the sources the program listens to
    master,     \* the master switch
    halted,     \* sleeping until an enabled source asks
    exposed,    \* the next push would land on the controller's own registers
    event       \* what the processor last reported to its observer

vars == <<requested, enabled, master, halted, exposed, event>>

Source == 0 .. NSources - 1     \* a lower number is more urgent

Pending == requested \cap enabled

Init == /\ requested = {}
        /\ enabled = {}
        /\ master = FALSE
        /\ halted = FALSE
        /\ event = <<"idle">>

\* A device asks for service.
Request(s) == /\ requested' = requested \cup {s}
              /\ event' = <<"raise", s>>
              /\ UNCHANGED <<enabled, master, halted, exposed>>

\* The processor enters the handler of s. The return address is pushed in the
\* course of it: only a push that lands on the registers may disturb another
\* source.
Accept(s) == /\ master
             /\ s \in Pending
             /\ \A t \in Pending : s <= t
             /\ master' = FALSE
             /\ halted' = FALSE
             /\ s \notin requested'
             /\ exposed \/ (requested' = requested \ {s} /\ enabled' = enabled)
             /\ event' = <<"service", s>>

\* The processor runs one instruction, which may write any of the registers.
Run == /\ ~ (master /\ Pending # {})
       /\ ~ (halted /\ Pending = {})
       /\ requested' \subseteq Source
       /\ enabled' \subseteq Source
       /\ event' = <<"fetch">>

\* A clock tick in which nothing is decided.
Pass == /\ event' = <<"idle">>
        /\ UNCHANGED <<requested, enabled, master, halted, exposed>>

Next == \/ \E s \in Source : Request(s) \/ Accept(s)
        \/ Run
        \/ Pass

Spec == Init /\ [][Next]_vars
=============================================================================
