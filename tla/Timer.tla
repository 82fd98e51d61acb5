------------------------------- MODULE Timer -------------------------------
(***************************************************************************)
(* The timer (core/timer): a divider that counts every tick and a counter  *)
(* TIMA that counts the edges of one bit of it, reloads from TMA when it   *)
(* overflows and then raises the timer interrupt. The widths and the four  *)
(* bits TAC selects are constants.                                         *)
(***************************************************************************)
EXTENDS Integers

CONSTANTS
    FullMod,    \* the values of fulldiv_ (2^32)
    TimaMod,    \* the values of TIMA and TMA (2^8)
    Bit         \* the weight of the divider bit each value of TAC selects

Select == 0 .. 3    \* TAC bits 1-0

ASSUME WidthAssumption ==
    /\ FullMod \in Nat \ {0}
    /\ TimaMod \in Nat /\ TimaMod >= 2
    /\ Bit \in [Select -> Nat \ {0}]
    /\ \A s \in Select : FullMod % (2 * Bit[s]) = 0

VARIABLES
    fulldiv,    \* fulldiv_
    tima, tma,  \* tima_, tma_
    tac,        \* tac_: the enable bit and the selected rate
    did         \* the last call, and whether it raised the interrupt

vars == <<fulldiv, tima, tma, tac, did>>

Counter == 0 .. TimaMod - 1

Inc(n, mod) == IF n + 1 = mod THEN 0 ELSE n + 1

IsSet(n, bit) == (n \div bit) % 2 = 1

\* The constructor sets every register to zero.
Init == /\ fulldiv = 0
        /\ tima = 0
        /\ tma = 0
        /\ tac = [on |-> FALSE, sel |-> 0]
        /\ did = "start"

\* The selected bit is set by this tick and was not before.
Edge(prev, next) == tac.on /\ IsSet(next, Bit[tac.sel]) /\ ~ IsSet(prev, Bit[tac.sel])

\* Mutant: TIMA goes on from zero after an overflow.
TickNoReload ==
    LET next == Inc(fulldiv, FullMod)
        edge == Edge(fulldiv, next)
    IN  /\ fulldiv' = next
        /\ tima' = IF edge THEN Inc(tima, TimaMod) ELSE tima
        /\ did' = IF edge /\ Inc(tima, TimaMod) = 0 THEN "irq" ELSE "tick"
        /\ UNCHANGED <<tma, tac>>

\* Mutant: the overflow is looked for in the promoted sum, which is never zero.
TickPromoted ==
    LET next == Inc(fulldiv, FullMod)
        edge == Edge(fulldiv, next)
        over == edge /\ tima + 1 = 0
    IN  /\ fulldiv' = next
        /\ tima' = IF over THEN tma ELSE IF edge THEN Inc(tima, TimaMod) ELSE tima
        /\ did' = IF over THEN "irq" ELSE "tick"
        /\ UNCHANGED <<tma, tac>>

\* Timer::Tick.
Tick ==
    LET next == Inc(fulldiv, FullMod)
        edge == Edge(fulldiv, next)
        over == edge /\ Inc(tima, TimaMod) = 0
    IN  /\ fulldiv' = next
        /\ tima' = IF over THEN tma ELSE IF edge THEN Inc(tima, TimaMod) ELSE tima
        /\ did' = IF over THEN "irq" ELSE "tick"
        /\ UNCHANGED <<tma, tac>>

WriteTIMA(v) == tima' = v /\ did' = "write" /\ UNCHANGED <<fulldiv, tma, tac>>
WriteTMA(v) == tma' = v /\ did' = "write" /\ UNCHANGED <<fulldiv, tima, tac>>

\* Neither of the two counts an edge, whatever the selected bit was.
WriteTAC(on, sel) == /\ tac' = [on |-> on, sel |-> sel]
                     /\ did' = "write"
                     /\ UNCHANGED <<fulldiv, tima, tma>>
WriteDIV == fulldiv' = 0 /\ did' = "write" /\ UNCHANGED <<tima, tma, tac>>

Write == \/ \E v \in Counter : WriteTIMA(v) \/ WriteTMA(v)
         \/ \E on \in BOOLEAN, sel \in Select : WriteTAC(on, sel)
         \/ WriteDIV

Next == Tick \/ Write

Spec == Init /\ [][Next]_vars

-----------------------------------------------------------------------------
(* The time to the next edge *)

\* Ticks between two edges of the selected bit, and until the next one.
Width == 2 * Bit[tac.sel]
ToEdge == ((Bit[tac.sel] - fulldiv - 1) % Width) + 1
=============================================================================
