---------------------------- MODULE MCCallStack ----------------------------
(***************************************************************************)
(* A program in 32 addresses: it enables some interrupts, calls a          *)
(* subroutine that uses the stack, sleeps, and starts over. One handler    *)
(* calls the same subroutine, the other uses the stack directly; both end  *)
(* in RETI. The stack grows down from 28; IF and IE are at 29 and 31.      *)
(***************************************************************************)
EXTENDS CallStack

MCByte == 0 .. 7
MCWord == 0 .. 31
MCVector == [s \in 0 .. 1 |-> IF s = 0 THEN 2 ELSE 5]
MCLo == [w \in MCWord |-> w % 8]
MCHi == [w \in MCWord |-> w \div 8]
MCJoin == [lo \in MCByte |-> [hi \in MCByte |-> (lo + 8 * hi) % 32]]
MCBits == [b \in MCByte |-> {s \in 0 .. 1 : (b \div 2^s) % 2 = 1}]
MCFlags == [S \in SUBSET (0 .. 1) |->
              CHOOSE b \in 0 .. 3 : MCBits[b] = S]
MCRam == 16 .. 27

Ins(op, arg) == {[op |-> op, len |-> 1, cycles |-> 1, extra |-> 0,
                  cond |-> FALSE, arg |-> arg]}
If(op, arg) == {[op |-> op, len |-> 1, cycles |-> 1, extra |-> 1,
                 cond |-> TRUE, arg |-> arg]}

MCCode == [w \in MCWord |->
    CASE w = 2 -> Ins("push", 0)        \* handler of source 0
      [] w = 3 -> Ins("pop", 0)
      [] w = 4 -> Ins("reti", 0)
      [] w = 5 -> If("call", 13)        \* handler of source 1
      [] w = 6 -> Ins("reti", 0)
      [] w = 8 -> Ins("ld", 31)         \* main program
      [] w = 9 -> Ins("ei", 0)
      [] w = 10 -> Ins("call", 13)
      [] w = 11 -> Ins("halt", 0)
      [] w = 12 -> Ins("jump", 9)
      [] w = 13 -> Ins("push", 0)       \* subroutine
      [] w = 14 -> Ins("pop", 0)
      [] w = 15 -> Ins("ret", 0)
      [] OTHER -> Ins("jump", 8)]
=============================================================================
