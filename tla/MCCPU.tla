------------------------------- MODULE MCCPU -------------------------------
(***************************************************************************)
(* A processor small enough for TLC: eight addresses, bytes of two bits,   *)
(* two interrupt sources, two cells of memory between the vectors and the  *)
(* interrupt registers, and a memory that may hold any of a few            *)
(* instructions at each address, so that every instruction class meets     *)
(* every position of the stack, the registers included. Arithmetic needs   *)
(* bytes of eight bits and none of that: concern says which of the two a   *)
(* behaviour is about.                                                     *)
(***************************************************************************)
EXTENDS CPU, ALU

VARIABLE concern

MCVars == <<vars, aluVars, concern>>

MCInit == \/ /\ concern = "control"
             /\ Init
             /\ alu = <<>> /\ start = <<>> /\ task = "none" /\ aim = Nowhere /\ prog = <<>>
          \/ /\ concern = "arithmetic"
             /\ Init
             /\ ALUInit

MCNext == \/ concern = "control" /\ Next /\ UNCHANGED <<aluVars, concern>>
          \/ concern = "arithmetic" /\ ALUStep /\ UNCHANGED <<vars, concern>>

MCSpec == MCInit /\ [][MCNext]_MCVars

\* A byte for every value of a bit, and for the edges of both digits and the sign.
MCSample == {0, 1, 15, 16, 127, 128, 165, 240, 255}

MCByte == 0 .. 3
MCWord == 0 .. 7
MCVector == [s \in 0 .. 1 |-> 2 * s + 1]
MCLo == [w \in MCWord |-> w % 4]
MCHi == [w \in MCWord |-> w \div 4]
MCJoin == [lo \in MCByte |-> [hi \in MCByte |-> (lo + 4 * hi) % 8]]
MCBits == [b \in MCByte |-> {s \in 0 .. 1 : (b \div 2^s) % 2 = 1}]
MCFlags == [S \in SUBSET (0 .. 1) |->
              CHOOSE b \in MCByte : MCBits[b] = S]
MCRam == {1, 2}

Ins(op, len, cycles, extra, cond, arg) ==
    [op |-> op, len |-> len, cycles |-> cycles, extra |-> extra,
     cond |-> cond, arg |-> arg]

\* Every class somewhere, with an operand that reaches memory, IF or IE.
MCCode == [w \in MCWord |->
    CASE w = 0 -> {Ins("ei", 1, 1, 0, FALSE, 0), Ins("ld", 3, 2, 0, FALSE, 7)}
      [] w = 1 -> {Ins("ld", 1, 2, 0, FALSE, 5), Ins("halt", 1, 1, 0, FALSE, 0)}
      [] w = 2 -> {Ins("push", 1, 2, 0, FALSE, 0), Ins("stop", 2, 1, 0, FALSE, 0)}
      [] w = 3 -> {Ins("reti", 1, 2, 0, FALSE, 0), Ins("ldsp", 3, 2, 0, FALSE, 4)}
      [] w = 4 -> {Ins("call", 3, 2, 1, TRUE, 2), Ins("setsp", 3, 1, 0, FALSE, 3)}
      [] w = 5 -> {Ins("ret", 1, 1, 2, TRUE, 0), Ins("plain", 2, 1, 0, FALSE, 0)}
      [] w = 6 -> {Ins("jump", 2, 1, 1, TRUE, 4), Ins("pop", 1, 2, 0, FALSE, 0)}
      [] OTHER -> {Ins("di", 1, 1, 0, FALSE, 0), Ins("undefined", 1, 0, 0, FALSE, 0)}]
=============================================================================
