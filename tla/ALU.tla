-------------------------------- MODULE ALU --------------------------------
(***************************************************************************)
(* Arithmetic of the processor (CPU::Execute in core/cpu/CPU.cc and the    *)
(* tables it is driven by): what every arithmetic, logic, rotate and bit   *)
(* instruction does to the registers and to the four flags, and the places *)
(* of these instructions in the two opcode tables.                         *)
(*                                                                         *)
(* Registers are eight bits wide, as in the code: the flags hang on the    *)
(* fourth, eighth, twelfth and sixteenth bit. "M" is the cell HL points    *)
(* at; the programs below never move HL while they use it. An instruction  *)
(* is <<page, code, immediate byte>>, page "op" or "cb".                   *)
(***************************************************************************)
EXTENDS Integers, Sequences

CONSTANT Sample     \* the bytes the programs for words and round trips begin with

ASSUME SampleAssumption == Sample \subseteq 0 .. 255

VARIABLES
    alu,    \* [reg, flag], the registers and the set of flags of F that are on
    start,  \* what alu was before the program
    task,   \* what the program is for
    aim,    \* the register and the bit a program for one bit is meant for
    prog    \* the instructions that are left

aluVars == <<alu, start, task, aim, prog>>

-----------------------------------------------------------------------------
(* Results: a byte and the flags it sets, the others of Z N H C being cleared *)

Nibble(n) == n % 16
When(p, g) == IF p THEN {g} ELSE {}
Kept(f, g) == f \cap {g}
Carry(f) == IF "C" \in f THEN 1 ELSE 0
\* Bytes bit by bit.
Bit(d, b) == (d \div 2^b) % 2
OfBits(b) == b[0] + 2 * b[1] + 4 * b[2] + 8 * b[3] + 16 * b[4] + 32 * b[5] + 64 * b[6] + 128 * b[7]
And(d, x) == OfBits([b \in 0 .. 7 |-> IF Bit(d, b) = 1 /\ Bit(x, b) = 1 THEN 1 ELSE 0])
Xor(d, x) == OfBits([b \in 0 .. 7 |-> IF Bit(d, b) # Bit(x, b) THEN 1 ELSE 0])
Or(d, x) == OfBits([b \in 0 .. 7 |-> IF Bit(d, b) = 1 \/ Bit(x, b) = 1 THEN 1 ELSE 0])

Yields(n, f) == [val |-> n % 256, flag |-> f \cup When(n % 256 = 0, "Z")]

\* Mutant: the half carry leaves out the carry that came in.
AddHalf(d, x, c) ==
    Yields(d + x + c, When(Nibble(d) + Nibble(x) > 15, "H") \cup When(d + x + c > 255, "C"))

Add8(d, x, c) ==
    Yields(d + x + c, When(Nibble(d) + Nibble(x) + c > 15, "H") \cup When(d + x + c > 255, "C"))

\* Mutant: the borrow is compared without the carry that came in.
SubtractLate(d, x, c) ==
    Yields(d - x - c, {"N"} \cup When(Nibble(d) - Nibble(x) - c < 0, "H") \cup When(d - x < 0, "C"))

\* In the code a difference below zero wraps in 32 bits and is found too large.
Subtract(d, x, c) ==
    Yields(d - x - c, {"N"} \cup When(Nibble(d) - Nibble(x) - c < 0, "H") \cup When(d - x - c < 0, "C"))

\* INC and DEC leave the carry alone.
Inc8(d, f) == Yields(d + 1, Kept(f, "C") \cup When(Nibble(d) = 15, "H"))
Dec8(d, f) == Yields(d - 1, Kept(f, "C") \cup {"N"} \cup When(Nibble(d) = 0, "H"))

\* The second digit is judged after the first one is adjusted; the carry is set
\* here and never cleared, and nothing is judged after a subtraction.
Daa(a, f) ==
    LET units == IF "H" \in f \/ ("N" \notin f /\ Nibble(a) > 9) THEN 6 ELSE 0
        up    == "C" \in f \/ a + units >= 160
    IN  IF "N" \in f
        THEN Yields(a - units - 96 * Carry(f), {"N"} \cup Kept(f, "C"))
        ELSE Yields(a + units + (IF up THEN 96 ELSE 0), When(up, "C"))

\* One accumulator operation of rows 80 to BF; CP is SUB without its result.
Accumulate(op, a, x, f) ==
    CASE op = "ADD" -> Add8(a, x, 0)
      [] op = "ADC" -> Add8(a, x, Carry(f))
      [] op \in {"SUB", "CP"} -> Subtract(a, x, 0)
      [] op = "SBC" -> Subtract(a, x, Carry(f))
      [] op = "AND" -> Yields(And(a, x), {"H"})
      [] op = "XOR" -> Yields(Xor(a, x), {})
      [] op = "OR"  -> Yields(Or(a, x), {})

\* The bit a rotate or shift pushes out becomes the carry; SWAP clears it.
Out(op, d) == CASE op \in {"RLC", "RL", "SLA"} -> d > 127
                [] op = "SWAP" -> FALSE
                [] OTHER -> d % 2 = 1

Rotated(op, d, f) ==
    CASE op = "RLC"  -> 2 * d + d \div 128
      [] op = "RL"   -> 2 * d + Carry(f)
      [] op = "SLA"  -> 2 * d
      [] op = "RRC"  -> d \div 2 + 128 * (d % 2)
      [] op = "RR"   -> d \div 2 + 128 * Carry(f)
      [] op = "SRA"  -> d \div 2 + (d - (d % 128))
      [] op = "SRL"  -> d \div 2
      [] op = "SWAP" -> 16 * (Nibble(d)) + d \div 16

Rotate(op, d, f) == Yields(Rotated(op, d, f), When(Out(op, d), "C"))

\* RLCA, RRCA, RLA and RRA clear Z, whatever the result.
RotateA(op, a, f) == [Rotate(op, a, f) EXCEPT !.flag = @ \ {"Z"}]

\* BIT writes its operand back unchanged.
OneBit(op, d, b, f) ==
    CASE op = "BIT" -> [val |-> d, flag |-> When(Bit(d, b) = 0, "Z") \cup {"H"} \cup Kept(f, "C")]
      [] op = "RES" -> [val |-> d - 2^b * Bit(d, b), flag |-> f]
      [] op = "SET" -> [val |-> d + 2^b * (1 - Bit(d, b)), flag |-> f]

-----------------------------------------------------------------------------
(* The tables: which instruction an opcode is *)

Operand == <<"B", "C", "D", "E", "H", "L", "M", "A">>

\* Mutant: rows 5A, 9A and DA, which ask for bit 3 of D, reset and set it, name E.
OperandSlip(code) == IF code \in {90, 154, 218} THEN "E" ELSE Operand[(code % 8) + 1]

OperandOf(code) == Operand[(code % 8) + 1]

RotateRow == <<"RLC", "RRC", "RL", "RR", "SLA", "SRA", "SWAP", "SRL">>
AccumulatorRow == <<"ADD", "ADC", "SUB", "SBC", "AND", "XOR", "OR", "CP">>
Nth(row, code) == row[((code \div 8) % 8) + 1]

High == <<"B", "D", "H">>
Low == <<"C", "E", "L">>
Pair(reg, p) == IF p = 3 THEN reg.SP ELSE 256 * reg[High[p + 1]] + reg[Low[p + 1]]
SetPair(reg, p, n) ==
    IF p = 3 THEN [reg EXCEPT !.SP = n % 65536]
             ELSE [reg EXCEPT ![High[p + 1]] = (n \div 256) % 256, ![Low[p + 1]] = n % 256]

\* A result in its place, and the flags.
Put(s, r, o) == [reg |-> [s.reg EXCEPT ![r] = o.val], flag |-> o.flag]
Flagged(s, f) == [s EXCEPT !.flag = f]

\* The second page: rotates, then BIT, RES and SET of every bit.
RotatePage(s, code) ==
    LET r == OperandOf(code)
    IN  Put(s, r, Rotate(Nth(RotateRow, code), s.reg[r], s.flag))
BitPage(s, code) == LET r == OperandOf(code)
                    IN  Put(s, r, OneBit("BIT", s.reg[r], (code \div 8) % 8, s.flag))
ResPage(s, code) == LET r == OperandOf(code)
                    IN  Put(s, r, OneBit("RES", s.reg[r], (code \div 8) % 8, s.flag))
SetPage(s, code) == LET r == OperandOf(code)
                    IN  Put(s, r, OneBit("SET", s.reg[r], (code \div 8) % 8, s.flag))

CBPage(s, code) == CASE code \in 0 .. 63    -> RotatePage(s, code)
                     [] code \in 64 .. 127  -> BitPage(s, code)
                     [] code \in 128 .. 191 -> ResPage(s, code)
                     [] code \in 192 .. 255 -> SetPage(s, code)

\* LD between registers, codes 40 to 7F (76 is HALT).
Copy(s, code) == [s EXCEPT !.reg[Operand[((code \div 8) % 8) + 1]] = s.reg[OperandOf(code)]]

AccumulatorPage(s, op, x) ==
    LET o == Accumulate(op, s.reg.A, x, s.flag)
    IN  IF op = "CP" THEN Flagged(s, o.flag) ELSE Put(s, "A", o)

\* The rows 07, 0F, ..., 3F.
OnA(s, code) ==
    LET a == s.reg.A
        f == s.flag
    IN  CASE code = 7  -> Put(s, "A", RotateA("RLC", a, f))
          [] code = 15 -> Put(s, "A", RotateA("RRC", a, f))
          [] code = 23 -> Put(s, "A", RotateA("RL", a, f))
          [] code = 31 -> Put(s, "A", RotateA("RR", a, f))
          [] code = 39 -> Put(s, "A", Daa(a, f))
          [] code = 47 -> Put(s, "A", [val |-> 255 - a, flag |-> f \cup {"N", "H"}])
          [] code = 55 -> Flagged(s, Kept(f, "Z") \cup {"C"})
          [] code = 63 -> Flagged(s, Kept(f, "Z") \cup ({"C"} \ f))

\* ADD HL,rr keeps Z; INC rr and DEC rr touch no flag.
AddPair(s, p) ==
    LET d == Pair(s.reg, 2)
        x == Pair(s.reg, p)
    IN  [reg  |-> SetPair(s.reg, 2, d + x),
         flag |-> Kept(s.flag, "Z") \cup When((d % 4096) + (x % 4096) > 4095, "H")
                      \cup When(d + x > 65535, "C")]
CountPair(s, p, n) == [s EXCEPT !.reg = SetPair(s.reg, p, Pair(s.reg, p) + n)]

\* ADD SP,e and LD HL,SP+e: e is signed, the flags are those of the low byte.
AddSP(s, p, e) ==
    LET signed == IF e > 127 THEN e - 256 ELSE e
    IN  [reg  |-> SetPair(s.reg, p, s.reg.SP + signed),
         flag |-> When(Nibble(s.reg.SP) + Nibble(e) > 15, "H")
                      \cup When((s.reg.SP % 256) + e > 255, "C")]

OpPage(s, code, e) ==
    LET r == Operand[((code \div 8) % 8) + 1]
        p == code \div 16
    IN  CASE code < 64 /\ code % 8 = 4  -> Put(s, r, Inc8(s.reg[r], s.flag))
          [] code < 64 /\ code % 8 = 5  -> Put(s, r, Dec8(s.reg[r], s.flag))
          [] code < 64 /\ code % 8 = 7  -> OnA(s, code)
          [] code < 64 /\ code % 16 = 3  -> CountPair(s, p, 1)
          [] code < 64 /\ code % 16 = 9  -> AddPair(s, p)
          [] code < 64 /\ code % 16 = 11 -> CountPair(s, p, -1)
          [] code \in (64 .. 127) \ {118} -> Copy(s, code)
          [] code \in 128 .. 191 -> AccumulatorPage(s, Nth(AccumulatorRow, code), s.reg[OperandOf(code)])
          [] code > 191 /\ code % 8 = 6 -> AccumulatorPage(s, Nth(AccumulatorRow, code), e)
          [] code = 232 -> AddSP(s, 3, e)
          [] code = 248 -> AddSP(s, 2, e)

Effect(i, s) == IF i[1] = "cb" THEN CBPage(s, i[2]) ELSE OpPage(s, i[2], i[3])

ALUStep == /\ prog # <<>>
           /\ alu' = Effect(Head(prog), alu)
           /\ prog' = Tail(prog)
           /\ UNCHANGED <<start, task, aim>>

-----------------------------------------------------------------------------
(* Programs *)

Ops(codes) == [n \in 1 .. Len(codes) |-> <<"op", codes[n], 0>>]
CBs(codes) == [n \in 1 .. Len(codes) |-> <<"cb", codes[n], 0>>]

\* One digit pair of a decimal number: ADC A,B; DAA and SBC A,B; DAA.
DecimalPrograms == [plus |-> Ops(<<136, 39>>), minus |-> Ops(<<152, 39>>)]

\* HL and DE, byte by byte with the carry between the bytes, or at once.
WordPrograms ==
    [sum        |-> Ops(<<125, 131, 111, 124, 138, 103>>),
     difference |-> Ops(<<125, 147, 111, 124, 154, 103>>),
     least      |-> Ops(<<125, 187, 124, 154>>),
     whole      |-> Ops(<<25>>),
     twice      |-> CBs(<<37, 20>>),
     itself     |-> Ops(<<41>>),
     half       |-> CBs(<<60, 29>>)]

\* Ways out and back for operand n: those that restore the carry as well ...
Exact(n) == {CBs(<<16 + n, 24 + n>>), CBs(<<24 + n, 16 + n>>),
             Ops(<<4 + 8 * n, 5 + 8 * n>>), Ops(<<5 + 8 * n, 4 + 8 * n>>),
             Ops(<<23, 31>>), Ops(<<31, 23>>), Ops(<<47, 47>>), Ops(<<63, 63>>)}
            \cup {Ops(<<16 * p + 3, 16 * p + 11>>) : p \in 0 .. 3}

\* ... and those that leave a carry of their own.
Loose(n) == {CBs(<<n, 8 + n>>), CBs(<<8 + n, n>>), CBs(<<32 + n, 24 + n>>),
             CBs(<<40 + n, 16 + n>>), CBs(<<56 + n, 16 + n>>), CBs(<<48 + n, 48 + n>>),
             Ops(<<7, 15>>), Ops(<<15, 7>>)}
            \cup (IF n = 7 THEN {} ELSE {Ops(<<128 + n, 144 + n>>), Ops(<<168 + n, 168 + n>>)})
            \cup {<<<<"op", 232, e>>, <<"op", 232, 256 - e>>>> : e \in Sample \ {0, 128}}
            \cup {<<<<"op", 198, e>>, <<"op", 214, e>>>> : e \in Sample}

\* Set or reset bit b of the register in column n, then ask for it.
SetAndAsk(n, b) == CBs(<<192 + 8 * b + n, 64 + 8 * b + n>>)
ResAndAsk(n, b) == CBs(<<128 + 8 * b + n, 64 + 8 * b + n>>)

Decimal == 0 .. 99
Bcd(n) == 16 * (n \div 10) + (n % 10)
Unbcd(b) == 10 * (b \div 16) + Nibble(b)

\* Everything else in the register file, so that a write to a wrong place shows.
Rest == [B |-> 17, C |-> 34, D |-> 51, E |-> 68, H |-> 85, L |-> 102, M |-> 119, A |-> 136,
         SP |-> 65534]

\* The columns of the second page.
Column == [B |-> 0, C |-> 1, D |-> 2, E |-> 3, H |-> 4, L |-> 5, M |-> 6, A |-> 7]
Nowhere == [reg |-> "none", bit |-> 0]

Begin(t, p, reg, flag) == /\ alu = [reg |-> reg, flag |-> flag]
                          /\ start = [reg |-> reg, flag |-> flag]
                          /\ task = t
                          /\ prog = p

DecimalInit == \E t \in DOMAIN DecimalPrograms, x, y \in Decimal, f \in SUBSET {"C"} :
    Begin(t, DecimalPrograms[t], [Rest EXCEPT !.A = Bcd(x), !.B = Bcd(y)], f)

WordInit == \E t \in DOMAIN WordPrograms, h, l, d, e \in Sample :
    Begin(t, WordPrograms[t], [Rest EXCEPT !.H = h, !.L = l, !.D = d, !.E = e], {"C", "Z"})

TripInit == \E n \in 0 .. 7, x, y \in Sample, f \in SUBSET {"C"} :
    LET reg == [Rest EXCEPT !.A = x, !.SP = 256 * x + y, ![Operand[n + 1]] = y]
    IN  \/ \E p \in Exact(n) : Begin("exact", p, reg, f)
        \/ \E p \in Loose(n) : Begin("loose", p, reg, f)

BitInit == \E r \in DOMAIN Column, b \in 0 .. 7, y \in Sample, f \in SUBSET {"C"} :
    LET reg == [Rest EXCEPT ![r] = y]
    IN  /\ aim = [reg |-> r, bit |-> b]
        /\ \/ Begin("set", SetAndAsk(Column[r], b), reg, f)
           \/ Begin("reset", ResAndAsk(Column[r], b), reg, f)

ALUInit == \/ (DecimalInit \/ WordInit \/ TripInit) /\ aim = Nowhere
           \/ BitInit

ALUSpec == ALUInit /\ [][ALUStep]_aluVars

-----------------------------------------------------------------------------
(* Properties *)

Done == prog = <<>>
Carries == "C" \in alu.flag
HL(s) == Pair(s.reg, 2)
DE(s) == Pair(s.reg, 1)

\* A decimal number can be added to and subtracted from two digits at a time: ADC
\* or SBC and the DAA behind it leave the two digits of the sum or difference and
\* its carry, for all digits and both carries, so a chain of any length is right.
DecimalStaysRight ==
    Done /\ task \in DOMAIN DecimalPrograms =>
        LET x == Unbcd(start.reg.A)
            y == Unbcd(start.reg.B)
            n == IF task = "plus" THEN x + y + Carry(start.flag) ELSE x - y - Carry(start.flag)
        IN  /\ alu.reg.A = Bcd(n % 100)
            /\ (Carries <=> n \notin Decimal)
            /\ ("Z" \in alu.flag <=> n % 100 = 0)

\* What a word operation must leave in HL, and whether it carries.
Word16(t) ==
    CASE t \in {"sum", "whole"} -> HL(start) + DE(start)
      [] t = "difference" -> HL(start) - DE(start)
      [] t \in {"twice", "itself"} -> 2 * HL(start)
      [] t = "half" -> HL(start) \div 2
      [] t = "least" -> HL(start)

Out16(t) ==
    \/ t = "half" /\ HL(start) % 2 = 1
    \/ t = "least" /\ HL(start) < DE(start)
    \/ t \notin {"half", "least"} /\ (Word16(t) < 0 \/ Word16(t) > 65535)

\* Words taken byte by byte, the carry of the first byte entering the second,
\* come out as the word instructions and as arithmetic have it, the final carry
\* (and the order of two words that CP and SBC find) included.
WordsStayRight ==
    Done /\ task \in DOMAIN WordPrograms =>
        /\ HL(alu) = Word16(task) % 65536
        /\ DE(alu) = DE(start)
        /\ (Carries <=> Out16(task))
        /\ task \in {"sum", "whole"} =>
              ("H" \in alu.flag <=> (HL(start) % 4096) + (DE(start) % 4096) > 4095)

\* A byte one of whose bits is x, whatever it was.
WithBit(d, b, x) == OfBits([c \in 0 .. 7 |-> IF c = b THEN x ELSE Bit(d, c)])

\* An instruction and its inverse leave the whole register file as it was, for
\* every operand of the tables; those of them that pass the carry through, or do
\* not touch it, restore that too. SET and RES of a bit of a register leave that
\* bit of that register set or clear, which BIT then finds, and all its other bits
\* and all other registers as they were.
TripsReturn ==
    Done =>
        /\ task \in {"exact", "loose"} => alu.reg = start.reg
        /\ task \in {"exact", "set", "reset"} => (Carries <=> "C" \in start.flag)
        /\ task \in {"set", "reset"} =>
              /\ alu.reg = [start.reg EXCEPT ![aim.reg] =
                               WithBit(@, aim.bit, IF task = "set" THEN 1 ELSE 0)]
              /\ ("Z" \in alu.flag <=> task = "reset")
=============================================================================
