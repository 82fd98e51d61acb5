----------------------------- MODULE ALU_proofs -----------------------------
(***************************************************************************)
(* The arithmetic of the processor for all words and bytes the programs    *)
(* may begin with: decimal numbers, words taken byte by byte, and the ways *)
(* out and back. What a program has made of the registers is the effect of *)
(* its instructions one after the other (ALUInv); what an instruction      *)
(* does is then arithmetic on digits, on bytes and on bits.                *)
(***************************************************************************)
EXTENDS ALU, TLAPS

-----------------------------------------------------------------------------
(* Arithmetic: registers, flags and the places of the instructions *)

\* The registers, those that hold bytes, and the flags.
Registers == {"B", "C", "D", "E", "H", "L", "M", "A", "SP"}
Cells == Registers \ {"SP"}
FlagBits == {"Z", "N", "H", "C"}

\* Registers that hold bytes, and a word.
Typed(reg) == /\ reg \in [Registers -> Int]
              /\ \A r \in Cells : reg[r] \in 0 .. 255
              /\ 0 <= reg["SP"] /\ reg["SP"] < 65536

\* The operands of the tables.
LEMMA OperandIs ==
    /\ \A n \in 0 .. 7 : Operand[n + 1] \in Cells
    /\ \A r \in Cells : \E n \in 0 .. 7 : Operand[n + 1] = r
    /\ \A m, n \in 0 .. 7 : Operand[m + 1] = Operand[n + 1] => m = n
  BY DEF Operand, Cells, Registers

\* The fields of an opcode.
LEMMA Fields ==
    ASSUME NEW page \in {0, 64, 128, 192}, NEW k \in 0 .. 7, NEW n \in 0 .. 7,
           NEW code, code = page + 8 * k + n
    PROVE  /\ code \in page .. page + 63
           /\ OperandOf(code) = Operand[n + 1]
           /\ (code \div 8) % 8 = k
           /\ \A row : Nth(row, code) = row[k + 1]
  <1>1. code \in page .. page + 63
    OBVIOUS
  <1>2. code % 8 = n
    OBVIOUS
  <1>3. (code \div 8) % 8 = k
    OBVIOUS
  <1> QED
    BY <1>1, <1>2, <1>3 DEF OperandOf, Nth

\* A code of the second page is a rotate of one operand.
Turned(s, code, k, n) ==
    Effect(<<"cb", code, 0>>, s) =
        Put(s, Operand[n + 1], Rotate(RotateRow[k + 1], s.reg[Operand[n + 1]], s.flag))

\* Rows 00 to 3F of the second page: the row says which rotate, the column which operand.
LEMMA RotateIs ==
    ASSUME NEW s, NEW k \in 0 .. 7, NEW n \in 0 .. 7, NEW code, code = 8 * k + n
    PROVE  Turned(s, code, k, n)
  <1>1. /\ code \in 0 .. 63 /\ OperandOf(code) = Operand[n + 1]
        /\ Nth(RotateRow, code) = RotateRow[k + 1]
    BY Fields, 0 + 8 * k + n = 8 * k + n
  <1>2. CBPage(s, code) = RotatePage(s, code)
    BY <1>1 DEF CBPage
  <1>3. Effect(<<"cb", code, 0>>, s) = CBPage(s, code)
    BY DEF Effect
  <1> QED
    BY <1>1, <1>2, <1>3 DEF RotatePage, Turned

\* Rows 40 to FF of the second page: BIT, RES and SET of every bit of every operand.
LEMMA BitIs ==
    ASSUME NEW s, NEW b \in 0 .. 7, NEW n \in 0 .. 7
    PROVE  LET r == Operand[n + 1]
           IN  /\ Effect(<<"cb", 64 + 8 * b + n, 0>>, s) = Put(s, r, OneBit("BIT", s.reg[r], b, s.flag))
               /\ Effect(<<"cb", 128 + 8 * b + n, 0>>, s) = Put(s, r, OneBit("RES", s.reg[r], b, s.flag))
               /\ Effect(<<"cb", 192 + 8 * b + n, 0>>, s) = Put(s, r, OneBit("SET", s.reg[r], b, s.flag))
  <1>1. ASSUME NEW code, code = 64 + 8 * b + n
        PROVE  CBPage(s, code) = BitPage(s, code) /\ OperandOf(code) = Operand[n + 1] /\ (code \div 8) % 8 = b
    <2>1. code \in 64 .. 127 /\ OperandOf(code) = Operand[n + 1] /\ (code \div 8) % 8 = b
      BY <1>1, Fields
    <2> QED
      BY <2>1 DEF CBPage
  <1>2. ASSUME NEW code, code = 128 + 8 * b + n
        PROVE  CBPage(s, code) = ResPage(s, code) /\ OperandOf(code) = Operand[n + 1] /\ (code \div 8) % 8 = b
    <2>1. code \in 128 .. 191 /\ OperandOf(code) = Operand[n + 1] /\ (code \div 8) % 8 = b
      BY <1>2, Fields
    <2> QED
      BY <2>1 DEF CBPage
  <1>3. ASSUME NEW code, code = 192 + 8 * b + n
        PROVE  CBPage(s, code) = SetPage(s, code) /\ OperandOf(code) = Operand[n + 1] /\ (code \div 8) % 8 = b
    <2>1. code \in 192 .. 255 /\ OperandOf(code) = Operand[n + 1] /\ (code \div 8) % 8 = b
      BY <1>3, Fields
    <2> QED
      BY <2>1 DEF CBPage
  <1>4. \A code : Effect(<<"cb", code, 0>>, s) = CBPage(s, code)
    BY DEF Effect
  <1> QED
    BY <1>1, <1>2, <1>3, <1>4 DEF BitPage, ResPage, SetPage

\* A code is an accumulator operation with an operand, or with the byte behind it.
Accumulated(s, code, k, n) ==
    Effect(<<"op", code, 0>>, s) = AccumulatorPage(s, AccumulatorRow[k + 1], s.reg[Operand[n + 1]])

\* Rows 80 to BF: the row says which operation, the column which operand.
LEMMA AccumulateIs ==
    ASSUME NEW s, NEW k \in 0 .. 7, NEW n \in 0 .. 7, NEW code, code = 128 + 8 * k + n
    PROVE  Accumulated(s, code, k, n)
  <1>1. /\ code \in 128 .. 191 /\ OperandOf(code) = Operand[n + 1]
        /\ Nth(AccumulatorRow, code) = AccumulatorRow[k + 1]
    BY Fields
  <1>2. OpPage(s, code, 0) = AccumulatorPage(s, Nth(AccumulatorRow, code), s.reg[OperandOf(code)])
    BY <1>1 DEF OpPage
  <1>3. Effect(<<"op", code, 0>>, s) = OpPage(s, code, 0)
    BY DEF Effect
  <1> QED
    BY <1>1, <1>2, <1>3 DEF Accumulated

Immediate(s, code, k, e) == Effect(<<"op", code, e>>, s) = AccumulatorPage(s, AccumulatorRow[k + 1], e)

\* C6, CE, ..., FE: the same operations with the byte behind the opcode.
LEMMA ImmediateIs ==
    ASSUME NEW s, NEW e, NEW k \in 0 .. 7, NEW code, code = 192 + 8 * k + 6
    PROVE  Immediate(s, code, k, e)
  <1>1. /\ code \in 192 .. 255 /\ Nth(AccumulatorRow, code) = AccumulatorRow[k + 1]
    BY Fields
  <1>2. code % 8 = 6
    OBVIOUS
  <1>3. OpPage(s, code, e) = AccumulatorPage(s, Nth(AccumulatorRow, code), e)
    BY <1>1, <1>2 DEF OpPage
  <1>4. Effect(<<"op", code, e>>, s) = OpPage(s, code, e)
    BY DEF Effect
  <1> QED
    BY <1>1, <1>3, <1>4 DEF Immediate

\* A code is a load between two operands.
Copied(s, code, k, n) == Effect(<<"op", code, 0>>, s) = [s EXCEPT !.reg[Operand[k + 1]] = s.reg[Operand[n + 1]]]

\* Rows 40 to 7F, without HALT, are the loads.
LEMMA CopyIs ==
    ASSUME NEW s, NEW k \in 0 .. 7, NEW n \in 0 .. 7, k # 6 \/ n # 6, NEW code, code = 64 + 8 * k + n
    PROVE  Copied(s, code, k, n)
  <1>1. /\ code \in 64 .. 127 /\ OperandOf(code) = Operand[n + 1]
        /\ (code \div 8) % 8 = k
    BY Fields
  <1>2. code # 118
    OBVIOUS
  <1>3. OpPage(s, code, 0) = Copy(s, code)
    BY <1>1, <1>2 DEF OpPage
  <1>4. Effect(<<"op", code, 0>>, s) = OpPage(s, code, 0)
    BY DEF Effect
  <1> QED
    BY <1>1, <1>3, <1>4 DEF Copy, Copied

\* INC and DEC of a register.
LEMMA CountIs ==
    ASSUME NEW s, NEW n \in 0 .. 7
    PROVE  LET r == Operand[n + 1]
           IN  /\ Effect(<<"op", 4 + 8 * n, 0>>, s) = Put(s, r, Inc8(s.reg[r], s.flag))
               /\ Effect(<<"op", 5 + 8 * n, 0>>, s) = Put(s, r, Dec8(s.reg[r], s.flag))
  <1>1. ASSUME NEW code, code = 4 + 8 * n
        PROVE  Effect(<<"op", code, 0>>, s) = Put(s, Operand[n + 1], Inc8(s.reg[Operand[n + 1]], s.flag))
    <2>1. code < 64 /\ code % 8 = 4 /\ (code \div 8) % 8 = n
      BY <1>1
    <2>2. code % 16 # 3 /\ code % 16 # 9 /\ code % 16 # 11 /\ code \in Int
      BY <1>1
    <2>3. OpPage(s, code, 0) = Put(s, Operand[n + 1], Inc8(s.reg[Operand[n + 1]], s.flag))
      BY <2>1, <2>2 DEF OpPage
    <2> QED
      BY <2>3 DEF Effect
  <1>2. ASSUME NEW code, code = 5 + 8 * n
        PROVE  Effect(<<"op", code, 0>>, s) = Put(s, Operand[n + 1], Dec8(s.reg[Operand[n + 1]], s.flag))
    <2>1. code < 64 /\ code % 8 = 5 /\ (code \div 8) % 8 = n
      BY <1>2
    <2>2. code % 16 # 3 /\ code % 16 # 9 /\ code % 16 # 11 /\ code \in Int
      BY <1>2
    <2>3. OpPage(s, code, 0) = Put(s, Operand[n + 1], Dec8(s.reg[Operand[n + 1]], s.flag))
      BY <2>1, <2>2 DEF OpPage
    <2> QED
      BY <2>3 DEF Effect
  <1> QED
    BY <1>1, <1>2

\* The instructions on A alone.
LEMMA OnAIs ==
    ASSUME NEW s
    PROVE  /\ Effect(<<"op", 7, 0>>, s) = Put(s, "A", RotateA("RLC", s.reg.A, s.flag))
           /\ Effect(<<"op", 15, 0>>, s) = Put(s, "A", RotateA("RRC", s.reg.A, s.flag))
           /\ Effect(<<"op", 23, 0>>, s) = Put(s, "A", RotateA("RL", s.reg.A, s.flag))
           /\ Effect(<<"op", 31, 0>>, s) = Put(s, "A", RotateA("RR", s.reg.A, s.flag))
           /\ Effect(<<"op", 39, 0>>, s) = Put(s, "A", Daa(s.reg.A, s.flag))
           /\ Effect(<<"op", 47, 0>>, s) =
                 Put(s, "A", [val |-> 255 - s.reg.A, flag |-> s.flag \cup {"N", "H"}])
           /\ Effect(<<"op", 63, 0>>, s) = Flagged(s, Kept(s.flag, "Z") \cup ({"C"} \ s.flag))
  <1>1. \A code \in {7, 15, 23, 31, 39, 47, 63} : Effect(<<"op", code, 0>>, s) = OnA(s, code)
    <2> SUFFICES ASSUME NEW code \in {7, 15, 23, 31, 39, 47, 63}
                 PROVE  Effect(<<"op", code, 0>>, s) = OnA(s, code)
      OBVIOUS
    <2>1. code < 64 /\ code % 8 = 7 /\ code % 16 # 3 /\ code % 16 # 9 /\ code % 16 # 11
      OBVIOUS
    <2>2. OpPage(s, code, 0) = OnA(s, code)
      BY <2>1 DEF OpPage
    <2> QED
      BY <2>2 DEF Effect
  <1> QED
    BY <1>1 DEF OnA

\* The instructions on pairs.
LEMMA PairIs ==
    ASSUME NEW s, NEW p \in 0 .. 3
    PROVE  /\ Effect(<<"op", 16 * p + 3, 0>>, s) = CountPair(s, p, 1)
           /\ Effect(<<"op", 16 * p + 11, 0>>, s) = CountPair(s, p, -1)
           /\ Effect(<<"op", 16 * p + 9, 0>>, s) = AddPair(s, p)
  <1>1. ASSUME NEW d \in {3, 9, 11}, NEW code, code = 16 * p + d
        PROVE  /\ Effect(<<"op", code, 0>>, s) = OpPage(s, code, 0)
               /\ code \div 16 = p /\ code % 16 = d /\ code < 64
               /\ code % 8 # 4 /\ code % 8 # 5 /\ code % 8 # 7
    <2>1. /\ code \div 16 = p /\ code % 16 = d /\ code < 64
          /\ code % 8 # 4 /\ code % 8 # 5 /\ code % 8 # 7
      BY <1>1
    <2>2. Effect(<<"op", code, 0>>, s) = OpPage(s, code, 0)
      BY DEF Effect
    <2> QED
      BY <2>1, <2>2
  <1>2. ASSUME NEW code, code = 16 * p + 3 PROVE Effect(<<"op", code, 0>>, s) = CountPair(s, p, 1)
    BY <1>1, <1>2 DEF OpPage
  <1>3. ASSUME NEW code, code = 16 * p + 11 PROVE Effect(<<"op", code, 0>>, s) = CountPair(s, p, -1)
    BY <1>1, <1>3 DEF OpPage
  <1>4. ASSUME NEW code, code = 16 * p + 9 PROVE Effect(<<"op", code, 0>>, s) = AddPair(s, p)
    BY <1>1, <1>4 DEF OpPage
  <1> QED
    BY <1>2, <1>3, <1>4

\* E8 adds a signed byte to SP.
LEMMA AddSPIs ==
    ASSUME NEW s, NEW e PROVE Effect(<<"op", 232, e>>, s) = AddSP(s, 3, e)
  <1>1. OpPage(s, 232, e) = AddSP(s, 3, e)
    BY DEF OpPage
  <1> QED
    BY <1>1 DEF Effect

\* A number is its quotient times the divisor, and its remainder.
LEMMA Divided ==
    ASSUME NEW n \in Int, NEW m \in Nat \ {0}
    PROVE  \E q \in Int, r \in 0 .. m - 1 : n = m * q + r /\ n \div m = q /\ n % m = r
  <1>1. PICK q \in Int, r \in Int : q = n \div m /\ r = n % m
    OBVIOUS
  <1>2. n = m * q + r /\ r \in 0 .. m - 1
    BY <1>1
  <1> QED
    BY <1>1, <1>2

\* No other quotient and remainder fit.
LEMMA Divides ==
    ASSUME NEW n \in Int, NEW m \in Nat \ {0}, NEW q \in Int, NEW r \in 0 .. m - 1, n = m * q + r
    PROVE  n \div m = q /\ n % m = r
  <1>1. PICK e \in Int, p \in 0 .. m - 1 : n = m * e + p /\ n \div m = e /\ n % m = p
    BY Divided
  <1>2. m * (q - e) = p - r
    BY <1>1
  <1>3. q = e
    <2>1. ASSUME q > e PROVE FALSE
      <3>1. q - e >= 1 /\ q - e \in Int
        BY <2>1
      <3>2. m * (q - e) >= m
        BY <3>1
      <3> QED
        BY <1>2, <3>2
    <2>2. ASSUME q < e PROVE FALSE
      <3>1. e - q >= 1 /\ e - q \in Int
        BY <2>2
      <3>2. m * (e - q) >= m
        BY <3>1
      <3>3. m * (e - q) = r - p
        BY <1>1
      <3> QED
        BY <3>2, <3>3
    <2> QED
      BY <2>1, <2>2
  <1> QED
    BY <1>1, <1>3

\* A byte and flags.
Outcome(o) == o.val \in 0 .. 255 /\ o.flag \in SUBSET FlagBits

\* What an operation yields: the number is taken round to a byte, and Z says whether it
\* is 0.
Yielded(n, f, o) ==
    /\ Outcome(o)
    /\ \E q \in Int : n = 256 * q + o.val
    /\ \A g \in {"N", "H", "C"} : g \in o.flag <=> g \in f
    /\ "Z" \in o.flag <=> o.val = 0
    /\ Carry(o.flag) = Carry(f)

\* Results are of this kind, whatever the number.
LEMMA YieldsIs ==
    ASSUME NEW n \in Int, NEW f \in SUBSET {"N", "H", "C"}
    PROVE  Yielded(n, f, Yields(n, f))
  <1>1. PICK q \in Int, v \in 0 .. 255 : n = 256 * q + v /\ n % 256 = v
    BY Divided
  <1>2. Yields(n, f) = [val |-> v, flag |-> f \cup When(v = 0, "Z")]
    BY <1>1 DEF Yields
  <1>3. /\ When(v = 0, "Z") \in SUBSET {"Z"}
        /\ "Z" \in When(v = 0, "Z") <=> v = 0
    BY DEF When
  <1>4. \E p \in Int : n = 256 * p + v
    BY <1>1
  <1>5. PICK o : o = Yields(n, f)
    OBVIOUS
  <1>6. o.val = v /\ o.flag = f \cup When(v = 0, "Z")
    BY <1>2, <1>5
  <1>7. Outcome(o) /\ (\A g \in {"N", "H", "C"} : g \in o.flag <=> g \in f) /\ ("Z" \in o.flag <=> o.val = 0)
    BY <1>3, <1>6 DEF Outcome, FlagBits
  <1>8. Carry(o.flag) = Carry(f)
    BY <1>7 DEF Carry
  <1> QED
    BY <1>4, <1>5, <1>6, <1>7, <1>8 DEF Yielded

\* A carry as a number.
LEMMA CarryIs ==
    \A f : Carry(f) \in {0, 1} /\ (Carry(f) = 1 <=> "C" \in f) /\ (Carry(f) = 0 <=> "C" \notin f)
  BY DEF Carry

\* A sum with a carry, and what the flags say of it.
Added(d, x, c, o) ==
    /\ \E k \in {0, 1}, v \in 0 .. 255 : k = Carry(o.flag) /\ v = o.val /\ d + x + c = 256 * k + v
    /\ "H" \in o.flag <=> (d % 16) + (x % 16) + c > 15
    /\ "N" \notin o.flag
    /\ "Z" \in o.flag <=> o.val = 0
    /\ Outcome(o)

\* ADD and ADC: the half carry and the carry say whether the digits and the bytes overflow.
LEMMA AddIs ==
    ASSUME NEW d \in 0 .. 255, NEW x \in 0 .. 255, NEW c \in {0, 1}
    PROVE  Added(d, x, c, Add8(d, x, c))
  <1>1. PICK o : o = Add8(d, x, c)
    OBVIOUS
  <1> DEFINE f == When(Nibble(d) + Nibble(x) + c > 15, "H") \cup When(d + x + c > 255, "C")
  <1>2. /\ f \in SUBSET {"N", "H", "C"} /\ "N" \notin f
        /\ "H" \in f <=> (d % 16) + (x % 16) + c > 15
        /\ Carry(f) = IF d + x + c > 255 THEN 1 ELSE 0
    BY DEF When, Nibble, Carry
  <1>3. o = Yields(d + x + c, f)
    BY <1>1 DEF Add8
  <1> HIDE DEF f
  <1>4. d + x + c \in Int
    OBVIOUS
  <1>5. /\ Outcome(o)
        /\ \E q \in Int : d + x + c = 256 * q + o.val
        /\ \A g \in {"N", "H", "C"} : g \in o.flag <=> g \in f
        /\ "Z" \in o.flag <=> o.val = 0
        /\ Carry(o.flag) = Carry(f)
    BY <1>2, <1>3, <1>4, YieldsIs DEF Yielded
  <1>6. PICK v \in 0 .. 255 : v = o.val
    BY <1>5 DEF Outcome
  <1>7. PICK q \in Int : d + x + c = 256 * q + v
    BY <1>5, <1>6
  <1>8. PICK k \in {0, 1} : k = Carry(o.flag) /\ k = IF d + x + c > 255 THEN 1 ELSE 0
    BY <1>2, <1>5
  <1>9. q = k
    BY <1>7, <1>8
  <1>10. d + x + c = 256 * k + v
    BY <1>7, <1>9
  <1>11. k = Carry(o.flag) /\ v = o.val /\ d + x + c = 256 * k + v
    BY <1>6, <1>8, <1>10
  <1>12. \E kk \in {0, 1}, vv \in 0 .. 255 : kk = Carry(o.flag) /\ vv = o.val /\ d + x + c = 256 * kk + vv
    BY <1>11
  <1>13. /\ "H" \in o.flag <=> "H" \in f
         /\ "N" \in o.flag <=> "N" \in f
    BY <1>5
  <1>14. Added(d, x, c, o)
    BY <1>2, <1>5, <1>12, <1>13 DEF Added
  <1> QED
    BY <1>1, <1>14

\* A difference with a borrow, and what the flags say of it.
Subtracted(d, x, c, o) ==
    /\ \E k \in {0, 1}, v \in 0 .. 255 : k = Carry(o.flag) /\ v = o.val /\ d - x - c = v - 256 * k
    /\ "H" \in o.flag <=> (d % 16) - (x % 16) - c < 0
    /\ "N" \in o.flag
    /\ "Z" \in o.flag <=> o.val = 0
    /\ Outcome(o)

\* SUB, SBC and CP: the same of a difference that falls below zero.
LEMMA SubtractIs ==
    ASSUME NEW d \in 0 .. 255, NEW x \in 0 .. 255, NEW c \in {0, 1}
    PROVE  Subtracted(d, x, c, Subtract(d, x, c))
  <1>1. PICK o : o = Subtract(d, x, c)
    OBVIOUS
  <1> DEFINE f == {"N"} \cup When(Nibble(d) - Nibble(x) - c < 0, "H") \cup When(d - x - c < 0, "C")
  <1>2. /\ f \in SUBSET {"N", "H", "C"} /\ "N" \in f
        /\ "H" \in f <=> (d % 16) - (x % 16) - c < 0
        /\ Carry(f) = IF d - x - c < 0 THEN 1 ELSE 0
    BY DEF When, Nibble, Carry
  <1>3. o = Yields(d - x - c, f)
    BY <1>1 DEF Subtract
  <1> HIDE DEF f
  <1>4. d - x - c \in Int
    OBVIOUS
  <1>5. /\ Outcome(o)
        /\ \E q \in Int : d - x - c = 256 * q + o.val
        /\ \A g \in {"N", "H", "C"} : g \in o.flag <=> g \in f
        /\ "Z" \in o.flag <=> o.val = 0
        /\ Carry(o.flag) = Carry(f)
    BY <1>2, <1>3, <1>4, YieldsIs DEF Yielded
  <1>6. PICK v \in 0 .. 255 : v = o.val
    BY <1>5 DEF Outcome
  <1>7. PICK q \in Int : d - x - c = 256 * q + v
    BY <1>5, <1>6
  <1>8. PICK k \in {0, 1} : k = Carry(o.flag) /\ k = IF d - x - c < 0 THEN 1 ELSE 0
    BY <1>2, <1>5
  <1>9. q = 0 - k
    BY <1>7, <1>8
  <1>10. d - x - c = v - 256 * k
    BY <1>7, <1>9
  <1>11. k = Carry(o.flag) /\ v = o.val /\ d - x - c = v - 256 * k
    BY <1>6, <1>8, <1>10
  <1>12. \E kk \in {0, 1}, vv \in 0 .. 255 : kk = Carry(o.flag) /\ vv = o.val /\ d - x - c = vv - 256 * kk
    BY <1>11
  <1>13. /\ "H" \in o.flag <=> "H" \in f
         /\ "N" \in o.flag <=> "N" \in f
    BY <1>5
  <1>14. Subtracted(d, x, c, o)
    BY <1>2, <1>5, <1>12, <1>13 DEF Subtracted
  <1> QED
    BY <1>1, <1>14

\* Steps up and down by one leave the carry.
Counted(d, f) ==
    /\ Outcome(Inc8(d, f)) /\ Carry(Inc8(d, f).flag) = Carry(f)
    /\ Inc8(d, f).val = IF d = 255 THEN 0 ELSE d + 1
    /\ Outcome(Dec8(d, f)) /\ Carry(Dec8(d, f).flag) = Carry(f)
    /\ Dec8(d, f).val = IF d = 0 THEN 255 ELSE d - 1

\* INC and DEC of a byte.
LEMMA CountedIs == ASSUME NEW d \in 0 .. 255, NEW f PROVE Counted(d, f)
  <1> DEFINE u == Kept(f, "C") \cup When(Nibble(d) = 15, "H")
             v == Kept(f, "C") \cup {"N"} \cup When(Nibble(d) = 0, "H")
  <1>1. u \in SUBSET {"N", "H", "C"} /\ Carry(u) = Carry(f)
    BY DEF When, Kept, Carry
  <1>2. v \in SUBSET {"N", "H", "C"} /\ Carry(v) = Carry(f)
    BY DEF When, Kept, Carry
  <1>3. PICK o, p : o = Yields(d + 1, u) /\ p = Yields(d - 1, v)
    OBVIOUS
  <1>4. Inc8(d, f) = o /\ Dec8(d, f) = p
    BY <1>3 DEF Inc8, Dec8
  <1> HIDE DEF u, v
  <1>5. d + 1 \in Int /\ d - 1 \in Int
    OBVIOUS
  <1>6. Outcome(o) /\ Carry(o.flag) = Carry(u) /\ \E q \in Int : d + 1 = 256 * q + o.val
    BY <1>1, <1>3, <1>5, YieldsIs DEF Yielded
  <1>7. Outcome(p) /\ Carry(p.flag) = Carry(v) /\ \E q \in Int : d - 1 = 256 * q + p.val
    BY <1>2, <1>3, <1>5, YieldsIs DEF Yielded
  <1>8. PICK q \in Int : d + 1 = 256 * q + o.val
    BY <1>6
  <1>9. PICK r \in Int : d - 1 = 256 * r + p.val
    BY <1>7
  <1>10. o.val \in 0 .. 255 /\ p.val \in 0 .. 255
    BY <1>6, <1>7 DEF Outcome
  <1>11. o.val = IF d = 255 THEN 0 ELSE d + 1
    <2>1. q = 0 \/ q = 1
      BY <1>8, <1>10
    <2> QED
      BY <1>8, <1>10, <2>1
  <1>12. p.val = IF d = 0 THEN 255 ELSE d - 1
    BY <1>9, <1>10, SMTT(30)
  <1> QED
    BY <1>1, <1>2, <1>4, <1>6, <1>7, <1>11, <1>12 DEF Counted

\* A byte moved up by one place, c coming in and the carry going out, and down.
MovedUp(d, c, o) == Outcome(o) /\ c \in {0, 1} /\ 2 * d + c = 256 * Carry(o.flag) + o.val
MovedDown(d, c, o) == Outcome(o) /\ c \in {0, 1} /\ d + 256 * c = 2 * o.val + Carry(o.flag)

\* A rotate, from the number it makes and the bit it pushes out.
LEMMA RotateGives ==
    ASSUME NEW op, NEW d, NEW f, NEW n \in Int, Rotated(op, d, f) = n,
           NEW out \in {0, 1}, Out(op, d) <=> out = 1
    PROVE  LET o == Rotate(op, d, f)
           IN  Outcome(o) /\ Carry(o.flag) = out /\ \E q \in Int : n = 256 * q + o.val
  <1> DEFINE g == When(Out(op, d), "C")
  <1>1. g \in SUBSET {"N", "H", "C"} /\ Carry(g) = out
    BY DEF When, Carry
  <1>2. Rotate(op, d, f) = Yields(n, g)
    BY DEF Rotate
  <1> HIDE DEF g
  <1> QED
    BY <1>1, <1>2, YieldsIs DEF Yielded

\* The rotates to the left move up ...
LEMMA RotatesLeft ==
    ASSUME NEW d \in 0 .. 255, NEW f
    PROVE  /\ MovedUp(d, Carry(f), Rotate("RL", d, f))
           /\ MovedUp(d, Carry(Rotate("RLC", d, f).flag), Rotate("RLC", d, f))
           /\ MovedUp(d, 0, Rotate("SLA", d, f))
  <1>1. PICK out \in {0, 1} : out = IF d > 127 THEN 1 ELSE 0
    OBVIOUS
  <1>2. ASSUME NEW op \in {"RLC", "RL", "SLA"}, NEW c \in {0, 1}, Rotated(op, d, f) = 2 * d + c
        PROVE  MovedUp(d, c, Rotate(op, d, f)) /\ Carry(Rotate(op, d, f).flag) = out
    <2>1. Out(op, d) <=> out = 1
      BY <1>1 DEF Out
    <2>2. PICK n \in Int : n = 2 * d + c
      OBVIOUS
    <2>3. PICK o : o = Rotate(op, d, f)
      OBVIOUS
    <2>4. Outcome(o) /\ Carry(o.flag) = out /\ \E q \in Int : n = 256 * q + o.val
      BY <1>2, <2>1, <2>2, <2>3, RotateGives
    <2>5. PICK q \in Int : n = 256 * q + o.val
      BY <2>4
    <2>6. o.val \in 0 .. 255
      BY <2>4 DEF Outcome
    <2>7. q = out
      BY <1>1, <2>2, <2>5, <2>6
    <2> QED
      BY <2>2, <2>3, <2>4, <2>5, <2>7 DEF MovedUp
  <1>3. Rotated("RL", d, f) = 2 * d + Carry(f)
    BY DEF Rotated
  <1>4. Rotated("SLA", d, f) = 2 * d + 0
    BY DEF Rotated
  <1>5. Rotated("RLC", d, f) = 2 * d + out
    <2>1. d \div 128 = out
      BY <1>1
    <2> QED
      BY <2>1 DEF Rotated
  <1> QED
    BY <1>2, <1>3, <1>4, <1>5, CarryIs

\* ... and those to the right down; SRA doubles the sign.
LEMMA RotatesRight ==
    ASSUME NEW d \in 0 .. 255, NEW f
    PROVE  /\ MovedDown(d, Carry(f), Rotate("RR", d, f))
           /\ MovedDown(d, Carry(Rotate("RRC", d, f).flag), Rotate("RRC", d, f))
           /\ MovedDown(d, 0, Rotate("SRL", d, f))
           /\ \E c \in {0, 1} : MovedDown(d, c, Rotate("SRA", d, f))
  <1>1. PICK h \in Int, out \in 0 .. 1 : d = 2 * h + out /\ d \div 2 = h /\ d % 2 = out
    BY Divided
  <1>2. ASSUME NEW op \in {"RRC", "RR", "SRL", "SRA"}, NEW c \in {0, 1}, Rotated(op, d, f) = h + 128 * c
        PROVE  MovedDown(d, c, Rotate(op, d, f)) /\ Carry(Rotate(op, d, f).flag) = out
    <2>1. Out(op, d) <=> out = 1
      BY <1>1 DEF Out
    <2>2. PICK n \in Int : n = h + 128 * c
      OBVIOUS
    <2>3. PICK o : o = Rotate(op, d, f)
      OBVIOUS
    <2>4. Outcome(o) /\ Carry(o.flag) = out /\ \E q \in Int : n = 256 * q + o.val
      BY <1>2, <2>1, <2>2, <2>3, RotateGives
    <2>5. PICK q \in Int : n = 256 * q + o.val
      BY <2>4
    <2>6. o.val \in 0 .. 255
      BY <2>4 DEF Outcome
    <2>7. q = 0
      BY <1>1, <2>2, <2>5, <2>6
    <2>8. d + 256 * c = 2 * o.val + out
      BY <1>1, <2>2, <2>5, <2>6, <2>7
    <2> QED
      BY <2>3, <2>4, <2>8 DEF MovedDown
  <1>3. Rotated("RR", d, f) = h + 128 * Carry(f)
    BY <1>1 DEF Rotated
  <1>4. Rotated("SRL", d, f) = h + 128 * 0
    BY <1>1 DEF Rotated
  <1>5. Rotated("RRC", d, f) = h + 128 * out
    BY <1>1 DEF Rotated
  <1>6. \E c \in {0, 1} : Rotated("SRA", d, f) = h + 128 * c
    <2>1. d - (d % 128) = 128 * 0 \/ d - (d % 128) = 128 * 1
      OBVIOUS
    <2> QED
      BY <1>1, <2>1 DEF Rotated
  <1> QED
    BY <1>2, <1>3, <1>4, <1>5, <1>6, CarryIs

\* SWAP exchanges the digits.
LEMMA Swaps ==
    ASSUME NEW p \in 0 .. 15, NEW q \in 0 .. 15, NEW d, d = 16 * p + q, NEW f
    PROVE  Outcome(Rotate("SWAP", d, f)) /\ Rotate("SWAP", d, f).val = 16 * q + p
  <1>1. d \div 16 = p /\ d % 16 = q
    BY Divides
  <1>2. Rotated("SWAP", d, f) = 16 * q + p
    BY <1>1 DEF Rotated, Nibble
  <1>3. Out("SWAP", d) <=> 0 = 1
    BY DEF Out
  <1>4. PICK n \in Int : n = 16 * q + p
    OBVIOUS
  <1>5. PICK o : n = 16 * q + p /\ o = Rotate("SWAP", d, f)
    BY <1>4
  <1>6. Outcome(o) /\ \E e \in Int : n = 256 * e + o.val
    BY <1>2, <1>3, <1>5, RotateGives
  <1>7. PICK e \in Int : n = 256 * e + o.val
    BY <1>6
  <1>8. PICK v \in 0 .. 255 : v = o.val
    BY <1>6 DEF Outcome
  <1>9. v = n
    BY <1>5, <1>7, <1>8, SMTT(30)
  <1> QED
    BY <1>5, <1>6, <1>8, <1>9

\* A move and the opposite move, with the carry of the first ...
LEMMA UpAndDown ==
    ASSUME NEW d \in 0 .. 255, NEW o, NEW u, NEW c, MovedUp(d, c, o), MovedDown(o.val, Carry(o.flag), u)
    PROVE  u.val = d /\ Carry(u.flag) = c /\ u.flag \in SUBSET FlagBits
  <1>1. PICK v \in 0 .. 255, w \in 0 .. 255, k \in {0, 1}, e \in {0, 1} :
            v = o.val /\ w = u.val /\ k = Carry(o.flag) /\ e = Carry(u.flag)
    BY CarryIs, ZenonT(60) DEF MovedUp, MovedDown, Outcome
  <1>2. c \in {0, 1} /\ 2 * d + c = 256 * k + v /\ v + 256 * k = 2 * w + e
    BY <1>1 DEF MovedUp, MovedDown
  <1>3. w = d /\ e = c
    BY <1>2
  <1>4. u.flag \in SUBSET FlagBits
    BY DEF MovedUp, MovedDown, Outcome
  <1> QED
    BY <1>1, <1>3, <1>4

\* ... in this order too ...
LEMMA DownAndUp ==
    ASSUME NEW d \in 0 .. 255, NEW o, NEW u, NEW c, MovedDown(d, c, o), MovedUp(o.val, Carry(o.flag), u)
    PROVE  u.val = d /\ Carry(u.flag) = c /\ u.flag \in SUBSET FlagBits
  <1>1. PICK v \in 0 .. 255, w \in 0 .. 255, k \in {0, 1}, e \in {0, 1} :
            v = o.val /\ w = u.val /\ k = Carry(o.flag) /\ e = Carry(u.flag)
    BY CarryIs, ZenonT(60) DEF MovedUp, MovedDown, Outcome
  <1>2. c \in {0, 1} /\ d + 256 * c = 2 * v + k /\ 2 * v + k = 256 * e + w
    BY <1>1 DEF MovedUp, MovedDown
  <1>3. w = d /\ e = c
    BY <1>2
  <1>4. u.flag \in SUBSET FlagBits
    BY DEF MovedUp, MovedDown, Outcome
  <1> QED
    BY <1>1, <1>3, <1>4

\* ... and each with the bit it pushes out itself, one way ...
LEMMA RoundAndBack ==
    ASSUME NEW d \in 0 .. 255, NEW o, NEW u, MovedUp(d, Carry(o.flag), o), MovedDown(o.val, Carry(u.flag), u)
    PROVE  u.val = d /\ u.flag \in SUBSET FlagBits
  <1>1. PICK v \in 0 .. 255, w \in 0 .. 255, k \in {0, 1}, e \in {0, 1} :
            v = o.val /\ w = u.val /\ k = Carry(o.flag) /\ e = Carry(u.flag)
    BY CarryIs, ZenonT(60) DEF MovedUp, MovedDown, Outcome
  <1>2. 2 * d + k = 256 * k + v /\ v + 256 * e = 2 * w + e
    BY <1>1 DEF MovedUp, MovedDown
  <1>3. w = d
    BY <1>2
  <1>4. u.flag \in SUBSET FlagBits
    BY DEF MovedUp, MovedDown, Outcome
  <1> QED
    BY <1>1, <1>3, <1>4

\* ... and the other.
LEMMA BackAndRound ==
    ASSUME NEW d \in 0 .. 255, NEW o, NEW u, MovedDown(d, Carry(o.flag), o), MovedUp(o.val, Carry(u.flag), u)
    PROVE  u.val = d /\ u.flag \in SUBSET FlagBits
  <1>1. PICK v \in 0 .. 255, w \in 0 .. 255, k \in {0, 1}, e \in {0, 1} :
            v = o.val /\ w = u.val /\ k = Carry(o.flag) /\ e = Carry(u.flag)
    BY CarryIs, Zenon DEF MovedUp, MovedDown, Outcome
  <1>2. d + 256 * k = 2 * v + k /\ 2 * v + e = 256 * e + w
    BY <1>1 DEF MovedUp, MovedDown
  <1>3. w = d
    BY <1>2
  <1>4. u.flag \in SUBSET FlagBits
    BY DEF MovedUp, MovedDown, Outcome
  <1> QED
    BY <1>1, <1>3, <1>4

\* The second of two rotates, after the first.
Then(first, second, d, f) ==
    Rotate(second, Rotate(first, d, f).val, Rotate(first, d, f).flag)

\* Rotates that undo one another; the first two leave the carry, too.
Inverses == {<<"RL", "RR">>, <<"RR", "RL">>, <<"RLC", "RRC">>, <<"RRC", "RLC">>,
             <<"SLA", "RR">>, <<"SRA", "RL">>, <<"SRL", "RL">>, <<"SWAP", "SWAP">>}

\* A rotate and its inverse leave the byte, and two that go through the carry
\* leave that.
LEMMA RotateTrips ==
    ASSUME NEW d \in 0 .. 255, NEW f, NEW p \in Inverses
    PROVE  /\ Then(p[1], p[2], d, f).val = d
           /\ Then(p[1], p[2], d, f).flag \in SUBSET FlagBits
           /\ p \in {<<"RL", "RR">>, <<"RR", "RL">>} =>
                 Carry(Then(p[1], p[2], d, f).flag) = Carry(f)
  <1>1. Then("RL", "RR", d, f).val = d /\ Then("RL", "RR", d, f).flag \in SUBSET FlagBits
        /\ Carry(Then("RL", "RR", d, f).flag) = Carry(f)
    <2>1. PICK o, u : o = Rotate("RL", d, f) /\ u = Rotate("RR", o.val, o.flag)
      OBVIOUS
    <2>2. MovedUp(d, Carry(f), o)
      BY <2>1, RotatesLeft
    <2>3. o.val \in 0 .. 255
      BY <2>2 DEF MovedUp, Outcome
    <2>4. MovedDown(o.val, Carry(o.flag), u)
      BY <2>1, <2>3, RotatesRight
    <2>5. Then("RL", "RR", d, f) = u
      BY <2>1 DEF Then
    <2>6. u.flag \in SUBSET FlagBits
      BY UpAndDown, <2>2, <2>4
    <2>7. u.val = d
      BY UpAndDown, <2>2, <2>4
    <2>8. Carry(u.flag) = Carry(f)
      BY UpAndDown, <2>2, <2>4
    <2> QED
      BY <2>5, <2>6, <2>7, <2>8
  <1>2. Then("RR", "RL", d, f).val = d /\ Then("RR", "RL", d, f).flag \in SUBSET FlagBits
        /\ Carry(Then("RR", "RL", d, f).flag) = Carry(f)
    <2>1. PICK o, u : o = Rotate("RR", d, f) /\ u = Rotate("RL", o.val, o.flag)
      OBVIOUS
    <2>2. MovedDown(d, Carry(f), o)
      BY <2>1, RotatesRight
    <2>3. o.val \in 0 .. 255
      BY <2>2 DEF MovedDown, Outcome
    <2>4. MovedUp(o.val, Carry(o.flag), u)
      BY <2>1, <2>3, RotatesLeft
    <2>5. Then("RR", "RL", d, f) = u
      BY <2>1 DEF Then
    <2>6. u.flag \in SUBSET FlagBits
      BY DownAndUp, <2>2, <2>4
    <2>7. u.val = d
      BY DownAndUp, <2>2, <2>4
    <2>8. Carry(u.flag) = Carry(f)
      BY DownAndUp, <2>2, <2>4
    <2> QED
      BY <2>5, <2>6, <2>7, <2>8
  <1>3. Then("RLC", "RRC", d, f).val = d /\ Then("RLC", "RRC", d, f).flag \in SUBSET FlagBits
    <2>1. PICK o, u : o = Rotate("RLC", d, f) /\ u = Rotate("RRC", o.val, o.flag)
      OBVIOUS
    <2>2. MovedUp(d, Carry(o.flag), o)
      BY <2>1, RotatesLeft
    <2>3. o.val \in 0 .. 255
      BY <2>2 DEF MovedUp, Outcome
    <2>4. MovedDown(o.val, Carry(u.flag), u)
      BY <2>1, <2>3, RotatesRight
    <2>5. Then("RLC", "RRC", d, f) = u
      BY <2>1 DEF Then
    <2>6. u.flag \in SUBSET FlagBits
      BY RoundAndBack, <2>2, <2>4
    <2>7. u.val = d
      BY RoundAndBack, <2>2, <2>4
    <2> QED
      BY <2>5, <2>6, <2>7
  <1>4. Then("RRC", "RLC", d, f).val = d /\ Then("RRC", "RLC", d, f).flag \in SUBSET FlagBits
    <2>1. PICK o, u : o = Rotate("RRC", d, f) /\ u = Rotate("RLC", o.val, o.flag)
      OBVIOUS
    <2>2. MovedDown(d, Carry(o.flag), o)
      BY <2>1, RotatesRight
    <2>3. o.val \in 0 .. 255
      BY <2>2 DEF MovedDown, Outcome
    <2>4. MovedUp(o.val, Carry(u.flag), u)
      BY <2>1, <2>3, RotatesLeft
    <2>5. Then("RRC", "RLC", d, f) = u
      BY <2>1 DEF Then
    <2>6. u.flag \in SUBSET FlagBits
      BY BackAndRound, <2>2, <2>4
    <2>7. u.val = d
      BY BackAndRound, <2>2, <2>4
    <2> QED
      BY <2>5, <2>6, <2>7
  <1>5. Then("SLA", "RR", d, f).val = d /\ Then("SLA", "RR", d, f).flag \in SUBSET FlagBits
    <2>1. PICK o, u : o = Rotate("SLA", d, f) /\ u = Rotate("RR", o.val, o.flag)
      OBVIOUS
    <2>2. MovedUp(d, 0, o)
      BY <2>1, RotatesLeft
    <2>3. o.val \in 0 .. 255
      BY <2>2 DEF MovedUp, Outcome
    <2>4. MovedDown(o.val, Carry(o.flag), u)
      BY <2>1, <2>3, RotatesRight
    <2>5. Then("SLA", "RR", d, f) = u
      BY <2>1 DEF Then
    <2>6. u.flag \in SUBSET FlagBits
      BY UpAndDown, <2>2, <2>4
    <2>7. u.val = d
      BY UpAndDown, <2>2, <2>4
    <2> QED
      BY <2>5, <2>6, <2>7
  <1>6. Then("SRA", "RL", d, f).val = d /\ Then("SRA", "RL", d, f).flag \in SUBSET FlagBits
    <2>1. PICK o, u : o = Rotate("SRA", d, f) /\ u = Rotate("RL", o.val, o.flag)
      OBVIOUS
    <2>2. PICK c \in {0, 1} : MovedDown(d, c, o)
      BY <2>1, RotatesRight
    <2>3. o.val \in 0 .. 255
      BY <2>2 DEF MovedDown, Outcome
    <2>4. MovedUp(o.val, Carry(o.flag), u)
      BY <2>1, <2>3, RotatesLeft
    <2>5. Then("SRA", "RL", d, f) = u
      BY <2>1 DEF Then
    <2>6. u.flag \in SUBSET FlagBits
      BY DownAndUp, <2>2, <2>4
    <2>7. u.val = d
      BY DownAndUp, <2>2, <2>4
    <2> QED
      BY <2>5, <2>6, <2>7
  <1>7. Then("SRL", "RL", d, f).val = d /\ Then("SRL", "RL", d, f).flag \in SUBSET FlagBits
    <2>1. PICK o, u : o = Rotate("SRL", d, f) /\ u = Rotate("RL", o.val, o.flag)
      OBVIOUS
    <2>2. MovedDown(d, 0, o)
      BY <2>1, RotatesRight
    <2>3. o.val \in 0 .. 255
      BY <2>2 DEF MovedDown, Outcome
    <2>4. MovedUp(o.val, Carry(o.flag), u)
      BY <2>1, <2>3, RotatesLeft
    <2>5. Then("SRL", "RL", d, f) = u
      BY <2>1 DEF Then
    <2>6. u.flag \in SUBSET FlagBits
      BY DownAndUp, <2>2, <2>4
    <2>7. u.val = d
      BY DownAndUp, <2>2, <2>4
    <2> QED
      BY <2>5, <2>6, <2>7
  <1>8. Then("SWAP", "SWAP", d, f).val = d /\ Then("SWAP", "SWAP", d, f).flag \in SUBSET FlagBits
    <2>1. PICK o, u : o = Rotate("SWAP", d, f) /\ u = Rotate("SWAP", o.val, o.flag)
      OBVIOUS
    <2>2. PICK h \in Int, l \in 0 .. 15 : d = 16 * h + l /\ d \div 16 = h /\ d % 16 = l
      BY Divided
    <2>3. h \in 0 .. 15
      BY <2>2
    <2>4. Outcome(o) /\ o.val = 16 * l + h
      BY <2>1, <2>2, <2>3, Swaps
    <2>5. PICK e \in 0 .. 255 : o.val = e /\ e = 16 * l + h
      BY <2>4 DEF Outcome
    <2>6. PICK g : o.val = e /\ o.flag = g /\ e = 16 * l + h
      BY <2>5
    <2>7. Outcome(u) /\ u.val = 16 * h + l
      BY <2>1, <2>3, <2>5, <2>6, Swaps
    <2>8. Then("SWAP", "SWAP", d, f) = u
      BY <2>1 DEF Then
    <2> QED
      BY <2>2, <2>7, <2>8 DEF Outcome
  <1> QED
    BY <1>1, <1>2, <1>3, <1>4, <1>5, <1>6, <1>7, <1>8 DEF Inverses

-----------------------------------------------------------------------------
(* Decimal digits *)

\* A decimal number of two digits is written as sixteen times the one and the other.
LEMMA DigitsAre ==
    ASSUME NEW x \in Decimal
    PROVE  \E p \in 0 .. 9, q \in 0 .. 9 : x = 10 * p + q /\ Bcd(x) = 16 * p + q
  <1>1. PICK p \in Int, q \in 0 .. 9 : x = 10 * p + q /\ x \div 10 = p /\ x % 10 = q
    BY Divided DEF Decimal
  <1>2. p \in 0 .. 9
    BY <1>1 DEF Decimal
  <1> QED
    BY <1>1, <1>2 DEF Bcd

\* So written it is read again.
LEMMA BcdIs ==
    ASSUME NEW p \in 0 .. 9, NEW q \in 0 .. 9
    PROVE  /\ Bcd(10 * p + q) = 16 * p + q
           /\ Unbcd(16 * p + q) = 10 * p + q
  <1>1. (10 * p + q) \div 10 = p /\ (10 * p + q) % 10 = q
    <2>1. PICK n \in Int : n = 10 * p + q
      OBVIOUS
    <2>2. n \div 10 = p /\ n % 10 = q
      BY <2>1, Divides
    <2> QED
      BY <2>1, <2>2
  <1>2. (16 * p + q) \div 16 = p /\ (16 * p + q) % 16 = q
    <2>1. PICK n \in Int : n = 16 * p + q
      OBVIOUS
    <2>2. n \div 16 = p /\ n % 16 = q
      BY <2>1, Divides
    <2> QED
      BY <2>1, <2>2
  <1> QED
    BY <1>1, <1>2 DEF Bcd, Unbcd, Nibble

\* What DAA adds or takes away, by the digit; and its result with every quotient
\* named: m and w are added, k is the carry.
Units(a, f) == IF "H" \in f \/ ("N" \notin f /\ Nibble(a) > 9) THEN 6 ELSE 0
Tens(a, f) == IF "C" \in f \/ a + Units(a, f) >= 160 THEN 96 ELSE 0

AdjustedBy(a, f, o, m, w, k, v, q) ==
    /\ m \in {0, 6} /\ w \in {0, 96} /\ k \in {0, 1} /\ v \in 0 .. 255 /\ q \in Int
    /\ m = Units(a, f) /\ w = Tens(a, f) /\ k = Carry(f) /\ v = o.val
    /\ IF "N" \in f THEN a - m - 96 * k = 256 * q + v ELSE a + m + w = 256 * q + v
    /\ "C" \in o.flag <=> IF "N" \in f THEN k = 1 ELSE w = 96
    /\ "Z" \in o.flag <=> o.val = 0
Adjusted(a, f, o) == \E m, w, k, v, q : AdjustedBy(a, f, o, m, w, k, v, q)

\* DAA is such a result for every byte and all flags.
LEMMA DaaIs ==
    ASSUME NEW a \in 0 .. 255, NEW f
    PROVE  Adjusted(a, f, Daa(a, f))
  <1>1. PICK o : o = Daa(a, f)
    OBVIOUS
  <1>2. PICK m \in {0, 6} : m = Units(a, f)
    BY DEF Units
  <1>3. PICK w \in {0, 96} : w = Tens(a, f)
    BY DEF Tens
  <1>4. PICK k \in {0, 1} : k = Carry(f)
    BY CarryIs
  <1>5. CASE "N" \notin f
    <2> DEFINE g == When("C" \in f \/ a + Units(a, f) >= 160, "C")
    <2>1. g \in SUBSET {"N", "H", "C"} /\ ("C" \in g <=> w = 96)
      BY <1>3 DEF When, Tens
    <2>2. o = Yields(a + m + w, g)
      BY <1>1, <1>5, <1>2, <1>3 DEF Daa, Units, Tens
    <2> HIDE DEF g
    <2>3. PICK n \in Int : n = a + m + w /\ o = Yields(n, g)
      BY <2>2
    <2>4. /\ Outcome(o) /\ \E q \in Int : n = 256 * q + o.val
          /\ "Z" \in o.flag <=> o.val = 0
          /\ \A b \in {"N", "H", "C"} : b \in o.flag <=> b \in g
      <3>1. Yielded(n, g, o)
        BY <2>1, <2>3, YieldsIs
      <3> QED
        BY <3>1 DEF Yielded
    <2>5. PICK v \in 0 .. 255 : v = o.val
      BY <2>4 DEF Outcome
    <2>6. \E q \in Int : a + m + w = 256 * q + v
      BY <2>3, <2>4, <2>5
    <2>7. PICK q \in Int : a + m + w = 256 * q + v
      BY <2>6
    <2>8. AdjustedBy(a, f, o, m, w, k, v, q)
      BY <1>5, <1>2, <1>3, <1>4, <2>1, <2>4, <2>5, <2>7 DEF AdjustedBy
    <2>9. Adjusted(a, f, o)
      BY <2>8 DEF Adjusted
    <2> QED
      BY <1>1, <2>9
  <1>6. CASE "N" \in f
    <2> DEFINE g == {"N"} \cup Kept(f, "C")
    <2>1. g \in SUBSET {"N", "H", "C"} /\ ("C" \in g <=> k = 1)
      BY <1>4, CarryIs DEF Kept
    <2>2. o = Yields(a - m - 96 * k, g)
      BY <1>1, <1>6, <1>2, <1>4 DEF Daa, Units
    <2> HIDE DEF g
    <2>3. PICK n \in Int : n = a - m - 96 * k /\ o = Yields(n, g)
      BY <2>2
    <2>4. /\ Outcome(o) /\ \E q \in Int : n = 256 * q + o.val
          /\ "Z" \in o.flag <=> o.val = 0
          /\ \A b \in {"N", "H", "C"} : b \in o.flag <=> b \in g
      <3>1. Yielded(n, g, o)
        BY <2>1, <2>3, YieldsIs
      <3> QED
        BY <3>1 DEF Yielded
    <2>5. PICK v \in 0 .. 255 : v = o.val
      BY <2>4 DEF Outcome
    <2>6. \E q \in Int : a - m - 96 * k = 256 * q + v
      BY <2>3, <2>4, <2>5
    <2>7. PICK q \in Int : a - m - 96 * k = 256 * q + v
      BY <2>6
    <2>8. AdjustedBy(a, f, o, m, w, k, v, q)
      BY <1>6, <1>2, <1>3, <1>4, <2>1, <2>4, <2>5, <2>7 DEF AdjustedBy
    <2>9. Adjusted(a, f, o)
      BY <2>8 DEF Adjusted
    <2> QED
      BY <1>1, <2>9
  <1> QED
    BY <1>5, <1>6

\* The digits of a sum, from those of two numbers and a carry: the units are
\* adjusted when their digit or its carry says that they are more than 9; what
\* is left of the number is then the tens.
Summed(p, q, r, s, c, o, u, n) ==
    /\ o = Add8(16 * p + q, 16 * r + s, c) /\ u = Daa(o.val, o.flag)
    /\ n = 10 * p + q + (10 * r + s) + c
    => /\ u.val = Bcd(n % 100)
       /\ "C" \in u.flag <=> n > 99
       /\ "Z" \in u.flag <=> n % 100 = 0

\* ADC and DAA leave the digits of the sum and its carry.
LEMMA DecimalSum ==
    ASSUME NEW p \in 0 .. 9, NEW q \in 0 .. 9, NEW r \in 0 .. 9, NEW s \in 0 .. 9, NEW c \in {0, 1},
           NEW o, NEW u, NEW n \in Int
    PROVE  Summed(p, q, r, s, c, o, u, n)
  <1> SUFFICES ASSUME o = Add8(16 * p + q, 16 * r + s, c), u = Daa(o.val, o.flag),
                      n = 10 * p + q + (10 * r + s) + c
               PROVE  /\ u.val = Bcd(n % 100)
                      /\ "C" \in u.flag <=> n > 99
                      /\ "Z" \in u.flag <=> n % 100 = 0
    BY ZenonT(60) DEF Summed
  <1>1. PICK a \in 0 .. 255, b \in 0 .. 255 : a = 16 * p + q /\ b = 16 * r + s /\ o = Add8(a, b, c)
    <2>1. 16 * p + q \in 0 .. 255 /\ 16 * r + s \in 0 .. 255
      OBVIOUS
    <2> QED
      BY <2>1, Zenon
  <1>2. a % 16 = q /\ b % 16 = s
    BY <1>1, Divides
  <1>3. /\ \E k \in {0, 1}, v \in 0 .. 255 : k = Carry(o.flag) /\ v = o.val /\ a + b + c = 256 * k + v
        /\ "H" \in o.flag <=> q + s + c > 15
        /\ "N" \notin o.flag
    <2>1. Added(a, b, c, o)
      BY <1>1, AddIs, Zenon
    <2>2. "H" \in o.flag <=> (a % 16) + (b % 16) + c > 15
      BY <2>1 DEF Added
    <2>3. "H" \in o.flag <=> q + s + c > 15
      BY <1>2, <2>2, Zenon
    <2>4. /\ \E k \in {0, 1}, v \in 0 .. 255 : k = Carry(o.flag) /\ v = o.val /\ a + b + c = 256 * k + v
          /\ "N" \notin o.flag
      BY <2>1, Zenon DEF Added
    <2> QED
      BY <2>3, <2>4, Zenon
  <1>4. PICK k \in {0, 1}, v \in 0 .. 255 : k = Carry(o.flag) /\ v = o.val /\ a + b + c = 256 * k + v
    BY <1>3
  <1>5. PICK f : f = o.flag
    OBVIOUS
  <1>6. 16 * p + q + (16 * r + s) + c = 256 * k + v
    BY <1>1, <1>4
  <1>7. PICK m \in {0, 6} : m = Units(v, f)
    BY DEF Units
  <1>8. PICK w \in {0, 96} : w = Tens(v, f)
    BY DEF Tens
  <1>9. m = IF q + s + c > 9 THEN 6 ELSE 0
    <2>1. PICK h \in Int, l \in 0 .. 15 : v = 16 * h + l /\ v \div 16 = h /\ v % 16 = l
      BY Divided
    <2>2. l = IF q + s + c > 15 THEN q + s + c - 16 ELSE q + s + c
      BY <1>6, <2>1, SMTT(30)
    <2>3. m = IF q + s + c > 15 \/ l > 9 THEN 6 ELSE 0
      <3>1. "N" \notin f /\ ("H" \in f <=> q + s + c > 15)
        BY <1>3, <1>5
      <3>2. Nibble(v) = l
        BY <2>1 DEF Nibble
      <3> QED
        BY <1>7, <3>1, <3>2 DEF Units
    <2> QED
      BY <2>2, <2>3
  <1>10. w = IF n > 99 THEN 96 ELSE 0
    <2>1. w = IF k = 1 \/ v + m >= 160 THEN 96 ELSE 0
      BY <1>4, <1>5, <1>7, <1>8, CarryIs, SMTT(30) DEF Tens
    <2> QED
      BY <1>6, <1>9, <2>1
  <1>11. /\ \E y \in 0 .. 255, e \in Int : y = u.val /\ v + m + w = 256 * e + y
         /\ "Z" \in u.flag <=> u.val = 0
         /\ "C" \in u.flag <=> w = 96
    <2>1. "N" \notin f /\ u = Daa(v, f) /\ k = Carry(f)
      BY <1>3, <1>4, <1>5
    <2>2. Adjusted(v, f, u)
      BY <2>1, DaaIs
    <2>3. PICK mm, ww, kk, y, e : AdjustedBy(v, f, u, mm, ww, kk, y, e)
      BY <2>2 DEF Adjusted
    <2>4. mm = m /\ ww = w /\ kk = k /\ y = u.val /\ y \in 0 .. 255 /\ e \in Int
      BY <1>7, <1>8, <2>1, <2>3 DEF AdjustedBy
    <2>5. v + m + w = 256 * e + y /\ ("Z" \in u.flag <=> u.val = 0) /\ ("C" \in u.flag <=> w = 96)
      BY <2>1, <2>3, <2>4 DEF AdjustedBy
    <2> QED
      BY <2>4, <2>5, ZenonT(60)
  <1>12. PICK y \in 0 .. 255, e \in Int : y = u.val /\ v + m + w = 256 * e + y
    BY <1>11, Zenon
  <1>13. PICK d \in Int, z \in 0 .. 99 : n = 100 * d + z /\ n \div 100 = d /\ n % 100 = z
    BY Divided
  <1>14. PICK x \in 0 .. 9, t \in 0 .. 9 : z = 10 * x + t /\ Bcd(z) = 16 * x + t
    BY DigitsAre DEF Decimal
  <1>15. d = IF n > 99 THEN 1 ELSE 0
    BY <1>13
  <1>16. y = 16 * x + t
    <2>1. 10 * p + q + (10 * r + s) + c = 100 * d + 10 * x + t
      BY <1>13, <1>14
    <2>2. 16 * p + q + (16 * r + s) + c + m + w = 256 * k + 256 * e + y
      <3>1. v + m + w = 256 * e + y
        BY <1>12
      <3> QED
        BY <1>6, <3>1
    <2>3. PICK i \in {0, 1} : m = 6 * i /\ q + s + c = 10 * i + t /\ p + r + i = 10 * d + x
      BY <1>9, <1>15, <2>1
    <2>4. d \in {0, 1} /\ w = 96 * d
      BY <1>10, <1>15
    <2>5. y = 256 * (d - k - e) + 16 * x + t
      BY <2>2, <2>3, <2>4
    <2> QED
      BY <2>5
  <1>17. y = 0 <=> z = 0
    BY <1>14, <1>16
  <1>18. u.val = Bcd(n % 100)
    BY <1>12, <1>13, <1>14, <1>16, Zenon
  <1>19. "C" \in u.flag <=> n > 99
    <2>1. "C" \in u.flag <=> w = 96
      BY <1>11, Zenon
    <2>2. w = 96 <=> n > 99
      BY <1>10
    <2> QED
      BY <2>1, <2>2, Zenon
  <1>20. "Z" \in u.flag <=> n % 100 = 0
    BY <1>11, <1>12, <1>13, <1>17, Zenon
  <1> QED
    BY <1>18, <1>19, <1>20, Zenon

\* The digits of a difference.
Differs(p, q, r, s, c, o, u, n) ==
    /\ o = Subtract(16 * p + q, 16 * r + s, c) /\ u = Daa(o.val, o.flag)
    /\ n = 10 * p + q - (10 * r + s) - c
    => /\ u.val = Bcd(n % 100)
       /\ "C" \in u.flag <=> n < 0
       /\ "Z" \in u.flag <=> n % 100 = 0

\* SBC and DAA leave the digits of the difference and its borrow.
LEMMA DecimalDifference ==
    ASSUME NEW p \in 0 .. 9, NEW q \in 0 .. 9, NEW r \in 0 .. 9, NEW s \in 0 .. 9, NEW c \in {0, 1},
           NEW o, NEW u, NEW n \in Int
    PROVE  Differs(p, q, r, s, c, o, u, n)
  <1> SUFFICES ASSUME o = Subtract(16 * p + q, 16 * r + s, c), u = Daa(o.val, o.flag),
                      n = 10 * p + q - (10 * r + s) - c
               PROVE  /\ u.val = Bcd(n % 100)
                      /\ "C" \in u.flag <=> n < 0
                      /\ "Z" \in u.flag <=> n % 100 = 0
    BY ZenonT(60) DEF Differs
  <1>1. PICK a \in 0 .. 255, b \in 0 .. 255 : a = 16 * p + q /\ b = 16 * r + s /\ o = Subtract(a, b, c)
    <2>1. 16 * p + q \in 0 .. 255 /\ 16 * r + s \in 0 .. 255
      OBVIOUS
    <2> QED
      BY <2>1, ZenonT(60)
  <1>2. a % 16 = q /\ b % 16 = s
    BY <1>1, Divides
  <1>3. /\ \E k \in {0, 1}, v \in 0 .. 255 : k = Carry(o.flag) /\ v = o.val /\ a - b - c = v - 256 * k
        /\ "H" \in o.flag <=> q - s - c < 0
        /\ "N" \in o.flag
    <2>1. Subtracted(a, b, c, o)
      BY <1>1, SubtractIs, ZenonT(60)
    <2> QED
      BY <1>2, <2>1, Zenon DEF Subtracted
  <1>4. PICK k \in {0, 1}, v \in 0 .. 255 : k = Carry(o.flag) /\ v = o.val /\ a - b - c = v - 256 * k
    BY <1>3
  <1>5. PICK f : f = o.flag
    OBVIOUS
  <1>6. 16 * p + q - (16 * r + s) - c = v - 256 * k
    BY <1>1, <1>4
  <1>7. PICK m \in {0, 6} : m = Units(v, f)
    BY DEF Units
  <1>8. PICK w \in {0, 96} : w = Tens(v, f)
    BY DEF Tens
  <1>9. m = IF q - s - c < 0 THEN 6 ELSE 0
    BY <1>3, <1>5, <1>7 DEF Units
  <1>10. k = 1 <=> n < 0
    BY <1>6, SMTT(30)
  <1>11. /\ \E y \in 0 .. 255, e \in Int : y = u.val /\ v - m - 96 * k = 256 * e + y
         /\ "Z" \in u.flag <=> u.val = 0
         /\ "C" \in u.flag <=> k = 1
    <2>1. "N" \in f /\ u = Daa(v, f) /\ k = Carry(f)
      BY <1>3, <1>4, <1>5
    <2>2. Adjusted(v, f, u)
      BY <2>1, DaaIs
    <2>3. PICK mm, ww, kk, y, e : AdjustedBy(v, f, u, mm, ww, kk, y, e)
      BY <2>2 DEF Adjusted
    <2>4. mm = m /\ ww = w /\ kk = k /\ y = u.val /\ y \in 0 .. 255 /\ e \in Int
      BY <1>7, <1>8, <2>1, <2>3 DEF AdjustedBy
    <2>5. v - m - 96 * k = 256 * e + y /\ ("Z" \in u.flag <=> u.val = 0) /\ ("C" \in u.flag <=> k = 1)
      BY <2>1, <2>3, <2>4 DEF AdjustedBy
    <2> QED
      BY <2>4, <2>5, ZenonT(60)
  <1>12. PICK y \in 0 .. 255, e \in Int : y = u.val /\ v - m - 96 * k = 256 * e + y
    BY <1>11, Zenon
  <1>13. PICK d \in Int, z \in 0 .. 99 : n = 100 * d + z /\ n \div 100 = d /\ n % 100 = z
    BY Divided
  <1>14. PICK x \in 0 .. 9, t \in 0 .. 9 : z = 10 * x + t /\ Bcd(z) = 16 * x + t
    BY DigitsAre DEF Decimal
  <1>15. d = 0 - k
    BY <1>10, <1>13
  <1>16. y = 16 * x + t
    <2>1. 10 * p + q - (10 * r + s) - c = 10 * x + t - 100 * k
      BY <1>13, <1>14, <1>15
    <2>2. 16 * p + q - (16 * r + s) - c - m - 96 * k = 256 * e - 256 * k + y
      <3>1. v - m - 96 * k = 256 * e + y
        BY <1>12
      <3> QED
        BY <1>6, <3>1
    <2>3. PICK i \in {0, 1} : m = 6 * i /\ q - s - c = t - 10 * i /\ p - r - i = x - 10 * k
      BY <1>9, <2>1
    <2>4. y = 16 * x + t - 256 * e
      BY <2>2, <2>3
    <2> QED
      BY <2>4
  <1>17. y = 0 <=> z = 0
    BY <1>14, <1>16
  <1>18. u.val = Bcd(n % 100)
    BY <1>12, <1>13, <1>14, <1>16, Zenon
  <1>19. "C" \in u.flag <=> n < 0
    <2>1. "C" \in u.flag <=> k = 1
      BY <1>11, Zenon
    <2> QED
      BY <1>10, <2>1, Zenon
  <1>20. "Z" \in u.flag <=> n % 100 = 0
    BY <1>11, <1>12, <1>13, <1>17, Zenon
  <1> QED
    BY <1>18, <1>19, <1>20, Zenon

-----------------------------------------------------------------------------
(* Programs, one instruction after the other *)

\* What is left of a program from some place.
LEMMA LeftIs ==
    ASSUME NEW p, NEW k \in Nat, NEW m \in Nat, NEW q, q = [j \in 1 .. m |-> p[k + j]]
    PROVE  /\ q = <<>> <=> m = 0
           /\ m > 0 => Head(q) = p[k + 1] /\ Tail(q) = [j \in 1 .. m - 1 |-> p[k + 1 + j]]
  <1>1. DOMAIN q = 1 .. m
    OBVIOUS
  <1>2. Len(q) = m
    BY <1>1
  <1>3. q = <<>> <=> m = 0
    BY <1>1
  <1>4. ASSUME m > 0 PROVE Head(q) = p[k + 1]
    BY <1>2, <1>4
  <1>5. ASSUME m > 0 PROVE Tail(q) = [j \in 1 .. m - 1 |-> p[k + 1 + j]]
    <2>1. Tail(q) = [j \in 1 .. m - 1 |-> q[j + 1]]
      BY <1>2, <1>5
    <2>2. \A j \in 1 .. m - 1 : q[j + 1] = p[k + 1 + j]
      <3> SUFFICES ASSUME NEW j \in 1 .. m - 1 PROVE q[j + 1] = p[k + 1 + j]
        OBVIOUS
      <3>1. j + 1 \in 1 .. m /\ k + (j + 1) = k + 1 + j
        BY <1>5
      <3> QED
        BY <3>1
    <2> QED
      BY <2>1, <2>2
  <1> QED
    BY <1>3, <1>4, <1>5

\* Where a program has begun, and what it is for.
Origin(s, z, t, reg, flag) == s = [reg |-> reg, flag |-> flag] /\ z = t

\* The programs of each kind, with what they begin from.
FromDecimal(p, s, z) == \E t \in DOMAIN DecimalPrograms, x, y \in Decimal, f \in SUBSET {"C"} :
    Origin(s, z, t, [Rest EXCEPT !.A = Bcd(x), !.B = Bcd(y)], f) /\ p = DecimalPrograms[t]

FromWord(p, s, z) == \E t \in DOMAIN WordPrograms, h, l, d, e \in Sample :
    Origin(s, z, t, [Rest EXCEPT !.H = h, !.L = l, !.D = d, !.E = e], {"C", "Z"}) /\ p = WordPrograms[t]

FromTrip(p, s, z) == \E n \in 0 .. 7, x, y \in Sample, f \in SUBSET {"C"} :
    LET reg == [Rest EXCEPT !.A = x, !.SP = 256 * x + y, ![Operand[n + 1]] = y]
    IN  \/ Origin(s, z, "exact", reg, f) /\ p \in Exact(n)
        \/ Origin(s, z, "loose", reg, f) /\ p \in Loose(n)

FromBit(p, s, z, g) == \E r \in DOMAIN Column, b \in 0 .. 7, y \in Sample, f \in SUBSET {"C"} :
    LET reg == [Rest EXCEPT ![r] = y]
    IN  /\ g = [reg |-> r, bit |-> b]
        /\ \/ Origin(s, z, "set", reg, f) /\ p = SetAndAsk(Column[r], b)
           \/ Origin(s, z, "reset", reg, f) /\ p = ResAndAsk(Column[r], b)

Program(p, s, z, g) == FromDecimal(p, s, z) \/ FromWord(p, s, z) \/ FromTrip(p, s, z) \/ FromBit(p, s, z, g)

\* The first k instructions of p lead from start to alu.
Trace(p, k, t, s, u) == /\ t[0] = s /\ u = t[k]
                        /\ \A i \in 1 .. k : t[i] = Effect(p[i], t[i - 1])

Ran(p, n, k) == /\ Program(p, start, task, aim) /\ DOMAIN p = 1 .. n
                /\ prog = [j \in 1 .. n - k |-> p[k + j]]
                /\ \E t : Trace(p, k, t, start, alu)

\* Some part of a program has been run.
ALUInv == \E p : \E n \in Nat : \E k \in 0 .. n : Ran(p, n, k)

\* A program as a function from 1 to its length.
LEMMA ProgramsAre ==
    /\ \A a, b : DOMAIN Ops(<<a, b>>) = 1 .. 2 /\ Ops(<<a, b>>)[1] = <<"op", a, 0>> /\ Ops(<<a, b>>)[2] = <<"op", b, 0>>
    /\ \A a, b : DOMAIN CBs(<<a, b>>) = 1 .. 2 /\ CBs(<<a, b>>)[1] = <<"cb", a, 0>> /\ CBs(<<a, b>>)[2] = <<"cb", b, 0>>
    /\ \A a : DOMAIN Ops(<<a>>) = 1 .. 1 /\ Ops(<<a>>)[1] = <<"op", a, 0>>
    /\ \A a, b, c, d : LET p == Ops(<<a, b, c, d>>)
                       IN  DOMAIN p = 1 .. 4 /\ p[1] = <<"op", a, 0>> /\ p[2] = <<"op", b, 0>>
                           /\ p[3] = <<"op", c, 0>> /\ p[4] = <<"op", d, 0>>
    /\ \A a, b, c, d, e, f : LET p == Ops(<<a, b, c, d, e, f>>)
                       IN  DOMAIN p = 1 .. 6 /\ p[1] = <<"op", a, 0>> /\ p[2] = <<"op", b, 0>>
                           /\ p[3] = <<"op", c, 0>> /\ p[4] = <<"op", d, 0>>
                           /\ p[5] = <<"op", e, 0>> /\ p[6] = <<"op", f, 0>>
  BY DEF Ops, CBs

\* A step runs the next instruction.
LEMMA RunsOn ==
    ASSUME ALUInv, [ALUStep]_aluVars
    PROVE  ALUInv'
  <1>1. PICK p : \E n \in Nat : \E k \in 0 .. n : Ran(p, n, k)
    BY DEF ALUInv
  <1>2. PICK n \in Nat : \E k \in 0 .. n : Ran(p, n, k)
    BY <1>1
  <1>3. PICK k \in 0 .. n : Ran(p, n, k)
    BY <1>2
  <1>4. CASE UNCHANGED aluVars
    <2>1. Ran(p, n, k)'
      BY <1>3, <1>4 DEF Ran, aluVars
    <2> QED
      BY <1>2, <1>3, <2>1 DEF ALUInv
  <1>5. CASE ALUStep
    <2>1. n - k \in Nat /\ k \in Nat /\ n - k > 0
      BY <1>2, <1>3, <1>5, LeftIs DEF Ran, ALUStep
    <2>2. Head(prog) = p[k + 1] /\ prog' = [j \in 1 .. n - k - 1 |-> p[k + 1 + j]]
      <3>1. PICK m \in Nat : m = n - k /\ m > 0
        BY <2>1
      <3>2. prog = [j \in 1 .. m |-> p[k + j]]
        BY <1>3, <3>1 DEF Ran
      <3>3. Head(prog) = p[k + 1] /\ Tail(prog) = [j \in 1 .. m - 1 |-> p[k + 1 + j]]
        BY <2>1, <3>1, <3>2, LeftIs
      <3> QED
        BY <1>5, <3>1, <3>3 DEF ALUStep
    <2>3. Program(p, start, task, aim)' /\ start' = start
      BY <1>3, <1>5 DEF Ran, ALUStep
    <2>4. PICK t : Trace(p, k, t, start, alu)
      BY <1>2, <1>3 DEF Ran
    <2> DEFINE u == [i \in 0 .. k + 1 |-> IF i = k + 1 THEN alu' ELSE t[i]]
    <2>5. u[k + 1] = alu' /\ \A i \in 0 .. k : u[i] = t[i]
      BY <2>1
    <2> HIDE DEF u
    <2>6. u[0] = start' /\ u[k] = alu
      BY <2>1, <2>3, <2>4, <2>5 DEF Trace
    <2>7. alu' = Effect(p[k + 1], alu)
      BY <1>5, <2>2 DEF ALUStep
    <2>8. \A i \in 1 .. k + 1 : u[i] = Effect(p[i], u[i - 1])
      <3> SUFFICES ASSUME NEW i \in 1 .. k + 1 PROVE u[i] = Effect(p[i], u[i - 1])
        OBVIOUS
      <3>1. CASE i = k + 1
        <4>1. i - 1 = k
          BY <2>1, <3>1
        <4> QED
          BY <2>5, <2>6, <2>7, <3>1, <4>1
      <3>2. CASE i # k + 1
        <4>1. i \in 1 .. k /\ i \in 0 .. k /\ i - 1 \in 0 .. k
          BY <2>1, <3>2
        <4> QED
          BY <2>4, <2>5, <4>1 DEF Trace
      <3> QED
        BY <3>1, <3>2
    <2>9. Trace(p, k + 1, u, start', alu')
      BY <2>5, <2>6, <2>8 DEF Trace
    <2>10. n - (k + 1) = n - k - 1 /\ k + 1 \in 0 .. n
      BY <2>1
    <2>11. Ran(p, n, k + 1)'
      BY <1>2, <1>3, <2>2, <2>3, <2>9, <2>10 DEF Ran
    <2> QED
      BY <2>10, <2>11 DEF ALUInv
  <1> QED
    BY <1>4, <1>5

\* A program is a sequence.
Listed(p) == \E n \in Nat : DOMAIN p = 1 .. n /\ p = [i \in 1 .. n |-> p[i]]

\* All programs are sequences.
LEMMA ProgramsAreListed ==
    ASSUME NEW p, NEW s, NEW z, NEW g, Program(p, s, z, g)
    PROVE  Listed(p)
  <1>1. \A a, b : Listed(Ops(<<a, b>>)) /\ Listed(CBs(<<a, b>>))
    BY DEF Listed, Ops, CBs
  <1>2. \A a : Listed(Ops(<<a>>))
    BY DEF Listed, Ops
  <1>3. \A a, b, c, d : Listed(Ops(<<a, b, c, d>>))
    BY DEF Listed, Ops
  <1>4. \A a, b, c, d, e, f : Listed(Ops(<<a, b, c, d, e, f>>))
    BY DEF Listed, Ops
  <1>5. \A a, b : Listed(<<a, b>>)
    BY DEF Listed
  <1>6. CASE FromDecimal(p, s, z)
    BY <1>1, <1>6 DEF FromDecimal, DecimalPrograms
  <1>7. CASE FromWord(p, s, z)
    BY <1>1, <1>2, <1>3, <1>4, <1>7 DEF FromWord, WordPrograms
  <1>8. CASE FromTrip(p, s, z)
    BY <1>1, <1>5, <1>8 DEF FromTrip, Exact, Loose
  <1>9. CASE FromBit(p, s, z, g)
    BY <1>1, <1>9 DEF FromBit, SetAndAsk, ResAndAsk
  <1> QED
    BY <1>6, <1>7, <1>8, <1>9 DEF Program

\* At first nothing has been run.
LEMMA Starts == ALUInit => ALUInv
  <1> SUFFICES ASSUME ALUInit PROVE ALUInv
    OBVIOUS
  <1>1. Program(prog, start, task, aim) /\ alu = start
    <2>1. CASE DecimalInit
      BY <2>1 DEF DecimalInit, Begin, Program, FromDecimal, Origin
    <2>2. CASE WordInit
      BY <2>2 DEF WordInit, Begin, Program, FromWord, Origin
    <2>3. CASE TripInit
      <3>1. PICK n \in 0 .. 7, x \in Sample, y \in Sample, f \in SUBSET {"C"} :
               LET reg == [Rest EXCEPT !.A = x, !.SP = 256 * x + y, ![Operand[n + 1]] = y]
               IN  \/ \E q \in Exact(n) : Begin("exact", q, reg, f)
                   \/ \E q \in Loose(n) : Begin("loose", q, reg, f)
        BY <2>3, Zenon DEF TripInit
      <3>2. PICK reg : reg = [Rest EXCEPT !.A = x, !.SP = 256 * x + y, ![Operand[n + 1]] = y]
        OBVIOUS
      <3>3. /\ \/ Origin(start, task, "exact", reg, f) /\ prog \in Exact(n)
               \/ Origin(start, task, "loose", reg, f) /\ prog \in Loose(n)
            /\ alu = start
        BY <3>1, <3>2 DEF Begin, Origin
      <3>4. FromTrip(prog, start, task)
        BY <3>1, <3>2, <3>3, ZenonT(60) DEF FromTrip
      <3> QED
        BY <3>3, <3>4 DEF Program
    <2>4. CASE BitInit
      BY <2>4 DEF BitInit, Begin, Program, FromBit, Origin
    <2> QED
      BY <2>1, <2>2, <2>3, <2>4 DEF ALUInit
  <1>2. PICK n \in Nat : DOMAIN prog = 1 .. n /\ prog = [i \in 1 .. n |-> prog[i]]
    BY <1>1, ProgramsAreListed DEF Listed
  <1>3. \E t : Trace(prog, 0, t, start, alu)
    <2>1. Trace(prog, 0, [i \in 0 .. 0 |-> start], start, alu)
      BY <1>1 DEF Trace
    <2> QED
      BY <2>1
  <1>4. prog = [j \in 1 .. n - 0 |-> prog[0 + j]]
    BY <1>2
  <1>5. Ran(prog, n, 0)
    BY <1>1, <1>2, <1>3, <1>4, Zenon DEF Ran
  <1>6. 0 \in 0 .. n
    OBVIOUS
  <1> QED
    BY <1>5, <1>6 DEF ALUInv

\* So at any time some part of a program has been run, and the rest is left.
LEMMA ALUInductive == ALUSpec => []ALUInv
  BY Starts, RunsOn, PTL DEF ALUSpec

\* In the end all of it has been run.
RanAll(p, s, u) == \E n \in Nat : \E t : DOMAIN p = 1 .. n /\ Trace(p, n, t, s, u)

\* When nothing is left, a whole program leads from the start to what alu is.
LEMMA Finished ==
    ASSUME ALUInv, Done
    PROVE  \E p : Program(p, start, task, aim) /\ RanAll(p, start, alu)
  <1>1. PICK p : \E n \in Nat : \E k \in 0 .. n : Ran(p, n, k)
    BY DEF ALUInv
  <1>2. PICK n \in Nat : \E k \in 0 .. n : Ran(p, n, k)
    BY <1>1
  <1>3. PICK k \in 0 .. n : Ran(p, n, k)
    BY <1>2
  <1>4. k = n
    <2>1. PICK m \in Nat : m = n - k
      BY <1>3
    <2>2. m = 0
      BY <1>3, <2>1, LeftIs DEF Ran, Done
    <2> QED
      BY <1>3, <2>1, <2>2
  <1> QED
    BY <1>3, <1>4 DEF Ran, RanAll

\* A program of two instructions does the one and then the other.
LEMMA Twice ==
    ASSUME NEW p, NEW a, NEW b, NEW s, NEW u,
           DOMAIN p = 1 .. 2, p[1] = a, p[2] = b, RanAll(p, s, u)
    PROVE  u = Effect(b, Effect(a, s))
  <1>1. PICK t : Trace(p, 2, t, s, u)
    BY DEF RanAll
  <1>2. t[1] = Effect(p[1], t[1 - 1]) /\ t[2] = Effect(p[2], t[2 - 1])
    BY <1>1 DEF Trace
  <1> QED
    BY <1>1, <1>2 DEF Trace

\* A program of one instruction does that.
LEMMA Once ==
    ASSUME NEW p, NEW a, NEW s, NEW u, DOMAIN p = 1 .. 1, p[1] = a, RanAll(p, s, u)
    PROVE  u = Effect(a, s)
  <1>1. PICK t : Trace(p, 1, t, s, u)
    BY DEF RanAll
  <1>2. t[1] = Effect(p[1], t[1 - 1])
    BY <1>1 DEF Trace
  <1> QED
    BY <1>1, <1>2 DEF Trace

\* A program goes through one state behind each instruction.
LEMMA Stepwise ==
    ASSUME NEW p, NEW m \in Nat, DOMAIN p = 1 .. m, NEW s, NEW u, RanAll(p, s, u)
    PROVE  \E t : Trace(p, m, t, s, u)
  BY DEF RanAll

\* The other registers.
LEMMA RestIs == Rest \in [Registers -> Int] /\ Typed(Rest)
  BY DEF Rest, Registers, Cells, Typed

\* The accumulator operations, one by one.
LEMMA AccumulatesIs ==
    ASSUME NEW s, NEW x
    PROVE  /\ AccumulatorPage(s, "ADD", x) = Put(s, "A", Add8(s.reg.A, x, 0))
           /\ AccumulatorPage(s, "ADC", x) = Put(s, "A", Add8(s.reg.A, x, Carry(s.flag)))
           /\ AccumulatorPage(s, "SUB", x) = Put(s, "A", Subtract(s.reg.A, x, 0))
           /\ AccumulatorPage(s, "SBC", x) = Put(s, "A", Subtract(s.reg.A, x, Carry(s.flag)))
           /\ AccumulatorPage(s, "CP", x) = Flagged(s, Subtract(s.reg.A, x, 0).flag)
           /\ AccumulatorPage(s, "XOR", x) = Put(s, "A", Yields(Xor(s.reg.A, x), {}))
  BY DEF AccumulatorPage, Accumulate

\* A decimal number is added or subtracted two digits at a time.
LEMMA DecimalRuns ==
    ASSUME NEW p, FromDecimal(p, start, task), RanAll(p, start, alu)
    PROVE  DecimalStaysRight
  <1>1. PICK t \in DOMAIN DecimalPrograms, x \in Decimal, y \in Decimal, f \in SUBSET {"C"} :
           Origin(start, task, t, [Rest EXCEPT !.A = Bcd(x), !.B = Bcd(y)], f) /\ p = DecimalPrograms[t]
    BY DEF FromDecimal
  <1>2. PICK i \in 0 .. 9, j \in 0 .. 9 : x = 10 * i + j /\ Bcd(x) = 16 * i + j
    BY DigitsAre
  <1>3. PICK k \in 0 .. 9, l \in 0 .. 9 : y = 10 * k + l /\ Bcd(y) = 16 * k + l
    BY DigitsAre
  <1>4. PICK a \in Int, b \in Int, c \in {0, 1} : a = 16 * i + j /\ b = 16 * k + l /\ c = Carry(start.flag)
    BY CarryIs
  <1>5. start.reg = [Rest EXCEPT !.A = a, !.B = b] /\ task = t
    BY <1>1, <1>2, <1>3, <1>4 DEF Origin
  <1>6. start.reg.A = a /\ start.reg.B = b /\ start.reg \in [Registers -> Int]
    <2>1. Rest \in [Registers -> Int] /\ "A" \in Registers /\ "B" \in Registers
      BY RestIs DEF Registers
    <2>2. PICK g : g = [Rest EXCEPT !.A = a]
      OBVIOUS
    <2>3. g \in [Registers -> Int] /\ g["A"] = a
      BY <1>4, <2>1, <2>2
    <2>4. start.reg = [g EXCEPT !.B = b]
      BY <1>5, <2>2
    <2> QED
      BY <1>4, <2>1, <2>3, <2>4
  <1>7. Unbcd(start.reg.A) = x /\ Unbcd(start.reg.B) = y
    BY <1>2, <1>3, <1>4, <1>6, BcdIs
  <1>8. CASE t = "plus"
    <2>1. p = Ops(<<136, 39>>)
      BY <1>1, <1>8 DEF DecimalPrograms
    <2>2. alu = Effect(<<"op", 39, 0>>, Effect(<<"op", 136, 0>>, start))
      BY <2>1, ProgramsAre, Twice
    <2>3. PICK o, u, m : o = Add8(a, b, c) /\ u = Daa(o.val, o.flag) /\ m = Effect(<<"op", 136, 0>>, start)
      OBVIOUS
    <2>4. m = Put(start, "A", o)
      <3>1. m = AccumulatorPage(start, AccumulatorRow[1 + 1], start.reg[Operand[0 + 1]])
        <4>1. Accumulated(start, 136, 1, 0)
          BY AccumulateIs
        <4> QED
          BY <2>3, <4>1 DEF Accumulated
      <3>2. AccumulatorRow[1 + 1] = "ADC" /\ Operand[0 + 1] = "B"
        BY DEF AccumulatorRow, Operand
      <3> QED
        BY <1>4, <1>6, <2>3, <3>1, <3>2, AccumulatesIs
    <2>5. m.flag = o.flag /\ m.reg.A = o.val /\ m.reg \in [Registers -> Int]
      <3>1. o.val \in Int
        <4>1. a \in 0 .. 255 /\ b \in 0 .. 255
          BY <1>2, <1>3, <1>4
        <4>2. Added(a, b, c, o)
          BY <2>3, <4>1, AddIs, Zenon
        <4> QED
          BY <4>2 DEF Added, Outcome
      <3> QED
        BY <1>6, <2>4, <3>1 DEF Put, Registers
    <2>6. alu = Put(m, "A", u)
      <3>1. Effect(<<"op", 39, 0>>, m) = Put(m, "A", Daa(m.reg.A, m.flag))
        BY OnAIs, Zenon
      <3> QED
        BY <2>2, <2>3, <2>5, <3>1
    <2>7. alu.flag = u.flag /\ alu.reg.A = u.val
      BY <2>5, <2>6 DEF Put, Registers
    <2>8. PICK n \in Int : n = x + y + c /\ n = 10 * i + j + (10 * k + l) + c
      <3>1. x = 10 * i + j /\ y = 10 * k + l
        BY <1>2, <1>3, Zenon
      <3>2. 10 * i + j + (10 * k + l) + c \in Int
        BY <1>4
      <3> QED
        BY <3>1, <3>2, Zenon
    <2>9. u.val = Bcd(n % 100) /\ ("C" \in u.flag <=> n > 99) /\ ("Z" \in u.flag <=> n % 100 = 0)
      <3>1. Summed(i, j, k, l, c, o, u, n)
        BY DecimalSum, Zenon
      <3> QED
        BY <1>4, <2>3, <2>8, <3>1 DEF Summed
    <2>10. n \notin Decimal <=> n > 99
      BY <1>4, <2>8 DEF Decimal
    <2> QED
      BY <1>4, <1>5, <1>7, <1>8, <2>7, <2>8, <2>9, <2>10 DEF DecimalStaysRight, Carries
  <1>9. CASE t = "minus"
    <2>1. p = Ops(<<152, 39>>)
      BY <1>1, <1>9 DEF DecimalPrograms
    <2>2. alu = Effect(<<"op", 39, 0>>, Effect(<<"op", 152, 0>>, start))
      BY <2>1, ProgramsAre, Twice
    <2>3. PICK o, u, m : o = Subtract(a, b, c) /\ u = Daa(o.val, o.flag) /\ m = Effect(<<"op", 152, 0>>, start)
      OBVIOUS
    <2>4. m = Put(start, "A", o)
      <3>1. m = AccumulatorPage(start, AccumulatorRow[3 + 1], start.reg[Operand[0 + 1]])
        <4>1. Accumulated(start, 152, 3, 0)
          BY AccumulateIs
        <4> QED
          BY <2>3, <4>1 DEF Accumulated
      <3>2. AccumulatorRow[3 + 1] = "SBC" /\ Operand[0 + 1] = "B"
        BY DEF AccumulatorRow, Operand
      <3> QED
        BY <1>4, <1>6, <2>3, <3>1, <3>2, AccumulatesIs
    <2>5. m.flag = o.flag /\ m.reg.A = o.val /\ m.reg \in [Registers -> Int]
      <3>1. o.val \in Int
        <4>1. a \in 0 .. 255 /\ b \in 0 .. 255
          BY <1>2, <1>3, <1>4
        <4>2. Subtracted(a, b, c, o)
          BY <2>3, <4>1, SubtractIs, ZenonT(60)
        <4> QED
          BY <4>2, SMTT(30) DEF Subtracted, Outcome
      <3> QED
        BY <1>6, <2>4, <3>1 DEF Put, Registers
    <2>6. alu = Put(m, "A", u)
      <3>1. Effect(<<"op", 39, 0>>, m) = Put(m, "A", Daa(m.reg.A, m.flag))
        BY OnAIs, Zenon
      <3> QED
        BY <2>2, <2>3, <2>5, <3>1
    <2>7. alu.flag = u.flag /\ alu.reg.A = u.val
      BY <2>5, <2>6 DEF Put, Registers
    <2>8. PICK n \in Int : n = x - y - c /\ n = 10 * i + j - (10 * k + l) - c
      <3>1. x = 10 * i + j /\ y = 10 * k + l
        BY <1>2, <1>3, Zenon
      <3>2. 10 * i + j - (10 * k + l) - c \in Int
        BY <1>4
      <3> QED
        BY <3>1, <3>2
    <2>9. u.val = Bcd(n % 100) /\ ("C" \in u.flag <=> n < 0) /\ ("Z" \in u.flag <=> n % 100 = 0)
      <3>1. Differs(i, j, k, l, c, o, u, n)
        BY DecimalDifference, Zenon
      <3> QED
        BY <1>4, <2>3, <2>8, <3>1 DEF Differs
    <2>10. n \notin Decimal <=> n < 0
      BY <1>4, <2>8 DEF Decimal
    <2> QED
      BY <1>4, <1>5, <1>7, <1>9, <2>7, <2>8, <2>9, <2>10 DEF DecimalStaysRight, Carries
  <1> QED
    BY <1>8, <1>9 DEF DecimalPrograms

\* A task says which kind of program it is.
LEMMA TasksAre ==
    ASSUME NEW p, NEW s, NEW z, NEW g, Program(p, s, z, g)
    PROVE  /\ z \in DOMAIN DecimalPrograms => FromDecimal(p, s, z)
           /\ z \in DOMAIN WordPrograms => FromWord(p, s, z)
           /\ z \in {"exact", "loose"} => FromTrip(p, s, z)
           /\ z \in {"set", "reset"} => FromBit(p, s, z, g)
  <1>1. FromDecimal(p, s, z) => z \in {"plus", "minus"}
    BY DEF FromDecimal, Origin, DecimalPrograms
  <1>2. FromWord(p, s, z) => z \in {"sum", "difference", "least", "whole", "twice", "itself", "half"}
    BY DEF FromWord, Origin, WordPrograms
  <1>3. FromTrip(p, s, z) => z \in {"exact", "loose"}
    BY DEF FromTrip, Origin
  <1>4. FromBit(p, s, z, g) => z \in {"set", "reset"}
    BY DEF FromBit, Origin
  <1>5. /\ DOMAIN DecimalPrograms = {"plus", "minus"}
        /\ DOMAIN WordPrograms = {"sum", "difference", "least", "whole", "twice", "itself", "half"}
    BY DEF DecimalPrograms, WordPrograms
  <1> QED
    BY <1>1, <1>2, <1>3, <1>4, <1>5 DEF Program

\* Decimal numbers are added and subtracted two digits at a time without an
\* error, digits, carry and Z, for all digits and both carries: ADC or SBC, and DAA.
THEOREM DecimalRight == ALUSpec => []DecimalStaysRight
  <1>1. ALUInv => DecimalStaysRight
    <2>1. ASSUME ALUInv, Done, task \in DOMAIN DecimalPrograms PROVE DecimalStaysRight
      BY <2>1, Finished, TasksAre, DecimalRuns
    <2> QED
      BY <2>1 DEF DecimalStaysRight
  <1> QED
    BY <1>1, ALUInductive, PTL

\* What a word program works on: A, HL and DE byte by byte.
At(s, a, h, l, d, e) ==
    /\ s.reg \in [Registers -> Int]
    /\ s.reg["A"] = a /\ s.reg["H"] = h /\ s.reg["L"] = l /\ s.reg["D"] = d /\ s.reg["E"] = e
After(m, f, a, h, l, d, e) == At(m, a, h, l, d, e) /\ m.flag = f

\* The loads between A and the bytes of HL.
LEMMA LoadsAre ==
    ASSUME NEW s, NEW a \in Int, NEW h \in Int, NEW l \in Int, NEW d \in Int, NEW e \in Int,
           At(s, a, h, l, d, e)
    PROVE  /\ After(Effect(<<"op", 125, 0>>, s), s.flag, l, h, l, d, e)
           /\ After(Effect(<<"op", 111, 0>>, s), s.flag, a, h, a, d, e)
           /\ After(Effect(<<"op", 124, 0>>, s), s.flag, h, h, l, d, e)
           /\ After(Effect(<<"op", 103, 0>>, s), s.flag, a, a, l, d, e)
  <1>1. Effect(<<"op", 125, 0>>, s) = [s EXCEPT !.reg["A"] = s.reg["L"]]
    <2>1. Copied(s, 125, 7, 5)
      BY CopyIs
    <2> QED
      BY <2>1 DEF Copied, Operand
  <1>2. Effect(<<"op", 111, 0>>, s) = [s EXCEPT !.reg["L"] = s.reg["A"]]
    <2>1. Copied(s, 111, 5, 7)
      BY CopyIs
    <2> QED
      BY <2>1 DEF Copied, Operand
  <1>3. Effect(<<"op", 124, 0>>, s) = [s EXCEPT !.reg["A"] = s.reg["H"]]
    <2>1. Copied(s, 124, 7, 4)
      BY CopyIs
    <2> QED
      BY <2>1 DEF Copied, Operand
  <1>4. Effect(<<"op", 103, 0>>, s) = [s EXCEPT !.reg["H"] = s.reg["A"]]
    <2>1. Copied(s, 103, 4, 7)
      BY CopyIs
    <2> QED
      BY <2>1 DEF Copied, Operand
  <1>5. ASSUME NEW r \in {"A", "H", "L"}, NEW q \in {"A", "H", "L"}, NEW m, m = [s EXCEPT !.reg[r] = s.reg[q]]
        PROVE  /\ m.flag = s.flag /\ m.reg \in [Registers -> Int]
               /\ \A x \in Registers : m.reg[x] = IF x = r THEN s.reg[q] ELSE s.reg[x]
    BY <1>5 DEF At, Registers
  <1> QED
    BY <1>1, <1>2, <1>3, <1>4, <1>5 DEF At, After, Registers

\* A sum or difference of bytes is v with carry k; and what an operation on A
\* leaves when it is one.
Sums(a, x, c, k, v) == a + x + c = 256 * k + v
Leaves(a, x, c, k, v) == a - x - c = v - 256 * k

Adds(m, a, x, c, h, l, d, e) ==
    \E v \in 0 .. 255, k \in {0, 1} :
        /\ At(m, v, h, l, d, e) /\ k = Carry(m.flag) /\ Sums(a, x, c, k, v)
        /\ "H" \in m.flag <=> (a % 16) + (x % 16) + c > 15

Takes(m, a, x, c, h, l, d, e) ==
    \E v \in 0 .. 255, k \in {0, 1} :
        At(m, v, h, l, d, e) /\ k = Carry(m.flag) /\ Leaves(a, x, c, k, v)

Compares(m, a, x, h, l, d, e) ==
    \E v \in 0 .. 255, k \in {0, 1} :
        At(m, a, h, l, d, e) /\ k = Carry(m.flag) /\ Leaves(a, x, 0, k, v)

\* ADD A,E; ADC A,D; SUB E; SBC A,D and CP E are such operations.
LEMMA LowAndHigh ==
    ASSUME NEW s, NEW a \in 0 .. 255, NEW h \in 0 .. 255, NEW l \in 0 .. 255, NEW d \in 0 .. 255,
           NEW e \in 0 .. 255, At(s, a, h, l, d, e)
    PROVE  /\ Adds(Effect(<<"op", 131, 0>>, s), a, e, 0, h, l, d, e)
           /\ Adds(Effect(<<"op", 138, 0>>, s), a, d, Carry(s.flag), h, l, d, e)
           /\ Takes(Effect(<<"op", 147, 0>>, s), a, e, 0, h, l, d, e)
           /\ Takes(Effect(<<"op", 154, 0>>, s), a, d, Carry(s.flag), h, l, d, e)
           /\ Compares(Effect(<<"op", 187, 0>>, s), a, e, h, l, d, e)
  <1>1. /\ Accumulated(s, 131, 0, 3) /\ Accumulated(s, 138, 1, 2) /\ Accumulated(s, 147, 2, 3)
        /\ Accumulated(s, 154, 3, 2) /\ Accumulated(s, 187, 7, 3)
    BY AccumulateIs
  <1>2. /\ Effect(<<"op", 131, 0>>, s) = AccumulatorPage(s, "ADD", e)
        /\ Effect(<<"op", 138, 0>>, s) = AccumulatorPage(s, "ADC", d)
        /\ Effect(<<"op", 147, 0>>, s) = AccumulatorPage(s, "SUB", e)
        /\ Effect(<<"op", 154, 0>>, s) = AccumulatorPage(s, "SBC", d)
        /\ Effect(<<"op", 187, 0>>, s) = AccumulatorPage(s, "CP", e)
    BY <1>1 DEF Accumulated, At, AccumulatorRow, Operand
  <1>3. s.reg.A = a
    BY DEF At
  <1>4. /\ Effect(<<"op", 131, 0>>, s) = Put(s, "A", Add8(a, e, 0))
        /\ Effect(<<"op", 138, 0>>, s) = Put(s, "A", Add8(a, d, Carry(s.flag)))
        /\ Effect(<<"op", 147, 0>>, s) = Put(s, "A", Subtract(a, e, 0))
        /\ Effect(<<"op", 154, 0>>, s) = Put(s, "A", Subtract(a, d, Carry(s.flag)))
        /\ Effect(<<"op", 187, 0>>, s) = Flagged(s, Subtract(a, e, 0).flag)
    BY <1>2, <1>3, AccumulatesIs
  <1>5. ASSUME NEW o, NEW v \in Int, v = o.val, NEW m, m = Put(s, "A", o)
        PROVE  After(m, o.flag, v, h, l, d, e)
    BY <1>5 DEF At, After, Put, Registers
  <1>6. ASSUME NEW f, NEW m, m = Flagged(s, f)
        PROVE  After(m, f, a, h, l, d, e)
    BY <1>6 DEF At, After, Flagged, Registers
  <1>7. ASSUME NEW x \in 0 .. 255, NEW c \in {0, 1}
        PROVE  Adds(Put(s, "A", Add8(a, x, c)), a, x, c, h, l, d, e)
    <2>1. PICK o : o = Add8(a, x, c) /\ Added(a, x, c, o)
      BY AddIs, Zenon
    <2>2. PICK k \in {0, 1}, v \in 0 .. 255 : k = Carry(o.flag) /\ v = o.val /\ a + x + c = 256 * k + v
      BY <2>1 DEF Added
    <2>3. "H" \in o.flag <=> (a % 16) + (x % 16) + c > 15
      BY <2>1 DEF Added
    <2>4. PICK m : m = Put(s, "A", o)
      OBVIOUS
    <2>5. After(m, o.flag, v, h, l, d, e)
      BY <1>5, <2>2, <2>4
    <2>6. k = Carry(m.flag) /\ ("H" \in m.flag <=> (a % 16) + (x % 16) + c > 15)
      BY <2>2, <2>3, <2>5 DEF After
    <2>7. Adds(m, a, x, c, h, l, d, e)
      BY <2>2, <2>5, <2>6 DEF Adds, After, Sums
    <2> QED
      BY <2>1, <2>4, <2>7, SMTT(30)
  <1>8. ASSUME NEW x \in 0 .. 255, NEW c \in {0, 1}
        PROVE  Takes(Put(s, "A", Subtract(a, x, c)), a, x, c, h, l, d, e)
    <2>1. PICK o : o = Subtract(a, x, c) /\ Subtracted(a, x, c, o)
      BY SubtractIs
    <2>2. PICK k \in {0, 1}, v \in 0 .. 255 : k = Carry(o.flag) /\ v = o.val /\ a - x - c = v - 256 * k
      BY <2>1 DEF Subtracted
    <2>3. PICK m : m = Put(s, "A", o)
      OBVIOUS
    <2>4. After(m, o.flag, v, h, l, d, e)
      BY <1>5, <2>2, <2>3
    <2>5. k = Carry(m.flag)
      BY <2>2, <2>4 DEF After
    <2>6. Takes(m, a, x, c, h, l, d, e)
      BY <2>2, <2>4, <2>5, ZenonT(60) DEF Takes, After, Leaves
    <2> QED
      BY <2>1, <2>3, <2>6, SMTT(30)
  <1>9. Compares(Flagged(s, Subtract(a, e, 0).flag), a, e, h, l, d, e)
    <2>1. PICK o : o = Subtract(a, e, 0) /\ Subtracted(a, e, 0, o)
      BY SubtractIs, Zenon
    <2>2. PICK k \in {0, 1}, v \in 0 .. 255 : k = Carry(o.flag) /\ v = o.val /\ a - e - 0 = v - 256 * k
      BY <2>1 DEF Subtracted
    <2>3. PICK m : m = Flagged(s, o.flag)
      OBVIOUS
    <2>4. After(m, o.flag, a, h, l, d, e)
      BY <1>6, <2>3
    <2>5. k = Carry(m.flag)
      BY <2>2, <2>4 DEF After
    <2>6. Compares(m, a, e, h, l, d, e)
      BY <2>2, <2>4, <2>5, ZenonT(60) DEF Compares, After, Leaves
    <2> QED
      BY <2>1, <2>3, <2>6
  <1>10. PICK c \in {0, 1} : c = Carry(s.flag)
    BY CarryIs
  <1>11. /\ Adds(Effect(<<"op", 131, 0>>, s), a, e, 0, h, l, d, e)
         /\ Takes(Effect(<<"op", 147, 0>>, s), a, e, 0, h, l, d, e)
         /\ Compares(Effect(<<"op", 187, 0>>, s), a, e, h, l, d, e)
    BY <1>4, <1>7, <1>8, <1>9, ZenonT(60)
  <1>12. /\ Effect(<<"op", 138, 0>>, s) = Put(s, "A", Add8(a, d, c))
         /\ Effect(<<"op", 154, 0>>, s) = Put(s, "A", Subtract(a, d, c))
    BY <1>4, <1>10
  <1>13. Adds(Put(s, "A", Add8(a, d, c)), a, d, c, h, l, d, e)
    BY <1>7, <1>10, ZenonT(60)
  <1>14. Takes(Put(s, "A", Subtract(a, d, c)), a, d, c, h, l, d, e)
    BY <1>8, <1>10, Zenon
  <1> QED
    BY <1>10, <1>11, <1>12, <1>13, <1>14

\* The two bytes of a word.
Split(n, h, l, q) == /\ h \in 0 .. 255 /\ l \in 0 .. 255 /\ q \in Int
                     /\ (n \div 256) % 256 = h /\ n % 256 = l
                     /\ n % 65536 = 256 * h + l /\ n = 65536 * q + 256 * h + l

\* Two bytes are a word.
LEMMA BytesFit ==
    ASSUME NEW h \in 0 .. 255, NEW l \in 0 .. 255
    PROVE  0 <= 256 * h + l /\ 256 * h + l < 65536
  <1>1. 0 <= h /\ h <= 255 /\ 0 <= l /\ l <= 255 /\ h \in Int /\ l \in Int
    OBVIOUS
  <1> QED
    BY <1>1

\* Every number has those two bytes, when it is taken round to a word.
LEMMA WordIs ==
    ASSUME NEW n \in Int
    PROVE  \E h, l, q : Split(n, h, l, q)
  <1>1. PICK p \in Int, l \in 0 .. 255 : n = 256 * p + l /\ n \div 256 = p /\ n % 256 = l
    BY Divided
  <1>2. PICK q \in Int, h \in 0 .. 255 : p = 256 * q + h /\ p \div 256 = q /\ p % 256 = h
    BY Divided
  <1>3. PICK w \in Int : w = 256 * h + l
    OBVIOUS
  <1>4. n = 65536 * q + w
    BY <1>1, <1>2, <1>3
  <1>5. 0 <= w /\ w < 65536
    BY <1>3, BytesFit
  <1>6. n % 65536 = w
    <2> DEFINE m == 65536
    <2>1. m \in Nat \ {0} /\ n = m * q + w /\ 0 <= w /\ w < m
      BY <1>4, <1>5
    <2> HIDE DEF m
    <2>2. w \in 0 .. m - 1
      BY <2>1
    <2>3. n % m = w
      BY <2>1, <2>2, Divides
    <2> QED
      BY <2>3 DEF m
  <1>7. n = 65536 * q + 256 * h + l
    BY <1>3, <1>4
  <1>8. n % 65536 = 256 * h + l
    BY <1>3, <1>6
  <1>9. Split(n, h, l, q)
    BY <1>1, <1>2, <1>7, <1>8 DEF Split
  <1> QED
    BY <1>9

\* A word, from its bytes.
Word(x, h, l) == x \in Int /\ h \in 0 .. 255 /\ l \in 0 .. 255 /\ x = 256 * h + l

\* HL is the sum of two words, and the flags are right.
Summed16(u, d, e, x, y) == /\ 256 * u.reg["H"] + u.reg["L"] = (x + y) % 65536
                           /\ u.reg["D"] = d /\ u.reg["E"] = e
                           /\ "C" \in u.flag <=> x + y > 65535
                           /\ "H" \in u.flag <=> (x % 4096) + (y % 4096) > 4095

\* ADD HL,DE and ADD HL,HL leave that.
LEMMA AddsPairs ==
    ASSUME NEW s, NEW a, NEW h, NEW l, NEW d, NEW e, At(s, a, h, l, d, e),
           NEW x, Word(x, h, l), NEW y, Word(y, d, e), NEW m
    PROVE  /\ m = AddPair(s, 1) => Summed16(m, d, e, x, y)
           /\ m = AddPair(s, 2) => Summed16(m, d, e, x, x)
  <1>1. /\ h \in 0 .. 255 /\ l \in 0 .. 255 /\ d \in 0 .. 255 /\ e \in 0 .. 255
        /\ x \in Int /\ x = 256 * h + l /\ y \in Int /\ y = 256 * d + e
    BY DEF Word
  <1> SUFFICES ASSUME NEW p \in {1, 2}, m = AddPair(s, p),
                      NEW f \in Int, f = IF p = 1 THEN y ELSE x
               PROVE  Summed16(m, d, e, x, f)
    BY <1>1
  <1>2. Pair(s.reg, 2) = x /\ Pair(s.reg, p) = f
    <2>1. /\ Pair(s.reg, 1) = 256 * s.reg["D"] + s.reg["E"]
          /\ Pair(s.reg, 2) = 256 * s.reg["H"] + s.reg["L"]
      BY DEF Pair, High, Low
    <2>2. Pair(s.reg, 1) = y /\ Pair(s.reg, 2) = x
      BY <1>1, <2>1 DEF At
    <2> QED
      BY <2>2
  <1>3. PICK n \in Int : n = x + f
    BY <1>1
  <1>4. /\ m.reg = SetPair(s.reg, 2, n)
        /\ m.flag = Kept(s.flag, "Z") \cup When((x % 4096) + (f % 4096) > 4095, "H") \cup When(n > 65535, "C")
    BY <1>2, <1>3 DEF AddPair
  <1>5. PICK i, j, q : Split(n, i, j, q)
    BY WordIs
  <1>6. m.reg["H"] = i /\ m.reg["L"] = j /\ m.reg["D"] = d /\ m.reg["E"] = e
    <2>1. SetPair(s.reg, 2, n) = [s.reg EXCEPT !["H"] = (n \div 256) % 256, !["L"] = n % 256]
      BY DEF SetPair, High, Low
    <2>2. m.reg = [s.reg EXCEPT !["H"] = i, !["L"] = j]
      <3>1. (n \div 256) % 256 = i /\ n % 256 = j
        BY <1>5 DEF Split
      <3>2. m.reg = SetPair(s.reg, 2, n)
        BY <1>4
      <3> QED
        BY <2>1, <3>1, <3>2
    <2> QED
      BY <2>2 DEF At, Registers
  <1>7. /\ "C" \in m.flag <=> n > 65535
        /\ "H" \in m.flag <=> (x % 4096) + (f % 4096) > 4095
    BY <1>4 DEF Kept, When
  <1> QED
    BY <1>3, <1>5, <1>6, <1>7 DEF Split, Summed16

\* Moves of the bytes of HL by one place: v is what a byte becomes, k the carry.
Doubles(b, c, k, v) == 2 * b + c = 256 * k + v
Halves(b, c, k, v) == b + 256 * c = 2 * v + k

\* The rotates and shifts of L and H, the carry going between them.
LowUp(m, a, h, l, d, e, c) == \E v \in 0 .. 255, k \in {0, 1} :
    At(m, a, h, v, d, e) /\ k = Carry(m.flag) /\ Doubles(l, c, k, v)

HighUp(m, a, h, l, d, e, c) == \E v \in 0 .. 255, k \in {0, 1} :
    At(m, a, v, l, d, e) /\ k = Carry(m.flag) /\ Doubles(h, c, k, v)

HighDown(m, a, h, l, d, e, c) == \E v \in 0 .. 255, k \in {0, 1} :
    At(m, a, v, l, d, e) /\ k = Carry(m.flag) /\ Halves(h, c, k, v)

LowDown(m, a, h, l, d, e, c) == \E v \in 0 .. 255, k \in {0, 1} :
    At(m, a, h, v, d, e) /\ k = Carry(m.flag) /\ Halves(l, c, k, v)

\* SLA L; RL H; SRL H and RR L are those.
LEMMA TurnsHL ==
    ASSUME NEW s, NEW a, NEW h \in 0 .. 255, NEW l \in 0 .. 255, NEW d, NEW e, At(s, a, h, l, d, e)
    PROVE  /\ LowUp(Effect(<<"cb", 37, 0>>, s), a, h, l, d, e, 0)
           /\ HighUp(Effect(<<"cb", 20, 0>>, s), a, h, l, d, e, Carry(s.flag))
           /\ HighDown(Effect(<<"cb", 60, 0>>, s), a, h, l, d, e, 0)
           /\ LowDown(Effect(<<"cb", 29, 0>>, s), a, h, l, d, e, Carry(s.flag))
  <1>1. Turned(s, 37, 4, 5) /\ Turned(s, 20, 2, 4) /\ Turned(s, 60, 7, 4) /\ Turned(s, 29, 3, 5)
    BY RotateIs
  <1>2. /\ Effect(<<"cb", 37, 0>>, s) = Put(s, "L", Rotate("SLA", l, s.flag))
        /\ Effect(<<"cb", 20, 0>>, s) = Put(s, "H", Rotate("RL", h, s.flag))
        /\ Effect(<<"cb", 60, 0>>, s) = Put(s, "H", Rotate("SRL", h, s.flag))
        /\ Effect(<<"cb", 29, 0>>, s) = Put(s, "L", Rotate("RR", l, s.flag))
    BY <1>1 DEF Turned, At, RotateRow, Operand
  <1>3. PICK c \in {0, 1} : c = Carry(s.flag)
    BY CarryIs
  <1>4. ASSUME NEW o, NEW v \in Int, v = o.val, NEW m, m = Put(s, "L", o)
        PROVE  After(m, o.flag, a, h, v, d, e)
    BY <1>4 DEF At, After, Put, Registers
  <1>5. ASSUME NEW o, NEW v \in Int, v = o.val, NEW m, m = Put(s, "H", o)
        PROVE  After(m, o.flag, a, v, l, d, e)
    BY <1>5 DEF At, After, Put, Registers
  <1>6. ASSUME NEW o, NEW b \in 0 .. 255, NEW p, MovedUp(b, p, o)
        PROVE  Doubles(b, p, Carry(o.flag), o.val) /\ Outcome(o)
    <2>1. o.val \in 0 .. 255 /\ Carry(o.flag) \in {0, 1} /\ 2 * b + p = 256 * Carry(o.flag) + o.val
      BY <1>6, CarryIs DEF MovedUp, Outcome
    <2>2. Doubles(b, p, Carry(o.flag), o.val)
      BY <2>1 DEF Doubles
    <2> QED
      BY <1>6, <2>2 DEF MovedUp
  <1>7. ASSUME NEW o, NEW b \in 0 .. 255, NEW p, MovedDown(b, p, o)
        PROVE  Halves(b, p, Carry(o.flag), o.val) /\ Outcome(o)
    <2>1. o.val \in 0 .. 255 /\ Carry(o.flag) \in {0, 1} /\ b + 256 * p = 2 * o.val + Carry(o.flag)
      BY <1>7, CarryIs DEF MovedDown, Outcome
    <2>2. Halves(b, p, Carry(o.flag), o.val)
      BY <2>1 DEF Halves
    <2> QED
      BY <1>7, <2>2 DEF MovedDown
  <1>8. LowUp(Effect(<<"cb", 37, 0>>, s), a, h, l, d, e, 0)
    <2>1. PICK o, m : o = Rotate("SLA", l, s.flag) /\ m = Put(s, "L", o)
      OBVIOUS
    <2>2. MovedUp(l, 0, o)
      BY <2>1, RotatesLeft
    <2>3. PICK v \in 0 .. 255, k \in {0, 1} : v = o.val /\ k = Carry(o.flag) /\ Doubles(l, 0, k, v)
      <3>1. Doubles(l, 0, Carry(o.flag), o.val) /\ Outcome(o)
        BY <1>6, <2>2
      <3> QED
        BY <3>1, CarryIs DEF Outcome
    <2>4. After(m, o.flag, a, h, v, d, e)
      BY <1>4, <2>1, <2>3
    <2>5. LowUp(m, a, h, l, d, e, 0)
      BY <2>3, <2>4 DEF After, LowUp
    <2> QED
      BY <1>2, <2>1, <2>5
  <1>9. HighUp(Effect(<<"cb", 20, 0>>, s), a, h, l, d, e, c)
    <2>1. PICK o, m : o = Rotate("RL", h, s.flag) /\ m = Put(s, "H", o)
      OBVIOUS
    <2>2. MovedUp(h, c, o)
      BY <1>3, <2>1, RotatesLeft
    <2>3. PICK v \in 0 .. 255, k \in {0, 1} : v = o.val /\ k = Carry(o.flag) /\ Doubles(h, c, k, v)
      <3>1. Doubles(h, c, Carry(o.flag), o.val) /\ Outcome(o)
        BY <1>6, <2>2
      <3> QED
        BY <3>1, CarryIs DEF Outcome
    <2>4. After(m, o.flag, a, v, l, d, e)
      BY <1>5, <2>1, <2>3
    <2>5. HighUp(m, a, h, l, d, e, c)
      BY <2>3, <2>4 DEF After, HighUp
    <2> QED
      BY <1>2, <2>1, <2>5
  <1>10. HighDown(Effect(<<"cb", 60, 0>>, s), a, h, l, d, e, 0)
    <2>1. PICK o, m : o = Rotate("SRL", h, s.flag) /\ m = Put(s, "H", o)
      OBVIOUS
    <2>2. MovedDown(h, 0, o)
      BY <2>1, RotatesRight
    <2>3. PICK v \in 0 .. 255, k \in {0, 1} : v = o.val /\ k = Carry(o.flag) /\ Halves(h, 0, k, v)
      <3>1. Halves(h, 0, Carry(o.flag), o.val) /\ Outcome(o)
        BY <1>7, <2>2
      <3> QED
        BY <3>1, CarryIs DEF Outcome
    <2>4. After(m, o.flag, a, v, l, d, e)
      BY <1>5, <2>1, <2>3
    <2>5. HighDown(m, a, h, l, d, e, 0)
      BY <2>3, <2>4 DEF After, HighDown
    <2> QED
      BY <1>2, <2>1, <2>5
  <1>11. LowDown(Effect(<<"cb", 29, 0>>, s), a, h, l, d, e, c)
    <2>1. PICK o, m : o = Rotate("RR", l, s.flag) /\ m = Put(s, "L", o)
      OBVIOUS
    <2>2. MovedDown(l, c, o)
      BY <1>3, <2>1, RotatesRight
    <2>3. PICK v \in 0 .. 255, k \in {0, 1} : v = o.val /\ k = Carry(o.flag) /\ Halves(l, c, k, v)
      <3>1. Halves(l, c, Carry(o.flag), o.val) /\ Outcome(o)
        BY <1>7, <2>2
      <3> QED
        BY <3>1, CarryIs DEF Outcome
    <2>4. After(m, o.flag, a, h, v, d, e)
      BY <1>4, <2>1, <2>3
    <2>5. LowDown(m, a, h, l, d, e, c)
      BY <2>3, <2>4 DEF After, LowDown
    <2> QED
      BY <1>2, <2>1, <2>5
  <1> QED
    BY <1>3, <1>8, <1>9, <1>10, <1>11

\* The sum of two words, its carry k and its half carry, from those of their bytes.
WordAdded(x, y, z, h, d, j, k) ==
    /\ (x + y) % 65536 = z
    /\ k = 1 <=> x + y > 65535
    /\ (h % 16) + (d % 16) + j > 15 <=> (x % 4096) + (y % 4096) > 4095

\* The twelve low bits of a word.
LEMMA LowTwelve ==
    ASSUME NEW x, NEW h, NEW l, Word(x, h, l)
    PROVE  \E b \in 0 .. 15, m \in Int : h % 16 = b /\ x % 4096 = m /\ m = 256 * b + l
  <1>1. x \in Int /\ h \in 0 .. 255 /\ l \in 0 .. 255 /\ x = 256 * h + l
    BY DEF Word
  <1>2. PICK a \in Int, b \in 0 .. 15 : h = 16 * a + b /\ h \div 16 = a /\ h % 16 = b
    BY <1>1, Divided
  <1>3. PICK m \in Int : m = 256 * b + l
    BY <1>1
  <1>4. m \in 0 .. 4096 - 1 /\ x = 4096 * a + m
    BY <1>1, <1>2, <1>3
  <1>5. x % 4096 = m
    <2>1. x \div 4096 = a /\ x % 4096 = m
      BY <1>1, <1>2, <1>4, Divides
    <2> QED
      BY <2>1
  <1> QED
    BY <1>2, <1>3, <1>5

\* Words that are added byte by byte, j being the carry between the bytes.
ByAdded(x, h, l, y, d, e, j, v, k, w, z) ==
    /\ Word(x, h, l) /\ Word(y, d, e) /\ Word(z, w, v)
    /\ j \in {0, 1} /\ k \in {0, 1} /\ Sums(l, e, 0, j, v) /\ Sums(h, d, j, k, w)

\* Then their sum is right, and both carries.
LEMMA WordAdds ==
    ASSUME NEW x, NEW h, NEW l, NEW y, NEW d, NEW e, NEW j, NEW v, NEW k, NEW w, NEW z,
           ByAdded(x, h, l, y, d, e, j, v, k, w, z)
    PROVE  WordAdded(x, y, z, h, d, j, k)
  <1>1. /\ x \in Int /\ h \in 0 .. 255 /\ l \in 0 .. 255 /\ x = 256 * h + l
        /\ y \in Int /\ d \in 0 .. 255 /\ e \in 0 .. 255 /\ y = 256 * d + e
        /\ v \in 0 .. 255 /\ w \in 0 .. 255 /\ j \in {0, 1} /\ k \in {0, 1}
        /\ z \in Int /\ z = 256 * w + v
        /\ l + e = 256 * j + v /\ h + d + j = 256 * k + w
    BY DEF ByAdded, Word, Sums
  <1>2. PICK n \in Int : n = x + y
    BY <1>1
  <1>3. n = 65536 * k + z
    BY <1>1, <1>2
  <1>4. n % 65536 = z
    <2>1. k \in Int /\ 0 <= z /\ z < 65536
      BY <1>1
    <2> QED
      BY <1>1, <1>2, <1>3, <2>1
  <1>5. k = 1 <=> n > 65535
    BY <1>1, <1>2, <1>3
  <1>6. PICK b \in 0 .. 15, m \in Int : h % 16 = b /\ x % 4096 = m /\ m = 256 * b + l
    BY LowTwelve DEF ByAdded
  <1>7. PICK g \in 0 .. 15, i \in Int : d % 16 = g /\ y % 4096 = i /\ i = 256 * g + e
    BY LowTwelve DEF ByAdded
  <1>8. b + g + j > 15 <=> m + i > 4095
    BY <1>1, <1>6, <1>7
  <1> QED
    BY <1>2, <1>4, <1>5, <1>6, <1>7, <1>8 DEF WordAdded

\* The difference of two words and its borrow.
WordTaken(x, y, z, k) == (x - y) % 65536 = z /\ (k = 1 <=> x < y)

\* Words that are subtracted byte by byte, j being the borrow between the bytes.
ByTaken(x, h, l, y, d, e, j, v, k, w, z) ==
    /\ Word(x, h, l) /\ Word(y, d, e) /\ Word(z, w, v)
    /\ j \in {0, 1} /\ k \in {0, 1} /\ Leaves(l, e, 0, j, v) /\ Leaves(h, d, j, k, w)

\* Then their difference is right, and the borrow.
LEMMA WordTakes ==
    ASSUME NEW x, NEW h, NEW l, NEW y, NEW d, NEW e, NEW j, NEW v, NEW k, NEW w, NEW z,
           ByTaken(x, h, l, y, d, e, j, v, k, w, z)
    PROVE  WordTaken(x, y, z, k)
  <1>1. /\ x \in Int /\ h \in 0 .. 255 /\ l \in 0 .. 255 /\ x = 256 * h + l
        /\ y \in Int /\ d \in 0 .. 255 /\ e \in 0 .. 255 /\ y = 256 * d + e
        /\ v \in 0 .. 255 /\ w \in 0 .. 255 /\ j \in {0, 1} /\ k \in {0, 1}
        /\ z \in Int /\ z = 256 * w + v
        /\ l - e = v - 256 * j /\ h - d - j = w - 256 * k
    BY DEF ByTaken, Word, Leaves
  <1>2. PICK n \in Int, q \in Int : n = x - y /\ q = 0 - k
    BY <1>1
  <1>3. n = 65536 * q + z
    BY <1>1, <1>2
  <1>4. n % 65536 = z
    <2>1. 0 <= z /\ z < 65536
      BY <1>1
    <2> QED
      BY <1>1, <1>2, <1>3, <2>1, SMTT(30)
  <1>5. k = 1 <=> n < 0
    BY <1>1, <1>2, <1>3
  <1>6. n < 0 <=> x < y
    BY <1>1, <1>2
  <1> QED
    BY <1>2, <1>4, <1>5, <1>6 DEF WordTaken

\* Programs of six and of four instructions.
SixSteps(a, b, c, d, e, f, s, u) ==
    \E t1, t2, t3, t4, t5 :
        /\ t1 = Effect(<<"op", a, 0>>, s) /\ t2 = Effect(<<"op", b, 0>>, t1)
        /\ t3 = Effect(<<"op", c, 0>>, t2) /\ t4 = Effect(<<"op", d, 0>>, t3)
        /\ t5 = Effect(<<"op", e, 0>>, t4) /\ u = Effect(<<"op", f, 0>>, t5)

FourSteps(a, b, c, d, s, u) ==
    \E t1, t2, t3 :
        /\ t1 = Effect(<<"op", a, 0>>, s) /\ t2 = Effect(<<"op", b, 0>>, t1)
        /\ t3 = Effect(<<"op", c, 0>>, t2) /\ u = Effect(<<"op", d, 0>>, t3)

\* A program of six instructions goes that way.
LEMMA SixTimes ==
    ASSUME NEW a, NEW b, NEW c, NEW d, NEW e, NEW f, NEW s, NEW u,
           RanAll(Ops(<<a, b, c, d, e, f>>), s, u)
    PROVE  SixSteps(a, b, c, d, e, f, s, u)
  <1>1. PICK p : p = Ops(<<a, b, c, d, e, f>>)
    OBVIOUS
  <1>2. /\ DOMAIN p = 1 .. 6 /\ p[1] = <<"op", a, 0>> /\ p[2] = <<"op", b, 0>>
        /\ p[3] = <<"op", c, 0>> /\ p[4] = <<"op", d, 0>> /\ p[5] = <<"op", e, 0>> /\ p[6] = <<"op", f, 0>>
    BY <1>1, ProgramsAre
  <1>3. PICK t : Trace(p, 6, t, s, u)
    BY <1>1, <1>2, Stepwise
  <1>4. /\ t[0] = s /\ u = t[6]
        /\ \A i \in 1 .. 6 : t[i] = Effect(p[i], t[i - 1])
    BY <1>3 DEF Trace
  <1>5. /\ t[1] = Effect(p[1], t[0]) /\ t[2] = Effect(p[2], t[1]) /\ t[3] = Effect(p[3], t[2])
        /\ t[4] = Effect(p[4], t[3]) /\ t[5] = Effect(p[5], t[4]) /\ t[6] = Effect(p[6], t[5])
    BY <1>4
  <1> QED
    BY <1>2, <1>4, <1>5 DEF SixSteps

\* A program of four instructions goes that way.
LEMMA FourTimes ==
    ASSUME NEW a, NEW b, NEW c, NEW d, NEW s, NEW u, RanAll(Ops(<<a, b, c, d>>), s, u)
    PROVE  FourSteps(a, b, c, d, s, u)
  <1>1. PICK p : p = Ops(<<a, b, c, d>>)
    OBVIOUS
  <1>2. /\ DOMAIN p = 1 .. 4 /\ p[1] = <<"op", a, 0>> /\ p[2] = <<"op", b, 0>>
        /\ p[3] = <<"op", c, 0>> /\ p[4] = <<"op", d, 0>>
    BY <1>1, ProgramsAre
  <1>3. PICK t : Trace(p, 4, t, s, u)
    BY <1>1, <1>2, Stepwise
  <1>4. /\ t[0] = s /\ u = t[4]
        /\ \A i \in 1 .. 4 : t[i] = Effect(p[i], t[i - 1])
    BY <1>3 DEF Trace
  <1>5. /\ t[1] = Effect(p[1], t[0]) /\ t[2] = Effect(p[2], t[1]) /\ t[3] = Effect(p[3], t[2])
        /\ t[4] = Effect(p[4], t[3])
    BY <1>4
  <1> QED
    BY <1>2, <1>4, <1>5 DEF FourSteps

\* HL is the difference of two words, and the carry is right.
Differs16(u, d, e, x, y) == /\ 256 * u.reg["H"] + u.reg["L"] = (x - y) % 65536
                            /\ u.reg["D"] = d /\ u.reg["E"] = e
                            /\ "C" \in u.flag <=> x < y

\* What a word program works on: the words x and y, and their bytes.
Words(s, a, x, h, l, y, d, e) ==
    a \in 0 .. 255 /\ Word(x, h, l) /\ Word(y, d, e) /\ At(s, a, h, l, d, e)

\* LD A,L; ADD A,E; LD L,A; LD A,H; ADC A,D; LD H,A adds DE to HL.
LEMMA SumRuns ==
    ASSUME NEW s, NEW a, NEW x, NEW h, NEW l, NEW y, NEW d, NEW e, Words(s, a, x, h, l, y, d, e),
           NEW u, RanAll(Ops(<<125, 131, 111, 124, 138, 103>>), s, u)
    PROVE  Summed16(u, d, e, x, y)
  <1>1. Word(x, h, l) /\ Word(y, d, e) /\ At(s, a, h, l, d, e) /\ a \in 0 .. 255
    BY DEF Words
  <1>2. SixSteps(125, 131, 111, 124, 138, 103, s, u)
    BY SixTimes
  <1>3. PICK t1, t2, t3, t4, t5 :
              /\ t1 = Effect(<<"op", 125, 0>>, s) /\ t2 = Effect(<<"op", 131, 0>>, t1)
              /\ t3 = Effect(<<"op", 111, 0>>, t2) /\ t4 = Effect(<<"op", 124, 0>>, t3)
              /\ t5 = Effect(<<"op", 138, 0>>, t4) /\ u = Effect(<<"op", 103, 0>>, t5)
    BY <1>2 DEF SixSteps
  <1>4. h \in 0 .. 255 /\ l \in 0 .. 255 /\ d \in 0 .. 255 /\ e \in 0 .. 255
    BY DEF Words, Word
  <1>5. After(t1, s.flag, l, h, l, d, e)
    BY <1>1, <1>3, <1>4, LoadsAre
  <1>6. Adds(t2, l, e, 0, h, l, d, e)
    BY <1>3, <1>4, <1>5, LowAndHigh, ZenonT(60) DEF After
  <1>7. PICK v \in 0 .. 255, j \in {0, 1} :
           At(t2, v, h, l, d, e) /\ j = Carry(t2.flag) /\ Sums(l, e, 0, j, v)
    BY <1>6 DEF Adds
  <1>8. v \in 0 .. 255 /\ j \in {0, 1} /\ At(t2, v, h, l, d, e) /\ j = Carry(t2.flag)
    BY <1>7
  <1>9. After(t3, t2.flag, v, h, v, d, e)
    BY <1>3, <1>4, <1>8, LoadsAre
  <1>10. At(t3, v, h, v, d, e) /\ t3.flag = t2.flag
    BY <1>9 DEF After
  <1>11. After(t4, t3.flag, h, h, v, d, e)
    BY <1>3, <1>4, <1>8, <1>10, LoadsAre
  <1>12. At(t4, h, h, v, d, e) /\ t4.flag = t2.flag
    BY <1>10, <1>11 DEF After
  <1>13. Adds(t5, h, d, j, h, v, d, e)
    <2>1. Adds(t5, h, d, Carry(t4.flag), h, v, d, e)
      <3>1. At(t4, h, h, v, d, e) /\ v \in 0 .. 255
        BY <1>8, <1>12
      <3>2. Adds(Effect(<<"op", 138, 0>>, t4), h, d, Carry(t4.flag), h, v, d, e)
        BY <1>4, <3>1, LowAndHigh, ZenonT(60)
      <3> QED
        BY <1>3, <3>2
    <2> QED
      BY <1>8, <1>12, <2>1, Zenon
  <1>14. PICK w \in 0 .. 255, k \in {0, 1} :
           /\ At(t5, w, h, v, d, e) /\ k = Carry(t5.flag) /\ Sums(h, d, j, k, w)
           /\ "H" \in t5.flag <=> (h % 16) + (d % 16) + j > 15
    BY <1>13 DEF Adds
  <1>15. w \in 0 .. 255 /\ k \in {0, 1} /\ At(t5, w, h, v, d, e)
    BY <1>14
  <1>16. After(u, t5.flag, w, w, v, d, e)
    BY <1>3, <1>4, <1>8, <1>15, LoadsAre
  <1>17. PICK z : Word(z, w, v)
    BY <1>8, <1>15 DEF Word
  <1>18. WordAdded(x, y, z, h, d, j, k)
    <2>1. ByAdded(x, h, l, y, d, e, j, v, k, w, z)
      BY <1>1, <1>8, <1>15, <1>17, <1>7, <1>14 DEF ByAdded
    <2> QED
      BY <2>1, WordAdds
  <1>19. "C" \in t5.flag <=> k = 1
    BY <1>14, CarryIs
  <1>20. /\ u.reg["H"] = w /\ u.reg["L"] = v /\ u.reg["D"] = d /\ u.reg["E"] = e
         /\ u.flag = t5.flag
    BY <1>16 DEF After, At
  <1> QED
    BY <1>14, <1>17, <1>18, <1>19, <1>20 DEF Summed16, WordAdded, Word

\* LD A,L; SUB E; LD L,A; LD A,H; SBC A,D; LD H,A subtracts DE from HL.
LEMMA DifferenceRuns ==
    ASSUME NEW s, NEW a, NEW x, NEW h, NEW l, NEW y, NEW d, NEW e, Words(s, a, x, h, l, y, d, e),
           NEW u, RanAll(Ops(<<125, 147, 111, 124, 154, 103>>), s, u)
    PROVE  Differs16(u, d, e, x, y)
  <1>1. Word(x, h, l) /\ Word(y, d, e) /\ At(s, a, h, l, d, e) /\ a \in 0 .. 255
    BY DEF Words
  <1>2. SixSteps(125, 147, 111, 124, 154, 103, s, u)
    BY SixTimes
  <1>3. PICK t1, t2, t3, t4, t5 :
              /\ t1 = Effect(<<"op", 125, 0>>, s) /\ t2 = Effect(<<"op", 147, 0>>, t1)
              /\ t3 = Effect(<<"op", 111, 0>>, t2) /\ t4 = Effect(<<"op", 124, 0>>, t3)
              /\ t5 = Effect(<<"op", 154, 0>>, t4) /\ u = Effect(<<"op", 103, 0>>, t5)
    BY <1>2 DEF SixSteps
  <1>4. h \in 0 .. 255 /\ l \in 0 .. 255 /\ d \in 0 .. 255 /\ e \in 0 .. 255
    BY DEF Words, Word
  <1>5. After(t1, s.flag, l, h, l, d, e)
    BY <1>1, <1>3, <1>4, LoadsAre
  <1>6. Takes(t2, l, e, 0, h, l, d, e)
    BY <1>3, <1>4, <1>5, LowAndHigh, ZenonT(60) DEF After
  <1>7. PICK v \in 0 .. 255, j \in {0, 1} :
           At(t2, v, h, l, d, e) /\ j = Carry(t2.flag) /\ Leaves(l, e, 0, j, v)
    BY <1>6 DEF Takes
  <1>8. v \in 0 .. 255 /\ j \in {0, 1} /\ At(t2, v, h, l, d, e) /\ j = Carry(t2.flag)
    BY <1>7
  <1>9. After(t3, t2.flag, v, h, v, d, e)
    BY <1>3, <1>4, <1>8, LoadsAre
  <1>10. At(t3, v, h, v, d, e) /\ t3.flag = t2.flag
    BY <1>9 DEF After
  <1>11. After(t4, t3.flag, h, h, v, d, e)
    BY <1>3, <1>4, <1>8, <1>10, LoadsAre
  <1>12. At(t4, h, h, v, d, e) /\ t4.flag = t2.flag
    BY <1>10, <1>11 DEF After
  <1>13. Takes(t5, h, d, j, h, v, d, e)
    <2>1. Takes(t5, h, d, Carry(t4.flag), h, v, d, e)
      <3>1. At(t4, h, h, v, d, e) /\ v \in 0 .. 255
        BY <1>8, <1>12
      <3>2. Takes(Effect(<<"op", 154, 0>>, t4), h, d, Carry(t4.flag), h, v, d, e)
        BY <1>4, <3>1, LowAndHigh, ZenonT(60)
      <3> QED
        BY <1>3, <3>2
    <2> QED
      BY <1>8, <1>12, <2>1, Zenon
  <1>14. PICK w \in 0 .. 255, k \in {0, 1} :
           At(t5, w, h, v, d, e) /\ k = Carry(t5.flag) /\ Leaves(h, d, j, k, w)
    BY <1>13 DEF Takes
  <1>15. w \in 0 .. 255 /\ k \in {0, 1} /\ At(t5, w, h, v, d, e)
    BY <1>14
  <1>16. After(u, t5.flag, w, w, v, d, e)
    BY <1>3, <1>4, <1>8, <1>15, LoadsAre
  <1>17. PICK z : Word(z, w, v)
    BY <1>8, <1>15 DEF Word
  <1>18. WordTaken(x, y, z, k)
    <2>1. ByTaken(x, h, l, y, d, e, j, v, k, w, z)
      BY <1>1, <1>8, <1>15, <1>17, <1>7, <1>14 DEF ByTaken
    <2> QED
      BY <2>1, WordTakes
  <1>19. "C" \in t5.flag <=> k = 1
    BY <1>14, CarryIs
  <1>20. /\ u.reg["H"] = w /\ u.reg["L"] = v /\ u.reg["D"] = d /\ u.reg["E"] = e
         /\ u.flag = t5.flag
    BY <1>16 DEF After, At
  <1> QED
    BY <1>17, <1>18, <1>19, <1>20 DEF Differs16, WordTaken, Word

\* Compared only: the words are as they were.
Compares16(u, d, e, x, y) == /\ 256 * u.reg["H"] + u.reg["L"] = x
                             /\ u.reg["D"] = d /\ u.reg["E"] = e
                             /\ "C" \in u.flag <=> x < y

\* LD A,L; CP E; LD A,H; SBC A,D compares HL with DE.
LEMMA LeastRuns ==
    ASSUME NEW s, NEW a, NEW x, NEW h, NEW l, NEW y, NEW d, NEW e, Words(s, a, x, h, l, y, d, e),
           NEW u, RanAll(Ops(<<125, 187, 124, 154>>), s, u)
    PROVE  Compares16(u, d, e, x, y)
  <1>1. Word(x, h, l) /\ Word(y, d, e) /\ At(s, a, h, l, d, e) /\ a \in 0 .. 255
    BY DEF Words
  <1>2. PICK t1, t2, t3 :
              /\ t1 = Effect(<<"op", 125, 0>>, s) /\ t2 = Effect(<<"op", 187, 0>>, t1)
              /\ t3 = Effect(<<"op", 124, 0>>, t2) /\ u = Effect(<<"op", 154, 0>>, t3)
    BY FourTimes DEF FourSteps
  <1>3. h \in 0 .. 255 /\ l \in 0 .. 255 /\ d \in 0 .. 255 /\ e \in 0 .. 255 /\ x = 256 * h + l
    BY DEF Words, Word
  <1>4. After(t1, s.flag, l, h, l, d, e)
    BY <1>1, <1>2, <1>3, LoadsAre
  <1>5. Compares(t2, l, e, h, l, d, e)
    BY <1>2, <1>3, <1>4, LowAndHigh, ZenonT(60) DEF After
  <1>6. PICK v \in 0 .. 255, j \in {0, 1} :
           At(t2, l, h, l, d, e) /\ j = Carry(t2.flag) /\ Leaves(l, e, 0, j, v)
    BY <1>5 DEF Compares
  <1>7. After(t3, t2.flag, h, h, l, d, e)
    BY <1>2, <1>3, <1>6, LoadsAre
  <1>8. t3.flag = t2.flag /\ At(t3, h, h, l, d, e)
    BY <1>7 DEF After
  <1>9. Takes(u, h, d, j, h, l, d, e)
    <2>1. Takes(u, h, d, Carry(t3.flag), h, l, d, e)
      <3>1. At(t3, h, h, l, d, e)
        BY <1>8
      <3>2. Takes(Effect(<<"op", 154, 0>>, t3), h, d, Carry(t3.flag), h, l, d, e)
        BY <1>3, <3>1, LowAndHigh, ZenonT(60)
      <3> QED
        BY <1>2, <3>2
    <2> QED
      BY <1>6, <1>8, <2>1, Zenon
  <1>10. PICK w \in 0 .. 255, k \in {0, 1} :
           At(u, w, h, l, d, e) /\ k = Carry(u.flag) /\ Leaves(h, d, j, k, w)
    BY <1>9 DEF Takes
  <1>11. PICK z : Word(z, w, v)
    BY <1>6, <1>10 DEF Word
  <1>12. WordTaken(x, y, z, k)
    <2>1. ByTaken(x, h, l, y, d, e, j, v, k, w, z)
      BY <1>1, <1>6, <1>10, <1>11 DEF ByTaken
    <2> QED
      BY <2>1, WordTakes
  <1>13. "C" \in u.flag <=> k = 1
    BY <1>10, CarryIs
  <1>14. u.reg["H"] = h /\ u.reg["L"] = l /\ u.reg["D"] = d /\ u.reg["E"] = e
    BY <1>10 DEF At
  <1> QED
    BY <1>3, <1>12, <1>13, <1>14 DEF Compares16, WordTaken

\* ADD HL,DE and ADD HL,HL are programs of their own.
LEMMA PairRuns ==
    ASSUME NEW s, NEW a, NEW x, NEW h, NEW l, NEW y, NEW d, NEW e, Words(s, a, x, h, l, y, d, e),
           NEW u
    PROVE  /\ RanAll(Ops(<<25>>), s, u) => Summed16(u, d, e, x, y)
           /\ RanAll(Ops(<<41>>), s, u) => Summed16(u, d, e, x, x)
  <1>1. Word(x, h, l) /\ Word(y, d, e) /\ At(s, a, h, l, d, e) /\ a \in 0 .. 255
    BY DEF Words
  <1>2. ASSUME NEW code, RanAll(Ops(<<code>>), s, u) PROVE u = Effect(<<"op", code, 0>>, s)
    <2>1. PICK q : q = Ops(<<code>>)
      OBVIOUS
    <2>2. DOMAIN q = 1 .. 1 /\ q[1] = <<"op", code, 0>> /\ RanAll(q, s, u)
      BY <1>2, <2>1, ProgramsAre
    <2> QED
      BY <2>2, Once
  <1>3. ASSUME RanAll(Ops(<< 25 >>), s, u) PROVE Summed16(u, d, e, x, y)
    <2>1. u = AddPair(s, 1)
      BY <1>2, <1>3, PairIs, 16 * 1 + 9 = 25
    <2> QED
      BY <1>1, <2>1, AddsPairs
  <1>4. ASSUME RanAll(Ops(<< 41 >>), s, u) PROVE Summed16(u, d, e, x, x)
    <2>1. u = AddPair(s, 2)
      BY <1>2, <1>4, PairIs, 16 * 2 + 9 = 41
    <2> QED
      BY <1>1, <2>1, AddsPairs
  <1> QED
    BY <1>3, <1>4

\* HL is twice a word, or half of it, and the carry is right.
Doubled16(u, d, e, x) == /\ 256 * u.reg["H"] + u.reg["L"] = (2 * x) % 65536
                         /\ u.reg["D"] = d /\ u.reg["E"] = e
                         /\ "C" \in u.flag <=> 2 * x > 65535

Halved16(u, d, e, x) == /\ 256 * u.reg["H"] + u.reg["L"] = x \div 2
                        /\ u.reg["D"] = d /\ u.reg["E"] = e
                        /\ "C" \in u.flag <=> x % 2 = 1

\* Two instructions of the second page.
LEMMA CBTwice ==
    ASSUME NEW a, NEW b, NEW s, NEW u, RanAll(CBs(<<a, b>>), s, u)
    PROVE  u = Effect(<<"cb", b, 0>>, Effect(<<"cb", a, 0>>, s))
  <1>1. PICK p : p = CBs(<<a, b>>)
    OBVIOUS
  <1>2. DOMAIN p = 1 .. 2 /\ p[1] = <<"cb", a, 0>> /\ p[2] = <<"cb", b, 0>> /\ RanAll(p, s, u)
    BY <1>1, ProgramsAre
  <1> QED
    BY <1>2, Twice

\* SLA L; RL H doubles HL.
LEMMA DoubleRuns ==
    ASSUME NEW s, NEW a, NEW x, NEW h, NEW l, NEW y, NEW d, NEW e, Words(s, a, x, h, l, y, d, e),
           NEW u, RanAll(CBs(<<37, 20>>), s, u)
    PROVE  Doubled16(u, d, e, x)
  <1>1. Word(x, h, l) /\ Word(y, d, e) /\ At(s, a, h, l, d, e) /\ a \in 0 .. 255
    BY DEF Words
  <1>2. PICK t : t = Effect(<<"cb", 37, 0>>, s) /\ u = Effect(<<"cb", 20, 0>>, t)
    BY CBTwice
  <1>3. x \in Int /\ h \in 0 .. 255 /\ l \in 0 .. 255 /\ x = 256 * h + l
    BY <1>1 DEF Word
  <1>4. LowUp(t, a, h, l, d, e, 0)
    <2>1. LowUp(Effect(<<"cb", 37, 0>>, s), a, h, l, d, e, 0)
      BY <1>1, <1>3, TurnsHL, ZenonT(60)
    <2> QED
      BY <1>2, <2>1
  <1>5. PICK v \in 0 .. 255, j \in {0, 1} : At(t, a, h, v, d, e) /\ j = Carry(t.flag) /\ Doubles(l, 0, j, v)
    BY <1>4 DEF LowUp
  <1>6. HighUp(u, a, h, v, d, e, j)
    <2>1. HighUp(Effect(<<"cb", 20, 0>>, t), a, h, v, d, e, Carry(t.flag))
      <3>1. At(t, a, h, v, d, e) /\ h \in 0 .. 255 /\ v \in 0 .. 255
        BY <1>3, <1>5
      <3> QED
        BY <3>1, TurnsHL, Zenon
    <2> QED
      BY <1>2, <1>5, <2>1, Zenon
  <1>7. PICK w \in 0 .. 255, k \in {0, 1} : At(u, a, w, v, d, e) /\ k = Carry(u.flag) /\ Doubles(h, j, k, w)
    BY <1>6 DEF HighUp
  <1>8. PICK z \in Int, n \in Int : z = 256 * w + v /\ n = 2 * x
    BY <1>3, <1>5, <1>7
  <1>9. 2 * l = 256 * j + v /\ 2 * h + j = 256 * k + w
    BY <1>3, <1>5, <1>7 DEF Doubles
  <1>10. n = 65536 * k + z
    BY <1>3, <1>8, <1>9
  <1>11. 0 <= z /\ z < 65536 /\ k \in {0, 1}
    BY <1>5, <1>7, <1>8
  <1>12. n % 65536 = z
    BY <1>8, <1>10, <1>11
  <1>13. k = 1 <=> n > 65535
    BY <1>8, <1>10, <1>11
  <1>14. "C" \in u.flag <=> k = 1
    BY <1>7, CarryIs
  <1>15. u.reg["H"] = w /\ u.reg["L"] = v /\ u.reg["D"] = d /\ u.reg["E"] = e
    BY <1>7 DEF At
  <1> QED
    BY <1>8, <1>12, <1>13, <1>14, <1>15 DEF Doubled16

\* SRL H; RR L halves HL.
LEMMA HalfRuns ==
    ASSUME NEW s, NEW a, NEW x, NEW h, NEW l, NEW y, NEW d, NEW e, Words(s, a, x, h, l, y, d, e),
           NEW u, RanAll(CBs(<<60, 29>>), s, u)
    PROVE  Halved16(u, d, e, x)
  <1>1. Word(x, h, l) /\ Word(y, d, e) /\ At(s, a, h, l, d, e) /\ a \in 0 .. 255
    BY DEF Words
  <1>2. PICK t : t = Effect(<<"cb", 60, 0>>, s) /\ u = Effect(<<"cb", 29, 0>>, t)
    BY CBTwice
  <1>3. x \in Int /\ h \in 0 .. 255 /\ l \in 0 .. 255 /\ x = 256 * h + l
    BY <1>1 DEF Word
  <1>4. HighDown(t, a, h, l, d, e, 0)
    <2>1. HighDown(Effect(<<"cb", 60, 0>>, s), a, h, l, d, e, 0)
      BY <1>1, <1>3, TurnsHL, ZenonT(60)
    <2> QED
      BY <1>2, <2>1, SMTT(30)
  <1>5. PICK w \in 0 .. 255, j \in {0, 1} : At(t, a, w, l, d, e) /\ j = Carry(t.flag) /\ Halves(h, 0, j, w)
    BY <1>4 DEF HighDown
  <1>6. LowDown(u, a, w, l, d, e, j)
    <2>1. LowDown(Effect(<<"cb", 29, 0>>, t), a, w, l, d, e, Carry(t.flag))
      <3>1. At(t, a, w, l, d, e) /\ l \in 0 .. 255 /\ w \in 0 .. 255
        BY <1>3, <1>5
      <3> QED
        BY <3>1, TurnsHL, Zenon
    <2> QED
      BY <1>2, <1>5, <2>1, Zenon
  <1>7. PICK v \in 0 .. 255, k \in {0, 1} : At(u, a, w, v, d, e) /\ k = Carry(u.flag) /\ Halves(l, j, k, v)
    BY <1>6 DEF LowDown
  <1>8. PICK z \in Int : z = 256 * w + v
    BY <1>5, <1>7
  <1>9. h = 2 * w + j /\ l + 256 * j = 2 * v + k
    BY <1>3, <1>5, <1>7 DEF Halves
  <1>10. x = 2 * z + k /\ k \in {0, 1}
    <2>1. /\ w \in Int /\ j \in Int /\ v \in Int /\ k \in {0, 1} /\ h \in Int /\ l \in Int
          /\ x = 256 * h + l
      BY <1>3, <1>5, <1>7
    <2> QED
      BY <1>8, <1>9, <2>1
  <1>11. x \div 2 = z /\ x % 2 = k
    BY <1>3, <1>8, <1>10
  <1>12. "C" \in u.flag <=> k = 1
    BY <1>7, CarryIs
  <1>13. u.reg["H"] = w /\ u.reg["L"] = v /\ u.reg["D"] = d /\ u.reg["E"] = e
    BY <1>7 DEF At
  <1> QED
    BY <1>8, <1>11, <1>12, <1>13 DEF Halved16

\* A word program begins with two words in HL and DE.
LEMMA WordsBegin ==
    ASSUME NEW p, FromWord(p, start, task)
    PROVE  /\ task \in DOMAIN WordPrograms /\ p = WordPrograms[task]
           /\ \E a, x, h, l, y, d, e : Words(start, a, x, h, l, y, d, e)
  <1>1. PICK t \in DOMAIN WordPrograms, h \in Sample, l \in Sample, d \in Sample, e \in Sample :
           /\ Origin(start, task, t, [Rest EXCEPT !.H = h, !.L = l, !.D = d, !.E = e], {"C", "Z"})
           /\ p = WordPrograms[t]
    BY DEF FromWord
  <1>2. h \in 0 .. 255 /\ l \in 0 .. 255 /\ d \in 0 .. 255 /\ e \in 0 .. 255
    BY <1>1, SampleAssumption
  <1>3. start.reg = [Rest EXCEPT !.H = h, !.L = l, !.D = d, !.E = e] /\ task = t
    BY <1>1 DEF Origin
  <1>4. Rest \in [Registers -> Int] /\ Rest["A"] \in 0 .. 255
    <2>1. Rest["A"] = 136
      BY DEF Rest
    <2> QED
      BY <2>1, RestIs
  <1>5. At(start, Rest["A"], h, l, d, e)
    <2>1. /\ start.reg \in [Registers -> Int]
          /\ start.reg["A"] = Rest["A"] /\ start.reg["H"] = h /\ start.reg["L"] = l
          /\ start.reg["D"] = d /\ start.reg["E"] = e
      <3>1. PICK q : q = Rest /\ q \in [Registers -> Int] /\ start.reg = [q EXCEPT !.H = h, !.L = l, !.D = d, !.E = e]
        BY <1>3, <1>4
      <3>2. h \in Int /\ l \in Int /\ d \in Int /\ e \in Int
        BY <1>2
      <3>3. start.reg \in [Registers -> Int]
        BY <3>1, <3>2
      <3>4. /\ start.reg["A"] = q["A"] /\ start.reg["H"] = h /\ start.reg["L"] = l
            /\ start.reg["D"] = d /\ start.reg["E"] = e
        BY <3>1 DEF Registers
      <3> QED
        BY <3>1, <3>3, <3>4
    <2> QED
      BY <2>1 DEF At
  <1>6. Word(256 * h + l, h, l) /\ Word(256 * d + e, d, e)
    BY <1>2 DEF Word
  <1>7. Words(start, Rest["A"], 256 * h + l, h, l, 256 * d + e, d, e)
    BY <1>4, <1>5, <1>6 DEF Words
  <1> QED
    BY <1>1, <1>3, <1>7

\* The words of the registers.
LEMMA WordsAre ==
    ASSUME NEW a, NEW x, NEW h, NEW l, NEW y, NEW d, NEW e, Words(start, a, x, h, l, y, d, e)
    PROVE  /\ \A s : HL(s) = 256 * s.reg["H"] + s.reg["L"]
           /\ HL(start) = x /\ DE(start) = y
           /\ x \in Int /\ 0 <= x /\ x < 65536 /\ y \in Int /\ 0 <= y /\ y < 65536
           /\ alu.reg["D"] = d /\ alu.reg["E"] = e => DE(alu) = DE(start)
  <1>1. /\ \A s : HL(s) = 256 * s.reg["H"] + s.reg["L"]
        /\ \A s : DE(s) = 256 * s.reg["D"] + s.reg["E"]
    BY DEF HL, DE, Pair, High, Low
  <1>2. /\ x \in Int /\ x = 256 * h + l /\ h \in 0 .. 255 /\ l \in 0 .. 255
        /\ y \in Int /\ y = 256 * d + e /\ d \in 0 .. 255 /\ e \in 0 .. 255
    BY DEF Words, Word
  <1>3. HL(start) = x /\ DE(start) = y
    BY <1>1, <1>2 DEF Words, At
  <1>4. 0 <= x /\ x < 65536 /\ 0 <= y /\ y < 65536
    BY <1>2
  <1>5. alu.reg["D"] = d /\ alu.reg["E"] = e => DE(alu) = DE(start)
    BY <1>1, <1>2, <1>3
  <1> QED
    BY <1>1, <1>2, <1>3, <1>4, <1>5

\* What a task ends with: w is the word wanted.
Ends(w) == HL(alu) = w % 65536 /\ DE(alu) = DE(start)

\* A run that leaves the sum ends as the task wants it ...
LEMMA SumEnds ==
    ASSUME NEW a, NEW x, NEW h, NEW l, NEW y, NEW d, NEW e, Words(start, a, x, h, l, y, d, e),
           Summed16(alu, d, e, x, y)
    PROVE  /\ Ends(x + y) /\ (Carries <=> x + y < 0 \/ x + y > 65535)
           /\ "H" \in alu.flag <=> (x % 4096) + (y % 4096) > 4095
  <1>1. PICK n \in Int : n = x + y
    BY WordsAre
  <1>2. n >= 0
    BY <1>1, WordsAre
  <1>3. Carries <=> n < 0 \/ n > 65535
    BY <1>1, <1>2 DEF Carries, Summed16
  <1>4. Ends(n)
    BY <1>1, WordsAre DEF Ends, Summed16
  <1> QED
    BY <1>1, <1>3, <1>4 DEF Summed16

\* ... so does one that leaves the difference ...
LEMMA DifferenceEnds ==
    ASSUME NEW a, NEW x, NEW h, NEW l, NEW y, NEW d, NEW e, Words(start, a, x, h, l, y, d, e),
           Differs16(alu, d, e, x, y)
    PROVE  Ends(x - y) /\ (Carries <=> x - y < 0 \/ x - y > 65535)
  <1>1. PICK n \in Int : n = x - y
    BY WordsAre
  <1>2. n <= 65535 /\ (n < 0 <=> x < y)
    BY <1>1, WordsAre
  <1>3. Carries <=> n < 0 \/ n > 65535
    BY <1>1, <1>2 DEF Carries, Differs16
  <1>4. Ends(n)
    BY <1>1, WordsAre DEF Ends, Differs16
  <1> QED
    BY <1>1, <1>3, <1>4

\* ... one that leaves the words as they were ...
LEMMA LeastEnds ==
    ASSUME NEW a, NEW x, NEW h, NEW l, NEW y, NEW d, NEW e, Words(start, a, x, h, l, y, d, e),
           Compares16(alu, d, e, x, y)
    PROVE  Ends(x) /\ (Carries <=> x < y)
  <1>1. x % 65536 = x
    BY WordsAre
  <1>2. Ends(x)
    BY <1>1, WordsAre DEF Ends, Compares16
  <1> QED
    BY <1>2 DEF Carries, Compares16

\* ... one that leaves the double, by shifts or by a sum ...
LEMMA DoubleEnds ==
    ASSUME NEW a, NEW x, NEW h, NEW l, NEW y, NEW d, NEW e, Words(start, a, x, h, l, y, d, e),
           Doubled16(alu, d, e, x) \/ Summed16(alu, d, e, x, x)
    PROVE  Ends(2 * x) /\ (Carries <=> 2 * x < 0 \/ 2 * x > 65535)
  <1>1. PICK n \in Int : n = 2 * x /\ n = x + x
    BY WordsAre
  <1>2. n >= 0
    BY <1>1, WordsAre
  <1>3. Carries <=> n > 65535
    BY <1>1 DEF Carries, Doubled16, Summed16
  <1>4. Carries <=> n < 0 \/ n > 65535
    BY <1>2, <1>3
  <1>5. 256 * alu.reg["H"] + alu.reg["L"] = n % 65536 /\ alu.reg["D"] = d /\ alu.reg["E"] = e
    BY <1>1 DEF Doubled16, Summed16
  <1>6. Ends(n)
    BY <1>5, WordsAre DEF Ends
  <1> QED
    BY <1>1, <1>4, <1>6

\* ... and one that leaves the half.
LEMMA HalfEnds ==
    ASSUME NEW a, NEW x, NEW h, NEW l, NEW y, NEW d, NEW e, Words(start, a, x, h, l, y, d, e),
           Halved16(alu, d, e, x)
    PROVE  Ends(x \div 2) /\ (Carries <=> x % 2 = 1)
  <1>1. PICK q \in Int : q = x \div 2 /\ 0 <= q /\ q < 65536
    BY WordsAre
  <1>2. q % 65536 = q
    BY <1>1
  <1>3. Ends(q)
    BY <1>1, <1>2, WordsAre DEF Ends, Halved16
  <1> QED
    BY <1>1, <1>3 DEF Carries, Halved16

\* Every word program ends as its task wants it.
LEMMA WordRuns ==
    ASSUME NEW p, FromWord(p, start, task), RanAll(p, start, alu)
    PROVE  WordsStayRight
  <1>1. task \in DOMAIN WordPrograms /\ p = WordPrograms[task]
    BY WordsBegin
  <1>2. PICK a, x, h, l, y, d, e : Words(start, a, x, h, l, y, d, e)
    BY WordsBegin
  <1>3. HL(start) = x /\ DE(start) = y /\ x \in Int /\ y \in Int
    BY <1>2, WordsAre
  <1>4. ASSUME NEW w, Word16(task) = w, Ends(w), Carries <=> Out16(task),
               task \in {"sum", "whole"} => ("H" \in alu.flag <=> (x % 4096) + (y % 4096) > 4095)
        PROVE  WordsStayRight
    BY <1>3, <1>4, SMT DEF Ends, WordsStayRight
  <1>5. CASE task = "sum" \/ task = "whole"
    <2>1. Summed16(alu, d, e, x, y)
      <3>1. ASSUME task = "sum" PROVE Summed16(alu, d, e, x, y)
        <4>1. RanAll(Ops(<<125, 131, 111, 124, 138, 103>>), start, alu)
          BY <1>1, <3>1, SMT DEF WordPrograms
        <4> QED
          BY <1>2, <4>1, SumRuns, SMT
      <3>2. ASSUME task = "whole" PROVE Summed16(alu, d, e, x, y)
        <4>1. RanAll(Ops(<<25>>), start, alu)
          BY <1>1, <3>2, SMT DEF WordPrograms
        <4> QED
          BY <1>2, <4>1, PairRuns, SMT
      <3> QED
        BY <1>5, <3>1, <3>2
    <2>2. Word16(task) = x + y
      BY <1>3, <1>5, SMT DEF Word16
    <2>3. Carries <=> Out16(task)
      <3>1. Carries <=> x + y < 0 \/ x + y > 65535
        BY <1>2, <2>1, SumEnds, SMT
      <3> QED
        BY <1>5, <2>2, <3>1, SMT DEF Out16
    <2>4. Ends(x + y) /\ ("H" \in alu.flag <=> (x % 4096) + (y % 4096) > 4095)
      BY <1>2, <2>1, SumEnds, SMT
    <2> QED
      BY <1>4, <2>2, <2>3, <2>4, SMT
  <1>6. CASE task = "difference"
    <2>1. Differs16(alu, d, e, x, y)
      <3>1. RanAll(Ops(<<125, 147, 111, 124, 154, 103>>), start, alu)
        BY <1>1, <1>6, SMT DEF WordPrograms
      <3> QED
        BY <1>2, <3>1, DifferenceRuns, SMT
    <2>2. Word16(task) = x - y
      BY <1>3, <1>6, SMT DEF Word16
    <2>3. Carries <=> Out16(task)
      <3>1. Carries <=> x - y < 0 \/ x - y > 65535
        BY <1>2, <2>1, DifferenceEnds, SMT
      <3> QED
        BY <1>6, <2>2, <3>1, SMT DEF Out16
    <2>4. Ends(x - y)
      BY <1>2, <2>1, DifferenceEnds
    <2> QED
      BY <1>4, <1>6, <2>2, <2>3, <2>4, SMT
  <1>7. CASE task = "least"
    <2>1. Compares16(alu, d, e, x, y)
      <3>1. RanAll(Ops(<<125, 187, 124, 154>>), start, alu)
        BY <1>1, <1>7, SMT DEF WordPrograms
      <3> QED
        BY <1>2, <3>1, LeastRuns, SMT
    <2>2. Word16(task) = x
      BY <1>3, <1>7, SMT DEF Word16
    <2>3. Carries <=> Out16(task)
      <3>1. Out16(task) <=> x < y
        BY <1>3, <1>7, SMT DEF Out16
      <3> QED
        BY <1>2, <2>1, <3>1, LeastEnds, SMT
    <2>4. Ends(x)
      BY <1>2, <2>1, LeastEnds, SMT
    <2> QED
      BY <1>4, <1>7, <2>2, <2>3, <2>4, SMT
  <1>8. CASE task = "twice" \/ task = "itself"
    <2>1. Doubled16(alu, d, e, x) \/ Summed16(alu, d, e, x, x)
      <3>1. ASSUME task = "twice" PROVE Doubled16(alu, d, e, x)
        <4>1. RanAll(CBs(<<37, 20>>), start, alu)
          BY <1>1, <3>1, SMT DEF WordPrograms
        <4> QED
          BY <1>2, <4>1, DoubleRuns, SMT
      <3>2. ASSUME task = "itself" PROVE Summed16(alu, d, e, x, x)
        <4>1. RanAll(Ops(<<41>>), start, alu)
          BY <1>1, <3>2, SMT DEF WordPrograms
        <4> QED
          BY <1>2, <4>1, PairRuns, SMT
      <3> QED
        BY <1>8, <3>1, <3>2
    <2>2. Word16(task) = 2 * x
      BY <1>3, <1>8, SMT DEF Word16
    <2>3. Carries <=> Out16(task)
      <3>1. Carries <=> 2 * x < 0 \/ 2 * x > 65535
        BY <1>2, <2>1, DoubleEnds, SMT
      <3> QED
        BY <1>8, <2>2, <3>1, SMT DEF Out16
    <2>4. Ends(2 * x)
      BY <1>2, <2>1, DoubleEnds
    <2> QED
      BY <1>4, <1>8, <2>2, <2>3, <2>4, SMT
  <1>9. CASE task = "half"
    <2>1. Halved16(alu, d, e, x)
      <3>1. RanAll(CBs(<<60, 29>>), start, alu)
        BY <1>1, <1>9, SMT DEF WordPrograms
      <3> QED
        BY <1>2, <3>1, HalfRuns, SMT
    <2>2. Word16(task) = x \div 2
      BY <1>3, <1>9, SMT DEF Word16
    <2>3. Carries <=> Out16(task)
      <3>1. Out16(task) <=> x % 2 = 1
        BY <1>3, <1>9, SMT DEF Out16
      <3> QED
        BY <1>2, <2>1, <3>1, HalfEnds, SMT
    <2>4. Ends(x \div 2)
      BY <1>2, <2>1, HalfEnds, SMT
    <2> QED
      BY <1>4, <1>9, <2>2, <2>3, <2>4, SMT
  <1> QED
    BY <1>1, <1>5, <1>6, <1>7, <1>8, <1>9 DEF WordPrograms

\* Words taken byte by byte, the carry of the first byte entering the second,
\* come out as the instructions on words and as arithmetic have it, for all bytes.
THEOREM WordsRight == ALUSpec => []WordsStayRight
  <1>1. ALUInv => WordsStayRight
    <2>1. ASSUME ALUInv, Done, task \in DOMAIN WordPrograms PROVE WordsStayRight
      BY <2>1, Finished, TasksAre, WordRuns
    <2> QED
      BY <2>1, SMT DEF WordsStayRight
  <1> QED
    BY <1>1, ALUInductive, PTL

-----------------------------------------------------------------------------
(* Bytes bit by bit *)

\* A place value is a positive number.
LEMMA Places ==
    /\ 2^0 = 1 /\ 2^1 = 2 /\ 2^2 = 4 /\ 2^3 = 8 /\ 2^4 = 16 /\ 2^5 = 32 /\ 2^6 = 64 /\ 2^7 = 128
    /\ \A b \in 0 .. 7 : 2^b \in Nat \ {0}
  <1>1. 2^0 = 1 /\ 2^1 = 2 /\ 2^2 = 4 /\ 2^3 = 8 /\ 2^4 = 16 /\ 2^5 = 32 /\ 2^6 = 64 /\ 2^7 = 128
    OBVIOUS
  <1>2. ASSUME NEW b \in 0 .. 7 PROVE 2^b \in Nat \ {0}
    <2>1. b = 0 \/ b = 1 \/ b = 2 \/ b = 3 \/ b = 4 \/ b = 5 \/ b = 6 \/ b = 7
      OBVIOUS
    <2>2. /\ 1 \in Nat \ {0} /\ 2 \in Nat \ {0} /\ 4 \in Nat \ {0} /\ 8 \in Nat \ {0}
          /\ 16 \in Nat \ {0} /\ 32 \in Nat \ {0} /\ 64 \in Nat \ {0} /\ 128 \in Nat \ {0}
      OBVIOUS
    <2>3. CASE b = 0
      <3>1. 2^b = 1
        BY <1>1, <2>3, Zenon
      <3> QED
        BY <2>2, <3>1, Zenon
    <2>4. CASE b = 1
      <3>1. 2^b = 2
        BY <1>1, <2>4, Zenon
      <3> QED
        BY <2>2, <3>1, Zenon
    <2>5. CASE b = 2
      <3>1. 2^b = 4
        BY <1>1, <2>5, Zenon
      <3> QED
        BY <2>2, <3>1, Zenon
    <2>6. CASE b = 3
      <3>1. 2^b = 8
        BY <1>1, <2>6, Zenon
      <3> QED
        BY <2>2, <3>1, Zenon
    <2>7. CASE b = 4
      <3>1. 2^b = 16
        BY <1>1, <2>7, Zenon
      <3> QED
        BY <2>2, <3>1, Zenon
    <2>8. CASE b = 5
      <3>1. 2^b = 32
        BY <1>1, <2>8, Zenon
      <3> QED
        BY <2>2, <3>1, Zenon
    <2>9. CASE b = 6
      <3>1. 2^b = 64
        BY <1>1, <2>9, Zenon
      <3> QED
        BY <2>2, <3>1, Zenon
    <2>10. CASE b = 7
      <3>1. 2^b = 128
        BY <1>1, <2>10, Zenon
      <3> QED
        BY <2>2, <3>1, ZenonT(60)
    <2> QED
      BY <2>1, <2>3, <2>4, <2>5, <2>6, <2>7, <2>8, <2>9, <2>10
  <1> QED
    BY <1>1, <1>2

\* Numbers whose bits are given: a bit asked for is the bit given.
Digits(f) == /\ f[0] \in {0, 1} /\ f[1] \in {0, 1} /\ f[2] \in {0, 1} /\ f[3] \in {0, 1}
             /\ f[4] \in {0, 1} /\ f[5] \in {0, 1} /\ f[6] \in {0, 1} /\ f[7] \in {0, 1}

Told(n, f) == /\ Bit(n, 0) = f[0] /\ Bit(n, 1) = f[1] /\ Bit(n, 2) = f[2] /\ Bit(n, 3) = f[3]
              /\ Bit(n, 4) = f[4] /\ Bit(n, 5) = f[5] /\ Bit(n, 6) = f[6] /\ Bit(n, 7) = f[7]

\* The bits of a number made of bits are those bits.
LEMMA BitsMake ==
    ASSUME NEW f, Digits(f), NEW n, n = OfBits(f)
    PROVE  n \in 0 .. 255 /\ Told(n, f)
  <1>1. PICK a \in {0, 1}, b \in {0, 1}, c \in {0, 1}, d \in {0, 1}, e \in {0, 1}, g \in {0, 1}, h \in {0, 1}, i \in {0, 1} :
           /\ a = f[0] /\ b = f[1] /\ c = f[2] /\ d = f[3] /\ e = f[4] /\ g = f[5] /\ h = f[6] /\ i = f[7]
    BY DEF Digits
  <1>2. n = a + 2 * b + 4 * c + 8 * d + 16 * e + 32 * g + 64 * h + 128 * i
    BY <1>1 DEF OfBits
  <1>3. n \in 0 .. 255
    BY <1>2
  <1>4. Bit(n, 0) = f[0]
    <2>1. PICK q \in Int, r \in 0 .. 0 : q = a + 2 * b + 4 * c + 8 * d + 16 * e + 32 * g + 64 * h + 128 * i /\ r = 0
      OBVIOUS
    <2>2. n = 1 * q + r
      BY <1>2, <2>1
    <2>3. n \div 1 = q
      BY <1>3, <2>2, Divides
    <2>4. PICK p \in Int : q = 2 * p + a /\ p = b + 2 * c + 4 * d + 8 * e + 16 * g + 32 * h + 64 * i
      BY <2>1
    <2>5. q % 2 = a
      BY <2>4
    <2>6. Bit(n, 0) = (n \div 1) % 2
      BY Places DEF Bit
    <2> QED
      BY <1>1, <2>3, <2>5, <2>6
  <1>5. Bit(n, 1) = f[1]
    <2>1. PICK q \in Int, r \in 0 .. 1 : q = b + 2 * c + 4 * d + 8 * e + 16 * g + 32 * h + 64 * i /\ r = a
      OBVIOUS
    <2>2. n = 2 * q + r
      BY <1>2, <2>1
    <2>3. n \div 2 = q
      BY <1>3, <2>2, Divides
    <2>4. PICK p \in Int : q = 2 * p + b /\ p = c + 2 * d + 4 * e + 8 * g + 16 * h + 32 * i
      BY <2>1
    <2>5. q % 2 = b
      BY <2>4
    <2>6. Bit(n, 1) = (n \div 2) % 2
      BY Places DEF Bit
    <2> QED
      BY <1>1, <2>3, <2>5, <2>6
  <1>6. Bit(n, 2) = f[2]
    <2>1. PICK q \in Int, r \in 0 .. 3 : q = c + 2 * d + 4 * e + 8 * g + 16 * h + 32 * i /\ r = a + 2 * b
      OBVIOUS
    <2>2. n = 4 * q + r
      BY <1>2, <2>1
    <2>3. n \div 4 = q
      BY <1>3, <2>2, Divides
    <2>4. PICK p \in Int : q = 2 * p + c /\ p = d + 2 * e + 4 * g + 8 * h + 16 * i
      BY <2>1
    <2>5. q % 2 = c
      BY <2>4
    <2>6. Bit(n, 2) = (n \div 4) % 2
      BY Places DEF Bit
    <2> QED
      BY <1>1, <2>3, <2>5, <2>6
  <1>7. Bit(n, 3) = f[3]
    <2>1. PICK q \in Int, r \in 0 .. 7 : q = d + 2 * e + 4 * g + 8 * h + 16 * i /\ r = a + 2 * b + 4 * c
      OBVIOUS
    <2>2. n = 8 * q + r
      BY <1>2, <2>1
    <2>3. n \div 8 = q
      BY <1>3, <2>2, Divides
    <2>4. PICK p \in Int : q = 2 * p + d /\ p = e + 2 * g + 4 * h + 8 * i
      BY <2>1
    <2>5. q % 2 = d
      BY <2>4
    <2>6. Bit(n, 3) = (n \div 8) % 2
      BY Places DEF Bit
    <2> QED
      BY <1>1, <2>3, <2>5, <2>6
  <1>8. Bit(n, 4) = f[4]
    <2>1. PICK q \in Int, r \in 0 .. 15 : q = e + 2 * g + 4 * h + 8 * i /\ r = a + 2 * b + 4 * c + 8 * d
      OBVIOUS
    <2>2. n = 16 * q + r
      BY <1>2, <2>1
    <2>3. n \div 16 = q
      BY <1>3, <2>2, Divides
    <2>4. PICK p \in Int : q = 2 * p + e /\ p = g + 2 * h + 4 * i
      BY <2>1
    <2>5. q % 2 = e
      BY <2>4
    <2>6. Bit(n, 4) = (n \div 16) % 2
      BY Places DEF Bit
    <2> QED
      BY <1>1, <2>3, <2>5, <2>6
  <1>9. Bit(n, 5) = f[5]
    <2>1. PICK q \in Int, r \in 0 .. 31 : q = g + 2 * h + 4 * i /\ r = a + 2 * b + 4 * c + 8 * d + 16 * e
      OBVIOUS
    <2>2. n = 32 * q + r
      BY <1>2, <2>1
    <2>3. n \div 32 = q
      BY <1>3, <2>2, Divides
    <2>4. PICK p \in Int : q = 2 * p + g /\ p = h + 2 * i
      BY <2>1
    <2>5. q % 2 = g
      BY <2>4
    <2>6. Bit(n, 5) = (n \div 32) % 2
      BY Places DEF Bit
    <2> QED
      BY <1>1, <2>3, <2>5, <2>6
  <1>10. Bit(n, 6) = f[6]
    <2>1. PICK q \in Int, r \in 0 .. 63 : q = h + 2 * i /\ r = a + 2 * b + 4 * c + 8 * d + 16 * e + 32 * g
      OBVIOUS
    <2>2. n = 64 * q + r
      BY <1>2, <2>1
    <2>3. n \div 64 = q
      BY <1>3, <2>2, Divides
    <2>4. PICK p \in Int : q = 2 * p + h /\ p = i
      BY <2>1
    <2>5. q % 2 = h
      BY <2>4
    <2>6. Bit(n, 6) = (n \div 64) % 2
      BY Places DEF Bit
    <2> QED
      BY <1>1, <2>3, <2>5, <2>6
  <1>11. Bit(n, 7) = f[7]
    <2>1. PICK q \in Int, r \in 0 .. 127 : q = i /\ r = a + 2 * b + 4 * c + 8 * d + 16 * e + 32 * g + 64 * h
      OBVIOUS
    <2>2. n = 128 * q + r
      BY <1>2, <2>1
    <2>3. n \div 128 = q
      BY <1>3, <2>2, Divides
    <2>4. PICK p \in Int : q = 2 * p + i /\ p = 0
      BY <2>1
    <2>5. q % 2 = i
      BY <2>4
    <2>6. Bit(n, 7) = (n \div 128) % 2
      BY Places DEF Bit
    <2> QED
      BY <1>1, <2>3, <2>5, <2>6
  <1> QED
    BY <1>3, <1>4, <1>5, <1>6, <1>7, <1>8, <1>9, <1>10, <1>11 DEF Told

\* Every byte is made of its bits.
LEMMA BytesAreBits ==
    ASSUME NEW n \in 0 .. 255
    PROVE  \E f : Digits(f) /\ n = OfBits(f)
  <1>1. ASSUME NEW m \in Int PROVE \E q \in Int, r \in 0 .. 1 : m = 2 * q + r
    <2>1. PICK q \in Int, r \in 0 .. 1 : m = 2 * q + r /\ m \div 2 = q /\ m % 2 = r
      BY Divided
    <2> QED
      BY <2>1
  <1>2. PICK q1 \in Int, a \in 0 .. 1 : n = 2 * q1 + a
    <2>1. n \in Int
      OBVIOUS
    <2> QED
      BY <1>1, <2>1
  <1>3. PICK q2 \in Int, b \in 0 .. 1 : q1 = 2 * q2 + b
    BY <1>1
  <1>4. PICK q3 \in Int, c \in 0 .. 1 : q2 = 2 * q3 + c
    BY <1>1
  <1>5. PICK q4 \in Int, d \in 0 .. 1 : q3 = 2 * q4 + d
    BY <1>1
  <1>6. PICK q5 \in Int, e \in 0 .. 1 : q4 = 2 * q5 + e
    BY <1>1
  <1>7. PICK q6 \in Int, g \in 0 .. 1 : q5 = 2 * q6 + g
    BY <1>1
  <1>8. PICK q7 \in Int, h \in 0 .. 1 : q6 = 2 * q7 + h
    BY <1>1
  <1>9. PICK q8 \in Int, i \in 0 .. 1 : q7 = 2 * q8 + i
    BY <1>1
  <1>10. q8 = 0
    BY <1>2, <1>3, <1>4, <1>5, <1>6, <1>7, <1>8, <1>9
  <1>11. n = a + 2 * b + 4 * c + 8 * d + 16 * e + 32 * g + 64 * h + 128 * i
    BY <1>2, <1>3, <1>4, <1>5, <1>6, <1>7, <1>8, <1>9, <1>10
  <1> DEFINE f == [k \in 0 .. 7 |-> CASE k = 0 -> a [] k = 1 -> b [] k = 2 -> c [] k = 3 -> d
                                      [] k = 4 -> e [] k = 5 -> g [] k = 6 -> h [] k = 7 -> i]
  <1>12. f[0] = a /\ f[1] = b /\ f[2] = c /\ f[3] = d /\ f[4] = e /\ f[5] = g /\ f[6] = h /\ f[7] = i
    OBVIOUS
  <1> HIDE DEF f
  <1>13. Digits(f)
    BY <1>12 DEF Digits
  <1>14. n = OfBits(f)
    BY <1>11, <1>12 DEF OfBits
  <1> QED
    BY <1>13, <1>14

\* XOR with the same byte twice gives the first byte back.
LEMMA XorTwice ==
    ASSUME NEW d \in 0 .. 255, NEW x \in 0 .. 255
    PROVE  Xor(d, x) \in 0 .. 255 /\ Xor(Xor(d, x), x) = d
  <1>1. PICK f : Digits(f) /\ d = OfBits(f)
    BY BytesAreBits
  <1>2. PICK g : Digits(g) /\ x = OfBits(g)
    BY BytesAreBits
  <1>3. Told(d, f) /\ Told(x, g)
    BY <1>1, <1>2, BitsMake
  <1> DEFINE h == [b \in 0 .. 7 |-> IF Bit(d, b) # Bit(x, b) THEN 1 ELSE 0]
  <1>4. \A b \in 0 .. 7 : h[b] = IF Bit(d, b) # Bit(x, b) THEN 1 ELSE 0
    OBVIOUS
  <1>5. Xor(d, x) = OfBits(h)
    BY DEF Xor
  <1> HIDE DEF h
  <1>6. Digits(h)
    BY <1>4 DEF Digits
  <1>7. PICK y : y = Xor(d, x)
    OBVIOUS
  <1>8. y \in 0 .. 255 /\ Told(y, h)
    BY <1>5, <1>6, <1>7, BitsMake
  <1> DEFINE k == [b \in 0 .. 7 |-> IF Bit(y, b) # Bit(x, b) THEN 1 ELSE 0]
  <1>9. \A b \in 0 .. 7 : k[b] = IF Bit(y, b) # Bit(x, b) THEN 1 ELSE 0
    OBVIOUS
  <1>10. Xor(y, x) = OfBits(k)
    BY DEF Xor
  <1> HIDE DEF k
  <1>11. /\ k[0] = f[0] /\ k[1] = f[1] /\ k[2] = f[2] /\ k[3] = f[3]
         /\ k[4] = f[4] /\ k[5] = f[5] /\ k[6] = f[6] /\ k[7] = f[7]
    <2>1. \A b \in 0 .. 7 : h[b] = IF Bit(d, b) # Bit(x, b) THEN 1 ELSE 0
      BY <1>4
    <2>2. k[0] = f[0]
      <3>1. k[0] = (IF Bit(y, 0) # Bit(x, 0) THEN 1 ELSE 0) /\ h[0] = (IF Bit(d, 0) # Bit(x, 0) THEN 1 ELSE 0)
        BY <1>9, <2>1
      <3>2. Bit(y, 0) = h[0] /\ Bit(d, 0) = f[0] /\ Bit(x, 0) = g[0]
        BY <1>3, <1>8 DEF Told
      <3>3. f[0] \in {0, 1} /\ g[0] \in {0, 1}
        BY <1>1, <1>2 DEF Digits
      <3> QED
        BY <3>1, <3>2, <3>3
    <2>3. k[1] = f[1]
      <3>1. k[1] = (IF Bit(y, 1) # Bit(x, 1) THEN 1 ELSE 0) /\ h[1] = (IF Bit(d, 1) # Bit(x, 1) THEN 1 ELSE 0)
        BY <1>9, <2>1
      <3>2. Bit(y, 1) = h[1] /\ Bit(d, 1) = f[1] /\ Bit(x, 1) = g[1]
        BY <1>3, <1>8 DEF Told
      <3>3. f[1] \in {0, 1} /\ g[1] \in {0, 1}
        BY <1>1, <1>2 DEF Digits
      <3> QED
        BY <3>1, <3>2, <3>3
    <2>4. k[2] = f[2]
      <3>1. k[2] = (IF Bit(y, 2) # Bit(x, 2) THEN 1 ELSE 0) /\ h[2] = (IF Bit(d, 2) # Bit(x, 2) THEN 1 ELSE 0)
        BY <1>9, <2>1
      <3>2. Bit(y, 2) = h[2] /\ Bit(d, 2) = f[2] /\ Bit(x, 2) = g[2]
        BY <1>3, <1>8 DEF Told
      <3>3. f[2] \in {0, 1} /\ g[2] \in {0, 1}
        BY <1>1, <1>2 DEF Digits
      <3> QED
        BY <3>1, <3>2, <3>3
    <2>5. k[3] = f[3]
      <3>1. k[3] = (IF Bit(y, 3) # Bit(x, 3) THEN 1 ELSE 0) /\ h[3] = (IF Bit(d, 3) # Bit(x, 3) THEN 1 ELSE 0)
        BY <1>9, <2>1
      <3>2. Bit(y, 3) = h[3] /\ Bit(d, 3) = f[3] /\ Bit(x, 3) = g[3]
        BY <1>3, <1>8 DEF Told
      <3>3. f[3] \in {0, 1} /\ g[3] \in {0, 1}
        BY <1>1, <1>2 DEF Digits
      <3> QED
        BY <3>1, <3>2, <3>3
    <2>6. k[4] = f[4]
      <3>1. k[4] = (IF Bit(y, 4) # Bit(x, 4) THEN 1 ELSE 0) /\ h[4] = (IF Bit(d, 4) # Bit(x, 4) THEN 1 ELSE 0)
        BY <1>9, <2>1
      <3>2. Bit(y, 4) = h[4] /\ Bit(d, 4) = f[4] /\ Bit(x, 4) = g[4]
        BY <1>3, <1>8 DEF Told
      <3>3. f[4] \in {0, 1} /\ g[4] \in {0, 1}
        BY <1>1, <1>2 DEF Digits
      <3> QED
        BY <3>1, <3>2, <3>3
    <2>7. k[5] = f[5]
      <3>1. k[5] = (IF Bit(y, 5) # Bit(x, 5) THEN 1 ELSE 0) /\ h[5] = (IF Bit(d, 5) # Bit(x, 5) THEN 1 ELSE 0)
        BY <1>9, <2>1
      <3>2. Bit(y, 5) = h[5] /\ Bit(d, 5) = f[5] /\ Bit(x, 5) = g[5]
        BY <1>3, <1>8 DEF Told
      <3>3. f[5] \in {0, 1} /\ g[5] \in {0, 1}
        BY <1>1, <1>2 DEF Digits
      <3> QED
        BY <3>1, <3>2, <3>3
    <2>8. k[6] = f[6]
      <3>1. k[6] = (IF Bit(y, 6) # Bit(x, 6) THEN 1 ELSE 0) /\ h[6] = (IF Bit(d, 6) # Bit(x, 6) THEN 1 ELSE 0)
        BY <1>9, <2>1
      <3>2. Bit(y, 6) = h[6] /\ Bit(d, 6) = f[6] /\ Bit(x, 6) = g[6]
        BY <1>3, <1>8 DEF Told
      <3>3. f[6] \in {0, 1} /\ g[6] \in {0, 1}
        BY <1>1, <1>2 DEF Digits
      <3> QED
        BY <3>1, <3>2, <3>3
    <2>9. k[7] = f[7]
      <3>1. k[7] = (IF Bit(y, 7) # Bit(x, 7) THEN 1 ELSE 0) /\ h[7] = (IF Bit(d, 7) # Bit(x, 7) THEN 1 ELSE 0)
        BY <1>9, <2>1
      <3>2. Bit(y, 7) = h[7] /\ Bit(d, 7) = f[7] /\ Bit(x, 7) = g[7]
        BY <1>3, <1>8 DEF Told
      <3>3. f[7] \in {0, 1} /\ g[7] \in {0, 1}
        BY <1>1, <1>2 DEF Digits
      <3> QED
        BY <3>1, <3>2, <3>3
    <2> QED
      BY <2>2, <2>3, <2>4, <2>5, <2>6, <2>7, <2>8, <2>9
  <1>12. Xor(y, x) = d
    BY <1>1, <1>10, <1>11 DEF OfBits
  <1> QED
    BY <1>7, <1>8, <1>12

\* A bit that is set is 1, one that is reset is 0.
LEMMA BitChanges ==
    ASSUME NEW d \in 0 .. 255, NEW b \in 0 .. 7
    PROVE  /\ Bit(d + 2^b * (1 - Bit(d, b)), b) = 1
           /\ Bit(d - 2^b * Bit(d, b), b) = 0
           /\ Bit(d, b) \in {0, 1}
  <1>1. PICK m \in Nat \ {0} : m = 2^b
    BY Places
  <1>2. PICK q \in Int, r \in 0 .. m - 1 : d = m * q + r /\ d \div m = q
    BY <1>1, Divided
  <1>3. PICK p \in Int, z \in 0 .. 1 : q = 2 * p + z /\ q % 2 = z
    BY Divided
  <1>4. Bit(d, b) = z
    BY <1>1, <1>2, <1>3 DEF Bit
  <1>5. ASSUME NEW e \in {0, 1, -1}, NEW n \in Int, n = d + m * e
        PROVE  Bit(n, b) = (q + e) % 2
    <2>1. PICK w \in Int : w = q + e
      OBVIOUS
    <2>2. n = m * w + r
      <3>1. CASE e = 0
        BY <1>2, <1>5, <2>1, <3>1
      <3>2. CASE e = 1
        BY <1>2, <1>5, <2>1, <3>2
      <3>3. CASE e = -1
        BY <1>2, <1>5, <2>1, <3>3
      <3> QED
        BY <3>1, <3>2, <3>3
    <2>3. n \div m = w
      BY <1>2, <2>2, Divides
    <2> QED
      BY <1>1, <2>1, <2>3 DEF Bit
  <1>6. PICK u \in Int : u = d + m * (1 - z) /\ u = d + 2^b * (1 - Bit(d, b))
    BY <1>1, <1>4
  <1>7. PICK v \in Int : v = d + m * (0 - z) /\ v = d - 2^b * Bit(d, b)
    BY <1>1, <1>4
  <1>8. Bit(u, b) = (q + (1 - z)) % 2
    <2>1. PICK e \in {0, 1, -1} : e = 1 - z
      OBVIOUS
    <2> QED
      BY <1>5, <1>6, <2>1
  <1>9. Bit(v, b) = (q + (0 - z)) % 2
    <2>1. PICK e \in {0, 1, -1} : e = 0 - z
      OBVIOUS
    <2> QED
      BY <1>5, <1>7, <2>1
  <1>10. (q + (1 - z)) % 2 = 1 /\ (q + (0 - z)) % 2 = 0
    BY <1>3
  <1> QED
    BY <1>4, <1>6, <1>7, <1>8, <1>9, <1>10

\* SET and RES move the byte to the one with that bit, and no other, changed.
LEMMA OneBitMoves ==
    ASSUME NEW d \in 0 .. 255, NEW b \in 0 .. 7
    PROVE  /\ d + 2^b * (1 - Bit(d, b)) = WithBit(d, b, 1)
           /\ d - 2^b * Bit(d, b) = WithBit(d, b, 0)
  <1>1. PICK f : Digits(f) /\ d = OfBits(f)
    BY BytesAreBits
  <1>2. Told(d, f)
    BY <1>1, BitsMake
  <1>3. ASSUME NEW x \in {0, 1}
        PROVE  WithBit(d, b, x) = d + 2^b * (x - Bit(d, b))
    <2>0. PICK w : w = d + 2^b * (x - Bit(d, b))
      OBVIOUS
    <2>1. PICK h : h = [c \in 0 .. 7 |-> IF c = b THEN x ELSE Bit(d, c)]
      OBVIOUS
    <2>2. WithBit(d, b, x) = OfBits(h)
      BY <2>1 DEF WithBit
    <2>3. \A c \in 0 .. 7 : h[c] = IF c = b THEN x ELSE Bit(d, c)
      BY <2>1
    <2>4. PICK a \in 0 .. 1, c \in 0 .. 1, e \in 0 .. 1, g \in 0 .. 1, i \in 0 .. 1, j \in 0 .. 1, k \in 0 .. 1, l \in 0 .. 1 :
             /\ f[0] = a /\ f[1] = c /\ f[2] = e /\ f[3] = g
             /\ f[4] = i /\ f[5] = j /\ f[6] = k /\ f[7] = l
      BY <1>1 DEF Digits
    <2>5. /\ h[0] = IF b = 0 THEN x ELSE a
          /\ h[1] = IF b = 1 THEN x ELSE c
          /\ h[2] = IF b = 2 THEN x ELSE e
          /\ h[3] = IF b = 3 THEN x ELSE g
          /\ h[4] = IF b = 4 THEN x ELSE i
          /\ h[5] = IF b = 5 THEN x ELSE j
          /\ h[6] = IF b = 6 THEN x ELSE k
          /\ h[7] = IF b = 7 THEN x ELSE l
      BY <1>2, <2>3, <2>4 DEF Told
    <2>6. d = a + 2 * c + 4 * e + 8 * g + 16 * i + 32 * j + 64 * k + 128 * l
      BY <1>1, <2>4 DEF OfBits
    <2>7. ASSUME b = 0 PROVE WithBit(d, b, x) = w
      <3>1. 2^b = 1 /\ Bit(d, b) = a
        BY <1>2, <2>4, <2>7, Places, Zenon DEF Told
      <3>2. OfBits(h) = x + 2 * c + 4 * e + 8 * g + 16 * i + 32 * j + 64 * k + 128 * l
        BY <2>5, <2>7 DEF OfBits
      <3>3. OfBits(h) = d + 1 * (x - a)
        BY <2>6, <3>2
      <3> QED
        BY <2>0, <2>2, <3>1, <3>3
    <2>8. ASSUME b = 1 PROVE WithBit(d, b, x) = w
      <3>1. 2^b = 2 /\ Bit(d, b) = c
        BY <1>2, <2>4, <2>8, Places, Zenon DEF Told
      <3>2. OfBits(h) = a + 2 * x + 4 * e + 8 * g + 16 * i + 32 * j + 64 * k + 128 * l
        BY <2>5, <2>8 DEF OfBits
      <3>3. OfBits(h) = d + 2 * (x - c)
        BY <2>6, <3>2
      <3> QED
        BY <2>0, <2>2, <3>1, <3>3
    <2>9. ASSUME b = 2 PROVE WithBit(d, b, x) = w
      <3>1. 2^b = 4 /\ Bit(d, b) = e
        BY <1>2, <2>4, <2>9, Places, Zenon DEF Told
      <3>2. OfBits(h) = a + 2 * c + 4 * x + 8 * g + 16 * i + 32 * j + 64 * k + 128 * l
        BY <2>5, <2>9 DEF OfBits
      <3>3. OfBits(h) = d + 4 * (x - e)
        BY <2>6, <3>2
      <3> QED
        BY <2>0, <2>2, <3>1, <3>3
    <2>10. ASSUME b = 3 PROVE WithBit(d, b, x) = w
      <3>1. 2^b = 8 /\ Bit(d, b) = g
        BY <1>2, <2>4, <2>10, Places, Zenon DEF Told
      <3>2. OfBits(h) = a + 2 * c + 4 * e + 8 * x + 16 * i + 32 * j + 64 * k + 128 * l
        BY <2>5, <2>10 DEF OfBits
      <3>3. OfBits(h) = d + 8 * (x - g)
        BY <2>6, <3>2
      <3> QED
        BY <2>0, <2>2, <3>1, <3>3
    <2>11. ASSUME b = 4 PROVE WithBit(d, b, x) = w
      <3>1. 2^b = 16 /\ Bit(d, b) = i
        BY <1>2, <2>4, <2>11, Places, Zenon DEF Told
      <3>2. OfBits(h) = a + 2 * c + 4 * e + 8 * g + 16 * x + 32 * j + 64 * k + 128 * l
        BY <2>5, <2>11 DEF OfBits
      <3>3. OfBits(h) = d + 16 * (x - i)
        BY <2>6, <3>2
      <3> QED
        BY <2>0, <2>2, <3>1, <3>3
    <2>12. ASSUME b = 5 PROVE WithBit(d, b, x) = w
      <3>1. 2^b = 32 /\ Bit(d, b) = j
        BY <1>2, <2>4, <2>12, Places, Zenon DEF Told
      <3>2. OfBits(h) = a + 2 * c + 4 * e + 8 * g + 16 * i + 32 * x + 64 * k + 128 * l
        BY <2>5, <2>12 DEF OfBits
      <3>3. OfBits(h) = d + 32 * (x - j)
        BY <2>6, <3>2
      <3> QED
        BY <2>0, <2>2, <3>1, <3>3
    <2>13. ASSUME b = 6 PROVE WithBit(d, b, x) = w
      <3>1. 2^b = 64 /\ Bit(d, b) = k
        BY <1>2, <2>4, <2>13, Places, Zenon DEF Told
      <3>2. OfBits(h) = a + 2 * c + 4 * e + 8 * g + 16 * i + 32 * j + 64 * x + 128 * l
        BY <2>5, <2>13 DEF OfBits
      <3>3. OfBits(h) = d + 64 * (x - k)
        BY <2>6, <3>2
      <3> QED
        BY <2>0, <2>2, <3>1, <3>3
    <2>14. ASSUME b = 7 PROVE WithBit(d, b, x) = w
      <3>1. 2^b = 128 /\ Bit(d, b) = l
        BY <1>2, <2>4, <2>14, Places, Zenon DEF Told
      <3>2. OfBits(h) = a + 2 * c + 4 * e + 8 * g + 16 * i + 32 * j + 64 * k + 128 * x
        BY <2>5, <2>14 DEF OfBits
      <3>3. OfBits(h) = d + 128 * (x - l)
        BY <2>6, <3>2
      <3> QED
        BY <2>0, <2>2, <3>1, <3>3
    <2>15. b = 0 \/ b = 1 \/ b = 2 \/ b = 3 \/ b = 4 \/ b = 5 \/ b = 6 \/ b = 7
      OBVIOUS
    <2>16. WithBit(d, b, x) = w
      BY <2>7, <2>8, <2>9, <2>10, <2>11, <2>12, <2>13, <2>14, <2>15
    <2> QED
      BY <2>0, <2>16, Zenon
  <1>4. PICK m \in Nat \ {0} : m = 2^b
    BY Places
  <1>5. Bit(d, b) \in {0, 1}
    BY BitChanges, Zenon
  <1>6. PICK z \in {0, 1} : z = Bit(d, b)
    BY <1>5
  <1>7. d + m * (1 - z) = WithBit(d, b, 1) /\ d + m * (0 - z) = WithBit(d, b, 0)
    BY <1>3, <1>4, <1>6
  <1>8. d + m * (0 - z) = d - m * z
    OBVIOUS
  <1> QED
    BY <1>4, <1>6, <1>7, <1>8

-----------------------------------------------------------------------------
(* Ways out and back *)

\* Two instructions, one after the other.
Trip(i, j, s, u) == u = Effect(j, Effect(i, s))

\* The registers are what they were, and the carry as well.
Home(s, u) == u.reg = s.reg
HomeWithCarry(s, u) == u.reg = s.reg /\ Carry(u.flag) = Carry(s.flag)

\* A register that is written twice, at last with what it held.
PutBack(s, r, o, q, m, u) ==
    /\ s.reg \in [Registers -> Int] /\ r \in Registers /\ o.val \in Int
    /\ m = Put(s, r, o) /\ u = Put(m, r, q) /\ q.val = s.reg[r]

\* Then all registers are what they were.
LEMMA PutsBack ==
    ASSUME NEW s, NEW r, NEW o, NEW q, NEW m, NEW u, PutBack(s, r, o, q, m, u)
    PROVE  Home(s, u) /\ u.flag = q.flag
  <1>1. /\ s.reg \in [Registers -> Int] /\ r \in Registers /\ q.val = s.reg[r]
        /\ m.reg = [s.reg EXCEPT ![r] = o.val] /\ u.reg = [m.reg EXCEPT ![r] = q.val] /\ u.flag = q.flag
    BY DEF PutBack, Put
  <1>2. u.reg = [s.reg EXCEPT ![r] = s.reg[r]]
    BY <1>1
  <1>3. u.reg = s.reg
    BY <1>1, <1>2
  <1> QED
    BY <1>1, <1>3 DEF Home

\* What the first of the two leaves.
WrittenTo(s, r, o, m) == s.reg \in [Registers -> Int] /\ r \in Registers /\ m = Put(s, r, o)

\* The register holds the result, the flags are those of the result, all else stays.
LEMMA PutsThere ==
    ASSUME NEW s, NEW r, NEW o, NEW m, WrittenTo(s, r, o, m)
    PROVE  m.reg[r] = o.val /\ m.flag = o.flag /\ \A x \in Registers \ {r} : m.reg[x] = s.reg[x]
  BY DEF Put, WrittenTo

\* A rotate of the second page and its inverse.
RotateTrip(i, j, n, c, k, s, u) ==
    /\ i \in 0 .. 7 /\ j \in 0 .. 7 /\ n \in 0 .. 7 /\ c = 8 * i + n /\ k = 8 * j + n
    /\ Typed(s.reg) /\ s.reg[Operand[n + 1]] \in 0 .. 255
    /\ Trip(<<"cb", c, 0>>, <<"cb", k, 0>>, s, u)

\* It leads back; the pairs that go through the carry restore that, too.
LEMMA RotatesReturn ==
    ASSUME NEW i, NEW j, NEW n, NEW c, NEW k, NEW s, NEW u, RotateTrip(i, j, n, c, k, s, u)
    PROVE  /\ <<RotateRow[i + 1], RotateRow[j + 1]>> \in Inverses => Home(s, u)
           /\ <<RotateRow[i + 1], RotateRow[j + 1]>> \in {<<"RL", "RR">>, <<"RR", "RL">>}
                 => HomeWithCarry(s, u)
  <1>1. PICK x, y, r, d : /\ x = RotateRow[i + 1] /\ y = RotateRow[j + 1] /\ r = Operand[n + 1]
                          /\ d = s.reg[r] /\ d \in 0 .. 255
    BY DEF RotateTrip
  <1>2. s.reg \in [Registers -> Int] /\ r \in Registers
    <2>1. Typed(s.reg) /\ n \in 0 .. 7
      BY DEF RotateTrip
    <2>2. n \in 0 .. 7 /\ s.reg \in [Registers -> Int]
      BY <2>1 DEF Typed
    <2>3. Operand[n + 1] \in Cells
      BY <2>2, OperandIs
    <2> QED
      BY <1>1, <2>2, <2>3 DEF Cells
  <1>3. PICK o, q : o = Rotate(x, d, s.flag) /\ q = Rotate(y, o.val, o.flag)
    OBVIOUS
  <1>4. PICK m : m = Effect(<<"cb", c, 0>>, s) /\ u = Effect(<<"cb", k, 0>>, m)
    BY DEF RotateTrip, Trip
  <1>5. m = Put(s, r, o)
    <2>1. Turned(s, c, i, n)
      BY RotateIs DEF RotateTrip
    <2> QED
      BY <1>1, <1>3, <1>4, <2>1 DEF Turned
  <1>6. m.reg[r] = o.val /\ m.flag = o.flag
    <2>1. WrittenTo(s, r, o, m)
      BY <1>2, <1>5, SMTT(30) DEF WrittenTo
    <2> QED
      BY <2>1, PutsThere
  <1>7. u = Put(m, r, q)
    <2>1. Turned(m, k, j, n)
      BY RotateIs DEF RotateTrip
    <2> QED
      BY <1>1, <1>3, <1>4, <1>6, <2>1 DEF Turned
  <1>8. ASSUME <<x, y>> \in Inverses
        PROVE  /\ Home(s, u)
               /\ <<x, y>> \in {<<"RL", "RR">>, <<"RR", "RL">>} => HomeWithCarry(s, u)
    <2>1. PICK e : e = <<x, y>>
      OBVIOUS
    <2>2. e[1] = x /\ e[2] = y
      BY <2>1
    <2>3. /\ Then(x, y, d, s.flag).val = d
          /\ e \in {<<"RL", "RR">>, <<"RR", "RL">>} => Carry(Then(x, y, d, s.flag).flag) = Carry(s.flag)
      BY <1>1, <1>8, <2>1, <2>2, RotateTrips, ZenonT(60)
    <2>4. Then(x, y, d, s.flag) = q
      BY <1>3 DEF Then
    <2>5. o.val \in Int
      <3>1. x \in {"RLC", "RRC", "RL", "RR", "SLA", "SRA", "SRL", "SWAP"}
        BY <1>8 DEF Inverses
      <3>2. x = "SWAP" => o.val \in Int
        <4> SUFFICES ASSUME x = "SWAP" PROVE o.val \in Int
          OBVIOUS
        <4>1. PICK h \in Int, l \in 0 .. 15 : d = 16 * h + l /\ d \div 16 = h /\ d % 16 = l
          <5>1. d \in Int
            BY <1>1
          <5> QED
            BY <5>1, Divided
        <4>2. h \in 0 .. 15
          BY <1>1, <4>1
        <4> QED
          BY <1>3, <4>1, <4>2, Swaps
      <3>3. x \in {"RLC", "RL", "SLA"} => Outcome(o)
        BY <1>1, <1>3, RotatesLeft, ZenonT(60) DEF MovedUp
      <3>4. x \in {"RRC", "RR", "SRL"} => Outcome(o)
        <4>1. \A b : MovedDown(d, b, o) => Outcome(o)
          BY DEF MovedDown
        <4> QED
          BY <1>1, <1>3, <4>1, RotatesRight
      <3>5. x = "SRA" => Outcome(o)
        <4>1. \E b \in {0, 1} : MovedDown(d, b, Rotate("SRA", d, s.flag))
          BY <1>1, RotatesRight
        <4> QED
          BY <1>3, <4>1 DEF MovedDown
      <3> QED
        BY <3>1, <3>2, <3>3, <3>4, <3>5 DEF Outcome
    <2>6. PutBack(s, r, o, q, m, u)
      BY <1>1, <1>2, <1>5, <1>7, <2>3, <2>4, <2>5 DEF PutBack
    <2>7. Home(s, u) /\ u.flag = q.flag
      BY <2>6, PutsBack
    <2> QED
      BY <2>1, <2>3, <2>4, <2>7 DEF Home, HomeWithCarry
  <1> QED
    BY <1>1, <1>8 DEF Inverses

\* Of the flags only the carry enters a rotate.
LEMMA RotateByCarry ==
    ASSUME NEW op, NEW d, NEW f, NEW g, Carry(f) = Carry(g)
    PROVE  Rotate(op, d, f) = Rotate(op, d, g)
  <1>1. Rotated(op, d, f) = Rotated(op, d, g)
    BY DEF Rotated
  <1> QED
    BY <1>1 DEF Rotate

\* The rotates of A are the others, but for Z.
LEMMA RotateAIs ==
    ASSUME NEW op, NEW d, NEW f
    PROVE  /\ RotateA(op, d, f).val = Rotate(op, d, f).val
           /\ Carry(RotateA(op, d, f).flag) = Carry(Rotate(op, d, f).flag)
  <1>1. PICK v, g : Rotate(op, d, f) = [val |-> v, flag |-> g]
    BY ZenonT(60) DEF Rotate, Yields
  <1>2. RotateA(op, d, f) = [val |-> v, flag |-> g \ {"Z"}]
    BY <1>1 DEF RotateA
  <1>3. Carry(g \ {"Z"}) = Carry(g)
    BY DEF Carry
  <1> QED
    BY <1>1, <1>2, <1>3

\* A byte that a rotate makes.
LEMMA RotateMakes ==
    ASSUME NEW d \in 0 .. 255, NEW f, NEW op \in {"RLC", "RL", "RRC", "RR"}
    PROVE  Rotate(op, d, f).val \in Int
  <1>1. op \in {"RLC", "RL"} => Outcome(Rotate(op, d, f))
    BY RotatesLeft DEF MovedUp
  <1>2. op \in {"RRC", "RR"} => Outcome(Rotate(op, d, f))
    BY RotatesRight DEF MovedDown
  <1> QED
    BY <1>1, <1>2 DEF Outcome

\* A code is a rotate of A; and two of them, one after the other.
ATurns(c, op, s) == Effect(<<"op", c, 0>>, s) = Put(s, "A", RotateA(op, s.reg.A, s.flag))

ATrip(c, x, k, y, s, u) ==
    /\ x \in {"RLC", "RL", "RRC", "RR"}
    /\ \A t : ATurns(c, x, t) /\ ATurns(k, y, t)
    /\ s.reg \in [Registers -> Int] /\ s.reg.A \in 0 .. 255
    /\ Trip(<<"op", c, 0>>, <<"op", k, 0>>, s, u)

\* They lead back; RLA and RRA restore the carry, too.
LEMMA ATurnsReturn ==
    ASSUME NEW c, NEW x, NEW k, NEW y, NEW s, NEW u, ATrip(c, x, k, y, s, u),
           NEW p, p = <<x, y>>, p \in Inverses
    PROVE  /\ Home(s, u)
           /\ p \in {<<"RL", "RR">>, <<"RR", "RL">>} => HomeWithCarry(s, u)
  <1>1. PICK d \in 0 .. 255 : d = s.reg.A
    BY DEF ATrip
  <1>2. "A" \in Registers /\ s.reg \in [Registers -> Int]
    BY DEF ATrip, Registers
  <1>3. PICK o, q, e : /\ o = RotateA(x, d, s.flag) /\ q = RotateA(y, o.val, o.flag)
                       /\ e = Rotate(x, d, s.flag)
    OBVIOUS
  <1>4. PICK m : m = Put(s, "A", o) /\ m = Effect(<<"op", c, 0>>, s)
    BY <1>1, <1>3 DEF ATrip, ATurns
  <1>5. m.reg["A"] = o.val /\ m.flag = o.flag
    <2>1. WrittenTo(s, "A", o, m)
      BY <1>2, <1>4 DEF WrittenTo
    <2> QED
      BY <2>1, PutsThere
  <1>6. u = Put(m, "A", q)
    <2>1. u = Effect(<<"op", k, 0>>, m)
      BY <1>4 DEF ATrip, Trip
    <2>2. Effect(<<"op", k, 0>>, m) = Put(m, "A", RotateA(y, m.reg.A, m.flag))
      BY DEF ATrip, ATurns
    <2> QED
      BY <1>3, <1>5, <2>1, <2>2
  <1>7. o.val = e.val /\ Carry(o.flag) = Carry(e.flag)
    BY <1>3, RotateAIs
  <1>8. q.val = Rotate(y, o.val, o.flag).val /\ Carry(q.flag) = Carry(Rotate(y, o.val, o.flag).flag)
    BY <1>3, RotateAIs
  <1>9. Rotate(y, o.val, o.flag) = Then(x, y, d, s.flag)
    <2>1. Rotate(y, o.val, o.flag) = Rotate(y, o.val, e.flag)
      BY <1>7, RotateByCarry
    <2> QED
      BY <1>3, <1>7, <2>1 DEF Then
  <1>10. p[1] = x /\ p[2] = y
    OBVIOUS
  <1>11. /\ Then(x, y, d, s.flag).val = d
         /\ p \in {<<"RL", "RR">>, <<"RR", "RL">>} => Carry(Then(x, y, d, s.flag).flag) = Carry(s.flag)
    BY <1>10, RotateTrips, ZenonT(60)
  <1>12. o.val \in Int
    <2>1. x \in {"RLC", "RL", "RRC", "RR"}
      BY DEF ATrip
    <2> QED
      BY <1>3, <1>7, <2>1, RotateMakes
  <1>13. PutBack(s, "A", o, q, m, u)
    BY <1>1, <1>2, <1>4, <1>6, <1>8, <1>9, <1>11, <1>12 DEF PutBack
  <1>14. Home(s, u) /\ u.flag = q.flag
    BY <1>13, PutsBack
  <1> QED
    BY <1>8, <1>9, <1>11, <1>14 DEF Home, HomeWithCarry

\* INC and DEC of a register, in either order.
LEMMA CountsReturn ==
    ASSUME NEW s, s.reg \in [Registers -> Int], NEW n \in 0 .. 7, s.reg[Operand[n + 1]] \in 0 .. 255,
           NEW u, NEW c, c = 4 + 8 * n, NEW k, k = 5 + 8 * n
    PROVE  /\ Trip(<<"op", c, 0>>, <<"op", k, 0>>, s, u) => HomeWithCarry(s, u)
           /\ Trip(<<"op", k, 0>>, <<"op", c, 0>>, s, u) => HomeWithCarry(s, u)
  <1>1. PICK d \in 0 .. 255 : d = s.reg[Operand[n + 1]]
    OBVIOUS
  <1>2. PICK r : r = Operand[n + 1] /\ d = s.reg[r] /\ r \in Registers
    <2>1. Operand[n + 1] \in Cells
      BY OperandIs
    <2> QED
      BY <1>1, <2>1 DEF Cells
  <1>3. ASSUME NEW t
        PROVE  /\ Effect(<<"op", c, 0>>, t) = Put(t, r, Inc8(t.reg[r], t.flag))
               /\ Effect(<<"op", k, 0>>, t) = Put(t, r, Dec8(t.reg[r], t.flag))
    BY <1>2, CountIs
  <1>4. ASSUME Trip(<<"op", c, 0>>, <<"op", k, 0>>, s, u) PROVE HomeWithCarry(s, u)
    <2>1. PICK o, q : o = Inc8(d, s.flag) /\ q = Dec8(o.val, o.flag)
      OBVIOUS
    <2>2. PICK m : m = Put(s, r, o) /\ m = Effect(<<"op", c, 0>>, s)
      BY <1>2, <1>3, <2>1
    <2>3. m.reg[r] = o.val /\ m.flag = o.flag
      <3>1. WrittenTo(s, r, o, m)
        BY <1>2, <2>2 DEF WrittenTo
      <3> QED
        BY <3>1, PutsThere
    <2>4. u = Put(m, r, q)
      BY <1>3, <1>4, <2>1, <2>2, <2>3 DEF Trip
    <2>5. /\ o.val = IF d = 255 THEN 0 ELSE d + 1
          /\ Carry(o.flag) = Carry(s.flag)
      BY <2>1, CountedIs, ZenonT(60) DEF Counted
    <2>6. PICK v \in 0 .. 255 : v = o.val
      BY <2>5
    <2>7. PICK g : g = o.flag
      OBVIOUS
    <2>8. /\ q.val = IF v = 0 THEN 255 ELSE v - 1
          /\ Carry(q.flag) = Carry(o.flag)
      <3>1. q = Dec8(v, g)
        BY <2>1, <2>6, <2>7
      <3>2. Dec8(v, g).val = (IF v = 0 THEN 255 ELSE v - 1) /\ Carry(Dec8(v, g).flag) = Carry(g)
        <4>1. Counted(v, g)
          BY <2>6, CountedIs
        <4> QED
          BY <4>1 DEF Counted
      <3> QED
        BY <2>7, <3>1, <3>2
    <2>9. q.val = d
      BY <2>5, <2>6, <2>8
    <2>10. PutBack(s, r, o, q, m, u)
      BY <1>2, <2>2, <2>4, <2>6, <2>9, SMTT(30) DEF PutBack
    <2> QED
      BY <2>5, <2>8, <2>10, PutsBack DEF Home, HomeWithCarry
  <1>5. ASSUME Trip(<<"op", k, 0>>, <<"op", c, 0>>, s, u) PROVE HomeWithCarry(s, u)
    <2>1. PICK o, q : o = Dec8(d, s.flag) /\ q = Inc8(o.val, o.flag)
      BY SMTT(30)
    <2>2. PICK m : m = Put(s, r, o) /\ m = Effect(<<"op", k, 0>>, s)
      BY <1>2, <1>3, <2>1
    <2>3. m.reg[r] = o.val /\ m.flag = o.flag
      <3>1. WrittenTo(s, r, o, m)
        BY <1>2, <2>2 DEF WrittenTo
      <3> QED
        BY <3>1, PutsThere
    <2>4. u = Put(m, r, q)
      BY <1>3, <1>5, <2>1, <2>2, <2>3 DEF Trip
    <2>5. /\ o.val = IF d = 0 THEN 255 ELSE d - 1
          /\ Carry(o.flag) = Carry(s.flag)
      BY <2>1, CountedIs, ZenonT(60) DEF Counted
    <2>6. PICK v \in 0 .. 255 : v = o.val
      BY <2>5
    <2>7. PICK g : g = o.flag
      OBVIOUS
    <2>8. /\ q.val = IF v = 255 THEN 0 ELSE v + 1
          /\ Carry(q.flag) = Carry(o.flag)
      <3>1. q = Inc8(v, g)
        BY <2>1, <2>6, <2>7
      <3>2. Inc8(v, g).val = (IF v = 255 THEN 0 ELSE v + 1) /\ Carry(Inc8(v, g).flag) = Carry(g)
        <4>1. Counted(v, g)
          BY <2>6, CountedIs
        <4> QED
          BY <4>1 DEF Counted
      <3> QED
        BY <2>7, <3>1, <3>2
    <2>9. q.val = d
      BY <2>5, <2>6, <2>8
    <2>10. PutBack(s, r, o, q, m, u)
      BY <1>2, <2>2, <2>4, <2>6, <2>9, SMTT(30) DEF PutBack
    <2> QED
      BY <2>5, <2>8, <2>10, PutsBack DEF Home, HomeWithCarry
  <1> QED
    BY <1>4, <1>5

\* CPL twice, and CCF twice.
LEMMA ComplementsReturn ==
    ASSUME NEW s, s.reg \in [Registers -> Int], s.reg.A \in 0 .. 255, NEW u
    PROVE  /\ Trip(<<"op", 47, 0>>, <<"op", 47, 0>>, s, u) => HomeWithCarry(s, u)
           /\ Trip(<<"op", 63, 0>>, <<"op", 63, 0>>, s, u) => HomeWithCarry(s, u)
  <1>1. ASSUME Trip(<<"op", 47, 0>>, <<"op", 47, 0>>, s, u) PROVE HomeWithCarry(s, u)
    <2>1. PICK m : m = Effect(<<"op", 47, 0>>, s) /\ u = Effect(<<"op", 47, 0>>, m)
      BY <1>1 DEF Trip
    <2>2. PICK o : o = [val |-> 255 - s.reg.A, flag |-> s.flag \cup {"N", "H"}]
      OBVIOUS
    <2>3. m = Put(s, "A", o)
      BY <2>1, <2>2, OnAIs
    <2>4. m.reg["A"] = o.val /\ m.flag = o.flag /\ "A" \in Registers
      <3>1. WrittenTo(s, "A", o, m) /\ "A" \in Registers
        BY <2>3 DEF WrittenTo, Registers
      <3> QED
        BY <3>1, PutsThere
    <2>5. PICK q : q = [val |-> 255 - m.reg.A, flag |-> m.flag \cup {"N", "H"}]
      OBVIOUS
    <2>6. u = Put(m, "A", q)
      BY <2>1, <2>5, OnAIs
    <2>7. o.val \in Int /\ q.val = s.reg["A"]
      BY <2>2, <2>4, <2>5
    <2>8. PutBack(s, "A", o, q, m, u)
      BY <2>3, <2>4, <2>6, <2>7 DEF PutBack
    <2>9. Home(s, u) /\ u.flag = q.flag
      BY <2>8, PutsBack
    <2>10. Carry(q.flag) = Carry(s.flag)
      BY <2>2, <2>4, <2>5 DEF Carry
    <2> QED
      BY <2>9, <2>10 DEF Home, HomeWithCarry
  <1>2. ASSUME Trip(<<"op", 63, 0>>, <<"op", 63, 0>>, s, u) PROVE HomeWithCarry(s, u)
    <2>1. PICK m : m = Effect(<<"op", 63, 0>>, s) /\ u = Effect(<<"op", 63, 0>>, m)
      BY <1>2 DEF Trip
    <2>2. /\ m = Flagged(s, Kept(s.flag, "Z") \cup ({"C"} \ s.flag))
          /\ u = Flagged(m, Kept(m.flag, "Z") \cup ({"C"} \ m.flag))
      BY <2>1, OnAIs
    <2> QED
      BY <2>2 DEF Flagged, Kept, Carry, HomeWithCarry
  <1> QED
    BY <1>1, <1>2

\* The two halves of a pair.
LEMMA HalvesAre ==
    ASSUME NEW p \in 0 .. 2
    PROVE  /\ High[p + 1] \in Cells /\ Low[p + 1] \in Cells /\ High[p + 1] # Low[p + 1]
           /\ High[p + 1] \in Registers /\ Low[p + 1] \in Registers
  <1>1. p = 0 \/ p = 1 \/ p = 2
    OBVIOUS
  <1> QED
    BY <1>1 DEF High, Low, Cells, Registers

\* A number as the word that fits, and the bytes of that.
Fit(n) == n % 65536
Upper(n) == (n \div 256) % 256
Lower(n) == n % 256
Joined(h, l) == 256 * h + l

\* Taken round once or twice makes no difference, and the bytes make the word.
LEMMA WordFits ==
    ASSUME NEW n \in Int
    PROVE  /\ Upper(n) \in 0 .. 255 /\ Lower(n) \in 0 .. 255 /\ Fit(n) \in Int
           /\ Fit(n) = Joined(Upper(n), Lower(n))
  <1>1. PICK h, l, k : Split(n, h, l, k)
    BY WordIs
  <1>2. h \in 0 .. 255 /\ l \in 0 .. 255 /\ Upper(n) = h /\ Lower(n) = l /\ Fit(n) = 256 * h + l
    BY <1>1 DEF Split, Upper, Lower, Fit
  <1> QED
    BY <1>2 DEF Joined

\* BC, DE and HL are their two halves ...
LEMMA PairOfHalves ==
    ASSUME NEW reg, NEW p \in 0 .. 2, NEW r, r = High[p + 1], NEW q, q = Low[p + 1]
    PROVE  Pair(reg, p) = Joined(reg[r], reg[q])
  <1>1. p # 3
    OBVIOUS
  <1> QED
    BY <1>1, SMT DEF Pair, Joined

\* A pair of two halves is written as these.
InHalves(reg, p, r, q, n) == SetPair(reg, p, n) = [reg EXCEPT ![r] = Upper(n), ![q] = Lower(n)]

\* ... and are written so ...
LEMMA PairInHalves ==
    ASSUME NEW reg, NEW p \in 0 .. 2, NEW r, r = High[p + 1], NEW q, q = Low[p + 1], NEW n
    PROVE  InHalves(reg, p, r, q, n)
  <1>1. p # 3
    OBVIOUS
  <1> QED
    BY <1>1, SMT DEF SetPair, Upper, Lower, InHalves

\* ... and SP is a register of its own.
LEMMA PairOfSP ==
    /\ \A reg : Pair(reg, 3) = reg["SP"]
    /\ \A reg, n : SetPair(reg, 3, n) = [reg EXCEPT !["SP"] = Fit(n)]
  BY SMT DEF Pair, SetPair, Fit

\* Two registers that are written hold what was written, and written with what
\* they held they are what they were.
LEMMA TwoWritten ==
    ASSUME NEW reg \in [Registers -> Int], NEW r \in Registers, NEW q \in Registers, r # q,
           NEW v \in Int, NEW w \in Int, NEW m, m = [reg EXCEPT ![r] = v, ![q] = w]
    PROVE  /\ m \in [Registers -> Int] /\ m[r] = v /\ m[q] = w
           /\ [m EXCEPT ![r] = reg[r], ![q] = reg[q]] = reg
  OBVIOUS

\* The same of one register.
LEMMA OneWritten ==
    ASSUME NEW reg \in [Registers -> Int], NEW r \in Registers, NEW v \in Int, NEW m, m = [reg EXCEPT ![r] = v]
    PROVE  m \in [Registers -> Int] /\ m[r] = v /\ [m EXCEPT ![r] = reg[r]] = reg
  OBVIOUS

\* A pair holds a word.
PairIsWord(reg, p) == \E x \in Int : x = Pair(reg, p) /\ 0 <= x /\ x < 65536

\* All pairs hold words.
LEMMA PairsAreWords ==
    ASSUME NEW reg, Typed(reg), NEW p \in 0 .. 3
    PROVE  PairIsWord(reg, p)
  <1>1. CASE p = 3
    <2>1. reg["SP"] \in Int /\ 0 <= reg["SP"] /\ reg["SP"] < 65536
      BY DEF Typed, Registers
    <2>2. Pair(reg, p) = reg["SP"]
      BY <1>1, PairOfSP
    <2> QED
      BY <2>1, <2>2 DEF PairIsWord
  <1>2. CASE p # 3
    <2>1. PICK r, q : r = High[p + 1] /\ q = Low[p + 1] /\ r \in Cells /\ q \in Cells
      BY <1>2, HalvesAre
    <2>2. PICK h \in 0 .. 255 : h = reg[r]
      BY <2>1 DEF Typed
    <2>3. PICK l \in 0 .. 255 : l = reg[q]
      BY <2>1 DEF Typed
    <2>4. p \in 0 .. 2
      BY <1>2
    <2>5. Pair(reg, p) = Joined(reg[r], reg[q])
      BY <2>1, <2>4, PairOfHalves
    <2>6. PICK x \in Int : x = Joined(h, l) /\ 0 <= x /\ x < 65536
      BY DEF Joined
    <2> QED
      BY <2>2, <2>3, <2>5, <2>6 DEF PairIsWord
  <1> QED
    BY <1>1, <1>2

\* A pair is written.
PairWritten(reg, p, n, m) == Typed(reg) /\ p \in 0 .. 3 /\ n \in Int /\ m = SetPair(reg, p, n)

\* It holds the word that fits.
LEMMA PairHolds ==
    ASSUME NEW reg, NEW p, NEW n, NEW m, PairWritten(reg, p, n, m)
    PROVE  m \in [Registers -> Int] /\ Pair(m, p) = Fit(n)
  <1>1. reg \in [Registers -> Int] /\ p \in 0 .. 3 /\ n \in Int /\ m = SetPair(reg, p, n)
    BY DEF PairWritten, Typed
  <1>2. Upper(n) \in Int /\ Lower(n) \in Int /\ Fit(n) \in Int /\ Fit(n) = Joined(Upper(n), Lower(n))
    BY <1>1, WordFits, SMTT(30)
  <1>3. CASE p = 3
    <2>1. m = [reg EXCEPT !["SP"] = Fit(n)]
      BY <1>1, <1>3, PairOfSP, Zenon
    <2>2. m \in [Registers -> Int] /\ m["SP"] = Fit(n)
      <3>1. "SP" \in Registers
        BY DEF Registers
      <3> QED
        BY <1>1, <1>2, <2>1, <3>1, OneWritten
    <2> QED
      BY <1>3, <2>2, PairOfSP, Zenon
  <1>4. CASE p # 3
    <2>1. p \in 0 .. 2
      BY <1>1, <1>4
    <2>2. PICK r, q : r = High[p + 1] /\ q = Low[p + 1] /\ r \in Registers /\ q \in Registers /\ r # q
      BY <2>1, HalvesAre
    <2>3. m = [reg EXCEPT ![r] = Upper(n), ![q] = Lower(n)]
      <3>1. InHalves(reg, p, r, q, n)
        BY <2>1, <2>2, PairInHalves
      <3> QED
        BY <1>1, <3>1, Zenon DEF InHalves
    <2>4. m[r] = Upper(n) /\ m[q] = Lower(n) /\ m \in [Registers -> Int]
      BY <1>1, <1>2, <2>2, <2>3, TwoWritten
    <2>5. Pair(m, p) = Joined(m[r], m[q])
      BY <2>1, <2>2, PairOfHalves
    <2> QED
      BY <1>2, <2>4, <2>5, Zenon
  <1> QED
    BY <1>3, <1>4, Zenon

\* Written with what it held it leaves all registers as they were.
LEMMA PairReturns ==
    ASSUME NEW reg, NEW p, NEW n, NEW m, PairWritten(reg, p, n, m), NEW k \in Int, Fit(k) = Pair(reg, p)
    PROVE  SetPair(m, p, k) = reg
  <1>1. reg \in [Registers -> Int] /\ p \in 0 .. 3 /\ m = SetPair(reg, p, n) /\ n \in Int
    BY DEF PairWritten, Typed
  <1>2. Upper(n) \in Int /\ Lower(n) \in Int /\ Fit(n) \in Int
    BY <1>1, WordFits, SMTT(30)
  <1>3. CASE p = 3
    <2>1. m = [reg EXCEPT !["SP"] = Fit(n)]
      BY <1>1, <1>3, PairOfSP, Zenon
    <2>2. SetPair(m, p, k) = [m EXCEPT !["SP"] = reg["SP"]]
      BY <1>3, PairOfSP, Zenon
    <2>3. "SP" \in Registers
      BY DEF Registers
    <2>4. [m EXCEPT !["SP"] = reg["SP"]] = reg
      BY <1>1, <1>2, <2>1, <2>3, OneWritten
    <2> QED
      BY <2>2, <2>4, Zenon
  <1>4. CASE p # 3
    <2>1. p \in 0 .. 2
      BY <1>1, <1>4
    <2>2. PICK r, q : /\ r = High[p + 1] /\ q = Low[p + 1] /\ r \in Registers /\ q \in Registers /\ r # q
                      /\ r \in Cells /\ q \in Cells
      BY <2>1, HalvesAre
    <2>3. m = [reg EXCEPT ![r] = Upper(n), ![q] = Lower(n)]
      <3>1. InHalves(reg, p, r, q, n)
        BY <2>1, <2>2, PairInHalves
      <3> QED
        BY <1>1, <3>1, Zenon DEF InHalves
    <2>4. reg[r] \in 0 .. 255 /\ reg[q] \in 0 .. 255
      BY <2>2 DEF PairWritten, Typed
    <2>5. Pair(reg, p) = Joined(reg[r], reg[q])
      BY <2>1, <2>2, PairOfHalves
    <2>6. /\ Upper(k) \in 0 .. 255 /\ Lower(k) \in 0 .. 255
          /\ Joined(Upper(k), Lower(k)) = Joined(reg[r], reg[q])
      BY <2>5, WordFits
    <2>7. Upper(k) = reg[r] /\ Lower(k) = reg[q]
      <3>1. PICK x \in 0 .. 255, y \in 0 .. 255 : x = reg[r] /\ y = reg[q]
        BY <2>4, ZenonT(60)
      <3>2. PICK h \in 0 .. 255, l \in 0 .. 255 : h = Upper(k) /\ l = Lower(k)
        BY <2>6, Zenon
      <3>3. 256 * h + l = 256 * x + y
        BY <2>6, <3>1, <3>2 DEF Joined
      <3>4. h = x /\ l = y
        BY <3>3
      <3> QED
        BY <3>1, <3>2, <3>4, SMTT(30)
    <2>8. SetPair(m, p, k) = [m EXCEPT ![r] = Upper(k), ![q] = Lower(k)]
      <3>1. InHalves(m, p, r, q, k)
        BY <2>1, <2>2, PairInHalves
      <3> QED
        BY <3>1, Zenon DEF InHalves
    <2>9. SetPair(m, p, k) = [m EXCEPT ![r] = reg[r], ![q] = reg[q]]
      BY <2>7, <2>8, Zenon
    <2>10. [m EXCEPT ![r] = reg[r], ![q] = reg[q]] = reg
      BY <1>1, <1>2, <2>2, <2>3, TwoWritten
    <2> QED
      BY <2>9, <2>10, Zenon
  <1> QED
    BY <1>3, <1>4, Zenon

\* A word that is moved by some amount and back.
Wrapping(x, e, z) == x \in Int /\ 0 <= x /\ x < 65536 /\ e \in Int /\ z = Fit(x + e)

\* It is itself again, wherever it wraps.
LEMMA WrapsBack ==
    ASSUME NEW x, NEW e, NEW z, Wrapping(x, e, z)
    PROVE  z \in Int /\ Fit(z - e) = x
  <1>1. PICK n \in Int : n = x + e
    BY DEF Wrapping
  <1>2. PICK h, l, q : Split(n, h, l, q)
    BY WordIs
  <1>3. z \in Int /\ q \in Int /\ n = 65536 * q + z
    BY <1>1, <1>2 DEF Split, Wrapping, Fit
  <1>4. PICK k \in Int, i \in Int : k = z - e /\ i = 0 - q
    BY <1>3 DEF Wrapping
  <1>5. k = 65536 * i + x
    BY <1>1, <1>3, <1>4 DEF Wrapping
  <1>6. k % 65536 = x
    BY <1>5 DEF Wrapping
  <1> QED
    BY <1>3, <1>4, <1>6 DEF Fit

\* INC and DEC of a pair, in either order.
LEMMA PairsReturn ==
    ASSUME NEW s, Typed(s.reg), NEW p \in 0 .. 3, NEW u, NEW c, c = 16 * p + 3, NEW k, k = 16 * p + 11
    PROVE  Trip(<<"op", c, 0>>, <<"op", k, 0>>, s, u) => HomeWithCarry(s, u)
  <1> SUFFICES ASSUME Trip(<<"op", c, 0>>, <<"op", k, 0>>, s, u) PROVE HomeWithCarry(s, u)
    OBVIOUS
  <1>1. ASSUME NEW t
        PROVE  /\ Effect(<<"op", c, 0>>, t) = CountPair(t, p, 1)
               /\ Effect(<<"op", k, 0>>, t) = CountPair(t, p, -1)
    BY PairIs
  <1>2. PICK m : m = CountPair(s, p, 1) /\ u = CountPair(m, p, -1)
    BY <1>1 DEF Trip
  <1>3. PICK x \in Int : x = Pair(s.reg, p) /\ 0 <= x /\ x < 65536
    <2>1. PairIsWord(s.reg, p)
      BY PairsAreWords
    <2> QED
      BY <2>1 DEF PairIsWord
  <1>4. PICK n \in Int : n = x + 1
    OBVIOUS
  <1>5. m.flag = s.flag /\ m.reg = SetPair(s.reg, p, n)
    BY <1>2, <1>3, <1>4 DEF CountPair
  <1>6. PairWritten(s.reg, p, n, m.reg)
    BY <1>5 DEF PairWritten
  <1>7. PICK z : z = Pair(m.reg, p) /\ z = Fit(n)
    BY <1>6, PairHolds
  <1>8. z \in Int /\ Fit(z - 1) = x
    <2>1. Wrapping(x, 1, z)
      BY <1>3, <1>4, <1>7 DEF Wrapping
    <2> QED
      BY <2>1, WrapsBack
  <1>9. PICK j \in Int : j = z + (-1) /\ Fit(j) = x
    BY <1>8
  <1>10. SetPair(m.reg, p, j) = s.reg
    BY <1>3, <1>6, <1>9, PairReturns
  <1>11. u.flag = m.flag /\ u.reg = SetPair(m.reg, p, j)
    BY <1>2, <1>7, <1>9 DEF CountPair
  <1> QED
    BY <1>5, <1>10, <1>11 DEF HomeWithCarry

\* A byte added to A and taken away again.
AddAndTake(a, x, o, q) ==
    a \in 0 .. 255 /\ x \in 0 .. 255 /\ o = Add8(a, x, 0) /\ q = Subtract(o.val, x, 0)

\* A is what it was.
LEMMA AddTakes ==
    ASSUME NEW a, NEW x, NEW o, NEW q, AddAndTake(a, x, o, q)
    PROVE  o.val \in Int /\ q.val = a
  <1>1. a \in 0 .. 255 /\ x \in 0 .. 255 /\ o = Add8(a, x, 0) /\ q = Subtract(o.val, x, 0)
    BY SMTT(30) DEF AddAndTake
  <1>2. Added(a, x, 0, o)
    BY <1>1, AddIs, Zenon
  <1>3. PICK k \in {0, 1}, v \in 0 .. 255 : k = Carry(o.flag) /\ v = o.val /\ a + x + 0 = 256 * k + v
    BY <1>2, SMTT(30) DEF Added
  <1>4. Subtracted(v, x, 0, q)
    <2>1. q = Subtract(v, x, 0)
      BY <1>3, <1>1
    <2> QED
      BY <1>3, <1>1, <2>1, SubtractIs, Zenon
  <1>5. PICK j \in {0, 1}, w \in 0 .. 255 : j = Carry(q.flag) /\ w = q.val /\ v - x - 0 = w - 256 * j
    BY <1>4 DEF Subtracted
  <1>6. w = a
    <2>1. a + x = 256 * k + v /\ v - x = w - 256 * j /\ a \in 0 .. 255 /\ x \in 0 .. 255
      BY <1>3, <1>5, <1>1
    <2>2. k \in Int /\ j \in Int /\ a - w = 256 * (k - j)
      BY <2>1
    <2> QED
      BY <2>1, <2>2
  <1> QED
    BY <1>3, <1>5, <1>6

\* A byte that A is XORed with twice.
XorAndXor(a, x, o, q) ==
    a \in 0 .. 255 /\ x \in 0 .. 255 /\ o = Yields(Xor(a, x), {}) /\ q = Yields(Xor(o.val, x), {})

\* Then, too, A is what it was.
LEMMA XorXors ==
    ASSUME NEW a, NEW x, NEW o, NEW q, XorAndXor(a, x, o, q)
    PROVE  o.val \in Int /\ q.val = a
  <1>1. ASSUME NEW n \in 0 .. 255, NEW y, y = Yields(n, {}) PROVE y.val = n
    <2>1. n % 256 = n
      BY SMTT(30)
    <2> QED
      BY <1>1, <2>1 DEF Yields
  <1>2. PICK n \in 0 .. 255 : n = Xor(a, x) /\ Xor(n, x) = a
    BY XorTwice, Zenon DEF XorAndXor
  <1>3. o.val = n
    BY <1>1, <1>2 DEF XorAndXor
  <1>4. q = Yields(a, {}) /\ a \in 0 .. 255
    BY <1>2, <1>3 DEF XorAndXor
  <1>5. q.val = a
    BY <1>1, <1>4
  <1> QED
    BY <1>2, <1>3, <1>5

\* ADD and SUB with a register, and XOR with it twice; the register is not A.
LEMMA AccumulatesReturn ==
    ASSUME NEW s, Typed(s.reg), NEW n \in 0 .. 7, n # 7, NEW u,
           NEW c, c = 128 + n, NEW k, k = 144 + n, NEW j, j = 168 + n
    PROVE  /\ Trip(<<"op", c, 0>>, <<"op", k, 0>>, s, u) => Home(s, u)
           /\ Trip(<<"op", j, 0>>, <<"op", j, 0>>, s, u) => Home(s, u)
  <1>1. /\ "A" \in Registers /\ "A" \in Cells /\ Operand[n + 1] \in Cells /\ Operand[n + 1] # "A"
        /\ s.reg \in [Registers -> Int]
    <2>1. Operand[n + 1] \in Cells
      BY OperandIs
    <2>2. n = 0 \/ n = 1 \/ n = 2 \/ n = 3 \/ n = 4 \/ n = 5 \/ n = 6
      OBVIOUS
    <2>3. Operand[n + 1] # "A"
      BY <2>2 DEF Operand
    <2> QED
      BY <2>1, <2>3 DEF Typed, Cells, Registers
  <1>2. PICK r : r = Operand[n + 1] /\ r \in Cells /\ r # "A" /\ r \in Registers
    BY <1>1 DEF Cells
  <1>3. PICK a \in 0 .. 255 : a = s.reg["A"]
    BY <1>1 DEF Typed
  <1>4. PICK x \in 0 .. 255 : x = s.reg[r]
    BY <1>2 DEF Typed
  <1>5. ASSUME NEW t
        PROVE  /\ Effect(<<"op", c, 0>>, t) = Put(t, "A", Add8(t.reg["A"], t.reg[r], 0))
               /\ Effect(<<"op", k, 0>>, t) = Put(t, "A", Subtract(t.reg["A"], t.reg[r], 0))
               /\ Effect(<<"op", j, 0>>, t) = Put(t, "A", Yields(Xor(t.reg["A"], t.reg[r]), {}))
    <2>1. c = 128 + 8 * 0 + n /\ k = 128 + 8 * 2 + n /\ j = 128 + 8 * 5 + n
      OBVIOUS
    <2>2. Accumulated(t, c, 0, n) /\ Accumulated(t, k, 2, n) /\ Accumulated(t, j, 5, n)
      BY <2>1, AccumulateIs
    <2>3. /\ Effect(<<"op", c, 0>>, t) = AccumulatorPage(t, "ADD", t.reg[r])
          /\ Effect(<<"op", k, 0>>, t) = AccumulatorPage(t, "SUB", t.reg[r])
          /\ Effect(<<"op", j, 0>>, t) = AccumulatorPage(t, "XOR", t.reg[r])
      BY <1>2, <2>2 DEF Accumulated, AccumulatorRow
    <2> QED
      BY <2>3, AccumulatesIs
  <1>6. ASSUME NEW o, NEW m, m = Put(s, "A", o)
        PROVE  m.reg["A"] = o.val /\ m.reg[r] = x
    <2>1. WrittenTo(s, "A", o, m)
      BY <1>1, <1>6 DEF WrittenTo
    <2>2. m.reg["A"] = o.val /\ \A y \in Registers \ {"A"} : m.reg[y] = s.reg[y]
      BY <2>1, PutsThere
    <2> QED
      BY <1>2, <1>4, <2>2
  <1>7. ASSUME NEW o, NEW q, NEW m, m = Put(s, "A", o), u = Put(m, "A", q), o.val \in Int, q.val = a
        PROVE  Home(s, u)
    <2>1. PutBack(s, "A", o, q, m, u)
      BY <1>1, <1>3, <1>7 DEF PutBack
    <2> QED
      BY <2>1, PutsBack
  <1>8. ASSUME Trip(<<"op", c, 0>>, <<"op", k, 0>>, s, u) PROVE Home(s, u)
    <2>1. PICK o : o = Add8(a, x, 0)
      OBVIOUS
    <2>2. PICK q : q = Subtract(o.val, x, 0)
      OBVIOUS
    <2>3. PICK m : m = Put(s, "A", o) /\ u = Effect(<<"op", k, 0>>, m)
      BY <1>3, <1>4, <1>5, <1>8, <2>1 DEF Trip
    <2>4. u = Put(m, "A", q)
      <3>1. m.reg["A"] = o.val /\ m.reg[r] = x
        BY <1>6, <2>3
      <3>2. Effect(<<"op", k, 0>>, m) = Put(m, "A", Subtract(m.reg["A"], m.reg[r], 0))
        BY <1>5
      <3> QED
        BY <2>2, <2>3, <3>1, <3>2
    <2>5. o.val \in Int /\ q.val = a
      <3>1. AddAndTake(a, x, o, q)
        BY <2>1, <2>2 DEF AddAndTake
      <3> QED
        BY <3>1, AddTakes
    <2> QED
      BY <1>7, <2>3, <2>4, <2>5
  <1>9. ASSUME Trip(<<"op", j, 0>>, <<"op", j, 0>>, s, u) PROVE Home(s, u)
    <2>1. PICK o : o = Yields(Xor(a, x), {})
      OBVIOUS
    <2>2. PICK q : q = Yields(Xor(o.val, x), {})
      OBVIOUS
    <2>3. PICK m : m = Put(s, "A", o) /\ u = Effect(<<"op", j, 0>>, m)
      BY <1>3, <1>4, <1>5, <1>9, <2>1 DEF Trip
    <2>4. u = Put(m, "A", q)
      <3>1. m.reg["A"] = o.val /\ m.reg[r] = x
        BY <1>6, <2>3
      <3>2. Effect(<<"op", j, 0>>, m) = Put(m, "A", Yields(Xor(m.reg["A"], m.reg[r]), {}))
        BY <1>5
      <3> QED
        BY <2>2, <2>3, <3>1, <3>2
    <2>5. o.val \in Int /\ q.val = a
      <3>1. XorAndXor(a, x, o, q)
        BY <2>1, <2>2 DEF XorAndXor
      <3> QED
        BY <3>1, XorXors
    <2> QED
      BY <1>7, <2>3, <2>4, <2>5
  <1> QED
    BY <1>8, <1>9

\* ADD and SUB with the byte behind the opcode.
LEMMA ImmediatesReturn ==
    ASSUME NEW s, Typed(s.reg), NEW e \in 0 .. 255, NEW u, Trip(<<"op", 198, e>>, <<"op", 214, e>>, s, u)
    PROVE  Home(s, u)
  <1>1. "A" \in Registers /\ "A" \in Cells /\ s.reg \in [Registers -> Int]
    BY DEF Typed, Cells, Registers
  <1>2. PICK a \in 0 .. 255 : a = s.reg["A"]
    BY <1>1 DEF Typed
  <1>3. ASSUME NEW t
        PROVE  /\ Effect(<<"op", 198, e>>, t) = Put(t, "A", Add8(t.reg["A"], e, 0))
               /\ Effect(<<"op", 214, e>>, t) = Put(t, "A", Subtract(t.reg["A"], e, 0))
    <2>1. /\ Effect(<<"op", 198, e>>, t) = AccumulatorPage(t, AccumulatorRow[0 + 1], e)
          /\ Effect(<<"op", 214, e>>, t) = AccumulatorPage(t, AccumulatorRow[2 + 1], e)
      <3>1. Immediate(t, 198, 0, e) /\ Immediate(t, 214, 2, e)
        BY ImmediateIs
      <3> QED
        BY <3>1 DEF Immediate
    <2>2. /\ Effect(<<"op", 198, e>>, t) = AccumulatorPage(t, "ADD", e)
          /\ Effect(<<"op", 214, e>>, t) = AccumulatorPage(t, "SUB", e)
      BY <2>1 DEF AccumulatorRow
    <2> QED
      BY <2>2, AccumulatesIs
  <1>4. PICK o : o = Add8(a, e, 0)
    OBVIOUS
  <1>5. PICK q : q = Subtract(o.val, e, 0)
    OBVIOUS
  <1>6. PICK m : m = Put(s, "A", o) /\ u = Effect(<<"op", 214, e>>, m)
    BY <1>2, <1>3, <1>4 DEF Trip
  <1>7. m.reg["A"] = o.val
    <2>1. WrittenTo(s, "A", o, m)
      BY <1>1, <1>6 DEF WrittenTo
    <2> QED
      BY <2>1, PutsThere
  <1>8. u = Put(m, "A", q)
    BY <1>3, <1>5, <1>6, <1>7
  <1>9. o.val \in Int /\ q.val = a
    <2>1. AddAndTake(a, e, o, q)
      BY <1>4, <1>5 DEF AddAndTake
    <2> QED
      BY <2>1, AddTakes
  <1>10. PutBack(s, "A", o, q, m, u)
    BY <1>1, <1>2, <1>6, <1>8, <1>9 DEF PutBack
  <1> QED
    BY <1>10, PutsBack

\* ADD SP,e and ADD SP,-e.
LEMMA StacksReturn ==
    ASSUME NEW s, Typed(s.reg), NEW e \in 0 .. 255, e # 0, e # 128, NEW f, f = 256 - e, NEW u,
           Trip(<<"op", 232, e>>, <<"op", 232, f>>, s, u)
    PROVE  Home(s, u)
  <1>1. PICK d \in Int : d = IF e > 127 THEN e - 256 ELSE e
    OBVIOUS
  <1>2. (IF f > 127 THEN f - 256 ELSE f) = 0 - d
    BY <1>1
  <1>3. PICK x \in Int : x = Pair(s.reg, 3) /\ 0 <= x /\ x < 65536
    <2>1. PairIsWord(s.reg, 3)
      BY PairsAreWords
    <2> QED
      BY <2>1 DEF PairIsWord
  <1>4. PICK n \in Int : n = x + d
    OBVIOUS
  <1>5. PICK m : m = AddSP(s, 3, e) /\ u = AddSP(m, 3, f)
    BY AddSPIs DEF Trip
  <1>6. m.reg = SetPair(s.reg, 3, n)
    BY <1>1, <1>3, <1>4, <1>5, PairOfSP DEF AddSP
  <1>7. PairWritten(s.reg, 3, n, m.reg)
    BY <1>6 DEF PairWritten
  <1>8. PICK z : z = m.reg["SP"] /\ z = Fit(n)
    BY <1>7, PairHolds, PairOfSP
  <1>9. z \in Int /\ Fit(z - d) = x
    <2>1. Wrapping(x, d, z)
      BY <1>3, <1>4, <1>8 DEF Wrapping
    <2> QED
      BY <2>1, WrapsBack
  <1>10. PICK j \in Int : j = z + (0 - d) /\ Fit(j) = x
    BY <1>9
  <1>11. u.reg = SetPair(m.reg, 3, j)
    BY <1>2, <1>5, <1>8, <1>10 DEF AddSP
  <1>12. SetPair(m.reg, 3, j) = s.reg
    BY <1>3, <1>7, <1>10, PairReturns
  <1> QED
    BY <1>11, <1>12 DEF Home

\* Programs of two instructions.
LEMMA TwoInstructions ==
    ASSUME NEW a, NEW b, NEW s, NEW u
    PROVE  /\ RanAll(Ops(<<a, b>>), s, u) => Trip(<<"op", a, 0>>, <<"op", b, 0>>, s, u)
           /\ RanAll(CBs(<<a, b>>), s, u) => Trip(<<"cb", a, 0>>, <<"cb", b, 0>>, s, u)
           /\ RanAll(<<a, b>>, s, u) => Trip(a, b, s, u)
  <1>1. ASSUME NEW p, NEW i, NEW j, DOMAIN p = 1 .. 2, p[1] = i, p[2] = j, RanAll(p, s, u)
        PROVE  Trip(i, j, s, u)
    BY <1>1, Twice DEF Trip
  <1>2. ASSUME RanAll(Ops(<<a, b>>), s, u) PROVE Trip(<<"op", a, 0>>, <<"op", b, 0>>, s, u)
    <2>1. PICK p : p = Ops(<<a, b>>)
      OBVIOUS
    <2>2. DOMAIN p = 1 .. 2 /\ p[1] = <<"op", a, 0>> /\ p[2] = <<"op", b, 0>> /\ RanAll(p, s, u)
      BY <1>2, <2>1, ProgramsAre
    <2> QED
      BY <1>1, <2>2
  <1>3. ASSUME RanAll(CBs(<<a, b>>), s, u) PROVE Trip(<<"cb", a, 0>>, <<"cb", b, 0>>, s, u)
    <2>1. PICK p : p = CBs(<<a, b>>)
      OBVIOUS
    <2>2. DOMAIN p = 1 .. 2 /\ p[1] = <<"cb", a, 0>> /\ p[2] = <<"cb", b, 0>> /\ RanAll(p, s, u)
      BY <1>3, <2>1, ProgramsAre
    <2> QED
      BY <1>1, <2>2
  <1>4. ASSUME RanAll(<<a, b>>, s, u) PROVE Trip(a, b, s, u)
    <2>1. PICK p : p = <<a, b>>
      OBVIOUS
    <2>2. DOMAIN p = 1 .. 2 /\ p[1] = a /\ p[2] = b /\ RanAll(p, s, u)
      BY <1>4, <2>1
    <2> QED
      BY <1>1, <2>2
  <1> QED
    BY <1>2, <1>3, <1>4

\* The operands of a program hold bytes.
LEMMA OperandsHold ==
    ASSUME NEW s, Typed(s.reg), NEW n \in 0 .. 7
    PROVE  s.reg \in [Registers -> Int] /\ s.reg[Operand[n + 1]] \in 0 .. 255 /\ s.reg["A"] \in 0 .. 255
  <1>1. Operand[n + 1] \in Cells
    BY OperandIs
  <1>2. "A" \in Cells
    BY DEF Cells, Registers
  <1> QED
    BY <1>1, <1>2 DEF Typed

\* The second page: a program of two rotates of operand n.
TurnProgram(x, y, i, j, n, c, k, s, u) ==
    /\ i \in 0 .. 7 /\ j \in 0 .. 7 /\ n \in 0 .. 7 /\ c = 8 * i + n /\ k = 8 * j + n
    /\ x = RotateRow[i + 1] /\ y = RotateRow[j + 1]
    /\ Typed(s.reg) /\ RanAll(CBs(<<c, k>>), s, u)

\* It leads back when the two are inverses.
LEMMA TurnsReturn ==
    ASSUME NEW x, NEW y, NEW i, NEW j, NEW n, NEW c, NEW k, NEW s, NEW u,
           TurnProgram(x, y, i, j, n, c, k, s, u)
    PROVE  /\ <<x, y>> \in Inverses => Home(s, u)
           /\ <<x, y>> \in {<<"RL", "RR">>, <<"RR", "RL">>} => HomeWithCarry(s, u)
  <1>1. Trip(<<"cb", c, 0>>, <<"cb", k, 0>>, s, u)
    BY TwoInstructions, Zenon DEF TurnProgram
  <1>2. s.reg[Operand[n + 1]] \in 0 .. 255
    BY OperandsHold, ZenonT(60) DEF TurnProgram
  <1>3. RotateTrip(i, j, n, c, k, s, u)
    BY <1>1, <1>2 DEF RotateTrip, TurnProgram
  <1>4. x = RotateRow[i + 1] /\ y = RotateRow[j + 1]
    BY DEF TurnProgram
  <1> QED
    BY <1>3, <1>4, RotatesReturn

\* Programs of two rotates of A.
LEMMA ATripsReturn ==
    ASSUME NEW s, Typed(s.reg), NEW u
    PROVE  /\ RanAll(Ops(<<23, 31>>), s, u) => HomeWithCarry(s, u)
           /\ RanAll(Ops(<<31, 23>>), s, u) => HomeWithCarry(s, u)
           /\ RanAll(Ops(<<7, 15>>), s, u) => Home(s, u)
           /\ RanAll(Ops(<<15, 7>>), s, u) => Home(s, u)
  <1>1. s.reg \in [Registers -> Int] /\ s.reg.A \in 0 .. 255
    <2>1. 0 \in 0 .. 7
      OBVIOUS
    <2> QED
      BY <2>1, OperandsHold
  <1>2. ASSUME NEW t
        PROVE  ATurns(7, "RLC", t) /\ ATurns(15, "RRC", t) /\ ATurns(23, "RL", t) /\ ATurns(31, "RR", t)
    BY OnAIs, ZenonT(60) DEF ATurns
  <1>3. ASSUME RanAll(Ops(<<23, 31>>), s, u) PROVE HomeWithCarry(s, u)
    <2>1. ATrip(23, "RL", 31, "RR", s, u)
      BY <1>1, <1>2, <1>3, TwoInstructions DEF ATrip
    <2> QED
      BY <2>1, ATurnsReturn DEF Inverses
  <1>4. ASSUME RanAll(Ops(<<31, 23>>), s, u) PROVE HomeWithCarry(s, u)
    <2>1. ATrip(31, "RR", 23, "RL", s, u)
      BY <1>1, <1>2, <1>4, TwoInstructions DEF ATrip
    <2> QED
      BY <2>1, ATurnsReturn DEF Inverses
  <1>5. ASSUME RanAll(Ops(<<7, 15>>), s, u) PROVE Home(s, u)
    <2>1. ATrip(7, "RLC", 15, "RRC", s, u)
      BY <1>1, <1>2, <1>5, TwoInstructions DEF ATrip
    <2> QED
      BY <2>1, ATurnsReturn DEF Inverses
  <1>6. ASSUME RanAll(Ops(<<15, 7>>), s, u) PROVE Home(s, u)
    <2>1. ATrip(15, "RRC", 7, "RLC", s, u)
      BY <1>1, <1>2, <1>6, TwoInstructions DEF ATrip
    <2> QED
      BY <2>1, ATurnsReturn DEF Inverses
  <1> QED
    BY <1>3, <1>4, <1>5, <1>6, SMTT(30)

\* All ways out and back that restore the carry as well ...
LEMMA ExactReturns ==
    ASSUME NEW s, Typed(s.reg), NEW n \in 0 .. 7, NEW u, NEW p, p \in Exact(n), RanAll(p, s, u)
    PROVE  HomeWithCarry(s, u)
  <1>1. /\ s.reg \in [Registers -> Int] /\ s.reg[Operand[n + 1]] \in 0 .. 255 /\ s.reg.A \in 0 .. 255
    BY OperandsHold
  <1>2. ASSUME p = CBs(<<16 + n, 24 + n>>) PROVE HomeWithCarry(s, u)
    <2>1. PICK c, k : c = 16 + n /\ k = 24 + n /\ RanAll(CBs(<<c, k>>), s, u)
      BY <1>2
    <2>2. c = 8 * 2 + n /\ k = 8 * 3 + n
      BY <2>1
    <2>3. RotateRow[2 + 1] = "RL" /\ RotateRow[3 + 1] = "RR"
      BY DEF RotateRow
    <2>4. TurnProgram("RL", "RR", 2, 3, n, c, k, s, u)
      BY <2>1, <2>2, <2>3 DEF TurnProgram
    <2>5. <<"RL", "RR">> \in Inverses
      BY DEF Inverses
    <2> QED
      BY <2>4, <2>5, TurnsReturn
  <1>3. ASSUME p = CBs(<<24 + n, 16 + n>>) PROVE HomeWithCarry(s, u)
    <2>1. PICK c, k : c = 24 + n /\ k = 16 + n /\ RanAll(CBs(<<c, k>>), s, u)
      BY <1>3
    <2>2. c = 8 * 3 + n /\ k = 8 * 2 + n
      BY <2>1
    <2>3. RotateRow[3 + 1] = "RR" /\ RotateRow[2 + 1] = "RL"
      BY DEF RotateRow
    <2>4. TurnProgram("RR", "RL", 3, 2, n, c, k, s, u)
      BY <2>1, <2>2, <2>3 DEF TurnProgram
    <2>5. <<"RR", "RL">> \in Inverses
      BY SMTT(30) DEF Inverses
    <2> QED
      BY <2>4, <2>5, TurnsReturn
  <1>4. ASSUME p = Ops(<<4 + 8 * n, 5 + 8 * n>>) PROVE HomeWithCarry(s, u)
    <2>1. PICK c, k : c = 4 + 8 * n /\ k = 5 + 8 * n /\ RanAll(Ops(<<c, k>>), s, u)
      BY <1>4
    <2>2. Trip(<<"op", c, 0>>, <<"op", k, 0>>, s, u)
      BY <2>1, TwoInstructions, Zenon
    <2> QED
      BY <1>1, <2>1, <2>2, CountsReturn, Zenon
  <1>5. ASSUME p = Ops(<<5 + 8 * n, 4 + 8 * n>>) PROVE HomeWithCarry(s, u)
    <2>1. PICK c, k : c = 5 + 8 * n /\ k = 4 + 8 * n /\ RanAll(Ops(<<c, k>>), s, u)
      BY <1>5
    <2>2. Trip(<<"op", c, 0>>, <<"op", k, 0>>, s, u)
      BY <2>1, TwoInstructions
    <2> QED
      BY <1>1, <2>1, <2>2, CountsReturn, Zenon
  <1>6. ASSUME p = Ops(<<23, 31>>) \/ p = Ops(<<31, 23>>) PROVE HomeWithCarry(s, u)
    BY <1>6, ATripsReturn
  <1>7. ASSUME p = Ops(<<47, 47>>) \/ p = Ops(<<63, 63>>) PROVE HomeWithCarry(s, u)
    <2>1. CASE p = Ops(<<47, 47>>)
      <3>1. Trip(<<"op", 47, 0>>, <<"op", 47, 0>>, s, u)
        BY <2>1, TwoInstructions
      <3> QED
        BY <1>1, <3>1, ComplementsReturn
    <2>2. CASE p = Ops(<<63, 63>>)
      <3>1. Trip(<<"op", 63, 0>>, <<"op", 63, 0>>, s, u)
        BY <2>2, TwoInstructions
      <3> QED
        BY <1>1, <3>1, ComplementsReturn
    <2> QED
      BY <1>7, <2>1, <2>2
  <1>8. ASSUME NEW q \in 0 .. 3, p = Ops(<<16 * q + 3, 16 * q + 11>>) PROVE HomeWithCarry(s, u)
    <2>1. PICK c, k : c = 16 * q + 3 /\ k = 16 * q + 11 /\ RanAll(Ops(<<c, k>>), s, u)
      BY <1>8
    <2>2. Trip(<<"op", c, 0>>, <<"op", k, 0>>, s, u)
      BY <2>1, TwoInstructions
    <2> QED
      BY <2>1, <2>2, PairsReturn
  <1>9. \/ p = CBs(<<16 + n, 24 + n>>) \/ p = CBs(<<24 + n, 16 + n>>)
        \/ p = Ops(<<4 + 8 * n, 5 + 8 * n>>) \/ p = Ops(<<5 + 8 * n, 4 + 8 * n>>)
        \/ p = Ops(<<23, 31>>) \/ p = Ops(<<31, 23>>) \/ p = Ops(<<47, 47>>) \/ p = Ops(<<63, 63>>)
        \/ \E q \in 0 .. 3 : p = Ops(<<16 * q + 3, 16 * q + 11>>)
    BY Zenon DEF Exact
  <1> QED
    BY <1>2, <1>3, <1>4, <1>5, <1>6, <1>7, <1>8, <1>9

\* ... and those that leave a carry of their own.
LEMMA LooseReturns ==
    ASSUME NEW s, Typed(s.reg), NEW n \in 0 .. 7, NEW u, NEW p, p \in Loose(n), RanAll(p, s, u)
    PROVE  Home(s, u)
  <1>1. ASSUME p = CBs(<<n, 8 + n>>) PROVE Home(s, u)
    <2>1. PICK c, k : c = n /\ k = 8 + n /\ RanAll(CBs(<<c, k>>), s, u)
      BY <1>1
    <2>2. c = 8 * 0 + n /\ k = 8 * 1 + n
      BY <2>1
    <2>3. RotateRow[0 + 1] = "RLC" /\ RotateRow[1 + 1] = "RRC"
      BY DEF RotateRow
    <2>4. TurnProgram("RLC", "RRC", 0, 1, n, c, k, s, u)
      BY <2>1, <2>2, <2>3 DEF TurnProgram
    <2>5. <<"RLC", "RRC">> \in Inverses
      BY DEF Inverses
    <2> QED
      BY <2>4, <2>5, TurnsReturn
  <1>2. ASSUME p = CBs(<<8 + n, n>>) PROVE Home(s, u)
    <2>1. PICK c, k : c = 8 + n /\ k = n /\ RanAll(CBs(<<c, k>>), s, u)
      BY <1>2
    <2>2. c = 8 * 1 + n /\ k = 8 * 0 + n
      BY <2>1
    <2>3. RotateRow[1 + 1] = "RRC" /\ RotateRow[0 + 1] = "RLC"
      BY DEF RotateRow
    <2>4. TurnProgram("RRC", "RLC", 1, 0, n, c, k, s, u)
      BY <2>1, <2>2, <2>3 DEF TurnProgram
    <2>5. <<"RRC", "RLC">> \in Inverses
      BY DEF Inverses
    <2> QED
      BY <2>4, <2>5, TurnsReturn
  <1>3. ASSUME p = CBs(<<32 + n, 24 + n>>) PROVE Home(s, u)
    <2>1. PICK c, k : c = 32 + n /\ k = 24 + n /\ RanAll(CBs(<<c, k>>), s, u)
      BY <1>3
    <2>2. c = 8 * 4 + n /\ k = 8 * 3 + n
      BY <2>1
    <2>3. RotateRow[4 + 1] = "SLA" /\ RotateRow[3 + 1] = "RR"
      BY DEF RotateRow
    <2>4. TurnProgram("SLA", "RR", 4, 3, n, c, k, s, u)
      BY <2>1, <2>2, <2>3 DEF TurnProgram
    <2>5. <<"SLA", "RR">> \in Inverses
      BY DEF Inverses
    <2> QED
      BY <2>4, <2>5, TurnsReturn
  <1>4. ASSUME p = CBs(<<40 + n, 16 + n>>) PROVE Home(s, u)
    <2>1. PICK c, k : c = 40 + n /\ k = 16 + n /\ RanAll(CBs(<<c, k>>), s, u)
      BY <1>4
    <2>2. c = 8 * 5 + n /\ k = 8 * 2 + n
      BY <2>1
    <2>3. RotateRow[5 + 1] = "SRA" /\ RotateRow[2 + 1] = "RL"
      BY DEF RotateRow
    <2>4. TurnProgram("SRA", "RL", 5, 2, n, c, k, s, u)
      BY <2>1, <2>2, <2>3 DEF TurnProgram
    <2>5. <<"SRA", "RL">> \in Inverses
      BY DEF Inverses
    <2> QED
      BY <2>4, <2>5, TurnsReturn
  <1>5. ASSUME p = CBs(<<56 + n, 16 + n>>) PROVE Home(s, u)
    <2>1. PICK c, k : c = 56 + n /\ k = 16 + n /\ RanAll(CBs(<<c, k>>), s, u)
      BY <1>5
    <2>2. c = 8 * 7 + n /\ k = 8 * 2 + n
      BY <2>1
    <2>3. RotateRow[7 + 1] = "SRL" /\ RotateRow[2 + 1] = "RL"
      BY DEF RotateRow
    <2>4. TurnProgram("SRL", "RL", 7, 2, n, c, k, s, u)
      BY <2>1, <2>2, <2>3 DEF TurnProgram
    <2>5. <<"SRL", "RL">> \in Inverses
      BY DEF Inverses
    <2> QED
      BY <2>4, <2>5, TurnsReturn
  <1>6. ASSUME p = CBs(<<48 + n, 48 + n>>) PROVE Home(s, u)
    <2>1. PICK c, k : c = 48 + n /\ k = 48 + n /\ RanAll(CBs(<<c, k>>), s, u)
      BY <1>6
    <2>2. c = 8 * 6 + n /\ k = 8 * 6 + n
      BY <2>1
    <2>3. RotateRow[6 + 1] = "SWAP" /\ RotateRow[6 + 1] = "SWAP"
      BY DEF RotateRow
    <2>4. TurnProgram("SWAP", "SWAP", 6, 6, n, c, k, s, u)
      BY <2>1, <2>2, <2>3 DEF TurnProgram
    <2>5. <<"SWAP", "SWAP">> \in Inverses
      BY DEF Inverses
    <2> QED
      BY <2>4, <2>5, TurnsReturn
  <1>7. ASSUME p = Ops(<<7, 15>>) \/ p = Ops(<<15, 7>>) PROVE Home(s, u)
    BY <1>7, ATripsReturn
  <1>8. ASSUME n # 7, p = Ops(<<128 + n, 144 + n>>) \/ p = Ops(<<168 + n, 168 + n>>) PROVE Home(s, u)
    <2>1. PICK c, k, j : c = 128 + n /\ k = 144 + n /\ j = 168 + n
      OBVIOUS
    <2>2. p = Ops(<<c, k>>) \/ p = Ops(<<j, j>>)
      BY <1>8, <2>1
    <2>3. CASE p = Ops(<<c, k>>)
      <3>1. Trip(<<"op", c, 0>>, <<"op", k, 0>>, s, u)
        BY <2>3, TwoInstructions
      <3> QED
        BY <1>8, <2>1, <3>1, AccumulatesReturn, ZenonT(60)
    <2>4. CASE p = Ops(<<j, j>>)
      <3>1. Trip(<<"op", j, 0>>, <<"op", j, 0>>, s, u)
        BY <2>4, TwoInstructions
      <3> QED
        BY <1>8, <2>1, <3>1, AccumulatesReturn, ZenonT(60)
    <2> QED
      BY <2>2, <2>3, <2>4
  <1>9. ASSUME NEW e \in Sample \ {0, 128}, p = <<<<"op", 232, e>>, <<"op", 232, 256 - e>>>> PROVE Home(s, u)
    <2>1. e \in 0 .. 255 /\ e # 0 /\ e # 128
      BY SampleAssumption
    <2>2. PICK f : f = 256 - e
      OBVIOUS
    <2>3. Trip(<<"op", 232, e>>, <<"op", 232, f>>, s, u)
      <3>1. RanAll(<<<<"op", 232, e>>, <<"op", 232, f>>>>, s, u)
        BY <1>9, <2>2
      <3> QED
        BY <3>1, TwoInstructions, ZenonT(60)
    <2> QED
      BY <2>1, <2>2, <2>3, StacksReturn, ZenonT(60)
  <1>10. ASSUME NEW e \in Sample, p = <<<<"op", 198, e>>, <<"op", 214, e>>>> PROVE Home(s, u)
    <2>1. e \in 0 .. 255
      BY SampleAssumption
    <2>2. Trip(<<"op", 198, e>>, <<"op", 214, e>>, s, u)
      BY <1>10, TwoInstructions, ZenonT(60)
    <2> QED
      BY <2>1, <2>2, ImmediatesReturn
  <1>11. \/ p = CBs(<<n, 8 + n>>) \/ p = CBs(<<8 + n, n>>) \/ p = CBs(<<32 + n, 24 + n>>)
         \/ p = CBs(<<40 + n, 16 + n>>) \/ p = CBs(<<56 + n, 16 + n>>) \/ p = CBs(<<48 + n, 48 + n>>)
         \/ p = Ops(<<7, 15>>) \/ p = Ops(<<15, 7>>)
         \/ n # 7 /\ (p = Ops(<<128 + n, 144 + n>>) \/ p = Ops(<<168 + n, 168 + n>>))
         \/ \E e \in Sample \ {0, 128} : p = <<<<"op", 232, e>>, <<"op", 232, 256 - e>>>>
         \/ \E e \in Sample : p = <<<<"op", 198, e>>, <<"op", 214, e>>>>
    BY ZenonT(60) DEF Loose
  <1> QED
    BY <1>1, <1>2, <1>3, <1>4, <1>5, <1>6, <1>7, <1>8, <1>9, <1>10, <1>11

\* Where the ways out and back begin.
LEMMA TripsBegin ==
    ASSUME NEW p, NEW s, NEW z, FromTrip(p, s, z)
    PROVE  \E n \in 0 .. 7 : Typed(s.reg) /\ ((z = "exact" /\ p \in Exact(n)) \/ (z = "loose" /\ p \in Loose(n)))
  <1>1. PICK n \in 0 .. 7, x \in Sample, y \in Sample, f \in SUBSET {"C"} :
           LET reg == [Rest EXCEPT !.A = x, !.SP = 256 * x + y, ![Operand[n + 1]] = y]
           IN  \/ Origin(s, z, "exact", reg, f) /\ p \in Exact(n)
               \/ Origin(s, z, "loose", reg, f) /\ p \in Loose(n)
    BY Zenon DEF FromTrip
  <1>2. PICK reg : reg = [Rest EXCEPT !.A = x, !.SP = 256 * x + y, ![Operand[n + 1]] = y]
    OBVIOUS
  <1>3. \/ Origin(s, z, "exact", reg, f) /\ p \in Exact(n)
        \/ Origin(s, z, "loose", reg, f) /\ p \in Loose(n)
    BY <1>1, <1>2
  <1>4. s.reg = reg /\ ((z = "exact" /\ p \in Exact(n)) \/ (z = "loose" /\ p \in Loose(n)))
    BY <1>3, <1>2 DEF Origin
  <1>5. Typed(reg)
    <2>1. x \in 0 .. 255 /\ y \in 0 .. 255
      BY SampleAssumption
    <2>2. PICK v \in Int : v = 256 * x + y /\ 0 <= v /\ v < 65536
      BY <2>1
    <2>3. Operand[n + 1] \in Cells /\ "A" \in Registers /\ "SP" \in Registers
      BY OperandIs DEF Registers
    <2>4. Typed(Rest)
      BY RestIs
    <2>5. reg = [Rest EXCEPT !.A = x, !.SP = v, ![Operand[n + 1]] = y]
      BY <1>2, <2>2
    <2>6. /\ "SP" \notin Cells /\ "A" # "SP" /\ Operand[n + 1] # "SP" /\ Operand[n + 1] \in Registers
          /\ Rest \in [Registers -> Int]
      BY <2>3, <2>4 DEF Cells, Typed
    <2>7. /\ reg \in [Registers -> Int] /\ reg["SP"] = v
      <3>1. PICK o, one, two : o = Operand[n + 1] /\ one = [Rest EXCEPT !.A = x] /\ two = [one EXCEPT !.SP = v]
        OBVIOUS
      <3>2. one \in [Registers -> Int]
        BY <2>1, <2>3, <2>6, <3>1
      <3>3. two \in [Registers -> Int] /\ two["SP"] = v
        <4>1. v \in Int
          BY <2>2
        <4>2. two = [one EXCEPT !.SP = v]
          BY <3>1
        <4> QED
          BY <2>3, <3>2, <4>1, <4>2
      <3>4. reg = [two EXCEPT ![o] = y] /\ o \in Registers /\ o # "SP" /\ y \in Int
        BY <2>1, <2>5, <2>6, <3>1
      <3> QED
        BY <3>3, <3>4
    <2>8. ASSUME NEW r \in Cells PROVE reg[r] \in 0 .. 255
      <3>1. r \in Registers /\ r # "SP" /\ Rest[r] \in 0 .. 255
        BY <2>4, <2>6 DEF Cells, Typed
      <3>2. reg[r] = y \/ reg[r] = x \/ reg[r] = Rest[r]
        BY <2>3, <2>5, <2>6, <3>1, Zenon
      <3> QED
        BY <2>1, <3>1, <3>2
    <2> QED
      BY <2>2, <2>7, <2>8 DEF Typed
  <1> QED
    BY <1>4, <1>5

\* SET and RES of one bit of operand n.
BitMoved(op, s, b, n, m) ==
    LET r == Operand[n + 1]
    IN  m = Put(s, r, OneBit(op, s.reg[r], b, s.flag))

\* The codes of BIT, RES and SET.
LEMMA BitsAre ==
    ASSUME NEW s, NEW b \in 0 .. 7, NEW n \in 0 .. 7, NEW j, NEW k, NEW l,
           j = 64 + 8 * b + n, k = 128 + 8 * b + n, l = 192 + 8 * b + n
    PROVE  /\ BitMoved("BIT", s, b, n, Effect(<<"cb", j, 0>>, s))
           /\ BitMoved("RES", s, b, n, Effect(<<"cb", k, 0>>, s))
           /\ BitMoved("SET", s, b, n, Effect(<<"cb", l, 0>>, s))
  BY BitIs, ZenonT(60) DEF BitMoved

\* BIT leaves the byte, puts the complement of the bit in Z and keeps the carry.
Asking(d, b, f) ==
    OneBit("BIT", d, b, f) = [val |-> d, flag |-> When(Bit(d, b) = 0, "Z") \cup {"H"} \cup Kept(f, "C")]

\* For every byte and bit.
LEMMA AskingIs == \A d, b, f : Asking(d, b, f)
  BY DEF Asking, OneBit

\* RES and SET move the byte by the place of the bit, or not at all.
LEMMA OneBitIs ==
    ASSUME NEW d, NEW b, NEW f
    PROVE  /\ OneBit("RES", d, b, f) = [val |-> d - 2^b * Bit(d, b), flag |-> f]
           /\ OneBit("SET", d, b, f) = [val |-> d + 2^b * (1 - Bit(d, b)), flag |-> f]
  BY DEF OneBit

\* What is found of a bit that was set or reset.
Answered(z, s, u, r, b) ==
    /\ "C" \in u.flag <=> "C" \in s.flag
    /\ u.reg = [s.reg EXCEPT ![r] = WithBit(@, b, IF z = "set" THEN 1 ELSE 0)]
    /\ "Z" \in u.flag <=> z = "reset"

\* A bit moved and asked for: register r goes from d to v, which has that bit moved.
MovedAndAsked(z, s, r, d, v, b, o, q, m, u) ==
    /\ z \in {"set", "reset"} /\ b \in 0 .. 7
    /\ s.reg \in [Registers -> Int] /\ r \in Registers /\ d = s.reg[r] /\ v \in Int
    /\ o = [val |-> v, flag |-> s.flag] /\ m = Put(s, r, o)
    /\ q = [val |-> v, flag |-> When(Bit(v, b) = 0, "Z") \cup {"H"} \cup Kept(s.flag, "C")] /\ u = Put(m, r, q)
    /\ z = "set" => Bit(v, b) = 1 /\ v = WithBit(d, b, 1)
    /\ z = "reset" => Bit(v, b) = 0 /\ v = WithBit(d, b, 0)

\* Then nothing else has moved, and the answer is right.
LEMMA BitAnswers ==
    ASSUME NEW z, NEW s, NEW r, NEW d, NEW v, NEW b, NEW o, NEW q, NEW m, NEW u,
           MovedAndAsked(z, s, r, d, v, b, o, q, m, u)
    PROVE  Answered(z, s, u, r, b)
  <1>1. m.reg = [s.reg EXCEPT ![r] = v] /\ u.reg = [m.reg EXCEPT ![r] = v] /\ u.flag = q.flag
    BY DEF MovedAndAsked, Put
  <1>2. u.reg = [s.reg EXCEPT ![r] = v]
    BY <1>1, ZenonT(60) DEF MovedAndAsked
  <1>3. ("C" \in u.flag <=> "C" \in s.flag) /\ ("Z" \in u.flag <=> Bit(v, b) = 0)
    BY <1>1 DEF MovedAndAsked, When, Kept
  <1>4. d = s.reg[r] /\ v = WithBit(s.reg[r], b, IF z = "set" THEN 1 ELSE 0)
    BY DEF MovedAndAsked
  <1>5. Bit(v, b) = 0 <=> z = "reset"
    BY DEF MovedAndAsked
  <1>6. u.reg = [s.reg EXCEPT ![r] = WithBit(@, b, IF z = "set" THEN 1 ELSE 0)]
    BY <1>2, <1>4, Zenon
  <1> QED
    BY <1>3, <1>5, <1>6 DEF Answered

\* The programs that set and that reset a bit.
LEMMA BitsAnswer ==
    ASSUME NEW s, Typed(s.reg), NEW n \in 0 .. 7, NEW b \in 0 .. 7, NEW u
    PROVE  /\ RanAll(SetAndAsk(n, b), s, u) => Answered("set", s, u, Operand[n + 1], b)
           /\ RanAll(ResAndAsk(n, b), s, u) => Answered("reset", s, u, Operand[n + 1], b)
  <1>1. PICK j, k, l : j = 64 + 8 * b + n /\ k = 128 + 8 * b + n /\ l = 192 + 8 * b + n
    OBVIOUS
  <1>2. PICK r, d : r = Operand[n + 1] /\ d = s.reg[r] /\ r \in Registers /\ d \in 0 .. 255
    <2>1. Operand[n + 1] \in Cells
      BY OperandIs
    <2> QED
      BY <2>1, OperandsHold DEF Cells
  <1>3. s.reg \in [Registers -> Int]
    BY DEF Typed
  <1>4. /\ 2^b \in Nat
        /\ Bit(d + 2^b * (1 - Bit(d, b)), b) = 1
        /\ Bit(d - 2^b * Bit(d, b), b) = 0
        /\ Bit(d, b) \in {0, 1}
        /\ d + 2^b * (1 - Bit(d, b)) = WithBit(d, b, 1)
        /\ d - 2^b * Bit(d, b) = WithBit(d, b, 0)
    <2>1. 2^b \in Nat
      BY Places
    <2> QED
      BY <1>2, <2>1, BitChanges, OneBitMoves
  <1>5. ASSUME RanAll(SetAndAsk(n, b), s, u) PROVE Answered("set", s, u, Operand[n + 1], b)
    <2>1. Trip(<<"cb", l, 0>>, <<"cb", j, 0>>, s, u)
      BY <1>1, <1>5, TwoInstructions, ZenonT(60) DEF SetAndAsk
    <2>2. PICK v : v = d + 2^b * (1 - Bit(d, b))
      OBVIOUS
    <2>3. v \in Int /\ Bit(v, b) = 1 /\ v = WithBit(d, b, 1)
      BY <1>2, <1>4, <2>2
    <2>4. PICK o, m : o = [val |-> v, flag |-> s.flag] /\ m = Put(s, r, o)
      OBVIOUS
    <2>5. m = Effect(<<"cb", l, 0>>, s)
      <3>1. BitMoved("SET", s, b, n, Effect(<<"cb", l, 0>>, s))
        BY <1>1, BitsAre, ZenonT(60)
      <3>2. Effect(<<"cb", l, 0>>, s) = Put(s, r, OneBit("SET", d, b, s.flag))
        BY <1>2, <3>1 DEF BitMoved
      <3>3. OneBit("SET", d, b, s.flag) = o
        BY <2>2, <2>4, OneBitIs
      <3> QED
        BY <2>4, <3>2, <3>3
    <2>6. m.reg[r] = v /\ m.flag = s.flag
      BY <1>2, <1>3, <2>4 DEF Put
    <2>7. PICK q : q = [val |-> v, flag |-> When(Bit(v, b) = 0, "Z") \cup {"H"} \cup Kept(s.flag, "C")]
      OBVIOUS
    <2>8. u = Put(m, r, q)
      <3>1. u = Effect(<<"cb", j, 0>>, m)
        BY <2>1, <2>5 DEF Trip
      <3>2. BitMoved("BIT", m, b, n, Effect(<<"cb", j, 0>>, m))
        BY <1>1, BitsAre
      <3>3. u = Put(m, r, OneBit("BIT", v, b, s.flag))
        BY <1>2, <2>6, <3>1, <3>2 DEF BitMoved
      <3>4. OneBit("BIT", v, b, s.flag) = q
        <4>1. Asking(v, b, s.flag)
          BY AskingIs
        <4> QED
          BY <2>7, <4>1 DEF Asking
      <3> QED
        BY <3>3, <3>4
    <2>9. MovedAndAsked("set", s, r, d, v, b, o, q, m, u)
      BY <1>2, <1>3, <2>3, <2>4, <2>7, <2>8 DEF MovedAndAsked
    <2> QED
      BY <1>2, <2>9, BitAnswers
  <1>6. ASSUME RanAll(ResAndAsk(n, b), s, u) PROVE Answered("reset", s, u, Operand[n + 1], b)
    <2>1. Trip(<<"cb", k, 0>>, <<"cb", j, 0>>, s, u)
      BY <1>1, <1>6, TwoInstructions, ZenonT(60) DEF ResAndAsk
    <2>2. PICK v : v = d - 2^b * Bit(d, b)
      OBVIOUS
    <2>3. v \in Int /\ Bit(v, b) = 0 /\ v = WithBit(d, b, 0)
      BY <1>2, <1>4, <2>2
    <2>4. PICK o, m : o = [val |-> v, flag |-> s.flag] /\ m = Put(s, r, o)
      OBVIOUS
    <2>5. m = Effect(<<"cb", k, 0>>, s)
      <3>1. BitMoved("RES", s, b, n, Effect(<<"cb", k, 0>>, s))
        BY <1>1, BitsAre
      <3>2. Effect(<<"cb", k, 0>>, s) = Put(s, r, OneBit("RES", d, b, s.flag))
        BY <1>2, <3>1 DEF BitMoved
      <3>3. OneBit("RES", d, b, s.flag) = o
        BY <2>2, <2>4, OneBitIs
      <3> QED
        BY <2>4, <3>2, <3>3
    <2>6. m.reg[r] = v /\ m.flag = s.flag
      BY <1>2, <1>3, <2>4 DEF Put
    <2>7. PICK q : q = [val |-> v, flag |-> When(Bit(v, b) = 0, "Z") \cup {"H"} \cup Kept(s.flag, "C")]
      OBVIOUS
    <2>8. u = Put(m, r, q)
      <3>1. u = Effect(<<"cb", j, 0>>, m)
        BY <2>1, <2>5 DEF Trip
      <3>2. BitMoved("BIT", m, b, n, Effect(<<"cb", j, 0>>, m))
        BY <1>1, BitsAre
      <3>3. u = Put(m, r, OneBit("BIT", v, b, s.flag))
        BY <1>2, <2>6, <3>1, <3>2 DEF BitMoved
      <3>4. OneBit("BIT", v, b, s.flag) = q
        <4>1. Asking(v, b, s.flag)
          BY AskingIs
        <4> QED
          BY <2>7, <4>1 DEF Asking
      <3> QED
        BY <3>3, <3>4
    <2>9. MovedAndAsked("reset", s, r, d, v, b, o, q, m, u)
      BY <1>2, <1>3, <2>3, <2>4, <2>7, <2>8 DEF MovedAndAsked
    <2> QED
      BY <1>2, <2>9, BitAnswers
  <1> QED
    BY <1>5, <1>6

\* The columns are those of the operands.
LEMMA ColumnsAre ==
    \A r \in DOMAIN Column : r \in Cells /\ Column[r] \in 0 .. 7 /\ Operand[Column[r] + 1] = r
  BY DEF Column, Operand, Cells, Registers

\* Where those programs begin, and what they are meant for.
LEMMA BitsBegin ==
    ASSUME NEW p, NEW s, NEW z, NEW g, FromBit(p, s, z, g)
    PROVE  \E n \in 0 .. 7 : \E b \in 0 .. 7 :
              /\ Typed(s.reg) /\ g.reg = Operand[n + 1] /\ g.bit = b
              /\ (z = "set" /\ p = SetAndAsk(n, b)) \/ (z = "reset" /\ p = ResAndAsk(n, b))
  <1>1. PICK r \in DOMAIN Column, b \in 0 .. 7, y \in Sample, f \in SUBSET {"C"} :
           LET reg == [Rest EXCEPT ![r] = y]
           IN  /\ g = [reg |-> r, bit |-> b]
               /\ \/ Origin(s, z, "set", reg, f) /\ p = SetAndAsk(Column[r], b)
                  \/ Origin(s, z, "reset", reg, f) /\ p = ResAndAsk(Column[r], b)
    BY Zenon DEF FromBit
  <1>2. PICK reg : reg = [Rest EXCEPT ![r] = y]
    OBVIOUS
  <1>3. PICK n \in 0 .. 7 : n = Column[r] /\ r = Operand[n + 1] /\ r \in Cells
    BY ColumnsAre
  <1>4. /\ g.reg = Operand[n + 1] /\ g.bit = b
        /\ \/ Origin(s, z, "set", reg, f) /\ p = SetAndAsk(n, b)
           \/ Origin(s, z, "reset", reg, f) /\ p = ResAndAsk(n, b)
    BY <1>1, <1>2, <1>3
  <1>5. s.reg = reg /\ ((z = "set" /\ p = SetAndAsk(n, b)) \/ (z = "reset" /\ p = ResAndAsk(n, b)))
    <2>1. ASSUME NEW t, Origin(s, z, t, reg, f) PROVE s.reg = reg /\ z = t
      BY <2>1 DEF Origin
    <2> QED
      BY <1>4, <2>1
  <1>6. Typed(reg)
    <2>1. y \in 0 .. 255
      BY SampleAssumption
    <2>2. r \in Cells /\ Typed(Rest)
      BY <1>3, RestIs
    <2> QED
      BY <1>2, <2>1, <2>2 DEF Typed, Cells
  <1> QED
    BY <1>4, <1>5, <1>6

\* Every way out and back ends where it began, and every bit is found as it was left.
LEMMA TripRuns ==
    ASSUME NEW p, Program(p, start, task, aim), RanAll(p, start, alu)
    PROVE  TripsReturn
  <1>1. ASSUME task \in {"exact", "loose"}
        PROVE  /\ alu.reg = start.reg
               /\ task = "exact" => (Carries <=> "C" \in start.flag)
    <2>1. FromTrip(p, start, task)
      BY <1>1, TasksAre
    <2>2. PICK n \in 0 .. 7 : /\ Typed(start.reg)
                              /\ (task = "exact" /\ p \in Exact(n)) \/ (task = "loose" /\ p \in Loose(n))
      BY <2>1, TripsBegin
    <2>3. CASE task = "exact" /\ p \in Exact(n)
      <3>1. HomeWithCarry(start, alu)
        BY <2>2, <2>3, ExactReturns
      <3> QED
        BY <3>1 DEF HomeWithCarry, Carry, Carries
    <2>4. CASE task = "loose" /\ p \in Loose(n)
      <3>1. Home(start, alu)
        BY <2>2, <2>4, LooseReturns
      <3> QED
        BY <2>4, <3>1 DEF Home
    <2> QED
      BY <2>2, <2>3, <2>4
  <1>2. ASSUME task \in {"set", "reset"} PROVE Answered(task, start, alu, aim.reg, aim.bit)
    <2>1. FromBit(p, start, task, aim)
      BY <1>2, TasksAre
    <2>2. PICK n \in 0 .. 7, b \in 0 .. 7 :
             /\ Typed(start.reg) /\ aim.reg = Operand[n + 1] /\ aim.bit = b
             /\ (task = "set" /\ p = SetAndAsk(n, b)) \/ (task = "reset" /\ p = ResAndAsk(n, b))
      BY <2>1, BitsBegin
    <2> QED
      BY <2>2, BitsAnswer
  <1>3. task \in {"exact", "loose"} => alu.reg = start.reg
    BY <1>1
  <1>4. task \in {"exact", "set", "reset"} => (Carries <=> "C" \in start.flag)
    BY <1>1, <1>2 DEF Answered, Carries
  <1>5. task \in {"set", "reset"} =>
           /\ alu.reg = [start.reg EXCEPT ![aim.reg] = WithBit(@, aim.bit, IF task = "set" THEN 1 ELSE 0)]
           /\ ("Z" \in alu.flag <=> task = "reset")
    BY <1>2 DEF Answered
  <1> QED
    BY <1>3, <1>4, <1>5 DEF TripsReturn

\* An instruction and its inverse leave the whole register file as it was, for
\* every operand and every byte; where the carry passes through it is restored,
\* too. SET and RES change the bit they are meant for, of the register they are
\* meant for, and nothing else in the register file, and BIT finds it so.
THEOREM TripsRight == ALUSpec => []TripsReturn
  <1>1. ALUInv => TripsReturn
    <2>1. ASSUME ALUInv, Done PROVE TripsReturn
      BY <2>1, Finished, TripRuns
    <2> QED
      BY <2>1 DEF TripsReturn
  <1> QED
    BY <1>1, ALUInductive, PTL
=============================================================================
