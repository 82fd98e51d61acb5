-------------------------- MODULE Frontend_proofs --------------------------
(***************************************************************************)
(* Proofs about the two sides of the machine that face the world: the      *)
(* serial line, for bytes of every width; the pace of the SDL loop, for    *)
(* words of every width, frames of every length and whatever time its      *)
(* steps take; the loop of the libretro frontend, for chunks, frames and   *)
(* batches of every size.                                                  *)
(***************************************************************************)
EXTENDS Serial, Pacing, LRConnector, TLAPS

\* Division with remainder.
LEMMA Division ==
    ASSUME NEW a \in Nat, NEW d \in Nat \ {0}
    PROVE  /\ a \div d \in Nat /\ a % d \in 0 .. d - 1
           /\ a = (d * (a \div d)) + (a % d)
  OBVIOUS

LEMMA Rests ==
    ASSUME NEW a \in Nat, NEW d \in Nat \ {0}
    PROVE  a \div d \in Nat /\ a % d \in 0 .. d - 1
  OBVIOUS

\* A number below the modulus is its own remainder.
LEMMA Small == ASSUME NEW d \in Nat \ {0}, NEW a \in 0 .. d - 1 PROVE a % d = a
  OBVIOUS

\* Of two products, the larger one has the larger factor.
LEMMA Factors ==
    ASSUME NEW d \in Nat \ {0}, NEW x \in Int, NEW y \in Int, d * x < d * y
    PROVE  x < y
  OBVIOUS

\* A quotient grows by no more than that of what is added, and one.
LEMMA Quotients ==
    ASSUME NEW a \in Nat, NEW n \in Nat, NEW d \in Nat \ {0}
    PROVE  (a + n) \div d <= a \div d + n \div d + 1
  <1> DEFINE q == (a + n) \div d
             p == a \div d
             r == n \div d
  <1>1. q \in Nat /\ p \in Nat /\ r \in Nat
    BY Division
  <1>2. d * q <= a + n
    BY Division, a + n \in Nat
  <1>3. a < d * p + d /\ n < d * r + d
    BY Division
  <1> HIDE DEF q, p, r
  <1>4. d * (p + r + 2) = d * p + d * r + d + d /\ d * p \in Nat /\ d * r \in Nat /\ d * q \in Nat
    BY <1>1
  <1>5. d * q < d * (p + r + 2)
    BY <1>2, <1>3, <1>4
  <1>6. q < p + r + 2
    BY <1>1, <1>5, Factors
  <1>7. q <= p + r + 1
    BY <1>1, <1>6
  <1> QED
    BY <1>7 DEF q, p, r-----------------------------------------------------------------------------
(* The serial line *)

\* The bits that are not left to send are those that were sent.
LEMMA Complement == \A b \in 0 .. Width : Width - (Width - b) = b
  BY WidthAssumption

\* A shifted byte is a byte.
LEMMA ShiftedType ==
    ASSUME NEW byte \in Bytes, NEW bit \in BOOLEAN
    PROVE  Shifted(byte, bit) \in Bytes
  <1>1. \A i \in Place : (IF i = Width THEN bit ELSE byte[i + 1]) \in BOOLEAN
    BY WidthAssumption DEF Bytes, Place
  <1> QED
    BY <1>1, Zenon DEF Shifted, Bytes

\* What the bit that is sent leaves at the receiver.
LEMMA AddType ==
    ASSUME TypeOK, Add(sb[1])
    PROVE  buf' \in Bytes /\ count' \in 0 .. Width - 1 /\ printed' \in Bytes
  <1>1. sb[1] \in BOOLEAN
    BY WidthAssumption DEF TypeOK, Bytes, Place
  <1>2. buf' \in Bytes
    BY <1>1, ShiftedType DEF TypeOK, Add
  <1>3. count' \in 0 .. Width - 1
    BY WidthAssumption DEF TypeOK, Add
  <1> QED
    BY <1>2, <1>3 DEF TypeOK, Add

\* Type correctness.
THEOREM TypeCorrect == Spec => []TypeOK
  <1>1. Init => TypeOK
    <2>1. Zeros \in Bytes
      BY Zenon DEF Zeros, Bytes
    <2>2. 0 \in 0 .. Width /\ 0 \in 0 .. Width - 1
      BY WidthAssumption
    <2> QED
      BY <2>1, <2>2, Zenon DEF Init, TypeOK
  <1>2. TypeOK /\ [Next]_vars => TypeOK'
    <2> SUFFICES ASSUME TypeOK, [Next]_vars PROVE TypeOK'
      OBVIOUS
    <2>1. ASSUME NEW in \in BOOLEAN, Tick(in), sc /\ bits > 0 PROVE TypeOK'
      <3>1. buf' \in Bytes /\ count' \in 0 .. Width - 1 /\ printed' \in Bytes
        BY <2>1, AddType DEF Tick
      <3>2. sb' \in Bytes
        BY <2>1, ShiftedType DEF TypeOK, Tick
      <3>3. bits' \in 0 .. Width
        BY <2>1, WidthAssumption DEF TypeOK, Tick
      <3>4. received' \in Bytes
        BY <2>1, Zenon DEF TypeOK, Tick, Bytes
      <3> QED
        BY <2>1, <3>1, <3>2, <3>3, <3>4 DEF TypeOK, Tick
    <2>2. ASSUME NEW in \in BOOLEAN, Tick(in), ~ (sc /\ bits > 0) PROVE TypeOK'
      BY <2>2 DEF TypeOK, Tick, port, receiver
    <2>3. ASSUME NEW byte \in Bytes, WriteSB(byte) PROVE TypeOK'
      BY <2>3 DEF TypeOK, WriteSB, receiver
    <2>4. ASSUME NEW start \in BOOLEAN, WriteSC(start) PROVE TypeOK'
      <3>1. bits' \in 0 .. Width
        BY <2>4, WidthAssumption DEF WriteSC
      <3> QED
        BY <2>4, <3>1 DEF TypeOK, WriteSC, receiver
    <2>5. CASE UNCHANGED vars
      BY <2>5 DEF TypeOK, vars, port, receiver
    <2> QED
      BY <2>1, <2>2, <2>3, <2>4, <2>5 DEF Next, Ticks
  <1> QED
    BY <1>1, <1>2, PTL DEF Spec

-----------------------------------------------------------------------------
(* The inductive invariant behind BytesArriveWhole *)

\* While a transfer runs, what is left of the byte is at the top of SB and what
\* has come in is below it; no byte is under way without the bit of SC.
Halves ==
    clean /\ bits > 0 =>
        /\ sc
        /\ \A i \in 1 .. bits : sb[i] = sent[Width - bits + i]
        /\ \A i \in 1 .. Width - bits : sb[bits + i] = received[i]

\* A transfer is under way and its next bit moves; what the step does to the byte
\* that is sent, to the one that comes in and to the receiver.
LEMMA BitMoves ==
    ASSUME TypeOK, InStep, Halves, NEW in \in BOOLEAN, Tick(in), sc, bits > 0, clean
    PROVE  /\ bits' > 0 => count' = Width - bits'
           /\ bits' = 0 => count' = 0 /\ printed' = buf'
           /\ \A i \in 1 .. Width - bits' : buf'[bits' + i] = sent'[i]
           /\ \A i \in 1 .. bits' : sb'[i] = sent'[Width - bits' + i]
           /\ \A i \in 1 .. Width - bits' : sb'[bits' + i] = received'[i]
  <1>1. /\ bits \in 1 .. Width /\ bits' = bits - 1 /\ count = Width - bits
        /\ sent' = sent /\ sb' = Shifted(sb, in) /\ buf' = Shifted(buf, sb[1])
        /\ received' = [received EXCEPT ![Width - bits + 1] = in]
        /\ count' = IF count + 1 = Width THEN 0 ELSE count + 1
        /\ printed' = IF count + 1 = Width THEN buf' ELSE printed
    BY DEF TypeOK, InStep, Tick, Add
  <1>2. sb[1] = sent[Width - bits + 1]
    BY <1>1 DEF Halves
  <1>3. \A i \in 1 .. count : buf[bits + i] = sent[i]
    <2>1. ASSUME NEW i \in 1 .. count PROVE buf[bits + i] = sent[i]
      <3>1. buf[Width - count + i] = sent[i]
        BY <2>1 DEF InStep
      <3>2. Width - count + i = bits + i
        BY <1>1, <2>1, WidthAssumption
      <3> QED
        BY <3>1, <3>2
    <2> QED
      BY <2>1
  <1>4. (bits' > 0 => count' = Width - bits') /\ (bits' = 0 => count' = 0 /\ printed' = buf')
    BY <1>1, WidthAssumption
  <1>5. ASSUME NEW i \in 1 .. Width - bits' PROVE buf'[bits' + i] = sent'[i]
    <2>1. CASE i = Width - bits + 1
      <3>1. bits' + i = Width
        BY <1>1, <2>1, WidthAssumption
      <3>2. buf'[Width] = sb[1]
        BY <1>1, WidthAssumption DEF Shifted, Place
      <3> QED
        BY <1>1, <1>2, <2>1, <3>1, <3>2
    <2>2. CASE i # Width - bits + 1
      <3>1. bits' + i \in Place /\ bits' + i # Width /\ i \in 1 .. count
        BY <1>1, <1>5, <2>2, WidthAssumption DEF Place
      <3>2. buf'[bits' + i] = buf[bits' + i + 1] /\ bits' + i + 1 = bits + i
        BY <1>1, <3>1 DEF Shifted
      <3> QED
        BY <1>1, <1>3, <3>1, <3>2
    <2> QED
      BY <2>1, <2>2
  <1>6. ASSUME NEW i \in 1 .. bits' PROVE sb'[i] = sent'[Width - bits' + i]
    <2>1. i \in Place /\ i # Width /\ i + 1 \in 1 .. bits
      BY <1>1, <1>6, WidthAssumption DEF Place
    <2>2. sb'[i] = sb[i + 1]
      BY <1>1, <2>1 DEF Shifted
    <2>3. sb[i + 1] = sent[Width - bits + (i + 1)]
      BY <2>1 DEF Halves
    <2>4. Width - bits + (i + 1) = Width - bits' + i
      BY <1>1, <1>6, WidthAssumption
    <2> QED
      BY <1>1, <2>2, <2>3, <2>4
  <1>7. ASSUME NEW i \in 1 .. Width - bits' PROVE sb'[bits' + i] = received'[i]
    <2>1. i \in Place /\ Width - bits + 1 \in Place
      BY <1>1, <1>7, WidthAssumption DEF Place
    <2>2. CASE i = Width - bits + 1
      <3>1. bits' + i = Width
        BY <1>1, <2>2, WidthAssumption
      <3>2. sb'[Width] = in /\ received'[i] = in
        BY <1>1, <2>1, <2>2, WidthAssumption DEF TypeOK, Bytes, Shifted, Place
      <3> QED
        BY <3>1, <3>2
    <2>3. CASE i # Width - bits + 1
      <3>1. bits' + i \in Place /\ bits' + i # Width /\ i \in 1 .. Width - bits
        BY <1>1, <1>7, <2>3, WidthAssumption DEF Place
      <3>2. sb'[bits' + i] = sb[bits' + i + 1] /\ bits' + i + 1 = bits + i
        BY <1>1, <3>1 DEF Shifted
      <3>3. received'[i] = received[i]
        BY <1>1, <2>1, <2>3 DEF TypeOK, Bytes
      <3>4. sb[bits + i] = received[i]
        BY <3>1 DEF Halves
      <3> QED
        BY <3>2, <3>3, <3>4
    <2> QED
      BY <2>2, <2>3
  <1> QED
    BY <1>4, <1>5, <1>6, <1>7

\* Both ends count the same bits, and a byte that is left alone arrives as it was
\* sent while the one from the other side takes its place.
THEOREM ArrivesWhole == Spec => [](InStep /\ BytesArriveWhole)
  <1> DEFINE Inv == InStep /\ Halves /\ BytesArriveWhole
  <1>1. Init => Inv
    BY DEF Init, InStep, Halves, BytesArriveWhole
  <1>2. TypeOK /\ TypeOK' /\ Inv /\ [Next]_vars => Inv'
    <2> SUFFICES ASSUME TypeOK, TypeOK', Inv, [Next]_vars PROVE Inv'
      OBVIOUS
    <2>1. ASSUME NEW in \in BOOLEAN, Tick(in), sc /\ bits > 0, clean PROVE Inv'
      <3>1. /\ bits' > 0 => count' = Width - bits'
            /\ bits' = 0 => count' = 0 /\ printed' = buf'
            /\ \A i \in 1 .. Width - bits' : buf'[bits' + i] = sent'[i]
            /\ \A i \in 1 .. bits' : sb'[i] = sent'[Width - bits' + i]
            /\ \A i \in 1 .. Width - bits' : sb'[bits' + i] = received'[i]
        BY <2>1, BitMoves
      <3>2. sc' /\ clean' /\ (did' = "irq" <=> bits' = 0) /\ bits' \in 0 .. Width
        BY <2>1, WidthAssumption DEF TypeOK, Tick
      <3>3. InStep'
        <4>1. ASSUME NEW i \in 1 .. count' PROVE buf'[Width - count' + i] = sent'[i]
          <5>1. bits' > 0 /\ count' = Width - bits'
            BY <3>1, <3>2, <4>1
          <5>2. Width - count' = bits'
            <6>1. bits' \in 0 .. Width
              BY <3>2
            <6>2. Width - (Width - bits') = bits'
              BY <6>1, Complement, Zenon
            <6> QED
              BY <5>1, <6>2, Zenon
          <5>3. i \in 1 .. Width - bits'
            BY <4>1, <5>1, Zenon
          <5> QED
            BY <3>1, <5>2, <5>3
        <4> QED
          BY <3>1, <4>1 DEF InStep
      <3>4. Halves'
        BY <3>1, <3>2 DEF Halves
      <3>5. BytesArriveWhole'
        <4> SUFFICES ASSUME bits' = 0
                     PROVE  printed' = sent' /\ sb' = received' /\ count' = 0
          BY <3>2 DEF BytesArriveWhole
        <4>1. \A i \in Place : buf'[i] = sent'[i] /\ sb'[i] = received'[i]
          BY <3>1, WidthAssumption DEF Place
        <4>2. buf' = sent' /\ sb' = received'
          BY <4>1 DEF TypeOK, Bytes
        <4> QED
          BY <3>1, <4>2
      <3> QED
        BY <3>3, <3>4, <3>5
    <2>2. ASSUME NEW in \in BOOLEAN, Tick(in), ~ (sc /\ bits > 0) PROVE Inv'
      BY <2>2 DEF InStep, Halves, BytesArriveWhole, Tick, port, receiver
    <2>3. ASSUME NEW in \in BOOLEAN, Tick(in), sc /\ bits > 0, ~ clean PROVE Inv'
      BY <2>3 DEF InStep, Halves, BytesArriveWhole, Tick
    <2>4. ASSUME NEW byte \in Bytes, WriteSB(byte) PROVE Inv'
      <3>1. clean' => clean /\ bits = 0 /\ count = 0
        BY <2>4 DEF InStep, WriteSB
      <3>2. did' = "write" /\ bits' = bits /\ count' = count
        BY <2>4 DEF WriteSB, receiver
      <3> QED
        BY <3>1, <3>2 DEF InStep, Halves, BytesArriveWhole
    <2>5. ASSUME NEW start \in BOOLEAN, WriteSC(start) PROVE Inv'
      <3>1. CASE count # 0
        BY <2>5, <3>1 DEF InStep, Halves, BytesArriveWhole, WriteSC
      <3>2. CASE count = 0 /\ start
        BY <2>5, <3>2, WidthAssumption
        DEF TypeOK, InStep, Halves, BytesArriveWhole, WriteSC, receiver
      <3>3. CASE count = 0 /\ ~ start
        BY <2>5, <3>3, WidthAssumption
        DEF TypeOK, InStep, Halves, BytesArriveWhole, WriteSC, receiver
      <3> QED
        BY <3>1, <3>2, <3>3
    <2>6. CASE UNCHANGED vars
      BY <2>6 DEF InStep, Halves, BytesArriveWhole, vars, port, receiver
    <2> QED
      BY <2>1, <2>2, <2>3, <2>4, <2>5, <2>6 DEF Next, Ticks
  <1>3. Inv => InStep /\ BytesArriveWhole
    OBVIOUS
  <1> QED
    BY <1>1, <1>2, <1>3, TypeCorrect, PTL DEF Spec
-----------------------------------------------------------------------------
(* The pace of the SDL loop *)

\* The clock and the count of frames stay words.
Words == /\ next \in {"frame", "sync"}
         /\ frames \in 0 .. Word - 1 /\ wall \in 0 .. Word - 1
         /\ delay \in Nat

\* While the loop has drawn a frame and not yet looked at the clock, it may be ahead
\* by that frame on top of what it let stand before.
Ahead == ~wrapped =>
            /\ frames * Num < Word
            /\ next = "frame" => GameMs <= wall + Slack
            /\ next = "sync" => GameMs <= wall + Slack + FrameMs
            /\ delay <= FrameMs + Slack

\* The times are numbers.
LEMMA GameTimes == \A n \in Nat : n * Num \in Nat /\ ((n * Num) % Word) \div Den \in Nat
  <1> SUFFICES ASSUME NEW n \in Nat
               PROVE  n * Num \in Nat /\ ((n * Num) % Word) \div Den \in Nat
    OBVIOUS
  <1> DEFINE a == n * Num
  <1>1. a \in Nat
    BY PaceAssumption
  <1> HIDE DEF a
  <1>2. a % Word \in Nat
    BY <1>1, Rests, PaceAssumption
  <1>3. (a % Word) \div Den \in Nat
    BY <1>2, Rests, PaceAssumption
  <1> QED
    BY <1>1, <1>3 DEF a

LEMMA FrameTime == FrameMs \in Nat
  <1>1. Num \div Den \in Nat
    BY Rests, PaceAssumption
  <1> QED
    BY <1>1 DEF FrameMs

LEMMA Types == ASSUME Words PROVE GameMs \in Nat /\ FrameMs \in Nat
  <1>1. frames \in Nat
    BY PaceAssumption DEF Words
  <1> QED
    BY <1>1, GameTimes, FrameTime DEF GameMs

\* Until something wraps, a frame adds its time, rounded up or down, to the game.
LEMMA FrameAdds ==
    ASSUME Words, frames * Num < Word, (frames + 1) * Num < Word
    PROVE  ((((frames + 1) * Num) % Word) \div Den) <= GameMs + FrameMs
  <1> DEFINE a == frames * Num
  <1>1. a \in Nat /\ (frames + 1) * Num = a + Num /\ frames \in Nat
    BY PaceAssumption DEF Words
  <1>2. a % Word = a /\ (a + Num) % Word = a + Num
    <2>1. a \in 0 .. Word - 1 /\ a + Num \in 0 .. Word - 1
      BY <1>1, PaceAssumption
    <2> HIDE DEF a
    <2> QED
      BY <2>1, Small, PaceAssumption
  <1> HIDE DEF a
  <1>3. (a + Num) \div Den <= a \div Den + Num \div Den + 1
    BY <1>1, Quotients, PaceAssumption
  <1>4. a \div Den \in Nat /\ Num \div Den \in Nat
    BY <1>1, Division, PaceAssumption
  <1>5. GameMs = a \div Den
    BY <1>2 DEF GameMs, a
  <1>6. ((frames + 1) * Num) % Word = a + Num
    BY <1>1, <1>2
  <1> QED
    BY <1>3, <1>4, <1>5, <1>6 DEF FrameMs

\* Times that do not wrap add up.
LEMMA Adds ==
    ASSUME Words, Words', NEW ms \in Nat, Passes(ms), ~wrapped'
    PROVE  ~wrapped /\ wall' = wall + ms /\ frames' * Num < Word
  <1>1. ~wrapped /\ ~ (wall + ms >= Word) /\ ~ (frames' * Num >= Word)
    BY DEF Passes
  <1>2. wall + ms \in 0 .. Word - 1
    BY <1>1, PaceAssumption DEF Words
  <1>3. (wall + ms) % Word = wall + ms
    BY <1>2, Small, PaceAssumption
  <1>4. frames' * Num \in Nat
    <2>1. frames' \in Nat
      BY PaceAssumption DEF Words
    <2> QED
      BY <2>1, GameTimes
  <1> QED
    BY <1>1, <1>3, <1>4, PaceAssumption DEF Passes

\* The words stay words.
LEMMA WordsStep == Words /\ [PaceNext]_paceVars => Words'
  <1> SUFFICES ASSUME Words, [PaceNext]_paceVars PROVE Words'
    OBVIOUS
  <1>1. \A n \in Nat : n % Word \in 0 .. Word - 1
    BY Rests, PaceAssumption
  <1>2. GameMs \in Nat /\ wall \in Nat /\ frames + 1 \in Nat
    BY Types, PaceAssumption DEF Words
  <1>3. CASE Frame
    <2>1. PICK ms \in 0 .. MaxWork : Passes(ms)
      BY <1>3 DEF Frame
    <2>2. wall' \in 0 .. Word - 1
      BY <1>1, <1>2, <2>1, PaceAssumption DEF Passes
    <2> QED
      BY <1>1, <1>2, <1>3, <2>2 DEF Frame, Words
  <1>4. CASE SyncTime
    <2>1. delay' \in Nat
      BY <1>2, <1>4, PaceAssumption DEF SyncTime, Lead
    <2>2. wall' \in 0 .. Word - 1
      <3>1. CASE delay' = 0
        BY <1>4, <3>1 DEF SyncTime, Words
      <3>2. CASE delay' # 0
        <4>1. PICK more \in 0 .. MaxWork : Passes(delay' + more)
          BY <1>4, <3>2 DEF SyncTime
        <4>2. wall + (delay' + more) \in Nat
          <5>1. more \in Nat /\ wall \in Nat
            BY <1>2, PaceAssumption
          <5>2. \A x, y, z \in Nat : x + (y + z) \in Nat
            OBVIOUS
          <5> QED
            BY <2>1, <5>1, <5>2, Zenon
        <4> QED
          BY <1>1, <4>1, <4>2 DEF Passes
      <3> QED
        BY <3>1, <3>2
    <2> QED
      BY <1>4, <2>1, <2>2 DEF SyncTime, Words
  <1>5. CASE UNCHANGED paceVars
    BY <1>5 DEF paceVars, Words
  <1> QED
    BY <1>3, <1>4, <1>5 DEF PaceNext

\* After a frame the loop is ahead by no more than what it let stand, and the frame.
LEMMA FrameKeeps == ASSUME Words, Words', Ahead, Frame PROVE Ahead'
  <1> SUFFICES ASSUME ~wrapped' PROVE Ahead'
    BY DEF Ahead
  <1>1. PICK ms \in 0 .. MaxWork : Passes(ms)
    BY DEF Frame
  <1>2. ms \in Nat
    BY PaceAssumption
  <1>3. ~wrapped /\ wall' = wall + ms /\ frames' * Num < Word
    BY <1>1, <1>2, Adds
  <1>4. frames * Num < Word /\ GameMs <= wall + Slack /\ delay <= FrameMs + Slack
    BY <1>3 DEF Ahead, Frame
  <1>5. GameMs \in Nat /\ FrameMs \in Nat
    BY Types
  <1>6. GameMs' <= GameMs + FrameMs
    <2>1. CASE frames + 1 < Word
      <3>1. frames + 1 \in 0 .. Word - 1
        BY <2>1, PaceAssumption DEF Words
      <3>2. frames' = frames + 1
        BY <3>1, Small, PaceAssumption DEF Frame
      <3> QED
        BY <1>3, <1>4, <3>2, FrameAdds DEF GameMs
    <2>2. CASE ~ (frames + 1 < Word)
      <3>1. frames + 1 = Word
        BY <2>2, PaceAssumption DEF Words
      <3>2. frames' = 0
        BY <3>1, PaceAssumption DEF Frame
      <3>3. GameMs' = 0
        BY <3>2, PaceAssumption DEF GameMs
      <3> QED
        BY <1>5, <3>3
    <2> QED
      BY <2>1, <2>2
  <1>7. GameMs' <= wall' + Slack + FrameMs
    <2>1. wall \in Nat /\ Slack \in Nat /\ frames' \in Nat
      BY PaceAssumption DEF Words
    <2>2. GameMs' \in Nat
      BY <2>1, GameTimes DEF GameMs
    <2> QED
      BY <1>2, <1>3, <1>4, <1>5, <1>6, <2>1, <2>2
  <1> QED
    BY <1>3, <1>4, <1>7 DEF Ahead, Frame, FrameMs

\* After a look at the clock it is ahead by no more than it may be.
LEMMA SyncKeeps == ASSUME Words, Words', Ahead, SyncTime PROVE Ahead'
  <1> SUFFICES ASSUME ~wrapped' PROVE Ahead'
    BY DEF Ahead
  <1>1. GameMs \in Nat /\ FrameMs \in Nat /\ wall \in Nat /\ Slack \in Nat
    BY Types, PaceAssumption DEF Words
  <1>2. GameMs' = GameMs
    BY DEF SyncTime, GameMs
  <1>3. CASE delay' = 0
    <2>1. ~wrapped /\ wall' = wall /\ ~ (Lead > Slack)
      BY <1>1, <1>3 DEF SyncTime, Lead
    <2>2. GameMs <= wall + Slack
      BY <1>1, <2>1 DEF Lead
    <2> QED
      BY <1>1, <1>2, <1>3, <2>1, <2>2 DEF Ahead, SyncTime, FrameMs
  <1>4. CASE delay' # 0
    <2>1. PICK more \in 0 .. MaxWork : Passes(delay' + more)
      BY <1>4 DEF SyncTime
    <2>2. delay' + more \in Nat /\ delay' = GameMs - wall /\ more \in Nat
      BY <1>1, <1>4, PaceAssumption DEF SyncTime, Lead, Words
    <2>3. ~wrapped /\ wall' = wall + (delay' + more) /\ frames' * Num < Word
      BY <2>1, <2>2, Adds
    <2>4. GameMs <= wall + Slack + FrameMs
      BY <2>3 DEF Ahead, SyncTime
    <2>5. GameMs <= wall' + Slack /\ delay' <= FrameMs + Slack
      BY <1>1, <2>2, <2>3, <2>4
    <2> QED
      BY <1>2, <2>3, <2>5 DEF Ahead, SyncTime, FrameMs
  <1> QED
    BY <1>3, <1>4

\* Until a product or the clock wraps, the loop keeps its pace: it never begins a
\* frame more than the slack ahead of the wall, and never sleeps longer than a
\* frame and the slack.
THEOREM KeepsPace == PaceSpec => []Paced
  <1>1. PaceInit => Words /\ Ahead
    <2> SUFFICES ASSUME PaceInit PROVE Words /\ Ahead
      OBVIOUS
    <2>1. GameMs = 0
      BY PaceAssumption DEF PaceInit, GameMs
    <2>2. FrameMs \in Nat
      BY FrameTime
    <2> QED
      BY <2>1, <2>2, PaceAssumption DEF PaceInit, Words, Ahead
  <1>2. Words /\ Ahead /\ [PaceNext]_paceVars => Words' /\ Ahead'
    <2> SUFFICES ASSUME Words, Ahead, [PaceNext]_paceVars PROVE Words' /\ Ahead'
      OBVIOUS
    <2>1. Words'
      BY WordsStep
    <2>2. CASE Frame
      BY <2>1, <2>2, FrameKeeps
    <2>3. CASE SyncTime
      BY <2>1, <2>3, SyncKeeps
    <2>4. CASE UNCHANGED paceVars
      BY <2>1, <2>4 DEF paceVars, Ahead, GameMs, FrameMs
    <2> QED
      BY <2>1, <2>2, <2>3, <2>4 DEF PaceNext
  <1>3. Words /\ Ahead => Paced
    BY DEF Ahead, Paced
  <1> QED
    BY <1>1, <1>2, <1>3, PTL DEF PaceSpec
-----------------------------------------------------------------------------
(* The libretro frontend *)

\* There is only one rest below the divisor, for negative numbers, too.
LEMMA OneRest ==
    ASSUME NEW a \in Int, NEW d \in Nat \ {0}, NEW k \in Int, NEW p \in 0 .. d - 1,
           a = (d * k) + p
    PROVE  a % d = p
  <1> DEFINE q == a \div d
             r == a % d
  <1>1. q \in Int /\ r \in 0 .. d - 1 /\ a = (d * q) + r
    OBVIOUS
  <1> HIDE DEF q, r
  <1>2. d * (k - q) = r - p
    BY <1>1
  <1>3. k - q <= 0
    <2>1. SUFFICES ASSUME k - q >= 1 PROVE FALSE
      BY <1>1
    <2>2. d * (k - q) >= d
      BY <1>1, <2>1
    <2> QED
      BY <1>1, <1>2, <2>2
  <1>4. k - q >= 0
    <2>1. SUFFICES ASSUME k - q <= -1 PROVE FALSE
      BY <1>1
    <2>2. d * (k - q) <= -d
      BY <1>1, <2>1
    <2> QED
      BY <1>1, <1>2, <2>2
  <1>5. r = p
    BY <1>1, <1>2, <1>3, <1>4
  <1> QED
    BY <1>5 DEF r

\* Numbers that leave the same rest leave it with another number added, too.
LEMMA AddToRest ==
    ASSUME NEW a \in Nat, NEW b \in Nat, NEW m \in Nat \ {0}
    PROVE  ((a % m) + b) % m = (a + b) % m
  <1> DEFINE q == a \div m
             c == (a % m) + b
             k == c \div m
             r == c % m
  <1>1. q \in Nat /\ a % m \in 0 .. m - 1 /\ a = (m * q) + (a % m)
    BY Division
  <1>2. c \in Nat
    BY <1>1
  <1> HIDE DEF c
  <1>3. k \in Nat /\ r \in 0 .. m - 1 /\ c = (m * k) + r
    BY <1>2, Division
  <1> DEFINE n == q + k
  <1> HIDE DEF q, k, r
  <1>4. m * n = (m * q) + (m * k) /\ m * q \in Int /\ m * k \in Int /\ n \in Int
    BY <1>1, <1>3
  <1>5. a + b = (m * q) + c /\ a + b \in Int
    BY <1>1, <1>4 DEF c
  <1> HIDE DEF n
  <1>6. a + b = (m * n) + r
    BY <1>3, <1>4, <1>5
  <1>7. (a + b) % m = r
    BY <1>3, <1>4, <1>5, <1>6, OneRest
  <1> QED
    BY <1>7 DEF r, c

\* Sums and differences of multiples are multiples.
LEMMA MultiplesAdd ==
    ASSUME NEW m \in Nat \ {0}, NEW a \in Int, NEW b \in Int, a % m = 0, b % m = 0
    PROVE  (a + b) % m = 0 /\ (a - b) % m = 0
  <1> DEFINE p == a \div m
             q == b \div m
  <1>1. p \in Int /\ a = (m * p) + 0 /\ q \in Int /\ b = (m * q) + 0
    OBVIOUS
  <1> HIDE DEF p, q
  <1>2. /\ m * (p + q) = (m * p) + (m * q) /\ m * (p - q) = (m * p) - (m * q)
        /\ m * p \in Int /\ m * q \in Int
    BY <1>1
  <1>3. a + b = (m * (p + q)) + 0 /\ a - b = (m * (p - q)) + 0 /\ 0 \in 0 .. m - 1
    BY <1>1, <1>2
  <1> QED
    BY <1>1, <1>3, OneRest

\* Samples have numbers below the bound, times are ticks of the clock.
LRTypes ==
    /\ turn \in {"host", "chunk"} /\ left \in 0 .. Chunk /\ frame_ready \in BOOLEAN
    /\ clock \in 0 .. Clock - 1 /\ shows \in BOOLEAN /\ beam \in 1 .. FrameTicks
    /\ saved \in [beam : 1 .. FrameTicks, shows : BOOLEAN, clock : 0 .. Clock - 1]
    /\ queued \in Seq(0 .. SampleMod - 1)
    /\ made \in 0 .. SampleMod - 1 /\ got \in 0 .. SampleMod - 1
    /\ shown \in 0 .. 1 /\ inOrder \in BOOLEAN

\* What is queued inside of a Run is what the host gets next, up to the last sample.
InQueue ==
    /\ inOrder /\ Len(queued) < BatchSize
    /\ turn = "host" => got = made
    /\ turn = "chunk" =>
         /\ \A k \in DOMAIN queued : queued[k] = (got + k - 1) % SampleMod
         /\ made = (got + Len(queued)) % SampleMod

\* A frame that is out leaves the beam further from the next than the end of the
\* chunk is, however the program moves it and wherever a restore has put it.
OneFrame ==
    /\ turn = "host" => shown = 1
    /\ turn = "chunk" => /\ shown = IF frame_ready THEN 1 ELSE 0
                         /\ frame_ready => beam > left

\* The clock is at a multiple of the timer's ticks whenever a chunk ends.
InPhase ==
    /\ turn = "host" => left = 0
    /\ (clock + left) % TimerEvery = 0
    /\ saved.clock % TimerEvery = 0

\* What becomes of a sample: it is queued or handed over with the others, in order.
LEMMA SampleKeeps ==
    ASSUME LRTypes, InQueue, turn = "chunk", turn' = "chunk", OutputAudioFrame
    PROVE  InQueue' /\ queued' \in Seq(0 .. SampleMod - 1)
           /\ made' \in 0 .. SampleMod - 1 /\ got' \in 0 .. SampleMod - 1
           /\ inOrder' \in BOOLEAN
  <1> DEFINE n == Len(queued)
             batch == Append(queued, made)
  <1>1. /\ SampleMod \in Nat \ {0} /\ BatchSize \in Nat \ {0} /\ n \in Nat /\ got \in Nat
        /\ made = (got + n) % SampleMod
        /\ queued \in Seq(0 .. SampleMod - 1) /\ made \in 0 .. SampleMod - 1
    BY ChunkAssumption DEF LRTypes, InQueue
  <1>2. batch \in Seq(0 .. SampleMod - 1) /\ Len(batch) = n + 1 /\ DOMAIN batch = 1 .. n + 1
    BY <1>1
  <1>3. ASSUME NEW k \in DOMAIN batch PROVE batch[k] = (got + k - 1) % SampleMod
    <2>1. CASE k = n + 1
      <3>1. batch[k] = made /\ got + k - 1 = got + n
        BY <1>1, <2>1
      <3> QED
        BY <1>1, <3>1
    <2>2. CASE k # n + 1
      <3>1. k \in 1 .. n /\ batch[k] = queued[k]
        BY <1>1, <1>2, <1>3, <2>2
      <3>2. k \in DOMAIN queued
        BY <1>1, <3>1
      <3> QED
        BY <3>1, <3>2 DEF InQueue
    <2> QED
      BY <2>1, <2>2
  <1>4. made' = (got + (n + 1)) % SampleMod
    <2>1. (made + 1) % SampleMod = ((got + n) + 1) % SampleMod
      <3> DEFINE e == got + n
      <3>1. e \in Nat /\ made = e % SampleMod /\ 1 \in Nat
        BY <1>1
      <3> HIDE DEF e
      <3>2. ((e % SampleMod) + 1) % SampleMod = (e + 1) % SampleMod
        BY <1>1, <3>1, AddToRest, Zenon
      <3> QED
        BY <3>1, <3>2, Zenon DEF e
    <2>2. (got + n) + 1 = got + (n + 1)
      BY <1>1
    <2> QED
      BY <2>1, <2>2 DEF OutputAudioFrame
  <1>5. \A x \in Nat : x % SampleMod \in 0 .. SampleMod - 1
    BY <1>1, Rests
  <1>6. made' \in 0 .. SampleMod - 1
    <2>1. got + (n + 1) \in Nat
      BY <1>1
    <2> QED
      BY <1>4, <1>5, <2>1, Zenon
  <1>7. CASE Len(batch) >= BatchSize
    <2>1. /\ queued' = <<>> /\ got' = (got + Len(batch)) % SampleMod
          /\ inOrder' = (inOrder /\ \A k \in DOMAIN batch : batch[k] = (got + k - 1) % SampleMod)
      BY <1>7 DEF OutputAudioFrame, HandOver
    <2>2. got' = made' /\ inOrder' = TRUE
      BY <1>2, <1>3, <1>4, <2>1 DEF InQueue
    <2>3. (got' + 0) % SampleMod = got'
      <3>1. got' \in 0 .. SampleMod - 1
        BY <1>6, <2>2, Zenon
      <3>2. got' % SampleMod = got'
        BY <1>1, <3>1, Small, Zenon
      <3>3. \A x \in 0 .. SampleMod - 1 : x + 0 = x
        BY <1>1
      <3> QED
        BY <3>1, <3>2, <3>3, Zenon
    <2>4. Len(queued') = 0 /\ DOMAIN queued' = {} /\ queued' \in Seq(0 .. SampleMod - 1)
      BY <2>1
    <2>5. made' = (got' + Len(queued')) % SampleMod
      BY <2>2, <2>3, <2>4
    <2>6. InQueue'
      BY <1>1, <2>2, <2>4, <2>5 DEF InQueue
    <2> QED
      BY <1>6, <2>2, <2>4, <2>6
  <1>8. CASE ~ (Len(batch) >= BatchSize)
    <2>1. queued' = batch /\ got' = got /\ inOrder' = inOrder
      BY <1>8 DEF OutputAudioFrame
    <2>2. Len(queued') < BatchSize
      BY <1>1, <1>2, <1>8, <2>1
    <2> QED
      BY <1>1, <1>2, <1>3, <1>4, <1>6, <2>1, <2>2 DEF InQueue, LRTypes
  <1> QED
    BY <1>7, <1>8

\* The queue after the other steps: only the end of a Run empties it.
LEMMA QueueKeeps ==
    ASSUME LRTypes, InQueue, [LRNext]_lrVars
    PROVE  InQueue' /\ queued' \in Seq(0 .. SampleMod - 1)
           /\ made' \in 0 .. SampleMod - 1 /\ got' \in 0 .. SampleMod - 1
           /\ inOrder' \in BOOLEAN
  <1> USE DEF LRTypes
  <1>1. CASE MachineTick
    <2>1. CASE UNCHANGED sound
      BY <1>1, <2>1 DEF MachineTick, sound, InQueue
    <2>2. CASE OutputAudioFrame
      BY <1>1, <2>2, SampleKeeps DEF MachineTick
    <2> QED
      BY <1>1, <2>1, <2>2 DEF MachineTick
  <1>2. CASE Begin
    <2>1. queued' = <<>> /\ made' = made /\ got' = got /\ got = made /\ inOrder' = inOrder /\ inOrder
      BY <1>2 DEF Begin, InQueue
    <2>2. made \in Nat /\ (made + 0) % SampleMod = made
      <3>1. made % SampleMod = made
        BY Small, ChunkAssumption, SampleMod \in Nat \ {0}
      <3>2. made + 0 = made
        BY ChunkAssumption
      <3> QED
        BY <3>1, <3>2, ChunkAssumption
    <2> QED
      BY <1>2, <2>1, <2>2, ChunkAssumption DEF Begin, InQueue
  <1>3. CASE End /\ frame_ready
    <2>1. /\ turn' = "host" /\ queued' = queued /\ made' = made
          /\ got' = (got + Len(queued)) % SampleMod
          /\ inOrder' = (inOrder /\ \A k \in DOMAIN queued : queued[k] = (got + k - 1) % SampleMod)
      BY <1>3 DEF End, HandOver
    <2>2. got' = made' /\ inOrder' = TRUE
      BY <1>3, <2>1 DEF End, InQueue
    <2> QED
      BY <2>1, <2>2 DEF InQueue
  <1>4. CASE End /\ ~frame_ready
    BY <1>4 DEF End, InQueue
  <1>5. CASE Game \/ Serialize \/ Unserialize
    BY <1>5 DEF Game, Serialize, Unserialize, sound, InQueue
  <1>6. CASE UNCHANGED lrVars
    BY <1>6 DEF lrVars, InQueue
  <1> QED
    BY <1>1, <1>2, <1>3, <1>4, <1>5, <1>6 DEF LRNext

\* One frame to a Run: the beam cannot come round twice in a chunk.
LEMMA FrameKept ==
    ASSUME LRTypes, OneFrame, [LRNext]_lrVars
    PROVE  OneFrame' /\ beam' \in 1 .. FrameTicks /\ frame_ready' \in BOOLEAN
           /\ shown' \in 0 .. 1 /\ shows' \in BOOLEAN
  <1> USE DEF LRTypes
  <1>1. CASE MachineTick
    <2>1. CASE shows /\ beam = 1
      <3>1. ~frame_ready
        BY <1>1, <2>1 DEF OneFrame, MachineTick
      <3>2. beam' = FrameTicks /\ frame_ready' = TRUE /\ shown' = 1
        BY <1>1, <2>1, <3>1 DEF OneFrame, MachineTick, Beam
      <3> QED
        BY <1>1, <3>2, ChunkAssumption DEF OneFrame, MachineTick
    <2>2. CASE ~ (shows /\ beam = 1)
      <3>1. beam' = (IF shows THEN beam - 1 ELSE beam) /\ UNCHANGED <<frame_ready, shown>>
        BY <1>1, <2>2 DEF MachineTick, Beam
      <3> QED
        BY <1>1, <2>2, <3>1, ChunkAssumption DEF OneFrame, MachineTick
    <2> QED
      BY <2>1, <2>2
  <1>2. CASE Begin
    <2>1. turn' = "chunk" /\ frame_ready' = FALSE /\ shown' = 0 /\ beam' = beam /\ shows' = shows
      BY <1>2 DEF Begin
    <2>2. OneFrame'
      BY <2>1 DEF OneFrame
    <2>3. frame_ready' \in BOOLEAN
      BY <2>1, Zenon
    <2>4. shown' \in 0 .. 1
      BY <2>1
    <2> QED
      BY <2>1, <2>2, <2>3, <2>4, Zenon
  <1>3. CASE Game
    BY <1>3, ChunkAssumption DEF Game, OneFrame
  <1>4. CASE End
    BY <1>4 DEF End, OneFrame
  <1>5. CASE Serialize
    BY <1>5 DEF Serialize, OneFrame
  <1>6. CASE Unserialize
    BY <1>6 DEF Unserialize, OneFrame
  <1>7. CASE UNCHANGED lrVars
    BY <1>7 DEF lrVars, OneFrame
  <1> QED
    BY <1>1, <1>2, <1>3, <1>4, <1>5, <1>6, <1>7 DEF LRNext

\* A chunk takes the clock from one multiple of the timer's ticks to another.
LEMMA PhaseKeeps ==
    ASSUME LRTypes, InPhase, [LRNext]_lrVars
    PROVE  InPhase' /\ turn' \in {"host", "chunk"} /\ left' \in 0 .. Chunk
           /\ clock' \in 0 .. Clock - 1
           /\ saved'.clock \in 0 .. Clock - 1
  <1> USE DEF LRTypes
  <1>0. /\ clock \in Int /\ left \in Int /\ Chunk \in Int /\ Clock \in Nat \ {0}
        /\ TimerEvery \in Nat \ {0} /\ Chunk % TimerEvery = 0 /\ Clock % TimerEvery = 0
    BY ChunkAssumption
  <1>1. CASE MachineTick
    <2>1. left' = left - 1 /\ turn' = turn /\ saved' = saved /\ left > 0 /\ turn = "chunk"
      BY <1>1 DEF MachineTick
    <2>2. clock' = IF clock + 1 = Clock THEN 0 ELSE clock + 1
      <3>1. clock + 1 \in Nat /\ clock + 1 <= Clock /\ clock' = (clock + 1) % Clock
        BY <1>0, <1>1 DEF MachineTick
      <3>2. CASE clock + 1 = Clock
        <4>1. Clock % Clock = 0
          <5>1. Clock = (Clock * 1) + 0 /\ 0 \in 0 .. Clock - 1
            BY <1>0
          <5> QED
            BY <1>0, <5>1, OneRest
        <4> QED
          BY <3>1, <3>2, <4>1
      <3>3. CASE clock + 1 # Clock
        <4>1. clock + 1 \in 0 .. Clock - 1
          BY <1>0, <3>1, <3>3
        <4>2. (clock + 1) % Clock = clock + 1
          BY <1>0, <4>1, Small
        <4> QED
          BY <3>1, <3>3, <4>2
      <3> QED
        BY <3>2, <3>3
    <2>3. CASE clock + 1 = Clock
      <3>1. clock' + left' = (clock + left) - Clock
        BY <1>0, <2>1, <2>2, <2>3
      <3>2. ((clock + left) - Clock) % TimerEvery = 0
        <4> DEFINE a == clock + left
        <4>1. a \in Int /\ a % TimerEvery = 0
          BY <1>0 DEF InPhase
        <4> HIDE DEF a
        <4>2. (a - Clock) % TimerEvery = 0
          BY <1>0, <4>1, Clock \in Int, MultiplesAdd, Zenon
        <4> QED
          BY <4>2 DEF a
      <3> QED
        BY <1>0, <2>1, <2>2, <2>3, <3>1, <3>2 DEF InPhase
    <2>4. CASE clock + 1 # Clock
      <3>1. clock' + left' = clock + left
        BY <1>0, <2>1, <2>2, <2>4
      <3> QED
        BY <1>0, <2>1, <2>2, <2>4, <3>1 DEF InPhase
    <2> QED
      BY <2>3, <2>4
  <1>2. CASE Begin
    <2>1. left = 0 /\ clock + left = clock
      BY <1>0, <1>2 DEF Begin, InPhase
    <2>2. (clock + Chunk) % TimerEvery = 0
      BY <1>0, <2>1, MultiplesAdd DEF InPhase
    <2> QED
      BY <1>0, <1>2, <2>2 DEF Begin, InPhase
  <1>3. CASE End
    <2>1. left = 0 /\ clock + left = clock
      BY <1>0, <1>3 DEF End
    <2>2. (clock + Chunk) % TimerEvery = 0
      BY <1>0, <2>1, MultiplesAdd DEF InPhase
    <2>3. CASE frame_ready
      <3>1. turn' = "host" /\ left' = left /\ clock' = clock /\ saved' = saved
        BY <1>3, <2>3 DEF End
      <3> QED
        BY <2>1, <3>1 DEF InPhase
    <2>4. CASE ~frame_ready
      <3>1. turn' = "chunk" /\ turn = "chunk" /\ left' = Chunk /\ clock' = clock /\ saved' = saved
        BY <1>3, <2>4 DEF End
      <3> QED
        BY <1>0, <2>2, <3>1 DEF InPhase
    <2> QED
      BY <2>3, <2>4
  <1>4. CASE Serialize
    <2>1. left = 0 /\ clock + left = clock /\ saved'.clock = clock
      BY <1>0, <1>4 DEF Serialize, InPhase
    <2> QED
      BY <1>4, <2>1 DEF Serialize, InPhase
  <1>5. CASE Game \/ Unserialize
    BY <1>5 DEF Game, Unserialize, InPhase
  <1>6. CASE UNCHANGED lrVars
    BY <1>6 DEF lrVars, InPhase
  <1> QED
    BY <1>1, <1>2, <1>3, <1>4, <1>5, <1>6 DEF LRNext

\* The save in the frontend's hands is one of its own.
LEMMA SavedKeeps ==
    ASSUME LRTypes, [LRNext]_lrVars
    PROVE  saved' \in [beam : 1 .. FrameTicks, shows : BOOLEAN, clock : 0 .. Clock - 1]
  <1>1. CASE Serialize
    BY <1>1 DEF LRTypes, Serialize
  <1>2. CASE ~Serialize
    BY <1>2 DEF LRTypes, LRNext, lrVars, Begin, MachineTick, Game, End, Unserialize
  <1> QED
    BY <1>1, <1>2

\* All four together are what every step leaves as it is.
LEMMA LRInductive == LRSpec => [](LRTypes /\ InQueue /\ OneFrame /\ InPhase)
  <1> DEFINE Inv == LRTypes /\ InQueue /\ OneFrame /\ InPhase
  <1>1. LRInit => Inv
    <2> SUFFICES ASSUME LRInit PROVE Inv
      OBVIOUS
    <2>1. (0 + 0) % TimerEvery = 0 /\ 0 % TimerEvery = 0
      BY Small, ChunkAssumption, 0 \in 0 .. TimerEvery - 1, 0 + 0 = 0
    <2>2. 0 \in 0 .. Chunk /\ 0 \in 0 .. Clock - 1 /\ FrameTicks \in 1 .. FrameTicks
          /\ 0 \in 0 .. SampleMod - 1 /\ 0 < BatchSize
      BY ChunkAssumption
    <2>3. LRTypes
      <3>1. saved \in [beam : 1 .. FrameTicks, shows : BOOLEAN, clock : 0 .. Clock - 1]
        BY <2>2, Zenon DEF LRInit
      <3>2. queued \in Seq(0 .. SampleMod - 1) /\ shown \in 0 .. 1
        BY DEF LRInit
      <3>3. frame_ready \in BOOLEAN /\ shows \in BOOLEAN /\ inOrder \in BOOLEAN
        BY Zenon DEF LRInit
      <3> QED
        BY <2>2, <3>1, <3>2, <3>3, Zenon DEF LRInit, LRTypes
    <2>4. InQueue
      BY <2>2 DEF LRInit, InQueue
    <2> QED
      BY <2>1, <2>3, <2>4 DEF LRInit, OneFrame, InPhase
  <1>2. Inv /\ [LRNext]_lrVars => Inv'
    <2> SUFFICES ASSUME Inv, [LRNext]_lrVars PROVE Inv'
      OBVIOUS
    <2>1. InQueue' /\ OneFrame' /\ InPhase'
      BY QueueKeeps, FrameKept, PhaseKeeps
    <2>2. LRTypes'
      BY QueueKeeps, FrameKept, PhaseKeeps, SavedKeeps DEF LRTypes
    <2> QED
      BY <2>1, <2>2
  <1> QED
    BY <1>1, <1>2, PTL DEF LRSpec

\* A Run of the libretro frontend shows one frame, and when it returns the host has
\* every sample once and in order: for chunks, frames and batches of every size.
THEOREM EveryRunIsWhole == LRSpec => []RunsAreWhole
  <1>1. InQueue /\ OneFrame => RunsAreWhole
    BY DEF InQueue, OneFrame, RunsAreWhole
  <1> QED
    BY <1>1, LRInductive, PTL

\* A restored machine goes on in the phase of the timer in which it was saved.
THEOREM RestoresInPhase == LRSpec => []ResumesInPhase
  <1>1. LRTypes /\ InPhase => ResumesInPhase
    <2> SUFFICES ASSUME LRTypes, InPhase, turn = "host"
                 PROVE  (clock - saved.clock) % TimerEvery = 0
      BY DEF ResumesInPhase
    <2>1. clock \in Int /\ saved.clock \in Int /\ TimerEvery \in Nat \ {0} /\ clock + left = clock
      BY ChunkAssumption DEF LRTypes, InPhase
    <2> QED
      BY <2>1, MultiplesAdd DEF InPhase
  <1> QED
    BY <1>1, LRInductive, PTL
=============================================================================
