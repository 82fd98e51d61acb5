----------------------------- MODULE LCD_proofs -----------------------------
(***************************************************************************)
(* Proofs about module LCD, for every geometry of the screen and every     *)
(* value a program may write, and about module Sprites, for every OAM.     *)
(***************************************************************************)
EXTENDS Sprites, FiniteSetTheorems, TLAPS

\* The parts of the type invariant that the steps of the beam change.
BeamType == /\ mode \in Modes /\ flag \in BOOLEAN
            /\ ly \in 0 .. Lines - 1 /\ dot \in 0 .. Dots - 1
            /\ frame \in [Screen -> 0 .. 2]
            /\ raised \in SUBSET {"stat", "vblank"}
            /\ stale \in SUBSET {"mode", "flag", "frame"}

\* A byte of a transfer keeps OAM and the transfer's registers well typed.
LEMMA CopyType ==
    ASSUME TypeOK, CopyByte
    PROVE  /\ dma' \in Pages \cup {"cpu"} /\ dma_ticks' \in 0 .. OamSize
           /\ oam' \in [Offsets -> Pages \cup {"cpu"}]
  BY OamAssumption DEF TypeOK, CopyByte

\* Drawing a dot, on the screen or off it, leaves counts of dots.
LEMMA DrawnType ==
    ASSUME NEW f \in [Screen -> 0 .. 2], NEW p
    PROVE  [f EXCEPT ![p] = Again(@)] \in [Screen -> 0 .. 2]
  <1> DEFINE g == [f EXCEPT ![p] = Again(@)]
  <1>1. g = [q \in Screen |-> IF q = p THEN Again(f[p]) ELSE f[q]]
    BY Zenon
  <1>2. Again(f[p]) \in 0 .. 2
    BY DEF Again
  <1>3. \A q \in Screen : (IF q = p THEN Again(f[p]) ELSE f[q]) \in 0 .. 2
    BY <1>2
  <1> HIDE DEF g
  <1>4. g \in [Screen -> 0 .. 2]
    BY <1>1, <1>3, Zenon
  <1> QED
    BY <1>4 DEF g

\* A step along the line keeps the beam well typed.
LEMMA WithinType ==
    ASSUME TypeOK, Within
    PROVE  BeamType' /\ enabled' \in SUBSET StatSources
  <1>1. dot' \in 0 .. Dots - 1
    BY BeamAssumption DEF TypeOK, Within
  <1>2. ly' \in 0 .. Lines - 1
    BY DEF TypeOK, Within
  <1>3. mode' \in Modes
    BY DEF TypeOK, Within, Modes
  <1>4. flag' \in BOOLEAN /\ enabled' \in SUBSET StatSources
    BY DEF TypeOK, Within
  <1>5. frame' \in [Screen -> 0 .. 2]
    <2>1. frame' = frame \/ \E p : frame' = [frame EXCEPT ![p] = Again(@)]
      BY DEF Within, Drawn
    <2> QED
      BY <2>1, DrawnType DEF TypeOK
  <1>6. raised' \in SUBSET {"stat", "vblank"} /\ stale' \in SUBSET {"mode", "flag", "frame"}
    BY DEF TypeOK, Within
  <1> QED
    BY <1>1, <1>2, <1>3, <1>4, <1>5, <1>6 DEF BeamType

\* So does a step to the next line.
LEMMA NextLineType ==
    ASSUME TypeOK, NextLine
    PROVE  BeamType' /\ enabled' \in SUBSET StatSources
  <1>1. dot' \in 0 .. Dots - 1
    BY BeamAssumption DEF TypeOK, NextLine
  <1>2. ly' \in 0 .. Lines - 1
    BY BeamAssumption DEF TypeOK, NextLine, NextLy
  <1>3. mode' \in Modes
    BY DEF TypeOK, NextLine, LineMode, Modes
  <1>4. flag' \in BOOLEAN /\ enabled' \in SUBSET StatSources
    BY DEF TypeOK, NextLine, Match
  <1>5. frame' \in [Screen -> 0 .. 2]
    BY DEF TypeOK, NextLine, LineFrame, Cleared
  <1>6. raised' \in SUBSET {"stat", "vblank"} /\ stale' \in SUBSET {"mode", "flag", "frame"}
    BY DEF TypeOK, NextLine, LineInterrupts
  <1> QED
    BY <1>1, <1>2, <1>3, <1>4, <1>5, <1>6 DEF BeamType

\* Type correctness: the beam never leaves the screen, and no transfer leaves OAM.
THEOREM TypeCorrect == Spec => []TypeOK
  <1>1. Init => TypeOK
    BY BeamAssumption, OamAssumption
    DEF Init, TypeOK, Modes, Cleared
  <1>2. TypeOK /\ [Next]_vars => TypeOK'
    <2> SUFFICES ASSUME TypeOK, [Next]_vars PROVE TypeOK'
      OBVIOUS
    <2>1. CASE Tick
      <3>1. CASE on /\ CopyByte /\ (Within \/ NextLine)
        <4>1. BeamType' /\ enabled' \in SUBSET StatSources
          BY <3>1, WithinType, NextLineType
        <4> QED
          BY <2>1, <3>1, <4>1, CopyType DEF TypeOK, Tick, BeamType
      <3>2. CASE raised' = {} /\ UNCHANGED <<beam, stat, frame, transfer, stale>>
        BY <2>1, <3>2 DEF TypeOK, Tick, beam, stat, transfer
      <3> QED
        BY <2>1, <3>1, <3>2 DEF Tick
    <2>2. ASSUME NEW b \in BOOLEAN, Written("write"), WriteLCDC(b) PROVE TypeOK'
      BY <2>2 DEF TypeOK, Written, WriteLCDC, beam, stat, transfer
    <2>3. ASSUME NEW v \in StatValues, Written("write"), WriteSTAT(v) PROVE TypeOK'
      BY <2>3, WrittenAssumption DEF TypeOK, Written, WriteSTAT, beam, transfer
    <2>4. ASSUME Written("LY"), WriteLY PROVE TypeOK'
      BY <2>4, BeamAssumption DEF TypeOK, Written, WriteLY, stat, transfer
    <2>5. ASSUME NEW v \in LycValues, Written("LYC"), WriteLYC(v) PROVE TypeOK'
      BY <2>5, WrittenAssumption DEF TypeOK, Written, WriteLYC, beam, stat, transfer
    <2>6. ASSUME NEW p \in Pages, Written("write"), WriteDMA(p) PROVE TypeOK'
      BY <2>6, OamAssumption DEF TypeOK, Written, WriteDMA, beam, stat
    <2>7. ASSUME NEW i \in Offsets, Written("write"), WriteOAM(i) PROVE TypeOK'
      BY <2>7 DEF TypeOK, Written, WriteOAM, beam, stat
    <2>8. CASE UNCHANGED vars
      BY <2>8 DEF TypeOK, vars, beam, stat, transfer
    <2> QED
      BY <2>1, <2>2, <2>3, <2>4, <2>5, <2>6, <2>7, <2>8 DEF Next, Write
  <1> QED
    BY <1>1, <1>2, PTL DEF Spec

\* The mode in STAT is the position's once a phase has begun since the last write
\* to STAT or LY.
THEOREM ModeIsPosition == Spec => []ModeShowsPosition
  <1>1. Init => ModeShowsPosition
    BY DEF Init, ModeShowsPosition
  <1>2. TypeOK /\ ModeShowsPosition /\ [Next]_vars => ModeShowsPosition'
    <2> SUFFICES ASSUME TypeOK, ModeShowsPosition, [Next]_vars, "mode" \notin stale'
                 PROVE  mode' = Position'
      BY DEF ModeShowsPosition
    <2>1. CASE Within
      <3>1. CASE ly < Visible /\ dot + 1 = Search
        BY <2>1, <3>1, BeamAssumption DEF TypeOK, Within, Position
      <3>2. CASE ly < Visible /\ dot + 1 = HBlank
        BY <2>1, <3>2, BeamAssumption DEF TypeOK, Within, Position
      <3>3. CASE ~ (ly < Visible /\ dot + 1 \in {Search, HBlank})
        <4>1. /\ mode' = mode /\ ly' = ly /\ dot' = dot + 1
              /\ ly < Visible => dot + 1 # Search /\ dot + 1 # HBlank
              /\ mode = Position
          BY <2>1, <3>3 DEF ModeShowsPosition, Within
        <4>2. Position' = Position
          BY <4>1, BeamAssumption DEF TypeOK, Position
        <4> QED
          BY <4>1, <4>2
      <3> QED
        BY <3>1, <3>2, <3>3
    <2>2. CASE NextLine
      <3>1. CASE ly' <= Visible
        <4>1. dot' = 0 /\ ly' \in Int /\ mode' = LineMode(ly')
          BY <2>2, BeamAssumption DEF TypeOK, NextLine, NextLy
        <4>2. LineMode(ly') = IF ly' < Visible THEN 2 ELSE 1
          <5>1. ly' < Visible \/ ly' = Visible
            BY <3>1, <4>1, BeamAssumption
          <5>2. ly' < Visible => LineMode(ly') = 2
            BY Zenon DEF LineMode
          <5>3. ~ (ly' < Visible) /\ ly' = Visible => LineMode(ly') = 1
            BY Zenon DEF LineMode
          <5> QED
            BY <5>1, <5>2, <5>3
        <4> QED
          BY <4>1, <4>2, BeamAssumption DEF Position
      <3>2. CASE ~ (ly' <= Visible)
        <4>1. mode' = mode /\ "mode" \notin stale /\ ly' = ly + 1
          BY <2>2, <3>2, BeamAssumption
          DEF TypeOK, NextLine, NextLy, LineMode, LineSettles
        <4> QED
          BY <3>2, <4>1, BeamAssumption DEF TypeOK, ModeShowsPosition, Position
      <3> QED
        BY <3>1, <3>2
    <2>3. CASE UNCHANGED <<beam, stat, stale>>
      BY <2>3 DEF ModeShowsPosition, Position, beam, stat
    <2>4. CASE Tick
      BY <2>1, <2>2, <2>3, <2>4 DEF Tick
    <2>5. CASE Write
      BY <2>3, <2>5 DEF ModeShowsPosition, Position, Write, WriteLCDC, WriteSTAT, WriteLY,
         WriteLYC, WriteDMA, WriteOAM, beam, stat
    <2>6. CASE UNCHANGED vars
      BY <2>3, <2>6 DEF vars
    <2> QED
      BY <2>4, <2>5, <2>6 DEF Next
  <1> QED
    BY <1>1, <1>2, TypeCorrect, PTL DEF Spec

\* The coincidence bit is right once a line has begun since the last write to
\* STAT, LY or LYC.
THEOREM FlagIsCoincidence == Spec => []FlagShowsCoincidence
  <1>1. Init => FlagShowsCoincidence
    BY DEF Init, FlagShowsCoincidence
  <1>2. FlagShowsCoincidence /\ [Next]_vars => FlagShowsCoincidence'
    <2> SUFFICES ASSUME FlagShowsCoincidence, [Next]_vars, "flag" \notin stale'
                 PROVE  (flag <=> ly = lyc)'
      BY DEF FlagShowsCoincidence
    <2>1. CASE Tick /\ Within
      BY <2>1 DEF FlagShowsCoincidence, Tick, Within
    <2>2. CASE Tick /\ NextLine
      BY <2>2 DEF Tick, NextLine, Match
    <2>3. CASE UNCHANGED <<beam, stat, lyc, stale>>
      BY <2>3 DEF FlagShowsCoincidence, beam, stat
    <2>4. CASE Tick
      BY <2>1, <2>2, <2>3, <2>4 DEF Tick
    <2>5. CASE Write
      BY <2>3, <2>5 DEF Write, WriteLCDC, WriteSTAT, WriteLY, WriteLYC, WriteDMA, WriteOAM
    <2>6. CASE UNCHANGED vars
      BY <2>3, <2>6 DEF vars
    <2> QED
      BY <2>4, <2>5, <2>6 DEF Next
  <1> QED
    BY <1>1, <1>2, PTL DEF Spec

\* Behind the place a transfer has reached nothing of an earlier transfer is left.
THEOREM TransferIsClean == Spec => []TransferReplaces
  <1>1. Init => TransferReplaces
    BY DEF Init, TransferReplaces
  <1>2. TypeOK /\ TransferReplaces /\ [Next]_vars => TransferReplaces'
    <2> SUFFICES ASSUME TypeOK, TransferReplaces, [Next]_vars,
                        NEW i \in Offsets, i < OamSize - dma_ticks'
                 PROVE  oam'[i] \in {dma', "cpu"}
      BY DEF TransferReplaces
    <2>1. CASE CopyByte
      <3>1. CASE dma_ticks > 0 /\ i = OamSize - dma_ticks
        BY <2>1, <3>1 DEF TypeOK, CopyByte
      <3>2. CASE dma_ticks > 0 /\ i # OamSize - dma_ticks
        <4>1. i < OamSize - dma_ticks
          BY <2>1, <3>2, OamAssumption DEF TypeOK, CopyByte, Offsets
        <4> QED
          BY <2>1, <3>2, <4>1 DEF TypeOK, TransferReplaces, CopyByte
      <3>3. CASE ~ (dma_ticks > 0)
        BY <2>1, <3>3 DEF TransferReplaces, CopyByte
      <3> QED
        BY <3>1, <3>2, <3>3
    <2>2. CASE UNCHANGED transfer
      BY <2>2 DEF TransferReplaces, transfer
    <2>3. ASSUME NEW p \in Pages, WriteDMA(p) PROVE FALSE
      BY <2>3, OamAssumption DEF WriteDMA, Offsets
    <2>4. ASSUME NEW k \in Offsets, WriteOAM(k) PROVE oam'[i] \in {dma', "cpu"}
      BY <2>4 DEF TypeOK, TransferReplaces, WriteOAM
    <2>5. CASE Tick
      BY <2>1, <2>2, <2>5 DEF Tick
    <2>6. CASE Write
      BY <2>2, <2>3, <2>4, <2>6 DEF Write, WriteLCDC, WriteSTAT, WriteLY, WriteLYC
    <2>7. CASE UNCHANGED vars
      BY <2>2, <2>7 DEF vars
    <2> QED
      BY <2>5, <2>6, <2>7 DEF Next
  <1> QED
    BY <1>1, <1>2, TypeCorrect, PTL DEF Spec

-----------------------------------------------------------------------------
(* The vertical blank and the LYC interrupt as countdowns *)

\* A product is one factor longer than the one before.
LEMMA Times ==
    ASSUME NEW d \in Nat, NEW a \in Nat, NEW b \in Nat
    PROVE  /\ a * d \in Nat
           /\ (a + 1) * d = a * d + d
           /\ a < b => a * d + d <= b * d
           /\ a <= b => a * d <= b * d
  OBVIOUS

\* Where a line begins, compared with where the frame ends and where line n begins.
LEMMA LineStarts ==
    ASSUME NEW n \in Nat, NEW line \in 0 .. Lines - 1
    PROVE  /\ line * Dots \in Nat /\ n * Dots \in Nat /\ FrameTicks \in Nat
           /\ line * Dots + Dots <= FrameTicks
           /\ line + 1 = Lines => line * Dots + Dots = FrameTicks
           /\ line + 1 < Lines => line * Dots + Dots + Dots <= FrameTicks
           /\ line + 1 = n => n * Dots = line * Dots + Dots
           /\ line + 1 < n => line * Dots + Dots + Dots <= n * Dots
           /\ n <= line => n * Dots <= line * Dots
           /\ line < n => line * Dots + Dots <= n * Dots
           /\ (line + 1) * Dots = line * Dots + Dots
           /\ 0 * Dots = 0
           /\ 0 < n => Dots <= n * Dots
  BY BeamAssumption, Times DEF FrameTicks

\* The next start of a line is always ahead.
LEMMA LeftPositive ==
    ASSUME NEW n \in Nat, NEW line \in 0 .. Lines - 1, NEW d \in 0 .. Dots - 1
    PROVE  Left(n, line, d) \in Int /\ Left(n, line, d) > 0
  <1> DEFINE L == line * Dots
             N == n * Dots
  <1>1. L \in Nat /\ N \in Nat /\ FrameTicks \in Nat /\ L + Dots <= FrameTicks
    BY LineStarts
  <1> HIDE DEF L, N
  <1>2. /\ N - (L + d) + (IF L + d < N THEN 0 ELSE FrameTicks) \in Int
        /\ N - (L + d) + (IF L + d < N THEN 0 ELSE FrameTicks) > 0
    BY <1>1, BeamAssumption
  <1> QED
    BY <1>2 DEF Left, L, N

\* A step along the line brings it one tick nearer, and it is not reached.
LEMMA LeftAlong ==
    ASSUME NEW n \in Nat, NEW line \in 0 .. Lines - 1, NEW d \in Nat, d + 1 < Dots
    PROVE  Left(n, line, d) > 1 /\ Left(n, line, d + 1) = Left(n, line, d) - 1
  <1> DEFINE L == line * Dots
             N == n * Dots
             G(e) == N - (L + e) + (IF L + e < N THEN 0 ELSE FrameTicks)
  <1>1. /\ L \in Nat /\ N \in Nat /\ FrameTicks \in Nat /\ L + Dots <= FrameTicks
        /\ N <= L \/ L + Dots <= N
    BY LineStarts
  <1> HIDE DEF L, N
  <1>2. G(d) > 1 /\ G(d + 1) = G(d) - 1
    BY <1>1, BeamAssumption
  <1>3. Left(n, line, d) = G(d) /\ Left(n, line, d + 1) = G(d + 1)
    BY Zenon DEF Left, L, N
  <1> QED
    BY <1>2, <1>3

\* A step to the next line reaches it if it is that line, with a whole frame to go
\* to the one after, and otherwise brings it one tick nearer.
LEMMA LeftLine ==
    ASSUME NEW n \in 0 .. Lines - 1, NEW line \in 0 .. Lines - 1
    PROVE  IF NextLy(line) = n
           THEN Left(n, line, Dots - 1) = 1 /\ Left(n, n, 0) = FrameTicks
           ELSE /\ Left(n, line, Dots - 1) > 1
                /\ Left(n, NextLy(line), 0) = Left(n, line, Dots - 1) - 1
  <1> DEFINE L == line * Dots
             N == n * Dots
             M == NextLy(line) * Dots
             G(k, e) == N - (k + e) + (IF k + e < N THEN 0 ELSE FrameTicks)
  <1>1. /\ L \in Nat /\ N \in Nat /\ FrameTicks \in Nat /\ L + Dots <= FrameTicks
        /\ line + 1 = Lines => L + Dots = FrameTicks
        /\ line + 1 < Lines => L + Dots + Dots <= FrameTicks
        /\ line + 1 = n => N = L + Dots
        /\ line + 1 < n => L + Dots + Dots <= N
        /\ n <= line => N <= L
        /\ n = 0 => N = 0
        /\ n > 0 => Dots <= N
    BY LineStarts
  <1>2. M = IF line + 1 = Lines THEN 0 ELSE L + Dots
    BY LineStarts DEF NextLy
  <1>3. /\ Left(n, line, Dots - 1) = G(L, Dots - 1)
        /\ Left(n, NextLy(line), 0) = G(M, 0)
        /\ Left(n, n, 0) = G(N, 0)
    BY Zenon DEF Left, L, N, M
  <1> HIDE DEF L, N, M
  <1>4. CASE line + 1 = Lines
    <2>1. NextLy(line) = 0 /\ M = 0 /\ L + Dots = FrameTicks
      BY <1>1, <1>2, <1>4 DEF NextLy
    <2>2. CASE n = 0
      BY <1>1, <1>3, <2>1, <2>2, BeamAssumption
    <2>3. CASE n > 0
      BY <1>1, <1>3, <1>4, <2>1, <2>3, BeamAssumption
    <2> QED
      BY <2>2, <2>3
  <1>5. CASE line + 1 < Lines
    <2>1. NextLy(line) = line + 1 /\ M = L + Dots /\ L + Dots + Dots <= FrameTicks
      BY <1>1, <1>2, <1>5, BeamAssumption DEF NextLy
    <2>2. CASE n <= line
      BY <1>1, <1>3, <2>1, <2>2, BeamAssumption
    <2>3. CASE n = line + 1
      BY <1>1, <1>3, <2>1, <2>3, BeamAssumption
    <2>4. CASE line + 1 < n
      BY <1>1, <1>3, <2>1, <2>4, BeamAssumption
    <2> QED
      BY <2>2, <2>3, <2>4
  <1> QED
    BY <1>4, <1>5, BeamAssumption

\* What a write leaves: no interrupt, and the time to the next one, unless it is of
\* the registers that time is measured by.
LEMMA Writes ==
    ASSUME Write
    PROVE  /\ raised' = {}
           /\ \/ did' = "write" /\ UNCHANGED <<ly, dot, lyc>>
              \/ did' = "LYC" /\ UNCHANGED <<ly, dot>>
              \/ did' = "LY"
  <1> DEFINE Other == \/ \E b \in BOOLEAN : WriteLCDC(b)
                      \/ \E v \in StatValues : WriteSTAT(v)
                      \/ \E p \in Pages : WriteDMA(p)
                      \/ \E i \in Offsets : WriteOAM(i)
  <1>1. CASE Written("write") /\ Other
    <2>1. UNCHANGED <<ly, dot, lyc>>
      BY <1>1 DEF WriteLCDC, WriteSTAT, WriteDMA, WriteOAM, beam
    <2> QED
      BY <1>1, <2>1 DEF Written
  <1>2. CASE Written("LY") /\ WriteLY
    BY <1>2 DEF Written
  <1>3. CASE Written("LYC") /\ \E v \in LycValues : WriteLYC(v)
    BY <1>3 DEF Written, WriteLYC, beam
  <1> QED
    BY <1>1, <1>2, <1>3 DEF Write

\* And some ticks to go in any case.
LEMMA TimeIsLeft ==
    ASSUME TypeOK', NEW n \in Nat
    PROVE  Left(n, ly', dot') > 0 /\ FrameTicks > 0
  <1>1. Left(n, ly', dot') > 0
    BY LeftPositive DEF TypeOK
  <1>2. FrameTicks > 0
    BY LineStarts, BeamAssumption
  <1> QED
    BY <1>1, <1>2

\* Every step of the beam, seen by line n.
LEMMA BeamStep ==
    ASSUME TypeOK, Within \/ NextLine, NEW n \in 0 .. Lines - 1
    PROVE  IF NextLine /\ ly' = n
           THEN Left(n, ly, dot) = 1 /\ Left(n, ly', dot') = FrameTicks
           ELSE Left(n, ly, dot) > 1 /\ Left(n, ly', dot') = Left(n, ly, dot) - 1
  <1>1. CASE Within
    <2>1. ly' = ly /\ dot' = dot + 1 /\ dot + 1 < Dots /\ ~ NextLine
      BY <1>1 DEF Within, NextLine
    <2>2. Left(n, ly, dot) > 1 /\ Left(n, ly, dot + 1) = Left(n, ly, dot) - 1
      BY <2>1, LeftAlong DEF TypeOK
    <2> QED
      BY <2>1, <2>2
  <1>2. CASE NextLine
    <2>1. ly' = NextLy(ly) /\ dot' = 0 /\ dot = Dots - 1
      BY <1>2, BeamAssumption DEF TypeOK, NextLine
    <2>2. IF NextLy(ly) = n
          THEN Left(n, ly, Dots - 1) = 1 /\ Left(n, n, 0) = FrameTicks
          ELSE /\ Left(n, ly, Dots - 1) > 1
               /\ Left(n, NextLy(ly), 0) = Left(n, ly, Dots - 1) - 1
      BY LeftLine DEF TypeOK
    <2> QED
      BY <1>2, <2>1, <2>2
  <1> QED
    BY <1>1, <1>2

\* Vertical blanks are one frame apart: the display implements the periodic
\* interrupt of module Countdown.
THEOREM VBlanksComeOnTime == Spec => VBlanksOnTime
  <1>1. Init => VBlank!Init
    BY DEF Init, VBlank!Init
  <1>2. TypeOK /\ TypeOK' /\ [Next]_vars => [VBlank!Next]_VBlank!vars
    <2> SUFFICES ASSUME TypeOK, TypeOK', [Next]_vars PROVE [VBlank!Next]_VBlank!vars
      OBVIOUS
    <2>1. Visible \in 0 .. Lines - 1 /\ Visible \in Nat
      BY BeamAssumption
    <2>2. ASSUME Tick, on, Within \/ NextLine PROVE VBlank!Next
      <3>1. "vblank" \in raised' <=> NextLine /\ ly' = Visible
        BY <2>2, BeamAssumption DEF TypeOK, Within, NextLine, LineInterrupts
      <3>2. on' = on /\ did' = "tick"
        BY <2>2 DEF Tick
      <3>3. IF NextLine /\ ly' = Visible
            THEN Left(Visible, ly, dot) = 1 /\ Left(Visible, ly', dot') = FrameTicks
            ELSE /\ Left(Visible, ly, dot) > 1
                 /\ Left(Visible, ly', dot') = Left(Visible, ly, dot) - 1
        BY <2>1, <2>2, BeamStep
      <3> QED
        BY <2>2, <3>1, <3>2, <3>3, Zenon DEF VBlank!Next, VBlank!Count, VBlank!Fire
    <2>6. Left(Visible, ly', dot') > 0 /\ FrameTicks > 0
      BY <2>1, TimeIsLeft
    <2>3. ASSUME Tick, ~on PROVE VBlank!Next
      <3>1. raised' = {} /\ did' = "tick" /\ ~ on' /\ UNCHANGED <<ly, dot>>
        BY <2>3 DEF Tick, beam
      <3>2. Left(Visible, ly', dot') = Left(Visible, ly, dot)
        BY <3>1
      <3> QED
        BY <2>6, <3>1, <3>2 DEF VBlank!Next, VBlank!Pause
    <2>4. CASE Write
      <3>1. CASE did' \in {"write", "LYC"}
        <4>1. raised' = {} /\ UNCHANGED <<ly, dot>>
          BY <2>4, <3>1, Writes
        <4>2. Left(Visible, ly', dot') = Left(Visible, ly, dot)
          BY <4>1
        <4> QED
          BY <2>6, <3>1, <4>1, <4>2 DEF VBlank!Next, VBlank!Pause
      <3>2. CASE did' = "LY"
        BY <2>6, <2>4, <3>2, Writes DEF VBlank!Next, VBlank!Write
      <3> QED
        BY <2>4, <3>1, <3>2, Writes
    <2>5. CASE UNCHANGED vars
      BY <2>5 DEF vars, beam, VBlank!vars
    <2> QED
      BY <2>2, <2>3, <2>4, <2>5 DEF Next, Tick
  <1> QED
    BY <1>1, <1>2, TypeCorrect, PTL DEF Spec, VBlanksOnTime, VBlank!Spec

\* So does the LYC interrupt, when it is the only one enabled in STAT.
THEOREM LycComesOnTime == Spec => LycOnTime
  <1>1. Init => LycInterrupt!Init
    BY DEF Init, LycInterrupt!Init
  <1>2. TypeOK /\ TypeOK' /\ [Next]_vars => [LycInterrupt!Next]_LycInterrupt!vars
    <2> SUFFICES ASSUME TypeOK, TypeOK', [Next]_vars
                 PROVE  [LycInterrupt!Next]_LycInterrupt!vars
      OBVIOUS
    <2>1. ASSUME Tick, on, Within \/ NextLine, enabled = {"lyc"}, lyc < Lines
          PROVE  LycInterrupt!Next
      <3>1. lyc \in 0 .. Lines - 1
        BY <2>1, BeamAssumption DEF TypeOK
      <3>2. "stat" \in raised' <=> NextLine /\ ly' = lyc
        BY <2>1, BeamAssumption DEF TypeOK, Within, NextLine, LineInterrupts, Match
      <3>3. on' = on /\ did' = "tick" /\ lyc' = lyc /\ enabled' = enabled
        BY <2>1 DEF Tick, Within, NextLine
      <3>4. IF NextLine /\ ly' = lyc
            THEN Left(lyc, ly, dot) = 1 /\ Left(lyc, ly', dot') = FrameTicks
            ELSE Left(lyc, ly, dot) > 1 /\ Left(lyc, ly', dot') = Left(lyc, ly, dot) - 1
        BY <2>1, <3>1, BeamStep
      <3> QED
        BY <2>1, <3>2, <3>3, <3>4, Zenon
        DEF LycInterrupt!Next, LycInterrupt!Count, LycInterrupt!Fire
    <2>2. ASSUME Tick, on, Within \/ NextLine, ~ (enabled = {"lyc"} /\ lyc < Lines)
          PROVE  LycInterrupt!Next
      <3>1. did' = "tick" /\ on' = on /\ lyc' = lyc /\ enabled' = enabled
        BY <2>2 DEF Tick, Within, NextLine
      <3>2. enabled = {"lyc"} => "stat" \notin raised'
        BY <2>2, BeamAssumption
        DEF TypeOK, Within, NextLine, NextLy, LineInterrupts, Match
      <3> QED
        BY <2>2, <3>1, <3>2, Zenon DEF LycInterrupt!Next, LycInterrupt!Idle
    <2>6. Left(lyc', ly', dot') > 0 /\ FrameTicks > 0
      BY TimeIsLeft DEF TypeOK
    <2>3. ASSUME Tick, ~on PROVE LycInterrupt!Next
      <3>1. raised' = {} /\ did' = "tick" /\ ~ on' /\ UNCHANGED <<ly, dot, lyc>>
        BY <2>3 DEF Tick, beam
      <3>2. Left(lyc', ly', dot') = Left(lyc, ly, dot)
        BY <3>1
      <3> QED
        BY <2>6, <3>1, <3>2 DEF LycInterrupt!Next, LycInterrupt!Pause
    <2>4. CASE Write
      <3>1. CASE did' = "write"
        <4>1. raised' = {} /\ UNCHANGED <<ly, dot, lyc>>
          BY <2>4, <3>1, Writes
        <4>2. Left(lyc', ly', dot') = Left(lyc, ly, dot)
          BY <4>1
        <4> QED
          BY <2>6, <3>1, <4>1, <4>2 DEF LycInterrupt!Next, LycInterrupt!Pause
      <3>2. CASE did' \in {"LY", "LYC"}
        BY <2>6, <2>4, <3>2, Writes DEF LycInterrupt!Next, LycInterrupt!Write
      <3> QED
        BY <2>4, <3>1, <3>2, Writes
    <2>5. CASE UNCHANGED vars
      BY <2>5 DEF vars, beam, stat, LycInterrupt!vars
    <2> QED
      BY <2>1, <2>2, <2>3, <2>4, <2>5 DEF Next, Tick
  <1> QED
    BY <1>1, <1>2, TypeCorrect, PTL DEF Spec, LycOnTime, LycInterrupt!Spec

-----------------------------------------------------------------------------
(* Frames are whole *)

\* The dots the beam is past, of the columns that are drawn.
Past(p, line, d) ==
    /\ line < Visible /\ p[2] > 0
    /\ p[1] < line \/ (p[1] = line /\ Search + p[2] <= d)

SoFar(line, d) == [p \in Screen |-> IF Past(p, line, d) THEN 1 ELSE 0]

\* In step with the beam, a frame has every dot the beam is past, once, and no other.
KeepsUp == "frame" \notin stale => frame = SoFar(ly, dot)

\* A dot of the screen, its line and its column.
LEMMA ScreenDots ==
    ASSUME NEW p \in Screen
    PROVE  /\ p[1] \in 0 .. Visible - 1 /\ p[2] \in 0 .. DrawEnd - Search - 1
           /\ p = <<p[1], p[2]>>
  BY DEF Screen, Columns

LEMMA DrawnAdds ==
    ASSUME NEW line \in 0 .. Lines - 1, NEW d \in Nat, frame = SoFar(line, d)
    PROVE  Drawn(line, d + 1) = SoFar(line, d + 1)
  <1>1. Search \in Nat /\ DrawEnd \in Nat /\ Visible \in Nat /\ line \in Nat
    BY BeamAssumption
  <1>2. CASE line < Visible /\ Search < d + 1 /\ d + 1 < DrawEnd
    <2> DEFINE q == <<line, (d + 1) - Search>>
    <2>1. Drawn(line, d + 1) = [p \in Screen |-> IF p = q THEN Again(frame[q]) ELSE frame[p]]
      <3>1. Drawn(line, d + 1) = [frame EXCEPT ![q] = Again(@)]
        BY <1>2 DEF Drawn
      <3>2. DOMAIN frame = Screen
        BY DEF SoFar
      <3> QED
        BY <3>1, <3>2, Zenon
    <2>2. q \in Screen
      BY <1>1, <1>2 DEF Screen, Columns
    <2>3. Again(frame[q]) = 1
      <3>1. ~ Past(q, line, d)
        BY <1>1, <1>2 DEF Past
      <3> HIDE DEF q
      <3>2. frame[q] = 0
        BY <2>2, <3>1 DEF SoFar
      <3> QED
        BY <3>2 DEF Again
    <2>4. ASSUME NEW p \in Screen
          PROVE  (IF p = q THEN Again(frame[q]) ELSE frame[p])
                 = IF Past(p, line, d + 1) THEN 1 ELSE 0
      <3>1. frame[p] = IF Past(p, line, d) THEN 1 ELSE 0
        BY DEF SoFar
      <3>2. p = q => Past(p, line, d + 1)
        BY <1>1, <1>2 DEF Past
      <3>3. p # q => (Past(p, line, d + 1) <=> Past(p, line, d))
        BY <1>1, <1>2, ScreenDots DEF Past
      <3> HIDE DEF q
      <3> QED
        BY <2>3, <3>1, <3>2, <3>3
    <2> HIDE DEF q
    <2> QED
      BY <2>1, <2>4, Zenon DEF SoFar
  <1>3. CASE ~ (line < Visible /\ Search < d + 1 /\ d + 1 < DrawEnd)
    <2>1. Drawn(line, d + 1) = frame
      BY <1>3, Zenon DEF Drawn
    <2>2. ASSUME NEW p \in Screen PROVE Past(p, line, d + 1) <=> Past(p, line, d)
      BY <1>1, <1>3, ScreenDots DEF Past
    <2> QED
      BY <2>1, <2>2, Zenon DEF SoFar
  <1> QED
    BY <1>2, <1>3

\* At the end of a line all of it is drawn; at the end of the last, the frame.
LEMMA LineIsDrawn ==
    ASSUME NEW line \in 0 .. Lines - 1
    PROVE  /\ line + 1 = Visible => SoFar(line, Dots - 1) = Whole
           /\ line + 1 < Visible => SoFar(line + 1, 0) = SoFar(line, Dots - 1)
           /\ line >= Visible => SoFar(line, Dots - 1) = Cleared
           /\ SoFar(0, 0) = Cleared
           /\ line >= Visible => SoFar(line, 0) = Cleared
  <1>1. line \in Nat /\ Search \in Nat /\ DrawEnd \in Nat /\ DrawEnd < Dots
        /\ Dots \in Nat /\ Visible \in Nat /\ Visible > 0
    BY BeamAssumption
  <1>2. ASSUME NEW p \in Screen
        PROVE  /\ line + 1 = Visible => (Past(p, line, Dots - 1) <=> p[2] # 0)
               /\ line + 1 < Visible => (Past(p, line + 1, 0) <=> Past(p, line, Dots - 1))
               /\ line >= Visible => ~Past(p, line, Dots - 1) /\ ~Past(p, line, 0)
               /\ ~Past(p, 0, 0)
    BY <1>1, ScreenDots DEF Past
  <1> QED
    BY <1>2, Zenon DEF SoFar, Whole, Cleared

\* The beam draws every dot it passes, and starts each frame with a clear screen.
LEMMA KeepsUpStays ==
    ASSUME TypeOK, KeepsUp, [Next]_vars
    PROVE  KeepsUp'
  <1>1. CASE Within
    <2>1. ly' = ly /\ dot' = dot + 1 /\ frame' = Drawn(ly, dot + 1)
          /\ ("frame" \in stale' <=> "frame" \in stale)
      BY <1>1 DEF Within
    <2>2. ly \in 0 .. Lines - 1 /\ dot \in Nat
      BY BeamAssumption DEF TypeOK
    <2>3. frame = SoFar(ly, dot) => Drawn(ly, dot + 1) = SoFar(ly, dot + 1)
      BY <2>2, DrawnAdds
    <2>4. KeepsUp' <=> ("frame" \notin stale' => frame' = SoFar(ly', dot'))
      BY Zenon DEF KeepsUp, SoFar, Past
    <2> QED
      BY <2>1, <2>3, <2>4, Zenon DEF KeepsUp
  <1>2. CASE NextLine
    <2>1. ly' = NextLy(ly) /\ dot' = 0 /\ frame' = LineFrame(ly') /\ dot = Dots - 1
          /\ stale' = stale \ LineSettles(ly')
      BY <1>2, BeamAssumption DEF TypeOK, NextLine
    <2>2. ly \in 0 .. Lines - 1
      BY DEF TypeOK
    <2>3. KeepsUp' <=> ("frame" \notin stale' => frame' = SoFar(ly', dot'))
      BY Zenon DEF KeepsUp, SoFar, Past
    <2>4. CASE ly' = Visible
      <3>1. Visible \in 0 .. Lines - 1 /\ Visible >= Visible
        BY BeamAssumption
      <3>2. SoFar(Visible, 0) = Cleared
        BY <3>1, LineIsDrawn
      <3>3. frame' = Cleared
        BY <2>1, <2>4, Zenon DEF LineFrame
      <3> QED
        BY <2>1, <2>3, <2>4, <3>2, <3>3, Zenon
    <2>5. CASE ly' # Visible
      <3>1. frame' = frame /\ ("frame" \in stale' <=> "frame" \in stale)
        BY <2>1, <2>5 DEF LineFrame, LineSettles
      <3>2. SoFar(ly', 0) = SoFar(ly, Dots - 1)
        <4>1. CASE ly + 1 = Lines
          <5>1. ly' = 0 /\ ly >= Visible
            BY <2>1, <2>2, <4>1, BeamAssumption DEF NextLy
          <5> QED
            BY <2>2, <5>1, LineIsDrawn
        <4>2. CASE ly + 1 # Lines /\ ly + 1 < Visible
          <5>1. ly' = ly + 1
            BY <2>1, <4>2, Zenon DEF NextLy
          <5> QED
            BY <2>2, <4>2, <5>1, LineIsDrawn
        <4>3. CASE ly + 1 # Lines /\ ~ (ly + 1 < Visible)
          <5>1. ly' = ly + 1
            BY <2>1, <4>3, Zenon DEF NextLy
          <5>2. ly >= Visible /\ ly + 1 >= Visible /\ ly + 1 \in 0 .. Lines - 1
            BY <2>2, <2>5, <4>3, <5>1, BeamAssumption
          <5>3. SoFar(ly, Dots - 1) = Cleared /\ SoFar(ly + 1, 0) = Cleared
            BY <2>2, <5>2, LineIsDrawn
          <5> QED
            BY <5>1, <5>3, Zenon
        <4> QED
          BY <4>1, <4>2, <4>3
      <3> QED
        BY <2>1, <2>3, <3>1, <3>2, Zenon DEF KeepsUp
    <2> QED
      BY <2>4, <2>5
  <1>3. CASE UNCHANGED <<beam, frame, stale>>
    BY <1>3, Zenon DEF KeepsUp, SoFar, Past, beam
  <1>4. CASE Tick
    BY <1>1, <1>2, <1>3, <1>4 DEF Tick
  <1>5. CASE Write
    <2>1. CASE WriteLY
      BY <2>1 DEF WriteLY, KeepsUp
    <2>2. CASE \E v \in StatValues : WriteSTAT(v)
      <3>1. beam' = beam /\ frame' = frame /\ stale' = stale \cup {"mode", "flag"}
        BY <2>2 DEF WriteSTAT
      <3>2. "frame" \in stale' <=> "frame" \in stale
        BY <3>1
      <3> QED
        BY <3>1, <3>2, Zenon DEF KeepsUp, SoFar, Past, beam
    <2>3. CASE \E v \in LycValues : WriteLYC(v)
      <3>1. beam' = beam /\ frame' = frame /\ stale' = stale \cup {"flag"}
        BY <2>3 DEF WriteLYC
      <3>2. "frame" \in stale' <=> "frame" \in stale
        BY <3>1
      <3> QED
        BY <3>1, <3>2, Zenon DEF KeepsUp, SoFar, Past, beam
    <2>4. CASE UNCHANGED <<beam, frame, stale>>
      BY <1>3, <2>4
    <2> QED
      BY <1>5, <2>1, <2>2, <2>3, <2>4 DEF Write, WriteLCDC, WriteDMA, WriteOAM
  <1>6. CASE UNCHANGED vars
    BY <1>3, <1>6 DEF vars
  <1> QED
    BY <1>4, <1>5, <1>6 DEF Next

\* Every frame that goes to the frontend has each of its dots, once, unless LY was
\* written since the frame before: whatever else is written, and however often the
\* display is switched off and on under it.
THEOREM WholeFramesOnly == Spec => FramesAreWhole
  <1>1. Init => KeepsUp
    <2> SUFFICES ASSUME Init PROVE frame = SoFar(ly, dot)
      BY DEF KeepsUp
    <2>1. frame = Cleared /\ ly = 0 /\ dot = 0
      BY DEF Init
    <2>2. SoFar(0, 0) = Cleared
      <3>1. 0 \in 0 .. Lines - 1
        BY BeamAssumption
      <3> QED
        BY <3>1, LineIsDrawn
    <2> QED
      BY <2>1, <2>2, Zenon
  <1>2. TypeOK /\ KeepsUp /\ [Next]_vars => KeepsUp'
    BY KeepsUpStays
  <1>3. TypeOK /\ KeepsUp /\ [Next]_vars
        => [(did' = "tick" /\ "vblank" \in raised' /\ "frame" \notin stale)
            => frame = Whole]_vars
    <2> SUFFICES ASSUME TypeOK, KeepsUp, Next, did' = "tick", "vblank" \in raised',
                        "frame" \notin stale
                 PROVE  frame = Whole
      OBVIOUS
    <2>1. Tick
      BY DEF Next, Write, Written
    <2>2. NextLine
      BY <2>1 DEF Tick, Within
    <2>3. ly' = NextLy(ly) /\ ly' = Visible /\ dot = Dots - 1
      BY <2>2, BeamAssumption DEF TypeOK, NextLine, LineInterrupts
    <2>4. ly + 1 = Visible /\ ly \in 0 .. Lines - 1
      BY <2>3, BeamAssumption DEF TypeOK, NextLy
    <2>5. SoFar(ly, Dots - 1) = Whole
      BY <2>4, LineIsDrawn
    <2> QED
      BY <2>3, <2>5, Zenon DEF KeepsUp
  <1> QED
    BY <1>1, <1>2, <1>3, TypeCorrect, PTL DEF Spec, FramesAreWhole

-----------------------------------------------------------------------------
(* Finite sets in order *)

\* R puts the elements of S in an order.
Orders(R, S) == /\ \A m \in S : <<m, m>> \notin R
                /\ \A m, n \in S : m # n => <<m, n>> \in R \/ <<n, m>> \in R
                /\ \A k, m, n \in S : <<k, m>> \in R /\ <<m, n>> \in R => <<k, n>> \in R

\* Those before an element, and how many they are.
Ahead(R, S, n) == {m \in S : <<m, n>> \in R}
Rank(R, S, n) == Cardinality(Ahead(R, S, n))

\* An element has fewer before it than there are in all.
LEMMA RankType ==
    ASSUME NEW S, IsFiniteSet(S), NEW R, Orders(R, S), NEW n \in S
    PROVE  /\ IsFiniteSet(Ahead(R, S, n))
           /\ Rank(R, S, n) \in 0 .. Cardinality(S) - 1
           /\ Cardinality(S) \in Nat
  <1> DEFINE A == Ahead(R, S, n)
  <1>1. A \in SUBSET S /\ n \notin A
    BY DEF Ahead, Orders
  <1>2. S # A
    BY <1>1
  <1> HIDE DEF A
  <1>3. IsFiniteSet(A) /\ Cardinality(A) <= Cardinality(S) /\ Cardinality(A) # Cardinality(S)
    BY <1>1, <1>2, FS_Subset
  <1>4. Cardinality(A) \in Nat /\ Cardinality(S) \in Nat
    BY <1>3, FS_CardinalityType
  <1>5. Rank(R, S, n) = Cardinality(A)
    BY DEF Rank, A
  <1> QED
    BY <1>3, <1>4, <1>5 DEF A

\* And fewer than one that comes behind it.
LEMMA RankGrows ==
    ASSUME NEW S, IsFiniteSet(S), NEW R, Orders(R, S), NEW m \in S, NEW n \in S, <<m, n>> \in R
    PROVE  Rank(R, S, m) < Rank(R, S, n)
  <1> DEFINE A == Ahead(R, S, m)
             B == Ahead(R, S, n)
  <1>1. A \in SUBSET B /\ A # B
    BY DEF Ahead, Orders
  <1>2. IsFiniteSet(B)
    BY RankType
  <1>3. Cardinality(A) \in Nat /\ Cardinality(B) \in Nat
    BY RankType DEF Rank
  <1> HIDE DEF A, B
  <1>4. Cardinality(A) < Cardinality(B)
    BY <1>1, <1>2, <1>3, FS_Subset
  <1> QED
    BY <1>4 DEF Rank, A, B

\* Every rank is that of exactly one element.
LEMMA RanksAreTaken ==
    ASSUME NEW S, IsFiniteSet(S), NEW R, Orders(R, S), NEW i \in 0 .. Cardinality(S) - 1
    PROVE  /\ \E n \in S : Rank(R, S, n) = i
           /\ \A m, n \in S : Rank(R, S, m) = Rank(R, S, n) => m = n
  <1> DEFINE T == 0 .. Cardinality(S) - 1
             f == [n \in S |-> Rank(R, S, n)]
  <1>1. \A m, n \in S : Rank(R, S, m) = Rank(R, S, n) => m = n
    <2> SUFFICES ASSUME NEW m \in S, NEW n \in S, Rank(R, S, m) = Rank(R, S, n), m # n PROVE FALSE
      OBVIOUS
    <2>1. <<m, n>> \in R \/ <<n, m>> \in R
      BY DEF Orders
    <2>2. Rank(R, S, m) \in Nat /\ Rank(R, S, n) \in Nat
      BY RankType
    <2> QED
      BY <2>1, <2>2, RankGrows
  <1>2. Cardinality(S) \in Nat
    BY FS_CardinalityType
  <1>3. f \in [S -> T]
    BY RankType
  <1>4. f \in Injection(S, T)
    BY <1>1, <1>3 DEF Injection, IsInjective
  <1>5. IsFiniteSet(T) /\ Cardinality(T) = Cardinality(S)
    BY <1>2, FS_Interval
  <1> HIDE DEF f
  <1>6. f \in Surjection(S, T)
    BY <1>4, <1>5, FS_Injection
  <1>7. PICK n \in S : f[n] = i
    BY <1>6 DEF Surjection
  <1> QED
    BY <1>1, <1>7 DEF f

\* One of them is the first.
LEMMA FirstOf ==
    ASSUME NEW S, IsFiniteSet(S), NEW R, Orders(R, S), S # {}
    PROVE  \E n \in S : \A m \in S : m # n => <<n, m>> \in R
  <1>1. Cardinality(S) \in Nat /\ Cardinality(S) # 0
    BY FS_CardinalityType, FS_EmptySet
  <1>2. PICK n \in S : Rank(R, S, n) = 0
    BY <1>1, RanksAreTaken
  <1>3. \A m \in S : <<m, n>> \notin R
    BY <1>2, RankGrows, RankType
  <1> QED
    BY <1>3 DEF Orders

\* The least of some numbers.
LEMMA MinIs ==
    ASSUME NEW k \in Nat, NEW I \in SUBSET (1 .. k), I # {}
    PROVE  Min(I) \in I /\ \A j \in I : Min(I) <= j
  <1> DEFINE R == {p \in I \X I : p[1] < p[2]}
  <1>1. \A m, n \in I : <<m, n>> \in R <=> m < n
    OBVIOUS
  <1>2. IsFiniteSet(I)
    <2>1. IsFiniteSet(1 .. k)
      BY FS_Interval
    <2> QED
      BY <2>1, FS_Subset
  <1> HIDE DEF R
  <1>3. Orders(R, I)
    BY <1>1 DEF Orders
  <1>4. PICK n \in I : \A m \in I : m # n => <<n, m>> \in R
    BY <1>2, <1>3, FirstOf
  <1>5. ASSUME NEW m \in I PROVE n <= m
    <2>1. n \in Int /\ m \in Int
      OBVIOUS
    <2>2. n = m \/ n < m
      BY <1>1, <1>4
    <2> QED
      BY <2>1, <2>2
  <1> DEFINE Least(x) == \A y \in I : x <= y
             least == CHOOSE x \in I : Least(x)
  <1>6. \E x \in I : Least(x)
    BY <1>5
  <1> HIDE DEF Least
  <1>7. least \in I /\ Least(least)
    BY <1>6
  <1>8. Min(I) = least
    BY DEF Min, Least
  <1> QED
    BY <1>7, <1>8 DEF Least

-----------------------------------------------------------------------------
(* Bytes and the rows and columns of tiles *)

\* Quotient and remainder are the only numbers that fit.
LEMMA DivisionIs ==
    ASSUME NEW a \in Int, NEW h \in Nat \ {0}, NEW d \in Int, NEW r \in 0 .. h - 1,
           a = d * h + r
    PROVE  a % h = r /\ a \div h = d
  <1> DEFINE e == a \div h
             q == a % h
  <1>1. e \in Int /\ q \in 0 .. h - 1 /\ a = e * h + q
    OBVIOUS
  <1> HIDE DEF e, q
  <1>2. (d - e) * h = q - r
    BY <1>1
  <1>3. d = e
    <2>1. ASSUME d > e PROVE FALSE
      <3>1. d - e >= 1 /\ d - e \in Int
        BY <1>1, <2>1
      <3>2. (d - e) * h >= h
        BY <3>1
      <3> QED
        BY <1>1, <1>2, <3>2
    <2>2. ASSUME d < e PROVE FALSE
      <3>1. e - d >= 1 /\ e - d \in Int
        BY <1>1, <2>2
      <3>2. (e - d) * h >= h
        BY <3>1
      <3>3. (e - d) * h = r - q
        BY <1>1, <1>2
      <3> QED
        BY <1>1, <3>2, <3>3
    <2> QED
      BY <1>1, <2>1, <2>2
  <1>4. r = q
    BY <1>1, <1>2, <1>3
  <1> QED
    BY <1>3, <1>4 DEF e, q

\* The low bits of a number are those of its byte.
LEMMA LowBits ==
    ASSUME NEW z \in Int, NEW b \in Nat \ {0}, NEW h \in Nat \ {0}, b % h = 0,
           NEW e \in Int, NEW r \in 0 .. h - 1, z = e * h + r
    PROVE  (z % b) % h = r
  <1> DEFINE d == z \div b
             f == b \div h
             y == z % b
  <1>1. d \in Int /\ y \in Int /\ z = d * b + y
    OBVIOUS
  <1>2. f \in Int /\ b = f * h
    OBVIOUS
  <1> HIDE DEF d, f, y
  <1>3. d * b = (d * f) * h
    BY <1>1, <1>2
  <1>4. y = (e - d * f) * h + r
    BY <1>1, <1>2, <1>3
  <1>5. e - d * f \in Int
    BY <1>1, <1>2
  <1>6. y % h = r
    BY <1>1, <1>4, <1>5, DivisionIs
  <1> QED
    BY <1>6 DEF y

\* The bytes of an entry are bytes.
LEMMA BytesAre ==
    ASSUME TypeOK, NEW n \in Entries
    PROVE  /\ YByte(oam, n) \in 0 .. ByteMod - 1
           /\ XByte(oam, n) \in 0 .. ByteMod - 1
           /\ TileByte(oam, n) \in 0 .. ByteMod - 1
           /\ n \in Nat
  <1>1. OamSize = (OamSize \div 4) * 4
    BY EntryAssumption, OamAssumption
  <1>2. OamSize \div 4 \in Int
    BY OamAssumption
  <1>3. n \in Nat /\ n <= (OamSize \div 4) - 1
    BY <1>2 DEF Entries
  <1>4. ASSUME NEW k \in 0 .. 2
        PROVE  Image[oam[4 * n + k]][4 * n + k] \in 0 .. ByteMod - 1
    <2>1. 4 * n + k \in Offsets
      BY <1>1, <1>2, <1>3 DEF Offsets
    <2>2. oam[4 * n + k] \in Pages \cup {"cpu"}
      BY <2>1 DEF TypeOK
    <2> QED
      BY <2>2, ImageAssumption
  <1>5. 4 * n + 0 = 4 * n
    BY <1>3
  <1>6. YByte(oam, n) \in 0 .. ByteMod - 1
    BY <1>4, <1>5, 0 \in 0 .. 2 DEF YByte
  <1>7. XByte(oam, n) \in 0 .. ByteMod - 1
    BY <1>4, 1 \in 0 .. 2 DEF XByte
  <1>8. TileByte(oam, n) \in 0 .. ByteMod - 1
    BY <1>4, 2 \in 0 .. 2 DEF TileByte
  <1> QED
    BY <1>3, <1>6, <1>7, <1>8

\* The height of a sprite divides a byte.
LEMMA HeightIs ==
    ASSUME tall \in BOOLEAN
    PROVE  /\ Height \in Nat \ {0} /\ ByteMod % Height = 0
           /\ \E e \in Int : 2 * Rows = e * Height
  <1>1. Rows \in Nat \ {0} /\ ByteMod \in Nat \ {0} /\ 2 * Rows \in Nat \ {0}
    BY TileAssumption
  <1>2. CASE tall
    <2>1. Height = 2 * Rows /\ 2 * Rows = 1 * Height
      BY <1>1, <1>2 DEF Height
    <2> QED
      BY <1>1, <2>1, TileAssumption
  <1>3. CASE ~ tall
    <2>1. Height = Rows /\ 2 * Rows = 2 * Height
      BY <1>1, <1>3 DEF Height
    <2> DEFINE f == ByteMod \div (2 * Rows)
    <2>2. f \in Int /\ ByteMod = f * (2 * Rows)
      BY <1>1, TileAssumption
    <2> HIDE DEF f
    <2>3. ByteMod = (2 * f) * Rows + 0 /\ 2 * f \in Int
      BY <1>1, <2>2
    <2>4. ByteMod % Rows = 0
      BY <1>1, <2>3, DivisionIs
    <2> QED
      BY <1>1, <2>1, <2>4
  <1> QED
    BY <1>2, <1>3

\* On a line of the sprite the row is the one below its top, or mirrored.
LEMMA RowIs ==
    ASSUME TypeOK, tall \in BOOLEAN, NEW n \in Entries, OnLine(oam, n)
    PROVE  /\ Row(oam, n) = IF "yflip" \in Attributes(oam, n)
                            THEN Top(oam, n) + Height - 1 - ly ELSE ly - Top(oam, n)
           /\ Row(oam, n) \in 0 .. Height - 1
  <1> DEFINE z == ly - YByte(oam, n)
             r == ly - Top(oam, n)
  <1>1. PICK e \in Int : 2 * Rows = e * Height
    BY HeightIs
  <1>2. Rows \in Nat /\ ly \in Int /\ YByte(oam, n) \in Int /\ Height \in Nat \ {0}
    BY BytesAre, HeightIs, TileAssumption, BeamAssumption DEF TypeOK
  <1>3. Top(oam, n) = YByte(oam, n) - 2 * Rows /\ Top(oam, n) \in Int
    BY <1>2 DEF Top
  <1>4. r \in 0 .. Height - 1
    BY <1>2, <1>3 DEF OnLine
  <1>5. z \in Int /\ z = (- e) * Height + r
    <2>1. z = r - 2 * Rows
      BY <1>2, <1>3
    <2>2. (- e) * Height = - (2 * Rows)
      BY <1>1, <1>2
    <2> QED
      BY <1>2, <1>4, <2>1, <2>2
  <1>6. (z % ByteMod) % Height = r
    <2> HIDE DEF z, r
    <2>1. - e \in Int /\ ByteMod \in Nat \ {0}
      BY TileAssumption
    <2> QED
      BY <1>2, <1>4, <1>5, <2>1, LowBits, HeightIs
  <1>7. Row(oam, n) = IF "yflip" \in Attributes(oam, n) THEN (Height - 1) - r ELSE r
    BY <1>6 DEF Row
  <1>8. (Height - 1) - r = Top(oam, n) + Height - 1 - ly
    BY <1>2, <1>3
  <1>9. (Height - 1) - r \in 0 .. Height - 1
    BY <1>2, <1>4
  <1> QED
    BY <1>4, <1>7, <1>8, <1>9

\* On a column of the sprite the column is the one beside its left edge, or mirrored.
LEMMA ColumnIs ==
    ASSUME TypeOK, NEW n \in Entries, NEW col \in Int,
           Origin(oam, n) <= col, col < Origin(oam, n) + Cols
    PROVE  Column(oam, n, col) = IF "xflip" \in Attributes(oam, n)
                                 THEN Origin(oam, n) + Cols - 1 - col ELSE col - Origin(oam, n)
  <1> DEFINE z == col - XByte(oam, n)
             r == col - Origin(oam, n)
  <1>1. Cols \in Nat \ {0} /\ XByte(oam, n) \in Int
    BY BytesAre, TileAssumption
  <1>2. Origin(oam, n) = XByte(oam, n) - Cols
    BY DEF Origin
  <1>3. r \in 0 .. Cols - 1 /\ z \in Int /\ z = (-1) * Cols + r
    BY <1>1, <1>2
  <1>4. (z % ByteMod) % Cols = r
    <2>1. PICK e \in Int : e = -1
      OBVIOUS
    <2>2. z \in Int /\ r \in 0 .. Cols - 1 /\ z = e * Cols + r
      BY <1>3, <2>1
    <2>3. Cols \in Nat \ {0} /\ ByteMod \in Nat \ {0} /\ ByteMod % Cols = 0
      BY TileAssumption
    <2> HIDE DEF z, r
    <2> QED
      BY <2>2, <2>3, LowBits, ZenonT(30)
  <1>5. Column(oam, n, col) = IF "xflip" \in Attributes(oam, n) THEN (Cols - 1) - r ELSE r
    BY <1>4 DEF Column
  <1>6. (Cols - 1) - r = Origin(oam, n) + Cols - 1 - col
    BY <1>1, <1>2
  <1> QED
    BY <1>5, <1>6

\* The tile of a row of a tall sprite.
LEMMA TileIs ==
    ASSUME TypeOK, tall \in BOOLEAN, NEW n \in Entries, OnLine(oam, n)
    PROVE  Tile(oam, n) =
              LET t == TileByte(oam, n)
              IN  IF ~tall THEN t ELSE IF Row(oam, n) < Rows THEN t - (t % 2) ELSE (t - (t % 2)) + 1
  <1>1. CASE ~ tall
    BY <1>1 DEF Tile
  <1>2. CASE tall
    <2> DEFINE r == Row(oam, n)
               t == TileByte(oam, n)
    <2>1. r \in 0 .. 2 * Rows - 1 /\ Rows \in Nat \ {0}
      BY <1>2, RowIs, TileAssumption DEF Height
    <2>2. t \in Nat
      <3>1. ByteMod \in Nat /\ t \in 0 .. ByteMod - 1
        BY BytesAre, TileAssumption
      <3> QED
        BY <3>1
    <2>3. Tile(oam, n) = (t - (t % 2)) + ((r \div Rows) % 2)
      BY <1>2 DEF Tile
    <2> HIDE DEF r, t
    <2>4. CASE r < Rows
      <3>1. r = 0 * Rows + r /\ r \in 0 .. Rows - 1
        BY <2>1, <2>4
      <3>2. r \div Rows = 0
        BY <2>1, <3>1, DivisionIs
      <3>3. Tile(oam, n) = t - (t % 2)
        BY <2>2, <2>3, <3>2
      <3> QED
        BY <1>2, <2>4, <3>3 DEF r, t
    <2>5. CASE ~ (r < Rows)
      <3>1. r = 1 * Rows + (r - Rows) /\ r - Rows \in 0 .. Rows - 1
        BY <2>1, <2>5
      <3>2. r \div Rows = 1
        BY <2>1, <3>1, DivisionIs
      <3>3. Tile(oam, n) = (t - (t % 2)) + 1
        BY <2>2, <2>3, <3>2
      <3> QED
        BY <1>2, <2>5, <3>3 DEF r, t
    <2> QED
      BY <2>4, <2>5
  <1> QED
    BY <1>1, <1>2

\* A sprite on the line shows at a column exactly if it should.
LEMMA ShowsIs ==
    ASSUME TypeOK, tall \in BOOLEAN, NEW n \in Entries, OnLine(oam, n), NEW col \in Int, NEW covered
    PROVE  ShowsAt(oam, n, col, covered) <=>
              Dot(n, col) /\ ~ (covered /\ "behind" \in Attributes(oam, n))
  <1> DEFINE row == IF "yflip" \in Attributes(oam, n) THEN Top(oam, n) + Height - 1 - ly
                    ELSE ly - Top(oam, n)
             c == IF "xflip" \in Attributes(oam, n) THEN Origin(oam, n) + Cols - 1 - col
                  ELSE col - Origin(oam, n)
             t == TileByte(oam, n)
             tile == IF ~tall THEN t ELSE IF row < Rows THEN t - (t % 2) ELSE (t - (t % 2)) + 1
             In == Origin(oam, n) <= col /\ col < Origin(oam, n) + Cols
             Free == ~ (covered /\ "behind" \in Attributes(oam, n))
  <1>1. Row(oam, n) = row
    BY RowIs
  <1>2. Tile(oam, n) = tile
    BY <1>1, TileIs
  <1>3. In => Column(oam, n, col) = c
    BY ColumnIs
  <1>4. In <=> c \in 0 .. Cols - 1
    <2>1. Origin(oam, n) \in Int /\ Cols \in Nat
      BY BytesAre, TileAssumption DEF Origin
    <2> QED
      BY <2>1
  <1>5. Dot(n, col) <=> c \in 0 .. Cols - 1 /\ <<tile, row % Rows, c>> \in Opaque
    BY DEF Dot
  <1>6. ShowsAt(oam, n, col, covered) <=>
           In /\ Free /\ <<Tile(oam, n), Row(oam, n) % Rows, Column(oam, n, col)>> \in Opaque
    BY DEF ShowsAt
  <1> HIDE DEF row, c, tile, In
  <1> QED
    BY <1>1, <1>2, <1>3, <1>4, <1>5, <1>6

-----------------------------------------------------------------------------
(* The list of a line and the sprite that shows *)

\* Sprites as they are drawn over one another, those of the line, and those chosen.
InFront == {p \in Entries \X Entries : Before(oam, p[1], p[2])}
Crossed == {n \in Entries : OnLine(oam, n)}
Chosen == First(Crossed)

\* Sprites in front of one another are in order, by column and address.
LEMMA ChosenInOrder ==
    ASSUME TypeOK
    PROVE  /\ IsFiniteSet(Crossed) /\ IsFiniteSet(Chosen)
           /\ Chosen \subseteq Crossed /\ Crossed \subseteq Entries
           /\ Orders(InFront, Chosen)
  <1>1. OamSize \div 4 \in Int
    BY OamAssumption
  <1>2. IsFiniteSet(Entries)
    BY <1>1, FS_Interval DEF Entries
  <1>3. Crossed \in SUBSET Entries /\ Chosen \in SUBSET Entries /\ Chosen \subseteq Crossed
    BY DEF Crossed, Chosen, First
  <1>4. IsFiniteSet(Crossed) /\ IsFiniteSet(Chosen)
    BY <1>2, <1>3, FS_Subset
  <1>5. \A n \in Entries : Origin(oam, n) \in Int /\ n \in Int
    BY BytesAre, TileAssumption DEF Origin
  <1>6. \A m, n \in Entries : <<m, n>> \in InFront <=>
            \/ Origin(oam, m) < Origin(oam, n)
            \/ Origin(oam, m) = Origin(oam, n) /\ m < n
    BY DEF InFront, Before
  <1>7. Orders(InFront, Entries)
    BY <1>5, <1>6 DEF Orders
  <1>8. Orders(InFront, Chosen)
    BY <1>3, <1>7 DEF Orders
  <1> QED
    BY <1>3, <1>4, <1>8

\* The list holds the chosen sprites, each once, in order.
LEMMA ListIs ==
    ASSUME TypeOK, NEW l, l = DetermineLineSprites(oam)
    PROVE  /\ Len(l) \in Nat /\ DOMAIN l = 1 .. Len(l)
           /\ \A i \in 1 .. Len(l) : l[i] \in Chosen
           /\ \A n \in Chosen : \E i \in 1 .. Len(l) : l[i] = n
           /\ \A i, j \in 1 .. Len(l) : i < j => <<l[i], l[j]>> \in InFront
  <1> DEFINE size == Cardinality(Chosen)
  <1>1. IsFiniteSet(Chosen) /\ Orders(InFront, Chosen) /\ Chosen \subseteq Entries
    BY ChosenInOrder
  <1>2. size \in Nat
    BY <1>1, FS_CardinalityType
  <1>3. \A n \in Chosen : {m \in Chosen : Before(oam, m, n)} = Ahead(InFront, Chosen, n)
    BY <1>1 DEF Ahead, InFront
  <1>4. l = [i \in 1 .. size |->
                CHOOSE n \in Chosen : Cardinality({m \in Chosen : Before(oam, m, n)}) = i - 1]
    BY DEF DetermineLineSprites, Chosen, Crossed
  <1>5. Len(l) = size /\ DOMAIN l = 1 .. size
    <2> HIDE DEF size
    <2> QED
      BY <1>2, <1>4
  <1>6. ASSUME NEW i \in 1 .. size
        PROVE  l[i] \in Chosen /\ Rank(InFront, Chosen, l[i]) = i - 1
    <2> DEFINE Has(n) == Cardinality({m \in Chosen : Before(oam, m, n)}) = i - 1
               at == CHOOSE n \in Chosen : Has(n)
    <2>1. i - 1 \in 0 .. Cardinality(Chosen) - 1
      BY <1>2
    <2>2. PICK n \in Chosen : Rank(InFront, Chosen, n) = i - 1
      BY <1>1, <2>1, RanksAreTaken
    <2>3. \A m \in Chosen : Has(m) <=> Rank(InFront, Chosen, m) = i - 1
      BY <1>3 DEF Rank
    <2>4. l[i] = at
      BY <1>4
    <2> HIDE DEF Has
    <2>5. at \in Chosen /\ Has(at)
      BY <2>2, <2>3
    <2> QED
      BY <2>3, <2>4, <2>5
  <1>7. ASSUME NEW n \in Chosen PROVE \E i \in 1 .. size : l[i] = n
    <2> DEFINE r == Rank(InFront, Chosen, n)
    <2>1. r \in 0 .. size - 1
      BY <1>1, RankType
    <2>2. PICK i \in 1 .. size : i - 1 = r
      <3> HIDE DEF r, size
      <3>1. r + 1 \in 1 .. size /\ (r + 1) - 1 = r
        BY <1>2, <2>1
      <3> QED
        BY <3>1
    <2>3. l[i] \in Chosen /\ Rank(InFront, Chosen, l[i]) = r
      BY <1>6, <2>2
    <2>4. l[i] = n
      BY <1>1, <2>1, <2>3, RanksAreTaken
    <2> QED
      BY <2>4
  <1>8. ASSUME NEW i \in 1 .. size, NEW j \in 1 .. size, i < j
        PROVE  <<l[i], l[j]>> \in InFront
    <2>1. /\ l[i] \in Chosen /\ Rank(InFront, Chosen, l[i]) = i - 1
          /\ l[j] \in Chosen /\ Rank(InFront, Chosen, l[j]) = j - 1
      BY <1>6
    <2>2. ~ (j - 1 < i - 1) /\ i - 1 # j - 1
      BY <1>2, <1>8
    <2>3. l[i] # l[j]
      BY <2>1, <2>2
    <2>4. <<l[j], l[i]>> \notin InFront
      BY <1>1, <2>1, <2>2, RankGrows
    <2> QED
      BY <1>1, <2>1, <2>3, <2>4 DEF Orders
  <1> HIDE DEF size
  <1> QED
    BY <1>2, <1>5, <1>6, <1>7, <1>8

\* Counting a sprite with those of lower addresses, or only those.
LEMMA FirstIs ==
    ASSUME TypeOK, NEW n \in Crossed
    PROVE  n \in Chosen <=> Cardinality({m \in Crossed : m <= n}) <= MaxSprites
  <1> DEFINE A == {m \in Crossed : m < n}
             B == {m \in Crossed : m <= n}
  <1>1. \A m \in Crossed : m \in Int
    BY ChosenInOrder, BytesAre
  <1>2. B = A \cup {n} /\ n \notin A /\ A \in SUBSET Crossed
    BY <1>1
  <1>3. n \in Chosen <=> Cardinality(A) < MaxSprites
    BY DEF Chosen, First
  <1> HIDE DEF A, B
  <1>4. IsFiniteSet(A)
    BY <1>2, ChosenInOrder, FS_Subset
  <1>5. Cardinality(B) = Cardinality(A) + 1 /\ Cardinality(A) \in Nat
    BY <1>2, <1>4, FS_AddElement, FS_CardinalityType
  <1>6. MaxSprites \in Nat
    BY TileAssumption
  <1>7. n \in Chosen <=> Cardinality(B) <= MaxSprites
    BY <1>3, <1>5, <1>6
  <1> QED
    BY <1>7 DEF B

\* The first sprite of the list that shows is the foremost of those that should.
LEMMA ForemostShows ==
    ASSUME TypeOK, tall \in BOOLEAN, line_sprites = DetermineLineSprites(oam),
           NEW col \in Int, NEW covered
    PROVE  RenderSpriteDot(TRUE, col, covered) = Foremost(col, covered)
  <1> DEFINE l == line_sprites
             Should(n) == Dot(n, col) /\ ~ (covered /\ "behind" \in Attributes(oam, n))
             I == {i \in 1 .. Len(l) : ShowsAt(oam, l[i], col, covered)}
             seen == {n \in Chosen : Should(n)}
             Leads(n) == \A m \in seen \ {n} : \/ XByte(oam, n) < XByte(oam, m)
                                               \/ XByte(oam, n) = XByte(oam, m) /\ n < m
  <1>1. /\ Len(l) \in Nat
        /\ \A i \in 1 .. Len(l) : l[i] \in Chosen
        /\ \A n \in Chosen : \E i \in 1 .. Len(l) : l[i] = n
        /\ \A i, j \in 1 .. Len(l) : i < j => <<l[i], l[j]>> \in InFront
    BY ListIs
  <1>2. Chosen \subseteq Crossed /\ Crossed \subseteq Entries
    BY ChosenInOrder
  <1>3. \A n \in Chosen : ShowsAt(oam, n, col, covered) <=> Should(n)
    BY <1>2, ShowsIs DEF Crossed
  <1>4. RenderSpriteDot(TRUE, col, covered) = IF I = {} THEN None ELSE l[Min(I)]
    <2>1. RenderSpriteDot(TRUE, col, covered) =
             LET i == IF I # {} THEN Min(I) ELSE 0 IN IF i # 0 THEN l[i] ELSE None
      BY DEF RenderSpriteDot, SelectInSeq
    <2>2. I \in SUBSET (1 .. Len(l))
      OBVIOUS
    <2> HIDE DEF I
    <2>3. ASSUME I # {} PROVE Min(I) # 0
      <3>1. Min(I) \in I
        BY <1>1, <2>2, <2>3, MinIs
      <3>2. Min(I) \in 1 .. Len(l)
        BY <2>2, <3>1
      <3> QED
        BY <1>1, <3>2
    <2> QED
      BY <2>1, <2>3
  <1>5. Foremost(col, covered) = IF seen = {} THEN None ELSE CHOOSE n \in seen : Leads(n)
    <2>1. {n \in Entries : ly - Top(oam, n) \in 0 .. Height - 1} = Crossed
      <3>1. ly \in Int /\ Height \in Int
        BY HeightIs, BeamAssumption DEF TypeOK
      <3>2. \A n \in Entries : Top(oam, n) \in Int
        BY BytesAre, TileAssumption DEF Top
      <3>3. \A n \in Entries : ly - Top(oam, n) \in 0 .. Height - 1 <=> OnLine(oam, n)
        BY <3>1, <3>2 DEF OnLine
      <3> QED
        BY <3>3 DEF Crossed
    <2> DEFINE Seen(S) == {n \in S : /\ Cardinality({m \in S : m <= n}) <= MaxSprites
                                     /\ Dot(n, col)
                                     /\ ~ (covered /\ "behind" \in Attributes(oam, n))}
               Best(S) == IF S = {} THEN None
                          ELSE CHOOSE n \in S : \A m \in S \ {n} :
                                  \/ XByte(oam, n) < XByte(oam, m)
                                  \/ XByte(oam, n) = XByte(oam, m) /\ n < m
    <2>2. Foremost(col, covered) =
             Best(Seen({n \in Entries : ly - Top(oam, n) \in 0 .. Height - 1}))
      BY DEF Foremost
    <2>3. seen = Seen(Crossed)
      BY <1>2, FirstIs
    <2>4. Best(seen) = IF seen = {} THEN None ELSE CHOOSE n \in seen : Leads(n)
      OBVIOUS
    <2> HIDE DEF Seen, Best, seen, Leads
    <2> QED
      BY <2>1, <2>2, <2>3, <2>4
  <1>6. CASE I = {}
    <2>1. seen = {}
      BY <1>1, <1>3, <1>6
    <2> QED
      BY <1>4, <1>5, <1>6, <2>1
  <1>7. CASE I # {}
    <2> DEFINE i == Min(I)
    <2>1. i \in I /\ \A j \in I : i <= j
      <3>1. I \in SUBSET (1 .. Len(l))
        OBVIOUS
      <3> HIDE DEF I
      <3> QED
        BY <1>1, <1>7, <3>1, MinIs
    <2> HIDE DEF i
    <2>2. l[i] \in seen
      BY <1>1, <1>3, <2>1
    <2>3. \A m, n \in Entries : <<m, n>> \in InFront =>
              \/ XByte(oam, m) < XByte(oam, n)
              \/ XByte(oam, m) = XByte(oam, n) /\ m < n
      <3>1. \A n \in Entries : XByte(oam, n) \in Int /\ Cols \in Int
        BY BytesAre, TileAssumption
      <3> QED
        BY <3>1 DEF InFront, Before, Origin
    <2>4. ASSUME NEW m \in seen, m # l[i] PROVE <<l[i], m>> \in InFront
      <3>1. PICK j \in 1 .. Len(l) : l[j] = m
        BY <1>1
      <3>2. j \in I
        BY <1>1, <1>3, <3>1
      <3>3. i < j
        BY <1>1, <2>1, <2>4, <3>1, <3>2
      <3> QED
        BY <1>1, <2>1, <3>1, <3>3
    <2>5. Leads(l[i])
      BY <1>2, <2>2, <2>3, <2>4
    <2>6. ASSUME NEW n \in seen, Leads(n) PROVE n = l[i]
      <3>1. XByte(oam, n) \in Int /\ XByte(oam, l[i]) \in Int /\ n \in Int /\ l[i] \in Int
        BY <1>2, <2>2, BytesAre
      <3> SUFFICES ASSUME n # l[i] PROVE FALSE
        OBVIOUS
      <3>2. \/ XByte(oam, n) < XByte(oam, l[i])
            \/ XByte(oam, n) = XByte(oam, l[i]) /\ n < l[i]
        BY <2>2, <2>6
      <3>3. \/ XByte(oam, l[i]) < XByte(oam, n)
            \/ XByte(oam, l[i]) = XByte(oam, n) /\ l[i] < n
        BY <2>5
      <3> QED
        BY <3>1, <3>2, <3>3
    <2> HIDE DEF seen, Leads, I
    <2>7. (CHOOSE n \in seen : Leads(n)) = l[i]
      BY <2>2, <2>5, <2>6
    <2>8. seen # {}
      BY <2>2
    <2> QED
      BY <1>4, <1>5, <1>7, <2>7, <2>8 DEF i
  <1> QED
    BY <1>6, <1>7

-----------------------------------------------------------------------------
(* The sprites of every state *)

\* Every step with sprites is one of the display without.
LEMMA SpritesAreOnLCD == SpriteSpec => Spec
  <1>1. SpriteInit => Init
    BY DEF SpriteInit
  <1>2. [SpriteNext]_spriteVars => [Next]_vars
    BY DEF SpriteNext, SpriteTick, SpriteWrite, WriteTall, Next, Write, spriteVars
  <1> QED
    BY <1>1, <1>2, PTL DEF SpriteSpec, Spec

\* The invariant: a list that is fresh is that of OAM as it is.
ListInv == tall \in BOOLEAN /\ (fresh => line_sprites = DetermineLineSprites(oam))

\* The list made at the first dot is that of the state behind it.
LEMMA ListKept ==
    ASSUME Tick, UNCHANGED tall, FirstDot
    PROVE  DetermineLineSprites(oam') = DetermineLineSprites(oam)'
  <1>1. ly' = ly
    BY DEF Tick, Within, NextLine, FirstDot
  <1> QED
    BY <1>1 DEF DetermineLineSprites, Before, Origin, OnLine, Top, Height, XByte, YByte

\* One that was fresh and is not touched stays that of OAM.
LEMMA ListStays ==
    ASSUME oam' = oam, ly' = ly, tall' = tall
    PROVE  DetermineLineSprites(oam)' = DetermineLineSprites(oam)
  BY DEF DetermineLineSprites, Before, Origin, OnLine, Top, Height, XByte, YByte

\* The invariant holds in every state.
LEMMA ListInductive == SpriteSpec => []ListInv
  <1>1. SpriteInit => ListInv
    BY DEF SpriteInit, ListInv
  <1>2. ListInv /\ [SpriteNext]_spriteVars => ListInv'
    <2> SUFFICES ASSUME ListInv, [SpriteNext]_spriteVars PROVE ListInv'
      OBVIOUS
    <2>1. CASE SpriteTick
      <3>1. Tick /\ Select /\ tall' = tall
        BY <2>1 DEF SpriteTick
      <3>2. ASSUME fresh' PROVE line_sprites' = DetermineLineSprites(oam)'
        <4>1. CASE FirstDot
          BY <3>1, <4>1, ListKept DEF Select
        <4>2. CASE ~ FirstDot
          <5>1. fresh /\ oam' = oam /\ ly' = ly /\ line_sprites' = line_sprites
            BY <3>1, <3>2, <4>2 DEF Select
          <5> QED
            BY <3>1, <5>1, ListStays DEF ListInv
        <4> QED
          BY <4>1, <4>2
      <3> QED
        BY <3>1, <3>2 DEF ListInv
    <2>2. CASE SpriteWrite
      <3>1. /\ line_sprites' = line_sprites
            /\ fresh' = (fresh /\ oam' = oam /\ ly' = ly /\ tall' = tall)
        BY <2>2 DEF SpriteWrite
      <3>2. tall' \in BOOLEAN
        BY <2>2 DEF SpriteWrite, WriteTall, ListInv
      <3> QED
        BY <3>1, <3>2, ListStays DEF ListInv
    <2>3. CASE UNCHANGED spriteVars
      <3>1. UNCHANGED <<oam, ly, tall, line_sprites, fresh>>
        BY <2>3 DEF spriteVars, vars, beam, transfer
      <3> QED
        BY <3>1, ListStays DEF ListInv
    <2> QED
      BY <2>1, <2>2, <2>3 DEF SpriteNext
  <1> QED
    BY <1>1, <1>2, PTL DEF SpriteSpec

\* The sprites drawn are those of OAM as it is, for every OAM, every geometry and
\* every number of sprites in a line, as long as OAM, LY and the height have not
\* changed since the first dot of the line.
THEOREM FreshSprites == SpriteSpec => []FreshSpritesAreOams
  <1>1. TypeOK /\ ListInv => FreshSpritesAreOams
    <2> SUFFICES ASSUME TypeOK, ListInv, fresh, NEW covered \in BOOLEAN
                 PROVE  RenderSpriteDot(TRUE, dot - Search, covered) = Foremost(dot - Search, covered)
      BY DEF FreshSpritesAreOams, SpritesAreOams
    <2>1. dot - Search \in Int
      BY BeamAssumption DEF TypeOK
    <2> QED
      BY <2>1, ForemostShows DEF ListInv
  <1> QED
    BY <1>1, SpritesAreOnLCD, TypeCorrect, ListInductive, PTL
=============================================================================
