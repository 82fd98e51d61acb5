---------------------------- MODULE Audio_proofs ----------------------------
(***************************************************************************)
(* Volumes and frequencies stay in their bits, envelopes never lose their  *)
(* step, and notes end on time, for counters and registers of every width  *)
(* and whatever the program writes between any two ticks.                  *)
(***************************************************************************)
EXTENDS Audio, TLAPS

\* Division with remainder.
LEMMA Division ==
    ASSUME NEW a \in Nat, NEW d \in Nat \ {0}
    PROVE  /\ a \div d \in Nat /\ a % d \in 0 .. d - 1
           /\ a = (d * (a \div d)) + (a % d)
  OBVIOUS

\* A number below the modulus is its own rest, and the modulus leaves none.
LEMMA Small == ASSUME NEW d \in Nat \ {0}, NEW a \in 0 .. d - 1 PROVE a % d = a
  OBVIOUS

LEMMA Whole == ASSUME NEW d \in Nat \ {0} PROVE d % d = 0
  <1> DEFINE q == d \div d
             r == d % d
  <1>1. q \in Nat /\ r \in 0 .. d - 1 /\ d = (d * q) + r
    BY Division
  <1> HIDE DEF q, r
  <1>2. q > 0
    <2>1. SUFFICES ASSUME q = 0 PROVE FALSE
      BY <1>1
    <2> QED
      BY <1>1, <2>1
  <1>3. q <= 1
    <2>1. SUFFICES ASSUME q >= 2 PROVE FALSE
      BY <1>1
    <2>2. d * q >= d + d
      BY <1>1, <2>1
    <2> QED
      BY <1>1, <2>2
  <1>4. q = 1 /\ d * q = d
    BY <1>1, <1>2, <1>3
  <1>5. r = 0
    BY <1>1, <1>4
  <1> QED
    BY <1>5 DEF r

\* A counter below its modulus goes on by one or begins again.
LEMMA Onward ==
    ASSUME NEW m \in Nat \ {0}, NEW n \in 0 .. m - 1
    PROVE  (n + 1) % m = IF n = m - 1 THEN 0 ELSE n + 1
  <1>1. CASE n = m - 1
    <2>1. n + 1 = m
      BY <1>1
    <2> QED
      BY <1>1, <2>1, Whole
  <1>2. CASE n # m - 1
    <2>1. n + 1 \in 0 .. m - 1
      BY <1>2
    <2>2. (n + 1) % m = n + 1
      BY <2>1, Small
    <2> QED
      BY <1>2, <2>2
  <1> QED
    BY <1>1, <1>2

-----------------------------------------------------------------------------
(* Ranges *)

LEMMA LengthMods == \A c \in Channels : LengthMod(c) \in Nat \ {0}
  BY WidthAssumption DEF LengthMod

\* A shift divides by a power of two.
LEMMA Powers == \A s \in 0 .. 7 : 2 ^ s \in Nat \ {0}
  <1>1. /\ 2 ^ 0 = 1 /\ 2 ^ 1 = 2 /\ 2 ^ 2 = 4 /\ 2 ^ 3 = 8
        /\ 2 ^ 4 = 16 /\ 2 ^ 5 = 32 /\ 2 ^ 6 = 64 /\ 2 ^ 7 = 128
    OBVIOUS
  <1>2. SUFFICES ASSUME NEW s \in 0 .. 7 PROVE 2 ^ s \in Nat \ {0}
    OBVIOUS
  <1>3. s = 0 \/ s = 1 \/ s = 2 \/ s = 3 \/ s = 4 \/ s = 5 \/ s = 6 \/ s = 7
    OBVIOUS
  <1> DEFINE p == 2 ^ s
  <1>4. p = 1 \/ p = 2 \/ p = 4 \/ p = 8 \/ p = 16 \/ p = 32 \/ p = 64 \/ p = 128
    <2>0. CASE s = 0
      <3>1. 2 ^ s = 1
        BY <1>1, <2>0, Zenon
      <3> QED
        BY <3>1
    <2>1. CASE s = 1
      <3>1. 2 ^ s = 2
        BY <1>1, <2>1, Zenon
      <3> QED
        BY <3>1
    <2>2. CASE s = 2
      <3>1. 2 ^ s = 4
        BY <1>1, <2>2, Zenon
      <3> QED
        BY <3>1
    <2>3. CASE s = 3
      <3>1. 2 ^ s = 8
        BY <1>1, <2>3, Zenon
      <3> QED
        BY <3>1
    <2>4. CASE s = 4
      <3>1. 2 ^ s = 16
        BY <1>1, <2>4, Zenon
      <3> QED
        BY <3>1
    <2>5. CASE s = 5
      <3>1. 2 ^ s = 32
        BY <1>1, <2>5, Zenon
      <3> QED
        BY <3>1
    <2>6. CASE s = 6
      <3>1. 2 ^ s = 64
        BY <1>1, <2>6, Zenon
      <3> QED
        BY <3>1
    <2>7. CASE s = 7
      <3>1. 2 ^ s = 128
        BY <1>1, <2>7, Zenon
      <3> QED
        BY <3>1
    <2> QED
      BY <1>3, <2>0, <2>1, <2>2, <2>3, <2>4, <2>5, <2>6, <2>7
  <1> HIDE DEF p
  <1>5. p \in Nat \ {0}
    BY <1>4
  <1> QED
    BY <1>5 DEF p

\* A quotient is no larger than what is divided.
LEMMA Quotient ==
    ASSUME NEW a \in Nat, NEW d \in Nat \ {0}
    PROVE  a \div d \in 0 .. a
  <1> DEFINE q == a \div d
  <1>1. q \in Nat /\ d * q <= a
    BY Division
  <1> HIDE DEF q
  <1>2. d * q >= q
    BY <1>1
  <1> QED
    BY <1>1, <1>2 DEF q

\* The frequency a sweep computes is not negative.
LEMMA SweptNat == TypeOK => Swept \in Nat
  <1> SUFFICES ASSUME TypeOK PROVE Swept \in Nat
    OBVIOUS
  <1> DEFINE step == freq \div 2 ^ sweep.shift
  <1>1. freq \in Nat /\ sweep.shift \in 0 .. 7
    BY DEF TypeOK
  <1>2. step \in 0 .. freq
    BY <1>1, Powers, Quotient
  <1> HIDE DEF step
  <1>3. freq - step \in Nat /\ freq + step \in Nat
    BY <1>1, <1>2
  <1> QED
    BY <1>3, Zenon DEF Swept, step

\* The halves of a frequency make up one of eleven bits, whichever is written.
LEMMA Halves ==
    ASSUME NEW f \in 0 .. FreqMod - 1
    PROVE  /\ \A h \in High : h * LowMod + (f % LowMod) \in 0 .. FreqMod - 1
           /\ \A v \in 0 .. LowMod - 1 : (f \div LowMod) * LowMod + v \in 0 .. FreqMod - 1
  <1> DEFINE n == FreqMod \div LowMod
             q == f \div LowMod
             r == f % LowMod
  <1>1. LowMod \in Nat \ {0} /\ FreqMod \in Nat \ {0} /\ FreqMod % LowMod = 0 /\ f \in Nat
    BY WidthAssumption
  <1>2. n \in Nat /\ FreqMod = LowMod * n
    BY <1>1, Division
  <1>3. q \in Nat /\ r \in 0 .. LowMod - 1 /\ f = (LowMod * q) + r
    BY <1>1, Division
  <1> HIDE DEF n, q, r
  <1>4. \A h \in 0 .. n - 1 : \A v \in 0 .. LowMod - 1 : h * LowMod + v \in 0 .. FreqMod - 1
    <2> SUFFICES ASSUME NEW h \in 0 .. n - 1, NEW v \in 0 .. LowMod - 1
                 PROVE  h * LowMod + v \in 0 .. FreqMod - 1
      OBVIOUS
    <2>1. (h + 1) * LowMod <= LowMod * n
      BY <1>1, <1>2
    <2>2. (h + 1) * LowMod = h * LowMod + LowMod /\ h * LowMod \in Nat
      BY <1>1, <1>2
    <2> QED
      BY <1>1, <1>2, <2>1, <2>2
  <1>5. q \in 0 .. n - 1
    <2>1. SUFFICES ASSUME q >= n PROVE FALSE
      BY <1>2, <1>3
    <2>2. LowMod * q >= LowMod * n
      BY <1>1, <1>2, <1>3, <2>1
    <2> QED
      BY <1>1, <1>2, <1>3, <2>2
  <1>6. \A h \in High : h * LowMod + r \in 0 .. FreqMod - 1
    BY <1>3, <1>4 DEF High, n
  <1>7. \A v \in 0 .. LowMod - 1 : q * LowMod + v \in 0 .. FreqMod - 1
    BY <1>4, <1>5
  <1> QED
    BY <1>6, <1>7 DEF q, r

\* What the lengths and the volumes become, they stay in their ranges.
LEMMA LengthType ==
    ASSUME TypeOK, NEW S \in SUBSET Channels, Length(S)
    PROVE  /\ len' \in [Channels -> Nat] /\ on' \subseteq S
           /\ \A c \in Channels : len'[c] < LengthMod(c)
  <1>1. \A c \in Channels : (len[c] + 1) % LengthMod(c) \in 0 .. LengthMod(c) - 1
    BY LengthMods DEF TypeOK
  <1>2. ASSUME NEW c \in Channels
        PROVE  LET n == IF c \in S \cap Timed THEN (len[c] + 1) % LengthMod(c) ELSE len[c]
               IN  n \in Nat /\ n < LengthMod(c)
    BY <1>1, <1>2, LengthMods DEF TypeOK
  <1>3. len' = [c \in Channels |-> IF c \in S \cap Timed
                                   THEN (len[c] + 1) % LengthMod(c) ELSE len[c]]
        /\ on' \subseteq S
    BY DEF Length
  <1> QED
    BY <1>2, <1>3, Zenon

LEMMA VolumeType ==
    ASSUME TypeOK, Volume
    PROVE  vol' \in [Loud -> 0 .. MaxVol] /\ vol_div' \in [Loud -> 0 .. 255]
  <1> DEFINE runs(c) == c \in on /\ env[c].pace # 0
  <1>1. ASSUME NEW c \in Loud
        PROVE  /\ vol[c] \in 0 .. MaxVol /\ Moved(vol[c], env[c].up) \in 0 .. MaxVol
               /\ vol_div[c] \in 0 .. 255 /\ env[c].pace \in 0 .. 255
               /\ (vol_div[c] + 255) % 256 \in 0 .. 255
    <2>1. vol[c] \in 0 .. MaxVol /\ vol_div[c] \in 0 .. 255 /\ env[c].pace \in 0 .. 7
      BY <1>1 DEF TypeOK
    <2> QED
      BY <2>1, WidthAssumption DEF Moved
  <1>2. /\ vol_div' = [c \in Loud |-> IF ~ runs(c) THEN vol_div[c]
                                      ELSE IF vol_div[c] = 1 THEN env[c].pace
                                      ELSE (vol_div[c] + 255) % 256]
        /\ vol' = [c \in Loud |-> IF runs(c) /\ vol_div[c] = 1
                                  THEN Moved(vol[c], env[c].up) ELSE vol[c]]
    BY DEF Volume
  <1> HIDE DEF runs
  <1> QED
    BY <1>1, <1>2

\* The pace of the sweep fits into the divider it is loaded into.
PaceFits == sweep.pace < SweepMod

LEMMA SweepType ==
    ASSUME TypeOK, PaceFits, Sweep
    PROVE  sweep_div' \in 0 .. SweepMod - 1 /\ freq' \in 0 .. FreqMod - 1
  <1>1. SweepDec \in 0 .. SweepMod - 1
    BY WidthAssumption DEF TypeOK, SweepDec
  <1>2. sweep.pace < SweepMod
    BY DEF PaceFits
  <1>3. Swept \in Nat
    BY SweptNat
  <1> QED
    BY <1>1, <1>2, <1>3, WidthAssumption DEF TypeOK, Sweep, Fits

\* A tick of the sequencer leaves everything in its range.
LEMMA TickType == ASSUME TypeOK, PaceFits, Tick PROVE TypeOK' /\ PaceFits'
  <1>1. UNCHANGED <<power, timed, dac, env, sweep>> /\ did' = "tick"
    BY DEF Tick
  <1>2. CASE Quiet
    <2>1. UNCHANGED <<on, seq, len, vol, vol_div, sweep_div, freq>>
      BY <1>2 DEF Quiet
    <2>2. div' \in 0 .. DivMod - 1
      BY <1>2, WidthAssumption DEF Quiet, TypeOK
    <2> QED
      BY <1>1, <2>1, <2>2 DEF TypeOK, PaceFits
  <1>3. CASE Clock
    <2>1. div' \in 0 .. DivMod - 1 /\ seq' \in 0 .. 7
      BY <1>3, WidthAssumption DEF Clock, TypeOK
    <2>2. /\ len' \in [Channels -> Nat] /\ on' \subseteq Channels
          /\ \A c \in Channels : len'[c] < LengthMod(c)
      <3>1. CASE Length(on)
        BY <3>1, LengthType DEF TypeOK
      <3>2. CASE Length(IF SweepSilences THEN on \ {1} ELSE on)
        <4>1. on \ {1} \in SUBSET Channels /\ on \in SUBSET Channels
          BY DEF TypeOK
        <4> QED
          BY <3>2, <4>1, LengthType
      <3>3. CASE UNCHANGED <<on, len>>
        BY <3>3 DEF TypeOK
      <3> QED
        BY <1>3, <3>1, <3>2, <3>3 DEF Clock
    <2>3. vol' \in [Loud -> 0 .. MaxVol] /\ vol_div' \in [Loud -> 0 .. 255]
      <3>1. CASE Volume
        BY <3>1, VolumeType
      <3>2. CASE UNCHANGED <<vol, vol_div>>
        BY <3>2 DEF TypeOK
      <3> QED
        BY <1>3, <3>1, <3>2 DEF Clock
    <2>4. sweep_div' \in 0 .. SweepMod - 1 /\ freq' \in 0 .. FreqMod - 1
      <3>1. CASE Sweep
        BY <3>1, SweepType
      <3>2. CASE UNCHANGED <<sweep_div, freq>>
        BY <3>2 DEF TypeOK
      <3> QED
        BY <1>3, <3>1, <3>2 DEF Clock
    <2> QED
      BY <1>1, <2>1, <2>2, <2>3, <2>4 DEF TypeOK, PaceFits
  <1> QED
    BY <1>2, <1>3 DEF Tick

\* So does a write, to whichever register.
LEMMA WriteType == ASSUME TypeOK, PaceFits, Write PROVE TypeOK' /\ PaceFits'
  <1> USE DEF TypeOK, PaceFits
  <1>1. did' = "write" /\ UNCHANGED <<div, seq>>
    BY DEF Write, WriteTo, Written
  <1>2. ASSUME NEW b \in BOOLEAN, WriteNR52(b) PROVE TypeOK' /\ PaceFits'
    BY <1>1, <1>2 DEF WriteNR52, lengths, envelopes, sweeps
  <1>3. ASSUME NEW c \in Channels, NEW v \in LenValues, WriteLength(c, v)
        PROVE  TypeOK' /\ PaceFits'
    <2>0. v \in Nat /\ LengthMod(c) \in Nat \ {0}
      BY WrittenAssumption, LengthMods
    <2>1. v % LengthMod(c) \in Nat /\ v % LengthMod(c) < LengthMod(c)
      BY <2>0
    <2>2. len' \in [Channels -> Nat] /\ \A x \in Channels : len'[x] < LengthMod(x)
      BY <1>3, <2>1 DEF WriteLength
    <2> QED
      BY <1>1, <1>3, <2>2 DEF WriteLength, envelopes, sweeps
  <1>4. ASSUME NEW c \in Loud, NEW v \in 0 .. MaxVol, NEW pace \in Paces, NEW up \in BOOLEAN,
               WriteEnvelope(c, v, pace, up)
        PROVE  TypeOK' /\ PaceFits'
    <2>1. pace \in 0 .. 7 /\ pace \in 0 .. 255
      BY <1>4, WrittenAssumption
    <2>2. vol' \in [Loud -> 0 .. MaxVol] /\ vol_div' \in [Loud -> 0 .. 255]
      BY <1>4, <2>1 DEF WriteEnvelope
    <2>3. env' \in [Loud -> [pace : 0 .. 7, up : BOOLEAN]]
      BY <1>4, <2>1, Zenon DEF WriteEnvelope
    <2> QED
      BY <1>1, <1>4, <2>2, <2>3 DEF WriteEnvelope, lengths, sweeps
  <1>5. ASSUME NEW c \in Channels, NEW trigger \in BOOLEAN, NEW limit \in BOOLEAN, NEW high \in High,
               WriteControl(c, trigger, limit, high)
        PROVE  TypeOK' /\ PaceFits'
    <2>1. freq' \in 0 .. FreqMod - 1
      BY <1>5, Halves DEF WriteControl
    <2>2. on' \subseteq Channels /\ timed' \subseteq Channels
      BY <1>5 DEF WriteControl
    <2> QED
      BY <1>1, <1>5, <2>1, <2>2 DEF WriteControl, envelopes
  <1>6. ASSUME NEW pace \in SweepPaces, NEW down \in BOOLEAN, NEW shift \in Shifts,
               WriteNR10(pace, down, shift)
        PROVE  TypeOK' /\ PaceFits'
    <2>1. pace \in 0 .. 7 /\ pace < SweepMod /\ shift \in 0 .. 7
      BY WrittenAssumption
    <2>2. sweep' \in [pace : 0 .. 7, down : BOOLEAN, shift : 0 .. 7] /\ sweep'.pace < SweepMod
      BY <1>6, <2>1 DEF WriteNR10
    <2> QED
      BY <1>1, <1>6, <2>2 DEF WriteNR10, lengths, envelopes
  <1>7. ASSUME NEW v \in 0 .. LowMod - 1, WriteNR13(v) PROVE TypeOK' /\ PaceFits'
    <2>1. freq' \in 0 .. FreqMod - 1
      BY <1>7, Halves DEF WriteNR13
    <2> QED
      BY <1>1, <1>7, <2>1 DEF WriteNR13, lengths, envelopes
  <1>8. ASSUME NEW b \in BOOLEAN, WriteNR30(b) PROVE TypeOK' /\ PaceFits'
    BY <1>1, <1>8 DEF WriteNR30, envelopes, sweeps
  <1> HIDE DEF TypeOK, PaceFits
  <1> QED
    BY <1>2, <1>3, <1>4, <1>5, <1>6, <1>7, <1>8 DEF Write, WriteTo

\* Type correctness: nothing outgrows its register, neither the frequency under a
\* sweep upwards nor the volume under an envelope.
THEOREM TypeCorrect == Spec => []TypeOK
  <1>1. Init => TypeOK /\ PaceFits
    <2> SUFFICES ASSUME Init PROVE TypeOK /\ PaceFits
      OBVIOUS
    <2>1. \A c \in Channels : 0 < LengthMod(c)
      BY LengthMods
    <2>2. /\ 0 \in 0 .. DivMod - 1 /\ 7 \in 0 .. 7 /\ 0 \in 0 .. MaxVol /\ 0 \in 0 .. 255
          /\ 0 \in 0 .. 7 /\ 0 \in 0 .. SweepMod - 1 /\ 0 \in 0 .. FreqMod - 1 /\ 0 < SweepMod
      BY WidthAssumption
    <2>3. len \in [Channels -> Nat] /\ \A c \in Channels : len[c] < LengthMod(c)
      BY <2>1 DEF Init
    <2>4. vol \in [Loud -> 0 .. MaxVol] /\ vol_div \in [Loud -> 0 .. 255]
      BY <2>2, Zenon DEF Init
    <2>5. env \in [Loud -> [pace : 0 .. 7, up : BOOLEAN]]
      BY <2>2, Zenon DEF Init
    <2>6. sweep \in [pace : 0 .. 7, down : BOOLEAN, shift : 0 .. 7] /\ sweep.pace = 0
      BY DEF Init
    <2>7. power \in BOOLEAN /\ dac \in BOOLEAN /\ did \in {"start", "tick", "write"}
      BY Zenon DEF Init
    <2> QED
      BY <2>2, <2>3, <2>4, <2>5, <2>6, <2>7 DEF Init, TypeOK, PaceFits
  <1>2. TypeOK /\ PaceFits /\ [Next]_vars => TypeOK' /\ PaceFits'
    <2> SUFFICES ASSUME TypeOK, PaceFits, [Next]_vars PROVE TypeOK' /\ PaceFits'
      OBVIOUS
    <2>1. CASE UNCHANGED vars
      BY <2>1 DEF vars, lengths, envelopes, sweeps, TypeOK, PaceFits
    <2> QED
      BY <2>1, TickType, WriteType DEF Next
  <1> QED
    BY <1>1, <1>2, PTL DEF Spec

-----------------------------------------------------------------------------
(* Envelopes *)

\* A divider that is between one and the pace is counted down to one and loaded
\* with the pace again, never to zero.
THEOREM EnvelopesKeepStep == Spec => []EnvelopesInStep
  <1>1. Init => EnvelopesInStep
    BY DEF Init, EnvelopesInStep
  <1>2. TypeOK /\ EnvelopesInStep /\ [Next]_vars => EnvelopesInStep'
    <2> SUFFICES ASSUME TypeOK, EnvelopesInStep, [Next]_vars PROVE EnvelopesInStep'
      OBVIOUS
    <2>1. CASE UNCHANGED <<vol_div, env>>
      BY <2>1 DEF EnvelopesInStep
    <2>2. ASSUME Volume, env' = env PROVE EnvelopesInStep'
      <3> DEFINE runs(c) == c \in on /\ env[c].pace # 0
      <3>1. vol_div' = [c \in Loud |-> IF ~ runs(c) THEN vol_div[c]
                                       ELSE IF vol_div[c] = 1 THEN env[c].pace
                                       ELSE (vol_div[c] + 255) % 256]
        BY <2>2 DEF Volume
      <3>2. ASSUME NEW c \in Loud, env[c].pace # 0 PROVE vol_div'[c] \in 1 .. env[c].pace
        <4>1. vol_div[c] \in 1 .. env[c].pace /\ env[c].pace \in 1 .. 7
          BY <3>2 DEF EnvelopesInStep, TypeOK
        <4>2. CASE vol_div[c] = 1 \/ ~ runs(c)
          BY <3>1, <4>1, <4>2
        <4>3. CASE vol_div[c] # 1 /\ runs(c)
          <5>1. vol_div'[c] = (vol_div[c] + 255) % 256
            BY <3>1, <4>3
          <5>2. \A n \in 2 .. 7 : (n + 255) % 256 = n - 1
            OBVIOUS
          <5>3. vol_div[c] \in 2 .. 7
            BY <4>1, <4>3
          <5> QED
            BY <4>1, <4>3, <5>1, <5>2, <5>3
        <4> QED
          BY <4>2, <4>3
      <3> HIDE DEF runs
      <3> QED
        BY <2>2, <3>2 DEF EnvelopesInStep
    <2>3. ASSUME NEW c \in Loud, NEW v \in 0 .. MaxVol, NEW pace \in Paces, NEW up \in BOOLEAN,
                 WriteEnvelope(c, v, pace, up)
          PROVE  EnvelopesInStep'
      <3>1. pace \in 0 .. 7
        BY WrittenAssumption
      <3>2. /\ vol_div' = [vol_div EXCEPT ![c] = pace]
            /\ env' = [env EXCEPT ![c] = [pace |-> pace, up |-> up]]
        BY <2>3 DEF WriteEnvelope
      <3>3. ASSUME NEW x \in Loud, env'[x].pace # 0 PROVE vol_div'[x] \in 1 .. env'[x].pace
        <4>1. CASE x = c
          BY <3>1, <3>2, <3>3, <4>1 DEF TypeOK
        <4>2. CASE x # c
          BY <3>2, <3>3, <4>2 DEF TypeOK, EnvelopesInStep
        <4> QED
          BY <4>1, <4>2
      <3> QED
        BY <3>3 DEF EnvelopesInStep
    <2>4. CASE Tick
      BY <2>1, <2>2, <2>4 DEF Tick, Quiet, Clock
    <2>5. CASE Write
      <3>1. ASSUME NEW c \in Channels, NEW v \in LenValues, WriteLength(c, v)
            PROVE  UNCHANGED <<vol_div, env>>
        BY <3>1 DEF WriteLength, envelopes
      <3>2. ASSUME NEW c \in Channels, NEW trigger, NEW limit, NEW high,
                   WriteControl(c, trigger, limit, high)
            PROVE  UNCHANGED <<vol_div, env>>
        BY <3>2 DEF WriteControl, envelopes
      <3>3. ASSUME NEW pace, NEW down, NEW shift, WriteNR10(pace, down, shift)
            PROVE  UNCHANGED <<vol_div, env>>
        BY <3>3 DEF WriteNR10, envelopes
      <3>4. ASSUME NEW v, WriteNR13(v) \/ WriteNR30(v) \/ WriteNR52(v)
            PROVE  UNCHANGED <<vol_div, env>>
        BY <3>4 DEF WriteNR13, WriteNR30, WriteNR52, envelopes
      <3> QED
        BY <2>1, <2>3, <2>5, <3>1, <3>2, <3>3, <3>4 DEF Write, WriteTo
    <2>6. CASE UNCHANGED vars
      BY <2>1, <2>6 DEF vars, envelopes
    <2> QED
      BY <2>4, <2>5, <2>6 DEF Next
  <1> QED
    BY <1>1, <1>2, TypeCorrect, PTL DEF Spec

-----------------------------------------------------------------------------
(* Notes *)

\* Lengths run for a whole step of the sequencer, and are counted in two of them.
LEMMA StepTimes == ASSUME TypeOK PROVE ToLength \in 1 .. 2 * DivMod
  BY WidthAssumption DEF TypeOK, ToLength

LEMMA LeftType == ASSUME TypeOK, NEW c \in Channels PROVE Left(c) \in Nat /\ Left(c) >= ToLength
  <1> DEFINE n == LengthMod(c) - 1 - len[c]
  <1>1. n \in Nat /\ 2 * DivMod \in Nat
    BY LengthMods, WidthAssumption DEF TypeOK
  <1> HIDE DEF n
  <1>2. 2 * DivMod * n \in Nat
    BY <1>1
  <1>3. Left(c) = 2 * DivMod * n + ToLength
    BY DEF Left, n
  <1> QED
    BY <1>2, <1>3, StepTimes

\* A step of the counter brings the end of a note a whole period nearer.
LEMMA LengthNearer ==
    ASSUME TypeOK, NEW c \in Channels, len[c] # LengthMod(c) - 1,
           len'[c] = len[c] + 1, ToLength = 1, ToLength' = 2 * DivMod
    PROVE  Left(c)' = Left(c) - 1 /\ Left(c) > 1
  <1> DEFINE n == LengthMod(c) - 1 - len[c]
             d == 2 * DivMod
  <1>1. n \in Nat /\ n >= 1 /\ d \in Nat /\ d >= 1
    <2>1. LengthMod(c) \in Nat \ {0} /\ len[c] \in Nat /\ len[c] < LengthMod(c)
      BY LengthMods DEF TypeOK
    <2>2. d \in Nat /\ d >= 1
      BY WidthAssumption
    <2> QED
      BY <2>1, <2>2
  <1>2. Left(c)' = d * (n - 1) + d
    <2>1. LengthMod(c) - 1 - len'[c] = n - 1
      BY LengthMods DEF TypeOK
    <2> QED
      BY <2>1 DEF Left
  <1>3. Left(c) = d * n + 1
    BY DEF Left
  <1> HIDE DEF n, d
  <1>4. d * (n - 1) + d = d * n /\ d * n >= 1 /\ d * n \in Nat
    BY <1>1
  <1> QED
    BY <1>2, <1>3, <1>4

\* What happens to a channel when the lengths are clocked.
LEMMA LengthStep ==
    ASSUME TypeOK, NEW c \in Channels, NEW S \in SUBSET Channels, Length(S), c \in S \cap Timed
    PROVE  IF len[c] = LengthMod(c) - 1 THEN c \notin on'
           ELSE len'[c] = len[c] + 1 /\ c \in on'
  <1>1. LengthMod(c) \in Nat \ {0} /\ len[c] \in 0 .. LengthMod(c) - 1
    BY LengthMods DEF TypeOK
  <1>2. len'[c] = IF len[c] = LengthMod(c) - 1 THEN 0 ELSE len[c] + 1
    BY <1>1, Onward DEF Length
  <1>3. c \in on' <=> len'[c] # 0
    BY DEF Length
  <1> QED
    BY <1>1, <1>2, <1>3

\* A note that sounds counts, or ends with its time, or is cut short by the sweep.
LEMMA NoteTicks ==
    ASSUME TypeOK, Tick, NEW c \in Channels, power, c \in on \cap Timed
    PROVE  \/ Left(c) > 1 /\ c \in on' /\ Left(c)' = Left(c) - 1
           \/ Left(c) = 1 /\ c \notin on'
           \/ c = 1 /\ sweep.pace # 0 /\ c \notin on'
  <1>0. Left(c) \in Nat /\ Left(c) >= ToLength /\ DivMod \in Nat \ {0} /\ seq \in 0 .. 7
        /\ div \in 0 .. DivMod - 1
    BY LeftType, WidthAssumption DEF TypeOK
  <1>1. ASSUME UNCHANGED <<on, len>>, ToLength' = ToLength - 1, ToLength > 1
        PROVE  Left(c) > 1 /\ c \in on' /\ Left(c)' = Left(c) - 1
    <2> DEFINE rest == 2 * DivMod * (LengthMod(c) - 1 - len[c])
    <2>1. Left(c) = rest + ToLength /\ Left(c)' = rest + ToLength'
      BY <1>1 DEF Left
    <2>2. rest \in Int
      BY <1>0, LengthMods DEF TypeOK
    <2> HIDE DEF rest
    <2>3. ToLength \in Int
      BY StepTimes, <1>0
    <2> QED
      BY <1>0, <1>1, <2>1, <2>2, <2>3
  <1>2. CASE Quiet
    <2>1. div + 1 # DivMod /\ div' = div + 1 /\ UNCHANGED <<on, seq, len>>
      BY <1>2 DEF Quiet
    <2>2. ToLength' = ToLength - 1 /\ ToLength > 1
      BY <1>0, <2>1 DEF ToLength
    <2> QED
      BY <1>1, <2>1, <2>2
  <1>3. CASE Clock
    <2>1. div + 1 = DivMod /\ div' = 0 /\ seq' = (seq + 1) % 8
      BY <1>3 DEF Clock
    <2>2. CASE seq % 2 = 0
      <3>1. seq' \in {1, 3, 5, 7}
        BY <1>0, <2>1, <2>2
      <3>2. ToLength' = ToLength - 1 /\ ToLength > 1
        BY <1>0, <2>1, <2>2, <3>1 DEF ToLength
      <3>3. UNCHANGED <<on, len>>
        BY <1>3, <3>1 DEF Clock
      <3> QED
        BY <1>1, <3>2, <3>3
    <2>3. CASE seq % 2 # 0
      <3>1. seq' \in {0, 2, 4, 6}
        BY <1>0, <2>1, <2>3
      <3>2. ToLength = 1 /\ ToLength' = 2 * DivMod
        BY <1>0, <2>1, <2>3, <3>1 DEF ToLength
      <3>3. Length(on) \/ Length(IF SweepSilences THEN on \ {1} ELSE on)
        BY <1>3, <3>1 DEF Clock
      <3>4. len[c] = LengthMod(c) - 1 => Left(c) = 1
        BY <1>0, <3>2, LengthMods DEF Left
      <3>5. on \in SUBSET Channels /\ on \ {1} \in SUBSET Channels
        BY DEF TypeOK
      <3>6. ASSUME NEW S \in SUBSET Channels, Length(S), c \in S
            PROVE  \/ Left(c) > 1 /\ c \in on' /\ Left(c)' = Left(c) - 1
                   \/ Left(c) = 1 /\ c \notin on'
        <4>1. CASE len[c] = LengthMod(c) - 1
          BY <3>4, <3>6, <4>1, LengthStep
        <4>2. CASE len[c] # LengthMod(c) - 1
          BY <3>2, <3>6, <4>2, LengthStep, LengthNearer
        <4> QED
          BY <4>1, <4>2
      <3>7. ASSUME Length(on \ {1}), c = 1, SweepSilences
            PROVE  c = 1 /\ sweep.pace # 0 /\ c \notin on'
        BY <3>7 DEF Length, SweepSilences, SweepRuns
      <3> QED
        BY <3>3, <3>5, <3>6, <3>7
    <2> QED
      BY <2>2, <2>3
  <1> QED
    BY <1>2, <1>3 DEF Tick

\* A channel that does not sound, or that plays without limit, does not begin to by
\* a tick.
LEMMA SilenceStays ==
    ASSUME TypeOK, Tick, NEW c \in Channels, ~ (power /\ c \in on \cap Timed)
    PROVE  ~ (power' /\ c \in on' \cap Timed')
  <1>1. power' = power /\ Timed' = Timed
    BY DEF Tick, Timed
  <1>2. on' \subseteq on
    BY DEF Tick, Clock, Quiet, Length
  <1> QED
    BY <1>1, <1>2

\* Every channel implements the note of module OneShot: it sounds for exactly
\* as long as its length says, whatever is written to the others and before, but for
\* channel 1 under a sweep.
THEOREM NotesEnd == Spec => NotesEndOnTime
  <1> DEFINE OneByOne == \A c \in Channels : Note(c)!Next \/ UNCHANGED Note(c)!vars
  <1>1. TypeOK /\ TypeOK' /\ [Next]_vars => [OneByOne]_vars
    <2> SUFFICES ASSUME TypeOK, TypeOK', Next, NEW c \in Channels PROVE Note(c)!Next
      BY Zenon
    <2>1. CASE Tick
      <3>1. did' = "tick" /\ power' = power /\ Timed' = Timed
        BY <2>1 DEF Tick, Timed
      <3>2. CASE power /\ c \in on \cap Timed
        BY <2>1, <3>1, <3>2, NoteTicks
        DEF Note!Next, Note!Count, Note!End, Note!Cut
      <3>3. CASE ~ (power /\ c \in on \cap Timed)
        BY <2>1, <3>1, <3>3, SilenceStays DEF Note!Next, Note!Idle
      <3> QED
        BY <3>2, <3>3
    <2>2. CASE Write
      <3>1. did' = "write"
        BY <2>2 DEF Write, WriteTo, Written
      <3>2. Left(c)' > 0
        <4> DEFINE n == LengthMod(c) - 1 - len'[c]
        <4>1. n \in Nat /\ 2 * DivMod \in Nat
          BY LengthMods, WidthAssumption DEF TypeOK
        <4> HIDE DEF n
        <4>2. 2 * DivMod * n \in Nat
          BY <4>1
        <4>3. Left(c)' = 2 * DivMod * n + ToLength'
          BY DEF Left, n
        <4>4. ToLength' \in Nat /\ ToLength' >= 1
          <5>1. div' \in 0 .. DivMod - 1 /\ DivMod \in Nat \ {0}
            BY WidthAssumption DEF TypeOK
          <5>2. ToLength' = 2 * DivMod - div' \/ ToLength' = DivMod - div'
            BY Zenon DEF ToLength
          <5> QED
            BY <5>1, <5>2
        <4> QED
          BY <4>2, <4>3, <4>4
      <3> QED
        BY <3>1, <3>2 DEF Note!Next, Note!Write
    <2> QED
      BY <2>1, <2>2 DEF Next
  <1> QED
    BY <1>1, TypeCorrect, PTL DEF Spec, NotesEndOnTime
=============================================================================
