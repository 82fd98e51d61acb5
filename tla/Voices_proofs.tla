--------------------------- MODULE Voices_proofs ---------------------------
(***************************************************************************)
(* The generators of the four channels. The counter of a tone never passes *)
(* its limit, and a wave keeps the time and the order of its places, for   *)
(* frequencies of every width and waves of every length; the register of   *)
(* the noise does not die by itself, for registers of every width.         *)
(***************************************************************************)
EXTENDS Tone, Noise, TLAPS

-----------------------------------------------------------------------------
(* The first three channels *)

\* A product is one factor longer than the one before.
LEMMA Times ==
    ASSUME NEW d \in Nat, NEW a \in Nat, NEW b \in Nat
    PROVE  /\ a * d \in Nat
           /\ (a + 1) * d = a * d + d
           /\ a < b => a * d + d <= b * d
           /\ 0 * d = 0
  OBVIOUS

\* What is below a limit has some way to go to it.
LEMMA Below ==
    ASSUME NEW m \in Nat, NEW c \in 0 .. m - 1
    PROVE  m > 0 /\ m - c \in Nat /\ m - c > 0
  OBVIOUS

\* The two halves of a frequency make up one that is below the limit.
LEMMA Frequencies ==
    ASSUME NEW h \in High, NEW l \in Low
    PROVE  Joined(h, l) \in 0 .. FreqMod - 1
  <1> DEFINE H == h * LowMod
  <1>1. h \in Nat /\ h < HighMod /\ HighMod \in Nat /\ LowMod \in Nat
    BY FreqAssumption DEF High
  <1>2. H \in Nat /\ FreqMod \in Nat /\ H + LowMod <= FreqMod
    BY <1>1, Times DEF FreqMod
  <1> HIDE DEF H
  <1>3. H + l \in 0 .. FreqMod - 1
    BY <1>1, <1>2 DEF Low
  <1> QED
    BY <1>3 DEF H, Joined

\* The counter stays below its limit, however the frequency is changed while it
\* runs: the step that reaches it loads the frequency again.
THEOREM TypeCorrect == Spec => []TypeOK
  <1>0. FreqMod \in Nat /\ FreqMod > 0 /\ 0 \in Low /\ 0 \in High
    <2>1. 0 \in Low /\ 0 \in High
      BY FreqAssumption DEF Low, High
    <2>2. Joined(0, 0) \in 0 .. FreqMod - 1 /\ FreqMod \in Nat
      BY <2>1, Frequencies, FreqAssumption DEF FreqMod
    <2> QED
      BY <2>1, <2>2, Below
  <1>1. Init => TypeOK
    <2> SUFFICES ASSUME Init PROVE TypeOK
      OBVIOUS
    <2>1. ctr \in 0 .. FreqMod - 1
      BY <1>0 DEF Init
    <2>2. lo \in Low /\ hi \in High /\ place \in Place /\ out = Silent /\ did = "start"
      BY <1>0, PlaceAssumption DEF Init
    <2>3. wave \in BOOLEAN /\ on \in BOOLEAN /\ dac \in BOOLEAN
      BY Zenon DEF Init
    <2> QED
      BY <2>1, <2>2, <2>3, Zenon DEF TypeOK
  <1>2. TypeOK /\ [Next]_vars => TypeOK'
    <2> SUFFICES ASSUME TypeOK, [Next]_vars PROVE TypeOK'
      OBVIOUS
    <2>0. freq \in 0 .. FreqMod - 1 /\ Onward(place) \in Place
      BY Frequencies, PlaceAssumption DEF TypeOK, freq, Onward, Place
    <2>1. ASSUME on, Count PROVE ctr' \in 0 .. FreqMod - 1 /\ place' \in Place
                                /\ out' \in Place \cup {Silent} /\ did' = "tick"
      BY <1>0, <2>1 DEF TypeOK, Count
    <2>2. ASSUME on, Reload PROVE ctr' \in 0 .. FreqMod - 1 /\ place' \in Place
                                 /\ out' \in Place \cup {Silent} /\ did' = "end"
      BY <2>0, <2>2 DEF TypeOK, Reload
    <2>3. CASE Tick
      BY <2>1, <2>2, <2>3 DEF TypeOK, Tick, TickOutput
    <2>4. CASE Write \/ Aside
      <3>1. \A h \in High, l \in Low : Joined(h, l) \in 0 .. FreqMod - 1
        BY Frequencies
      <3>2. ASSUME NEW v \in Low, WriteLow(v)
            PROVE  on' \in BOOLEAN /\ dac' \in BOOLEAN /\ lo' \in Low /\ hi' \in High
                   /\ ctr' \in 0 .. FreqMod - 1
        BY <3>1, <3>2 DEF WriteLow, TypeOK
      <3>3. ASSUME NEW v \in High, NEW b \in BOOLEAN, WriteHigh(v, b)
            PROVE  on' \in BOOLEAN /\ dac' \in BOOLEAN /\ lo' \in Low /\ hi' \in High
                   /\ ctr' \in 0 .. FreqMod - 1
        BY <3>1, <3>3 DEF WriteHigh, TypeOK
      <3>4. ASSUME NEW l \in Low, NEW h \in High, Sweep(l, h)
            PROVE  on' \in BOOLEAN /\ dac' \in BOOLEAN /\ lo' \in Low /\ hi' \in High
                   /\ ctr' \in 0 .. FreqMod - 1
        BY <3>4 DEF Sweep, TypeOK
      <3>5. ASSUME NEW b \in BOOLEAN, WriteNR30(b) \/ Gate(b)
            PROVE  on' \in BOOLEAN /\ dac' \in BOOLEAN /\ lo' \in Low /\ hi' \in High
                   /\ ctr' \in 0 .. FreqMod - 1
        BY <3>5 DEF WriteNR30, Gate, TypeOK
      <3>6. Called("write") \/ Called("aside")
        BY <2>4 DEF Write, Aside
      <3>7. on' \in BOOLEAN /\ dac' \in BOOLEAN /\ lo' \in Low /\ hi' \in High
            /\ ctr' \in 0 .. FreqMod - 1
        BY <2>4, <3>2, <3>3, <3>4, <3>5 DEF Write, Aside
      <3> QED
        BY <3>6, <3>7 DEF Called, TypeOK
    <2>5. CASE UNCHANGED vars
      BY <2>5 DEF vars, TypeOK
    <2> QED
      BY <2>3, <2>4, <2>5 DEF Next
  <1> QED
    BY <1>1, <1>2, PTL DEF Spec

-----------------------------------------------------------------------------
(* The wave as countdowns *)

\* The counter and the frequency are some way below their limit.
LEMMA SomeWay ==
    ASSUME TypeOK
    PROVE  /\ FreqMod \in Nat
           /\ ctr \in Nat /\ ctr < FreqMod /\ FreqMod - ctr > 0
           /\ freq \in Nat /\ freq < FreqMod /\ FreqMod - freq > 0
  <1>1. freq \in 0 .. FreqMod - 1 /\ ctr \in 0 .. FreqMod - 1
    BY Frequencies DEF TypeOK, freq
  <1>2. FreqMod \in Nat
    BY FreqAssumption DEF FreqMod
  <1> QED
    BY <1>1, <1>2

\* The counter implements the countdown of a place.
LEMMA PlacesTakeTheirTime == Spec => PlaceTime!Spec
  <1>1. Init => PlaceTime!Init
    BY DEF Init, PlaceTime!Init
  <1>2. TypeOK /\ TypeOK' /\ [Next]_vars => [PlaceTime!Next]_PlaceTime!vars
    <2> SUFFICES ASSUME TypeOK, TypeOK', [Next]_vars
                 PROVE  [PlaceTime!Next]_PlaceTime!vars
      OBVIOUS
    <2>1. /\ FreqMod \in Nat /\ ctr \in Nat /\ ctr < FreqMod
          /\ FreqMod - ctr' > 0 /\ FreqMod - freq' > 0
      <3>1. freq' \in 0 .. FreqMod - 1 /\ ctr' \in 0 .. FreqMod - 1
        BY Frequencies DEF TypeOK, freq
      <3> QED
        BY <3>1, SomeWay
    <2>2. ASSUME Tick, on, Count PROVE PlaceTime!Next
      <3>1. /\ did' = "tick" /\ on' = on /\ freq' = freq
            /\ ctr + 1 # FreqMod /\ ctr' = ctr + 1
        BY <2>2 DEF Tick, Count, freq
      <3>2. FreqMod - ctr > 1 /\ FreqMod - ctr' = (FreqMod - ctr) - 1
        BY <2>1, <3>1
      <3> QED
        BY <2>2, <3>1, <3>2 DEF PlaceTime!Next, PlaceTime!Count
    <2>3. ASSUME Tick, on, Reload PROVE PlaceTime!Next
      <3>1. /\ did' = "end" /\ on' = on /\ freq' = freq
            /\ ctr + 1 = FreqMod /\ ctr' = freq
        BY <2>3 DEF Tick, Reload, freq
      <3>2. FreqMod - ctr = 1
        BY <2>1, <3>1
      <3> QED
        BY <2>3, <3>1, <3>2 DEF PlaceTime!Next, PlaceTime!Fire
    <2>4. ASSUME Tick, ~on PROVE PlaceTime!Next
      <3>1. did' = "tick" /\ ~ on' /\ ctr' = ctr
        BY <2>4 DEF Tick
      <3> QED
        BY <2>1, <3>1 DEF PlaceTime!Next, PlaceTime!Pause
    <2>5. CASE Aside
      <3>1. did' = "aside" /\ ctr' = ctr
        BY <2>5 DEF Aside, Called, Sweep, WriteNR30, Gate
      <3> QED
        BY <2>1, <3>1 DEF PlaceTime!Next, PlaceTime!Pause
    <2>6. CASE Write
      <3>1. did' = "write"
        BY <2>6 DEF Write, Called
      <3> QED
        BY <2>1, <3>1 DEF PlaceTime!Next, PlaceTime!Write
    <2>7. CASE UNCHANGED vars
      BY <2>7 DEF vars, freq, PlaceTime!vars
    <2> QED
      BY <2>2, <2>3, <2>4, <2>5, <2>6, <2>7 DEF Next, Tick, TickOutput
  <1> QED
    BY <1>1, <1>2, TypeCorrect, PTL DEF Spec, PlaceTime!Spec

\* The position in the wave implements the countdown of the wave's places.
LEMMA WavesKeepOrder == Spec => WaveOrder!Spec
  <1>1. Init => WaveOrder!Init
    BY DEF Init, WaveOrder!Init
  <1>2. TypeOK /\ [Next]_vars => [WaveOrder!Next]_WaveOrder!vars
    <2> SUFFICES ASSUME TypeOK, [Next]_vars
                 PROVE  [WaveOrder!Next]_WaveOrder!vars
      OBVIOUS
    <2>1. Places \in Nat \ {0} /\ place \in Nat /\ place < Places
      BY PlaceAssumption DEF TypeOK, Place
    <2>2. ASSUME Tick, on, Reload, dac PROVE WaveOrder!Next
      <3>1. did' = "end" /\ dac' /\ place' = Onward(place)
        BY <2>2 DEF Tick, Reload
      <3>2. CASE place + 1 = Places
        <4>1. place' = 0 /\ Places - place = 1 /\ Places - place' = Places
          BY <2>1, <3>1, <3>2 DEF Onward
        <4> QED
          BY <3>1, <4>1 DEF WaveOrder!Next, WaveOrder!Fire
      <3>3. CASE place + 1 # Places
        <4>1. /\ place' # 0 /\ Places - place > 1
              /\ Places - place' = (Places - place) - 1
          BY <2>1, <3>1, <3>3 DEF Onward
        <4> QED
          BY <3>1, <4>1 DEF WaveOrder!Next, WaveOrder!Count
      <3> QED
        BY <3>2, <3>3
    <2>3. ASSUME place' = place, did' # "start", ~ (did' = "end" /\ dac')
          PROVE  WaveOrder!Next
      BY <2>1, <2>3 DEF WaveOrder!Next, WaveOrder!Pause
    <2>4. ASSUME Tick, ~ (on /\ Reload /\ dac) PROVE WaveOrder!Next
      <3>1. /\ place' = place /\ did' # "start" /\ ~ (did' = "end" /\ dac')
        BY <2>4 DEF Tick, TickOutput, Count, Reload
      <3> QED
        BY <3>1, <2>3
    <2>5. CASE Write \/ Aside
      <3>1. /\ place' = place /\ did' # "start" /\ did' # "end"
        BY <2>5 DEF Write, Aside, Called
      <3> QED
        BY <3>1, <2>3
    <2>6. CASE UNCHANGED vars
      BY <2>6 DEF vars, WaveOrder!vars
    <2> QED
      BY <2>2, <2>4, <2>5, <2>6 DEF Next
  <1> QED
    BY <1>1, <1>2, TypeCorrect, PTL DEF Spec, WaveOrder!Spec

\* Each place of a wave lasts 2048 - frequency ticks, and the places come in order,
\* whatever is swept, written or switched under way: the generator implements two
\* countdowns of module Countdown, one within a place and one along the wave.
THEOREM TonesKeepTheirPeriod == Spec => KeepsTone
  BY PlacesTakeTheirTime, WavesKeepOrder DEF KeepsTone

-----------------------------------------------------------------------------
(* The fourth channel *)

\* The fields the register depends on keep their types.
RegisterOK == /\ lsfr \in Register
              /\ short \in BOOLEAN
              /\ switched \in BOOLEAN

Living(r, sh) == /\ \E i \in Slot : r[i]
                 /\ sh => \E i \in 0 .. Short - 1 : r[i]

\* A step of a register that is not all zero in the part its mode feeds back
\* leaves it so: a bit that is set moves down one place, and when the only one
\* was at the bottom, the feedback sets the top.
LEMMA StepLives ==
    ASSUME RegisterOK, Living(lsfr, short)
    PROVE  Living(Shifted(lsfr), short)
<1> DEFINE next == Shifted(lsfr)
<1>0. /\ Width \in Nat /\ Short \in Nat
      /\ 2 <= Short /\ Short < Width
    BY WidthAssumption
<1>1. /\ 0 \in Slot /\ 1 \in Slot /\ Width - 1 \in Slot /\ Short - 1 \in Slot
      /\ \A i \in 0 .. Short - 1 : i \in Slot
    BY <1>0 DEF Slot
<1>2. \A i \in Slot : next[i] = IF i = Width - 1 \/ (short /\ i = Short - 1)
                                THEN Feedback(lsfr) ELSE lsfr[i + 1]
    BY DEF Shifted
<1>3. ASSUME ~ lsfr[1], lsfr[0]
      PROVE  Feedback(lsfr)
    BY <1>1, <1>3, Zenon DEF Feedback, RegisterOK, Register
<1>4. ASSUME short, NEW i \in 1 .. Short - 1, lsfr[i]
      PROVE  next[i - 1]
  <2>1. i - 1 \in Slot /\ i - 1 # Width - 1 /\ i - 1 # Short - 1 /\ (i - 1) + 1 = i
      BY <1>0 DEF Slot
  <2> QED BY <2>1, <1>2, <1>4, Zenon
<1>5. CASE short
  <2>1. PICK i \in 0 .. Short - 1 : lsfr[i]
      BY <1>5 DEF Living
  <2>2. CASE i \in 1 .. Short - 1
    <3>1. next[i - 1] /\ i - 1 \in 0 .. Short - 1 /\ i - 1 \in Slot
        BY <1>4, <1>5, <2>1, <2>2, <1>0, <1>1
    <3> QED BY <3>1 DEF Living
  <2>3. CASE i = 0 /\ ~ lsfr[1]
    <3>1. next[Short - 1]
        BY <1>1, <1>2, <1>3, <1>5, <2>1, <2>3, Zenon
    <3>2. Short - 1 \in 0 .. Short - 1
        BY <1>0
    <3> QED BY <3>1, <3>2, <1>1 DEF Living
  <2>4. CASE lsfr[1]
    <3>1. 1 \in 1 .. Short - 1 /\ 1 - 1 \in 0 .. Short - 1 /\ 1 - 1 \in Slot
        BY <1>0, <1>1
    <3>2. next[1 - 1]
        BY <1>4, <1>5, <2>4, <3>1, Zenon
    <3> QED BY <3>1, <3>2 DEF Living
  <2>5. i = 0 \/ i \in 1 .. Short - 1
      BY <1>0
  <2> QED BY <2>2, <2>3, <2>4, <2>5
<1>6. CASE ~short
  <2>1. PICK i \in Slot : lsfr[i]
      BY DEF Living
  <2>2. CASE i # 0
    <3>1. i - 1 \in Slot /\ i - 1 # Width - 1 /\ (i - 1) + 1 = i
        BY <2>2, <1>0 DEF Slot
    <3>2. next[i - 1]
        BY <3>1, <1>2, <1>6, <2>1, Zenon
    <3> QED BY <3>1, <3>2, <1>6 DEF Living
  <2>3. CASE i = 0 /\ ~ lsfr[1]
    <3>1. next[Width - 1]
        BY <1>1, <1>2, <1>3, <2>1, <2>3, Zenon
    <3> QED BY <3>1, <1>1, <1>6 DEF Living
  <2>4. CASE lsfr[1]
    <3>1. 0 # Width - 1 /\ 0 + 1 = 1
        BY <1>0
    <3>2. next[0]
        BY <3>1, <1>1, <1>2, <1>6, <2>4, Zenon
    <3> QED BY <3>2, <1>1, <1>6 DEF Living
  <2> QED BY <2>2, <2>3, <2>4
<1> QED BY <1>5, <1>6 DEF RegisterOK

\* A register of ones, as the trigger leaves it, lives in both modes.
LEMMA OnesLive == Ones \in Register /\ \A sh \in BOOLEAN : Living(Ones, sh)
<1>1. 0 \in Slot /\ 0 \in 0 .. Short - 1
    BY WidthAssumption DEF Slot
<1>2. \A i \in Slot : Ones[i]
    BY DEF Ones
<1>3. Ones \in Register
    BY DEF Ones, Register
<1> QED BY <1>1, <1>2, <1>3 DEF Living

LEMMA ShiftedType == RegisterOK => Shifted(lsfr) \in Register
<1> SUFFICES ASSUME RegisterOK, NEW i \in Slot
             PROVE  (IF i = Width - 1 \/ (short /\ i = Short - 1)
                     THEN Feedback(lsfr) ELSE lsfr[i + 1]) \in BOOLEAN
    BY DEF Shifted, Register
<1>1. CASE i = Width - 1 \/ (short /\ i = Short - 1)
    BY <1>1, Zenon DEF Feedback
<1>2. CASE ~ (i = Width - 1 \/ (short /\ i = Short - 1))
  <2>1. i + 1 \in Slot
      BY <1>2, WidthAssumption DEF Slot
  <2> QED BY <2>1, <1>2, Zenon DEF RegisterOK, Register
<1> QED BY <1>1, <1>2

\* The noise channel is not silenced by its own register: from a trigger on, while
\* short mode is not entered in the middle of a sequence, the register holds a one
\* where its mode can reach it.
THEOREM NeverDies == NoiseSpec => []Alive
<1> DEFINE IInv == RegisterOK /\ (~switched => Living(lsfr, short))
<1>1. NoiseInit => IInv
    BY OnesLive DEF NoiseInit, RegisterOK
<1>2. IInv /\ [NoiseNext]_noiseVars => IInv'
  <2> SUFFICES ASSUME IInv, [NoiseNext]_noiseVars
               PROVE  IInv'
      OBVIOUS
  <2>1. CASE NoiseTick
    <3>1. short' = short /\ switched' = switched
        BY <2>1 DEF NoiseTick
    <3>2. lsfr' = lsfr \/ lsfr' = Shifted(lsfr)
        BY <2>1 DEF NoiseTick, NoiseTickOutput, Stopped, Wait, Step
    <3>3. RegisterOK'
        BY <3>1, <3>2, ShiftedType DEF RegisterOK
    <3>4. ~switched' => Living(lsfr', short')
        BY <3>1, <3>2, StepLives
    <3> QED BY <3>3, <3>4 DEF Living
  <2>2. ASSUME NEW rt \in Rates, NEW sh \in BOOLEAN, WriteNR43(rt, sh)
        PROVE  IInv'
      BY <2>2 DEF WriteNR43, RegisterOK, Living
  <2>3. ASSUME NEW b \in BOOLEAN, Trigger(b)
        PROVE  IInv'
    <3>1. lsfr' = Ones /\ short' = short /\ switched' = FALSE
        BY <2>3 DEF Trigger
    <3>2. RegisterOK'
        BY <3>1, OnesLive DEF RegisterOK
    <3>3. Living(lsfr', short')
        BY <3>1, OnesLive DEF RegisterOK
    <3> QED BY <3>2, <3>3 DEF Living
  <2>4. ASSUME NEW b \in BOOLEAN, NoiseGate(b)
        PROVE  IInv'
      BY <2>4 DEF NoiseGate, RegisterOK, Living
  <2>5. CASE UNCHANGED noiseVars
      BY <2>5 DEF noiseVars, RegisterOK, Living
  <2> QED BY <2>1, <2>2, <2>3, <2>4, <2>5 DEF NoiseNext
<1>3. IInv => Alive
    BY DEF Alive, Living
<1> QED BY <1>1, <1>2, <1>3, PTL DEF NoiseSpec
=============================================================================
