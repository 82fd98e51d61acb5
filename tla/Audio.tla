------------------------------- MODULE Audio -------------------------------
(***************************************************************************)
(* The frame sequencer (core/audio/Audio.cc) and what it clocks in the     *)
(* four channels: length counters, the envelopes of channels 1, 2 and 4,   *)
(* and the frequency sweep of channel 1. The generators that it clocks on  *)
(* every tick are modules Tone and Noise; the sample that Audio::Tick      *)
(* sends to the frontend last is left out.                                 *)
(***************************************************************************)
EXTENDS Integers

CONSTANTS
    DivMod,             \* ticks between two steps of the sequencer (4096)
    LenMod, WaveLenMod, \* values of a length counter (64), of channel 3's (256)
    MaxVol,             \* the loudest volume (15)
    SweepMod,           \* values of sweep_div_ (256)
    FreqMod, LowMod,    \* values of the frequency (2048), of its low half (256)
    Channels,           \* the channels a program uses, of 1 .. 4
    LenValues, Paces, SweepPaces, Shifts    \* what it writes to the registers

ASSUME ChannelAssumption == Channels \subseteq 1 .. 4
ASSUME WidthAssumption ==
    /\ DivMod \in Nat \ {0} /\ MaxVol \in Nat
    /\ LenMod \in Nat \ {0} /\ WaveLenMod \in Nat \ {0} /\ SweepMod \in Nat \ {0}
    /\ LowMod \in Nat \ {0} /\ FreqMod \in Nat \ {0} /\ FreqMod % LowMod = 0
ASSUME WrittenAssumption ==
    /\ LenValues \subseteq Nat
    /\ Paces \subseteq 0 .. 7 /\ SweepPaces \subseteq 0 .. 7
    /\ \A p \in SweepPaces : p < SweepMod
    /\ Shifts \subseteq 0 .. 7

Loud == Channels \ {3}      \* the channels with an envelope
LengthMod(c) == IF c = 3 THEN WaveLenMod ELSE LenMod

VARIABLES
    power,          \* NR52 bit 7
    on,             \* NR52 bits 3-0
    div, seq,       \* timer_div_, seq_step_
    len, timed,     \* the length in r1_, the channels with r4_ bit 6
    dac,            \* r0_ bit 7 of channel 3
    vol, vol_div,   \* vol_, vol_div_
    env,            \* r2_: pace (bits 2-0) and direction (bit 3)
    sweep,          \* r0_ of channel 1
    sweep_div,      \* sweep_div_
    freq,           \* r4_ bits 2-0 and r3_ of channel 1
    did             \* the last call

lengths == <<len, timed, dac>>
envelopes == <<vol, vol_div, env>>
sweeps == <<sweep, sweep_div, freq>>
vars == <<power, on, div, seq, lengths, envelopes, sweeps, did>>

\* The constructors: the power is off, NR52 says that all channels are on.
Init == /\ power = FALSE
        /\ on = Channels
        /\ div = 0 /\ seq = 7
        /\ len = [c \in Channels |-> 0] /\ timed = {}
        /\ dac = FALSE
        /\ vol = [c \in Loud |-> 0] /\ vol_div = [c \in Loud |-> 0]
        /\ env = [c \in Loud |-> [pace |-> 0, up |-> FALSE]]
        /\ sweep = [pace |-> 0, down |-> FALSE, shift |-> 0]
        /\ sweep_div = 0 /\ freq = 0
        /\ did = "start"

-----------------------------------------------------------------------------
(* Audio::Tick *)

\* The channels whose length counter runs.
Timed == {c \in timed : c = 3 => dac}

\* Mutant: the length of a channel runs out one step early.
LengthEarly(S) ==
    /\ len' = [c \in Channels |-> IF c \in S \cap Timed
                                  THEN (len[c] + 1) % LengthMod(c) ELSE len[c]]
    /\ on' = S \ {c \in S \cap Timed : len'[c] = LengthMod(c) - 1}

\* Audio::TickLength, when the channels in S are on.
Length(S) ==
    /\ len' = [c \in Channels |-> IF c \in S \cap Timed
                                  THEN (len[c] + 1) % LengthMod(c) ELSE len[c]]
    /\ on' = S \ {c \in S \cap Timed : len'[c] = 0}

SweepRuns == 1 \in on /\ sweep.pace # 0
SweepDec == (sweep_div + SweepMod - 1) % SweepMod

\* Mutant: the frequency may reach its limit.
FitsInclusive(f) == f <= FreqMod

Fits(f) == f < FreqMod

\* The frequency a sweep computes. Nothing is subtracted that it does not have.
Swept == LET step == freq \div 2 ^ sweep.shift
         IN  IF sweep.down THEN freq - step ELSE freq + step

\* Channel1::TickSweep; a frequency out of range switches the channel off.
Sweep ==
    IF SweepRuns /\ SweepDec = 0
    THEN /\ sweep_div' = sweep.pace
         /\ freq' = IF Fits(Swept) THEN Swept ELSE freq
    ELSE /\ sweep_div' = IF SweepRuns THEN SweepDec ELSE sweep_div
         /\ UNCHANGED freq

SweepSilences == SweepRuns /\ SweepDec = 0 /\ ~ Fits(Swept)

Moved(v, up) == IF up THEN (IF v < MaxVol THEN v + 1 ELSE v)
                ELSE (IF v > 0 THEN v - 1 ELSE v)

\* Mutant: the divider is not loaded again.
VolumeOnce ==
    LET runs(c) == c \in on /\ env[c].pace # 0
    IN  /\ vol_div' = [c \in Loud |-> IF runs(c) THEN (vol_div[c] + 255) % 256 ELSE vol_div[c]]
        /\ vol' = [c \in Loud |-> IF runs(c) /\ vol_div[c] = 1
                                  THEN Moved(vol[c], env[c].up) ELSE vol[c]]

\* Audio::TickVolume: Channel1, Channel2 and Channel4::TickVolume. vol_div_ has
\* eight bits.
Volume ==
    LET runs(c) == c \in on /\ env[c].pace # 0
    IN  /\ vol_div' = [c \in Loud |-> IF ~ runs(c) THEN vol_div[c]
                                      ELSE IF vol_div[c] = 1 THEN env[c].pace
                                      ELSE (vol_div[c] + 255) % 256]
        /\ vol' = [c \in Loud |-> IF runs(c) /\ vol_div[c] = 1
                                  THEN Moved(vol[c], env[c].up) ELSE vol[c]]

\* The eight steps of the sequencer, the sweep before the lengths.
Clock ==
    /\ power /\ div + 1 = DivMod
    /\ div' = 0
    /\ seq' = (seq + 1) % 8
    /\ \/ /\ seq' \in {0, 4}
          /\ Length(on)
          /\ UNCHANGED <<sweep_div, freq, vol, vol_div>>
       \/ /\ seq' \in {2, 6}
          /\ Sweep
          /\ Length(IF SweepSilences THEN on \ {1} ELSE on)
          /\ UNCHANGED <<vol, vol_div>>
       \/ /\ seq' = 7
          /\ Volume
          /\ UNCHANGED <<on, len, sweep_div, freq>>
       \/ /\ seq' \in {1, 3, 5}
          /\ UNCHANGED <<on, len, sweep_div, freq, vol, vol_div>>

Quiet == /\ power => div + 1 # DivMod
         /\ div' = IF power THEN div + 1 ELSE div
         /\ UNCHANGED <<on, seq, len, vol, vol_div, sweep_div, freq>>

Tick == /\ Clock \/ Quiet
        /\ did' = "tick"
        /\ UNCHANGED <<power, timed, dac, env, sweep>>

-----------------------------------------------------------------------------
(* The program's writes *)

Written == did' = "write" /\ UNCHANGED <<div, seq>>

\* Nothing but bit 7 of NR52 can be written.
WriteNR52(b) == power' = b /\ UNCHANGED <<on, lengths, envelopes, sweeps>>

\* The whole byte is the length of channel 3; on the others the duty bits above the
\* length are left out.
WriteLength(c, v) == /\ len' = [len EXCEPT ![c] = v % LengthMod(c)]
                     /\ UNCHANGED <<power, on, timed, dac, envelopes, sweeps>>

WriteEnvelope(c, v, pace, up) ==
    /\ vol' = [vol EXCEPT ![c] = v]
    /\ vol_div' = [vol_div EXCEPT ![c] = pace]
    /\ env' = [env EXCEPT ![c] = [pace |-> pace, up |-> up]]
    /\ UNCHANGED <<power, on, lengths, sweeps>>

\* The write to r4_: a trigger switches the channel on and does nothing else, and
\* no write of it switches the channel off.
WriteControl(c, trigger, limit, high) ==
    /\ on' = IF trigger THEN on \cup {c} ELSE on
    /\ timed' = IF limit THEN timed \cup {c} ELSE timed \ {c}
    /\ freq' = IF c = 1 THEN high * LowMod + (freq % LowMod) ELSE freq
    /\ UNCHANGED <<power, len, dac, envelopes, sweep, sweep_div>>

WriteNR10(pace, down, shift) ==
    /\ sweep' = [pace |-> pace, down |-> down, shift |-> shift]
    /\ UNCHANGED <<power, on, lengths, envelopes, sweep_div, freq>>

WriteNR13(v) == /\ freq' = (freq \div LowMod) * LowMod + v
                /\ UNCHANGED <<power, on, lengths, envelopes, sweep, sweep_div>>

WriteNR30(b) == dac' = b /\ UNCHANGED <<power, on, len, timed, envelopes, sweeps>>

High == 0 .. FreqMod \div LowMod - 1

\* A write to the registers of a channel in S, or to NR52.
WriteTo(S) ==
    /\ Written
    /\ \/ \E b \in BOOLEAN : WriteNR52(b)
       \/ \E c \in S, v \in LenValues : WriteLength(c, v)
       \/ \E c \in S \cap Loud, v \in 0 .. MaxVol, pace \in Paces, up \in BOOLEAN :
             WriteEnvelope(c, v, pace, up)
       \/ \E c \in S, trigger, limit \in BOOLEAN, high \in High :
             WriteControl(c, trigger, limit, high)
       \/ \E pace \in SweepPaces, down \in BOOLEAN, shift \in Shifts :
             1 \in S /\ WriteNR10(pace, down, shift)
       \/ \E v \in 0 .. LowMod - 1 : 1 \in S /\ WriteNR13(v)
       \/ \E b \in BOOLEAN : 3 \in S /\ WriteNR30(b)

Write == WriteTo(Channels)

Next == Tick \/ Write

Spec == Init /\ [][Next]_vars

-----------------------------------------------------------------------------
(* Properties *)

\* The frequency has eleven bits and the volume four: the sample that is sent to
\* the frontend would be out of range with any more.
TypeOK ==
    /\ power \in BOOLEAN /\ on \subseteq Channels
    /\ div \in 0 .. DivMod - 1 /\ seq \in 0 .. 7
    /\ len \in [Channels -> Nat] /\ (\A c \in Channels : len[c] < LengthMod(c))
    /\ timed \subseteq Channels /\ dac \in BOOLEAN
    /\ vol \in [Loud -> 0 .. MaxVol] /\ vol_div \in [Loud -> 0 .. 255]
    /\ env \in [Loud -> [pace : 0 .. 7, up : BOOLEAN]]
    /\ sweep \in [pace : 0 .. 7, down : BOOLEAN, shift : 0 .. 7]
    /\ sweep_div \in 0 .. SweepMod - 1
    /\ freq \in 0 .. FreqMod - 1
    /\ did \in {"start", "tick", "write"}

\* The divider of an envelope that runs is never zero when it is counted down,
\* and never above its pace, though a write may come at any step: one off, and
\* the envelope stands still for 256 periods.
EnvelopesInStep ==
    \A c \in Loud : env[c].pace # 0 => vol_div[c] \in 1 .. env[c].pace

\* Ticks to the next step of the sequencer that clocks the lengths, one of every
\* two, and ticks that a channel still sounds.
ToLength == (IF seq % 2 = 0 THEN 2 * DivMod ELSE DivMod) - div
Left(c) == 2 * DivMod * (LengthMod(c) - 1 - len[c]) + ToLength

\* A channel whose length counter runs is switched off exactly (64 - length)
\* clocks of the sequencer after it is started, on channel 3 (256 - length), and
\* not before, but for channel 1, which the sweep may switch off; while another
\* channel is played, and whatever the program wrote before.
Note(c) == INSTANCE OneShot
    WITH on <- power /\ c \in on \cap Timed,
         left <- Left(c),
         cut <- c = 1 /\ sweep.pace # 0,
         did <- did

NotesEndOnTime ==
    [][\A c \in Channels : Note(c)!Next \/ UNCHANGED Note(c)!vars]_vars
=============================================================================
