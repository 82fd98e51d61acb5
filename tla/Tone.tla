-------------------------------- MODULE Tone --------------------------------
(***************************************************************************)
(* The generator of one of the first three channels (Channel1, Channel2    *)
(* and Channel3::TickOutput, core/audio): a counter that runs up from the  *)
(* frequency register to its limit and then moves one place on in the      *)
(* wave, which is a pulse pattern on the first two channels and the wave   *)
(* memory on the third. Volume, duty and samples are left out: the output  *)
(* is the place it is taken from. Length, sweep and envelope are module    *)
(* Audio's; here the channel may go off, and a sweep may retune it, at any *)
(* time.                                                                   *)
(***************************************************************************)
EXTENDS Integers

CONSTANTS
    LowMod, HighMod,    \* values of the halves of the frequency (256 and 8)
    Places,             \* places in the wave (16, on the third channel 32)
    First               \* where a wave may begin (the bit set in step_)

FreqMod == HighMod * LowMod     \* 2048
Low == 0 .. LowMod - 1
High == 0 .. HighMod - 1
Place == 0 .. Places - 1
Silent == -1

ASSUME FreqAssumption == LowMod \in Nat \ {0} /\ HighMod \in Nat \ {0}
ASSUME PlaceAssumption == Places \in Nat \ {0} /\ First \subseteq Place

VARIABLES
    wave,   \* this is the third channel
    on,     \* NR52: TickOutput is called
    dac,    \* r0_ bit 7 of the third channel
    lo, hi, \* r3_, r4_ bits 2-0
    ctr,    \* ctr_
    place,  \* step_ or ndx_
    out,    \* vout_: the place it was taken from
    did     \* the last call: "end" when it ended a place, "write" when it set ctr_ anew

Joined(h, l) == h * LowMod + l
freq == Joined(hi, lo)

vars == <<wave, on, dac, lo, hi, ctr, place, out, did>>

Init == /\ wave \in BOOLEAN
        /\ on = FALSE /\ dac = ~wave
        /\ lo = 0 /\ hi = 0 /\ ctr = 0
        /\ place \in First
        /\ out = Silent
        /\ did = "start"

\* step_ >>= 1, and its highest bit after its lowest; ++ndx_ in five bits.
Onward(p) == IF p + 1 = Places THEN 0 ELSE p + 1

Count == /\ ctr + 1 # FreqMod
         /\ ctr' = ctr + 1
         /\ did' = "tick"
         /\ UNCHANGED <<place, out>>

\* The pulse channels move on and then look, the third looks and then moves on,
\* or stays where it is while it is off.
Reload == /\ ctr + 1 = FreqMod
          /\ ctr' = freq
          /\ place' = IF dac THEN Onward(place) ELSE place
          /\ out' = IF ~dac THEN Silent ELSE IF wave THEN place ELSE place'
          /\ did' = "end"

TickOutput == Count \/ Reload

\* Audio::Tick, as far as this channel sees it.
Tick == /\ \/ on /\ TickOutput
           \/ ~on /\ did' = "tick" /\ UNCHANGED <<ctr, place, out>>
        /\ UNCHANGED <<wave, on, dac, lo, hi>>

Called(call) == did' = call /\ UNCHANGED <<wave, place, out>>

\* WriteNR13, WriteNR23, WriteNR33.
WriteLow(v) == lo' = v /\ ctr' = Joined(hi, v) /\ UNCHANGED <<on, dac, hi>>

\* WriteNR14, WriteNR24, WriteNR34; bit 7 switches the channel on.
WriteHigh(v, b) == /\ hi' = v
                   /\ ctr' = Joined(v, lo)
                   /\ on' = b
                   /\ UNCHANGED <<dac, lo>>

\* Mutant: the counter starts again from the new frequency.
SweepRestarts(l, h) == /\ lo' = l /\ hi' = h
                       /\ ctr' = Joined(h, l)
                       /\ UNCHANGED <<on, dac>>

\* Channel1::TickSweep; the counter goes on with what the frequency was.
Sweep(l, h) == lo' = l /\ hi' = h /\ UNCHANGED <<on, dac, ctr>>

WriteNR30(b) == wave /\ dac' = b /\ UNCHANGED <<on, lo, hi, ctr>>

\* The length counter, the sweep or a write to NR52.
Gate(b) == on' = b /\ UNCHANGED <<dac, lo, hi, ctr>>

Write == /\ Called("write")
         /\ \/ \E v \in Low : WriteLow(v)
            \/ \E v \in High, b \in BOOLEAN : WriteHigh(v, b)

Aside == /\ Called("aside")
         /\ \/ \E l \in Low, h \in High : ~wave /\ Sweep(l, h)
            \/ \E b \in BOOLEAN : WriteNR30(b) \/ Gate(b)

Next == Tick \/ Write \/ Aside

Spec == Init /\ [][Next]_vars

-----------------------------------------------------------------------------
(* Properties *)

\* ctr_ is compared with its limit for equality: above it, it would have to go
\* through all 32 bits first.
TypeOK == /\ wave \in BOOLEAN /\ on \in BOOLEAN /\ dac \in BOOLEAN
          /\ lo \in Low /\ hi \in High
          /\ ctr \in 0 .. FreqMod - 1
          /\ place \in Place
          /\ out \in Place \cup {Silent}
          /\ did \in {"start", "tick", "end", "aside", "write"}

\* A place of the wave takes the 2048 - frequency ticks of the frequency it begins
\* with: a sweep only counts for the next one, and a channel that is off meanwhile
\* goes on where it was. A write of the frequency begins the place anew.
PlaceTime == INSTANCE Countdown
    WITH left <- FreqMod - ctr,
         period <- FreqMod - freq,
         did <- IF did = "end" THEN "irq"
                ELSE IF did = "aside" \/ (did = "tick" /\ ~on) THEN "pause"
                ELSE did

\* The places come one after the other, and the wave begins again after its last,
\* whatever is written or swept in between: only the end of a place moves it.
WaveOrder == INSTANCE Countdown
    WITH on <- TRUE,
         left <- Places - place,
         period <- Places,
         did <- IF did = "end" /\ dac THEN (IF place = 0 THEN "irq" ELSE "tick")
                ELSE IF did = "start" THEN did
                ELSE "pause"

\* A tone keeps its pitch, and its wave in one piece: each place lasts as long as
\* the frequency says, and none is skipped or played twice, while sweeps, writes
\* and switches fall anywhere into a place.
KeepsTone == PlaceTime!Spec /\ WaveOrder!Spec
=============================================================================
