------------------------------- MODULE MCVoices -------------------------------
(***************************************************************************)
(* The two kinds of generators, one at a time, for they share no state. A  *)
(* tone has eight frequencies written in two halves, and waves of four     *)
(* places that begin at the first place or, like Channel2's, in the        *)
(* middle. The noise has the two fastest rates and one that stops; its     *)
(* short register of three bits inside one of seven repeats after 7 steps, *)
(* the long one after 127.                                                 *)
(***************************************************************************)
EXTENDS Tone, Noise

VARIABLE voice

MCRates == {[code |-> 0, shift |-> 0], [code |-> 0, shift |-> 1],
            [code |-> 7, shift |-> 14]}

MCVars == <<vars, noiseVars, voice>>

MCInit == Init /\ NoiseInit /\ voice \in {"tone", "noise"}

MCNext == \/ voice = "tone" /\ Next /\ UNCHANGED <<noiseVars, voice>>
          \/ voice = "noise" /\ NoiseNext /\ UNCHANGED <<vars, voice>>

MCSpec == /\ MCInit /\ [][MCNext]_MCVars
          /\ WF_MCVars(voice = "noise" /\ NoiseTick /\ UNCHANGED <<vars, voice>>)
=============================================================================
