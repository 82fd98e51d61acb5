----------------------------- MODULE MCFrontend -----------------------------
(***************************************************************************)
(* The frontends, one concern at a time, for they share no state: the      *)
(* serial line with bytes of three bits, which has a first, a middle and a *)
(* last bit and can be cut short at two places; the pace of the SDL loop   *)
(* with words of 120, which two dozen frames make wrap; its input, with    *)
(* two keys of one line, three events at once, and frames of three lines   *)
(* of which two are drawn; and the loop of the libretro frontend.          *)
(***************************************************************************)
EXTENDS Serial, Pacing, SDLFrontend, LRConnector

VARIABLE concern

MCInit == /\ Init /\ PaceInit /\ SDLInit /\ LRInit
          /\ concern \in {"serial", "pace", "input", "libretro"}

mcVars == <<vars, paceVars, sdlVars, lrVars, concern>>

Others == <<vars, paceVars, lrVars, concern>>

MCNext ==
    \/ concern = "serial" /\ Next /\ UNCHANGED <<paceVars, sdlVars, lrVars, concern>>
    \/ concern = "pace" /\ PaceNext /\ UNCHANGED <<vars, sdlVars, lrVars, concern>>
    \/ concern = "input" /\ SDLNext /\ UNCHANGED Others
    \/ concern = "libretro" /\ LRNext /\ UNCHANGED <<vars, paceVars, sdlVars, concern>>

MCSpec == /\ MCInit /\ [][MCNext]_mcVars
          /\ WF_mcVars(concern = "input" /\ NextLine /\ UNCHANGED Others)
          /\ WF_mcVars(concern = "input" /\ FrameReady /\ UNCHANGED Others)
          /\ WF_mcVars(concern = "input" /\ Poll /\ UNCHANGED Others)
=============================================================================
