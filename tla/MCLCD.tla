------------------------------- MODULE MCLCD -------------------------------
(***************************************************************************)
(* A screen of two drawn lines and two blank ones, of two drawn columns    *)
(* and the column that is never drawn, and the beam over it with a dot in  *)
(* every phase; OAM has three entries, of which a line shows two. There    *)
(* are two programs: one writes STAT, LY and LYC, the other moves its      *)
(* sprites, starts transfers at any time, writes to OAM and changes the    *)
(* height. Both switch the display off and on.                             *)
(***************************************************************************)
EXTENDS Sprites

VARIABLE program    \* which of them runs

MCStatValues ==
    {[enabled |-> {}, mode |-> 3, flag |-> TRUE],
     [enabled |-> {"lyc"}, mode |-> 0, flag |-> FALSE],
     [enabled |-> StatSources, mode |-> 1, flag |-> FALSE]}

\* What OAM gets from the pages and from the program: two entries at one column
\* before a third in front of them, three entries at three heights, and nothing.
MCImage == [p1 |-> <<4, 3, 0, {},         4, 3, 1, {"behind"},
                     4, 2, 2, {"yflip"}>>,
            p2 |-> <<5, 4, 3, {"yflip"},  3, 3, 2, {"xflip"},
                     2, 2, 1, {"xflip", "yflip"}>>,
            cpu |-> <<0, 0, 0, {}, 0, 0, 0, {}, 0, 0, 0, {}>>]

PageImage == [p \in {"p1", "p2", "cpu"} |-> [i \in Offsets |-> MCImage[p][i + 1]]]

MCOpaque == {d \in (0 .. 3) \X (0 .. 1) \X (0 .. 1) : (d[1] + 2 * d[2] + d[3]) % 3 # 0}

mcVars == <<spriteVars, program>>

MCInit == SpriteInit /\ program \in {"display", "sprites"}

Same(v) == v' = v

\* What a program leaves alone: the first OAM and the sprites, the second STAT, LY
\* and LYC; a transfer is restarted at one of its bytes, and one byte written.
LeavesAlone ==
    did' # "tick" =>
        IF program = "display" THEN Same(<<transfer, tall>>)
        ELSE /\ Same(<<stat, beam, lyc, stale>>)
             /\ Same(<<dma, dma_ticks>>) \/ dma_ticks \in {0, OamSize \div 2}
             /\ \A i \in Offsets \ {0} : oam[i] = oam'[i]

MCNext == SpriteNext /\ LeavesAlone /\ UNCHANGED program

MCSpec == MCInit /\ [][MCNext]_mcVars /\ WF_mcVars(SpriteTick /\ UNCHANGED program)
=============================================================================
