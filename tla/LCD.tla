-------------------------------- MODULE LCD --------------------------------
(***************************************************************************)
(* The LCD controller (core/lcd): the beam that walks dots and lines, the  *)
(* mode and coincidence bits of STAT, the frame it draws, the two          *)
(* interrupts it raises, and the transfer into OAM, which LCD::Tick runs   *)
(* as well. What colour a dot has is left out: a frame is how often each   *)
(* of its dots was or-ed with a colour since it was last cleared.          *)
(***************************************************************************)
EXTENDS Integers

CONSTANTS
    Dots, Lines,        \* dots in a line (456), lines in a frame (154)
    Visible,            \* lines that are drawn (144)
    Search, DrawEnd,    \* the dots between which a line is drawn (80, 240)
    HBlank,             \* the dot at which the horizontal blank begins (252)
    OamSize,            \* bytes of OAM (0xA0)
    Pages,              \* pages a program transfers from
    StatValues,         \* values a program writes to STAT
    LycValues           \* values a program writes to LYC

StatSources == {"lyc", "oam", "vblank", "hblank"}   \* STAT bits 6-3
Modes == 0 .. 3                                     \* STAT bits 1-0
Offsets == 0 .. OamSize - 1

ASSUME BeamAssumption ==
    /\ Dots \in Nat /\ Lines \in Nat /\ Visible \in Nat
    /\ Search \in Nat /\ DrawEnd \in Nat /\ HBlank \in Nat
    /\ 0 < Search /\ Search < DrawEnd /\ DrawEnd <= HBlank /\ HBlank < Dots
    /\ 0 < Visible /\ Visible < Lines
ASSUME OamAssumption == OamSize \in Nat \ {0} /\ "cpu" \notin Pages
ASSUME WrittenAssumption ==
    /\ StatValues \subseteq [enabled : SUBSET StatSources, mode : Modes, flag : BOOLEAN]
    /\ LycValues \subseteq Nat

VARIABLES
    on,             \* LCDC bit 7
    enabled,        \* the STAT interrupts that are enabled
    mode,           \* STAT bits 1-0
    flag,           \* STAT bit 2, the coincidence of LY and LYC
    ly, lyc, dot,   \* ly_, lyc_, dot_
    frame,          \* frame_: how often each dot was drawn, 2 for more than once
    dma, dma_ticks, \* dma_, dma_ticks_
    oam,            \* the page each byte of OAM came from, or "cpu"
    raised,         \* the interrupts the last call raised
    did,            \* the last call; a write of LY or LYC by its name
    stale           \* history: what a write has put out of step with the beam

beam == <<ly, dot>>
stat == <<enabled, mode, flag>>
transfer == <<dma, dma_ticks, oam>>
vars == <<on, stat, lyc, beam, frame, transfer, raised, did, stale>>

Columns == 0 .. DrawEnd - Search - 1
Screen == (0 .. Visible - 1) \X Columns
Cleared == [p \in Screen |-> 0]

\* The constructor: LCDC is 0x91, STAT 0x85, all the rest zero. STAT says mode 1
\* although the beam is at the start of line 0.
Init == /\ on = TRUE
        /\ enabled = {} /\ mode = 1 /\ flag = TRUE
        /\ ly = 0 /\ lyc = 0 /\ dot = 0
        /\ frame = Cleared
        /\ dma = "cpu" /\ dma_ticks = 0
        /\ oam = [i \in Offsets |-> "cpu"]
        /\ raised = {}
        /\ did = "start"
        /\ stale = {"mode"}

-----------------------------------------------------------------------------
(* Tick *)

CopyByte ==
    /\ UNCHANGED dma
    /\ IF dma_ticks > 0
       THEN /\ oam' = [oam EXCEPT ![OamSize - dma_ticks] = dma]
            /\ dma_ticks' = dma_ticks - 1
       ELSE UNCHANGED <<oam, dma_ticks>>

Again(n) == IF n = 0 THEN 1 ELSE 2

\* RenderDot: col is dot_ - 80, and dot_ is past 80.
Drawn(line, d) == IF line < Visible /\ Search < d /\ d < DrawEnd
                  THEN [frame EXCEPT ![<<line, d - Search>>] = Again(@)]
                  ELSE frame

\* A step of the beam along its line.
Within ==
    LET begins(d) == ly < Visible /\ dot' = d
    IN  /\ dot + 1 < Dots
        /\ dot' = dot + 1
        /\ mode' = IF begins(Search) THEN 3 ELSE IF begins(HBlank) THEN 0 ELSE mode
        /\ raised' = {i \in {"stat"} : begins(HBlank) /\ "hblank" \in enabled}
        /\ frame' = Drawn(ly, dot')
        /\ stale' = IF begins(Search) \/ begins(HBlank) THEN stale \ {"mode"} ELSE stale
        /\ UNCHANGED <<ly, enabled, flag>>

\* Mutant: LY wraps before the vertical blank.
NextLyEarly(line) == IF line + 1 = Visible THEN 0 ELSE line + 1

NextLy(line) == IF line + 1 = Lines THEN 0 ELSE line + 1

\* Mutant: the flag is set at a coincidence and never cleared.
MatchSticky(line) == flag \/ line = lyc

Match(line) == line = lyc

\* Mutant: mode 2 is or-ed into STAT without clearing bit 0.
LineModeOred(line) ==
    IF line < Visible THEN (IF mode = 1 THEN 3 ELSE 2)
    ELSE IF line = Visible THEN 1 ELSE mode

LineMode(line) == IF line < Visible THEN 2 ELSE IF line = Visible THEN 1 ELSE mode

\* Mutant: the frame that was shown is drawn over.
LineFrameKept(line) == frame

LineFrame(line) == IF line = Visible THEN Cleared ELSE frame

\* Mutant: LYC is compared with the line before.
LineInterruptsLate(line) ==
    {i \in {"stat"} : Match(ly) /\ "lyc" \in enabled}
    \cup {i \in {"vblank"} : line = Visible}

LineInterrupts(line) ==
    {i \in {"stat"} : \/ Match(line) /\ "lyc" \in enabled
                      \/ line < Visible /\ "oam" \in enabled
                      \/ line = Visible /\ "vblank" \in enabled}
    \cup {i \in {"vblank"} : line = Visible}

\* The stale entries the start of a line settles.
LineSettles(line) == {"flag"} \cup {s \in {"mode"} : line <= Visible}
                              \cup {s \in {"frame"} : line = Visible}

\* The step of the beam to the line after; at the first line that is not drawn
\* the frame goes to the frontend and is cleared.
NextLine ==
    /\ dot + 1 = Dots
    /\ dot' = 0
    /\ ly' = NextLy(ly)
    /\ flag' = Match(ly')
    /\ mode' = LineMode(ly')
    /\ raised' = LineInterrupts(ly')
    /\ frame' = LineFrame(ly')
    /\ stale' = stale \ LineSettles(ly')
    /\ UNCHANGED enabled

\* LCD::Tick; with LCDC bit 7 clear it returns before the transfer, too.
Tick == /\ did' = "tick"
        /\ UNCHANGED <<on, lyc>>
        /\ \/ on /\ CopyByte /\ (Within \/ NextLine)
           \/ ~on /\ raised' = {} /\ UNCHANGED <<beam, stat, frame, transfer, stale>>

-----------------------------------------------------------------------------
(* The program's writes *)

Written(call) == did' = call /\ raised' = {}

\* Mutant: a display that is switched off starts over at the top.
WriteLCDCRestarts(b) == /\ on' = b
                        /\ ly' = IF b THEN ly ELSE 0
                        /\ UNCHANGED <<stat, lyc, dot, frame, transfer, stale>>

WriteLCDC(b) == on' = b /\ UNCHANGED <<stat, lyc, beam, frame, transfer, stale>>

\* The value takes the place of all of STAT, the mode and the flag included.
WriteSTAT(v) == /\ enabled' = v.enabled /\ mode' = v.mode /\ flag' = v.flag
                /\ stale' = stale \cup {"mode", "flag"}
                /\ UNCHANGED <<on, lyc, beam, frame, transfer>>

\* The beam goes to line 0 at the dot it is at; the frame is not cleared.
WriteLY == /\ ly' = 0
           /\ stale' = stale \cup {"mode", "flag", "frame"}
           /\ UNCHANGED <<on, stat, lyc, dot, frame, transfer>>

WriteLYC(v) == /\ lyc' = v
               /\ stale' = stale \cup {"flag"}
               /\ UNCHANGED <<on, stat, beam, frame, transfer>>

\* Mutant: a transfer that is under way goes on from where it is.
WriteDMAKeeps(p) == /\ dma' = p
                    /\ dma_ticks' = IF dma_ticks = 0 THEN OamSize ELSE dma_ticks
                    /\ UNCHANGED <<on, stat, lyc, beam, frame, oam, stale>>

WriteDMA(p) == /\ dma' = p
               /\ dma_ticks' = OamSize
               /\ UNCHANGED <<on, stat, lyc, beam, frame, oam, stale>>

WriteOAM(i) == /\ oam' = [oam EXCEPT ![i] = "cpu"]
               /\ UNCHANGED <<on, stat, lyc, beam, frame, dma, dma_ticks, stale>>

Write == \/ /\ Written("write")
            /\ \/ \E b \in BOOLEAN : WriteLCDC(b)
               \/ \E v \in StatValues : WriteSTAT(v)
               \/ \E p \in Pages : WriteDMA(p)
               \/ \E i \in Offsets : WriteOAM(i)
         \/ Written("LY") /\ WriteLY
         \/ Written("LYC") /\ \E v \in LycValues : WriteLYC(v)

Next == Tick \/ Write

Spec == Init /\ [][Next]_vars

\* Machine::Tick calls LCD::Tick first thing, on every tick.
FairSpec == Spec /\ WF_vars(Tick)

-----------------------------------------------------------------------------
(* Properties *)

TypeOK == /\ on \in BOOLEAN
          /\ enabled \in SUBSET StatSources /\ mode \in Modes /\ flag \in BOOLEAN
          /\ ly \in 0 .. Lines - 1 /\ lyc \in Nat /\ dot \in 0 .. Dots - 1
          /\ frame \in [Screen -> 0 .. 2]
          /\ dma \in Pages \cup {"cpu"} /\ dma_ticks \in 0 .. OamSize
          /\ oam \in [Offsets -> Pages \cup {"cpu"}]
          /\ raised \in SUBSET {"stat", "vblank"}
          /\ did \in {"start", "tick", "write", "LY", "LYC"}
          /\ stale \in SUBSET {"mode", "flag", "frame"}

\* The mode the beam's position calls for.
Position == IF ly >= Visible THEN 1
            ELSE IF dot < Search THEN 2 ELSE IF dot < HBlank THEN 3 ELSE 0

\* STAT tells a program where the beam is: the mode, which the code only updates
\* at the edges of a phase, is the position's at every dot, from the first edge
\* after a write of STAT or LY has put it out of step, with the display switched
\* off and on in between at any dot.
ModeShowsPosition == "mode" \notin stale => mode = Position

\* The coincidence bit is what LY and LYC say from the first line after a write
\* of STAT, LY or LYC.
FlagShowsCoincidence == "flag" \notin stale => (flag <=> ly = lyc)

\* A frame in which every dot has been drawn once. The dot of column 0 is the
\* exception: RenderDot is called for dots past 80, and no frame has it.
Whole == [p \in Screen |-> IF p[2] = 0 THEN 0 ELSE 1]

\* The frontend gets whole frames: no dot is missing and none is or-ed into
\* another frame's, unless LY was written since the frame before.
FramesAreWhole ==
    [][(did' = "tick" /\ "vblank" \in raised' /\ "frame" \notin stale) => frame = Whole]_vars

\* The part of OAM a transfer has gone past holds nothing of an earlier transfer,
\* though the earlier one was cut short by the write to DMA.
TransferReplaces ==
    \A i \in Offsets : i < OamSize - dma_ticks => oam[i] \in {dma, "cpu"}

FrameTicks == Lines * Dots

\* Ticks from the beam at a dot of a line to the next start of line n.
Left(n, line, d) == LET at == line * Dots + d
                    IN  n * Dots - at + (IF at < n * Dots THEN 0 ELSE FrameTicks)

\* Vertical blanks come exactly one frame apart while LY is not written; a
\* display that is switched off delays the next one by the time it is off, and
\* never brings two closer. Nothing a program writes but LY moves the beam.
VBlank == INSTANCE Countdown
    WITH on <- on,
         left <- Left(Visible, ly, dot),
         period <- FrameTicks,
         did <- IF "vblank" \in raised THEN "irq"
                ELSE IF did = "LY" THEN "write"
                ELSE IF did = "start" \/ (did = "tick" /\ on) THEN did
                ELSE "pause"

VBlanksOnTime == VBlank!Spec

\* With LYC the only STAT interrupt enabled, it comes once a frame, at line LYC,
\* and only a write of LY or LYC brings it nearer or puts it off.
LycInterrupt == INSTANCE Countdown
    WITH on <- on /\ enabled = {"lyc"} /\ lyc < Lines,
         left <- Left(lyc, ly, dot),
         period <- FrameTicks,
         did <- IF "stat" \in raised /\ enabled = {"lyc"} THEN "irq"
                ELSE IF did \in {"LY", "LYC"} THEN "write"
                ELSE IF did = "start" \/ (did = "tick" /\ on) THEN did
                ELSE "pause"

LycOnTime == LycInterrupt!Spec

\* A display that is left on keeps reaching the vertical blank, which is what the
\* frontends' loops wait for, if LY is not written for ever.
FramesKeepComing ==
    <>[](on /\ did # "LY") => []<>("vblank" \in raised)
=============================================================================
