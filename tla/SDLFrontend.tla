----------------------------- MODULE SDLFrontend -----------------------------
(***************************************************************************)
(* The loop of the SDL frontend (frontend/sdl) and the input on its way to *)
(* the program: the user's keys become events, PollInput makes btn_ of     *)
(* them once a frame, and the joypad register (core/joypad) shows the      *)
(* program the group of buttons it has selected. When a frame comes is up  *)
(* to the program, too: of the display (core/lcd), which has a module of   *)
(* its own, this one keeps how many lines the vertical blank is away.      *)
(***************************************************************************)
EXTENDS Sequences, Naturals

CONSTANTS
    Keys,           \* the keys the user has, names of buttons
    MaxEvents,      \* events that wait at once (a bound)
    DrawnLines, FrameLines  \* lines a frame draws (144), lines it has (154)

ASSUME LinesAssumption ==
    /\ DrawnLines \in Nat /\ FrameLines \in Nat
    /\ 0 < DrawnLines /\ DrawnLines < FrameLines

VARIABLES
    loop,           \* where Run is: in RunMachine, in PollInput, or it has returned
    display, away,  \* LCDC bit 7, lines to the next vertical blank
    ready,          \* frame_ready_
    quit, btn,      \* quit_, btn_
    held,           \* the keys the user holds down
    events,         \* SDL's queue
    selected, low   \* joyp_: the groups whose bit is 0, the lines whose bit is 0

frontend == <<loop, quit, btn>>
lcd == <<display, away>>
user == <<held, events>>
joyp == <<selected, low>>
sdlVars == <<frontend, lcd, ready, user, joyp>>

Directions == [right |-> 0, left |-> 1, up |-> 2, down |-> 3]   \* bit 4
Actions == [a |-> 0, b |-> 1, select |-> 2, start |-> 3]        \* bit 5
Lines == [directions |-> Directions, actions |-> Actions]
Groups == DOMAIN Lines

\* The constructors: joyp_ is 0, which selects both groups and pulls every line.
SDLInit == /\ loop = "machine" /\ quit = FALSE /\ btn = {}
           /\ display = TRUE /\ away = DrawnLines /\ ready = FALSE
           /\ held = {} /\ events = <<>>
           /\ selected = Groups /\ low = 0 .. 3

-----------------------------------------------------------------------------
(* The program, in RunMachine *)

\* The lines of a group's buttons that are pressed.
Pulled(group, pressed) == {group[b] : b \in DOMAIN group \cap pressed}

\* Mutant: lines that are pulled once are never let go.
ReadJOYPSticky == /\ low' = low \cup UNION {Pulled(Lines[g], btn) : g \in selected}
                  /\ UNCHANGED <<selected, lcd>>

\* ReadJOYP lets all lines go first.
ReadJOYP == /\ low' = UNION {Pulled(Lines[g], btn) : g \in selected}
            /\ UNCHANGED <<selected, lcd>>

\* WriteJOYP keeps the lines as they were read last.
WriteJOYP(groups) == selected' = groups /\ UNCHANGED <<low, lcd>>

Switch(b) == display' = b /\ UNCHANGED <<away, joyp>>

\* The beam goes back to line 0.
WriteLY == away' = DrawnLines /\ UNCHANGED <<display, joyp>>

Play == /\ loop = "machine"
        /\ \/ ReadJOYP
           \/ \E groups \in SUBSET Groups : WriteJOYP(groups)
           \/ \E b \in BOOLEAN : Switch(b)
           \/ WriteLY
        /\ UNCHANGED <<frontend, ready, user>>

\* The ticks of a line; with the display off they move nothing. The frame comes
\* with the first line that is not drawn.
NextLine == /\ loop = "machine" /\ display
            /\ IF away = 1 THEN away' = FrameLines /\ ready' = TRUE
               ELSE away' = away - 1 /\ UNCHANGED ready
            /\ UNCHANGED <<frontend, display, user, joyp>>

\* RunMachine returns at the end of the chunk in which a frame was put out.
FrameReady == /\ loop = "machine" /\ ready
              /\ loop' = "poll"
              /\ UNCHANGED <<quit, btn, lcd, ready, user, joyp>>

-----------------------------------------------------------------------------
(* PollInput *)

Handle(e) ==
    /\ quit' = (quit \/ e = <<"quit">>)
    /\ btn' = CASE e[1] = "down" -> btn \cup {e[2]}
                [] e[1] = "up" -> btn \ {e[2]}
                [] OTHER -> btn

\* Run goes on if nobody has asked it to quit: RunMachine waits for the next frame.
Return == \/ quit /\ loop' = "ended" /\ UNCHANGED ready
          \/ ~quit /\ loop' = "machine" /\ ready' = FALSE

\* Mutant: the loop looks at quit_ after an event and not after its last one.
PollBehind == /\ loop = "poll"
              /\ IF events # <<>>
                 THEN /\ Handle(Head(events)) /\ events' = Tail(events)
                      /\ loop' = IF quit THEN "ended" ELSE "poll"
                      /\ UNCHANGED ready
                 ELSE loop' = "machine" /\ ready' = FALSE /\ UNCHANGED <<quit, btn, events>>
              /\ UNCHANGED <<lcd, held, joyp>>

\* A turn of its loop: the next event, or the end of it.
Poll == /\ loop = "poll"
        /\ IF events # <<>>
           THEN Handle(Head(events)) /\ events' = Tail(events) /\ UNCHANGED <<loop, ready>>
           ELSE Return /\ UNCHANGED <<quit, btn, events>>
        /\ UNCHANGED <<lcd, held, joyp>>

-----------------------------------------------------------------------------
(* The user *)

Sends(e) == Len(events) < MaxEvents /\ events' = Append(events, e)

\* A key that is held sends its press over again.
User == /\ loop # "ended"
        /\ \/ \E k \in Keys : held' = held \cup {k} /\ Sends(<<"down", k>>)
           \/ \E k \in held : held' = held \ {k} /\ Sends(<<"up", k>>)
           \/ Sends(<<"quit">>) /\ UNCHANGED held
        /\ UNCHANGED <<frontend, lcd, ready, joyp>>

SDLNext == Play \/ NextLine \/ FrameReady \/ Poll \/ User

\* The process runs: RunMachine ticks the machine until a frame is ready, and its
\* chunk of ticks ends; PollInput takes event after event. That a frame is ever
\* ready is not assumed.
SDLSpec == /\ SDLInit /\ [][SDLNext]_sdlVars
           /\ WF_sdlVars(NextLine) /\ WF_sdlVars(FrameReady) /\ WF_sdlVars(Poll)

-----------------------------------------------------------------------------
(* Properties *)

\* A write of LY puts the frame off that RunMachine waits for.
PutOff == away' > away /\ ~ ready'

\* The user rests, the display stays on, and the program does not write LY for ever.
Resting == <>[][~User]_sdlVars /\ <>[]display /\ <>[][~PutOff]_sdlVars

\* Then every later read of JOYP shows the keys that are held and no other: no key
\* sticks and none is missed, whatever was pressed, repeated, selected or read before.
HeldKeysAreSeen ==
    Resting => <>[][ReadJOYP /\ loop = "machine" =>
                        low' = UNION {Pulled(Lines[g], held) : g \in selected}]_sdlVars

Asked == quit \/ \E i \in DOMAIN events : events[i] = <<"quit">>

\* A request to quit ends the loop, however many events come before and after it:
\* as long as the user does not keep the loop in PollInput for ever, the program
\* does not write LY for ever and the display stays on in the end, without which
\* RunMachine may never return.
QuitEnds == Resting => (Asked ~> loop = "ended")
=============================================================================
