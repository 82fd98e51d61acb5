------------------------------- MODULE Pacing -------------------------------
(***************************************************************************)
(* How the SDL frontend keeps time (frontend/sdl): the loop draws a frame, *)
(* compares the time of the game, which it computes from the count of      *)
(* frames, with the wall clock, and sleeps if it is ahead. Both are words  *)
(* that wrap.                                                              *)
(***************************************************************************)
EXTENDS Integers

CONSTANTS
    Word,           \* the values of frames_ and of SDL_GetTicks (2^32)
    Num, Den,       \* milliseconds of a frame, as a fraction (50 / 3)
    Slack,          \* a lead that is not worth a sleep (10)
    MaxWork         \* milliseconds a frame, or a sleep beyond its time, takes at most

ASSUME PaceAssumption ==
    /\ Word \in Nat \ {0} /\ Num \in Nat \ {0} /\ Den \in Nat \ {0}
    /\ Slack \in Nat /\ MaxWork \in Nat

VARIABLES
    next,           \* what the loop does next: "frame" or "sync"
    frames,         \* frames_
    wall,           \* SDL_GetTicks()
    delay,          \* the argument of the last SDL_Delay, or 0
    wrapped         \* history: a product or the clock has wrapped

paceVars == <<next, frames, wall, delay, wrapped>>

PaceInit == next = "frame" /\ frames = 0 /\ wall = 0 /\ delay = 0 /\ wrapped = FALSE

GameMs == ((frames * Num) % Word) \div Den

\* Time passes on the wall.
Passes(ms) == /\ wall' = (wall + ms) % Word
              /\ wrapped' = (wrapped \/ wall + ms >= Word \/ frames' * Num >= Word)

\* RunMachine, Redraw and PollInput: one frame more, and the time it took.
Frame == /\ next = "frame" /\ next' = "sync"
         /\ frames' = (frames + 1) % Word
         /\ \E ms \in 0 .. MaxWork : Passes(ms)
         /\ UNCHANGED delay

\* Mutant: the frame that has just been drawn is not counted.
LeadPast == IF frames = 0 THEN 0 ELSE (((frames - 1) * Num) % Word) \div Den - wall

\* How far the game is ahead of the wall.
Lead == GameMs - wall

\* SyncTime: the loop sleeps if the game is ahead, and sleeps as long or longer.
SyncTime ==
    /\ next = "sync" /\ next' = "frame"
    /\ delay' = IF Lead > Slack THEN Lead ELSE 0
    /\ UNCHANGED frames
    /\ IF delay' = 0 THEN UNCHANGED <<wall, wrapped>>
       ELSE \E more \in 0 .. MaxWork : Passes(delay' + more)

PaceNext == Frame \/ SyncTime

PaceSpec == PaceInit /\ [][PaceNext]_paceVars

-----------------------------------------------------------------------------
(* Properties *)

\* Milliseconds of a frame, rounded up.
FrameMs == Num \div Den + 1

\* Until a product or the clock wraps, the game is never more than 10 ms ahead of
\* the wall when a frame begins, and no sleep is longer than a frame and those
\* 10 ms: an error of the division is not summed up.
Paced == ~wrapped => /\ next = "frame" => GameMs <= wall + Slack
                     /\ delay <= FrameMs + Slack
=============================================================================
