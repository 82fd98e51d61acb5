---------------------------- MODULE LRConnector ----------------------------
(***************************************************************************)
(* The libretro frontend (frontend/libretro): a host calls Run, which      *)
(* ticks the machine in chunks until a frame is out and hands over the     *)
(* sound that was made meanwhile, and between two Runs it may save the     *)
(* machine and restore it. Of the machine there are its clock, which no    *)
(* save holds, and the ticks to the next frame. Samples are numbered.      *)
(***************************************************************************)
EXTENDS Sequences, Integers

CONSTANTS
    Chunk,          \* ticks of a chunk (10000)
    FrameTicks,     \* ticks of a frame (70224); a chunk is shorter
    BatchSize,      \* samples in a full batch (50)
    TimerEvery,     \* ticks of the clock to one of the timer (8)
    Clock,          \* the part of the clock that is looked at (1024)
    SampleMod       \* the numbers of samples (a bound)

ASSUME ChunkAssumption ==
    /\ Chunk \in Nat \ {0} /\ FrameTicks \in Nat /\ Chunk < FrameTicks
    /\ TimerEvery \in Nat \ {0} /\ Chunk % TimerEvery = 0
    /\ Clock \in Nat \ {0} /\ Clock % TimerEvery = 0
    /\ BatchSize \in Nat \ {0} /\ SampleMod \in Nat /\ BatchSize < SampleMod

VARIABLES
    turn,           \* whose turn it is: "host", or "chunk" inside of Run
    left,           \* ticks left in the chunk
    frame_ready,    \* frame_ready_
    clock,          \* Machine::t
    shows, beam,    \* LCDC bit 7, ticks to the next frame
    queued,         \* queued_samples_
    saved,          \* the part of a save that matters, and the clock when it was made
    made, got,      \* history: the sample made next, the one the host gets next
    shown,          \* history: frames in this Run
    inOrder         \* history: every batch began where the one before ended

lrVars == <<turn, left, frame_ready, clock, shows, beam, queued, saved,
            made, got, shown, inOrder>>
sound == <<queued, made, got, inOrder>>

LRInit ==
    /\ turn = "host" /\ left = 0 /\ frame_ready = FALSE
    /\ clock = 0 /\ shows = TRUE /\ beam = FrameTicks
    /\ queued = <<>> /\ made = 0 /\ got = 0
    /\ saved = [beam |-> FrameTicks, shows |-> TRUE, clock |-> 0]
    /\ shown = 1 /\ inOrder = TRUE

\* audio_sample_batch_ of what is queued.
HandOver(samples) ==
    /\ got' = (got + Len(samples)) % SampleMod
    /\ inOrder' = (inOrder /\ \A k \in DOMAIN samples : samples[k] = (got + k - 1) % SampleMod)

\* Mutant: what was handed over at the end of the last Run stays queued.
BeginKeeps == /\ turn = "host" /\ turn' = "chunk" /\ left' = Chunk
              /\ frame_ready' = FALSE /\ shown' = 0
              /\ UNCHANGED <<clock, shows, beam, saved, sound>>

\* Run, up to its loop.
Begin == /\ turn = "host" /\ turn' = "chunk" /\ left' = Chunk
         /\ queued' = <<>> /\ frame_ready' = FALSE
         /\ shown' = 0
         /\ UNCHANGED <<clock, shows, beam, saved, made, got, inOrder>>

\* OutputAudioFrame: a full batch is handed over at once.
OutputAudioFrame ==
    LET batch == Append(queued, made)
        full == Len(batch) >= BatchSize
    IN  /\ made' = (made + 1) % SampleMod
        /\ queued' = IF full THEN <<>> ELSE batch
        /\ IF full THEN HandOver(batch) ELSE UNCHANGED <<got, inOrder>>

\* The LCD controller: OutputVideoFrame, when the frame is done.
Beam == IF shows /\ beam = 1
        THEN beam' = FrameTicks /\ frame_ready' = TRUE /\ shown' = shown + 1
        ELSE beam' = (IF shows THEN beam - 1 ELSE beam) /\ UNCHANGED <<frame_ready, shown>>

\* Mutant: a Run ends with the tick that has put out the frame.
MachineTickLeaves ==
    /\ turn = "chunk" /\ left > 0
    /\ clock' = (clock + 1) % Clock
    /\ Beam
    /\ left' = IF frame_ready' THEN 0 ELSE left - 1
    /\ OutputAudioFrame \/ UNCHANGED sound
    /\ UNCHANGED <<turn, shows, saved>>

\* Machine::Tick, with a sample or without.
MachineTick ==
    /\ turn = "chunk" /\ left > 0
    /\ left' = left - 1
    /\ clock' = (clock + 1) % Clock
    /\ Beam
    /\ OutputAudioFrame \/ UNCHANGED sound
    /\ UNCHANGED <<turn, shows, saved>>

\* The program switches the display, or sends the beam back to the first line.
Game == /\ turn = "chunk"
        /\ \/ shows' \in BOOLEAN /\ UNCHANGED beam
           \/ beam' \in Chunk + 1 .. FrameTicks /\ UNCHANGED shows
        /\ UNCHANGED <<left, turn, frame_ready, clock, sound, saved, shown>>

\* The end of a chunk: another one, or the last samples and the end of Run.
End == /\ turn = "chunk" /\ left = 0
       /\ IF frame_ready THEN turn' = "host" /\ HandOver(queued) /\ UNCHANGED left
          ELSE left' = Chunk /\ UNCHANGED <<turn, got, inOrder>>
       /\ UNCHANGED <<frame_ready, clock, shows, beam, saved, shown, queued, made>>

\* Serialize and Unserialize; module SaveState has what they do to the machine.
Serialize == /\ turn = "host"
             /\ saved' = [beam |-> beam, shows |-> shows, clock |-> clock]
             /\ UNCHANGED <<turn, left, frame_ready, clock, shows, beam, sound, shown>>

Unserialize == /\ turn = "host"
               /\ beam' = saved.beam /\ shows' = saved.shows
               /\ UNCHANGED <<turn, left, frame_ready, clock, saved, sound, shown>>

LRNext == Begin \/ MachineTick \/ Game \/ End \/ Serialize \/ Unserialize

LRSpec == LRInit /\ [][LRNext]_lrVars

-----------------------------------------------------------------------------
(* Properties *)

\* Every Run shows one frame and no more, wherever a restore has put the beam, and
\* when it returns the host has every sample once and in order, the ones of the
\* ticks after the frame included.
RunsAreWhole == inOrder /\ (turn = "host" => got = made /\ shown = 1)

\* A restored machine goes on in the phase of the timer and the processor in which
\* it was saved, though no save holds the clock: a Run is a whole number of chunks,
\* and a chunk a whole number of their ticks. Of the serial port that is not true.
ResumesInPhase == turn = "host" => (clock - saved.clock) % TimerEvery = 0
=============================================================================
