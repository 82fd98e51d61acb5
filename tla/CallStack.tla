----------------------------- MODULE CallStack -----------------------------
(***************************************************************************)
(* The processor of module CPU running a program that keeps its stack in   *)
(* memory, with a history of the frames that calls and interrupts have     *)
(* opened. An interrupt may come between any two instructions; what is     *)
(* checked is that the program cannot tell, and that handlers that end in  *)
(* RETI do not pile up.                                                    *)
(***************************************************************************)
EXTENDS CPU, Sequences

VARIABLE frames     \* open frames: where the return address is, and its value

svars == <<vars, frames>>

Frame(kind, ret) == [kind |-> kind, at |-> sp', ret |-> ret]

SInit == Init /\ frames = <<>>

Enter == Dispatch /\ frames' = Append(frames, Frame("handler", pc))

CallFrame(i) == Call(i) /\ frames' = Append(frames, Frame("call", After(i)))

ReturnFrame(i) ==
    /\ Return(i)
    /\ frames' = IF frames = <<>> THEN frames ELSE SubSeq(frames, 1, Len(frames) - 1)

Other(i) == /\ ~ (i.op \in {"ret", "reti"} \/ i.op = "call")
            /\ Instruction(i)
            /\ UNCHANGED frames

SkipFrame(i) == NotTaken(i) /\ i.op # "jump" /\ UNCHANGED frames

STick == \/ Enter
         \/ (Sleep \/ Wait) /\ UNCHANGED frames
         \/ \E i \in Code[pc] : CallFrame(i) \/ ReturnFrame(i) \/ Other(i) \/ SkipFrame(i)

SNext == STick \/ \E s \in Source : Interrupt(s) /\ UNCHANGED frames

SSpec == SInit /\ [][SNext]_svars /\ WF_svars(STick)

\* The frames lie one above the other in memory, above the stack pointer, and
\* each still holds the address it was opened with, whatever was pushed, popped
\* and served in between.
FramesIntact ==
    /\ \A k \in 1 .. Len(frames) : Peek16(frames[k].at) = {frames[k].ret}
    /\ \A j, k \in 1 .. Len(frames) : j < k => frames[j].at >= frames[k].at + 2
    /\ frames # <<>> => sp <= frames[Len(frames)].at

\* A return, from a call or from a handler, finds its own frame on top and goes
\* back to the instruction after the call or to the one the interrupt displaced.
ReturnsWhereItLeft ==
    [][Len(frames') < Len(frames) =>
          /\ sp = frames[Len(frames)].at
          /\ pc' = frames[Len(frames)].ret]_svars

Handlers == {k \in 1 .. Len(frames) : frames[k].kind = "handler"}

\* A handler that leaves the master switch to RETI is never interrupted, so at
\* most one handler is open and the stack stays as deep as the program made it
\* plus one handler: RETI turns ime_ on in the step that has already read the
\* return address (CPU.cc:463-467).
HandlersDoNotNest ==
    /\ \A j, k \in Handlers : j = k
    /\ ime => Handlers = {}

\* The most urgent source, once its request is enabled, is served in the end
\* whatever the program is doing, a handler of another source included; a less
\* urgent one may starve.
UrgentNeverStarves == 0 \in Pending ~> event = <<"service", 0>>

-----------------------------------------------------------------------------
(* Programs that keep their stack *)

TopFrame == frames[Len(frames)]
Cells == UNION {{frames[k].at, frames[k].at + 1} : k \in 1 .. Len(frames)}

\* There is memory for a word below the stack pointer.
Room == sp >= 2 /\ {sp - 1, sp - 2} \subseteq Ram

\* An instruction of such a program releases what was pushed in the frame it is in
\* and no more, stores nothing over a frame, and switches interrupts on in a handler
\* by the RETI that ends it and not before.
Keeps(i) ==
    /\ i.op \in {"push", "call"} => Room
    /\ i.op = "ld" => i.arg \notin Cells
    /\ i.op = "ldsp" => {i.arg, Plus(i.arg, 1)} \cap Cells = {}
    /\ i.op = "setsp" => frames = <<>> \/ i.arg <= TopFrame.at
    /\ i.op = "pop" => frames = <<>> \/ sp + 2 <= TopFrame.at
    /\ i.op \in {"ret", "reti"} => frames = <<>> \/ sp = TopFrame.at
    /\ i.op = "reti" => Handlers = {} \/ TopFrame.kind = "handler"
    /\ i.op = "ei" => Handlers = {}

\* A step of such a program keeps its stack, and has room for a request.
Careful ==
    busy = 0 => IF ime /\ Pending # {} THEN Room
                ELSE (halt /\ Pending = {}) \/ \A i \in Code[pc] : Keeps(i)
=============================================================================
