----------------------------- MODULE SaveState -----------------------------
(***************************************************************************)
(* Saving and restoring the machine (operator<< and operator>> of Machine  *)
(* and its components, core/Serializer) as the libretro frontend does      *)
(* between two frames. A stream is a sequence of words: codes, which open  *)
(* a component and carry its version, and data. A word stands for a group  *)
(* of members that are written one after the other, and for a whole string *)
(* (length, characters and padding).                                       *)
(*                                                                         *)
(* A stream may come back shorter than it was written, cut between two     *)
(* words or inside one, or with the code of another version of a           *)
(* component. Streams of other games are left out.                         *)
(***************************************************************************)
EXTENDS Integers, Sequences, SequencesExt

CONSTANTS
    MaxRuns, MaxRestores    \* bounds: how often each happens

ASSUME CallsAssumption == MaxRuns \in Nat /\ MaxRestores \in Nat

Codes == {"machine", "cpu", "lcd", "mapper", "joypad", "timer", "audio", "chan1", "serial"}

CodeWord(c) == <<"code", c>>
DataWord(n) == <<"data", n>>
Zero == DataWord(0)         \* what a word is that could not be read
Torn == DataWord(-1)        \* some bytes of a word that was cut

\* operator<< of each component, and of the machine.
WriteCPU == <<"cpu", "busy", "reg", "interrupts">>
WriteLCD == <<"lcd", "registers", "dot", "frame", "vram", "oam">>
WriteMapper == <<"mapper", "number", "banks", "ram">>
WriteJoypad == <<"joypad", "joyp">>
WriteTimer == <<"timer", "tima", "fulldiv">>
WriteChannel1 == <<"chan1", "ch1">>
WriteAudio == <<"audio">> \o WriteChannel1 \o <<"nr", "sequencer">>
WriteSerial == <<"serial", "sb", "bits">>

Written == <<"machine">> \o WriteCPU \o WriteLCD \o WriteMapper \o WriteJoypad
               \o WriteTimer \o WriteAudio \o WriteSerial \o <<"wram", "hram">>

\* Mutant: the timer is read in the wrong order.
ReadTimerSwapped == <<"timer", "fulldiv", "tima">>

\* operator>> of each component.
ReadCPU == <<"cpu", "busy", "reg", "interrupts">>
ReadLCD == <<"lcd", "registers", "dot", "frame", "vram", "oam">>
ReadMapper == <<"mapper", "number", "banks", "ram">>
ReadJoypad == <<"joypad", "joyp">>
ReadTimer == <<"timer", "tima", "fulldiv">>
ReadChannel1 == <<"chan1", "ch1">>
ReadAudio == <<"audio">> \o ReadChannel1 \o <<"nr", "sequencer">>
ReadSerial == <<"serial", "sb", "bits">>

\* The components in the order of the machine's operator>>, which goes on to the
\* next only if the stream is good.
Components == <<ReadCPU, ReadLCD, ReadMapper, ReadJoypad, ReadTimer, ReadAudio, ReadSerial>>
Read == <<"machine">> \o ReadCPU \o ReadLCD \o ReadMapper \o ReadJoypad
            \o ReadTimer \o ReadAudio \o ReadSerial \o <<"wram", "hram">>

\* What the machine is made of.
Stored == Range(Written) \ Codes
Members == Stored \cup {"ch2", "ch3", "ch4"}
Memories == {"ram", "wram", "hram"}

VARIABLES
    machine,    \* its members' values
    saved,      \* the stream written last
    runs, restores, \* how often the program ran, and a stream was read
    did,        \* the last call
    returned,   \* what it returned
    image,      \* history: the machine when saved was written
    before,     \* history: the machine before the last restore
    whole       \* history: the last stream restored was as it was written

saveVars == <<machine, saved, runs, restores, did, returned, image, before, whole>>

Stream(m) == [i \in DOMAIN Written |-> IF Written[i] \in Codes
                                       THEN CodeWord(Written[i]) ELSE m[Written[i]]]

SaveInit == /\ machine = [x \in Members |-> DataWord(1)]
            /\ saved = Stream(machine)
            /\ runs = 0 /\ restores = 0
            /\ did = "start" /\ returned = TRUE
            /\ image = machine /\ before = machine
            /\ whole = TRUE

-----------------------------------------------------------------------------
(* Reading a stream *)

\* Mutant: a code is not compared.
FitsAnything(s, i) == i \in DOMAIN s

\* A word is there, and if it is read as a code, it is the right one (Start).
Fits(s, i) == /\ i \in DOMAIN s
              /\ Read[i] \in Codes => s[i] = CodeWord(Read[i])

\* How many words are read before the stream fails for good.
Good(s) == Min({i \in 1 .. Len(Read) : ~ Fits(s, i)} \cup {Len(Read) + 1}) - 1

\* Where a member is read, and the component it belongs to.
Place == [x \in Members |-> CHOOSE i \in 0 .. Len(Read) :
                               IF Contains(Read, x) THEN i # 0 /\ Read[i] = x ELSE i = 0]
Owner == [x \in Stored |-> CHOOSE k \in DOMAIN Components : Contains(Components[k], x)]

\* Where component k ends, with the last of its members.
EndOf == [k \in DOMAIN Components |-> Place[Last(Components[k])]]

\* Mutant: the components are read whether the stream is good or not.
ReachedAlways(good, k) == k \in DOMAIN Components

\* Whether component k is read at all. The code of the machine is not waited for.
Reached(good, k) == k = 1 \/ good >= EndOf[k - 1]

\* Mutant: the RAM of the cartridge is read in place.
CopiedInPlace(good, x) == good >= (IF x = "ram" THEN EndOf[2] ELSE Len(Read))

\* The memories are read into a string of their own first, and copied if the
\* stream is still good at the end of the mapper, or of everything.
Copied(good, x) == good >= (IF x = "ram" THEN EndOf[3] ELSE Len(Read))

\* Whether the turn of a member comes at all.
Taken(good, x) == IF x \in Memories THEN Copied(good, x)
                  ELSE IF x = "number" THEN good >= Place[x]
                  ELSE Reached(good, Owner[x])

\* The machine after a stream of which good words could be read. Members of a
\* component that could not are zero.
Restored(m, s, good, torn) ==
    [x \in Members |->
        IF x \notin Stored \/ ~ Taken(good, x) THEN m[x]
        ELSE IF Place[x] <= good THEN s[Place[x]]
        ELSE IF torn /\ Place[x] = Len(s) + 1 /\ good = Len(s) THEN Torn
        ELSE Zero]

-----------------------------------------------------------------------------
(* The frontend *)

\* retro_run; the program may change everything.
Run == /\ runs < MaxRuns
       /\ runs' = runs + 1
       /\ machine' = [x \in Members |-> DataWord(runs + 2)]
       /\ did' = "run" /\ returned' = TRUE
       /\ UNCHANGED <<saved, restores, image, before, whole>>

\* LRConnector::Serialize, into a buffer of the size it asked for.
Serialize == /\ saved' = Stream(machine)
             /\ image' = machine
             /\ did' = "save" /\ returned' = TRUE
             /\ UNCHANGED <<machine, runs, restores, before, whole>>

\* LRConnector::Unserialize.
Unserialize(s, torn) == /\ restores < MaxRestores
                        /\ restores' = restores + 1
                        /\ machine' = Restored(machine, s, Good(s), torn)
                        /\ did' = "restore" /\ returned' = (Good(s) = Len(Read))
                        /\ before' = machine
                        /\ whole' = (s = saved)
                        /\ UNCHANGED <<saved, runs, image>>

\* A code of another version in place of the one at i.
Other(s, i) == [s EXCEPT ![i] = CodeWord("other")]

SaveNext == \/ Run
            \/ Serialize
            \/ \E n \in 0 .. Len(saved), torn \in BOOLEAN : Unserialize(SubSeq(saved, 1, n), torn)
            \/ \E i \in DOMAIN saved : Written[i] \in Codes /\ Unserialize(Other(saved, i), FALSE)

SaveSpec == SaveInit /\ [][SaveNext]_saveVars

-----------------------------------------------------------------------------
(* Properties *)

\* A stream that comes back as it was written is accepted, and puts back every
\* member that is stored, whatever happened since; a shorter stream or one with a
\* code of another version is refused.
AcceptsTheWholeOnly ==
    did = "restore" =>
        /\ returned <=> whole
        /\ returned => \A x \in Stored : machine[x] = image[x]

\* The machine's parts in the order a restore goes through them, its memories last.
Parts == Append([k \in DOMAIN Components |-> {x \in Members : Contains(Components[k], x)}],
                {"wram", "hram"})
AsIn(m, P) == \A x \in P : machine[x] = m[x]

\* A restore that is refused gives up in the first part that goes wrong: the ones
\* before are as saved, the ones behind as they were.
StopsAtTheFirstError ==
    did = "restore" =>
        \E k \in DOMAIN Parts :
            /\ \A j \in 1 .. k - 1 : AsIn(image, Parts[j])
            /\ \A j \in k + 1 .. Len(Parts) : AsIn(before, Parts[j])

\* The memories a program keeps things in are never left in pieces: the
\* cartridge's RAM, and the work RAM with the high RAM, are as saved or as they
\* were, though the registers around them may be neither.
MemoriesStayWhole ==
    did = "restore" =>
        \A P \in {{"ram"}, {"wram", "hram"}} : AsIn(image, P) \/ AsIn(before, P)

\* "Structures are stored by storing all their members" (Serializer.hpp:26).
StoresAllMembers ==
    (did = "restore" /\ returned) => machine = image
=============================================================================
