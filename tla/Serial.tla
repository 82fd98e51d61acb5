------------------------------- MODULE Serial -------------------------------
(***************************************************************************)
(* The serial port (core/serial) and the frontend's end of its line, the   *)
(* SerialBuffer of frontend/sdl that puts the bits together to bytes. The  *)
(* two count bits each on its own: nothing but the program's good manners  *)
(* keeps them in step.                                                     *)
(***************************************************************************)
EXTENDS Integers

CONSTANT Width      \* bits in a byte (8)

ASSUME WidthAssumption == Width \in Nat \ {0}

Place == 1 .. Width             \* 1 is the most significant bit, sent first
Bytes == [Place -> BOOLEAN]

VARIABLES
    sb, sc,         \* sb_, and bit 7 of sc_
    bits,           \* bits_, how many are left to send
    buf, count,     \* buf_ and bits_ of SerialBuffer
    printed,        \* the byte it has put out last
    did,            \* the last call, and whether it raised the interrupt
    sent, received, \* history: SB at the start of the transfer, the bits that came in
    clean           \* history: the transfer began with the receiver empty and SB was left alone

port == <<sb, sc, bits>>
receiver == <<buf, count, printed>>
vars == <<port, receiver, did, sent, received, clean>>

Zeros == [i \in Place |-> FALSE]

Init == /\ sb = Zeros /\ sc = FALSE /\ bits = 0
        /\ buf = Zeros /\ count = 0 /\ printed = Zeros
        /\ did = "start"
        /\ sent = Zeros /\ received = Zeros
        /\ clean = TRUE

\* Mutant: bits come in at the other end.
ShiftedReversed(byte, bit) == [i \in Place |-> IF i = 1 THEN bit ELSE byte[i - 1]]

\* A byte shifted to the left by one, with a bit put in at the right.
Shifted(byte, bit) == [i \in Place |-> IF i = Width THEN bit ELSE byte[i + 1]]

\* SerialBuffer::Add.
Add(bit) == /\ buf' = Shifted(buf, bit)
            /\ count' = IF count + 1 = Width THEN 0 ELSE count + 1
            /\ printed' = IF count + 1 = Width THEN buf' ELSE printed

\* Serial::Tick; in is the frontend's answer to InputSerial. Bit 7 of SC stays set
\* when the transfer ends.
Tick(in) ==
    IF sc /\ bits > 0
    THEN /\ Add(sb[1])
         /\ sb' = Shifted(sb, in)
         /\ bits' = bits - 1
         /\ did' = IF bits = 1 THEN "irq" ELSE "tick"
         /\ received' = [received EXCEPT ![Width - bits + 1] = in]
         /\ UNCHANGED <<sc, sent, clean>>
    ELSE did' = "tick" /\ UNCHANGED <<port, receiver, sent, received, clean>>

WriteSB(byte) == /\ sb' = byte
                 /\ did' = "write"
                 /\ clean' = (clean /\ bits = 0)
                 /\ UNCHANGED <<sc, bits, receiver, sent, received>>

\* A write to SC starts a transfer, over again if one is under way, or ends it.
WriteSC(start) == /\ sc' = start
                  /\ bits' = IF start THEN Width ELSE 0
                  /\ did' = "write"
                  /\ sent' = IF start THEN sb ELSE sent
                  /\ clean' = (count = 0)
                  /\ UNCHANGED <<sb, receiver, received>>

Ticks == \E in \in BOOLEAN : Tick(in)

Next == \/ Ticks
        \/ \E byte \in Bytes : WriteSB(byte)
        \/ \E start \in BOOLEAN : WriteSC(start)

Spec == Init /\ [][Next]_vars

-----------------------------------------------------------------------------
(* Properties *)

TypeOK == /\ sb \in Bytes /\ sc \in BOOLEAN /\ bits \in 0 .. Width
          /\ buf \in Bytes /\ count \in 0 .. Width - 1 /\ printed \in Bytes
          /\ did \in {"start", "tick", "irq", "write"}
          /\ sent \in Bytes /\ received \in Bytes
          /\ clean \in BOOLEAN

\* When a transfer that found the receiver empty raises its interrupt, the byte
\* has been put out on the other side as it was in SB at the start, SB holds what
\* came in, and the receiver is empty for the next one. A transfer that is cut
\* short leaves the receiver in the middle of a byte, and the bytes after it come
\* out shifted.
BytesArriveWhole ==
    did = "irq" /\ clean => printed = sent /\ sb = received /\ count = 0

\* The two ends agree about the place in the byte all along, and the receiver
\* holds the bits the port has sent. It is proved beside BytesArriveWhole, which
\* it carries (Frontend_proofs).
InStep ==
    clean => /\ bits > 0 => count = Width - bits
             /\ bits = 0 => count = 0
             /\ \A i \in 1 .. count : buf[Width - count + i] = sent[i]
=============================================================================
