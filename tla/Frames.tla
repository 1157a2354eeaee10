------------------------------- MODULE Frames -------------------------------
(***************************************************************************)
(* One direction of a connection as bytes: frames (frame.go) in Noise      *)
(* messages (noise.go) on TCP.  WriteFrame puts a frame into one Noise     *)
(* message; a peer with another implementation may cut the same stream of  *)
(* bytes into messages as it likes.  The reader asks for a header and then *)
(* for a payload, and noiseConn.Read keeps what is left of a message for   *)
(* the next call.  Deadlines and failures end the read at any time.        *)
(*                                                                         *)
(* A byte is the frame it belongs to and its place in it, so that the      *)
(* magic number stands for "this is the first byte of a header".           *)
(***************************************************************************)
EXTENDS Integers, Sequences, SequencesExt

CONSTANTS
    HeaderSize, MaxPayload, TagSize,
    MaxFrames    \* bound: how many frames are written

ASSUME FramesAssumption ==
    /\ HeaderSize \in Nat \ {0} /\ MaxPayload \in Nat /\ TagSize \in Nat
    /\ MaxFrames \in Nat

VARIABLES
    ours,      \* the writer is WriteFrame, one message for each frame
    sent,      \* lengths of the frames that have been written
    plain,     \* bytes that the writer has not yet put into a message
    wire,      \* Noise messages under way, by their plaintexts
    readBuf,   \* nc.readBuf
    part,      \* what ReadFull has so far
    reader,    \* ReadFrame: "header", "payload", "failed"
    received,  \* frames that ReadFrame has returned
    broken     \* the connection has failed

vars == <<ours, sent, plain, wire, readBuf, part, reader, received, broken>>

Init ==
    /\ ours \in BOOLEAN
    /\ sent = << >> /\ plain = << >> /\ wire = << >>
    /\ readBuf = << >> /\ part = << >>
    /\ reader = "header" /\ received = << >>
    /\ broken = FALSE

Least(a, b) == IF a < b THEN a ELSE b

-----------------------------------------------------------------------------
(* The writer.                                                              *)

\* The bytes of frame f: header, then n bytes of payload.
Bytes(f, n) == [i \in 1 .. HeaderSize + n |-> [frame |-> f, at |-> i]]

\* WriteFrame refuses payloads that are too long.
WriteFrame(n) ==
    /\ ~broken /\ n <= MaxPayload /\ Len(sent) < MaxFrames
    /\ sent' = Append(sent, n)
    /\ IF ours
       THEN wire' = Append(wire, Bytes(Len(sent'), n)) /\ UNCHANGED plain
       ELSE plain' = plain \o Bytes(Len(sent'), n) /\ UNCHANGED wire
    /\ UNCHANGED <<ours, readBuf, part, reader, received, broken>>

\* Another implementation encrypts the next k bytes; an empty message is legal.
WriteMessage(k) ==
    /\ ~ours /\ ~broken /\ k <= Len(plain) /\ Len(wire) < MaxFrames
    /\ wire' = Append(wire, SubSeq(plain, 1, k))
    /\ plain' = SubSeq(plain, k + 1, Len(plain))
    /\ UNCHANGED <<ours, sent, readBuf, part, reader, received, broken>>

-----------------------------------------------------------------------------
(* The reader.                                                              *)

\* How many bytes ReadFull still wants.
Wanted ==
    IF reader = "header" THEN HeaderSize - Len(part) ELSE sent[part[1].frame] + HeaderSize - Len(part)

\* Fault: the cap leaves no room for the tag.
FitsWithoutTag(m) == Len(m) + TagSize <= MaxPayload + HeaderSize

\* The length of a Noise message is capped.
Fits(m) == Len(m) + TagSize <= MaxPayload + HeaderSize + TagSize

\* Fault: the rest of a message is dropped.
ReadMessageOnce ==
    LET m == Head(wire)
        n == Least(Len(m), Wanted)
    IN /\ reader # "failed" /\ readBuf = << >> /\ Wanted > 0 /\ wire # << >> /\ Fits(m)
       /\ part' = part \o SubSeq(m, 1, n)
       /\ wire' = Tail(wire)
       /\ UNCHANGED <<ours, sent, plain, readBuf, reader, received, broken>>

\* noiseConn.Read without anything in the buffer: the next message is decrypted,
\* and what the caller has no room for is kept.
ReadMessage ==
    LET m == Head(wire)
        n == Least(Len(m), Wanted)
    IN /\ reader # "failed" /\ readBuf = << >> /\ Wanted > 0 /\ wire # << >> /\ Fits(m)
       /\ part' = part \o SubSeq(m, 1, n)
       /\ readBuf' = SubSeq(m, n + 1, Len(m))
       /\ wire' = Tail(wire)
       /\ UNCHANGED <<ours, sent, plain, reader, received, broken>>

\* noiseConn.Read from the buffer.
ReadBuffered ==
    LET n == Least(Len(readBuf), Wanted)
    IN /\ reader # "failed" /\ readBuf # << >> /\ Wanted > 0
       /\ part' = part \o SubSeq(readBuf, 1, n)
       /\ readBuf' = SubSeq(readBuf, n + 1, Len(readBuf))
       /\ UNCHANGED <<ours, sent, plain, wire, reader, received, broken>>

\* The header is complete: magic and version are checked (eight bytes that are not
\* the header of one frame do not pass), then the length it announces.
ParseHeader ==
    /\ reader = "header" /\ Wanted = 0
    /\ reader' = IF part = Bytes(part[1].frame, 0) /\ sent[part[1].frame] <= MaxPayload
                  THEN "payload" ELSE "failed"
    /\ UNCHANGED <<ours, sent, plain, wire, readBuf, part, received, broken>>

\* The payload is complete, and ReadFrame returns it.
ReturnFrame ==
    /\ reader = "payload" /\ Wanted = 0
    /\ received' = Append(received, part)
    /\ reader' = "header" /\ part' = << >>
    /\ UNCHANGED <<ours, sent, plain, wire, readBuf, broken>>

MessageTooLarge ==
    /\ reader # "failed" /\ readBuf = << >> /\ Wanted > 0 /\ wire # << >> /\ ~Fits(Head(wire))
    /\ reader' = "failed"
    /\ UNCHANGED <<ours, sent, plain, wire, readBuf, part, received, broken>>

\* The idle deadline passes, or the connection breaks, before or in the middle of
\* a message: recvLoop ends, and with it the connection.
ReadFails ==
    /\ reader # "failed" /\ readBuf = << >> /\ Wanted > 0
    /\ reader' = "failed" /\ broken' = TRUE
    /\ UNCHANGED <<ours, sent, plain, wire, readBuf, part, received>>

Reader == ReadMessage \/ ReadBuffered \/ ParseHeader \/ ReturnFrame \/ MessageTooLarge

Next ==
    \/ \E n \in 0 .. MaxPayload + 1 : WriteFrame(n)
    \/ \E k \in 0 .. MaxPayload + HeaderSize + 1 : WriteMessage(k)
    \/ Reader \/ ReadFails

Spec == Init /\ [][Next]_vars

\* The receive loop runs, and the writer writes out what it has, whatever empty
\* messages it puts in between.
FairSpec ==
    /\ Spec /\ WF_vars(Reader)
    /\ SF_vars(\E k \in 1 .. MaxPayload + HeaderSize : WriteMessage(k))

-----------------------------------------------------------------------------
(* Properties.                                                              *)

\* What ReadFrame returns are the frames that were written, whole and in order,
\* however they were cut into messages and wherever the connection failed.
FramesIntact == IsPrefix(received, [f \in DOMAIN sent |-> Bytes(f, sent[f])])

\* Every frame is received unless the connection fails.  Between two nodes of this
\* code nothing else ends a read: each frame that WriteFrame accepts, the longest
\* and the empty one included, passes the reader's limits.  Another implementation
\* may send a message that is too large.
FramesArrive == \A k \in 1 .. MaxFrames :
    Len(sent) >= k ~> (Len(received) >= k \/ broken \/ (~ours /\ reader = "failed"))
=============================================================================
