---------------------------- MODULE FrameReader ----------------------------
(***************************************************************************)
(* One connection thread: socket_thread_exec, protobuf_extract and         *)
(* protobuf_parse (src/src/pdns-logger-protobuf.c).                        *)
(*                                                                         *)
(* The client sends a stream of bytes, meant as frames: a two-byte length, *)
(* high byte first, and that many bytes of protobuf.  read() delivers it   *)
(* in chunks of any size.  The thread gathers bytes in a fixed buffer,     *)
(* parses every complete frame at its front and moves the rest down.       *)
(*                                                                         *)
(* A byte is a digit in base Base (256 in the code), so that TLC can use a *)
(* small base.  Buffer positions count from 1.  Bytes above bsize keep     *)
(* what was last written there, as in the code.                            *)
(***************************************************************************)
EXTENDS Integers, Sequences

CONSTANTS
  Base,                 \* number of byte values
  MAX_BUFFER_SIZE,      \* the macro of the same name (8192)
  Streams,              \* what a client may send
  Undecodable,          \* payloads that pbdnsmessage__unpack rejects
  NDEBUG                \* TRUE: assert() is compiled out

Byte == 0..Base - 1

\* PBDNSMessage has required fields, so the empty payload is rejected.
ASSUME ReaderAssumption ==
  /\ Base \in Nat /\ Base > 1
  /\ MAX_BUFFER_SIZE \in Nat /\ MAX_BUFFER_SIZE > 2
  /\ Streams \subseteq Seq(Byte)
  /\ <<>> \in Undecodable
  /\ NDEBUG \in BOOLEAN

VARIABLES
  stream,               \* what the client sends
  rcvd,                 \* bytes of it read so far
  base,                 \* bytes of it consumed: where buf starts
  buf, bsize,           \* the buffer and the number of bytes in use
  pc,                   \* where the thread is
  frames                \* history: the frames given to protobuf_parse

readerVars == <<stream, rcvd, base, buf, bsize, pc, frames>>

\* A position of the buffer that was never written.
Junk == Base

ReaderPC == {"read", "extract", "full", "eof", "error", "aborted"}

\* The thread starts; if fcntl fails it returns at once.
ReaderInit ==
  /\ stream \in Streams
  /\ rcvd = 0 /\ base = 0
  /\ buf = [i \in 1..MAX_BUFFER_SIZE |-> Junk]
  /\ bsize = 0
  /\ pc \in {"read", "error"}
  /\ frames = <<>>

-----------------------------------------------------------------------------
(* socket_thread_exec.                                                     *)

\* A slip: the last byte of the buffer is not used.
buffer_full_early ==
  /\ pc = "read"
  /\ bsize >= MAX_BUFFER_SIZE - 1
  /\ pc' = "full"
  /\ UNCHANGED <<stream, rcvd, base, buf, bsize, frames>>

\* The three ways out of the loop: the buffer is full, the client closed, the
\* read failed.
buffer_full ==
  /\ pc = "read"
  /\ bsize = MAX_BUFFER_SIZE
  /\ pc' = "full"
  /\ UNCHANGED <<stream, rcvd, base, buf, bsize, frames>>

read_eof ==
  /\ pc = "read"
  /\ bsize < MAX_BUFFER_SIZE
  /\ rcvd = Len(stream)
  /\ pc' = "eof"
  /\ UNCHANGED <<stream, rcvd, base, buf, bsize, frames>>

read_error ==
  /\ pc = "read"
  /\ bsize < MAX_BUFFER_SIZE
  /\ pc' = "error"
  /\ UNCHANGED <<stream, rcvd, base, buf, bsize, frames>>

\* Two slips: read() may fill the whole buffer size behind what is there;
\* protobuf_extract does not return on less than a header.
read_chunk_overruns ==
  /\ pc = "read"
  /\ bsize < MAX_BUFFER_SIZE
  /\ \E n \in 1..MAX_BUFFER_SIZE :
       /\ rcvd + n <= Len(stream)
       /\ buf' = [i \in 1..MAX_BUFFER_SIZE |->
                    IF i > bsize /\ i <= bsize + n
                    THEN stream[rcvd + i - bsize] ELSE buf[i]]
       /\ bsize' = bsize + n
       /\ rcvd' = rcvd + n
  /\ pc' = IF bsize' < 2 THEN "read" ELSE "extract"
  /\ UNCHANGED <<stream, base, frames>>
read_chunk_no_minimum ==
  /\ pc = "read"
  /\ bsize < MAX_BUFFER_SIZE
  /\ \E n \in 1..MAX_BUFFER_SIZE - bsize :
       /\ rcvd + n <= Len(stream)
       /\ buf' = [i \in 1..MAX_BUFFER_SIZE |->
                    IF i > bsize /\ i <= bsize + n
                    THEN stream[rcvd + i - bsize] ELSE buf[i]]
       /\ bsize' = bsize + n
       /\ rcvd' = rcvd + n
  /\ pc' = "extract"
  /\ UNCHANGED <<stream, base, frames>>

\* read() delivers n bytes, then protobuf_extract is called; with less than a
\* header it returns at once.
read_chunk ==
  /\ pc = "read"
  /\ bsize < MAX_BUFFER_SIZE
  /\ \E n \in 1..MAX_BUFFER_SIZE - bsize :
       /\ rcvd + n <= Len(stream)
       /\ buf' = [i \in 1..MAX_BUFFER_SIZE |->
                    IF i > bsize /\ i <= bsize + n
                    THEN stream[rcvd + i - bsize] ELSE buf[i]]
       /\ bsize' = bsize + n
       /\ rcvd' = rcvd + n
       /\ pc' = IF bsize + n < 2 THEN "read" ELSE "extract"
  /\ UNCHANGED <<stream, base, frames>>

-----------------------------------------------------------------------------
(* protobuf_extract: one iteration of its loop.                            *)

\* What reading position i of the buffer can give.
ByteAt(i) == IF buf[i] = Junk THEN Byte ELSE {buf[i]}

\* The values plen can take.
Lengths == {Base * hi + lo : hi \in ByteAt(1), lo \in ByteAt(2)}

\* protobuf_parse of a frame; its result is ignored.
Payload(plen) == [i \in 1..plen |-> buf[i + 2]]
protobuf_parse(plen) ==
  /\ frames' = Append(frames, [at |-> base, payload |-> Payload(plen)])
  /\ pc' = CASE Payload(plen) \in Undecodable /\ ~NDEBUG -> "aborted"
             [] bsize = plen + 2 -> "read"
             [] OTHER -> "extract"

\* Two slips: the payload is moved down but not the header's two bytes; the
\* loop ends after one frame.
extract_frame_keeps_header ==
  /\ pc = "extract"
  /\ \E plen \in Lengths :
       /\ bsize >= plen + 2
       /\ protobuf_parse(plen)
       /\ buf' = [i \in 1..MAX_BUFFER_SIZE |->
                    IF i <= bsize - plen - 2 THEN buf[i + plen] ELSE buf[i]]
       /\ bsize' = bsize - plen - 2
       /\ base' = base + plen + 2
  /\ UNCHANGED <<stream, rcvd>>
extract_frame_once ==
  /\ pc = "extract"
  /\ \E plen \in Lengths :
       /\ bsize >= plen + 2
       /\ frames' = Append(frames, [at |-> base, payload |-> Payload(plen)])
       /\ pc' = "read"
       /\ buf' = [i \in 1..MAX_BUFFER_SIZE |->
                    IF i <= bsize - plen - 2 THEN buf[i + plen + 2]
                                             ELSE buf[i]]
       /\ bsize' = bsize - plen - 2
       /\ base' = base + plen + 2
  /\ UNCHANGED <<stream, rcvd>>

\* A complete frame: parse it, move the rest down, go on if there is a rest.
extract_frame ==
  /\ pc = "extract"
  /\ \E plen \in Lengths :
       /\ bsize >= plen + 2
       /\ protobuf_parse(plen)
       /\ buf' = [i \in 1..MAX_BUFFER_SIZE |->
                    IF i <= bsize - plen - 2 THEN buf[i + plen + 2]
                                             ELSE buf[i]]
       /\ bsize' = bsize - plen - 2
       /\ base' = base + plen + 2
  /\ UNCHANGED <<stream, rcvd>>

\* A slip: the loop goes on instead of returning PDNS_RETRY.
extract_retry_spins ==
  /\ pc = "extract"
  /\ \E plen \in Lengths : bsize < plen + 2
  /\ UNCHANGED readerVars

\* An incomplete frame: PDNS_RETRY, back to read().
extract_retry ==
  /\ pc = "extract"
  /\ \E plen \in Lengths : bsize < plen + 2
  /\ pc' = "read"
  /\ UNCHANGED <<stream, rcvd, base, buf, bsize, frames>>

ReaderNext ==
  \/ buffer_full \/ read_eof \/ read_error \/ read_chunk
  \/ extract_frame \/ extract_retry

ReaderSafety == ReaderInit /\ [][ReaderNext]_readerVars

\* The thread is scheduled; when the client sends or closes is not its choice.
ReaderSpec == ReaderSafety /\ WF_readerVars(extract_frame \/ extract_retry)

-----------------------------------------------------------------------------
(* Properties.                                                             *)

\* The length field at offset o of the stream.
LengthAt(o) == Base * stream[o + 1] + stream[o + 2]

\* The values the variables take: in particular read() never fills more than
\* the buffer, and the sizes never become negative (protobuf.c:70-71, 119).
ReaderTypeOK ==
  /\ stream \in Streams
  /\ rcvd \in 0..Len(stream)
  /\ base \in Nat
  /\ buf \in [1..MAX_BUFFER_SIZE -> Byte \cup {Junk}]
  /\ bsize \in 0..MAX_BUFFER_SIZE
  /\ pc \in ReaderPC
  /\ frames \in Seq([at : Nat, payload : Seq(Byte)])

\* However the stream is cut into chunks, the frames parsed are the stream's
\* own, one after the other from its start: each begins where the one before
\* it ends, has the length its header says and carries the stream's bytes
\* (protobuf.c:47-88).
FramesAreTheStreams ==
  \A k \in 1..Len(frames) :
    LET f == frames[k] IN
    /\ f.at = IF k = 1 THEN 0
              ELSE frames[k - 1].at + 2 + Len(frames[k - 1].payload)
    /\ f.at + 2 + Len(f.payload) <= rcvd
    /\ Len(f.payload) = LengthAt(f.at)
    /\ \A i \in 1..Len(f.payload) : f.payload[i] = stream[f.at + 2 + i]

\* A complete frame never waits in the buffer for the next read(): when the
\* thread blocks, or has left, nothing that could be parsed remains
\* (protobuf.c:59-85).
NoFrameWaits ==
  pc \in {"read", "full", "eof", "error"} /\ bsize >= 2
    => bsize < LengthAt(base) + 2

\* A client is dropped for a full buffer only if the frame it is sending can
\* never fit (protobuf.c:111-117).
FullMeansTooLong ==
  pc = "full" => LengthAt(base) + 2 > MAX_BUFFER_SIZE

\* The length field is never taken from bytes that were never written, not
\* even when one byte is left after a frame (protobuf.c:60-61).
HeaderIsWritten == pc = "extract" => buf[1] # Junk /\ buf[2] # Junk

\* protobuf_extract returns: a connection thread does not spin on its buffer.
ExtractReturns == pc = "extract" ~> pc # "extract"
=============================================================================
