------------------------- MODULE InputOutputProofs --------------------------
(***************************************************************************)
(* Proofs about what is read and what is written: the connection thread,   *)
(* for every buffer size, byte size and stream, and the text file back     *)
(* end, for any number of writers, lines and rotations.                    *)
(*                                                                         *)
(* The invariant of the former says that the used part of the buffer is a  *)
(* window on the stream, which starts where the last frame ended.  For the *)
(* latter, what is in the file or in stdio's buffer is one list, Out:      *)
(* flushing, reopening and closing move lines inside it, printing appends. *)
(***************************************************************************)
EXTENDS FrameReader, LogfileEngine, TLAPS

-----------------------------------------------------------------------------
(* The connection thread.                                                  *)

\* The used part of the buffer is the stream from offset base on.
Window ==
  /\ base + bsize = rcvd
  /\ \A i \in 1..bsize : buf[i] = stream[base + i]

\* The window starts where the last frame ended.
Consumed ==
  base = IF Len(frames) = 0 THEN 0
         ELSE frames[Len(frames)].at + 2 + Len(frames[Len(frames)].payload)

ReaderIInv ==
  /\ ReaderTypeOK
  /\ Window
  /\ Consumed
  /\ FramesAreTheStreams
  /\ NoFrameWaits
  /\ HeaderIsWritten
  /\ pc = "extract" => bsize >= 1
  /\ pc = "full" => bsize = MAX_BUFFER_SIZE

\* A length made of two bytes is a natural number.
LEMMA LengthIsNat ==
  ASSUME NEW hi \in Byte, NEW lo \in Byte
  PROVE  Base * hi + lo \in Nat
BY ReaderAssumption DEF Byte

\* The bytes of the stream and of the window are bytes.
LEMMA WindowBytes ==
  ASSUME ReaderIInv
  PROVE  /\ stream \in Seq(Byte) /\ Len(stream) \in Nat
         /\ \A i \in 1..Len(stream) : stream[i] \in Byte
         /\ base \in Nat /\ rcvd \in Nat /\ rcvd <= Len(stream)
         /\ bsize \in Nat /\ MAX_BUFFER_SIZE \in Nat
         /\ bsize <= MAX_BUFFER_SIZE
         /\ \A i \in 1..bsize : buf[i] \in Byte /\ buf[i] = stream[base + i]
BY ReaderAssumption DEF ReaderIInv, ReaderTypeOK, Window

\* The same, the numbers alone.
LEMMA WindowNumbers ==
  ASSUME ReaderIInv
  PROVE  /\ Len(stream) \in Nat
         /\ base \in Nat /\ rcvd \in Nat /\ rcvd <= Len(stream)
         /\ bsize \in Nat /\ MAX_BUFFER_SIZE \in Nat
         /\ bsize <= MAX_BUFFER_SIZE
         /\ base + bsize = rcvd
<1>1. base + bsize = rcvd
  BY DEF ReaderIInv, Window
<1>2. QED
  BY <1>1, WindowBytes

\* Initially the window is empty.
LEMMA ReaderInitIInv == ReaderInit => ReaderIInv
<1> SUFFICES ASSUME ReaderInit PROVE ReaderIInv
  OBVIOUS
<1>1. ReaderTypeOK
  BY ReaderAssumption DEF ReaderInit, ReaderTypeOK, ReaderPC, Junk
<1>2. QED
  BY <1>1, ReaderAssumption DEF ReaderInit, ReaderIInv, Window, Consumed,
     FramesAreTheStreams, NoFrameWaits, HeaderIsWritten

\* What protobuf_extract reads as the length is the stream's length field,
\* as soon as two bytes are there.
LEMMA LengthRead ==
  ASSUME ReaderIInv, pc = "extract", NEW plen \in Lengths
  PROVE  plen \in Nat /\ (bsize >= 2 => plen = LengthAt(base))
<1>1. buf[1] # Junk /\ buf[2] # Junk
  BY DEF ReaderIInv, HeaderIsWritten
<1>2. buf[1] \in Byte /\ buf[2] \in Byte
  BY <1>1, ReaderAssumption DEF ReaderIInv, ReaderTypeOK
<1>3. plen = Base * buf[1] + buf[2]
  BY <1>1 DEF Lengths, ByteAt
<1>4. plen \in Nat
  BY <1>2, <1>3, LengthIsNat
<1>5. ASSUME bsize >= 2 PROVE plen = LengthAt(base)
  <2>1. buf[1] = stream[base + 1] /\ buf[2] = stream[base + 2]
    BY <1>5, WindowBytes
  <2>2. QED
    BY <1>3, <2>1 DEF LengthAt
<1>6. QED
  BY <1>4, <1>5

\* Steps that only change where the thread is.
LEMMA ReaderMoves ==
  ASSUME ReaderIInv, UNCHANGED <<stream, rcvd, base, buf, bsize, frames>>,
         pc' \in ReaderPC \ {"extract"},
         NoFrameWaits', pc' = "full" => bsize = MAX_BUFFER_SIZE
  PROVE  ReaderIInv'
BY DEF ReaderIInv, ReaderTypeOK, Window, Consumed, FramesAreTheStreams,
   HeaderIsWritten, LengthAt

\* read() extends the window.
LEMMA ReadStep ==
  ASSUME ReaderIInv, read_chunk
  PROVE  ReaderIInv'
<1>nums. /\ Len(stream) \in Nat
      /\ base \in Nat /\ rcvd \in Nat /\ rcvd <= Len(stream)
      /\ bsize \in Nat /\ MAX_BUFFER_SIZE \in Nat
      /\ bsize <= MAX_BUFFER_SIZE
      /\ base + bsize = rcvd
  BY WindowNumbers
<1>1. PICK n \in 1..MAX_BUFFER_SIZE - bsize :
        /\ rcvd + n <= Len(stream)
        /\ buf' = [i \in 1..MAX_BUFFER_SIZE |->
                     IF i > bsize /\ i <= bsize + n
                     THEN stream[rcvd + i - bsize] ELSE buf[i]]
        /\ bsize' = bsize + n
        /\ rcvd' = rcvd + n
        /\ pc' = IF bsize + n < 2 THEN "read" ELSE "extract"
  BY DEF read_chunk
<1>2. UNCHANGED <<stream, base, frames>>
  BY DEF read_chunk
<1>3. /\ n \in Nat /\ n >= 1 /\ bsize + n <= MAX_BUFFER_SIZE
      /\ rcvd + n <= Len(stream) /\ bsize' = bsize + n /\ rcvd' = rcvd + n
  <2>1. n \in 1..MAX_BUFFER_SIZE - bsize
    OBVIOUS
  <2>2. rcvd + n <= Len(stream) /\ bsize' = bsize + n /\ rcvd' = rcvd + n
    BY <1>1
  <2>3. QED
    BY <2>1, <2>2, <1>nums
<1>4. pc' = IF bsize + n < 2 THEN "read" ELSE "extract"
  BY <1>1
<1>5. \A i \in 1..bsize + n : buf'[i] \in Byte /\ buf'[i] = stream[base + i]
  <2> SUFFICES ASSUME NEW i \in 1..bsize + n
               PROVE  buf'[i] \in Byte /\ buf'[i] = stream[base + i]
    OBVIOUS
  <2>1. i \in Nat /\ i >= 1 /\ i <= bsize + n /\ i \in 1..MAX_BUFFER_SIZE
    BY <1>3, <1>nums
  <2>2. CASE i <= bsize
    <3>1. ~(i > bsize) /\ i \in 1..bsize
      BY <2>1, <2>2, <1>nums
    <3>2. buf'[i] = buf[i]
      BY <1>1, <2>1, <3>1
    <3>3. QED
      BY <3>1, <3>2, WindowBytes
  <2>3. CASE i > bsize
    <3>1. buf'[i] = stream[rcvd + i - bsize]
      BY <1>1, <2>1, <2>3
    <3>2. rcvd + i - bsize = base + i /\ base + i \in 1..Len(stream)
      BY <1>3, <2>1, <2>3, <1>nums
    <3>3. QED
      BY <3>1, <3>2, WindowBytes
  <2>4. QED
    BY <2>1, <2>2, <2>3, <1>nums
<1>6. ReaderTypeOK'
  <2>1. ASSUME NEW i \in 1..MAX_BUFFER_SIZE PROVE buf'[i] \in Byte \cup {Junk}
    <3>1. i \in 1..bsize + n \/ ~(i > bsize /\ i <= bsize + n)
      BY <1>3, <1>nums
    <3>2. ~(i > bsize /\ i <= bsize + n) => buf'[i] = buf[i]
      BY <1>1
    <3>3. buf[i] \in Byte \cup {Junk}
      BY DEF ReaderIInv, ReaderTypeOK
    <3>4. QED
      BY <1>5, <3>1, <3>2, <3>3
  <2>2. buf' \in [1..MAX_BUFFER_SIZE -> Byte \cup {Junk}]
    BY <1>1, <2>1
  <2>3. rcvd' \in 0..Len(stream) /\ bsize' \in 0..MAX_BUFFER_SIZE
    BY <1>3, <1>nums
  <2>4. pc' \in ReaderPC
    BY <1>4 DEF ReaderPC
  <2>5. QED
    BY <1>2, <2>2, <2>3, <2>4 DEF ReaderIInv, ReaderTypeOK
<1>7. Window' /\ Consumed'
  <2>1. base' + bsize' = rcvd'
    BY <1>2, <1>3, <1>nums
  <2>2. Window'
    BY <1>2, <1>3, <1>5, <2>1 DEF Window
  <2>3. QED
    BY <1>2, <2>2 DEF ReaderIInv, Consumed
<1>8. FramesAreTheStreams'
  <2> SUFFICES ASSUME NEW k \in 1..Len(frames)
               PROVE  frames[k].at + 2 + Len(frames[k].payload) <= rcvd'
    BY <1>2 DEF ReaderIInv, FramesAreTheStreams, LengthAt
  <2> DEFINE Frame == [at : Nat, payload : Seq(Byte)]
  <2>0. frames \in Seq(Frame)
    BY DEF ReaderIInv, ReaderTypeOK
  <2>1. frames[k] \in Frame
    <3> HIDE DEF Frame
    <3> QED
      BY <2>0
  <2>2. frames[k].at \in Nat /\ Len(frames[k].payload) \in Nat
    BY <2>1
  <2>3. frames[k].at + 2 + Len(frames[k].payload) <= rcvd
    BY DEF ReaderIInv, FramesAreTheStreams
  <2>4. QED
    BY <1>3, <2>2, <2>3, <1>nums
<1>9. /\ bsize + n < 2 => pc' = "read" /\ ~(bsize' >= 2)
      /\ ~(bsize + n < 2) => pc' = "extract" /\ bsize' >= 1 /\ bsize' >= 2
  BY <1>3, <1>4, <1>nums
<1>10. NoFrameWaits'
  BY <1>9 DEF NoFrameWaits
<1>11. HeaderIsWritten'
  <2>1. ~(bsize + n < 2) => 1 \in 1..bsize + n /\ 2 \in 1..bsize + n
    BY <1>3, <1>nums
  <2>2. \A b \in Byte : b # Junk
    BY ReaderAssumption DEF Byte, Junk
  <2>3. Junk' = Junk
    BY DEF Junk
  <2>4. QED
    BY <1>5, <1>9, <2>1, <2>2, <2>3 DEF HeaderIsWritten
<1>12. QED
  BY <1>6, <1>7, <1>8, <1>9, <1>10, <1>11 DEF ReaderIInv

\* A parsed frame moves the window past it.
LEMMA FrameStep ==
  ASSUME ReaderIInv, extract_frame
  PROVE  ReaderIInv'
<1>nums. /\ Len(stream) \in Nat
      /\ base \in Nat /\ rcvd \in Nat /\ rcvd <= Len(stream)
      /\ bsize \in Nat /\ MAX_BUFFER_SIZE \in Nat
      /\ bsize <= MAX_BUFFER_SIZE
      /\ base + bsize = rcvd
  BY WindowNumbers
<1>1. PICK plen \in Lengths :
        /\ bsize >= plen + 2
        /\ protobuf_parse(plen)
        /\ buf' = [i \in 1..MAX_BUFFER_SIZE |->
                     IF i <= bsize - plen - 2 THEN buf[i + plen + 2]
                                              ELSE buf[i]]
        /\ bsize' = bsize - plen - 2
        /\ base' = base + plen + 2
  BY DEF extract_frame
<1>2. pc = "extract" /\ UNCHANGED <<stream, rcvd>>
  BY DEF extract_frame
<1>3. /\ plen \in Nat
      /\ bsize >= 2 /\ bsize >= plen + 2
      /\ bsize' = bsize - plen - 2 /\ base' = base + plen + 2
  <2>1. plen \in Nat
    BY <1>2, LengthRead
  <2>2. /\ bsize >= plen + 2
        /\ bsize' = bsize - plen - 2 /\ base' = base + plen + 2
    BY <1>1
  <2>3. bsize >= 2
    BY <2>1, <2>2, <1>nums
  <2>4. QED
    BY <2>1, <2>2, <2>3
<1>len. plen = LengthAt(base)
  BY <1>2, <1>3, LengthRead
<1>4. /\ bsize' \in Nat /\ bsize' <= MAX_BUFFER_SIZE /\ base' \in Nat
      /\ base' + bsize' = rcvd
  BY <1>3, <1>nums
<1> DEFINE pl == Payload(plen)
<1>5. /\ pl \in Seq(Byte) /\ Len(pl) = plen
      /\ \A i \in 1..plen : pl[i] = stream[base + 2 + i]
  <2>1. \A i \in 1..plen : /\ i + 2 \in 1..bsize
                           /\ base + (i + 2) = base + 2 + i
    BY <1>3, <1>nums
  <2>2. \A i \in 1..plen :
          buf[i + 2] \in Byte /\ buf[i + 2] = stream[base + 2 + i]
    BY <2>1, WindowBytes
  <2>3. pl \in [1..plen -> Byte]
    BY <2>2 DEF Payload
  <2>4. QED
    BY <1>3, <2>2, <2>3 DEF Payload
<1>6. frames' = Append(frames, [at |-> base, payload |-> pl])
  BY <1>1 DEF protobuf_parse
<1>7. frames \in Seq([at : Nat, payload : Seq(Byte)])
  BY DEF ReaderIInv, ReaderTypeOK
<1>8. /\ frames' \in Seq([at : Nat, payload : Seq(Byte)])
      /\ Len(frames) \in Nat /\ Len(frames') = Len(frames) + 1
      /\ frames'[Len(frames) + 1] = [at |-> base, payload |-> pl]
      /\ \A k \in 1..Len(frames) : frames'[k] = frames[k]
  <2>1. [at |-> base, payload |-> pl] \in [at : Nat, payload : Seq(Byte)]
    BY <1>5, WindowBytes
  <2> HIDE DEF pl
  <2>2. QED
    BY <1>6, <1>7, <2>1
<1> HIDE DEF pl
<1>9. pc' \in {"read", "extract", "aborted"}
      /\ (pc' = "read" => bsize' = 0) /\ (pc' = "extract" => bsize' >= 1)
  <2>1. bsize = plen + 2 => bsize' = 0
    BY <1>3, <1>nums
  <2>2. bsize # plen + 2 => bsize' >= 1
    BY <1>3, <1>nums
  <2>3. QED
    BY <1>1, <2>1, <2>2 DEF protobuf_parse
<1>10. \A i \in 1..MAX_BUFFER_SIZE :
         buf'[i] = IF i <= bsize - plen - 2 THEN buf[i + plen + 2] ELSE buf[i]
  BY <1>1
<1>11. ReaderTypeOK'
  <2>1. \A i \in 1..MAX_BUFFER_SIZE : buf'[i] \in Byte \cup {Junk}
    <3> SUFFICES ASSUME NEW i \in 1..MAX_BUFFER_SIZE
                 PROVE  buf'[i] \in Byte \cup {Junk}
      OBVIOUS
    <3>1. i <= bsize - plen - 2 => i + plen + 2 \in 1..MAX_BUFFER_SIZE
      BY <1>3, <1>nums
    <3>2. QED
      BY <1>10, <3>1 DEF ReaderIInv, ReaderTypeOK
  <2>2. buf' \in [1..MAX_BUFFER_SIZE -> Byte \cup {Junk}]
    BY <1>1, <2>1
  <2>3. QED
    <3>1. bsize' \in 0..MAX_BUFFER_SIZE
      BY <1>4, <1>nums
    <3>2. QED
      BY <1>2, <1>4, <1>8, <1>9, <2>2, <3>1
         DEF ReaderIInv, ReaderTypeOK, ReaderPC
<1>12. Window'
  <2>1. base' + bsize' = rcvd'
    BY <1>2, <1>4
  <2>2. ASSUME NEW i \in 1..bsize' PROVE buf'[i] = stream'[base' + i]
    <3>1. /\ i \in 1..MAX_BUFFER_SIZE /\ i <= bsize - plen - 2
          /\ i + plen + 2 \in 1..bsize
          /\ base + (i + plen + 2) = base' + i
      BY <1>3, <1>4, <1>nums
    <3>2. QED
      BY <1>2, <1>10, <3>1, WindowBytes
  <2>3. QED
    BY <2>1, <2>2 DEF Window
<1>13. Consumed'
  <2>1. /\ Len(frames') # 0
        /\ frames'[Len(frames')].at = base
        /\ frames'[Len(frames')].payload = pl
    BY <1>8
  <2>2. base' = base + 2 + plen
    BY <1>3, <1>nums
  <2>3. QED
    BY <1>5, <2>1, <2>2 DEF Consumed
<1>14. FramesAreTheStreams'
  <2> SUFFICES ASSUME NEW k \in 1..Len(frames')
               PROVE  LET f == frames'[k] IN
                      /\ f.at = IF k = 1 THEN 0
                                ELSE frames'[k - 1].at + 2
                                       + Len(frames'[k - 1].payload)
                      /\ f.at + 2 + Len(f.payload) <= rcvd
                      /\ Len(f.payload) = LengthAt(f.at)
                      /\ \A i \in 1..Len(f.payload) :
                           f.payload[i] = stream[f.at + 2 + i]
    BY <1>2 DEF FramesAreTheStreams, LengthAt
  <2>1. CASE k \in 1..Len(frames)
    <3>1. k # 1 => k - 1 \in 1..Len(frames)
      BY <1>7, <2>1
    <3>2. frames'[k] = frames[k] /\ (k # 1 => frames'[k - 1] = frames[k - 1])
      BY <1>8, <2>1, <3>1
    <3>3. QED
      BY <2>1, <3>2 DEF ReaderIInv, FramesAreTheStreams
  <2>2. CASE k = Len(frames) + 1
    <3>1. frames'[k].at = base /\ frames'[k].payload = pl
      BY <1>8, <2>2
    <3>2. base = IF k = 1 THEN 0
                 ELSE frames'[k - 1].at + 2 + Len(frames'[k - 1].payload)
      <4>1. k = 1 <=> Len(frames) = 0
        BY <1>8, <2>2
      <4>2. k # 1 => k - 1 = Len(frames) /\ k - 1 \in 1..Len(frames)
        BY <1>8, <2>2
      <4>3. k # 1 => frames'[k - 1] = frames[Len(frames)]
        BY <1>8, <4>2
      <4>4. QED
        BY <4>1, <4>3 DEF ReaderIInv, Consumed
    <3>3. base + 2 + plen <= rcvd
      BY <1>3, <1>4, <1>nums
    <3>4. QED
      BY <1>len, <1>5, <3>1, <3>2, <3>3
  <2>3. QED
    BY <1>8, <2>1, <2>2
<1>15. NoFrameWaits'
  BY <1>9 DEF NoFrameWaits
<1>16. HeaderIsWritten'
  <2>1. bsize' >= 1 => /\ 1 <= bsize - plen - 2
                       /\ 1 + plen + 2 \in 1..bsize
    BY <1>3, <1>nums
  <2>2. bsize' >= 1 => buf'[1] \in Byte
    <3>1. 1 \in 1..MAX_BUFFER_SIZE
      BY <1>3, <1>nums
    <3>2. QED
      BY <1>10, <2>1, <3>1, WindowBytes
  <2>3. bsize' >= 1 => buf'[2] \in Byte
    <3>1. 2 \in 1..bsize /\ 2 \in 1..MAX_BUFFER_SIZE
      BY <1>3, <1>nums
    <3>2. 2 <= bsize - plen - 2 => 2 + plen + 2 \in 1..bsize
      BY <1>3, <1>nums
    <3>3. QED
      BY <1>10, <3>1, <3>2, WindowBytes
  <2>4. QED
    BY <1>9, <2>2, <2>3, ReaderAssumption DEF HeaderIsWritten, Byte, Junk
<1>17. QED
  BY <1>9, <1>11, <1>12, <1>13, <1>14, <1>15, <1>16 DEF ReaderIInv

\* Every step of the thread preserves the invariant.
LEMMA ReaderNextIInv == ReaderIInv /\ [ReaderNext]_readerVars => ReaderIInv'
<1> SUFFICES ASSUME ReaderIInv, [ReaderNext]_readerVars PROVE ReaderIInv'
  OBVIOUS
<1>1. CASE buffer_full
  BY <1>1, ReaderMoves
     DEF buffer_full, ReaderIInv, NoFrameWaits, LengthAt, ReaderPC
<1>2. CASE read_eof \/ read_error
  BY <1>2, ReaderMoves
     DEF read_eof, read_error, ReaderIInv, NoFrameWaits, LengthAt, ReaderPC
<1>3. CASE read_chunk
  BY <1>3, ReadStep
<1>4. CASE extract_frame
  BY <1>4, FrameStep
<1>5. CASE extract_retry
  <2>1. PICK plen \in Lengths : bsize < plen + 2
    BY <1>5 DEF extract_retry
  <2>2. bsize >= 2 => bsize < LengthAt(base) + 2
    BY <1>5, <2>1, LengthRead DEF extract_retry
  <2>3. QED
    BY <1>5, <2>2, ReaderMoves
       DEF extract_retry, NoFrameWaits, LengthAt, ReaderPC
<1>6. CASE UNCHANGED readerVars
  BY <1>6 DEF readerVars, ReaderIInv, ReaderTypeOK, Window, Consumed,
     FramesAreTheStreams, NoFrameWaits, HeaderIsWritten, LengthAt
<1>7. QED
  BY <1>1, <1>2, <1>3, <1>4, <1>5, <1>6 DEF ReaderNext

\* The thread always satisfies the inductive invariant.
THEOREM ReaderInvariant == ReaderSafety => []ReaderIInv
BY ReaderInitIInv, ReaderNextIInv, PTL DEF ReaderSafety

\* The thread's variables keep their types; bsize stays within the buffer.
THEOREM ReaderTypeCorrect == ReaderSafety => []ReaderTypeOK
<1>1. ReaderIInv => ReaderTypeOK
  BY DEF ReaderIInv
<1>2. QED
  BY <1>1, ReaderInvariant, PTL

\* The frames parsed are the stream's frames, for every way the stream is cut
\* into chunks.
THEOREM ReaderFramesAreTheStreams == ReaderSafety => []FramesAreTheStreams
<1>1. ReaderIInv => FramesAreTheStreams
  BY DEF ReaderIInv
<1>2. QED
  BY <1>1, ReaderInvariant, PTL

\* No complete frame is left in the buffer when the thread reads or leaves.
THEOREM ReaderNoFrameWaits == ReaderSafety => []NoFrameWaits
<1>1. ReaderIInv => NoFrameWaits
  BY DEF ReaderIInv
<1>2. QED
  BY <1>1, ReaderInvariant, PTL

\* The length field is never taken from bytes that were never written.
THEOREM ReaderHeaderIsWritten == ReaderSafety => []HeaderIsWritten
<1>1. ReaderIInv => HeaderIsWritten
  BY DEF ReaderIInv
<1>2. QED
  BY <1>1, ReaderInvariant, PTL

\* A client is dropped for a full buffer only for a frame that cannot fit.
THEOREM ReaderFullMeansTooLong == ReaderSafety => []FullMeansTooLong
<1>1. ReaderIInv => FullMeansTooLong
  <2> SUFFICES ASSUME ReaderIInv, pc = "full"
               PROVE  LengthAt(base) + 2 > MAX_BUFFER_SIZE
    BY DEF FullMeansTooLong
  <2>1. bsize = MAX_BUFFER_SIZE /\ bsize >= 2
    BY ReaderAssumption DEF ReaderIInv
  <2>2. LengthAt(base) \in Nat
    <3>1. buf[1] \in Byte /\ buf[2] \in Byte
          /\ buf[1] = stream[base + 1] /\ buf[2] = stream[base + 2]
      BY <2>1, WindowBytes
    <3>2. QED
      BY <3>1, LengthIsNat DEF LengthAt
  <2>3. QED
    BY <2>1, <2>2, ReaderAssumption DEF ReaderIInv, NoFrameWaits
<1>2. QED
  BY <1>1, ReaderInvariant, PTL

-----------------------------------------------------------------------------
(* The text file back end.                                                 *)

Out == disk \o buffered

FileTypeOK ==
  /\ force_flush \in BOOLEAN /\ fp \in BOOLEAN /\ avail \in BOOLEAN
  /\ file \in {"open", "closed"}
  /\ mpc \in {"serving", "reopening", "stopped", "exit"}
  /\ next \in 0..MaxLines
  /\ line \in [Producers -> 0..MaxLines]
  /\ ppc \in [Producers -> {"idle", "print", "flush"}]
  /\ disk \in Seq(1..MaxLines) /\ buffered \in Seq(1..MaxLines)
  /\ dropped \subseteq 1..MaxLines /\ spoiled \subseteq 1..MaxLines

\* The lines that have left their writer.
Gone == dropped \cup spoiled \cup InSeq(Out)

\* A line being printed is nowhere else, and no line is beyond the last one.
FreshLines ==
  /\ \A m \in Gone : m <= next
  /\ \A p \in Producers : ppc[p] = "idle" => line[p] = 0
  /\ \A p \in Producers : ppc[p] = "print" =>
       /\ line[p] \in 1..next
       /\ line[p] \notin Gone
       /\ \A q \in Producers : q # p /\ ppc[q] = "print" => line[q] # line[p]

\* While the back end serves, a pointer that is not null is an open file, and
\* a failed reopen is followed by the null pointer.
PointerIsFile ==
  /\ mpc = "serving" /\ fp => file = "open"
  /\ mpc = "reopening" => ~avail

FileIInv ==
  /\ FileTypeOK /\ FreshLines /\ PointerIsFile
  /\ EachLineOnce /\ FlushedOnReturn /\ LostOnlyByFailureOrStop

-----------------------------------------------------------------------------

\* Moving the buffer to the file keeps the list; printing appends to it.
LEMMA OutLemma ==
  ASSUME NEW d \in Seq(1..MaxLines), NEW b \in Seq(1..MaxLines),
         NEW x \in 1..MaxLines
  PROVE  /\ (d \o b) \o <<>> = d \o b
         /\ d \o Append(b, x) = Append(d \o b, x)
         /\ d \o b \in Seq(1..MaxLines)
OBVIOUS

\* The members of a list with one more.
LEMMA InSeqAppend ==
  ASSUME NEW s \in Seq(1..MaxLines), NEW x \in 1..MaxLines
  PROVE  InSeq(Append(s, x)) = InSeq(s) \cup {x}
<1>1. /\ Len(Append(s, x)) = Len(s) + 1 /\ Len(s) \in Nat
      /\ Append(s, x)[Len(s) + 1] = x
      /\ \A i \in 1..Len(s) : Append(s, x)[i] = s[i]
  OBVIOUS
<1>2. /\ \A i \in 1..(Len(s) + 1) : i \in 1..Len(s) \/ i = Len(s) + 1
      /\ \A i \in 1..Len(s) : i \in 1..(Len(s) + 1)
      /\ Len(s) + 1 \in 1..(Len(s) + 1)
  BY <1>1
<1>3. QED
  BY <1>1, <1>2 DEF InSeq

\* The members of a part of the list are members of it.
LEMMA InSeqPart ==
  ASSUME NEW S, NEW d \in Seq(S), NEW b \in Seq(S)
  PROVE  InSeq(b) \subseteq InSeq(d \o b)
<1>1. ASSUME NEW i \in 1..Len(b)
      PROVE  /\ Len(d) + i \in 1..Len(d \o b)
             /\ (d \o b)[Len(d) + i] = b[i]
  OBVIOUS
<1>2. QED
  BY <1>1 DEF InSeq

-----------------------------------------------------------------------------

\* Initially nothing was written.
LEMMA FileInitIInv == FileInit => FileIInv
<1> SUFFICES ASSUME FileInit PROVE FileIInv
  OBVIOUS
<1> USE LogfileAssumption
<1>1. FileTypeOK /\ PointerIsFile
  BY DEF FileInit, FileTypeOK, PointerIsFile
<1>2. Out = <<>> /\ InSeq(Out) = {} /\ InSeq(buffered) = {} /\ Len(Out) = 0
  BY DEF FileInit, Out, InSeq
<1>3. FreshLines /\ EachLineOnce /\ FlushedOnReturn /\ LostOnlyByFailureOrStop
  BY <1>2 DEF FileInit, FreshLines, Gone, EachLineOnce, FlushedOnReturn, Out,
     LostOnlyByFailureOrStop
<1>4. QED
  BY <1>1, <1>3 DEF FileIInv

\* Steps that leave the lines and their writers alone, but for moving lines
\* from the buffer to the file.
LEMMA FileMoveStep ==
  ASSUME FileIInv,
         \/ UNCHANGED <<disk, buffered>>
         \/ disk' = disk \o buffered /\ buffered' = <<>>,
         UNCHANGED <<force_flush, next, line, ppc, dropped, spoiled>>
  PROVE  FreshLines' /\ EachLineOnce' /\ FlushedOnReturn'
<1>1. Out' = Out /\ InSeq(buffered') \subseteq InSeq(buffered)
  <2>1. CASE UNCHANGED <<disk, buffered>>
    BY <2>1 DEF Out
  <2>2. CASE disk' = disk \o buffered /\ buffered' = <<>>
    <3>1. disk \in Seq(1..MaxLines) /\ buffered \in Seq(1..MaxLines)
      BY DEF FileIInv, FileTypeOK
    <3>2. (disk \o buffered) \o <<>> = disk \o buffered
      BY <3>1
    <3>3. InSeq(<<>>) = {}
      BY DEF InSeq
    <3>4. QED
      BY <2>2, <3>2, <3>3 DEF Out
  <2>3. QED
    BY <2>1, <2>2
<1>2. Gone' = Gone /\ Printing' = Printing
  BY <1>1 DEF Gone, Printing, InSeq
<1>3. FreshLines'
  BY <1>2 DEF FileIInv, FreshLines
<1>4. EachLineOnce'
  BY <1>1, <1>2 DEF FileIInv, EachLineOnce, Out, InSeq
<1>5. FlushedOnReturn'
  BY <1>1 DEF FileIInv, FlushedOnReturn
<1>6. QED
  BY <1>3, <1>4, <1>5

\* A line begins: it gets the next number, and is dropped if fp is null.
LEMMA WriteLogStep ==
  ASSUME FileIInv, NEW p \in Producers, write_log(p)
  PROVE  FileIInv'
<1> USE LogfileAssumption
<1>1. FileTypeOK' /\ PointerIsFile'
  BY DEF FileIInv, FileTypeOK, PointerIsFile, write_log
<1>2. Out' = Out /\ buffered' = buffered /\ next' = next + 1 /\ next \in Nat
      /\ spoiled' = spoiled
  BY DEF write_log, Out, FileIInv, FileTypeOK
<1>3. InSeq(Out') = InSeq(Out)
  BY <1>2
<1>4. ppc[p] = "idle"
  BY DEF write_log
<1>5. \A m \in Gone : m \in Nat /\ m <= next
  <2>1. Out \in Seq(1..MaxLines)
    BY DEF FileIInv, FileTypeOK, Out
  <2>2. \A m \in InSeq(Out) : m \in Nat
    BY <2>1 DEF InSeq
  <2>3. QED
    BY <2>2 DEF FileIInv, FileTypeOK, FreshLines, Gone
<1>6. CASE fp
  <2>1. /\ line' = [line EXCEPT ![p] = next + 1]
        /\ ppc' = [ppc EXCEPT ![p] = "print"]
        /\ dropped' = dropped
    BY <1>6 DEF write_log
  <2>2. Gone' = Gone
    BY <1>2, <1>3, <2>1 DEF Gone
  <2>3. /\ line'[p] = next + 1 /\ ppc'[p] = "print"
        /\ \A q \in Producers : q # p => line'[q] = line[q] /\ ppc'[q] = ppc[q]
    BY <2>1 DEF FileIInv, FileTypeOK
  <2>4. FreshLines'
    BY <1>2, <1>5, <2>2, <2>3 DEF FileIInv, FreshLines
  <2>5. Printing' = Printing \cup {next + 1}
    BY <1>4, <2>3 DEF Printing
  <2>6. EachLineOnce'
    BY <1>2, <1>3, <2>1, <2>5 DEF FileIInv, EachLineOnce, Out
  <2>7. FlushedOnReturn'
    <3>1. \A m \in InSeq(buffered) : m \in 1..MaxLines
      BY DEF FileIInv, FileTypeOK, InSeq
    <3>2. CASE force_flush
      <4>1. InSeq(buffered) \subseteq {line[q] : q \in Producers}
        BY <3>2 DEF FileIInv, FlushedOnReturn
      <4>2. line[p] \notin InSeq(buffered)
        BY <3>1, <1>4 DEF FileIInv, FreshLines
      <4>3. QED
        BY <1>2, <2>3, <4>1, <4>2 DEF FlushedOnReturn
    <3>3. QED
      BY <3>2 DEF write_log, FlushedOnReturn
  <2>8. LostOnlyByFailureOrStop'
    BY <1>2, <2>1 DEF write_log, FileIInv, LostOnlyByFailureOrStop, ReopenFailed
  <2>9. QED
    BY <1>1, <2>4, <2>6, <2>7, <2>8 DEF FileIInv
<1>7. CASE ~fp
  <2>1. /\ line' = [line EXCEPT ![p] = 0]
        /\ ppc' = [ppc EXCEPT ![p] = "idle"]
        /\ dropped' = dropped \cup {next + 1}
    BY <1>7 DEF write_log
  <2>2. ppc' = ppc
    BY <1>4, <2>1 DEF FileIInv, FileTypeOK
  <2>3. line' = line
    BY <1>4, <2>1 DEF FileIInv, FileTypeOK, FreshLines
  <2>4. Gone' = Gone \cup {next + 1} /\ Printing' = Printing
    BY <1>2, <1>3, <1>4, <2>1, <2>2, <2>3 DEF Gone, Printing
  <2>5. FreshLines'
    BY <1>2, <1>5, <2>2, <2>3, <2>4 DEF FileIInv, FreshLines
  <2>6. EachLineOnce'
    BY <1>2, <1>3, <1>5, <2>1, <2>4 DEF FileIInv, EachLineOnce, Out, Gone
  <2>7. FlushedOnReturn'
    BY <1>2, <2>3 DEF write_log, FileIInv, FlushedOnReturn
  <2>8. LostOnlyByFailureOrStop'
    BY <1>7 DEF write_log, LostOnlyByFailureOrStop, ReopenFailed
  <2>9. QED
    BY <1>1, <2>5, <2>6, <2>7, <2>8 DEF FileIInv
<1>8. QED
  BY <1>6, <1>7

\* A line is printed: it is appended to the list, or spoiled.
LEMMA FprintfStep ==
  ASSUME FileIInv, NEW p \in Producers, fprintf(p)
  PROVE  FileIInv'
<1> USE LogfileAssumption
<1> DEFINE x == line[p]
<1>1. /\ x \in 1..MaxLines /\ x \in 1..next /\ x \notin Gone
      /\ ppc[p] = "print" /\ next' = next /\ dropped' = dropped
      /\ disk' = disk /\ next \in Nat /\ force_flush' = force_flush
  BY DEF fprintf, FileIInv, FileTypeOK, FreshLines
<1>2. /\ disk \in Seq(1..MaxLines) /\ buffered \in Seq(1..MaxLines)
      /\ Out \in Seq(1..MaxLines)
  BY DEF FileIInv, FileTypeOK, Out
<1>3. /\ ppc'[p] \in {"idle", "flush"}
      /\ ppc'[p] = "idle" => line'[p] = 0
      /\ ppc'[p] = "flush" => line'[p] = x
      /\ \A q \in Producers : q # p => line'[q] = line[q] /\ ppc'[q] = ppc[q]
      /\ line' \in [Producers -> 0..MaxLines]
      /\ ppc' \in [Producers -> {"idle", "print", "flush"}]
  BY DEF fprintf, FileIInv, FileTypeOK
<1>4. Printing' = Printing \ {x}
  BY <1>1, <1>3 DEF Printing, FileIInv, FreshLines
<1>5. CASE fp /\ file = "open"
  <2>1. buffered' = Append(buffered, x) /\ spoiled' = spoiled /\ mpc' = mpc
    BY <1>5 DEF fprintf
  <2>2. Out' = Append(Out, x)
    <3>1. x \in 1..MaxLines
      BY <1>1
    <3>2. disk \o Append(buffered, x) = Append(disk \o buffered, x)
      BY <1>2, <3>1, OutLemma
    <3>3. QED
      BY <1>1, <2>1, <3>2, Zenon DEF Out
  <2>3. InSeq(Out') = InSeq(Out) \cup {x}
    BY <1>1, <1>2, <2>2, InSeqAppend
  <2>4. FileTypeOK' /\ PointerIsFile'
    <3>1. buffered' \in Seq(1..MaxLines)
      BY <1>1, <1>2, <2>1
    <3>2. QED
      BY <1>1, <1>3, <2>1, <3>1 DEF fprintf, FileIInv, FileTypeOK,
         PointerIsFile
  <2>5. Gone' = Gone \cup {x}
    BY <1>1, <2>1, <2>3 DEF Gone
  <2>6. FreshLines'
    BY <1>1, <1>3, <2>5 DEF FileIInv, FreshLines
  <2>7. EachLineOnce'
    <3>1. \A i, j \in 1..Len(Out') : i # j => Out'[i] # Out'[j]
      <4>1. /\ Len(Out') = Len(Out) + 1 /\ Len(Out) \in Nat
            /\ Out'[Len(Out) + 1] = x
            /\ \A i \in 1..Len(Out) : Out'[i] = Out[i] /\ Out[i] # x
        <5>1. \A i \in 1..Len(Out) : Out[i] # x
          BY <1>1 DEF Gone, InSeq
        <5>2. QED
          BY <1>1, <1>2, <2>2, <5>1
      <4>2. \A i, j \in 1..Len(Out) : i # j => Out[i] # Out[j]
        BY DEF FileIInv, EachLineOnce, Out
      <4>3. \A i \in 1..Len(Out') : i \in 1..Len(Out) \/ i = Len(Out) + 1
        BY <4>1
      <4>4. QED
        BY <4>1, <4>2, <4>3
    <3>2. \A m \in 1..next :
            m \in Printing' \cup dropped \cup spoiled \cup InSeq(Out')
      BY <1>4, <2>3 DEF FileIInv, EachLineOnce, Out
    <3>3. (dropped \cup spoiled) \cap InSeq(Out') = {}
      BY <1>1, <2>3 DEF FileIInv, EachLineOnce, Out, Gone
    <3>4. QED
      BY <1>1, <2>1, <3>1, <3>2, <3>3 DEF EachLineOnce, Out
  <2>8. FlushedOnReturn'
    <3>1. CASE force_flush
      <4>1. ppc'[p] = "flush" /\ line'[p] = x
        BY <1>3, <1>5, <3>1 DEF fprintf, FileIInv, FileTypeOK
      <4>2. InSeq(buffered') = InSeq(buffered) \cup {x}
        BY <1>1, <1>2, <2>1, InSeqAppend
      <4>3. QED
        BY <1>3, <3>1, <4>1, <4>2 DEF FileIInv, FlushedOnReturn
    <3>2. QED
      BY <1>1, <3>1 DEF FlushedOnReturn
  <2>9. LostOnlyByFailureOrStop'
    BY <1>1, <2>1 DEF fprintf, FileIInv, LostOnlyByFailureOrStop, ReopenFailed
  <2>10. QED
    BY <2>4, <2>6, <2>7, <2>8, <2>9 DEF FileIInv
<1>6. CASE ~(fp /\ file = "open")
  <2>1. /\ buffered' = buffered /\ spoiled' = spoiled \cup {x}
        /\ mpc' \in {mpc, "exit"} /\ ppc'[p] = "idle"
    BY <1>6 DEF fprintf, FileIInv, FileTypeOK
  <2>2. Out' = Out /\ InSeq(Out') = InSeq(Out)
    BY <1>1, <2>1 DEF Out
  <2>3. FileTypeOK' /\ PointerIsFile'
    BY <1>1, <1>3, <2>1 DEF fprintf, FileIInv, FileTypeOK, PointerIsFile
  <2>4. Gone' = Gone \cup {x}
    BY <1>1, <2>1, <2>2 DEF Gone
  <2>5. FreshLines'
    BY <1>1, <1>3, <2>4 DEF FileIInv, FreshLines
  <2>6. EachLineOnce'
    BY <1>1, <1>4, <2>1, <2>2 DEF FileIInv, EachLineOnce, Out, Gone
  <2>7. FlushedOnReturn'
    <3>1. x \notin InSeq(buffered)
      BY <1>1, <1>2, InSeqPart DEF Gone, Out
    <3>2. QED
      BY <1>1, <1>3, <2>1, <3>1 DEF FileIInv, FlushedOnReturn
  <2>8. LostOnlyByFailureOrStop'
    BY <1>6, <2>1 DEF fprintf, FileIInv, LostOnlyByFailureOrStop, ReopenFailed,
       PointerIsFile
  <2>9. QED
    BY <2>3, <2>5, <2>6, <2>7, <2>8 DEF FileIInv
<1>7. QED
  BY <1>5, <1>6

\* fflush by a writer: everything is in the file, and the writer is done.
LEMMA FflushStep ==
  ASSUME FileIInv, NEW p \in Producers, fflush(p)
  PROVE  FileIInv'
<1> USE LogfileAssumption
<1>1. /\ disk' = disk \o buffered /\ buffered' = <<>> /\ ppc[p] = "flush"
      /\ next' = next /\ dropped' = dropped /\ spoiled' = spoiled
      /\ disk \in Seq(1..MaxLines) /\ buffered \in Seq(1..MaxLines)
      /\ mpc' \in {mpc, "exit"}
  BY DEF fflush, FileIInv, FileTypeOK
<1>2. /\ ppc'[p] = "idle" /\ line'[p] = 0
      /\ \A q \in Producers : q # p => line'[q] = line[q] /\ ppc'[q] = ppc[q]
  BY DEF fflush, FileIInv, FileTypeOK
<1>3. Out' = Out /\ InSeq(Out') = InSeq(Out) /\ InSeq(buffered') = {}
  BY <1>1, OutLemma DEF Out, InSeq
<1>4. FileTypeOK' /\ PointerIsFile'
  <2>1. disk' \in Seq(1..MaxLines) /\ buffered' \in Seq(1..MaxLines)
    BY <1>1
  <2>2. QED
    BY <1>1, <2>1 DEF fflush, FileIInv, FileTypeOK, PointerIsFile
<1>5. Gone' = Gone /\ Printing' = Printing
  BY <1>1, <1>2, <1>3 DEF Gone, Printing
<1>6. FreshLines'
  BY <1>1, <1>2, <1>5 DEF FileIInv, FreshLines
<1>7. EachLineOnce' /\ FlushedOnReturn'
  BY <1>1, <1>3, <1>5 DEF FileIInv, EachLineOnce, FlushedOnReturn, Out
<1>8. LostOnlyByFailureOrStop'
  BY <1>1 DEF fflush, FileIInv, LostOnlyByFailureOrStop, ReopenFailed
<1>9. QED
  BY <1>4, <1>6, <1>7, <1>8 DEF FileIInv

\* Every step of the back end preserves the invariant.
LEMMA FileNextIInv == FileIInv /\ [FileNext]_fileVars => FileIInv'
<1> SUFFICES ASSUME FileIInv, [FileNext]_fileVars PROVE FileIInv'
  OBVIOUS
<1> USE LogfileAssumption
<1> DEFINE Moves == disk' = disk \o buffered /\ buffered' = <<>>
<1>1. disk \o buffered \in Seq(1..MaxLines) /\ <<>> \in Seq(1..MaxLines)
  BY DEF FileIInv, FileTypeOK
<1>2. ASSUME NEW p \in Producers, write_log(p) \/ fprintf(p) \/ fflush(p)
      PROVE  FileIInv'
  BY <1>2, WriteLogStep, FprintfStep, FflushStep
<1>3. ASSUME stdio_drains \/ freopen \/ logfile_stop
      PROVE  FileIInv'
  <2>1. Moves /\ UNCHANGED <<force_flush, next, line, ppc, dropped, spoiled>>
    BY <1>3 DEF stdio_drains, freopen, logfile_stop
  <2>2. FileTypeOK'
    <3>1. disk' \in Seq(1..MaxLines) /\ buffered' \in Seq(1..MaxLines)
      BY <1>1, <2>1
    <3>2. QED
      BY <1>3, <2>1, <3>1 DEF stdio_drains, freopen, logfile_stop, FileIInv,
         FileTypeOK
  <2>3. PointerIsFile' /\ LostOnlyByFailureOrStop'
    <3> USE DEF FileIInv, FileTypeOK, PointerIsFile, LostOnlyByFailureOrStop,
            ReopenFailed
    <3>1. CASE stdio_drains
      BY <3>1 DEF stdio_drains
    <3>2. CASE freopen
      BY <3>2 DEF freopen
    <3>3. CASE logfile_stop
      BY <3>3 DEF logfile_stop
    <3>4. QED
      BY <1>3, <3>1, <3>2, <3>3
  <2>4. QED
    BY <2>1, <2>2, <2>3, FileMoveStep DEF FileIInv
<1>4. ASSUME \/ rotate_fails \/ rotate_nothing \/ freopen_closed
             \/ main_returns \/ path_changes \/ UNCHANGED fileVars
      PROVE  FileIInv'
  <2>1. /\ UNCHANGED <<disk, buffered>>
        /\ UNCHANGED <<force_flush, next, line, ppc, dropped, spoiled>>
    BY <1>4 DEF rotate_fails, rotate_nothing, freopen_closed, main_returns,
       path_changes, fileVars
  <2>2. FileTypeOK'
    BY <1>4, <2>1 DEF rotate_fails, rotate_nothing, freopen_closed,
       main_returns, path_changes, fileVars, FileIInv, FileTypeOK
  <2>3. PointerIsFile' /\ LostOnlyByFailureOrStop'
    BY <1>4, <2>1 DEF rotate_fails, rotate_nothing, freopen_closed,
       main_returns, path_changes, fileVars, FileIInv, FileTypeOK,
       PointerIsFile, LostOnlyByFailureOrStop, ReopenFailed
  <2>4. QED
    BY <2>1, <2>2, <2>3, FileMoveStep DEF FileIInv
<1>5. QED
  BY <1>2, <1>3, <1>4 DEF FileNext

\* The back end always satisfies the inductive invariant (file.c:81-109).
THEOREM FileInvariant == FileSpec => []FileIInv
BY FileInitIInv, FileNextIInv, PTL DEF FileSpec

\* However writers, rotations and the shutdown interleave, no line vanishes
\* and none is in the file twice (file.c:81-109).
THEOREM FileEachLineOnce == FileSpec => []EachLineOnce
<1>1. FileIInv => EachLineOnce
  BY DEF FileIInv
<1>2. QED
  BY <1>1, FileInvariant, PTL

\* With force-flush=1, a line whose write_log has returned is in the file
\* (file.c:103-109).
THEOREM FileFlushedOnReturn == FileSpec => []FlushedOnReturn
<1>1. FileIInv => FlushedOnReturn
  BY DEF FileIInv
<1>2. QED
  BY <1>1, FileInvariant, PTL

\* While every reopen succeeds, no line is lost before the shutdown
\* (file.c:81-109).
THEOREM FileLostOnlyByFailureOrStop == FileSpec => []LostOnlyByFailureOrStop
<1>1. FileIInv => LostOnlyByFailureOrStop
  BY DEF FileIInv
<1>2. QED
  BY <1>1, FileInvariant, PTL

=============================================================================
