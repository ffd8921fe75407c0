-------------------------------- MODULE FdBin --------------------------------
(***************************************************************************)
(* RsFdBinInterface (src/retroshare/libretroshare/src/pqi/pqifdbin.cc):    *)
(* a non-blocking fd with an inbound and an outbound FIFO of segments.     *)
(*                                                                         *)
(* The fd is one of Conns, or 0 once closed.  Each peer's stream is chosen *)
(* at the start (script) and read in chunks of at most ReadSize bytes; a   *)
(* read may also find nothing yet (EAGAIN).  An outbound byte is a record  *)
(* carrying its position in the stream the host queued and the fd the     *)
(* interface had when it was queued, so where it ends up can be checked.   *)
(***************************************************************************)
EXTENDS Naturals, Sequences, SequencesExt

CONSTANTS
  Conns,      \* socket descriptors the host may adopt (never 0)
  InBytes,    \* byte values peers send; NL is '\n'
  NL,
  ReadSize,   \* bytes one read() returns at most (sizeof inBuffer)
  MaxScript,  \* bytes a peer sends before it may close
  MaxSend,    \* bytes the host queues in all
  MaxRead     \* largest len the host passes to readdata / readline

ASSUME 0 \notin Conns /\ NL \in InBytes

VARIABLES
  fd, active,            \* mCLintConnt, mIsActive
  inBuf, totalIn,        \* in_buffer, mTotalInBufferBytes
  outBuf, totalOut,      \* out_buffer, mTotalOutBufferBytes
  script, peerClosed,    \* per peer: bytes not yet read, closed its end
  delivered,             \* per fd (0 included): bytes write() put there
  consumed,              \* bytes readdata / readline handed to the host
  queued, written,       \* bytes passed to senddata; bytes write() took
  lastCall               \* the last readdata/readline: len and return value

vars == <<fd, active, inBuf, totalIn, outBuf, totalOut, script, peerClosed,
          delivered, consumed, queued, written, lastCall>>

Fds == Conns \cup {0}

\* The constructor with file_descriptor 0 (lines 36-42).
Init ==
  /\ fd = 0 /\ active = FALSE
  /\ inBuf = <<>> /\ totalIn = 0 /\ outBuf = <<>> /\ totalOut = 0
  /\ script \in [Conns -> UNION {[1 .. n -> InBytes] : n \in 0 .. MaxScript}]
  /\ peerClosed = [c \in Conns |-> FALSE]
  /\ delivered = [d \in Fds |-> <<>>]
  /\ consumed = <<>> /\ queued = <<>> /\ written = <<>>
  /\ lastCall = [op |-> "none", len |-> 0, ret |-> 0]

\* close(), lines 389-399: the buffers are kept.
close == active' = FALSE /\ fd' = 0

\* setSocket(s), lines 44-72; the log says pending data is cancelled.
setSocket(s) ==
  /\ fd' = s /\ active' = TRUE
  /\ UNCHANGED <<inBuf, totalIn, outBuf, totalOut, script, peerClosed,
                 delivered, consumed, queued, written, lastCall>>

\* read_pending, lines 98-172, as what read() returned: r bytes, 0 (EOF)
\* or -1 (EAGAIN).  Yields the interface's fields after the call.
ReadOutcomes ==
  IF script[fd] # <<>>
    THEN {-1} \cup 1 .. Min({ReadSize, Len(script[fd])})
  ELSE IF peerClosed[fd] THEN {0} ELSE {-1}

\* Mutant: a partial write keeps the front of the segment, not the rest.
UnsentPrefix(seg, w) == SubSeq(seg, 1, Len(seg) - w)

\* The unsent suffix that replaces the front segment (lines 224-241).
UnsentSuffix(seg, w) == SubSeq(seg, w + 1, Len(seg))

\* write_pending, lines 174-247: write() took w bytes of the front segment,
\* or failed (w = -1; 0 is handled the same way).  Descriptor 0 may be a
\* terminal or /dev/null, so a write there may succeed as well.
WriteOutcomes ==
  IF outBuf = <<>> THEN {-1} ELSE {-1} \cup 1 .. Len(Head(outBuf))

\* tick(), lines 73-96: read_pending then write_pending, on the fd the read
\* left behind.  An EOF closes the interface (fd 0) before the write.
tick ==
  /\ active
  /\ \E r \in ReadOutcomes :
     LET bytes == SubSeq(script[fd], 1, r)
         fd1   == IF r = 0 THEN 0 ELSE fd
     IN
     /\ script' = IF r > 0
                    THEN [script EXCEPT ![fd] = SubSeq(@, r + 1, Len(@))]
                    ELSE script
     /\ inBuf' = IF r > 0 THEN Append(inBuf, bytes) ELSE inBuf
     /\ totalIn' = IF r > 0 THEN totalIn + r ELSE totalIn
     /\ IF r = 0 THEN close ELSE UNCHANGED <<fd, active>>
     /\ \E w \in WriteOutcomes :
          IF w <= 0 THEN UNCHANGED <<outBuf, totalOut, delivered, written>>
          ELSE LET seg == Head(outBuf) IN
               /\ outBuf' = IF w < Len(seg)
                              THEN [outBuf EXCEPT ![1] = UnsentSuffix(seg, w)]
                              ELSE Tail(outBuf)
               /\ totalOut' = totalOut - w
               /\ delivered' = [delivered EXCEPT ![fd1] = @ \o SubSeq(seg, 1, w)]
               /\ written' = written \o SubSeq(seg, 1, w)
  /\ UNCHANGED <<peerClosed, consumed, queued, lastCall>>

\* Mutant: the chopped front segment keeps its first bytes.
KeepChoppedFront(seg, k) == SubSeq(seg, 1, Len(seg) - k)

\* The segment left after bytes_in bytes are copied out (lines 302-313).
ChoppedFront(seg, k) == SubSeq(seg, k + 1, Len(seg))

\* The copy loop of readdata, lines 291-327: whole front segments while
\* they fit, then the first bytes of the next one.
RECURSIVE TakeSegments(_, _)
TakeSegments(segs, k) ==
  LET seg == Head(segs) IN
  IF Len(seg) >= k
    THEN [data |-> SubSeq(seg, 1, k),
          rest |-> IF Len(seg) = k THEN Tail(segs)
                   ELSE <<ChoppedFront(seg, k)>> \o Tail(segs)]
    ELSE LET more == TakeSegments(Tail(segs), k - Len(seg))
         IN  [data |-> seg \o more.data, rest |-> more.rest]

\* Mutant: the counter drops only the bytes taken from the last segment
\* (bytes_in), not len.
RECURSIVE LastPart(_, _)
LastPart(segs, k) ==
  IF Len(Head(segs)) >= k THEN k ELSE LastPart(Tail(segs), k - Len(Head(segs)))

ReadDataSubtractsLastPart(op, len) ==
  /\ IF totalIn < len
       THEN /\ lastCall' = [op |-> op, len |-> len, ret |-> totalIn]
            /\ UNCHANGED <<inBuf, totalIn, consumed>>
       ELSE LET t == TakeSegments(inBuf, len) IN
            /\ inBuf' = t.rest
            /\ totalIn' = totalIn - LastPart(inBuf, len)
            /\ consumed' = consumed \o t.data
            /\ lastCall' = [op |-> op, len |-> len, ret |-> len]
  /\ UNCHANGED <<fd, active, outBuf, totalOut, script, peerClosed, delivered,
                 queued, written>>

\* readdata(data, len), lines 276-336, as called by the host or readline.
\* With fewer than len bytes buffered it returns mTotalInBufferBytes.
ReadData(op, len) ==
  /\ IF totalIn < len
       THEN /\ lastCall' = [op |-> op, len |-> len, ret |-> totalIn]
            /\ UNCHANGED <<inBuf, totalIn, consumed>>
       ELSE LET t == TakeSegments(inBuf, len) IN
            /\ inBuf' = t.rest
            /\ totalIn' = totalIn - len
            /\ consumed' = consumed \o t.data
            /\ lastCall' = [op |-> op, len |-> len, ret |-> len]
  /\ UNCHANGED <<fd, active, outBuf, totalOut, script, peerClosed, delivered,
                 queued, written>>

readdata(len) == ReadData("readdata", len)

\* readline(data, len), lines 264-274: the first n + 1 with n + 1 = len or
\* a '\n' at byte n, over the buffered bytes; 0 if there is none.
readline(len) ==
  LET flat == FlattenSeq(inBuf)
      ends == {n \in 1 .. Len(flat) : n = len \/ flat[n] = NL}
  IN  IF ends = {}
        THEN /\ lastCall' = [op |-> "readline", len |-> len, ret |-> 0]
             /\ UNCHANGED <<fd, active, inBuf, totalIn, outBuf, totalOut,
                            script, peerClosed, delivered, 
                            consumed, queued, written>>
        ELSE ReadData("readline", Min(ends))

\* senddata(data, len), lines 338-363, for a data block of len bytes.
senddata(len) ==
  /\ Len(queued) + len <= MaxSend
  /\ LET bytes == [i \in 1 .. len |-> [seq |-> Len(queued) + i, fd |-> fd]]
     IN  /\ outBuf' = Append(outBuf, bytes)
         /\ totalOut' = totalOut + len
         /\ queued' = queued \o bytes
  /\ UNCHANGED <<fd, active, inBuf, totalIn, script, peerClosed, delivered,
                 consumed, written, lastCall>>

\* The owner closing the interface.
hostClose ==
  /\ close
  /\ UNCHANGED <<inBuf, totalIn, outBuf, totalOut, script, peerClosed,
                 delivered, consumed, queued, written, lastCall>>

\* A peer shuts its end once it has nothing more to send.
PeerCloses(c) ==
  /\ script[c] = <<>> /\ ~peerClosed[c]
  /\ peerClosed' = [peerClosed EXCEPT ![c] = TRUE]
  /\ UNCHANGED <<fd, active, inBuf, totalIn, outBuf, totalOut, script,
                 delivered, consumed, queued, written, lastCall>>

Next ==
  \/ \E c \in Conns : setSocket(c)
  \/ tick
  \/ \E n \in 1 .. MaxRead : readdata(n) \/ readline(n)
  \/ \E n \in 1 .. MaxSend : senddata(n)   \* len 0 returns, changing nothing
  \/ hostClose
  \/ \E c \in Conns : PeerCloses(c)

Spec == Init /\ [][Next]_vars

-----------------------------------------------------------------------------
Inbound  == INSTANCE ByteQueue WITH q <- FlattenSeq(inBuf), taken <- consumed
Outbound == INSTANCE ByteQueue WITH q <- FlattenSeq(outBuf), taken <- written

\* Spec 8.1: the inbound segments behave as one FIFO of bytes: what
\* readdata and readline hand out, followed by what is buffered, is
\* every byte read, in order, whatever the segment boundaries.
InboundIsFifo == Inbound!Spec

\* The outbound segments behave as one FIFO of bytes: partial writes
\* resume where write() stopped; nothing is lost, repeated or reordered.
OutboundIsFifo == Outbound!Spec

\* mTotalInBufferBytes and mTotalOutBufferBytes equal the bytes the
\* segment lists hold, through chunked reads, reads that chop or span
\* segments, and partial writes: readdata's loop takes in_buffer.front()
\* as long as the counter says len bytes are there, and write_pending and
\* moretowrite trust the outbound one.
CountersMatchBuffers ==
  /\ totalIn = Len(FlattenSeq(inBuf))
  /\ totalOut = Len(FlattenSeq(outBuf))

\* Bytes queued while the interface held a connection are written to that
\* connection only, and nothing is ever written to descriptor 0.
BytesReachTheirPeer ==
  /\ delivered[0] = <<>>
  /\ \A c \in Conns : \A i \in DOMAIN delivered[c] :
       delivered[c][i].fd \in {c, 0}
====
