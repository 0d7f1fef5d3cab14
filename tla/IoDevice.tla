------------------------------- MODULE IoDevice -------------------------------
(***************************************************************************)
(* Reading from an IoDevice (IoDevice.cpp): the read buffer, the positions *)
(* of the reader and of the device, peeking, transactions and text mode,   *)
(* on sequential and random-access devices, buffered or not.               *)
(*                                                                         *)
(* readData() and writeData() of the subclass are external: they read and  *)
(* write the file at the index of the device, which seek() sets.           *)
(* IoDevicePrivate::read() is a loop of which a round is one action.       *)
(***************************************************************************)
EXTENDS RingBuffer

CONSTANTS CR, LF, None,
          Files,      \* what the device may hold
          Writes,     \* what may be written
          MaxFile,    \* bound on the length of the file when it is written to
          MaxLength,  \* bound on what one call asks for
          Primed      \* see UngetChar

ASSUME IoDeviceAssumption ==
    /\ Files # {} /\ \A f \in Files : Junk \notin Range(f)
    /\ {MaxFile, MaxLength} \subseteq Nat
    /\ Primed \in BOOLEAN

VARIABLES
    file,    \* the bytes of the device, of a sequential one all that it will send
    mode,    \* sequential, buffered, text
    d,       \* index: where the device is; pos, devicePos: m_pos, m_devicePos;
             \*   buffer: m_buffer; started, mark: m_transactionStarted, m_transactionPos
    call     \* the call of the reader, if any

vars == <<file, mode, d, call>>

Idle == [at |-> "idle"]

Opened == [index |-> 0, pos |-> 0, devicePos |-> 0, buffer |-> EmptyBuffer,
           started |-> FALSE, mark |-> 0]

Init ==
    /\ file \in Files
    /\ mode \in [sequential : BOOLEAN, buffered : BOOLEAN, text : BOOLEAN]
    /\ d = Opened
    /\ call = Idle

----------------------------------------------------------------------------
\* Positions

WithoutCR(bytes) == SelectSeq(bytes, LAMBDA c : c # CR)

InTransaction == mode.sequential /\ d.started

\* Where the reader is.  The buffer of a sequential device ends where the
\* device is.
Position ==
    IF mode.sequential THEN d.index - d.buffer.size + (IF d.started THEN d.mark ELSE 0)
    ELSE d.pos

\* Faulty: the buffer is kept when the reader goes back.
SeekBufferKeeps(s, p) ==
    [s EXCEPT !.pos = p,
              !.buffer = IF p - s.pos >= @.size THEN Clear(@)
                         ELSE IF p < s.pos THEN @ ELSE Free(@, p - s.pos)]

SeekBuffer(s, p) ==
    [s EXCEPT !.pos = p,
              !.buffer = IF p < s.pos \/ p - s.pos >= @.size THEN Clear(@)
                         ELSE Free(@, p - s.pos)]

\* seek() of a random-access device, which seeks itself.
SeekTo(s, p) == SeekBuffer([s EXCEPT !.index = p, !.devicePos = p], p)

\* The device is positioned correctly before it is used.
Positioned(s) ==
    IF mode.sequential \/ s.pos = s.devicePos THEN s ELSE SeekTo(s, s.pos)

\* What readData() may return: all there is or, if sequential, what has come.
FromDevice(s, n) ==
    LET all == SubSeq(file, s.index + 1, Min({s.index + n, Len(file)}))
    IN  IF mode.sequential THEN {SubSeq(all, 1, k) : k \in 0..Len(all)} ELSE {all}

Moved(s, k) == IF mode.sequential THEN s ELSE [s EXCEPT !.pos = @ + k]
----------------------------------------------------------------------------
\* IoDevicePrivate::read.  In a call that reads,
\*   kind      is what it reads for
\*   left      is maxLength
\*   done, raw is what was read; CR is not yet removed from raw
\*   bufferPos, saved, eof are bufferPos, savedPos and deviceAtEof
\*   start     is the position of the reader before the call
\*   line, room are for readLine(): what it has and how much it may add

Reading(kind, n, s, start, line, room) ==
    [at |-> "reading", kind |-> kind, left |-> n, done |-> <<>>, raw |-> <<>>,
     bufferPos |-> IF InTransaction THEN s.mark ELSE 0,
     saved |-> IF kind = "peek" THEN s.pos ELSE 0, eof |-> FALSE, start |-> start, asked |-> n,
     line |-> line, room |-> room]

Returned(bytes, c) ==
    [at |-> "returned", kind |-> c.kind, data |-> bytes,
     short |-> Len(bytes) < c.asked, eof |-> c.eof]

Keep(c) ==
    IF mode.sequential THEN c.kind = "peek" \/ d.started ELSE c.kind = "peek" /\ mode.buffered

\* Faulty: bytes that were peeked are taken from the buffer.
TakeBufferedAlways(s, c) ==
    LET bytes == PeekBuffer(s.buffer, c.left, 0)
    IN  <<Moved([s EXCEPT !.buffer = SkipBuffer(@, c.left)], Len(bytes)),
          [c EXCEPT !.raw = @ \o bytes, !.left = @ - Len(bytes),
                    !.bufferPos = @ + Len(bytes)]>>

\* The part of a round that reads from the buffer.
TakeBuffered(s, c) ==
    LET bytes == PeekBuffer(s.buffer, c.left, IF Keep(c) THEN c.bufferPos ELSE 0)
    IN  <<Moved([s EXCEPT !.buffer = IF Keep(c) THEN @ ELSE SkipBuffer(@, c.left)], Len(bytes)),
          [c EXCEPT !.raw = @ \o bytes, !.left = @ - Len(bytes),
                    !.bufferPos = @ + Len(bytes)]>>

\* Big chunks go to the reader directly.
TakeDirect(s, c) ==
    {<<Moved([s EXCEPT !.index = @ + Len(bytes),
                       !.devicePos = IF mode.sequential THEN @ ELSE @ + Len(bytes)], Len(bytes)),
       [c EXCEPT !.raw = @ \o bytes, !.left = @ - Len(bytes), !.eof = Len(bytes) # c.left]>> :
        bytes \in FromDevice(s, c.left)}

\* Others fill the buffer first.
Fill(s, c) ==
    LET n == IF mode.buffered \/ BasicBlockSize < c.left THEN BasicBlockSize ELSE c.left
    IN  UNION {{<<[s EXCEPT !.index = @ + Len(bytes), !.buffer = buffer,
                            !.devicePos = IF mode.sequential THEN @ ELSE @ + Len(bytes)],
                  [c EXCEPT !.eof = Len(bytes) # n]>> : buffer \in Filled(s.buffer, n, bytes)} :
                bytes \in FromDevice(s, n)}

\* Faulty: CR that was removed counts as read.
StripShort(c) == [c EXCEPT !.done = @ \o WithoutCR(c.raw), !.raw = <<>>]

\* CR is removed from what was read since the last time.
Strip(c) ==
    LET plain == WithoutCR(c.raw)
    IN  [c EXCEPT !.done = @ \o plain, !.raw = <<>>, !.left = @ + Len(c.raw) - Len(plain)]

\* The end of the loop: positions are restored.
Restored(s, c) ==
    IF Keep(c)
    THEN IF c.kind = "peek" THEN [s EXCEPT !.pos = c.saved] ELSE [s EXCEPT !.mark = c.bufferPos]
    ELSE IF c.kind = "peek" THEN SeekBuffer(s, c.saved) ELSE s

\* In text mode a line that ends with CR LF ends with LF.
TextLine(line) ==
    IF mode.text /\ IsSuffix(<<CR, LF>>, line) THEN SubSeq(line, 1, Len(line) - 2) \o <<LF>> ELSE line

\* readLine() gets its bytes from here one by one.
Ends(c) ==
    LET bytes == c.done \o c.raw
        line == c.line \o bytes
    IN  IF c.kind # "line" THEN Returned(bytes, c)
        ELSE IF bytes = <<>> \/ Last(bytes) = LF \/ c.room = 1
             THEN Returned(TextLine(line), [c EXCEPT !.asked = 0])
             ELSE [at |-> "line", line |-> line, room |-> c.room - 1, start |-> c.start]

\* One round of the loop.  Filling the buffer starts another one; so does text
\* mode when there was something to strip.
Round ==
    /\ call.at = "reading"
    /\ LET taken == TakeBuffered(d, call)
           s == Positioned(taken[1])
           c == taken[2]
           direct == (~mode.buffered \/ c.left >= BasicBlockSize) /\ ~Keep(c)
           after(t, x) == IF mode.text /\ x.raw # <<>> THEN d' = t /\ call' = Strip(x)
                          ELSE d' = Restored(t, x) /\ call' = Ends(x)
       IN  \/ /\ c.left = 0 \/ c.eof
              /\ after(taken[1], c)
           \/ /\ c.left > 0 /\ ~c.eof /\ direct
              /\ \E t \in TakeDirect(s, c) : after(t[1], t[2])
           \/ /\ c.left > 0 /\ ~c.eof /\ ~direct
              /\ \E t \in Fill(s, c) :
                    IF t[1].index > s.index THEN d' = t[1] /\ call' = t[2]
                    ELSE after(t[1], t[2])
    /\ UNCHANGED <<file, mode>>

\* A sequential device reports an error before anything was read: -1.
Fails ==
    /\ call.at = "reading" /\ mode.sequential
    /\ LET taken == TakeBuffered(d, call)
           c == taken[2]
       IN  /\ c.left > 0 /\ ~c.eof /\ c.done \o c.raw = <<>>
           /\ d' = taken[1]
           /\ call' = Returned(c.line, [c EXCEPT !.asked = 0])
    /\ UNCHANGED <<file, mode>>

----------------------------------------------------------------------------
\* Calls.  getChar() and read(1) take a byte from the buffer if there is one;
\* in text mode CR is passed over.

FirstByte ==
    LET plain == {i \in DOMAIN Content(d.buffer) : mode.text => Content(d.buffer)[i] # CR}
    IN  IF InTransaction \/ plain = {} THEN 0 ELSE Min(plain)

BeginRead(kind, n, start, line, room) ==
    LET i == FirstByte
        skipped == IF n = 1 /\ ~InTransaction
                   THEN Moved([d EXCEPT !.buffer = SkipBuffer(@, @.size)], d.buffer.size) ELSE d
        c == Reading(kind, n, skipped, start, line, room)
    IN  IF n = 1 /\ i > 0
        THEN /\ d' = Moved([d EXCEPT !.buffer = Free(@, i)], i)
             /\ call' = Ends([c EXCEPT !.raw = <<Content(d.buffer)[i]>>])
        ELSE d' = skipped /\ call' = c

Read(n) ==
    /\ call = Idle
    /\ BeginRead("read", n, Position, <<>>, 0)
    /\ UNCHANGED <<file, mode>>

\* The read() that returns a ByteArray takes a whole block without a copy.
ReadArray(n) ==
    /\ call = Idle
    /\ n = NextDataBlockSize(d.buffer) /\ ~d.started /\ ~mode.text
    /\ d' = Moved([d EXCEPT !.buffer = WithoutFirstBlock(@)], n)
    /\ call' = Returned(FirstBlock(d.buffer), Reading("read", n, d, Position, <<>>, 0))
    /\ UNCHANGED <<file, mode>>

Peek(n) ==
    /\ call = Idle
    /\ call' = Reading("peek", n, d, Position, <<>>, 0)
    /\ UNCHANGED <<file, mode, d>>

\* skip(): what is in the buffer, then by seeking, then by reading.
Skip(n) ==
    /\ call = Idle
    /\ LET byReading == InTransaction \/ mode.text
           k == IF byReading THEN 0 ELSE Min({d.buffer.size, n})
           s == Moved([d EXCEPT !.buffer = SkipBuffer(@, k)], k)
           far == IF byReading \/ mode.sequential THEN 0
                  ELSE Max({0, Min({Len(file) - s.pos, n - k})})
           t == IF far > 0 THEN SeekTo(s, s.pos + far) ELSE s
           c == Reading("skip", n - k - far, t, Position, <<>>, 0)
       IN  /\ d' = t
           /\ call' = IF n = k + far THEN Returned(<<>>, [c EXCEPT !.asked = 0]) ELSE c
    /\ UNCHANGED <<file, mode>>

\* readLine(): the line, or its beginning, from the buffer, the rest byte by
\* byte.
ReadLine(n) ==
    /\ call = Idle
    /\ LET from == IF InTransaction THEN d.mark ELSE 0
           ahead == PeekBuffer(d.buffer, n, from)
           ends == {i \in DOMAIN ahead : ahead[i] = LF}
           piece == IF ends = {} THEN ahead ELSE SubSeq(ahead, 1, Min(ends))
           s == IF InTransaction THEN [d EXCEPT !.mark = @ + Len(piece)]
                ELSE Moved([d EXCEPT !.buffer = SkipBuffer(@, Len(piece))], Len(piece))
           full == ends # {} \/ Len(piece) = n
       IN  /\ d' = IF ends # {} THEN s ELSE Positioned(s)
           /\ call' = IF full
                      THEN Returned(TextLine(piece), Reading("line", 0, s, Position, <<>>, 0))
                      ELSE [at |-> "line", line |-> piece, room |-> n - Len(piece),
                            start |-> Position]
    /\ UNCHANGED <<file, mode>>

ReadLineData ==
    /\ call.at = "line"
    /\ BeginRead("line", 1, call.start, call.line, call.room)
    /\ UNCHANGED <<file, mode>>

Return ==
    /\ call.at = "returned"
    /\ call' = Idle
    /\ UNCHANGED <<file, mode, d>>

Seek(p) ==
    /\ call = Idle /\ ~mode.sequential
    /\ d' = SeekTo(d, p)
    /\ UNCHANGED <<file, mode, call>>

\* Bytes that are overwritten leave the buffer.
Write(bytes) ==
    /\ call = Idle /\ ~mode.sequential
    /\ LET s == Positioned(d)
           k == Len(bytes)
       IN  /\ s.index + k <= MaxFile
           /\ file' = SubSeq(file, 1, s.index) \o bytes \o SubSeq(file, s.index + k + 1, Len(file))
           /\ d' = [s EXCEPT !.pos = @ + k, !.devicePos = @ + k, !.index = @ + k,
                             !.buffer = SkipBuffer(@, k)]
    /\ UNCHANGED <<mode, call>>

\* Environment assumptions: the byte that was read last is given back and, with
\* Primed, to a buffer that has a block: reserveFront() miscounts the blocks of
\* a buffer that never had one or whose last block was handed out.
UngetChar ==
    /\ call = Idle /\ ~d.started /\ Position > 0
    /\ mode.text => file[Position] # CR
    /\ Primed => d.buffer.blocks # <<>>
    /\ d' = Moved([d EXCEPT !.buffer = Unget(@, file[Position])], -1)
    /\ UNCHANGED <<file, mode, call>>

StartTransaction ==
    /\ call = Idle /\ ~d.started
    /\ d' = [d EXCEPT !.started = TRUE, !.mark = d.pos]
    /\ UNCHANGED <<file, mode, call>>

CommitTransaction ==
    /\ call = Idle /\ d.started
    /\ d' = [d EXCEPT !.started = FALSE, !.mark = 0,
                      !.buffer = IF mode.sequential THEN Free(@, d.mark) ELSE @]
    /\ UNCHANGED <<file, mode, call>>

RollbackTransaction ==
    /\ call = Idle /\ d.started
    /\ LET s == IF mode.sequential THEN d ELSE SeekBuffer(d, d.mark)
       IN  d' = [s EXCEPT !.started = FALSE, !.mark = 0]
    /\ UNCHANGED <<file, mode, call>>

\* close() and open(): m_devicePos stays, the device starts again.
Reopen ==
    /\ call = Idle
    /\ d' = [Opened EXCEPT !.devicePos = d.devicePos]
    /\ UNCHANGED <<file, mode, call>>

----------------------------------------------------------------------------

Call ==
    \/ \E n \in 1..MaxLength : Read(n) \/ ReadArray(n) \/ Peek(n) \/ Skip(n) \/ ReadLine(n)
    \/ \E p \in 0..Len(file) : Seek(p)
    \/ \E bytes \in Writes : Write(bytes)
    \/ UngetChar
    \/ StartTransaction \/ CommitTransaction \/ RollbackTransaction \/ Reopen

Run == Round \/ Fails \/ ReadLineData \/ Return

Next == Call \/ Run

Spec == Init /\ [][Next]_vars

----------------------------------------------------------------------------

\* Type invariant.
TypeOK ==
    /\ mode \in [sequential : BOOLEAN, buffered : BOOLEAN, text : BOOLEAN]
    /\ d.index \in 0..Len(file) /\ d.pos \in 0..Len(file)
    /\ d.devicePos \in 0..MaxFile
    /\ d.mark \in 0..Len(file) /\ d.started \in BOOLEAN
    /\ call.at \in {"idle", "reading", "line", "returned"}

\* The read buffer keeps its representation through every mix of reserve, chop,
\* free, ungetChar and handing out of blocks (RingBuffer.cpp).
BufferWellFormed == WellFormed(d.buffer)

\* Read ahead is never wrong: the buffer holds what the file holds from the
\* position of the reader on (in a call that peeks, from where it started),
\* whatever was sought, written, peeked and given back (m_pos, m_devicePos).
BufferIsAhead ==
    LET from == IF mode.sequential THEN d.index - d.buffer.size
                ELSE IF call.at = "reading" /\ Keep(call) THEN call.saved ELSE d.pos
    IN  Content(d.buffer) = SubSeq(file, from + 1, from + d.buffer.size)

\* A call returns less than it was asked for only if the device had no more, not
\* because of the size of the buffer or of CRs that were removed (deviceAtEof in
\* IoDevicePrivate::read).
NothingWithheld ==
    call.at = "returned" /\ call.short =>
        IF mode.sequential THEN call.eof ELSE d.index = Len(file)

\* Every call is one step of a reader of the file, and all of them take and
\* leave the bytes of the file in order.
Stream ==
    INSTANCE ByteStream WITH
        text <- mode.text,
        sequential <- mode.sequential,
        pos <- IF call.at \in {"reading", "line"} THEN call.start ELSE Position,
        mark <- IF ~d.started THEN None
                ELSE IF mode.sequential THEN d.index - d.buffer.size ELSE d.mark,
        answer <- IF call.at # "returned" THEN None
                  ELSE IF call.kind = "skip" THEN <<>> ELSE call.data

ImplementsByteStream == Stream!Spec
=============================================================================
