------------------------------ MODULE RingBuffer ------------------------------
(***************************************************************************)
(* The chunked buffer of IoDevice (RingBuffer.cpp): a list of blocks, of   *)
(* which the first is used from m_head on and the one at m_tailBuffer up   *)
(* to m_tail.  A buffer is a record and each operation an operator, so     *)
(* that modules can keep buffers in their variables.  Bytes that are not   *)
(* in use are Junk.                                                        *)
(***************************************************************************)
EXTENDS Integers, Sequences, FiniteSetsExt, SequencesExt

CONSTANTS BasicBlockSize,   \* m_basicBlockSize
          Junk              \* a byte that was never written

ASSUME RingBufferAssumption == BasicBlockSize \in Nat \ {0}

EmptyBuffer == [blocks |-> <<>>, head |-> 0, tail |-> 0, tailBuffer |-> 0, size |-> 0]

Blank(n) == [k \in 1..n |-> Junk]

\* ByteArray::resize
Resize(block, n) ==
    IF n <= Len(block) THEN SubSeq(block, 1, n) ELSE block \o Blank(n - Len(block))

AtLeastBasic(n) == IF n < BasicBlockSize THEN BasicBlockSize ELSE n

Used(b, i) == IF i = b.tailBuffer + 1 THEN b.tail ELSE Len(b.blocks[i])

RECURSIVE From(_, _)
From(b, i) ==
    IF i > Len(b.blocks) THEN <<>>
    ELSE SubSeq(b.blocks[i], IF i = 1 THEN b.head + 1 ELSE 1, Used(b, i)) \o From(b, i + 1)

\* What peek() copies when it is asked for everything.
Content(b) == From(b, 1)

PeekBuffer(b, n, pos) ==
    LET bytes == Content(b)
    IN  SubSeq(bytes, pos + 1, IF pos + n < Len(bytes) THEN pos + n ELSE Len(bytes))

NextDataBlockSize(b) ==
    (IF b.tailBuffer = 0 THEN b.tail ELSE Len(b.blocks[1])) - b.head

Clear(b) == IF b.blocks = <<>> THEN b ELSE [EmptyBuffer EXCEPT !.blocks = <<<<>>>>]

\* The last bytes are given up: a single block is kept around if it is small.
Emptied(b) ==
    LET n == Len(b.blocks[1])
    IN  IF n <= BasicBlockSize
        THEN [b EXCEPT !.blocks[1] = Blank(n), !.head = 0, !.tail = 0, !.size = 0]
        ELSE Clear(b)

\* free(): whole blocks leave at the front, and the head moves in the next.
RECURSIVE Free(_, _)
Free(b, n) ==
    LET blockSize == Len(b.blocks[1]) - b.head
    IN  IF n = 0 THEN b
        ELSE IF b.tailBuffer = 0 \/ blockSize > n
        THEN IF b.size <= n THEN Emptied(b)
             ELSE [b EXCEPT !.blocks[1] = Blank(b.head + n) \o SubSeq(@, b.head + n + 1, Len(@)),
                            !.head = @ + n, !.size = @ - n]
        ELSE Free([b EXCEPT !.blocks = Tail(@), !.tailBuffer = @ - 1, !.head = 0,
                            !.size = @ - blockSize], n - blockSize)

\* Faulty: m_tail keeps its value when the last block goes.
RECURSIVE ChopKeepsTail(_, _)
ChopKeepsTail(b, n) ==
    IF n = 0 THEN b
    ELSE IF b.tailBuffer = 0 \/ b.tail > n
    THEN IF b.size <= n THEN Emptied(b)
         ELSE [b EXCEPT !.tail = @ - n, !.size = @ - n]
    ELSE ChopKeepsTail([b EXCEPT !.blocks = Front(@), !.tailBuffer = @ - 1,
                                 !.size = @ - b.tail], n - b.tail)

\* chop(): the same at the end.  If m_tailBuffer counts a block too many, as
\* after reserveFront() of a buffer without blocks, the list is empty now and the
\* size of its back() is undefined; so is all that follows.
RECURSIVE Chop(_, _)
Chop(b, n) ==
    LET rest == Front(b.blocks)
    IN  IF n = 0 THEN b
        ELSE IF b.tailBuffer = 0 \/ b.tail > n
        THEN IF b.size <= n THEN Emptied(b)
             ELSE [b EXCEPT !.tail = @ - n, !.size = @ - n]
        ELSE Chop([b EXCEPT !.blocks = rest, !.tailBuffer = @ - 1, !.size = @ - b.tail,
                            !.tail = IF rest = <<>> THEN 0 ELSE Len(Last(rest))], n - b.tail)

\* reserve(): room for n bytes at the end.  Whether the last block can grow in
\* place depends on its capacity, which is at least its size.
WithRoom(b, n) ==
    LET newSize == b.tail + n
        last == Len(b.blocks)
        grown == [b EXCEPT !.blocks[last] = Resize(@, AtLeastBasic(newSize))]
        added == [b EXCEPT !.blocks = Append([@ EXCEPT ![last] = SubSeq(@, 1, b.tail)],
                                             Blank(AtLeastBasic(n))),
                           !.tailBuffer = @ + 1, !.tail = 0]
    IN  IF b.size = 0
        THEN {[b EXCEPT !.blocks = IF @ = <<>> THEN <<Blank(AtLeastBasic(n))>>
                                   ELSE [@ EXCEPT ![1] = Resize(@, AtLeastBasic(n))]]}
        ELSE IF newSize <= Len(b.blocks[last]) THEN {b}
        ELSE IF b.tail < BasicBlockSize THEN {grown}
        ELSE {grown, added}

\* Room for n bytes is reserved, data is written to it and the rest is chopped.
Filled(b, n, data) ==
    LET wrote(r) ==
            [r EXCEPT !.blocks[Len(r.blocks)] =
                 [k \in DOMAIN @ |-> IF k - r.tail \in DOMAIN data THEN data[k - r.tail] ELSE @[k]],
               !.tail = @ + n, !.size = @ + n]
    IN  {Chop(wrote(r), n - Len(data)) : r \in WithRoom(b, n)}

\* read() and skip(): block by block, but always what free() takes.
SkipBuffer(b, n) == Free(b, IF b.size < n THEN b.size ELSE n)

\* The ByteArray read(): the first block leaves as a whole.
FirstBlock(b) == SubSeq(b.blocks[1], b.head + 1, Used(b, 1))

WithoutFirstBlock(b) ==
    [b EXCEPT !.blocks = Tail(@), !.head = 0, !.size = @ - Len(FirstBlock(b)),
              !.tail = IF b.tailBuffer = 0 THEN 0 ELSE @,
              !.tailBuffer = IF @ = 0 THEN 0 ELSE @ - 1]

\* ungetChar(), with reserveFront(1).
Unget(b, c) ==
    IF b.head > 0
    THEN [b EXCEPT !.blocks[1][b.head] = c, !.head = @ - 1, !.size = @ + 1]
    ELSE [b EXCEPT !.blocks = <<[Blank(BasicBlockSize) EXCEPT ![BasicBlockSize] = c]>> \o @,
                   !.tailBuffer = @ + 1, !.head = BasicBlockSize - 1, !.size = @ + 1]

\* m_bufferSize is the number of bytes in use, m_tailBuffer names the last
\* block, an empty buffer has at most one block, and the first block has bytes
\* if there are any: a read() of an empty first block would not end.
WellFormed(b) ==
    LET bytes == Content(b)
    IN
    /\ IF b.blocks = <<>> THEN b = EmptyBuffer ELSE Len(b.blocks) = b.tailBuffer + 1
    /\ b.size = Len(bytes)
    /\ IF b.size = 0 THEN b.head = 0 /\ b.tail = 0 /\ Len(b.blocks) <= 1
       ELSE NextDataBlockSize(b) > 0
    /\ Junk \notin Range(bytes)
=============================================================================
