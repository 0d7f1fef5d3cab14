------------------------------ MODULE ByteStream ------------------------------
(***************************************************************************)
(* What IoDevice promises to those who read: a file and a position in it,  *)
(* however the bytes are fetched and buffered.  Each call is one step.     *)
(***************************************************************************)
EXTENDS Integers, Sequences, SequencesExt

CONSTANTS CR, LF,     \* two bytes
          None        \* no transaction, no answer

VARIABLES file,     \* the bytes of the device, of a sequential one all that it will send
          text,     \* whether CR is dropped
          sequential, \* whether the device cannot seek
          pos,      \* the position of the reader
          mark,     \* the position at startTransaction(), or None
          answer    \* what the last call returned, while the caller has it, or None

vars == <<file, text, sequential, pos, mark, answer>>

WithoutCR(bytes) == SelectSeq(bytes, LAMBDA c : c # CR)
Plain(bytes) == IF text THEN WithoutCR(bytes) ELSE bytes

Init == pos = 0 /\ mark = None /\ answer = None

Ahead(k) == SubSeq(file, pos + 1, pos + k)

Answering == answer = None /\ answer' # None /\ UNCHANGED <<file, text, sequential, mark>>

Read == Answering /\ pos' \in pos..Len(file) /\ answer' = Plain(Ahead(pos' - pos))
Peek == Answering /\ pos' = pos /\ \E k \in 0..(Len(file) - pos) : answer' = Plain(Ahead(k))
Skip == Answering /\ pos' \in pos..Len(file) /\ answer' = <<>>

\* A line ends with LF, unless the buffer of the caller, or the device, does.
\* In text mode CR is dropped somewhere.
ReadLine ==
    /\ Answering /\ pos' \in pos..Len(file)
    /\ LET bytes == Ahead(pos' - pos)
       IN  IF text THEN WithoutCR(answer') = WithoutCR(bytes) ELSE answer' = bytes
    /\ \A i \in DOMAIN answer' : answer'[i] = LF => i = Len(answer')

Return == answer' = None /\ UNCHANGED <<file, text, sequential, pos, mark>>

Seek ==
    /\ answer = None /\ ~sequential
    /\ pos' \in 0..Len(file)
    /\ UNCHANGED <<file, text, sequential, mark, answer>>

Write ==
    /\ answer = None /\ ~sequential
    /\ pos < pos' /\ pos' <= Len(file')
    /\ Len(file') >= Len(file)
    /\ \A i \in DOMAIN file : i \notin (pos + 1)..pos' => file'[i] = file[i]
    /\ Len(file') > Len(file) => Len(file') = pos'
    /\ UNCHANGED <<text, sequential, mark, answer>>

\* The byte that was read last is given back.
Unget == answer = None /\ pos' = pos - 1 /\ UNCHANGED <<file, text, sequential, mark, answer>>

StartTransaction == mark = None /\ mark' = pos /\ UNCHANGED <<file, text, sequential, pos, answer>>
CommitTransaction == mark # None /\ mark' = None /\ UNCHANGED <<file, text, sequential, pos, answer>>
RollbackTransaction ==
    mark # None /\ mark' = None /\ pos' = mark /\ UNCHANGED <<file, text, sequential, answer>>

\* The device is closed and opened again.
Reopen == answer = None /\ pos' = 0 /\ mark' = None /\ UNCHANGED <<file, text, sequential, answer>>

Next ==
    \/ Read \/ Peek \/ Skip \/ ReadLine \/ Return \/ Seek \/ Write \/ Unget
    \/ StartTransaction \/ CommitTransaction \/ RollbackTransaction \/ Reopen

Spec == Init /\ [][Next]_vars
=============================================================================
