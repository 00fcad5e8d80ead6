---------------------------- MODULE LineStream -----------------------------
(***************************************************************************)
(* The SageMaker adapter (sagemaker.py): LineIterator, which cuts the      *)
(* pieces of a response into lines, and stream_complete, which turns the   *)
(* lines into deltas.                                                      *)
(*                                                                         *)
(* A response is a sequence of events, each the first half of a line, the  *)
(* second half with its newline, and an empty line.  Pieces are cut        *)
(* anywhere between these units.  A response that is not whole stops after *)
(* the first half of its last line.  An event that is no PayloadPart       *)
(* changes nothing.                                                        *)
(***************************************************************************)
EXTENDS Integers, Sequences, SequencesExt

CONSTANT Responses   \* [tokens |-> ..., whole |-> ...], what the endpoint may send

ASSUME LineAssumption ==
    \A r \in Responses :
        /\ r.tokens \in Seq({"text", "special", "stop"})
        /\ r.whole \in BOOLEAN

VARIABLES
    response,   \* what the endpoint sends
    received,   \* how many units of it have arrived
    buffer,     \* the units written to the buffer
    read_pos,   \* how many of them were returned in lines
    deltas,     \* the tokens yielded
    reader      \* "off", "reading", "ended" or "failed"

lineVars == <<response, received, buffer, read_pos, deltas, reader>>

\* Event i has the units 3i - 2, 3i - 1 and 3i; unit k is of
\* event (k + 2) \div 3.
Unit(k) ==
    [of |-> IF k % 3 = 0 THEN 0 ELSE (k + 2) \div 3, newline |-> k % 3 # 1]

Bytes(r) ==
    [k \in 1 .. 3 * Len(r.tokens) - (IF r.whole THEN 0 ELSE 2) |-> Unit(k)]

NoResponse == [tokens |-> << >>, whole |-> TRUE]

LineInit ==
    /\ response = NoResponse /\ received = 0 /\ buffer = << >>
    /\ read_pos = 0 /\ deltas = << >> /\ reader = "off"

StreamComplete(r) ==
    /\ response' = r /\ received' = 0 /\ buffer' = << >>
    /\ read_pos' = 0 /\ deltas' = << >> /\ reader' = "reading"

StreamOff ==
    /\ response' = NoResponse /\ received' = 0 /\ buffer' = << >>
    /\ read_pos' = 0 /\ deltas' = << >> /\ reader' = "off"

\* Where readline stops: the first newline behind read_pos, or the end.
LineEnds(at) ==
    LET newlines == {j \in at + 1 .. Len(buffer) : buffer[j].newline}
    IN  IF newlines = {} THEN Len(buffer) ELSE Min(newlines)

ReadLine(at) == SubSeq(buffer, at + 1, LineEnds(at))

\* Mutant: what the buffer ends with is a line.
HasAnything == ReadLine(read_pos) # << >>

HasLine == ReadLine(read_pos) # << >> /\ Last(ReadLine(read_pos)).newline

\* The delta of a line: none if it is empty, special or the stop token.
Parsed(line) ==
    LET token == Head(line).of
    IN  IF token # 0 /\ response.tokens[token] = "text" THEN <<token>> ELSE << >>

\* Half a line is not JSON.
IsJson(line) == Len(line) = 2

NextLine ==
    /\ reader = "reading" /\ HasLine
    /\ LET line == ReadLine(read_pos)
       IN  /\ read_pos' = read_pos + Len(line)
           /\ IF Head(line).of = 0 \/ IsJson(line)
              THEN deltas' = deltas \o Parsed(line) /\ UNCHANGED reader
              ELSE reader' = "failed" /\ UNCHANGED deltas
    /\ UNCHANGED <<response, received, buffer>>

\* next(byte_iterator) and the write at the end of the buffer.
ReceivePiece ==
    /\ reader = "reading" /\ ~HasLine
    /\ \E n \in received + 1 .. Len(Bytes(response)) :
        /\ received' = n
        /\ buffer' = buffer \o SubSeq(Bytes(response), received + 1, n)
    /\ UNCHANGED <<response, read_pos, deltas, reader>>

\* Mutant: the comparison of the positions is off by one.
EndOffByOne ==
    /\ reader = "reading" /\ ~HasLine
    /\ received = Len(Bytes(response))
    /\ read_pos + 1 = Len(buffer)
    /\ reader' = "ended"
    /\ UNCHANGED <<response, received, buffer, read_pos, deltas>>

\* StopIteration with nothing left.  With something left the loop goes round
\* without end: no step of this module is enabled then.
EndOfStream ==
    /\ reader = "reading" /\ ~HasLine
    /\ received = Len(Bytes(response))
    /\ read_pos = Len(buffer)
    /\ reader' = "ended"
    /\ UNCHANGED <<response, received, buffer, read_pos, deltas>>

\* The event stream raises.
StreamFails ==
    /\ reader = "reading" /\ ~HasLine
    /\ received < Len(Bytes(response))
    /\ reader' = "failed"
    /\ UNCHANGED <<response, received, buffer, read_pos, deltas>>

Reading == NextLine \/ ReceivePiece \/ EndOfStream

\* The deltas are the visible tokens up to some place of the response.
YieldedUpTo(n) ==
    /\ \A i, j \in DOMAIN deltas : i < j => deltas[i] < deltas[j]
    /\ {deltas[j] : j \in DOMAIN deltas} = {i \in 1 .. n : response.tokens[i] = "text"}

\* What was yielded is a beginning of the visible tokens, each once and in
\* order, wherever the pieces were cut, and all of them when the stream ends.
\* The loop goes round without end only on a response that stops within a line
\* (LineIterator.__next__, get_stream).
DeltasAddUp ==
    /\ \E n \in 0 .. Len(response.tokens) : YieldedUpTo(n)
    /\ reader = "ended" => YieldedUpTo(Len(response.tokens))
    /\ reader = "failed" => received < Len(Bytes(response))
    /\ response.whole /\ received = Len(Bytes(response)) /\ ~HasLine
           => read_pos = Len(buffer)

=============================================================================
