---------------------------- MODULE ReadStream -----------------------------
(***************************************************************************)
(* streams::ReadStream (src/streams/ReadStream.cpp): the IStream through   *)
(* which a sub-filter, on its gatherer's thread, reads a member while the  *)
(* extractor still appends to its FileBuffer.                              *)
(*                                                                         *)
(* Seek computes with unsigned 64-bit positions and signed 64-bit offsets; *)
(* here they are 0 .. MaxU and -Half .. Half - 1.  A Read waits in         *)
(* FileBuffer::Read until its bytes have come or will not come any more,   *)
(* so it is two steps.  CopyTo reads and writes blocks, one after the      *)
(* other.  The byte at offset k is represented by k, what is in memory or  *)
(* in the file where nothing has been appended yet by Junk.                *)
(***************************************************************************)
EXTENDS Integers, Sequences

CONSTANTS
    Half,       \* 2^63: one more than the greatest signed offset
    Size,       \* the size the archive declares, FileDescription::Size
    BlockSize,  \* sizeof(buffer) in CopyTo
    Counts      \* the numbers of bytes sub-filters ask for

MaxU == 2 * Half - 1
Moves == -Half .. Half - 1
Origins == {"SET", "CUR", "END"}
Codes == {"none", "S_OK", "S_FALSE", "E_UNEXPECTED", "STG_E_SEEKERROR",
          "E_WRITE", "E_MAP"}

VARIABLES
    position,   \* where the stream is
    available,  \* bytes appended to the FileBuffer so far
    endOfFile,  \* the FileBuffer has been closed
    reading,    \* bytes of the FileBuffer::Read under way, NotReading if none
    copy,       \* the CopyTo under way
    answer      \* history: what the last call was and returned

vars == << position, available, endOfFile, reading, copy, answer >>

NotReading == -1
Junk == -1

NoCopy == [state |-> "idle", start |-> 0, count |-> 0, remaining |-> 0,
           block |-> << >>, read |-> 0, written |-> 0, sink |-> << >>]

Answer(op, code, bytes) ==
    [op |-> op, code |-> code, bytes |-> bytes]

NoAnswer == Answer("none", "none", << >>)

Init ==
    /\ position = 0
    /\ available = 0 /\ endOfFile = FALSE
    /\ reading = NotReading
    /\ copy = NoCopy
    /\ answer = NoAnswer

Min2(a, b) == IF a < b THEN a ELSE b

\* The n bytes from offset on.
Slice(offset, n) == [k \in 1 .. n |-> offset + k - 1]

\* ULONGLONG arithmetic wraps around.
Unsigned(n) == n % (MaxU + 1)

Idle == reading = NotReading /\ copy.state = "idle"

-----------------------------------------------------------------------------
(* The extractor: FileBuffer::Append and SetEndOfFile (module FileBuffer). *)

AppendBytes ==
    /\ ~endOfFile
    /\ available' \in available + 1 .. Size
    /\ UNCHANGED << position, endOfFile, reading, copy, answer >>

SetEndOfFile ==
    /\ ~endOfFile
    /\ endOfFile' = TRUE
    /\ UNCHANGED << position, available, reading, copy, answer >>

-----------------------------------------------------------------------------
(* FileBuffer::Read as the thread that calls it sees it.                   *)

\* Mutant: every count is accepted.
NeverOverflows(count) == FALSE

\* offset + count would not be an ULONGLONG: length_error.
Overflows(count) == MaxU - position < count

\* The size the FileBuffer must have to serve it.
RequiredSize(count) == Min2(Unsigned(position + count), Size)

\* It has the bytes that are required, or will not get them any more.
Served(count) ==
    position >= Size \/ endOfFile \/ available >= RequiredSize(count)

\* The bytes it returns: with the required size it takes all to be there.
Got(count) ==
    LET there == IF available >= RequiredSize(count) THEN Size ELSE available
        n == IF position >= there THEN 0 ELSE Min2(there - position, count)
    IN [k \in 1 .. n |-> LET offset == position + k - 1
                        IN IF offset < available THEN offset ELSE Junk]

-----------------------------------------------------------------------------
(* The sub-filter.                                                         *)

\* Read calls FileBuffer::Read, which throws or waits.
ReadBegins(count) ==
    /\ Idle
    /\ \/ Overflows(count) /\ answer' = Answer("Read", "E_UNEXPECTED", << >>)
          /\ UNCHANGED reading
       \/ ~Overflows(count) /\ reading' = count /\ answer' = NoAnswer
    /\ UNCHANGED << position, available, endOfFile, copy >>

\* The end of the file is reported as S_FALSE.
Code(count, bytes) == IF Len(bytes) < count THEN "S_FALSE" ELSE "S_OK"

\* FileBuffer::Read returns: advance by what was read.
ReadEnds ==
    /\ reading # NotReading /\ Served(reading)
    /\ position' = position + Len(Got(reading))
    /\ answer' = Answer("Read", Code(reading, Got(reading)), Got(reading))
    /\ reading' = NotReading
    /\ UNCHANGED << available, endOfFile, copy >>

\* The temporary file cannot be mapped: FileBuffer::Read throws.
ReadThrows ==
    /\ reading # NotReading /\ Served(reading) /\ Len(Got(reading)) > 0
    /\ answer' = Answer("Read", "E_MAP", << >>)
    /\ reading' = NotReading
    /\ UNCHANGED << position, available, endOfFile, copy >>

\* Where Seek counts from.
Start(origin) ==
    CASE origin = "SET" -> 0
      [] origin = "CUR" -> position
      [] origin = "END" -> Size

\* Mutant: the negative offset is not compared with the start.
SeekUnchecked(offset, origin) ==
    Idle /\ LET start == Start(origin)
                seeks == offset < 0 \/ offset <= MaxU - start
            IN /\ position' = IF seeks THEN Unsigned(start + offset) ELSE position
               /\ answer' = Answer("Seek", IF seeks THEN "S_OK"
                                           ELSE "STG_E_SEEKERROR", << >>)
               /\ UNCHANGED << available, endOfFile, reading, copy >>

\* Seek: not before the start, not beyond what fits.  (-LLONG_MIN overflows
\* a signed integer; the compilers of this code negate with wrap-around, and
\* the cast makes 2^63 of it.)
Seek(offset, origin) ==
    LET start == Start(origin)
        back == Unsigned(-offset)
        seeks == IF offset < 0 THEN back <= start
                               ELSE Unsigned(offset) <= MaxU - start
    IN /\ Idle
       /\ IF seeks
            THEN /\ position' = IF offset < 0 THEN start - back ELSE start + offset
                 /\ answer' = Answer("Seek", "S_OK", << >>)
            ELSE /\ answer' = Answer("Seek", "STG_E_SEEKERROR", << >>)
                 /\ UNCHANGED position
       /\ UNCHANGED << available, endOfFile, reading, copy >>

-----------------------------------------------------------------------------
(* CopyTo: a block is read, then written.                                  *)

CopyBegins(count) ==
    /\ Idle
    /\ copy' = [NoCopy EXCEPT !.state = IF count = 0 THEN "idle" ELSE "read",
                              !.start = position, !.count = count,
                              !.remaining = count]
    /\ answer' = IF count = 0 THEN Answer("CopyTo", "S_OK", << >>) ELSE NoAnswer
    /\ UNCHANGED << position, available, endOfFile, reading >>

BlockWanted == Min2(copy.remaining, BlockSize)

\* The call returns; what it copied stays for the properties.
CopyReturns(code, read, written, sink) ==
    /\ copy' = [copy EXCEPT !.state = "idle", !.block = << >>, !.read = read,
                            !.written = written, !.sink = sink]
    /\ answer' = Answer("CopyTo", code, sink)

CopyReads ==
    /\ copy.state = "read"
    /\ ~Overflows(BlockWanted) /\ Served(BlockWanted)
    /\ LET bytes == Got(BlockWanted)
       IN /\ position' = position + Len(bytes)
          /\ copy' = [copy EXCEPT !.state = "write", !.block = bytes,
                                  !.read = @ + Len(bytes)]
    /\ UNCHANGED << available, endOfFile, reading, answer >>

\* The Read in CopyTo fails in one of its two ways.
CopyReadFails ==
    /\ copy.state = "read"
    /\ \E code \in {"E_UNEXPECTED", "E_MAP"} :
          /\ code = "E_UNEXPECTED" <=> Overflows(BlockWanted)
          /\ code = "E_MAP" =>
                 Served(BlockWanted) /\ Len(Got(BlockWanted)) > 0
          /\ CopyReturns(code, copy.read, copy.written, copy.sink)
    /\ UNCHANGED << position, available, endOfFile, reading >>

\* Mutant: it goes on after a partial write.
CopyDone(n) == Len(copy.block) < BlockWanted

\* The file or the target is at its end.
CopyStops(n) == Len(copy.block) < BlockWanted \/ n < Len(copy.block)

\* Mutant: every block counts as a full one.
CopyLeftByBlocks == copy.remaining - BlockSize

CopyLeft == copy.remaining - Len(copy.block)

\* The target takes n bytes of the block.
CopyWrites(n) ==
    LET written == copy.written + n
        sink == copy.sink \o SubSeq(copy.block, 1, n)
    IN /\ copy.state = "write" /\ n <= Len(copy.block)
       /\ IF CopyStops(n) THEN CopyReturns("S_FALSE", copy.read, written, sink)
          ELSE IF CopyLeft = 0 THEN CopyReturns("S_OK", copy.read, written, sink)
          ELSE /\ copy' = [copy EXCEPT !.state = "read", !.block = << >>,
                                       !.remaining = CopyLeft,
                                       !.written = written, !.sink = sink]
               /\ UNCHANGED answer
       /\ UNCHANGED << position, available, endOfFile, reading >>

\* The target fails, n bytes may be in it nevertheless.
CopyFails(n) ==
    /\ copy.state = "write" /\ n <= Len(copy.block)
    /\ CopyReturns("E_WRITE", copy.read, copy.written,
                   copy.sink \o SubSeq(copy.block, 1, n))
    /\ UNCHANGED << position, available, endOfFile, reading >>

Next ==
    \/ AppendBytes \/ SetEndOfFile
    \/ \E count \in Counts : ReadBegins(count) \/ CopyBegins(count)
    \/ ReadEnds \/ ReadThrows
    \/ \E offset \in Moves, origin \in Origins : Seek(offset, origin)
    \/ CopyReads \/ CopyReadFails
    \/ \E n \in 0 .. BlockSize : CopyWrites(n) \/ CopyFails(n)

Spec == Init /\ [][Next]_vars

-----------------------------------------------------------------------------
\* Positions are ULONGLONGs and never leave their range.
TypeOK ==
    /\ position \in 0 .. MaxU
    /\ available \in 0 .. Size /\ endOfFile \in BOOLEAN
    /\ reading \in 0 .. MaxU \cup {NotReading}
    /\ copy.state \in {"idle", "read", "write"}
    /\ copy.remaining \in 0 .. copy.count
    /\ answer.op \in {"none", "Read", "Seek", "CopyTo"}
    /\ answer.code \in Codes

\* Seek computes what unbounded integers would give, for every offset, the
\* most negative one included, and from every position, and moves the stream
\* only if the result is a position.
SeekIsExact ==
    [][answer'.op = "Seek" => \A offset \in Moves, origin \in Origins :
         Seek(offset, origin) =>
             LET target == Start(origin) + offset
             IN IF target \in 0 .. MaxU
                  THEN position' = target /\ answer'.code = "S_OK"
                  ELSE /\ position' = position
                       /\ answer'.code = "STG_E_SEEKERROR"]_vars

\* A Read gives the bytes that follow the ones read before.  S_OK is all that
\* was asked for; S_FALSE is told only where no byte will ever follow, and not
\* because the extractor is late; a Read that failed has not moved.
ReadIsComplete ==
    [][answer'.op = "Read" /\ answer' # answer =>
         LET bytes == answer'.bytes
         IN /\ bytes = Slice(position, Len(bytes))
            /\ position' = position + Len(bytes)
            /\ answer'.code = "S_OK" => Len(bytes) = reading
            /\ answer'.code = "S_FALSE" =>
                   position' >= (IF endOfFile THEN available ELSE Size)]_vars

\* While CopyTo runs and when it returns, the target holds a gapless piece of
\* the member from where the stream was; the counts it returns tell no more
\* than what is there; on S_OK everything has been copied and the stream is
\* behind it.
CopyIsFaithful ==
    copy.state # "idle" \/ answer.op = "CopyTo" =>
        /\ copy.sink = Slice(copy.start, Len(copy.sink))
        /\ copy.written <= Len(copy.sink)
        /\ Len(copy.sink) <= copy.read
        /\ position = copy.start + copy.read
        /\ answer.code = "S_OK" => /\ copy.written = copy.count
                                   /\ copy.read = copy.count
=============================================================================
