---------------------------- MODULE StreamsProofs ----------------------------
(***************************************************************************)
(* Proofs about Streams (and so about ReadStream and BridgeStream), for    *)
(* members and foreign streams of any size, any width of the positions,    *)
(* any block size and any sequence of calls.                               *)
(*                                                                         *)
(* The invariant has one part for each stream.  ReadInv: how much of a     *)
(* Read or of a CopyTo under way has been done.  BridgeInv: where the      *)
(* host's stream is and what 7-Zip's buffer holds at each step of a Read,  *)
(* and how many jumps it has met.  Over a ReadStream it has met none.      *)
(***************************************************************************)
EXTENDS Streams, TLAPS, SequenceTheorems

-----------------------------------------------------------------------------
(* Numbers.                                                                *)

\* The numbers the streams compute with.
LEMMA Numbers ==
  /\ Far \in Nat /\ Half \in Nat \ {0} /\ Size \in Nat /\ Size < Far
  /\ Far = Reader!MaxU /\ BlockSize \in Nat \ {0}
  /\ MaxCount \in Nat /\ MaxCount <= Far /\ Counts \subseteq 0 .. Far
BY StreamsAssumption DEF Far, Reader!MaxU

\* An unsigned number is itself.
LEMMA UnsignedIs ==
  ASSUME NEW n \in 0 .. Far
  PROVE  Reader!Unsigned(n) = n
BY Numbers DEF Reader!Unsigned

-----------------------------------------------------------------------------
(* Slices of the member.                                                   *)

\* A slice is a sequence of consecutive bytes.
LEMMA SliceIs ==
  ASSUME NEW offset \in Nat, NEW n \in Nat
  PROVE  /\ Reader!Slice(offset, n) \in Seq(Nat)
         /\ Len(Reader!Slice(offset, n)) = n
         /\ \A k \in 1 .. n : Reader!Slice(offset, n)[k] = offset + k - 1
BY DEF Reader!Slice

\* Consecutive bytes followed by the next ones make a slice.
LEMMA Consecutive ==
  ASSUME NEW s \in Seq(Nat), NEW t \in Seq(Nat), NEW offset \in Nat,
         \A k \in 1 .. Len(s) : s[k] = offset + k - 1,
         \A k \in 1 .. Len(t) : t[k] = offset + Len(s) + k - 1
  PROVE  s \o t = Reader!Slice(offset, Len(s) + Len(t))
<1>1. /\ s \o t \in Seq(Nat) /\ Len(s \o t) = Len(s) + Len(t)
      /\ Len(s) \in Nat /\ Len(t) \in Nat
      /\ \A k \in 1 .. Len(s) + Len(t) :
             (s \o t)[k] = IF k <= Len(s) THEN s[k] ELSE t[k - Len(s)]
  BY ConcatProperties
<1>2. \A k \in 1 .. Len(s) + Len(t) : (s \o t)[k] = offset + k - 1
  BY <1>1
<1>3. PICK n \in Nat : n = Len(s) + Len(t)
  BY <1>1
<1>4. /\ Reader!Slice(offset, n) \in Seq(Nat) /\ Len(Reader!Slice(offset, n)) = n
      /\ \A k \in 1 .. n : Reader!Slice(offset, n)[k] = offset + k - 1
  BY SliceIs
<1>5. \A k \in 1 .. Len(s \o t) : (s \o t)[k] = Reader!Slice(offset, n)[k]
  BY <1>1, <1>2, <1>3, <1>4
<1>6. s \o t = Reader!Slice(offset, n)
  BY <1>1, <1>3, <1>4, <1>5, SeqEqual
<1> QED
  BY <1>3, <1>6

\* What is appended to a slice from where it ends makes a longer slice.
LEMMA SliceGrows ==
  ASSUME NEW offset \in Nat, NEW m \in Nat, NEW b \in Nat, NEW n \in 0 .. b
  PROVE  Reader!Slice(offset, m) \o SubSeq(Reader!Slice(offset + m, b), 1, n)
           = Reader!Slice(offset, m + n)
<1>1. PICK s \in Seq(Nat) :
        /\ s = Reader!Slice(offset, m) /\ Len(s) = m
        /\ \A k \in 1 .. m : s[k] = offset + k - 1
  BY SliceIs
<1>2. PICK u \in Seq(Nat) :
        /\ u = Reader!Slice(offset + m, b) /\ Len(u) = b
        /\ \A k \in 1 .. b : u[k] = offset + m + k - 1
  <2>1. offset + m \in Nat
    OBVIOUS
  <2> QED
    BY <2>1, SliceIs
<1>3. PICK t \in Seq(Nat) :
        /\ t = SubSeq(u, 1, n) /\ Len(t) = n
        /\ \A k \in 1 .. n : t[k] = offset + m + k - 1
  <2>1. /\ SubSeq(u, 1, n) \in Seq(Nat) /\ Len(SubSeq(u, 1, n)) = n
        /\ \A k \in 1 .. n : SubSeq(u, 1, n)[k] = u[k]
    BY <1>2
  <2>2. \A k \in 1 .. n : SubSeq(u, 1, n)[k] = offset + m + k - 1
    BY <1>2, <2>1
  <2> QED
    BY <2>1, <2>2
<1>4. /\ \A k \in 1 .. Len(s) : s[k] = offset + k - 1
      /\ \A k \in 1 .. Len(t) : t[k] = offset + Len(s) + k - 1
  BY <1>1, <1>3
<1>5. s \o t = Reader!Slice(offset, Len(s) + Len(t))
  BY <1>4, Consecutive
<1> QED
  BY <1>1, <1>2, <1>3, <1>5

\* FileBuffer::Read returns bytes from the position on, no more than asked and
\* only what is there; it returns fewer only if there will never be more.
LEMMA GotIs ==
  ASSUME NEW count \in Nat, position \in Nat, position + count <= Far,
         available \in 0 .. Size, Reader!Served(count)
  PROVE  \E n \in 0 .. count :
           /\ Reader!Got(count) = Reader!Slice(position, n)
           /\ n < count =>
                 position + n >= IF endOfFile THEN available ELSE Size
<1>1. Size \in Nat /\ available \in Nat /\ available <= Size
  BY Numbers
<1>2. PICK required \in Nat :
        /\ required = Reader!RequiredSize(count)
        /\ required = IF position + count < Size THEN position + count ELSE Size
  <2>1. Reader!Unsigned(position + count) = position + count
    BY Numbers, UnsignedIs
  <2> QED
    BY <1>1, <2>1 DEF Reader!RequiredSize, Reader!Min2
<1> DEFINE there == IF available >= Reader!RequiredSize(count) THEN Size ELSE available
           byte(k) == LET offset == position + k - 1
                      IN IF offset < available THEN offset ELSE Reader!Junk
<1>3. PICK n \in 0 .. count :
        n = IF position >= there THEN 0 ELSE Reader!Min2(there - position, count)
  <2>1. there \in Nat
    BY <1>1
  <2> HIDE DEF there
  <2>2. \A left \in Nat : Reader!Min2(left, count) \in 0 .. count
    BY DEF Reader!Min2
  <2>3. CASE position >= there
    <3>1. 0 \in 0 .. count
      OBVIOUS
    <3> QED
      BY <2>3, <3>1
  <2>4. CASE ~(position >= there)
    <3>1. there - position \in Nat
      BY <2>1, <2>4
    <3> QED
      BY <2>2, <2>4, <3>1
  <2> QED
    BY <2>3, <2>4
<1>4. Reader!Got(count) = [k \in 1 .. n |-> byte(k)]
  BY <1>3 DEF Reader!Got
<1>5. n > 0 => position + n <= available
  <2>1. CASE available >= required
    BY <1>1, <1>2, <1>3, <2>1 DEF Reader!Min2
  <2>2. CASE available < required
    <3>1. there = available
      BY <1>1, <1>2, <2>2
    <3>2. n = IF position >= available THEN 0
              ELSE Reader!Min2(available - position, count)
      BY <1>3, <3>1
    <3> QED
      BY <1>1, <3>2 DEF Reader!Min2
  <2> QED
    BY <1>1, <2>1, <2>2
<1>6. n < count => position + n >= IF endOfFile THEN available ELSE Size
  <2>1. CASE available >= required
    <3>1. there = Size
      BY <1>2, <2>1
    <3>2. n = IF position >= Size THEN 0 ELSE Reader!Min2(Size - position, count)
      BY <1>3, <3>1
    <3>3. n < count => position + n >= Size /\ position + n >= available
      BY <1>1, <3>2 DEF Reader!Min2
    <3> QED
      BY <3>3
  <2>2. CASE available < required
    <3>1. position >= Size \/ endOfFile
      BY <1>1, <1>2, <2>2 DEF Reader!Served
    <3> QED
      BY <1>1, <1>2, <1>3, <2>2, <3>1 DEF Reader!Min2
  <2> QED
    BY <1>1, <2>1, <2>2
<1>7. [k \in 1 .. n |-> byte(k)] = Reader!Slice(position, n)
  <2>1. ASSUME NEW k \in 1 .. n PROVE byte(k) = position + k - 1
    <3>1. position + k - 1 < available
      BY <1>1, <1>5
    <3> QED
      BY <3>1
  <2> QED
    BY <2>1 DEF Reader!Slice
<1> QED
  BY <1>4, <1>6, <1>7

-----------------------------------------------------------------------------
(* The invariant.                                                          *)

CopyStates == {"idle", "read", "write"}

CopyRecords ==
    [state : CopyStates, start : 0 .. Far, count : 0 .. Far,
     remaining : 0 .. Far, block : Seq(Nat), read : Nat, written : Nat,
     sink : Seq(Nat)]

ReadTypes ==
    /\ position \in 0 .. Far
    /\ available \in 0 .. Size
    /\ endOfFile \in BOOLEAN
    /\ reading \in 0 .. Far \cup {Reader!NotReading}
    /\ copy \in CopyRecords
    /\ answer \in [op : {"none", "Read", "Seek", "CopyTo"},
                   code : Reader!Codes, bytes : Seq(Nat)]

\* While a block is to be read, everything read so far was written; while one
\* is to be written, it is what was read last.
ReadInv ==
    /\ ReadTypes
    /\ copy.sink = Reader!Slice(copy.start, Len(copy.sink))
    /\ copy.remaining <= copy.count
    /\ reading # Reader!NotReading =>
           /\ copy.state = "idle" /\ answer = Reader!NoAnswer
           /\ position + reading <= Far
    /\ copy.state = "read" =>
           /\ copy.written = Len(copy.sink) /\ copy.read = Len(copy.sink)
           /\ copy.remaining = copy.count - copy.read /\ copy.remaining > 0
    /\ copy.state = "write" =>
           /\ copy.written = Len(copy.sink)
           /\ copy.read = Len(copy.sink) + Len(copy.block)
           /\ copy.block = Reader!Slice(copy.start + Len(copy.sink),
                                       Len(copy.block))
           /\ copy.remaining = copy.count - Len(copy.sink)
           /\ Len(copy.block) <= Reader!BlockWanted
    /\ copy.state # "idle" =>
           answer = Reader!NoAnswer /\ position = copy.start + copy.read
    /\ copy.state = "idle" /\ answer.op = "CopyTo" => CopyIsFaithful

CallStates == {"idle", "before", "read", "after", "back"}

CallRecords ==
    [state : CallStates, size : 0 .. MaxCount, positionBefore : 0 .. Far,
     bytesRead : 0 .. MaxCount, isFirstTry : BOOLEAN]

BridgeTypes ==
    /\ position \in 0 .. Far
    /\ call \in CallRecords
    /\ data \in Seq(Int)
    /\ returned \in [code : {"none", "S_OK"} \cup Bridge!Failures,
                     processedSize : 0 .. MaxCount]
    /\ believed \in 0 .. Far \cup {Bridge!NotKnown}
    /\ jumps \in 0 .. 2

\* Where 7-Zip knows the stream to be is where the Read under way began.
Known ==
    believed # Bridge!NotKnown =>
        /\ call.state \in {"idle", "before"} => position = believed
        /\ call.state \notin {"idle", "before"} =>
               call.positionBefore = believed

\* The host's stream is where the Read began, or has been read from there.
Placed ==
    /\ call.state = "read" => position = call.positionBefore
    /\ call.state = "after" /\ Bridge!IsWhereItShouldBe =>
           data = Bridge!Bytes(call.positionBefore, call.bytesRead)

\* A Read meets two jumps at most.
Jumped ==
    /\ call.isFirstTry /\ call.state \in {"before", "read"} => jumps = 0
    /\ call.isFirstTry /\ call.state = "after" =>
           jumps = IF Bridge!IsWhereItShouldBe THEN 0 ELSE 1
    /\ call.state = "before" => call.isFirstTry
    /\ call.state = "back" => ~call.isFirstTry
    /\ ~call.isFirstTry /\ call.state \in {"read", "back"} => jumps = 1
    /\ ~call.isFirstTry /\ call.state = "after" =>
           jumps = IF Bridge!IsWhereItShouldBe THEN 1 ELSE 2

BridgeInv ==
    /\ BridgeTypes
    /\ call.bytesRead <= call.size /\ Len(data) <= MaxCount
    /\ Known /\ Placed /\ Jumped
    /\ Bridge!JumpsAreHidden
    /\ Bridge!OneJumpIsForgiven

\* Who reads, and which stream therefore does nothing.
UserInv ==
    /\ user \in Users
    /\ user = "sub-filter" =>
           bridgeVars = << Bridge!Idle, << >>,
                           [code |-> "none", processedSize |-> 0], 0, 0 >>
    /\ user # "sub-filter" => BridgeInv
    /\ user = "nested" =>
           /\ call.isFirstTry /\ returned.code # "STG_E_READFAULT"
           /\ call.state = "after" => Bridge!IsWhereItShouldBe
           /\ copy.state = "idle"
           /\ reading # Reader!NotReading =>
                  call.state = "read" /\ reading = call.size
    /\ user = "foreign" =>
           /\ reading = Reader!NotReading /\ copy = Reader!NoCopy
           /\ answer = Reader!NoAnswer

IInv == ReadInv /\ UserInv

-----------------------------------------------------------------------------
(* ReadStream keeps its part.                                              *)

\* Seek reaches every position there is and no other.
LEMMA SeekReaches ==
  ASSUME position \in 0 .. Far, NEW offset \in Reader!Moves,
         NEW origin \in Reader!Origins, Reader!Seek(offset, origin)
  PROVE  /\ Reader!Idle /\ UNCHANGED << available, endOfFile, reading, copy >>
         /\ \/ /\ Reader!Start(origin) + offset \in 0 .. Far
               /\ position' = Reader!Start(origin) + offset
               /\ answer' = Reader!Answer("Seek", "S_OK", << >>)
            \/ /\ Reader!Start(origin) + offset \notin 0 .. Far
               /\ position' = position
               /\ answer' = Reader!Answer("Seek", "STG_E_SEEKERROR", << >>)
<1>1. Reader!Start(origin) \in 0 .. Far
  BY Numbers DEF Reader!Start, Reader!Origins
<1>2. offset \in Int /\ -Half <= offset /\ offset < Half
  BY Numbers DEF Reader!Moves
<1>3. Half <= Far /\ Far = 2 * Half - 1
  BY Numbers DEF Far
<1> DEFINE start == Reader!Start(origin)
<1>4. CASE offset < 0
  <2>1. PICK n \in 0 .. Far : n = -offset
    BY <1>2, <1>3, <1>4, Numbers
  <2>2. Reader!Unsigned(-offset) = n
    BY <2>1, UnsignedIs
  <2>3. /\ Reader!Idle /\ UNCHANGED << available, endOfFile, reading, copy >>
        /\ IF n <= start
             THEN /\ position' = start - n
                  /\ answer' = Reader!Answer("Seek", "S_OK", << >>)
             ELSE /\ answer' = Reader!Answer("Seek", "STG_E_SEEKERROR", << >>)
                  /\ UNCHANGED position
    BY <1>4, <2>2 DEF Reader!Seek
  <2> HIDE DEF start
  <2>4. n <= start <=> start + offset \in 0 .. Far
    BY <1>1, <1>2, <1>4, <2>1, Numbers DEF start
  <2>5. start - n = start + offset
    BY <1>1, <1>2, <2>1, Numbers DEF start
  <2> QED
    BY <2>3, <2>4, <2>5 DEF start
<1>5. CASE offset >= 0
  <2>1. PICK n \in 0 .. Far : n = offset
    BY <1>2, <1>3, <1>5, Numbers
  <2>2. Reader!Unsigned(offset) = offset
    BY <2>1, UnsignedIs
  <2>3. /\ Reader!Idle /\ UNCHANGED << available, endOfFile, reading, copy >>
        /\ IF offset <= Far - start
             THEN /\ position' = start + offset
                  /\ answer' = Reader!Answer("Seek", "S_OK", << >>)
             ELSE /\ answer' = Reader!Answer("Seek", "STG_E_SEEKERROR", << >>)
                  /\ UNCHANGED position
    BY <1>2, <1>5, <2>2, Numbers DEF Reader!Seek
  <2>4. offset <= Far - start <=> start + offset \in 0 .. Far
    BY <1>1, <1>2, <1>5, Numbers
  <2> QED
    BY <2>3, <2>4
<1> QED
  BY <1>2, <1>4, <1>5

\* What ReadStream and the extractor do.
ReaderActs ==
    \/ Reader!AppendBytes \/ Reader!SetEndOfFile
    \/ \E count \in 0 .. Far : Reader!ReadBegins(count) \/ Reader!CopyBegins(count)
    \/ Reader!ReadEnds \/ Reader!ReadThrows
    \/ \E offset \in Reader!Moves, origin \in Reader!Origins :
          Reader!Seek(offset, origin)
    \/ Reader!CopyReads \/ Reader!CopyReadFails
    \/ \E n \in 0 .. BlockSize : Reader!CopyWrites(n) \/ Reader!CopyFails(n)

\* An answer has its type.
LEMMA AnswerIs ==
  ASSUME NEW op \in {"none", "Read", "Seek", "CopyTo"}, NEW code \in Reader!Codes,
         NEW bytes \in Seq(Nat)
  PROVE  /\ Reader!Answer(op, code, bytes)
              \in [op : {"none", "Read", "Seek", "CopyTo"},
                   code : Reader!Codes, bytes : Seq(Nat)]
         /\ Reader!Answer(op, code, bytes).op = op
         /\ Reader!Answer(op, code, bytes).code = code
         /\ Reader!Answer(op, code, bytes).bytes = bytes
         /\ Reader!NoAnswer
              \in [op : {"none", "Read", "Seek", "CopyTo"},
                   code : Reader!Codes, bytes : Seq(Nat)]
         /\ Reader!NoAnswer.op = "none" /\ Reader!NoAnswer.code = "none"
BY DEF Reader!Answer, Reader!NoAnswer, Reader!Codes

\* A call that starts or ends without a CopyTo under way.
LEMMA PlainCallKeeps ==
  ASSUME ReadInv, copy.state = "idle", copy' = copy,
         position' \in 0 .. Far, UNCHANGED << available, endOfFile >>,
         answer' \in [op : {"none", "Read", "Seek"}, code : Reader!Codes,
                     bytes : Seq(Nat)],
         \/ reading' = Reader!NotReading
         \/ /\ reading' \in 0 .. Far /\ position' + reading' <= Far
            /\ answer' = Reader!NoAnswer
  PROVE  ReadInv'
<1>1. ReadTypes'
  BY DEF ReadInv, ReadTypes
<1> QED
  BY <1>1 DEF ReadInv, Reader!NotReading

\* Read and Seek.
LEMMA CallKeeps ==
  ASSUME ReadInv,
         \/ \E count \in 0 .. Far : Reader!ReadBegins(count)
         \/ Reader!ReadEnds \/ Reader!ReadThrows
         \/ \E offset \in Reader!Moves, origin \in Reader!Origins :
                Reader!Seek(offset, origin)
  PROVE  ReadInv'
<1>a. position \in 0 .. Far /\ available \in 0 .. Size /\ << >> \in Seq(Nat)
  BY DEF ReadInv, ReadTypes
<1>1. ASSUME NEW count \in 0 .. Far, Reader!ReadBegins(count) PROVE ReadInv'
  <2>1. CASE Reader!Overflows(count)
    <3>1. /\ copy.state = "idle" /\ reading' = Reader!NotReading
          /\ answer' = Reader!Answer("Read", "E_UNEXPECTED", << >>)
          /\ UNCHANGED << position, available, endOfFile, copy >>
      BY <1>1, <2>1 DEF Reader!ReadBegins, Reader!Idle
    <3> QED
      BY <1>a, <3>1, PlainCallKeeps DEF Reader!Codes, Reader!Answer
  <2>2. CASE ~Reader!Overflows(count)
    <3>1. position + count <= Far
      BY <1>a, <2>2, Numbers DEF Reader!Overflows
    <3> QED
      <4>1. /\ copy.state = "idle" /\ reading' = count
            /\ answer' = Reader!NoAnswer
            /\ UNCHANGED << position, available, endOfFile, copy >>
        BY <1>1, <2>2 DEF Reader!ReadBegins, Reader!Idle
      <4> QED
        BY <1>a, <3>1, <4>1, PlainCallKeeps
           DEF Reader!Codes, Reader!Answer, Reader!NoAnswer
  <2> QED
    BY <2>1, <2>2
<1>2. CASE Reader!ReadEnds
  <2>1. /\ reading \in 0 .. Far /\ reading \in Nat /\ position \in Nat
        /\ position + reading <= Far /\ copy.state = "idle"
        /\ Reader!Served(reading)
    BY <1>2, Numbers DEF ReadInv, ReadTypes, Reader!ReadEnds
  <2>2. PICK n \in 0 .. reading : Reader!Got(reading) = Reader!Slice(position, n)
    BY <1>a, <2>1, GotIs
  <2>3. Reader!Got(reading) \in Seq(Nat) /\ Len(Reader!Got(reading)) = n
    BY <1>a, <2>2, SliceIs
  <2>4. Reader!Code(reading, Reader!Got(reading)) \in Reader!Codes
    BY DEF Reader!Code, Reader!Codes
  <2>5. answer' \in [op : {"none", "Read", "Seek"}, code : Reader!Codes,
                    bytes : Seq(Nat)]
    BY <1>2, <2>3, <2>4 DEF Reader!ReadEnds, Reader!Answer
  <2>6. position' \in 0 .. Far
    BY <1>2, <1>a, <2>1, <2>3, Numbers DEF Reader!ReadEnds
  <2> QED
    BY <1>2, <2>1, <2>5, <2>6, PlainCallKeeps DEF Reader!ReadEnds
<1>3. CASE Reader!ReadThrows
  <2>1. copy.state = "idle"
    BY <1>3 DEF ReadInv, Reader!ReadThrows
  <2> QED
    BY <1>3, <1>a, <2>1, PlainCallKeeps
       DEF Reader!ReadThrows, Reader!Answer, Reader!Codes
<1>4. ASSUME NEW offset \in Reader!Moves, NEW origin \in Reader!Origins,
             Reader!Seek(offset, origin)
      PROVE  ReadInv'
  <2>1. /\ Reader!Idle /\ UNCHANGED << available, endOfFile, reading, copy >>
        /\ position' \in 0 .. Far
        /\ answer' \in {Reader!Answer("Seek", "S_OK", << >>),
                        Reader!Answer("Seek", "STG_E_SEEKERROR", << >>)}
    BY <1>a, <1>4, SeekReaches
  <2> QED
    <3>1. /\ copy.state = "idle" /\ reading' = Reader!NotReading /\ copy' = copy
          /\ UNCHANGED << available, endOfFile >>
      BY <2>1 DEF Reader!Idle
    <3>2. answer' \in [op : {"none", "Read", "Seek"}, code : Reader!Codes,
                      bytes : Seq(Nat)]
      <4>1. \E code \in Reader!Codes : answer' = Reader!Answer("Seek", code, << >>)
        BY <2>1 DEF Reader!Codes
      <4> QED
        BY <1>a, <4>1 DEF Reader!Answer
    <3> QED
      BY <2>1, <3>1, <3>2, PlainCallKeeps
<1> QED
  BY <1>1, <1>2, <1>3, <1>4

\* The extractor goes on while the sub-filter reads or copies.
LEMMA ExtractorKeeps ==
  ASSUME ReadInv, Reader!AppendBytes \/ Reader!SetEndOfFile
  PROVE  ReadInv'
<1>1. UNCHANGED << position, reading, copy, answer >>
  BY DEF Reader!AppendBytes, Reader!SetEndOfFile
<1>2. available' \in 0 .. Size /\ endOfFile' \in BOOLEAN
  <2>1. available \in 0 .. Size /\ endOfFile \in BOOLEAN
    BY DEF ReadInv, ReadTypes
  <2>2. CASE Reader!AppendBytes
    BY <2>1, <2>2, Numbers DEF Reader!AppendBytes
  <2>3. CASE Reader!SetEndOfFile
    BY <2>1, <2>3 DEF Reader!SetEndOfFile
  <2> QED
    BY <2>2, <2>3
<1>3. ReadTypes' /\ (CopyIsFaithful' <=> CopyIsFaithful)
  BY <1>1, <1>2 DEF ReadInv, ReadTypes, CopyIsFaithful, Reader!CopyIsFaithful
<1>4. Reader!BlockWanted' = Reader!BlockWanted
  BY <1>1 DEF Reader!BlockWanted
<1> QED
  BY <1>1, <1>3, <1>4 DEF ReadInv

\* CopyTo returns.
LEMMA CopyReturnsKeeps ==
  ASSUME ReadInv, reading = Reader!NotReading,
         NEW code \in Reader!Codes, NEW read \in Nat, NEW written \in Nat,
         NEW sink \in Seq(Nat), Reader!CopyReturns(code, read, written, sink),
         UNCHANGED << position, available, endOfFile, reading >>,
         sink = Reader!Slice(copy.start, Len(sink)),
         written <= Len(sink), Len(sink) <= read, position = copy.start + read,
         code = "S_OK" => written = copy.count /\ read = copy.count
  PROVE  ReadInv'
<1>1. /\ copy' = [copy EXCEPT !.state = "idle", !.block = << >>, !.read = read,
                             !.written = written, !.sink = sink]
      /\ answer' = [op |-> "CopyTo", code |-> code, bytes |-> sink]
  BY DEF Reader!CopyReturns, Reader!Answer
<1>a. copy \in CopyRecords
  BY DEF ReadInv, ReadTypes
<1>b. copy' = [state |-> "idle", start |-> copy.start, count |-> copy.count,
               remaining |-> copy.remaining, block |-> << >>, read |-> read,
               written |-> written, sink |-> sink]
  BY <1>1, <1>a DEF CopyRecords
<1>2. /\ copy'.state = "idle" /\ copy'.start = copy.start
      /\ copy'.count = copy.count /\ copy'.remaining = copy.remaining
      /\ copy'.read = read /\ copy'.written = written /\ copy'.sink = sink
      /\ copy' \in CopyRecords
  BY <1>a, <1>b DEF CopyRecords, CopyStates
<1>3. ReadTypes'
  BY <1>1, <1>2 DEF ReadInv, ReadTypes
<1>4. CopyIsFaithful'
  BY <1>1, <1>2 DEF CopyIsFaithful, Reader!CopyIsFaithful
<1> QED
  BY <1>2, <1>3, <1>4 DEF ReadInv

\* CopyTo is called, or reads its next block.
LEMMA CopyReadKeeps ==
  ASSUME ReadInv, \/ \E count \in 0 .. Far : Reader!CopyBegins(count)
                  \/ Reader!CopyReads \/ Reader!CopyReadFails
  PROVE  ReadInv'
<1>a. /\ position \in 0 .. Far /\ available \in 0 .. Size /\ Far \in Nat
      /\ << >> \in Seq(Nat) /\ Len(<< >>) = 0
  BY Numbers DEF ReadInv, ReadTypes
<1>1. ASSUME NEW count \in 0 .. Far, Reader!CopyBegins(count)
      PROVE  ReadInv'
  <2>1. /\ copy' = [state |-> IF count = 0 THEN "idle" ELSE "read",
                    start |-> position, count |-> count, remaining |-> count,
                    block |-> << >>, read |-> 0, written |-> 0, sink |-> << >>]
        /\ answer' = IF count = 0 THEN Reader!Answer("CopyTo", "S_OK", << >>)
                     ELSE Reader!NoAnswer
        /\ reading = Reader!NotReading
        /\ UNCHANGED << position, available, endOfFile, reading >>
    BY <1>1 DEF Reader!CopyBegins, Reader!NoCopy, Reader!Idle
  <2>2. ReadTypes'
    BY <1>a, <2>1
       DEF ReadInv, ReadTypes, CopyRecords, CopyStates, Reader!Answer,
                      Reader!NoAnswer, Reader!Codes
  <2>3. Reader!Slice(position, 0) = << >>
    BY <1>a DEF Reader!Slice
  <2>4. answer'.op = "CopyTo" => count = 0
    BY <2>1 DEF Reader!NoAnswer, Reader!Answer
  <2>5. copy'.state = "idle" /\ answer'.op = "CopyTo" => CopyIsFaithful'
    BY <1>a, <2>1, <2>3, <2>4 DEF CopyIsFaithful, Reader!CopyIsFaithful
  <2> QED
    BY <1>a, <2>1, <2>2, <2>3, <2>5 DEF ReadInv
<1>2. CASE Reader!CopyReads
  <2> DEFINE want == Reader!BlockWanted
             bytes == Reader!Got(want)
  <2>1. /\ copy.state = "read" /\ ~Reader!Overflows(want)
        /\ Reader!Served(want)
        /\ position' = position + Len(bytes)
        /\ copy' = [copy EXCEPT !.state = "write", !.block = bytes,
                                !.read = @ + Len(bytes)]
        /\ UNCHANGED << available, endOfFile, reading, answer >>
    BY <1>2 DEF Reader!CopyReads
  <2>2. want \in Nat
    BY Numbers
       DEF Reader!BlockWanted, Reader!Min2, ReadInv, ReadTypes, CopyRecords
  <2>3. position + want <= Far
    BY <1>a, <2>1, <2>2, Numbers DEF Reader!Overflows
  <2>4. PICK n \in 0 .. want : bytes = Reader!Slice(position, n)
    BY <1>a, <2>1, <2>2, <2>3, GotIs
  <2>5. bytes \in Seq(Nat) /\ Len(bytes) = n
    BY <1>a, <2>2, <2>4, SliceIs
  <2> HIDE DEF bytes
  <2>a. copy \in CopyRecords
    BY DEF ReadInv, ReadTypes
  <2>b. copy' = [state |-> "write", start |-> copy.start, count |-> copy.count,
                 remaining |-> copy.remaining, block |-> bytes,
                 read |-> copy.read + n, written |-> copy.written,
                 sink |-> copy.sink]
    BY <2>1, <2>5, <2>a DEF CopyRecords
  <2>6. /\ copy'.state = "write" /\ copy'.block = bytes
        /\ copy'.read = copy.read + n /\ copy'.start = copy.start
        /\ copy'.count = copy.count /\ copy'.remaining = copy.remaining
        /\ copy'.written = copy.written /\ copy'.sink = copy.sink
        /\ copy' \in CopyRecords
    BY <2>a, <2>b, <2>5 DEF CopyRecords, CopyStates
  <2>7. ReadTypes'
    BY <1>a, <2>1, <2>2, <2>3, <2>5, <2>6 DEF ReadInv, ReadTypes
  <2>8. Reader!BlockWanted' = want
    BY <2>6 DEF Reader!BlockWanted
  <2>9. position = copy.start + Len(copy.sink) /\ reading = Reader!NotReading
    BY <2>1 DEF ReadInv
  <2>10. /\ copy.written = Len(copy.sink) /\ copy.read = Len(copy.sink)
         /\ copy.remaining = copy.count - copy.read
         /\ copy.remaining <= copy.count
         /\ copy.sink = Reader!Slice(copy.start, Len(copy.sink))
         /\ copy.start \in Nat /\ Len(copy.sink) \in Nat
         /\ answer = Reader!NoAnswer
    BY <2>1, <2>a, Numbers DEF ReadInv, CopyRecords
  <2>c. PICK start \in Nat, m \in Nat : start = copy.start /\ m = Len(copy.sink)
    BY <2>10
  <2>d. /\ copy'.sink = copy.sink /\ Len(copy'.sink) = m /\ copy'.start = start
        /\ Len(copy'.block) = n /\ copy'.read = m + n
        /\ position = start + m /\ position' = start + (m + n)
    BY <2>1, <2>5, <2>6, <2>9, <2>10, <2>c
  <2> HIDE DEF want
  <2>11. /\ copy'.read = Len(copy'.sink) + Len(copy'.block)
         /\ copy'.block = Reader!Slice(copy'.start + Len(copy'.sink),
                                       Len(copy'.block))
         /\ Len(copy'.block) <= Reader!BlockWanted'
         /\ position' = copy'.start + copy'.read
    BY <2>2, <2>4, <2>6, <2>8, <2>c, <2>d
  <2> QED
    BY <2>1, <2>6, <2>7, <2>9, <2>10, <2>11 DEF ReadInv
<1>3. CASE Reader!CopyReadFails
  <2>1. PICK code \in {"E_UNEXPECTED", "E_MAP"} :
          Reader!CopyReturns(code, copy.read, copy.written, copy.sink)
    BY <1>3 DEF Reader!CopyReadFails
  <2>2. /\ copy.state = "read"
        /\ UNCHANGED << position, available, endOfFile, reading >>
    BY <1>3 DEF Reader!CopyReadFails
  <2>3. /\ reading = Reader!NotReading
        /\ copy.read \in Nat /\ copy.written \in Nat /\ copy.sink \in Seq(Nat)
        /\ copy.sink = Reader!Slice(copy.start, Len(copy.sink))
        /\ copy.written <= Len(copy.sink) /\ Len(copy.sink) <= copy.read
        /\ position = copy.start + copy.read
        /\ code \in Reader!Codes /\ code # "S_OK"
    BY <2>2 DEF ReadInv, ReadTypes, CopyRecords, Reader!Codes
  <2> QED
    BY <2>1, <2>2, <2>3, CopyReturnsKeeps
<1> QED
  BY <1>1, <1>2, <1>3

\* CopyTo writes a block, or fails to.
LEMMA CopyWriteKeeps ==
  ASSUME ReadInv, NEW n \in Nat,
         Reader!CopyWrites(n) \/ Reader!CopyFails(n)
  PROVE  ReadInv'
<1>a. /\ copy \in CopyRecords /\ position \in 0 .. Far /\ Far \in Nat
      /\ copy.state = "write" /\ n <= Len(copy.block) /\ n \in Nat
      /\ UNCHANGED << position, available, endOfFile, reading >>
  BY Numbers DEF ReadInv, ReadTypes, Reader!CopyWrites, Reader!CopyFails
<1>0. PICK start \in Nat, m \in Nat, b \in Nat, count \in 0 .. Far, left \in Nat :
        /\ start = copy.start /\ m = Len(copy.sink) /\ b = Len(copy.block)
        /\ count = copy.count /\ left = copy.remaining
  BY <1>a DEF CopyRecords
<1>b. /\ copy.written = m /\ copy.read = m + b
      /\ copy.sink = Reader!Slice(start, m)
      /\ copy.block = Reader!Slice(start + m, b)
      /\ left = count - m
      /\ reading = Reader!NotReading
      /\ answer = Reader!NoAnswer /\ position = start + (m + b)
  BY <1>a, <1>0 DEF ReadInv
<1>c. b <= left
  <2>1. Reader!BlockWanted <= left /\ Reader!BlockWanted \in Nat
    BY <1>0, Numbers DEF Reader!BlockWanted, Reader!Min2
  <2>2. b <= Reader!BlockWanted
    BY <1>a, <1>0 DEF ReadInv
  <2> QED
    BY <2>1, <2>2
<1>d. PICK sink \in Seq(Nat) :
        /\ sink = copy.sink \o SubSeq(copy.block, 1, n)
        /\ sink = Reader!Slice(start, m + n) /\ Len(sink) = m + n
  <2>1. n \in 0 .. b
    BY <1>a, <1>0
  <2>2. Reader!Slice(start, m) \o SubSeq(Reader!Slice(start + m, b), 1, n)
          = Reader!Slice(start, m + n)
    <3>1. start \in Nat /\ m \in Nat /\ b \in Nat
      OBVIOUS
    <3> QED
      BY <2>1, <3>1, SliceGrows, ZenonT(30)
  <2>3. m + n \in Nat
    BY <1>a
  <2>4. PICK all \in Seq(Nat) :
          all = Reader!Slice(start, m + n) /\ Len(all) = m + n
    BY <2>3, SliceIs
  <2> QED
    BY <1>b, <2>2, <2>4
<1>e. /\ n \in Nat /\ n <= b /\ m + n \in Nat /\ m + b \in Nat
      /\ m <= m + n /\ m + n <= m + b
  <2>1. n \in Nat /\ n <= b
    BY <1>a, <1>0
  <2> QED
    BY <2>1
<1>f. /\ m \in Nat /\ m + n \in Nat /\ m + b \in Nat
      /\ UNCHANGED << position, available, endOfFile, reading >>
      /\ reading = Reader!NotReading
      /\ sink = Reader!Slice(copy.start, Len(sink))
      /\ m <= Len(sink) /\ m + n <= Len(sink) /\ Len(sink) <= m + b
      /\ position = copy.start + (m + b)
  <2>0. Len(sink) = m + n
    BY <1>d
  <2>1. m <= Len(sink) /\ m + n <= Len(sink) /\ Len(sink) <= m + b
    BY <1>e, <2>0
  <2>2. sink = Reader!Slice(copy.start, Len(sink))
    BY <1>0, <1>d
  <2> QED
    BY <1>a, <1>0, <1>b, <1>e, <2>1, <2>2
<1>1. CASE Reader!CopyFails(n)
  <2>1. Reader!CopyReturns("E_WRITE", m + b, m, sink) /\ "E_WRITE" \in Reader!Codes
    BY <1>1, <1>b, <1>d DEF Reader!CopyFails, Reader!Codes
  <2> QED
    BY <1>f, <2>1, CopyReturnsKeeps
<1>2. CASE Reader!CopyWrites(n) /\ Reader!CopyStops(n)
  <2>1. Reader!CopyReturns("S_FALSE", m + b, m + n, sink) /\ "S_FALSE" \in Reader!Codes
    BY <1>2, <1>b, <1>d DEF Reader!CopyWrites, Reader!Codes
  <2> QED
    BY <1>f, <2>1, CopyReturnsKeeps
<1>3. CASE /\ Reader!CopyWrites(n)
           /\ ~Reader!CopyStops(n) /\ Reader!CopyLeft = 0
  <2>1. Reader!CopyReturns("S_OK", m + b, m + n, sink)
    BY <1>3, <1>b, <1>d DEF Reader!CopyWrites
  <2>2. n = b /\ left = b
    BY <1>3, <1>a, <1>0 DEF Reader!CopyStops, Reader!CopyLeft
  <2>3. m + n = count /\ m + b = count
    BY <1>b, <2>2
  <2> QED
    <3>1. /\ "S_OK" \in Reader!Codes
          /\ m + n = copy.count /\ m + b = copy.count
      BY <1>0, <2>3 DEF Reader!Codes
    <3> QED
      BY <1>f, <2>1, <3>1, CopyReturnsKeeps
<1>4. CASE /\ Reader!CopyWrites(n)
           /\ ~Reader!CopyStops(n) /\ Reader!CopyLeft # 0
  <2>1. n = b /\ Reader!CopyLeft = left - b
    BY <1>4, <1>a, <1>0 DEF Reader!CopyStops, Reader!CopyLeft
  <2>2. PICK rest \in 0 .. Far :
          /\ rest = Reader!CopyLeft
          /\ rest = count - (m + n) /\ rest > 0 /\ rest <= count
    <3>1. left = count - m /\ b <= left /\ count \in Nat /\ count <= Far
      BY <1>a, <1>0, <1>b, <1>c
    <3>2. left - b # 0 /\ n = b
      BY <1>4, <2>1
    <3>3. /\ left - b \in 0 .. Far /\ left - b = count - (m + n)
          /\ left - b > 0 /\ left - b <= count
      BY <1>a, <3>1, <3>2
    <3> QED
      BY <2>1, <3>3
  <2>3. /\ copy' = [copy EXCEPT !.state = "read", !.block = << >>,
                                !.remaining = rest,
                                !.written = m + n, !.sink = sink]
        /\ UNCHANGED answer
    BY <1>4, <1>b, <1>d, <2>2 DEF Reader!CopyWrites
  <2>4. copy' = [state |-> "read", start |-> start, count |-> count,
                 remaining |-> rest, block |-> << >>, read |-> m + n,
                 written |-> m + n, sink |-> sink]
    BY <1>a, <1>0, <1>b, <2>1, <2>3 DEF CopyRecords
  <2>5. copy' \in CopyRecords
    BY <1>a, <1>0, <1>e, <2>2, <2>4 DEF CopyRecords, CopyStates
  <2>6. ReadTypes'
    BY <1>a, <2>3, <2>5 DEF ReadInv, ReadTypes
  <2>7. position' = start + (m + n)
    BY <1>a, <1>b, <2>1
  <2>8. /\ copy'.sink = Reader!Slice(copy'.start, Len(copy'.sink))
        /\ copy'.remaining <= copy'.count /\ copy'.state = "read"
        /\ copy'.written = Len(copy'.sink) /\ copy'.read = Len(copy'.sink)
        /\ copy'.remaining = copy'.count - copy'.read /\ copy'.remaining > 0
        /\ position' = copy'.start + copy'.read
    BY <1>d, <2>2, <2>4, <2>7
  <2> QED
    BY <1>a, <1>b, <2>3, <2>6, <2>8 DEF ReadInv
<1> QED
  BY <1>1, <1>2, <1>3, <1>4

\* Whatever ReadStream and the extractor do.
LEMMA ReaderKeeps ==
  ASSUME ReadInv, ReaderActs
  PROVE  ReadInv'
<1>1. 0 .. BlockSize \subseteq Nat
  BY Numbers
<1> QED
  BY <1>1, ExtractorKeeps, CallKeeps, CopyReadKeeps, CopyWriteKeeps
     DEF ReaderActs

\* A step that leaves ReadStream alone.
LEMMA ReaderRests ==
  ASSUME ReadInv, UNCHANGED readerVars,
         \/ position' = position
         \/ /\ position' \in 0 .. Far /\ reading = Reader!NotReading
            /\ copy = Reader!NoCopy /\ answer = Reader!NoAnswer
  PROVE  ReadInv'
<1>1. ReadTypes'
  BY DEF ReadInv, ReadTypes, readerVars
<1>2. Reader!BlockWanted' = Reader!BlockWanted
  BY DEF Reader!BlockWanted, readerVars
<1>3. CASE position' = position
  BY <1>1, <1>2, <1>3
     DEF ReadInv, readerVars, CopyIsFaithful, Reader!CopyIsFaithful
<1>4. CASE /\ reading = Reader!NotReading
           /\ copy = Reader!NoCopy /\ answer = Reader!NoAnswer
  <2>1. /\ copy'.state = "idle" /\ answer'.op # "CopyTo"
        /\ reading' = Reader!NotReading
    BY <1>4 DEF readerVars, Reader!NoCopy, Reader!NoAnswer, Reader!Answer
  <2> QED
    BY <1>1, <2>1 DEF ReadInv, readerVars
<1> QED
  BY <1>3, <1>4

-----------------------------------------------------------------------------
(* BridgeStream keeps its part.                                            *)

\* The bytes of a foreign stream are consecutive, too.
LEMMA BytesIs ==
  ASSUME NEW offset \in Nat, NEW n \in Nat
  PROVE  /\ Bridge!Bytes(offset, n) = Reader!Slice(offset, n)
         /\ Bridge!Bytes(offset, n) \in Seq(Int)
         /\ Len(Bridge!Bytes(offset, n)) = n
BY DEF Bridge!Bytes, Reader!Slice

\* Bytes that are not the archive's.
LEMMA JunkIs ==
  ASSUME NEW n \in Nat
  PROVE  /\ [k \in 1 .. n |-> Bridge!Junk] \in Seq(Int)
         /\ Len([k \in 1 .. n |-> Bridge!Junk]) = n
BY DEF Bridge!Junk

\* A step that leaves BridgeStream and the position alone.
LEMMA BridgeRests ==
  ASSUME BridgeInv, UNCHANGED << position, bridgeVars >>
  PROVE  BridgeInv'
BY DEF BridgeInv, BridgeTypes, Known, Placed, Jumped, bridgeVars,
       Bridge!JumpsAreHidden, Bridge!OneJumpIsForgiven,
       Bridge!IsWhereItShouldBe

\* 7-Zip calls Read, and BridgeStream asks for the position.
LEMMA BeginsKeeps ==
  ASSUME BridgeInv, \/ \E size \in 0 .. MaxCount : Bridge!ReadBegins(size)
                    \/ Bridge!TellBefore
  PROVE  BridgeInv'
<1>1. ASSUME NEW size \in 0 .. MaxCount, Bridge!ReadBegins(size)
      PROVE  BridgeInv'
  <2>1. /\ call.state = "idle"
        /\ call' = [state |-> "before", size |-> size, positionBefore |-> 0,
                    bytesRead |-> 0, isFirstTry |-> TRUE]
        /\ jumps' = 0
        /\ UNCHANGED << position, data, returned, believed >>
    BY <1>1 DEF Bridge!ReadBegins, Bridge!Idle
  <2>2. BridgeTypes'
    BY <2>1, Numbers DEF BridgeInv, BridgeTypes, CallRecords, CallStates
  <2> QED
    BY <2>1, <2>2
       DEF BridgeInv, Known, Placed, Jumped, Bridge!JumpsAreHidden,
           Bridge!OneJumpIsForgiven
<1>2. CASE Bridge!TellBefore
  <2>1. /\ call.state = "before" /\ call \in CallRecords
        /\ call' = [call EXCEPT !.state = "read", !.positionBefore = position]
        /\ UNCHANGED << position, data, returned, believed, jumps >>
    BY <1>2 DEF Bridge!TellBefore, BridgeInv, BridgeTypes
  <2>2. /\ call'.state = "read" /\ call'.positionBefore = position
        /\ call'.size = call.size /\ call'.bytesRead = call.bytesRead
        /\ call'.isFirstTry = call.isFirstTry
    BY <2>1 DEF CallRecords
  <2>3. BridgeTypes'
    BY <2>1 DEF BridgeInv, BridgeTypes, CallRecords, CallStates
  <2>4. call.isFirstTry
    BY <2>1 DEF BridgeInv, Jumped
  <2> QED
    BY <2>1, <2>2, <2>3, <2>4
       DEF BridgeInv, Known, Placed, Jumped, Bridge!JumpsAreHidden,
           Bridge!OneJumpIsForgiven
<1> QED
  BY <1>1, <1>2

\* The host's stream is read and is behind the bytes it gave.
LEMMA GivesKeeps ==
  ASSUME BridgeInv, NEW n \in Nat, n <= call.size, position + n <= Far,
         Bridge!HostGives(Bridge!Bytes(position, n))
  PROVE  /\ BridgeInv' /\ Bridge!IsWhereItShouldBe'
         /\ call' = [call EXCEPT !.state = "after", !.bytesRead = n]
<1>1. /\ call \in CallRecords /\ position \in Nat /\ MaxCount \in Nat
      /\ call.state = "read" /\ position = call.positionBefore
      /\ n <= MaxCount /\ Far \in Nat
  BY Numbers
     DEF BridgeInv, BridgeTypes, Placed, Bridge!HostGives, CallRecords
<1>2. PICK bytes \in Seq(Int) :
        bytes = Bridge!Bytes(position, n) /\ Len(bytes) = n
  BY <1>1, BytesIs
<1>3. /\ data' = bytes /\ position' = position + n
      /\ call' = [call EXCEPT !.state = "after", !.bytesRead = n]
      /\ UNCHANGED << returned, believed, jumps >>
  BY <1>2 DEF Bridge!HostGives
<1>4. /\ call'.state = "after" /\ call'.bytesRead = n
      /\ call'.positionBefore = position /\ call'.size = call.size
      /\ call'.isFirstTry = call.isFirstTry /\ call' \in CallRecords
  <2>1. n \in 0 .. MaxCount
    BY <1>1
  <2> QED
    BY <1>1, <1>3, <2>1 DEF CallRecords, CallStates
<1>5. BridgeTypes'
  BY <1>1, <1>3, <1>4 DEF BridgeInv, BridgeTypes
<1>6. Bridge!IsWhereItShouldBe'
  BY <1>1, <1>3, <1>4 DEF Bridge!IsWhereItShouldBe
<1>7. Known' /\ Placed'
  BY <1>1, <1>2, <1>3, <1>4, <1>6 DEF BridgeInv, Known, Placed
<1>8. Jumped'
  BY <1>1, <1>3, <1>4, <1>6 DEF BridgeInv, Jumped
<1>9. Bridge!JumpsAreHidden' /\ Bridge!OneJumpIsForgiven'
  BY <1>4 DEF Bridge!JumpsAreHidden, Bridge!OneJumpIsForgiven
<1> QED
  BY <1>1, <1>2, <1>3, <1>4, <1>5, <1>6, <1>7, <1>8, <1>9 DEF BridgeInv

\* The host's stream jumps.
LEMMA JumpsKeep ==
  ASSUME BridgeInv, NEW n \in 0 .. MaxCount, NEW target \in 0 .. Far,
         Bridge!HostJumps(n, target)
  PROVE  BridgeInv'
<1>1. /\ call \in CallRecords /\ position \in Nat /\ MaxCount \in Nat
      /\ call.state = "read" /\ position = call.positionBefore
      /\ n <= call.size /\ target # position + n /\ n \in Nat
      /\ position' = target /\ UNCHANGED << returned, believed >>
      /\ call' = [call EXCEPT !.state = "after", !.bytesRead = n]
  BY Numbers
     DEF BridgeInv, BridgeTypes, Placed, Bridge!HostJumps
<1>2. data' \in Seq(Int) /\ Len(data') = n
  BY <1>1, BytesIs, JunkIs DEF Bridge!HostJumps
<1>3. jumps' = jumps + 1 /\ jumps = IF call.isFirstTry THEN 0 ELSE 1
  <2>1. jumps = IF call.isFirstTry THEN 0 ELSE 1
    BY <1>1 DEF BridgeInv, Jumped, CallRecords
  <2>2. jumps' = Bridge!Min2(jumps + 1, 3)
    BY DEF Bridge!HostJumps, Bridge!Many
  <2> QED
    BY <2>1, <2>2 DEF Bridge!Min2
<1>4. /\ call'.state = "after" /\ call'.bytesRead = n
      /\ call'.positionBefore = position /\ call'.size = call.size
      /\ call'.isFirstTry = call.isFirstTry /\ call' \in CallRecords
  BY <1>1 DEF CallRecords, CallStates
<1>5. BridgeTypes'
  BY <1>1, <1>2, <1>3, <1>4 DEF BridgeInv, BridgeTypes, CallRecords
<1>6. ~Bridge!IsWhereItShouldBe'
  BY <1>1, <1>4 DEF Bridge!IsWhereItShouldBe
<1>7. Known' /\ Placed'
  BY <1>1, <1>4, <1>6 DEF BridgeInv, Known, Placed
<1>8. Jumped'
  BY <1>1, <1>3, <1>4, <1>6 DEF BridgeInv, Jumped, CallRecords
<1>9. Bridge!JumpsAreHidden' /\ Bridge!OneJumpIsForgiven'
  BY <1>4 DEF Bridge!JumpsAreHidden, Bridge!OneJumpIsForgiven
<1> QED
  BY <1>1, <1>2, <1>4, <1>5, <1>7, <1>8, <1>9 DEF BridgeInv

\* A call of the host's stream fails.
LEMMA FailsKeep ==
  ASSUME BridgeInv, NEW n \in 0 .. MaxCount, NEW target \in 0 .. Far,
         Bridge!HostFails(n, target)
  PROVE  /\ BridgeInv' /\ call' = Bridge!Idle
         /\ returned'.code = "E_HOST"
<1>1. /\ call' = Bridge!Idle /\ believed' = Bridge!NotKnown
      /\ returned' = [code |-> "E_HOST", processedSize |-> n]
      /\ jumps' = jumps
  BY DEF Bridge!HostFails
<1>2. /\ call'.state = "idle" /\ call'.bytesRead = 0 /\ call'.size = 0
      /\ call' \in CallRecords
  BY <1>1, Numbers DEF Bridge!Idle, CallRecords, CallStates
<1>3. /\ data' \in Seq(Int) /\ Len(data') <= MaxCount
      /\ position' \in 0 .. Far
  <2>1. CASE call.state = "read"
    <3>1. data' = [k \in 1 .. n |-> Bridge!Junk] /\ position' = target
      BY <2>1 DEF Bridge!HostFails
    <3> QED
      BY <3>1, JunkIs, Numbers
  <2>2. CASE call.state # "read"
    BY <2>2 DEF Bridge!HostFails, BridgeInv, BridgeTypes
  <2> QED
    BY <2>1, <2>2
<1>4. BridgeTypes'
  BY <1>1, <1>2, <1>3
     DEF BridgeInv, BridgeTypes, Bridge!NotKnown, Bridge!Failures
<1>5. Known' /\ Placed' /\ Jumped'
  BY <1>1, <1>2 DEF Known, Placed, Jumped
<1>6. Bridge!JumpsAreHidden' /\ Bridge!OneJumpIsForgiven'
  BY <1>1 DEF Bridge!JumpsAreHidden, Bridge!OneJumpIsForgiven
<1> QED
  BY <1>1, <1>2, <1>3, <1>4, <1>5, <1>6 DEF BridgeInv

\* The stream is where it should be, the Read succeeds.
LEMMA TellAfterKeeps ==
  ASSUME BridgeInv, Bridge!TellAfter
  PROVE  /\ BridgeInv' /\ call' = Bridge!Idle
         /\ returned'.code = "S_OK"
<1>1. /\ call \in CallRecords /\ call.state = "after"
      /\ call.positionBefore + call.bytesRead = position
      /\ returned' = [code |-> "S_OK", processedSize |-> call.bytesRead]
      /\ believed' = IF believed = Bridge!NotKnown THEN Bridge!NotKnown
                     ELSE believed + call.bytesRead
      /\ call' = Bridge!Idle
      /\ UNCHANGED << position, data, jumps >>
  BY DEF BridgeInv, BridgeTypes, Bridge!TellAfter, Bridge!IsWhereItShouldBe
<1>2. PICK before \in Nat, n \in 0 .. MaxCount :
        before = call.positionBefore /\ n = call.bytesRead
  BY <1>1, Numbers DEF CallRecords
<1>3. /\ call'.state = "idle" /\ call'.bytesRead = 0 /\ call'.size = 0
      /\ call' \in CallRecords
  BY <1>1, Numbers DEF Bridge!Idle, CallRecords, CallStates
<1>4. believed' # Bridge!NotKnown => believed' = position
  BY <1>1, <1>2 DEF BridgeInv, Known
<1>5. data = Bridge!Bytes(before, n) /\ Len(data) = n /\ position - n = before
  <2>1. data = Bridge!Bytes(before, n)
    BY <1>1, <1>2 DEF BridgeInv, Placed, Bridge!IsWhereItShouldBe
  <2> QED
    BY <1>1, <1>2, <2>1, BytesIs, Numbers
<1>6. BridgeTypes'
  BY <1>1, <1>2, <1>3, <1>4 DEF BridgeInv, BridgeTypes
<1>7. Known' /\ Placed' /\ Jumped'
  BY <1>1, <1>3, <1>4 DEF Known, Placed, Jumped
<1>8. Bridge!JumpsAreHidden' /\ Bridge!OneJumpIsForgiven'
  BY <1>1, <1>2, <1>4, <1>5
     DEF Bridge!JumpsAreHidden, Bridge!OneJumpIsForgiven
<1> QED
  BY <1>1, <1>3, <1>6, <1>7, <1>8 DEF BridgeInv

\* BridgeStream notices a jump, and seeks back.
LEMMA RetryKeeps ==
  ASSUME BridgeInv, Bridge!NoticesJump \/ Bridge!SeekBack
  PROVE  BridgeInv'
<1>1. CASE Bridge!NoticesJump /\ call.isFirstTry
  <2>1. /\ call \in CallRecords /\ call.state = "after"
        /\ ~Bridge!IsWhereItShouldBe
        /\ call' = [call EXCEPT !.state = "back", !.isFirstTry = FALSE]
        /\ UNCHANGED << position, data, returned, believed, jumps >>
    BY <1>1 DEF BridgeInv, BridgeTypes, Bridge!NoticesJump
  <2>2. /\ call'.state = "back" /\ call'.isFirstTry = FALSE
        /\ call'.bytesRead = call.bytesRead /\ call'.size = call.size
        /\ call'.positionBefore = call.positionBefore /\ call' \in CallRecords
    BY <2>1 DEF CallRecords, CallStates
  <2>3. BridgeTypes'
    BY <2>1, <2>2 DEF BridgeInv, BridgeTypes
  <2>4. Known' /\ Placed' /\ Jumped'
    BY <1>1, <2>1, <2>2 DEF BridgeInv, Known, Placed, Jumped
  <2> QED
    BY <2>1, <2>2, <2>3, <2>4
       DEF BridgeInv, Bridge!JumpsAreHidden, Bridge!OneJumpIsForgiven
<1>2. CASE Bridge!NoticesJump /\ ~call.isFirstTry
  <2>1. /\ call \in CallRecords /\ call.state = "after"
        /\ ~Bridge!IsWhereItShouldBe
        /\ returned' = [code |-> "STG_E_READFAULT",
                        processedSize |-> call.bytesRead]
        /\ believed' = Bridge!NotKnown /\ call' = Bridge!Idle
        /\ UNCHANGED << position, data, jumps >>
    BY <1>2 DEF BridgeInv, BridgeTypes, Bridge!NoticesJump
  <2>2. /\ call'.state = "idle" /\ call'.bytesRead = 0 /\ call'.size = 0
        /\ call' \in CallRecords
    BY <2>1, Numbers DEF Bridge!Idle, CallRecords, CallStates
  <2>3. BridgeTypes'
    BY <2>1, <2>2
       DEF BridgeInv, BridgeTypes, CallRecords, Bridge!Failures
  <2>4. jumps = 2
    BY <1>2, <2>1 DEF BridgeInv, Jumped
  <2>5. Known' /\ Placed' /\ Jumped'
    BY <2>1, <2>2 DEF Known, Placed, Jumped
  <2> QED
    BY <2>1, <2>2, <2>3, <2>4, <2>5
       DEF BridgeInv, Bridge!JumpsAreHidden, Bridge!OneJumpIsForgiven
<1>3. CASE Bridge!SeekBack
  <2>1. /\ call \in CallRecords /\ call.state = "back"
        /\ position' = call.positionBefore
        /\ call' = [call EXCEPT !.state = "read"]
        /\ UNCHANGED << data, returned, believed, jumps >>
    BY <1>3 DEF BridgeInv, BridgeTypes, Bridge!SeekBack
  <2>2. /\ call'.state = "read" /\ call'.isFirstTry = call.isFirstTry
        /\ call'.bytesRead = call.bytesRead /\ call'.size = call.size
        /\ call'.positionBefore = call.positionBefore /\ call' \in CallRecords
        /\ position' \in 0 .. Far
    BY <2>1 DEF CallRecords, CallStates
  <2>3. BridgeTypes'
    BY <2>1, <2>2 DEF BridgeInv, BridgeTypes
  <2>4. Known' /\ Placed' /\ Jumped'
    BY <2>1, <2>2 DEF BridgeInv, Known, Placed, Jumped
  <2> QED
    BY <2>1, <2>2, <2>3, <2>4
       DEF BridgeInv, Bridge!JumpsAreHidden, Bridge!OneJumpIsForgiven
<1> QED
  BY <1>1, <1>2, <1>3 DEF BridgeInv, BridgeTypes, CallRecords

\* 7-Zip seeks.
LEMMA SoughtKeeps ==
  ASSUME BridgeInv, NEW offset \in Int, NEW from \in {"SET", "CUR", "END"},
         position' \in 0 .. Far, position' = Bridge!Origin(from) + offset,
         Bridge!Sought(offset, from)
  PROVE  BridgeInv' /\ call' = call /\ returned'.code = "none"
<1>1. /\ call.state = "idle" /\ UNCHANGED << call, data, jumps >>
      /\ returned' = [code |-> "none", processedSize |-> 0]
  BY DEF Bridge!Sought
<1>2. believed' # Bridge!NotKnown => believed' = position'
  BY <1>1 DEF BridgeInv, Known, Bridge!Sought, Bridge!Origin
<1>3. BridgeTypes'
  BY <1>1, <1>2, Numbers DEF BridgeInv, BridgeTypes
<1>4. Known' /\ Placed' /\ Jumped'
  BY <1>1, <1>2 DEF BridgeInv, Known, Placed, Jumped
<1> QED
  BY <1>1, <1>2, <1>3, <1>4
     DEF BridgeInv, Bridge!JumpsAreHidden, Bridge!OneJumpIsForgiven

-----------------------------------------------------------------------------
(* The streams together.                                                   *)

\* Initially nothing has been read.
LEMMA InitInv == Init => IInv
<1> SUFFICES ASSUME Init PROVE IInv
  OBVIOUS
<1> USE Numbers DEF Init, Reader!Init, Bridge!Init
<1>1. ReadTypes
  <2>1. << >> \in Seq(Nat) /\ 0 \in 0 .. Far /\ 0 \in 0 .. Size
    OBVIOUS
  <2>2. Reader!NoCopy \in CopyRecords
    BY <2>1 DEF CopyRecords, CopyStates, Reader!NoCopy
  <2>3. Reader!NoAnswer \in [op : {"none", "Read", "Seek", "CopyTo"},
                             code : Reader!Codes, bytes : Seq(Nat)]
    BY <2>1 DEF Reader!NoAnswer, Reader!Answer, Reader!Codes
  <2> QED
    BY <2>1, <2>2, <2>3 DEF ReadTypes
<1>2. Reader!Slice(0, 0) = << >>
  BY DEF Reader!Slice
<1>3. ReadInv
  BY <1>1, <1>2 DEF ReadInv, Reader!NoCopy, Reader!NoAnswer, Reader!Answer
<1>4. BridgeTypes
  BY DEF BridgeTypes, CallRecords, CallStates, Bridge!Idle
<1>5. BridgeInv
  BY <1>4 DEF BridgeInv, Known, Placed, Jumped, Bridge!Idle,
              Bridge!JumpsAreHidden, Bridge!OneJumpIsForgiven
<1>6. UserInv
  BY <1>5 DEF UserInv, bridgeVars, Bridge!Idle, Reader!NoCopy
<1> QED
  BY <1>3, <1>6 DEF IInv

\* A sub-filter's calls.
LEMMA SubFilterKeeps ==
  ASSUME IInv, SubFilter
  PROVE  IInv' /\ ReaderActs
<1>1. ReaderActs
  BY Numbers DEF SubFilter, Reader!Next, ReaderActs
<1>2. ReadInv'
  BY <1>1, ReaderKeeps DEF IInv
<1>3. UserInv'
  BY DEF IInv, UserInv, SubFilter, bridgeVars
<1> QED
  BY <1>1, <1>2, <1>3 DEF IInv

\* The calls of 7-Zip on a foreign stream.
LEMMA OverForeignKeeps ==
  ASSUME IInv, OverForeign
  PROVE  IInv'
<1>1. BridgeInv /\ ReadInv /\ user = "foreign" /\ user' = user
  BY DEF IInv, UserInv, OverForeign
<1>2. BridgeInv'
  <2>1. CASE \E size \in 0 .. MaxCount : Bridge!ReadBegins(size)
    BY <1>1, <2>1, BeginsKeeps
  <2>2. ASSUME NEW n \in 0 .. MaxCount, Bridge!HostReads(n) PROVE BridgeInv'
    <3>1. n \in Nat /\ n <= call.size /\ position + n <= Far
      BY <1>1, <2>2, Numbers DEF BridgeInv, BridgeTypes, Bridge!HostReads
    <3> QED
      BY <1>1, <2>2, <3>1, GivesKeeps DEF Bridge!HostReads
  <2>3. CASE \E n \in 0 .. MaxCount, target \in 0 .. Far :
                Bridge!HostJumps(n, target) \/ Bridge!HostFails(n, target)
    BY <1>1, <2>3, JumpsKeep, FailsKeep
  <2>4. CASE Bridge!Inside
    BY <1>1, <2>4, BeginsKeeps, TellAfterKeeps, RetryKeeps DEF Bridge!Inside
  <2>5. CASE \E offset \in -Size .. Size, from \in {"SET", "CUR", "END"} :
                Bridge!Seek(offset, from)
    <3>1. PICK offset \in Int, from \in {"SET", "CUR", "END"} :
            Bridge!Seek(offset, from)
      BY <2>5, Numbers
    <3> QED
      BY <1>1, <3>1, SoughtKeeps DEF Bridge!Seek
  <2> QED
    BY <2>1, <2>2, <2>3, <2>4, <2>5
       DEF OverForeign, Bridge!Next, Bridge!Foreign
<1>3. UNCHANGED readerVars
  BY DEF OverForeign
<1>4. /\ reading = Reader!NotReading /\ copy = Reader!NoCopy
      /\ answer = Reader!NoAnswer
  BY <1>1 DEF IInv, UserInv
<1>5. ReadInv'
  BY <1>1, <1>2, <1>3, <1>4, ReaderRests DEF BridgeInv, BridgeTypes
<1> QED
  BY <1>1, <1>2, <1>3, <1>4, <1>5 DEF IInv, UserInv, readerVars

\* What a nested Filter knows.
LEMMA NestedIs ==
  ASSUME IInv, Nested
  PROVE  /\ ReadInv /\ BridgeInv /\ user = "nested" /\ user' = user
         /\ call \in CallRecords /\ call.isFirstTry
         /\ returned.code # "STG_E_READFAULT"
         /\ call.state = "after" => Bridge!IsWhereItShouldBe
         /\ copy.state = "idle" /\ position \in 0 .. Far
         /\ reading # Reader!NotReading =>
                /\ call.state = "read" /\ reading = call.size
                /\ reading \in Nat /\ position + reading <= Far
<1>1. /\ ReadInv /\ BridgeInv /\ user = "nested" /\ user' = user
      /\ call.isFirstTry /\ returned.code # "STG_E_READFAULT"
      /\ call.state = "after" => Bridge!IsWhereItShouldBe
      /\ copy.state = "idle"
      /\ reading # Reader!NotReading =>
             call.state = "read" /\ reading = call.size
  BY DEF IInv, UserInv, Nested
<1>2. call \in CallRecords
  BY <1>1 DEF BridgeInv, BridgeTypes
<1>3. /\ position \in 0 .. Far
      /\ reading # Reader!NotReading =>
             reading \in Nat /\ position + reading <= Far
  BY <1>1, Numbers DEF ReadInv, ReadTypes
<1> QED
  BY <1>1, <1>2, <1>3

\* The outer extractor goes on, or BridgeStream between its calls.
LEMMA InsideKeeps ==
  ASSUME IInv, Nested, Extractor \/ BridgeInside
  PROVE  IInv'
<1> USE NestedIs
<1>1. CASE Extractor
  <2>1. ReadInv'
    BY <1>1, ReaderKeeps DEF Extractor, ReaderActs
  <2>2. UNCHANGED << position, bridgeVars, copy, reading >>
    BY <1>1 DEF Extractor, Reader!AppendBytes, Reader!SetEndOfFile
  <2>3. BridgeInv'
    BY <2>2, BridgeRests
  <2> QED
    BY <2>1, <2>2, <2>3
       DEF IInv, UserInv, bridgeVars, Bridge!IsWhereItShouldBe
<1>2. CASE BridgeInside
  <2>1. ~Bridge!NoticesJump /\ ~Bridge!SeekBack
    BY DEF BridgeInv, Jumped, Bridge!NoticesJump, Bridge!SeekBack
  <2>2. UNCHANGED readerVars
    BY <1>2 DEF BridgeInside
  <2>3. CASE \/ \E size \in 0 .. MaxCount : Bridge!ReadBegins(size)
             \/ Bridge!TellBefore
    <3>1. BridgeInv'
      BY <2>3, BeginsKeeps
    <3>2. /\ position' = position /\ returned' = returned
          /\ call'.isFirstTry /\ call'.state # "after"
          /\ call.state # "read"
      BY <2>3 DEF Bridge!ReadBegins, Bridge!TellBefore, Bridge!Idle, CallRecords
    <3>3. ReadInv'
      BY <2>2, <3>2, ReaderRests
    <3> QED
      BY <2>2, <3>1, <3>2, <3>3 DEF IInv, UserInv, readerVars
  <2>4. CASE Bridge!TellAfter
    <3>1. BridgeInv' /\ call' = Bridge!Idle /\ returned'.code = "S_OK"
      BY <2>4, TellAfterKeeps
    <3>2. position' = position /\ call.state # "read"
      BY <2>4 DEF Bridge!TellAfter
    <3>3. ReadInv'
      BY <2>2, <3>2, ReaderRests
    <3> QED
      BY <2>2, <3>1, <3>2, <3>3 DEF IInv, UserInv, readerVars, Bridge!Idle
  <2> QED
    BY <1>2, <2>1, <2>3, <2>4 DEF BridgeInside, Bridge!Inside
<1> QED
  BY <1>1, <1>2

\* A nested Filter's Read: ReadStream's answer, or its failure.
LEMMA NestedReadKeeps ==
  ASSUME IInv, Nested, CallsRead \/ ReadIsBack
  PROVE  IInv'
<1> USE NestedIs
<1>a. call.size \in 0 .. Far /\ call.size \in Nat
  BY Numbers DEF CallRecords
<1>b. 0 \in 0 .. MaxCount
  BY Numbers
<1>1. CASE CallsRead /\ answer'.code = "none"
  <2>1. /\ call.state = "read" /\ Reader!ReadBegins(call.size)
        /\ UNCHANGED << position, bridgeVars, copy >>
    BY <1>1 DEF CallsRead, Reader!ReadBegins
  <2>2. ReadInv'
    BY <1>a, <2>1, ReaderKeeps DEF ReaderActs
  <2>3. reading' = call.size
    BY <1>1, <2>1 DEF Reader!ReadBegins, Reader!Answer
  <2>4. BridgeInv'
    BY <2>1, BridgeRests
  <2> QED
    BY <2>1, <2>2, <2>3, <2>4 DEF IInv, UserInv, bridgeVars
<1>2. CASE CallsRead /\ answer'.code # "none"
  <2>1. /\ Reader!ReadBegins(call.size) /\ copy' = copy
        /\ Bridge!HostFails(0, position)
    BY <1>2 DEF CallsRead, Reader!ReadBegins
  <2>2. ReadInv'
    BY <1>a, <2>1, ReaderKeeps DEF ReaderActs
  <2>3. reading' = Reader!NotReading
    BY <1>2, <2>1
       DEF Reader!ReadBegins, Reader!Answer, Reader!NoAnswer, Reader!Idle
  <2>4. BridgeInv' /\ call' = Bridge!Idle /\ returned'.code = "E_HOST"
    BY <1>b, <2>1, FailsKeep
  <2> QED
    BY <2>1, <2>2, <2>3, <2>4 DEF IInv, UserInv, Bridge!Idle
<1>3. CASE Reader!ReadEnds /\ Bridge!HostGives(answer'.bytes)
  <2>1. /\ reading \in Nat /\ position + reading <= Far
        /\ reading = call.size /\ Reader!Served(reading)
        /\ copy' = copy /\ reading' = Reader!NotReading
        /\ answer'.bytes = Reader!Got(reading)
    BY <1>3 DEF Reader!ReadEnds, Reader!Answer
  <2>2. ReadInv'
    BY <1>3, ReaderKeeps DEF ReaderActs
  <2>3. PICK n \in 0 .. reading : Reader!Got(reading) = Reader!Slice(position, n)
    BY <2>1, GotIs, Numbers DEF ReadInv, ReadTypes
  <2>4. n \in Nat /\ n <= call.size /\ position + n <= Far
    BY <2>1, Numbers
  <2>5. answer'.bytes = Bridge!Bytes(position, n)
    BY <2>1, <2>3, <2>4, BytesIs, Numbers
  <2>6. /\ BridgeInv' /\ Bridge!IsWhereItShouldBe'
        /\ call' = [call EXCEPT !.state = "after", !.bytesRead = n]
    BY <1>3, <2>4, <2>5, GivesKeeps
  <2>7. call'.isFirstTry /\ returned' = returned
    BY <1>3, <2>6 DEF CallRecords, Bridge!HostGives
  <2> QED
    BY <2>1, <2>2, <2>6, <2>7 DEF IInv, UserInv
<1>4. CASE Reader!ReadThrows /\ Bridge!HostFails(0, position)
  <2>1. ReadInv' /\ copy' = copy /\ reading' = Reader!NotReading
    BY <1>4, ReaderKeeps DEF ReaderActs, Reader!ReadThrows
  <2>2. BridgeInv' /\ call' = Bridge!Idle /\ returned'.code = "E_HOST"
    BY <1>b, <1>4, FailsKeep
  <2> QED
    BY <2>1, <2>2 DEF IInv, UserInv, Bridge!Idle
<1> QED
  BY <1>1, <1>2, <1>3, <1>4 DEF ReadIsBack

\* A nested Filter's Seek.
LEMMA NestedSeekKeeps ==
  ASSUME IInv, Nested, NEW offset \in Reader!Moves, NEW origin \in Reader!Origins,
         Seeks(offset, origin)
  PROVE  IInv'
<1> USE NestedIs
<1>1. ReadInv'
  BY ReaderKeeps DEF ReaderActs, Seeks
<1>2. reading = Reader!NotReading /\ UNCHANGED << reading, copy >>
  BY DEF Seeks, Reader!Seek, Reader!Idle
<1>3. CASE answer'.code = "S_OK"
  <2>1. position' = Reader!Start(origin) + offset
    BY <1>3, SeekReaches DEF Seeks, Reader!Answer
  <2>2. Reader!Start(origin) = Bridge!Origin(origin)
    BY DEF Reader!Start, Bridge!Origin, Reader!Origins
  <2>3. /\ position' \in 0 .. Far /\ offset \in Int
        /\ origin \in {"SET", "CUR", "END"}
    BY <1>1, Numbers DEF ReadInv, ReadTypes, Reader!Moves, Reader!Origins
  <2>4. BridgeInv' /\ call' = call /\ returned'.code = "none"
    BY <1>3, <2>1, <2>2, <2>3, SoughtKeeps DEF Seeks
  <2> QED
    BY <1>1, <1>2, <1>3, <2>4 DEF IInv, UserInv, Seeks
<1>4. CASE answer'.code # "S_OK"
  <2>1. UNCHANGED << position, bridgeVars >>
    BY <1>4, SeekReaches DEF Seeks, Reader!Answer
  <2>2. BridgeInv'
    BY <2>1, BridgeRests
  <2> QED
    BY <1>1, <1>2, <2>1, <2>2
       DEF IInv, UserInv, bridgeVars, Bridge!IsWhereItShouldBe
<1> QED
  BY <1>3, <1>4

\* A step that changes nothing.
LEMMA RestKeeps ==
  ASSUME IInv, UNCHANGED vars
  PROVE  IInv'
<1>1. ReadInv'
  BY ReaderRests DEF IInv, vars
<1>2. user # "sub-filter" => BridgeInv'
  BY BridgeRests DEF IInv, UserInv, vars
<1>3. Bridge!IsWhereItShouldBe' <=> Bridge!IsWhereItShouldBe
  BY DEF vars, bridgeVars, Bridge!IsWhereItShouldBe
<1> QED
  BY <1>1, <1>2, <1>3 DEF IInv, UserInv, vars, bridgeVars, readerVars

\* Every step keeps the invariant.
LEMMA NextKeeps ==
  ASSUME IInv, [Next]_vars
  PROVE  IInv'
<1>1. CASE Nested
  BY <1>1, InsideKeeps, NestedReadKeeps, NestedSeekKeeps DEF Nested
<1> QED
  BY <1>1, SubFilterKeeps, OverForeignKeeps, RestKeeps DEF Next

\* The invariant holds: how far Read, CopyTo and BridgeStream's Read are.
THEOREM Invariance == Spec => []IInv
<1>1. IInv /\ [Next]_vars => IInv'
  BY NextKeeps
<1> QED
  BY <1>1, InitInv, PTL DEF Spec

-----------------------------------------------------------------------------
(* The properties.                                                         *)

\* Positions, counts and answers have their types: no position leaves the
\* range of ULONGLONG.
THEOREM TypeCorrect == Spec => []TypeOK
<1>1. ASSUME IInv PROVE TypeOK
  <2>1. Reader!TypeOK
    BY <1>1, Numbers
       DEF IInv, ReadInv, ReadTypes, CopyRecords, CopyStates, Reader!TypeOK
  <2>2. CASE user = "sub-filter"
    <3>1. /\ call = Bridge!Idle /\ data = << >> /\ jumps = 0 /\ believed = 0
          /\ returned.code = "none"
      BY <1>1, <2>2 DEF IInv, UserInv, bridgeVars
    <3>2. position \in 0 .. Far
      BY <1>1 DEF IInv, ReadInv, ReadTypes
    <3> QED
      BY <1>1, <2>1, <3>1, <3>2, Numbers
         DEF TypeOK, IInv, UserInv, Bridge!TypeOK, Bridge!Idle, Bridge!Many
  <2>3. CASE user # "sub-filter"
    <3>1. BridgeInv /\ call \in CallRecords
      BY <1>1, <2>3 DEF IInv, UserInv, BridgeInv, BridgeTypes
    <3>2. call.bytesRead \in 0 .. call.size
      BY <3>1, Numbers DEF BridgeInv, CallRecords
    <3> QED
      BY <1>1, <2>1, <3>1, <3>2
         DEF TypeOK, IInv, UserInv, BridgeInv, BridgeTypes, CallRecords,
             CallStates, Bridge!TypeOK, Bridge!Many
  <2> QED
    BY <2>2, <2>3
<1> QED
  BY <1>1, Invariance, PTL

\* CopyTo's target holds a gapless piece of the member, the counts that it
\* returns are true of it, and on S_OK everything was copied.
THEOREM CopiesAreFaithful == Spec => []CopyIsFaithful
<1>1. ASSUME IInv PROVE CopyIsFaithful
  <2>1. CASE copy.state = "idle" /\ answer.op = "CopyTo"
    BY <1>1, <2>1 DEF IInv, ReadInv
  <2>2. CASE copy.state = "idle" /\ answer.op # "CopyTo"
    BY <2>2 DEF CopyIsFaithful, Reader!CopyIsFaithful
  <2>3. CASE copy.state # "idle"
    <3>1. copy.state \in {"read", "write"} /\ copy \in CopyRecords
      BY <1>1, <2>3 DEF IInv, ReadInv, ReadTypes, CopyRecords, CopyStates
    <3>2. answer.code # "S_OK" /\ position = copy.start + copy.read
      BY <1>1, <2>3 DEF IInv, ReadInv, Reader!NoAnswer, Reader!Answer
    <3>3. PICK m \in Nat, b \in Nat :
            m = Len(copy.sink) /\ b = Len(copy.block)
      BY <3>1 DEF CopyRecords
    <3>4. /\ copy.sink = Reader!Slice(copy.start, Len(copy.sink))
          /\ copy.written = m /\ copy.read \in {m, m + b}
      BY <1>1, <3>1, <3>3 DEF IInv, ReadInv
    <3>5. copy.written <= Len(copy.sink) /\ Len(copy.sink) <= copy.read
      <4>1. m <= m /\ m <= m + b
        OBVIOUS
      <4> QED
        BY <3>3, <3>4, <4>1
    <3> QED
      BY <3>2, <3>4, <3>5 DEF CopyIsFaithful, Reader!CopyIsFaithful
  <2> QED
    BY <2>1, <2>2, <2>3
<1> QED
  BY <1>1, Invariance, PTL

\* Whatever the host's stream jumps to, 7-Zip gets the bytes that follow those
\* it read before.
THEOREM JumpsStayHidden == Spec => []JumpsAreHidden
<1>1. IInv => JumpsAreHidden
  BY DEF IInv, UserInv, BridgeInv, JumpsAreHidden
<1> QED
  BY <1>1, Invariance, PTL

\* A Read that met one jump does not fail for it, and the ReadStream of an
\* outer archive never jumps.
THEOREM JumpsAreForgiven == Spec => []OneJumpIsForgiven
<1>1. ASSUME IInv PROVE OneJumpIsForgiven
  <2>1. CASE user = "sub-filter"
    BY <1>1, <2>1
       DEF IInv, UserInv, bridgeVars, OneJumpIsForgiven, Bridge!OneJumpIsForgiven
  <2>2. CASE user # "sub-filter"
    BY <1>1, <2>2 DEF IInv, UserInv, BridgeInv, OneJumpIsForgiven
  <2> QED
    BY <2>1, <2>2
<1> QED
  BY <1>1, Invariance, PTL

\* Seek computes exactly, in every state and for every offset and origin.
THEOREM SeeksAreExact == Spec => SeekIsExact
<1>1. ASSUME IInv, NEW offset \in Reader!Moves, NEW origin \in Reader!Origins,
             Reader!Seek(offset, origin)
      PROVE  LET target == Reader!Start(origin) + offset
             IN IF target \in 0 .. Reader!MaxU
                  THEN position' = target /\ answer'.code = "S_OK"
                  ELSE /\ position' = position
                       /\ answer'.code = "STG_E_SEEKERROR"
  <2>1. position \in 0 .. Far
    BY <1>1 DEF IInv, ReadInv, ReadTypes
  <2> QED
    BY <1>1, <2>1, SeekReaches, Numbers DEF Reader!Answer
<1>2. IInv =>
        [answer'.op = "Seek" => \A offset \in Reader!Moves, origin \in Reader!Origins :
           Reader!Seek(offset, origin) =>
             LET target == Reader!Start(origin) + offset
             IN IF target \in 0 .. Reader!MaxU
                  THEN position' = target /\ answer'.code = "S_OK"
                  ELSE /\ position' = position
                       /\ answer'.code = "STG_E_SEEKERROR"]_Reader!vars
  BY <1>1
<1> QED
  BY <1>2, Invariance, PTL DEF SeekIsExact, Reader!SeekIsExact

\* Only a Read answers a Read.
LEMMA ReadAnswers ==
  ASSUME IInv, Next, answer'.op = "Read", answer' # answer
  PROVE  \/ \E count \in 0 .. Far : Reader!ReadBegins(count)
         \/ Reader!ReadEnds \/ Reader!ReadThrows
<1>1. ~Reader!AppendBytes /\ ~Reader!SetEndOfFile /\ ~Reader!CopyReads
  BY DEF Reader!AppendBytes, Reader!SetEndOfFile, Reader!CopyReads
<1>2. ~Reader!CopyReadFails
  BY DEF Reader!CopyReadFails, Reader!CopyReturns, Reader!Answer
<1>3. ASSUME NEW count, Reader!CopyBegins(count) PROVE FALSE
  BY <1>3 DEF Reader!CopyBegins, Reader!Answer, Reader!NoAnswer
<1>4. ASSUME NEW n, Reader!CopyWrites(n) \/ Reader!CopyFails(n) PROVE FALSE
  BY <1>4
     DEF Reader!CopyWrites, Reader!CopyFails, Reader!CopyReturns, Reader!Answer
<1>5. ASSUME NEW offset, NEW origin, Reader!Seek(offset, origin) PROVE FALSE
  BY <1>5 DEF Reader!Seek, Reader!Answer
<1>6. CASE SubFilter
  BY <1>6, <1>1, <1>2, <1>3, <1>4, <1>5, SubFilterKeeps DEF ReaderActs
<1>7. ~OverForeign
  BY DEF OverForeign, readerVars
<1>8. CASE Nested
  <2>1. ~Extractor /\ ~BridgeInside
    BY <1>1 DEF Extractor, BridgeInside, readerVars
  <2>2. ASSUME NEW offset, NEW origin, Seeks(offset, origin) PROVE FALSE
    BY <2>2, <1>5 DEF Seeks
  <2>3. call.size \in 0 .. Far
    BY <1>8, NestedIs, Numbers DEF CallRecords
  <2> QED
    BY <1>8, <2>1, <2>2, <2>3 DEF Nested, CallsRead, ReadIsBack
<1> QED
  BY <1>6, <1>7, <1>8 DEF Next

\* A Read gives the bytes from the position on; S_OK says that they are all
\* that were asked for, S_FALSE that no more will ever come; one that fails
\* does not move.
THEOREM ReadsAreComplete == Spec => ReadIsComplete
<1> DEFINE Complete ==
        LET bytes == answer'.bytes
        IN /\ bytes = Reader!Slice(position, Len(bytes))
           /\ position' = position + Len(bytes)
           /\ answer'.code = "S_OK" => Len(bytes) = reading
           /\ answer'.code = "S_FALSE" =>
                  position' >= (IF endOfFile THEN available ELSE Size)
<1>1. ASSUME IInv, Next, answer'.op = "Read", answer' # answer PROVE Complete
  <2>1. position \in 0 .. Far /\ position \in Nat /\ available \in 0 .. Size
    BY <1>1, Numbers DEF IInv, ReadInv, ReadTypes
  <2>2. ASSUME answer' = Reader!Answer("Read", answer'.code, << >>),
               answer'.code \in {"E_UNEXPECTED", "E_MAP"}, position' = position
        PROVE  Complete
    <3>1. Reader!Slice(position, 0) = << >>
      BY <2>1 DEF Reader!Slice
    <3> QED
      BY <2>1, <2>2, <3>1 DEF Reader!Answer
  <2>3. CASE \E count \in 0 .. Far : Reader!ReadBegins(count)
    BY <1>1, <2>2, <2>3 DEF Reader!ReadBegins, Reader!Answer, Reader!NoAnswer
  <2>4. CASE Reader!ReadThrows
    BY <2>2, <2>4 DEF Reader!ReadThrows, Reader!Answer
  <2>5. CASE Reader!ReadEnds
    <3>1. /\ reading \in Nat /\ Reader!Served(reading) /\ position + reading <= Far
          /\ position' = position + Len(Reader!Got(reading))
          /\ answer'.code = Reader!Code(reading, Reader!Got(reading))
          /\ answer'.bytes = Reader!Got(reading)
      BY <1>1, <2>5, Numbers
         DEF IInv, ReadInv, ReadTypes, Reader!ReadEnds, Reader!Answer
    <3>2. PICK n \in 0 .. reading :
            /\ Reader!Got(reading) = Reader!Slice(position, n)
            /\ n < reading =>
                  position + n >= IF endOfFile THEN available ELSE Size
      BY <2>1, <3>1, GotIs
    <3>3. Len(Reader!Got(reading)) = n
      BY <2>1, <3>1, <3>2, SliceIs
    <3>4. answer'.code = IF n < reading THEN "S_FALSE" ELSE "S_OK"
      BY <3>1, <3>3 DEF Reader!Code
    <3> QED
      BY <3>1, <3>2, <3>3, <3>4
  <2> QED
    BY <1>1, <2>3, <2>4, <2>5, ReadAnswers
<1>2. IInv /\ [Next]_vars =>
        [answer'.op = "Read" /\ answer' # answer => Complete]_Reader!vars
  BY <1>1 DEF vars, Reader!vars, readerVars
<1> QED
  BY <1>2, Invariance, PTL DEF Spec, ReadIsComplete, Reader!ReadIsComplete

=============================================================================
