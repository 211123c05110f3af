-------------------------- MODULE FileBufferProofs --------------------------
(***************************************************************************)
(* Proofs about FileBuffer, for every size, memory limit, window size and  *)
(* request size.  The invariant says of each byte when it is final, and    *)
(* of a Read that what it copies after leaving the lock was final before:  *)
(* neither is protected by the lock while it is written or copied.         *)
(*                                                                         *)
(* For the refinement of ByteStream it says beside it (Promised) how many  *)
(* bytes a Read will return once it has left the lock.                     *)
(***************************************************************************)
EXTENDS FileBuffer, SequenceTheorems, TLAPS

\* Byte k is published, or Append has written it beyond the position.
There(k) ==
    \/ k < position
    \/ writer.state = "write" /\ k < position + writer.written

\* What is there has its final value.
Written == \A k \in 0 .. Size - 1 : There(k) => content[k] = k

\* Append writes within the buffer, at the file pointer that fits.
WriterFits ==
    writer.state = "write" =>
        /\ position + writer.written + writer.todo <= Size
        /\ writer.written + writer.todo <= MaxCount
        /\ inFile => writer.pointer = position + writer.written

\* What a Read still has to copy was published before it left the lock.
ReaderFits ==
    /\ reader.state = "copy" =>
           reader.offset + Len(reader.bytes) + reader.todo <= position
    /\ reader.state # "copy" => reader.bytes = << >>
    /\ reader.state # "idle" => reader.offset < Size

IInv == TypeOK /\ Written /\ WriterFits /\ ReaderFits /\ NoTornRead

\* An empty buffer holds nothing that could be torn.
LEMMA InitInv == Init => IInv
<1> SUFFICES ASSUME Init PROVE IInv
  OBVIOUS
<1> USE FileBufferAssumption
<1>1. content \in [0 .. Size - 1 -> 0 .. Undefined]
  BY DEF Init, Undefined
<1>2. writer \in [state : {"idle", "write"}, pointer : 0 .. Size,
                  todo : 0 .. MaxCount, written : 0 .. MaxCount]
  BY DEF Init
<1>3. reader \in [state : {"idle", "wait", "asleep", "copy"},
                  offset : Offsets, count : 0 .. MaxCount,
                  todo : 0 .. MaxCount, bytes : Seq(0 .. Undefined),
                  view : 0 .. NoView]
  BY DEF Init, Offsets, NoView
<1>4. got \in [offset : Offsets, count : 0 .. MaxCount,
               bytes : Seq(0 .. Undefined)]
  BY DEF Init, Offsets
<1>5. position \in 0 .. Size
  BY DEF Init
<1>6. TypeOK
  <2>1. endOfFile \in BOOLEAN
    BY DEF Init
  <2>2. inFile \in BOOLEAN
    <3>1. PICK limit \in MaxBufferSizes : inFile = (Size > limit)
      BY DEF Init
    <3>2. CASE Size > limit
      BY <3>1, <3>2
    <3>3. CASE ~(Size > limit)
      BY <3>1, <3>3
    <3> QED
      BY <3>2, <3>3
  <2> QED
    BY <1>1, <1>2, <1>3, <1>4, <1>5, <2>1, <2>2 DEF TypeOK
<1>7. Written /\ WriterFits /\ ReaderFits /\ NoTornRead
  BY DEF Init, Written, There, WriterFits, ReaderFits, NoTornRead
<1> QED
  BY <1>6, <1>7 DEF IInv

-----------------------------------------------------------------------------
(* The writer.                                                             *)

\* Append checks that the bytes fit before it writes any of them.
LEMMA AppendBeginsInv ==
  ASSUME IInv, NEW count \in 0 .. MaxCount, AppendBegins(count)
  PROVE  IInv'
<1> USE FileBufferAssumption
<1>1. /\ position \in 0 .. Size
      /\ Min2(Size - position, count) \in 0 .. MaxCount
      /\ position + Min2(Size - position, count) <= Size
  BY DEF IInv, TypeOK, AppendBegins, Min2
<1>2. /\ writer'.state = "write"
      /\ writer'.written = 0
      /\ writer'.todo = Min2(Size - position, count)
      /\ inFile => writer'.pointer = position
      /\ writer' \in [state : {"idle", "write"}, pointer : 0 .. Size,
                      todo : 0 .. MaxCount, written : 0 .. MaxCount]
  BY <1>1 DEF IInv, TypeOK, AppendBegins
<1>3. TypeOK'
  BY <1>2 DEF IInv, TypeOK, AppendBegins
<1>4. Written'
  BY <1>1, <1>2 DEF IInv, TypeOK, AppendBegins, Written, There
<1>5. WriterFits'
  BY <1>1, <1>2 DEF AppendBegins, WriterFits
<1>6. ReaderFits' /\ NoTornRead'
  BY DEF IInv, AppendBegins, ReaderFits, NoTornRead
<1> QED
  BY <1>3, <1>4, <1>5, <1>6 DEF IInv

\* Bytes are written behind those that are published and already written.
LEMMA AppendCopiesInv ==
  ASSUME IInv, NEW n \in 1 .. MaxCount, AppendCopies(n)
  PROVE  IInv'
<1> USE FileBufferAssumption
<1>a. /\ writer \in [state : {"idle", "write"}, pointer : 0 .. Size,
                      todo : 0 .. MaxCount, written : 0 .. MaxCount]
      /\ writer.state = "write"
      /\ n <= writer.todo
  BY DEF IInv, TypeOK, AppendCopies
<1>1. /\ position \in 0 .. Size
      /\ position + writer.written + writer.todo <= Size
      /\ writer.written + writer.todo <= MaxCount
      /\ Target = position + writer.written
  BY <1>a DEF IInv, TypeOK, WriterFits, Target
<1>2. \A k \in 0 .. Size - 1 :
        content'[k] = IF k \in Target .. Target + n - 1 THEN k ELSE content[k]
  <2>1. content' = [k \in 0 .. Size - 1 |->
                      IF k \in Target .. Target + n - 1
                        THEN position + writer.written + (k - Target)
                        ELSE content[k]]
    BY DEF IInv, TypeOK, AppendCopies
  <2> QED
    BY <2>1, <1>1, <1>a
<1>3. content' \in [0 .. Size - 1 -> 0 .. Undefined]
  <2>1. DOMAIN content' = 0 .. Size - 1
    BY DEF IInv, TypeOK, AppendCopies
  <2>2. \A k \in 0 .. Size - 1 : content'[k] \in 0 .. Undefined
    <3>1. \A k \in 0 .. Size - 1 :
            content[k] \in 0 .. Undefined /\ k \in 0 .. Undefined
      BY DEF IInv, TypeOK, Undefined
    <3> QED
      BY <1>2, <3>1
  <2>3. content' = [k \in 0 .. Size - 1 |-> content'[k]]
    BY <2>1 DEF IInv, TypeOK, AppendCopies
  <2> QED
    BY <2>2, <2>3
<1>4. /\ writer'.state = "write"
      /\ writer'.written = writer.written + n
      /\ writer'.todo = writer.todo - n
      /\ writer'.pointer = IF inFile THEN writer.pointer + n ELSE writer.pointer
      /\ DOMAIN writer' = DOMAIN writer
  BY <1>a DEF AppendCopies
<1>5. writer' \in [state : {"idle", "write"}, pointer : 0 .. Size,
                   todo : 0 .. MaxCount, written : 0 .. MaxCount]
  <2>1. /\ writer.written + n \in 0 .. MaxCount
        /\ writer.todo - n \in 0 .. MaxCount
        /\ inFile => writer.pointer + n \in 0 .. Size
    BY <1>a, <1>1 DEF IInv, WriterFits
  <2> QED
    BY <1>a, <2>1 DEF AppendCopies
<1>6. TypeOK'
  BY <1>3, <1>5 DEF IInv, TypeOK, AppendCopies
<1>7. Written'
  <2> SUFFICES ASSUME NEW k \in 0 .. Size - 1, There(k)'
               PROVE  content'[k] = k
    BY DEF Written
  <2>1. k < position + writer.written + n
    BY <1>a, <1>1, <1>4 DEF There, AppendCopies
  <2>2. CASE k \in Target .. Target + n - 1
    BY <1>2, <2>2
  <2>3. CASE k \notin Target .. Target + n - 1
    <3>1. k < position + writer.written
      BY <1>a, <1>1, <2>1, <2>3
    <3> QED
      BY <1>2, <1>a, <2>3, <3>1 DEF IInv, Written, There
  <2> QED
    BY <2>2, <2>3
<1>8. WriterFits'
  BY <1>a, <1>1, <1>4 DEF IInv, WriterFits, AppendCopies
<1>9. ReaderFits' /\ NoTornRead'
  BY DEF IInv, AppendCopies, ReaderFits, NoTornRead
<1> QED
  BY <1>6, <1>7, <1>8, <1>9 DEF IInv

\* Publishing, or giving up, does not touch the bytes.
LEMMA WriterStopsInv ==
  ASSUME IInv, AppendThrows \/ AppendCommits \/ SetEndOfFile
  PROVE  IInv'
<1> USE FileBufferAssumption
<1>a. /\ writer \in [state : {"idle", "write"}, pointer : 0 .. Size,
                      todo : 0 .. MaxCount, written : 0 .. MaxCount]
      /\ reader \in [state : {"idle", "wait", "asleep", "copy"},
                      offset : Offsets, count : 0 .. MaxCount,
                      todo : 0 .. MaxCount, bytes : Seq(0 .. Undefined),
                      view : 0 .. NoView]
      /\ position \in 0 .. Size
  BY DEF IInv, TypeOK
<1>2. /\ writer'.state = "idle"
      /\ writer' \in [state : {"idle", "write"}, pointer : 0 .. Size,
                       todo : 0 .. MaxCount, written : 0 .. MaxCount]
  <2>1. CASE SetEndOfFile
    BY <1>a, <2>1 DEF SetEndOfFile
  <2>2. CASE AppendThrows \/ AppendCommits
    <3>1. writer' = [writer EXCEPT !.state = "idle", !.todo = 0, !.written = 0]
      BY <2>2 DEF AppendThrows, AppendCommits
    <3>2. 0 \in 0 .. MaxCount
      OBVIOUS
    <3> QED
      BY <1>a, <3>1, <3>2
  <2> QED
    BY <2>1, <2>2
<1>1. /\ position' \in 0 .. Size
      /\ position <= position'
      /\ \/ position' = position
         \/ writer.state = "write" /\ position' = position + writer.written
  <2>1. CASE AppendCommits
    BY <1>a, <2>1 DEF IInv, WriterFits, AppendCommits
  <2>2. CASE AppendThrows \/ SetEndOfFile
    BY <1>a, <2>2 DEF AppendThrows, SetEndOfFile
  <2> QED
    BY <2>1, <2>2
<1>3. /\ reader' \in [state : {"idle", "wait", "asleep", "copy"},
                       offset : Offsets, count : 0 .. MaxCount,
                       todo : 0 .. MaxCount, bytes : Seq(0 .. Undefined),
                       view : 0 .. NoView]
      /\ reader'.state = "copy" <=> reader.state = "copy"
      /\ reader'.offset = reader.offset
      /\ reader'.todo = reader.todo
      /\ reader'.bytes = reader.bytes
  BY <1>a DEF AppendThrows, AppendCommits, SetEndOfFile, Notify
<1>4. UNCHANGED << inFile, content, got >> /\ endOfFile' \in BOOLEAN
  BY DEF IInv, TypeOK, AppendThrows, AppendCommits, SetEndOfFile
<1>5. TypeOK'
  BY <1>1, <1>2, <1>3, <1>4 DEF IInv, TypeOK
<1>6. Written'
  <2> SUFFICES ASSUME NEW k \in 0 .. Size - 1, There(k)'
               PROVE  content'[k] = k
    BY DEF Written
  <2>1. k < position'
    BY <1>2 DEF There
  <2>2. There(k)
    BY <1>1, <2>1 DEF There
  <2> QED
    BY <1>4, <2>2 DEF IInv, Written
<1>7. WriterFits'
  BY <1>2 DEF WriterFits
<1>8. ReaderFits'
  <2>1. Len(reader.bytes) \in Nat
    BY <1>a
  <2>2. reader.offset \in Nat /\ reader.todo \in Nat
    BY <1>a DEF Offsets
  <2>3. reader.state = "copy" =>
          reader.offset + Len(reader.bytes) + reader.todo <= position'
    BY <1>a, <1>1, <2>1, <2>2 DEF IInv, ReaderFits
  <2>4. /\ reader.state # "copy" => reader.bytes = << >>
        /\ reader.state # "idle" => reader.offset < Size
    BY DEF IInv, ReaderFits
  <2>5. reader'.state = "idle" <=> reader.state = "idle"
    BY <1>a DEF AppendThrows, AppendCommits, SetEndOfFile, Notify
  <2> QED
    BY <1>3, <2>3, <2>4, <2>5 DEF ReaderFits
<1>9. NoTornRead'
  BY <1>3 DEF IInv, NoTornRead
<1> QED
  BY <1>5, <1>6, <1>7, <1>8, <1>9 DEF IInv

-----------------------------------------------------------------------------
(* The reader.                                                             *)

ReaderType ==
    [state : {"idle", "wait", "asleep", "copy"},
     offset : Offsets, count : 0 .. MaxCount,
     todo : 0 .. MaxCount, bytes : Seq(0 .. Undefined), view : 0 .. NoView]

\* A reader step keeps the writer's half of the invariant; what remains to be
\* shown is the reader's half.
LEMMA ReaderSide ==
  ASSUME IInv, UNCHANGED << inFile, content, position, endOfFile, writer >>,
         reader' \in ReaderType, ReaderFits', NoTornRead',
         got' \in [offset : Offsets, count : 0 .. MaxCount,
                   bytes : Seq(0 .. Undefined)]
  PROVE  IInv'
<1>1. TypeOK'
  BY DEF IInv, TypeOK, ReaderType
<1>2. Written' /\ WriterFits'
  BY DEF IInv, Written, There, WriterFits
<1> QED
  BY <1>1, <1>2 DEF IInv

\* A Read that returns leaves no bytes behind, whatever it returns.
LEMMA ReturnKeeps ==
  ASSUME IInv, NEW offset \in Offsets, NEW count \in 0 .. MaxCount,
         NEW bytes \in Seq(0 .. Undefined), Return(offset, count, bytes),
         UNCHANGED << inFile, content, position, endOfFile, writer >>
  PROVE  IInv'
<1> USE FileBufferAssumption
<1>1. reader \in ReaderType
  BY DEF IInv, TypeOK, ReaderType
<1>2. /\ reader'.state = "idle"
      /\ reader'.bytes = << >>
  BY <1>1 DEF Return, ReaderType
<1>6. reader' \in ReaderType
  <2>1. 0 \in Offsets /\ 0 \in 0 .. MaxCount
    BY DEF Offsets
  <2>2. << >> \in Seq(0 .. Undefined)
    BY EmptySeq
  <2> QED
    BY <1>1, <2>1, <2>2 DEF Return, ReaderType
<1>3. ReaderFits'
  BY <1>2 DEF ReaderFits
<1>4. NoTornRead'
  BY <1>2 DEF NoTornRead
<1>5. got' \in [offset : Offsets, count : 0 .. MaxCount,
                bytes : Seq(0 .. Undefined)]
  BY DEF Return
<1> QED
  BY <1>3, <1>4, <1>5, <1>6, ReaderSide

\* Copying n bytes from where the Read has come to, whatever is mapped.
LEMMA CopyKeeps ==
  ASSUME IInv, reader.state = "copy",
         NEW n \in 1 .. MaxCount, n <= reader.todo,
         NEW view \in 0 .. NoView,
         reader' = [reader EXCEPT
                      !.view = view,
                      !.bytes = @ \o [k \in 1 .. n |->
                                       content[CurrentOffset + k - 1]],
                      !.todo = @ - n],
         UNCHANGED << inFile, content, position, endOfFile, writer, got >>
  PROVE  IInv' /\ Len(reader'.bytes) = Len(reader.bytes) + n
<1> USE FileBufferAssumption
<1> DEFINE piece == [k \in 1 .. n |-> content[CurrentOffset + k - 1]]
<1>a. /\ reader \in ReaderType
      /\ reader.bytes \in Seq(0 .. Undefined)
      /\ position \in 0 .. Size
      /\ content \in [0 .. Size - 1 -> 0 .. Undefined]
  BY DEF IInv, TypeOK, ReaderType
<1>b. reader.offset \in Nat /\ reader.todo \in 0 .. MaxCount
  BY <1>a DEF ReaderType, Offsets
<1>c. Len(reader.bytes) \in Nat /\ DOMAIN reader.bytes = 1 .. Len(reader.bytes)
  BY <1>a, LenProperties
<1>d. CurrentOffset \in Nat /\ CurrentOffset = reader.offset + Len(reader.bytes)
  BY <1>b, <1>c DEF CurrentOffset
<1>1. CurrentOffset + n <= position
  <2>1. reader.offset + Len(reader.bytes) + reader.todo <= position
    BY DEF IInv, ReaderFits
  <2> QED
    BY <1>a, <1>b, <1>c, <1>d, <2>1
<1>2. reader.offset + Len(reader.bytes) + reader.todo <= position
  BY DEF IInv, ReaderFits
<1>3. \A k \in 1 .. n :
        content[CurrentOffset + k - 1] = CurrentOffset + k - 1
  <2> SUFFICES ASSUME NEW k \in 1 .. n
               PROVE  content[CurrentOffset + k - 1] = CurrentOffset + k - 1
    OBVIOUS
  <2>1. /\ CurrentOffset + k - 1 \in 0 .. Size - 1
        /\ CurrentOffset + k - 1 < position
    BY <1>a, <1>d, <1>1
  <2> QED
    BY <2>1 DEF IInv, Written, There
<1>4. /\ piece \in Seq(0 .. Undefined)
      /\ Len(piece) = n
      /\ \A k \in 1 .. n : piece[k] = CurrentOffset + k - 1
  <2>1. \A k \in 1 .. n : content[CurrentOffset + k - 1] \in 0 .. Undefined
    <3> SUFFICES ASSUME NEW k \in 1 .. n
                 PROVE  content[CurrentOffset + k - 1] \in 0 .. Undefined
      OBVIOUS
    <3>1. CurrentOffset + k - 1 \in 0 .. Size - 1
      BY <1>a, <1>d, <1>1
    <3> QED
      BY <1>a, <3>1
  <2>2. piece \in [1 .. n -> 0 .. Undefined] /\ n \in Nat
    BY <2>1
  <2>3. piece \in Seq(0 .. Undefined)
    <3>1. Seq(0 .. Undefined) = UNION {[1 .. m -> 0 .. Undefined] : m \in Nat}
      BY SeqDef
    <3> HIDE DEF piece
    <3> QED
      BY <2>2, <3>1
  <2>4. Len(piece) = n
    BY <2>2, <2>3, LenProperties
  <2> QED
    BY <2>3, <2>4, <1>3
<1> HIDE DEF piece
<1>5. /\ reader'.state = "copy"
      /\ reader'.offset = reader.offset
      /\ reader'.todo = reader.todo - n
      /\ reader'.bytes = reader.bytes \o piece
  BY <1>a DEF piece, ReaderType
<1>6. /\ reader.bytes \o piece \in Seq(0 .. Undefined)
      /\ Len(reader.bytes \o piece) = Len(reader.bytes) + n
      /\ DOMAIN (reader.bytes \o piece) = 1 .. Len(reader.bytes) + n
  <2>1. /\ reader.bytes \o piece \in Seq(0 .. Undefined)
        /\ Len(reader.bytes \o piece) = Len(reader.bytes) + Len(piece)
    <3>1. reader.bytes \in Seq(0 .. Undefined) /\ piece \in Seq(0 .. Undefined)
      BY <1>a, <1>4
    <3> QED
      BY ONLY <3>1, ConcatProperties
  <2> QED
    BY <1>4, <2>1, LenProperties
<1>7. reader' \in ReaderType
  <2>1. reader.todo - n \in 0 .. MaxCount
    BY <1>b
  <2> QED
    BY <1>a, <1>6, <2>1 DEF piece, ReaderType
<1>8. ReaderFits'
  <2>1. reader.offset + (Len(reader.bytes) + n) + (reader.todo - n) <= position
    BY <1>2, <1>a, <1>b, <1>c, SMTT(30)
  <2>2. Len(reader'.bytes) = Len(reader.bytes) + n
    BY <1>5, <1>6
  <2>3. position' = position
    OBVIOUS
  <2>4. reader'.offset + Len(reader'.bytes) + reader'.todo <= position'
    BY <1>5, <2>1, <2>2, <2>3
  <2>5. reader.offset < Size
    BY DEF IInv, ReaderFits
  <2> QED
    BY <1>5, <2>4, <2>5 DEF ReaderFits
<1>9. NoTornRead'
  <2> SUFFICES ASSUME NEW k \in 1 .. Len(reader.bytes) + n
               PROVE  (reader.bytes \o piece)[k] = reader.offset + k - 1
    <3>1. DOMAIN reader'.bytes = 1 .. Len(reader.bytes) + n
      BY <1>5, <1>6
    <3> QED
      BY <1>5, <3>1 DEF NoTornRead
  <2> HIDE DEF piece
  <2>a. (reader.bytes \o piece)[k]
          = IF k <= Len(reader.bytes) THEN reader.bytes[k]
                                      ELSE piece[k - Len(reader.bytes)]
    <3>1. k \in 1 .. Len(reader.bytes) + Len(piece)
      BY <1>4
    <3>2. piece \in Seq(0 .. Undefined)
      BY <1>4
    <3>3. \A j \in 1 .. Len(reader.bytes) + Len(piece) :
            (reader.bytes \o piece)[j]
              = IF j <= Len(reader.bytes) THEN reader.bytes[j]
                                          ELSE piece[j - Len(reader.bytes)]
      BY <1>a, <3>2, ConcatProperties, SMTT(30)
    <3> QED
      BY <3>1, <3>3
  <2>1. CASE k <= Len(reader.bytes)
    <3>1. (reader.bytes \o piece)[k] = reader.bytes[k]
      BY <2>a, <2>1
    <3>2. k \in DOMAIN reader.bytes
      BY <1>c, <2>1
    <3> QED
      BY <3>1, <3>2 DEF IInv, NoTornRead
  <2>2. CASE k > Len(reader.bytes)
    <3>1. (reader.bytes \o piece)[k] = piece[k - Len(reader.bytes)]
      BY <2>a, <2>2, <1>c
    <3>2. k - Len(reader.bytes) \in 1 .. n
      BY <1>c, <2>2
    <3>3. piece[k - Len(reader.bytes)]
            = CurrentOffset + (k - Len(reader.bytes)) - 1
      BY <1>4, <3>2
    <3> QED
      <4>1. CurrentOffset + (k - Len(reader.bytes)) - 1 = reader.offset + k - 1
        BY <1>b, <1>c, SMTT(30) DEF CurrentOffset
      <4> QED
        BY <3>1, <3>3, <4>1
  <2>3. k <= Len(reader.bytes) \/ k > Len(reader.bytes)
    BY <1>c
  <2> QED
    BY <2>1, <2>2, <2>3
<1>10. got' \in [offset : Offsets, count : 0 .. MaxCount,
                 bytes : Seq(0 .. Undefined)]
  BY DEF IInv, TypeOK
<1> QED
  BY <1>5, <1>6, <1>7, <1>8, <1>9, <1>10, ReaderSide

\* Calling Read: it waits, or has nothing to read.
LEMMA ReadBeginsInv ==
  ASSUME IInv, NEW offset \in Offsets, NEW count \in 0 .. MaxCount,
         ReadBegins(offset, count)
  PROVE  IInv'
<1>1. CASE offset >= Size
  <2>1. Return(offset, count, << >>)
    BY <1>1 DEF ReadBegins
  <2>2. << >> \in Seq(0 .. Undefined)
    BY EmptySeq
  <2>3. UNCHANGED << inFile, content, position, endOfFile, writer >>
    BY DEF ReadBegins
  <2> QED
    BY <2>1, <2>2, <2>3, ReturnKeeps
<1>2. CASE ~(offset >= Size)
  <2>1. reader \in ReaderType /\ reader.state = "idle"
    BY DEF IInv, TypeOK, ReaderType, ReadBegins
  <2>2. /\ reader' = [reader EXCEPT !.state = "wait", !.offset = offset,
                                    !.count = count]
        /\ UNCHANGED << inFile, content, position, endOfFile, writer, got >>
    BY <1>2 DEF ReadBegins
  <2>3. /\ reader' \in ReaderType
        /\ reader'.state = "wait"
        /\ reader'.offset = offset
        /\ reader'.bytes = reader.bytes
    BY <2>1, <2>2 DEF ReaderType
  <2>4. reader.bytes = << >>
    BY <2>1 DEF IInv, ReaderFits
  <2>7. offset < Size
    BY <1>2, FileBufferAssumption DEF Offsets
  <2>5. ReaderFits' /\ NoTornRead'
    BY <2>3, <2>4, <2>7 DEF ReaderFits, NoTornRead
  <2>6. got' \in [offset : Offsets, count : 0 .. MaxCount,
                  bytes : Seq(0 .. Undefined)]
    BY <2>2 DEF IInv, TypeOK
  <2> QED
    BY <2>2, <2>3, <2>5, <2>6, ReaderSide
<1> QED
  BY <1>1, <1>2

\* Leaving the lock: there is no more to copy than was published, whether the
\* bytes asked for have come or the end of file has.
LEMMA ReadLeavesLock ==
  ASSUME IInv, ReadSleeps \/ ReadGoes \/ ReadFallsShort
  PROVE  IInv'
<1> USE FileBufferAssumption
<1>1. /\ reader \in ReaderType
      /\ position \in 0 .. Size
      /\ got \in [offset : Offsets, count : 0 .. MaxCount,
                  bytes : Seq(0 .. Undefined)]
  BY DEF IInv, TypeOK, ReaderType
<1>2. reader.state = "wait" /\ reader.bytes = << >>
  BY DEF IInv, ReaderFits, ReadSleeps, ReadGoes, ReadFallsShort
<1>3. reader.offset \in Nat /\ reader.offset \in Offsets
      /\ reader.count \in 0 .. MaxCount
  BY <1>1 DEF ReaderType, Offsets
<1>9. reader.offset < Size
  BY <1>2 DEF IInv, ReaderFits
<1>4. UNCHANGED << inFile, content, position, endOfFile, writer >>
  BY DEF ReadSleeps, ReadGoes, ReadFallsShort
<1>5. CASE ReadSleeps
  <2>1. /\ reader' \in ReaderType
        /\ reader'.state = "asleep"
        /\ reader'.bytes = << >>
        /\ reader'.offset = reader.offset
        /\ got' = got
    BY <1>1, <1>2, <1>5 DEF ReadSleeps, ReaderType
  <2>2. ReaderFits' /\ NoTornRead'
    BY <1>9, <2>1 DEF ReaderFits, NoTornRead
  <2> QED
    BY <1>1, <1>4, <2>1, <2>2, ReaderSide
<1>6. ASSUME NEW todo \in 0 .. MaxCount, reader.offset + todo <= position,
             reader' = [reader EXCEPT !.state = "copy", !.todo = todo],
             got' = got
      PROVE  IInv'
  <2>1. /\ reader' \in ReaderType
        /\ reader'.state = "copy"
        /\ reader'.bytes = << >>
        /\ reader'.offset = reader.offset
        /\ reader'.todo = todo
    BY <1>1, <1>2, <1>6 DEF ReaderType
  <2>2. Len(reader'.bytes) = 0
    BY <2>1, EmptySeq
  <2>3. reader.offset + 0 + todo <= position
    BY <1>3, <1>6
  <2>4. reader'.offset + Len(reader'.bytes) + reader'.todo <= position'
    BY <1>4, <2>1, <2>2, <2>3
  <2>5. ReaderFits'
    BY <1>9, <2>1, <2>4 DEF ReaderFits
  <2>6. NoTornRead'
    BY <2>1 DEF NoTornRead
  <2> QED
    BY <1>1, <1>4, <1>6, <2>1, <2>5, <2>6, ReaderSide
<1>7. CASE ReadGoes
  <2> DEFINE todo == Min2(Size - reader.offset, reader.count)
  <2>1. reader' = [reader EXCEPT !.state = "copy", !.todo = todo]
        /\ got' = got
    BY <1>7 DEF ReadGoes
  <2>2. position >= RequiredSize
    BY <1>7 DEF ReadGoes
  <2>3. todo \in 0 .. MaxCount /\ reader.offset + todo <= position
    BY <1>1, <1>3, <1>9, <2>2 DEF Min2, RequiredSize
  <2> QED
    BY <1>6, <2>1, <2>3
<1>8. CASE ReadFallsShort
  <2>1. CASE position <= reader.offset
    <3>1. Return(reader.offset, reader.count, << >>)
      BY <1>8, <2>1 DEF ReadFallsShort
    <3>2. << >> \in Seq(0 .. Undefined)
      BY EmptySeq
    <3> QED
      BY <1>3, <1>4, <3>1, <3>2, ReturnKeeps
  <2>2. CASE ~(position <= reader.offset)
    <3> DEFINE todo == Min2(position - reader.offset, reader.count)
    <3>1. reader' = [reader EXCEPT !.state = "copy", !.todo = todo]
          /\ got' = got
      BY <1>8, <2>2 DEF ReadFallsShort
    <3>2. todo \in 0 .. MaxCount /\ reader.offset + todo <= position
      BY <1>1, <1>3, <2>2 DEF Min2
    <3> QED
      BY <1>6, <3>1, <3>2
  <2> QED
    BY <2>1, <2>2
<1> QED
  BY <1>5, <1>7, <1>8

\* Whether it comes from memory or from a window of the file, the next piece
\* is copied from where the Read has come to.
LEMMA CopyStep ==
  ASSUME IInv, \/ \E n \in 1 .. MaxCount : CopyFromMemory(n)
               \/ CopyFromFile
  PROVE  \E n \in 1 .. MaxCount, view \in 0 .. NoView :
           /\ n <= reader.todo
           /\ reader.state = "copy"
           /\ reader' = [reader EXCEPT
                           !.view = view,
                           !.bytes = @ \o [k \in 1 .. n |->
                                            content[CurrentOffset + k - 1]],
                           !.todo = @ - n]
           /\ UNCHANGED << inFile, content, position, endOfFile, writer, got >>
<1> USE FileBufferAssumption
<1>1. /\ reader \in ReaderType
      /\ reader.state = "copy"
      /\ reader.bytes \in Seq(0 .. Undefined)
      /\ reader.view \in 0 .. NoView
      /\ reader.offset \in Offsets /\ reader.count \in 0 .. MaxCount
  BY DEF IInv, TypeOK, ReaderType, CopyFromMemory, CopyFromFile
<1>2. reader.todo \in 0 .. MaxCount
  BY <1>1 DEF ReaderType
<1>3. CASE \E n \in 1 .. MaxCount : CopyFromMemory(n)
  <2>1. PICK n \in 1 .. MaxCount : CopyFromMemory(n)
    BY <1>3
  <2>2. /\ n <= reader.todo
        /\ UNCHANGED << inFile, content, position, endOfFile, writer, got >>
    BY <2>1 DEF CopyFromMemory
  <2>3. reader' = [reader EXCEPT
                     !.view = reader.view,
                     !.bytes = @ \o [k \in 1 .. n |->
                                      content[CurrentOffset + k - 1]],
                     !.todo = @ - n]
    BY <1>1, <2>1 DEF CopyFromMemory, ReaderType
  <2> QED
    BY <1>1, <2>2, <2>3
<1>4. CASE CopyFromFile
  <2> DEFINE view == IF NeedsMapping THEN StartPosition ELSE reader.view
             n == Min2(FileViewSize - BytesBeforeOffset, reader.todo)
  <2>1. /\ CurrentOffset \in 0 .. Size
        /\ BytesBeforeOffset \in 0 .. FileViewSize - 1
        /\ BytesBeforeOffset <= CurrentOffset
    <3>1. reader.offset \in Nat /\ Len(reader.bytes) \in Nat
      BY <1>1, LenProperties DEF Offsets
    <3>2. reader.offset + Len(reader.bytes) + reader.todo <= position
          /\ position \in 0 .. Size
      BY <1>1 DEF IInv, TypeOK, ReaderFits
    <3>3. CurrentOffset \in 0 .. Size
      BY <1>2, <3>1, <3>2 DEF CurrentOffset
    <3>4. \A x \in Nat : x % FileViewSize \in 0 .. FileViewSize - 1
                          /\ x % FileViewSize <= x
      OBVIOUS
    <3> QED
      BY <3>3, <3>4 DEF BytesBeforeOffset
  <2>2. view = StartPosition
    BY DEF NeedsMapping
  <2>3. view \in 0 .. NoView
    BY <2>1, <2>2 DEF StartPosition, NoView
  <2>4. /\ reader.todo > 0
        /\ reader' = [reader EXCEPT
                        !.view = view,
                        !.bytes = @ \o [k \in 1 .. n |->
                                   content[view + BytesBeforeOffset + k - 1]],
                        !.todo = @ - n]
        /\ UNCHANGED << inFile, content, position, endOfFile, writer, got >>
    BY <1>4 DEF CopyFromFile
  <2>5. n \in 1 .. MaxCount /\ n <= reader.todo
    BY <1>2, <2>1, <2>4 DEF Min2
  <2>6. \A k \in 1 .. n :
          view + BytesBeforeOffset + k - 1 = CurrentOffset + k - 1
    BY <2>1, <2>2, <2>5 DEF StartPosition
  <2>7. [k \in 1 .. n |-> content[view + BytesBeforeOffset + k - 1]]
          = [k \in 1 .. n |-> content[CurrentOffset + k - 1]]
    BY <2>6
  <2> HIDE DEF view, n
  <2>8. reader' = [reader EXCEPT
                     !.view = view,
                     !.bytes = @ \o [k \in 1 .. n |->
                                      content[CurrentOffset + k - 1]],
                     !.todo = @ - n]
    BY <2>4, <2>7
  <2> QED
    BY <1>1, <2>3, <2>4, <2>5, <2>8
<1> QED
  BY <1>3, <1>4

\* Copying, or failing to, or returning what was copied.
LEMMA ReadCopies ==
  ASSUME IInv,
         \/ \E n \in 1 .. MaxCount : CopyFromMemory(n)
         \/ CopyFromFile \/ MapFails \/ ReadReturns
  PROVE  IInv'
<1> USE FileBufferAssumption
<1>1. /\ reader \in ReaderType
      /\ reader.bytes \in Seq(0 .. Undefined)
      /\ reader.offset \in Offsets /\ reader.count \in 0 .. MaxCount
  BY DEF IInv, TypeOK, ReaderType
<1>4. CASE \/ \E n \in 1 .. MaxCount : CopyFromMemory(n)
           \/ CopyFromFile
  BY <1>4, CopyStep, CopyKeeps
<1>5. CASE MapFails
  <2>1. /\ reader' = [reader EXCEPT !.state = "idle", !.offset = 0,
                         !.count = 0, !.todo = 0, !.bytes = << >>,
                         !.view = NoView]
        /\ UNCHANGED << inFile, content, position, endOfFile, writer, got >>
    BY <1>5 DEF MapFails
  <2>2. /\ reader'.state = "idle"
        /\ reader'.bytes = << >>
    BY <1>1, <2>1 DEF ReaderType
  <2>3. reader' \in ReaderType
    <3>1. /\ 0 \in Offsets /\ 0 \in 0 .. MaxCount /\ NoView \in 0 .. NoView
          /\ << >> \in Seq(0 .. Undefined)
      BY EmptySeq DEF Offsets, NoView
    <3> QED
      BY <1>1, <2>1, <3>1 DEF ReaderType
  <2>4. ReaderFits' /\ NoTornRead'
    BY <2>2 DEF ReaderFits, NoTornRead
  <2>5. got' \in [offset : Offsets, count : 0 .. MaxCount,
                  bytes : Seq(0 .. Undefined)]
    BY <2>1 DEF IInv, TypeOK
  <2> QED
    BY <2>1, <2>3, <2>4, <2>5, ReaderSide
<1>6. CASE ReadReturns
  <2>1. /\ Return(reader.offset, reader.count, reader.bytes)
        /\ UNCHANGED << inFile, content, position, endOfFile, writer >>
    BY <1>6 DEF ReadReturns
  <2> QED
    BY <1>1, <2>1, ReturnKeeps
<1> QED
  BY <1>4, <1>5, <1>6

\* Every step of the writer and of the reader keeps the invariant.
LEMMA StepInv == IInv /\ [Next]_vars => IInv'
<1> SUFFICES ASSUME IInv, [Next]_vars PROVE IInv'
  OBVIOUS
<1>1. CASE Writer
  BY <1>1, AppendBeginsInv, AppendCopiesInv, WriterStopsInv DEF Writer
<1>2. CASE Reader
  BY <1>2, ReadBeginsInv, ReadLeavesLock, ReadCopies DEF Reader, ReaderInside
<1>3. CASE UNCHANGED vars
  BY <1>3 DEF vars, IInv, TypeOK, Written, There, WriterFits,
              ReaderFits, NoTornRead
<1> QED
  BY <1>1, <1>2, <1>3 DEF Next

-----------------------------------------------------------------------------
\* The types of FileBuffer's state.
THEOREM TypeCorrect == Spec => []TypeOK
<1>1. IInv => TypeOK
  BY DEF IInv
<1> QED
  BY <1>1, InitInv, StepInv, PTL DEF Spec

\* Whatever the sizes and however the steps of Append and Read interleave, a
\* Read copies only bytes that were completely written, from their offsets.
THEOREM ReadsAreWhole == Spec => []NoTornRead
<1>1. IInv => NoTornRead
  BY DEF IInv
<1> QED
  BY <1>1, InitInv, StepInv, PTL DEF Spec

-----------------------------------------------------------------------------
(* The refinement.                                                         *)

\* How many bytes a Read that has left the lock will return: what there will
\* ever be of those it asked for, or what came before the end of file.  The
\* file does not grow once it has ended.
Promised ==
    /\ writer.state = "write" => ~endOfFile
    /\ reader.state = "copy" =>
         LET n == Len(reader.bytes) + reader.todo
         IN  \/ n = Stream!Within(Size, reader.offset, reader.count)
             \/ /\ endOfFile
                /\ n = Stream!Within(position, reader.offset, reader.count)

SInv == IInv /\ Promised

\* No step of the writer changes what a Read will return.
LEMMA WriterPromise ==
  ASSUME SInv, Writer
  PROVE  Promised'
<1>1. /\ writer.state = "write" => ~endOfFile
      /\ reader \in ReaderType
      /\ writer \in [state : {"idle", "write"}, pointer : 0 .. Size,
                      todo : 0 .. MaxCount, written : 0 .. MaxCount]
  BY DEF SInv, Promised, IInv, TypeOK, ReaderType
<1>2. /\ reader'.state = "copy" <=> reader.state = "copy"
      /\ reader'.offset = reader.offset
      /\ reader'.count = reader.count
      /\ reader'.todo = reader.todo
      /\ reader'.bytes = reader.bytes
  BY <1>1 DEF Writer, AppendBegins, AppendCopies, AppendThrows, AppendCommits,
              SetEndOfFile, Notify, ReaderType
<1>3. writer'.state = "write" => ~endOfFile'
  BY <1>1 DEF Writer, AppendBegins, AppendCopies, AppendThrows, AppendCommits,
              SetEndOfFile
<1>4. endOfFile => endOfFile' /\ position' = position
  BY <1>1 DEF Writer, AppendBegins, AppendCopies, AppendThrows, AppendCommits,
              SetEndOfFile
<1>5. CASE reader.state # "copy"
  BY <1>2, <1>3, <1>5 DEF Promised
<1>6. CASE reader.state = "copy"
  <2>1. CASE Len(reader.bytes) + reader.todo
               = Stream!Within(Size, reader.offset, reader.count)
    BY <1>2, <1>3, <2>1 DEF Promised
  <2>2. CASE /\ endOfFile
             /\ Len(reader.bytes) + reader.todo
                  = Stream!Within(position, reader.offset, reader.count)
    BY <1>2, <1>3, <1>4, <2>2 DEF Promised, Stream!Within, Stream!Min2
  <2> QED
    BY <1>6, <2>1, <2>2 DEF SInv, Promised
<1> QED
  BY <1>5, <1>6

\* A Read leaves the lock with the number of bytes it will return, and what
\* it copies it no longer has to copy.
LEMMA ReaderPromise ==
  ASSUME SInv, Reader
  PROVE  Promised'
<1> USE FileBufferAssumption
<1>1. /\ reader \in ReaderType
      /\ position \in 0 .. Size
      /\ writer.state = "write" => ~endOfFile
  BY DEF SInv, Promised, IInv, TypeOK, ReaderType
<1>2. UNCHANGED << position, endOfFile, writer >>
  BY DEF Reader, ReaderInside, ReadBegins, ReadSleeps, ReadGoes,
         ReadFallsShort, CopyFromMemory, CopyFromFile, MapFails, ReadReturns
<1>3. /\ reader.offset \in Nat /\ reader.count \in Nat /\ reader.todo \in Nat
      /\ reader.bytes \in Seq(0 .. Undefined)
      /\ Len(reader.bytes) \in Nat
  BY <1>1, LenProperties DEF ReaderType, Offsets
<1>4. CASE reader'.state # "copy"
  BY <1>1, <1>2, <1>4 DEF Promised
<1>5. ASSUME NEW n \in 1 .. MaxCount,
             reader.state = "copy",
             /\ reader'.offset = reader.offset
             /\ reader'.count = reader.count
             /\ Len(reader'.bytes) + reader'.todo
                  = Len(reader.bytes) + reader.todo
      PROVE  Promised'
  <2>1. CASE Len(reader.bytes) + reader.todo
               = Stream!Within(Size, reader.offset, reader.count)
    BY <1>1, <1>2, <1>5, <2>1 DEF Promised
  <2>2. CASE /\ endOfFile
             /\ Len(reader.bytes) + reader.todo
                  = Stream!Within(position, reader.offset, reader.count)
    BY <1>1, <1>2, <1>5, <2>2 DEF Promised, Stream!Within, Stream!Min2
  <2> QED
    BY <1>5, <2>1, <2>2 DEF SInv, Promised
<1>6. CASE \/ \E n \in 1 .. MaxCount : CopyFromMemory(n)
           \/ CopyFromFile
  <2>1. PICK n \in 1 .. MaxCount, view \in 0 .. NoView :
           /\ n <= reader.todo
           /\ reader.state = "copy"
           /\ reader' = [reader EXCEPT
                           !.view = view,
                           !.bytes = @ \o [k \in 1 .. n |->
                                            content[CurrentOffset + k - 1]],
                           !.todo = @ - n]
           /\ UNCHANGED << inFile, content, position, endOfFile, writer, got >>
    BY <1>6, CopyStep DEF SInv
  <2>2. Len(reader'.bytes) = Len(reader.bytes) + n
    BY <2>1, CopyKeeps DEF SInv
  <2>3. /\ reader'.offset = reader.offset
        /\ reader'.count = reader.count
        /\ reader'.todo = reader.todo - n
    BY <1>1, <2>1 DEF ReaderType
  <2>4. Len(reader'.bytes) + reader'.todo = Len(reader.bytes) + reader.todo
    <3>1. (Len(reader.bytes) + n) + (reader.todo - n)
            = Len(reader.bytes) + reader.todo
      BY <1>3
    <3> QED
      BY <2>2, <2>3, <3>1, Zenon
  <2> QED
    BY <1>5, <2>1, <2>3, <2>4
<1>7. ASSUME NEW todo \in Nat, reader.state = "wait",
             reader' = [reader EXCEPT !.state = "copy", !.todo = todo],
             \/ todo = Stream!Within(Size, reader.offset, reader.count)
             \/ /\ endOfFile
                /\ todo = Stream!Within(position, reader.offset, reader.count)
      PROVE  Promised'
  <2>1. reader.bytes = << >>
    BY <1>7 DEF SInv, IInv, ReaderFits
  <2>2. /\ reader'.offset = reader.offset
        /\ reader'.count = reader.count
        /\ reader'.todo = todo
        /\ reader'.bytes = << >>
    BY <1>1, <1>7, <2>1 DEF ReaderType
  <2>3. Len(reader'.bytes) + reader'.todo = todo
    BY <2>2, EmptySeq
  <2>4. CASE todo = Stream!Within(Size, reader.offset, reader.count)
    BY <1>1, <1>2, <2>2, <2>3, <2>4 DEF Promised
  <2>5. CASE /\ endOfFile
             /\ todo = Stream!Within(position, reader.offset, reader.count)
    BY <1>1, <1>2, <2>2, <2>3, <2>5 DEF Promised, Stream!Within, Stream!Min2
  <2> QED
    BY <1>7, <2>4, <2>5
<1>8. CASE ReadGoes
  <2> DEFINE todo == Min2(Size - reader.offset, reader.count)
  <2>1. reader.offset < Size
    BY <1>8 DEF ReadGoes, SInv, IInv, ReaderFits
  <2>2. /\ todo \in Nat
        /\ todo = Stream!Within(Size, reader.offset, reader.count)
    BY <1>3, <2>1 DEF Min2, Stream!Within, Stream!Min2
  <2> QED
    BY <1>7, <1>8, <2>2 DEF ReadGoes
<1>9. CASE ReadFallsShort
  <2>1. CASE position <= reader.offset
    <3>1. reader'.state = "idle"
      BY <1>1, <1>9, <2>1 DEF ReadFallsShort, Return, ReaderType
    <3> QED
      BY <1>4, <3>1
  <2>2. CASE ~(position <= reader.offset)
    <3> DEFINE todo == Min2(position - reader.offset, reader.count)
    <3>1. /\ todo \in Nat
          /\ todo = Stream!Within(position, reader.offset, reader.count)
      BY <1>1, <1>3, <2>2 DEF Min2, Stream!Within, Stream!Min2
    <3>2. /\ reader.state = "wait" /\ endOfFile
          /\ reader' = [reader EXCEPT !.state = "copy", !.todo = todo]
      BY <1>9, <2>2 DEF ReadFallsShort
    <3> QED
      BY <1>7, <3>1, <3>2
  <2> QED
    BY <2>1, <2>2
<1>10. CASE \/ \E offset \in Offsets, count \in 0 .. MaxCount :
                 ReadBegins(offset, count)
            \/ ReadSleeps \/ MapFails \/ ReadReturns
  <2>1. reader'.state # "copy"
    BY <1>1, <1>10 DEF ReadBegins, ReadSleeps, MapFails, ReadReturns, Return,
                       ReaderType
  <2> QED
    BY <1>4, <2>1
<1> QED
  BY <1>6, <1>8, <1>9, <1>10 DEF Reader, ReaderInside

\* The promise holds all the time.
LEMMA PromiseStep == SInv /\ [Next]_vars => SInv'
<1> SUFFICES ASSUME SInv, [Next]_vars PROVE SInv'
  OBVIOUS
<1>1. IInv'
  BY StepInv DEF SInv
<1>2. CASE UNCHANGED vars
  <2>1. Promised'
    BY <1>2 DEF SInv, Promised, vars, Stream!Within, Stream!Min2
  <2> QED
    BY <1>1, <2>1 DEF SInv
<1> QED
  BY <1>1, <1>2, WriterPromise, ReaderPromise DEF SInv, Next

\* A sequence whose k-th byte is the one at offset + k - 1 is a slice.
LEMMA IsSlice ==
  ASSUME NEW bytes \in Seq(0 .. Undefined), NEW offset \in Nat,
         \A k \in DOMAIN bytes : bytes[k] = offset + k - 1
  PROVE  bytes = Stream!Slice(offset, Len(bytes))
<1>1. /\ DOMAIN bytes = 1 .. Len(bytes)
      /\ bytes = [k \in 1 .. Len(bytes) |-> bytes[k]]
  BY LenProperties
<1> QED
  BY <1>1 DEF Stream!Slice

\* The writer's steps grow the stream or close it, or are not seen.
LEMMA WriterRefines ==
  ASSUME SInv, Writer
  PROVE  [Stream!Next]_(Stream!vars)
<1>1. /\ writer \in [state : {"idle", "write"}, pointer : 0 .. Size,
                      todo : 0 .. MaxCount, written : 0 .. MaxCount]
      /\ position \in 0 .. Size
  BY DEF SInv, IInv, TypeOK
<1>2. CASE AppendCommits
  <2>1. /\ writer.state = "write" /\ ~endOfFile
        /\ position' = position + writer.written
        /\ UNCHANGED << endOfFile, got >>
    BY <1>2 DEF AppendCommits, SInv, Promised
  <2>2. position + writer.written + writer.todo <= Size
    BY <2>1 DEF SInv, IInv, WriterFits
  <2>3. position' \in position .. Size
    BY <1>1, <2>1, <2>2, FileBufferAssumption
  <2> QED
    BY <2>1, <2>3 DEF Stream!Next, Stream!Write
<1>3. CASE SetEndOfFile
  BY <1>3 DEF SetEndOfFile, Stream!Next, Stream!Close
<1>4. CASE \/ \E count \in 0 .. MaxCount : AppendBegins(count)
           \/ \E n \in 1 .. MaxCount : AppendCopies(n)
           \/ AppendThrows
  BY <1>4 DEF AppendBegins, AppendCopies, AppendThrows, Stream!vars
<1> QED
  BY <1>2, <1>3, <1>4 DEF Writer

\* A Read that returns is one indivisible Read of the stream; until then it
\* is not seen.
LEMMA ReaderRefines ==
  ASSUME SInv, Reader
  PROVE  [Stream!Next]_(Stream!vars)
<1> USE FileBufferAssumption
<1>1. /\ reader \in ReaderType
      /\ position \in 0 .. Size
      /\ endOfFile \in BOOLEAN
  BY DEF SInv, IInv, TypeOK, ReaderType
<1>2. /\ reader.offset \in Nat /\ reader.count \in Nat /\ reader.todo \in Nat
      /\ reader.bytes \in Seq(0 .. Undefined)
      /\ Len(reader.bytes) \in Nat
  BY <1>1, LenProperties DEF ReaderType, Offsets
<1>3. UNCHANGED << position, endOfFile >>
  BY DEF Reader, ReaderInside, ReadBegins, ReadSleeps, ReadGoes,
         ReadFallsShort, CopyFromMemory, CopyFromFile, MapFails, ReadReturns
<1>4. CASE UNCHANGED got
  BY <1>3, <1>4 DEF Stream!vars
<1>5. ASSUME NEW offset \in Nat, NEW count \in Nat, NEW n \in Nat,
             got' = [offset |-> offset, count |-> count,
                     bytes |-> Stream!Slice(offset, n)],
             n = 0 \/ offset + n <= position,
             \/ n = Stream!Within(Size, offset, count)
             \/ endOfFile /\ n = Stream!Within(position, offset, count)
      PROVE  Stream!Next
  <2>1. got'.offset = offset /\ got'.count = count
    BY <1>5
  <2>2. CASE n = Stream!Within(Size, offset, count)
    BY <1>3, <1>5, <2>1, <2>2 DEF Stream!Next, Stream!Read
  <2>3. CASE endOfFile /\ n = Stream!Within(position, offset, count)
    BY <1>3, <1>5, <2>1, <2>3 DEF Stream!Next, Stream!Read
  <2> QED
    BY <1>5, <2>2, <2>3
<1>6. \A offset \in Nat : << >> = Stream!Slice(offset, 0)
  <2> SUFFICES ASSUME NEW offset \in Nat
               PROVE  << >> = Stream!Slice(offset, 0)
    OBVIOUS
  <2>1. /\ << >> \in Seq(0 .. Undefined)
        /\ Len(<< >>) = 0
    BY EmptySeq
  <2>2. \A k \in DOMAIN << >> : << >>[k] = offset + k - 1
    OBVIOUS
  <2> QED
    BY <2>1, <2>2, IsSlice
<1>7. ASSUME NEW offset \in Offsets, NEW count \in 0 .. MaxCount,
             ReadBegins(offset, count)
      PROVE  [Stream!Next]_(Stream!vars)
  <2>1. CASE offset >= Size
    <3>1. /\ got' = [offset |-> offset, count |-> count,
                     bytes |-> Stream!Slice(offset, 0)]
          /\ offset \in Nat
      BY <1>6, <1>7, <2>1 DEF ReadBegins, Return, Offsets
    <3>2. 0 = Stream!Within(Size, offset, count)
      BY <2>1 DEF Stream!Within
    <3> QED
      BY <1>5, <3>1, <3>2
  <2>2. CASE ~(offset >= Size)
    BY <1>4, <1>7, <2>2 DEF ReadBegins
  <2> QED
    BY <2>1, <2>2
<1>8. CASE ReadFallsShort
  <2>1. CASE position <= reader.offset
    <3>1. /\ got' = [offset |-> reader.offset, count |-> reader.count,
                     bytes |-> Stream!Slice(reader.offset, 0)]
          /\ endOfFile
      BY <1>2, <1>6, <1>8, <2>1 DEF ReadFallsShort, Return
    <3>2. 0 = Stream!Within(position, reader.offset, reader.count)
      BY <2>1 DEF Stream!Within
    <3> QED
      BY <1>2, <1>5, <3>1, <3>2
  <2>2. CASE ~(position <= reader.offset)
    BY <1>4, <1>8, <2>2 DEF ReadFallsShort
  <2> QED
    BY <2>1, <2>2
<1>9. CASE ReadReturns
  <2> DEFINE n == Len(reader.bytes)
  <2>1. /\ reader.state = "copy" /\ reader.todo = 0
        /\ got' = [offset |-> reader.offset, count |-> reader.count,
                   bytes |-> reader.bytes]
    BY <1>9 DEF ReadReturns, Return
  <2>2. reader.bytes = Stream!Slice(reader.offset, n)
    BY <1>2, IsSlice DEF SInv, IInv, NoTornRead
  <2>3. reader.offset + n <= position
    <3>1. reader.offset + n + reader.todo <= position
      BY <2>1 DEF SInv, IInv, ReaderFits
    <3> QED
      BY <1>1, <1>2, <2>1, <3>1
  <2>4. n + reader.todo = n
    BY <1>2, <2>1
  <2>5. \/ n = Stream!Within(Size, reader.offset, reader.count)
        \/ /\ endOfFile
           /\ n = Stream!Within(position, reader.offset, reader.count)
    BY <2>1, <2>4 DEF SInv, Promised
  <2> QED
    BY <1>2, <1>5, <2>1, <2>2, <2>3, <2>5
<1>10. CASE \/ ReadSleeps \/ ReadGoes \/ CopyFromFile \/ MapFails
            \/ \E n \in 1 .. MaxCount : CopyFromMemory(n)
  BY <1>4, <1>10 DEF ReadSleeps, ReadGoes, CopyFromFile, MapFails,
                     CopyFromMemory
<1> QED
  BY <1>7, <1>8, <1>9, <1>10 DEF Reader, ReaderInside

\* However Append and Read interleave, and whether the file is complete, ends
\* early or its temporary file fails: a FileBuffer is the byte stream it
\* promises to be.
THEOREM IsByteStream == Spec => ImplementsByteStream
<1>1. Init => SInv
  BY InitInv DEF SInv, Promised, Init
<1>2. Init => Stream!Init
  BY DEF Init, Stream!Init
<1>3. SInv /\ [Next]_vars => [Stream!Next]_(Stream!vars)
  <2> SUFFICES ASSUME SInv, [Next]_vars
               PROVE  [Stream!Next]_(Stream!vars)
    OBVIOUS
  <2>1. CASE UNCHANGED vars
    BY <2>1 DEF vars, Stream!vars
  <2> QED
    BY <2>1, WriterRefines, ReaderRefines DEF Next
<1> QED
  BY <1>1, <1>2, <1>3, PromiseStep, PTL DEF Spec, ImplementsByteStream,
                                            Stream!Spec
=============================================================================
