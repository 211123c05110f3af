----------------------------- MODULE FileBuffer -----------------------------
(***************************************************************************)
(* streams::FileBuffer (src/streams/FileBuffer.cpp): the bytes of one      *)
(* archive member on their way from the extractor thread, which appends    *)
(* them and sets the end of file, to a gatherer thread, which reads them   *)
(* at any offset and waits for those that are not there yet.               *)
(*                                                                         *)
(* Only `position' and `endOfFile' are read and written under the lock.    *)
(* The bytes themselves are not: a copy is a sequence of steps, byte ranges*)
(* at a time, that interleave with those of the other thread.  Small files *)
(* live in memory, large ones in a temporary file the reader maps window   *)
(* by window.  Byte k of the member is represented by k.                   *)
(***************************************************************************)
EXTENDS Naturals, Sequences

CONSTANTS
    Size,            \* declared size of the member
    MaxBufferSizes,  \* values of settings::maximum_buffer_size
    FileViewSize,    \* size of a mapped window
    MaxCount         \* bound on the bytes of one Append or Read

ASSUME FileBufferAssumption ==
    /\ Size \in Nat
    /\ MaxBufferSizes \subseteq Nat
    /\ FileViewSize \in Nat \ {0}
    /\ MaxCount \in Nat

VARIABLES
    inFile,     \* the bytes are in a temporary file, not in memory
    content,    \* the bytes in memory or on disk, Undefined where not written
    position,   \* bytes that may be read
    endOfFile,
    writer,     \* the Append under way
    reader,     \* the Read under way, and the window it left mapped
    got         \* history: the last Read that returned, and its bytes

vars == << inFile, content, position, endOfFile, writer, reader, got >>

Undefined == Size
NoView == Size + 1
Offsets == 0 .. Size + 1

Min2(a, b) == IF a < b THEN a ELSE b

TypeOK ==
    /\ inFile \in BOOLEAN
    /\ content \in [0 .. Size - 1 -> 0 .. Undefined]
    /\ position \in 0 .. Size
    /\ endOfFile \in BOOLEAN
    /\ writer \in [state : {"idle", "write"}, pointer : 0 .. Size,
                   todo : 0 .. MaxCount, written : 0 .. MaxCount]
    /\ reader \in [state : {"idle", "wait", "asleep", "copy"},
                   offset : Offsets, count : 0 .. MaxCount,
                   todo : 0 .. MaxCount, bytes : Seq(0 .. Undefined),
                   view : 0 .. NoView]
    /\ got \in [offset : Offsets, count : 0 .. MaxCount,
                bytes : Seq(0 .. Undefined)]

\* The constructor: members that are larger than the setting go to a file.
Init ==
    /\ \E limit \in MaxBufferSizes : inFile = (Size > limit)
    /\ content = [k \in 0 .. Size - 1 |-> Undefined]
    /\ position = 0
    /\ endOfFile = FALSE
    /\ writer = [state |-> "idle", pointer |-> 0, todo |-> 0, written |-> 0]
    /\ reader = [state |-> "idle", offset |-> 0, count |-> 0, todo |-> 0,
                 bytes |-> << >>, view |-> NoView]
    /\ got = [offset |-> 0, count |-> 0, bytes |-> << >>]

\* cv.notify_all
Notify == reader' = [reader EXCEPT !.state = IF @ = "asleep" THEN "wait" ELSE @]

-----------------------------------------------------------------------------
(* The writer: Append and SetEndOfFile, both called by the extractor.      *)

\* Mutant: the bytes are not limited to what fits.
AppendAll(count) ==
    /\ writer.state = "idle"
    /\ ~endOfFile
    /\ writer' = [state |-> "write",
                  pointer |-> IF inFile THEN position ELSE writer.pointer,
                  todo |-> count, written |-> 0]
    /\ UNCHANGED << inFile, content, position, endOfFile, reader, got >>

\* Past the checks: limit the bytes to what fits and seek to the position.
\* (After the end of file Append throws, at the full size it returns 0.)
AppendBegins(count) ==
    /\ writer.state = "idle"
    /\ ~endOfFile
    /\ position < Size
    /\ writer' = [state |-> "write",
                  pointer |-> IF inFile THEN position ELSE writer.pointer,
                  todo |-> Min2(Size - position, count), written |-> 0]
    /\ UNCHANGED << inFile, content, position, endOfFile, reader, got >>

\* Where the next byte goes: the file pointer, or the position in memory.
Target == IF inFile THEN writer.pointer ELSE position + writer.written

\* WriteFile takes some of the bytes; so does, at any moment, a memcpy.
AppendCopies(n) ==
    /\ writer.state = "write"
    /\ n <= writer.todo
    /\ content' = [k \in DOMAIN content |->
                     IF k \in Target .. Target + n - 1
                       THEN position + writer.written + (k - Target)
                       ELSE content[k]]
    /\ writer' = [writer EXCEPT
                    !.pointer = IF inFile THEN @ + n ELSE @,
                    !.todo = @ - n, !.written = @ + n]
    /\ UNCHANGED << inFile, position, endOfFile, reader, got >>

\* WriteFile fails: Append throws, the position stays.
AppendThrows ==
    /\ writer.state = "write"
    /\ inFile
    /\ writer.todo > 0
    /\ writer' = [writer EXCEPT !.state = "idle", !.todo = 0, !.written = 0]
    /\ UNCHANGED << inFile, content, position, endOfFile, reader, got >>

\* All is written, or WriteFile wrote nothing: advance under the lock, notify.
AppendCommits ==
    /\ writer.state = "write"
    /\ writer.todo = 0 \/ inFile
    /\ position' = position + writer.written
    /\ writer' = [writer EXCEPT !.state = "idle", !.todo = 0, !.written = 0]
    /\ Notify
    /\ UNCHANGED << inFile, content, endOfFile, got >>

\* Mutant: the end of file is set without notifying the reader.
SetEndOfFileQuietly ==
    /\ writer.state = "idle"
    /\ endOfFile' = TRUE
    /\ UNCHANGED << inFile, content, position, writer, reader, got >>

SetEndOfFile ==
    /\ writer.state = "idle"
    /\ endOfFile' = TRUE
    /\ Notify
    /\ UNCHANGED << inFile, content, position, writer, got >>

-----------------------------------------------------------------------------
(* The reader.                                                             *)

Return(offset, count, bytes) ==
    /\ got' = [offset |-> offset, count |-> count, bytes |-> bytes]
    /\ reader' = [reader EXCEPT !.state = "idle", !.offset = 0, !.count = 0,
                                !.todo = 0, !.bytes = << >>]

ReadBegins(offset, count) ==
    /\ reader.state = "idle"
    /\ IF offset >= Size
         THEN Return(offset, count, << >>)
         ELSE /\ reader' = [reader EXCEPT !.state = "wait", !.offset = offset,
                                          !.count = count]
              /\ UNCHANGED got
    /\ UNCHANGED << inFile, content, position, endOfFile, writer >>

\* The size the file must have for the Read to go on.
RequiredSize == Min2(reader.offset + reader.count, Size)

Ready == position >= RequiredSize \/ endOfFile

ReadSleeps ==
    /\ reader.state = "wait"
    /\ ~Ready
    /\ reader' = [reader EXCEPT !.state = "asleep"]
    /\ UNCHANGED << inFile, content, position, endOfFile, writer, got >>

\* The bytes are there: leave the lock with the number of bytes to copy.
ReadGoes ==
    /\ reader.state = "wait"
    /\ position >= RequiredSize
    /\ reader' = [reader EXCEPT !.state = "copy",
                    !.todo = Min2(Size - reader.offset, reader.count)]
    /\ UNCHANGED << inFile, content, position, endOfFile, writer, got >>

\* Mutant: a file that ended early is read as if it were complete.
ReadAsIfFull ==
    /\ reader.state = "wait"
    /\ endOfFile
    /\ position < RequiredSize
    /\ IF position <= reader.offset
         THEN Return(reader.offset, reader.count, << >>)
         ELSE /\ reader' = [reader EXCEPT !.state = "copy",
                              !.todo = Min2(Size - reader.offset,
                                            reader.count)]
              /\ UNCHANGED got
    /\ UNCHANGED << inFile, content, position, endOfFile, writer >>

\* The end of file came first: what is there has to do.
ReadFallsShort ==
    /\ reader.state = "wait"
    /\ endOfFile
    /\ position < RequiredSize
    /\ IF position <= reader.offset
         THEN Return(reader.offset, reader.count, << >>)
         ELSE /\ reader' = [reader EXCEPT !.state = "copy",
                              !.todo = Min2(position - reader.offset,
                                            reader.count)]
              /\ UNCHANGED got
    /\ UNCHANGED << inFile, content, position, endOfFile, writer >>

CurrentOffset == reader.offset + Len(reader.bytes)

\* One more byte range from memory (a memcpy, at any moment).
CopyFromMemory(n) ==
    /\ reader.state = "copy"
    /\ ~inFile
    /\ n <= reader.todo
    /\ reader' = [reader EXCEPT
                    !.bytes = @ \o [k \in 1 .. n |->
                                     content[CurrentOffset + k - 1]],
                    !.todo = @ - n]
    /\ UNCHANGED << inFile, content, position, endOfFile, writer, got >>

BytesBeforeOffset == CurrentOffset % FileViewSize
StartPosition == CurrentOffset - BytesBeforeOffset

\* Mutant: whatever is mapped will do.
NothingMapped == reader.view = NoView

\* No window is mapped, or not the one the offset is in.
NeedsMapping == reader.view = NoView \/ reader.view # StartPosition

\* One pass of the loop over the windows of the file: map the window if need
\* be, and copy to its end at most.
CopyFromFile ==
    LET view == IF NeedsMapping THEN StartPosition ELSE reader.view
        n == Min2(FileViewSize - BytesBeforeOffset, reader.todo)
    IN /\ reader.state = "copy"
       /\ inFile
       /\ reader.todo > 0
       /\ reader' = [reader EXCEPT
                       !.view = view,
                       !.bytes = @ \o [k \in 1 .. n |->
                                  content[view + BytesBeforeOffset + k - 1]],
                       !.todo = @ - n]
       /\ UNCHANGED << inFile, content, position, endOfFile, writer, got >>

\* MapViewOfFile fails: Read throws, no window is mapped.
MapFails ==
    /\ reader.state = "copy"
    /\ inFile
    /\ reader.todo > 0
    /\ NeedsMapping
    /\ reader' = [reader EXCEPT !.state = "idle", !.offset = 0, !.count = 0,
                                !.todo = 0, !.bytes = << >>, !.view = NoView]
    /\ UNCHANGED << inFile, content, position, endOfFile, writer, got >>

ReadReturns ==
    /\ reader.state = "copy"
    /\ reader.todo = 0
    /\ Return(reader.offset, reader.count, reader.bytes)
    /\ UNCHANGED << inFile, content, position, endOfFile, writer >>

-----------------------------------------------------------------------------
Writer ==
    \/ \E count \in 0 .. MaxCount : AppendBegins(count)
    \/ \E n \in 1 .. MaxCount : AppendCopies(n)
    \/ AppendThrows \/ AppendCommits
    \/ SetEndOfFile

\* What a Read does once it was called.
ReaderInside ==
    \/ ReadSleeps \/ ReadGoes \/ ReadFallsShort
    \/ \E n \in 1 .. MaxCount : CopyFromMemory(n)
    \/ CopyFromFile \/ MapFails \/ ReadReturns

Reader ==
    \/ \E offset \in Offsets, count \in 0 .. MaxCount :
         ReadBegins(offset, count)
    \/ ReaderInside

Next == Writer \/ Reader

Spec == Init /\ [][Next]_vars

\* The gatherer's thread runs; the writer need not do anything.
FairSpec == Spec /\ WF_vars(ReaderInside)

-----------------------------------------------------------------------------
\* Whatever Append does at the same time, a Read copies only bytes that were
\* completely written, each one the byte of its offset: it never sees memory
\* or file contents that are still to come, or another window of the file.
NoTornRead ==
    \A k \in DOMAIN reader.bytes : reader.bytes[k] = reader.offset + k - 1

\* A Read that waits goes on once its bytes are there or the end of file is
\* set: neither Append nor SetEndOfFile forgets to wake it, and it does not
\* wait for more than it needs.
ReadReturnsInTime ==
    reader.state \in {"wait", "asleep"} /\ Ready ~> reader.state = "idle"

Stream == INSTANCE ByteStream WITH
    available <- position, closed <- endOfFile

\* Seen from outside, a FileBuffer is the byte stream it promises to be: the
\* copies of Append and Read happen between two points in time, and their
\* results are those of one indivisible Write and Read.
ImplementsByteStream == Stream!Spec
=============================================================================
