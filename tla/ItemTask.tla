------------------------------ MODULE ItemTask ------------------------------
(***************************************************************************)
(* com::ItemTask (src/com/ItemTask.cpp): the scan of one archive member.   *)
(*                                                                         *)
(* A task is shared by three threads.  The extractor thread constructs it, *)
(* starts it (Run), fills its FileBuffer (Append) and ends it              *)
(* (SetEndOfExtraction); the gatherer, a thread the task owns, runs the    *)
(* sub-filter on the buffer and queues its chunks; the Windows thread      *)
(* takes the chunks (NextChunk) or gives the task up (Abort).              *)
(*                                                                         *)
(* The module holds the state of all tasks of an archive and one operator  *)
(* per operation, parameterised by the task; Filter says who calls them.   *)
(* A critical section and the notify_all that follows it are one step.     *)
(* Chunks are numbered: 0 is the file name, 1 .. MaxChunks come from the   *)
(* sub-filter in that order, ErrorChunk reports that the gatherer failed.  *)
(***************************************************************************)
EXTENDS Naturals, Sequences

CONSTANTS
    NumItems,   \* members of the archive
    MaxSize,    \* size of a member, in units a sub-filter reads
    MaxChunks   \* bound on the chunks one sub-filter emits

ASSUME ItemTaskAssumption ==
    /\ NumItems \in Nat
    /\ MaxSize \in Nat
    /\ MaxChunks \in Nat

VARIABLE task   \* task[i] is the shared state behind ItemTask number i

Items == 1 .. NumItems
NameChunk == 0
ErrorChunk == MaxChunks + 1
Chunks == 0 .. ErrorChunk

\* HRESULTs, as far as FAILED(hr) tells them apart
Codes == {"S_OK", "failed"}

\* Where the gatherer thread is; a std::thread is joinable unless "none".
GathererStates == {"none", "init", "check", "get", "end", "exited"}

TaskRecords ==
    [chunks : Seq(Chunks),            \* the queue guarded by m and cv
     produced : 0 .. MaxChunks,       \* history: chunks the sub-filter gave
     gatherer : GathererStates,
     need : 0 .. MaxSize,             \* bytes the gatherer's Read waits for
     result : Codes,
     isExtractionDone : BOOLEAN,
     wasFilterStarted : BOOLEAN,
     isFilterDone : BOOLEAN,
     aborted : BOOLEAN,
     buffer : {"none", "open", "eof"},  \* the FileBuffer and its endOfFile
     position : 0 .. MaxSize,           \* bytes written to the buffer
     asleep : BOOLEAN,                  \* NextChunk sleeps on cv
     life : {"unused", "made", "queued", "finished"}]  \* history of the task

Unused ==
    [chunks |-> << >>, produced |-> 0, gatherer |-> "none", need |-> 0,
     result |-> "S_OK", isExtractionDone |-> FALSE,
     wasFilterStarted |-> FALSE, isFilterDone |-> FALSE, aborted |-> FALSE,
     buffer |-> "none", position |-> 0, asleep |-> FALSE, life |-> "unused"]

TaskInit == task = [i \in Items |-> Unused]

Joinable(i) == task[i].gatherer # "none"
Running(i) == task[i].gatherer \in GathererStates \ {"none", "exited"}
Drained(i) == task[i].isFilterDone /\ task[i].isExtractionDone

Update(i, r) == task' = [task EXCEPT ![i] = r]

-----------------------------------------------------------------------------
(* The extractor's operations.                                             *)

\* The constructor queues the file name as the first chunk.
Construct(i) ==
    Update(i, [Unused EXCEPT !.chunks = << NameChunk >>, !.life = "made"])

\* The task enters the filter's queue (history only).
Queued(i) == Update(i, [task[i] EXCEPT !.life = "queued"])

\* No handler, a directory, too large, too deep: no gatherer, no stream.
RunRefused(i) == UNCHANGED task

\* The gatherer starts; it first lets the sub-filter read `need' bytes.
RunStarted(i) ==
    /\ ~task[i].wasFilterStarted
    /\ ~task[i].isFilterDone
    /\ \E need \in 0 .. MaxSize :
         Update(i, [task[i] EXCEPT !.buffer = "open", !.gatherer = "init",
                                   !.need = need, !.wasFilterStarted = TRUE])

\* The buffer cannot be allocated, or is there but the thread is not.
RunThrows(i) ==
    /\ ~task[i].wasFilterStarted
    /\ ~task[i].isFilterDone
    /\ \E buffer \in {"none", "open"} :
         Update(i, [task[i] EXCEPT !.buffer = buffer])

\* Mutant: the write is not limited to the declared size.
AlwaysRoom(i) == TRUE

HasRoom(i) == task[i].position < MaxSize

\* WriteStream::Write appends to the buffer and wakes its reader.
AppendBytes(i) ==
    /\ task[i].wasFilterStarted
    /\ task[i].buffer = "open"
    /\ HasRoom(i)
    /\ Update(i, [task[i] EXCEPT !.position = @ + 1])

\* Mutant: nobody finishes a task whose gatherer was never started.
SetOnlyExtractionDone(i) ==
    Update(i, [task[i] EXCEPT !.isExtractionDone = TRUE, !.asleep = FALSE])

\* SetEndOfExtraction, first half: the flags, under the lock, and notify.
SetExtractionDone(i) ==
    Update(i, [task[i] EXCEPT
                 !.isExtractionDone = TRUE,
                 !.isFilterDone = @ \/ ~task[i].wasFilterStarted,
                 !.asleep = FALSE])

\* Mutant: SetEndOfExtraction forgets the buffer.
SetNoEndOfFile(i) == UNCHANGED task

\* SetEndOfExtraction, second half: the end of file, if there is a buffer.
SetEndOfFile(i) ==
    Update(i, [task[i] EXCEPT !.buffer = IF @ = "none" THEN @ ELSE "eof"])

-----------------------------------------------------------------------------
(* The gatherer thread.                                                    *)

\* FileBuffer::Read returns once the bytes are there or never will be.
Readable(i) ==
    task[i].position >= task[i].need \/ task[i].buffer = "eof"

\* The sub-filter is created and initialised with the stream, or fails.
GathererInit(i) ==
    /\ task[i].gatherer = "init"
    /\ Readable(i)
    /\ \/ Update(i, [task[i] EXCEPT !.gatherer = "check", !.need = 0])
       \/ Update(i, [task[i] EXCEPT !.gatherer = "end", !.need = 0,
                                    !.result = "failed"])

\* while (!aborted): ask the sub-filter for a chunk; it may read first.
GathererCheck(i) ==
    /\ task[i].gatherer = "check"
    /\ IF task[i].aborted
         THEN Update(i, [task[i] EXCEPT !.gatherer = "end"])
         ELSE \E need \in 0 .. MaxSize :
                Update(i, [task[i] EXCEPT !.gatherer = "get", !.need = need])

\* Mutant: chunks are put before those that wait.
PushedFront(chunks, c) == << c >> \o chunks

PushedBack(chunks, c) == Append(chunks, c)

\* The sub-filter gave a chunk: queue it and notify.
GathererChunk(i) ==
    /\ task[i].gatherer = "get"
    /\ Readable(i)
    /\ task[i].produced < MaxChunks
    /\ Update(i, [task[i] EXCEPT
                    !.gatherer = "check", !.need = 0,
                    !.produced = @ + 1,
                    !.chunks = PushedBack(@, task[i].produced + 1),
                    !.asleep = FALSE])

\* The sub-filter has no more chunks, or an exception ends the loop.
GathererStop(i) ==
    /\ task[i].gatherer = "get"
    /\ Readable(i)
    /\ \E result \in Codes :
         Update(i, [task[i] EXCEPT !.gatherer = "end", !.need = 0,
                                   !.result = result])

\* Signal the end, under the lock, and notify; the thread exits.
GathererEnd(i) ==
    /\ task[i].gatherer = "end"
    /\ Update(i, [task[i] EXCEPT !.gatherer = "exited",
                                 !.isFilterDone = TRUE, !.asleep = FALSE])

GathererStep(i) ==
    \/ GathererInit(i)
    \/ GathererCheck(i)
    \/ GathererChunk(i)
    \/ GathererStop(i)
    \/ GathererEnd(i)

-----------------------------------------------------------------------------
(* The Windows thread's operations.                                        *)

\* NextChunk finds its predicate false and sleeps.
NextChunkSleeps(i) ==
    /\ ~task[i].asleep
    /\ task[i].chunks = << >>
    /\ ~Drained(i)
    /\ Update(i, [task[i] EXCEPT !.asleep = TRUE])

\* NextChunk takes the first queued chunk.
NextChunkPops(i) ==
    /\ ~task[i].asleep
    /\ task[i].chunks # << >>
    /\ Update(i, [task[i] EXCEPT !.chunks = Tail(@)])

\* Everything is gathered: report the gatherer's failure, once.
NextChunkFails(i) ==
    /\ ~task[i].asleep
    /\ task[i].chunks = << >>
    /\ Drained(i)
    /\ task[i].result = "failed"
    /\ Update(i, [task[i] EXCEPT !.result = "S_OK"])

\* Mutant: the task is let go without joining its gatherer.
NextChunkForgets(i) ==
    /\ ~task[i].asleep
    /\ task[i].chunks = << >>
    /\ Drained(i)
    /\ task[i].result = "S_OK"
    /\ Update(i, [task[i] EXCEPT !.life = "finished"])

\* Nothing is left: join the gatherer and return std::nullopt.
NextChunkEnds(i) ==
    /\ ~task[i].asleep
    /\ task[i].chunks = << >>
    /\ Drained(i)
    /\ task[i].result = "S_OK"
    /\ ~Running(i)
    /\ Update(i, [task[i] EXCEPT !.gatherer = "none", !.life = "finished"])

\* Abort: tell the gatherer to stop ...
AbortSignals(i) == Update(i, [task[i] EXCEPT !.aborted = TRUE])

\* What is still of interest in a task that was given up (history).
Destroyed(i) ==
    [Unused EXCEPT !.life = "finished", !.aborted = task[i].aborted,
                   !.isExtractionDone = task[i].isExtractionDone]

\* ... and join it.  Nobody refers to the task any more.
AbortJoins(i) ==
    /\ ~Running(i)
    /\ Update(i, Destroyed(i))
=============================================================================
