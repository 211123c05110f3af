------------------------------- MODULE Filter -------------------------------
(***************************************************************************)
(* com::Filter (src/com/Filter.cpp): the iFilter of an archive.            *)
(*                                                                         *)
(* The Windows thread (the host) gives it a stream (Initialize, Load) and  *)
(* calls Init, GetChunk and the final Release; Init starts the extractor   *)
(* thread, which runs 7-Zip; 7-Zip calls back GetStream for each archive   *)
(* member.  The two threads share                                          *)
(* `tasks', `extractionFinished', `extractionResult' and `abortExtraction' *)
(* under one mutex and one condition variable; each ItemTask adds a        *)
(* gatherer thread of its own.                                             *)
(*                                                                         *)
(* 7-Zip is external: for each member in ascending order it calls          *)
(* GetStream at most once, writes some of the data to the stream it got,   *)
(* and ends Extract at any time; a failed callback ends Extract with that  *)
(* failure.                                                                *)
(***************************************************************************)
EXTENDS ItemTask, FiniteSets

CONSTANTS
    ConcurrentFilterThreads,  \* the registry setting of that name
    MaxInits,                 \* bound on the host's calls of Init
    GetAfterFailedInit        \* may the host call GetChunk if Init failed

ASSUME FilterAssumption ==
    /\ ConcurrentFilterThreads \in Nat
    /\ MaxInits \in Nat
    /\ GetAfterFailedInit \in BOOLEAN

VARIABLES
    stream,              \* is there a stream to extract
    tasks,               \* queue of items between extractor and Windows
    currentChunkTask,    \* the item GetChunk reads, NoItem if none
    currentExtractTask,  \* the item being extracted, NoItem if none
    currentChunkId,
    extractionFinished,
    extractionResult,
    abortExtraction,
    asleep,              \* threads that sleep on the filter's cv
    extractor,           \* where the extractor thread is
    nextIndex,           \* 7-Zip's cursor
    windows,             \* where the Windows thread is
    call,                \* which entry point runs the abort sequence
    ready,               \* did the last Init succeed
    inits,               \* calls of Init so far
    delivered,           \* history: the last chunk GetChunk returned
    returned             \* history: what kind of result GetChunk returned

NoItem == 0
NothingYet == [id |-> 0, item |-> NoItem, chunk |-> 0]

flags == << extractionFinished, extractionResult, abortExtraction >>
shared == << tasks, flags, asleep >>
extractorVars == << currentExtractTask, extractor, nextIndex >>
reading == << currentChunkTask, currentChunkId >>
host == << stream, call, ready, inits >>
history == << delivered, returned >>
windowsVars == << windows, reading, host, history >>
vars == << task, shared, extractorVars, windowsVars >>

ExtractorStates == {"off", "7zip", "endOfFile", "make", "queue", "run",
                    "fail", "lastEndOfFile", "finish", "exited"}
WindowsStates == {"idle", "join", "abort", "abortJoin", "open", "task",
                  "chunk", "released"}

TypeOK ==
    /\ task \in [Items -> TaskRecords]
    /\ stream \in BOOLEAN
    /\ tasks \in Seq(Items)
    /\ currentChunkTask \in Items \cup {NoItem}
    /\ currentExtractTask \in Items \cup {NoItem}
    /\ currentChunkId \in Nat
    /\ extractionFinished \in BOOLEAN
    /\ extractionResult \in Codes
    /\ abortExtraction \in BOOLEAN
    /\ asleep \in SUBSET {"extractor", "windows"}
    /\ extractor \in ExtractorStates
    /\ nextIndex \in 1 .. NumItems + 1
    /\ windows \in WindowsStates
    /\ call \in {"Init", "Release"}
    /\ ready \in BOOLEAN
    /\ inits \in 0 .. MaxInits
    /\ delivered \in [id : Nat, item : Items \cup {NoItem}, chunk : Chunks]
    /\ returned \in {"none", "chunk", "failed", "end"}

Init ==
    /\ TaskInit
    /\ stream = FALSE
    /\ tasks = << >>
    /\ currentChunkTask = NoItem
    /\ currentExtractTask = NoItem
    /\ currentChunkId = 0
    /\ extractionFinished = FALSE
    /\ extractionResult = "S_OK"
    /\ abortExtraction = FALSE
    /\ asleep = {}
    /\ extractor = "off"
    /\ nextIndex = 1
    /\ windows = "idle"
    /\ call = "Init"
    /\ ready = FALSE
    /\ inits = 0
    /\ delivered = NothingYet
    /\ returned = "none"

-----------------------------------------------------------------------------
(* The stream, given and replaced at any time between two other calls.     *)

\* Bound: after the last Init the stream does not matter any more.
GivesStream(given) ==
    /\ windows = "idle"
    /\ inits < MaxInits
    /\ stream' = given
    /\ UNCHANGED << task, shared, extractorVars, windows, reading, call, ready,
                    inits, history >>

\* Only the first stream is taken, later ones are refused.
Initialize == ~stream /\ GivesStream(TRUE)

\* Load replaces the stream.  A file that cannot be opened leaves none, for
\* the old stream was released before.
Load == GivesStream(TRUE)
LoadFails == GivesStream(FALSE)

\* Without a stream Init returns E_FAIL, and what was extracted before goes on.
InitRefused == windows = "idle" /\ ~stream /\ UNCHANGED vars

-----------------------------------------------------------------------------
(* AbortAnyExtractionOrTasksAndReset, run by Init and by the destructor.   *)

\* Signal the abort under the lock and notify.
SignalAbort(entry) ==
    /\ windows = "idle"
    /\ windows' = "join"
    /\ call' = entry
    /\ abortExtraction' = TRUE
    /\ asleep' = {}
    /\ ready' = FALSE
    /\ UNCHANGED << task, tasks, extractionFinished, extractionResult,
                    extractorVars, reading, stream, history >>

CallInit ==
    /\ inits < MaxInits
    /\ stream
    /\ SignalAbort("Init")
    /\ inits' = inits + 1

CallRelease ==
    /\ SignalAbort("Release")
    /\ UNCHANGED inits

\* Mutant: nobody waits for the extractor.
NeverWaits == TRUE

\* join, if the thread is joinable.
HasEnded == extractor \in {"off", "exited"}

\* Join the extractor if there is one and clear the signal.
JoinExtractor ==
    /\ windows = "join"
    /\ HasEnded
    /\ extractor' = "off"
    /\ abortExtraction' = FALSE
    /\ windows' = "abort"
    /\ UNCHANGED << task, tasks, extractionFinished, extractionResult,
                    asleep, currentExtractTask, nextIndex, reading, host,
                    history >>

\* Abort the current task, then one queued task after the other.
AbortTask ==
    /\ windows = "abort"
    /\ IF currentChunkTask # NoItem
         THEN /\ AbortSignals(currentChunkTask)
              /\ UNCHANGED << tasks, currentChunkTask >>
         ELSE /\ tasks # << >>
              /\ AbortSignals(Head(tasks))
              /\ currentChunkTask' = Head(tasks)
              /\ tasks' = Tail(tasks)
    /\ windows' = "abortJoin"
    /\ UNCHANGED << flags, asleep, extractorVars, currentChunkId, host, history >>

JoinAborted ==
    /\ windows = "abortJoin"
    /\ AbortJoins(currentChunkTask)
    /\ currentChunkTask' = NoItem
    /\ windows' = "abort"
    /\ UNCHANGED << shared, extractorVars, currentChunkId, host, history >>

\* No task is left: forget the chunk and restart the numbering.
Reset ==
    /\ windows = "abort"
    /\ currentChunkTask = NoItem
    /\ tasks = << >>
    /\ currentChunkId' = 0
    /\ delivered' = NothingYet
    /\ returned' = "none"
    /\ windows' = IF call = "Init" THEN "open" ELSE "released"
    /\ UNCHANGED << task, shared, extractorVars, currentChunkTask, host >>

-----------------------------------------------------------------------------
(* The rest of Init: rewind, open the archive, start the extractor.        *)

\* Seek, the archive's class or Open fails: nothing else changes.
OpenFails ==
    /\ windows = "open"
    /\ windows' = "idle"
    /\ UNCHANGED << task, shared, extractorVars, reading, host, history >>

\* std::thread throws after the extraction's state was reset.
StartThreadFails ==
    /\ windows = "open"
    /\ extractionFinished' = FALSE
    /\ extractionResult' = "S_OK"
    /\ windows' = "idle"
    /\ UNCHANGED << task, tasks, abortExtraction, asleep, extractorVars,
                    reading, host, history >>

StartExtractor ==
    /\ windows = "open"
    /\ extractionFinished' = FALSE
    /\ extractionResult' = "S_OK"
    /\ extractor' = "7zip"
    /\ nextIndex' = 1
    /\ ready' = TRUE
    /\ windows' = "idle"
    /\ UNCHANGED << task, tasks, abortExtraction, asleep, currentExtractTask,
                    reading, stream, call, inits, history >>

-----------------------------------------------------------------------------
(* GetChunk.                                                               *)

CallGetChunk ==
    /\ windows = "idle"
    /\ ready \/ (GetAfterFailedInit /\ inits > 0)
    /\ windows' = IF currentChunkTask = NoItem THEN "task" ELSE "chunk"
    /\ UNCHANGED << task, shared, extractorVars, reading, host, history >>

\* Mutant: the end of the extraction is taken for the end of the tasks.
NothingComes == extractionFinished

\* The queue is empty and nothing more will come.
AllTaken == tasks = << >> /\ extractionFinished

\* Neither a task nor the end: sleep on cv.
SleepForTask ==
    /\ windows = "task"
    /\ "windows" \notin asleep
    /\ tasks = << >>
    /\ ~AllTaken
    /\ asleep' = asleep \cup {"windows"}
    /\ UNCHANGED << task, tasks, flags, extractorVars, windowsVars >>

\* Dequeue the next task and tell the extractor.
TakeTask ==
    /\ windows = "task"
    /\ "windows" \notin asleep
    /\ tasks # << >>
    /\ currentChunkTask' = Head(tasks)
    /\ tasks' = Tail(tasks)
    /\ asleep' = {}
    /\ windows' = "chunk"
    /\ UNCHANGED << task, flags, extractorVars, currentChunkId, host, history >>

\* Mutant: the failure is reported but not cleared.
StillFailed == extractionResult

Cleared == "S_OK"

\* Everything was delivered: report the extraction's failure, once.
ReportFailure ==
    /\ windows = "task"
    /\ "windows" \notin asleep
    /\ AllTaken
    /\ extractionResult = "failed"
    /\ extractionResult' = Cleared
    /\ returned' = "failed"
    /\ windows' = "idle"
    /\ UNCHANGED << task, tasks, extractionFinished, abortExtraction, asleep,
                    extractorVars, reading, host, delivered >>

\* FILTER_E_END_OF_CHUNKS, after joining the extractor if it is joinable.
ReportEnd ==
    /\ windows = "task"
    /\ "windows" \notin asleep
    /\ AllTaken
    /\ extractionResult = "S_OK"
    /\ HasEnded
    /\ extractor' = "off"
    /\ returned' = "end"
    /\ windows' = "idle"
    /\ UNCHANGED << task, shared, currentExtractTask, nextIndex, reading, host,
                    delivered >>

\* The current task has nothing to give yet: sleep on the task's cv.
SleepForChunk ==
    /\ windows = "chunk"
    /\ NextChunkSleeps(currentChunkTask)
    /\ UNCHANGED << shared, extractorVars, windowsVars >>

Deliver(chunk) ==
    /\ currentChunkId' = currentChunkId + 1
    /\ delivered' = [id |-> currentChunkId + 1, item |-> currentChunkTask,
                     chunk |-> chunk]
    /\ returned' = "chunk"
    /\ windows' = "idle"
    /\ UNCHANGED << shared, extractorVars, currentChunkTask, host >>

ReturnChunk ==
    /\ windows = "chunk"
    /\ NextChunkPops(currentChunkTask)
    /\ Deliver(Head(task[currentChunkTask].chunks))

ReturnErrorChunk ==
    /\ windows = "chunk"
    /\ NextChunkFails(currentChunkTask)
    /\ Deliver(ErrorChunk)

\* NextChunk returned std::nullopt (the id is used up): fetch the next task.
DropTask ==
    /\ windows = "chunk"
    /\ NextChunkEnds(currentChunkTask)
    /\ currentChunkTask' = NoItem
    /\ currentChunkId' = currentChunkId + 1
    /\ windows' = "task"
    /\ UNCHANGED << shared, extractorVars, host, history >>

-----------------------------------------------------------------------------
(* The extractor thread: 7-Zip and its callbacks.                          *)

\* 7-Zip writes some of the current member's data.
Write ==
    /\ extractor = "7zip"
    /\ currentExtractTask # NoItem
    /\ AppendBytes(currentExtractTask)
    /\ UNCHANGED << shared, extractorVars, windowsVars >>

\* GetStream to skip or test a member has no effect.
GetStreamSkip ==
    /\ extractor = "7zip"
    /\ nextIndex <= NumItems
    /\ nextIndex' = nextIndex + 1
    /\ UNCHANGED << task, shared, currentExtractTask, extractor, windowsVars >>

\* Mutant: the previous task is replaced without being ended.
NeverPending == FALSE

IsPending == currentExtractTask # NoItem

\* GetStream to extract a member begins by ending the previous task, if any.
GetStream ==
    /\ extractor = "7zip"
    /\ nextIndex <= NumItems
    /\ IF IsPending
         THEN /\ SetExtractionDone(currentExtractTask)
              /\ extractor' = "endOfFile"
         ELSE /\ extractor' = "make"
              /\ UNCHANGED task
    /\ UNCHANGED << shared, currentExtractTask, nextIndex, windowsVars >>

EndPrevious ==
    /\ extractor = "endOfFile"
    /\ SetEndOfFile(currentExtractTask)
    /\ currentExtractTask' = NoItem
    /\ extractor' = "make"
    /\ UNCHANGED << shared, nextIndex, windowsVars >>

\* The description of the member is read and its task constructed.
MakeTask ==
    /\ extractor = "make"
    /\ Construct(nextIndex)
    /\ currentExtractTask' = nextIndex
    /\ nextIndex' = nextIndex + 1
    /\ extractor' = "queue"
    /\ UNCHANGED << shared, windowsVars >>

\* Reading the description or allocating the task throws.
MakeTaskFails ==
    /\ extractor = "make"
    /\ extractor' = "fail"
    /\ UNCHANGED << task, shared, currentExtractTask, nextIndex, windowsVars >>

\* Mutant: one task too many.
MayQueueOneMore ==
    Len(tasks) <= ConcurrentFilterThreads + 1 \/ abortExtraction

\* Mutant: an abort does not wake the extractor.
MayQueueIfRoom == Len(tasks) <= ConcurrentFilterThreads

\* What GetStream waits for: room in the queue, or an abort.
MayQueue == Len(tasks) <= ConcurrentFilterThreads \/ abortExtraction

SleepForQueue ==
    /\ extractor = "queue"
    /\ "extractor" \notin asleep
    /\ ~MayQueue
    /\ asleep' = asleep \cup {"extractor"}
    /\ UNCHANGED << task, tasks, flags, extractorVars, windowsVars >>

\* Mutant: the task is queued although the filter is aborting.
NeverRefuses == FALSE

Refuses == abortExtraction

\* When the filter is aborting, E_ABORT ends the whole extraction, not just
\* this member.  So does, at any time, an exception: the limit is read from the
\* registry whenever the condition is looked at, and enqueuing takes memory.
RefuseTask ==
    /\ extractor = "queue"
    /\ "extractor" \notin asleep
    /\ extractor' = "fail"
    /\ UNCHANGED << task, shared, currentExtractTask, nextIndex, windowsVars >>

\* Enqueue the task before it is started, and let GetChunk know.
QueueTask ==
    /\ extractor = "queue"
    /\ "extractor" \notin asleep
    /\ MayQueue
    /\ ~Refuses
    /\ tasks' = Append(tasks, currentExtractTask)
    /\ Queued(currentExtractTask)
    /\ asleep' = {}
    /\ extractor' = "run"
    /\ UNCHANGED << flags, currentExtractTask, nextIndex, windowsVars >>

\* Run: a gatherer was started, or refused, or starting it threw; even with
\* the gatherer started, making the WriteStream may throw.
RunTask ==
    /\ extractor = "run"
    /\ \/ /\ RunStarted(currentExtractTask)
          /\ extractor' \in {"7zip", "fail"}
       \/ /\ RunRefused(currentExtractTask)
          /\ extractor' = "7zip"
       \/ /\ RunThrows(currentExtractTask)
          /\ extractor' = "fail"
    /\ UNCHANGED << shared, currentExtractTask, nextIndex, windowsVars >>

\* Extract and Close return, or one of them fails; end the last task, if any.
ExtractEnds ==
    /\ extractor \in {"7zip", "fail"}
    /\ extractionResult' \in Codes
    /\ extractor = "fail" => extractionResult' = "failed"
    /\ IF currentExtractTask # NoItem
         THEN /\ SetExtractionDone(currentExtractTask)
              /\ extractor' = "lastEndOfFile"
         ELSE /\ extractor' = "finish"
              /\ UNCHANGED task
    /\ UNCHANGED << tasks, extractionFinished, abortExtraction, asleep,
                    currentExtractTask, nextIndex, windowsVars >>

EndLast ==
    /\ extractor = "lastEndOfFile"
    /\ SetEndOfFile(currentExtractTask)
    /\ currentExtractTask' = NoItem
    /\ extractor' = "finish"
    /\ UNCHANGED << shared, nextIndex, windowsVars >>

\* Signal the end under the lock and notify; the thread exits.
Finish ==
    /\ extractor = "finish"
    /\ extractionFinished' = TRUE
    /\ asleep' = {}
    /\ extractor' = "exited"
    /\ UNCHANGED << task, tasks, extractionResult, abortExtraction,
                    currentExtractTask, nextIndex, windowsVars >>

-----------------------------------------------------------------------------
Extractor ==
    \/ Write \/ GetStreamSkip \/ GetStream \/ EndPrevious
    \/ MakeTask \/ MakeTaskFails
    \/ SleepForQueue \/ RefuseTask \/ QueueTask \/ RunTask
    \/ ExtractEnds \/ EndLast \/ Finish

\* What the Windows thread does once a call has entered the filter.
WindowsInside ==
    \/ JoinExtractor \/ AbortTask \/ JoinAborted \/ Reset
    \/ OpenFails \/ StartThreadFails \/ StartExtractor
    \/ SleepForTask \/ TakeTask \/ ReportFailure \/ ReportEnd
    \/ SleepForChunk \/ ReturnChunk \/ ReturnErrorChunk \/ DropTask

\* What the host calls next is up to it.
Calls ==
    \/ Initialize \/ Load \/ LoadFails \/ InitRefused
    \/ CallInit \/ CallRelease \/ CallGetChunk

Windows == Calls \/ WindowsInside

Gatherer(i) ==
    /\ GathererStep(i)
    /\ UNCHANGED << shared, extractorVars, windowsVars >>

\* After the final Release there is no filter any more.
Released == windows = "released" /\ UNCHANGED vars

Next ==
    \/ Windows
    \/ Extractor
    \/ \E i \in Items : Gatherer(i)
    \/ Released

Spec == Init /\ [][Next]_vars

\* Every thread that can run does; the host need not call anything.
FairSpec ==
    /\ Spec
    /\ WF_vars(WindowsInside)
    /\ WF_vars(Extractor)
    /\ \A i \in Items : WF_vars(Gatherer(i))

-----------------------------------------------------------------------------
(* Safety.                                                                 *)

\* The items the Windows thread can still reach, and so abort or drain.
Owned ==
    {tasks[k] : k \in DOMAIN tasks} \cup ({currentChunkTask} \ {NoItem})

\* A gatherer that was started and not joined belongs to a task that is in
\* the queue or being read: GetStream queues a task before it runs it, and
\* neither GetChunk nor the abort sequence lets go of one before joining (a
\* joinable std::thread that is destroyed would terminate the process).
NoOrphanGatherer == \A i \in Items : Joinable(i) => i \in Owned

\* At most ConcurrentFilterThreads + 2 gatherers run at any time: the queue
\* holds one more than the setting (GetStream compares with <= before it
\* pushes), and one task has been taken out by GetChunk.  README.md:35 calls
\* the setting itself `the number of contained files it scans simultaneously'.
ThreadBound ==
    Cardinality({i \in Items : Running(i)}) <= ConcurrentFilterThreads + 2

\* The contract of ItemTask.hpp: a task both sides have let go of was told
\* that its extraction ended, and either it was aborted or drained, or (when
\* GetStream refused or failed to queue it) it never had a gatherer.
TaskContract ==
    \A i \in Items :
        task[i].life # "unused" /\ i \notin Owned \cup {currentExtractTask} =>
            /\ task[i].isExtractionDone
            /\ \/ task[i].life = "finished"
               \/ task[i].life = "made" /\ ~task[i].wasFilterStarted

\* Once the extractor has ended, every gatherer's input has ended too: the
\* joins of the abort sequence and of GetChunk never wait for a sub-filter
\* that waits for data nobody will write.
AbortCannotBlock ==
    extractor \in {"off", "exited"} =>
        \A i \in Items : Joinable(i) => task[i].buffer = "eof"

\* The members Init and GetChunk touch without the lock (archive,
\* attributes, extractionFinished in Init, extractionResult in GetChunk) are
\* touched only while no extractor thread uses them.
NoDataRace ==
    /\ windows \in {"abort", "abortJoin", "open", "released"} =>
           extractor = "off" /\ currentExtractTask = NoItem
    /\ windows = "task" /\ AllTaken => extractor \in {"off", "exited"}

\* FILTER_E_END_OF_CHUNKS is returned only when no gatherer is left and every
\* task of the extraction was drained: no chunk and no failure of a member
\* is lost, although extractor, gatherers and GetChunk run concurrently.
EndIsComplete ==
    returned = "end" =>
        /\ extractor = "off"
        /\ \A i \in Items :
             /\ ~Joinable(i)
             /\ task[i].life # "queued"
             /\ task[i].life = "finished" /\ ~task[i].aborted =>
                    task[i].chunks = << >> /\ task[i].result = "S_OK"

\* GetChunk hands out chunks under increasing ids, member after member; of a
\* member the name first, then the sub-filter's chunks in its order without
\* a gap, then possibly its failure; and a member is left only when it has
\* nothing more to give.  Only Init starts again.
ChunksInOrder ==
    [][delivered' # delivered /\ delivered' # NothingYet =>
         /\ delivered'.id > delivered.id
         /\ IF delivered'.item = delivered.item
              THEN /\ delivered.chunk # ErrorChunk
                   /\ delivered'.chunk \in {delivered.chunk + 1, ErrorChunk}
              ELSE /\ delivered'.item > delivered.item
                   /\ delivered'.chunk = NameChunk
                   /\ delivered.item # NoItem =>
                        /\ task[delivered.item].chunks = << >>
                        /\ Drained(delivered.item)
      ]_vars

\* After the end GetChunk returns nothing but the end, and the extraction's
\* failure is returned once: after it there are no chunks, only the end.
OutcomeIsFinal ==
    [][/\ returned = "end" => returned' \in {"end", "none"}
       /\ returned = "failed" => returned' # "chunk"
       /\ ReportFailure => returned # "failed"]_vars

-----------------------------------------------------------------------------
(* Liveness, under FairSpec.                                               *)

\* Every call of GetChunk returns, whatever 7-Zip and the sub-filters do as
\* long as they terminate, and however full the queue is.
GetChunkReturns == windows \in {"task", "chunk"} ~> windows = "idle"

\* The abort sequence of Init and of the final Release ends, wherever the
\* extractor and the gatherers were.
AbortReturns == windows = "join" ~> windows \in {"idle", "released"}

-----------------------------------------------------------------------------
(* The filter implements the stream of chunks it promises.                 *)

\* A member's pending chunks; a gatherer's failure is delivered last.
Lane(i) ==
    [item |-> i,
     chunks |-> task[i].chunks \o
                (IF task[i].result = "failed" THEN << ErrorChunk >>
                                              ELSE << >>),
     open |-> ~Drained(i)]

Lanes ==
    LET queue == (IF currentChunkTask = NoItem THEN << >>
                                               ELSE << currentChunkTask >>)
                 \o tasks
    IN [k \in DOMAIN queue |-> Lane(queue[k])]

Phase ==
    IF ~ready THEN "stopped"
    ELSE IF extractionFinished THEN "finished" ELSE "extracting"

Stream == INSTANCE ChunkStream WITH
    lanes <- Lanes, phase <- Phase

\* Every step of the threads is a step of the abstract stream or none.
ImplementsStream == Stream!Spec
=============================================================================
