---------------------------- MODULE FilterProofs ----------------------------
(***************************************************************************)
(* Proofs about Filter, for any number of members, bytes and chunks, any   *)
(* setting of ConcurrentFilterThreads and any number of Inits.             *)
(*                                                                         *)
(* The invariant has three parts beside the types.  Control: which         *)
(* current tasks are set, by where the threads are.  Ownership: what holds *)
(* of tasks with a gatherer and of the extractor's task, among others that *)
(* only the latter's buffer is open.  NoOrphanGatherer: a gatherer that is *)
(* not joined belongs to a task GetChunk or the abort sequence will reach. *)
(*                                                                         *)
(* On top of it stand LetGo (in which state both sides let go of a task),  *)
(* QueueBound (how far ahead the extractor runs) and Over (what is left    *)
(* once GetChunk has reported the failure or the end).                     *)
(*                                                                         *)
(* InOrder says which chunks wait and which were delivered: of each task   *)
(* (Lined), of the queue (InQueue) and of the current member (Handed).     *)
(* With ReadyInv (when there is anything to deliver) every step maps to a  *)
(* step of ChunkStream or to none: Line is the order of the members, and   *)
(* LanesFacts says what their lanes show of the tasks.                     *)
(***************************************************************************)
EXTENDS Filter, TLAPS, FiniteSetTheorems, SequenceTheorems

\* An operation of a task that makes a proper task of it keeps the others.
LEMMA UpdateType ==
  ASSUME NEW i \in Items, NEW r \in TaskRecords,
         task \in [Items -> TaskRecords], Update(i, r)
  PROVE  task' \in [Items -> TaskRecords]
BY DEF Update

\* What the extractor and the abort sequence do to a task keeps its type.
LEMMA ExtractorOpsType ==
  ASSUME NEW i \in Items, task \in [Items -> TaskRecords],
         \/ Construct(i) \/ Queued(i) \/ RunStarted(i) \/ RunThrows(i)
         \/ AppendBytes(i) \/ SetExtractionDone(i) \/ SetEndOfFile(i)
         \/ AbortSignals(i) \/ AbortJoins(i)
  PROVE  task' \in [Items -> TaskRecords]
<1>a. task[i] \in TaskRecords
  OBVIOUS
<1>1. CASE Construct(i)
  <2>a. << NameChunk >> \in Seq(Chunks)
    BY ItemTaskAssumption DEF Chunks, NameChunk, ErrorChunk
  <2>b. 0 \in 0 .. MaxSize /\ 0 \in 0 .. MaxChunks
    BY ItemTaskAssumption
  <2>c. Unused \in TaskRecords
    BY <2>b DEF Unused, TaskRecords, Codes, GathererStates
  <2>1. [Unused EXCEPT !.chunks = << NameChunk >>, !.life = "made"]
            \in TaskRecords
    BY <2>a, <2>c DEF TaskRecords
  <2> QED BY <1>1, <2>1, UpdateType DEF Construct
<1>2. CASE Queued(i)
  <2>1. [task[i] EXCEPT !.life = "queued"] \in TaskRecords
    BY <1>a DEF TaskRecords
  <2> QED BY <1>2, <2>1, UpdateType DEF Queued
<1>3. CASE RunStarted(i)
  BY <1>a, <1>3, UpdateType DEF RunStarted, TaskRecords, GathererStates
<1>4. CASE RunThrows(i)
  BY <1>a, <1>4, UpdateType DEF RunThrows, TaskRecords
<1>5. CASE AppendBytes(i)
  <2>1. task[i].position + 1 \in 0 .. MaxSize
    BY <1>a, <1>5, ItemTaskAssumption DEF AppendBytes, HasRoom, TaskRecords
  <2>2. [task[i] EXCEPT !.position = @ + 1] \in TaskRecords
    BY <1>a, <2>1 DEF TaskRecords
  <2> QED BY <1>5, <2>2, UpdateType DEF AppendBytes
<1>6. CASE SetExtractionDone(i)
  BY <1>a, <1>6, UpdateType DEF SetExtractionDone, TaskRecords
<1>7. CASE SetEndOfFile(i)
  BY <1>a, <1>7, UpdateType DEF SetEndOfFile, TaskRecords
<1>8. CASE AbortSignals(i)
  BY <1>a, <1>8, UpdateType DEF AbortSignals, TaskRecords
<1>9. CASE AbortJoins(i)
  <2>1. Unused \in TaskRecords
    BY ItemTaskAssumption DEF Unused, TaskRecords, Codes, GathererStates
  <2>2. Destroyed(i) \in TaskRecords
    BY <1>a, <2>1 DEF Destroyed, TaskRecords
  <2> QED BY <1>9, <2>2, UpdateType DEF AbortJoins
<1> QED BY <1>1, <1>2, <1>3, <1>4, <1>5, <1>6, <1>7, <1>8, <1>9

\* What GetChunk does to a task keeps its type.
LEMMA ConsumerOpsType ==
  ASSUME NEW i \in Items, task \in [Items -> TaskRecords],
         \/ NextChunkSleeps(i) \/ NextChunkPops(i) \/ NextChunkFails(i)
         \/ NextChunkEnds(i)
  PROVE  task' \in [Items -> TaskRecords]
<1>a. task[i] \in TaskRecords
  OBVIOUS
<1>1. CASE NextChunkSleeps(i)
  BY <1>a, <1>1, UpdateType DEF NextChunkSleeps, TaskRecords
<1>2. CASE NextChunkPops(i)
  <2>1. Tail(task[i].chunks) \in Seq(Chunks)
    BY <1>a, <1>2 DEF NextChunkPops, TaskRecords
  <2>2. [task[i] EXCEPT !.chunks = Tail(@)] \in TaskRecords
    BY <1>a, <2>1 DEF TaskRecords
  <2> QED BY <1>2, <2>2, UpdateType DEF NextChunkPops
<1>3. CASE NextChunkFails(i)
  BY <1>a, <1>3, UpdateType DEF NextChunkFails, TaskRecords, Codes
<1>4. CASE NextChunkEnds(i)
  BY <1>a, <1>4, UpdateType DEF NextChunkEnds, TaskRecords, GathererStates
<1> QED BY <1>1, <1>2, <1>3, <1>4

\* What a task's own gatherer does keeps its type.
LEMMA GathererType ==
  ASSUME NEW i \in Items, task \in [Items -> TaskRecords], GathererStep(i)
  PROVE  task' \in [Items -> TaskRecords]
<1>a. task[i] \in TaskRecords
  OBVIOUS
<1>b. 0 \in 0 .. MaxSize
  BY ItemTaskAssumption
<1>1. CASE GathererInit(i)
  BY <1>a, <1>b, <1>1, UpdateType
     DEF GathererInit, TaskRecords, GathererStates, Codes
<1>2. CASE GathererCheck(i)
  BY <1>a, <1>2, UpdateType DEF GathererCheck, TaskRecords, GathererStates
<1>3. CASE GathererChunk(i)
  <2>1. task[i].produced + 1 \in 0 .. MaxChunks /\ task[i].produced + 1 \in Chunks
    BY <1>a, <1>3, ItemTaskAssumption
       DEF GathererChunk, TaskRecords, Chunks, ErrorChunk
  <2>2. Append(task[i].chunks, task[i].produced + 1) \in Seq(Chunks)
    BY <1>a, <2>1 DEF TaskRecords
  <2>3. [task[i] EXCEPT !.gatherer = "check", !.need = 0,
                        !.produced = @ + 1,
                        !.chunks = Append(@, task[i].produced + 1),
                        !.asleep = FALSE] \in TaskRecords
    BY <1>a, <1>b, <2>1, <2>2 DEF TaskRecords, GathererStates
  <2> QED BY <1>3, <2>3, UpdateType DEF GathererChunk, PushedBack
<1>4. CASE GathererStop(i)
  BY <1>a, <1>b, <1>4, UpdateType DEF GathererStop, TaskRecords, GathererStates
<1>5. CASE GathererEnd(i)
  BY <1>a, <1>5, UpdateType DEF GathererEnd, TaskRecords, GathererStates
<1> QED BY <1>1, <1>2, <1>3, <1>4, <1>5 DEF GathererStep

-----------------------------------------------------------------------------
(* Where each thread is tells which of its variables are set.              *)

Control ==
    /\ extractor \in {"queue", "run", "endOfFile", "lastEndOfFile"} =>
           currentExtractTask # NoItem
    /\ extractor \in {"endOfFile", "make"} => nextIndex <= NumItems
    /\ windows \in {"chunk", "abortJoin"} => currentChunkTask # NoItem
    /\ windows = "task" => currentChunkTask = NoItem

\* A new Filter has neither tasks nor an extractor.
LEMMA InitType == Init => TypeOK /\ Control
<1> SUFFICES ASSUME Init PROVE TypeOK /\ Control
  OBVIOUS
<1> USE ItemTaskAssumption, FilterAssumption
<1>1. Unused \in TaskRecords
  BY DEF Unused, TaskRecords, Codes, GathererStates
<1>2. NothingYet \in [id : Nat, item : Items \cup {NoItem}, chunk : Chunks]
  BY DEF NothingYet, NoItem, Chunks, ErrorChunk
<1>3. 1 \in 1 .. NumItems + 1 /\ 0 \in 0 .. MaxInits
  OBVIOUS
<1>4. task \in [Items -> TaskRecords]
  BY <1>1 DEF Init, TaskInit
<1>5. TypeOK
  <2>1. /\ tasks \in Seq(Items)
        /\ currentChunkTask \in Items \cup {NoItem}
        /\ currentExtractTask \in Items \cup {NoItem}
        /\ currentChunkId \in Nat
        /\ nextIndex \in 1 .. NumItems + 1
        /\ inits \in 0 .. MaxInits
        /\ delivered \in [id : Nat, item : Items \cup {NoItem}, chunk : Chunks]
    BY <1>2, <1>3 DEF Init
  <2>2. /\ stream \in BOOLEAN
        /\ extractionFinished \in BOOLEAN
        /\ extractionResult \in Codes
        /\ abortExtraction \in BOOLEAN
        /\ asleep \in SUBSET {"extractor", "windows"}
        /\ extractor \in ExtractorStates
        /\ windows \in WindowsStates
        /\ call \in {"Init", "Release"}
        /\ ready \in BOOLEAN
        /\ returned \in {"none", "chunk", "failed", "end"}
    BY DEF Init, Codes, ExtractorStates, WindowsStates
  <2> QED
    BY <1>4, <2>1, <2>2 DEF TypeOK
<1>6. Control
  BY DEF Init, Control
<1> QED
  BY <1>5, <1>6

\* The types of what has few values, when the rest stays as it was.
LEMMA SmallTypes ==
  ASSUME TypeOK,
         UNCHANGED << task, tasks, extractionFinished, extractionResult,
                      currentExtractTask, nextIndex, currentChunkTask,
                      currentChunkId, stream, delivered, returned >>,
         abortExtraction' \in BOOLEAN, asleep' \in SUBSET {"extractor", "windows"},
         extractor' \in ExtractorStates, windows' \in WindowsStates,
         call' \in {"Init", "Release"}, ready' \in BOOLEAN, inits' \in 0 .. MaxInits
  PROVE  TypeOK'
  BY DEF TypeOK

\* Every step keeps the types; the order of the cases is that of Next.
LEMMA TypeStep ==
  ASSUME TypeOK, Control, [Next]_vars
  PROVE  TypeOK'
<1> USE ItemTaskAssumption, FilterAssumption
    DEF TypeOK, Control, NoItem, flags, shared, extractorVars, reading, host,
        history, windowsVars, Codes, ExtractorStates, WindowsStates
<1>1. CASE CallInit
  <2>1. inits' \in 0 .. MaxInits
    BY <1>1 DEF CallInit
  <2>2. /\ windows' = "join" /\ call' = "Init" /\ ready' = FALSE
        /\ abortExtraction' = TRUE /\ asleep' = {}
        /\ UNCHANGED << task, tasks, extractionFinished, extractionResult,
                        currentExtractTask, extractor, nextIndex,
                        currentChunkTask, currentChunkId, stream,
                        delivered, returned >>
    BY <1>1 DEF CallInit, SignalAbort
  <2> QED
    BY <2>1, <2>2, SmallTypes
<1>2. CASE CallRelease
  <2>1. /\ windows' = "join" /\ call' = "Release" /\ ready' = FALSE
        /\ abortExtraction' = TRUE /\ asleep' = {}
        /\ UNCHANGED << task, tasks, extractionFinished, extractionResult,
                        currentExtractTask, extractor, nextIndex,
                        currentChunkTask, currentChunkId, stream, inits,
                        delivered, returned >>
    BY <1>2 DEF CallRelease, SignalAbort
  <2>2. inits' \in 0 .. MaxInits
    BY <2>1
  <2> QED
    BY <2>1, <2>2, SmallTypes
<1>3. CASE JoinExtractor
  <2>1. /\ extractor' = "off" /\ abortExtraction' = FALSE /\ windows' = "abort"
        /\ UNCHANGED << task, tasks, extractionFinished, extractionResult,
                        asleep, currentExtractTask, nextIndex, currentChunkTask,
                        currentChunkId, stream, call, ready, inits, delivered,
                        returned >>
    BY <1>3 DEF JoinExtractor
  <2> QED
    BY <2>1, SmallTypes
<1>4. CASE AbortTask
  <2>1. task' \in [Items -> TaskRecords]
    BY <1>4, ExtractorOpsType DEF AbortTask
  <2>2. /\ tasks' \in Seq(Items)
        /\ currentChunkTask' \in Items \cup {NoItem}
    <3>1. CASE currentChunkTask # NoItem
      BY <1>4, <3>1 DEF AbortTask
    <3>2. CASE currentChunkTask = NoItem
      <4>1. /\ tasks # << >>
            /\ currentChunkTask' = Head(tasks)
            /\ tasks' = Tail(tasks)
        BY <1>4, <3>2 DEF AbortTask
      <4> QED
        BY <4>1
    <3> QED
      BY <3>1, <3>2
  <2> QED
    BY <1>4, <2>1, <2>2 DEF AbortTask
<1>5. CASE JoinAborted
  <2>1. task' \in [Items -> TaskRecords]
    BY <1>5, ExtractorOpsType DEF JoinAborted
  <2> QED
    BY <1>5, <2>1 DEF JoinAborted
<1>6. CASE Reset
  <2>1. NothingYet \in [id : Nat, item : Items \cup {NoItem}, chunk : Chunks]
    BY DEF NothingYet, Chunks, ErrorChunk
  <2> QED
    BY <1>6, <2>1 DEF Reset
<1>7. CASE OpenFails
  BY <1>7 DEF OpenFails
<1>8. CASE StartThreadFails
  <2>1. extractionFinished' \in BOOLEAN /\ extractionResult' \in Codes
    BY <1>8 DEF StartThreadFails
  <2> QED
    BY <1>8, <2>1, SMTT(30) DEF StartThreadFails
<1>9. CASE StartExtractor
  <2>1. 1 \in 1 .. NumItems + 1
    OBVIOUS
  <2> QED
    BY <1>9, <2>1 DEF StartExtractor
<1>10. CASE CallGetChunk
  BY <1>10 DEF CallGetChunk
<1>11. CASE SleepForTask
  BY <1>11 DEF SleepForTask
<1>12. CASE TakeTask
  BY <1>12 DEF TakeTask
<1>13. CASE ReportFailure
  BY <1>13 DEF ReportFailure, Cleared
<1>14. CASE ReportEnd
  BY <1>14 DEF ReportEnd, HasEnded
<1>15. CASE SleepForChunk
  <2>1. task' \in [Items -> TaskRecords]
    BY <1>15, ConsumerOpsType DEF SleepForChunk
  <2> QED
    BY <1>15, <2>1 DEF SleepForChunk
<1>16. CASE ReturnChunk
  <2>1. task' \in [Items -> TaskRecords]
    BY <1>16, ConsumerOpsType DEF ReturnChunk
  <2>2. Head(task[currentChunkTask].chunks) \in Chunks
    <3>1. currentChunkTask \in Items /\ task[currentChunkTask].chunks # << >>
      BY <1>16 DEF ReturnChunk, NextChunkPops
    <3>2. task[currentChunkTask].chunks \in Seq(Chunks)
      BY <3>1 DEF TaskRecords
    <3> HIDE DEF TypeOK, Control
    <3> QED
      BY <3>1, <3>2
  <2> QED
    BY <1>16, <2>1, <2>2 DEF ReturnChunk, Deliver
<1>17. CASE ReturnErrorChunk
  <2>1. task' \in [Items -> TaskRecords]
    BY <1>17, ConsumerOpsType DEF ReturnErrorChunk
  <2>2. ErrorChunk \in Chunks
    BY DEF ErrorChunk, Chunks
  <2> QED
    BY <1>17, <2>1, <2>2 DEF ReturnErrorChunk, Deliver
<1>18. CASE DropTask
  <2>1. task' \in [Items -> TaskRecords]
    BY <1>18, ConsumerOpsType DEF DropTask
  <2> QED
    BY <1>18, <2>1 DEF DropTask
<1>19. CASE Write
  <2>1. task' \in [Items -> TaskRecords]
    BY <1>19, ExtractorOpsType DEF Write
  <2> QED
    BY <1>19, <2>1 DEF Write
<1>20. CASE GetStreamSkip
  BY <1>20 DEF GetStreamSkip
<1>21. CASE GetStream
  <2>1. task' \in [Items -> TaskRecords]
    BY <1>21, ExtractorOpsType DEF GetStream, IsPending
  <2> QED
    BY <1>21, <2>1 DEF GetStream, IsPending
<1>22. CASE EndPrevious
  <2>1. task' \in [Items -> TaskRecords]
    BY <1>22, ExtractorOpsType DEF EndPrevious
  <2> QED
    BY <1>22, <2>1 DEF EndPrevious
<1>23. CASE MakeTask
  <2>1. nextIndex \in Items /\ nextIndex + 1 \in 1 .. NumItems + 1
    BY <1>23 DEF MakeTask, Items
  <2>2. task' \in [Items -> TaskRecords]
    BY <1>23, <2>1, ExtractorOpsType DEF MakeTask
  <2> QED
    BY <1>23, <2>1, <2>2 DEF MakeTask
<1>24. CASE MakeTaskFails
  BY <1>24 DEF MakeTaskFails
<1>25. CASE SleepForQueue
  BY <1>25 DEF SleepForQueue
<1>26. CASE RefuseTask
  BY <1>26 DEF RefuseTask
<1>27. CASE QueueTask
  <2>1. task' \in [Items -> TaskRecords]
    BY <1>27, ExtractorOpsType DEF QueueTask
  <2> QED
    BY <1>27, <2>1 DEF QueueTask
<1>28. CASE RunTask
  <2>1. task' \in [Items -> TaskRecords]
    BY <1>28, ExtractorOpsType DEF RunTask, RunRefused
  <2> QED
    BY <1>28, <2>1 DEF RunTask
<1>29. CASE ExtractEnds
  <2>1. task' \in [Items -> TaskRecords]
    BY <1>29, ExtractorOpsType DEF ExtractEnds
  <2> QED
    BY <1>29, <2>1 DEF ExtractEnds
<1>30. CASE EndLast
  <2>1. task' \in [Items -> TaskRecords]
    BY <1>30, ExtractorOpsType DEF EndLast
  <2> QED
    BY <1>30, <2>1 DEF EndLast
<1>31. CASE Finish
  BY <1>31 DEF Finish
<1>32. ASSUME NEW i \in Items, Gatherer(i) PROVE TypeOK'
  BY <1>32, GathererType DEF Gatherer
<1>33. CASE Initialize \/ Load \/ LoadFails
  <2>1. stream' \in BOOLEAN
    BY <1>33 DEF Initialize, Load, LoadFails, GivesStream
  <2>2. /\ UNCHANGED << task, shared, extractorVars, windows, reading >>
        /\ UNCHANGED << call, ready, inits, history >>
    BY <1>33 DEF Initialize, Load, LoadFails, GivesStream
  <2> QED
    BY <2>1, <2>2
<1>34. CASE UNCHANGED vars
  BY <1>34 DEF vars
<1> QED
  BY <1>1, <1>2, <1>3, <1>4, <1>5, <1>6, <1>7, <1>8, <1>9, <1>10, <1>11,
     <1>12, <1>13, <1>14, <1>15, <1>16, <1>17, <1>18, <1>19, <1>20, <1>21,
     <1>22, <1>23, <1>24, <1>25, <1>26, <1>27, <1>28, <1>29, <1>30, <1>31,
     <1>32, <1>33, <1>34
     DEF Next, Calls, InitRefused, Windows, WindowsInside, Extractor, Released

\* Every step keeps what the threads' positions say of the Filter's members.
LEMMA ControlStep ==
  ASSUME TypeOK, Control, [Next]_vars
  PROVE  Control'
<1> USE ItemTaskAssumption, FilterAssumption
    DEF TypeOK, Control, NoItem, flags, shared, extractorVars, reading,
        host, history, windowsVars
<1>1. CASE CallInit
  BY <1>1 DEF CallInit, SignalAbort
<1>2. CASE CallRelease
  BY <1>2 DEF CallRelease, SignalAbort
<1>3. CASE JoinExtractor
  BY <1>3 DEF JoinExtractor, HasEnded
<1>4. CASE AbortTask
  BY <1>4 DEF AbortTask, Items
<1>5. CASE JoinAborted
  BY <1>5 DEF JoinAborted
<1>6. CASE Reset
  BY <1>6 DEF Reset
<1>7. CASE OpenFails
  BY <1>7 DEF OpenFails
<1>8. CASE StartThreadFails
  BY <1>8 DEF StartThreadFails
<1>9. CASE StartExtractor
  BY <1>9 DEF StartExtractor
<1>10. CASE CallGetChunk
  BY <1>10 DEF CallGetChunk
<1>11. CASE SleepForTask
  BY <1>11 DEF SleepForTask
<1>12. CASE TakeTask
  BY <1>12 DEF TakeTask, Items
<1>13. CASE ReportFailure
  BY <1>13 DEF ReportFailure, Cleared
<1>14. CASE ReportEnd
  BY <1>14 DEF ReportEnd, HasEnded
<1>15. CASE SleepForChunk
  BY <1>15 DEF SleepForChunk
<1>16. CASE ReturnChunk
  BY <1>16 DEF ReturnChunk, Deliver
<1>17. CASE ReturnErrorChunk
  BY <1>17 DEF ReturnErrorChunk, Deliver
<1>18. CASE DropTask
  BY <1>18 DEF DropTask
<1>19. CASE Write
  BY <1>19 DEF Write
<1>20. CASE GetStreamSkip
  BY <1>20 DEF GetStreamSkip
<1>21. CASE GetStream
  BY <1>21 DEF GetStream, IsPending
<1>22. CASE EndPrevious
  BY <1>22 DEF EndPrevious
<1>23. CASE MakeTask
  BY <1>23 DEF MakeTask
<1>24. CASE MakeTaskFails
  BY <1>24 DEF MakeTaskFails
<1>25. CASE SleepForQueue
  BY <1>25 DEF SleepForQueue
<1>26. CASE RefuseTask
  BY <1>26 DEF RefuseTask
<1>27. CASE QueueTask
  BY <1>27 DEF QueueTask
<1>28. CASE RunTask
  BY <1>28 DEF RunTask
<1>29. CASE ExtractEnds
  BY <1>29 DEF ExtractEnds
<1>30. CASE EndLast
  BY <1>30 DEF EndLast
<1>31. CASE Finish
  BY <1>31 DEF Finish
<1>32. ASSUME NEW i \in Items, Gatherer(i) PROVE Control'
  BY <1>32 DEF Gatherer
<1>33. CASE Initialize \/ Load \/ LoadFails
  BY <1>33 DEF Initialize, Load, LoadFails, GivesStream
<1>34. CASE UNCHANGED vars
  BY <1>34 DEF vars
<1> QED
  BY <1>1, <1>2, <1>3, <1>4, <1>5, <1>6, <1>7, <1>8, <1>9, <1>10, <1>11,
     <1>12, <1>13, <1>14, <1>15, <1>16, <1>17, <1>18, <1>19, <1>20, <1>21,
     <1>22, <1>23, <1>24, <1>25, <1>26, <1>27, <1>28, <1>29, <1>30, <1>31,
     <1>32, <1>33, <1>34
     DEF Next, Calls, InitRefused, Windows, WindowsInside, Extractor, Released

-----------------------------------------------------------------------------
(* Who holds what: the inductive strengthening of the safety invariants.   *)

Ownership ==
    /\ \A i \in Items : Joinable(i) =>
         /\ task[i].wasFilterStarted
         /\ task[i].buffer # "none"
         /\ task[i].buffer = "open" => i = currentExtractTask
    /\ extractor = "run" => currentExtractTask \in Owned
    /\ currentExtractTask # NoItem
         /\ extractor \notin {"endOfFile", "lastEndOfFile"} =>
             ~task[currentExtractTask].isExtractionDone
    /\ extractor \in {"off", "make", "finish", "exited"} =>
           currentExtractTask = NoItem
    /\ windows \in {"abort", "abortJoin", "open", "released"} =>
           extractor = "off"
    /\ extractionFinished => extractor \in {"off", "exited"}

IInv == TypeOK /\ Control /\ Ownership /\ NoOrphanGatherer

\* The elements of a sequence are its head and those of its tail.
LEMMA TailRange ==
  ASSUME NEW S, NEW q \in Seq(S), q # << >>
  PROVE  {q[k] : k \in DOMAIN q}
           = {Head(q)} \cup {Tail(q)[k] : k \in DOMAIN Tail(q)}
<1>1. /\ Len(q) \in Nat \ {0}
      /\ DOMAIN q = 1 .. Len(q)
      /\ DOMAIN Tail(q) = 1 .. Len(q) - 1
      /\ Head(q) = q[1]
  OBVIOUS
<1>2. \A k \in 1 .. Len(q) - 1 : Tail(q)[k] = q[k + 1]
  OBVIOUS
<1>3. ASSUME NEW k \in DOMAIN q
      PROVE  q[k] \in {Head(q)} \cup {Tail(q)[j] : j \in DOMAIN Tail(q)}
  <2>1. CASE k = 1
    BY <1>1, <2>1
  <2>2. CASE k # 1
    <3>1. k - 1 \in DOMAIN Tail(q) /\ Tail(q)[k - 1] = q[k]
      BY <1>1, <1>2, <2>2
    <3> QED
      BY <3>1
  <2> QED
    BY <2>1, <2>2
<1>4. ASSUME NEW k \in DOMAIN Tail(q)
      PROVE  Tail(q)[k] \in {q[j] : j \in DOMAIN q}
  <2>1. k + 1 \in DOMAIN q /\ q[k + 1] = Tail(q)[k]
    BY <1>1, <1>2
  <2> QED
    BY <2>1
<1>5. Head(q) \in {q[j] : j \in DOMAIN q}
  BY <1>1
<1> QED
  BY <1>3, <1>4, <1>5

\* What a sequence without repetition holds after something new was put in.
LEMMA AppendRange ==
  ASSUME NEW S, NEW q \in Seq(S), NEW e \in S
  PROVE  /\ e \in {Append(q, e)[k] : k \in DOMAIN Append(q, e)}
         /\ {q[k] : k \in DOMAIN q}
              \subseteq {Append(q, e)[k] : k \in DOMAIN Append(q, e)}
<1>1. /\ Len(q) \in Nat
      /\ DOMAIN q = 1 .. Len(q)
      /\ DOMAIN Append(q, e) = 1 .. Len(q) + 1
      /\ Append(q, e)[Len(q) + 1] = e
      /\ \A k \in 1 .. Len(q) : Append(q, e)[k] = q[k]
  OBVIOUS
<1>2. Len(q) + 1 \in DOMAIN Append(q, e)
  BY <1>1
<1>3. ASSUME NEW k \in DOMAIN q
      PROVE  q[k] \in {Append(q, e)[j] : j \in DOMAIN Append(q, e)}
  <2>1. k \in DOMAIN Append(q, e) /\ Append(q, e)[k] = q[k]
    BY <1>1
  <2> QED
    BY <2>1
<1> QED
  BY <1>1, <1>2, <1>3

\* What the safety argument looks at in a task is left alone.
Keeps ==
    \A j \in Items :
        /\ task'[j].gatherer = "none" <=> task[j].gatherer = "none"
        /\ task'[j].wasFilterStarted = task[j].wasFilterStarted
        /\ task'[j].isExtractionDone = task[j].isExtractionDone
        /\ task'[j].buffer = task[j].buffer

\* An operation of one task that keeps what ownership is about keeps it for all.
LEMMA UpdateKeeps ==
  ASSUME NEW i \in Items, NEW r, task \in [Items -> TaskRecords],
         Update(i, r),
         r.gatherer = "none" <=> task[i].gatherer = "none",
         r.wasFilterStarted = task[i].wasFilterStarted,
         r.isExtractionDone = task[i].isExtractionDone,
         r.buffer = task[i].buffer
  PROVE  Keeps
BY DEF Update, Keeps

\* Operations of tasks that do not change who owns them, or what they promise.
LEMMA OpsKeep ==
  ASSUME NEW i \in Items, task \in [Items -> TaskRecords],
         \/ GathererStep(i) \/ Queued(i) \/ AppendBytes(i) \/ AbortSignals(i)
         \/ NextChunkSleeps(i) \/ NextChunkPops(i) \/ NextChunkFails(i)
  PROVE  Keeps
<1>a. task[i] \in TaskRecords
  OBVIOUS
<1>1. CASE GathererInit(i)
  BY <1>a, <1>1, UpdateKeeps DEF GathererInit, TaskRecords
<1>2. CASE GathererCheck(i)
  BY <1>a, <1>2, UpdateKeeps DEF GathererCheck, TaskRecords
<1>3. CASE GathererChunk(i)
  BY <1>a, <1>3, UpdateKeeps DEF GathererChunk, TaskRecords
<1>4. CASE GathererStop(i)
  BY <1>a, <1>4, UpdateKeeps DEF GathererStop, TaskRecords
<1>5. CASE GathererEnd(i)
  BY <1>a, <1>5, UpdateKeeps DEF GathererEnd, TaskRecords
<1>6. CASE Queued(i)
  BY <1>a, <1>6, UpdateKeeps DEF Queued, TaskRecords
<1>7. CASE AppendBytes(i)
  BY <1>a, <1>7, UpdateKeeps DEF AppendBytes, HasRoom, TaskRecords
<1>8. CASE AbortSignals(i)
  BY <1>a, <1>8, UpdateKeeps DEF AbortSignals, TaskRecords
<1>9. CASE NextChunkSleeps(i)
  BY <1>a, <1>9, UpdateKeeps DEF NextChunkSleeps, TaskRecords
<1>10. CASE NextChunkPops(i)
  BY <1>a, <1>10, UpdateKeeps DEF NextChunkPops, TaskRecords
<1>11. CASE NextChunkFails(i)
  BY <1>a, <1>11, UpdateKeeps DEF NextChunkFails, TaskRecords
<1> QED
  BY <1>1, <1>2, <1>3, <1>4, <1>5, <1>6, <1>7, <1>8, <1>9, <1>10, <1>11
     DEF GathererStep

\* Taking the first task from the queue to GetChunk keeps it owned.
LEMMA OwnedTake ==
  ASSUME TypeOK, tasks # << >>, currentChunkTask = NoItem,
         currentChunkTask' = Head(tasks), tasks' = Tail(tasks)
  PROVE  Owned' = Owned
<1>a. tasks \in Seq(Items)
  BY DEF TypeOK
<1>1. {tasks[k] : k \in DOMAIN tasks}
        = {Head(tasks)} \cup {Tail(tasks)[k] : k \in DOMAIN Tail(tasks)}
  BY <1>a, TailRange
<1>2. Head(tasks) \in Items
  BY <1>a
<1>3. Head(tasks) # NoItem
  BY <1>2 DEF Items, NoItem
<1> QED
  BY <1>1, <1>3 DEF Owned

\* Queueing the task of the extractor keeps all tasks owned.
LEMMA OwnedQueue ==
  ASSUME TypeOK, currentExtractTask \in Items,
         tasks' = Append(tasks, currentExtractTask),
         currentChunkTask' = currentChunkTask
  PROVE  Owned \subseteq Owned' /\ currentExtractTask \in Owned'
<1>a. tasks \in Seq(Items)
  BY DEF TypeOK
<1>1. /\ currentExtractTask \in {tasks'[k] : k \in DOMAIN tasks'}
      /\ {tasks[k] : k \in DOMAIN tasks} \subseteq {tasks'[k] : k \in DOMAIN tasks'}
  BY <1>a, AppendRange
<1> QED
  BY <1>1 DEF Owned

\* Every step keeps who owns which task, and that no gatherer is orphaned.
LEMMA OwnershipStep ==
  ASSUME IInv, [Next]_vars
  PROVE  (Ownership /\ NoOrphanGatherer)'
<1> USE ItemTaskAssumption, FilterAssumption
    DEF IInv, Ownership, NoOrphanGatherer, Owned, Joinable, TypeOK, Control,
        NoItem, flags, shared, extractorVars, reading, host, history,
        windowsVars
<1>1. CASE CallInit
  BY <1>1 DEF CallInit, SignalAbort
<1>2. CASE CallRelease
  BY <1>2 DEF CallRelease, SignalAbort
<1>3. CASE JoinExtractor
  BY <1>3 DEF JoinExtractor, HasEnded
<1>4. CASE AbortTask
  <2>1. Keeps
    BY <1>4, OpsKeep DEF AbortTask, Items
  <2>2. Owned' = Owned
    <3>1. CASE currentChunkTask # NoItem
      BY <1>4, <3>1 DEF AbortTask
    <3>2. CASE currentChunkTask = NoItem
      <4>1. /\ tasks # << >> /\ currentChunkTask' = Head(tasks)
            /\ tasks' = Tail(tasks)
        BY <1>4, <3>2 DEF AbortTask
      <4> HIDE DEF Owned, NoItem
      <4> QED
        BY <4>1, <3>2, OwnedTake
    <3> QED
      BY <3>1, <3>2
  <2>3. /\ windows = "abort" /\ windows' = "abortJoin"
        /\ UNCHANGED << extractor, currentExtractTask, extractionFinished >>
    BY <1>4 DEF AbortTask
  <2> HIDE DEF Owned, TypeOK, Control
  <2> QED
    BY <2>1, <2>2, <2>3 DEF Keeps
<1>5. CASE JoinAborted
  <2>1. currentChunkTask \in Items
    BY <1>5 DEF JoinAborted
  <2>2. /\ task'[currentChunkTask].gatherer = "none"
        /\ \A j \in Items \ {currentChunkTask} : task'[j] = task[j]
    BY <1>5, <2>1 DEF JoinAborted, AbortJoins, Destroyed, Unused, Update,
                        TaskRecords
  <2> QED
    BY <1>5, <2>1, <2>2 DEF JoinAborted
<1>6. CASE Reset
  BY <1>6 DEF Reset
<1>7. CASE OpenFails
  BY <1>7 DEF OpenFails
<1>8. CASE StartThreadFails
  BY <1>8 DEF StartThreadFails
<1>9. CASE StartExtractor
  BY <1>9 DEF StartExtractor
<1>10. CASE CallGetChunk
  BY <1>10 DEF CallGetChunk
<1>11. CASE SleepForTask
  BY <1>11 DEF SleepForTask
<1>12. CASE TakeTask
  <2>1. Owned' = Owned
    BY <1>12, OwnedTake DEF TakeTask
  <2> QED
    BY <1>12, <2>1 DEF TakeTask
<1>13. CASE ReportFailure
  BY <1>13 DEF ReportFailure, Cleared
<1>14. CASE ReportEnd
  BY <1>14 DEF ReportEnd, HasEnded
<1>15. CASE SleepForChunk
  <2>1. Keeps
    BY <1>15, OpsKeep DEF SleepForChunk
  <2> QED
    BY <1>15, <2>1 DEF SleepForChunk, Keeps
<1>16. CASE ReturnChunk
  <2>1. Keeps
    BY <1>16, OpsKeep DEF ReturnChunk
  <2> QED
    BY <1>16, <2>1 DEF ReturnChunk, Deliver, Keeps
<1>17. CASE ReturnErrorChunk
  <2>1. Keeps
    BY <1>17, OpsKeep DEF ReturnErrorChunk
  <2>2. UNCHANGED << shared, extractorVars, currentChunkTask >> /\ windows' = "idle"
    BY <1>17 DEF ReturnErrorChunk, Deliver
  <2> QED
    BY <2>1, <2>2 DEF Keeps
<1>18. CASE DropTask
  <2>1. currentChunkTask \in Items
    BY <1>18 DEF DropTask
  <2>2. NextChunkEnds(currentChunkTask)
    BY <1>18 DEF DropTask
  <2>3. task[currentChunkTask].isExtractionDone
    BY <2>2 DEF NextChunkEnds, Drained
  <2>4. /\ task'[currentChunkTask].gatherer = "none"
        /\ task'[currentChunkTask].isExtractionDone
              = task[currentChunkTask].isExtractionDone
        /\ \A j \in Items \ {currentChunkTask} : task'[j] = task[j]
    BY <2>1, <2>2 DEF NextChunkEnds, Update, TaskRecords
  <2> QED
    BY <1>18, <2>1, <2>3, <2>4 DEF DropTask
<1>19. CASE Write
  <2>1. Keeps
    BY <1>19, OpsKeep DEF Write
  <2> QED
    BY <1>19, <2>1 DEF Write, Keeps
<1>20. CASE GetStreamSkip
  BY <1>20 DEF GetStreamSkip
<1>21. CASE GetStream
  <2>1. CASE currentExtractTask # NoItem
    <3>1. /\ currentExtractTask \in Items
          /\ SetExtractionDone(currentExtractTask)
      BY <1>21, <2>1 DEF GetStream, IsPending
    <3>2. /\ task'[currentExtractTask].gatherer
                = task[currentExtractTask].gatherer
          /\ task'[currentExtractTask].wasFilterStarted
                = task[currentExtractTask].wasFilterStarted
          /\ task'[currentExtractTask].buffer = task[currentExtractTask].buffer
          /\ \A j \in Items \ {currentExtractTask} : task'[j] = task[j]
      BY <3>1 DEF SetExtractionDone, Update, TaskRecords
    <3> QED
      BY <1>21, <2>1, <3>1, <3>2 DEF GetStream, IsPending
  <2>2. CASE currentExtractTask = NoItem
    BY <1>21, <2>2 DEF GetStream, IsPending
  <2> QED
    BY <2>1, <2>2
<1>22. CASE EndPrevious
  <2>1. currentExtractTask \in Items
    BY <1>22 DEF EndPrevious
  <2>2. /\ task'[currentExtractTask].gatherer = task[currentExtractTask].gatherer
        /\ task'[currentExtractTask].wasFilterStarted
              = task[currentExtractTask].wasFilterStarted
        /\ task'[currentExtractTask].buffer
              = IF task[currentExtractTask].buffer = "none" THEN "none" ELSE "eof"
        /\ \A j \in Items \ {currentExtractTask} : task'[j] = task[j]
    BY <1>22, <2>1 DEF EndPrevious, SetEndOfFile, Update, TaskRecords
  <2> QED
    BY <1>22, <2>1, <2>2 DEF EndPrevious
<1>23. CASE MakeTask
  <2>1. nextIndex \in Items
    BY <1>23 DEF MakeTask, Items
  <2>2. /\ task'[nextIndex].gatherer = "none"
        /\ ~task'[nextIndex].isExtractionDone
        /\ \A j \in Items \ {nextIndex} : task'[j] = task[j]
    BY <1>23, <2>1 DEF MakeTask, Construct, Unused, Update, TaskRecords
  <2>3. currentExtractTask = NoItem
    BY <1>23 DEF MakeTask
  <2> QED
    BY <1>23, <2>1, <2>2, <2>3 DEF MakeTask, Items
<1>24. CASE MakeTaskFails
  BY <1>24 DEF MakeTaskFails
<1>25. CASE SleepForQueue
  BY <1>25 DEF SleepForQueue
<1>26. CASE RefuseTask
  BY <1>26 DEF RefuseTask
<1>27. CASE QueueTask
  <2>1. Keeps
    BY <1>27, OpsKeep DEF QueueTask
  <2>2. Owned \subseteq Owned' /\ currentExtractTask \in Owned'
    BY <1>27, OwnedQueue DEF QueueTask
  <2>3. /\ extractor = "queue" /\ extractor' = "run"
        /\ UNCHANGED << windows, currentExtractTask, extractionFinished >>
        /\ currentExtractTask # NoItem
    BY <1>27 DEF QueueTask
  <2>4. currentExtractTask \in Items
    BY <2>3
  <2> HIDE DEF Owned, TypeOK, Control
  <2> QED
    BY <2>1, <2>2, <2>3, <2>4 DEF Keeps
<1>28. CASE RunTask
  <2>1. currentExtractTask \in Items /\ currentExtractTask \in Owned
    BY <1>28 DEF RunTask
  <2>2. CASE RunRefused(currentExtractTask)
    BY <1>28, <2>2 DEF RunTask, RunRefused
  <2>3. CASE RunStarted(currentExtractTask)
    <3>1. /\ task'[currentExtractTask].wasFilterStarted
          /\ task'[currentExtractTask].buffer = "open"
          /\ task'[currentExtractTask].isExtractionDone
                = task[currentExtractTask].isExtractionDone
          /\ \A j \in Items \ {currentExtractTask} : task'[j] = task[j]
      BY <2>1, <2>3 DEF RunStarted, Update, TaskRecords
    <3> QED
      BY <1>28, <2>1, <3>1 DEF RunTask
  <2>4. CASE RunThrows(currentExtractTask)
    <3>1. /\ ~task[currentExtractTask].wasFilterStarted
          /\ task'[currentExtractTask].gatherer
                = task[currentExtractTask].gatherer
          /\ task'[currentExtractTask].isExtractionDone
                = task[currentExtractTask].isExtractionDone
          /\ \A j \in Items \ {currentExtractTask} : task'[j] = task[j]
      BY <2>1, <2>4 DEF RunThrows, Update, TaskRecords
    <3> QED
      BY <1>28, <2>1, <3>1 DEF RunTask
  <2> QED
    BY <1>28, <2>2, <2>3, <2>4 DEF RunTask
<1>29. CASE ExtractEnds
  <2>1. CASE currentExtractTask # NoItem
    <3>1. /\ currentExtractTask \in Items
          /\ SetExtractionDone(currentExtractTask)
      BY <1>29, <2>1 DEF ExtractEnds
    <3>2. /\ task'[currentExtractTask].gatherer
                = task[currentExtractTask].gatherer
          /\ task'[currentExtractTask].wasFilterStarted
                = task[currentExtractTask].wasFilterStarted
          /\ task'[currentExtractTask].buffer = task[currentExtractTask].buffer
          /\ \A j \in Items \ {currentExtractTask} : task'[j] = task[j]
      BY <3>1 DEF SetExtractionDone, Update, TaskRecords
    <3> QED
      BY <1>29, <2>1, <3>1, <3>2 DEF ExtractEnds
  <2>2. CASE currentExtractTask = NoItem
    BY <1>29, <2>2 DEF ExtractEnds
  <2> QED
    BY <2>1, <2>2
<1>30. CASE EndLast
  <2>1. currentExtractTask \in Items
    BY <1>30 DEF EndLast
  <2>2. /\ task'[currentExtractTask].gatherer = task[currentExtractTask].gatherer
        /\ task'[currentExtractTask].wasFilterStarted
              = task[currentExtractTask].wasFilterStarted
        /\ task'[currentExtractTask].buffer
              = IF task[currentExtractTask].buffer = "none" THEN "none" ELSE "eof"
        /\ \A j \in Items \ {currentExtractTask} : task'[j] = task[j]
    BY <1>30, <2>1 DEF EndLast, SetEndOfFile, Update, TaskRecords
  <2> QED
    BY <1>30, <2>1, <2>2 DEF EndLast
<1>31. CASE Finish
  BY <1>31 DEF Finish
<1>32. ASSUME NEW i \in Items, Gatherer(i) PROVE (Ownership /\ NoOrphanGatherer)'
  BY <1>32, OpsKeep DEF Gatherer, Keeps
<1>33. CASE Initialize \/ Load \/ LoadFails
  BY <1>33 DEF Initialize, Load, LoadFails, GivesStream
<1>34. CASE UNCHANGED vars
  BY <1>34 DEF vars
<1> QED
  BY <1>1, <1>2, <1>3, <1>4, <1>5, <1>6, <1>7, <1>8, <1>9, <1>10, <1>11,
     <1>12, <1>13, <1>14, <1>15, <1>16, <1>17, <1>18, <1>19, <1>20, <1>21,
     <1>22, <1>23, <1>24, <1>25, <1>26, <1>27, <1>28, <1>29, <1>30, <1>31,
     <1>32, <1>33, <1>34
     DEF Next, Calls, InitRefused, Windows, WindowsInside, Extractor, Released

\* A new Filter owns nothing, and nothing is orphaned.
LEMMA InitOwnership == Init => Ownership /\ NoOrphanGatherer
<1> SUFFICES ASSUME Init PROVE Ownership /\ NoOrphanGatherer
  OBVIOUS
<1>1. \A i \in Items : ~Joinable(i)
  BY DEF Init, TaskInit, Unused, Joinable
<1> QED
  BY <1>1 DEF Init, Ownership, NoOrphanGatherer

\* The inductive invariant: the types, the program counters, who holds which
\* task, and that no gatherer is orphaned.
THEOREM Invariance == Spec => []IInv
<1>1. Init => IInv
  BY InitType, InitOwnership DEF IInv
<1>2. IInv /\ [Next]_vars => IInv'
  BY TypeStep, ControlStep, OwnershipStep DEF IInv
<1> QED
  BY <1>1, <1>2, PTL DEF Spec

\* Every variable of the filter and of its tasks keeps its type, for every
\* number of members, queue limit and chunk bound (Filter.cpp, ItemTask.cpp).
THEOREM TypeCorrect == Spec => []TypeOK
<1>1. IInv => TypeOK
  BY DEF IInv
<1> QED
  BY <1>1, Invariance, PTL

\* A gatherer thread that was started and not joined always belongs to a task
\* the Windows thread still reaches, however Init, GetChunk, Release, 7-Zip's
\* callbacks and the gatherers interleave.
THEOREM GatherersAreOwned == Spec => []NoOrphanGatherer
<1>1. IInv => NoOrphanGatherer
  BY DEF IInv
<1> QED
  BY <1>1, Invariance, PTL

\* Once the extractor has ended, no gatherer waits for data that will never
\* be written, so the joins of the abort sequence do not block for ever.
THEOREM JoinsCannotBlock == Spec => []AbortCannotBlock
<1>1. IInv => AbortCannotBlock
  <2> SUFFICES ASSUME IInv, extractor \in {"off", "exited"},
                      NEW i \in Items, Joinable(i)
               PROVE  task[i].buffer = "eof"
    BY DEF AbortCannotBlock
  <2>1. currentExtractTask = NoItem /\ i # NoItem
    BY DEF IInv, Ownership, Items, NoItem
  <2>2. task[i].buffer \in {"none", "open", "eof"}
    BY DEF IInv, TypeOK, TaskRecords
  <2> QED
    BY <2>1, <2>2 DEF IInv, Ownership
<1> QED
  BY <1>1, Invariance, PTL

\* Init and GetChunk touch what they share with the extractor without the
\* lock only while there is no extractor that could touch it too.
THEOREM UnlockedAccessIsSafe == Spec => []NoDataRace
<1>1. IInv => NoDataRace
  BY DEF IInv, Ownership, NoDataRace, AllTaken
<1> QED
  BY <1>1, Invariance, PTL

-----------------------------------------------------------------------------
(* Who lets go of a task, and in which state it is then.                   *)

\* Steps that leave every task alone and with its owner.
Quiet ==
    /\ UNCHANGED << task, currentExtractTask >>
    /\ Owned' = Owned
    /\ extractor' \in {extractor, "off", "7zip", "make", "fail", "finish", "exited"}

\* SetEndOfExtraction, first half, of the extractor's task.
EndsExtraction ==
    /\ SetExtractionDone(currentExtractTask)
    /\ extractor' \in {"endOfFile", "lastEndOfFile"}
    /\ currentExtractTask # NoItem
    /\ extractor \notin {"endOfFile", "lastEndOfFile"}
    /\ Owned' = Owned
    /\ UNCHANGED << currentExtractTask, currentChunkTask >>

\* ... and second half.
EndsFile ==
    /\ SetEndOfFile(currentExtractTask)
    /\ extractor \in {"endOfFile", "lastEndOfFile"}
    /\ extractor' \in {"make", "finish"}
    /\ currentExtractTask # NoItem /\ currentExtractTask' = NoItem
    /\ Owned' = Owned

\* What is not quiet is an operation of a task.
LEMMA QuietOrNot ==
  ASSUME TypeOK, Control, [Next]_vars
  PROVE  \/ Quiet
         \/ AbortTask \/ JoinAborted \/ SleepForChunk \/ ReturnChunk
         \/ ReturnErrorChunk \/ DropTask \/ Write \/ EndsExtraction
         \/ EndsFile \/ MakeTask \/ QueueTask \/ RunTask
         \/ \E i \in Items : Gatherer(i)
<1> USE DEF flags, shared, extractorVars, reading, host, history, windowsVars,
            Quiet
<1>a. UNCHANGED << tasks, currentChunkTask >> => Owned' = Owned
  BY DEF Owned
<1>1. CASE CallInit \/ CallRelease
  BY <1>1, <1>a DEF CallInit, CallRelease, SignalAbort
<1>2. CASE JoinExtractor \/ Reset
  BY <1>2, <1>a DEF JoinExtractor, Reset
<1>3. CASE OpenFails \/ StartThreadFails \/ StartExtractor
  BY <1>3, <1>a DEF OpenFails, StartThreadFails, StartExtractor
<1>4. CASE CallGetChunk \/ SleepForTask
  BY <1>4, <1>a DEF CallGetChunk, SleepForTask
<1>5. CASE TakeTask
  <2>1. Owned' = Owned
    BY <1>5, OwnedTake DEF TakeTask, Control
  <2> QED
    BY <1>5, <2>1 DEF TakeTask
<1>6. CASE ReportFailure \/ ReportEnd
  BY <1>6, <1>a DEF ReportFailure, ReportEnd
<1>7. CASE GetStreamSkip \/ MakeTaskFails \/ SleepForQueue \/ RefuseTask \/ Finish
  BY <1>7, <1>a
     DEF GetStreamSkip, MakeTaskFails, SleepForQueue, RefuseTask, Finish
<1>8. CASE GetStream
  BY <1>8, <1>a DEF GetStream, IsPending, EndsExtraction
<1>9. CASE ExtractEnds
  BY <1>9, <1>a DEF ExtractEnds, EndsExtraction
<1>10. CASE EndPrevious \/ EndLast
  BY <1>10, <1>a DEF EndPrevious, EndLast, EndsFile, Control
<1>11. CASE Initialize \/ Load \/ LoadFails
  BY <1>11, <1>a DEF Initialize, Load, LoadFails, GivesStream
<1>12. CASE UNCHANGED vars
  BY <1>12, <1>a DEF vars
<1> QED
  BY <1>1, <1>2, <1>3, <1>4, <1>5, <1>6, <1>7, <1>8, <1>9, <1>10, <1>11, <1>12
     DEF Next, Calls, InitRefused, Windows, WindowsInside, Extractor, Released

\* What Windows and the extractor promised of the tasks they let go of; that
\* a task the extractor has let go of knows it, and what a finished one is.
LetGoOf(i) ==
    /\ i \in Owned => task[i].life # "unused"
    /\ task[i].life # "unused" /\ i # currentExtractTask =>
           task[i].isExtractionDone
    /\ task[i].life # "unused" /\ i \notin Owned =>
           \/ task[i].life = "finished"
           \/ task[i].life = "made" /\ ~task[i].wasFilterStarted
    /\ task[i].life = "finished" =>
           /\ task[i].gatherer = "none"
           /\ ~task[i].aborted =>
                  task[i].chunks = << >> /\ task[i].result = "S_OK"

LetGo ==
    /\ \A i \in Items : LetGoOf(i)
    /\ extractor = "run" => task[currentExtractTask].life = "queued"
    /\ extractor \in {"endOfFile", "lastEndOfFile"} =>
           task[currentExtractTask].isExtractionDone

\* What LetGo looks at is left alone, and nothing is put into finished tasks.
Carries ==
    \A j \in Items :
        /\ task'[j].life = task[j].life
        /\ task'[j].isExtractionDone = task[j].isExtractionDone
        /\ task'[j].wasFilterStarted = task[j].wasFilterStarted
        /\ task[j].life = "finished" /\ task[j].gatherer = "none"
             /\ (~task[j].aborted =>
                    task[j].chunks = << >> /\ task[j].result = "S_OK")
           => /\ task'[j].gatherer = "none"
              /\ ~task'[j].aborted =>
                     task'[j].chunks = << >> /\ task'[j].result = "S_OK"

\* An operation of one task carries all if it carries this one.
LEMMA UpdateCarries ==
  ASSUME NEW i \in Items, NEW r, task \in [Items -> TaskRecords],
         Update(i, r),
         r.life = task[i].life,
         r.isExtractionDone = task[i].isExtractionDone,
         r.wasFilterStarted = task[i].wasFilterStarted,
         \/ task[i].life # "finished"
         \/ task[i].gatherer # "none"
         \/ r.gatherer = task[i].gatherer /\ r.aborted
         \/ /\ r.gatherer = task[i].gatherer /\ r.aborted = task[i].aborted
            /\ r.chunks = task[i].chunks
            /\ r.result \in {task[i].result, "S_OK"}
  PROVE  Carries
BY DEF Update, Carries

\* Operations of tasks that let nothing go.
LEMMA OpsCarry ==
  ASSUME NEW i \in Items, task \in [Items -> TaskRecords],
         \/ GathererStep(i) \/ AppendBytes(i) \/ SetEndOfFile(i)
         \/ AbortSignals(i)
         \/ NextChunkSleeps(i) \/ NextChunkPops(i) \/ NextChunkFails(i),
         task[i].life = "finished" /\ ~task[i].aborted => task[i].chunks = << >>
  PROVE  Carries
<1>a. task[i] \in TaskRecords
  OBVIOUS
<1>1. CASE GathererInit(i)
  BY <1>a, <1>1, UpdateCarries DEF GathererInit, TaskRecords
<1>2. CASE GathererCheck(i)
  BY <1>a, <1>2, UpdateCarries DEF GathererCheck, TaskRecords
<1>3. CASE GathererChunk(i)
  BY <1>a, <1>3, UpdateCarries DEF GathererChunk, TaskRecords
<1>4. CASE GathererStop(i)
  BY <1>a, <1>4, UpdateCarries DEF GathererStop, TaskRecords
<1>5. CASE GathererEnd(i)
  BY <1>a, <1>5, UpdateCarries DEF GathererEnd, TaskRecords
<1>6. CASE AppendBytes(i)
  BY <1>a, <1>6, UpdateCarries DEF AppendBytes, HasRoom, TaskRecords
<1>7. CASE SetEndOfFile(i)
  BY <1>a, <1>7, UpdateCarries DEF SetEndOfFile, TaskRecords
<1>8. CASE AbortSignals(i)
  BY <1>a, <1>8, UpdateCarries DEF AbortSignals, TaskRecords
<1>9. CASE NextChunkSleeps(i)
  BY <1>a, <1>9, UpdateCarries DEF NextChunkSleeps, TaskRecords
<1>10. CASE NextChunkPops(i)
  <2>1. CASE task[i].life = "finished" /\ ~task[i].aborted
    BY <1>10, <2>1 DEF NextChunkPops
  <2>2. CASE ~(task[i].life = "finished" /\ ~task[i].aborted)
    BY <1>a, <1>10, <2>2, UpdateCarries DEF NextChunkPops, TaskRecords
  <2> QED
    BY <2>1, <2>2
<1>11. CASE NextChunkFails(i)
  BY <1>a, <1>11, UpdateCarries DEF NextChunkFails, TaskRecords
<1> QED
  BY <1>1, <1>2, <1>3, <1>4, <1>5, <1>6, <1>7, <1>8, <1>9, <1>10, <1>11
     DEF GathererStep

\* Queueing owns the extractor's task and nothing else besides.
LEMMA OwnedAppends ==
  ASSUME TypeOK, currentExtractTask \in Items,
         tasks' = Append(tasks, currentExtractTask),
         currentChunkTask' = currentChunkTask
  PROVE  Owned' = Owned \cup {currentExtractTask}
<1>a. tasks \in Seq(Items)
  BY DEF TypeOK
<1>1. /\ Len(tasks) \in Nat
      /\ DOMAIN tasks = 1 .. Len(tasks)
      /\ DOMAIN tasks' = 1 .. Len(tasks) + 1
      /\ tasks'[Len(tasks) + 1] = currentExtractTask
      /\ \A k \in 1 .. Len(tasks) : tasks'[k] = tasks[k]
  BY <1>a
<1>2. {tasks'[k] : k \in DOMAIN tasks'}
        \subseteq {tasks[k] : k \in DOMAIN tasks} \cup {currentExtractTask}
  <2> SUFFICES ASSUME NEW k \in 1 .. Len(tasks) + 1
               PROVE  tasks'[k] \in {tasks[j] : j \in DOMAIN tasks}
                                      \cup {currentExtractTask}
    BY <1>1
  <2>1. CASE k = Len(tasks) + 1
    BY <1>1, <2>1
  <2>2. CASE k # Len(tasks) + 1
    <3>1. k \in 1 .. Len(tasks)
      BY <1>1, <2>2
    <3> QED
      BY <1>1, <3>1
  <2> QED
    BY <2>1, <2>2
<1>3. /\ currentExtractTask \in {tasks'[k] : k \in DOMAIN tasks'}
      /\ {tasks[k] : k \in DOMAIN tasks} \subseteq {tasks'[k] : k \in DOMAIN tasks'}
  BY <1>a, AppendRange
<1> QED
  BY <1>2, <1>3 DEF Owned

\* A step that leaves the tasks to their owners and puts nothing into finished
\* ones keeps LetGo.
LEMMA LetGoCarried ==
  ASSUME LetGo, Carries, Owned' = Owned,
         currentExtractTask' = currentExtractTask,
         extractor' \notin {"run", "endOfFile", "lastEndOfFile"}
           \/ extractor' = extractor,
         TypeOK, Control
  PROVE  LetGo'
<1>1. extractor \in {"run", "endOfFile", "lastEndOfFile"} =>
          currentExtractTask \in Items
  BY DEF TypeOK, Control
<1> QED
  BY <1>1 DEF LetGo, LetGoOf, Carries

\* Every step keeps LetGo.
LEMMA LetGoStep ==
  ASSUME IInv, LetGo, [Next]_vars
  PROVE  LetGo'
<1>a. /\ TypeOK /\ Control /\ Ownership /\ NoOrphanGatherer
      /\ task \in [Items -> TaskRecords]
      /\ currentExtractTask \in Items \cup {NoItem}
      /\ currentChunkTask \in Items \cup {NoItem}
  BY DEF IInv, TypeOK
<1>b. NoItem \notin Items
  BY ItemTaskAssumption DEF Items, NoItem
<1>c. currentChunkTask # NoItem => currentChunkTask \in Owned
  BY DEF Owned
<1>d. UNCHANGED << tasks, currentChunkTask >> => Owned' = Owned
  BY DEF Owned
<1>e. \A i \in Items :
          task[i].life = "finished" /\ ~task[i].aborted => task[i].chunks = << >>
  BY DEF LetGo, LetGoOf
<1> USE DEF flags, shared, extractorVars, reading, host, history, windowsVars
<1>1. CASE Quiet
  BY <1>1, <1>a DEF Quiet, LetGo, LetGoOf, Control
<1>2. CASE AbortTask
  <2>1. currentChunkTask' \in Items /\ AbortSignals(currentChunkTask')
    BY <1>2, <1>a, <1>b DEF AbortTask, TypeOK
  <2>2. Owned' = Owned
    BY <1>2, <1>a, <1>d, OwnedTake DEF AbortTask
  <2>3. Carries
    BY <1>a, <1>e, <2>1, OpsCarry
  <2> QED
    BY <1>2, <1>a, <2>2, <2>3, LetGoCarried DEF AbortTask
<1>3. CASE JoinAborted
  <2>1. currentChunkTask \in Items /\ currentExtractTask = NoItem
        /\ extractor' = extractor /\ extractor = "off"
        /\ currentExtractTask' = currentExtractTask
    BY <1>3, <1>a DEF JoinAborted, Control, Ownership
  <2>2. Owned' \subseteq Owned /\ Owned \ {currentChunkTask} \subseteq Owned'
    BY <1>3, <2>1 DEF JoinAborted, Owned
  <2>3. /\ task'[currentChunkTask].life = "finished"
        /\ task'[currentChunkTask].gatherer = "none"
        /\ task'[currentChunkTask].chunks = << >>
        /\ task'[currentChunkTask].result = "S_OK"
        /\ task'[currentChunkTask].isExtractionDone
              = task[currentChunkTask].isExtractionDone
        /\ \A j \in Items \ {currentChunkTask} : task'[j] = task[j]
    BY <1>3, <1>a, <2>1 DEF JoinAborted, AbortJoins, Destroyed, Unused, Update
  <2>4. task[currentChunkTask].isExtractionDone
    BY <1>b, <1>c, <2>1 DEF LetGo, LetGoOf
  <2>9. ASSUME NEW i \in Items PROVE LetGoOf(i)'
    <3>1. CASE i = currentChunkTask
      BY <2>1, <2>2, <2>3, <2>4, <3>1 DEF LetGo, LetGoOf
    <3>2. CASE i # currentChunkTask
      BY <2>1, <2>2, <2>3, <2>4, <3>2 DEF LetGo, LetGoOf
    <3> QED
      BY <3>1, <3>2
  <2> QED
    BY <2>1, <2>9 DEF LetGo
<1>4. CASE SleepForChunk \/ ReturnChunk \/ ReturnErrorChunk
  <2>1. currentChunkTask \in Items
    BY <1>4, <1>a DEF SleepForChunk, ReturnChunk, ReturnErrorChunk, Control
  <2>2. Carries
    BY <1>4, <1>a, <1>e, <2>1, OpsCarry
       DEF SleepForChunk, ReturnChunk, ReturnErrorChunk
  <2>3. /\ UNCHANGED << currentExtractTask, extractor >>
        /\ Owned' = Owned
    BY <1>4, <1>d DEF SleepForChunk, ReturnChunk, ReturnErrorChunk, Deliver
  <2> QED
    BY <1>a, <2>2, <2>3, LetGoCarried
<1>5. CASE DropTask
  <2>1. currentChunkTask \in Items
        /\ extractor' = extractor
        /\ currentExtractTask' = currentExtractTask
    BY <1>5, <1>a DEF DropTask, Control
  <2>2. Owned' \subseteq Owned /\ Owned \ {currentChunkTask} \subseteq Owned'
    BY <1>5, <2>1 DEF DropTask, Owned
  <2>3. task[currentChunkTask].isExtractionDone
        /\ task[currentChunkTask].chunks = << >>
        /\ task[currentChunkTask].result = "S_OK"
    BY <1>5 DEF DropTask, NextChunkEnds, Drained
  <2>4. task[currentChunkTask] \in TaskRecords
    BY <1>a, <2>1
  <2>5. /\ task'[currentChunkTask].life = "finished"
        /\ task'[currentChunkTask].gatherer = "none"
        /\ task'[currentChunkTask].chunks = task[currentChunkTask].chunks
        /\ task'[currentChunkTask].result = task[currentChunkTask].result
        /\ task'[currentChunkTask].isExtractionDone
              = task[currentChunkTask].isExtractionDone
        /\ \A j \in Items \ {currentChunkTask} : task'[j] = task[j]
    BY <1>5, <1>a, <2>1, <2>4 DEF DropTask, NextChunkEnds, Update, TaskRecords
  <2>6. extractor # "run" \/ currentExtractTask # currentChunkTask
    BY <1>a, <1>b, <2>1, <2>3 DEF Ownership
  <2>7. extractor \in {"run", "endOfFile", "lastEndOfFile"} =>
            currentExtractTask \in Items
    BY <1>a DEF Control
  <2>9. ASSUME NEW i \in Items PROVE LetGoOf(i)'
    <3>1. CASE i = currentChunkTask
      BY <2>1, <2>2, <2>3, <2>5, <3>1 DEF LetGo, LetGoOf
    <3>2. CASE i # currentChunkTask
      BY <2>1, <2>2, <2>3, <2>5, <3>2 DEF LetGo, LetGoOf
    <3> QED
      BY <3>1, <3>2
  <2> QED
    <3>1. extractor = "run" => task'[currentExtractTask].life = "queued"
      BY <2>5, <2>6, <2>7 DEF LetGo
    <3>2. extractor \in {"endOfFile", "lastEndOfFile"} =>
              task'[currentExtractTask].isExtractionDone
      BY <2>3, <2>5, <2>7 DEF LetGo
    <3> QED
      BY <2>1, <2>9, <3>1, <3>2 DEF LetGo
<1>6. CASE Write
  <2>1. currentExtractTask \in Items /\ AppendBytes(currentExtractTask)
        /\ UNCHANGED << currentExtractTask, extractor >>
        /\ Owned' = Owned
    BY <1>6, <1>a, <1>d DEF Write
  <2>2. Carries
    BY <1>a, <1>e, <2>1, OpsCarry
  <2> QED
    BY <1>a, <2>1, <2>2, LetGoCarried
<1>7. CASE EndsExtraction
  <2>1. currentExtractTask \in Items
    BY <1>7, <1>a DEF EndsExtraction
  <2>2. task[currentExtractTask] \in TaskRecords
    BY <1>a, <2>1
  <2>3. /\ task'[currentExtractTask].isExtractionDone
        /\ task'[currentExtractTask].life = task[currentExtractTask].life
        /\ task'[currentExtractTask].gatherer = task[currentExtractTask].gatherer
        /\ task'[currentExtractTask].chunks = task[currentExtractTask].chunks
        /\ task'[currentExtractTask].result = task[currentExtractTask].result
        /\ task'[currentExtractTask].aborted = task[currentExtractTask].aborted
        /\ task'[currentExtractTask].wasFilterStarted
              = task[currentExtractTask].wasFilterStarted
        /\ \A j \in Items \ {currentExtractTask} : task'[j] = task[j]
    BY <1>7, <1>a, <2>1, <2>2
       DEF EndsExtraction, SetExtractionDone, Update, TaskRecords
  <2> QED
    BY <1>7, <2>1, <2>3 DEF EndsExtraction, LetGo, LetGoOf
<1>8. CASE EndsFile
  <2>1. currentExtractTask \in Items
    BY <1>8, <1>a DEF EndsFile
  <2>2. Carries
    BY <1>8, <1>a, <1>e, <2>1, OpsCarry DEF EndsFile
  <2>3. task[currentExtractTask].isExtractionDone
    BY <1>8 DEF EndsFile, LetGo, LetGoOf
  <2> QED
    BY <1>8, <2>1, <2>2, <2>3 DEF EndsFile, LetGo, LetGoOf, Carries
<1>9. CASE MakeTask
  <2>1. nextIndex \in Items /\ currentExtractTask' = nextIndex
        /\ currentExtractTask = NoItem /\ extractor' = "queue"
    BY <1>9, <1>a, ItemTaskAssumption
       DEF MakeTask, Items, Control, Ownership, TypeOK
  <2>2. /\ task'[nextIndex].life = "made"
        /\ ~task'[nextIndex].wasFilterStarted
        /\ \A j \in Items \ {nextIndex} : task'[j] = task[j]
    BY <1>9, <1>a, <2>1 DEF MakeTask, Construct, Unused, Update
  <2>3. Owned' = Owned
    BY <1>9, <1>d DEF MakeTask
  <2> QED
    BY <1>b, <2>1, <2>2, <2>3 DEF LetGo, LetGoOf
<1>10. CASE QueueTask
  <2>1. currentExtractTask \in Items /\ Queued(currentExtractTask)
        /\ currentExtractTask' = currentExtractTask /\ extractor' = "run"
    BY <1>10, <1>a DEF QueueTask, Control
  <2>2. task[currentExtractTask] \in TaskRecords
    BY <1>a, <2>1
  <2>3. /\ task'[currentExtractTask].life = "queued"
        /\ \A j \in Items \ {currentExtractTask} : task'[j] = task[j]
    BY <1>a, <2>1, <2>2 DEF Queued, Update, TaskRecords
  <2>4. Owned' = Owned \cup {currentExtractTask}
    BY <1>10, <1>a, <2>1, OwnedAppends DEF QueueTask
  <2> QED
    BY <2>1, <2>3, <2>4 DEF LetGo, LetGoOf
<1>11. CASE RunTask
  <2>1. /\ currentExtractTask \in Items /\ currentExtractTask \in Owned
        /\ extractor = "run" /\ extractor' \in {"7zip", "fail"}
        /\ currentExtractTask' = currentExtractTask
        /\ Owned' = Owned
        /\ \/ RunStarted(currentExtractTask)
           \/ RunRefused(currentExtractTask)
           \/ RunThrows(currentExtractTask)
    BY <1>11, <1>a, <1>d DEF RunTask, Control, Ownership
  <2>2. task[currentExtractTask] \in TaskRecords
    BY <1>a, <2>1
  <2>3. /\ task'[currentExtractTask].life = "queued"
        /\ task'[currentExtractTask].isExtractionDone
              = task[currentExtractTask].isExtractionDone
        /\ \A j \in Items \ {currentExtractTask} : task'[j] = task[j]
    <3>0. task[currentExtractTask].life = "queued"
      BY <2>1 DEF LetGo
    <3>1. CASE RunStarted(currentExtractTask)
      <4>1. PICK need \in 0 .. MaxSize :
              Update(currentExtractTask,
                     [task[currentExtractTask] EXCEPT
                        !.buffer = "open", !.gatherer = "init", !.need = need,
                        !.wasFilterStarted = TRUE])
        BY <3>1 DEF RunStarted
      <4> QED
        BY <1>a, <2>1, <2>2, <3>0, <4>1 DEF Update, TaskRecords
    <3>2. CASE RunRefused(currentExtractTask)
      BY <3>0, <3>2 DEF RunRefused
    <3>3. CASE RunThrows(currentExtractTask)
      BY <1>a, <2>1, <2>2, <3>0, <3>3 DEF RunThrows, Update, TaskRecords
    <3> QED
      BY <2>1, <3>1, <3>2, <3>3
  <2> QED
    BY <2>1, <2>3 DEF LetGo, LetGoOf
<1>12. ASSUME NEW i \in Items, Gatherer(i) PROVE LetGo'
  <2>1. /\ GathererStep(i)
        /\ UNCHANGED << currentExtractTask, extractor >>
        /\ Owned' = Owned
    BY <1>12, <1>d DEF Gatherer
  <2>2. Carries
    BY <1>a, <1>e, <2>1, OpsCarry
  <2> QED
    BY <1>a, <2>1, <2>2, LetGoCarried
<1> QED
  BY <1>a, <1>1, <1>2, <1>3, <1>4, <1>5, <1>6, <1>7, <1>8, <1>9, <1>10, <1>11,
     <1>12, QuietOrNot

\* A new Filter has let nothing go.
LEMMA InitLetGo == Init => LetGo
<1> SUFFICES ASSUME Init PROVE LetGo
  OBVIOUS
<1>1. /\ \A i \in Items : task[i] = Unused
      /\ extractor = "off"
      /\ Owned = {}
  BY DEF Init, TaskInit, Owned
<1> QED
  BY <1>1 DEF LetGo, LetGoOf, Unused

\* Never does anybody let go of a task that is not told the end of its
\* extraction, or whose gatherer was neither drained nor aborted and joined.
THEOREM ContractIsKept == Spec => []TaskContract
<1>1. Init => LetGo
  BY InitLetGo
<1>2. IInv /\ LetGo /\ [Next]_vars => LetGo'
  BY LetGoStep
<1>3. LetGo => TaskContract
  BY DEF LetGo, LetGoOf, TaskContract
<1> QED
  BY <1>1, <1>2, <1>3, Invariance, PTL DEF Spec

-----------------------------------------------------------------------------
(* How many gatherers run.                                                 *)

\* The queue holds at most one task more than the setting.
QueueBound == Len(tasks) <= ConcurrentFilterThreads + 1

LEMMA QueueBoundStep ==
  ASSUME TypeOK, Control, QueueBound, [Next]_vars
  PROVE  QueueBound'
<1>a. tasks \in Seq(Items) /\ ConcurrentFilterThreads \in Nat
  BY FilterAssumption DEF TypeOK
<1>1. CASE tasks' = tasks
  BY <1>1 DEF QueueBound
<1>2. CASE tasks # << >> /\ tasks' = Tail(tasks)
  <2>1. Len(tasks') = Len(tasks) - 1 /\ Len(tasks) \in Nat
    BY <1>a, <1>2
  <2> QED
    BY <1>a, <2>1 DEF QueueBound
<1>3. CASE QueueTask
  <2>1. /\ Len(tasks) <= ConcurrentFilterThreads
        /\ tasks' = Append(tasks, currentExtractTask)
    BY <1>3 DEF QueueTask, MayQueue, Refuses
  <2>2. Len(tasks') = Len(tasks) + 1 /\ Len(tasks) \in Nat
    BY <1>a, <2>1
  <2> QED
    BY <1>a, <2>1, <2>2 DEF QueueBound
<1>4. \/ tasks' = tasks
      \/ tasks # << >> /\ tasks' = Tail(tasks)
      \/ QueueTask
  <2> USE DEF flags, shared, extractorVars, reading, host, history, windowsVars
  <2>1. CASE Calls
    BY <2>1 DEF Calls, Initialize, Load, LoadFails, GivesStream, InitRefused,
                CallInit, CallRelease, SignalAbort, CallGetChunk, vars
  <2>2. CASE WindowsInside
    BY <2>2 DEF WindowsInside, JoinExtractor, AbortTask, JoinAborted, Reset,
                OpenFails, StartThreadFails, StartExtractor, SleepForTask,
                TakeTask, ReportFailure, ReportEnd, SleepForChunk,
                ReturnChunk, ReturnErrorChunk, Deliver, DropTask
  <2>3. CASE Extractor
    BY <2>3 DEF Extractor, Write, GetStreamSkip, GetStream, EndPrevious,
                MakeTask, MakeTaskFails, SleepForQueue, RefuseTask, RunTask,
                ExtractEnds, EndLast, Finish
  <2>4. ASSUME NEW i \in Items, Gatherer(i) PROVE tasks' = tasks
    BY <2>4 DEF Gatherer
  <2>5. CASE UNCHANGED vars
    BY <2>5 DEF vars
  <2> QED
    BY <2>1, <2>2, <2>3, <2>4, <2>5 DEF Next, Windows, Released
<1> QED
  BY <1>1, <1>2, <1>3, <1>4

\* A sequence has at most as many elements as it is long.
LEMMA RangeCardinality ==
  ASSUME NEW S, NEW q \in Seq(S)
  PROVE  /\ IsFiniteSet({q[k] : k \in DOMAIN q})
         /\ Cardinality({q[k] : k \in DOMAIN q}) <= Len(q)
<1>1. Len(q) \in Nat /\ DOMAIN q = 1 .. Len(q)
  OBVIOUS
<1>2. IsFiniteSet(1 .. Len(q)) /\ Cardinality(1 .. Len(q)) = Len(q)
  BY <1>1, FS_Interval
<1> DEFINE f == [k \in 1 .. Len(q) |-> q[k]]
           T == {q[k] : k \in DOMAIN q}
<1>3. f \in Surjection(1 .. Len(q), T)
  BY <1>1 DEF Surjection
<1> QED
  BY <1>2, <1>3, FS_Surjection

\* However many members there are, never more than ConcurrentFilterThreads + 2
\* gatherers run at once.
THEOREM GatherersAreBounded == Spec => []ThreadBound
<1>1. Init => QueueBound
  BY FilterAssumption DEF Init, QueueBound
<1>2. IInv /\ QueueBound /\ [Next]_vars => QueueBound'
  BY QueueBoundStep DEF IInv
<1>3. IInv /\ QueueBound => ThreadBound
  <2> SUFFICES ASSUME IInv, QueueBound PROVE ThreadBound
    OBVIOUS
  <2> DEFINE Waiting == {tasks[k] : k \in DOMAIN tasks}
             Busy == {i \in Items : Running(i)}
  <2>1. tasks \in Seq(Items) /\ Len(tasks) \in Nat
    BY DEF IInv, TypeOK
  <2>2. IsFiniteSet(Waiting) /\ Cardinality(Waiting) <= Len(tasks)
    BY <2>1, RangeCardinality
  <2>3. /\ IsFiniteSet(Waiting \cup {currentChunkTask})
        /\ Cardinality(Waiting \cup {currentChunkTask}) <= Cardinality(Waiting) + 1
        /\ Cardinality(Waiting) \in Nat
        /\ Cardinality(Waiting \cup {currentChunkTask}) \in Nat
    <3> DEFINE All == Waiting \cup {currentChunkTask}
    <3> HIDE DEF Waiting
    <3>1. /\ IsFiniteSet(All)
          /\ \/ Cardinality(All) = Cardinality(Waiting)
             \/ Cardinality(All) = Cardinality(Waiting) + 1
      BY ONLY <2>2, FS_AddElement
    <3>2. Cardinality(Waiting) \in Nat /\ Cardinality(All) \in Nat
      BY ONLY <2>2, <3>1, FS_CardinalityType
    <3> HIDE DEF All
    <3>3. Cardinality(All) <= Cardinality(Waiting) + 1
      BY ONLY <3>1, <3>2
    <3> QED
      BY <3>1, <3>2, <3>3 DEF All
  <2>4. Busy \subseteq Waiting \cup {currentChunkTask}
    BY DEF IInv, NoOrphanGatherer, Owned, Joinable, Running
  <2>5. /\ Cardinality(Busy) <= Cardinality(Waiting \cup {currentChunkTask})
        /\ Cardinality(Busy) \in Nat
    BY <2>3, <2>4, FS_Subset, FS_CardinalityType
  <2>6. Cardinality(Busy) <= ConcurrentFilterThreads + 2
    BY <2>1, <2>2, <2>3, <2>5, FilterAssumption DEF QueueBound
  <2> QED
    BY <2>6 DEF ThreadBound
<1> QED
  BY <1>1, <1>2, <1>3, Invariance, PTL DEF Spec

-----------------------------------------------------------------------------
(* What GetChunk's last answers mean.                                      *)

\* Once the failure or the end has been reported, nothing is left and nothing
\* runs that could add anything; a new extraction begins without an answer.
Over ==
    /\ returned \in {"failed", "end"} =>
           HasEnded /\ Owned = {} /\ extractionResult = "S_OK"
    /\ returned = "end" => extractor = "off"
    /\ windows = "open" => returned = "none"

\* What may happen while nothing is left.
LEMMA StepWhenOver ==
  ASSUME IInv, Over, returned \in {"failed", "end"}, [Next]_vars
  PROVE  /\ Over'
         /\ returned' \in {returned, "end", "none"}
         /\ ~ReportFailure
<1>a. /\ HasEnded /\ tasks = << >> /\ currentChunkTask = NoItem
      /\ extractionResult = "S_OK"
      /\ windows \notin {"chunk", "abortJoin", "open"}
      /\ returned = "end" => extractor = "off"
  <2>1. tasks \in Seq(Items) /\ HasEnded /\ Owned = {}
    BY DEF IInv, TypeOK, Over
  <2>2. tasks = << >>
    BY <2>1 DEF Owned
  <2> QED
    BY <2>1, <2>2 DEF Over, Owned, IInv, Control
<1> USE DEF flags, shared, extractorVars, reading, host, history, windowsVars
<1>1. CASE Reset
  BY <1>1 DEF Reset, ReportFailure, Over
<1>2. CASE JoinExtractor
  BY <1>2, <1>a DEF JoinExtractor, Over, Owned, HasEnded, ReportFailure
<1>3. CASE ReportEnd
  BY <1>3, <1>a DEF ReportEnd, Over, Owned, HasEnded, ReportFailure
<1>4. CASE /\ UNCHANGED << extractor, tasks, currentChunkTask, extractionResult,
                           returned >>
           /\ windows' # "open"
  BY <1>4, <1>a DEF Over, Owned, HasEnded, ReportFailure
<1>5. Reset \/ JoinExtractor \/ ReportEnd
        \/ /\ UNCHANGED << extractor, tasks, currentChunkTask, extractionResult,
                           returned >>
           /\ windows' # "open"
  <2>1. CASE Calls
    BY <2>1, <1>a
       DEF Calls, Initialize, Load, LoadFails, GivesStream, InitRefused,
           CallInit, CallRelease, SignalAbort, CallGetChunk, vars
  <2>2. CASE WindowsInside
    BY <2>2, <1>a
       DEF WindowsInside, AbortTask, JoinAborted, OpenFails, StartThreadFails,
           StartExtractor, SleepForTask, TakeTask, ReportFailure, SleepForChunk,
           ReturnChunk, ReturnErrorChunk, Deliver, DropTask
  <2>3. ~Extractor
    BY <1>a
       DEF HasEnded, Extractor, Write, GetStreamSkip, GetStream, EndPrevious,
           MakeTask, MakeTaskFails, SleepForQueue, RefuseTask, QueueTask,
           RunTask, ExtractEnds, EndLast, Finish
  <2>4. CASE \E i \in Items : Gatherer(i)
    BY <2>4, <1>a DEF Gatherer
  <2>5. CASE UNCHANGED vars
    BY <2>5, <1>a DEF vars
  <2> QED
    BY <2>1, <2>2, <2>3, <2>4, <2>5 DEF Next, Windows, Released
<1> QED
  BY <1>1, <1>2, <1>3, <1>4, <1>5 DEF Reset, ReportFailure, Over

\* GetChunk reports a failure or the end only when nothing is left.
LEMMA OverStep ==
  ASSUME IInv, Over, [Next]_vars
  PROVE  Over'
<1>1. CASE returned \in {"failed", "end"}
  BY <1>1, StepWhenOver
<1>2. CASE returned \notin {"failed", "end"}
  <2> USE DEF flags, shared, extractorVars, reading, host, history, windowsVars
  <2>1. CASE ReportFailure \/ ReportEnd
    <3>1. /\ HasEnded' /\ extractionResult' = "S_OK"
          /\ returned' = "end" => extractor' = "off"
          /\ tasks' = << >> /\ currentChunkTask' = NoItem
          /\ windows' = "idle"
      BY <2>1
         DEF ReportFailure, ReportEnd, AllTaken, Cleared, HasEnded, IInv,
             Control, Ownership
    <3> QED
      BY <3>1 DEF Over, Owned
  <2>2. CASE Reset
    BY <2>2 DEF Reset, Over
  <2>3. \/ ReportFailure \/ ReportEnd \/ Reset
        \/ /\ returned' \in {returned, "chunk"}
           /\ windows' # "open" \/ UNCHANGED << returned, windows >>
    <3>1. CASE Calls
      BY <3>1
         DEF Calls, Initialize, Load, LoadFails, GivesStream, InitRefused,
             CallInit, CallRelease, SignalAbort, CallGetChunk, vars
    <3>2. CASE WindowsInside
      BY <3>2
         DEF WindowsInside, JoinExtractor, AbortTask, JoinAborted, OpenFails,
             StartThreadFails, StartExtractor, SleepForTask, TakeTask,
             SleepForChunk, ReturnChunk, ReturnErrorChunk, Deliver, DropTask
    <3>3. CASE Extractor
      BY <3>3
         DEF Extractor, Write, GetStreamSkip, GetStream, EndPrevious,
             MakeTask, MakeTaskFails, SleepForQueue, RefuseTask, QueueTask,
             RunTask, ExtractEnds, EndLast, Finish
    <3>4. CASE \E i \in Items : Gatherer(i)
      BY <3>4 DEF Gatherer
    <3>5. CASE UNCHANGED vars
      BY <3>5 DEF vars
    <3> QED
      BY <3>1, <3>2, <3>3, <3>4, <3>5 DEF Next, Windows, Released
  <2> QED
    BY <1>2, <2>1, <2>2, <2>3 DEF Over
<1> QED
  BY <1>1, <1>2

LEMMA OverInvariance == Spec => []Over
<1>1. Init => Over
  BY DEF Init, Over
<1>2. IInv /\ Over /\ [Next]_vars => Over'
  BY OverStep
<1> QED
  BY <1>1, <1>2, Invariance, PTL DEF Spec

\* GetChunk says that there are no more chunks only when no gatherer is left,
\* no task is queued, and every member that was scanned to its end has given
\* its chunks and its failure.
THEOREM EndIsTheEnd == Spec => []EndIsComplete
<1>1. Init => LetGo
  BY InitLetGo
<1>2. IInv /\ LetGo /\ [Next]_vars => LetGo'
  BY LetGoStep
<1>3. IInv /\ LetGo /\ Over => EndIsComplete
  <2> SUFFICES ASSUME IInv, LetGo, Over, returned = "end" PROVE EndIsComplete!2
    BY DEF EndIsComplete
  <2>1. extractor = "off" /\ Owned = {}
    BY DEF Over
  <2>2. \A i \in Items : ~Joinable(i)
    BY <2>1 DEF IInv, NoOrphanGatherer
  <2> QED
    BY <2>1, <2>2 DEF LetGo, LetGoOf
<1> QED
  BY <1>1, <1>2, <1>3, Invariance, OverInvariance, PTL DEF Spec

\* After the end, or the failure of the extraction, GetChunk has no chunk any
\* more until the next Init, and the failure is not reported again.
THEOREM OutcomeStays == Spec => OutcomeIsFinal
<1>1. IInv /\ Over /\ [Next]_vars =>
        [/\ returned = "end" => returned' \in {"end", "none"}
         /\ returned = "failed" => returned' # "chunk"
         /\ ReportFailure => returned # "failed"]_vars
  BY StepWhenOver
<1> QED
  BY <1>1, Invariance, OverInvariance, PTL DEF Spec, OutcomeIsFinal

-----------------------------------------------------------------------------
(* In which order the chunks come.                                         *)

\* How many chunks of a member GetChunk has taken.
Given(i) == task[i].produced + 1 - Len(task[i].chunks)

\* The chunks that wait are the last ones the sub-filter gave, in its order;
\* the end is signalled last, and only a gatherer that ran can have failed.
Lined(i) ==
    /\ Given(i) >= 0
    /\ \A k \in 1 .. Len(task[i].chunks) :
         task[i].chunks[k] = Given(i) + k - 1
    /\ task[i].isFilterDone => ~Running(i)
    /\ task[i].gatherer \in {"none", "init", "check", "get"} =>
           task[i].result = "S_OK"

AllLined == \A i \in Items : Lined(i)

\* Member n comes after all that are queued, being read or were delivered.
Before(n) ==
    /\ \A k \in DOMAIN tasks : tasks[k] < n
    /\ currentChunkTask < n
    /\ delivered.item < n

\* The queue is in the order of the archive, of its members no chunk was
\* taken yet, and 7-Zip's next member comes after them.
InQueue ==
    /\ \A k, l \in DOMAIN tasks : k < l => tasks[k] < tasks[l]
    /\ \A k \in DOMAIN tasks :
         /\ currentChunkTask < tasks[k]
         /\ delivered.item < tasks[k]
         /\ Given(tasks[k]) = 0
    /\ Before(nextIndex)
    /\ currentExtractTask < nextIndex
    /\ extractor = "queue" =>
         /\ Before(currentExtractTask)
         /\ task[currentExtractTask].chunks = << NameChunk >>
         /\ task[currentExtractTask].produced = 0
         /\ task[currentExtractTask].gatherer = "none"

Aborting == windows \in {"join", "abort", "abortJoin"}

\* What was delivered last is the chunk before the next one of the current
\* member, or its failure, or a chunk of an earlier member.
Follows(i) ==
    IF delivered.item = i
      THEN \/ delivered.chunk = Given(i) - 1
           \/ /\ delivered.chunk = ErrorChunk
              /\ task[i].chunks = << >>
              /\ Drained(i)
              /\ task[i].result = "S_OK"
      ELSE /\ delivered.item < i
           /\ Given(i) = 0

\* A member GetChunk has left has nothing to give.
Handed ==
    /\ delivered.id <= currentChunkId
    /\ currentChunkTask # NoItem => Follows(currentChunkTask)
    /\ ~Aborting /\ delivered.item \notin {NoItem, currentChunkTask} =>
           task[delivered.item].chunks = << >> /\ Drained(delivered.item)
    /\ windows = "open" =>
           /\ tasks = << >>
           /\ currentChunkTask = NoItem
           /\ delivered = NothingYet

InOrder == AllLined /\ InQueue /\ Handed

\* The numbers of chunks are numbers.
LEMMA GivenType ==
  ASSUME NEW i \in Items, task \in [Items -> TaskRecords]
  PROVE  /\ task[i].chunks \in Seq(Chunks)
         /\ Len(task[i].chunks) \in Nat
         /\ task[i].produced \in 0 .. MaxChunks
         /\ Given(i) \in Int
<1>1. task[i] \in TaskRecords
  OBVIOUS
<1>2. task[i].chunks \in Seq(Chunks) /\ task[i].produced \in 0 .. MaxChunks
  BY <1>1 DEF TaskRecords
<1>3. Len(task[i].chunks) \in Nat
  BY <1>2
<1> QED
  BY <1>2, <1>3, ItemTaskAssumption DEF Given

\* What a thread does to a task in the background: it takes no chunk, and of
\* a drained task it changes nothing that counts.
Advances(i) ==
    /\ Given(i)' = Given(i)
    /\ Drained(i) =>
         /\ Drained(i)'
         /\ task'[i].chunks = task[i].chunks
         /\ task'[i].result = task[i].result

\* An operation that leaves the chunks alone.
LEMMA ChunksStay ==
  ASSUME NEW i \in Items, Lined(i),
         task'[i].produced = task[i].produced,
         task'[i].chunks = task[i].chunks,
         task[i].isFilterDone => task'[i].isFilterDone,
         task[i].isExtractionDone => task'[i].isExtractionDone,
         Drained(i) => task'[i].result = task[i].result,
         task'[i].isFilterDone =>
             task'[i].gatherer \notin GathererStates \ {"none", "exited"},
         task'[i].gatherer \in {"none", "init", "check", "get"} =>
             task'[i].result = "S_OK"
  PROVE  Lined(i)' /\ Advances(i)
BY DEF Lined, Given, Advances, Running, Drained

\* The sub-filter's next chunk is put behind those that wait.
LEMMA ChunkAdded ==
  ASSUME NEW i \in Items, task \in [Items -> TaskRecords], Lined(i),
         GathererChunk(i)
  PROVE  Lined(i)' /\ Advances(i)
<1> DEFINE q == task[i].chunks
           p == task[i].produced
<1>1. /\ q \in Seq(Chunks) /\ Len(q) \in Nat /\ p \in 0 .. MaxChunks
      /\ Given(i) = p + 1 - Len(q)
  BY GivenType DEF Given
<1>2. task[i] \in TaskRecords /\ task[i].gatherer = "get"
  BY DEF GathererChunk
<1>3. /\ task'[i].produced = p + 1
      /\ task'[i].chunks = Append(q, p + 1)
      /\ task'[i].gatherer = "check"
      /\ task'[i].result = task[i].result
      /\ task'[i].isFilterDone = task[i].isFilterDone
  BY <1>2 DEF GathererChunk, Update, PushedBack, TaskRecords
<1>4. ~task[i].isFilterDone /\ task[i].result = "S_OK"
  BY <1>2 DEF Lined, Running, GathererStates
<1>5. p + 1 \in Chunks
  BY <1>1, ItemTaskAssumption DEF GathererChunk, Chunks, ErrorChunk
<1> HIDE DEF q, p
<1>6. /\ Len(Append(q, p + 1)) = Len(q) + 1
      /\ Append(q, p + 1)[Len(q) + 1] = p + 1
      /\ \A k \in 1 .. Len(q) : Append(q, p + 1)[k] = q[k]
  BY <1>1, <1>5
<1>7. Given(i)' = p + 1 + 1 - (Len(q) + 1)
  BY <1>3, <1>6 DEF Given
<1>8. Given(i)' = Given(i)
  BY <1>1, <1>7
<1>9. \A k \in 1 .. Len(q) + 1 : Append(q, p + 1)[k] = Given(i) + k - 1
  <2> SUFFICES ASSUME NEW k \in 1 .. Len(q) + 1
               PROVE  Append(q, p + 1)[k] = Given(i) + k - 1
    OBVIOUS
  <2>1. CASE k = Len(q) + 1
    BY <1>1, <1>6, <2>1
  <2>2. CASE k # Len(q) + 1
    <3>1. k \in 1 .. Len(q)
      BY <1>1, <2>2
    <3>2. q[k] = Given(i) + k - 1
      BY <3>1 DEF Lined, q
    <3> QED
      BY <1>6, <3>1, <3>2
  <2> QED
    BY <2>1, <2>2
<1>10. Lined(i)'
  <2>1. Given(i)' >= 0
    BY <1>8 DEF Lined
  <2>2. \A k \in 1 .. Len(task'[i].chunks) :
          task'[i].chunks[k] = Given(i)' + k - 1
    BY <1>3, <1>6, <1>8, <1>9
  <2> QED
    BY <1>3, <1>4, <2>1, <2>2 DEF Lined
<1> QED
  BY <1>4, <1>8, <1>10 DEF Advances, Drained

\* What extractor, gatherer and abort do to a task is done in the background.
LEMMA OpsAdvance ==
  ASSUME IInv, NEW i \in Items, Lined(i),
         \/ GathererStep(i) \/ Queued(i) \/ RunStarted(i) \/ RunThrows(i)
         \/ AppendBytes(i) \/ SetExtractionDone(i) \/ SetEndOfFile(i)
         \/ AbortSignals(i) \/ NextChunkSleeps(i)
  PROVE  /\ Lined(i)' /\ Advances(i)
         /\ \A j \in Items \ {i} : task'[j] = task[j]
<1>a. /\ task \in [Items -> TaskRecords]
      /\ task[i] \in TaskRecords
      /\ Joinable(i) => task[i].wasFilterStarted
  BY DEF IInv, TypeOK, Ownership
<1>b. /\ task[i].isFilterDone =>
           task[i].gatherer \notin GathererStates \ {"none", "exited"}
      /\ task[i].gatherer \in {"none", "init", "check", "get"} =>
           task[i].result = "S_OK"
  BY DEF Lined, Running
<1>0. \A j \in Items \ {i} : task'[j] = task[j]
  BY <1>a DEF GathererStep, GathererInit, GathererCheck, GathererChunk,
     GathererStop, GathererEnd, Queued, RunStarted, RunThrows, AppendBytes,
     SetExtractionDone, SetEndOfFile, AbortSignals, NextChunkSleeps, Update
<1>1. Lined(i)' /\ Advances(i)
  <2>1. CASE GathererInit(i)
    <3>1. CASE Update(i, [task[i] EXCEPT !.gatherer = "check", !.need = 0])
      BY <1>a, <1>b, <2>1, <3>1, ChunksStay
         DEF GathererInit, Update, TaskRecords, GathererStates, Drained
    <3>2. CASE Update(i, [task[i] EXCEPT !.gatherer = "end", !.need = 0,
                                         !.result = "failed"])
      BY <1>a, <1>b, <2>1, <3>2, ChunksStay
         DEF GathererInit, Update, TaskRecords, GathererStates, Drained
    <3> QED
      BY <2>1, <3>1, <3>2 DEF GathererInit
  <2>2. CASE GathererCheck(i)
    <3>1. task[i].gatherer = "check" /\ ~task[i].isFilterDone
      BY <1>b, <2>2 DEF GathererCheck, GathererStates
    <3>2. CASE task[i].aborted
      <4>1. Update(i, [task[i] EXCEPT !.gatherer = "end"])
        BY <2>2, <3>2 DEF GathererCheck
      <4> QED
        BY <1>a, <1>b, <3>1, <4>1, ChunksStay
           DEF Update, TaskRecords, GathererStates, Drained
    <3>3. CASE ~task[i].aborted
      <4>1. PICK need \in 0 .. MaxSize :
              Update(i, [task[i] EXCEPT !.gatherer = "get", !.need = need])
        BY <2>2, <3>3 DEF GathererCheck
      <4> QED
        BY <1>a, <1>b, <3>1, <4>1, ChunksStay
           DEF Update, TaskRecords, GathererStates, Drained
    <3> QED
      BY <3>2, <3>3
  <2>3. CASE GathererChunk(i)
    BY <1>a, <2>3, ChunkAdded
  <2>4. CASE GathererStop(i)
    <3>1. PICK result \in Codes :
            Update(i, [task[i] EXCEPT !.gatherer = "end", !.need = 0,
                                      !.result = result])
      BY <2>4 DEF GathererStop
    <3>2. ~task[i].isFilterDone
      BY <1>b, <2>4 DEF GathererStop, GathererStates
    <3> QED
      BY <1>a, <3>1, <3>2, ChunksStay
         DEF Update, TaskRecords, GathererStates, Drained
  <2>5. CASE GathererEnd(i)
    BY <1>a, <1>b, <2>5, ChunksStay
       DEF GathererEnd, Update, TaskRecords, GathererStates, Drained
  <2>6. CASE Queued(i)
    BY <1>a, <1>b, <2>6, ChunksStay
       DEF Queued, Update, TaskRecords, Drained
  <2>7. CASE RunStarted(i)
    <3>1. PICK need \in 0 .. MaxSize :
            Update(i, [task[i] EXCEPT !.buffer = "open", !.gatherer = "init",
                                      !.need = need, !.wasFilterStarted = TRUE])
      BY <2>7 DEF RunStarted
    <3>2. ~task[i].isFilterDone /\ task[i].gatherer = "none"
      BY <1>a, <2>7 DEF RunStarted, Joinable
    <3> QED
      BY <1>a, <1>b, <3>1, <3>2, ChunksStay DEF Update, TaskRecords, Drained
  <2>8. CASE RunThrows(i)
    <3>1. PICK buffer \in {"none", "open"} :
            Update(i, [task[i] EXCEPT !.buffer = buffer])
      BY <2>8 DEF RunThrows
    <3> QED
      BY <1>a, <1>b, <3>1, ChunksStay DEF Update, TaskRecords, Drained
  <2>9. CASE AppendBytes(i)
    BY <1>a, <1>b, <2>9, ChunksStay
       DEF AppendBytes, Update, TaskRecords, Drained
  <2>10. CASE SetExtractionDone(i)
    BY <1>a, <1>b, <2>10, ChunksStay
       DEF SetExtractionDone, Update, TaskRecords, Drained, Joinable
  <2>11. CASE SetEndOfFile(i)
    BY <1>a, <1>b, <2>11, ChunksStay
       DEF SetEndOfFile, Update, TaskRecords, Drained
  <2>12. CASE AbortSignals(i)
    BY <1>a, <1>b, <2>12, ChunksStay
       DEF AbortSignals, Update, TaskRecords, Drained
  <2>13. CASE NextChunkSleeps(i)
    BY <1>a, <1>b, <2>13, ChunksStay
       DEF NextChunkSleeps, Update, TaskRecords, Drained
  <2> QED
    BY <2>1, <2>2, <2>3, <2>4, <2>5, <2>6, <2>7, <2>8, <2>9, <2>10,
       <2>11, <2>12, <2>13 DEF GathererStep
<1> QED
  BY <1>0, <1>1

\* Steps that move no task and deliver nothing; no other step queues a task,
\* opens the archive or ends the abort sequence.
Around ==
    /\ UNCHANGED << tasks, currentChunkTask, delivered, currentChunkId >>
    /\ nextIndex' \in {nextIndex, nextIndex + 1}
    /\ currentExtractTask' \in {currentExtractTask, NoItem}
    /\ extractor' = "queue" =>
         /\ extractor = "queue"
         /\ currentExtractTask' = currentExtractTask
         /\ task'[currentExtractTask] = task[currentExtractTask]
    /\ windows' = "open" => windows = "open"
    /\ Aborting => Aborting'

\* Such steps keep the order, if they do nothing to the tasks or work on them
\* in the background.
LEMMA OrderCarried ==
  ASSUME IInv, InOrder, AllLined', \A i \in Items : Advances(i), Around
  PROVE  InOrder'
<1>a. /\ tasks \in Seq(Items) /\ DOMAIN tasks = 1 .. Len(tasks)
      /\ Len(tasks) \in Nat
      /\ \A k \in DOMAIN tasks : tasks[k] \in Items
      /\ currentChunkTask \in Items \cup {NoItem}
      /\ currentExtractTask \in Items \cup {NoItem}
      /\ nextIndex \in Nat \ {0}
      /\ delivered.item \in Items \cup {NoItem}
  BY ItemTaskAssumption DEF IInv, TypeOK
<1>b. nextIndex' \in Nat /\ nextIndex' >= nextIndex
  BY <1>a DEF Around
<1>c. \A k \in DOMAIN tasks : tasks'[k] = tasks[k] /\ tasks' = tasks
  BY DEF Around
<1>1. InQueue'
  <2>1. \A k, l \in DOMAIN tasks' : k < l => tasks'[k] < tasks'[l]
    BY DEF InOrder, InQueue, Around
  <2>2. \A k \in DOMAIN tasks :
          /\ currentChunkTask' < tasks[k]
          /\ delivered'.item < tasks[k]
          /\ Given(tasks[k])' = 0
    BY <1>a DEF InOrder, InQueue, Around, Advances
  <2>3. Before(nextIndex)'
    <3>1. /\ Before(nextIndex)
          /\ UNCHANGED << tasks, currentChunkTask, delivered >>
      BY DEF InOrder, InQueue, Around
    <3> QED
      BY <1>a, <1>b, <3>1 DEF Before, Items, NoItem
  <2>4. currentExtractTask' < nextIndex'
    <3>1. currentExtractTask < nextIndex
      BY DEF InOrder, InQueue
    <3> QED
      BY <1>a, <1>b, <3>1 DEF Around, Items, NoItem
  <2>5. ASSUME extractor' = "queue"
        PROVE  /\ Before(currentExtractTask)'
               /\ task'[currentExtractTask'].chunks = << NameChunk >>
               /\ task'[currentExtractTask'].produced = 0
               /\ task'[currentExtractTask'].gatherer = "none"
    BY <2>5 DEF InOrder, InQueue, Around, Before
  <2> QED
    BY <2>1, <2>2, <2>3, <2>4, <2>5 DEF InQueue, Around
<1>2. Handed'
  <2>1. delivered'.id <= currentChunkId'
    BY DEF InOrder, Handed, Around
  <2>2. ASSUME currentChunkTask # NoItem
        PROVE  Follows(currentChunkTask)'
    <3>1. currentChunkTask \in Items /\ currentChunkTask' = currentChunkTask
          /\ delivered' = delivered
      BY <1>a, <2>2 DEF Around
    <3>2. Advances(currentChunkTask) /\ Follows(currentChunkTask)
      BY <2>2, <3>1 DEF InOrder, Handed
    <3> QED
      BY <3>1, <3>2 DEF Follows, Advances, Given, Drained
  <2>3. ASSUME ~Aborting', delivered.item \notin {NoItem, currentChunkTask}
        PROVE  /\ task'[delivered.item].chunks = << >>
               /\ Drained(delivered.item)'
    <3>1. /\ task[delivered.item].chunks = << >>
          /\ Drained(delivered.item)
          /\ delivered.item \in Items
      BY <1>a, <2>3 DEF InOrder, Handed, Around
    <3>2. delivered' = delivered
      BY DEF Around
    <3> QED
      BY <3>1, <3>2 DEF Advances, Drained
  <2> QED
    BY <2>1, <2>2, <2>3 DEF InOrder, Handed, Around
<1> QED
  BY <1>1, <1>2 DEF InOrder

\* Work on one task in the background is work in the background on all.
LEMMA AllAdvance ==
  ASSUME IInv, AllLined,
         \/ UNCHANGED task
         \/ \E i \in Items :
              \/ GathererStep(i) \/ Queued(i) \/ RunStarted(i) \/ RunThrows(i)
              \/ AppendBytes(i) \/ SetExtractionDone(i) \/ SetEndOfFile(i)
              \/ AbortSignals(i) \/ NextChunkSleeps(i)
  PROVE  AllLined' /\ \A i \in Items : Advances(i)
<1>1. \A j \in Items : task'[j] = task[j] => Lined(j)' /\ Advances(j)
  BY DEF AllLined, Lined, Running, Advances, Given, Drained
<1>2. CASE UNCHANGED task
  BY <1>1, <1>2 DEF AllLined
<1>3. ASSUME NEW i \in Items,
             \/ GathererStep(i) \/ Queued(i) \/ RunStarted(i) \/ RunThrows(i)
             \/ AppendBytes(i) \/ SetExtractionDone(i) \/ SetEndOfFile(i)
             \/ AbortSignals(i) \/ NextChunkSleeps(i)
      PROVE  AllLined' /\ \A j \in Items : Advances(j)
  <2>1. /\ Lined(i)' /\ Advances(i)
        /\ \A j \in Items \ {i} : task'[j] = task[j]
    BY <1>3, OpsAdvance DEF AllLined
  <2> QED
    BY <1>1, <2>1 DEF AllLined
<1> QED
  BY <1>2, <1>3

\* All other steps move a task, deliver a chunk, or begin an extraction.
LEMMA AroundOrNot ==
  ASSUME IInv, InOrder, [Next]_vars
  PROVE  \/ Around /\ AllLined' /\ \A i \in Items : Advances(i)
         \/ TakeTask \/ StartExtractor \/ Reset \/ AbortTask \/ JoinAborted
         \/ ReturnChunk \/ ReturnErrorChunk \/ DropTask \/ MakeTask
         \/ QueueTask
<1> USE DEF flags, shared, extractorVars, reading, host, history, windowsVars
<1>a. /\ currentChunkTask \in Items \cup {NoItem}
      /\ currentExtractTask \in Items \cup {NoItem}
      /\ nextIndex \in Nat
      /\ NoItem \notin Items
      /\ AllLined
  BY ItemTaskAssumption DEF IInv, TypeOK, InOrder, Items, NoItem
<1>1. CASE \/ CallInit \/ CallRelease \/ JoinExtractor \/ OpenFails
           \/ StartThreadFails \/ CallGetChunk \/ SleepForTask
           \/ ReportFailure \/ ReportEnd
  <2>1. Around
    <3>1. UNCHANGED << task, tasks, currentChunkTask, currentExtractTask,
                       delivered, currentChunkId, nextIndex >>
      BY <1>1 DEF CallInit, CallRelease, SignalAbort, JoinExtractor, OpenFails,
                  StartThreadFails, CallGetChunk, SleepForTask, ReportFailure,
                  ReportEnd
    <3>2. extractor' = "queue" => extractor = "queue"
      BY <1>1 DEF CallInit, CallRelease, SignalAbort, JoinExtractor, OpenFails,
                  StartThreadFails, CallGetChunk, SleepForTask, ReportFailure,
                  ReportEnd
    <3>3. windows' # "open" /\ (Aborting => Aborting')
      BY <1>1 DEF CallInit, CallRelease, SignalAbort, JoinExtractor, OpenFails,
                  StartThreadFails, CallGetChunk, SleepForTask, ReportFailure,
                  ReportEnd, Aborting
    <3> QED
      BY <3>1, <3>2, <3>3 DEF Around
  <2>2. UNCHANGED task
    BY <1>1 DEF CallInit, CallRelease, SignalAbort, JoinExtractor, OpenFails,
                StartThreadFails, CallGetChunk, SleepForTask, ReportFailure,
                ReportEnd
  <2> QED
    BY <1>a, <2>1, <2>2, AllAdvance
<1>2. CASE \/ GetStreamSkip \/ MakeTaskFails \/ SleepForQueue \/ RefuseTask
           \/ Finish \/ Initialize \/ Load \/ LoadFails \/ UNCHANGED vars
  <2>1. UNCHANGED << task, tasks, currentChunkTask, currentExtractTask,
                     delivered, currentChunkId, windows >>
    BY <1>2 DEF GetStreamSkip, MakeTaskFails, SleepForQueue, RefuseTask, Finish,
                Initialize, Load, LoadFails, GivesStream, vars
  <2>2. /\ extractor' = "queue" => extractor = "queue"
        /\ nextIndex' \in {nextIndex, nextIndex + 1}
    BY <1>2 DEF GetStreamSkip, MakeTaskFails, SleepForQueue, RefuseTask, Finish,
                Initialize, Load, LoadFails, GivesStream, vars
  <2>3. Around
    BY <2>1, <2>2 DEF Around, Aborting
  <2> QED
    BY <1>a, <2>1, <2>3, AllAdvance
<1>3. CASE SleepForChunk
  <2>1. /\ currentChunkTask \in Items
        /\ NextChunkSleeps(currentChunkTask)
        /\ UNCHANGED << shared, extractorVars, windowsVars >>
    BY <1>3, <1>a DEF SleepForChunk, IInv, Control
  <2>2. extractor = "queue" => currentExtractTask # currentChunkTask
                               /\ currentExtractTask \in Items
    <3>1. extractor = "queue" => currentChunkTask < currentExtractTask
      BY DEF InOrder, InQueue, Before
    <3> QED
      BY <1>a, <2>1, <3>1 DEF IInv, Control, Items, NoItem
  <2>3. extractor = "queue" =>
            task'[currentExtractTask] = task[currentExtractTask]
    BY <2>1, <2>2 DEF NextChunkSleeps, Update, IInv, TypeOK
  <2>4. Around
    BY <2>1, <2>3 DEF Around, Aborting
  <2> QED
    BY <1>a, <2>1, <2>4, AllAdvance
<1>4. CASE Write \/ RunTask
  <2>1. /\ extractor # "queue" /\ extractor' # "queue"
        /\ UNCHANGED << tasks, currentChunkTask, currentExtractTask,
                        delivered, currentChunkId, windows, nextIndex >>
    BY <1>4 DEF Write, RunTask
  <2>2. Around
    BY <2>1 DEF Around, Aborting
  <2>3. \/ UNCHANGED task
        \/ /\ currentExtractTask \in Items
           /\ \/ AppendBytes(currentExtractTask)
              \/ RunStarted(currentExtractTask)
              \/ RunThrows(currentExtractTask)
    BY <1>4, <1>a DEF Write, RunTask, RunRefused, IInv, Control
  <2> QED
    BY <1>a, <2>2, <2>3, AllAdvance
<1>5. CASE GetStream \/ ExtractEnds
  <2>1. /\ extractor' # "queue"
        /\ UNCHANGED << tasks, currentChunkTask, currentExtractTask,
                        delivered, currentChunkId, windows, nextIndex >>
    BY <1>5 DEF GetStream, ExtractEnds
  <2>2. Around
    BY <2>1 DEF Around, Aborting
  <2>3. \/ UNCHANGED task
        \/ /\ currentExtractTask \in Items
           /\ SetExtractionDone(currentExtractTask)
    BY <1>5, <1>a DEF GetStream, ExtractEnds, IsPending
  <2> QED
    BY <1>a, <2>2, <2>3, AllAdvance
<1>6. CASE EndPrevious \/ EndLast
  <2>1. /\ extractor' # "queue" /\ currentExtractTask' = NoItem
        /\ UNCHANGED << tasks, currentChunkTask,
                        delivered, currentChunkId, windows, nextIndex >>
    BY <1>6 DEF EndPrevious, EndLast
  <2>2. Around
    BY <2>1 DEF Around, Aborting
  <2>3. /\ currentExtractTask \in Items
        /\ SetEndOfFile(currentExtractTask)
    BY <1>6, <1>a DEF EndPrevious, EndLast, IInv, Control
  <2> QED
    BY <1>a, <2>2, <2>3, AllAdvance
<1>7. ASSUME NEW i \in Items, Gatherer(i)
      PROVE  Around /\ AllLined' /\ \A j \in Items : Advances(j)
  <2>1. GathererStep(i) /\ UNCHANGED << shared, extractorVars, windowsVars >>
    BY <1>7 DEF Gatherer
  <2>2. task[i].gatherer # "none"
        /\ \A j \in Items \ {i} : task'[j] = task[j]
    BY <2>1 DEF GathererStep, GathererInit, GathererCheck, GathererChunk,
                GathererStop, GathererEnd, Update, IInv, TypeOK
  <2>3. extractor = "queue" =>
            task'[currentExtractTask] = task[currentExtractTask]
    <3>1. extractor = "queue" => currentExtractTask \in Items
                                 /\ currentExtractTask # i
      BY <1>a, <2>2 DEF IInv, Control, InOrder, InQueue
    <3> QED
      BY <2>2, <3>1
  <2>4. Around
    BY <2>1, <2>3 DEF Around, Aborting
  <2> QED
    BY <1>a, <2>1, <2>4, AllAdvance
<1> QED
  BY <1>1, <1>2, <1>3, <1>4, <1>5, <1>6, <1>7
     DEF Next, Calls, InitRefused, Windows, WindowsInside, Extractor, Released

\* What the order needs to know of the types.
LEMMA OrderTypes ==
  ASSUME IInv
  PROVE  /\ task \in [Items -> TaskRecords]
         /\ tasks \in Seq(Items) /\ DOMAIN tasks = 1 .. Len(tasks)
         /\ Len(tasks) \in Nat
         /\ \A k \in DOMAIN tasks : tasks[k] \in Items /\ tasks[k] \in Nat \ {0}
         /\ currentChunkTask \in Items \cup {NoItem} /\ currentChunkTask \in Nat
         /\ currentExtractTask \in Items \cup {NoItem}
         /\ currentExtractTask \in Nat
         /\ nextIndex \in Nat \ {0}
         /\ delivered.item \in Items \cup {NoItem} /\ delivered.item \in Nat
         /\ delivered.chunk \in Chunks /\ delivered.id \in Nat
         /\ currentChunkId \in Nat
         /\ NoItem = 0 /\ NoItem \notin Items
<1>1. NoItem = 0 /\ NoItem \notin Items /\ \A i \in Items : i \in Nat \ {0}
  BY ItemTaskAssumption DEF Items, NoItem
<1>2. tasks \in Seq(Items)
  BY DEF IInv, TypeOK
<1>3. /\ DOMAIN tasks = 1 .. Len(tasks) /\ Len(tasks) \in Nat
      /\ \A k \in DOMAIN tasks : tasks[k] \in Items
  BY <1>2
<1>4. /\ delivered.item \in Items \cup {NoItem}
      /\ delivered.chunk \in Chunks /\ delivered.id \in Nat
  BY DEF IInv, TypeOK
<1>5. /\ currentChunkTask \in Items \cup {NoItem}
      /\ currentExtractTask \in Items \cup {NoItem}
      /\ nextIndex \in Nat \ {0} /\ currentChunkId \in Nat
      /\ task \in [Items -> TaskRecords]
  BY ItemTaskAssumption DEF IInv, TypeOK
<1> QED
  BY <1>1, <1>2, <1>3, <1>4, <1>5

\* Taking the first task from the queue, to read it or to abort it.
LEMMA OrderTake ==
  ASSUME IInv, InOrder, AllLined', \A i \in Items : Advances(i),
         tasks # << >>, currentChunkTask = NoItem,
         currentChunkTask' = Head(tasks), tasks' = Tail(tasks),
         UNCHANGED << delivered, currentChunkId, nextIndex, currentExtractTask,
                      extractor >>,
         extractor = "queue" =>
             task'[currentExtractTask] = task[currentExtractTask],
         windows' # "open", Aborting => Aborting'
  PROVE  InOrder'
<1>a. /\ tasks \in Seq(Items) /\ DOMAIN tasks = 1 .. Len(tasks)
      /\ Len(tasks) \in Nat
      /\ \A k \in DOMAIN tasks : tasks[k] \in Items /\ tasks[k] \in Nat \ {0}
      /\ NoItem = 0
  BY OrderTypes
<1>b. /\ tasks \in Seq(Items) /\ 1 \in DOMAIN tasks
      /\ DOMAIN tasks' = 1 .. Len(tasks) - 1
      /\ currentChunkTask' = tasks[1]
  BY <1>a
<1>c. \A k \in 1 .. Len(tasks) - 1 :
        /\ tasks'[k] = tasks[k + 1]
        /\ k + 1 \in DOMAIN tasks /\ 1 < k + 1
  BY <1>a, <1>b
<1>d. /\ \A k, l \in DOMAIN tasks : k < l => tasks[k] < tasks[l]
      /\ \A k \in DOMAIN tasks : delivered.item < tasks[k]
                                 /\ Given(tasks[k]) = 0
      /\ \A k \in DOMAIN tasks : tasks[k] < nextIndex
      /\ delivered.item < nextIndex
  BY DEF InOrder, InQueue, Before
<1>1. \A k \in DOMAIN tasks :
        task'[tasks[k]].produced + 1 - Len(task'[tasks[k]].chunks) = 0
  BY <1>a, <1>d DEF Advances, Given
<1>2. InQueue'
  <2>1. \A k, l \in DOMAIN tasks' : k < l => tasks'[k] < tasks'[l]
    <3> SUFFICES ASSUME NEW k \in 1 .. Len(tasks) - 1,
                        NEW l \in 1 .. Len(tasks) - 1, k < l
                 PROVE  tasks'[k] < tasks'[l]
      BY <1>b
    <3>1. k + 1 < l + 1
      BY <1>a
    <3> QED
      BY <1>c, <1>d, <3>1
  <2>2. \A k \in DOMAIN tasks' :
          /\ currentChunkTask' < tasks'[k]
          /\ delivered'.item < tasks'[k]
    BY <1>b, <1>c, <1>d
  <2>3. \A k \in DOMAIN tasks' :
          task'[tasks'[k]].produced + 1 - Len(task'[tasks'[k]].chunks) = 0
    BY <1>a, <1>b, <1>c, <1>1
  <2>4. Before(nextIndex)'
    BY <1>b, <1>c, <1>d DEF Before
  <2>5. currentExtractTask' < nextIndex'
    BY DEF InOrder, InQueue
  <2>6. ASSUME extractor' = "queue"
        PROVE  /\ Before(currentExtractTask)'
               /\ task'[currentExtractTask'].chunks = << NameChunk >>
               /\ task'[currentExtractTask'].produced = 0
               /\ task'[currentExtractTask'].gatherer = "none"
    <3>1. Before(currentExtractTask)'
      BY <1>b, <1>c, <2>6 DEF InOrder, InQueue, Before
    <3> QED
      BY <2>6, <3>1 DEF InOrder, InQueue
  <2> QED
    BY <2>1, <2>2, <2>3, <2>4, <2>5, <2>6 DEF InQueue, Given
<1>3. Handed'
  <2>1. \A i \in Items : i = tasks[1] => Follows(i)'
    BY <1>b, <1>d, <1>1, <1>a DEF Follows, Given
  <2>2. ASSUME ~Aborting', delivered.item # NoItem
        PROVE  /\ task'[delivered.item].chunks = << >>
               /\ Drained(delivered.item)'
    <3>1. delivered.item \in Items
      BY <2>2, OrderTypes
    <3>2. task[delivered.item].chunks = << >> /\ Drained(delivered.item)
      BY <2>2 DEF InOrder, Handed
    <3> QED
      BY <3>1, <3>2 DEF Advances, Drained
  <2>3. Follows(currentChunkTask)'
    BY <1>a, <1>b, <2>1 DEF Follows
  <2>4. delivered'.id <= currentChunkId'
    BY DEF InOrder, Handed
  <2> QED
    BY <2>2, <2>3, <2>4 DEF Handed
<1> QED
  BY <1>2, <1>3 DEF InOrder

\* What is done to the current member does not touch those in the queue.
LEMMA QueueStays ==
  ASSUME IInv, InOrder, currentChunkTask \in Items,
         \A j \in Items \ {currentChunkTask} : task'[j] = task[j],
         currentChunkTask' \in {currentChunkTask, NoItem},
         delivered'.item \in {delivered.item, currentChunkTask},
         UNCHANGED << tasks, nextIndex, currentExtractTask, extractor >>
  PROVE  InQueue'
<1>a. /\ \A k \in DOMAIN tasks : tasks[k] \in Items /\ tasks[k] \in Nat \ {0}
      /\ currentChunkTask \in Nat /\ currentExtractTask \in Nat
      /\ currentExtractTask \in Items \cup {NoItem}
      /\ nextIndex \in Nat \ {0}
      /\ NoItem = 0
  BY OrderTypes
<1>b. /\ \A k, l \in DOMAIN tasks : k < l => tasks[k] < tasks[l]
      /\ \A k \in DOMAIN tasks : /\ currentChunkTask < tasks[k]
                                 /\ delivered.item < tasks[k]
                                 /\ Given(tasks[k]) = 0
      /\ Before(nextIndex) /\ currentExtractTask < nextIndex
  BY DEF InOrder, InQueue
<1>1. \A k \in DOMAIN tasks :
        task'[tasks[k]].produced + 1 - Len(task'[tasks[k]].chunks) = 0
  <2> SUFFICES ASSUME NEW k \in DOMAIN tasks
               PROVE  task'[tasks[k]] = task[tasks[k]]
    BY <1>b DEF Given
  <2>1. currentChunkTask # tasks[k]
    BY <1>a, <1>b
  <2> QED
    BY <1>a, <2>1
<1>2. \A k \in DOMAIN tasks :
        currentChunkTask' < tasks[k] /\ delivered'.item < tasks[k]
  BY <1>a, <1>b
<1>3. Before(nextIndex)'
  BY <1>a, <1>b DEF Before
<1>4. ASSUME extractor = "queue"
      PROVE  /\ Before(currentExtractTask)'
             /\ task'[currentExtractTask].chunks = << NameChunk >>
             /\ task'[currentExtractTask].produced = 0
             /\ task'[currentExtractTask].gatherer = "none"
  <2>1. /\ Before(currentExtractTask)
        /\ task[currentExtractTask].chunks = << NameChunk >>
        /\ task[currentExtractTask].produced = 0
        /\ task[currentExtractTask].gatherer = "none"
    BY <1>4 DEF InOrder, InQueue
  <2>2. /\ currentExtractTask # currentChunkTask
        /\ currentExtractTask \in Items
    BY <1>a, <1>4, <2>1 DEF Before, IInv, Control
  <2>3. Before(currentExtractTask)'
    BY <1>a, <2>1, <2>2 DEF Before
  <2> QED
    BY <2>1, <2>2, <2>3
<1> QED
  BY <1>1, <1>2, <1>3, <1>4, <1>b DEF InQueue, Given

\* NextChunk takes the first of the chunks that wait.
LEMMA ChunkTaken ==
  ASSUME NEW i \in Items, task \in [Items -> TaskRecords], Lined(i),
         NextChunkPops(i)
  PROVE  /\ Lined(i)'
         /\ Given(i)' = Given(i) + 1
         /\ Head(task[i].chunks) = Given(i)
         /\ \A j \in Items \ {i} : task'[j] = task[j]
<1> DEFINE q == task[i].chunks
<1>1. /\ q \in Seq(Chunks) /\ Len(q) \in Nat /\ q # << >>
      /\ task[i].produced \in 0 .. MaxChunks
      /\ Given(i) = task[i].produced + 1 - Len(q) /\ Given(i) \in Int
  BY GivenType DEF Given, NextChunkPops
<1>2. task[i] \in TaskRecords
  OBVIOUS
<1>3. /\ task'[i].produced = task[i].produced
      /\ task'[i].chunks = Tail(q)
      /\ task'[i].gatherer = task[i].gatherer
      /\ task'[i].result = task[i].result
      /\ task'[i].isFilterDone = task[i].isFilterDone
      /\ \A j \in Items \ {i} : task'[j] = task[j]
  BY <1>2 DEF NextChunkPops, Update, TaskRecords
<1>4. \A k \in 1 .. Len(q) : q[k] = Given(i) + k - 1
  BY DEF Lined
<1> HIDE DEF q
<1>5. /\ Head(q) = q[1] /\ 1 \in 1 .. Len(q)
      /\ Len(Tail(q)) = Len(q) - 1
      /\ \A k \in 1 .. Len(q) - 1 : Tail(q)[k] = q[k + 1]
  BY <1>1
<1>6. Head(q) = Given(i)
  BY <1>1, <1>4, <1>5
<1>7. Given(i)' = Given(i) + 1
  <2>1. Given(i)' = task[i].produced + 1 - (Len(q) - 1)
    BY <1>3, <1>5 DEF Given
  <2> QED
    BY <1>1, <2>1
<1>8. \A k \in 1 .. Len(q) - 1 : Tail(q)[k] = Given(i) + 1 + k - 1
  <2> SUFFICES ASSUME NEW k \in 1 .. Len(q) - 1
               PROVE  Tail(q)[k] = Given(i) + 1 + k - 1
    OBVIOUS
  <2>1. k + 1 \in 1 .. Len(q)
    BY <1>1
  <2>2. q[k + 1] = Given(i) + (k + 1) - 1
    BY <1>4, <2>1
  <2> QED
    BY <1>1, <1>5, <2>2
<1>9. Lined(i)'
  <2>1. Given(i)' >= 0
    BY <1>1, <1>7 DEF Lined
  <2>2. \A k \in 1 .. Len(task'[i].chunks) :
          task'[i].chunks[k] = Given(i)' + k - 1
    BY <1>3, <1>5, <1>7, <1>8
  <2> QED
    BY <1>3, <2>1, <2>2 DEF Lined, Running
<1> QED
  BY <1>3, <1>6, <1>7, <1>9 DEF q

\* Of a member of which nothing was taken, the next chunk is the name, and of
\* one that has no more, something was taken.
LEMMA NameIsFirst ==
  ASSUME NEW i \in Items, task \in [Items -> TaskRecords], Given(i) = 0
  PROVE  task[i].chunks # << >>
<1>1. Len(task[i].chunks) = task[i].produced + 1 /\ task[i].produced \in Nat
  BY GivenType, ItemTaskAssumption DEF Given
<1> QED
  BY <1>1

\* GetChunk delivers a chunk of the current member.
LEMMA OrderReturns ==
  ASSUME IInv, InOrder, ReturnChunk \/ ReturnErrorChunk
  PROVE  InOrder'
<1> USE DEF flags, shared, extractorVars, reading, host, history
<1>0. PICK i \in Items : i = currentChunkTask
  BY OrderTypes DEF ReturnChunk, ReturnErrorChunk, IInv, Control
<1>a. /\ i = currentChunkTask /\ windows = "chunk" /\ windows' = "idle"
      /\ UNCHANGED << tasks, nextIndex, currentExtractTask, extractor,
                      currentChunkTask >>
      /\ currentChunkId' = currentChunkId + 1
      /\ delivered'.id = currentChunkId + 1
      /\ delivered'.item = i
  BY <1>0 DEF ReturnChunk, ReturnErrorChunk, Deliver
<1>b. task \in [Items -> TaskRecords] /\ task[i] \in TaskRecords
      /\ Lined(i) /\ currentChunkId \in Nat
  BY <1>a, OrderTypes DEF InOrder, AllLined
<1>1. ASSUME Lined(i)', \A j \in Items \ {i} : task'[j] = task[j],
             Follows(i)'
      PROVE  InOrder'
  <2>1. AllLined'
    <3>1. ASSUME NEW j \in Items \ {i} PROVE Lined(j)'
      <4>1. Lined(j) /\ task'[j] = task[j]
        BY <1>1 DEF InOrder, AllLined
      <4> QED
        BY <4>1 DEF Lined, Given, Running
    <3> QED
      BY <1>1, <3>1 DEF AllLined
  <2>2. InQueue'
    BY <1>a, <1>1, QueueStays
  <2>3. Handed'
    BY <1>a, <1>b, <1>1 DEF Handed, Follows
  <2> QED
    BY <2>1, <2>2, <2>3 DEF InOrder
<1>2. CASE ReturnChunk
  <2>1. /\ NextChunkPops(i)
        /\ delivered'.chunk = Head(task[i].chunks)
    BY <1>2, <1>0 DEF ReturnChunk, Deliver
  <2>2. /\ Lined(i)'
        /\ Given(i)' = Given(i) + 1
        /\ Head(task[i].chunks) = Given(i)
        /\ \A j \in Items \ {i} : task'[j] = task[j]
        /\ Given(i) \in Int
    BY <1>a, <1>b, <2>1, ChunkTaken, GivenType
  <2>3. Follows(i)'
    BY <1>a, <2>1, <2>2 DEF Follows
  <2> QED
    BY <1>1, <2>2, <2>3
<1>3. CASE ReturnErrorChunk
  <2>1. /\ NextChunkFails(i)
        /\ delivered'.chunk = ErrorChunk
    BY <1>3, <1>0 DEF ReturnErrorChunk, Deliver
  <2>2. /\ task'[i] = [task[i] EXCEPT !.result = "S_OK"]
        /\ \A j \in Items \ {i} : task'[j] = task[j]
        /\ task[i].chunks = << >> /\ Drained(i)
    BY <1>a, <1>b, <2>1 DEF NextChunkFails, Update
  <2>3. /\ task'[i].chunks = task[i].chunks
        /\ task'[i].produced = task[i].produced
        /\ task'[i].gatherer = task[i].gatherer
        /\ task'[i].isFilterDone = task[i].isFilterDone
        /\ task'[i].isExtractionDone = task[i].isExtractionDone
        /\ task'[i].result = "S_OK"
    BY <1>b, <2>2 DEF TaskRecords
  <2>4. Lined(i)'
    BY <1>b, <2>3 DEF Lined, Given, Running
  <2>5. Follows(i)'
    BY <1>a, <2>1, <2>2, <2>3 DEF Follows, Drained
  <2> QED
    BY <1>1, <2>2, <2>4, <2>5
<1> QED
  BY <1>2, <1>3

\* GetChunk, or the abort sequence, lets go of the current member.
LEMMA OrderDrops ==
  ASSUME IInv, InOrder, DropTask \/ JoinAborted
  PROVE  InOrder'
<1> USE DEF flags, shared, extractorVars, reading, host, history
<1>0. PICK i \in Items : i = currentChunkTask
  BY OrderTypes DEF DropTask, JoinAborted, IInv, Control
<1>a. /\ currentChunkTask' = NoItem /\ NoItem = 0
      /\ UNCHANGED << tasks, nextIndex, currentExtractTask, extractor,
                      delivered >>
      /\ windows' # "open"
      /\ currentChunkId' >= currentChunkId
      /\ task \in [Items -> TaskRecords] /\ task[i] \in TaskRecords
      /\ Lined(i) /\ currentChunkId \in Nat
  <2>1. currentChunkId \in Nat /\ NoItem = 0 /\ task \in [Items -> TaskRecords]
    BY OrderTypes
  <2>2. currentChunkId' \in {currentChunkId, currentChunkId + 1}
    BY DEF DropTask, JoinAborted
  <2>3. /\ currentChunkTask' = NoItem
        /\ UNCHANGED << tasks, nextIndex, currentExtractTask, extractor,
                        delivered >>
        /\ windows' # "open"
    BY DEF DropTask, JoinAborted
  <2> QED
    BY <2>1, <2>2, <2>3 DEF InOrder, AllLined
<1>1. /\ Lined(i)'
      /\ \A j \in Items \ {i} : task'[j] = task[j]
      /\ DropTask => task'[i].chunks = << >> /\ Drained(i)'
  <2>1. CASE DropTask
    <3>1. /\ NextChunkEnds(i) /\ task[i].chunks = << >> /\ Drained(i)
          /\ task[i].result = "S_OK"
      BY <1>0, <2>1 DEF DropTask, NextChunkEnds
    <3>2. /\ task'[i] = [task[i] EXCEPT !.gatherer = "none",
                                        !.life = "finished"]
          /\ \A j \in Items \ {i} : task'[j] = task[j]
      BY <1>a, <3>1 DEF NextChunkEnds, Update
    <3>3. /\ task'[i].chunks = task[i].chunks
          /\ task'[i].produced = task[i].produced
          /\ task'[i].gatherer = "none"
          /\ task'[i].result = task[i].result
          /\ task'[i].isFilterDone = task[i].isFilterDone
          /\ task'[i].isExtractionDone = task[i].isExtractionDone
      BY <1>a, <3>2 DEF TaskRecords
    <3> QED
      BY <1>a, <3>1, <3>2, <3>3 DEF Lined, Given, Running, Drained
  <2>2. CASE JoinAborted
    <3>1. /\ task'[i] = Destroyed(i)
          /\ \A j \in Items \ {i} : task'[j] = task[j]
          /\ ~DropTask
      BY <1>0, <1>a, <2>2 DEF JoinAborted, AbortJoins, Update, DropTask
    <3>2. /\ task'[i].chunks = << >>
          /\ task'[i].produced = 0
          /\ task'[i].gatherer = "none"
          /\ task'[i].result = "S_OK"
      BY <3>1 DEF Destroyed, Unused
    <3>3. Len(task'[i].chunks) = 0
      BY <3>2
    <3> QED
      BY <3>1, <3>2, <3>3 DEF Lined, Given, Running
  <2> QED
    BY <2>1, <2>2
<1>2. AllLined'
  <2>1. \A j \in Items \ {i} : Lined(j)'
    BY <1>1 DEF InOrder, AllLined, Lined, Given, Running
  <2> QED
    BY <1>1, <2>1 DEF AllLined
<1>3. InQueue'
  BY <1>0, <1>a, <1>1, QueueStays
<1>4. Handed'
  <2>1. delivered'.id <= currentChunkId'
    <3>1. delivered.id <= currentChunkId /\ delivered.id \in Nat
      BY OrderTypes DEF InOrder, Handed
    <3>2. currentChunkId' \in {currentChunkId, currentChunkId + 1}
      BY DEF DropTask, JoinAborted
    <3> QED
      BY <1>a, <3>1, <3>2
  <2>2. ASSUME ~Aborting', delivered.item # NoItem
        PROVE  /\ task'[delivered.item].chunks = << >>
               /\ Drained(delivered.item)'
    <3>1. DropTask /\ ~Aborting
      BY <2>2 DEF DropTask, JoinAborted, Aborting
    <3>2. CASE delivered.item = i
      BY <1>a, <1>1, <3>1, <3>2 DEF Drained
    <3>3. CASE delivered.item # i
      <4>1. /\ task[delivered.item].chunks = << >>
            /\ Drained(delivered.item)
            /\ delivered.item \in Items
        BY <1>0, <2>2, <3>1, <3>3, OrderTypes DEF InOrder, Handed
      <4> QED
        BY <1>a, <1>1, <3>3, <4>1 DEF Drained
    <3> QED
      BY <3>2, <3>3
  <2> QED
    BY <1>a, <2>1, <2>2 DEF Handed
<1> QED
  BY <1>2, <1>3, <1>4 DEF InOrder

\* GetStream makes the task of the next member, with the name in it.
LEMMA OrderMakes ==
  ASSUME IInv, InOrder, MakeTask
  PROVE  InOrder'
<1> USE DEF flags, shared, extractorVars, reading, host, history, windowsVars
<1>0. PICK i \in Items : i = nextIndex
  <2>1. nextIndex \in Items
    BY ItemTaskAssumption DEF MakeTask, IInv, TypeOK, Control, Items
  <2> QED
    BY <2>1
<1>a. /\ extractor' = "queue" /\ currentExtractTask' = i /\ nextIndex' = i + 1
      /\ UNCHANGED << tasks, currentChunkTask, delivered, currentChunkId,
                      windows >>
      /\ Construct(i)
      /\ i \in Nat
  BY <1>0, OrderTypes DEF MakeTask
<1>b. /\ task' = [task EXCEPT ![i] = [Unused EXCEPT !.chunks = << NameChunk >>,
                                                    !.life = "made"]]
      /\ task \in [Items -> TaskRecords]
  BY <1>a, OrderTypes DEF Construct, Update
<1>1. /\ task'[i].chunks = << NameChunk >>
      /\ task'[i].produced = 0
      /\ task'[i].gatherer = "none"
      /\ task'[i].result = "S_OK"
      /\ ~task'[i].isFilterDone
      /\ \A j \in Items \ {i} : task'[j] = task[j]
  BY <1>b DEF Unused
<1>c. /\ \A k \in DOMAIN tasks : tasks[k] \in Items /\ tasks[k] \in Nat
                                 /\ tasks[k] < i
      /\ currentChunkTask < i /\ currentChunkTask \in Nat
      /\ delivered.item < i /\ delivered.item \in Nat
      /\ currentChunkTask \in Items \cup {NoItem}
      /\ delivered.item \in Items \cup {NoItem}
  BY <1>0, OrderTypes DEF InOrder, InQueue, Before
<1>2. AllLined'
  <2>1. \A j \in Items \ {i} : Lined(j)'
    BY <1>1 DEF InOrder, AllLined, Lined, Given, Running
  <2>2. Len(task'[i].chunks) = 1 /\ task'[i].chunks[1] = 0
    BY <1>1 DEF NameChunk
  <2>3. Lined(i)'
    BY <1>1, <2>2 DEF Lined, Given, Running
  <2> QED
    BY <2>1, <2>3 DEF AllLined
<1>3. InQueue'
  <2>1. \A k \in DOMAIN tasks :
          task'[tasks[k]].produced + 1 - Len(task'[tasks[k]].chunks) = 0
    <3> SUFFICES ASSUME NEW k \in DOMAIN tasks
                 PROVE  task'[tasks[k]] = task[tasks[k]]
      BY DEF InOrder, InQueue, Given
    <3>1. tasks[k] # i
      BY <1>a, <1>c
    <3> QED
      BY <1>1, <1>c, <3>1
  <2>2. Before(nextIndex)' /\ Before(currentExtractTask)'
    BY <1>a, <1>c DEF Before
  <2>3. /\ \A k, l \in DOMAIN tasks : k < l => tasks[k] < tasks[l]
        /\ \A k \in DOMAIN tasks :
             currentChunkTask < tasks[k] /\ delivered.item < tasks[k]
    BY DEF InOrder, InQueue
  <2> QED
    BY <1>a, <1>1, <2>1, <2>2, <2>3 DEF InQueue, Given
<1>4. Handed'
  <2>1. ASSUME currentChunkTask # NoItem
        PROVE  Follows(currentChunkTask)'
    <3>1. PICK j \in Items : j = currentChunkTask /\ j # i
      BY <1>a, <1>c, <2>1
    <3>2. Follows(j)
      BY <2>1, <3>1 DEF InOrder, Handed
    <3>3. Follows(j)'
      BY <1>a, <1>1, <3>1, <3>2 DEF Follows, Given, Drained
    <3> QED
      BY <1>a, <3>1, <3>3 DEF Follows, Given, Drained
  <2>2. ASSUME ~Aborting', delivered.item \notin {NoItem, currentChunkTask}
        PROVE  /\ task'[delivered.item].chunks = << >>
               /\ Drained(delivered.item)'
    <3>1. /\ task[delivered.item].chunks = << >>
          /\ Drained(delivered.item)
          /\ delivered.item \in Items /\ delivered.item # i
      BY <1>a, <1>c, <2>2 DEF InOrder, Handed, Aborting
    <3> QED
      BY <1>a, <1>1, <3>1 DEF Drained
  <2> QED
    BY <1>a, <2>1, <2>2 DEF InOrder, Handed
<1> QED
  BY <1>2, <1>3, <1>4 DEF InOrder

\* GetStream puts the task it made behind those in the queue.
LEMMA OrderQueues ==
  ASSUME IInv, InOrder, QueueTask
  PROVE  InOrder'
<1> USE DEF flags, shared, extractorVars, reading, host, history, windowsVars
<1>0. PICK i \in Items : i = currentExtractTask
  BY OrderTypes DEF QueueTask, IInv, Control
<1>a. /\ extractor = "queue" /\ extractor' = "run"
      /\ UNCHANGED << currentExtractTask, nextIndex, currentChunkTask,
                      delivered, currentChunkId, windows >>
      /\ tasks' = Append(tasks, i)
      /\ Queued(i)
  BY <1>0 DEF QueueTask
<1>b. /\ tasks \in Seq(Items) /\ DOMAIN tasks = 1 .. Len(tasks)
      /\ Len(tasks) \in Nat
      /\ i \in Nat /\ currentChunkTask \in Nat /\ delivered.item \in Nat
      /\ currentChunkTask \in Items \cup {NoItem}
      /\ delivered.item \in Items \cup {NoItem}
      /\ task \in [Items -> TaskRecords]
      /\ \A k \in DOMAIN tasks : tasks[k] \in Items
  BY <1>0, OrderTypes
<1>c. /\ AllLined' /\ \A j \in Items : Advances(j)
      /\ \A j \in Items \ {i} : task'[j] = task[j]
  <2>1. AllLined' /\ \A j \in Items : Advances(j)
    BY <1>a, AllAdvance DEF InOrder
  <2> QED
    BY <1>a, <1>b, <2>1 DEF Queued, Update
<1>d. /\ DOMAIN tasks' = 1 .. Len(tasks) + 1
      /\ tasks'[Len(tasks) + 1] = i
      /\ \A k \in 1 .. Len(tasks) : tasks'[k] = tasks[k]
  BY <1>a, <1>b
<1>e. /\ Before(i) /\ i < nextIndex
      /\ task[i].chunks = << NameChunk >> /\ task[i].produced = 0
  BY <1>0, <1>a DEF InOrder, InQueue
<1>f. \A k \in 1 .. Len(tasks) + 1 :
        \/ k \in DOMAIN tasks /\ tasks'[k] = tasks[k]
        \/ k = Len(tasks) + 1 /\ tasks'[k] = i
  BY <1>b, <1>d
<1>1. InQueue'
  <2>1. \A k, l \in DOMAIN tasks' : k < l => tasks'[k] < tasks'[l]
    <3> SUFFICES ASSUME NEW k \in 1 .. Len(tasks) + 1,
                        NEW l \in 1 .. Len(tasks) + 1, k < l
                 PROVE  tasks'[k] < tasks'[l]
      BY <1>d
    <3>1. k \in DOMAIN tasks /\ tasks'[k] = tasks[k]
      BY <1>b, <1>d
    <3>2. CASE l \in DOMAIN tasks
      BY <1>b, <1>d, <3>1, <3>2 DEF InOrder, InQueue
    <3>3. CASE l = Len(tasks) + 1
      BY <1>d, <1>e, <3>1, <3>3 DEF Before
    <3> QED
      BY <1>f, <3>2, <3>3
  <2>2. \A k \in DOMAIN tasks' :
          /\ currentChunkTask < tasks'[k]
          /\ delivered.item < tasks'[k]
    BY <1>d, <1>e, <1>f DEF Before, InOrder, InQueue
  <2>3. \A j \in Items : j = i \/ (\E k \in DOMAIN tasks : j = tasks[k]) =>
          Given(j)' = 0
    <3>1. \A k \in DOMAIN tasks : Given(tasks[k]) = 0
      BY DEF InOrder, InQueue
    <3>2. Given(i) = 0
      <4>1. Len(task[i].chunks) = 1
        BY <1>e
      <4> QED
        BY <1>e, <4>1 DEF Given
    <3> QED
      BY <1>c, <3>1, <3>2 DEF Advances
  <2>4. \A k \in DOMAIN tasks' :
          task'[tasks'[k]].produced + 1 - Len(task'[tasks'[k]].chunks) = 0
    BY <1>b, <1>d, <1>f, <2>3 DEF Given
  <2>5. Before(nextIndex)'
    BY <1>a, <1>d, <1>e, <1>f DEF Before, InOrder, InQueue
  <2> QED
    BY <1>0, <1>a, <1>e, <2>1, <2>2, <2>4, <2>5 DEF InQueue, Given
<1>2. Handed'
  <2>1. ASSUME currentChunkTask # NoItem
        PROVE  Follows(currentChunkTask)'
    <3>1. PICK j \in Items : j = currentChunkTask /\ j # i
      BY <1>b, <1>e, <2>1 DEF Before
    <3>2. Follows(j)
      BY <2>1, <3>1 DEF InOrder, Handed
    <3>3. Follows(j)'
      BY <1>a, <1>c, <3>1, <3>2 DEF Follows, Given, Drained
    <3> QED
      BY <1>a, <3>1, <3>3 DEF Follows, Given, Drained
  <2>2. ASSUME ~Aborting', delivered.item \notin {NoItem, currentChunkTask}
        PROVE  /\ task'[delivered.item].chunks = << >>
               /\ Drained(delivered.item)'
    <3>1. /\ task[delivered.item].chunks = << >>
          /\ Drained(delivered.item)
          /\ delivered.item \in Items
      BY <1>a, <1>b, <2>2 DEF InOrder, Handed, Aborting
    <3> QED
      BY <1>a, <1>c, <3>1 DEF Drained, Advances
  <2>3. windows # "open"
    BY <1>a DEF IInv, Ownership
  <2> QED
    BY <1>a, <2>1, <2>2, <2>3 DEF InOrder, Handed
<1> QED
  BY <1>c, <1>1, <1>2 DEF InOrder

\* Every step keeps the order.
LEMMA OrderStep ==
  ASSUME IInv, InOrder, [Next]_vars
  PROVE  InOrder'
<1> USE DEF flags, shared, extractorVars, reading, host, history
<1>1. CASE Around /\ AllLined' /\ \A i \in Items : Advances(i)
  BY <1>1, OrderCarried
<1>2. CASE TakeTask
  <2>1. AllLined' /\ \A i \in Items : Advances(i)
    BY <1>2, AllAdvance DEF TakeTask, InOrder
  <2>2. /\ tasks # << >> /\ currentChunkTask = NoItem
        /\ currentChunkTask' = Head(tasks) /\ tasks' = Tail(tasks)
        /\ UNCHANGED << delivered, currentChunkId, nextIndex,
                        currentExtractTask, extractor, task >>
        /\ windows' # "open" /\ ~Aborting
    BY <1>2 DEF TakeTask, Aborting, IInv, Control
  <2> QED
    BY <2>1, <2>2, OrderTake
<1>3. CASE AbortTask
  <2>1. PICK i \in Items : AbortSignals(i) /\ i = currentChunkTask'
    <3>1. CASE currentChunkTask # NoItem
      BY <1>3, <3>1, OrderTypes DEF AbortTask
    <3>2. CASE currentChunkTask = NoItem
      <4>1. Head(tasks) \in Items
        BY <1>3, <3>2, OrderTypes DEF AbortTask
      <4> QED
        BY <1>3, <3>2, <4>1 DEF AbortTask
    <3> QED
      BY <3>1, <3>2
  <2>2. AllLined' /\ \A j \in Items : Advances(j)
    BY <2>1, AllAdvance DEF InOrder
  <2>3. /\ UNCHANGED << delivered, currentChunkId, nextIndex,
                        currentExtractTask, extractor >>
        /\ windows' = "abortJoin" /\ windows = "abort"
        /\ extractor # "queue"
    BY <1>3 DEF AbortTask, IInv, Ownership
  <2>4. CASE currentChunkTask # NoItem
    <3>1. Around
      BY <1>3, <2>3, <2>4 DEF AbortTask, Around, Aborting
    <3> QED
      BY <2>2, <3>1, OrderCarried
  <2>5. CASE currentChunkTask = NoItem
    <3>1. /\ tasks # << >>
          /\ currentChunkTask' = Head(tasks) /\ tasks' = Tail(tasks)
      BY <1>3, <2>5 DEF AbortTask
    <3> QED
      BY <2>2, <2>3, <2>5, <3>1, OrderTake DEF Aborting
  <2> QED
    BY <2>4, <2>5
<1>4. CASE StartExtractor
  <2>1. /\ windows = "open" /\ extractor' = "7zip" /\ nextIndex' = 1
        /\ windows' = "idle"
        /\ UNCHANGED << task, tasks, currentExtractTask, currentChunkTask,
                        currentChunkId, delivered >>
    BY <1>4 DEF StartExtractor
  <2>2. /\ tasks = << >> /\ currentChunkTask = NoItem
        /\ delivered = NothingYet /\ currentExtractTask = NoItem
        /\ NoItem = 0
    BY <2>1, OrderTypes DEF InOrder, Handed, IInv, Ownership
  <2>3. AllLined'
    BY <2>1, AllAdvance DEF InOrder
  <2>4. delivered.item = 0
    BY <2>2 DEF NothingYet
  <2>5. InQueue'
    BY <2>1, <2>2, <2>4 DEF InQueue, Before
  <2>6. Handed'
    BY <2>1, <2>2, <2>4 DEF InOrder, Handed
  <2> QED
    BY <2>3, <2>5, <2>6 DEF InOrder
<1>5. CASE Reset
  <2>1. /\ currentChunkTask = NoItem /\ tasks = << >>
        /\ currentChunkId' = 0 /\ delivered' = NothingYet
        /\ UNCHANGED << task, tasks, currentChunkTask, extractor, nextIndex,
                        currentExtractTask >>
        /\ windows = "abort" /\ NoItem = 0
    BY <1>5, OrderTypes DEF Reset
  <2>2. /\ extractor = "off" /\ delivered'.item = 0 /\ delivered'.id = 0
    BY <2>1 DEF IInv, Ownership, NothingYet
  <2>3. AllLined'
    BY <2>1, AllAdvance DEF InOrder
  <2>4. InQueue'
    BY <2>1, <2>2, OrderTypes DEF InOrder, InQueue, Before
  <2>5. Handed'
    BY <2>1, <2>2 DEF Handed
  <2> QED
    BY <2>3, <2>4, <2>5 DEF InOrder
<1> QED
  BY <1>1, <1>2, <1>3, <1>4, <1>5, AroundOrNot, OrderReturns, OrderDrops,
     OrderMakes, OrderQueues

LEMMA OrderInvariance == Spec => []InOrder
<1>1. Init => InOrder
  <2> SUFFICES ASSUME Init PROVE InOrder
    OBVIOUS
  <2>1. \A i \in Items : Lined(i)
    <3> SUFFICES ASSUME NEW i \in Items PROVE Lined(i)
      OBVIOUS
    <3>1. task[i] = Unused
      BY DEF Init, TaskInit
    <3>2. Len(task[i].chunks) = 0
      BY <3>1 DEF Unused
    <3> QED
      BY <3>1, <3>2 DEF Lined, Given, Running, Unused
  <2>2. InQueue
    BY DEF Init, InQueue, Before, NoItem, NothingYet
  <2>3. Handed
    BY DEF Init, Handed, NoItem, NothingYet
  <2> QED
    BY <2>1, <2>2, <2>3 DEF InOrder, AllLined
<1>2. IInv /\ InOrder /\ [Next]_vars => InOrder'
  BY OrderStep
<1> QED
  BY <1>1, <1>2, Invariance, PTL DEF Spec

\* However the gatherers and the extractor run: GetChunk hands out the chunks
\* under increasing ids, member after member, the name of each first, then its
\* chunks without a gap, and leaves a member only when it has no more.
THEOREM ChunksComeInOrder == Spec => ChunksInOrder
<1>1. ASSUME IInv, InOrder, [Next]_vars,
             delivered' # delivered, delivered' # NothingYet
      PROVE  /\ delivered'.id > delivered.id
             /\ IF delivered'.item = delivered.item
                  THEN /\ delivered.chunk # ErrorChunk
                       /\ delivered'.chunk \in {delivered.chunk + 1, ErrorChunk}
                  ELSE /\ delivered'.item > delivered.item
                       /\ delivered'.chunk = NameChunk
                       /\ delivered.item # NoItem =>
                            /\ task[delivered.item].chunks = << >>
                            /\ Drained(delivered.item)
  <2> USE DEF flags, shared, extractorVars, reading, host, history
  <2>1. ReturnChunk \/ ReturnErrorChunk
    BY <1>1, AroundOrNot
       DEF Around, TakeTask, StartExtractor, Reset, AbortTask, JoinAborted,
           DropTask, MakeTask, QueueTask, windowsVars
  <2>2. PICK i \in Items : i = currentChunkTask
    BY <1>1, <2>1, OrderTypes
       DEF ReturnChunk, ReturnErrorChunk, IInv, Control
  <2>3. /\ delivered'.id = currentChunkId + 1 /\ delivered'.item = i
        /\ windows = "chunk" /\ i \in Nat
        /\ delivered.id \in Nat /\ currentChunkId \in Nat
        /\ delivered.item \in Nat
    BY <1>1, <2>1, <2>2, OrderTypes
       DEF ReturnChunk, ReturnErrorChunk, Deliver, Items
  <2>4. /\ task \in [Items -> TaskRecords]
        /\ Lined(i) /\ Follows(i) /\ delivered.id <= currentChunkId
        /\ delivered.item \notin {NoItem, i} =>
             /\ task[delivered.item].chunks = << >>
             /\ Drained(delivered.item)
    BY <1>1, <2>2, <2>3, OrderTypes
       DEF InOrder, AllLined, Handed, Aborting
  <2>5. delivered'.id > delivered.id
    BY <2>3, <2>4
  <2>6. CASE ReturnChunk
    <3>1. /\ NextChunkPops(i) /\ task[i].chunks # << >>
          /\ delivered'.chunk = Head(task[i].chunks)
      BY <2>2, <2>6 DEF ReturnChunk, Deliver, NextChunkPops
    <3>2. delivered'.chunk = Given(i) /\ Given(i) \in Int
      BY <2>4, <3>1, ChunkTaken, GivenType
    <3>3. Given(i) <= MaxChunks
      <4>1. /\ Len(task[i].chunks) \in Nat \ {0}
            /\ task[i].produced \in 0 .. MaxChunks
        BY <2>4, <3>1, GivenType
      <4> QED
        BY <4>1, ItemTaskAssumption DEF Given
    <3>4. CASE delivered.item = i
      <4>1. delivered.chunk = Given(i) - 1
        BY <2>4, <3>1, <3>4 DEF Follows
      <4> QED
        BY <2>3, <2>5, <3>2, <3>3, <3>4, <4>1, ItemTaskAssumption
           DEF ErrorChunk
    <3>5. CASE delivered.item # i
      BY <2>3, <2>4, <2>5, <3>2, <3>5 DEF Follows, NameChunk
    <3> QED
      BY <3>4, <3>5
  <2>7. CASE ReturnErrorChunk
    <3>1. /\ task[i].chunks = << >> /\ task[i].result = "failed"
          /\ delivered'.chunk = ErrorChunk
      BY <2>2, <2>7 DEF ReturnErrorChunk, Deliver, NextChunkFails
    <3>2. delivered.item = i
      BY <2>4, <3>1, NameIsFirst DEF Follows
    <3>3. delivered.chunk = Given(i) - 1
      BY <2>4, <3>1, <3>2 DEF Follows
    <3>4. Given(i) <= MaxChunks + 1
      <4>1. /\ Len(task[i].chunks) \in Nat
            /\ task[i].produced \in 0 .. MaxChunks
        BY <2>4, GivenType
      <4> QED
        BY <4>1, ItemTaskAssumption DEF Given
    <3>5. delivered.chunk # ErrorChunk
      <4>1. Given(i) \in Int
        BY <2>4, GivenType
      <4> QED
        BY <3>3, <3>4, <4>1, ItemTaskAssumption DEF ErrorChunk
    <3> QED
      BY <2>3, <2>5, <3>1, <3>2, <3>5
  <2> QED
    BY <2>1, <2>6, <2>7
<1>2. IInv /\ InOrder /\ [Next]_vars =>
        [delivered' # delivered /\ delivered' # NothingYet =>
         /\ delivered'.id > delivered.id
         /\ IF delivered'.item = delivered.item
              THEN /\ delivered.chunk # ErrorChunk
                   /\ delivered'.chunk \in {delivered.chunk + 1, ErrorChunk}
              ELSE /\ delivered'.item > delivered.item
                   /\ delivered'.chunk = NameChunk
                   /\ delivered.item # NoItem =>
                        /\ task[delivered.item].chunks = << >>
                        /\ Drained(delivered.item)]_vars
  BY <1>1
<1> QED
  BY <1>2, Invariance, OrderInvariance, PTL DEF Spec, ChunksInOrder

-----------------------------------------------------------------------------
(* The refinement, for hosts that do not call GetChunk after a failed Init. *)

\* Only after an Init that succeeded is there anything to deliver, and unless
\* the abort was signalled the extractor runs only then.
ReadyInv ==
    /\ ~ready /\ ~Aborting =>
           tasks = << >> /\ currentChunkTask = NoItem /\ HasEnded
    /\ Aborting \/ windows \in {"open", "released"} => ~ready
    /\ windows \in {"task", "chunk"} => ready
    /\ ~HasEnded => ready \/ abortExtraction

LEMMA ReadyStep ==
  ASSUME ~GetAfterFailedInit, IInv, ReadyInv, [Next]_vars
  PROVE  ReadyInv'
<1> USE DEF flags, shared, extractorVars, reading, host, history, windowsVars,
            Aborting, HasEnded
<1>1. CASE CallInit \/ CallRelease
  BY <1>1 DEF CallInit, CallRelease, SignalAbort, ReadyInv
<1>2. CASE JoinExtractor
  BY <1>2 DEF JoinExtractor, ReadyInv
<1>3. CASE AbortTask \/ JoinAborted
  <2>1. extractor = "off" /\ extractor' = "off"
    BY <1>3 DEF AbortTask, JoinAborted, IInv, Ownership
  <2>2. windows' \in {"abort", "abortJoin"} /\ ready' = ready
        /\ abortExtraction' = abortExtraction
        /\ windows \in {"abort", "abortJoin"}
    BY <1>3 DEF AbortTask, JoinAborted
  <2> QED
    BY <2>1, <2>2 DEF ReadyInv
<1>4. CASE Reset
  BY <1>4 DEF Reset, ReadyInv, IInv, Ownership
<1>5. CASE OpenFails \/ StartThreadFails
  BY <1>5 DEF OpenFails, StartThreadFails, ReadyInv
<1>6. CASE StartExtractor
  BY <1>6 DEF StartExtractor, ReadyInv
<1>7. CASE CallGetChunk
  BY <1>7 DEF CallGetChunk, ReadyInv
<1>8. CASE SleepForTask \/ SleepForChunk
  BY <1>8 DEF SleepForTask, SleepForChunk, ReadyInv
<1>9. CASE TakeTask \/ DropTask
  BY <1>9 DEF TakeTask, DropTask, ReadyInv
<1>10. CASE ReportFailure \/ ReportEnd
  BY <1>10 DEF ReportFailure, ReportEnd, ReadyInv
<1>11. CASE ReturnChunk \/ ReturnErrorChunk
  BY <1>11 DEF ReturnChunk, ReturnErrorChunk, Deliver, ReadyInv
<1>12. CASE Extractor
  <2>1. ~HasEnded /\ UNCHANGED << windows, ready, abortExtraction,
                                  currentChunkTask >>
    BY <1>12 DEF Extractor, Write, GetStreamSkip, GetStream, EndPrevious,
                 MakeTask, MakeTaskFails, SleepForQueue, RefuseTask, QueueTask,
                 RunTask, ExtractEnds, EndLast, Finish
  <2> QED
    BY <2>1 DEF ReadyInv
<1>13. CASE Initialize \/ Load \/ LoadFails
  BY <1>13 DEF Initialize, Load, LoadFails, GivesStream, ReadyInv
<1>14. ASSUME NEW i \in Items, Gatherer(i) PROVE ReadyInv'
  BY <1>14 DEF Gatherer, ReadyInv
<1>15. CASE UNCHANGED vars
  BY <1>15 DEF vars, ReadyInv
<1> QED
  BY <1>1, <1>2, <1>3, <1>4, <1>5, <1>6, <1>7, <1>8, <1>9, <1>10, <1>11,
     <1>12, <1>13, <1>14, <1>15
     DEF Next, Calls, InitRefused, Windows, WindowsInside, Released

\* The members in the order in which they are delivered.
Line ==
    (IF currentChunkTask = NoItem THEN << >> ELSE << currentChunkTask >>)
    \o tasks

LaneType == [item : Items, chunks : Seq(Chunks), open : BOOLEAN]

\* The line is the queue, behind the current member if there is one.
LEMMA LineIs ==
  ASSUME IInv
  PROVE  /\ Line \in Seq(Items)
         /\ currentChunkTask = NoItem => Line = tasks
         /\ currentChunkTask # NoItem =>
              /\ Line # << >>
              /\ Line[1] = currentChunkTask
              /\ Tail(Line) = tasks
              /\ Len(Line) = Len(tasks) + 1
              /\ \A k \in DOMAIN tasks : Line[k + 1] = tasks[k]
<1>a. /\ tasks \in Seq(Items) /\ DOMAIN tasks = 1 .. Len(tasks)
      /\ Len(tasks) \in Nat
      /\ currentChunkTask \in Items \cup {NoItem}
  BY OrderTypes
<1>1. CASE currentChunkTask = NoItem
  <2>1. Line = << >> \o tasks
    BY <1>1 DEF Line
  <2>2. << >> \o tasks = tasks
    BY ONLY <1>a, ConcatEmptySeq
  <2> QED
    BY <1>1, <1>a, <2>1, <2>2
<1>2. ASSUME NEW i \in Items, i = currentChunkTask
      PROVE  /\ Line \in Seq(Items)
             /\ Line # << >>
             /\ Line[1] = i
             /\ Tail(Line) = tasks
             /\ Len(Line) = Len(tasks) + 1
             /\ \A k \in DOMAIN tasks : Line[k + 1] = tasks[k]
  <2>1. Line = << i >> \o tasks
    BY <1>2, OrderTypes DEF Line
  <2>2. << i >> \in Seq(Items) /\ Len(<< i >>) = 1 /\ << i >>[1] = i
    OBVIOUS
  <2>3. /\ << i >> \o tasks \in Seq(Items)
        /\ Len(<< i >> \o tasks) = Len(<< i >>) + Len(tasks)
        /\ \A k \in 1 .. Len(<< i >>) + Len(tasks) :
             (<< i >> \o tasks)[k] = IF k <= Len(<< i >>) THEN << i >>[k]
                                     ELSE tasks[k - Len(<< i >>)]
    BY ONLY <1>a, <2>2, ConcatProperties
  <2>4. /\ Line \in Seq(Items) /\ Len(Line) = Len(tasks) + 1
        /\ Line[1] = i
        /\ \A k \in DOMAIN tasks : Line[k + 1] = tasks[k]
    BY <1>a, <2>1, <2>2, <2>3
  <2>5. Line # << >>
    BY <1>a, <2>4
  <2>6. /\ Tail(Line) \in Seq(Items)
        /\ Len(Tail(Line)) = Len(tasks)
        /\ \A k \in 1 .. Len(tasks) : Tail(Line)[k] = Line[k + 1]
    BY <1>a, <2>4, <2>5
  <2>7. \A k \in 1 .. Len(Tail(Line)) : Tail(Line)[k] = tasks[k]
    BY <1>a, <2>4, <2>6
  <2>8. Tail(Line) = tasks
    BY ONLY <1>a, <2>6, <2>7, SeqEqual
  <2> QED
    BY <2>4, <2>5, <2>8
<1> QED
  BY <1>a, <1>1, <1>2

\* A lane is a lane, and there is one for each member of the line.
LEMMA LanesAre ==
  ASSUME IInv
  PROVE  /\ Lanes \in Seq(LaneType)
         /\ Len(Lanes) = Len(Line) /\ Len(Line) \in Nat
         /\ DOMAIN Lanes = 1 .. Len(Line) /\ DOMAIN Line = 1 .. Len(Line)
         /\ \A k \in 1 .. Len(Line) :
              /\ Line[k] \in Items
              /\ Lanes[k] = Lane(Line[k])
              /\ Lane(Line[k]) \in LaneType
<1>1. Line \in Seq(Items) /\ Len(Line) \in Nat /\ DOMAIN Line = 1 .. Len(Line)
  BY LineIs, LenProperties
<1>2. \A k \in 1 .. Len(Line) : Line[k] \in Items
  BY <1>1
<1>3. ASSUME NEW i \in Items PROVE Lane(i) \in LaneType
  <2> DEFINE e == IF task[i].result = "failed" THEN << ErrorChunk >> ELSE << >>
  <2>1. task[i].chunks \in Seq(Chunks) /\ task[i] \in TaskRecords
    BY OrderTypes, GivenType
  <2>2. e \in Seq(Chunks)
    <3>1. ErrorChunk \in Chunks
      BY ItemTaskAssumption DEF ErrorChunk, Chunks
    <3> QED
      BY <3>1
  <2> HIDE DEF e
  <2>3. task[i].chunks \o e \in Seq(Chunks)
    BY ONLY <2>1, <2>2, ConcatProperties
  <2>4. Drained(i) \in BOOLEAN
    BY DEF Drained
  <2> QED
    BY <2>3, <2>4 DEF Lane, LaneType, e
<1>4. Lanes = [k \in 1 .. Len(Line) |-> Lane(Line[k])]
  BY <1>1 DEF Lanes, Line
<1>5. Lanes \in [1 .. Len(Line) -> LaneType]
  BY <1>2, <1>3, <1>4
<1>6. Lanes \in Seq(LaneType)
  BY <1>1, <1>5, SeqDef
<1>7. Len(Lanes) = Len(Line)
  BY <1>1, <1>5, <1>6, LenProperties
<1> QED
  BY <1>1, <1>2, <1>3, <1>4, <1>6, <1>7

\* The lane of member i, whose task is in state r.
LaneOf(i, r) ==
    [item |-> i,
     chunks |-> r.chunks \o (IF r.result = "failed" THEN << ErrorChunk >>
                                                    ELSE << >>),
     open |-> ~(r.isFilterDone /\ r.isExtractionDone)]

\* There is one lane for each member of the line, in the archive's order.
LanesFacts ==
    /\ Line \in Seq(Items) /\ Len(Line) \in Nat /\ DOMAIN Line = 1 .. Len(Line)
    /\ Lanes \in Seq(LaneType)
    /\ Len(Lanes) = Len(Line) /\ DOMAIN Lanes = 1 .. Len(Line)
    /\ \A k \in 1 .. Len(Line) :
         /\ Line[k] \in Items
         /\ Lanes[k] = LaneOf(Line[k], task[Line[k]])
         /\ LaneOf(Line[k], task[Line[k]]) \in LaneType
    /\ currentChunkTask = NoItem => Line = tasks
    /\ currentChunkTask # NoItem =>
         /\ Line # << >>
         /\ Line[1] = currentChunkTask
         /\ Tail(Line) = tasks
         /\ Len(Line) = Len(tasks) + 1
         /\ \A k \in DOMAIN tasks : Line[k + 1] = tasks[k]
    /\ Owned = {Line[k] : k \in 1 .. Len(Line)}

LEMMA LanesFactsHold == IInv => LanesFacts
<1> SUFFICES ASSUME IInv PROVE LanesFacts
  OBVIOUS
<1>1. Line \in Seq(Items) /\ Len(Line) \in Nat /\ DOMAIN Line = 1 .. Len(Line)
  BY LineIs, LenProperties
<1>2. \A k \in 1 .. Len(Line) : LaneOf(Line[k], task[Line[k]]) = Lane(Line[k])
  BY DEF LaneOf, Lane, Drained
<1>3. /\ Lanes \in Seq(LaneType)
      /\ Len(Lanes) = Len(Line) /\ DOMAIN Lanes = 1 .. Len(Line)
      /\ \A k \in 1 .. Len(Line) :
           /\ Line[k] \in Items
           /\ Lanes[k] = LaneOf(Line[k], task[Line[k]])
           /\ LaneOf(Line[k], task[Line[k]]) \in LaneType
  BY <1>2, LanesAre
<1>4. Owned = {Line[k] : k \in 1 .. Len(Line)}
  <2>a. /\ DOMAIN tasks = 1 .. Len(tasks) /\ Len(tasks) \in Nat
        /\ currentChunkTask \in Items \cup {NoItem} /\ NoItem \notin Items
        /\ \A k \in DOMAIN tasks : tasks[k] \in Items
    BY OrderTypes
  <2>1. CASE currentChunkTask = NoItem
    BY <2>a, <2>1, LineIs DEF Owned
  <2>2. CASE currentChunkTask # NoItem
    <3>1. /\ Line[1] = currentChunkTask
          /\ Len(Line) = Len(tasks) + 1
          /\ \A k \in DOMAIN tasks : Line[k + 1] = tasks[k]
      BY <2>2, LineIs
    <3>2. Owned = {tasks[k] : k \in 1 .. Len(tasks)} \cup {currentChunkTask}
      BY <2>a, <2>2 DEF Owned
    <3>3. ASSUME NEW i \in Owned
          PROVE  \E k \in 1 .. Len(Line) : Line[k] = i
      <4>1. CASE i = currentChunkTask
        BY <2>a, <3>1, <4>1
      <4>2. CASE i # currentChunkTask
        <5>1. PICK k \in 1 .. Len(tasks) : tasks[k] = i
          BY <3>2, <3>3, <4>2
        <5>2. k + 1 \in 1 .. Len(Line) /\ Line[k + 1] = i
          BY <2>a, <3>1, <5>1
        <5> QED
          BY <5>2
      <4> QED
        BY <4>1, <4>2
    <3>4. ASSUME NEW k \in 1 .. Len(Line)
          PROVE  Line[k] \in Owned
      <4>1. CASE k = 1
        BY <3>1, <3>2, <4>1
      <4>2. CASE k # 1
        <5>1. k - 1 \in 1 .. Len(tasks) /\ k - 1 + 1 = k
          BY <2>a, <3>1, <4>2
        <5>2. Line[k] = tasks[k - 1]
          BY <2>a, <3>1, <5>1
        <5> QED
          BY <3>2, <5>1, <5>2
      <4> QED
        BY <4>1, <4>2
    <3> QED
      BY <3>3, <3>4
  <2> QED
    BY <2>1, <2>2
<1> QED
  BY <1>1, <1>3, <1>4, LineIs DEF LanesFacts

LEMMA LanesFactsHoldNext == IInv' => LanesFacts'
BY LanesFactsHold, PTL

\* Members come in the archive's order, so none comes twice.
LEMMA LineAscends ==
  ASSUME IInv, InQueue, LanesFacts
  PROVE  \A k, l \in 1 .. Len(Line) : k < l => Line[k] < Line[l]
<1>a. /\ DOMAIN tasks = 1 .. Len(tasks) /\ Len(tasks) \in Nat
      /\ Len(Line) \in Nat
  BY OrderTypes DEF LanesFacts
<1>1. CASE currentChunkTask = NoItem
  BY <1>a, <1>1 DEF LanesFacts, InQueue
<1>2. CASE currentChunkTask # NoItem
  <2>1. /\ Line[1] = currentChunkTask
        /\ Len(Line) = Len(tasks) + 1
        /\ \A k \in DOMAIN tasks : Line[k + 1] = tasks[k]
    BY <1>2 DEF LanesFacts
  <2> SUFFICES ASSUME NEW k \in 1 .. Len(Line), NEW l \in 1 .. Len(Line), k < l
               PROVE  Line[k] < Line[l]
    OBVIOUS
  <2>2. l - 1 \in DOMAIN tasks /\ l - 1 + 1 = l
    BY <1>a, <2>1
  <2>3. Line[l] = tasks[l - 1]
    BY <2>1, <2>2
  <2>4. CASE k = 1
    BY <2>1, <2>2, <2>3, <2>4 DEF InQueue
  <2>5. CASE k # 1
    <3>1. k - 1 \in DOMAIN tasks /\ k - 1 + 1 = k /\ k - 1 < l - 1
      BY <1>a, <2>1, <2>5
    <3>2. Line[k] = tasks[k - 1]
      BY <2>1, <3>1
    <3> QED
      BY <2>2, <2>3, <3>1, <3>2 DEF InQueue
  <2> QED
    BY <2>4, <2>5
<1> QED
  BY <1>1, <1>2

\* No lane changes if none of the members does.
LEMMA LanesStay ==
  ASSUME LanesFacts, LanesFacts', Line' = Line,
         \A i \in Owned : LaneOf(i, task'[i]) = LaneOf(i, task[i])
  PROVE  Lanes' = Lanes
<1>1. /\ Lanes \in Seq(LaneType) /\ Lanes' \in Seq(LaneType)
      /\ Len(Lanes) = Len(Line) /\ Len(Lanes') = Len(Line)
  BY DEF LanesFacts
<1>2. \A k \in 1 .. Len(Line) :
        /\ Lanes[k] = LaneOf(Line[k], task[Line[k]])
        /\ Lanes'[k] = LaneOf(Line[k], task'[Line[k]])
        /\ Line[k] \in Owned
  BY DEF LanesFacts
<1>3. \A k \in 1 .. Len(Lanes) : Lanes[k] = Lanes'[k]
  BY <1>1, <1>2
<1> QED
  BY ONLY <1>1, <1>3, SeqEqual

\* Only one member's lane changes.
LEMMA LaneChanges ==
  ASSUME IInv, InQueue, LanesFacts, LanesFacts', Line' = Line,
         NEW i \in Items, NEW k \in 1 .. Len(Line), Line[k] = i,
         \A j \in Items \ {i} : task'[j] = task[j]
  PROVE  Lanes' = [Lanes EXCEPT ![k] = LaneOf(i, task'[i])]
<1> DEFINE s == [Lanes EXCEPT ![k] = LaneOf(i, task'[i])]
<1>1. /\ Lanes \in Seq(LaneType) /\ Lanes' \in Seq(LaneType)
      /\ Len(Lanes) = Len(Line) /\ Len(Lanes') = Len(Line)
      /\ Len(Line) \in Nat
  BY DEF LanesFacts
<1>2. LaneOf(i, task'[i]) \in LaneType
      /\ Lanes'[k] = LaneOf(i, task'[i])
  BY DEF LanesFacts
<1>3. k \in 1 .. Len(Lanes)
  BY <1>1
<1>4. /\ s \in Seq(LaneType) /\ Len(s) = Len(Lanes)
      /\ \A l \in 1 .. Len(Lanes) :
           s[l] = IF l = k THEN LaneOf(i, task'[i]) ELSE Lanes[l]
  BY ONLY <1>1, <1>2, <1>3, ExceptSeq
<1>5. \A l \in 1 .. Len(Lanes) : l # k => Lanes'[l] = Lanes[l]
  <2> SUFFICES ASSUME NEW l \in 1 .. Len(Line), l # k
               PROVE  Lanes'[l] = Lanes[l]
    BY <1>1
  <2>1. Line[l] # i /\ Line[l] \in Items
    <3>1. Line[k] \in Items /\ Line[l] \in Items
      BY DEF LanesFacts
    <3>2. k < l \/ l < k
      BY <1>1
    <3>3. Line[k] < Line[l] \/ Line[l] < Line[k]
      BY <3>2, LineAscends
    <3>4. \A n \in Items : ~(n < n)
      BY ItemTaskAssumption DEF Items
    <3> QED
      BY <3>1, <3>3, <3>4
  <2>2. task'[Line[l]] = task[Line[l]]
    BY <2>1
  <2>3. /\ Lanes[l] = LaneOf(Line[l], task[Line[l]])
        /\ Lanes'[l] = LaneOf(Line[l], task'[Line[l]])
    BY DEF LanesFacts
  <2> QED
    BY <2>2, <2>3
<1> HIDE DEF s
<1>6. \A l \in 1 .. Len(s) : s[l] = Lanes'[l]
  BY <1>1, <1>2, <1>4, <1>5
<1>7. s = Lanes'
  BY ONLY <1>1, <1>4, <1>6, SeqEqual
<1> QED
  BY <1>7 DEF s

\* The first member leaves and the others do not change.
LEMMA LaneLeaves ==
  ASSUME IInv, InQueue, LanesFacts, LanesFacts',
         Line # << >>, Line' = Tail(Line),
         \A j \in Items \ {Line[1]} : task'[j] = task[j]
  PROVE  Lanes' = Tail(Lanes)
<1>1. /\ Lanes \in Seq(LaneType) /\ Lanes' \in Seq(LaneType)
      /\ Line \in Seq(Items) /\ Len(Line) \in Nat
      /\ Len(Lanes) = Len(Line) /\ Len(Lanes') = Len(Line')
  BY DEF LanesFacts
<1>2. /\ Len(Line') = Len(Line) - 1
      /\ \A k \in 1 .. Len(Line) - 1 : Line'[k] = Line[k + 1]
      /\ Lanes # << >>
  BY <1>1
<1>3. /\ Tail(Lanes) \in Seq(LaneType)
      /\ Len(Tail(Lanes)) = Len(Lanes) - 1
      /\ \A k \in 1 .. Len(Tail(Lanes)) : Tail(Lanes)[k] = Lanes[k + 1]
  BY ONLY <1>1, <1>2, HeadTailProperties
<1>4. ASSUME NEW k \in 1 .. Len(Tail(Lanes))
      PROVE  Lanes'[k] = Tail(Lanes)[k]
  <2>1. /\ k \in 1 .. Len(Line') /\ k \in 1 .. Len(Line) - 1
        /\ k + 1 \in 1 .. Len(Line) /\ 1 \in 1 .. Len(Line) /\ 1 < k + 1
    BY <1>1, <1>2, <1>3
  <2>2. Line[1] < Line[k + 1] /\ Line[1] \in Items /\ Line[k + 1] \in Items
    BY <1>1, <2>1, LineAscends
  <2>3. \A n \in Items : ~(n < n)
    BY ItemTaskAssumption DEF Items
  <2>4. task'[Line[k + 1]] = task[Line[k + 1]]
    BY <2>2, <2>3
  <2>5. Lanes[k + 1] = LaneOf(Line[k + 1], task[Line[k + 1]])
    BY <2>1 DEF LanesFacts
  <2>6. Lanes'[k] = LaneOf(Line'[k], task'[Line'[k]])
    BY <2>1 DEF LanesFacts
  <2> QED
    BY <1>2, <1>3, <2>1, <2>4, <2>5, <2>6
<1>5. Len(Lanes') = Len(Tail(Lanes))
  BY <1>1, <1>2, <1>3
<1>6. \A k \in 1 .. Len(Lanes') : Lanes'[k] = Tail(Lanes)[k]
  BY <1>4, <1>5
<1> QED
  BY ONLY <1>1, <1>3, <1>5, <1>6, SeqEqual

\* A member joins at the end of the line.
LEMMA LaneJoins ==
  ASSUME IInv, LanesFacts, LanesFacts',
         NEW i \in Items, i \notin Owned,
         currentChunkTask' = currentChunkTask, tasks' = Append(tasks, i),
         \A j \in Items \ {i} : task'[j] = task[j]
  PROVE  Lanes' = Append(Lanes, LaneOf(i, task'[i]))
<1>1. /\ Lanes \in Seq(LaneType) /\ Lanes' \in Seq(LaneType)
      /\ Line \in Seq(Items) /\ Len(Line) \in Nat
      /\ Len(Lanes) = Len(Line) /\ Len(Lanes') = Len(Line')
      /\ tasks \in Seq(Items) /\ Len(tasks) \in Nat
      /\ DOMAIN tasks = 1 .. Len(tasks)
      /\ NoItem \notin Items
      /\ currentChunkTask \in Items \cup {NoItem}
  BY OrderTypes DEF LanesFacts
<1>2. /\ Len(tasks') = Len(tasks) + 1
      /\ tasks'[Len(tasks) + 1] = i
      /\ \A k \in 1 .. Len(tasks) : tasks'[k] = tasks[k]
      /\ DOMAIN tasks' = 1 .. Len(tasks) + 1
  BY <1>1
<1>3. /\ Len(Line') = Len(Line) + 1
      /\ Line'[Len(Line) + 1] = i
      /\ \A k \in 1 .. Len(Line) : Line'[k] = Line[k]
  <2>1. CASE currentChunkTask = NoItem
    BY <1>2, <2>1 DEF LanesFacts
  <2>2. CASE currentChunkTask # NoItem
    <3>1. /\ Line[1] = currentChunkTask
          /\ Len(Line) = Len(tasks) + 1
          /\ \A k \in DOMAIN tasks : Line[k + 1] = tasks[k]
      BY <2>2 DEF LanesFacts
    <3>2. /\ Line'[1] = currentChunkTask
          /\ Len(Line') = Len(tasks') + 1
          /\ \A k \in DOMAIN tasks' : Line'[k + 1] = tasks'[k]
      BY <2>2 DEF LanesFacts
    <3>3. ASSUME NEW k \in 1 .. Len(Line)
          PROVE  Line'[k] = Line[k]
      <4>1. CASE k = 1
        BY <3>1, <3>2, <4>1
      <4>2. CASE k # 1
        <5>1. k - 1 \in 1 .. Len(tasks) /\ k - 1 \in 1 .. Len(tasks) + 1
              /\ k - 1 + 1 = k
          BY <1>1, <3>1, <4>2
        <5>2. Line[k - 1 + 1] = tasks[k - 1]
          BY <1>1, <3>1, <5>1
        <5>3. Line'[k - 1 + 1] = tasks'[k - 1]
          BY <1>2, <3>2, <5>1
        <5>4. tasks'[k - 1] = tasks[k - 1]
          BY <1>2, <5>1
        <5> QED
          BY <5>1, <5>2, <5>3, <5>4
      <4> QED
        BY <4>1, <4>2
    <3>4. Len(tasks) + 1 \in DOMAIN tasks'
      BY <1>1, <1>2
    <3> QED
      BY <1>1, <1>2, <3>1, <3>2, <3>3, <3>4
  <2> QED
    BY <2>1, <2>2
<1>4. LaneOf(i, task'[i]) \in LaneType
      /\ Lanes'[Len(Line) + 1] = LaneOf(i, task'[i])
  <2>1. Len(Line) + 1 \in 1 .. Len(Line')
    BY <1>1, <1>3
  <2> QED
    BY <1>3, <2>1 DEF LanesFacts
<1>5. ASSUME NEW k \in 1 .. Len(Line)
      PROVE  Lanes'[k] = Lanes[k]
  <2>1. Line[k] \in Owned /\ Line[k] \in Items
    BY DEF LanesFacts
  <2>2. task'[Line[k]] = task[Line[k]]
    BY <2>1
  <2>3. Lanes[k] = LaneOf(Line[k], task[Line[k]])
    BY DEF LanesFacts
  <2>4. k \in 1 .. Len(Line')
    BY <1>1, <1>3
  <2>5. Lanes'[k] = LaneOf(Line'[k], task'[Line'[k]])
    BY <2>4 DEF LanesFacts
  <2> QED
    BY <1>3, <2>2, <2>3, <2>5
<1> DEFINE s == Append(Lanes, LaneOf(i, task'[i]))
<1>6. /\ s \in Seq(LaneType) /\ Len(s) = Len(Lanes) + 1
      /\ \A k \in 1 .. Len(Lanes) : s[k] = Lanes[k]
      /\ s[Len(Lanes) + 1] = LaneOf(i, task'[i])
  BY ONLY <1>1, <1>4, AppendProperties
<1> HIDE DEF s
<1>7. Len(s) = Len(Lanes')
  BY <1>1, <1>3, <1>6
<1>8. \A k \in 1 .. Len(s) : s[k] = Lanes'[k]
  BY <1>1, <1>4, <1>5, <1>6
<1>9. s = Lanes'
  BY ONLY <1>1, <1>6, <1>7, <1>8, SeqEqual
<1> QED
  BY <1>9 DEF s

\* What a lane shows of a task: its failure comes behind its chunks.
LEMMA LaneParts ==
  ASSUME NEW i \in Items, NEW r \in TaskRecords
  PROVE  /\ LaneOf(i, r).item = i
         /\ LaneOf(i, r).open <=> ~(r.isFilterDone /\ r.isExtractionDone)
         /\ r.result # "failed" => LaneOf(i, r).chunks = r.chunks
         /\ r.result = "failed" =>
                LaneOf(i, r).chunks = Append(r.chunks, ErrorChunk)
         /\ r.chunks \in Seq(Chunks)
<1>1. r.chunks \in Seq(Chunks)
  BY DEF TaskRecords
<1>2. ErrorChunk \in Chunks
  BY ItemTaskAssumption DEF ErrorChunk, Chunks
<1>3. r.chunks \o << >> = r.chunks
  BY ONLY <1>1, ConcatEmptySeq
<1>4. Append(r.chunks, ErrorChunk) = r.chunks \o << ErrorChunk >>
  BY ONLY <1>1, <1>2, AppendIsConcat
<1>5. r.isFilterDone \in BOOLEAN /\ r.isExtractionDone \in BOOLEAN
  BY DEF TaskRecords
<1> QED
  BY <1>1, <1>3, <1>4, <1>5 DEF LaneOf

\* A lane whose end or whose chunks change.
LEMMA LaneExcept ==
  ASSUME NEW l \in LaneType, NEW c
  PROVE  /\ [l EXCEPT !.open = c]
              = [item |-> l.item, chunks |-> l.chunks, open |-> c]
         /\ [l EXCEPT !.chunks = c]
              = [item |-> l.item, chunks |-> c, open |-> l.open]
<1>1. [l EXCEPT !.open = c]
      = [item |-> l.item, chunks |-> l.chunks, open |-> c]
  BY DEF LaneType
<1>2. [l EXCEPT !.chunks = c]
      = [item |-> l.item, chunks |-> c, open |-> l.open]
  BY DEF LaneType
<1> QED
  BY <1>1, <1>2

\* The line stays when no task moves, and when the first one is taken from
\* the queue to be read or aborted.
LEMMA LineStays ==
  ASSUME IInv, LanesFacts, LanesFacts',
         \/ UNCHANGED << currentChunkTask, tasks >>
         \/ /\ currentChunkTask = NoItem /\ tasks # << >>
            /\ currentChunkTask' = Head(tasks) /\ tasks' = Tail(tasks)
  PROVE  Line' = Line
<1>1. CASE UNCHANGED << currentChunkTask, tasks >>
  BY <1>1 DEF Line
<1>2. CASE /\ currentChunkTask = NoItem /\ tasks # << >>
           /\ currentChunkTask' = Head(tasks) /\ tasks' = Tail(tasks)
  <2>1. /\ tasks \in Seq(Items) /\ Len(tasks) \in Nat /\ NoItem \notin Items
        /\ Line = tasks /\ Line \in Seq(Items) /\ Line' \in Seq(Items)
    BY <1>2, OrderTypes DEF LanesFacts
  <2>2. /\ Head(tasks) = tasks[1] /\ Head(tasks) \in Items
        /\ Len(tasks') = Len(tasks) - 1 /\ DOMAIN tasks' = 1 .. Len(tasks) - 1
        /\ \A k \in 1 .. Len(tasks) - 1 : tasks'[k] = tasks[k + 1]
    BY <1>2, <2>1
  <2>3. currentChunkTask' # NoItem
    BY <1>2, <2>1, <2>2
  <2>4. /\ Line'[1] = currentChunkTask'
        /\ Len(Line') = Len(tasks') + 1
        /\ \A k \in DOMAIN tasks' : Line'[k + 1] = tasks'[k]
    BY <2>3 DEF LanesFacts
  <2>5. Len(Line') = Len(Line)
    BY <2>1, <2>2, <2>4
  <2>6. ASSUME NEW k \in 1 .. Len(Line') PROVE Line'[k] = Line[k]
    <3>1. CASE k = 1
      BY <1>2, <2>1, <2>2, <2>4, <3>1
    <3>2. CASE k # 1
      <4>1. k - 1 \in 1 .. Len(tasks) - 1 /\ k - 1 + 1 = k
        BY <2>1, <2>5, <3>2
      <4>2. Line'[k - 1 + 1] = tasks'[k - 1]
        BY <2>2, <2>4, <4>1
      <4>3. tasks'[k - 1] = tasks[k - 1 + 1]
        BY <2>2, <4>1
      <4> QED
        BY <2>1, <4>1, <4>2, <4>3
    <3> QED
      BY <3>1, <3>2
  <2> QED
    BY ONLY <2>1, <2>5, <2>6, SeqEqual
<1> QED
  BY <1>1, <1>2

\* What the host sees does not change if the line and its lanes do not.
LEMMA StreamStays ==
  ASSUME LanesFacts, LanesFacts', Line' = Line, Phase' = Phase,
         UNCHANGED << delivered, returned >>,
         \A i \in Owned : LaneOf(i, task'[i]) = LaneOf(i, task[i])
  PROVE  UNCHANGED Stream!vars
BY LanesStay DEF Stream!vars

\* Operations that show in no lane.
LEMMA OpsAreHidden ==
  ASSUME NEW i \in Items, task \in [Items -> TaskRecords],
         \/ UNCHANGED task
         \/ Queued(i) \/ RunStarted(i) \/ RunThrows(i) \/ AppendBytes(i)
         \/ SetEndOfFile(i) \/ AbortSignals(i) \/ NextChunkSleeps(i)
         \/ GathererCheck(i)
  PROVE  \A j \in Items : LaneOf(j, task'[j]) = LaneOf(j, task[j])
<1>1. task[i] \in TaskRecords
  OBVIOUS
<1>2. ASSUME NEW r \in TaskRecords, Update(i, r),
             r.chunks = task[i].chunks, r.result = task[i].result,
             r.isFilterDone = task[i].isFilterDone,
             r.isExtractionDone = task[i].isExtractionDone
      PROVE  \A j \in Items : LaneOf(j, task'[j]) = LaneOf(j, task[j])
  BY <1>2 DEF Update, LaneOf
<1>3. CASE UNCHANGED task
  BY <1>3
<1>4. CASE Queued(i)
  BY <1>1, <1>2, <1>4 DEF Queued, TaskRecords
<1>5. CASE RunStarted(i)
  BY <1>1, <1>2, <1>5 DEF RunStarted, TaskRecords, GathererStates
<1>6. CASE RunThrows(i)
  BY <1>1, <1>2, <1>6 DEF RunThrows, TaskRecords
<1>7. CASE AppendBytes(i)
  <2>1. task[i].position + 1 \in 0 .. MaxSize
    BY <1>1, <1>7, ItemTaskAssumption DEF AppendBytes, HasRoom, TaskRecords
  <2> DEFINE r == [task[i] EXCEPT !.position = @ + 1]
  <2>2. /\ r \in TaskRecords /\ r.chunks = task[i].chunks
        /\ r.result = task[i].result
        /\ r.isFilterDone = task[i].isFilterDone
        /\ r.isExtractionDone = task[i].isExtractionDone
    BY <1>1, <2>1 DEF TaskRecords
  <2>3. Update(i, r)
    BY <1>7 DEF AppendBytes
  <2> HIDE DEF r
  <2> QED
    BY <1>2, <2>2, <2>3
<1>8. CASE SetEndOfFile(i)
  BY <1>1, <1>2, <1>8 DEF SetEndOfFile, TaskRecords
<1>9. CASE AbortSignals(i)
  BY <1>1, <1>2, <1>9 DEF AbortSignals, TaskRecords
<1>10. CASE NextChunkSleeps(i)
  BY <1>1, <1>2, <1>10 DEF NextChunkSleeps, TaskRecords
<1>11. CASE GathererCheck(i)
  BY <1>1, <1>2, <1>11 DEF GathererCheck, TaskRecords, GathererStates
<1> QED
  BY <1>3, <1>4, <1>5, <1>6, <1>7, <1>8, <1>9, <1>10, <1>11

\* A member that ends, in part or at last, closes its lane or changes nothing.
LEMMA MemberEnds ==
  ASSUME IInv, InQueue, LanesFacts, IInv', LanesFacts',
         UNCHANGED << currentChunkTask, tasks, delivered, returned >>,
         Phase' = Phase,
         NEW i \in Items, \A j \in Items \ {i} : task'[j] = task[j],
         task'[i].chunks = task[i].chunks, task'[i].result = task[i].result,
         Drained(i) => Drained(i)'
  PROVE  [Stream!Next]_(Stream!vars)
<1>1. Line' = Line
  BY DEF Line
<1>2. CASE Drained(i)' = Drained(i) \/ i \notin Owned
  <2>1. \A j \in Owned \ {i} : j \in Items
    BY DEF LanesFacts
  <2>2. \A j \in Owned : LaneOf(j, task'[j]) = LaneOf(j, task[j])
    BY <1>2, <2>1 DEF LaneOf, Drained
  <2> QED
    BY <1>1, <2>2, StreamStays
<1>3. CASE ~Drained(i) /\ Drained(i)' /\ i \in Owned
  <2>1. PICK k \in 1 .. Len(Line) : Line[k] = i
    BY <1>3 DEF LanesFacts
  <2>2. Lanes' = [Lanes EXCEPT ![k] = LaneOf(i, task'[i])]
    BY <1>1, <2>1, LaneChanges
  <2>3. /\ Lanes[k] = LaneOf(i, task[i]) /\ k \in DOMAIN Lanes
        /\ LaneOf(i, task[i]) \in LaneType
    BY <2>1 DEF LanesFacts
  <2>4. LaneOf(i, task'[i]) = [LaneOf(i, task[i]) EXCEPT !.open = FALSE]
    <3>1. ~(task'[i].isFilterDone /\ task'[i].isExtractionDone) = FALSE
      BY <1>3, Zenon DEF Drained
    <3>2. LaneOf(i, task'[i]) = [item |-> i, open |-> FALSE,
                                 chunks |-> LaneOf(i, task[i]).chunks]
      BY <3>1 DEF LaneOf
    <3>3. LaneOf(i, task[i]).item = i
      BY DEF LaneOf
    <3>4. [LaneOf(i, task[i]) EXCEPT !.open = FALSE]
          = [item |-> LaneOf(i, task[i]).item,
             chunks |-> LaneOf(i, task[i]).chunks, open |-> FALSE]
      BY ONLY <2>3, LaneExcept
    <3> QED
      BY <3>2, <3>3, <3>4
  <2>5. Lanes' = [Lanes EXCEPT ![k].open = FALSE]
    BY <2>2, <2>3, <2>4
  <2>6. Lanes[k].open
    <3>1. LaneOf(i, task[i]).open
          = ~(task[i].isFilterDone /\ task[i].isExtractionDone)
      BY DEF LaneOf
    <3> QED
      BY <1>3, <2>3, <3>1, Zenon DEF Drained
  <2>7. Stream!Close(k)
    BY <2>5, <2>6 DEF Stream!Close
  <2> QED
    BY <2>3, <2>7 DEF Stream!Next
<1> QED
  BY <1>2, <1>3 DEF Drained

\* While a member's gatherer gathers, the last chunk of its lane, or if all
\* were delivered the last one delivered, is the last its sub-filter gave.
LEMMA NewestIs ==
  ASSUME IInv, InOrder, LanesFacts,
         NEW k \in 1 .. Len(Line), NEW i \in Items, Line[k] = i,
         Running(i), task[i].result = "S_OK"
  PROVE  Stream!Newest(k) = task[i].produced
<1> DEFINE q == task[i].chunks
<1>1. /\ task \in [Items -> TaskRecords] /\ task[i] \in TaskRecords
      /\ Lined(i) /\ ~Drained(i)
  BY OrderTypes DEF InOrder, AllLined, Lined, Drained
<1>2. /\ q \in Seq(Chunks) /\ Len(q) \in Nat
      /\ task[i].produced \in 0 .. MaxChunks
      /\ Given(i) = task[i].produced + 1 - Len(q) /\ Given(i) \in Int
  BY <1>1, GivenType DEF Given
<1>3. Lanes[k] = LaneOf(i, task[i])
  BY DEF LanesFacts
<1>4. Lanes[k].chunks = q
  <2>1. task[i].result # "failed"
    OBVIOUS
  <2>2. LaneOf(i, task[i]).chunks = q
    BY <1>1, <2>1, LaneParts
  <2> QED
    BY <1>3, <2>2
<1>5. CASE q # << >>
  <2>1. Len(q) \in 1 .. Len(q)
    BY <1>2, <1>5
  <2>2. q[Len(q)] = Given(i) + Len(q) - 1
    BY <1>1, <2>1 DEF Lined
  <2>3. Given(i) + Len(q) - 1 = task[i].produced
    <3>1. task[i].produced \in Int
      BY <1>2, ItemTaskAssumption
    <3> HIDE DEF q
    <3> QED
      BY <1>2, <3>1
  <2> QED
    BY <1>4, <1>5, <2>2, <2>3 DEF Stream!Newest
<1>6. CASE q = << >>
  <2>1. Given(i) = task[i].produced + 1 /\ Given(i) # 0
    BY <1>2, <1>6, ItemTaskAssumption
  <2>2. i = currentChunkTask
    <3>1. \A l \in DOMAIN tasks : Given(tasks[l]) = 0
      BY DEF InOrder, InQueue
    <3>2. i \in Owned
      BY DEF LanesFacts
    <3> QED
      BY <2>1, <3>1, <3>2 DEF Owned
  <2>3. Follows(i)
    BY <2>2, OrderTypes DEF InOrder, Handed
  <2>4. delivered.chunk = Given(i) - 1
    BY <1>1, <2>1, <2>3 DEF Follows
  <2>5. delivered.chunk = task[i].produced
    <3>1. task[i].produced \in Int
      BY <1>2, ItemTaskAssumption
    <3> QED
      BY <2>1, <2>4, <3>1
  <2> QED
    BY <1>4, <1>6, <2>5 DEF Stream!Newest
<1> QED
  BY <1>5, <1>6

\* A gatherer's chunk, or its failure, is the next one of its member.
LEMMA MemberEmits ==
  ASSUME IInv, InOrder, LanesFacts, LanesFacts',
         UNCHANGED << currentChunkTask, tasks, delivered, returned >>,
         Phase' = Phase,
         NEW i \in Items, \A j \in Items \ {i} : task'[j] = task[j],
         Running(i), task[i].result = "S_OK",
         Drained(i)' = Drained(i),
         NEW c \in {task[i].produced + 1, ErrorChunk},
         LaneOf(i, task'[i]).chunks = Append(LaneOf(i, task[i]).chunks, c)
  PROVE  [Stream!Next]_(Stream!vars)
<1>1. Line' = Line
  BY DEF Line
<1>2. i \in Owned
  BY DEF IInv, NoOrphanGatherer, Joinable, Running, GathererStates
<1>3. PICK k \in 1 .. Len(Line) : Line[k] = i
  BY <1>2 DEF LanesFacts
<1>4. Lanes' = [Lanes EXCEPT ![k] = LaneOf(i, task'[i])]
  BY <1>1, <1>3, LaneChanges DEF InOrder
<1>5. /\ Lanes[k] = LaneOf(i, task[i]) /\ k \in DOMAIN Lanes
      /\ LaneOf(i, task[i]) \in LaneType
  BY <1>3 DEF LanesFacts
<1>6. LaneOf(i, task'[i])
      = [LaneOf(i, task[i]) EXCEPT
           !.chunks = Append(LaneOf(i, task[i]).chunks, c)]
  <2>1. LaneOf(i, task'[i])
        = [item |-> i, open |-> ~Drained(i)',
           chunks |-> LaneOf(i, task'[i]).chunks]
    BY DEF LaneOf, Drained
  <2>2. LaneOf(i, task[i]).item = i /\ LaneOf(i, task[i]).open = ~Drained(i)
    BY DEF LaneOf, Drained
  <2>3. [LaneOf(i, task[i]) EXCEPT
           !.chunks = Append(LaneOf(i, task[i]).chunks, c)]
        = [item |-> LaneOf(i, task[i]).item,
           chunks |-> Append(LaneOf(i, task[i]).chunks, c),
           open |-> LaneOf(i, task[i]).open]
    BY ONLY <1>5, LaneExcept
  <2> QED
    BY <2>1, <2>2, <2>3
<1>7. Lanes' = [Lanes EXCEPT ![k].chunks = Append(@, c)]
  BY <1>4, <1>5, <1>6
<1>8. Lanes[k].open
  <2>1. ~Drained(i)
    BY OrderTypes DEF InOrder, AllLined, Lined, Drained
  <2>2. LaneOf(i, task[i]).open
        = ~(task[i].isFilterDone /\ task[i].isExtractionDone)
    BY DEF LaneOf
  <2> QED
    BY <1>5, <2>1, <2>2, Zenon DEF Drained
<1>9. Stream!Newest(k) = task[i].produced
  BY <1>3, NewestIs
<1>10. Stream!ErrorChunk = ErrorChunk
  BY DEF Stream!ErrorChunk, ErrorChunk
<1>11. task[i].produced # ErrorChunk
  <2>1. task[i].produced \in 0 .. MaxChunks
    BY OrderTypes, GivenType
  <2> QED
    BY <2>1, ItemTaskAssumption DEF ErrorChunk
<1>12. Stream!Emit(k)
  BY <1>7, <1>8, <1>9, <1>10, <1>11 DEF Stream!Emit
<1> QED
  BY <1>5, <1>12 DEF Stream!Next

\* What a gatherer does, the stream does or does not see.
LEMMA GathererStreams ==
  ASSUME IInv, InOrder, LanesFacts, IInv', LanesFacts',
         NEW i \in Items, Gatherer(i)
  PROVE  [Stream!Next]_(Stream!vars)
<1>a. /\ UNCHANGED << currentChunkTask, tasks, delivered, returned >>
      /\ Phase' = Phase /\ Line' = Line
  BY DEF Gatherer, Phase, Line, shared, flags, windowsVars, host, history,
         reading
<1>b. task \in [Items -> TaskRecords] /\ task[i] \in TaskRecords /\ Lined(i)
  BY OrderTypes DEF InOrder, AllLined
<1>c. task' \in [Items -> TaskRecords] /\ task'[i] \in TaskRecords
  BY DEF IInv, TypeOK
<1>d. InQueue
  BY DEF InOrder
<1>e. Owned \subseteq Items
  BY DEF LanesFacts
<1>1. CASE GathererInit(i)
  <2>1. task[i].gatherer = "init" /\ Running(i) /\ task[i].result = "S_OK"
    BY <1>b, <1>1 DEF GathererInit, Lined, Running, GathererStates
  <2>2. /\ task'[i].chunks = task[i].chunks
        /\ task'[i].isFilterDone = task[i].isFilterDone
        /\ task'[i].isExtractionDone = task[i].isExtractionDone
        /\ task'[i].result \in {task[i].result, "failed"}
        /\ \A j \in Items \ {i} : task'[j] = task[j]
    <3>1. CASE Update(i, [task[i] EXCEPT !.gatherer = "check", !.need = 0])
      BY <1>b, <3>1 DEF Update, TaskRecords
    <3>2. CASE Update(i, [task[i] EXCEPT !.gatherer = "end", !.need = 0,
                                         !.result = "failed"])
      BY <1>b, <3>2 DEF Update, TaskRecords
    <3> QED
      BY <1>1, <3>1, <3>2 DEF GathererInit
  <2>3. CASE task'[i].result = task[i].result
    BY <1>a, <1>d, <2>2, <2>3, MemberEnds DEF Drained
  <2>4. CASE task'[i].result = "failed"
    <3>1. LaneOf(i, task'[i]).chunks = Append(task[i].chunks, ErrorChunk)
      BY <1>c, <2>2, <2>4, LaneParts
    <3>2. LaneOf(i, task[i]).chunks = task[i].chunks
      BY <1>b, <2>1, LaneParts
    <3> QED
      BY <1>a, <2>1, <2>2, <3>1, <3>2, MemberEmits DEF Drained
  <2> QED
    BY <2>2, <2>3, <2>4
<1>2. CASE GathererCheck(i)
  <2>1. \A j \in Items : LaneOf(j, task'[j]) = LaneOf(j, task[j])
    BY <1>b, <1>2, OpsAreHidden
  <2> QED
    BY <1>a, <1>e, <2>1, StreamStays
<1>3. CASE GathererChunk(i)
  <2>1. Running(i) /\ task[i].result = "S_OK"
    BY <1>b, <1>3 DEF GathererChunk, Lined, Running, GathererStates
  <2>2. /\ task'[i].chunks = Append(task[i].chunks, task[i].produced + 1)
        /\ task'[i].isFilterDone = task[i].isFilterDone
        /\ task'[i].isExtractionDone = task[i].isExtractionDone
        /\ task'[i].result = task[i].result
        /\ \A j \in Items \ {i} : task'[j] = task[j]
    BY <1>b, <1>3 DEF GathererChunk, Update, PushedBack, TaskRecords
  <2>3. LaneOf(i, task'[i]).chunks = task'[i].chunks
    BY <1>c, <2>1, <2>2, LaneParts
  <2>4. LaneOf(i, task[i]).chunks = task[i].chunks
    BY <1>b, <2>1, LaneParts
  <2> QED
    BY <1>a, <2>1, <2>2, <2>3, <2>4, MemberEmits DEF Drained
<1>4. CASE GathererStop(i)
  <2>1. Running(i) /\ task[i].result = "S_OK"
    BY <1>b, <1>4 DEF GathererStop, Lined, Running, GathererStates
  <2>2. /\ task'[i].chunks = task[i].chunks
        /\ task'[i].isFilterDone = task[i].isFilterDone
        /\ task'[i].isExtractionDone = task[i].isExtractionDone
        /\ task'[i].result \in Codes
        /\ \A j \in Items \ {i} : task'[j] = task[j]
    BY <1>b, <1>4 DEF GathererStop, Update, TaskRecords
  <2>3. CASE task'[i].result = "S_OK"
    BY <1>a, <1>d, <2>1, <2>2, <2>3, MemberEnds DEF Drained
  <2>4. CASE task'[i].result = "failed"
    <3>1. LaneOf(i, task'[i]).chunks = Append(task[i].chunks, ErrorChunk)
      BY <1>c, <2>2, <2>4, LaneParts
    <3>2. LaneOf(i, task[i]).chunks = task[i].chunks
      BY <1>b, <2>1, LaneParts
    <3> QED
      BY <1>a, <2>1, <2>2, <3>1, <3>2, MemberEmits DEF Drained
  <2> QED
    BY <2>2, <2>3, <2>4 DEF Codes
<1>5. CASE GathererEnd(i)
  <2>1. /\ task'[i].chunks = task[i].chunks
        /\ task'[i].isFilterDone
        /\ task'[i].isExtractionDone = task[i].isExtractionDone
        /\ task'[i].result = task[i].result
        /\ \A j \in Items \ {i} : task'[j] = task[j]
    BY <1>b, <1>5 DEF GathererEnd, Update, TaskRecords
  <2> QED
    BY <1>a, <1>d, <2>1, MemberEnds DEF Drained
<1> QED
  BY <1>1, <1>2, <1>3, <1>4, <1>5 DEF Gatherer, GathererStep

\* GetStream and the end of Extract end a member.
LEMMA ExtractionDoneStreams ==
  ASSUME IInv, InQueue, LanesFacts, IInv', LanesFacts',
         UNCHANGED << currentChunkTask, tasks, delivered, returned >>,
         Phase' = Phase,
         NEW i \in Items, SetExtractionDone(i)
  PROVE  [Stream!Next]_(Stream!vars)
<1>1. task \in [Items -> TaskRecords] /\ task[i] \in TaskRecords
  BY OrderTypes
<1>2. /\ task'[i].chunks = task[i].chunks
      /\ task'[i].result = task[i].result
      /\ task'[i].isExtractionDone
      /\ task[i].isFilterDone => task'[i].isFilterDone
      /\ \A j \in Items \ {i} : task'[j] = task[j]
  BY <1>1 DEF SetExtractionDone, Update, TaskRecords
<1> QED
  BY <1>2, MemberEnds DEF Drained

\* GetStream queues a member: it joins the line with its name.
LEMMA QueueStreams ==
  ASSUME IInv, InOrder, ReadyInv, LanesFacts, LanesFacts', QueueTask
  PROVE  [Stream!Next]_(Stream!vars)
<1>1. PICK i \in Items : i = currentExtractTask
  BY OrderTypes DEF QueueTask, IInv, Control
<1>2. /\ tasks' = Append(tasks, i) /\ Queued(i)
      /\ extractor = "queue" /\ ~abortExtraction
      /\ UNCHANGED << currentChunkTask, delivered, returned, ready,
                      extractionFinished >>
  BY <1>1 DEF QueueTask, Refuses, windowsVars, reading, history, host, flags
<1>3. /\ task \in [Items -> TaskRecords] /\ task[i] \in TaskRecords
      /\ Before(i) /\ task[i].chunks = << NameChunk >>
      /\ i \in Nat /\ i > delivered.item
  BY <1>1, <1>2, OrderTypes DEF InOrder, InQueue, Before
<1>4. task[i].result = "S_OK" /\ ~task[i].isExtractionDone
  <2>1. task[i].gatherer = "none" /\ Lined(i)
    BY <1>1, <1>2 DEF InOrder, InQueue, AllLined
  <2>2. ~task[currentExtractTask].isExtractionDone
    BY <1>1, <1>2, OrderTypes DEF IInv, Ownership
  <2> QED
    BY <1>1, <2>1, <2>2 DEF Lined
<1>5. /\ ready /\ ~extractionFinished
  BY <1>2 DEF ReadyInv, HasEnded, IInv, Ownership
<1>6. Phase = "extracting" /\ Phase' = Phase
  BY <1>2, <1>5 DEF Phase
<1>7. /\ task'[i].chunks = << NameChunk >> /\ task'[i].result = "S_OK"
      /\ ~task'[i].isExtractionDone
      /\ \A j \in Items \ {i} : task'[j] = task[j]
  BY <1>2, <1>3, <1>4 DEF Queued, Update, TaskRecords
<1>8. i \notin Owned
  <2>1. \A n \in Items : ~(n < n)
    BY ItemTaskAssumption DEF Items
  <2> QED
    BY <1>3, <2>1 DEF Owned, Before
<1>9. Lanes' = Append(Lanes, LaneOf(i, task'[i]))
  BY <1>2, <1>7, <1>8, LaneJoins
<1>10. LaneOf(i, task'[i])
       = [item |-> i, chunks |-> << 0 >>, open |-> TRUE]
  <2>1. << NameChunk >> \in Seq(Chunks)
    BY ItemTaskAssumption DEF NameChunk, Chunks, ErrorChunk
  <2>2. << NameChunk >> \o << >> = << NameChunk >>
    BY ONLY <2>1, ConcatEmptySeq
  <2> QED
    BY <1>7, <2>2 DEF LaneOf, NameChunk
<1>11. \A k \in DOMAIN Lanes : i > Lanes[k].item
  <2> SUFFICES ASSUME NEW k \in 1 .. Len(Line)
               PROVE  i > Lanes[k].item
    BY DEF LanesFacts
  <2>1. Lanes[k].item = Line[k] /\ Line[k] \in Owned /\ Line[k] \in Items
    <3>1. /\ Lanes[k] = LaneOf(Line[k], task[Line[k]])
          /\ Line[k] \in Owned /\ Line[k] \in Items
      BY DEF LanesFacts
    <3> QED
      BY <3>1 DEF LaneOf
  <2>2. Line[k] < i
    BY <1>3, <2>1 DEF Owned, Before
  <2> QED
    BY <1>3, <2>1, <2>2 DEF Items
<1>12. Stream!Admit(i)
  BY <1>2, <1>3, <1>6, <1>9, <1>10, <1>11 DEF Stream!Admit
<1> QED
  BY <1>12 DEF Stream!Next

\* What the extractor does, the stream does or does not see.
LEMMA ExtractorStreams ==
  ASSUME IInv, InOrder, ReadyInv, LanesFacts, IInv', LanesFacts', Extractor
  PROVE  [Stream!Next]_(Stream!vars)
<1> USE DEF flags, shared, extractorVars, windowsVars, reading, host, history
<1>a. /\ task \in [Items -> TaskRecords]
      /\ currentExtractTask \in Items \cup {NoItem} /\ InQueue
  BY OrderTypes DEF InOrder
<1>b. Owned \subseteq Items
  BY DEF LanesFacts
<1>1. CASE QueueTask
  BY <1>1, QueueStreams
<1>2. CASE ~QueueTask
  <2>1. UNCHANGED << currentChunkTask, tasks, delivered, returned, ready >>
    BY <1>2 DEF Extractor, Write, GetStreamSkip, GetStream, EndPrevious,
                MakeTask, MakeTaskFails, SleepForQueue, RefuseTask,
                RunTask, ExtractEnds, EndLast, Finish
  <2>2. Line' = Line
    BY <2>1 DEF Line
  <2>3. CASE Finish
    <3>1. UNCHANGED task /\ extractionFinished' = TRUE
      BY <2>3 DEF Finish
    <3>2. Lanes' = Lanes
      BY <2>2, <3>1, LanesStay
    <3>3. CASE Phase = "extracting"
      <4>1. ready
        BY <3>3 DEF Phase
      <4>2. Phase' = "finished"
        BY <2>1, <3>1, <4>1 DEF Phase
      <4> QED
        BY <2>1, <3>2, <3>3, <4>2 DEF Stream!Next, Stream!Finish
    <3>4. CASE Phase # "extracting"
      <4>1. Phase' = Phase
        BY <2>1, <3>1, <3>4 DEF Phase
      <4> QED
        BY <2>1, <3>2, <4>1 DEF Stream!vars
    <3> QED
      BY <3>3, <3>4
  <2>4. CASE ~Finish
    <3>1. Phase' = Phase
      <4>1. extractionFinished' = extractionFinished
        BY <1>2, <2>4
           DEF Extractor, Write, GetStreamSkip, GetStream, EndPrevious,
               MakeTask, MakeTaskFails, SleepForQueue, RefuseTask,
               RunTask, ExtractEnds, EndLast
      <4> QED
        BY <2>1, <4>1 DEF Phase
    <3>2. CASE \E i \in Items : SetExtractionDone(i)
      BY <1>a, <2>1, <3>1, <3>2, ExtractionDoneStreams
    <3>3. CASE MakeTask
      <4>1. /\ nextIndex \in Items /\ Construct(nextIndex)
            /\ Before(nextIndex)
        BY <3>3, OrderTypes, ItemTaskAssumption
           DEF MakeTask, InOrder, InQueue, IInv, Control, Items
      <4>2. PICK i \in Items : i = nextIndex
        BY <4>1
      <4>3. \A j \in Items \ {i} : task'[j] = task[j]
        BY <1>a, <4>1, <4>2 DEF Construct, Update
      <4>4. i \notin Owned
        <5>1. \A n \in Items : ~(n < n)
          BY ItemTaskAssumption DEF Items
        <5> QED
          BY <4>1, <4>2, <5>1 DEF Owned, Before
      <4>5. \A j \in Owned : LaneOf(j, task'[j]) = LaneOf(j, task[j])
        BY <1>b, <4>3, <4>4
      <4> QED
        BY <2>1, <2>2, <3>1, <4>5, StreamStays
    <3>4. CASE \/ UNCHANGED task
               \/ \E i \in Items :
                    \/ RunStarted(i) \/ RunThrows(i) \/ AppendBytes(i)
                    \/ SetEndOfFile(i)
      <4>1. \A j \in Items : LaneOf(j, task'[j]) = LaneOf(j, task[j])
        BY <1>a, <3>4, OpsAreHidden
      <4> QED
        BY <1>b, <2>1, <2>2, <3>1, <4>1, StreamStays
    <3>5. \/ \E i \in Items : SetExtractionDone(i)
          \/ MakeTask
          \/ UNCHANGED task
          \/ \E i \in Items :
               \/ RunStarted(i) \/ RunThrows(i) \/ AppendBytes(i)
               \/ SetEndOfFile(i)
      <4>1. extractor \in {"run", "endOfFile", "lastEndOfFile"} =>
                currentExtractTask \in Items
        BY <1>a DEF IInv, Control
      <4>2. CASE Write
        BY <1>a, <4>2 DEF Write
      <4>3. CASE EndPrevious \/ EndLast \/ RunTask
        BY <4>1, <4>3 DEF EndPrevious, EndLast, RunTask, RunRefused
      <4>4. CASE GetStream \/ ExtractEnds
        BY <1>a, <4>4 DEF GetStream, ExtractEnds, IsPending
      <4>5. CASE \/ GetStreamSkip \/ MakeTaskFails \/ SleepForQueue
                 \/ RefuseTask
        BY <4>5 DEF GetStreamSkip, MakeTaskFails, SleepForQueue, RefuseTask
      <4> QED
        BY <1>2, <2>4, <4>2, <4>3, <4>4, <4>5 DEF Extractor
    <3> QED
      BY <3>2, <3>3, <3>4, <3>5
  <2> QED
    BY <2>3, <2>4
<1> QED
  BY <1>1, <1>2

\* The first member's next chunk is the one GetChunk returns.
LEMMA DeliverStreams ==
  ASSUME IInv, InOrder, ReadyInv, LanesFacts, IInv', LanesFacts',
         ReturnChunk \/ ReturnErrorChunk
  PROVE  [Stream!Next]_(Stream!vars)
<1>1. PICK i \in Items : i = currentChunkTask
  BY OrderTypes DEF ReturnChunk, ReturnErrorChunk, IInv, Control
<1> DEFINE l == LaneOf(i, task[i])
<1>2. /\ task \in [Items -> TaskRecords] /\ task[i] \in TaskRecords
      /\ task'[i] \in TaskRecords
      /\ currentChunkTask # NoItem
      /\ delivered.id \in Nat /\ currentChunkId \in Nat
  BY <1>1, OrderTypes DEF IInv, TypeOK
<1>3. /\ UNCHANGED << currentChunkTask, tasks, ready, extractionFinished >>
      /\ windows = "chunk"
      /\ returned' = "chunk"
  BY DEF ReturnChunk, ReturnErrorChunk, Deliver, shared, flags, host
<1>4. Phase' = Phase /\ Phase # "stopped" /\ Line' = Line
  BY <1>3 DEF Phase, ReadyInv, Line
<1>5. /\ Line[1] = i /\ 1 \in 1 .. Len(Line) /\ Line # << >>
  <2>1. Line[1] = i /\ Len(Line) = Len(tasks) + 1 /\ Line # << >>
    BY <1>1, <1>2 DEF LanesFacts
  <2>2. Len(tasks) \in Nat
    BY OrderTypes
  <2> QED
    BY <2>1, <2>2
<1>6. /\ Lanes[1] = l /\ Lanes \in Seq(LaneType) /\ l \in LaneType
      /\ Len(Lanes) = Len(Line) /\ Len(Line) \in Nat
  BY <1>5 DEF LanesFacts
<1>7. Lanes # << >> /\ Head(Lanes) = l
  BY <1>5, <1>6
<1>8. /\ l.chunks # << >>
      /\ LaneOf(i, task'[i]).chunks = Tail(l.chunks)
      /\ Drained(i)' = Drained(i)
      /\ \A j \in Items \ {i} : task'[j] = task[j]
      /\ delivered' = [id |-> currentChunkId + 1, item |-> i,
                       chunk |-> Head(l.chunks)]
  <2>1. CASE ReturnChunk
    <3> DEFINE q == task[i].chunks
    <3>1. /\ task'[i].chunks = Tail(q) /\ q # << >>
          /\ task'[i].result = task[i].result
          /\ task'[i].isFilterDone = task[i].isFilterDone
          /\ task'[i].isExtractionDone = task[i].isExtractionDone
          /\ \A j \in Items \ {i} : task'[j] = task[j]
      BY <1>1, <1>2, <2>1 DEF ReturnChunk, NextChunkPops, Update, TaskRecords
    <3>2. delivered' = [id |-> currentChunkId + 1, item |-> i,
                        chunk |-> Head(q)]
      BY <1>1, <2>1 DEF ReturnChunk, Deliver
    <3>3. q \in Seq(Chunks) /\ ErrorChunk \in Chunks
      BY <1>2, GivenType, ItemTaskAssumption DEF ErrorChunk, Chunks
    <3>4. CASE task[i].result # "failed"
      <4>1. l.chunks = q /\ LaneOf(i, task'[i]).chunks = Tail(q)
        BY <1>2, <3>1, <3>4, LaneParts
      <4> QED
        BY <3>1, <3>2, <4>1 DEF Drained
    <3>5. CASE task[i].result = "failed"
      <4>1. /\ l.chunks = Append(q, ErrorChunk)
            /\ LaneOf(i, task'[i]).chunks = Append(Tail(q), ErrorChunk)
        <5>1. l.chunks = Append(q, ErrorChunk)
          BY <1>2, <3>5, LaneParts
        <5>2. LaneOf(i, task'[i]).chunks
              = Append(task'[i].chunks, ErrorChunk)
          <6>1. task'[i].result = "failed"
            BY <3>1, <3>5
          <6> QED
            BY <1>2, <6>1, LaneParts
        <5> QED
          BY <3>1, <5>1, <5>2
      <4> HIDE DEF q
      <4>2. /\ Head(Append(q, ErrorChunk)) = Head(q)
            /\ Tail(Append(q, ErrorChunk)) = Append(Tail(q), ErrorChunk)
            /\ Append(q, ErrorChunk) # << >>
        BY ONLY <3>1, <3>3, HeadTailAppend, AppendProperties
      <4> HIDE DEF l
      <4> QED
        BY <3>1, <3>2, <4>1, <4>2 DEF Drained
    <3> QED
      BY <3>4, <3>5
  <2>2. CASE ReturnErrorChunk
    <3>1. /\ task[i].chunks = << >> /\ task[i].result = "failed"
          /\ task'[i].chunks = << >> /\ task'[i].result = "S_OK"
          /\ task'[i].isFilterDone = task[i].isFilterDone
          /\ task'[i].isExtractionDone = task[i].isExtractionDone
          /\ \A j \in Items \ {i} : task'[j] = task[j]
      BY <1>1, <1>2, <2>2
         DEF ReturnErrorChunk, NextChunkFails, Update, TaskRecords
    <3>2. delivered' = [id |-> currentChunkId + 1, item |-> i,
                        chunk |-> ErrorChunk]
      BY <1>1, <2>2 DEF ReturnErrorChunk, Deliver
    <3>3. /\ l.chunks = Append(<< >>, ErrorChunk)
          /\ LaneOf(i, task'[i]).chunks = << >>
      BY <1>2, <3>1, LaneParts
    <3>4. /\ Head(Append(<< >>, ErrorChunk)) = ErrorChunk
          /\ Tail(Append(<< >>, ErrorChunk)) = << >>
          /\ Append(<< >>, ErrorChunk) # << >>
      OBVIOUS
    <3> HIDE DEF l
    <3> QED
      BY <3>1, <3>2, <3>3, <3>4 DEF Drained
  <2> QED
    BY <2>1, <2>2
<1>9. Lanes' = [Lanes EXCEPT ![1] = LaneOf(i, task'[i])]
  BY <1>4, <1>5, <1>8, LaneChanges DEF InOrder
<1>10. LaneOf(i, task'[i]) = [l EXCEPT !.chunks = Tail(l.chunks)]
  <2>1. LaneOf(i, task'[i])
        = [item |-> i, open |-> ~Drained(i)',
           chunks |-> LaneOf(i, task'[i]).chunks]
    BY DEF LaneOf, Drained
  <2>2. l.item = i /\ l.open = ~Drained(i)
    BY DEF LaneOf, Drained
  <2> HIDE DEF l
  <2>3. [l EXCEPT !.chunks = Tail(l.chunks)]
        = [item |-> l.item, chunks |-> Tail(l.chunks), open |-> l.open]
    BY ONLY <1>6, LaneExcept
  <2> QED
    BY <1>8, <2>1, <2>2, <2>3
<1>11. l.item = i
  BY DEF LaneOf
<1> HIDE DEF l
<1>12. Lanes' = [Lanes EXCEPT ![1].chunks = Tail(@)]
  BY <1>6, <1>9, <1>10
<1>13. delivered'.id > delivered.id
  <2>1. delivered.id <= currentChunkId
    BY DEF InOrder, Handed
  <2> QED
    BY <1>2, <1>8, <2>1
<1>14. delivered' = [id |-> delivered'.id, item |-> l.item,
                     chunk |-> Head(l.chunks)]
  BY <1>8, <1>11
<1>15. Stream!Deliver
  BY <1>3, <1>4, <1>7, <1>8, <1>12, <1>13, <1>14 DEF Stream!Deliver
<1> QED
  BY <1>15 DEF Stream!Next

\* A member that GetChunk has drained, or the abort sequence joined, leaves.
LEMMA MemberLeaves ==
  ASSUME IInv, InOrder, ReadyInv, LanesFacts, LanesFacts',
         DropTask \/ JoinAborted
  PROVE  [Stream!Next]_(Stream!vars)
<1>1. PICK i \in Items : i = currentChunkTask
  BY OrderTypes DEF DropTask, JoinAborted, IInv, Control
<1>2. /\ task \in [Items -> TaskRecords] /\ task[i] \in TaskRecords
      /\ currentChunkTask # NoItem
  BY <1>1, OrderTypes
<1>3. /\ UNCHANGED << tasks, ready, extractionFinished, delivered, returned >>
      /\ currentChunkTask' = NoItem
  BY DEF DropTask, JoinAborted, shared, flags, host, history
<1>4. Phase' = Phase /\ Line # << >> /\ Line[1] = i /\ Line' = Tail(Line)
      /\ 1 \in 1 .. Len(Line)
  BY <1>1, <1>2, <1>3 DEF Phase, LanesFacts
<1>5. \A j \in Items \ {i} : task'[j] = task[j]
  BY <1>1, <1>2
     DEF DropTask, JoinAborted, NextChunkEnds, AbortJoins, Update
<1>6. Lanes' = Tail(Lanes)
  BY <1>4, <1>5, LaneLeaves DEF InOrder
<1>7. /\ Lanes[1] = LaneOf(i, task[i]) /\ Lanes \in Seq(LaneType)
      /\ Len(Lanes) = Len(Line) /\ Len(Line) \in Nat
  BY <1>4 DEF LanesFacts
<1>8. Lanes # << >> /\ Head(Lanes) = LaneOf(i, task[i])
  BY <1>4, <1>7
<1>9. CASE JoinAborted
  <2>1. Phase = "stopped"
    BY <1>9 DEF JoinAborted, ReadyInv, Aborting, Phase
  <2> QED
    BY <1>3, <1>4, <1>6, <1>8, <2>1 DEF Stream!Next, Stream!Discard
<1>10. CASE DropTask
  <2>1. /\ task[i].chunks = << >> /\ Drained(i) /\ task[i].result = "S_OK"
    BY <1>1, <1>10 DEF DropTask, NextChunkEnds
  <2>2. LaneOf(i, task[i]).chunks = << >>
    BY <1>2, <2>1, LaneParts
  <2>3. ~LaneOf(i, task[i]).open
    <3>1. LaneOf(i, task[i]).open
          = ~(task[i].isFilterDone /\ task[i].isExtractionDone)
      BY DEF LaneOf
    <3> QED
      BY <2>1, <3>1, Zenon DEF Drained
  <2> QED
    BY <1>3, <1>4, <1>6, <1>8, <2>2, <2>3 DEF Stream!Next, Stream!Retire
<1> QED
  BY <1>9, <1>10

\* What a call does before or after it has moved a member or a chunk.
LEMMA WindowsStreams ==
  ASSUME IInv, InOrder, ReadyInv, Over, LanesFacts, IInv', LanesFacts',
         Windows
  PROVE  [Stream!Next]_(Stream!vars)
<1> USE DEF flags, shared, extractorVars, reading, host, history, windowsVars
<1>a. task \in [Items -> TaskRecords] /\ Owned \subseteq Items
  <2>1. Owned \subseteq Items
    BY DEF LanesFacts
  <2> QED
    BY <2>1, OrderTypes
<1>b. tasks = << >> /\ currentChunkTask = NoItem => Lanes = << >>
  <2> SUFFICES ASSUME tasks = << >>, currentChunkTask = NoItem
               PROVE  Lanes = << >>
    OBVIOUS
  <2>1. Line = << >> /\ Len(Lanes) = Len(Line) /\ Lanes \in Seq(LaneType)
    BY DEF LanesFacts
  <2> QED
    BY <2>1
<1>1. CASE CallInit \/ CallRelease
  <2>1. /\ UNCHANGED << tasks, task, currentChunkTask, delivered, returned >>
        /\ ready' = FALSE
    BY <1>1 DEF CallInit, CallRelease, SignalAbort
  <2>2. Phase' = "stopped" /\ Line' = Line
    BY <2>1 DEF Phase, Line
  <2>3. Lanes' = Lanes
    BY <2>1, <2>2, LanesStay
  <2> QED
    BY <2>1, <2>2, <2>3 DEF Stream!Next, Stream!Stop
<1>2. CASE \/ JoinExtractor \/ OpenFails \/ CallGetChunk \/ SleepForTask
           \/ TakeTask \/ SleepForChunk \/ AbortTask \/ StartThreadFails
           \/ Initialize \/ Load \/ LoadFails \/ InitRefused
  <2>1. /\ UNCHANGED << delivered, returned, ready >>
        /\ \/ UNCHANGED << currentChunkTask, tasks >>
           \/ /\ currentChunkTask = NoItem /\ tasks # << >>
              /\ currentChunkTask' = Head(tasks) /\ tasks' = Tail(tasks)
    <3>1. CASE \/ JoinExtractor \/ OpenFails \/ CallGetChunk \/ SleepForTask
               \/ SleepForChunk \/ StartThreadFails \/ Initialize \/ Load
               \/ LoadFails \/ InitRefused
      BY <3>1 DEF JoinExtractor, OpenFails, CallGetChunk, SleepForTask,
                  SleepForChunk, StartThreadFails, Initialize, Load,
                  LoadFails, GivesStream, InitRefused, vars
    <3>2. CASE TakeTask \/ AbortTask
      BY <3>2 DEF TakeTask, AbortTask, IInv, Control
    <3> QED
      BY <1>2, <3>1, <3>2
  <2>2. Line' = Line
    BY <2>1, LineStays
  <2>3. Phase' = Phase
    <3>1. CASE StartThreadFails
      BY <2>1, <3>1 DEF StartThreadFails, ReadyInv, Phase
    <3>2. CASE ~StartThreadFails
      <4>1. extractionFinished' = extractionFinished
        BY <1>2, <3>2
           DEF JoinExtractor, OpenFails, CallGetChunk, SleepForTask, TakeTask,
               SleepForChunk, AbortTask, Initialize, Load, LoadFails,
               GivesStream, InitRefused, vars
      <4> QED
        BY <2>1, <4>1 DEF Phase
    <3> QED
      BY <3>1, <3>2
  <2>4. \A j \in Items : LaneOf(j, task'[j]) = LaneOf(j, task[j])
    <3>1. CASE SleepForChunk
      <4>1. PICK i \in Items : i = currentChunkTask
        BY <3>1, OrderTypes DEF SleepForChunk, IInv, Control
      <4>2. NextChunkSleeps(i)
        BY <3>1, <4>1 DEF SleepForChunk
      <4> QED
        BY <1>a, <4>2, OpsAreHidden
    <3>2. CASE AbortTask
      <4>1. PICK i \in Items : AbortSignals(i)
        <5>1. CASE currentChunkTask # NoItem
          BY <3>2, <5>1, OrderTypes DEF AbortTask
        <5>2. CASE currentChunkTask = NoItem
          <6>1. Head(tasks) \in Items
            BY <3>2, <5>2, OrderTypes DEF AbortTask
          <6> QED
            BY <3>2, <5>2, <6>1 DEF AbortTask
        <5> QED
          BY <5>1, <5>2
      <4> QED
        BY <1>a, <4>1, OpsAreHidden
    <3>3. CASE ~SleepForChunk /\ ~AbortTask
      <4>1. UNCHANGED task
        BY <1>2, <3>3
           DEF JoinExtractor, OpenFails, CallGetChunk, SleepForTask, TakeTask,
               StartThreadFails, Initialize, Load, LoadFails, GivesStream,
               InitRefused, vars
      <4> QED
        BY <4>1
    <3> QED
      BY <3>1, <3>2, <3>3
  <2> QED
    BY <1>a, <2>1, <2>2, <2>3, <2>4, StreamStays
<1>3. CASE Reset
  <2>1. /\ currentChunkTask = NoItem /\ tasks = << >>
        /\ UNCHANGED << currentChunkTask, tasks, task, ready,
                        extractionFinished >>
        /\ delivered' = NothingYet /\ returned' = "none"
        /\ windows = "abort"
    BY <1>3 DEF Reset
  <2>2. Line' = Line /\ Phase' = Phase /\ Phase = "stopped"
    BY <2>1 DEF Line, Phase, ReadyInv, Aborting
  <2>3. Lanes' = Lanes
    BY <2>1, <2>2, LanesStay
  <2>4. NothingYet = Stream!NothingYet
    BY DEF NothingYet, NoItem, Stream!NothingYet
  <2> QED
    BY <1>b, <2>1, <2>2, <2>3, <2>4 DEF Stream!Next, Stream!Forget
<1>4. CASE StartExtractor
  <2>1. /\ UNCHANGED << currentChunkTask, tasks, task, delivered, returned >>
        /\ ready' = TRUE /\ extractionFinished' = FALSE
        /\ windows = "open"
    BY <1>4 DEF StartExtractor
  <2>2. Line' = Line /\ Phase = "stopped" /\ Phase' = "extracting"
    BY <2>1 DEF Line, Phase, ReadyInv
  <2>3. Lanes' = Lanes
    BY <2>1, <2>2, LanesStay
  <2>4. Lanes = << >>
    BY <1>b, <2>1 DEF InOrder, Handed
  <2> QED
    BY <2>1, <2>2, <2>3, <2>4 DEF Stream!Next, Stream!Start
<1>5. CASE ReportFailure \/ ReportEnd
  <2>1. /\ UNCHANGED << currentChunkTask, tasks, task, delivered, ready,
                        extractionFinished >>
        /\ windows = "task" /\ AllTaken
    BY <1>5 DEF ReportFailure, ReportEnd
  <2>2. Line' = Line /\ Phase = "finished" /\ Phase' = Phase
    BY <2>1 DEF Line, Phase, ReadyInv, AllTaken
  <2>3. Lanes' = Lanes
    BY <2>1, <2>2, LanesStay
  <2>4. Lanes = << >>
    BY <1>b, <2>1 DEF AllTaken, IInv, Control
  <2>5. CASE ReportFailure
    <3>1. /\ returned \notin {"failed", "end"} /\ returned' = "failed"
      BY <2>5 DEF ReportFailure, Over
    <3> QED
      BY <2>1, <2>2, <2>3, <2>4, <3>1 DEF Stream!Next, Stream!Fail
  <2>6. CASE ReportEnd
    <3>1. returned' = "end"
      BY <2>6 DEF ReportEnd
    <3> QED
      BY <2>1, <2>2, <2>3, <2>4, <3>1 DEF Stream!Next, Stream!End
  <2> QED
    BY <1>5, <2>5, <2>6
<1>6. CASE ReturnChunk \/ ReturnErrorChunk
  BY <1>6, DeliverStreams
<1>7. CASE DropTask \/ JoinAborted
  BY <1>7, MemberLeaves
<1> QED
  BY <1>1, <1>2, <1>3, <1>4, <1>5, <1>6, <1>7
     DEF Windows, Calls, WindowsInside

\* Every step of the threads is a step of the stream or none.
LEMMA StepStreams ==
  ASSUME IInv, InOrder, ReadyInv, Over, LanesFacts, IInv', LanesFacts',
         [Next]_vars
  PROVE  [Stream!Next]_(Stream!vars)
<1>1. CASE UNCHANGED vars
  <2>1. UNCHANGED << task, tasks, currentChunkTask, ready, extractionFinished,
                     delivered, returned >>
    BY <1>1 DEF vars, shared, flags, windowsVars, reading, host, history
  <2>2. Line' = Line /\ Phase' = Phase
    BY <2>1 DEF Line, Phase
  <2>3. Lanes' = Lanes
    BY <2>1, <2>2, LanesStay
  <2> QED
    BY <2>1, <2>2, <2>3 DEF Stream!vars
<1> QED
  BY <1>1, WindowsStreams, ExtractorStreams, GathererStreams
     DEF Next, Released

\* A new filter is a new stream.
LEMMA InitStreams == Init => Stream!Init
<1> SUFFICES ASSUME Init PROVE Stream!Init
  OBVIOUS
<1>1. /\ tasks = << >> /\ currentChunkTask = NoItem /\ ready = FALSE
      /\ delivered = NothingYet /\ returned = "none"
  BY DEF Init
<1>2. Lanes = << >>
  <2>1. IInv
    BY InitType, InitOwnership DEF IInv
  <2>2. LanesFacts /\ Line = tasks /\ Len(Lanes) = 0
    BY <1>1, <2>1, LanesFactsHold DEF LanesFacts
  <2> QED
    BY <2>2 DEF LanesFacts
<1>3. Phase = "stopped"
  BY <1>1 DEF Phase
<1> QED
  BY <1>1, <1>2, <1>3
     DEF Stream!Init, NothingYet, NoItem, Stream!NothingYet

\* The filter implements the stream of chunks it promises, for any number of
\* members and threads, if the host calls GetChunk only after an Init that
\* succeeded: whatever order extractor, gatherers and calls run in, the host
\* sees one stream, member after member.
THEOREM IsChunkStream ==
  ASSUME ~GetAfterFailedInit
  PROVE  Spec => ImplementsStream
<1>1. Init => Stream!Init /\ ReadyInv
  <2>1. Init => ReadyInv
    BY DEF Init, ReadyInv, Aborting, HasEnded
  <2> QED
    BY <2>1, InitStreams
<1>2. IInv /\ ReadyInv /\ [Next]_vars => ReadyInv'
  BY ReadyStep
<1>3. IInv => LanesFacts
  BY LanesFactsHold
<1>4. IInv /\ IInv' /\ InOrder /\ ReadyInv /\ Over /\ LanesFacts /\ LanesFacts'
      /\ [Next]_vars => [Stream!Next]_(Stream!vars)
  BY StepStreams
<1>5. Spec => Stream!Init /\ [][Stream!Next]_(Stream!vars)
  BY <1>1, <1>2, <1>3, <1>4, Invariance, OrderInvariance, OverInvariance, PTL
     DEF Spec
<1> QED
  BY <1>5 DEF ImplementsStream, Stream!Spec
=============================================================================
