# Verification of iFilter4Archives

TLA+ models of the iFilter for archives, checked with TLC and, where it says so,
proved with TLAPS. The library is loaded by Windows Search (below: the *host*).
It lets 7-Zip extract an archive on one thread, hands every contained file to
the iFilter registered for its type on a thread of its own, and gives the host
the chunks of all of them as one stream.

- [The system](#the-system)
- [The modules](#the-modules)
- [What is checked](#what-is-checked)
- [Fairness](#fairness)
- [What is proved](#what-is-proved)
- [Where the code and its documentation
  disagree](#where-the-code-and-its-documentation-disagree)
- [What is not modelled](#what-is-not-modelled)
- [Plan](#plan)
- [Working with the project](#working-with-the-project)

## The system

| Part | State | Operations | What must be right |
|------|-------|------------|--------------------|
| `com::Filter` | its stream, queue of tasks, current chunk and extract tasks, chunk id, `extractionFinished`, `extractionResult`, `abortExtraction`; one mutex, one condition variable | `Initialize`, `Load`, `Init`, `GetChunk`, final `Release` (host's thread); `GetStream`, `ExtractorMain` (extractor's thread) | no lost wake-up, no lost chunk, order, bounded number of threads, no thread left behind, clean restart |
| `com::ItemTask` | chunks, three flags, result, gatherer thread, `FileBuffer`; mutex and condition variable | constructor, `Run`, `SetEndOfExtraction` (extractor); `NextChunk`, `Abort` (host); gatherer | every task is run or not, ended, and drained or aborted; the gatherer is joined |
| `streams::FileBuffer` | bytes in memory or a temporary file, `position`, `endOfFile`, mapped window | `Append`, `SetEndOfFile` (extractor), `Read` (gatherer) | no torn read although bytes are copied outside the lock, no endless wait |
| `streams::ReadStream`, `WriteStream` | position | `Read`, `Seek`, `CopyTo`; `Write` | 64-bit arithmetic, `S_FALSE` only at the end, counts after partial failures |
| `streams::BridgeStream` | none but the host's stream | `Read` with a retry, `Seek` | a stream that jumps does not corrupt the archive |
| `com::CachedChunk` | attributes, text, value, offset; `idMap` of the task | `FromFilter`, `Map`, `GetText`, `GetValue` | text is neither lost nor repeated, ids are those of the archive's stream, one owner of the value |
| `com::Registrar` (lookup) | cache per `Filter` | `FindClsid` | the settings' documented precedence; one extension, one filter, also after a lookup that failed |
| `com::Registrar` (registration) | the registry, and the view a transaction has of it | `RegisterServer`, `UnregisterServer` | all or nothing; handlers of others survive; true answers; can be repeated |
| COM objects | reference counts, object count, lock count, locked factory | `QueryInterface`, `AddRef`, `Release`, `CreateInstance`, `LockServer`, `DllGetClassObject`, `DllCanUnloadNow` | exact counts, no unloading while in use |
| `archive::Factory`, `Format`, `Module` | the table of formats | `GetInstance`, `GetFormats`, constructor | one table, first match wins, bad strings do not matter |
| `com::FileDescription` | what is known of a file, shared by its copies; the cached extension and its mutex | `FromArchiveItem`, `FromIStream`, `ToStat`, `GetExtension` | no thread sees an extension half-way |
| Registry and error wrappers | none | keys, values, transactions, `HRESULT`s | a failure is told as one, and rolled back |
| `FilterAttributes`, other wrappers, `sevenzip.hpp`, installer | none of their own that matters | | see [What is not modelled](#what-is-not-modelled) |

### How the parts interact

```
 host's thread            extractor's thread (one per Init)     gatherer (one per task)
 -------------            ---------------------------------     -----------------------
 Init ---- starts ------> 7-Zip: Extract                        sub-filter: Init, GetChunk,
                            | Read/Seek through BridgeStream      GetText, GetValue
                            v                                       | reads ReadStream
                          GetStream: ends the previous task,        v
                            waits for room, queues the next ---> FileBuffer::Read (waits)
                            and runs it -- starts -------------->   ^
                          Write -> FileBuffer::Append -- wakes -----'
 GetChunk: waits for      end: ends the last task, sets             | FromFilter
   a task or the end  <-- extractionFinished, notifies              v
   NextChunk: waits  <-------------- notifies ---------------- queue of CachedChunk
 Init/Release: aborts the extractor, joins it, then aborts and joins every task
```

A contained archive is scanned by another `Filter` inside a gatherer; its
`BridgeStream` reads the outer task's `ReadStream`, its `Registrar` has a cache
of its own.

The behaviours that are hard to test: three condition variables between a byte
and its chunk, with four waits (`GetStream`, `FileBuffer::Read`, `NextChunk`,
`GetChunk`); an abort at any point of extraction and gathering; members of
`Filter` that are used without the lock and protected only by when a thread is
joined; bytes copied outside the lock; failures of 7-Zip, sub-filters, native
calls and allocations at every step; settings and registrations that change
under way; host streams that misbehave; unsigned and signed 64-bit offsets; a
registration of dozens of writes, each of which may fail. `PROJECT.json` lists
them under `hazards`, each at its line with the properties that cover it.

## The modules

`PROJECT.json` (`map`) names for every definition the lines it stands for.
Definitions keep the code's names where they can. An operation is a step if it
is one critical section or touches nothing shared, and several steps if other
threads can get in between; a notification is part of the step it ends.

| Module | Models | Used by |
|--------|--------|---------|
| `ItemTask` | the state of all tasks and one operator per operation, parameterised by the task | `Filter` |
| `Filter` | host's thread, extractor with 7-Zip, and the composition with the tasks' gatherers | `MCFilter`, `FilterProofs` |
| `ChunkStream` | abstract: the one stream of chunks an archive's filter promises | `Filter` (refinement) |
| `FileBuffer` | `Append`, `Read`, `SetEndOfFile`, ranges of bytes at a time | `MCFileBuffer`, `FileBufferProofs` |
| `ByteStream` | abstract: a file that grows and is closed, with indivisible reads | `FileBuffer` (refinement) |
| `ReadStream` | `Read`, `Seek`, `CopyTo` over a buffer that is still filled | `Streams` |
| `BridgeStream` | `Read`, `Seek` over a stream that may jump and fail | `Streams` |
| `Streams` | the composition: a sub-filter, a nested `Filter`'s 7-Zip or a host's stream | `MCStreams`, `StreamsProofs` |
| `CachedChunk` | a chunk from the sub-filter to the host, ids included | `MCCachedChunk`, `CachedChunkProofs` |
| `Dispatch` | `FindClsid` in nested filters and what `ItemTask::Run` does with the answer | `MCDispatch`, `DispatchProofs` |
| `Registrar` | abstract: `RegisterServer` and `UnregisterServer` at once, among other installers | `Registration` (refinement), `RegistrationProofs` |
| `Registration` | both key by key, in a transaction that fails at any step | `MCRegistration`, `RegistrationProofs` |
| `Errors` | pure: what is thrown, as the `HRESULT` the caller gets | `Registration` |
| `ComObject` | counts, aggregation, class factory and server lock, thread by thread | `MCComObject`, `ComObjectProofs` |
| `Format` | pure: how the string of extensions is split | `Formats` |
| `FileDescription` | descriptions, their copies, and the extension worked out by several threads | `Formats` |
| `Formats` | construction of the table of formats by several threads, asked with the extensions of descriptions | `MCFormats`, `FormatsProofs` |

### `ItemTask` and `Filter`

`task[i]` holds what the three threads share of `ItemTask` number *i*; `i` is
also the member's index in the archive. `gatherer` is the gatherer thread's
program counter and says whether its `std::thread` is joinable (`"none"`: not
started or joined). The sub-filter is the environment: before each chunk it
reads up to `need` bytes, which waits for the buffer (`Readable`), then gives a
chunk, stops, or fails. `asleep` (of a task, and the set of that name of the
filter) is the wait set of a condition variable: a thread in it runs again only
after a `notify_all`, so that a missing notification shows as a thread that
never runs. `extractor` and `windows` are the program counters of the two
threads of `Filter`; 7-Zip is the environment of the first (it skips and
extracts members in ascending order, writes, ends or fails at any time), the
host of the second. `RefuseTask` is `GetStream` leaving the queue alone: for an
abort, or because the setting cannot be read or the queue not be enlarged, which
may happen whenever it is awake. `stream` says whether the filter has one: the
host may give and replace it between any two calls, while an extraction runs,
and `Init` without one is refused before it aborts anything. The host is assumed
to call `Init`, `GetChunk` and the final `Release` one at a time: `Filter` reads
and writes `currentChunkTask` and `currentChunkId` in all of them without a
lock, so the code assumes it as well (the registration as `Both` promises
nothing else, threads may take turns). The data of a member is the number of
bytes written, a chunk is a number: 0 the name, 1 to `MaxChunks` the
sub-filter's, the next one the error chunk.

`delivered` and `returned` remember what `GetChunk` returned last;
`ChunkStream` is stated over them and over `Lanes`, the pending chunks of the
tasks the host can still reach.

### `FileBuffer`

Byte *k* of the member is *k*, and `content` holds what memory or disk has at
each offset, `Undefined` where nothing was written. `Append` checks and commits
under the lock (`AppendBegins`, `AppendCommits`), and writes a range of any
length per step in between (`AppendCopies`); native writes may be partial and
fail. `Read` waits under the lock, then copies ranges out of memory or windows
of the file, outside the lock. The window left mapped is part of the state. An
append without the lock is exactly what the module has to show harmless.

### `ReadStream`, `BridgeStream`, `Streams`

Positions are `0 .. 2 * Half - 1` and offsets `-Half .. Half - 1`; with `Half =
2^63` these are the code's, and with a small `Half` every sum and difference
meets both ends of the range. Sums of `ULONGLONG`s wrap around (`Unsigned`),
also in the size `FileBuffer::Read` waits for (`RequiredSize`), so that its
guard against the wrap-around matters: what it would copy too early is `Junk`.
`Seek` negates the smallest offset as well, which is an overflow of a signed
integer (`src/streams/ReadStream.cpp:77`); Visual C++, which the project is
built with, wraps it around, and the cast makes 2^63 of it. `BridgeStream`
treats each call of the host's stream as a step; the foreign one returns as many
of its bytes as it likes up to the request, or jumps and returns any count of
others, or fails, and may be anywhere afterwards. `Streams` instantiates both
modules on one `position`, so that in a nested filter each call of the one is an
operation of the other.

### `CachedChunk`

One chunk at a time is followed from `FromFilter` over `Map` to the host, member
after member, because a chunk is either copied by its gatherer or read by the
host. Characters are numbered; a member's name may be empty. Memory may run out
at any point of `FromFilter`: what has been copied goes, and the error chunk is
next.

### `Dispatch`

Registrations and settings are the state, a handler is one of a few values that
the code tells apart (absent, text that is no GUID, the null handler, our own,
another). Every key and setting is read in a step of its own and may throw,
which ends the lookup with nothing cached; changes interleave, and filters are
inside each other up to `Depth`. `seen` remembers what there was to read at each
moment while a lookup asked; `Mixed(seen[f])` is what it may have read, each
part from one of these moments. The answer is the documented one for that.

### `Registration` and `Registrar`

`Registrar` is what the two operations promise: each happens at once. `base`
remembers which handler others registered; it is `"gone"` if they overwrote ours
by something that is no handler while `HasNullFilter` stayed in the key. That is
the one case in which `UnregisterServer` puts a null handler back that nobody
registered any longer, and `Restores` admits it in this case only.
`Registration` extends it and is what the code does. `view` is the transaction's
registry, to which the filter's keys, the persistent handler's and those of one
extension after the other (`todo`, in any order: the table is a hash map) are
written. The keys below `CLSID` are a small tree (`Parent`) with their values;
the loops over nested cleanups are `DeleteIfEmpty` from the leaf up. The key of
an extension and its handler have few states each. `Commit` makes the view the
registry, `Throw` leaves the registry as it was and answers with the `HRESULT`
module `Errors` makes of what was thrown. Others change the registry under way:
a transaction that has not opened the key sees it, one that has is doomed and
can only fail, as Windows promises. `extra` are keys of ours into which others
put something, so that they are never empty. `ReturnEarly` is `UnregisterServer`
without `SOFTWARE\Classes`. Since the key of the persistent handler stays
(`NameIsLeftBehind`), `S_OK` is in practice the answer where nothing has been
registered; `AnswerIsTrue` therefore says what `S_FALSE` means as well.
`ImplementsRegistrar` is that the registry everybody sees changes as in
`Registrar`.

### `ComObject`

Counts are atomic steps; the mutex of the class factory is explicit; `Release`
is the decrement, then the deletion (object count), then the destruction
(memory). `References(o)` are all references there are to an object: those each
thread holds (`held`, at least one per object), the lock's, that of the thread
which copies the locked factory, and that of an aggregate to its inner object;
`CountsAreExact` compares their number with the count of the code.

### `FileDescription` and `Formats`

Names are sequences of characters, a character is a string. A description is a
record; its copies are references to it, because they share the implementation
object. `GetExtension` is three steps under the object's mutex (assigned with a
terminator, in lower case, trimmed and valid), each of which may fail, and
afterwards `Reference`, read when it is used and without the mutex. A
description is made of an archive's item, of the host's stream or, in a nested
`Filter`, of what `Stat` tells of another one. `Formats` has the function-local
static of `Factory::GetInstance`: one thread constructs, others wait, an
exception lets the next one begin anew. A call works its extension out first and
then asks the table, constructing it if nobody has.

## What is checked

Constants and sizes; the properties' comments in the modules say what each
means. All runs check for deadlock unless noted.

| Run | Bounds | Distinct states | What it shows |
|-----|--------|-----------------|---------------|
| `restart` | 2 members of 1 byte, 1 chunk each besides name and error, setting 0, 2 `Init`s, any `Initialize` and `Load` | 387,919 | `NoOrphanGatherer`, `TaskContract`, `AbortCannotBlock`, `NoDataRace`, `EndIsComplete`, `ChunksInOrder`, `OutcomeIsFinal`; refinement of `ChunkStream`; `GetChunkReturns`, `AbortReturns` |
| `queue` | 3 members, setting 0, 1 `Init` | 1,124,804 | `ThreadBound`: at most the setting plus 2 gatherers |
| `buffer` | 4 bytes, limit 1 or 4 (in a file or in memory), windows of 2, requests up to 3 | 83,424 | `NoTornRead`, `ReadReturnsInTime`, refinement of `ByteStream` |
| `streams` | positions 0 to 5 (`Half = 3`), 4 bytes, blocks of 2, requests of 0, 1, 3 | 42,385 | `SeekIsExact`, `ReadIsComplete`, `CopyIsFaithful`, `JumpsAreHidden`, `OneJumpIsForgiven`, `ReadReturns` |
| `chunks` | 2 sub-filter ids, blocks of 3, texts up to 3, 5 ids | 164,265 | `TextIsWhole`, `ValueHasOneOwner`, `SourceIsKnown` |
| `lookup` | 1 extension, known to 7-Zip or not, 2 filters, 2 changes, all settings, failing lookups | 892,114 | `AnswersAsDocumented`, `SameExtensionSameFilter` |
| `registration` | 2 extensions, 3 changes by others, 2 keys others add to, 3 errors at any step, any number of operations; symmetry of extensions | 393,083 | `ForeignHandlersKept`, `CanBeRepeated`, `SuccessRestores`, `AnswerIsTrue`; refinement of `Registrar` |
| `objects` | 2 threads, 3 objects, 2 references each, 2 locks; symmetry of threads and of objects | 104,746 | `CountsAreExact`, `NoUnloadWhileUsed`, `LockKeepsFactory` |
| `formats` | 2 threads, 2 descriptions, 4 files, 4 extensions; strings up to 5 characters; symmetry of threads and of descriptions | 800,898 | `FirstWins`, `OneAnswer`; `SplitsIntoWords` as an assumption TLC evaluates |
| `failed_init`, `nesting`, `held_open` | minimal | | the [disagreements](#where-the-code-and-its-documentation-disagree) |

The runs `restart`, `buffer`, `streams`, `lookup` and `registration` check the
type invariant of their modules as well; those with arithmetic or with records
that are put together have most use for it.

### Why the bounds are enough

- `restart`: 2 members are the least at which one is read while the other is
  queued, `GetStream` ends a previous task, and the two gatherers overlap.
  `ConcurrentFilterThreads = 0` lets the queue hold one task, so that the
  extractor meets a full queue with two members: the setting only shifts the
  number of members at which this happens. The default is the number of hardware
  threads; 0 is what a `DWORD` may also say. One byte distinguishes "there is
  data to wait for" from "there is none"; one chunk besides the name lets every
  chunk be first, last or missing. Two `Init`s are a restart at any point.
- `queue`: 3 members are the least at which setting + 2 = 2 could be exceeded.
- `buffer`: 4 bytes in windows of 2 give reads inside a window, over an edge, in
  another window than the one mapped, at, before and beyond the end; an append
  of up to 3 may be partial, cut by the declared size, or fail half-way.
- `streams`: positions go to 5 with 4 bytes of data, so that there is room
  beyond the end, every `Seek` with every offset and origin is taken from every
  position, and a request of 3 wraps around from position 3 on, inside the file
  as well as beyond it. Blocks of 2 make a copy of 4 bytes two blocks.
- `chunks`: text of one block, of less and, over several `GetText`s of the
  sub-filter, of more than one buffer of the host; 5 ids are enough for two
  members that use the same sub-filter ids. Ids are bounded by `MaxIds`, where
  the run stops: the only run of the passing ones without the deadlock check.
- `lookup`: extensions are looked up independently of each other, and the cache
  is per extension; two changes are enough to undo or to combine one, both
  in the middle of one lookup or one in each of two. Any step of a lookup may
  throw.
- `registration`: an operation treats every extension by itself, but all share
  one transaction and the keys below `CLSID`; with two, one is done and one is
  to come when others change either. 3 changes let a handler be set, replaced
  and removed, or 7z.dll replaced in between. Others add to one inner and one
  outer key. The errors are a plain Win32 code, one of the library's own that
  has to be converted, and one of another category.
- `held_open` needs one extension, no change of handlers, and one key into which
  others put something.
- `objects`: an aggregate, a filter and a factory at the same time, or two
  factories, of which one is locked.
- `formats`: every extension has several candidates within a file, across files
  of one directory and across directories; each file, format and listing may
  fail. Two descriptions are a member's and that of the filter inside it, or two
  members' whose names differ in case only; names have no extension for three
  different reasons.

The mutants (operators commented `Mutant:` beside the definition they change,
listed in `PROJECT.json`) show that no property holds by accident: with the
mutant in its definition's place TLC finds the property violated under the
run's own configuration. They are not part of any specification.

## Fairness

- `Filter`: weak fairness of `WindowsInside` (a thread inside a call runs), of
  the `Extractor` and of each `Gatherer`. These are operating system threads;
  7-Zip and the sub-filters are assumed to terminate, which `GetChunkReturns`
  cannot do without: the code joins them. `Extractor` as a whole may not write
  for ever since the size is bounded. Nothing makes the host call `Init`,
  `GetChunk` or `Release`. Sleeping threads are not enabled: notifications are
  not assumed but shown to come.
- `FileBuffer`: weak fairness of the reader inside `Read` only. The writer need
  not do anything: `ReadReturnsInTime` is about reads whose bytes have come.
- `Streams`: the extraction of the outer member ends one day (`Filter` shows
  that every task is told so: `TaskContract`, `AbortCannotBlock`), a read with
  its bytes there returns, a foreign stream returns from each call with any
  answer, `BridgeStream`'s own thread runs.

The other specifications have no fairness: they state safety only.

## What is proved

Every safety invariant, action property and refinement that the passing runs
check is a theorem; only liveness is not. The theorems hold for all values of
the constants under the assumptions the modules name, which TLC evaluates in the
runs:

- `ItemTaskAssumption`, `FilterAssumption`, `FileBufferAssumption`,
  `RegistrarAssumption`, `DispatchAssumption`, `CachedChunkAssumption`: the
  bounds are natural numbers; window size, block size and depth are not 0.
- `StreamsAssumption`: the offsets are those of an integer of some width
  (`2 * Half` values), and the file and the buffers fit into it.
- `RegistrationAssumption`: what is thrown makes a negative `HRESULT`.
- `ComObjectAssumption`: there are finitely many threads, and a thread may hold
  a reference.
- `FormatAssumption`, `DescriptionAssumption`, `FormatsAssumption`: the space is
  the upper or lower case of no other character; the size that stands for an
  unknown one is above the maximum; `7z.dll`, codecs and plugins are different
  files, and `Extensions` has every extension that one of them offers.

| Theorem | States | Because |
|---------|--------|---------|
| `FilterProofs!TypeCorrect` | `[]TypeOK` | every operation of a task makes a proper task (`UpdateType`, `...OpsType`) |
| `FilterProofs!GatherersAreOwned` | `[]NoOrphanGatherer` | `Ownership` |
| `FilterProofs!JoinsCannotBlock` | `[]AbortCannotBlock` | `Ownership`: only the extractor's current task has an open buffer |
| `FilterProofs!UnlockedAccessIsSafe` | `[]NoDataRace` | `Control` |
| `FilterProofs!ContractIsKept` | `[]TaskContract` | `LetGo` |
| `FilterProofs!GatherersAreBounded` | `[]ThreadBound` | `QueueBound`, `NoOrphanGatherer` and the cardinality of a queue |
| `FilterProofs!EndIsTheEnd`, `OutcomeStays` | `[]EndIsComplete`, `OutcomeIsFinal` | `Over`, `LetGo` |
| `FilterProofs!ChunksComeInOrder` | `ChunksInOrder` | `InOrder` |
| `FilterProofs!IsChunkStream` | `ImplementsStream`, if `~GetAfterFailedInit` | `InOrder`, `ReadyInv`, `LanesFacts` |
| `FileBufferProofs!TypeCorrect`, `ReadsAreWhole` | `[]TypeOK`, `[]NoTornRead` | `Written`, `WriterFits`, `ReaderFits` |
| `FileBufferProofs!IsByteStream` | `ImplementsByteStream` | these and `Promised` |
| `StreamsProofs!TypeCorrect`, `CopiesAreFaithful`, `JumpsStayHidden`, `JumpsAreForgiven`, `SeeksAreExact`, `ReadsAreComplete` | `[]TypeOK`, `[]CopyIsFaithful`, `[]JumpsAreHidden`, `[]OneJumpIsForgiven`, `SeekIsExact`, `ReadIsComplete` | `ReadInv`, `BridgeInv`, `UserInv` |
| `CachedChunkProofs!TextsAreWhole`, `ValuesHaveOneOwner`, `SourcesAreKnown` | `[]TextIsWhole`, `[]ValueHasOneOwner`, `[]SourceIsKnown` | `TextInv`, `ValueInv`, `IdInv` |
| `RegistrationProofs!TypeCorrect`, `ForeignHandlersSurvive`, `UnregisteringRestores` (of `Registrar`) | `[]TypeOK`, `[]ForeignHandlersKept`, `UnregisterRestores` | `BaseIsKept` |
| `RegistrationProofs!Implements`, `TxForeignHandlersSurvive`, `TxRestores` | `ImplementsRegistrar`, `[]ForeignHandlersKept`, `SuccessRestores` | `Agrees`: the view is the registry with the part of the operation that was made |
| `RegistrationProofs!NameIsLeftBehind` | `NameStays` | holds of every indivisible operation |
| `RegistrationProofs!TxTypeCorrect`, `Repeatable`, `AnswersAreTrue` | `[]TxTypeOK`, `[]CanBeRepeated`, `AnswerIsTrue` | `KeyInv`, `Left` |
| `DispatchProofs!TypeCorrect`, `FollowsDocumentation`, `CacheIsFinal` | `[]TypeOK`, `[]AnswersAsDocumented`, `SameExtensionSameFilter` | `Knowledge`, `HandlerFound`, `CacheAgrees` |
| `ComObjectProofs!ReferencesAreCounted`, `UnloadIsSafe`, `LockHolds` | `[]CountsAreExact`, `[]NoUnloadWhileUsed`, `[]LockKeepsFactory` | `Counted`, `Deleted`, `ObjectsCounted`, `Locked` |
| `FormatsProofs!SplitFindsWords` | `Split` gives the words of every string | induction over the string's positions |
| `FormatsProofs!FirstIsTaken`, `AnswersAgree` | `[]FirstWins`, `[]OneAnswer` | `TableInv`, `DescriptionInv` |

The inductive invariants:

- `Filter`. `NoOrphanGatherer` alone is not inductive: `RunTask` starts a
  gatherer, and that its task is in the queue is known only from where the
  extractor is. `Control` relates the current tasks to the two program counters:
  there is a current extract task while it is queued, run or ended, a current
  chunk task while `GetChunk` reads it or the abort sequence joins it.
  `Ownership` says what the joins rest on: a task with a gatherer was started
  and has a buffer, which is open only if it is the extractor's current task; a
  task about to be run can be reached by the host; the extractor has no task
  before it makes one and after it finishes; it is off once it was joined, and
  ended once `extractionFinished` is set. Both are kept by every step; the proof
  has one step per action. `LetGo` says of each task what has been done to it
  when both sides have let go of it: `TaskContract` alone does not know of a
  task that is still queued that its extraction ended. `QueueBound` is the
  length of the queue (the setting plus one, for `GetStream` compares before it
  pushes); every running gatherer is in it or is being read. `Over` is what the
  answers of `GetChunk` have found out once and for all: the extractor has
  ended, no task is left, no failure is pending.
- The order of the chunks. `ChunksInOrder` speaks of two chunks delivered one
  after the other and says nothing of those that wait. `Lined`: the chunks that
  wait are the last ones the sub-filter gave, in its order, so that the next one
  is the number of those already taken (`Given`). `InQueue`: the queue is in the
  archive's order, behind the current member and what was delivered, nothing was
  taken from a queued member, and 7-Zip's next member comes after all of them.
  `Handed`: what was delivered last is the chunk before the current member's
  next one, or belongs to a member that had nothing left. What threads do in the
  background `Advances` a task, which keeps all this.
- The refinement of `ChunkStream`. `Line` is the current member and the queue;
  `LanesFacts` describes `Lanes` by it. Each action either leaves the lanes
  alone, changes one (`LaneChanges`: no member is twice in the line), adds one
  at the end (`LaneJoins`) or removes the first (`LaneLeaves`), and that is what
  one step of `ChunkStream` does. That a gatherer's chunk is the next of its
  lane even when the lane is empty needs `Follows`. `ReadyInv` says that tasks
  are queued only after an `Init` that succeeded. It is where
  `~GetAfterFailedInit` is needed: after a failed `Init`, `GetChunk` may answer
  with the end of the extraction before, although no stream has been started.
- `FileBuffer`. Bytes below `position`, and those the `Append` under way has
  written beyond it, are final (`Written`); the `Append` stays within the
  declared size, and the file pointer is where it should be (`WriterFits`); what
  a `Read` has still to copy was published before it left the lock
  (`ReaderFits`). Hence a copy outside the lock meets final bytes only. For the
  refinement of `ByteStream`, whose reads are indivisible, `Promised` says how
  many bytes a `Read` will return from the moment it left the lock: all it was
  asked for, or all there will ever be. The abstract append happens at the
  commit, the abstract read when the last range is copied.
- `Streams`. `ReadInv`: what a `Read` or `CopyTo` under way has copied is what
  is between where it began and the position. `BridgeInv`: where the host's
  stream is at each step of a `Read` (`Placed`), what the buffer of 7-Zip holds
  (`Known`), and how many jumps were met (`Jumped`); `UserInv`: over a
  `ReadStream` there are none. `SeeksAreExact` is the arithmetic of unsigned
  positions and signed offsets for every width.
- `CachedChunk`. `TextInv`: how far the copy is, and how far the host has read;
  `ValueInv`: who has the value; `IdInv`: what the id map knows is a chunk that
  was handed out, of the same member.
- `ComObject`. `CountsAreExact` is not inductive: that an object is used only
  while it is alive, and that only one thread deletes it, depend on each other.
  `Counted` has the number of `References` and its consequences, `Deleted` who
  deletes: the thread that took the last reference, and no other;
  `ObjectsCounted` compares the objects alive with their count, `Locked` the
  lock count with the locked factory.
- `Formats`. `TableInv`: what has been read so far is a part of all that is
  offered in the order of the files (`InOrder`), and the table is the first of
  each extension in it. `DescriptionInv`: a cache that is valid has the
  extension of the description's name in lower case, and where each thread is
  inside `GetExtension` says what is in it before. `SplitFindsWords` is about a
  function defined by recursion over all strings. The library's induction
  theorems take an operator, so the module has one of its own about sets of
  numbers (`Induction`), from the pigeonhole principle.
- `Registrar` (first part of `RegistrationProofs`). `base` keeps the handler of
  others as long as it is in place, and where they have none and did not
  overwrite ours, neither a null handler nor its note is there (`BaseIsKept`),
  next to `ForeignHandlersKept` itself.
- `Registration`. That a commit is an operation of `Registrar` needs to know
  what the view is at every step: of an extension that was not opened it is the
  registry's, of one that was it is what the indivisible operation would make of
  the registry's, and likewise for our values (`AgreesOn`, `OurValues`), unless
  others changed what was opened (`doomed`). Every step keeps it, so that the
  commit does all of the operation and a failure nothing; `TxStep` has both the
  invariant and the refinement of each step, and what is proved of `Registrar`
  holds of `Registration`. `KeyInv` has what `Registrar` does not: a key or
  value of ours is below keys of ours, in the registry and in the view
  (`HasParents`); as long as the transaction is not doomed, the keys it has not
  opened are those of the registry (`KeysSeen`); and an `UnregisterServer` that
  has deleted everything so far has left none of the keys it has passed
  (`Gone`); a key without its values, in the registry or in the view, is one
  that others keep alive (`MissingAreHeld`). `Left` is the other half of the
  answer: if not everything was deleted, a key is still there. Hence what it
  answers is true, and a second call meets no key of ours without its values but
  those others keep alive.
- `Dispatch`. The documentation describes one moment, the lookup takes up to six
  steps. `Knowledge` says what each step has established: each part of it was so
  at some moment since the lookup began (`seen`), which a later change does not
  alter; `HandlerFound` that an addin is looked up of a
  handler only. `CacheAgrees` relates an answer to the cache.

Only model-checked, and why: the liveness properties `GetChunkReturns`,
`AbortReturns`, `ReadReturnsInTime` and `ReadReturns`, since TLAPS proves
nothing under fairness and nothing about `ENABLED`. `SplitsIntoWords`, which TLC
evaluates for strings of up to 5 characters, is the theorem `SplitFindsWords`
for all strings. That `Filter` implements `ChunkStream` is proved, as it is
checked, for hosts that do not call `GetChunk` after a failed `Init`; the other
theorems about `Filter` hold for these as well.

## Where the code and its documentation disagree

- `failed_init`: the comment in `Filter::Init` (`src/com/Filter.cpp:114`) says
  that `IFilter::Get*` can be called even after a failure. After an `Init` that
  fails before an extraction ever ended, `GetChunk` sleeps for ever: the queue
  is empty, `extractionFinished` is false, and no extractor is there to set it.
  (`GetAfterFailedInit` is FALSE in the other runs: they show the rest for hosts
  that do not do so.)
- The theorem `NameIsLeftBehind`: `UnregisterServer` says `unregister persistent
  handler` (`src/com/Registrar.cpp:302`) but never deletes the name
  `RegisterServer` gave that key, so that the key stays and the result is
  `S_FALSE`.
- `held_open`: a key that stays is a result and no error (`not everything got
  removed`, `src/com/Registrar.cpp:115`). But the values of such a key are
  deleted. If others keep something in `InprocServer32`, the first
  `UnregisterServer` commits, answers `S_FALSE` and leaves the keys `Filter` and
  `InprocServer32` without values; every later one throws at
  `src/com/Registrar.cpp:318` and fails until the filter is registered again.
  `CanBeRepeated` shows that nothing else leads there.
- `nesting`: `README.md:48` says that `RecursionDepthLimit` limits the
  recursion; the depth is handed to nested filters without being counted up
  (`src/com/ItemTask.cpp:137`), so that a limit of 1 or more limits nothing.
- `README.md:35` calls `ConcurrentFilterThreads` the number of contained files
  scanned simultaneously. `queue` shows the bound the code does keep: the
  setting plus two.

## What is not modelled

- What a chunk's text or value contains, locales, break types and full property
  specifications: nothing depends on them.
- Methods of `Filter` that only return a constant, such as `E_NOTIMPL`.
- `FilterAttributes`: a copy of `Init`'s arguments that is handed on unchanged.
  The times of a `FileDescription`, which are only copied.
- A host's stream whose `Stat` gives no name: `src/com/FileDescription.cpp:140`
  dereferences it. `HostStats` have names.
- In `src/native`: the loops that enlarge a buffer until a string or a path
  fits, GUIDs as text, handles, and `PROPVARIANT`s, which appear as who owns the
  value. Transactions, keys and values are in `Registration`, error codes in
  `Errors`; elsewhere a native call is part of the action that makes it, and may
  fail.
- 7-Zip, the sub-filters, the host and what Windows promises of transactions are
  external; their behaviour is what `src/` assumes of them, failures included.
- Unloading the library while `~Filter` still joins its threads: `ComObject` has
  the step between the decrement of the object count and the destruction, but
  the repository says nothing about what an unload there would be.
- The installer, a declarative package.

## Plan

The core came first: `ItemTask` and `Filter` with `ChunkStream`, then the
buffer between the threads (`FileBuffer` with `ByteStream`), dispatch and
registration, streams, chunks, COM objects and formats. Then the registration
step by step with what it promises as its abstraction, descriptions among
threads, the stream of a `Filter`, and lookups that fail. What is left:

1. Model: the composition of `CachedChunk` with `ItemTask`, several chunks at a
   time, with the id map between gatherer and `GetChunk`.
2. Model: what an unload of the library between the decrement of the object
   count and the destruction of a `Filter` would meet, should the code come to
   promise something about it.

## Working with the project

Every `MC` module extends a specification, with definitions TLC needs for its
constants where there are any; the configurations give the constants' values.
`tlc -config Restart.cfg MCFilter` runs one; `tlapm FilterProofs.tla` checks the
proofs of a module. `PROJECT.json` lists the runs with their configurations, the
mutants, the theorems and the lines of the code behind each definition.
