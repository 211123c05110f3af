--------------------------- MODULE FileDescription ---------------------------
(***************************************************************************)
(* com::FileDescription (src/com/FileDescription.cpp): what is known of a  *)
(* file, from an item of an archive or from a stream.  Its copies share    *)
(* one object, with a mutex under which the first who needs the extension  *)
(* works it out in place; the others are given a reference to it and use   *)
(* it without the mutex.                                                   *)
(*                                                                         *)
(* A description is made by GetStream for a member, by Init for the        *)
(* host's stream, and by the Init of a Filter inside another one for the   *)
(* member it is to read, whose ReadStream has the description of the outer *)
(* Filter for its Stat.  Times are left out: they are only copied.         *)
(***************************************************************************)
EXTENDS Format

CONSTANTS
    Threads,          \* the host's, the extractors' and the gatherers'
    Objects,          \* FileDescription::impl, as many as there are at once
    Items,            \* what archives say of their items: [path, isDir, size]
    HostStats,        \* what the host's streams say of themselves: [name, size]
    MaximumFileSize,  \* the setting
    MAXULONGLONG,     \* the size that stands for an unknown one
    None              \* not there, or a property of another type

Dot == "."
Separator == "\\"
Null == "0"  \* the null terminator

Names == Seq(STRING)

Descriptions ==
    [name : Names, isDirectory : BOOLEAN, size : Nat, sizeIsValid : BOOLEAN,
     cache : Names, valid : BOOLEAN]

ASSUME DescriptionAssumption ==
    /\ MaximumFileSize \in Nat /\ MAXULONGLONG \in Nat
    /\ MaximumFileSize < MAXULONGLONG
    /\ Null \in STRING
    /\ Items \subseteq [path : {None} \cup Names, isDir : {None} \cup BOOLEAN,
                        size : {None} \cup Nat]
    /\ HostStats \subseteq [name : Names, size : Nat]
    /\ None \notin Threads \cup Objects \cup Descriptions

VARIABLES
    description,  \* the objects, None if there is none
    mutex,        \* extensionCacheMutex: the thread that has it
    call          \* what each thread is about to do with the extension

descriptionVars == << description, mutex, call >>

Idle == [step |-> "idle", of |-> None, format |-> None]

DescriptionInit ==
    /\ description = [o \in Objects |-> None]
    /\ mutex = [o \in Objects |-> None]
    /\ call = [t \in Threads |-> Idle]

At(t, step) == call[t].step = step
Of(t) == call[t].of

-----------------------------------------------------------------------------
(* Making descriptions.                                                    *)

\* GetPropertyFromArchiveItem's extractors.
PropertyOr(value, default) == IF value = None THEN default ELSE value

New(name, isDirectory, size, sizeIsValid) ==
    [name |-> name, isDirectory |-> isDirectory, size |-> size,
     sizeIsValid |-> sizeIsValid, cache |-> << >>, valid |-> FALSE]

FromArchiveItem(item) ==
    LET size == PropertyOr(item.size, MAXULONGLONG)
    IN New(PropertyOr(item.path, << >>), PropertyOr(item.isDir, FALSE),
           size, size # MAXULONGLONG)

\* The stream has a name: a STATSTG without one is not looked for.
FromIStream(stat) == New(stat.name, FALSE, stat.size, TRUE)

\* ToStat, into a STATSTG that ReadStream::Stat has cleared.
ToStat(d) == [name |-> d.name, size |-> IF d.sizeIsValid THEN d.size ELSE 0]

\* ItemTask::Run's preliminary checks.
IsRefused(d) ==
    d.isDirectory \/ ~d.sizeIsValid \/ d.size > MaximumFileSize

Make(t, o, d) ==
    /\ At(t, "idle")
    /\ description[o] = None
    /\ description' = [description EXCEPT ![o] = d]
    /\ call' = [call EXCEPT ![t] =
                   [Idle EXCEPT !.step = "enter", !.of = o]]
    /\ UNCHANGED mutex

\* GetStream makes a task and runs it, unless it refuses the member.
Member(t, o) ==
    \E item \in Items :
        LET d == FromArchiveItem(item) IN ~IsRefused(d) /\ Make(t, o, d)

\* Init opens the host's stream, or, inside another Filter, a ReadStream.
Opened(t, o) == \E stat \in HostStats : Make(t, o, FromIStream(stat))

OpenedInside(t, o, m) ==
    description[m] # None /\ Make(t, o, FromIStream(ToStat(description[m])))

\* Another copy of a description is asked for its extension.
Asked(t, o) ==
    /\ At(t, "idle")
    /\ description[o] # None
    /\ call' = [call EXCEPT ![t] = [Idle EXCEPT !.step = "enter", !.of = o]]
    /\ UNCHANGED << description, mutex >>

\* The last copy of a description is dropped.
Dropped(o) ==
    /\ description[o] # None
    /\ \A t \in Threads : Of(t) # o
    /\ description' = [description EXCEPT ![o] = None]
    /\ UNCHANGED << mutex, call >>

-----------------------------------------------------------------------------
(* GetExtension.                                                           *)

\* std::filesystem::path::extension: from the last dot of the file's name,
\* unless the name begins with it.
PathExtension(name) ==
    LET ends == {k \in DOMAIN name : name[k] = Separator}
        file == SubSeq(name, (IF ends = {} THEN 0 ELSE Max(ends)) + 1, Len(name))
        dots == {k \in DOMAIN file : file[k] = Dot}
    IN IF dots = {} \/ dots = {1} \/ file = << Dot, Dot >>
         THEN << >> ELSE SubSeq(file, Max(dots), Len(file))

\* Mutant: what is in the cache is taken for the extension.
IsNotEmpty(o) == description[o].cache # << >>

IsValid(o) == description[o].valid

GoTo(t, step) == call' = [call EXCEPT ![t].step = step]

Fill(o, cache) == description' = [description EXCEPT ![o].cache = cache]

\* The extension is there, or is assigned with a null terminator.
Enter(t) ==
    /\ At(t, "enter")
    /\ mutex[Of(t)] = None
    /\ IF IsValid(Of(t))
         THEN GoTo(t, "has") /\ UNCHANGED << description, mutex >>
         ELSE /\ mutex' = [mutex EXCEPT ![Of(t)] = t]
              /\ Fill(Of(t), Append(PathExtension(description[Of(t)].name), Null))
              /\ GoTo(t, "lower")

LowerIt(t) ==
    /\ At(t, "lower")
    /\ Fill(Of(t), Lower(description[Of(t)].cache))
    /\ GoTo(t, "trim")
    /\ UNCHANGED mutex

Trim(t) ==
    /\ At(t, "trim")
    /\ LET cache == description[Of(t)].cache IN
       description' = [description EXCEPT
           ![Of(t)].cache = SubSeq(cache, 1, Len(cache) - 1), ![Of(t)].valid = TRUE]
    /\ mutex' = [mutex EXCEPT ![Of(t)] = None]
    /\ GoTo(t, "has")

\* An allocation or _wcslwr_s fails: the cache is as it was, or assigned but
\* not terminated, or terminated but not in lower case.
ExtensionFails(t) ==
    /\ \/ /\ At(t, "enter")
          /\ mutex[Of(t)] = None /\ ~IsValid(Of(t))
          /\ UNCHANGED << description, mutex >>
       \/ /\ At(t, "lower")
          /\ \/ Fill(Of(t), PathExtension(description[Of(t)].name))
             \/ UNCHANGED description
          /\ mutex' = [mutex EXCEPT ![Of(t)] = None]
    /\ call' = [call EXCEPT ![t] = Idle]

GetExtension(t) == Enter(t) \/ LowerIt(t) \/ Trim(t) \/ ExtensionFails(t)

Describes(t) ==
    \E o \in Objects : \/ Member(t, o) \/ Opened(t, o)
                       \/ \E m \in Objects : OpenedInside(t, o, m)
                       \/ Asked(t, o)

\* The reference GetExtension returned, as it is read now.
Reference(t) == description[Of(t)].cache
=============================================================================
