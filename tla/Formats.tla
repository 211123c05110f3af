------------------------------ MODULE Formats ------------------------------
(***************************************************************************)
(* archive::Factory (src/archive/Factory.cpp): the one table of formats,   *)
(* built by the first thread that needs it out of 7z.dll and of what lies  *)
(* in the directories codecs and formats.                                  *)
(*                                                                         *)
(* GetInstance is a function-local static: one thread constructs it while  *)
(* the others wait, and if the constructor throws the next one tries       *)
(* again.  A file or a format that cannot be read is skipped, but without  *)
(* 7z.dll or with a directory that cannot be listed there is no table.     *)
(* A call has a FileDescription and asks for the format of its extension:  *)
(* CreateArchiveFromExtension for Init, IsKnownExtension for FindClsid.    *)
(***************************************************************************)
EXTENDS FileDescription

CONSTANTS
    Extensions,  \* the empty one included, without their dots
    Main,        \* 7z.dll
    Codecs,      \* the files in the directory codecs
    Plugins,     \* the files in the directory formats
    Offers       \* [file -> sequence of the strings of extensions, one of each
                 \* format], as module MCFormats chooses it

Files == {Main} \cup Codecs \cup Plugins

ASSUME FormatsAssumption ==
    /\ Main \notin Codecs \cup Plugins /\ Codecs \cap Plugins = {}
    /\ Offers \in [Files -> Seq(Seq(Characters))]
    /\ \A f \in Files : \A i \in DOMAIN Offers[f] :
           Words(Lower(Offers[f][i])) \subseteq Extensions

VARIABLES
    made,     \* the static instance exists
    builder,  \* the thread that constructs it
    left,     \* files it has not come to
    file,     \* the Module it reads, None between two
    index,    \* the next format of it
    formats,  \* Formats: [file, index] for an extension
    offered   \* history: what could be read, as [file, index, ext]

tableVars == << made, builder, left, file, index, formats, offered >>
vars == << descriptionVars, tableVars >>

NoFormat == [file |-> None, index |-> 0]
FormatOf(f, i) == [file |-> f, index |-> i]

Init ==
    /\ made = FALSE
    /\ builder = None
    /\ left = {} /\ file = None /\ index = 0
    /\ formats = [e \in Extensions |-> NoFormat]
    /\ offered = {}
    /\ DescriptionInit

Describe(t) == (Describes(t) \/ GetExtension(t)) /\ UNCHANGED tableVars

IsMissing == ~made

\* GetInstance: nobody has made or is making it.
Begin(t) ==
    /\ At(t, "has")
    /\ IsMissing /\ builder = None
    /\ builder' = t
    /\ made' = FALSE
    /\ left' = Files /\ file' = None
    /\ formats' = [e \in Extensions |-> NoFormat]
    /\ offered' = {}
    /\ UNCHANGED << index, descriptionVars >>

\* The order: 7z.dll, codecs, formats; a directory is listed in any order.
Stage(f) == IF f = Main THEN 1 ELSE IF f \in Codecs THEN 2 ELSE 3

IsNext(f) ==
    /\ builder # None /\ file = None
    /\ f \in left /\ \A g \in left : Stage(f) <= Stage(g)

\* LoadModule: the file is a library with the functions that are needed.
Open(f) ==
    /\ IsNext(f)
    /\ file' = f /\ index' = 1
    /\ left' = left \ {f}
    /\ UNCHANGED << made, builder, formats, offered, descriptionVars >>

\* It is not; LoadAllModules ignores that.
Skip(f) ==
    /\ IsNext(f)
    /\ f # Main
    /\ left' = left \ {f}
    /\ UNCHANGED << made, builder, file, index, formats, offered, descriptionVars >>

\* 7z.dll is not, or the directory of f cannot be listed: Factory() throws.
\* The call fails, the next one begins anew.
Throw(f) ==
    /\ IsNext(f)
    /\ call' = [call EXCEPT ![builder] = Idle]
    /\ builder' = None
    /\ UNCHANGED << made, left, file, index, formats, offered, description, mutex >>

\* Mutant: the last format that offers an extension has it.
TakesAll(e, exts) == IF e \in exts THEN FormatOf(file, index) ELSE formats[e]

\* An extension goes to the first format that offers it.
Taken(e, exts) ==
    IF e \in exts /\ formats[e] = NoFormat THEN FormatOf(file, index)
                                           ELSE formats[e]

\* One format of the file; one that fails has none or some of its extensions
\* in the table.
ReadFormat ==
    /\ file # None /\ index <= Len(Offers[file])
    /\ \E missed \in SUBSET FormatExtensions(Offers[file][index]) :
          /\ formats' = [e \in Extensions |->
                 Taken(e, FormatExtensions(Offers[file][index]) \ missed)]
          /\ offered' = offered \cup
                 {[file |-> file, index |-> index, ext |-> e] :
                      e \in Words(Lower(Offers[file][index])) \ missed}
    /\ index' = index + 1
    /\ UNCHANGED << made, builder, left, file, descriptionVars >>

\* The Module has no more formats.
Close ==
    /\ file # None /\ index > Len(Offers[file])
    /\ file' = None
    /\ UNCHANGED << made, builder, left, index, formats, offered, descriptionVars >>

\* Factory() returns.
Finish ==
    /\ builder # None /\ file = None /\ left = {}
    /\ made' = TRUE
    /\ builder' = None
    /\ UNCHANGED << left, file, index, formats, offered, descriptionVars >>

\* formats.find, which IsKnownExtension repeats: a key is a dot and an
\* extension.
Find(key) ==
    IF key # << >> /\ Tail(key) \in Extensions THEN formats[Tail(key)] ELSE NoFormat

\* The call has the format, or fails with FILTER_E_UNKNOWNFORMAT.
Answer(t) ==
    /\ At(t, "has")
    /\ made
    /\ call' = [call EXCEPT ![t].step = "answered", ![t].format = Find(Reference(t))]
    /\ UNCHANGED << description, mutex, tableVars >>

\* It returns.
Return(t) ==
    /\ At(t, "answered")
    /\ call' = [call EXCEPT ![t] = Idle]
    /\ UNCHANGED << description, mutex, tableVars >>

Drop == (\E o \in Objects : Dropped(o)) /\ UNCHANGED tableVars

Next ==
    \/ \E t \in Threads : Describe(t) \/ Begin(t) \/ Answer(t) \/ Return(t)
    \/ \E f \in Files : Open(f) \/ Skip(f) \/ Throw(f)
    \/ ReadFormat \/ Close \/ Finish \/ Drop

Spec == Init /\ [][Next]_vars

-----------------------------------------------------------------------------
\* Who has an extension does not depend on luck: 7z.dll before codecs before
\* formats, in a file the format with the lower index, and none only if no
\* format that could be read offers it, whatever failed on the way and
\* however often the table was begun; nor does a format lose an extension, or
\* get all the files without one, if its string has spaces too many.
FirstWins ==
    made => \A e \in Extensions :
        LET for == {o \in offered : o.ext = e}
        IN IF for = {} THEN formats[e] = NoFormat
           ELSE \E o \in for :
                  /\ formats[e] = FormatOf(o.file, o.index)
                  /\ \A p \in for : /\ Stage(o.file) <= Stage(p.file)
                                    /\ o.file = p.file => o.index <= p.index

\* Every call gets the format its file's name asks for, whatever the case of
\* its letters, by whichever of the threads and copies, out of the finished
\* table, and whatever failed before: a call that worked the extension out,
\* one that built the table, or one that shares either with it.
OneAnswer ==
    \A t \in Threads :
        At(t, "answered") =>
            /\ made
            /\ call[t].format = Find(Lower(PathExtension(description[Of(t)].name)))
=============================================================================
