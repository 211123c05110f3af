---------------------------- MODULE Registration ----------------------------
(***************************************************************************)
(* RegisterServer and UnregisterServer (src/com/Registrar.cpp) key by key, *)
(* in the transaction they run in (src/native/win32.cpp) and with the      *)
(* registry functions they use (src/native/registry.cpp).                  *)
(*                                                                         *)
(* Module Registrar is what they promise: each happens at once.  Here the  *)
(* writes are made one after the other in the transaction's view of the    *)
(* registry, every call may throw, and others change the registry under    *)
(* way.  The variables of Registrar are the registry that everybody sees.  *)
(* Windows rolls a transaction back if others change a key it has opened.  *)
(***************************************************************************)
EXTENDS Registrar, Errors

CONSTANTS
    Thrown,  \* what the functions that are called may throw
    Shared   \* our keys into which others put something

ASSUME RegistrationAssumption ==
  \A thrown \in Thrown : HResult(thrown) \in Int /\ HResult(thrown) < 0

VARIABLES
    keys,               \* our keys below SOFTWARE\Classes\CLSID
    extra,              \* those into which others have put something
    op,                 \* the operation that runs
    at,                 \* the part of it that is next
    todo,               \* extensions it has not come to
    view,               \* the registry in the transaction
    doomed,             \* others have changed a key the transaction opened
    everythingDeleted,
    answer              \* what the last operation returned

transaction == << op, at, todo, view, doomed, everythingDeleted, answer >>
txVars == << vars, keys, extra, transaction >>

HandlerKeys == {"PersistentHandler", "PersistentAddinsRegistered", "IFilter"}
FilterKeys == {"Filter", "InprocServer32"}
Keys == HandlerKeys \cup FilterKeys

Parent == [IFilter |-> "PersistentAddinsRegistered",
           PersistentAddinsRegistered |-> "PersistentHandler",
           InprocServer32 |-> "Filter"]

\* The values the transaction writes into each key.
Values ==
    [PersistentHandler |-> {"handler name"}, PersistentAddinsRegistered |-> {},
     IFilter |-> {"filter addin"}, Filter |-> {"filter name"},
     InprocServer32 |-> {"server path", "threading model"}]

Registry == [extKey |-> extKey, handler |-> handler, hasNull |-> hasNull,
             clsid |-> clsid, keys |-> keys]

\* Every variable has its type, and our keys have their parents.
TxTypeOK ==
    /\ TypeOK
    /\ keys \subseteq Keys /\ extra \subseteq keys
    /\ \A k \in keys \cap DOMAIN Parent : Parent[k] \in keys
    /\ \A k \in Keys : Values[k] \cap clsid # {} => k \in keys
    /\ op \in {"none", "RegisterServer", "UnregisterServer"}
    /\ at \in {"extensions", "persistent handler", "filter handler", "commit"}
    /\ todo \subseteq formats
    /\ {doomed, everythingDeleted} \subseteq BOOLEAN
    /\ answer \in {S_OK, S_FALSE} \cup {HResult(thrown) : thrown \in Thrown}

TxInit ==
    /\ Init
    /\ keys = {} /\ extra = {}
    /\ op = "none" /\ at = "commit" /\ todo = {}
    /\ view = Registry
    /\ doomed = FALSE /\ everythingDeleted = TRUE
    /\ answer = S_OK

-----------------------------------------------------------------------------
(* Registry keys in the transaction, v is its view.                        *)

\* registry_key::empty
IsEmpty(v, k) ==
    /\ Values[k] \cap v.clsid = {} /\ k \notin extra
    /\ \A c \in DOMAIN Parent : Parent[c] = k => c \notin v.keys

\* Mutant: a key is deleted with all that is in it.
DeleteTree(v, k) == [v EXCEPT !.keys = @ \ {k}]

\* Mutant: a key is deleted if nothing was to be cleaned up.
DeleteUncleaned(v, k) == IF k \in v.keys THEN v ELSE [v EXCEPT !.keys = @ \ {k}]

\* CleanupAndDeleteIfEmpty after the cleanup; a key that has gone stays away.
DeleteIfEmpty(v, k) ==
    IF IsEmpty(v, k) THEN [v EXCEPT !.keys = @ \ {k}] ELSE v

\* delete_value throws for a value that is missing; a key that is missing is
\* left out, and so is SOFTWARE\Classes\CLSID with all of ours.
IsMissing(v, deleted) == \E k \in deleted \cap v.keys : ~(Values[k] \subseteq v.clsid)

\* The values of these keys are created or deleted with their keys.
Create(v, created) ==
    [v EXCEPT !.keys = @ \cup created,
              !.clsid = @ \cup UNION {Values[k] : k \in created}]

DeleteValues(v, deleted) ==
    [v EXCEPT !.clsid = @ \ UNION {Values[k] : k \in deleted}]

-----------------------------------------------------------------------------
(* RegisterServer: the filter, the persistent handler, the extensions.     *)

Works(o, part) == op = o /\ at = part /\ ~doomed

Proceed(part, v, all) ==
    /\ at' = part
    /\ view' = v
    /\ everythingDeleted' = all
    /\ UNCHANGED << vars, keys, extra, op, doomed, answer >>

\* The transaction is made; without one the operation fails at once.  The
\* formats are those of the 7z.dll that is loaded now.
BeginTransaction(o) ==
    /\ op = "none"
    /\ op' = o
    /\ at' = IF o = "RegisterServer" THEN "filter handler" ELSE "extensions"
    /\ todo' = formats
    /\ view' = Registry
    /\ answer' = S_OK
    /\ UNCHANGED << vars, keys, extra, doomed, everythingDeleted >>

RegisterFilter ==
    /\ Works("RegisterServer", "filter handler")
    /\ Proceed("persistent handler", Create(view, FilterKeys), TRUE)
    /\ UNCHANGED todo

RegisterHandler ==
    /\ Works("RegisterServer", "persistent handler")
    /\ Proceed("extensions", Create(view, HandlerKeys), TRUE)
    /\ UNCHANGED todo

\* create_sub_key: a key that is already there is only opened.
Opened(key, new) == IF key = "absent" THEN new ELSE key

\* Mutant: the null handler is not overridden either.
TakenUnlessNull(v, e) ==
    IF IsGuid(v.handler[e]) THEN v ELSE [v EXCEPT !.handler[e] = "ours"]

\* Mutant: the null handler is replaced without a note.
TakenUnnoted(v, e) ==
    IF IsGuid(v.handler[e]) /\ v.handler[e] # "null" THEN v
    ELSE [v EXCEPT !.handler[e] = "ours"]

\* Existing handlers are not overridden, the null filter is noted.
Taken(v, e) ==
    IF ~IsGuid(v.handler[e]) THEN [v EXCEPT !.handler[e] = "ours"]
    ELSE IF v.handler[e] = "null"
           THEN [v EXCEPT !.handler[e] = "ours", !.hasNull[e] = TRUE]
    ELSE v

RegisterExtension(e) ==
    /\ Works("RegisterServer", "extensions")
    /\ e \in todo
    /\ todo' = todo \ {e}
    /\ Proceed(at, Taken([view EXCEPT !.extKey[e] = Opened(@, "empty"),
                                      !.handler[e] = Opened(@, "unset")], e), TRUE)

-----------------------------------------------------------------------------
(* UnregisterServer: the extensions, the persistent handler, the filter.   *)

\* Mutant: HasNullFilter is looked for when it is deleted already.
CleanedFirst(v, e) ==
    [v EXCEPT !.hasNull[e] = FALSE,
              !.handler[e] = IF @ = "ours" THEN "unset" ELSE @]

\* The cleanup of .<ext>\PersistentHandler; only our handler is deleted.
Cleaned(v, e) ==
    [v EXCEPT !.hasNull[e] = FALSE,
              !.handler[e] = IF @ # "ours" THEN @
                             ELSE IF v.hasNull[e] THEN "null" ELSE "unset"]

\* The keys .<ext>\PersistentHandler and .<ext> are deleted if they are empty.
DeleteExtension(v, e) ==
    IF v.handler[e] \notin {"absent", "unset"} THEN v
    ELSE [v EXCEPT !.handler[e] = "absent",
                   !.extKey[e] = IF @ = "empty" THEN "absent" ELSE @]

IsDeleted(v, e) == v.handler[e] = "absent"

\* Without SOFTWARE\Classes, where all these keys are, everything is fine.
FindsNoClasses ==
    /\ Works("UnregisterServer", "extensions") /\ todo = formats
    /\ view.keys = {} /\ \A e \in Extensions : view.extKey[e] = "absent"

UnregisterExtension(e) ==
    LET new == DeleteExtension(Cleaned(view, e), e)
    IN /\ Works("UnregisterServer", "extensions")
       /\ e \in todo
       /\ todo' = todo \ {e}
       /\ Proceed(at, new, everythingDeleted /\ IsDeleted(new, e))

UnregisterHandler ==
    LET new == DeleteIfEmpty(
                 DeleteIfEmpty(
                   DeleteIfEmpty(DeleteValues(view, {"IFilter"}), "IFilter"),
                   "PersistentAddinsRegistered"), "PersistentHandler")
    IN /\ Works("UnregisterServer", "extensions") /\ todo = {}
       /\ ~IsMissing(view, {"IFilter"})
       /\ Proceed("filter handler", new,
                  everythingDeleted /\ "PersistentHandler" \notin new.keys)
       /\ UNCHANGED todo

UnregisterFilter ==
    LET new == DeleteIfEmpty(
                 DeleteIfEmpty(DeleteValues(view, FilterKeys), "InprocServer32"),
                 "Filter")
    IN /\ Works("UnregisterServer", "filter handler")
       /\ ~IsMissing(view, FilterKeys)
       /\ Proceed("commit", new, everythingDeleted /\ "Filter" \notin new.keys)
       /\ UNCHANGED todo

-----------------------------------------------------------------------------
(* How both end.                                                           *)

End(hr) ==
    /\ op' = "none"
    /\ answer' = hr
    /\ at' = "commit" /\ todo' = {}
    /\ view' = Registry'
    /\ doomed' = FALSE /\ everythingDeleted' = TRUE
    /\ UNCHANGED << extra, formats, base, changes >>

\* The view becomes the registry, all at once.
Commit ==
    /\ op # "none" /\ todo = {} /\ ~doomed
    /\ at = IF op = "RegisterServer" THEN "extensions" ELSE "commit"
    /\ extKey' = view.extKey /\ handler' = view.handler
    /\ hasNull' = view.hasNull /\ clsid' = view.clsid /\ keys' = view.keys
    /\ End(IF everythingDeleted THEN S_OK ELSE S_FALSE)

\* The transaction is closed without a commit; there is nothing in it.
ReturnEarly ==
    /\ FindsNoClasses
    /\ UNCHANGED << extKey, handler, hasNull, clsid, keys >>
    /\ End(S_OK)

\* Mutant: the extensions' keys are not opened in the transaction.
ThrowLeaves(thrown) ==
    /\ op # "none"
    /\ extKey' = view.extKey /\ handler' = view.handler
    /\ hasNull' = view.hasNull
    /\ UNCHANGED << clsid, keys >>
    /\ End(HResult(thrown))

\* Any call throws, a doomed transaction's next one certainly; its handle is
\* closed without a commit, and the registry is as it was.
Throw(thrown) ==
    /\ op # "none"
    /\ UNCHANGED << extKey, handler, hasNull, clsid, keys >>
    /\ End(HResult(thrown))

Step ==
    \/ RegisterFilter \/ RegisterHandler
    \/ UnregisterHandler \/ UnregisterFilter
    \/ \E e \in Extensions : RegisterExtension(e) \/ UnregisterExtension(e)
    \/ Commit
    \/ ReturnEarly
    \/ \E thrown \in Thrown : Throw(thrown)

-----------------------------------------------------------------------------
(* Other installers.                                                       *)

\* They change what belongs to e; the transaction sees it unless it has
\* opened the key.
IsOpened(e) == op # "none" /\ e \in formats \ todo

Sees(e) ==
    /\ IF ~IsOpened(e)
         THEN /\ view' = [view EXCEPT !.extKey[e] = extKey'[e],
                                      !.handler[e] = handler'[e],
                                      !.hasNull[e] = hasNull'[e]]
              /\ UNCHANGED doomed
         ELSE doomed' = TRUE /\ UNCHANGED view
    /\ UNCHANGED << keys, extra, op, at, todo, everythingDeleted, answer >>

OthersChange ==
    \/ \E e \in Extensions, h \in Foreign : SetsHandler(e, h) /\ Sees(e)
    \/ \E e \in Extensions : DeletesHandler(e) /\ Sees(e)

\* The keys below CLSID that the transaction has opened.
OpenedKeys ==
    CASE op = "RegisterServer" /\ at = "persistent handler" -> FilterKeys
      [] op = "RegisterServer" /\ at = "extensions" -> Keys
      [] op = "UnregisterServer" /\ at = "filter handler" -> HandlerKeys
      [] op = "UnregisterServer" /\ at = "commit" -> Keys
      [] OTHER -> {}

\* Something is put into one of our keys: a value or a key of its own.
AddsTo(k) ==
    /\ k \in (keys \cap Shared) \ extra
    /\ extra' = extra \cup {k}
    /\ doomed' = (doomed \/ k \in OpenedKeys)
    /\ UNCHANGED << vars, keys, op, at, todo, view, everythingDeleted, answer >>

\* The file of a library that is loaded cannot be replaced.
ReplacesLibrary ==
    /\ op = "none"
    /\ Replaces7Zip
    /\ UNCHANGED << keys, extra, transaction >>

TxNext ==
    \/ \E o \in {"RegisterServer", "UnregisterServer"} : BeginTransaction(o)
    \/ Step
    \/ OthersChange
    \/ \E k \in Keys : AddsTo(k)
    \/ ReplacesLibrary

TxSpec == TxInit /\ [][TxNext]_txVars

-----------------------------------------------------------------------------
\* Step by step in a transaction, interrupted by failures and by others, the
\* two operations are the indivisible ones of Registrar: what is committed is
\* what one operation would have done to the registry at that moment, and a
\* failure at any step leaves nothing behind.
ImplementsRegistrar == Spec

\* After an UnregisterServer that succeeded, none of the formats is left to
\* the filter, and what others had registered is back.
SuccessRestores ==
    [][op = "UnregisterServer" /\ op' = "none" /\ ~Failed(answer') =>
         \A e \in formats : Restores(e)]_txVars

\* What regsvr32 is told is true.  Success of RegisterServer: the filter is
\* complete and every format has a handler that is not the null one.  S_OK of
\* UnregisterServer: nothing of ours is left; S_FALSE: one of the keys it had
\* to clean up is still there.  A failure: nothing was done.
AnswerIsTrue ==
    [][op # "none" /\ op' = "none" =>
         /\ Failed(answer') => Registry' = Registry
         /\ op = "RegisterServer" /\ ~Failed(answer') =>
                /\ clsid' = HandlerValues \cup FilterValues
                /\ \A e \in formats : handler'[e] \in {"ours", "other"}
         /\ op = "UnregisterServer" /\ answer' = S_OK =>
                /\ keys' = {} /\ clsid' = {}
                /\ \A e \in formats : handler'[e] # "ours" /\ ~hasNull'[e]
         /\ op = "UnregisterServer" /\ answer' = S_FALSE =>
                keys' # {} \/ \E e \in formats : handler'[e] # "absent"]_txVars

\* The keys whose values UnregisterServer deletes.
Required == {"IFilter"} \cup FilterKeys

\* Others keep k alive: they have put something into it or a key below it.
HeldOpen(k) ==
    k \in extra \/ \E c \in extra \cap DOMAIN Parent : Parent[c] = k

\* UnregisterServer can be repeated, before, after and between registrations:
\* a key of ours whose values are missing, for which it would fail again and
\* again, is one that others keep alive.  (There it does fail: see below.)
CanBeRepeated ==
    \A k \in Required : IsMissing(Registry, {k}) => HeldOpen(k)

\* The comment in CleanupAndDeleteIfEmpty: that not everything got removed is
\* a result, no error.  So UnregisterServer never comes to a key whose values
\* it has deleted before.  (It does, and throws from then on: the values of a
\* key in which others keep something go, the key stays.)
LeftoversAreNoError ==
    op = "UnregisterServer" =>
        /\ at = "extensions" /\ todo = {} => ~IsMissing(view, {"IFilter"})
        /\ at = "filter handler" => ~IsMissing(view, FilterKeys)
=============================================================================
