----------------------------- MODULE Registrar ------------------------------
(***************************************************************************)
(* The registration of iFilter4Archives: the effect of RegisterServer and  *)
(* UnregisterServer in src/com/Registrar.cpp, among other installers that  *)
(* change the same registry keys.                                          *)
(*                                                                         *)
(* For every extension 7z.dll knows, the filter becomes the persistent     *)
(* handler, unless another one is registered; that it took the place of    *)
(* the null handler is remembered in the value HasNullFilter.  This is     *)
(* what both operations promise: they happen at once, or not at all.       *)
(* Module Registration shows how they do it.                               *)
(***************************************************************************)
EXTENDS Naturals

CONSTANTS
    Extensions,  \* file name extensions
    MaxChanges   \* bound on what others change

ASSUME RegistrarAssumption == MaxChanges \in Nat

VARIABLES
    formats,  \* the extensions of the formats of the 7z.dll that is present
    extKey,   \* the key .<ext>, apart from its subkey PersistentHandler
    handler,  \* the default value of .<ext>\PersistentHandler
    hasNull,  \* is there the value .<ext>\PersistentHandler\HasNullFilter
    clsid,    \* our values below SOFTWARE\Classes\CLSID
    base,     \* history: what others registered for the extension
    changes   \* changes made by others so far

vars == << formats, extKey, handler, hasNull, clsid, base, changes >>

\* "absent": no such key; "unset": a key without default value; "text": a
\* default value that is no GUID; the others are handlers.
Foreign == {"unset", "text", "null", "other"}
IsGuid(h) == h \in {"null", "ours", "other"}

HandlerValues == {"handler name", "filter addin"}
FilterValues == {"filter name", "server path", "threading model"}

\* "none": others have no handler, "gone": nor have they any longer, but they
\* overwrote ours without the note that it had replaced the null handler.
Bases == {"none", "gone", "null", "other"}

\* Every variable has its type, and no key outlives its parent.
TypeOK ==
    /\ formats \in SUBSET Extensions
    /\ extKey \in [Extensions -> {"absent", "empty", "used"}]
    /\ handler \in [Extensions -> Foreign \cup {"absent", "ours"}]
    /\ hasNull \in [Extensions -> BOOLEAN]
    /\ clsid \in SUBSET (HandlerValues \cup FilterValues)
    /\ base \in [Extensions -> Bases]
    /\ changes \in 0 .. MaxChanges
    /\ \A e \in Extensions :
           /\ handler[e] # "absent" => extKey[e] # "absent"
           /\ hasNull[e] => handler[e] # "absent"

\* Before us some extensions have handlers, others have not.
Init ==
    /\ formats \in SUBSET Extensions
    /\ extKey \in [Extensions -> {"absent", "used"}]
    /\ handler \in [Extensions -> {"absent", "null", "other"}]
    /\ \A e \in Extensions : extKey[e] = "absent" => handler[e] = "absent"
    /\ hasNull = [e \in Extensions |-> FALSE]
    /\ clsid = {}
    /\ base = [e \in Extensions |->
                 IF IsGuid(handler[e]) THEN handler[e] ELSE "none"]
    /\ changes = 0

\* create_sub_key: a key that is already there is left alone.
Created(key) == IF key = "absent" THEN "empty" ELSE key

-----------------------------------------------------------------------------
\* Existing handlers are not overridden, unless it is the null filter.
Takes(e) == e \in formats /\ (IsGuid(handler[e]) => handler[e] = "null")

RegisterServer ==
    /\ clsid' = clsid \cup HandlerValues \cup FilterValues
    /\ extKey' = [e \in Extensions |->
                    IF e \in formats THEN Created(extKey[e]) ELSE extKey[e]]
    /\ hasNull' = [e \in Extensions |->
                     hasNull[e] \/ (Takes(e) /\ handler[e] = "null")]
    /\ handler' = [e \in Extensions |->
                     IF Takes(e) THEN "ours" ELSE handler[e]]
    /\ UNCHANGED << formats, base, changes >>

\* Our handler is deleted, or the null handler it had replaced put back.
Restored(e) ==
    IF handler[e] # "ours" THEN handler[e]
    ELSE IF hasNull[e] THEN "null" ELSE "unset"

\* What is left of the handler: its key is deleted once it is empty.
Remaining(e) ==
    IF e \notin formats THEN handler[e]
    ELSE IF Restored(e) = "unset" THEN "absent"
    ELSE Restored(e)

\* The extension's key is deleted if nothing else is in it.
DeletesKey(e) ==
    e \in formats /\ extKey[e] = "empty" /\ Remaining(e) = "absent"

\* Clean up the handler of each format and the keys that are empty then;
\* delete our values and the empty keys below CLSID.  The persistent
\* handler's key keeps its name, and so remains.
UnregisterServer ==
    /\ handler' = [e \in Extensions |-> Remaining(e)]
    /\ hasNull' = [e \in Extensions |-> hasNull[e] /\ e \notin formats]
    /\ extKey' = [e \in Extensions |->
                    IF DeletesKey(e) THEN "absent" ELSE extKey[e]]
    /\ clsid' = clsid \ (FilterValues \cup {"filter addin"})
    /\ UNCHANGED << formats, base, changes >>

-----------------------------------------------------------------------------
(* Other installers.                                                       *)

Change == changes < MaxChanges /\ changes' = changes + 1

\* Someone writes or deletes the handler of an extension.
SetsHandler(e, h) ==
    /\ Change
    /\ extKey' = [extKey EXCEPT ![e] = Created(@)]
    /\ handler' = [handler EXCEPT ![e] = h]
    /\ base' = [base EXCEPT ![e] = IF IsGuid(h) THEN h
                                   ELSE IF hasNull[e] THEN "gone" ELSE "none"]
    /\ UNCHANGED << formats, hasNull, clsid >>

\* Someone deletes the key PersistentHandler.
DeletesHandler(e) ==
    /\ Change
    /\ handler[e] # "absent"
    /\ handler' = [handler EXCEPT ![e] = "absent"]
    /\ hasNull' = [hasNull EXCEPT ![e] = FALSE]
    /\ base' = [base EXCEPT ![e] = "none"]
    /\ UNCHANGED << formats, extKey, clsid >>

\* 7z.dll is replaced with a version that knows other formats.
Replaces7Zip ==
    /\ Change
    /\ formats' \in SUBSET Extensions
    /\ UNCHANGED << extKey, handler, hasNull, clsid, base >>

Next ==
    \/ RegisterServer
    \/ UnregisterServer
    \/ \E e \in Extensions, h \in Foreign : SetsHandler(e, h)
    \/ \E e \in Extensions : DeletesHandler(e)
    \/ Replaces7Zip

Spec == Init /\ [][Next]_vars

-----------------------------------------------------------------------------
\* Whatever sequence of registrations and foreign installations there was, a
\* handler others registered is still in effect, or it is the null handler
\* and what is needed to put it back has not been lost.
ForeignHandlersKept ==
    \A e \in Extensions :
        /\ base[e] = "other" => handler[e] = "other"
        /\ base[e] = "null" =>
               handler[e] = "null" \/ (handler[e] = "ours" /\ hasNull[e])

\* The handler others registered is back; where there was none, there is none
\* again but text that is no GUID, and no empty key either.  A null handler
\* that nobody had registered any longer comes back in one case only: others
\* overwrote our handler and left the note, HasNullFilter, in the key.
Restores(e) ==
    /\ base[e] \in {"null", "other"} => handler'[e] = base[e]
    /\ base[e] = "none" => handler'[e] \in {"absent", "text"}
    /\ base[e] = "gone" => handler'[e] \in {"absent", "text", "null"}
    /\ handler'[e] = "absent" => extKey'[e] # "empty"

\* UnregisterServer leaves none of the present formats to the filter.
UnregisterRestores ==
    [][UnregisterServer => \A e \in formats : Restores(e)]_vars
=============================================================================
