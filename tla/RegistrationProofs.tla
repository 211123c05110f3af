------------------------- MODULE RegistrationProofs -------------------------
(***************************************************************************)
(* For any set of extensions, any failures and any number of changes by    *)
(* others.                                                                 *)
(*                                                                         *)
(* First module Registrar, where an operation is one step: the registry    *)
(* keeps its shape, and foreign handlers are never lost.  The invariants   *)
(* are inductive together: an operation treats each extension by itself.   *)
(*                                                                         *)
(* Then module Registration: its operations, made step by step in a        *)
(* transaction, are the indivisible ones.  Hence what is proved of those   *)
(* holds of these.  As long as nobody has changed a key the transaction    *)
(* has opened, its view is the registry with that part of the operation    *)
(* applied that has been made (Agrees); so the commit applies all of it.   *)
(*                                                                         *)
(* Last what Registrar does not have: our keys below CLSID, which may not  *)
(* be deleted with something in them, and the answers (KeyInv).            *)
(***************************************************************************)
EXTENDS Registration, TLAPS

-----------------------------------------------------------------------------
(* The indivisible operations.                                             *)

\* base does keep the handlers others registered, and the null handler has no
\* trace where they had none.
BaseIsKept ==
    \A e \in Extensions :
        /\ handler[e] = "other" => base[e] = "other"
        /\ base[e] = "none" => ~hasNull[e] /\ handler[e] # "null"

\* The inductive invariant.
IInv == TypeOK /\ ForeignHandlersKept /\ BaseIsKept

\* Before the first registration nothing is ours, and base is what is there.
LEMMA InitInv == Init => IInv
  BY RegistrarAssumption
     DEF Init, IInv, TypeOK, ForeignHandlersKept, BaseIsKept, Foreign, Bases, IsGuid

\* RegisterServer takes free extensions and those of the null handler, which
\* it notes in HasNullFilter.
LEMMA RegisterInv == IInv /\ RegisterServer => IInv'
<1> SUFFICES ASSUME IInv, RegisterServer PROVE IInv'
  OBVIOUS
<1> USE DEF IInv, TypeOK, RegisterServer, Takes, IsGuid, Foreign
<1>1. TypeOK'
  BY DEF Created
<1>2. ForeignHandlersKept'
  BY DEF ForeignHandlersKept
<1>3. BaseIsKept'
  BY DEF BaseIsKept
<1> QED BY <1>1, <1>2, <1>3

\* UnregisterServer gives back what was taken, or leaves it as it was with
\* its note if the format is unknown now.
LEMMA UnregisterInv == IInv /\ UnregisterServer => IInv'
<1> SUFFICES ASSUME IInv, UnregisterServer PROVE IInv'
  OBVIOUS
<1> USE DEF IInv, TypeOK, UnregisterServer, Remaining, Restored, Foreign
<1>1. TypeOK'
  BY DEF DeletesKey
<1>2. ForeignHandlersKept'
  BY DEF ForeignHandlersKept
<1>3. BaseIsKept'
  BY DEF BaseIsKept
<1> QED BY <1>1, <1>2, <1>3

\* What others do changes base along with the handler.
LEMMA ChangesInv ==
  ASSUME IInv, \/ \E e \in Extensions, h \in Foreign : SetsHandler(e, h)
               \/ \E e \in Extensions : DeletesHandler(e)
               \/ Replaces7Zip
  PROVE  IInv'
<1> USE DEF IInv, TypeOK, ForeignHandlersKept, BaseIsKept, Foreign,
            Bases, Change
<1>0. MaxChanges \in Nat
  BY RegistrarAssumption
<1>1. ASSUME NEW e \in Extensions, NEW h \in Foreign, SetsHandler(e, h)
      PROVE  IInv'
  BY <1>0, <1>1 DEF SetsHandler, IsGuid, Created
<1>2. ASSUME NEW e \in Extensions, DeletesHandler(e) PROVE IInv'
  BY <1>0, <1>2 DEF DeletesHandler
<1>3. CASE Replaces7Zip
  BY <1>0, <1>3 DEF Replaces7Zip
<1> QED BY <1>1, <1>2, <1>3

\* Every step keeps the invariant.
LEMMA StepInv == IInv /\ [Next]_vars => IInv'
<1> SUFFICES ASSUME IInv, [Next]_vars PROVE IInv'
  OBVIOUS
<1>1. CASE UNCHANGED vars
  BY <1>1 DEF IInv, TypeOK, ForeignHandlersKept, BaseIsKept, vars
<1> QED BY <1>1, RegisterInv, UnregisterInv, ChangesInv DEF Next

\* The invariant holds from the first registration on.
THEOREM Invariance == Spec => []IInv
  BY InitInv, StepInv, PTL DEF Spec

\* The registry keeps its shape: no key outlives its parent, whatever
\* RegisterServer and UnregisterServer create and delete.
THEOREM TypeCorrect == Spec => []TypeOK
  BY Invariance, PTL DEF IInv

\* RegisterServer and UnregisterServer never lose a handler that other
\* software has registered: it is in effect, or the null handler set aside.
THEOREM ForeignHandlersSurvive == Spec => []ForeignHandlersKept
  BY Invariance, PTL DEF IInv

\* Handlers of others are back in place of ours, and nothing empty remains.
LEMMA UnregisterRestoresAll ==
  IInv /\ UnregisterServer => \A e \in formats : Restores(e)
<1> SUFFICES ASSUME IInv, UnregisterServer, NEW e \in formats PROVE Restores(e)
  OBVIOUS
<1> USE DEF IInv, TypeOK, ForeignHandlersKept, BaseIsKept, UnregisterServer, Foreign
<1>1. e \in Extensions
  OBVIOUS
<1>2. base[e] \in {"null", "other"} => handler'[e] = base[e]
  BY <1>1 DEF Remaining, Restored
<1>3. handler'[e] = "absent" => extKey'[e] # "empty"
  BY <1>1 DEF DeletesKey
<1>4. handler'[e] \in {"absent", "text", "null", "other"}
  BY <1>1 DEF Remaining, Restored
<1>5. base[e] \notin {"null", "other"} => handler'[e] \in {"absent", "text", "null"}
  BY <1>1, <1>4 DEF Remaining, Restored
<1>6. base[e] = "none" => handler'[e] # "null"
  BY <1>1 DEF Remaining, Restored
<1> QED BY <1>2, <1>3, <1>5, <1>6 DEF Restores

\* UnregisterServer puts the registrations of the present formats back.
THEOREM UnregisteringRestores == Spec => UnregisterRestores
<1>1. IInv /\ [Next]_vars =>
        [UnregisterServer => \A e \in formats : Restores(e)]_vars
  BY UnregisterRestoresAll
<1> QED BY <1>1, Invariance, PTL DEF Spec, UnregisterRestores

-----------------------------------------------------------------------------
(* The operations in a transaction.                                        *)

\* What the registry, and so the view of it, may be.
Registries == [extKey : [Extensions -> {"absent", "empty", "used"}],
               handler : [Extensions -> Foreign \cup {"absent", "ours"}],
               hasNull : [Extensions -> BOOLEAN],
               clsid : SUBSET (HandlerValues \cup FilterValues),
               keys : SUBSET Keys]

\* Where the operation is.
Control ==
    /\ keys \subseteq Keys
    /\ op \in {"none", "RegisterServer", "UnregisterServer"}
    /\ op = "RegisterServer" =>
           at \in {"filter handler", "persistent handler", "extensions"}
    /\ op = "UnregisterServer" =>
           at \in {"extensions", "filter handler", "commit"}
    /\ op = "none" => todo = {} /\ ~doomed
    /\ op = "UnregisterServer" /\ at # "extensions" => todo = {}
    /\ op = "RegisterServer" /\ at # "extensions" => todo = formats
    /\ todo \subseteq formats

\* What the view has of an extension: the registry's, with the operation
\* applied if that was done.
AgreesOn(e) ==
    IF ~IsOpened(e)
      THEN /\ view.extKey[e] = extKey[e]
           /\ view.handler[e] = handler[e]
           /\ view.hasNull[e] = hasNull[e]
    ELSE IF op = "RegisterServer"
      THEN /\ view.extKey[e] = Created(extKey[e])
           /\ view.handler[e] = IF Takes(e) THEN "ours" ELSE handler[e]
           /\ view.hasNull[e] = (hasNull[e] \/ (Takes(e) /\ handler[e] = "null"))
    ELSE /\ view.extKey[e] = IF DeletesKey(e) THEN "absent" ELSE extKey[e]
         /\ view.handler[e] = Remaining(e)
         /\ view.hasNull[e] = FALSE

\* What it has of our values.
OurValues ==
    CASE op = "RegisterServer" /\ at = "persistent handler" -> clsid \cup FilterValues
      [] op = "RegisterServer" /\ at = "extensions" ->
             clsid \cup HandlerValues \cup FilterValues
      [] op = "UnregisterServer" /\ at = "filter handler" -> clsid \ {"filter addin"}
      [] op = "UnregisterServer" /\ at = "commit" ->
             clsid \ (FilterValues \cup {"filter addin"})
      [] OTHER -> clsid

Agrees ==
    ~doomed => /\ \A e \in Extensions : AgreesOn(e)
               /\ view.clsid = OurValues

\* The inductive invariant.
TxInv == TypeOK /\ view \in Registries /\ Control /\ Agrees

\* What Registry is made of.
LEMMA RegistryType ==
  ASSUME TypeOK, keys \subseteq Keys
  PROVE  /\ Registry \in Registries
         /\ Registry.extKey = extKey /\ Registry.handler = handler
         /\ Registry.hasNull = hasNull /\ Registry.clsid = clsid
         /\ Registry.keys = keys
  BY DEF TypeOK, Registry, Registries

\* The values that are written and deleted with keys.
Written(ks) == UNION {Values[k] : k \in ks}

LEMMA ValuesOfKeys ==
  /\ Written(FilterKeys) = FilterValues
  /\ Written(HandlerKeys) = HandlerValues
  /\ Written({"IFilter"}) = {"filter addin"}
<1>1. /\ Values["PersistentHandler"] = {"handler name"}
      /\ Values["PersistentAddinsRegistered"] = {}
      /\ Values["IFilter"] = {"filter addin"}
      /\ Values["Filter"] = {"filter name"}
      /\ Values["InprocServer32"] = {"server path", "threading model"}
  BY DEF Values
<1>2. Written(FilterKeys) = FilterValues
  <2>1. Written(FilterKeys) = Values["Filter"] \cup Values["InprocServer32"]
    BY DEF FilterKeys, Written
  <2> QED BY <1>1, <2>1 DEF FilterValues
<1>3. Written(HandlerKeys) = HandlerValues
  <2>1. Written(HandlerKeys) = Values["PersistentHandler"] \cup
          Values["PersistentAddinsRegistered"] \cup Values["IFilter"]
    BY DEF HandlerKeys, Written
  <2> QED BY <1>1, <2>1 DEF HandlerValues
<1>4. Written({"IFilter"}) = {"filter addin"}
  BY <1>1 DEF Written
<1> QED BY <1>2, <1>3, <1>4

\* Writing and deleting values, and cleaning up keys, leave the extensions
\* alone.
LEMMA CreateKeeps ==
  ASSUME NEW v \in Registries, NEW created \in {FilterKeys, HandlerKeys}
  PROVE  LET new == Create(v, created)
         IN /\ new \in Registries
            /\ new.extKey = v.extKey /\ new.handler = v.handler
            /\ new.hasNull = v.hasNull
            /\ new.clsid = v.clsid \cup Written(created)
<1>1. created \subseteq Keys
  BY DEF Keys
<1>2. Written(created) \subseteq HandlerValues \cup FilterValues
  BY ValuesOfKeys
<1>3. v.clsid \cup Written(created) \in SUBSET (HandlerValues \cup FilterValues)
  BY <1>2 DEF Registries
<1>4. v.keys \cup created \in SUBSET Keys
  BY <1>1 DEF Registries
<1>5. Create(v, created) = [v EXCEPT !.keys = @ \cup created, !.clsid = @ \cup Written(created)]
  BY DEF Create, Written
<1>6. /\ Create(v, created) \in Registries
      /\ Create(v, created).extKey = v.extKey
      /\ Create(v, created).handler = v.handler
      /\ Create(v, created).hasNull = v.hasNull
      /\ Create(v, created).clsid = v.clsid \cup Written(created)
  BY <1>3, <1>4, <1>5 DEF Registries
<1> QED BY <1>6

LEMMA DeleteKeeps ==
  ASSUME NEW v \in Registries, NEW deleted
  PROVE  LET new == DeleteValues(v, deleted)
         IN /\ new \in Registries
            /\ new.extKey = v.extKey /\ new.handler = v.handler
            /\ new.hasNull = v.hasNull
            /\ new.clsid = v.clsid \ Written(deleted)
<1>1. DeleteValues(v, deleted) = [v EXCEPT !.clsid = @ \ Written(deleted)]
  BY DEF DeleteValues, Written
<1>2. /\ DeleteValues(v, deleted) \in Registries
      /\ DeleteValues(v, deleted).extKey = v.extKey
      /\ DeleteValues(v, deleted).handler = v.handler
      /\ DeleteValues(v, deleted).hasNull = v.hasNull
      /\ DeleteValues(v, deleted).clsid = v.clsid \ Written(deleted)
  BY <1>1 DEF Registries
<1> QED BY <1>2

LEMMA CleanUpKeeps ==
  ASSUME NEW v \in Registries, NEW k
  PROVE  LET new == DeleteIfEmpty(v, k)
         IN /\ new \in Registries
            /\ new.extKey = v.extKey /\ new.handler = v.handler
            /\ new.hasNull = v.hasNull /\ new.clsid = v.clsid
  BY DEF DeleteIfEmpty, Registries

-----------------------------------------------------------------------------
(* The steps of an operation.                                              *)

\* Nothing is registered yet, and no operation runs.
LEMMA TxInitInv == TxInit => TxInv
<1> SUFFICES ASSUME TxInit PROVE TxInv
  OBVIOUS
<1>1. TypeOK
  BY InitInv DEF TxInit, IInv
<1>2. Control
  BY <1>1 DEF TxInit, Control, TypeOK
<1>3. view \in Registries /\ Agrees
  BY <1>1, <1>2, RegistryType
     DEF TxInit, Control, Agrees, AgreesOn, IsOpened, OurValues
<1> QED BY <1>1, <1>2, <1>3 DEF TxInv

\* A transaction begins with the registry as it is.
LEMMA BeginInv ==
  ASSUME TxInv, NEW o \in {"RegisterServer", "UnregisterServer"}, BeginTransaction(o)
  PROVE  TxInv'
<1> USE DEF BeginTransaction, vars
<1>1. TypeOK'
  BY DEF TxInv, TypeOK
<1>2. Control'
  BY DEF TxInv, Control
<1>3. /\ view' \in Registries
      /\ view'.extKey = extKey /\ view'.handler = handler
      /\ view'.hasNull = hasNull /\ view'.clsid = clsid
  BY RegistryType DEF TxInv, Control
<1>4. Agrees'
  <2>1. \A e \in Extensions : AgreesOn(e)'
    BY <1>3 DEF AgreesOn, IsOpened
  <2>2. OurValues' = clsid
    BY DEF OurValues
  <2> QED BY <1>3, <2>1, <2>2 DEF Agrees
<1> QED BY <1>1, <1>2, <1>3, <1>4 DEF TxInv

\* The keys and values of the filter and of the persistent handler: the
\* extensions stay as they are.
LEMMA OursInv ==
  ASSUME TxInv,
         RegisterFilter \/ RegisterHandler \/ UnregisterHandler \/ UnregisterFilter
  PROVE  TxInv'
<1> USE DEF Works, Proceed, vars
<1>a. ~doomed /\ ~doomed' /\ UNCHANGED << vars, keys, op, todo >>
  <2>1. CASE RegisterFilter
    BY <2>1 DEF RegisterFilter
  <2>2. CASE RegisterHandler
    BY <2>2 DEF RegisterHandler
  <2>3. CASE UnregisterHandler
    BY <2>3 DEF UnregisterHandler
  <2>4. CASE UnregisterFilter
    BY <2>4 DEF UnregisterFilter
  <2> QED BY <2>1, <2>2, <2>3, <2>4
<1>b. TypeOK' /\ view \in Registries
  BY <1>a DEF TxInv, TypeOK
<1>0. /\ TypeOK' /\ ~doomed /\ ~doomed' /\ view \in Registries
      /\ UNCHANGED << vars, keys, op, todo >>
  BY <1>a, <1>b
<1>1. Control'
  BY <1>0
     DEF TxInv, Control, RegisterFilter, RegisterHandler, UnregisterHandler,
         UnregisterFilter
<1>2. /\ view' \in Registries
      /\ view'.extKey = view.extKey /\ view'.handler = view.handler
      /\ view'.hasNull = view.hasNull
      /\ view'.clsid = OurValues'
  <2>0. view.clsid = OurValues /\ clsid' = clsid
    BY <1>0 DEF TxInv, Agrees
  <2>1. CASE RegisterFilter
    <3>1. view' = Create(view, FilterKeys)
      BY <2>1 DEF RegisterFilter
    <3>2. OurValues = clsid /\ OurValues' = clsid \cup FilterValues
      BY <2>1, <1>0 DEF RegisterFilter, OurValues
    <3> QED BY <1>0, <2>0, <3>1, <3>2, CreateKeeps, ValuesOfKeys
  <2>2. CASE RegisterHandler
    <3>1. view' = Create(view, HandlerKeys)
      BY <2>2 DEF RegisterHandler
    <3>2. /\ OurValues = clsid \cup FilterValues
          /\ OurValues' = clsid \cup HandlerValues \cup FilterValues
      BY <2>2, <1>0 DEF RegisterHandler, OurValues
    <3> QED BY <1>0, <2>0, <3>1, <3>2, CreateKeeps, ValuesOfKeys
  <2>3. CASE UnregisterHandler
    <3> DEFINE v1 == DeleteValues(view, {"IFilter"})
               v2 == DeleteIfEmpty(v1, "IFilter")
               v3 == DeleteIfEmpty(v2, "PersistentAddinsRegistered")
    <3>1. view' = DeleteIfEmpty(v3, "PersistentHandler")
      BY <2>3 DEF UnregisterHandler
    <3>a. /\ v1 \in Registries
          /\ v1.extKey = view.extKey /\ v1.handler = view.handler
          /\ v1.hasNull = view.hasNull /\ v1.clsid = view.clsid \ {"filter addin"}
      BY <1>0, DeleteKeeps, ValuesOfKeys
    <3> HIDE DEF v1
    <3>b. /\ v2 \in Registries
          /\ v2.extKey = v1.extKey /\ v2.handler = v1.handler
          /\ v2.hasNull = v1.hasNull /\ v2.clsid = v1.clsid
      BY <3>a, CleanUpKeeps
    <3> HIDE DEF v2
    <3>c. /\ v3 \in Registries
          /\ v3.extKey = v2.extKey /\ v3.handler = v2.handler
          /\ v3.hasNull = v2.hasNull /\ v3.clsid = v2.clsid
      BY <3>b, CleanUpKeeps
    <3> HIDE DEF v3
    <3>d. /\ view' \in Registries
          /\ view'.extKey = v3.extKey /\ view'.handler = v3.handler
          /\ view'.hasNull = v3.hasNull /\ view'.clsid = v3.clsid
      BY <3>1, <3>c, CleanUpKeeps
    <3>2. OurValues = clsid /\ OurValues' = clsid \ {"filter addin"}
      BY <2>3, <1>0 DEF UnregisterHandler, OurValues
    <3> QED BY <2>0, <3>2, <3>a, <3>b, <3>c, <3>d
  <2>4. CASE UnregisterFilter
    <3> DEFINE v1 == DeleteValues(view, FilterKeys)
               v2 == DeleteIfEmpty(v1, "InprocServer32")
    <3>1. view' = DeleteIfEmpty(v2, "Filter")
      BY <2>4 DEF UnregisterFilter
    <3>a. /\ v1 \in Registries
          /\ v1.extKey = view.extKey /\ v1.handler = view.handler
          /\ v1.hasNull = view.hasNull /\ v1.clsid = view.clsid \ FilterValues
      BY <1>0, DeleteKeeps, ValuesOfKeys
    <3> HIDE DEF v1
    <3>b. /\ v2 \in Registries
          /\ v2.extKey = v1.extKey /\ v2.handler = v1.handler
          /\ v2.hasNull = v1.hasNull /\ v2.clsid = v1.clsid
      BY <3>a, CleanUpKeeps
    <3> HIDE DEF v2
    <3>d. /\ view' \in Registries
          /\ view'.extKey = v2.extKey /\ view'.handler = v2.handler
          /\ view'.hasNull = v2.hasNull /\ view'.clsid = v2.clsid
      BY <3>1, <3>b, CleanUpKeeps
    <3>2. /\ OurValues = clsid \ {"filter addin"}
          /\ OurValues' = clsid \ (FilterValues \cup {"filter addin"})
      BY <2>4, <1>0 DEF UnregisterFilter, OurValues
    <3> QED BY <2>0, <3>2, <3>a, <3>b, <3>d
  <2> QED BY <2>1, <2>2, <2>3, <2>4
<1>3. Agrees'
  <2>1. ASSUME NEW e \in Extensions PROVE AgreesOn(e)'
    <3>1. AgreesOn(e)
      BY <1>0 DEF TxInv, Agrees
    <3> QED BY <1>0, <1>2, <3>1
        DEF AgreesOn, IsOpened, Takes, DeletesKey, Remaining, Restored
  <2> QED BY <1>2, <2>1 DEF Agrees
<1> QED BY <1>0, <1>1, <1>2, <1>3 DEF TxInv

\* An extension is registered.
LEMMA RegisterExtensionInv ==
  ASSUME TxInv, NEW e \in Extensions, RegisterExtension(e) PROVE TxInv'
<1> USE DEF RegisterExtension, Works, Proceed, vars
<1>0. /\ TypeOK' /\ ~doomed /\ ~doomed' /\ view \in Registries
      /\ op = "RegisterServer" /\ at = "extensions" /\ e \in todo
      /\ e \in formats /\ ~IsOpened(e)
      /\ UNCHANGED << vars, keys, op, at >> /\ todo' = todo \ {e}
  BY DEF TxInv, TypeOK, Control, IsOpened
<1>1. Control'
  BY <1>0 DEF TxInv, Control
<1>2. AgreesOn(e)
  BY <1>0 DEF TxInv, Agrees
<1> DEFINE opened == [view EXCEPT !.extKey[e] = Opened(@, "empty"),
                                  !.handler[e] = Opened(@, "unset")]
<1>3. /\ opened \in Registries
      /\ opened.extKey = [view.extKey EXCEPT ![e] = Created(extKey[e])]
      /\ opened.handler = [view.handler EXCEPT ![e] = Opened(handler[e], "unset")]
      /\ opened.hasNull = view.hasNull /\ opened.clsid = view.clsid
  BY <1>0, <1>2
     DEF Registries, AgreesOn, Opened, Created, TypeOK, TxInv, Foreign
<1> HIDE DEF opened
<1>4. view' = Taken(opened, e)
  BY <1>0 DEF opened
<1>5. /\ opened.handler[e] = Opened(handler[e], "unset")
      /\ opened.hasNull[e] = hasNull[e]
      /\ handler[e] \in Foreign \cup {"absent", "ours"} /\ hasNull[e] \in BOOLEAN
  BY <1>0, <1>2, <1>3 DEF Registries, AgreesOn, TxInv, TypeOK
<1>6. /\ view' \in Registries
      /\ view'.extKey = opened.extKey /\ view'.clsid = view.clsid
      /\ view'.handler = [opened.handler EXCEPT ![e] =
                             IF Takes(e) THEN "ours" ELSE handler[e]]
      /\ view'.hasNull = [opened.hasNull EXCEPT ![e] =
                             hasNull[e] \/ (Takes(e) /\ handler[e] = "null")]
  <2>1. CASE ~IsGuid(opened.handler[e])
    <3>1. view' = [opened EXCEPT !.handler[e] = "ours"]
      BY <1>4, <2>1 DEF Taken
    <3>2. Takes(e) /\ handler[e] # "null"
      BY <1>0, <1>5, <2>1 DEF Takes, IsGuid, Opened, Foreign
    <3> QED BY <1>3, <1>5, <3>1, <3>2 DEF Registries
  <2>2. CASE opened.handler[e] = "null"
    <3>1. view' = [opened EXCEPT !.handler[e] = "ours", !.hasNull[e] = TRUE]
      BY <1>4, <2>2 DEF Taken, IsGuid
    <3>2. Takes(e) /\ handler[e] = "null"
      BY <1>0, <1>5, <2>2 DEF Takes, IsGuid, Opened, Foreign
    <3>3. (hasNull[e] \/ (Takes(e) /\ handler[e] = "null")) = TRUE
      BY <3>2
    <3> DEFINE h == [opened.handler EXCEPT ![e] = "ours"]
               n == [opened.hasNull EXCEPT ![e] = TRUE]
    <3>a. /\ h \in [Extensions -> Foreign \cup {"absent", "ours"}]
          /\ n \in [Extensions -> BOOLEAN]
      BY <1>3 DEF Registries
    <3>b. view' = [opened EXCEPT !.handler = h, !.hasNull = n]
      BY <1>3, <3>1 DEF Registries
    <3> HIDE DEF h, n
    <3>c. /\ view' \in Registries /\ view'.extKey = opened.extKey
          /\ view'.clsid = opened.clsid /\ view'.handler = h /\ view'.hasNull = n
      BY <1>3, <3>a, <3>b DEF Registries
    <3>4. /\ view' \in Registries
          /\ view'.extKey = opened.extKey /\ view'.clsid = view.clsid
          /\ view'.handler = [opened.handler EXCEPT ![e] = "ours"]
          /\ view'.hasNull = [opened.hasNull EXCEPT ![e] = TRUE]
      BY <1>3, <3>c DEF h, n
    <3> QED BY <3>2, <3>3, <3>4
  <2>3. CASE IsGuid(opened.handler[e]) /\ opened.handler[e] # "null"
    <3>1. view' = opened
      BY <1>4, <2>3 DEF Taken
    <3>2. ~Takes(e) /\ opened.handler[e] = handler[e]
      BY <1>0, <1>5, <2>3 DEF Takes, IsGuid, Opened, Foreign
    <3> QED BY <1>3, <1>5, <3>1, <3>2 DEF Registries
  <2> QED BY <2>1, <2>2, <2>3
<1>7. AgreesOn(e)'
  <2>1. IsOpened(e)' /\ op' = "RegisterServer"
    BY <1>0 DEF IsOpened
  <2>2. /\ view'.extKey[e] = Created(extKey[e])
        /\ view'.handler[e] = IF Takes(e) THEN "ours" ELSE handler[e]
        /\ view'.hasNull[e] = (hasNull[e] \/ (Takes(e) /\ handler[e] = "null"))
    BY <1>0, <1>3, <1>6 DEF Registries
  <2> QED BY <1>0, <2>1, <2>2 DEF AgreesOn, Takes
<1>8. ASSUME NEW d \in Extensions, d # e PROVE AgreesOn(d)'
  <2>1. AgreesOn(d)
    BY <1>0 DEF TxInv, Agrees
  <2>2. /\ view'.extKey[d] = view.extKey[d]
        /\ view'.handler[d] = view.handler[d]
        /\ view'.hasNull[d] = view.hasNull[d]
    BY <1>0, <1>3, <1>6, <1>8 DEF Registries
  <2>3. IsOpened(d)' <=> IsOpened(d)
    BY <1>0, <1>8 DEF IsOpened
  <2> QED BY <1>0, <2>1, <2>2, <2>3 DEF AgreesOn, Takes, DeletesKey, Remaining, Restored
<1>9. view'.clsid = OurValues'
  BY <1>0, <1>6 DEF TxInv, Agrees, OurValues
<1> QED BY <1>0, <1>1, <1>6, <1>7, <1>8, <1>9 DEF TxInv, Agrees

\* An extension is cleaned up.
LEMMA UnregisterExtensionInv ==
  ASSUME TxInv, NEW e \in Extensions, UnregisterExtension(e) PROVE TxInv'
<1> USE DEF UnregisterExtension, Works, Proceed, vars
<1>0. /\ TypeOK' /\ ~doomed /\ ~doomed' /\ view \in Registries
      /\ op = "UnregisterServer" /\ at = "extensions" /\ e \in todo
      /\ e \in formats /\ ~IsOpened(e)
      /\ UNCHANGED << vars, keys, op, at >> /\ todo' = todo \ {e}
  BY DEF TxInv, TypeOK, Control, IsOpened
<1>1. Control'
  BY <1>0 DEF TxInv, Control
<1>2. AgreesOn(e)
  BY <1>0 DEF TxInv, Agrees
<1> DEFINE cleaned == Cleaned(view, e)
           h == [view.handler EXCEPT ![e] = Restored(e)]
           n == [view.hasNull EXCEPT ![e] = FALSE]
<1>3. /\ h \in [Extensions -> Foreign \cup {"absent", "ours"}]
      /\ n \in [Extensions -> BOOLEAN]
      /\ Restored(e) \in Foreign \cup {"absent", "ours"}
  BY <1>0 DEF Registries, Restored, TypeOK, TxInv, Foreign
<1>4. cleaned = [view EXCEPT !.handler = h, !.hasNull = n]
  BY <1>0, <1>2 DEF Cleaned, Registries, AgreesOn, Restored
<1> HIDE DEF cleaned
<1>5. /\ cleaned \in Registries
      /\ cleaned.extKey = view.extKey /\ cleaned.clsid = view.clsid
      /\ cleaned.handler = h /\ cleaned.hasNull = n
      /\ cleaned.handler[e] = Restored(e)
      /\ cleaned.extKey[e] = extKey[e]
  <2> HIDE DEF h, n
  <2>1. /\ cleaned \in Registries
        /\ cleaned.extKey = view.extKey /\ cleaned.clsid = view.clsid
        /\ cleaned.handler = h /\ cleaned.hasNull = n
    BY <1>0, <1>3, <1>4 DEF Registries
  <2>2. h[e] = Restored(e)
    BY <1>0 DEF h, Registries
  <2> QED BY <1>0, <1>2, <2>1, <2>2 DEF AgreesOn
<1>6. view' = DeleteExtension(cleaned, e)
  BY DEF cleaned
<1>7. /\ view' \in Registries
      /\ view'.clsid = view.clsid /\ view'.hasNull = n
      /\ view'.handler = [h EXCEPT ![e] = Remaining(e)]
      /\ view'.extKey = [view.extKey EXCEPT ![e] =
                            IF DeletesKey(e) THEN "absent" ELSE extKey[e]]
  <2> HIDE DEF h, n
  <2>1. CASE Restored(e) \notin {"absent", "unset"}
    <3>1. view' = cleaned
      BY <1>5, <1>6, <2>1 DEF DeleteExtension
    <3>2. Remaining(e) = Restored(e) /\ ~DeletesKey(e)
      BY <1>0, <2>1 DEF Remaining, DeletesKey
    <3> QED BY <1>3, <1>5, <3>1, <3>2 DEF Registries
  <2>2. CASE Restored(e) \in {"absent", "unset"}
    <3>1. view' = [cleaned EXCEPT !.handler[e] = "absent",
                                  !.extKey[e] = IF @ = "empty" THEN "absent" ELSE @]
      BY <1>5, <1>6, <2>2 DEF DeleteExtension
    <3>2. Remaining(e) = "absent" /\ (DeletesKey(e) <=> extKey[e] = "empty")
      BY <1>0, <2>2 DEF Remaining, DeletesKey
    <3> DEFINE g == [h EXCEPT ![e] = "absent"]
               x == [view.extKey EXCEPT ![e] =
                       IF extKey[e] = "empty" THEN "absent" ELSE extKey[e]]
    <3>3. /\ g \in [Extensions -> Foreign \cup {"absent", "ours"}]
          /\ x \in [Extensions -> {"absent", "empty", "used"}]
      BY <1>0, <1>3 DEF Registries, TxInv, TypeOK
    <3>4. view' = [cleaned EXCEPT !.handler = g, !.extKey = x]
      BY <1>5, <3>1
    <3> HIDE DEF g, x
    <3>5. /\ view' \in Registries /\ view'.handler = g /\ view'.extKey = x
          /\ view'.clsid = view.clsid /\ view'.hasNull = n
      BY <1>5, <3>3, <3>4 DEF Registries
    <3> QED BY <3>2, <3>5 DEF g, x
  <2> QED BY <2>1, <2>2
<1>8. AgreesOn(e)'
  <2>1. IsOpened(e)' /\ op' = "UnregisterServer"
    BY <1>0 DEF IsOpened
  <2>2. /\ view'.extKey[e] = IF DeletesKey(e) THEN "absent" ELSE extKey[e]
        /\ view'.handler[e] = Remaining(e)
        /\ view'.hasNull[e] = FALSE
    BY <1>0, <1>3, <1>7 DEF Registries
  <2> QED BY <1>0, <2>1, <2>2 DEF AgreesOn, DeletesKey, Remaining, Restored
<1>9. ASSUME NEW d \in Extensions, d # e PROVE AgreesOn(d)'
  <2>1. AgreesOn(d)
    BY <1>0 DEF TxInv, Agrees
  <2>2. /\ view'.extKey[d] = view.extKey[d]
        /\ view'.handler[d] = view.handler[d]
        /\ view'.hasNull[d] = view.hasNull[d]
    BY <1>0, <1>3, <1>7, <1>9 DEF Registries
  <2>3. IsOpened(d)' <=> IsOpened(d)
    BY <1>0, <1>9 DEF IsOpened
  <2> QED BY <1>0, <2>1, <2>2, <2>3 DEF AgreesOn, Takes, DeletesKey, Remaining, Restored
<1>10. view'.clsid = OurValues'
  BY <1>0, <1>7 DEF TxInv, Agrees, OurValues
<1> QED BY <1>0, <1>1, <1>7, <1>8, <1>9, <1>10 DEF TxInv, Agrees

-----------------------------------------------------------------------------
(* How operations end, and what others do.                                 *)

\* After an operation the view is the registry again.
LEMMA EndInv ==
  ASSUME TxInv, NEW hr, End(hr), TypeOK', keys' \subseteq Keys PROVE TxInv'
<1>1. /\ op' = "none" /\ todo' = {} /\ ~doomed' /\ view' = Registry'
      /\ UNCHANGED formats
  BY DEF End
<1>2. Control'
  BY <1>1 DEF TxInv, Control, TypeOK
<1>3. /\ view' \in Registries
      /\ view'.extKey = extKey' /\ view'.handler = handler'
      /\ view'.hasNull = hasNull' /\ view'.clsid = clsid'
  BY <1>1 DEF TypeOK, Registry, Registries
<1>4. Agrees'
  <2>1. ASSUME NEW e \in Extensions PROVE AgreesOn(e)'
    BY <1>1, <1>3 DEF AgreesOn, IsOpened
  <2>2. OurValues' = clsid'
    BY <1>1 DEF OurValues
  <2> QED BY <1>3, <2>1, <2>2 DEF Agrees
<1> QED BY <1>2, <1>3, <1>4 DEF TxInv

\* The commit does what the indivisible operation does.
LEMMA CommitImplements ==
  ASSUME TxInv, Commit
  PROVE  /\ op = "RegisterServer" => RegisterServer
         /\ op = "UnregisterServer" => UnregisterServer
<1>1. /\ op # "none" /\ todo = {} /\ ~doomed
      /\ at = IF op = "RegisterServer" THEN "extensions" ELSE "commit"
      /\ extKey' = view.extKey /\ handler' = view.handler
      /\ hasNull' = view.hasNull /\ clsid' = view.clsid
      /\ UNCHANGED << formats, base, changes >>
  BY DEF Commit, End
<1>2. /\ \A e \in Extensions : AgreesOn(e)
      /\ view.clsid = OurValues
      /\ view \in Registries /\ TypeOK
  BY <1>1 DEF TxInv, Agrees
<1>3. \A e \in Extensions : IsOpened(e) <=> e \in formats
  BY <1>1 DEF IsOpened
<1>4. CASE op = "RegisterServer"
  <2>1. clsid' = clsid \cup HandlerValues \cup FilterValues
    BY <1>1, <1>2, <1>4 DEF OurValues
  <2>2. ASSUME NEW e \in Extensions
        PROVE  /\ extKey'[e] = IF e \in formats THEN Created(extKey[e]) ELSE extKey[e]
               /\ handler'[e] = IF Takes(e) THEN "ours" ELSE handler[e]
               /\ hasNull'[e] = (hasNull[e] \/ (Takes(e) /\ handler[e] = "null"))
    <3>1. CASE e \in formats
      BY <1>1, <1>2, <1>3, <1>4, <3>1 DEF AgreesOn
    <3>2. CASE e \notin formats
      <4>1. ~Takes(e) /\ hasNull[e] \in BOOLEAN
        BY <1>2, <3>2 DEF Takes, TypeOK
      <4> QED BY <1>1, <1>2, <1>3, <3>2, <4>1 DEF AgreesOn
    <3> QED BY <3>1, <3>2
  <2>3. /\ extKey' \in [Extensions -> {"absent", "empty", "used"}]
        /\ handler' \in [Extensions -> Foreign \cup {"absent", "ours"}]
        /\ hasNull' \in [Extensions -> BOOLEAN]
    BY <1>1, <1>2 DEF Registries
  <2>4. extKey' = [e \in Extensions |->
                     IF e \in formats THEN Created(extKey[e]) ELSE extKey[e]]
    BY <2>2, <2>3
  <2>5. handler' = [e \in Extensions |-> IF Takes(e) THEN "ours" ELSE handler[e]]
    BY <2>2, <2>3
  <2>6. hasNull' = [e \in Extensions |->
                      hasNull[e] \/ (Takes(e) /\ handler[e] = "null")]
    BY <2>2, <2>3
  <2> QED BY <1>1, <1>4, <2>1, <2>4, <2>5, <2>6 DEF RegisterServer
<1>5. CASE op = "UnregisterServer"
  <2>1. clsid' = clsid \ (FilterValues \cup {"filter addin"})
    BY <1>1, <1>2, <1>5 DEF OurValues
  <2>2. ASSUME NEW e \in Extensions
        PROVE  /\ extKey'[e] = IF DeletesKey(e) THEN "absent" ELSE extKey[e]
               /\ handler'[e] = Remaining(e)
               /\ hasNull'[e] = (hasNull[e] /\ e \notin formats)
    <3>1. CASE e \in formats
      BY <1>1, <1>2, <1>3, <1>5, <3>1 DEF AgreesOn
    <3>2. CASE e \notin formats
      <4>1. ~DeletesKey(e) /\ Remaining(e) = handler[e] /\ hasNull[e] \in BOOLEAN
        BY <1>2, <3>2 DEF DeletesKey, Remaining, TypeOK
      <4> QED BY <1>1, <1>2, <1>3, <3>2, <4>1 DEF AgreesOn
    <3> QED BY <3>1, <3>2
  <2>3. /\ extKey' \in [Extensions -> {"absent", "empty", "used"}]
        /\ handler' \in [Extensions -> Foreign \cup {"absent", "ours"}]
        /\ hasNull' \in [Extensions -> BOOLEAN]
    BY <1>1, <1>2 DEF Registries
  <2>4. extKey' = [e \in Extensions |-> IF DeletesKey(e) THEN "absent" ELSE extKey[e]]
    BY <2>2, <2>3
  <2>5. handler' = [e \in Extensions |-> Remaining(e)]
    BY <2>2, <2>3
  <2>6. hasNull' = [e \in Extensions |-> hasNull[e] /\ e \notin formats]
    BY <2>2, <2>3
  <2> QED BY <1>1, <1>5, <2>1, <2>4, <2>5, <2>6 DEF UnregisterServer
<1> QED BY <1>4, <1>5

\* Both indivisible operations keep the registry in shape.
LEMMA OperationType ==
  ASSUME TypeOK, RegisterServer \/ UnregisterServer PROVE TypeOK'
<1>1. CASE RegisterServer
  BY <1>1 DEF TypeOK, RegisterServer, Takes, Created, IsGuid, Foreign
<1>2. CASE UnregisterServer
  BY <1>2 DEF TypeOK, UnregisterServer, Remaining, Restored, DeletesKey, Foreign
<1> QED BY <1>1, <1>2

\* A failure leaves the registry as it was.
LEMMA ThrowInv ==
  ASSUME TxInv, NEW thrown, Throw(thrown) PROVE TxInv' /\ UNCHANGED vars
<1>1. End(HResult(thrown)) /\ UNCHANGED << vars, keys >>
  BY DEF Throw, End, vars
<1>2. TypeOK' /\ keys' \subseteq Keys
  BY <1>1 DEF TxInv, TypeOK, Control, vars
<1> QED BY <1>1, <1>2, EndInv

LEMMA CommitInv ==
  ASSUME TxInv, Commit PROVE TxInv' /\ (RegisterServer \/ UnregisterServer)
<1>1. RegisterServer \/ UnregisterServer
  BY CommitImplements DEF Commit, TxInv, Control
<1>2. TypeOK'
  BY <1>1, OperationType DEF TxInv
<1>3. keys' \subseteq Keys
  BY DEF Commit, TxInv, Registries
<1>4. End(IF everythingDeleted THEN S_OK ELSE S_FALSE)
  BY DEF Commit
<1> QED BY <1>1, <1>2, <1>3, <1>4, EndInv

\* Nor does an operation that finds nothing there.
LEMMA ReturnEarlyInv ==
  ASSUME TxInv, ReturnEarly PROVE TxInv' /\ UNCHANGED vars
<1>1. End(S_OK) /\ UNCHANGED << vars, keys >>
  BY DEF ReturnEarly, End, vars
<1>2. TypeOK' /\ keys' \subseteq Keys
  BY <1>1 DEF TxInv, TypeOK, Control, vars
<1> QED BY <1>1, <1>2, EndInv

\* What it finds is the registry, and none of our formats has a handler.
LEMMA NothingThere ==
  ASSUME TxInv, ReturnEarly
  PROVE  \A e \in Extensions : /\ extKey[e] = "absent" /\ handler[e] = "absent"
                               /\ ~hasNull[e]
<1>1. /\ ~doomed /\ todo = formats
      /\ \A e \in Extensions : view.extKey[e] = "absent"
  BY DEF ReturnEarly, FindsNoClasses, Works
<1>2. \A e \in Extensions : AgreesOn(e) /\ ~IsOpened(e)
  BY <1>1 DEF TxInv, Agrees, IsOpened
<1>3. \A e \in Extensions : extKey[e] = "absent"
  BY <1>1, <1>2 DEF AgreesOn
<1> QED BY <1>3 DEF TxInv, TypeOK

\* Others change an extension: the transaction sees it, or is doomed.
LEMMA SeesInv ==
  ASSUME TxInv, TypeOK', NEW e \in Extensions, Sees(e),
         UNCHANGED << formats, clsid >>,
         \A d \in Extensions \ {e} : /\ extKey'[d] = extKey[d]
                                     /\ handler'[d] = handler[d]
                                     /\ hasNull'[d] = hasNull[d]
  PROVE  TxInv'
<1>1. UNCHANGED << keys, op, at, todo >>
  BY DEF Sees
<1>2. CASE ~IsOpened(e)
  <2>1. /\ UNCHANGED doomed
        /\ view' = [view EXCEPT !.extKey[e] = extKey'[e], !.handler[e] = handler'[e],
                                !.hasNull[e] = hasNull'[e]]
    BY <1>2 DEF Sees
  <2> DEFINE x == [view.extKey EXCEPT ![e] = extKey'[e]]
             h == [view.handler EXCEPT ![e] = handler'[e]]
             n == [view.hasNull EXCEPT ![e] = hasNull'[e]]
  <2>2. /\ x \in [Extensions -> {"absent", "empty", "used"}]
        /\ h \in [Extensions -> Foreign \cup {"absent", "ours"}]
        /\ n \in [Extensions -> BOOLEAN]
    BY DEF TxInv, Registries, TypeOK
  <2>3. view' = [view EXCEPT !.extKey = x, !.handler = h, !.hasNull = n]
    BY <2>1
  <2>a. view \in Registries
    BY DEF TxInv
  <2> HIDE DEF x, h, n
  <2>4. /\ view' \in Registries /\ view'.clsid = view.clsid
        /\ view'.extKey = x /\ view'.handler = h /\ view'.hasNull = n
    BY <2>a, <2>2, <2>3 DEF Registries
  <2>5. Control'
    BY <1>1, <2>1 DEF TxInv, Control
  <2>6. ASSUME ~doomed, NEW d \in Extensions PROVE AgreesOn(d)'
    <3>1. IsOpened(d)' <=> IsOpened(d)
      BY <1>1 DEF IsOpened
    <3>2. CASE d = e
      <4>1. /\ view'.extKey[e] = extKey'[e] /\ view'.handler[e] = handler'[e]
            /\ view'.hasNull[e] = hasNull'[e]
        BY <2>a, <2>4 DEF x, h, n, Registries
      <4> QED BY <1>2, <3>1, <3>2, <4>1 DEF AgreesOn
    <3>3. CASE d # e
      <4>1. AgreesOn(d)
        BY <2>6 DEF TxInv, Agrees
      <4>2. /\ view'.extKey[d] = view.extKey[d] /\ view'.handler[d] = view.handler[d]
            /\ view'.hasNull[d] = view.hasNull[d]
        BY <2>a, <2>4, <3>3 DEF x, h, n, Registries
      <4> QED BY <1>1, <3>1, <3>3, <4>1, <4>2
          DEF AgreesOn, Takes, DeletesKey, Remaining, Restored
    <3> QED BY <3>2, <3>3
  <2>7. OurValues' = OurValues
    BY <1>1 DEF OurValues
  <2> QED BY <2>1, <2>4, <2>5, <2>6, <2>7 DEF TxInv, Agrees
<1>3. CASE IsOpened(e)
  <2>1. doomed' = TRUE /\ UNCHANGED view
    BY <1>3 DEF Sees
  <2>2. Control'
    BY <1>1, <1>3, <2>1 DEF TxInv, Control, IsOpened
  <2>3. Registries' = Registries
    BY DEF Registries
  <2> QED BY <2>1, <2>2, <2>3 DEF TxInv, Agrees
<1> QED BY <1>2, <1>3

LEMMA OthersInv ==
  ASSUME TxInv, OthersChange PROVE TxInv' /\ Next
<1>0. MaxChanges \in Nat
  BY RegistrarAssumption
<1>1. ASSUME NEW e \in Extensions, NEW h \in Foreign, SetsHandler(e, h), Sees(e)
      PROVE  TxInv' /\ Next
  <2>1. TypeOK'
    BY <1>0, <1>1
       DEF TxInv, TypeOK, SetsHandler, Change, Created, Foreign, Bases, IsGuid
  <2>2. /\ UNCHANGED << formats, clsid >>
        /\ \A d \in Extensions \ {e} : /\ extKey'[d] = extKey[d]
                                       /\ handler'[d] = handler[d]
                                       /\ hasNull'[d] = hasNull[d]
    BY <1>1 DEF SetsHandler, TxInv, TypeOK
  <2> QED BY <1>1, <2>1, <2>2, SeesInv DEF Next
<1>2. ASSUME NEW e \in Extensions, DeletesHandler(e), Sees(e) PROVE TxInv' /\ Next
  <2>1. TypeOK'
    BY <1>0, <1>2 DEF TxInv, TypeOK, DeletesHandler, Change, Foreign, Bases
  <2>2. /\ UNCHANGED << formats, clsid >>
        /\ \A d \in Extensions \ {e} : /\ extKey'[d] = extKey[d]
                                       /\ handler'[d] = handler[d]
                                       /\ hasNull'[d] = hasNull[d]
    BY <1>2 DEF DeletesHandler, TxInv, TypeOK
  <2> QED BY <1>2, <2>1, <2>2, SeesInv DEF Next
<1> QED BY <1>1, <1>2 DEF OthersChange

\* What is put into our keys is not what the operation works with; an idle
\* transaction is not doomed by it.
LEMMA AddsToInv == ASSUME TxInv, NEW k \in Keys, AddsTo(k) PROVE TxInv'
<1>1. /\ UNCHANGED << vars, keys, op, at, todo, view >>
      /\ doomed' = (doomed \/ k \in OpenedKeys)
  BY DEF AddsTo
<1>2. op = "none" => OpenedKeys = {}
  BY DEF OpenedKeys
<1>3. /\ TypeOK' /\ view' \in Registries'
      /\ (~doomed' => Agrees')
  <2>1. TypeOK' /\ view' \in Registries'
    BY <1>1 DEF TxInv, TypeOK, vars, Registries
  <2>2. ASSUME ~doomed' PROVE Agrees'
    <3>1. ASSUME NEW e \in Extensions PROVE AgreesOn(e)'
      <4>1. AgreesOn(e)
        BY <1>1, <2>2 DEF TxInv, Agrees
      <4> QED BY <1>1, <4>1
          DEF vars, AgreesOn, IsOpened, Takes, DeletesKey, Remaining, Restored
    <3>2. view'.clsid = OurValues'
      BY <1>1, <2>2 DEF TxInv, Agrees, OurValues, vars
    <3> QED BY <3>1, <3>2 DEF Agrees
  <2> QED BY <2>1, <2>2
<1>4. Control'
  BY <1>1, <1>2 DEF TxInv, Control, vars
<1> QED BY <1>3, <1>4 DEF TxInv, Agrees

LEMMA ReplacesLibraryInv ==
  ASSUME TxInv, ReplacesLibrary PROVE TxInv' /\ Replaces7Zip
<1>1. /\ op = "none" /\ Replaces7Zip /\ UNCHANGED << keys, transaction >>
      /\ UNCHANGED << extKey, handler, hasNull, clsid, base >>
  BY DEF ReplacesLibrary, Replaces7Zip
<1>2. TypeOK'
  BY <1>1, RegistrarAssumption DEF TxInv, TypeOK, Replaces7Zip, Change
<1>3. Control' /\ view' \in Registries'
  BY <1>1 DEF TxInv, Control, transaction, Registries
<1>4. Agrees'
  <2>1. ASSUME NEW e \in Extensions, ~doomed PROVE AgreesOn(e)'
    BY <1>1, <2>1 DEF TxInv, Agrees, AgreesOn, IsOpened, transaction
  <2> QED BY <1>1, <2>1 DEF TxInv, Agrees, OurValues, transaction
<1> QED BY <1>1, <1>2, <1>3, <1>4 DEF TxInv

\* Every step keeps the invariant, and is one of Registrar or none.
LEMMA TxStep == TxInv /\ [TxNext]_txVars => TxInv' /\ [Next]_vars
<1> SUFFICES ASSUME TxInv, [TxNext]_txVars PROVE TxInv' /\ [Next]_vars
  OBVIOUS
<1>1. ASSUME NEW o \in {"RegisterServer", "UnregisterServer"}, BeginTransaction(o)
      PROVE  TxInv' /\ [Next]_vars
  BY <1>1, BeginInv DEF BeginTransaction
<1>2. CASE RegisterFilter \/ RegisterHandler \/ UnregisterHandler \/ UnregisterFilter
  <2>1. UNCHANGED vars
    BY <1>2
       DEF RegisterFilter, RegisterHandler, UnregisterHandler, UnregisterFilter,
                Proceed
  <2> QED BY <1>2, <2>1, OursInv
<1>3. ASSUME NEW e \in Extensions, RegisterExtension(e) \/ UnregisterExtension(e)
      PROVE  TxInv' /\ [Next]_vars
  <2>1. UNCHANGED vars
    BY <1>3 DEF RegisterExtension, UnregisterExtension, Proceed
  <2> QED BY <1>3, <2>1, RegisterExtensionInv, UnregisterExtensionInv
<1>4. CASE Commit
  BY <1>4, CommitInv DEF Next
<1>5. ASSUME NEW thrown \in Thrown, Throw(thrown) PROVE TxInv' /\ [Next]_vars
  BY <1>5, ThrowInv
<1>6. CASE OthersChange
  BY <1>6, OthersInv
<1>10. CASE ReturnEarly
  BY <1>10, ReturnEarlyInv
<1>7. ASSUME NEW k \in Keys, AddsTo(k) PROVE TxInv' /\ [Next]_vars
  BY <1>7, AddsToInv DEF AddsTo
<1>8. CASE ReplacesLibrary
  BY <1>8, ReplacesLibraryInv DEF Next
<1>9. CASE UNCHANGED txVars
  <2>1. UNCHANGED << vars, keys, op, at, todo, view, doomed >>
    BY <1>9 DEF txVars, transaction
  <2>2. TypeOK' /\ Control' /\ view' \in Registries'
    BY <2>1 DEF TxInv, TypeOK, Control, Registries, vars
  <2>3. Agrees'
    <3>1. ASSUME NEW e \in Extensions, ~doomed PROVE AgreesOn(e)'
      <4>1. AgreesOn(e)
        BY <3>1 DEF TxInv, Agrees
      <4> QED BY <2>1, <4>1
          DEF vars, AgreesOn, IsOpened, Takes, DeletesKey, Remaining, Restored
    <3> QED BY <2>1, <3>1 DEF TxInv, Agrees, OurValues, vars
  <2> QED BY <2>1, <2>2, <2>3 DEF TxInv
<1> QED
  BY <1>1, <1>2, <1>3, <1>4, <1>5, <1>6, <1>7, <1>8, <1>9,
     <1>10 DEF TxNext, Step

-----------------------------------------------------------------------------
\* The invariant holds, whatever fails and whatever others do.
THEOREM TxInvariance == TxSpec => []TxInv
  BY TxInitInv, TxStep, PTL DEF TxSpec

\* RegisterServer and UnregisterServer, step by step and interrupted by
\* failures and by other installers, implement the indivisible operations.
THEOREM Implements == TxSpec => ImplementsRegistrar
<1>1. TxInit => Init
  BY DEF TxInit
<1> QED BY <1>1, TxInitInv, TxStep, PTL DEF TxSpec, Spec, ImplementsRegistrar

\* They never lose a handler that other software has registered, even if they
\* fail half-way.
THEOREM TxForeignHandlersSurvive == TxSpec => []ForeignHandlersKept
  BY Implements, ForeignHandlersSurvive DEF ImplementsRegistrar

\* No operation deletes the name of the persistent handler.
NameStays == []["handler name" \in clsid => "handler name" \in clsid']_vars

LEMMA NameIsKept ==
  ASSUME [Next]_vars, "handler name" \in clsid PROVE "handler name" \in clsid'
BY DEF Next, vars, RegisterServer, UnregisterServer, SetsHandler, DeletesHandler,
       Replaces7Zip, HandlerValues, FilterValues

\* Once the filter has been registered, the key of the persistent handler stays
\* for good: UnregisterServer cleans up what is below it but leaves its name,
\* although the comment there says that it unregisters it.
THEOREM NameIsLeftBehind == TxSpec => NameStays
<1>1. Spec => NameStays
  BY NameIsKept, PTL DEF Spec, NameStays
<1> QED
  BY <1>1, Implements DEF ImplementsRegistrar

\* A Win32 error, or what else is thrown, is a failure, S_OK and S_FALSE are
\* none.
LEMMA ThrownFails == \A thrown \in Thrown : Failed(HResult(thrown))
  BY RegistrationAssumption DEF Failed

\* After an UnregisterServer that succeeded the registrations of the present
\* formats are back.
THEOREM TxRestores == TxSpec => SuccessRestores
<1> DEFINE Success == op = "UnregisterServer" /\ op' = "none" /\ ~Failed(answer')
<1>1. ASSUME TxInv, TxNext, Success PROVE Commit \/ ReturnEarly
  <2>1. ASSUME NEW thrown \in Thrown PROVE ~Throw(thrown)
    BY <1>1, ThrownFails DEF Throw, End
  <2> QED
    BY <1>1, <2>1
       DEF TxNext, transaction, Step, BeginTransaction, Works, Proceed,
       RegisterFilter, RegisterHandler, UnregisterHandler, UnregisterFilter,
       RegisterExtension, UnregisterExtension, OthersChange, Sees, AddsTo,
       ReplacesLibrary
<1>2. ASSUME TxInv, IInv, ReturnEarly, NEW e \in formats PROVE Restores(e)
  <2>1. e \in Extensions /\ UNCHANGED << handler, extKey >>
    BY <1>2 DEF TxInv, TypeOK, ReturnEarly
  <2>2. extKey[e] = "absent" /\ handler[e] = "absent"
    BY <1>2, <2>1, NothingThere
  <2>3. base[e] \notin {"null", "other"}
    BY <1>2, <2>1, <2>2 DEF IInv, ForeignHandlersKept
  <2> QED
    BY <2>1, <2>2, <2>3 DEF Restores
<1>3. ASSUME TxInv, IInv, TxNext, Success PROVE \A e \in formats : Restores(e)
  <2>1. CASE Commit
    BY <1>3, <2>1, CommitImplements, UnregisterRestoresAll
  <2>2. CASE ReturnEarly
    BY <1>2, <1>3, <2>2
  <2> QED
    BY <1>1, <1>3, <2>1, <2>2
<1>4. TxInv /\ IInv /\ [TxNext]_txVars =>
        [Success => \A e \in formats : Restores(e)]_txVars
  BY <1>3
<1>5. TxSpec => []IInv
  BY Implements, Invariance DEF ImplementsRegistrar
<1> QED BY <1>4, <1>5, TxInvariance, PTL DEF TxSpec, SuccessRestores

-----------------------------------------------------------------------------
(* Our keys below CLSID, and the answers.                                  *)

\* No key of ours outlives its parent, no value its key.
HasParents(v) ==
    /\ \A k \in v.keys \cap DOMAIN Parent : Parent[k] \in v.keys
    /\ \A k \in Keys : Values[k] \cap v.clsid # {} => k \in v.keys

\* Keys that the transaction has not opened it sees as they are; it has not
\* deleted one in which others have put something.
KeysSeen ==
    /\ extra \subseteq view.keys
    /\ \A k \in Keys \ OpenedKeys : k \in view.keys <=> k \in keys

\* While all has been deleted, the two keys are gone that have been come to.
Gone ==
    op = "UnregisterServer" /\ everythingDeleted =>
        /\ at \in {"filter handler", "commit"} =>
               "PersistentHandler" \notin view.keys
        /\ at = "commit" => "Filter" \notin view.keys

Answers == {S_OK, S_FALSE} \cup {HResult(thrown) : thrown \in Thrown}

\* A key whose values are missing is kept alive by others.
MissingAreHeld(v) == \A k \in Required : IsMissing(v, {k}) => HeldOpen(k)

\* The inductive invariant of our keys.
KeyInv ==
    /\ extra \subseteq keys
    /\ doomed \in BOOLEAN /\ everythingDeleted \in BOOLEAN
    /\ answer \in Answers
    /\ op = "none" => at = "commit"
    /\ HasParents(Registry) /\ HasParents(view)
    /\ MissingAreHeld(Registry) /\ MissingAreHeld(view)
    /\ ~doomed => KeysSeen
    /\ Gone

\* The tree of our keys: whose parents are in which set, and what is in whom.
LEMMA Tree ==
  /\ DOMAIN Parent = {"IFilter", "PersistentAddinsRegistered", "InprocServer32"}
  /\ Parent["IFilter"] = "PersistentAddinsRegistered"
  /\ Parent["PersistentAddinsRegistered"] = "PersistentHandler"
  /\ Parent["InprocServer32"] = "Filter"
  /\ Required = {"IFilter", "Filter", "InprocServer32"}
  /\ Keys = {"PersistentHandler", "PersistentAddinsRegistered", "IFilter",
             "Filter", "InprocServer32"}
BY DEF Parent, Required, Keys, HandlerKeys, FilterKeys

\* The values differ from key to key.
LEMMA ValuesAre ==
  /\ Values["PersistentHandler"] = {"handler name"}
  /\ Values["PersistentAddinsRegistered"] = {}
  /\ Values["IFilter"] = {"filter addin"}
  /\ Values["Filter"] = {"filter name"}
  /\ Values["InprocServer32"] = {"server path", "threading model"}
BY DEF Values

\* Keys are created with their parents and all their values.
LEMMA CreateOurs ==
  ASSUME NEW v \in Registries, NEW created \in {FilterKeys, HandlerKeys},
         HasParents(v)
  PROVE  LET new == Create(v, created)
         IN /\ new.keys = v.keys \cup created
            /\ HasParents(new)
            /\ \A k \in Required : IsMissing(new, {k}) => IsMissing(v, {k})
<1> DEFINE new == Create(v, created)
<1>1. /\ new.keys = v.keys \cup created
      /\ new.clsid = v.clsid \cup Written(created)
  BY DEF Create, Registries, Written
<1> HIDE DEF new
<1>2. \A k \in created \cap DOMAIN Parent : Parent[k] \in created
  BY Tree DEF FilterKeys, HandlerKeys
<1>3. \A k \in Keys : Values[k] \cap Written(created) # {} => k \in created
  BY Tree, ValuesAre, ValuesOfKeys
     DEF FilterKeys, HandlerKeys, FilterValues, HandlerValues
<1>4. HasParents(new)
  BY <1>1, <1>2, <1>3 DEF HasParents
<1>5. \A k \in created : Values[k] \subseteq Written(created)
  BY DEF Written
<1>6. \A k \in Required : IsMissing(new, {k}) => IsMissing(v, {k})
  BY <1>1, <1>5 DEF IsMissing
<1> QED
  BY <1>1, <1>4, <1>6 DEF new

\* Values are deleted, their keys stay.
LEMMA DeleteOurs ==
  ASSUME NEW v \in Registries, NEW deleted, HasParents(v)
  PROVE  LET new == DeleteValues(v, deleted)
         IN /\ new.keys = v.keys
            /\ new.clsid = v.clsid \ Written(deleted)
            /\ HasParents(new)
<1> DEFINE new == DeleteValues(v, deleted)
<1>1. new.keys = v.keys /\ new.clsid = v.clsid \ Written(deleted)
  BY DEF DeleteValues, Registries, Written
<1> HIDE DEF new
<1>2. HasParents(new)
  BY <1>1 DEF HasParents
<1> QED
  BY <1>1, <1>2 DEF new

\* A key that is deleted was empty.
LEMMA CleanUpOurs ==
  ASSUME NEW v \in Registries, NEW k, HasParents(v)
  PROVE  LET new == DeleteIfEmpty(v, k)
         IN /\ new.keys = IF IsEmpty(v, k) THEN v.keys \ {k} ELSE v.keys
            /\ new.clsid = v.clsid
            /\ HasParents(new)
            /\ extra \subseteq v.keys => extra \subseteq new.keys
<1> DEFINE new == DeleteIfEmpty(v, k)
<1>1. /\ new.keys = IF IsEmpty(v, k) THEN v.keys \ {k} ELSE v.keys
      /\ new.clsid = v.clsid
  BY DEF DeleteIfEmpty, Registries
<1> HIDE DEF new
<1>2. HasParents(new)
  BY <1>1 DEF HasParents, IsEmpty
<1>3. extra \subseteq v.keys => extra \subseteq new.keys
  BY <1>1 DEF IsEmpty
<1> QED
  BY <1>1, <1>2, <1>3 DEF new

\* A step after which our keys in the registry and in the view are the same.
LEMMA KeysStay ==
  ASSUME KeyInv, UNCHANGED << keys, extra, clsid, op, at, answer >>,
         view'.keys = view.keys, view'.clsid = view.clsid,
         doomed' \in BOOLEAN, doomed => doomed',
         everythingDeleted' \in BOOLEAN,
         op = "RegisterServer" \/ (everythingDeleted' => everythingDeleted)
  PROVE  KeyInv'
<1>1. Registry'.keys = Registry.keys /\ Registry'.clsid = Registry.clsid
  BY DEF Registry
<1>2. HasParents(Registry)' /\ HasParents(view)'
  BY <1>1 DEF KeyInv, HasParents
<1>3. MissingAreHeld(Registry)' /\ MissingAreHeld(view)'
  BY <1>1 DEF KeyInv, MissingAreHeld, HeldOpen, IsMissing
<1>4. ~doomed' => KeysSeen'
  BY DEF KeyInv, KeysSeen, OpenedKeys
<1>5. Gone'
  BY DEF KeyInv, Gone
<1>6. answer' \in Answers'
  BY DEF KeyInv, Answers
<1> QED
  BY <1>2, <1>3, <1>4, <1>5, <1>6 DEF KeyInv

\* A transaction begins with our keys as they are.
LEMMA BeginKeys ==
  ASSUME TxInv, KeyInv, NEW o \in {"RegisterServer", "UnregisterServer"},
         BeginTransaction(o)
  PROVE  KeyInv'
<1>1. /\ op = "none" /\ op' = o /\ view' = Registry /\ answer' = S_OK
      /\ at' = IF o = "RegisterServer" THEN "filter handler" ELSE "extensions"
      /\ UNCHANGED << vars, keys, extra, doomed, everythingDeleted >>
  BY DEF BeginTransaction
<1>2. Registry' = Registry /\ Registry.keys = keys
  BY <1>1 DEF Registry, vars
<1>3. HasParents(Registry)' /\ HasParents(view)'
  BY <1>1, <1>2 DEF KeyInv, HasParents
<1>4. MissingAreHeld(Registry)' /\ MissingAreHeld(view)'
  BY <1>1, <1>2 DEF KeyInv, MissingAreHeld, HeldOpen, IsMissing
<1>5. KeysSeen' /\ Gone'
  BY <1>1, <1>2 DEF KeyInv, KeysSeen, Gone
<1>6. answer' \in Answers'
  BY <1>1 DEF Answers
<1> QED
  BY <1>1, <1>3, <1>4, <1>5, <1>6 DEF KeyInv

\* RegisterServer writes our keys.
LEMMA RegisterKeys ==
  ASSUME TxInv, KeyInv, RegisterFilter \/ RegisterHandler
  PROVE  KeyInv'
<1>1. PICK created \in {FilterKeys, HandlerKeys} :
        /\ view' = Create(view, created)
        /\ \/ created = FilterKeys /\ at' = "persistent handler"
           \/ created = HandlerKeys /\ at' = "extensions"
  <2>1. CASE RegisterFilter
    <3>1. view' = Create(view, FilterKeys) /\ at' = "persistent handler"
      BY <2>1 DEF RegisterFilter, Proceed
    <3> QED
      BY <3>1
  <2>2. CASE RegisterHandler
    <3>1. view' = Create(view, HandlerKeys) /\ at' = "extensions"
      BY <2>2 DEF RegisterHandler, Proceed
    <3> QED
      BY <3>1
  <2> QED
    BY <2>1, <2>2
<1>2. /\ op = "RegisterServer" /\ ~doomed /\ doomed' = doomed
      /\ everythingDeleted' = TRUE
      /\ UNCHANGED << vars, keys, extra, op, answer >>
      /\ at = IF created = FilterKeys THEN "filter handler"
                                      ELSE "persistent handler"
  <2>1. FilterKeys # HandlerKeys
    BY DEF FilterKeys, HandlerKeys
  <2> QED
    BY <1>1, <2>1 DEF RegisterFilter, RegisterHandler, Works, Proceed
<1>3. /\ view'.keys = view.keys \cup created /\ HasParents(view')
      /\ \A k \in Required : IsMissing(view', {k}) => IsMissing(view, {k})
  <2>1. view \in Registries /\ HasParents(view)
    BY DEF TxInv, KeyInv
  <2> QED
    BY <1>1, <2>1, CreateOurs
<1>4. Registry' = Registry
  BY <1>2 DEF Registry, vars
<1>5. HasParents(Registry)' /\ HasParents(view)'
  BY <1>3, <1>4 DEF KeyInv, HasParents
<1>6. MissingAreHeld(Registry)' /\ MissingAreHeld(view)'
  BY <1>2, <1>3, <1>4 DEF KeyInv, MissingAreHeld, HeldOpen, IsMissing
<1>7. KeysSeen'
  <2>1. CASE created = FilterKeys
    <3>1. OpenedKeys = {} /\ OpenedKeys' = FilterKeys
      BY <1>1, <1>2, <2>1 DEF OpenedKeys, FilterKeys, HandlerKeys
    <3> QED
      BY <1>2, <1>3, <2>1, <3>1 DEF KeyInv, KeysSeen
  <2>2. CASE created = HandlerKeys
    <3>1. OpenedKeys' = Keys
      BY <1>1, <1>2, <2>2 DEF OpenedKeys, FilterKeys, HandlerKeys
    <3> QED
      BY <1>2, <1>3, <3>1 DEF KeyInv, KeysSeen
  <2> QED
    BY <2>1, <2>2
<1>8. Gone' /\ answer' \in Answers'
  BY <1>2 DEF KeyInv, Gone, Answers
<1> QED
  BY <1>2, <1>5, <1>6, <1>7, <1>8 DEF KeyInv

\* UnregisterServer deletes the persistent handler's values and empty keys.
LEMMA UnregisterHandlerKeys ==
  ASSUME TxInv, KeyInv, UnregisterHandler
  PROVE  KeyInv'
<1> DEFINE v1 == DeleteValues(view, {"IFilter"})
           v2 == DeleteIfEmpty(v1, "IFilter")
           v3 == DeleteIfEmpty(v2, "PersistentAddinsRegistered")
<1>1. /\ view' = DeleteIfEmpty(v3, "PersistentHandler")
      /\ op = "UnregisterServer" /\ at = "extensions" /\ at' = "filter handler"
      /\ ~doomed /\ doomed' = doomed
      /\ everythingDeleted' =
             (everythingDeleted /\ "PersistentHandler" \notin view'.keys)
      /\ UNCHANGED << vars, keys, extra, op, answer >>
  BY DEF UnregisterHandler, Works, Proceed
<1>a. view \in Registries /\ HasParents(view) /\ extra \subseteq view.keys
  BY <1>1 DEF TxInv, KeyInv, KeysSeen
<1>2. /\ v1 \in Registries /\ v1.keys = view.keys /\ HasParents(v1)
      /\ v1.clsid = view.clsid \ {"filter addin"}
  <2>1. v1 \in Registries
    BY <1>a, DeleteKeeps
  <2>2. /\ v1.keys = view.keys /\ HasParents(v1)
        /\ v1.clsid = view.clsid \ Written({"IFilter"})
    BY <1>a, DeleteOurs
  <2> QED
    BY <2>1, <2>2, ValuesOfKeys
<1> HIDE DEF v1
<1>3. /\ v2 \in Registries /\ HasParents(v2) /\ v2.clsid = v1.clsid
      /\ v2.keys = IF IsEmpty(v1, "IFilter") THEN v1.keys \ {"IFilter"} ELSE v1.keys
      /\ extra \subseteq v2.keys
  BY <1>a, <1>2, CleanUpKeeps, CleanUpOurs
<1> HIDE DEF v2
<1>4. /\ v3 \in Registries /\ HasParents(v3) /\ v3.clsid = v2.clsid
      /\ v3.keys \in {v2.keys, v2.keys \ {"PersistentAddinsRegistered"}}
      /\ extra \subseteq v3.keys
  BY <1>3, CleanUpKeeps, CleanUpOurs
<1> HIDE DEF v3
<1>5. /\ HasParents(view') /\ view'.clsid = v3.clsid
      /\ view'.keys \in {v3.keys, v3.keys \ {"PersistentHandler"}}
      /\ extra \subseteq view'.keys
  BY <1>1, <1>4, CleanUpKeeps, CleanUpOurs
<1>6. Registry' = Registry
  BY <1>1 DEF Registry, vars
<1>7. ASSUME NEW k \in Required, IsMissing(view', {k}) PROVE HeldOpen(k)
  <2>1. k \in view'.keys /\ ~(Values[k] \subseteq view'.clsid)
    BY <1>7 DEF IsMissing
  <2>2. view'.keys \subseteq view.keys /\ view'.clsid = view.clsid \ {"filter addin"}
    BY <1>2, <1>3, <1>4, <1>5
  <2>3. CASE k = "IFilter"
    <3>1. ~IsEmpty(v1, "IFilter")
      BY <1>3, <1>4, <1>5, <2>1, <2>3
    <3> QED
      BY <1>2, <2>3, <3>1, Tree, ValuesAre DEF IsEmpty, HeldOpen
  <2>4. CASE k # "IFilter"
    <3>1. Values[k] \cap {"filter addin"} = {}
      BY <2>4, Tree, ValuesAre
    <3>2. IsMissing(view, {k})
      BY <2>1, <2>2, <3>1 DEF IsMissing
    <3> QED
      BY <3>2 DEF KeyInv, MissingAreHeld
  <2> QED
    BY <2>3, <2>4
<1>8. \A k \in Keys \ HandlerKeys : k \in view'.keys <=> k \in view.keys
  BY <1>2, <1>3, <1>4, <1>5 DEF HandlerKeys
<1>9. KeysSeen'
  <2>1. OpenedKeys = {} /\ OpenedKeys' = HandlerKeys
    BY <1>1 DEF OpenedKeys
  <2> QED
    BY <1>1, <1>5, <1>8, <2>1 DEF KeyInv, KeysSeen
<1>10. HasParents(Registry)' /\ HasParents(view)'
  BY <1>5, <1>6 DEF KeyInv, HasParents
<1>11. MissingAreHeld(Registry)' /\ MissingAreHeld(view)'
  BY <1>1, <1>6, <1>7 DEF KeyInv, MissingAreHeld, HeldOpen, IsMissing
<1>12. Gone' /\ answer' \in Answers'
  BY <1>1 DEF KeyInv, Gone, Answers
<1> QED
  BY <1>1, <1>9, <1>10, <1>11, <1>12 DEF KeyInv

\* UnregisterServer deletes the filter's values and empty keys.
LEMMA UnregisterFilterKeys ==
  ASSUME TxInv, KeyInv, UnregisterFilter
  PROVE  KeyInv'
<1> DEFINE v1 == DeleteValues(view, FilterKeys)
           v2 == DeleteIfEmpty(v1, "InprocServer32")
<1>1. /\ view' = DeleteIfEmpty(v2, "Filter")
      /\ op = "UnregisterServer" /\ at = "filter handler" /\ at' = "commit"
      /\ ~doomed /\ doomed' = doomed
      /\ everythingDeleted' = (everythingDeleted /\ "Filter" \notin view'.keys)
      /\ UNCHANGED << vars, keys, extra, op, answer >>
  BY DEF UnregisterFilter, Works, Proceed
<1>a. view \in Registries /\ HasParents(view) /\ extra \subseteq view.keys
  BY <1>1 DEF TxInv, KeyInv, KeysSeen
<1>2. /\ v1 \in Registries /\ v1.keys = view.keys /\ HasParents(v1)
      /\ v1.clsid = view.clsid \ FilterValues
  BY <1>a, DeleteKeeps, DeleteOurs, ValuesOfKeys
<1> HIDE DEF v1
<1>3. /\ v2 \in Registries /\ HasParents(v2) /\ v2.clsid = v1.clsid
      /\ v2.keys = IF IsEmpty(v1, "InprocServer32")
                     THEN v1.keys \ {"InprocServer32"} ELSE v1.keys
      /\ extra \subseteq v2.keys
  BY <1>a, <1>2, CleanUpKeeps, CleanUpOurs
<1> HIDE DEF v2
<1>4. /\ HasParents(view') /\ view'.clsid = v2.clsid
      /\ view'.keys = IF IsEmpty(v2, "Filter") THEN v2.keys \ {"Filter"} ELSE v2.keys
      /\ extra \subseteq view'.keys
  BY <1>1, <1>3, CleanUpKeeps, CleanUpOurs
<1>6. Registry' = Registry
  BY <1>1 DEF Registry, vars
<1>7. ASSUME NEW k \in Required, IsMissing(view', {k}) PROVE HeldOpen(k)
  <2>1. k \in view'.keys /\ ~(Values[k] \subseteq view'.clsid)
    BY <1>7 DEF IsMissing
  <2>2. view'.keys \subseteq view.keys /\ view'.clsid = view.clsid \ FilterValues
    BY <1>2, <1>3, <1>4
  <2>3. "InprocServer32" \in v2.keys => "InprocServer32" \in extra
    BY <1>2, <1>3, Tree, ValuesAre DEF IsEmpty, FilterValues
  <2>4. CASE k = "InprocServer32"
    BY <1>4, <2>1, <2>3, <2>4 DEF HeldOpen
  <2>5. CASE k = "Filter"
    <3>1. ~IsEmpty(v2, "Filter")
      BY <1>4, <2>1, <2>5
    <3>2. "Filter" \in extra \/ "InprocServer32" \in v2.keys
      BY <1>2, <1>3, <3>1, Tree, ValuesAre DEF IsEmpty, FilterValues
    <3> QED
      BY <2>3, <2>5, <3>2, Tree DEF HeldOpen
  <2>6. CASE k = "IFilter"
    <3>1. Values[k] \cap FilterValues = {}
      BY <2>6, ValuesAre DEF FilterValues
    <3>2. IsMissing(view, {k})
      BY <2>1, <2>2, <3>1 DEF IsMissing
    <3> QED
      BY <3>2 DEF KeyInv, MissingAreHeld
  <2> QED
    BY <2>4, <2>5, <2>6, Tree
<1>8. KeysSeen'
  <2>1. OpenedKeys' = Keys
    BY <1>1 DEF OpenedKeys
  <2> QED
    BY <1>1, <1>4, <2>1 DEF KeysSeen
<1>9. HasParents(Registry)' /\ HasParents(view)'
  BY <1>4, <1>6 DEF KeyInv, HasParents
<1>10. MissingAreHeld(Registry)' /\ MissingAreHeld(view)'
  BY <1>1, <1>6, <1>7 DEF KeyInv, MissingAreHeld, HeldOpen, IsMissing
<1>11. "PersistentHandler" \notin view.keys =>
           "PersistentHandler" \notin view'.keys
  BY <1>2, <1>3, <1>4
<1>12. Gone' /\ answer' \in Answers'
  BY <1>1, <1>11 DEF KeyInv, Gone, Answers
<1> QED
  BY <1>1, <1>8, <1>9, <1>10, <1>12 DEF KeyInv

\* The extensions' steps leave our keys alone.
LEMMA ExtensionKeys ==
  ASSUME TxInv, KeyInv, NEW e \in Extensions,
         RegisterExtension(e) \/ UnregisterExtension(e)
  PROVE  KeyInv'
<1>1. view \in Registries
  BY DEF TxInv
<1>2. CASE RegisterExtension(e)
  <2>1. view'.keys = view.keys /\ view'.clsid = view.clsid
    <3> DEFINE opened == [view EXCEPT !.extKey[e] = Opened(@, "empty"),
                                      !.handler[e] = Opened(@, "unset")]
    <3>1. view' = Taken(opened, e)
      BY <1>2 DEF RegisterExtension, Proceed
    <3>2. opened.keys = view.keys /\ opened.clsid = view.clsid
      BY <1>1 DEF Registries
    <3>3. DOMAIN opened = {"extKey", "handler", "hasNull", "clsid", "keys"}
      BY <1>1 DEF Registries
    <3> HIDE DEF opened
    <3>4. view'.keys = opened.keys /\ view'.clsid = opened.clsid
      BY <3>1, <3>3 DEF Taken
    <3> QED
      BY <3>2, <3>4
  <2> QED
    BY <1>2, <2>1, KeysStay
       DEF RegisterExtension, Works, Proceed, KeyInv, vars
<1>3. CASE UnregisterExtension(e)
  <2>1. view'.keys = view.keys /\ view'.clsid = view.clsid
    <3> DEFINE clean == Cleaned(view, e)
    <3>1. view' = DeleteExtension(clean, e)
      BY <1>3 DEF UnregisterExtension, Proceed
    <3>2. /\ clean.keys = view.keys /\ clean.clsid = view.clsid
          /\ DOMAIN clean = {"extKey", "handler", "hasNull", "clsid", "keys"}
      BY <1>1 DEF Registries, Cleaned
    <3> HIDE DEF clean
    <3>3. view'.keys = clean.keys /\ view'.clsid = clean.clsid
      BY <3>1, <3>2 DEF DeleteExtension
    <3> QED
      BY <3>2, <3>3
  <2>2. everythingDeleted' \in BOOLEAN /\ (everythingDeleted' => everythingDeleted)
    BY <1>3 DEF UnregisterExtension, Proceed, IsDeleted, KeyInv
  <2> QED
    BY <1>3, <2>1, <2>2, KeysStay
       DEF UnregisterExtension, Works, Proceed, KeyInv, vars
<1> QED
  BY <1>2, <1>3

\* The operation ends with our keys as it has left them.
LEMMA EndKeys ==
  ASSUME TxInv, KeyInv,
         Commit \/ ReturnEarly \/ \E thrown \in Thrown : Throw(thrown)
  PROVE  KeyInv'
<1>1. /\ op' = "none" /\ at' = "commit" /\ view' = Registry'
      /\ doomed' = FALSE /\ everythingDeleted' = TRUE /\ extra' = extra
      /\ Registry'.keys = keys' /\ Registry'.clsid = clsid'
  BY DEF Commit, ReturnEarly, Throw, End, Registry
<1>2. answer' \in Answers'
  BY DEF Commit, ReturnEarly, Throw, End, Answers
<1>3. PICK v \in {view, Registry} :
        keys' = v.keys /\ clsid' = v.clsid /\ extra \subseteq v.keys
  BY DEF Commit, ReturnEarly, Throw, KeyInv, KeysSeen, Registry
<1>4. HasParents(v) /\ MissingAreHeld(v)
  BY DEF KeyInv
<1>5. HasParents(Registry)' /\ HasParents(view)'
  BY <1>1, <1>3, <1>4 DEF HasParents
<1>6. MissingAreHeld(Registry)' /\ MissingAreHeld(view)'
  BY <1>1, <1>3, <1>4 DEF MissingAreHeld, HeldOpen, IsMissing
<1>7. KeysSeen' /\ Gone' /\ extra' \subseteq keys'
  BY <1>1, <1>3 DEF KeysSeen, Gone
<1> QED
  BY <1>1, <1>2, <1>5, <1>6, <1>7 DEF KeyInv

\* Others change an extension, or 7z.dll is replaced.
LEMMA OthersKeys ==
  ASSUME TxInv, KeyInv, OthersChange \/ ReplacesLibrary
  PROVE  KeyInv'
<1>1. CASE OthersChange
  <2>1. PICK e \in Extensions : Sees(e) /\ clsid' = clsid
    BY <1>1 DEF OthersChange, SetsHandler, DeletesHandler
  <2>2. /\ UNCHANGED << keys, extra, op, at, answer, everythingDeleted >>
        /\ doomed' = doomed \/ doomed' = TRUE
    BY <2>1 DEF Sees
  <2>3. view'.keys = view.keys /\ view'.clsid = view.clsid
    <3>1. view \in Registries
      BY DEF TxInv
    <3>2. CASE IsOpened(e)
      BY <2>1, <3>2 DEF Sees
    <3>3. CASE ~IsOpened(e)
      <4>1. view' = [view EXCEPT !.extKey[e] = extKey'[e],
                                 !.handler[e] = handler'[e],
                                 !.hasNull[e] = hasNull'[e]]
        BY <2>1, <3>3 DEF Sees
      <4> QED
        BY <3>1, <4>1 DEF Registries
    <3> QED
      BY <3>2, <3>3
  <2> QED
    BY <2>1, <2>2, <2>3, KeysStay DEF KeyInv
<1>2. CASE ReplacesLibrary
  BY <1>2, KeysStay DEF ReplacesLibrary, Replaces7Zip, transaction, KeyInv
<1> QED
  BY <1>1, <1>2

\* Others put something into one of our keys: if the transaction has opened
\* it, it is doomed, otherwise it sees the key.
LEMMA AddsToKeys ==
  ASSUME TxInv, KeyInv, NEW k \in Keys, AddsTo(k)
  PROVE  KeyInv'
<1>1. /\ k \in keys /\ extra' = extra \cup {k}
      /\ doomed' = (doomed \/ k \in OpenedKeys)
      /\ UNCHANGED << vars, keys, op, at, todo, view, everythingDeleted, answer >>
  BY DEF AddsTo
<1>2. Registry' = Registry
  BY <1>1 DEF Registry, vars
<1>3. OpenedKeys' = OpenedKeys
  BY <1>1 DEF OpenedKeys
<1>4. ~doomed' => KeysSeen'
  BY <1>1, <1>3 DEF KeyInv, KeysSeen
<1>5. HasParents(Registry)' /\ HasParents(view)'
  BY <1>1, <1>2 DEF KeyInv, HasParents
<1>6. Gone' /\ answer' \in Answers' /\ doomed' \in BOOLEAN
  BY <1>1 DEF KeyInv, Gone, Answers
<1>7. MissingAreHeld(Registry)' /\ MissingAreHeld(view)'
  BY <1>1, <1>2 DEF KeyInv, MissingAreHeld, HeldOpen, IsMissing
<1> QED
  BY <1>1, <1>4, <1>5, <1>6, <1>7 DEF KeyInv

\* Initially none of our keys is there.
LEMMA KeysInit == TxInit => KeyInv
<1> SUFFICES ASSUME TxInit PROVE KeyInv
  OBVIOUS
<1>1. Registry.keys = {} /\ Registry.clsid = {} /\ view = Registry
  BY DEF TxInit, Init, Registry
<1>2. HasParents(Registry) /\ MissingAreHeld(Registry)
  BY <1>1 DEF HasParents, MissingAreHeld, IsMissing
<1> QED
  BY <1>1, <1>2 DEF TxInit, KeyInv, KeysSeen, Gone, Answers, OpenedKeys

\* Every step keeps our keys.
LEMMA KeysStep ==
  ASSUME TxInv, KeyInv, [TxNext]_txVars
  PROVE  KeyInv'
<1>1. CASE UNCHANGED txVars
  BY <1>1, KeysStay DEF txVars, vars, transaction, KeyInv
<1> QED
  BY <1>1, BeginKeys, RegisterKeys, UnregisterHandlerKeys,
     UnregisterFilterKeys, ExtensionKeys, EndKeys, OthersKeys, AddsToKeys
     DEF TxNext, Step

\* The invariant of our keys holds.
THEOREM KeyInvariance == TxSpec => []KeyInv
  BY KeysInit, KeysStep, TxInvariance, PTL DEF TxSpec

\* Every variable has its type at every step of a transaction, and no key of
\* ours outlives its parent.
THEOREM TxTypeCorrect == TxSpec => []TxTypeOK
<1>1. TxInv /\ KeyInv => TxTypeOK
  <2> SUFFICES ASSUME TxInv, KeyInv PROVE TxTypeOK
    OBVIOUS
  <2>1. Registry.keys = keys /\ Registry.clsid = clsid
    BY DEF Registry
  <2>2. at \in {"extensions", "persistent handler", "filter handler", "commit"}
    BY DEF TxInv, Control, KeyInv
  <2> QED
    BY <2>1, <2>2 DEF TxInv, Control, KeyInv, HasParents, TxTypeOK, Answers
<1> QED
  BY <1>1, TxInvariance, KeyInvariance, PTL

\* A key of ours whose values are missing, for which UnregisterServer would
\* fail whenever it is repeated, is one into which, or into a key below which,
\* others have put something; no other key ever stops it.
THEOREM Repeatable == TxSpec => []CanBeRepeated
<1>1. KeyInv => CanBeRepeated
  BY DEF KeyInv, CanBeRepeated, MissingAreHeld
<1> QED
  BY <1>1, KeyInvariance, PTL

\* An operation ends with its commit or with a failure.
LEMMA Ends ==
  ASSUME TxInv, TxNext, op # "none", op' = "none"
  PROVE  \/ Commit /\ answer' = (IF everythingDeleted THEN S_OK ELSE S_FALSE)
         \/ ReturnEarly /\ answer' = S_OK
         \/ \E thrown \in Thrown : Throw(thrown) /\ Failed(answer')
<1>1. Commit \/ ReturnEarly \/ \E thrown \in Thrown : Throw(thrown)
  BY DEF TxNext, transaction, Step, BeginTransaction, Works, Proceed,
     RegisterFilter, RegisterHandler, UnregisterHandler, UnregisterFilter,
     RegisterExtension, UnregisterExtension, OthersChange, Sees, AddsTo,
     ReplacesLibrary
<1> QED
  BY <1>1, ThrownFails DEF Commit, ReturnEarly, Throw, End

\* Once something was not deleted it is there: the handler of an extension
\* that was come to, or one of the keys on top.
Left ==
    /\ op = "none" => everythingDeleted
    /\ op = "UnregisterServer" /\ ~everythingDeleted /\ ~doomed =>
           \/ \E e \in formats \ todo : view.handler[e] # "absent"
           \/ at \in {"filter handler", "commit"} /\ "PersistentHandler" \in view.keys
           \/ at = "commit" /\ "Filter" \in view.keys

\* An extension is come to: others are left alone.
LEMMA ExtensionLeft ==
  ASSUME TxInv, Left, NEW e \in Extensions, UnregisterExtension(e) PROVE Left'
<1> DEFINE clean == Cleaned(view, e)
           new == DeleteExtension(clean, e)
<1>1. /\ view' = new /\ e \in todo /\ todo' = todo \ {e} /\ e \in formats
      /\ op = "UnregisterServer" /\ at = "extensions" /\ ~doomed
      /\ everythingDeleted' = (everythingDeleted /\ IsDeleted(new, e))
      /\ UNCHANGED << formats, op, at, doomed >>
  BY DEF UnregisterExtension, Works, Proceed, vars, TxInv, Control
<1>2. \A d \in Extensions \ {e} : new.handler[d] = view.handler[d]
  <2>1. view \in Registries
    BY DEF TxInv
  <2>2. /\ \A d \in Extensions \ {e} : clean.handler[d] = view.handler[d]
        /\ DOMAIN clean = {"extKey", "handler", "hasNull", "clsid", "keys"}
        /\ DOMAIN clean.handler = Extensions
    BY <2>1 DEF Registries, Cleaned
  <2> HIDE DEF clean
  <2> QED
    BY <2>2 DEF DeleteExtension
<1> HIDE DEF new
<1>3. formats \subseteq Extensions
  BY DEF TxInv, TypeOK
<1>4. CASE everythingDeleted
  BY <1>1, <1>4 DEF Left, IsDeleted
<1>5. CASE ~everythingDeleted
  <2>1. PICK d \in formats \ todo : view.handler[d] # "absent"
    BY <1>1, <1>5 DEF Left
  <2>2. d # e /\ d \in formats' \ todo' /\ view'.handler[d] # "absent"
    BY <1>1, <1>2, <1>3, <2>1
  <2> QED
    BY <1>1, <2>2 DEF Left
<1> QED
  BY <1>4, <1>5

\* The steps below CLSID leave the extensions alone.
LEMMA KeysLeft ==
  ASSUME TxInv, Left, UnregisterHandler \/ UnregisterFilter PROVE Left'
<1>1. view \in Registries
  BY DEF TxInv
<1>2. CASE UnregisterHandler
  <2> DEFINE v1 == DeleteValues(view, {"IFilter"})
             v2 == DeleteIfEmpty(v1, "IFilter")
             v3 == DeleteIfEmpty(v2, "PersistentAddinsRegistered")
  <2>1. /\ view' = DeleteIfEmpty(v3, "PersistentHandler")
        /\ op = "UnregisterServer" /\ at = "extensions" /\ at' = "filter handler"
        /\ everythingDeleted' =
               (everythingDeleted /\ "PersistentHandler" \notin view'.keys)
        /\ UNCHANGED << formats, todo, op, doomed >>
    BY <1>2 DEF UnregisterHandler, Works, Proceed, vars
  <2>2. v1 \in Registries /\ v1.handler = view.handler
    BY <1>1, DeleteKeeps
  <2> HIDE DEF v1
  <2>3. v2 \in Registries /\ v2.handler = v1.handler
    BY <2>2, CleanUpKeeps
  <2> HIDE DEF v2
  <2>4. v3 \in Registries /\ v3.handler = v2.handler
    BY <2>3, CleanUpKeeps
  <2> HIDE DEF v3
  <2>5. view'.handler = view.handler
    BY <2>1, <2>2, <2>3, <2>4, CleanUpKeeps
  <2> QED
    BY <2>1, <2>5 DEF Left
<1>3. CASE UnregisterFilter
  <2> DEFINE v1 == DeleteValues(view, FilterKeys)
             v2 == DeleteIfEmpty(v1, "InprocServer32")
  <2>1. /\ view' = DeleteIfEmpty(v2, "Filter")
        /\ op = "UnregisterServer" /\ at = "filter handler" /\ at' = "commit"
        /\ everythingDeleted' = (everythingDeleted /\ "Filter" \notin view'.keys)
        /\ UNCHANGED << formats, todo, op, doomed >>
    BY <1>3 DEF UnregisterFilter, Works, Proceed, vars
  <2>2. v1 \in Registries /\ v1.handler = view.handler /\ v1.keys = view.keys
    BY <1>1, DeleteKeeps DEF DeleteValues, Registries
  <2> HIDE DEF v1
  <2>3. /\ v2 \in Registries /\ v2.handler = v1.handler
        /\ v2.keys \in {v1.keys, v1.keys \ {"InprocServer32"}}
    BY <2>2, CleanUpKeeps DEF DeleteIfEmpty, Registries
  <2> HIDE DEF v2
  <2>4. /\ view'.handler = view.handler
        /\ view'.keys \in {v2.keys, v2.keys \ {"Filter"}}
    BY <2>1, <2>2, <2>3, CleanUpKeeps DEF DeleteIfEmpty, Registries
  <2>5. "PersistentHandler" \in view.keys => "PersistentHandler" \in view'.keys
    BY <2>2, <2>3, <2>4
  <2> QED
    BY <2>1, <2>4, <2>5 DEF Left
<1> QED
  BY <1>2, <1>3

\* Others change an extension: one that was come to dooms the transaction.
LEMMA OthersLeft ==
  ASSUME TxInv, Left, OthersChange PROVE Left'
<1>1. PICK e \in Extensions : Sees(e) /\ formats' = formats
  BY DEF OthersChange, SetsHandler, DeletesHandler
<1>2. UNCHANGED << op, at, todo, everythingDeleted >>
  BY <1>1 DEF Sees
<1>3. CASE IsOpened(e)
  <2>1. doomed'
    BY <1>1, <1>3 DEF Sees
  <2>2. op' = "none" => everythingDeleted'
    BY <1>2 DEF Left
  <2> QED
    BY <2>1, <2>2 DEF Left
<1>4. CASE ~IsOpened(e)
  <2>1. /\ UNCHANGED doomed
        /\ view' = [view EXCEPT !.extKey[e] = extKey'[e],
                                !.handler[e] = handler'[e],
                                !.hasNull[e] = hasNull'[e]]
    BY <1>1, <1>4 DEF Sees
  <2>2. /\ view'.keys = view.keys
        /\ \A d \in Extensions \ {e} : view'.handler[d] = view.handler[d]
    BY <2>1 DEF TxInv, Registries
  <2>3. op # "none" => e \notin formats \ todo
    BY <1>4 DEF IsOpened
  <2>4. formats \subseteq Extensions
    BY DEF TxInv, TypeOK
  <2> QED
    BY <1>1, <1>2, <2>1, <2>2, <2>3, <2>4 DEF Left
<1> QED
  BY <1>3, <1>4

\* Every step keeps what is left.
LEMMA LeftStep == ASSUME TxInv, Left, [TxNext]_txVars PROVE Left'
<1>1. CASE UNCHANGED txVars
  BY <1>1 DEF txVars, vars, transaction, Left
<1>2. ASSUME NEW o \in {"RegisterServer", "UnregisterServer"}, BeginTransaction(o)
      PROVE  Left'
  BY <1>2 DEF BeginTransaction, Left
<1>3. CASE RegisterFilter \/ RegisterHandler
  BY <1>3 DEF RegisterFilter, RegisterHandler, Works, Proceed, Left
<1>4. ASSUME NEW e \in Extensions, RegisterExtension(e) PROVE Left'
  BY <1>4 DEF RegisterExtension, Works, Proceed, Left
<1>5. CASE Commit \/ ReturnEarly \/ \E thrown \in Thrown : Throw(thrown)
  BY <1>5 DEF Commit, ReturnEarly, Throw, End, Left
<1>6. ASSUME NEW k \in Keys, AddsTo(k) PROVE Left'
  BY <1>6 DEF AddsTo, vars, Left
<1>7. CASE ReplacesLibrary
  BY <1>7 DEF ReplacesLibrary, transaction, Left
<1> QED
  BY <1>1, <1>2, <1>3, <1>4, <1>5, <1>6, <1>7, ExtensionLeft, KeysLeft, OthersLeft
     DEF TxNext, Step

\* What was not deleted is there.
THEOREM LeftInvariance == TxSpec => []Left
<1>1. TxInit => Left
  BY DEF TxInit, Left
<1> QED
  BY <1>1, LeftStep, TxInvariance, PTL DEF TxSpec

\* Nothing of ours is left if both keys on top are gone.
LEMMA NothingLeft ==
  ASSUME NEW v \in Registries, HasParents(v),
         "PersistentHandler" \notin v.keys, "Filter" \notin v.keys
  PROVE  v.keys = {} /\ v.clsid = {}
<1>1. v.keys \subseteq Keys /\ v.clsid \subseteq HandlerValues \cup FilterValues
  BY DEF Registries
<1>2. v.keys = {}
  BY <1>1, Tree DEF HasParents
<1>3. \A k \in Keys : Values[k] \cap v.clsid = {}
  BY <1>2 DEF HasParents
<1> QED
  BY <1>1, <1>2, <1>3, Tree, ValuesAre DEF HandlerValues, FilterValues

\* What regsvr32 is told is true: success means that all formats have a
\* handler, S_OK that nothing of ours is left, S_FALSE that something of what
\* was to be cleaned up is, a failure that nothing changed.
THEOREM AnswersAreTrue == TxSpec => AnswerIsTrue
<1> DEFINE True ==
        /\ Failed(answer') => Registry' = Registry
        /\ op = "RegisterServer" /\ ~Failed(answer') =>
               /\ clsid' = HandlerValues \cup FilterValues
               /\ \A e \in formats : handler'[e] \in {"ours", "other"}
        /\ op = "UnregisterServer" /\ answer' = S_OK =>
               /\ keys' = {} /\ clsid' = {}
               /\ \A e \in formats : handler'[e] # "ours" /\ ~hasNull'[e]
        /\ op = "UnregisterServer" /\ answer' = S_FALSE =>
               keys' # {} \/ \E e \in formats : handler'[e] # "absent"
<1>1. ASSUME TxInv, KeyInv, Left, TxNext, op # "none", op' = "none" PROVE True
  <2>1. ~Failed(S_OK) /\ ~Failed(S_FALSE) /\ S_OK # S_FALSE
    BY DEF Failed, S_OK, S_FALSE
  <2>2. CASE \E thrown \in Thrown : Throw(thrown) /\ Failed(answer')
    BY <2>1, <2>2 DEF Throw, Registry
  <2>4. CASE ReturnEarly /\ answer' = S_OK
    <3>1. /\ op = "UnregisterServer" /\ view.keys = {} /\ ~doomed
          /\ at = "extensions"
          /\ UNCHANGED << handler, hasNull, clsid, keys >>
      BY <2>4 DEF ReturnEarly, FindsNoClasses, Works
    <3>2. OpenedKeys = {}
      BY <3>1 DEF OpenedKeys
    <3>3. Registry.keys = keys /\ Registry.clsid = clsid /\ Registry \in Registries
      BY <1>1, RegistryType DEF TxInv, Control
    <3>4. keys = {}
      BY <1>1, <3>1, <3>2 DEF TxInv, Control, KeyInv, KeysSeen
    <3>5. clsid = {}
      BY <1>1, <3>3, <3>4, NothingLeft DEF KeyInv
    <3>6. \A e \in formats : handler[e] = "absent" /\ ~hasNull[e]
      BY <1>1, <2>4, NothingThere DEF TxInv, TypeOK
    <3> QED
      BY <2>1, <2>4, <3>1, <3>4, <3>5, <3>6
  <2>3. CASE Commit /\ answer' = (IF everythingDeleted THEN S_OK ELSE S_FALSE)
    <3>1. ~Failed(answer')
      BY <2>1, <2>3
    <3>2. ASSUME op = "RegisterServer"
          PROVE  /\ clsid' = HandlerValues \cup FilterValues
                 /\ \A e \in formats : handler'[e] \in {"ours", "other"}
      <4>1. RegisterServer /\ TypeOK
        BY <1>1, <2>3, <3>2, CommitImplements DEF TxInv
      <4>2. clsid \subseteq HandlerValues \cup FilterValues
        BY <4>1 DEF TypeOK
      <4>3. \A e \in formats : /\ e \in Extensions
                               /\ handler[e] \in Foreign \cup {"absent", "ours"}
        BY <4>1 DEF TypeOK
      <4> QED
        BY <4>1, <4>2, <4>3 DEF RegisterServer, Takes, IsGuid, Foreign
    <3>3. ASSUME op = "UnregisterServer", answer' = S_OK
          PROVE  /\ keys' = {} /\ clsid' = {}
                 /\ \A e \in formats : handler'[e] # "ours" /\ ~hasNull'[e]
      <4>1. UnregisterServer /\ TypeOK
        BY <1>1, <2>3, <3>3, CommitImplements DEF TxInv
      <4>2. everythingDeleted /\ at = "commit"
        BY <2>1, <2>3, <3>3 DEF Commit
      <4>3. view.keys = {} /\ view.clsid = {}
        BY <1>1, <3>3, <4>2, NothingLeft DEF TxInv, KeyInv, Gone
      <4>4. \A e \in formats : handler'[e] # "ours" /\ ~hasNull'[e]
        BY <4>1 DEF UnregisterServer, TypeOK, Remaining, Restored
      <4> QED
        BY <2>3, <4>3, <4>4 DEF Commit
    <3>4. ASSUME op = "UnregisterServer", answer' = S_FALSE
          PROVE  keys' # {} \/ \E e \in formats : handler'[e] # "absent"
      <4>1. /\ ~everythingDeleted /\ at = "commit" /\ todo = {} /\ ~doomed
            /\ keys' = view.keys /\ handler' = view.handler
        BY <2>1, <2>3, <3>4 DEF Commit
      <4> QED
        BY <1>1, <3>4, <4>1 DEF Left
    <3> QED
      BY <3>1, <3>2, <3>3, <3>4
  <2> QED
    BY <1>1, <2>2, <2>3, <2>4, Ends
<1>2. TxInv /\ KeyInv /\ Left /\ [TxNext]_txVars =>
        [op # "none" /\ op' = "none" => True]_txVars
  BY <1>1
<1> QED
  BY <1>2, TxInvariance, KeyInvariance, LeftInvariance, PTL DEF TxSpec, AnswerIsTrue
=============================================================================
