----------------------------- MODULE ComObject -----------------------------
(***************************************************************************)
(* The life of the library's COM objects (src/native/com.cpp), its class   *)
(* factory with LockServer (src/com/ClassFactory.cpp) and DllCanUnloadNow  *)
(* (src/iFilter4Archives.cpp).                                             *)
(*                                                                         *)
(* Threads of the host get class factories, create filters, stand-alone or *)
(* aggregated in an object of their own, add and release references and    *)
(* lock the server.  Reference counts and the object count are atomic, the *)
(* locked factory is under a mutex; between two of these steps any other   *)
(* thread may run.  An object's identity is free again once its memory is. *)
(***************************************************************************)
EXTENDS Naturals, FiniteSets

CONSTANTS
    Threads,   \* of the host
    Objects,   \* identities of com::unknown and the object it owns
    None,
    MaxHeld,   \* bound on the references a thread holds of one object
    MaxLocks   \* bound on the locks at one time

ASSUME ComObjectAssumption ==
    /\ None \notin Threads \cup Objects
    /\ IsFiniteSet(Threads)
    /\ MaxHeld \in Nat \ {0} /\ MaxLocks \in Nat

VARIABLES
    kind,           \* of an object: "none", "factory", "filter"; an aggregated
                    \* filter is an "inner"
    alive,          \* its unknown has been made and not been deleted
    refCount,       \* unknown::_ref_count
    outerCount,     \* of an inner: references of the host's outer object
    objectCount,    \* _object_count
    lockCount,      \* _lockCount
    lockedFactory,  \* _lockedFactory
    mutex,          \* who holds _mutex
    thread,         \* what a thread does, and with which object
    held            \* history: the references each thread holds

vars == << kind, alive, refCount, outerCount, objectCount, lockCount,
           lockedFactory, mutex, thread, held >>
server == << lockCount, lockedFactory, mutex >>
objects == << kind, alive, refCount, outerCount, objectCount >>

Idle == [pc |-> "idle", obj |-> None]
At(pc, o) == [pc |-> pc, obj |-> o]

Init ==
    /\ kind = [o \in Objects |-> "none"]
    /\ alive = [o \in Objects |-> FALSE]
    /\ refCount = [o \in Objects |-> 0]
    /\ outerCount = [o \in Objects |-> 0]
    /\ objectCount = 0
    /\ lockCount = 0 /\ lockedFactory = None /\ mutex = None
    /\ thread = [t \in Threads |-> Idle]
    /\ held = [t \in Threads |-> [o \in Objects |-> 0]]

Goes(t, to) == thread' = [thread EXCEPT ![t] = to]
Holds(t, o, n) == held' = [held EXCEPT ![t][o] = @ + n]

-----------------------------------------------------------------------------
(* com::unknown and com::object.                                           *)

\* object::create: the thread gets the first reference.  An inner's own is
\* its outer's, and the thread's is the outer's.
Create(t, k) ==
    \E o \in Objects :
        /\ kind[o] = "none"
        /\ kind' = [kind EXCEPT ![o] = k]
        /\ alive' = [alive EXCEPT ![o] = TRUE]
        /\ refCount' = [refCount EXCEPT ![o] = 1]
        /\ outerCount' = [outerCount EXCEPT ![o] = IF k = "inner" THEN 1 ELSE 0]
        /\ objectCount' = objectCount + 1
        /\ Holds(t, o, 1)

\* AddRef; COM_CLASS forwards it to the outer object.
CountUp(o) ==
    IF kind[o] = "inner"
      THEN /\ outerCount' = [outerCount EXCEPT ![o] = @ + 1]
           /\ UNCHANGED refCount
      ELSE /\ refCount' = [refCount EXCEPT ![o] = @ + 1]
           /\ UNCHANGED outerCount

\* Mutant: an inner that loses a reference is deleted.
IsLastOfIts(o) == refCount[o] = 1

\* The last reference; an outer object without any releases its inner.
IsLast(o) == IF kind[o] = "inner" THEN outerCount[o] = 1 ELSE refCount[o] = 1

\* Release: --_ref_count.
CountDown(o) ==
    /\ outerCount' = [outerCount EXCEPT ![o] = IF kind[o] = "inner" THEN @ - 1
                                               ELSE @]
    /\ refCount' = [refCount EXCEPT ![o] = IF kind[o] # "inner" \/ IsLast(o)
                                             THEN @ - 1 ELSE @]

\* Where a thread is after Release: it deletes the object if it was the last.
AfterRelease(o) == IF IsLast(o) THEN At("delete", o) ELSE Idle

\* ~unknown: _object_count--, before the members are destroyed.
Delete(t) ==
    LET o == thread[t].obj
    IN /\ thread[t].pc = "delete"
       /\ objectCount' = objectCount - 1
       /\ alive' = [alive EXCEPT ![o] = FALSE]
       /\ Goes(t, At("destroy", o))
       /\ UNCHANGED << kind, refCount, outerCount, server, held >>

\* The members, the object itself among them, are destroyed; LockServer, if
\* it was the caller, then leaves its lock.
Destroy(t) ==
    /\ thread[t].pc = "destroy"
    /\ kind' = [kind EXCEPT ![thread[t].obj] = "none"]
    /\ mutex' = IF mutex = t THEN None ELSE mutex
    /\ Goes(t, Idle)
    /\ UNCHANGED << alive, refCount, outerCount, objectCount, lockCount,
                    lockedFactory, held >>

-----------------------------------------------------------------------------
(* The host calls; a caller holds a reference to what it calls.            *)

\* QueryInterface and AddRef of the host.
AddRef(t, o) ==
    /\ thread[t] = Idle /\ held[t][o] \in 1 .. MaxHeld - 1
    /\ CountUp(o)
    /\ Holds(t, o, 1)
    /\ UNCHANGED << kind, alive, objectCount, server, thread >>

Release(t, o) ==
    /\ thread[t] = Idle /\ held[t][o] > 0
    /\ CountDown(o)
    /\ held' = [held EXCEPT ![t][o] = @ - 1]
    /\ Goes(t, AfterRelease(o))
    /\ UNCHANGED << kind, alive, objectCount, server >>

\* A reference is handed to another thread.
Hand(t, u, o) ==
    /\ t # u /\ thread[t] = Idle
    /\ held[t][o] > 0 /\ held[u][o] < MaxHeld
    /\ held' = [held EXCEPT ![t][o] = @ - 1, ![u][o] = @ + 1]
    /\ UNCHANGED << objects, server, thread >>

\* CreateInstance.  (An aggregate that does not ask for IUnknown, and any that
\* asks for an unknown interface, gets an error and no unknown is made.)
CreateInstance(t, f) ==
    /\ thread[t] = Idle
    /\ kind[f] = "factory" /\ held[t][f] > 0
    /\ Create(t, "filter") \/ Create(t, "inner")
    /\ UNCHANGED << server, thread >>

\* Mutant: the pointer is copied as it is.
CopyUncounted(t) ==
    /\ thread[t] = Idle
    /\ mutex = None
    /\ Goes(t, IF lockedFactory = None THEN At("make", None)
               ELSE At("query", lockedFactory))
    /\ UNCHANGED << objects, server, held >>

\* GetClassObject: a counted copy of the locked factory, under the lock.
CopyFactory(t) ==
    /\ thread[t] = Idle
    /\ mutex = None
    /\ IF lockedFactory = None
         THEN Goes(t, At("make", None)) /\ UNCHANGED << refCount, outerCount >>
         ELSE Goes(t, At("query", lockedFactory)) /\ CountUp(lockedFactory)
    /\ UNCHANGED << kind, alive, objectCount, server, held >>

\* The lock is left; QueryInterface, which may not know the interface.
QueryFactory(t) ==
    LET f == thread[t].obj
    IN /\ thread[t].pc = "query"
       /\ Goes(t, At("drop", f))
       /\ \/ held[t][f] < MaxHeld /\ CountUp(f) /\ Holds(t, f, 1)
          \/ UNCHANGED << refCount, outerCount, held >>
       /\ UNCHANGED << kind, alive, objectCount, server >>

\* The copy is released on return.
DropCopy(t) ==
    LET f == thread[t].obj
    IN /\ thread[t].pc = "drop"
       /\ CountDown(f)
       /\ Goes(t, AfterRelease(f))
       /\ UNCHANGED << kind, alive, objectCount, server, held >>

\* There is no locked factory: a new one, unless the interface is unknown or
\* there is no memory.
MakeFactory(t) ==
    /\ thread[t].pc = "make"
    /\ Goes(t, Idle)
    /\ Create(t, "factory") \/ UNCHANGED << objects, held >>
    /\ UNCHANGED server

\* LockServer(TRUE): the first lock keeps the factory it is called on.
Lock(t, f) ==
    /\ thread[t] = Idle
    /\ kind[f] = "factory" /\ held[t][f] > 0
    /\ mutex = None
    /\ lockCount < MaxLocks
    /\ IF lockedFactory = None THEN lockedFactory' = f /\ CountUp(f)
       ELSE UNCHANGED << lockedFactory, refCount, outerCount >>
    /\ lockCount' = lockCount + 1
    /\ UNCHANGED << kind, alive, objectCount, mutex, thread, held >>

\* Mutant: any unlock releases the factory.
AnyUnlock == TRUE

\* --_lockCount == 0
LastUnlock == lockCount = 1

IsLocked == lockedFactory # None

\* LockServer(FALSE), of any factory; without a lock it fails and does nothing.
\* The last unlock releases the locked factory while the lock is held.
Unlock(t, f) ==
    /\ thread[t] = Idle
    /\ kind[f] = "factory" /\ held[t][f] > 0
    /\ mutex = None
    /\ IsLocked
    /\ lockCount' = lockCount - 1
    /\ IF LastUnlock
         THEN /\ lockedFactory' = None
              /\ CountDown(lockedFactory)
              /\ Goes(t, AfterRelease(lockedFactory))
              /\ mutex' = IF IsLast(lockedFactory) THEN t ELSE None
         ELSE UNCHANGED << lockedFactory, refCount, outerCount, thread, mutex >>
    /\ UNCHANGED << kind, alive, objectCount, held >>

\* DllCanUnloadNow
CanUnloadNow == objectCount = 0

Next ==
    \E t \in Threads :
        \/ \E o \in Objects : AddRef(t, o) \/ Release(t, o) \/ CreateInstance(t, o)
                              \/ Lock(t, o) \/ Unlock(t, o)
        \/ \E o \in Objects, u \in Threads : Hand(t, u, o)
        \/ CopyFactory(t) \/ QueryFactory(t) \/ DropCopy(t) \/ MakeFactory(t)
        \/ Delete(t) \/ Destroy(t)

Spec == Init /\ [][Next]_vars

-----------------------------------------------------------------------------
\* The threads with a copy of an object in a call of GetClassObject.
Copying(o) ==
    {t \in Threads : thread[t].obj = o /\ thread[t].pc \in {"query", "drop"}}

\* The references to an object that somebody may use: those the threads hold,
\* the copies, and the lock's.
References(o) ==
    {r \in Threads \X (1 .. MaxHeld) : r[2] <= held[r[1]][o]}
    \cup Copying(o) \X {0}
    \cup (IF lockedFactory = o THEN {<< None, 0 >>} ELSE {})

InUse(o) == Cardinality(References(o))

\* Counts are exact: an object lives as long as it is referenced, by threads,
\* by a GetClassObject under way, by the lock or, if it is an inner, by
\* references to its outer object; and not a moment longer.
CountsAreExact ==
    /\ objectCount = Cardinality({o \in Objects : alive[o]})
    /\ \A o \in Objects :
           /\ InUse(o) = IF kind[o] = "inner" THEN outerCount[o] ELSE refCount[o]
           /\ InUse(o) > 0 => alive[o]
           /\ InUse(o) = 0 /\ alive[o] =>
                  \E t \in Threads : thread[t] = At("delete", o)

\* DllCanUnloadNow never says yes while the host has a reference, a
\* GetClassObject under way has a factory, or the server is locked.
NoUnloadWhileUsed ==
    CanUnloadNow => lockCount = 0 /\ \A o \in Objects : InUse(o) = 0

\* As long as there are more locks than unlocks there is one factory that
\* GetClassObject gives out, and it cannot go, even if everybody releases it.
LockKeepsFactory ==
    /\ lockCount > 0 <=> lockedFactory # None
    /\ lockedFactory # None =>
           alive[lockedFactory] /\ kind[lockedFactory] = "factory"
=============================================================================
