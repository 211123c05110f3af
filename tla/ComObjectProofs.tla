--------------------------- MODULE ComObjectProofs ---------------------------
(***************************************************************************)
(* Proofs about ComObject, for any number of threads, objects, references  *)
(* and locks.                                                              *)
(*                                                                         *)
(* The counts are compared with the set of References: every step adds one *)
(* reference to one object's set, removes one, exchanges one, or leaves    *)
(* all sets alone, and does the same to the object's count.  The invariant *)
(* says beside it who may be deleting an object: one thread, and only one  *)
(* that nobody has a reference to.                                         *)
(***************************************************************************)
EXTENDS ComObject, TLAPS, FiniteSetTheorems

Pcs == {"idle", "make", "query", "drop", "delete", "destroy"}

\* A thread is busy with an object unless it makes one.
ThreadStates ==
    {Idle, At("make", None)}
    \cup {At(pc, o) : pc \in {"query", "drop", "delete", "destroy"},
                      o \in Objects}

TypeOK ==
    /\ kind \in [Objects -> {"none", "factory", "filter", "inner"}]
    /\ alive \in [Objects -> BOOLEAN]
    /\ refCount \in [Objects -> Nat]
    /\ outerCount \in [Objects -> Nat]
    /\ objectCount \in Nat
    /\ lockCount \in Nat
    /\ lockedFactory \in Objects \cup {None}
    /\ mutex \in Threads \cup {None}
    /\ thread \in [Threads -> ThreadStates]
    /\ held \in [Threads -> [Objects -> 0 .. MaxHeld]]

\* The references an object knows of.
Count(o) == IF kind[o] = "inner" THEN outerCount[o] ELSE refCount[o]

\* An outer object has one reference to its inner.
Counted ==
    \A o \in Objects :
        /\ InUse(o) = Count(o)
        /\ InUse(o) > 0 => alive[o]
        /\ alive[o] => kind[o] # "none"
        /\ kind[o] = "inner" =>
               refCount[o] = IF outerCount[o] > 0 THEN 1 ELSE 0

Deletes(t, o) == thread[t] \in {At("delete", o), At("destroy", o)}

\* An object is deleted by one thread, once nobody has a reference.
Deleted ==
    \A o \in Objects :
        /\ \A t \in Threads :
             /\ thread[t] = At("delete", o) => alive[o] /\ InUse(o) = 0
             /\ thread[t] = At("destroy", o) => ~alive[o] /\ kind[o] # "none"
             /\ Deletes(t, o) => \A u \in Threads : Deletes(u, o) => u = t
        /\ InUse(o) = 0 /\ alive[o] =>
               \E t \in Threads : thread[t] = At("delete", o)

Alive == {o \in Objects : alive[o]}

ObjectsCounted == IsFiniteSet(Alive) /\ objectCount = Cardinality(Alive)

Locked ==
    /\ lockCount > 0 <=> lockedFactory # None
    /\ lockedFactory # None => kind[lockedFactory] = "factory"

IInv == TypeOK /\ Counted /\ Deleted /\ ObjectsCounted /\ Locked

-----------------------------------------------------------------------------
(* Counting the references to an object.                                   *)

\* There are finitely many references.
LEMMA FiniteReferences ==
  ASSUME NEW o \in Objects
  PROVE  /\ IsFiniteSet(References(o)) /\ InUse(o) \in Nat
         /\ IsFiniteSet(References(o)') /\ InUse(o)' \in Nat
<1> DEFINE All == (Threads \cup {None}) \X (0 .. MaxHeld)
<1>1. IsFiniteSet(Threads \cup {None}) /\ IsFiniteSet(0 .. MaxHeld)
  BY ComObjectAssumption, FS_AddElement, FS_Interval
<1>2. IsFiniteSet(All)
  BY <1>1, FS_Product
<1>3. References(o) \subseteq All /\ References(o)' \subseteq All
  BY ComObjectAssumption DEF References, Copying
<1> QED
  BY <1>2, <1>3, FS_Subset, FS_CardinalityType DEF InUse

OneMore(o) ==
    /\ InUse(o)' = InUse(o) + 1
    /\ \A p \in Objects \ {o} : InUse(p)' = InUse(p)

OneLess(o) ==
    /\ InUse(o)' = InUse(o) - 1
    /\ \A p \in Objects \ {o} : InUse(p)' = InUse(p)

\* One more member of the set is one more reference.
LEMMA Adding ==
  ASSUME NEW o \in Objects, NEW r, r \notin References(o),
         References(o)' = References(o) \cup {r},
         \A p \in Objects \ {o} : References(p)' = References(p)
  PROVE  OneMore(o)
BY FiniteReferences, FS_AddElement DEF InUse, OneMore

\* One member less is one reference less.
LEMMA Removing ==
  ASSUME NEW o \in Objects, NEW r \in References(o),
         References(o)' = References(o) \ {r},
         \A p \in Objects \ {o} : References(p)' = References(p)
  PROVE  OneLess(o)
BY FiniteReferences, FS_RemoveElement DEF InUse, OneLess

\* Who has a reference is counted.
LEMMA Using ==
  ASSUME NEW o \in Objects, NEW r \in References(o)
  PROVE  InUse(o) > 0
<1>1. InUse(o) # 0
  BY FiniteReferences, FS_EmptySet DEF InUse
<1> QED
  BY <1>1, FiniteReferences

CopyingSame == \A p \in Objects : Copying(p)' = Copying(p)

\* A thread gets a reference.
LEMMA ThreadGains ==
  ASSUME NEW t \in Threads, NEW o \in Objects, TypeOK,
         held[t][o] < MaxHeld, Holds(t, o, 1),
         CopyingSame, lockedFactory' = lockedFactory
  PROVE  OneMore(o)
<1> DEFINE r == << t, held[t][o] + 1 >>
<1>1. held[t][o] \in Nat /\ MaxHeld \in Nat
  BY ComObjectAssumption DEF TypeOK
<1>2. r \notin References(o)
  BY <1>1, ComObjectAssumption DEF References
<1>3. References(o)' = References(o) \cup {r}
  BY <1>1, ComObjectAssumption DEF References, Holds, CopyingSame, TypeOK
<1>4. \A p \in Objects \ {o} : References(p)' = References(p)
  BY <1>1 DEF References, Holds, CopyingSame, TypeOK
<1> QED
  BY <1>2, <1>3, <1>4, Adding

\* A thread gives a reference up.
LEMMA ThreadLoses ==
  ASSUME NEW t \in Threads, NEW o \in Objects, TypeOK,
         held[t][o] > 0, held' = [held EXCEPT ![t][o] = @ - 1],
         CopyingSame, lockedFactory' = lockedFactory
  PROVE  OneLess(o) /\ InUse(o) > 0
<1> DEFINE r == << t, held[t][o] >>
<1>1. held[t][o] \in 1 .. MaxHeld
  BY ComObjectAssumption DEF TypeOK
<1>2. r \in References(o)
  BY <1>1 DEF References
<1>3. References(o)' = References(o) \ {r}
  BY <1>1, ComObjectAssumption DEF References, CopyingSame, TypeOK
<1>4. \A p \in Objects \ {o} : References(p)' = References(p)
  BY <1>1 DEF References, CopyingSame, TypeOK
<1> QED
  BY <1>2, <1>3, <1>4, Removing, Using

\* A copy is made or released.
LEMMA CopyCounts ==
  ASSUME NEW t \in Threads, NEW o \in Objects, held' = held,
         lockedFactory' = lockedFactory,
         \A p \in Objects \ {o} : Copying(p)' = Copying(p)
  PROVE  /\ t \notin Copying(o) /\ Copying(o)' = Copying(o) \cup {t} =>
                OneMore(o)
         /\ t \in Copying(o) /\ Copying(o)' = Copying(o) \ {t} =>
                OneLess(o) /\ InUse(o) > 0
<1> DEFINE r == << t, 0 >>
<1>1. t # None /\ 0 \notin 1 .. MaxHeld
  BY ComObjectAssumption
<1>2. \A p \in Objects \ {o} : References(p)' = References(p)
  BY DEF References
<1>3. ASSUME t \notin Copying(o), Copying(o)' = Copying(o) \cup {t}
      PROVE  OneMore(o)
  <2>1. r \notin References(o)
    BY <1>1, <1>3 DEF References
  <2>2. References(o)' = References(o) \cup {r}
    BY <1>3 DEF References
  <2> QED
    BY <1>2, <2>1, <2>2, Adding
<1>4. ASSUME t \in Copying(o), Copying(o)' = Copying(o) \ {t}
      PROVE  OneLess(o) /\ InUse(o) > 0
  <2>1. r \in References(o)
    BY <1>4 DEF References
  <2>2. References(o)' = References(o) \ {r}
    BY <1>1, <1>4 DEF References
  <2> QED
    BY <1>2, <2>1, <2>2, Removing, Using
<1> QED
  BY <1>3, <1>4

\* The lock keeps a factory or lets it go.
LEMMA LockCounts ==
  ASSUME NEW o \in Objects, held' = held, CopyingSame
  PROVE  /\ lockedFactory = None /\ lockedFactory' = o => OneMore(o)
         /\ lockedFactory = o /\ lockedFactory' = None =>
                OneLess(o) /\ InUse(o) > 0
<1> DEFINE r == << None, 0 >>
<1>1. None \notin Threads /\ None \notin Objects
  BY ComObjectAssumption
<1>2. \A p \in Objects : r \notin Copying(p) \X {0}
  BY <1>1 DEF Copying
<1>3. ASSUME lockedFactory = None, lockedFactory' = o
      PROVE  OneMore(o)
  <2>1. r \notin References(o)
    BY <1>1, <1>2, <1>3 DEF References
  <2>2. References(o)' = References(o) \cup {r}
    BY <1>1, <1>3 DEF References, CopyingSame
  <2>3. \A p \in Objects \ {o} : References(p)' = References(p)
    BY <1>1, <1>3 DEF References, CopyingSame
  <2> QED
    BY <2>1, <2>2, <2>3, Adding
<1>4. ASSUME lockedFactory = o, lockedFactory' = None
      PROVE  OneLess(o) /\ InUse(o) > 0
  <2>1. r \in References(o)
    BY <1>4 DEF References
  <2>2. References(o)' = References(o) \ {r}
    BY <1>1, <1>2, <1>4 DEF References, CopyingSame
  <2>3. \A p \in Objects \ {o} : References(p)' = References(p)
    BY <1>1, <1>4 DEF References, CopyingSame
  <2> QED
    BY <2>1, <2>2, <2>3, Removing, Using
<1> QED
  BY <1>3, <1>4

-----------------------------------------------------------------------------
(* What an operation of an object keeps.                                   *)

\* The same threads delete the same objects.
DeletersSame ==
    \A u \in Threads, p \in Objects :
        /\ thread'[u] = At("delete", p) <=> thread[u] = At("delete", p)
        /\ thread'[u] = At("destroy", p) <=> thread[u] = At("destroy", p)

\* A thread is idle, makes a factory or is busy with an object.
LEMMA ThreadStateOf ==
  ASSUME NEW t \in Threads, TypeOK
  PROVE  /\ thread[t].pc \in Pcs
         /\ thread[t].pc = "idle" => thread[t] = Idle
         /\ thread[t].pc = "make" => thread[t] = At("make", None)
         /\ thread[t].pc \in {"query", "drop", "delete", "destroy"} =>
                /\ thread[t].obj \in Objects
                /\ thread[t] = At(thread[t].pc, thread[t].obj)
BY DEF TypeOK, ThreadStates, Idle, At, Pcs

\* AddRef of an object that is referenced.
LEMMA UpKeeps ==
  ASSUME IInv, NEW o \in Objects, InUse(o) > 0, CountUp(o), OneMore(o),
         UNCHANGED << kind, alive, objectCount >>, DeletersSame
  PROVE  /\ refCount' \in [Objects -> Nat] /\ outerCount' \in [Objects -> Nat]
         /\ Counted' /\ Deleted' /\ ObjectsCounted'
<1>1. refCount' \in [Objects -> Nat] /\ outerCount' \in [Objects -> Nat]
  BY DEF IInv, TypeOK, CountUp
<1>2. \A p \in Objects : Count(p)' = IF p = o THEN Count(p) + 1 ELSE Count(p)
  BY DEF IInv, TypeOK, CountUp, Count
<1>3. \A p \in Objects : InUse(p) \in Nat /\ InUse(p)' \in Nat
  BY FiniteReferences
<1>4. alive[o]
  BY DEF IInv, Counted
<1>5. Counted'
  <2> SUFFICES ASSUME NEW p \in Objects
               PROVE  /\ InUse(p)' = Count(p)'
                      /\ InUse(p)' > 0 => alive'[p]
                      /\ alive'[p] => kind'[p] # "none"
                      /\ kind'[p] = "inner" =>
                             refCount'[p] = IF outerCount'[p] > 0 THEN 1 ELSE 0
    BY DEF Counted
  <2>1. InUse(p)' = Count(p)'
    BY <1>2 DEF IInv, Counted, OneMore
  <2>2. InUse(p)' > 0 => alive'[p]
    BY <1>4 DEF IInv, Counted, OneMore
  <2>3. kind[p] = "inner" => refCount'[p] = IF outerCount'[p] > 0 THEN 1 ELSE 0
    BY <1>3 DEF IInv, Counted, Count, CountUp, TypeOK
  <2> QED
    BY <2>1, <2>2, <2>3 DEF IInv, Counted
<1>6. Deleted'
  BY <1>3 DEF IInv, Deleted, Deletes, DeletersSame, OneMore
<1>7. ObjectsCounted'
  BY DEF IInv, ObjectsCounted, Alive
<1> QED
  BY <1>1, <1>5, <1>6, <1>7

\* Release by a thread that is not deleting anything.
LEMMA DownKeeps ==
  ASSUME IInv, NEW o \in Objects, NEW t \in Threads, InUse(o) > 0,
         CountDown(o), OneLess(o), thread[t].pc \in {"idle", "drop"},
         Goes(t, AfterRelease(o)), UNCHANGED << kind, alive, objectCount >>
  PROVE  /\ refCount' \in [Objects -> Nat] /\ outerCount' \in [Objects -> Nat]
         /\ thread' \in [Threads -> ThreadStates]
         /\ Counted' /\ Deleted' /\ ObjectsCounted'
<1>1. alive[o] /\ kind[o] # "none" /\ Count(o) = InUse(o)
  BY DEF IInv, Counted
<1>2. refCount' \in [Objects -> Nat] /\ outerCount' \in [Objects -> Nat]
  BY <1>1 DEF IInv, TypeOK, Counted, CountDown, IsLast, Count
<1>3. \A p \in Objects : Count(p)' = IF p = o THEN Count(p) - 1 ELSE Count(p)
  BY DEF IInv, TypeOK, CountDown, Count
<1>4. \A p \in Objects : InUse(p) \in Nat /\ InUse(p)' \in Nat
  BY FiniteReferences
<1>5. Counted'
  <2> SUFFICES ASSUME NEW p \in Objects
               PROVE  /\ InUse(p)' = Count(p)'
                      /\ InUse(p)' > 0 => alive'[p]
                      /\ alive'[p] => kind'[p] # "none"
                      /\ kind'[p] = "inner" =>
                             refCount'[p] = IF outerCount'[p] > 0 THEN 1 ELSE 0
    BY DEF Counted
  <2>1. InUse(p)' = Count(p)'
    BY <1>3 DEF IInv, Counted, OneLess
  <2>2. InUse(p)' > 0 => alive'[p]
    BY <1>1, <1>4 DEF IInv, Counted, OneLess
  <2>3. kind[p] = "inner" => refCount'[p] = IF outerCount'[p] > 0 THEN 1 ELSE 0
    BY <1>1, <1>4 DEF IInv, Counted, Count, CountDown, IsLast, TypeOK
  <2> QED
    BY <2>1, <2>2, <2>3 DEF IInv, Counted
<1>6. IsLast(o) <=> InUse(o)' = 0
  BY <1>1, <1>4 DEF IsLast, Count, OneLess
<1>7. thread' = [thread EXCEPT ![t] = IF InUse(o)' = 0 THEN At("delete", o)
                                     ELSE Idle]
  BY <1>6 DEF Goes, AfterRelease
<1>8. thread' \in [Threads -> ThreadStates]
  BY <1>7 DEF IInv, TypeOK, ThreadStates
<1>9. Deleted'
  <2>1. \A p \in Objects : ~Deletes(t, p)
    BY DEF Deletes, At
  <2>2. \A u \in Threads : ~Deletes(u, o)
    BY <1>1 DEF IInv, Deleted, Deletes
  <2>3. \A u \in Threads \ {t} : thread'[u] = thread[u]
    BY <1>7 DEF IInv, TypeOK
  <2>4. thread'[t] = IF InUse(o)' = 0 THEN At("delete", o) ELSE Idle
    BY <1>7 DEF IInv, TypeOK
  <2>5. \A p \in Objects :
          /\ thread'[t] # At("destroy", p)
          /\ thread'[t] = At("delete", p) => p = o /\ InUse(o)' = 0
    BY <2>4 DEF At, Idle
  <2> QED
    BY <1>1, <1>4, <2>1, <2>2, <2>3, <2>4, <2>5
       DEF IInv, Deleted, Deletes, OneLess
<1>10. ObjectsCounted'
  BY DEF IInv, ObjectsCounted, Alive
<1> QED
  BY <1>2, <1>5, <1>8, <1>9, <1>10

\* A new object, with the thread's reference to it.
LEMMA CreateKeeps ==
  ASSUME IInv, NEW t \in Threads, NEW k \in {"factory", "filter", "inner"},
         Create(t, k), CopyingSame, DeletersSame, lockedFactory' = lockedFactory
  PROVE  /\ kind' \in [Objects -> {"none", "factory", "filter", "inner"}]
         /\ alive' \in [Objects -> BOOLEAN]
         /\ refCount' \in [Objects -> Nat] /\ outerCount' \in [Objects -> Nat]
         /\ objectCount' \in Nat
         /\ held' \in [Threads -> [Objects -> 0 .. MaxHeld]]
         /\ \A p \in Objects : kind[p] # "none" => kind'[p] = kind[p]
         /\ Counted' /\ Deleted' /\ ObjectsCounted'
<1>0. PICK o \in Objects :
        /\ kind[o] = "none"
        /\ kind' = [kind EXCEPT ![o] = k]
        /\ alive' = [alive EXCEPT ![o] = TRUE]
        /\ refCount' = [refCount EXCEPT ![o] = 1]
        /\ outerCount' = [outerCount EXCEPT ![o] = IF k = "inner" THEN 1 ELSE 0]
        /\ objectCount' = objectCount + 1
        /\ Holds(t, o, 1)
  BY DEF Create
<1>1. InUse(o) = 0 /\ ~alive[o]
  BY <1>0, FiniteReferences DEF IInv, Counted, TypeOK
<1>2. held[t][o] = 0
  <2>1. CASE held[t][o] # 0
    <3>1. << t, held[t][o] >> \in References(o)
      BY <2>1, ComObjectAssumption DEF IInv, TypeOK, References
    <3> QED
      BY <1>1, <3>1, Using
  <2> QED
    BY <2>1
<1>3. OneMore(o)
  BY <1>0, <1>2, ThreadGains, ComObjectAssumption DEF IInv
<1>4. /\ kind' \in [Objects -> {"none", "factory", "filter", "inner"}]
      /\ alive' \in [Objects -> BOOLEAN]
      /\ refCount' \in [Objects -> Nat] /\ outerCount' \in [Objects -> Nat]
      /\ objectCount' \in Nat
      /\ \A p \in Objects : kind[p] # "none" => kind'[p] = kind[p]
  BY <1>0 DEF IInv, TypeOK
<1>5. held' \in [Threads -> [Objects -> 0 .. MaxHeld]]
  BY <1>0, <1>2, ComObjectAssumption DEF IInv, TypeOK, Holds
<1>6. /\ alive'[o] /\ InUse(o)' = 1 /\ Count(o)' = 1 /\ kind'[o] = k
      /\ k = "inner" => refCount'[o] = 1 /\ outerCount'[o] = 1
  BY <1>0, <1>1, <1>3 DEF IInv, TypeOK, OneMore, Count
<1>7. \A p \in Objects \ {o} :
        /\ kind'[p] = kind[p] /\ alive'[p] = alive[p]
        /\ refCount'[p] = refCount[p] /\ outerCount'[p] = outerCount[p]
        /\ InUse(p)' = InUse(p) /\ Count(p)' = Count(p)
  BY <1>0, <1>3 DEF IInv, TypeOK, OneMore, Count
<1>8. Counted'
  BY <1>6, <1>7 DEF IInv, Counted
<1>9. \A u \in Threads : ~Deletes(u, o)
  BY <1>0, <1>1 DEF IInv, Deleted, Deletes
<1>10. Deleted'
  BY <1>6, <1>7, <1>9 DEF IInv, Deleted, Deletes, DeletersSame
<1>11. ObjectsCounted'
  <2>1. Alive' = Alive \cup {o} /\ o \notin Alive
    BY <1>0, <1>1 DEF Alive, IInv, TypeOK
  <2> QED
    BY <1>0, <2>1, FS_AddElement DEF IInv, ObjectsCounted
<1> QED
  BY <1>4, <1>5, <1>8, <1>10, <1>11

\* A step that leaves counts, references and deletions alone.
LEMMA NothingCounted ==
  ASSUME IInv, CopyingSame, DeletersSame,
         UNCHANGED << objects, lockedFactory, held >>
  PROVE  Counted' /\ Deleted' /\ ObjectsCounted'
<1>1. \A p \in Objects : References(p)' = References(p)
  BY DEF References, CopyingSame
<1>2. \A p \in Objects : InUse(p)' = InUse(p) /\ Count(p)' = Count(p)
  BY <1>1 DEF InUse, Count, objects
<1>3. Counted'
  BY <1>2 DEF IInv, Counted, objects
<1>4. Deleted'
  BY <1>2 DEF IInv, Deleted, Deletes, DeletersSame, objects
<1>5. ObjectsCounted'
  BY DEF IInv, ObjectsCounted, Alive, objects
<1> QED
  BY <1>3, <1>4, <1>5

\* Handing a reference over leaves the number of references alone.
LEMMA HandKeeps ==
  ASSUME IInv, NEW t \in Threads, NEW u \in Threads, NEW o \in Objects,
         Hand(t, u, o)
  PROVE  IInv'
<1> DEFINE r == << t, held[t][o] >>
           q == << u, held[u][o] + 1 >>
<1>1. /\ held \in [Threads -> [Objects -> 0 .. MaxHeld]] /\ MaxHeld \in Nat
      /\ t # u /\ held[t][o] > 0 /\ held[u][o] < MaxHeld
      /\ held' = [held EXCEPT ![t][o] = @ - 1, ![u][o] = @ + 1]
      /\ UNCHANGED << objects, server, thread >>
  BY ComObjectAssumption DEF IInv, TypeOK, Hand
<1>2. /\ held' \in [Threads -> [Objects -> 0 .. MaxHeld]]
      /\ held'[t][o] = held[t][o] - 1 /\ held'[u][o] = held[u][o] + 1
      /\ \A v \in Threads, p \in Objects :
             v \notin {t, u} \/ p # o => held'[v][p] = held[v][p]
  <2> DEFINE given == [held EXCEPT ![t][o] = @ - 1]
  <2>1. /\ given \in [Threads -> [Objects -> 0 .. MaxHeld]]
        /\ given[t][o] = held[t][o] - 1
        /\ \A v \in Threads, p \in Objects :
               v # t \/ p # o => given[v][p] = held[v][p]
    BY <1>1
  <2>2. held' = [given EXCEPT ![u][o] = @ + 1]
    BY <1>1
  <2> HIDE DEF given
  <2>3. given[u][o] = held[u][o] /\ held[u][o] + 1 \in 0 .. MaxHeld
    BY <1>1, <2>1
  <2>4. held' \in [Threads -> [Objects -> 0 .. MaxHeld]]
    BY <2>1, <2>2, <2>3
  <2>5. /\ held'[u][o] = held[u][o] + 1
        /\ \A v \in Threads, p \in Objects :
               v # u \/ p # o => held'[v][p] = given[v][p]
    BY <2>1, <2>2, <2>3
  <2>6. held'[t][o] = held[t][o] - 1
    BY <1>1, <2>1, <2>5
  <2>7. \A v \in Threads, p \in Objects :
          v \notin {t, u} \/ p # o => held'[v][p] = held[v][p]
    BY <1>1, <2>1, <2>5
  <2> QED
    BY <2>4, <2>5, <2>6, <2>7
<1>3. \A p \in Objects : Copying(p)' = Copying(p)
  BY <1>1 DEF Copying
<1>4. r \in References(o) /\ q \notin References(o) /\ r # q
  BY <1>1, ComObjectAssumption DEF References
<1>5. References(o)' = (References(o) \ {r}) \cup {q}
  <2>1. \A v \in Threads, n \in 1 .. MaxHeld :
          n <= held'[v][o] <=>
              \/ n <= held[v][o] /\ << v, n >> # r
              \/ << v, n >> = q
    <3> SUFFICES ASSUME NEW v \in Threads, NEW n \in 1 .. MaxHeld
                 PROVE  n <= held'[v][o] <=>
                            \/ n <= held[v][o] /\ ~(v = t /\ n = held[t][o])
                            \/ v = u /\ n = held[u][o] + 1
      OBVIOUS
    <3>1. CASE v = t
      <4>1. held'[t][o] = held[t][o] - 1 /\ held[t][o] \in Nat /\ v # u
        BY <1>1, <1>2, <3>1
      <4> QED
        BY <3>1, <4>1
    <3>2. CASE v = u
      BY <1>1, <1>2, <3>2
    <3>3. CASE v \notin {t, u}
      BY <1>1, <1>2, <3>3
    <3> QED
      BY <3>1, <3>2, <3>3
  <2>2. {x \in Threads \X (1 .. MaxHeld) : x[2] <= held'[x[1]][o]}
          = ({x \in Threads \X (1 .. MaxHeld) : x[2] <= held[x[1]][o]} \ {r})
                \cup {q}
    BY <1>1, <2>1
  <2>3. r \notin Copying(o) \X {0} /\ r # << None, 0 >>
    BY <1>1, ComObjectAssumption
  <2>4. Copying(o)' = Copying(o) /\ lockedFactory' = lockedFactory
    BY <1>1, <1>3 DEF server
  <2> HIDE DEF r, q
  <2> QED
    BY <2>2, <2>3, <2>4 DEF References
<1>6. \A p \in Objects \ {o} : References(p)' = References(p)
  BY <1>1, <1>2, <1>3 DEF References, server
<1>7. InUse(o)' = InUse(o)
  <2>1. /\ IsFiniteSet(References(o) \ {r})
        /\ Cardinality(References(o) \ {r}) = InUse(o) - 1
    BY <1>4, FiniteReferences, FS_RemoveElement DEF InUse
  <2> DEFINE kept == References(o) \ {r}
  <2>2. q \notin kept /\ Cardinality(kept \cup {q}) = Cardinality(kept) + 1
    BY <1>4, <2>1, FS_AddElement
  <2>3. InUse(o)' = Cardinality(kept \cup {q})
    BY <1>5 DEF InUse
  <2> QED
    BY <2>1, <2>2, <2>3, FiniteReferences
<1>8. \A p \in Objects : InUse(p)' = InUse(p) /\ Count(p)' = Count(p)
  BY <1>1, <1>6, <1>7 DEF InUse, Count, objects
<1>9. TypeOK' /\ Locked'
  BY <1>1, <1>2 DEF IInv, TypeOK, Locked, objects, server
<1>10. Counted'
  BY <1>1, <1>8 DEF IInv, Counted, objects
<1>11. Deleted'
  BY <1>1, <1>8 DEF IInv, Deleted, Deletes, objects
<1>12. ObjectsCounted'
  BY <1>1 DEF IInv, ObjectsCounted, Alive, objects
<1> QED
  BY <1>9, <1>10, <1>11, <1>12 DEF IInv

-----------------------------------------------------------------------------
(* Every step keeps the invariant.                                         *)

\* A host without objects counts right.
LEMMA InitCounts == Init => IInv
<1> SUFFICES ASSUME Init PROVE IInv
  OBVIOUS
<1>1. TypeOK
  BY ComObjectAssumption DEF Init, TypeOK, ThreadStates, Idle
<1>2. \A o \in Objects : InUse(o) = 0
  <2> SUFFICES ASSUME NEW o \in Objects PROVE InUse(o) = 0
    OBVIOUS
  <2>1. References(o) = {}
    BY ComObjectAssumption DEF Init, References, Copying, Idle
  <2> QED
    BY <2>1, FS_EmptySet DEF InUse
<1>3. Counted
  BY <1>2 DEF Init, Counted, Count
<1>4. Deleted
  BY DEF Init, Deleted, Deletes, Idle, At
<1>5. ObjectsCounted
  <2>1. Alive = {}
    BY DEF Init, Alive
  <2> QED
    BY <2>1, FS_EmptySet DEF Init, ObjectsCounted
<1>6. Locked
  BY DEF Init, Locked
<1> QED
  BY <1>1, <1>3, <1>4, <1>5, <1>6 DEF IInv

\* What the host's threads do with the references they hold.
LEMMA HoldersKeep ==
  ASSUME IInv, NEW t \in Threads, NEW o \in Objects,
         AddRef(t, o) \/ Release(t, o) \/ CreateInstance(t, o)
  PROVE  IInv'
<1>1. CASE AddRef(t, o)
  <2>1. /\ thread' = thread /\ CopyingSame /\ DeletersSame
        /\ CountUp(o) /\ Holds(t, o, 1)
        /\ UNCHANGED << kind, alive, objectCount, server >>
        /\ held[t][o] \in 1 .. MaxHeld - 1
    BY <1>1 DEF AddRef, CopyingSame, Copying, DeletersSame
  <2>2. << t, held[t][o] >> \in References(o)
    BY <2>1, ComObjectAssumption DEF References
  <2>3. OneMore(o)
    BY <2>1, ThreadGains, ComObjectAssumption DEF IInv, server
  <2>4. held' \in [Threads -> [Objects -> 0 .. MaxHeld]]
    BY <2>1, ComObjectAssumption DEF IInv, TypeOK, Holds
  <2> QED
    BY <2>1, <2>2, <2>3, <2>4, Using, UpKeeps DEF IInv, TypeOK, Locked, server
<1>2. CASE Release(t, o)
  <2>1. /\ thread[t] = Idle /\ Goes(t, AfterRelease(o))
        /\ CountDown(o) /\ held' = [held EXCEPT ![t][o] = @ - 1]
        /\ UNCHANGED << kind, alive, objectCount, server >>
        /\ held[t][o] > 0
    BY <1>2 DEF Release
  <2>2. CopyingSame
    BY <2>1 DEF CopyingSame, Copying, Goes, AfterRelease, Idle, At, IInv, TypeOK
  <2>3. OneLess(o) /\ InUse(o) > 0
    BY <2>1, <2>2, ThreadLoses DEF IInv, server
  <2>4. held' \in [Threads -> [Objects -> 0 .. MaxHeld]]
    BY <2>1, ComObjectAssumption DEF IInv, TypeOK
  <2> QED
    BY <2>1, <2>3, <2>4, DownKeeps DEF IInv, TypeOK, Locked, server, Idle
<1>3. CASE CreateInstance(t, o)
  <2>1. /\ CopyingSame /\ DeletersSame
        /\ UNCHANGED << server, thread >>
        /\ Create(t, "filter") \/ Create(t, "inner")
    BY <1>3 DEF CreateInstance, CopyingSame, Copying, DeletersSame
  <2> QED
    BY <2>1, CreateKeeps DEF IInv, TypeOK, Locked, server
<1> QED
  BY <1>1, <1>2, <1>3

\* GetClassObject.
LEMMA GettersKeep ==
  ASSUME IInv, NEW t \in Threads,
         CopyFactory(t) \/ QueryFactory(t) \/ DropCopy(t) \/ MakeFactory(t)
  PROVE  IInv'
<1>a. thread \in [Threads -> ThreadStates] /\ None \notin Objects
  BY ComObjectAssumption DEF IInv, TypeOK
<1>1. CASE CopyFactory(t) /\ lockedFactory = None
  <2>1. thread' = [thread EXCEPT ![t] = At("make", None)] /\ thread[t] = Idle
    BY <1>1 DEF CopyFactory, Goes
  <2>2. /\ CopyingSame /\ DeletersSame
        /\ thread' \in [Threads -> ThreadStates]
    BY <1>a, <2>1 DEF CopyingSame, Copying, DeletersSame, At, Idle, ThreadStates
  <2>3. UNCHANGED << objects, server, held >>
    BY <1>1 DEF CopyFactory, objects
  <2> QED
    BY <2>2, <2>3, NothingCounted DEF IInv, TypeOK, Locked, server, objects
<1>2. CASE CopyFactory(t) /\ lockedFactory # None
  <2>0. PICK f \in Objects : f = lockedFactory
    BY <1>2 DEF IInv, TypeOK
  <2>1. /\ thread' = [thread EXCEPT ![t] = At("query", f)] /\ thread[t] = Idle
        /\ CountUp(f)
        /\ UNCHANGED << kind, alive, objectCount, server, held >>
    BY <1>2, <2>0 DEF CopyFactory, Goes
  <2>2. /\ DeletersSame
        /\ thread' \in [Threads -> ThreadStates]
    BY <1>a, <2>1 DEF DeletersSame, At, Idle, ThreadStates
  <2>3. /\ t \notin Copying(f) /\ Copying(f)' = Copying(f) \cup {t}
        /\ \A p \in Objects \ {f} : Copying(p)' = Copying(p)
    BY <1>a, <2>1 DEF Copying, At, Idle, server
  <2>4. OneMore(f)
    BY <2>1, <2>3, CopyCounts DEF server
  <2>5. InUse(f) > 0
    BY <2>0, Using DEF References
  <2> QED
    BY <2>1, <2>2, <2>4, <2>5, UpKeeps DEF IInv, TypeOK, Locked, server
<1>3. CASE QueryFactory(t)
  <2>0. PICK f \in Objects : thread[t] = At("query", f) /\ f = thread[t].obj
    BY <1>3, ThreadStateOf DEF QueryFactory, IInv
  <2>1. /\ thread[t] = At("query", f)
        /\ thread' = [thread EXCEPT ![t] = At("drop", f)]
        /\ UNCHANGED << kind, alive, objectCount, server >>
    BY <1>3, <2>0 DEF QueryFactory, Goes
  <2>2. /\ CopyingSame /\ DeletersSame
        /\ thread' \in [Threads -> ThreadStates]
    BY <1>a, <2>1 DEF CopyingSame, Copying, DeletersSame, At, ThreadStates
  <2>3. InUse(f) > 0
    <3>1. << t, 0 >> \in References(f)
      BY <2>1 DEF References, Copying, At
    <3> QED
      BY <2>1, <3>1, Using
  <2>4. CASE UNCHANGED << refCount, outerCount, held >>
    BY <2>1, <2>2, <2>4, NothingCounted
       DEF IInv, TypeOK, Locked, server, objects
  <2>5. CASE held[t][f] < MaxHeld /\ CountUp(f) /\ Holds(t, f, 1)
    <3>1. OneMore(f)
      BY <2>1, <2>2, <2>5, ThreadGains DEF IInv, server
    <3>2. held' \in [Threads -> [Objects -> 0 .. MaxHeld]]
      BY <2>1, <2>5, ComObjectAssumption DEF IInv, TypeOK, Holds
    <3> QED
      BY <2>1, <2>2, <2>3, <2>5, <3>1, <3>2, UpKeeps
         DEF IInv, TypeOK, Locked, server
  <2> QED
    BY <1>3, <2>0, <2>4, <2>5 DEF QueryFactory
<1>4. CASE DropCopy(t)
  <2>0. PICK f \in Objects : thread[t] = At("drop", f) /\ f = thread[t].obj
    BY <1>4, ThreadStateOf DEF DropCopy, IInv
  <2>1. /\ thread[t] = At("drop", f)
        /\ Goes(t, AfterRelease(f)) /\ CountDown(f)
        /\ UNCHANGED << kind, alive, objectCount, server, held >>
    BY <1>4, <2>0 DEF DropCopy
  <2>2. /\ t \in Copying(f) /\ Copying(f)' = Copying(f) \ {t}
        /\ \A p \in Objects \ {f} : Copying(p)' = Copying(p)
    <3>1. /\ thread'[t].pc \notin {"query", "drop"}
          /\ \A u \in Threads \ {t} : thread'[u] = thread[u]
      BY <1>a, <2>1 DEF At, Idle, Goes, AfterRelease
    <3>2. thread[t].pc = "drop" /\ thread[t].obj = f
      BY <2>1 DEF At
    <3> QED
      BY <3>1, <3>2 DEF Copying
  <2>3. OneLess(f) /\ InUse(f) > 0
    BY <2>1, <2>2, CopyCounts DEF server
  <2> QED
    BY <2>1, <2>3, DownKeeps DEF IInv, TypeOK, Locked, server, At
<1>5. CASE MakeFactory(t)
  <2>1. /\ thread' = [thread EXCEPT ![t] = Idle]
        /\ thread[t] = At("make", None)
        /\ UNCHANGED server
    BY <1>5, ThreadStateOf DEF MakeFactory, Goes, IInv
  <2>2. /\ CopyingSame /\ DeletersSame
        /\ thread' \in [Threads -> ThreadStates]
    BY <1>a, <2>1 DEF CopyingSame, Copying, DeletersSame, At, Idle, ThreadStates
  <2>3. CASE Create(t, "factory")
    BY <2>1, <2>2, <2>3, CreateKeeps DEF IInv, TypeOK, Locked, server
  <2>4. CASE UNCHANGED << objects, held >>
    BY <2>1, <2>2, <2>4, NothingCounted
       DEF IInv, TypeOK, Locked, server, objects
  <2> QED
    BY <1>5, <2>3, <2>4 DEF MakeFactory
<1> QED
  BY <1>1, <1>2, <1>3, <1>4, <1>5

\* LockServer.
LEMMA LockersKeep ==
  ASSUME IInv, NEW t \in Threads, NEW o \in Objects, Lock(t, o) \/ Unlock(t, o)
  PROVE  IInv'
<1>a. None \notin Objects /\ lockCount \in Nat
  BY ComObjectAssumption DEF IInv, TypeOK
<1>1. CASE Lock(t, o)
  <2>1. /\ CopyingSame /\ DeletersSame
        /\ kind[o] = "factory" /\ held[t][o] > 0
        /\ lockCount' = lockCount + 1
        /\ UNCHANGED << kind, alive, objectCount, mutex, thread, held >>
    BY <1>1 DEF Lock, CopyingSame, Copying, DeletersSame
  <2>2. CASE lockedFactory = None
    <3>1. lockedFactory' = o /\ CountUp(o)
      BY <1>1, <2>2 DEF Lock
    <3>2. << t, held[t][o] >> \in References(o)
      BY <2>1, ComObjectAssumption DEF References, IInv, TypeOK
    <3>3. OneMore(o)
      BY <2>1, <2>2, <3>1, LockCounts
    <3> QED
      BY <1>a, <2>1, <3>1, <3>2, <3>3, Using, UpKeeps DEF IInv, TypeOK, Locked
  <2>3. CASE lockedFactory # None
    <3>1. UNCHANGED << lockedFactory, refCount, outerCount >>
      BY <1>1, <2>3 DEF Lock
    <3> QED
      BY <1>a, <2>1, <2>3, <3>1, NothingCounted
         DEF IInv, TypeOK, Locked, objects
  <2> QED
    BY <2>2, <2>3
<1>2. CASE Unlock(t, o)
  <2>1. /\ thread[t] = Idle /\ lockedFactory # None
        /\ lockCount' = lockCount - 1 /\ lockCount > 0
        /\ UNCHANGED << kind, alive, objectCount, held >>
    BY <1>2 DEF Unlock, IsLocked, IInv, Locked
  <2>2. CASE LastUnlock
    <3>0. PICK f \in Objects : f = lockedFactory
      BY <2>1 DEF IInv, TypeOK
    <3>1. /\ lockedFactory' = None /\ CountDown(f) /\ Goes(t, AfterRelease(f))
          /\ mutex' \in Threads \cup {None}
      BY <1>2, <2>2, <3>0 DEF Unlock
    <3>2. CopyingSame
      BY <2>1, <3>1
         DEF CopyingSame, Copying, Goes, AfterRelease, Idle, At, IInv,
                        TypeOK
    <3>3. OneLess(f) /\ InUse(f) > 0
      BY <2>1, <3>0, <3>1, <3>2, LockCounts
    <3> QED
      BY <1>a, <2>1, <2>2, <3>1, <3>3, DownKeeps
         DEF IInv, TypeOK, Locked, Idle, LastUnlock
  <2>3. CASE ~LastUnlock
    <3>1. UNCHANGED << lockedFactory, refCount, outerCount, thread, mutex >>
      BY <1>2, <2>3 DEF Unlock
    <3>2. CopyingSame /\ DeletersSame
      BY <3>1 DEF CopyingSame, Copying, DeletersSame
    <3> QED
      BY <1>a, <2>1, <2>3, <3>1, <3>2, NothingCounted
         DEF IInv, TypeOK, Locked, objects, LastUnlock
  <2> QED
    BY <2>2, <2>3
<1> QED
  BY <1>1, <1>2

\* The end of an object.
LEMMA DeletersKeep ==
  ASSUME IInv, NEW t \in Threads, Delete(t) \/ Destroy(t)
  PROVE  IInv'
<1>a. /\ thread \in [Threads -> ThreadStates]
      /\ \A p \in Objects : InUse(p) \in Nat
  BY FiniteReferences DEF IInv, TypeOK
<1>1. CASE Delete(t)
  <2>0. PICK o \in Objects : thread[t] = At("delete", o) /\ o = thread[t].obj
    BY <1>1, ThreadStateOf DEF Delete, IInv
  <2>1. /\ objectCount' = objectCount - 1
        /\ alive' = [alive EXCEPT ![o] = FALSE]
        /\ thread' = [thread EXCEPT ![t] = At("destroy", o)]
        /\ UNCHANGED << kind, refCount, outerCount, server, held >>
    BY <1>1, <2>0 DEF Delete, Goes
  <2>2. /\ InUse(o) = 0 /\ alive[o] /\ kind[o] # "none"
        /\ \A u \in Threads \ {t} : ~Deletes(u, o)
    BY <2>0 DEF IInv, Deleted, Deletes, Counted
  <2>3. \A p \in Objects : Copying(p)' = Copying(p)
    BY <1>a, <2>0, <2>1 DEF Copying, At
  <2>4. \A p \in Objects : InUse(p)' = InUse(p) /\ Count(p)' = Count(p)
    BY <2>1, <2>3 DEF InUse, References, Count, server
  <2>5. /\ ~alive'[o] /\ \A p \in Objects \ {o} : alive'[p] = alive[p]
        /\ alive' \in [Objects -> BOOLEAN]
        /\ thread'[t] = At("destroy", o)
        /\ \A u \in Threads \ {t} : thread'[u] = thread[u]
        /\ thread' \in [Threads -> ThreadStates]
    BY <1>a, <2>1 DEF IInv, TypeOK, ThreadStates
  <2>6. Counted'
    BY <2>1, <2>2, <2>4, <2>5 DEF IInv, Counted
  <2>7. /\ thread'[t] # At("delete", o)
        /\ \A p \in Objects \ {o} : ~Deletes(t, p) /\ ~Deletes(t, p)'
    BY <2>0, <2>5 DEF Deletes, At
  <2>8. Deleted'
    BY <2>1, <2>2, <2>4, <2>5, <2>7 DEF IInv, Deleted, Deletes
  <2>9. ObjectsCounted' /\ objectCount' \in Nat
    <3>1. Alive' = Alive \ {o} /\ o \in Alive
      BY <2>2, <2>5 DEF Alive
    <3>2. /\ IsFiniteSet(Alive) /\ objectCount = Cardinality(Alive)
          /\ IsFiniteSet(Alive') /\ Cardinality(Alive') = Cardinality(Alive) - 1
      BY <3>1, FS_RemoveElement DEF IInv, ObjectsCounted
    <3> QED
      BY <2>1, <3>2, FS_CardinalityType DEF ObjectsCounted
  <2> QED
    BY <2>1, <2>5, <2>6, <2>8, <2>9 DEF IInv, TypeOK, Locked, server
<1>2. CASE Destroy(t)
  <2>0. PICK o \in Objects : thread[t] = At("destroy", o) /\ o = thread[t].obj
    BY <1>2, ThreadStateOf DEF Destroy, IInv
  <2>1. /\ kind' = [kind EXCEPT ![o] = "none"]
        /\ mutex' \in {mutex, None}
        /\ thread' = [thread EXCEPT ![t] = Idle]
        /\ UNCHANGED << alive, refCount, outerCount, objectCount, lockCount,
                        lockedFactory, held >>
    BY <1>2, <2>0 DEF Destroy, Goes
  <2>2. /\ ~alive[o] /\ InUse(o) = 0 /\ kind[o] # "none"
        /\ \A u \in Threads \ {t} : ~Deletes(u, o)
    BY <1>a, <2>0 DEF IInv, Deleted, Deletes, Counted
  <2>3. \A p \in Objects : Copying(p)' = Copying(p)
    BY <1>a, <2>0, <2>1 DEF Copying, At, Idle
  <2>4. \A p \in Objects : InUse(p)' = InUse(p)
    BY <2>1, <2>3 DEF InUse, References
  <2>5. /\ kind'[o] = "none" /\ \A p \in Objects \ {o} : kind'[p] = kind[p]
        /\ kind' \in [Objects -> {"none", "factory", "filter", "inner"}]
        /\ thread'[t] = Idle
        /\ \A u \in Threads \ {t} : thread'[u] = thread[u]
        /\ thread' \in [Threads -> ThreadStates]
    BY <1>a, <2>1 DEF IInv, TypeOK, ThreadStates
  <2>6. refCount[o] = 0
    BY <2>2 DEF IInv, Counted, Count
  <2>7. Counted'
    BY <2>1, <2>2, <2>4, <2>5, <2>6 DEF IInv, Counted, Count
  <2>8. /\ \A p \in Objects : ~Deletes(t, p)'
        /\ \A p \in Objects \ {o} : ~Deletes(t, p)
        /\ thread[t] # At("delete", o)
    BY <2>0, <2>5 DEF Deletes, At, Idle
  <2>9. Deleted'
    BY <2>1, <2>2, <2>4, <2>5, <2>8 DEF IInv, Deleted, Deletes
  <2>10. ObjectsCounted'
    BY <2>1 DEF IInv, ObjectsCounted, Alive
  <2>11. lockedFactory # o
    <3>1. lockedFactory = o => << None, 0 >> \in References(o)
      BY DEF References
    <3> QED
      BY <2>2, <3>1, Using
  <2> QED
    BY <2>1, <2>5, <2>7, <2>9, <2>10, <2>11, ComObjectAssumption
       DEF IInv, TypeOK, Locked
<1> QED
  BY <1>1, <1>2

\* The counts are kept by every step of the host and its threads.
THEOREM Invariance == Spec => []IInv
<1>1. IInv /\ [Next]_vars => IInv'
  <2> SUFFICES ASSUME IInv, [Next]_vars PROVE IInv'
    OBVIOUS
  <2>1. CASE UNCHANGED vars
    <3>1. CopyingSame /\ DeletersSame
      BY <2>1 DEF vars, CopyingSame, Copying, DeletersSame
    <3> QED
      BY <2>1, <3>1, NothingCounted
         DEF vars, objects, server, IInv, TypeOK, Locked
  <2> QED
    BY <2>1, HoldersKeep, HandKeeps, GettersKeep, LockersKeep, DeletersKeep
       DEF Next
<1> QED
  BY <1>1, InitCounts, PTL DEF Spec

-----------------------------------------------------------------------------
(* What the host relies on.                                                *)

\* An object lives exactly as long as somebody has a reference to it, however
\* AddRef, Release, LockServer and GetClassObject of different threads mix.
THEOREM ReferencesAreCounted == Spec => []CountsAreExact
<1>1. IInv => CountsAreExact
  BY DEF IInv, Counted, Deleted, ObjectsCounted, Alive, CountsAreExact, Count
<1> QED
  BY <1>1, Invariance, PTL

\* While DllCanUnloadNow says yes there are no references and no lock.
THEOREM UnloadIsSafe == Spec => []NoUnloadWhileUsed
<1>1. IInv => NoUnloadWhileUsed
  <2> SUFFICES ASSUME IInv, objectCount = 0
               PROVE  lockCount = 0 /\ \A o \in Objects : InUse(o) = 0
    BY DEF NoUnloadWhileUsed, CanUnloadNow
  <2>1. Alive = {}
    BY FS_EmptySet DEF IInv, ObjectsCounted
  <2>2. \A o \in Objects : InUse(o) = 0
    BY <2>1, FiniteReferences DEF Alive, IInv, Counted
  <2>3. lockedFactory = None
    <3>1. lockedFactory # None => << None, 0 >> \in References(lockedFactory)
      BY DEF References
    <3> QED
      BY <2>2, <3>1, Using DEF IInv, TypeOK
  <2> QED
    BY <2>2, <2>3 DEF IInv, Locked, TypeOK
<1> QED
  BY <1>1, Invariance, PTL

\* While the server is locked there is a living factory to give out.
THEOREM LockHolds == Spec => []LockKeepsFactory
<1>1. IInv => LockKeepsFactory
  <2> SUFFICES ASSUME IInv, lockedFactory # None PROVE alive[lockedFactory]
    BY DEF IInv, Locked, LockKeepsFactory
  <2>1. lockedFactory \in Objects /\ << None, 0 >> \in References(lockedFactory)
    BY DEF IInv, TypeOK, References
  <2> QED
    BY <2>1, Using DEF IInv, Counted
<1> QED
  BY <1>1, Invariance, PTL
=============================================================================
