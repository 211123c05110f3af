---------------------------- MODULE FormatsProofs ----------------------------
(***************************************************************************)
(* Proofs about Format, FileDescription and Formats: Split finds the words *)
(* of every string (SplitFindsWords), every extension has the first format *)
(* that offers it (FirstIsTaken), and every call is given that of its      *)
(* file's name (AnswersAgree).                                             *)
(***************************************************************************)
EXTENDS Formats, FiniteSetTheorems, SequenceTheorems, TLAPS

-----------------------------------------------------------------------------
(* Induction.  The induction theorems of the library take an operator,     *)
(* this one the set of the numbers for which something holds.  It is a     *)
(* consequence of the pigeonhole principle.                                *)

\* A set with 0 and the successors of its members has all natural numbers: if
\* it lacked N, the successor would map what it has below N into less.
LEMMA Induction ==
  ASSUME NEW P, 0 \in P, \A n \in Nat : n \in P => n + 1 \in P
  PROVE  \A n \in Nat : n \in P
<1> SUFFICES ASSUME NEW N \in Nat, N \notin P
             PROVE  FALSE
  OBVIOUS
<1> DEFINE Below == {n \in 0 .. N : n \in P}
           Next1 == [n \in Below |-> n + 1]
<1>1. IsFiniteSet(Below) /\ 0 \in Below /\ Cardinality(Below) \in Nat
  <2>1. IsFiniteSet(0 .. N)
    BY FS_Interval
  <2> QED
    BY <2>1, FS_Subset, FS_CardinalityType
<1>2. /\ IsFiniteSet(Below \ {0})
      /\ Cardinality(Below \ {0}) = Cardinality(Below) - 1
  BY <1>1, FS_RemoveElement
<1>3. Next1 \in [Below -> Below \ {0}]
  OBVIOUS
<1>4. \E x, y \in Below : x # y /\ Next1[x] = Next1[y]
  <2>1. Cardinality(Below \ {0}) < Cardinality(Below)
    BY <1>1, <1>2
  <2> HIDE DEF Below, Next1
  <2> QED
    BY <1>1, <1>2, <1>3, <2>1, FS_PigeonHole
<1> QED
  BY <1>4

\* A number between 0 and another has a greatest one.
LEMMA MaxIs ==
  ASSUME NEW n \in Nat, NEW T \in SUBSET (1 .. n), T # {}
  PROVE  /\ Max(T) \in T
         /\ \A k \in T : k <= Max(T)
<1> DEFINE P == {m \in Nat : (\E k \in T : k >= n - m) =>
                                 \E x \in T : \A y \in T : x >= y}
<1>1. 0 \in P
  <2> SUFFICES ASSUME NEW k \in T, k >= n PROVE \A y \in T : k >= y
    OBVIOUS
  <2> QED
    OBVIOUS
<1>2. ASSUME NEW m \in Nat, m \in P
      PROVE  m + 1 \in P
  <2> SUFFICES ASSUME NEW k \in T, k >= n - (m + 1)
               PROVE  \E x \in T : \A y \in T : x >= y
    OBVIOUS
  <2>1. CASE \E y \in T : y >= n - m
    BY <1>2, <2>1
  <2>2. CASE ~ \E y \in T : y >= n - m
    <3>1. \A y \in T : k >= y
      BY <2>2
    <3> QED
      BY <3>1
  <2> QED
    BY <2>1, <2>2
<1>3. n \in P
  <2> HIDE DEF P
  <2> QED
    BY <1>1, <1>2, Induction
<1>4. \E x \in T : \A y \in T : x >= y
  <2>1. PICK k \in T : TRUE
    OBVIOUS
  <2> QED
    BY <1>3, <2>1
<1>5. Max(T) \in T /\ \A y \in T : Max(T) >= y
  BY <1>4 DEF Max
<1> QED
  BY <1>5

-----------------------------------------------------------------------------
(* Split, and what it is to find.                                          *)

\* A word of the first n characters of s.
IsWordOf(s, n, i, j) ==
    /\ i \in 1 .. n /\ j \in i .. n
    /\ \A k \in i .. j : s[k] # Space
    /\ i = 1 \/ s[i - 1] = Space
    /\ j = n \/ s[j + 1] = Space

WordsOf(s, n) ==
    {SubSeq(s, p[1], p[2]) :
        p \in {q \in (1 .. Len(s)) \X (1 .. Len(s)) : IsWordOf(s, n, q[1], q[2])}}

SpacesOf(s, n) == {k \in 1 .. n : s[k] = Space}

\* The body of the recursion of Split.
SplitStep(s, g, n) ==
    IF SpacesOf(s, n) = {} THEN First(SubSeq(s, 1, n))
    ELSE g[Max(SpacesOf(s, n)) - 1] \cup
           (IF IsExtension(Max(SpacesOf(s, n)), n)
              THEN {SubSeq(s, Max(SpacesOf(s, n)) + 1, n)} ELSE {})

\* Words are those of all characters.
LEMMA WordsAreThose ==
  ASSUME NEW S, NEW s \in Seq(S)
  PROVE  Words(s) = WordsOf(s, Len(s))
<1>1. DOMAIN s = 1 .. Len(s) /\ Len(s) \in Nat
  OBVIOUS
<1> DEFINE IsWord(i, j) == /\ i <= j
                           /\ \A k \in i .. j : s[k] # Space
                           /\ i = 1 \/ s[i - 1] = Space
                           /\ j = Len(s) \/ s[j + 1] = Space
<1>2. \A q \in (1 .. Len(s)) \X (1 .. Len(s)) :
        IsWord(q[1], q[2]) <=> IsWordOf(s, Len(s), q[1], q[2])
  BY <1>1 DEF IsWordOf
<1>3. Words(s) = {SubSeq(s, p[1], p[2]) :
            p \in {q \in (DOMAIN s) \X (DOMAIN s) : IsWord(q[1], q[2])}}
  BY DEF Words
<1>4. {q \in (DOMAIN s) \X (DOMAIN s) : IsWord(q[1], q[2])}
        = {q \in (1 .. Len(s)) \X (1 .. Len(s)) :
             IsWordOf(s, Len(s), q[1], q[2])}
  BY <1>1, <1>2
<1> QED
  BY <1>3, <1>4 DEF WordsOf

\* One step of the recursion, which cuts off what follows the last space.
LEMMA StepIsWords ==
  ASSUME NEW S, NEW s \in Seq(S), NEW n \in 0 .. Len(s), NEW g,
         \A m \in 0 .. (n - 1) : g[m] = WordsOf(s, m)
  PROVE  SplitStep(s, g, n) = WordsOf(s, n)
<1>0. Len(s) \in Nat /\ n \in Nat /\ n <= Len(s)
  OBVIOUS
<1> DEFINE Pairs(m) == {q \in (1 .. Len(s)) \X (1 .. Len(s)) :
                          IsWordOf(s, m, q[1], q[2])}
           Sub(q) == SubSeq(s, q[1], q[2])
<1>1. \A m : WordsOf(s, m) = {Sub(p) : p \in Pairs(m)}
  BY DEF WordsOf
<1>2. CASE SpacesOf(s, n) = {}
  <2>0. \A k \in 1 .. n : s[k] # Space
    BY <1>2 DEF SpacesOf
  <2>1. CASE n = 0
    <3>1. SubSeq(s, 1, n) = << >>
      BY <2>1, SubSeqEmpty
    <3>2. WordsOf(s, n) = {}
      BY <1>1, <2>1 DEF IsWordOf
    <3> QED
      BY <1>2, <3>1, <3>2 DEF SplitStep, First
  <2>2. CASE n # 0
    <3>1. Len(SubSeq(s, 1, n)) = n
      BY <1>0, <2>2, SubSeqProperties
    <3>2. SubSeq(s, 1, n) # << >>
      BY <2>2, <3>1
    <3>3. Pairs(n) = {<< 1, n >>}
      <4>1. \A i, j \in 1 .. Len(s) :
              IsWordOf(s, n, i, j) <=> i = 1 /\ j = n
        BY <1>0, <2>0, <2>2 DEF IsWordOf
      <4> QED
        BY <1>0, <2>2, <4>1
    <3>4. WordsOf(s, n) = {SubSeq(s, 1, n)}
      <4>1. Sub(<< 1, n >>) = SubSeq(s, 1, n)
        OBVIOUS
      <4>2. WordsOf(s, n) = {Sub(p) : p \in Pairs(n)}
        BY <1>1
      <4> HIDE DEF Sub, Pairs
      <4>3. \A w : w \in WordsOf(s, n) <=> w = Sub(<< 1, n >>)
        BY <3>3, <4>2
      <4> QED
        BY <4>1, <4>3
    <3> QED
      BY <1>2, <3>2, <3>4 DEF SplitStep, First
  <2> QED
    BY <2>1, <2>2
<1>3. CASE SpacesOf(s, n) # {}
  <2> DEFINE offset == Max(SpacesOf(s, n))
  <2>1. /\ offset \in 1 .. n /\ s[offset] = Space
        /\ \A k \in (offset + 1) .. n : s[k] # Space
    <3>1. offset \in SpacesOf(s, n) /\ \A k \in SpacesOf(s, n) : k <= offset
      BY <1>0, <1>3, MaxIs DEF SpacesOf
    <3> HIDE DEF offset
    <3> QED
      BY <1>0, <3>1 DEF SpacesOf
  <2>2. SplitStep(s, g, n)
          = g[offset - 1] \cup
              (IF offset < n THEN {SubSeq(s, offset + 1, n)} ELSE {})
    BY <1>3 DEF SplitStep, IsExtension
  <2> HIDE DEF offset
  <2>3. g[offset - 1] = WordsOf(s, offset - 1)
    BY <1>0, <2>1
  <2>4. ASSUME NEW i \in 1 .. Len(s), NEW j \in 1 .. Len(s)
        PROVE  IsWordOf(s, n, i, j)
                 <=> \/ IsWordOf(s, offset - 1, i, j)
                     \/ offset < n /\ i = offset + 1 /\ j = n
    <3>1. CASE j < offset
      BY <1>0, <2>1, <3>1 DEF IsWordOf
    <3>2. CASE i <= offset /\ offset <= j
      <4>1. ~IsWordOf(s, n, i, j)
        BY <1>0, <2>1, <3>2 DEF IsWordOf
      <4> QED
        BY <1>0, <2>1, <3>2, <4>1 DEF IsWordOf
    <3>3. CASE offset < i
      <4>1. ~IsWordOf(s, offset - 1, i, j)
        BY <1>0, <2>1, <3>3 DEF IsWordOf
      <4>2. IsWordOf(s, n, i, j) => offset < n /\ i = offset + 1 /\ j = n
        BY <1>0, <2>1, <3>3 DEF IsWordOf
      <4>3. offset < n => IsWordOf(s, n, offset + 1, n)
        BY <1>0, <2>1 DEF IsWordOf
      <4> QED
        BY <4>1, <4>2, <4>3
    <3> QED
      BY <1>0, <2>1, <3>1, <3>2, <3>3
  <2>5. Pairs(n) = Pairs(offset - 1) \cup
                     (IF offset < n THEN {<< offset + 1, n >>} ELSE {})
    BY <1>0, <2>1, <2>4
  <2>6. {Sub(p) : p \in Pairs(n)} = {Sub(p) : p \in Pairs(offset - 1)} \cup
               (IF offset < n THEN {SubSeq(s, offset + 1, n)} ELSE {})
    <3>1. Sub(<< offset + 1, n >>) = SubSeq(s, offset + 1, n)
      OBVIOUS
    <3> HIDE DEF Sub, Pairs
    <3>2. CASE offset < n
      <4>1. Pairs(n) = Pairs(offset - 1) \cup {<< offset + 1, n >>}
        BY <2>5, <3>2
      <4> QED
        BY <3>1, <3>2, <4>1
    <3>3. CASE ~(offset < n)
      <4>1. Pairs(n) = Pairs(offset - 1)
        BY <2>5, <3>3
      <4> QED
        BY <3>3, <4>1
    <3> QED
      BY <3>2, <3>3
  <2> QED
    BY <1>1, <2>2, <2>3, <2>6
<1> QED
  BY <1>2, <1>3

\* Split finds the words of a string, all of them and nothing else, wherever
\* its spaces are.
THEOREM SplitFindsWords ==
  ASSUME NEW S, NEW s \in Seq(S)
  PROVE  Split(s) = Words(s)
<1> DEFINE split == CHOOSE g : g = [n \in 0 .. Len(s) |-> SplitStep(s, g, n)]
           found == [n \in 0 .. Len(s) |-> WordsOf(s, n)]
<1>0. Len(s) \in Nat
  OBVIOUS
<1>1. Split(s) = split[Len(s)]
  BY DEF Split, SplitStep, SpacesOf
<1>2. split = [n \in 0 .. Len(s) |-> SplitStep(s, split, n)]
  <2>1. ASSUME NEW n \in 0 .. Len(s)
        PROVE  SplitStep(s, found, n) = WordsOf(s, n)
    <3>1. \A m \in 0 .. (n - 1) : found[m] = WordsOf(s, m)
      BY <1>0
    <3> HIDE DEF found
    <3> QED
      BY <3>1, StepIsWords
  <2>2. found = [n \in 0 .. Len(s) |-> SplitStep(s, found, n)]
    BY <2>1
  <2> QED
    BY <2>2
<1> HIDE DEF split
<1> DEFINE Right == {n \in Nat : \A m \in 0 .. n :
                        m <= Len(s) => split[m] = WordsOf(s, m)}
<1>3. ASSUME NEW n \in 0 .. Len(s),
             \A m \in 0 .. (n - 1) : split[m] = WordsOf(s, m)
      PROVE  split[n] = WordsOf(s, n)
  <2>1. split[n] = SplitStep(s, split, n)
    BY <1>2
  <2> QED
    BY <1>3, <2>1, StepIsWords
<1>4. 0 \in Right
  <2>1. split[0] = WordsOf(s, 0)
    BY <1>0, <1>3
  <2> QED
    BY <2>1
<1>5. ASSUME NEW n \in Nat, n \in Right
      PROVE  n + 1 \in Right
  <2>1. n + 1 <= Len(s) => split[n + 1] = WordsOf(s, n + 1)
    BY <1>0, <1>3, <1>5
  <2> QED
    BY <1>5, <2>1
<1>6. Len(s) \in Right
  <2> HIDE DEF Right
  <2> QED
    BY <1>0, <1>4, <1>5, Induction
<1>7. split[Len(s)] = WordsOf(s, Len(s))
  BY <1>0, <1>6
<1> QED
  BY <1>1, <1>7, WordsAreThose

-----------------------------------------------------------------------------
(* The table.                                                              *)

\* What offers the extension e.
OffersOf(e) == {o \in offered : o.ext = e}

\* The format of e is the first that offers it, or nobody does.
IsFirst(e) ==
    IF OffersOf(e) = {} THEN formats[e] = NoFormat
    ELSE \E o \in OffersOf(e) :
           /\ formats[e] = FormatOf(o.file, o.index)
           /\ \A p \in OffersOf(e) : /\ Stage(o.file) <= Stage(p.file)
                                     /\ o.file = p.file => o.index <= p.index

\* The files still to come are of the same stage or a later one, and the file
\* that is read is not among them.
InOrder ==
    /\ \A o \in offered :
         /\ o.index \in Nat \ {0}
         /\ o.file \notin left
         /\ \A g \in left : Stage(o.file) <= Stage(g)
         /\ file # None => Stage(o.file) <= Stage(file)
         /\ file # None /\ o.file = file => o.index < index
    /\ file # None => /\ index \in Nat \ {0}
                      /\ file \in Files \ left
                      /\ \A g \in left : Stage(file) <= Stage(g)

TableInv ==
    /\ left \subseteq Files
    /\ builder \in Threads \cup {None}
    /\ made => builder = None /\ file = None
    /\ DOMAIN formats = Extensions
    /\ InOrder
    /\ \A e \in Extensions : IsFirst(e)

-----------------------------------------------------------------------------
(* The descriptions.                                                       *)

Wanted(o) == PathExtension(description[o].name)

\* A thread that is at work on an object keeps it, and the mutex while it
\* works the extension out.
CallInv(t) ==
    LET o == Of(t)
    IN /\ DOMAIN call[t] = {"step", "of", "format"}
       /\ call[t].step \in {"idle", "enter", "lower", "trim", "has", "answered"}
       /\ o \in Objects \cup {None}
       /\ ~At(t, "idle") => o \in Objects /\ description[o] \in Descriptions
       /\ At(t, "lower") => description[o].cache = Append(Wanted(o), Null)
       /\ At(t, "trim") => description[o].cache = Lower(Append(Wanted(o), Null))
       /\ At(t, "lower") \/ At(t, "trim") => mutex[o] = t /\ ~IsValid(o)
       /\ At(t, "has") \/ At(t, "answered") => IsValid(o)
       /\ At(t, "answered") =>
              made /\ call[t].format = Find(Lower(Wanted(o)))

DescriptionInv ==
    /\ description \in [Objects -> Descriptions \cup {None}]
    /\ mutex \in [Objects -> Threads \cup {None}]
    /\ DOMAIN call = Threads
    /\ \A t \in Threads : CallInv(t)
    /\ \A o \in Objects :
          description[o] # None /\ IsValid(o) =>
              description[o].cache = Lower(Wanted(o))

IInv == TableInv /\ DescriptionInv

-----------------------------------------------------------------------------
(* Names.                                                                  *)

\* Lower keeps the length of a name.
LEMMA LowerIsName ==
  ASSUME NEW s \in Names
  PROVE  /\ Lower(s) \in Names /\ Len(Lower(s)) = Len(s)
         /\ DOMAIN Lower(s) = DOMAIN s
<1> DEFINE L(c) == IF \E d \in DOMAIN Upper : Upper[d] = c
                     THEN CHOOSE d \in DOMAIN Upper : Upper[d] = c ELSE c
<1>1. \A c \in STRING : L(c) \in STRING
  <2>1. DOMAIN Upper \subseteq STRING
    BY FormatAssumption DEF Characters
  <2> QED
    BY <2>1
<1>2. Lower(s) = [k \in DOMAIN s |-> L(s[k])]
  BY DEF Lower
<1> HIDE DEF L
<1>3. DOMAIN s = 1 .. Len(s) /\ Len(s) \in Nat /\ \A k \in DOMAIN s : s[k] \in STRING
  BY DEF Names
<1>4. Lower(s) \in [1 .. Len(s) -> STRING]
  BY <1>1, <1>2, <1>3
<1> QED
  BY <1>3, <1>4 DEF Names

\* What std::filesystem makes of a name is a name.
LEMMA ExtensionIsName ==
  ASSUME NEW name \in Names
  PROVE  PathExtension(name) \in Names
<1> DEFINE ends == {k \in DOMAIN name : name[k] = Separator}
           from == (IF ends = {} THEN 0 ELSE Max(ends)) + 1
           last == SubSeq(name, from, Len(name))
           dots == {k \in DOMAIN last : last[k] = Dot}
<1>0. Len(name) \in Nat /\ DOMAIN name = 1 .. Len(name) /\ name \in Seq(STRING)
  BY DEF Names
<1>1. from \in 1 .. (Len(name) + 1)
  <2>1. CASE ends = {}
    BY <1>0, <2>1
  <2>2. CASE ends # {}
    <3>1. ends \in SUBSET (1 .. Len(name))
      BY <1>0
    <3>2. Max(ends) \in 1 .. Len(name)
      <4> HIDE DEF ends
      <4> QED
        BY <1>0, <2>2, <3>1, MaxIs
    <3> HIDE DEF ends
    <3> QED
      BY <1>0, <2>2, <3>2
  <2> QED
    BY <2>1, <2>2
<1>p. PathExtension(name) =
        IF dots = {} \/ dots = {1} \/ last = << Dot, Dot >>
          THEN << >> ELSE SubSeq(last, Max(dots), Len(last))
  BY DEF PathExtension
<1> HIDE DEF from
<1>2. last \in Seq(STRING) /\ Len(last) \in Nat /\ DOMAIN last = 1 .. Len(last)
  BY <1>0, <1>1
<1> HIDE DEF last
<1>3. CASE dots = {} \/ dots = {1} \/ last = << Dot, Dot >>
  <2>1. PathExtension(name) = << >>
    BY <1>p, <1>3
  <2> QED
    BY <2>1 DEF Names
<1>4. CASE ~(dots = {} \/ dots = {1} \/ last = << Dot, Dot >>)
  <2>1. Max(dots) \in 1 .. Len(last)
    <3>1. dots \in SUBSET (1 .. Len(last)) /\ dots # {}
      BY <1>2, <1>4
    <3> HIDE DEF dots
    <3> QED
      BY <1>2, <3>1, MaxIs
  <2>2. PathExtension(name) = SubSeq(last, Max(dots), Len(last))
    BY <1>p, <1>4
  <2> HIDE DEF dots
  <2> QED
    BY <1>2, <2>1, <2>2 DEF Names
<1> QED
  BY <1>3, <1>4

\* Terminating, lowering and trimming a name is lowering it.
LEMMA TrimmedIsLower ==
  ASSUME NEW s \in Names
  PROVE  LET cache == Lower(Append(s, Null))
         IN SubSeq(cache, 1, Len(cache) - 1) = Lower(s)
<1> DEFINE terminated == Append(s, Null)
           cache == Lower(terminated)
           trimmed == SubSeq(cache, 1, Len(cache) - 1)
<1>0. Len(s) \in Nat /\ DOMAIN s = 1 .. Len(s) /\ s \in Seq(STRING)
  BY DEF Names
<1>1. /\ terminated \in Seq(STRING) /\ Len(terminated) = Len(s) + 1
      /\ DOMAIN terminated = 1 .. (Len(s) + 1)
      /\ \A k \in 1 .. Len(s) : terminated[k] = s[k]
  <2>1. Null \in STRING
    BY DescriptionAssumption
  <2>2. terminated \in Seq(STRING)
    BY <1>0, <2>1, AppendProperties
  <2>3. Len(terminated) = Len(s) + 1
    BY <1>0, <2>1, AppendProperties
  <2>4. \A k \in 1 .. Len(s) : terminated[k] = s[k]
    BY <1>0, <2>1, AppendProperties
  <2> HIDE DEF terminated
  <2> QED
    BY <1>0, <2>2, <2>3, <2>4
<1> HIDE DEF terminated
<1>2. cache \in Seq(STRING) /\ Len(cache) = Len(s) + 1
  BY <1>1, LowerIsName DEF Names
<1>3. \A k \in 1 .. Len(s) : cache[k] = Lower(s)[k]
  <2> DEFINE L(c) == IF \E d \in DOMAIN Upper : Upper[d] = c
                       THEN CHOOSE d \in DOMAIN Upper : Upper[d] = c ELSE c
  <2>1. /\ Lower(s) = [k \in DOMAIN s |-> L(s[k])]
        /\ cache = [k \in DOMAIN terminated |-> L(terminated[k])]
    BY DEF Lower
  <2> HIDE DEF L, cache
  <2> QED
    BY <1>0, <1>1, <2>1
<1> HIDE DEF cache
<1>4. /\ trimmed \in Seq(STRING) /\ Len(trimmed) = Len(s)
      /\ \A k \in 1 .. Len(s) : trimmed[k] = cache[k]
  BY <1>0, <1>2
<1>5. Lower(s) \in Seq(STRING) /\ Len(Lower(s)) = Len(s)
  BY LowerIsName DEF Names
<1>6. trimmed = Lower(s)
  <2> HIDE DEF trimmed
  <2> QED
    BY <1>0, <1>3, <1>4, <1>5, SeqEqual
<1> QED
  BY <1>6 DEF cache, terminated

-----------------------------------------------------------------------------
(* Proof: the table.                                                       *)

\* A format's extensions are the words of its string.
LEMMA ExtensionsAreWords ==
  ASSUME NEW f \in Files, NEW i \in DOMAIN Offers[f]
  PROVE  FormatExtensions(Offers[f][i]) = Words(Lower(Offers[f][i]))
<1>1. Offers[f][i] \in Seq(Characters)
  BY FormatsAssumption
<1>2. Offers[f][i] \in Names
  <2>1. Characters \subseteq STRING
    BY FormatAssumption
  <2>2. PICK s \in Seq(Characters) : s = Offers[f][i]
    BY <1>1
  <2>3. Len(s) \in Nat /\ DOMAIN s = 1 .. Len(s)
    OBVIOUS
  <2>4. \A k \in 1 .. Len(s) : s[k] \in Characters
    OBVIOUS
  <2>5. \A k \in 1 .. Len(s) : s[k] \in STRING
    BY <2>1, <2>4
  <2>6. s \in [1 .. Len(s) -> STRING]
    BY <2>3, <2>5
  <2>7. s \in Seq(STRING)
    BY <2>3, <2>6
  <2> QED
    BY <2>2, <2>7 DEF Names
<1>3. Lower(Offers[f][i]) \in Seq(STRING)
  BY <1>2, LowerIsName DEF Names
<1> QED
  BY <1>3, SplitFindsWords DEF FormatExtensions

\* The stages are numbers.
LEMMA StagesAreNumbers == \A f : Stage(f) \in 1 .. 3
  BY DEF Stage

\* Nothing has been read yet.
LEMMA TableInit == Init => TableInv
  BY DEF Init, TableInv, InOrder, IsFirst, OffersOf, NoFormat

\* The table does not change.
LEMMA TableStays ==
  ASSUME TableInv, UNCHANGED tableVars
  PROVE  TableInv'
<1>1. \A e \in Extensions : IsFirst(e)' = IsFirst(e)
  BY DEF tableVars, IsFirst, OffersOf
<1>2. InOrder' = InOrder
  BY DEF tableVars, InOrder
<1> QED
  BY <1>1, <1>2 DEF TableInv, tableVars

\* The table is begun, maybe again.
LEMMA TableBegins ==
  ASSUME TableInv, NEW t \in Threads, Begin(t)
  PROVE  TableInv'
  BY DEF Begin, IsMissing, TableInv, InOrder, IsFirst, OffersOf, NoFormat

\* Between two files.
LEMMA TableGoesOn ==
  ASSUME TableInv, Close \/ Finish \/ \E f \in Files : Open(f) \/ Skip(f) \/ Throw(f)
  PROVE  TableInv'
<1>1. UNCHANGED << formats, offered >> /\ left' \subseteq left
  BY DEF Close, Finish, Open, Skip, Throw
<1>2. \A e \in Extensions : IsFirst(e)' = IsFirst(e)
  BY <1>1 DEF IsFirst, OffersOf
<1>3. InOrder'
  <2>1. CASE Close \/ Finish \/ \E f \in Files : Skip(f) \/ Throw(f)
    BY <1>1, <2>1 DEF TableInv, InOrder, Close, Finish, Skip, Throw, IsNext
  <2>2. CASE \E f \in Files : Open(f)
    BY <1>1, <2>2, StagesAreNumbers DEF TableInv, InOrder, Open, IsNext
  <2> QED
    BY <2>1, <2>2
<1>4. /\ builder' \in Threads \cup {None}
      /\ made' => builder' = None /\ file' = None
  BY DEF TableInv, Close, Finish, Open, Skip, Throw, IsNext
<1> QED
  BY <1>1, <1>2, <1>3, <1>4 DEF TableInv

\* A format comes after all that were read, and has what they do not offer.
LEMMA TableGrows ==
  ASSUME TableInv, ReadFormat
  PROVE  TableInv'
<1>0. /\ file # None /\ index \in Nat \ {0} /\ file \in Files
      /\ index \in DOMAIN Offers[file]
  BY FormatsAssumption DEF ReadFormat, TableInv, InOrder
<1>1. PICK missed :
        LET exts == Words(Lower(Offers[file][index])) \ missed
        IN /\ formats' = [e \in Extensions |-> Taken(e, exts)]
           /\ offered' = offered \cup
                {[file |-> file, index |-> index, ext |-> e] : e \in exts}
  BY <1>0, ExtensionsAreWords DEF ReadFormat
<1> DEFINE exts == Words(Lower(Offers[file][index])) \ missed
           new(e) == [file |-> file, index |-> index, ext |-> e]
<1>2. index' = index + 1 /\ UNCHANGED << made, builder, left, file >>
  BY DEF ReadFormat
<1>3. \A e \in Extensions : formats'[e] = Taken(e, exts)
  BY <1>1
<1>4. \A o : o \in offered' <=> o \in offered \/ \E e \in exts : o = new(e)
  BY <1>1
<1> HIDE DEF exts
<1>5. InOrder'
  BY <1>0, <1>2, <1>4, StagesAreNumbers DEF TableInv, InOrder
<1>6. ASSUME NEW e \in Extensions
      PROVE  IsFirst(e)'
  <2>1. CASE e \notin exts
    <3>1. OffersOf(e)' = OffersOf(e)
      BY <1>4, <2>1 DEF OffersOf
    <3>2. formats'[e] = formats[e]
      BY <1>3, <2>1 DEF Taken
    <3> QED
      BY <3>1, <3>2 DEF TableInv, IsFirst
  <2>2. CASE e \in exts
    <3>1. OffersOf(e)' = OffersOf(e) \cup {new(e)}
      BY <1>4, <2>2 DEF OffersOf
    <3>2. CASE OffersOf(e) = {}
      <4>1. formats'[e] = FormatOf(file, index)
        BY <1>3, <2>2, <3>2 DEF TableInv, IsFirst, Taken
      <4>2. OffersOf(e)' = {new(e)}
        BY <3>1, <3>2
      <4>3. /\ new(e).file = file /\ new(e).index = index
            /\ Stage(file) <= Stage(file) /\ index <= index
        BY <1>0, StagesAreNumbers
      <4> HIDE DEF new
      <4> QED
        BY <4>1, <4>2, <4>3 DEF IsFirst
    <3>3. CASE OffersOf(e) # {}
      <4>1. PICK o \in OffersOf(e) :
              /\ formats[e] = FormatOf(o.file, o.index)
              /\ \A p \in OffersOf(e) : /\ Stage(o.file) <= Stage(p.file)
                                        /\ o.file = p.file => o.index <= p.index
        BY <3>3 DEF TableInv, IsFirst
      <4>2. /\ o.index \in Nat \ {0} /\ Stage(o.file) <= Stage(file)
            /\ o.file = file => o.index < index
        BY <1>0, <4>1 DEF TableInv, InOrder, OffersOf
      <4>3. formats'[e] = FormatOf(o.file, o.index)
        <5>1. formats[e] # NoFormat
          BY <4>1, <4>2 DEF NoFormat, FormatOf
        <5> QED
          BY <1>3, <4>1, <5>1 DEF Taken
      <4>4. \A p \in OffersOf(e)' : /\ Stage(o.file) <= Stage(p.file)
                                    /\ o.file = p.file => o.index <= p.index
        BY <1>0, <3>1, <4>1, <4>2
      <4>5. o \in OffersOf(e)'
        BY <3>1, <4>1
      <4> QED
        BY <4>3, <4>4, <4>5 DEF IsFirst
    <3> QED
      BY <3>2, <3>3
  <2> QED
    BY <2>1, <2>2
<1>7. DOMAIN formats' = Extensions
  BY <1>1
<1> QED
  BY <1>2, <1>5, <1>6, <1>7 DEF TableInv

\* Every step keeps the table in order.
LEMMA TableStep == TableInv /\ [Next]_vars => TableInv'
<1> SUFFICES ASSUME TableInv, [Next]_vars
             PROVE  TableInv'
  OBVIOUS
<1>1. CASE UNCHANGED tableVars
  BY <1>1, TableStays
<1>2. ASSUME NEW t \in Threads, Describe(t) \/ Begin(t) \/ Answer(t) \/ Return(t)
      PROVE  TableInv'
  BY <1>1, <1>2, TableBegins DEF Describe, Answer, Return
<1>3. ASSUME NEW f \in Files, Open(f) \/ Skip(f) \/ Throw(f)
      PROVE  TableInv'
  BY <1>3, TableGoesOn
<1>4. CASE ReadFormat \/ Close \/ Finish \/ Drop
  BY <1>1, <1>4, TableGrows, TableGoesOn DEF Drop
<1> QED
  BY <1>1, <1>2, <1>3, <1>4 DEF Next, vars

\* Whatever cannot be read, every extension has the first format that offers
\* it, and none only if none does.
THEOREM FirstIsTaken == Spec => []FirstWins
<1>1. TableInv => FirstWins
  BY DEF TableInv, IsFirst, OffersOf, FirstWins
<1> QED
  BY <1>1, TableInit, TableStep, PTL DEF Spec

-----------------------------------------------------------------------------
(* Proof: the descriptions.                                                *)

\* What is made of items and of streams are descriptions, not valid yet.
LEMMA NewIsDescription ==
  ASSUME NEW name \in Names, NEW isDirectory \in BOOLEAN, NEW size \in Nat,
         NEW sizeIsValid \in BOOLEAN
  PROVE  /\ New(name, isDirectory, size, sizeIsValid) \in Descriptions
         /\ ~New(name, isDirectory, size, sizeIsValid).valid
<1>1. << >> \in Names
  BY DEF Names
<1> QED
  BY <1>1 DEF New, Descriptions

\* An item's properties may be missing.
LEMMA ItemIsDescription ==
  ASSUME NEW item \in Items
  PROVE  FromArchiveItem(item) \in Descriptions /\ ~FromArchiveItem(item).valid
<1>1. item \in [path : {None} \cup Names, isDir : {None} \cup BOOLEAN,
                size : {None} \cup Nat]
  BY DescriptionAssumption
<1> DEFINE name == PropertyOr(item.path, << >>)
           isDirectory == PropertyOr(item.isDir, FALSE)
           size == PropertyOr(item.size, MAXULONGLONG)
<1>2. name \in Names /\ isDirectory \in BOOLEAN /\ size \in Nat
  <2>1. << >> \in Names
    BY DEF Names
  <2>2. /\ item.path \in {None} \cup Names
        /\ item.isDir \in {None} \cup BOOLEAN
        /\ item.size \in {None} \cup Nat
    BY <1>1
  <2> QED
    BY <2>1, <2>2, DescriptionAssumption DEF PropertyOr
<1>3. FromArchiveItem(item) = New(name, isDirectory, size, size # MAXULONGLONG)
  BY DEF FromArchiveItem
<1> HIDE DEF name, isDirectory, size
<1> QED
  BY <1>2, <1>3, NewIsDescription

\* A stream has a name and a size, a ReadStream those of its member.
LEMMA StreamIsDescription ==
  ASSUME NEW stat \in [name : Names, size : Nat]
  PROVE  FromIStream(stat) \in Descriptions /\ ~FromIStream(stat).valid
  BY NewIsDescription DEF FromIStream

LEMMA StatIsStat ==
  ASSUME NEW d \in Descriptions
  PROVE  ToStat(d) \in [name : Names, size : Nat]
  BY DEF ToStat, Descriptions

\* An object that is described has the extension it should if it has one.
ObjectInv(o) ==
    description[o] # None /\ IsValid(o) =>
        description[o].cache = Lower(Wanted(o))

\* A thread that does nothing keeps its part, if what it works with stays or
\* it has not looked at it yet.
LEMMA OtherCall ==
  ASSUME DescriptionInv, NEW u \in Threads, call'[u] = call[u],
         made => made' /\ formats' = formats,
         \A o \in Objects :
            Of(u) = o /\ ~At(u, "idle") =>
              \/ description'[o] = description[o] /\ mutex'[o] = mutex[o]
              \/ At(u, "enter") /\ description'[o] \in Descriptions
  PROVE  CallInv(u)'
<1>1. CallInv(u)
  BY DEF DescriptionInv
<1> DEFINE o == Of(u)
<1>2. Of(u)' = o /\ \A step : At(u, step)' = At(u, step)
  BY DEF Of, At
<1>3. CASE At(u, "idle")
  BY <1>1, <1>2, <1>3 DEF CallInv, At, Of
<1>4. CASE ~At(u, "idle")
  <2>1. o \in Objects
    BY <1>1, <1>4 DEF CallInv
  <2>2. CASE description'[o] = description[o] /\ mutex'[o] = mutex[o]
    BY <1>1, <1>2, <1>4, <2>1, <2>2 DEF CallInv, At, Of, IsValid, Wanted, Find
  <2>3. CASE At(u, "enter") /\ description'[o] \in Descriptions
    BY <1>1, <1>2, <1>4, <2>1, <2>3 DEF CallInv, At, Of
  <2>4. \/ description'[o] = description[o] /\ mutex'[o] = mutex[o]
        \/ At(u, "enter") /\ description'[o] \in Descriptions
    BY <1>4, <2>1
  <2> QED
    BY <2>2, <2>3, <2>4
<1> QED
  BY <1>3, <1>4

\* Nothing has been described yet.
LEMMA DescriptionsInit == Init => DescriptionInv
  BY DEF Init, DescriptionInit, DescriptionInv, CallInv, At, Of, Idle

\* The table changes as long as nobody uses it.
LEMMA TableKeepsCalls ==
  ASSUME DescriptionInv, UNCHANGED descriptionVars,
         made => made' /\ formats' = formats
  PROVE  DescriptionInv'
<1>1. UNCHANGED << description, mutex, call >>
  BY DEF descriptionVars
<1>2. \A u \in Threads : CallInv(u)'
  BY <1>1, OtherCall
<1> QED
  BY <1>1, <1>2 DEF DescriptionInv, IsValid, Wanted

\* A thread is given an object, which is new or stays as it is.
LEMMA TakeKeeps ==
  ASSUME DescriptionInv, NEW t \in Threads, NEW o \in Objects,
         UNCHANGED << mutex, tableVars >>,
         call' = [call EXCEPT ![t] = [Idle EXCEPT !.step = "enter", !.of = o]],
         \/ description' = description /\ description[o] # None
         \/ \E d \in Descriptions :
              /\ ~d.valid /\ description[o] = None
              /\ description' = [description EXCEPT ![o] = d]
  PROVE  DescriptionInv'
<1>1. /\ description' \in [Objects -> Descriptions \cup {None}]
      /\ description'[o] \in Descriptions
      /\ \A p \in Objects : p # o => description'[p] = description[p]
  BY DEF DescriptionInv
<1>2. /\ DOMAIN call' = Threads
      /\ call'[t] = [Idle EXCEPT !.step = "enter", !.of = o]
      /\ \A u \in Threads : u # t => call'[u] = call[u]
  BY DEF DescriptionInv
<1>3. made' = made /\ formats' = formats
  BY DEF tableVars
<1>4. CallInv(t)'
  BY <1>1, <1>2 DEF CallInv, At, Of, Idle
<1>5. ASSUME NEW u \in Threads, u # t
      PROVE  CallInv(u)'
  <2>1. ASSUME NEW p \in Objects, Of(u) = p, ~At(u, "idle")
        PROVE  description'[p] = description[p] /\ mutex'[p] = mutex[p]
    <3>1. description[p] # None
      BY <2>1, DescriptionAssumption DEF DescriptionInv, CallInv
    <3> QED
      BY <1>1, <3>1
  <2> QED
    BY <1>2, <1>3, <1>5, <2>1, OtherCall
<1>6. ASSUME NEW p \in Objects
      PROVE  ObjectInv(p)'
  <2>1. CASE description'[p] = description[p]
    BY <2>1 DEF DescriptionInv, ObjectInv, IsValid, Wanted
  <2>2. CASE description'[p] # description[p]
    BY <1>1, <2>2 DEF DescriptionInv, ObjectInv, IsValid
  <2> QED
    BY <2>1, <2>2
<1> QED
  BY <1>1, <1>2, <1>4, <1>5, <1>6 DEF DescriptionInv, ObjectInv

\* Objects are described.
LEMMA DescribesKeeps ==
  ASSUME DescriptionInv, NEW t \in Threads, Describes(t), UNCHANGED tableVars
  PROVE  DescriptionInv'
<1>1. ASSUME NEW o \in Objects, NEW d \in Descriptions, ~d.valid, Make(t, o, d)
      PROVE  DescriptionInv'
  BY <1>1, TakeKeeps DEF Make
<1>2. PICK o \in Objects :
        \/ Member(t, o) \/ Opened(t, o)
        \/ \E m \in Objects : OpenedInside(t, o, m)
        \/ Asked(t, o)
  BY DEF Describes
<1>3. CASE Member(t, o)
  BY <1>1, <1>3, ItemIsDescription DEF Member
<1>4. CASE Opened(t, o)
  BY <1>1, <1>4, StreamIsDescription, DescriptionAssumption DEF Opened
<1>5. ASSUME NEW m \in Objects, OpenedInside(t, o, m)
      PROVE  DescriptionInv'
  <2>1. description[m] \in Descriptions
    BY <1>5 DEF OpenedInside, DescriptionInv
  <2> QED
    BY <1>1, <1>5, <2>1, StatIsStat, StreamIsDescription DEF OpenedInside
<1>6. CASE Asked(t, o)
  BY <1>6, TakeKeeps DEF Asked
<1> QED
  BY <1>2, <1>3, <1>4, <1>5, <1>6

\* The thread that works an extension out takes the next step: it changes
\* nothing but its object, which nobody has the extension of yet.
LEMMA WorkKeeps ==
  ASSUME DescriptionInv, NEW t \in Threads, NEW o \in Objects, Of(t) = o,
         NEW c, call' = [call EXCEPT ![t] = c], UNCHANGED tableVars,
         NEW d \in Descriptions, d.name = description[o].name,
         description' = [description EXCEPT ![o] = d],
         NEW holder \in {None, t}, mutex' = [mutex EXCEPT ![o] = holder],
         mutex[o] \in {None, t}, description[o] # None, ~IsValid(o),
         d.valid => d.cache = Lower(Wanted(o)),
         CallInv(t)'
  PROVE  DescriptionInv'
<1>1. /\ description' \in [Objects -> Descriptions \cup {None}]
      /\ description'[o] = d
      /\ \A p \in Objects : p # o => description'[p] = description[p]
  BY DEF DescriptionInv
<1>2. /\ mutex' \in [Objects -> Threads \cup {None}]
      /\ \A p \in Objects : p # o => mutex'[p] = mutex[p]
  BY DEF DescriptionInv
<1>3. DOMAIN call' = Threads /\ \A u \in Threads : u # t => call'[u] = call[u]
  BY DEF DescriptionInv
<1>4. made' = made /\ formats' = formats
  BY DEF tableVars
<1>5. ASSUME NEW u \in Threads, u # t
      PROVE  CallInv(u)'
  <2>1. ASSUME NEW p \in Objects, Of(u) = p, ~At(u, "idle")
        PROVE  \/ description'[p] = description[p] /\ mutex'[p] = mutex[p]
               \/ At(u, "enter") /\ description'[p] \in Descriptions
    <3>1. CASE p # o
      BY <1>1, <1>2, <3>1
    <3>2. CASE p = o
      <4>1. u # None
        BY DescriptionAssumption
      <4>2. CallInv(u)
        BY DEF DescriptionInv
      <4>3. ~At(u, "lower") /\ ~At(u, "trim")
        BY <1>5, <2>1, <3>2, <4>1, <4>2 DEF CallInv
      <4>4. ~At(u, "has") /\ ~At(u, "answered")
        BY <2>1, <3>2, <4>2 DEF CallInv
      <4> QED
        BY <1>1, <2>1, <3>2, <4>2, <4>3, <4>4 DEF CallInv, At
    <3> QED
      BY <3>1, <3>2
  <2> QED
    BY <1>3, <1>4, <1>5, <2>1, OtherCall
<1>6. ASSUME NEW p \in Objects
      PROVE  ObjectInv(p)'
  <2>1. CASE p # o
    BY <1>1, <2>1 DEF DescriptionInv, ObjectInv, IsValid, Wanted
  <2>2. CASE p = o
    BY <1>1, <2>2 DEF ObjectInv, IsValid, Wanted
  <2> QED
    BY <2>1, <2>2
<1> QED
  BY <1>1, <1>2, <1>3, <1>5, <1>6 DEF DescriptionInv, ObjectInv

\* Where a thread that works on an extension is.
LEMMA WorkerHas ==
  ASSUME DescriptionInv, NEW t \in Threads, ~At(t, "idle")
  PROVE  /\ Of(t) \in Objects /\ description[Of(t)] \in Descriptions
         /\ description[Of(t)] # None
         /\ DOMAIN call[t] = {"step", "of", "format"}
         /\ Wanted(Of(t)) \in Names
<1>1. CallInv(t)
  BY DEF DescriptionInv
<1>2. /\ Of(t) \in Objects /\ description[Of(t)] \in Descriptions
      /\ DOMAIN call[t] = {"step", "of", "format"}
  BY <1>1 DEF CallInv
<1>3. description[Of(t)] # None
  BY <1>2, DescriptionAssumption
<1>4. Wanted(Of(t)) \in Names
  BY <1>2, ExtensionIsName DEF Wanted, Descriptions
<1> QED
  BY <1>2, <1>3, <1>4

\* A description with another cache.
LEMMA RefilledIs ==
  ASSUME NEW d \in Descriptions, NEW cache \in Names, NEW valid \in BOOLEAN
  PROVE  LET new == [d EXCEPT !.cache = cache, !.valid = valid]
         IN /\ new \in Descriptions /\ new.name = d.name
            /\ new.cache = cache /\ new.valid = valid
  BY DEF Descriptions

\* The extension is there, or it is assigned.
LEMMA EnterKeeps ==
  ASSUME DescriptionInv, NEW t \in Threads, Enter(t), UNCHANGED tableVars
  PROVE  DescriptionInv'
<1> DEFINE o == Of(t)
<1>1. /\ o \in Objects /\ description[o] \in Descriptions
      /\ description[o] # None
      /\ DOMAIN call[t] = {"step", "of", "format"}
      /\ Wanted(o) \in Names
  BY WorkerHas DEF Enter, At
<1>2. DOMAIN call = Threads
  BY DEF DescriptionInv
<1>3. CASE IsValid(o)
  <2>1. /\ UNCHANGED << description, mutex >>
        /\ call' = [call EXCEPT ![t].step = "has"]
    BY <1>3 DEF Enter, GoTo
  <2>2. /\ DOMAIN call' = Threads
        /\ DOMAIN call'[t] = {"step", "of", "format"}
        /\ call'[t].step = "has" /\ call'[t].of = o
        /\ \A u \in Threads : u # t => call'[u] = call[u]
    BY <1>1, <1>2, <2>1 DEF Of
  <2>3. CallInv(t)'
    BY <1>1, <1>3, <2>1, <2>2 DEF CallInv, At, Of, IsValid
  <2>4. \A u \in Threads : u # t => CallInv(u)'
    BY <2>1, <2>2, OtherCall DEF tableVars
  <2> QED
    BY <2>1, <2>2, <2>3, <2>4 DEF DescriptionInv, IsValid, Wanted
<1>4. CASE ~IsValid(o)
  <2> DEFINE cache == Append(Wanted(o), Null)
             d == [description[o] EXCEPT !.cache = cache, !.valid = FALSE]
             c == [call[t] EXCEPT !.step = "lower"]
  <2>1. cache \in Names
    BY <1>1, AppendProperties, DescriptionAssumption DEF Names
  <2> HIDE DEF cache
  <2>2. /\ d \in Descriptions /\ d.name = description[o].name
        /\ d.cache = cache /\ d.valid = FALSE
    BY <1>1, <2>1, RefilledIs
  <2>3. [description[o] EXCEPT !.cache = cache] = d
    BY <1>1, <1>4 DEF Descriptions, IsValid
  <2>4. /\ description' = [description EXCEPT ![o] = d]
        /\ mutex' = [mutex EXCEPT ![o] = t] /\ mutex[o] = None
        /\ call' = [call EXCEPT ![t] = c]
    BY <1>1, <1>4, <2>3 DEF Enter, Fill, GoTo, cache, Wanted, DescriptionInv
  <2>5. /\ DOMAIN c = {"step", "of", "format"}
        /\ c.step = "lower" /\ c.of = o
    BY <1>1 DEF Of
  <2> HIDE DEF d, c
  <2>6. CallInv(t)'
    <3>1. description'[o] = d /\ mutex'[o] = t /\ call'[t] = c
      BY <1>1, <1>2, <2>4 DEF DescriptionInv
    <3> QED
      BY <1>1, <2>2, <2>5, <3>1 DEF CallInv, At, Of, IsValid, Wanted, cache
  <2> HIDE DEF o
  <2> QED
    BY <1>1, <1>4, <2>2, <2>4, <2>6, WorkKeeps DEF o
<1> QED
  BY <1>3, <1>4

\* It is lowered.
LEMMA LowerKeeps ==
  ASSUME DescriptionInv, NEW t \in Threads, LowerIt(t), UNCHANGED tableVars
  PROVE  DescriptionInv'
<1> DEFINE o == Of(t)
<1>1. /\ o \in Objects /\ description[o] \in Descriptions
      /\ description[o] # None
      /\ DOMAIN call[t] = {"step", "of", "format"}
      /\ Wanted(o) \in Names
  BY WorkerHas DEF LowerIt, At
<1>2. DOMAIN call = Threads /\ mutex \in [Objects -> Threads \cup {None}]
  BY DEF DescriptionInv
<1>3. /\ description[o].cache = Append(Wanted(o), Null)
      /\ mutex[o] = t /\ ~IsValid(o)
  BY DEF LowerIt, DescriptionInv, CallInv
<1> DEFINE cache == Lower(Append(Wanted(o), Null))
           d == [description[o] EXCEPT !.cache = cache, !.valid = FALSE]
           c == [call[t] EXCEPT !.step = "trim"]
<1>4. cache \in Names
  <2>1. description[o].cache \in Names
    BY <1>1 DEF Descriptions
  <2> QED
    BY <1>3, <2>1, LowerIsName
<1> HIDE DEF cache
<1>5. /\ d \in Descriptions /\ d.name = description[o].name
      /\ d.cache = cache /\ d.valid = FALSE
  BY <1>1, <1>4, RefilledIs
<1>6. [description[o] EXCEPT !.cache = cache] = d
  BY <1>1, <1>3 DEF Descriptions, IsValid
<1>7. /\ description' = [description EXCEPT ![o] = d]
      /\ mutex' = [mutex EXCEPT ![o] = t]
      /\ call' = [call EXCEPT ![t] = c]
  <2>1. /\ description' = [description EXCEPT ![o].cache = cache]
        /\ mutex' = mutex /\ call' = [call EXCEPT ![t].step = "trim"]
    BY <1>3 DEF LowerIt, Fill, GoTo, cache
  <2>2. mutex' = [mutex EXCEPT ![o] = t]
    BY <1>2, <1>3, <2>1
  <2> QED
    BY <1>1, <1>6, <2>1, <2>2 DEF DescriptionInv
<1>8. /\ DOMAIN c = {"step", "of", "format"}
      /\ c.step = "trim" /\ c.of = o
  BY <1>1 DEF Of
<1> HIDE DEF d, c
<1>9. CallInv(t)'
  <2>1. description'[o] = d /\ mutex'[o] = t /\ call'[t] = c
    BY <1>1, <1>2, <1>7 DEF DescriptionInv
  <2> QED
    BY <1>1, <1>5, <1>8, <2>1 DEF CallInv, At, Of, IsValid, Wanted, cache
<1> HIDE DEF o
<1> QED
  BY <1>1, <1>3, <1>5, <1>7, <1>9, WorkKeeps DEF o

\* The null terminator is taken off: the extension is there.
LEMMA TrimKeeps ==
  ASSUME DescriptionInv, NEW t \in Threads, Trim(t), UNCHANGED tableVars
  PROVE  DescriptionInv'
<1> DEFINE o == Of(t)
<1>1. /\ o \in Objects /\ description[o] \in Descriptions
      /\ description[o] # None
      /\ DOMAIN call[t] = {"step", "of", "format"}
      /\ Wanted(o) \in Names
  BY WorkerHas DEF Trim, At
<1>2. DOMAIN call = Threads /\ mutex \in [Objects -> Threads \cup {None}]
  BY DEF DescriptionInv
<1>3. /\ description[o].cache = Lower(Append(Wanted(o), Null))
      /\ mutex[o] = t /\ ~IsValid(o)
  BY DEF Trim, DescriptionInv, CallInv
<1> DEFINE old == description[o].cache
           cache == SubSeq(old, 1, Len(old) - 1)
           d == [description[o] EXCEPT !.cache = cache, !.valid = TRUE]
           c == [call[t] EXCEPT !.step = "has"]
<1>4. cache = Lower(Wanted(o)) /\ cache \in Names
  BY <1>1, <1>3, TrimmedIsLower, LowerIsName
<1>5. /\ d \in Descriptions /\ d.name = description[o].name
      /\ d.cache = cache /\ d.valid = TRUE
  <2> HIDE DEF cache
  <2> QED
    BY <1>1, <1>4, RefilledIs
<1>6. /\ description' = [description EXCEPT ![o] = d]
      /\ mutex' = [mutex EXCEPT ![o] = None]
      /\ call' = [call EXCEPT ![t] = c]
  <2>1. description' = [description EXCEPT ![o].cache = cache, ![o].valid = TRUE]
    BY DEF Trim
  <2>2. description' = [description EXCEPT ![o] = d]
    <3> HIDE DEF cache
    <3> QED
      BY <1>1, <2>1 DEF DescriptionInv
  <2> QED
    BY <2>2 DEF Trim, GoTo
<1>7. /\ DOMAIN c = {"step", "of", "format"}
      /\ c.step = "has" /\ c.of = o
  BY <1>1 DEF Of
<1> HIDE DEF d, c, cache
<1>8. CallInv(t)'
  <2>1. description'[o] = d /\ call'[t] = c
    BY <1>1, <1>2, <1>6 DEF DescriptionInv
  <2> QED
    BY <1>1, <1>5, <1>7, <2>1 DEF CallInv, At, Of, IsValid
<1> HIDE DEF o
<1> QED
  BY <1>1, <1>3, <1>4, <1>5, <1>6, <1>8, WorkKeeps DEF o

\* A thread that is idle has nothing to keep.
LEMMA IdleKeeps ==
  ASSUME DescriptionInv, NEW t \in Threads, call' = [call EXCEPT ![t] = Idle],
         UNCHANGED << description, mutex >>, made => made' /\ formats' = formats
  PROVE  DescriptionInv'
<1>1. /\ DOMAIN call' = Threads /\ call'[t] = Idle
      /\ \A u \in Threads : u # t => call'[u] = call[u]
  BY DEF DescriptionInv
<1>2. CallInv(t)'
  BY <1>1 DEF CallInv, At, Of, Idle
<1>3. \A u \in Threads : u # t => CallInv(u)'
  BY <1>1, OtherCall
<1> QED
  BY <1>1, <1>2, <1>3 DEF DescriptionInv, IsValid, Wanted

\* Working an extension out fails: the next thread begins anew.
LEMMA FailureKeeps ==
  ASSUME DescriptionInv, NEW t \in Threads, ExtensionFails(t),
         UNCHANGED tableVars
  PROVE  DescriptionInv'
<1>1. call' = [call EXCEPT ![t] = Idle]
  BY DEF ExtensionFails
<1>2. CASE At(t, "enter")
  <2>1. UNCHANGED << description, mutex >>
    BY <1>2 DEF ExtensionFails, At
  <2> QED
    BY <1>1, <2>1, IdleKeeps DEF tableVars
<1>3. CASE At(t, "lower")
  <2> DEFINE o == Of(t)
  <2>1. /\ o \in Objects /\ description[o] \in Descriptions
        /\ description[o] # None /\ Wanted(o) \in Names
    BY <1>3, WorkerHas DEF At
  <2>2. mutex[o] = t /\ ~IsValid(o)
    BY <1>3 DEF DescriptionInv, CallInv
  <2>3. /\ mutex' = [mutex EXCEPT ![o] = None]
        /\ \/ description' = [description EXCEPT ![o].cache = Wanted(o)]
           \/ description' = description
    BY <1>3 DEF ExtensionFails, At, Fill, Wanted
  <2>4. PICK cache \in Names :
          description' = [description EXCEPT ![o].cache = cache]
    <3>1. CASE description' = [description EXCEPT ![o].cache = Wanted(o)]
      BY <2>1, <3>1
    <3>2. CASE description' = description
      <4>1. description[o] = [description[o] EXCEPT !.cache = description[o].cache]
        BY <2>1 DEF Descriptions
      <4>2. description' = [description EXCEPT ![o].cache = description[o].cache]
        BY <2>1, <3>2, <4>1 DEF DescriptionInv
      <4>3. description[o].cache \in Names
        BY <2>1 DEF Descriptions
      <4> QED
        BY <4>2, <4>3
    <3> QED
      BY <2>3, <3>1, <3>2
  <2> DEFINE d == [description[o] EXCEPT !.cache = cache, !.valid = FALSE]
  <2>5. /\ d \in Descriptions /\ d.name = description[o].name /\ d.valid = FALSE
    BY <2>1, RefilledIs
  <2>6. description' = [description EXCEPT ![o] = d]
    <3>1. [description[o] EXCEPT !.cache = cache] = d
      BY <2>1, <2>2 DEF Descriptions, IsValid
    <3> QED
      BY <2>4, <3>1
  <2>7. CallInv(t)'
    <3>1. call'[t] = Idle
      BY <1>1 DEF DescriptionInv
    <3> QED
      BY <3>1 DEF CallInv, At, Of, Idle
  <2> HIDE DEF d, o
  <2> QED
    BY <1>1, <2>1, <2>2, <2>3, <2>5, <2>6, <2>7, WorkKeeps DEF o
<1> QED
  BY <1>2, <1>3 DEF ExtensionFails

\* The call is given the format out of the table.
LEMMA AnswerKeeps ==
  ASSUME DescriptionInv, NEW t \in Threads, Answer(t)
  PROVE  DescriptionInv'
<1> DEFINE o == Of(t)
           found == Find(Reference(t))
<1>1. /\ o \in Objects /\ description[o] \in Descriptions
      /\ description[o] # None
      /\ DOMAIN call[t] = {"step", "of", "format"}
  BY WorkerHas DEF Answer, At
<1>2. IsValid(o) /\ made
  BY DEF Answer, DescriptionInv, CallInv
<1>3. found = Find(Lower(Wanted(o)))
  BY <1>1, <1>2 DEF DescriptionInv, Reference
<1> HIDE DEF found
<1>4. /\ call' = [call EXCEPT ![t].step = "answered", ![t].format = found]
      /\ UNCHANGED << description, mutex, tableVars >>
  BY DEF Answer, found
<1>5. /\ DOMAIN call' = Threads
      /\ DOMAIN call'[t] = {"step", "of", "format"}
      /\ call'[t].step = "answered" /\ call'[t].of = o
      /\ call'[t].format = found
      /\ \A u \in Threads : u # t => call'[u] = call[u]
  BY <1>1, <1>4 DEF DescriptionInv, Of
<1>6. CallInv(t)'
  BY <1>1, <1>2, <1>3, <1>4, <1>5
     DEF CallInv, At, Of, IsValid, Wanted, Find, tableVars
<1>7. \A u \in Threads : u # t => CallInv(u)'
  BY <1>4, <1>5, OtherCall DEF tableVars
<1> QED
  BY <1>4, <1>5, <1>6, <1>7 DEF DescriptionInv, IsValid, Wanted

\* An object that nobody works with goes.
LEMMA DropKeeps ==
  ASSUME DescriptionInv, NEW o \in Objects, Dropped(o), UNCHANGED tableVars
  PROVE  DescriptionInv'
<1>1. /\ description' \in [Objects -> Descriptions \cup {None}]
      /\ description'[o] = None
      /\ \A p \in Objects : p # o => description'[p] = description[p]
      /\ UNCHANGED << mutex, call >> /\ \A t \in Threads : Of(t) # o
  BY DEF Dropped, DescriptionInv
<1>2. \A u \in Threads : CallInv(u)'
  BY <1>1, OtherCall DEF tableVars
<1>3. ASSUME NEW p \in Objects
      PROVE  ObjectInv(p)'
  BY <1>1 DEF DescriptionInv, ObjectInv, IsValid, Wanted
<1> QED
  BY <1>1, <1>2, <1>3 DEF DescriptionInv, ObjectInv

\* Every step keeps the descriptions as they should be.
LEMMA DescriptionStep == IInv /\ [Next]_vars => DescriptionInv'
<1> SUFFICES ASSUME TableInv, DescriptionInv, [Next]_vars
             PROVE  DescriptionInv'
  BY DEF IInv
<1>1. CASE UNCHANGED vars
  BY <1>1, TableKeepsCalls DEF vars, tableVars
<1>2. ASSUME NEW t \in Threads, Describe(t)
      PROVE  DescriptionInv'
  BY <1>2, DescribesKeeps, EnterKeeps, LowerKeeps, TrimKeeps, FailureKeeps
     DEF Describe, GetExtension
<1>3. ASSUME NEW t \in Threads, Begin(t)
      PROVE  DescriptionInv'
  BY <1>3, TableKeepsCalls DEF Begin, IsMissing
<1>4. ASSUME NEW t \in Threads, Answer(t) \/ Return(t)
      PROVE  DescriptionInv'
  BY <1>4, AnswerKeeps, IdleKeeps DEF Return, tableVars
<1>5. ASSUME NEW f \in Files, Open(f) \/ Skip(f)
      PROVE  DescriptionInv'
  BY <1>5, TableKeepsCalls DEF Open, Skip
<1>6. ASSUME NEW f \in Files, Throw(f)
      PROVE  DescriptionInv'
  <2>1. builder \in Threads
    BY <1>6 DEF Throw, IsNext, TableInv
  <2> QED
    BY <1>6, <2>1, IdleKeeps DEF Throw
<1>7. CASE ReadFormat
  BY <1>7, TableKeepsCalls DEF ReadFormat, TableInv
<1>8. CASE Close \/ Finish
  BY <1>8, TableKeepsCalls DEF Close, Finish
<1>9. CASE Drop
  BY <1>9, DropKeeps DEF Drop
<1> QED
  BY <1>1, <1>2, <1>3, <1>4, <1>5, <1>6, <1>7, <1>8, <1>9 DEF Next

\* The invariant holds, whatever fails and whoever comes first.
THEOREM Invariance == Spec => []IInv
<1>1. Init => IInv
  BY TableInit, DescriptionsInit DEF IInv
<1>2. IInv /\ [Next]_vars => IInv'
  BY TableStep, DescriptionStep DEF IInv
<1> QED
  BY <1>1, <1>2, PTL DEF Spec

\* Every call is given the format its file's name asks for, whichever thread
\* worked the extension out and whichever one made the table.
THEOREM AnswersAgree == Spec => []OneAnswer
<1>1. IInv => OneAnswer
  <2> SUFFICES ASSUME DescriptionInv, NEW t \in Threads, At(t, "answered")
               PROVE  /\ made
                      /\ call[t].format =
                           Find(Lower(PathExtension(description[Of(t)].name)))
    BY DEF IInv, OneAnswer
  <2> QED
    BY DEF DescriptionInv, CallInv, Wanted
<1> QED
  BY <1>1, Invariance, PTL
=============================================================================
