------------------------- MODULE CachedChunkProofs --------------------------
(***************************************************************************)
(* Proofs about CachedChunk, for texts, blocks and buffers of any length   *)
(* and any ids a sub-filter may use.                                       *)
(*                                                                         *)
(* The invariant says how far the copy is (TextInv), who has the value     *)
(* (ValueInv) and what the id map knows of the chunks handed out (IdInv).  *)
(***************************************************************************)
EXTENDS CachedChunk, TLAPS, SequenceTheorems

ChunkRecords ==
    [special : BOOLEAN, failed : BOOLEAN, flags : SUBSET Flags, sub : Nat,
     id : Nat, source : Nat, text : Seq(Nat), value : BOOLEAN,
     textOffset : Nat]

HandedRecords ==
    [sub : Nat, id : Nat, named : Nat, special : BOOLEAN, failed : BOOLEAN]

Steps == {"none", "text", "value", "queued", "current"}

TypeOK ==
    /\ chunk \in ChunkRecords
    /\ step \in Steps
    /\ said \in Nat
    /\ idMap \in [SubIds -> Nat]
    /\ lastId \in Nat
    /\ received \in Seq(Nat)
    /\ taken \in Nat
    /\ handed \in Seq(HandedRecords)

\* What of the text is there: while it is copied what the sub-filter has said,
\* then all of it or nothing; the host has got what is before textOffset.
TextInv ==
    /\ step = "text" => /\ "text" \in chunk.flags
                        /\ chunk.text = Numbered(said)
    /\ step \in {"value", "queued", "current"} =>
           chunk.text = IF "text" \in chunk.flags THEN Numbered(said)
                                                  ELSE << >>
    /\ chunk.textOffset <= Len(chunk.text)
    /\ received = SubSeq(chunk.text, 1, chunk.textOffset)
    /\ step # "current" => chunk.textOffset = 0 /\ told = "none"
    /\ told \in {"FILTER_S_LAST_TEXT", "FILTER_E_NO_MORE_TEXT"} =>
           received = Numbered(said)

\* The value is there once it is copied, until it is given away.
ValueInv ==
    /\ step # "current" => taken = 0
    /\ step \in {"text", "value"} => ~chunk.value
    /\ step = "value" => "value" \in chunk.flags
    /\ step = "queued" => (chunk.value <=> "value" \in chunk.flags)
    /\ ValueHasOneOwner

\* The chunks handed out to which the sub-filter gave the id s.
Called(s) == {k \in DOMAIN handed : ~handed[k].special /\ handed[k].sub = s}

\* The map has the id of the last of them.
Mapped(s) ==
    IF idMap[s] = 0 THEN Called(s) = {}
    ELSE \E k \in Called(s) : /\ handed[k].id = idMap[s]
                              /\ \A j \in Called(s) : j <= k

IdInv ==
    /\ \A s \in SubIds : Mapped(s)
    /\ step # "none" /\ ~chunk.special => chunk.sub \in SubIds
    /\ step \notin {"none", "current"} /\ ~chunk.special =>
           chunk.source \in SubIds
    /\ step = "current" => handed # << >>
    /\ SourceIsKnown

IInv == TypeOK /\ TextInv /\ ValueInv /\ IdInv

-----------------------------------------------------------------------------
(* Texts and chunks.                                                       *)

\* Numbered characters are a text of that length.
LEMMA NumberedIs ==
  ASSUME NEW n \in Nat
  PROVE  /\ Numbered(n) \in Seq(Nat) /\ Len(Numbered(n)) = n
         /\ \A k \in 1 .. n : Numbered(n)[k] = k
BY DEF Numbered

\* Characters followed by the next ones are numbered, too.
LEMMA Adjoined ==
  ASSUME NEW s \in Seq(Nat), NEW t \in Seq(Nat),
         \A k \in 1 .. Len(s) : s[k] = k,
         \A k \in 1 .. Len(t) : t[k] = Len(s) + k
  PROVE  s \o t = Numbered(Len(s) + Len(t))
<1>1. /\ s \o t \in Seq(Nat) /\ Len(s \o t) = Len(s) + Len(t)
      /\ Len(s) \in Nat /\ Len(t) \in Nat
      /\ \A k \in 1 .. Len(s) + Len(t) :
             (s \o t)[k] = IF k <= Len(s) THEN s[k] ELSE t[k - Len(s)]
  BY ConcatProperties
<1>2. \A k \in 1 .. Len(s) + Len(t) : (s \o t)[k] = k
  BY <1>1
<1>3. PICK n \in Nat : n = Len(s) + Len(t)
  BY <1>1
<1>4. /\ Numbered(n) \in Seq(Nat) /\ Len(Numbered(n)) = n
      /\ \A k \in 1 .. n : Numbered(n)[k] = k
  BY NumberedIs
<1>5. \A k \in 1 .. Len(s \o t) : (s \o t)[k] = Numbered(n)[k]
  BY <1>1, <1>2, <1>3, <1>4
<1>6. s \o t = Numbered(n)
  BY <1>1, <1>3, <1>4, <1>5, SeqEqual
<1> QED
  BY <1>3, <1>6

\* The next n characters after m make the first m + n.
LEMMA NumberedGrows ==
  ASSUME NEW m \in Nat, NEW n \in Nat
  PROVE  /\ Numbered(m) \o [k \in 1 .. n |-> m + k] = Numbered(m + n)
         /\ [k \in 1 .. n |-> m + k] \in Seq(Nat)
<1>1. PICK s \in Seq(Nat) :
        s = Numbered(m) /\ Len(s) = m /\ \A k \in 1 .. m : s[k] = k
  BY NumberedIs
<1>2. PICK t \in Seq(Nat) : /\ t = [k \in 1 .. n |-> m + k] /\ Len(t) = n
                            /\ \A k \in 1 .. n : t[k] = m + k
  <2>1. /\ [k \in 1 .. n |-> m + k] \in Seq(Nat)
        /\ Len([k \in 1 .. n |-> m + k]) = n
        /\ \A k \in 1 .. n : [j \in 1 .. n |-> m + j][k] = m + k
    OBVIOUS
  <2> QED
    BY <2>1, Zenon
<1>3. s \o t = Numbered(Len(s) + Len(t))
  <2>1. /\ \A k \in 1 .. Len(s) : s[k] = k
        /\ \A k \in 1 .. Len(t) : t[k] = Len(s) + k
    BY <1>1, <1>2
  <2> QED
    BY <2>1, Adjoined
<1> QED
  BY <1>1, <1>2, <1>3

\* What the host has got and the next n characters are the text's beginning.
LEMMA BeginningGrows ==
  ASSUME NEW text \in Seq(Nat), NEW m \in Nat, NEW n \in Nat, m + n <= Len(text)
  PROVE  /\ SubSeq(text, 1, m) \o SubSeq(text, m + 1, m + n)
              = SubSeq(text, 1, m + n)
         /\ SubSeq(text, 1, m) \in Seq(Nat)
         /\ SubSeq(text, m + 1, m + n) \in Seq(Nat)
<1>1. SubSeq(text, 1, m) \in Seq(Nat) /\ SubSeq(text, m + 1, m + n) \in Seq(Nat)
  BY SubSeqProperties
<1>2. 1 \in 1 .. Len(text) + 1 /\ m \in 1 - 1 .. Len(text)
      /\ m + n \in m .. Len(text)
  OBVIOUS
<1> QED
  BY <1>1, <1>2, ConcatAdjacentSubSeq

\* The copy goes on with the value if there is one, or is done.
LEMMA CopyStepIs ==
  ASSUME NEW flags \in SUBSET Flags, "text" \notin flags
  PROVE  CopyStep(flags) = IF "value" \in flags THEN "value" ELSE "queued"
BY DEF CopyStep

\* A blank chunk has nothing.
LEMMA BlankIs ==
  /\ Blank \in ChunkRecords
  /\ Blank.special /\ ~Blank.failed /\ Blank.flags = {}
  /\ Blank.text = << >> /\ ~Blank.value /\ Blank.textOffset = 0
<1>1. << >> \in Seq(Nat)
  OBVIOUS
<1> QED
  BY <1>1 DEF Blank, ChunkRecords

-----------------------------------------------------------------------------
(* Every step keeps every part.                                            *)

\* A chunk is made.
LEMMA MakingKeeps ==
  ASSUME IInv, \/ \E length \in 0 .. MaxText : FromFileDescription(length)
               \/ FromHResult
               \/ \E sub, source \in SubIds, flags \in SUBSET Flags :
                     FromFilter(sub, source, flags)
  PROVE  TypeOK' /\ TextInv' /\ ValueInv'
<1>a. /\ << >> \in Seq(Nat) /\ << >> \in Seq(HandedRecords)
      /\ SubSeq(<< >>, 1, 0) = << >> /\ Len(<< >>) = 0
  OBVIOUS
<1> USE <1>a, BlankIs DEF ChunkRecords
<1>1. ASSUME NEW length \in 0 .. MaxText, FromFileDescription(length)
      PROVE  TypeOK' /\ TextInv' /\ ValueInv'
  <2>1. length \in Nat /\ Numbered(length) \in Seq(Nat)
    BY NumberedIs, CachedChunkAssumption
  <2>2. /\ chunk' \in ChunkRecords /\ chunk'.text = Numbered(length)
        /\ chunk'.flags = {"text"} /\ ~chunk'.value /\ chunk'.textOffset = 0
        /\ step' = "queued" /\ said' = length /\ received' = << >>
        /\ taken' = 0 /\ told' = "none"
    BY <1>1, <2>1 DEF FromFileDescription, Forget, Flags
  <2>3. SubSeq(Numbered(length), 1, 0) = << >> /\ 0 <= Len(Numbered(length))
    BY <2>1, SubSeqEmpty
  <2>4. /\ idMap' \in [SubIds -> Nat] /\ lastId' \in Nat
        /\ handed' \in Seq(HandedRecords)
    <3>1. lastId \in Nat
      BY DEF IInv, TypeOK
    <3>2. idMap' = [s \in SubIds |-> 0] /\ handed' = << >>
      BY <1>1 DEF FromFileDescription
    <3>3. lastId' \in {lastId, lastId + 1}
      BY <1>1 DEF FromFileDescription
    <3> QED
      BY <3>1, <3>2, <3>3
  <2> QED
    BY <2>1, <2>2, <2>3, <2>4
       DEF TypeOK, TextInv, ValueInv, ValueHasOneOwner, Steps
<1>2. CASE FromHResult
  <2>1. /\ chunk' \in ChunkRecords /\ chunk'.text = << >>
        /\ chunk'.flags = {} /\ ~chunk'.value /\ chunk'.textOffset = 0
        /\ step' = "queued" /\ said' = 0 /\ received' = << >>
        /\ taken' = 0 /\ told' = "none"
        /\ UNCHANGED << idMap, lastId, handed >>
    BY <1>2 DEF FromHResult, Forget
  <2>2. TypeOK'
    BY <2>1 DEF IInv, TypeOK, Steps
  <2>3. TextInv'
    BY <2>1 DEF TextInv
  <2>4. ValueInv'
    BY <2>1 DEF ValueInv, ValueHasOneOwner
  <2> QED
    BY <2>2, <2>3, <2>4
<1>3. ASSUME NEW sub \in SubIds, NEW source \in SubIds,
             NEW flags \in SUBSET Flags, FromFilter(sub, source, flags)
      PROVE  TypeOK' /\ TextInv' /\ ValueInv'
  <2>1. sub \in Nat /\ source \in Nat
    BY CachedChunkAssumption
  <2>2. /\ chunk' \in ChunkRecords /\ chunk'.text = << >>
        /\ chunk'.flags = flags /\ ~chunk'.value /\ chunk'.textOffset = 0
        /\ step' = CopyStep(flags) /\ said' = 0 /\ received' = << >>
        /\ taken' = 0 /\ told' = "none"
        /\ UNCHANGED << idMap, lastId, handed >>
    BY <1>3, <2>1 DEF FromFilter, Forget
  <2>3. /\ step' \in {"text", "value", "queued"}
        /\ step' = "text" <=> "text" \in flags
        /\ step' = "value" => "value" \in flags
        /\ step' = "queued" => "value" \notin flags
    BY <2>2 DEF CopyStep
  <2>4. Numbered(0) = << >>
    BY DEF Numbered
  <2>5. TypeOK'
    BY <2>2, <2>3 DEF IInv, TypeOK, Steps
  <2>6. TextInv'
    BY <2>2, <2>3, <2>4 DEF TextInv
  <2>7. ValueInv'
    BY <2>2, <2>3 DEF ValueInv, ValueHasOneOwner
  <2> QED
    BY <2>5, <2>6, <2>7
<1> QED
  BY <1>1, <1>2, <1>3

\* The text or the value is copied.
LEMMA CopyKeeps ==
  ASSUME IInv, \/ \E n \in 0 .. BlockSize - 1, last \in BOOLEAN :
                     CopyText(n, last)
               \/ CopyTextEnds \/ CopyTextFails \/ CopyValue
  PROVE  TypeOK' /\ TextInv' /\ ValueInv'
<1>a. /\ chunk \in ChunkRecords /\ said \in Nat /\ << >> \in Seq(Nat)
      /\ chunk.textOffset = 0 /\ told = "none" /\ step # "current"
      /\ UNCHANGED << idMap, lastId, host, handed >>
  BY DEF IInv, TypeOK, TextInv, CopyText, CopyTextEnds, CopyTextFails, CopyValue
<1>b. received = << >> /\ taken = 0
  <2>1. chunk.text \in Seq(Nat)
    BY <1>a DEF ChunkRecords
  <2> QED
    BY <1>a, <2>1, SubSeqEmpty DEF IInv, TextInv, ValueInv
<1>c. /\ idMap' \in [SubIds -> Nat] /\ lastId' \in Nat
      /\ handed' \in Seq(HandedRecords)
      /\ received' = << >> /\ taken' = 0 /\ told' = "none"
  BY <1>a, <1>b DEF host, IInv, TypeOK
<1>d. \A text \in Seq(Nat) : SubSeq(text, 1, 0) = << >> /\ 0 <= Len(text)
  BY SubSeqEmpty
<1>1. ASSUME NEW n \in Nat, NEW last \in BOOLEAN, CopyText(n, last)
      PROVE  TypeOK' /\ TextInv' /\ ValueInv'
  <2>1. step = "text" /\ "text" \in chunk.flags /\ chunk.text = Numbered(said)
        /\ ~chunk.value
    BY <1>1 DEF CopyText, IInv, TextInv, ValueInv
  <2>2. PICK m \in Nat : m = said + n
    BY <1>a
  <2>3. /\ chunk' = [chunk EXCEPT !.text = Numbered(m)] /\ said' = m
        /\ Numbered(m) \in Seq(Nat)
    BY <1>1, <1>a, <2>1, <2>2, NumberedGrows, NumberedIs
       DEF CopyText, ChunkRecords
  <2>4. /\ chunk' \in ChunkRecords /\ chunk'.text = Numbered(m)
        /\ chunk'.flags = chunk.flags /\ chunk'.value = chunk.value
        /\ chunk'.textOffset = 0
    BY <1>a, <2>3 DEF ChunkRecords
  <2>5. \/ step' = "text"
        \/ step' = IF "value" \in chunk.flags THEN "value" ELSE "queued"
    BY <1>1, <1>a, <2>1, CopyStepIs DEF CopyText, ChunkRecords
  <2> QED
    BY <1>c, <1>d, <2>1, <2>3, <2>4, <2>5
       DEF TypeOK, TextInv, ValueInv, ValueHasOneOwner, Steps
<1>2. CASE CopyTextEnds
  <2>1. step = "text" /\ "text" \in chunk.flags /\ chunk.text = Numbered(said)
        /\ ~chunk.value /\ UNCHANGED << chunk, said >>
    BY <1>2 DEF CopyTextEnds, IInv, TextInv, ValueInv
  <2>2. step' = IF "value" \in chunk.flags THEN "value" ELSE "queued"
    BY <1>2, <1>a, CopyStepIs DEF CopyTextEnds, ChunkRecords
  <2>3. chunk.text \in Seq(Nat)
    BY <1>a DEF ChunkRecords
  <2> QED
    BY <1>a, <1>c, <1>d, <2>1, <2>2, <2>3
       DEF TypeOK, TextInv, ValueInv, ValueHasOneOwner, Steps
<1>3. CASE CopyTextFails
  <2>1. step = "text" /\ ~chunk.value /\ said' = said
        /\ chunk' = [chunk EXCEPT !.text = << >>, !.flags = @ \ {"text"}]
    BY <1>3 DEF CopyTextFails, TextAfterFailure, IInv, TextInv, ValueInv
  <2>2. /\ chunk' \in ChunkRecords /\ chunk'.text = << >>
        /\ chunk'.flags = chunk.flags \ {"text"} /\ chunk'.value = chunk.value
        /\ chunk'.textOffset = 0
    BY <1>a, <2>1 DEF ChunkRecords
  <2>3. step' = IF "value" \in chunk.flags THEN "value" ELSE "queued"
    BY <1>3, <1>a, CopyStepIs DEF CopyTextFails, ChunkRecords
  <2> QED
    BY <1>a, <1>c, <1>d, <2>1, <2>2, <2>3
       DEF TypeOK, TextInv, ValueInv, ValueHasOneOwner, Steps
<1>4. CASE CopyValue
  <2>1. /\ step = "value" /\ "value" \in chunk.flags /\ ~chunk.value
        /\ said' = said /\ step' = "queued"
        /\ chunk.text = IF "text" \in chunk.flags THEN Numbered(said) ELSE << >>
    BY <1>4 DEF CopyValue, IInv, TextInv, ValueInv
  <2>2. /\ chunk' \in ChunkRecords /\ chunk'.text = chunk.text
        /\ chunk'.textOffset = 0
        /\ chunk'.value <=> "value" \in chunk'.flags
        /\ "text" \in chunk'.flags <=> "text" \in chunk.flags
    BY <1>4, <1>a, <2>1 DEF CopyValue, ChunkRecords
  <2>3. chunk.text \in Seq(Nat)
    BY <1>a DEF ChunkRecords
  <2> QED
    BY <1>a, <1>c, <1>d, <2>1, <2>2, <2>3
       DEF TypeOK, TextInv, ValueInv, ValueHasOneOwner, Steps
<1>5. 0 .. BlockSize - 1 \subseteq Nat
  BY CachedChunkAssumption
<1> QED
  BY <1>1, <1>2, <1>3, <1>4, <1>5

\* NextChunk takes the chunk, or fails to.
LEMMA MapKeeps ==
  ASSUME IInv, Map \/ MapFails
  PROVE  TypeOK' /\ TextInv' /\ ValueInv'
<1>a. /\ chunk \in ChunkRecords /\ lastId \in Nat /\ lastId + 1 \in Nat
      /\ idMap \in [SubIds -> Nat] /\ handed \in Seq(HandedRecords)
  BY DEF IInv, TypeOK
<1>1. CASE Map
  <2> DEFINE id == lastId + 1
  <2>1. /\ ~chunk.special => chunk.sub \in SubIds /\ chunk.source \in SubIds
        /\ step = "queued"
    BY <1>1 DEF IInv, IdInv, Map
  <2>2. Entered(id) \in [SubIds -> Nat]
    BY <1>a, <2>1 DEF Entered
  <2>3. MappedSource(id) \in Nat
    BY <1>a, <2>1, <2>2 DEF MappedSource
  <2>4. /\ chunk' \in ChunkRecords /\ chunk'.text = chunk.text
        /\ chunk'.flags = chunk.flags /\ chunk'.value = chunk.value
        /\ chunk'.textOffset = chunk.textOffset
    BY <1>1, <1>a, <2>3 DEF Map, ChunkRecords
  <2>5. /\ [sub |-> chunk.sub, id |-> id, named |-> chunk.source,
            special |-> chunk.special, failed |-> chunk.failed]
              \in HandedRecords
    BY <1>a DEF ChunkRecords, HandedRecords
  <2>6. handed' \in Seq(HandedRecords)
    BY <1>1, <1>a, <2>5 DEF Map
  <2>7. /\ step' = "current" /\ lastId' = id /\ idMap' = Entered(id)
        /\ UNCHANGED << said, received, taken, told >>
    BY <1>1 DEF Map, host
  <2>8. TypeOK'
    BY <1>a, <2>2, <2>4, <2>6, <2>7 DEF IInv, TypeOK, Steps
  <2>9. TextInv'
    BY <2>1, <2>4, <2>7 DEF IInv, TextInv
  <2> QED
    BY <2>1, <2>4, <2>7, <2>8, <2>9 DEF IInv, ValueInv, ValueHasOneOwner
<1>2. CASE MapFails
  <2>1. UNCHANGED << chunk, step, said, idMap, received, taken, told, handed >>
        /\ lastId' \in Nat
    BY <1>2, <1>a DEF MapFails, host
  <2> QED
    BY <2>1 DEF IInv, TypeOK, TextInv, ValueInv, ValueHasOneOwner
<1> QED
  BY <1>1, <1>2

\* The host is given the next n characters.
LEMMA GiveKeeps ==
  ASSUME IInv, step = "current", NEW n \in Nat, n <= Remaining, NEW code,
         HasText, Give(n, code),
         IF n = Remaining THEN code = "FILTER_S_LAST_TEXT" ELSE code = "S_OK",
         UNCHANGED << step, said, idMap, lastId, taken, handed >>
  PROVE  TypeOK' /\ TextInv' /\ ValueInv'
<1>a. chunk \in ChunkRecords /\ chunk.text \in Seq(Nat)
  BY DEF IInv, TypeOK, ChunkRecords
<1>b. PICK text \in Seq(Nat), m \in Nat :
        text = chunk.text /\ m = chunk.textOffset
  BY <1>a DEF ChunkRecords
<1>c. /\ m + n <= Len(text) /\ m + n \in Nat
      /\ n = Remaining => m + n = Len(text)
  BY <1>b DEF Remaining
<1>d. /\ received' = SubSeq(text, 1, m) \o SubSeq(text, m + 1, m + n)
      /\ chunk' = [chunk EXCEPT !.textOffset = m + n] /\ told' = code
  BY <1>a, <1>b DEF Give, IInv, TextInv, ChunkRecords
<1>e. received' = SubSeq(text, 1, m + n) /\ received' \in Seq(Nat)
  BY <1>c, <1>d, BeginningGrows, ConcatProperties
<1>f. /\ chunk' \in ChunkRecords /\ chunk'.text = text
      /\ chunk'.flags = chunk.flags /\ chunk'.value = chunk.value
      /\ chunk'.textOffset = m + n
  BY <1>a, <1>b, <1>c, <1>d DEF ChunkRecords
<1>g. text = Numbered(said) /\ "text" \in chunk.flags
  BY <1>b DEF IInv, TextInv, HasText
<1>1. TypeOK'
  BY <1>e, <1>f DEF IInv, TypeOK
<1>2. told' \in {"FILTER_S_LAST_TEXT", "FILTER_E_NO_MORE_TEXT"} =>
          received' = Numbered(said)
  <2>1. told' = "FILTER_S_LAST_TEXT" => m + n = Len(text)
    BY <1>c, <1>d
  <2> QED
    BY <1>d, <1>e, <1>g, <2>1, SubSeqFull
<1>3. TextInv'
  BY <1>b, <1>c, <1>e, <1>f, <1>g, <1>2 DEF TextInv
<1> QED
  BY <1>1, <1>3, <1>f DEF IInv, ValueInv, ValueHasOneOwner

\* The host reads the text or the value, or goes on.
LEMMA HostKeeps ==
  ASSUME IInv, \/ \E size \in 0 .. BlockSize : GetText(size)
               \/ GetValue \/ Drop
  PROVE  TypeOK' /\ TextInv' /\ ValueInv'
<1>a. /\ chunk \in ChunkRecords /\ chunk.text \in Seq(Nat) /\ taken \in Nat
      /\ chunk.textOffset \in Nat /\ step = "current"
      /\ Remaining \in Nat
  <2>1. chunk \in ChunkRecords /\ taken \in Nat
    BY DEF IInv, TypeOK
  <2>2. chunk.text \in Seq(Nat) /\ chunk.textOffset \in Nat
    BY <2>1 DEF ChunkRecords
  <2>3. step = "current"
    BY DEF GetText, GetValue, Drop
  <2>4. chunk.textOffset <= Len(chunk.text) /\ Len(chunk.text) \in Nat
    BY <2>2 DEF IInv, TextInv
  <2> QED
    BY <2>1, <2>2, <2>3, <2>4 DEF Remaining
<1>1. ASSUME NEW size \in Nat, GetText(size)
      PROVE  TypeOK' /\ TextInv' /\ ValueInv'
  <2>1. UNCHANGED << step, said, idMap, lastId, taken, handed >>
    BY <1>1 DEF GetText
  <2>2. ASSUME NEW code, Refused(size, code), told' = code,
               UNCHANGED << chunk, received >>
        PROVE  TypeOK' /\ TextInv' /\ ValueInv'
    <3>1. told' = "FILTER_E_NO_MORE_TEXT" => received = Numbered(said)
      <4> SUFFICES ASSUME told' = "FILTER_E_NO_MORE_TEXT"
                   PROVE  received = Numbered(said)
        OBVIOUS
      <4>1. Remaining = 0 /\ "text" \in chunk.flags
        BY <2>2 DEF Refused
      <4>2. chunk.textOffset = Len(chunk.text)
        BY <1>a, <4>1 DEF Remaining
      <4>3. chunk.text = Numbered(said)
        BY <1>a, <4>1 DEF IInv, TextInv
      <4> QED
        BY <1>a, <4>2, <4>3, SubSeqFull DEF IInv, TextInv
    <3>2. told' # "FILTER_S_LAST_TEXT"
      BY <2>2 DEF Refused
    <3> QED
      BY <1>a, <2>1, <2>2, <3>1, <3>2
         DEF IInv, TypeOK, TextInv, ValueInv, ValueHasOneOwner
  <2>3. CASE /\ size > 0 /\ HasText /\ Fits(size)
             /\ Give(Remaining, "FILTER_S_LAST_TEXT")
    BY <1>a, <2>1, <2>3, GiveKeeps
  <2>4. CASE size > 0 /\ HasText /\ ~Fits(size) /\ Give(size - 1, "S_OK")
    <3>1. size - 1 \in Nat /\ size - 1 <= Remaining /\ size - 1 # Remaining
      BY <1>a, <2>4 DEF Fits
    <3> QED
      BY <1>a, <2>1, <2>4, <3>1, GiveKeeps
  <2> QED
    BY <1>1, <2>2, <2>3, <2>4 DEF GetText
<1>2. CASE GetValue
  <2>1. /\ chunk.value /\ chunk' = [chunk EXCEPT !.value = FALSE]
        /\ taken' = taken + 1
        /\ UNCHANGED << step, said, idMap, lastId, received, told, handed >>
    BY <1>2 DEF GetValue, Released
  <2>2. /\ chunk' \in ChunkRecords /\ chunk'.text = chunk.text
        /\ chunk'.flags = chunk.flags /\ ~chunk'.value
        /\ chunk'.textOffset = chunk.textOffset
    BY <1>a, <2>1 DEF ChunkRecords
  <2>3. TypeOK' /\ TextInv'
    <3>1. TypeOK'
      BY <1>a, <2>1, <2>2 DEF IInv, TypeOK
    <3>2. TextInv'
      BY <2>1, <2>2 DEF IInv, TextInv
    <3> QED
      BY <3>1, <3>2
  <2>4. ValueInv'
    BY <1>a, <2>1, <2>2 DEF IInv, ValueInv, ValueHasOneOwner
  <2> QED
    BY <2>3, <2>4
<1>3. CASE Drop
  <2>1. /\ chunk' = Blank /\ step' = "none" /\ said' = 0 /\ received' = << >>
        /\ taken' = 0 /\ told' = "none" /\ UNCHANGED << idMap, lastId, handed >>
    BY <1>3 DEF Drop, Forget
  <2>2. << >> \in Seq(Nat) /\ SubSeq(<< >>, 1, 0) = << >> /\ Len(<< >>) = 0
    OBVIOUS
  <2> QED
    BY <2>1, <2>2, BlankIs
       DEF IInv, TypeOK, TextInv, ValueInv, ValueHasOneOwner, Steps
<1>4. 0 .. BlockSize \subseteq Nat
  BY CachedChunkAssumption
<1> QED
  BY <1>1, <1>2, <1>3, <1>4

\* The greatest of some numbers.
LEMMA MaxIs ==
  ASSUME NEW S \in SUBSET Nat, NEW k \in S, \A j \in S : j <= k
  PROVE  Max(S) = k
<1>1. \A y \in S : k >= y
  OBVIOUS
<1>2. /\ Max(S) \in S
      /\ \A y \in S : Max(S) >= y
  BY <1>1 DEF Max
<1>3. Max(S) \in Nat /\ k \in Nat /\ Max(S) <= k /\ Max(S) >= k
  BY <1>2
<1> QED
  BY <1>3

\* A step that hands out no chunk leaves the map as it is.
LEMMA MappedStays ==
  ASSUME NEW s \in SubIds, Mapped(s), UNCHANGED << idMap, handed >>
  PROVE  Mapped(s)'
BY DEF Mapped, Called

\* The host reads, the chunk is copied or dropped, or stays queued: its ids
\* and what the map knows stay.
LEMMA IdsStay ==
  ASSUME IInv,
         \/ \E n \in 0 .. BlockSize - 1, last \in BOOLEAN : CopyText(n, last)
         \/ CopyTextEnds \/ CopyTextFails \/ CopyValue \/ MapFails
         \/ \E size \in 0 .. BlockSize : GetText(size)
         \/ GetValue \/ Drop
  PROVE  IdInv'
<1>a. chunk \in ChunkRecords
  BY DEF IInv, TypeOK
<1>b. UNCHANGED << idMap, handed >>
  BY DEF CopyText, CopyTextEnds, CopyTextFails, CopyValue, MapFails, GetText,
         GetValue, Drop
<1>c. \A s \in SubIds : Mapped(s)'
  BY <1>b, MappedStays DEF IInv, IdInv
<1>1. CASE \/ \E n \in 0 .. BlockSize - 1, last \in BOOLEAN : CopyText(n, last)
           \/ CopyTextEnds \/ CopyTextFails \/ CopyValue \/ MapFails
  <2>1. /\ chunk'.special = chunk.special /\ chunk'.sub = chunk.sub
        /\ chunk'.source = chunk.source
    BY <1>1, <1>a
       DEF ChunkRecords, CopyText, CopyTextEnds, CopyTextFails, CopyValue,
           MapFails
  <2>2. step \notin {"none", "current"} /\ step' # "current"
    BY <1>1
       DEF CopyText, CopyTextEnds, CopyTextFails, CopyValue, MapFails, CopyStep
  <2> QED
    BY <1>b, <1>c, <2>1, <2>2 DEF IInv, IdInv, SourceIsKnown
<1>2. CASE (\E size \in 0 .. BlockSize : GetText(size)) \/ GetValue
  <2>1. /\ chunk'.special = chunk.special /\ chunk'.sub = chunk.sub
        /\ chunk'.source = chunk.source /\ chunk'.flags = chunk.flags
    BY <1>2, <1>a DEF ChunkRecords, GetText, Give, GetValue
  <2>2. step = "current" /\ step' = step
    BY <1>2 DEF GetText, GetValue
  <2> QED
    BY <1>b, <1>c, <2>1, <2>2 DEF IInv, IdInv, SourceIsKnown
<1>3. CASE Drop
  <2>1. step' = "none"
    BY <1>3 DEF Drop
  <2> QED
    BY <1>c, <2>1 DEF IdInv, SourceIsKnown
<1> QED
  BY <1>1, <1>2, <1>3

\* A new member has a map of its own; other chunks leave it as it is.
LEMMA MakingKeepsIds ==
  ASSUME IInv, \/ \E length \in 0 .. MaxText : FromFileDescription(length)
               \/ FromHResult
               \/ \E sub, source \in SubIds, flags \in SUBSET Flags :
                     FromFilter(sub, source, flags)
  PROVE  IdInv'
<1>1. ASSUME NEW length, FromFileDescription(length) PROVE IdInv'
  <2>1. /\ idMap' = [s \in SubIds |-> 0] /\ handed' = << >> /\ step' = "queued"
    BY <1>1 DEF FromFileDescription
  <2>2. chunk'.special
    BY <1>1, BlankIs DEF FromFileDescription, ChunkRecords
  <2>3. \A s \in SubIds : Mapped(s)'
    BY <2>1 DEF Mapped, Called
  <2> QED
    BY <2>1, <2>2, <2>3 DEF IdInv, SourceIsKnown
<1>2. CASE FromHResult
  <2>1. UNCHANGED << idMap, handed >> /\ step' = "queued" /\ chunk'.special
    BY <1>2, BlankIs DEF FromHResult, ChunkRecords
  <2> QED
    BY <2>1, MappedStays DEF IInv, IdInv, SourceIsKnown
<1>3. ASSUME NEW sub \in SubIds, NEW source \in SubIds, NEW flags,
             FromFilter(sub, source, flags)
      PROVE  IdInv'
  <2>1. /\ UNCHANGED << idMap, handed >> /\ step' # "current"
        /\ chunk'.sub = sub /\ chunk'.source = source
    BY <1>3, BlankIs DEF FromFilter, ChunkRecords, CopyStep
  <2> QED
    BY <2>1, MappedStays DEF IInv, IdInv, SourceIsKnown
<1> QED
  BY <1>1, <1>2, <1>3

\* The chunk handed out is the last one with its sub-filter's id.
LEMMA MapKeepsIds ==
  ASSUME IInv, Map
  PROVE  IdInv'
<1> DEFINE id == lastId + 1
           new == [sub |-> chunk.sub, id |-> id, named |-> chunk.source,
                   special |-> chunk.special, failed |-> chunk.failed]
<1>a. /\ chunk \in ChunkRecords /\ lastId \in Nat /\ id \in Nat /\ id # 0
      /\ idMap \in [SubIds -> Nat] /\ handed \in Seq(HandedRecords)
      /\ step = "queued"
  BY DEF IInv, TypeOK, Map
<1>b. ~chunk.special => chunk.sub \in SubIds /\ chunk.source \in SubIds
  BY <1>a DEF IInv, IdInv
<1>c. /\ idMap' = Entered(id) /\ handed' = Append(handed, new)
      /\ chunk' = [chunk EXCEPT !.source = MappedSource(id), !.id = id]
      /\ step' = "current"
  BY DEF Map
<1>d. PICK n \in Nat : n = Len(handed)
  BY <1>a
<1>e. /\ DOMAIN handed = 1 .. n /\ DOMAIN handed' = 1 .. n + 1
      /\ Len(handed') = n + 1 /\ handed'[n + 1] = new
      /\ \A k \in 1 .. n : handed'[k] = handed[k]
  BY <1>a, <1>c, <1>d
<1> HIDE DEF id, new
<1>f. /\ new.sub = chunk.sub /\ new.id = id /\ new.named = chunk.source
      /\ new.special = chunk.special
  BY DEF new
<1>1. ASSUME NEW s \in SubIds PROVE Mapped(s)'
  <2>1. CASE ~chunk.special /\ s = chunk.sub
    <3>1. idMap'[s] = id
      BY <1>a, <1>c, <2>1 DEF Entered
    <3>2. n + 1 \in Called(s)'
      BY <1>e, <1>f, <2>1 DEF Called
    <3>3. \A j \in Called(s)' : j <= n + 1
      BY <1>e DEF Called
    <3> QED
      BY <1>a, <1>e, <1>f, <3>1, <3>2, <3>3 DEF Mapped
  <2>2. CASE chunk.special \/ s # chunk.sub
    <3>1. idMap'[s] = idMap[s]
      BY <1>a, <1>b, <1>c, <2>2 DEF Entered
    <3>2. n + 1 \notin Called(s)'
      BY <1>e, <1>f, <2>2 DEF Called
    <3>3. Called(s)' = Called(s)
      BY <1>e, <3>2 DEF Called
    <3>4. Mapped(s) /\ Called(s) \subseteq 1 .. n
      BY <1>e DEF IInv, IdInv, Called
    <3> QED
      BY <1>e, <3>1, <3>3, <3>4 DEF Mapped
  <2> QED
    BY <2>1, <2>2
<1>2. /\ chunk'.special = chunk.special /\ chunk'.sub = chunk.sub
      /\ chunk'.flags = chunk.flags /\ chunk'.source = MappedSource(id)
  BY <1>a, <1>c DEF ChunkRecords
<1>3. ASSUME ~chunk.special, NEW s \in SubIds, s = chunk.source
      PROVE  MappedSource(id) =
               IF Called(s)' # {} THEN handed'[Max(Called(s)')].id
               ELSE IF "text" \in chunk.flags THEN id ELSE 0
  <2>1. MappedSource(id) = IF idMap'[s] # 0 THEN idMap'[s]
                           ELSE IF "text" \in chunk.flags THEN id ELSE 0
    BY <1>3, <1>c DEF MappedSource
  <2>2. CASE idMap'[s] = 0
    BY <1>1, <2>1, <2>2 DEF Mapped
  <2>3. CASE idMap'[s] # 0
    <3>1. PICK k \in Called(s)' : /\ handed'[k].id = idMap'[s]
                                  /\ \A j \in Called(s)' : j <= k
      BY <1>1, <2>3 DEF Mapped
    <3>2. Called(s)' \in SUBSET Nat
      BY <1>e DEF Called
    <3>3. Max(Called(s)') = k
      BY <3>1, <3>2, MaxIs
    <3> QED
      BY <2>1, <2>3, <3>1, <3>3
  <2> QED
    BY <2>2, <2>3
<1>4. SourceIsKnown'
  <2>1. CASE chunk.special
    BY <1>2, <1>c, <1>e, <1>f, <2>1 DEF SourceIsKnown, MappedSource
  <2>2. CASE ~chunk.special
    <3>1. PICK s \in SubIds : s = chunk.source
      BY <1>b, <2>2
    <3>2. Called(s)' = {k \in DOMAIN handed' : /\ ~handed'[k].special
                                               /\ handed'[k].sub = new.named}
      BY <1>f, <3>1 DEF Called
    <3> QED
      <4>1. /\ chunk'.source = IF Called(s)' # {}
                                  THEN handed'[Max(Called(s)')].id
                                ELSE IF "text" \in chunk'.flags THEN id ELSE 0
            /\ handed'[Len(handed')] = new /\ ~new.special
        BY <1>2, <1>3, <1>e, <1>f, <2>2, <3>1
      <4> QED
        BY <1>f, <3>2, <4>1 DEF SourceIsKnown
  <2> QED
    BY <2>1, <2>2
<1> QED
  BY <1>1, <1>2, <1>4, <1>b, <1>c, <1>e DEF IdInv

\* Nothing has been handed out.
LEMMA InitInv == Init => IInv
<1> SUFFICES ASSUME Init PROVE IInv
  OBVIOUS
<1>1. /\ << >> \in Seq(Nat) /\ << >> \in Seq(HandedRecords)
      /\ SubSeq(<< >>, 1, 0) = << >> /\ Len(<< >>) = 0
  OBVIOUS
<1>2. TypeOK
  BY <1>1, BlankIs DEF Init, TypeOK, Steps
<1>3. TextInv /\ ValueInv
  BY <1>1, BlankIs DEF Init, TextInv, ValueInv, ValueHasOneOwner
<1>4. IdInv
  BY DEF Init, IdInv, Mapped, Called, SourceIsKnown
<1> QED
  BY <1>2, <1>3, <1>4 DEF IInv

\* Every step keeps the invariant.
LEMMA NextKeeps ==
  ASSUME IInv, [Next]_vars
  PROVE  IInv'
<1>1. CASE UNCHANGED vars
  BY <1>1, MappedStays
     DEF vars, IInv, TypeOK, TextInv, ValueInv, ValueHasOneOwner, IdInv,
         SourceIsKnown
<1>2. CASE Next
  BY <1>2, MakingKeeps, CopyKeeps, MapKeeps, HostKeeps, IdsStay,
     MakingKeepsIds, MapKeepsIds
     DEF Next, IInv
<1> QED
  BY <1>1, <1>2

\* The invariant holds: how far the copy is, who has the value, what the map
\* knows.
THEOREM Invariance == Spec => []IInv
<1>1. IInv /\ [Next]_vars => IInv'
  BY NextKeeps
<1> QED
  BY <1>1, InitInv, PTL DEF Spec

-----------------------------------------------------------------------------
(* The properties.                                                         *)

\* The host gets the sub-filter's text from its beginning, without gaps, all
\* of it when it is told so, and nothing of a text that broke off.
THEOREM TextsAreWhole == Spec => []TextIsWhole
<1>1. IInv => TextIsWhole
  BY DEF IInv, TextInv, TextIsWhole
<1> QED
  BY <1>1, Invariance, PTL

\* The value has one owner, the cache or the host.
THEOREM ValuesHaveOneOwner == Spec => []ValueHasOneOwner
<1>1. IInv => ValueHasOneOwner
  BY DEF IInv, ValueInv
<1> QED
  BY <1>1, Invariance, PTL

\* The source of a chunk is one that the host knows already.
THEOREM SourcesAreKnown == Spec => []SourceIsKnown
<1>1. IInv => SourceIsKnown
  BY DEF IInv, IdInv
<1> QED
  BY <1>1, Invariance, PTL
=============================================================================
