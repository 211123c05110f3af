---------------------------- MODULE CachedChunk -----------------------------
(***************************************************************************)
(* com::CachedChunk (src/com/CachedChunk.cpp): a chunk on its way from a   *)
(* sub-filter to the host.                                                 *)
(*                                                                         *)
(* The gatherer copies the chunk with its whole text and value, for the    *)
(* sub-filter forgets them with its next chunk (FromFilter); NextChunk     *)
(* gives it an id of the archive's filter and translates the id of its     *)
(* source (Map); the host takes the text in pieces that fit its buffer and *)
(* the value once.  Copying and reading are never at the same chunk, so    *)
(* one chunk at a time is followed here, member after member.  Characters  *)
(* are numbered; the value is one or not there.                            *)
(***************************************************************************)
EXTENDS Naturals, Sequences, FiniteSetsExt

CONSTANTS
    SubIds,     \* ids sub-filters give their chunks
    BlockSize,  \* FromFilter's buffer and the greatest of the host's
    MaxText,    \* bound on the characters of a chunk
    MaxIds      \* bound on the ids given to chunks

ASSUME CachedChunkAssumption ==
    /\ SubIds \subseteq Nat
    /\ BlockSize \in Nat \ {0}
    /\ MaxText \in Nat
    /\ MaxIds \in Nat

VARIABLES
    chunk,     \* the CachedChunk
    step,      \* where it is
    said,      \* characters the sub-filter has handed out
    idMap,     \* the task's idMap, 0 where there is no entry
    lastId,    \* the filter's currentChunkId
    received,  \* history: the text the host has got
    taken,     \* history: values the host has got
    told,      \* history: what GetText returned last
    handed     \* history: the member's chunks so far, as
               \* [sub, id, named, special, failed]

vars == << chunk, step, said, idMap, lastId, received, taken, told, handed >>
host == << received, taken, told >>

Flags == {"text", "value"}
Blank == [special |-> TRUE, failed |-> FALSE, flags |-> {}, sub |-> 0,
          id |-> 0, source |-> 0, text |-> << >>, value |-> FALSE,
          textOffset |-> 0]

Init ==
    /\ chunk = Blank
    /\ step = "none"
    /\ said = 0
    /\ idMap = [s \in SubIds |-> 0]
    /\ lastId = 0
    /\ received = << >> /\ taken = 0 /\ told = "none"
    /\ handed = << >>

Numbered(n) == [k \in 1 .. n |-> k]

\* The host is done with the chunk before.
Forget == received' = << >> /\ taken' = 0 /\ told' = "none"

-----------------------------------------------------------------------------
(* Chunks are made.                                                        *)

\* FromFileDescription: the member's name, of a new task with its own map.
\* The call of NextChunk that found the member before at its end has used an
\* id up.
FromFileDescription(length) ==
    /\ step = "none"
    /\ chunk' = [Blank EXCEPT !.flags = {"text"}, !.text = Numbered(length)]
    /\ said' = length
    /\ step' = "queued"
    /\ idMap' = [s \in SubIds |-> 0]
    /\ handed' = << >>
    /\ lastId < MaxIds
    /\ lastId' = IF handed = << >> THEN lastId ELSE lastId + 1
    /\ Forget

\* The member has begun, and its failure has not been reported.
MemberIsOpen == handed # << >> /\ ~handed[Len(handed)].failed

\* FromHResult: the gatherer's failure, the member's last chunk.  FromFilter
\* may have run out of memory: what it had copied of a chunk goes with it.
FromHResult ==
    /\ step \in {"none", "text", "value"} /\ MemberIsOpen
    /\ chunk' = [Blank EXCEPT !.failed = TRUE]
    /\ said' = 0
    /\ step' = "queued"
    /\ Forget
    /\ UNCHANGED << idMap, lastId, handed >>

CopyStep(flags) ==
    IF "text" \in flags THEN "text"
    ELSE IF "value" \in flags THEN "value" ELSE "queued"

\* FromFilter: the sub-filter has a chunk.
FromFilter(sub, source, flags) ==
    /\ step = "none" /\ MemberIsOpen
    /\ chunk' = [Blank EXCEPT !.special = FALSE, !.flags = flags,
                              !.sub = sub, !.id = 0, !.source = source]
    /\ said' = 0
    /\ step' = CopyStep(flags)
    /\ Forget
    /\ UNCHANGED << idMap, lastId, handed >>

\* The sub-filter puts n characters into the block, and says if they are the
\* last ones.
CopyText(n, last) ==
    /\ step = "text"
    /\ said + n <= MaxText
    /\ said' = said + n
    /\ chunk' = [chunk EXCEPT !.text = @ \o [k \in 1 .. n |-> said + k]]
    /\ step' = IF last THEN CopyStep(chunk.flags \ {"text"}) ELSE step
    /\ UNCHANGED << idMap, lastId, host, handed >>

\* FILTER_E_NO_MORE_TEXT: what was copied is the text.
CopyTextEnds ==
    /\ step = "text"
    /\ step' = CopyStep(chunk.flags \ {"text"})
    /\ UNCHANGED << chunk, said, idMap, lastId, host, handed >>

\* Mutant: on a failure what was copied so far is kept.
TextSoFar == chunk.text

TextAfterFailure == << >>

\* Any other failure removes the text.
CopyTextFails ==
    /\ step = "text"
    /\ chunk' = [chunk EXCEPT !.text = TextAfterFailure, !.flags = @ \ {"text"}]
    /\ step' = CopyStep(chunk.flags \ {"text"})
    /\ UNCHANGED << said, idMap, lastId, host, handed >>

\* The sub-filter gives its value, or fails and the chunk loses the flag.
CopyValue ==
    /\ step = "value"
    /\ \/ chunk' = [chunk EXCEPT !.value = TRUE]
       \/ chunk' = [chunk EXCEPT !.flags = @ \ {"value"}]
    /\ step' = "queued"
    /\ UNCHANGED << said, idMap, lastId, host, handed >>

-----------------------------------------------------------------------------
(* The chunk is taken out of the queue by NextChunk.                       *)

\* Mutant: the first chunk with an id stays in the map (insert).
EntersOnce(id) == IF chunk.special \/ idMap[chunk.sub] # 0
                  THEN idMap ELSE [idMap EXCEPT ![chunk.sub] = id]

\* The map once the chunk's own id is entered; special chunks are not.
Entered(id) == IF chunk.special THEN idMap
                                ELSE [idMap EXCEPT ![chunk.sub] = id]

\* A special chunk is its own source; so is text whose source is unknown,
\* everything else has none then.
MappedSource(id) ==
    IF chunk.special THEN id
    ELSE IF Entered(id)[chunk.source] # 0 THEN Entered(id)[chunk.source]
    ELSE IF "text" \in chunk.flags THEN id
    ELSE 0

\* NextChunk: the chunk gets the next id and becomes the current one.
Map ==
    LET id == lastId + 1
    IN /\ step = "queued"
       /\ lastId < MaxIds
       /\ lastId' = id
       /\ idMap' = Entered(id)
       /\ chunk' = [chunk EXCEPT !.source = MappedSource(id), !.id = id]
       /\ handed' = Append(handed, [sub |-> chunk.sub, id |-> id,
                                    named |-> chunk.source, special |-> chunk.special,
                                    failed |-> chunk.failed])
       /\ step' = "current"
       /\ UNCHANGED << said, host >>

\* There is no memory for the entry: GetChunk fails, the chunk stays queued,
\* the id is used up.  (The chunk before stays the current one; it is not
\* followed any more.)
MapFails ==
    /\ step = "queued"
    /\ ~chunk.special
    /\ lastId + 1 < MaxIds
    /\ lastId' = lastId + 1
    /\ UNCHANGED << chunk, step, said, idMap, host, handed >>

-----------------------------------------------------------------------------
(* The host reads the current chunk.                                       *)

Remaining == Len(chunk.text) - chunk.textOffset

\* The rest and its null terminator fit into the buffer.
Fits(size) == size >= Remaining + 1

\* Too small a buffer, no text, or no text any more.
Refused(size, code) ==
    \/ code = "E_NOT_SUFFICIENT_BUFFER" /\ size = 0
    \/ /\ code = "FILTER_E_NO_TEXT"
       /\ size > 0
       /\ chunk.failed \/ "text" \notin chunk.flags
    \/ /\ code = "FILTER_E_NO_MORE_TEXT"
       /\ size > 0 /\ ~chunk.failed /\ "text" \in chunk.flags
       /\ Remaining = 0

\* The next n characters.
Give(n, code) ==
    /\ received' = received \o SubSeq(chunk.text, chunk.textOffset + 1,
                                      chunk.textOffset + n)
    /\ chunk' = [chunk EXCEPT !.textOffset = @ + n]
    /\ told' = code

HasText == ~chunk.failed /\ "text" \in chunk.flags /\ Remaining > 0

GetText(size) ==
    /\ step = "current"
    /\ \/ \E code \in {"E_NOT_SUFFICIENT_BUFFER", "FILTER_E_NO_TEXT",
                      "FILTER_E_NO_MORE_TEXT"} :
             Refused(size, code) /\ told' = code /\ UNCHANGED << chunk, received >>
       \/ size > 0 /\ HasText /\ Fits(size) /\ Give(Remaining, "FILTER_S_LAST_TEXT")
       \/ size > 0 /\ HasText /\ ~Fits(size) /\ Give(size - 1, "S_OK")
    /\ UNCHANGED << step, said, idMap, lastId, taken, handed >>

\* Mutant: the value is given away and kept.
Kept == chunk.value

Released == FALSE

\* The value is given away; later calls find none.
GetValue ==
    /\ step = "current"
    /\ chunk.value
    /\ chunk' = [chunk EXCEPT !.value = Released]
    /\ taken' = taken + 1
    /\ UNCHANGED << step, said, idMap, lastId, received, told, handed >>

\* The host asks for the next chunk, whatever it has read of this one.
Drop ==
    /\ step = "current"
    /\ chunk' = Blank
    /\ step' = "none"
    /\ said' = 0
    /\ Forget
    /\ UNCHANGED << idMap, lastId, handed >>

Next ==
    \/ \E length \in 0 .. MaxText : FromFileDescription(length)
    \/ FromHResult
    \/ \E sub, source \in SubIds, flags \in SUBSET Flags :
          FromFilter(sub, source, flags)
    \/ \E n \in 0 .. BlockSize - 1, last \in BOOLEAN : CopyText(n, last)
    \/ CopyTextEnds \/ CopyTextFails \/ CopyValue
    \/ Map \/ MapFails
    \/ \E size \in 0 .. BlockSize : GetText(size)
    \/ GetValue
    \/ Drop

Spec == Init /\ [][Next]_vars

-----------------------------------------------------------------------------
\* The host's text of a chunk is the sub-filter's text from its beginning, in
\* order and without gaps, however the blocks of the copy and the buffers of
\* the host cut it; told that it has the last text it has all of it; and of
\* text that broke off in the sub-filter it never sees a part.
TextIsWhole ==
    step \in {"queued", "current"} =>
        /\ chunk.text = IF "text" \in chunk.flags THEN Numbered(said) ELSE << >>
        /\ received = SubSeq(chunk.text, 1, chunk.textOffset)
        /\ told \in {"FILTER_S_LAST_TEXT", "FILTER_E_NO_MORE_TEXT"} =>
               received = Numbered(said)

\* The value belongs to the cache or to the host, never to both (each frees
\* what it has) and never to none.
ValueHasOneOwner ==
    step = "current" =>
        taken + (IF chunk.value THEN 1 ELSE 0) =
            IF "value" \in chunk.flags THEN 1 ELSE 0

\* The source a chunk is said to come from is a chunk of the same member
\* that the host knows already, itself included: the last one to which the
\* sub-filter gave the id it named.  If there is none, text is its own source
\* and everything else has none; names and failures are their own source.
SourceIsKnown ==
    step = "current" =>
        LET this == handed[Len(handed)]
            named == {k \in DOMAIN handed : /\ ~handed[k].special
                                            /\ handed[k].sub = this.named}
        IN chunk.source =
               IF this.special THEN this.id
               ELSE IF named # {} THEN handed[Max(named)].id
               ELSE IF "text" \in chunk.flags THEN this.id ELSE 0
=============================================================================
