----------------------------- MODULE ChunkStream -----------------------------
(***************************************************************************)
(* What an archive's iFilter promises its host, whatever its threads do:   *)
(* one stream of chunks, archive member after archive member, each         *)
(* member's chunks in the order its sub-filter produced them and starting  *)
(* with its name, nothing skipped, and the end reported only when nothing  *)
(* is left.  Filter implements it.                                         *)
(***************************************************************************)
EXTENDS Naturals, Sequences

CONSTANTS Items,      \* numbers of the archive's members
          MaxChunks   \* bound on the chunks one sub-filter emits

VARIABLES
    lanes,      \* members with something to deliver, the first one first
    phase,      \* "stopped", "extracting" or "finished"
    delivered,  \* the last chunk handed out
    returned    \* what the host was told last

vars == << lanes, phase, delivered, returned >>

ErrorChunk == MaxChunks + 1
NothingYet == [id |-> 0, item |-> 0, chunk |-> 0]

Init ==
    /\ lanes = << >>
    /\ phase = "stopped"
    /\ delivered = NothingYet
    /\ returned = "none"

Start ==
    /\ phase = "stopped"
    /\ lanes = << >>
    /\ phase' = "extracting"
    /\ UNCHANGED << lanes, delivered, returned >>

\* The next member joins at the end, with its name.
Admit(i) ==
    /\ phase = "extracting"
    /\ i > delivered.item
    /\ \A k \in DOMAIN lanes : i > lanes[k].item
    /\ lanes' = Append(lanes, [item |-> i, chunks |-> << 0 >>, open |-> TRUE])
    /\ UNCHANGED << phase, delivered, returned >>

\* The chunk the member's sub-filter produced last.
Newest(k) ==
    IF lanes[k].chunks = << >>
      THEN delivered.chunk
      ELSE lanes[k].chunks[Len(lanes[k].chunks)]

\* Members produce in parallel, each one its own chunks in order.
Emit(k) ==
    /\ lanes[k].open
    /\ Newest(k) # ErrorChunk
    /\ \E c \in {Newest(k) + 1, ErrorChunk} :
         lanes' = [lanes EXCEPT ![k].chunks = Append(@, c)]
    /\ UNCHANGED << phase, delivered, returned >>

Close(k) ==
    /\ lanes[k].open
    /\ lanes' = [lanes EXCEPT ![k].open = FALSE]
    /\ UNCHANGED << phase, delivered, returned >>

\* The host gets the first chunk of the first member, under a fresh id.
Deliver ==
    /\ phase # "stopped"
    /\ lanes # << >>
    /\ LET lane == Head(lanes)
       IN /\ lane.chunks # << >>
          /\ lanes' = [lanes EXCEPT ![1].chunks = Tail(@)]
          /\ delivered'.id > delivered.id
          /\ delivered' = [id |-> delivered'.id, item |-> lane.item,
                           chunk |-> Head(lane.chunks)]
    /\ returned' = "chunk"
    /\ UNCHANGED phase

\* The first member has nothing left and never will.
Retire ==
    /\ lanes # << >>
    /\ Head(lanes).chunks = << >>
    /\ ~Head(lanes).open
    /\ lanes' = Tail(lanes)
    /\ UNCHANGED << phase, delivered, returned >>

Finish ==
    /\ phase = "extracting"
    /\ phase' = "finished"
    /\ UNCHANGED << lanes, delivered, returned >>

\* The extraction's failure is reported after all chunks and at most once.
Fail ==
    /\ phase = "finished"
    /\ lanes = << >>
    /\ returned \notin {"failed", "end"}
    /\ returned' = "failed"
    /\ UNCHANGED << lanes, phase, delivered >>

End ==
    /\ phase = "finished"
    /\ lanes = << >>
    /\ returned' = "end"
    /\ UNCHANGED << lanes, phase, delivered >>

\* The host starts over or lets go: no member is admitted any more, ...
Stop ==
    /\ phase' = "stopped"
    /\ UNCHANGED << lanes, delivered, returned >>

\* ... what is left is thrown away ...
Discard ==
    /\ phase = "stopped"
    /\ lanes # << >>
    /\ lanes' = Tail(lanes)
    /\ UNCHANGED << phase, delivered, returned >>

\* ... and the numbering starts again.
Forget ==
    /\ phase = "stopped"
    /\ lanes = << >>
    /\ delivered' = NothingYet
    /\ returned' = "none"
    /\ UNCHANGED << lanes, phase >>

Next ==
    \/ Start \/ Finish \/ Fail \/ End \/ Stop \/ Discard \/ Forget
    \/ Deliver \/ Retire
    \/ \E i \in Items : Admit(i)
    \/ \E k \in DOMAIN lanes : Emit(k) \/ Close(k)

Spec == Init /\ [][Next]_vars
=============================================================================
