------------------------------ MODULE Streams -------------------------------
(***************************************************************************)
(* The streams of an archive in an archive.  A member is read through a    *)
(* ReadStream; if the member is an archive itself, the sub-filter is       *)
(* another instance of Filter, which takes that ReadStream for its host's  *)
(* stream: 7-Zip reads it through a BridgeStream.                          *)
(*                                                                         *)
(* `user' says who reads: a sub-filter, the 7-Zip of a nested Filter, or,  *)
(* on the outermost level, the 7-Zip of a Filter whose host's stream is    *)
(* foreign.  For a nested Filter each call of the host's stream in module  *)
(* BridgeStream is a call of module ReadStream.                            *)
(***************************************************************************)
EXTENDS Integers, Sequences

CONSTANTS
    Half,       \* 2^63: one more than the greatest signed offset
    Size,       \* size of the member or of the foreign stream
    BlockSize,  \* sizeof(buffer) in CopyTo
    Counts,     \* the numbers of bytes sub-filters ask for
    MaxCount    \* bound on the bytes 7-Zip asks for

ASSUME StreamsAssumption ==
    /\ Half \in Nat \ {0}
    /\ Size \in 0 .. 2 * Half - 2
    /\ BlockSize \in Nat \ {0}
    /\ Counts \subseteq 0 .. 2 * Half - 1
    /\ MaxCount \in 0 .. 2 * Half - 1

VARIABLES
    user,
    position, available, endOfFile, reading, copy, answer,  \* ReadStream
    call, data, returned, believed, jumps                   \* BridgeStream

Users == {"sub-filter", "nested", "foreign"}
Far == 2 * Half - 1

Reader == INSTANCE ReadStream
Bridge == INSTANCE BridgeStream WITH hostPosition <- position

readerVars == << available, endOfFile, reading, copy, answer >>
bridgeVars == << call, data, returned, believed, jumps >>
vars == << user, position, readerVars, bridgeVars >>

Init ==
    /\ user \in Users
    /\ Reader!Init
    /\ Bridge!Init

-----------------------------------------------------------------------------
(* A sub-filter's own calls, or the calls of 7-Zip on a foreign stream.    *)

SubFilter ==
    /\ user = "sub-filter"
    /\ Reader!Next
    /\ UNCHANGED << user, bridgeVars >>

OverForeign ==
    /\ user = "foreign"
    /\ Bridge!Next
    /\ UNCHANGED << user, readerVars >>

-----------------------------------------------------------------------------
(* The 7-Zip of a nested Filter: BridgeStream over ReadStream.             *)

\* The extractor of the outer archive goes on.
Extractor ==
    /\ Reader!AppendBytes \/ Reader!SetEndOfFile
    /\ UNCHANGED bridgeVars

\* BridgeStream between its calls of the ReadStream; Seek with an offset of
\* nothing, which tells the position, changes nothing.
BridgeInside ==
    /\ \/ \E size \in 0 .. MaxCount : Bridge!ReadBegins(size)
       \/ Bridge!Inside
    /\ UNCHANGED readerVars

\* ReadStream::Read is called; it fails at once, or waits for the bytes.
CallsRead ==
    /\ call.state = "read"
    /\ Reader!ReadBegins(call.size)
    /\ IF answer'.code = "none" THEN UNCHANGED bridgeVars
                                ELSE Bridge!HostFails(0, position)

\* It returns or throws.
ReadIsBack ==
    \/ Reader!ReadEnds /\ Bridge!HostGives(answer'.bytes)
    \/ Reader!ReadThrows /\ Bridge!HostFails(0, position)

Seeks(offset, origin) ==
    /\ call.state = "idle"
    /\ Reader!Seek(offset, origin)
    /\ IF answer'.code = "S_OK" THEN Bridge!Sought(offset, origin)
                                ELSE UNCHANGED bridgeVars

Nested ==
    /\ user = "nested"
    /\ \/ Extractor \/ BridgeInside \/ CallsRead \/ ReadIsBack
       \/ \E offset \in Reader!Moves, origin \in Reader!Origins :
             Seeks(offset, origin)
    /\ UNCHANGED user

Next == SubFilter \/ OverForeign \/ Nested

-----------------------------------------------------------------------------
\* What ends a Read: the extraction of the member ends one day, a Read that
\* has its bytes returns, a foreign stream returns from every call, and
\* BridgeStream's own thread runs.
Fairness ==
    /\ WF_vars(/\ user # "foreign"
               /\ Reader!SetEndOfFile
               /\ UNCHANGED << user, bridgeVars >>)
    /\ WF_vars(/\ user = "sub-filter" /\ reading # Reader!NotReading
               /\ Reader!ReadEnds \/ Reader!ReadThrows
               /\ UNCHANGED << user, bridgeVars >>)
    /\ WF_vars(/\ user = "nested" /\ call.state = "read"
               /\ CallsRead \/ ReadIsBack
               /\ UNCHANGED user)
    /\ WF_vars(/\ user = "foreign" /\ call.state # "idle"
               /\ Bridge!Foreign
               /\ UNCHANGED << user, readerVars >>)
    /\ WF_vars(/\ call.state # "idle"
               /\ Bridge!Inside
               /\ UNCHANGED << user, readerVars >>)

Spec == Init /\ [][Next]_vars /\ Fairness

-----------------------------------------------------------------------------
\* The positions, counts and answers of both streams have their types; a
\* Read of BridgeStream is done after at most two reads of the host's stream.
TypeOK ==
    /\ user \in Users
    /\ Reader!TypeOK
    /\ Bridge!TypeOK

\* Whoever seeks, ReadStream::Seek is exact (see ReadStream).
SeekIsExact == Reader!SeekIsExact

\* Whoever reads, ReadStream::Read is complete (see ReadStream).
ReadIsComplete == Reader!ReadIsComplete

\* ReadStream::CopyTo copies faithfully (see ReadStream).
CopyIsFaithful == Reader!CopyIsFaithful

\* 7-Zip gets the bytes that follow those it read before, be the host's
\* stream one that jumps or a ReadStream (see BridgeStream).
JumpsAreHidden == user # "sub-filter" => Bridge!JumpsAreHidden

\* One jump does not make a Read fail, and the ReadStream of an outer archive
\* never seems to jump: reading it, S_FALSE at its end included, and telling
\* its position agree, while the outer extraction goes on.
OneJumpIsForgiven ==
    /\ Bridge!OneJumpIsForgiven
    /\ user = "nested" => call.isFirstTry /\ returned.code # "STG_E_READFAULT"

\* Every Read ends, however often a foreign stream jumps, and however late
\* the extractor of the outer archive is.
ReadReturns ==
    /\ reading # Reader!NotReading ~> reading = Reader!NotReading
    /\ call.state # "idle" ~> call.state = "idle"
=============================================================================
