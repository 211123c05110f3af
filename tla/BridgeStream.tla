--------------------------- MODULE BridgeStream ----------------------------
(***************************************************************************)
(* streams::BridgeStream (src/streams/BridgeStream.cpp): the IInStream     *)
(* through which 7-Zip, on the extractor's thread, reads the archive out   *)
(* of the IStream the host gave Filter.                                    *)
(*                                                                         *)
(* The host's stream, in another program, is not reliable: a Read may      *)
(* "jump", that is leave it where the bytes it returned do not explain,    *)
(* and these need not be the archive's.  BridgeStream notices and reads    *)
(* once more.  Every call of the host's stream is a step; any may fail.    *)
(* The byte at offset k of the archive is represented by k, what it is not *)
(* by Junk.                                                                *)
(***************************************************************************)
EXTENDS Integers, Sequences

CONSTANTS
    Size,      \* length of the host's stream
    Far,       \* bound on its positions
    MaxCount   \* bound on the bytes of one Read

Junk == -1
Failures == {"E_HOST", "STG_E_READFAULT"}

VARIABLES
    hostPosition,  \* where the host's stream is
    call,          \* the Read or Seek of BridgeStream under way
    data,          \* 7-Zip's buffer
    returned,      \* history: code and count of the last Read
    believed,      \* history: where 7-Zip knows the stream to be,
                   \* NotKnown after a failure
    jumps          \* history: jumps the Read under way has met, up to Many

vars == << hostPosition, call, data, returned, believed, jumps >>

NotKnown == -1
Many == 3
Idle == [state |-> "idle", size |-> 0, positionBefore |-> 0, bytesRead |-> 0,
         isFirstTry |-> TRUE]

Init ==
    /\ hostPosition = 0
    /\ call = Idle
    /\ data = << >>
    /\ returned = [code |-> "none", processedSize |-> 0]
    /\ believed = 0
    /\ jumps = 0

Min2(a, b) == IF a < b THEN a ELSE b

\* The n bytes of the archive from offset on.
Bytes(offset, n) == [k \in 1 .. n |-> offset + k - 1]

-----------------------------------------------------------------------------
(* Read.                                                                   *)

ReadBegins(size) ==
    /\ call.state = "idle"
    /\ call' = [Idle EXCEPT !.state = "before", !.size = size]
    /\ jumps' = 0
    /\ UNCHANGED << hostPosition, data, returned, believed >>

\* Seek(0, STREAM_SEEK_CUR, &positionBefore)
TellBefore ==
    /\ call.state = "before"
    /\ call' = [call EXCEPT !.state = "read", !.positionBefore = hostPosition]
    /\ UNCHANGED << hostPosition, data, returned, believed, jumps >>

\* The host's stream gives bytes and is behind them afterwards.
HostGives(bytes) ==
    /\ call.state = "read"
    /\ data' = bytes
    /\ hostPosition' = hostPosition + Len(bytes)
    /\ call' = [call EXCEPT !.state = "after", !.bytesRead = Len(bytes)]
    /\ UNCHANGED << returned, believed, jumps >>

\* A Read of a foreign stream that is as it should be: n bytes, not always
\* as many as asked for or as there are.
HostReads(n) ==
    /\ n <= call.size /\ (n > 0 => hostPosition + n <= Size)
    /\ HostGives(Bytes(hostPosition, n))

\* One that jumps: anywhere but behind the n bytes it says it read.
HostJumps(n, position) ==
    /\ call.state = "read" /\ n <= call.size
    /\ position # hostPosition + n
    /\ hostPosition' = position
    /\ data' \in {Bytes(hostPosition, n), [k \in 1 .. n |-> Junk]}
    /\ call' = [call EXCEPT !.state = "after", !.bytesRead = n]
    /\ jumps' = Min2(jumps + 1, Many)
    /\ UNCHANGED << returned, believed >>

\* Any call of the host's stream fails; what Read put into the buffer and
\* where the stream is then is unknown.
HostFails(n, position) ==
    /\ call.state \in {"before", "read", "after", "back"}
    /\ IF call.state = "read"
         THEN /\ n <= call.size
              /\ hostPosition' = position
              /\ data' = [k \in 1 .. n |-> Junk]
         ELSE /\ n = call.bytesRead
              /\ UNCHANGED << hostPosition, data >>
    /\ returned' = [code |-> "E_HOST", processedSize |-> n]
    /\ believed' = NotKnown
    /\ call' = Idle
    /\ UNCHANGED jumps

\* Mutant: the stream is taken to be where it should be.
TrustsHost == TRUE

\* positionBefore + bytesRead is where the stream is.
IsWhereItShouldBe == call.positionBefore + call.bytesRead = hostPosition

\* Seek(0, STREAM_SEEK_CUR, &positionAfter), and the stream is there.
TellAfter ==
    /\ call.state = "after"
    /\ IsWhereItShouldBe
    /\ returned' = [code |-> "S_OK", processedSize |-> call.bytesRead]
    /\ believed' = IF believed = NotKnown THEN NotKnown
                   ELSE believed + call.bytesRead
    /\ call' = Idle
    /\ UNCHANGED << hostPosition, data, jumps >>

\* Mutant: it tries again as often as the stream jumps.
Persists ==
    /\ call.state = "after"
    /\ ~IsWhereItShouldBe
    /\ call' = [call EXCEPT !.state = "back"]
    /\ UNCHANGED << hostPosition, data, returned, believed, jumps >>

\* Mutant: it does not try again.
GivesUp ==
    /\ call.state = "after"
    /\ ~IsWhereItShouldBe
    /\ returned' = [code |-> "STG_E_READFAULT", processedSize |-> call.bytesRead]
    /\ believed' = NotKnown
    /\ call' = Idle
    /\ UNCHANGED << hostPosition, data, jumps >>

\* It has jumped: seek back, but only once.
NoticesJump ==
    /\ call.state = "after"
    /\ ~IsWhereItShouldBe
    /\ IF call.isFirstTry
         THEN /\ call' = [call EXCEPT !.state = "back", !.isFirstTry = FALSE]
              /\ UNCHANGED << returned, believed >>
         ELSE /\ returned' = [code |-> "STG_E_READFAULT",
                              processedSize |-> call.bytesRead]
              /\ believed' = NotKnown
              /\ call' = Idle
    /\ UNCHANGED << hostPosition, data, jumps >>

\* Seek(positionBefore, STREAM_SEEK_SET), and try again.
SeekBack ==
    /\ call.state = "back"
    /\ hostPosition' = call.positionBefore
    /\ call' = [call EXCEPT !.state = "read"]
    /\ UNCHANGED << data, returned, believed, jumps >>

-----------------------------------------------------------------------------
(* Seek is handed on; an IStream may be sought beyond its end, not before  *)
(* its start, where it fails and stays.                                    *)

Origin(from) == CASE from = "SET" -> 0
                  [] from = "CUR" -> hostPosition
                  [] from = "END" -> Size

\* The host's stream was sought: 7-Zip knows where it should be now.
Sought(offset, from) ==
    /\ call.state = "idle"
    /\ believed' = IF from # "CUR" THEN Origin(from) + offset
                   ELSE IF believed = NotKnown THEN NotKnown
                   ELSE believed + offset
    /\ returned' = [code |-> "none", processedSize |-> 0]
    /\ UNCHANGED << call, data, jumps >>

Seek(offset, from) ==
    LET target == Origin(from) + offset
    IN /\ target \in 0 .. Far
       /\ hostPosition' = target
       /\ Sought(offset, from)

\* What a foreign stream does when it is read.
Foreign ==
    \E n \in 0 .. MaxCount :
        \/ HostReads(n)
        \/ \E position \in 0 .. Far : HostJumps(n, position) \/ HostFails(n, position)

\* BridgeStream's own steps.
Inside == TellBefore \/ TellAfter \/ NoticesJump \/ SeekBack

Next ==
    \/ \E size \in 0 .. MaxCount : ReadBegins(size)
    \/ Foreign
    \/ Inside
    \/ \E offset \in -Size .. Size, from \in {"SET", "CUR", "END"} :
          Seek(offset, from)

Spec == Init /\ [][Next]_vars

-----------------------------------------------------------------------------
\* A Read is done after at most two reads of the host's stream.
TypeOK ==
    /\ hostPosition \in 0 .. Far
    /\ call.state \in {"idle", "before", "read", "after", "back"}
    /\ call.size \in 0 .. MaxCount /\ call.bytesRead \in 0 .. call.size
    /\ call.positionBefore \in 0 .. Far
    /\ Len(data) <= MaxCount
    /\ returned.code \in {"none", "S_OK"} \cup Failures
    /\ believed \in 0 .. Far \cup {NotKnown}
    /\ jumps \in 0 .. Many - 1

\* 7-Zip never gets other bytes than those that follow the ones it read
\* before, whatever the host's stream jumps to: a Read that succeeded gave
\* as many bytes as it says, from where 7-Zip knows the stream to be; and
\* between its calls the stream is there.
JumpsAreHidden ==
    /\ call.state = "idle" /\ believed # NotKnown => hostPosition = believed
    /\ returned.code = "S_OK" =>
           /\ call.state = "idle" =>
                  /\ Len(data) = returned.processedSize
                  /\ data = Bytes(hostPosition - Len(data), Len(data))

\* A Read of a stream that jumps once succeeds all the same; it fails only if
\* the host's stream fails or jumps again.
OneJumpIsForgiven ==
    returned.code = "STG_E_READFAULT" /\ call.state = "idle" => jumps = 2
=============================================================================
