----------------------------- MODULE ByteStream -----------------------------
(***************************************************************************)
(* What a connection promises to the two programs that hold its ends: two  *)
(* streams of units, one each way.  The k-th unit written at an end is the *)
(* number k, so an end that has read the right units has read 1, 2, 3...   *)
(***************************************************************************)
EXTENDS Naturals, Sequences

CONSTANTS Ends, Peer(_), Load     \* Load[e]: the units the program at e has to write

VARIABLES
    written,    \* how many units the program at an end has written
    got,        \* the units it has read
    finished,   \* whether it has said that it will write no more
    end         \* what it was told last: "open", "eof" or "error"

streamVars == <<written, got, finished, end>>

StreamInit ==
    /\ written = [e \in Ends |-> 0]
    /\ got = [e \in Ends |-> <<>>]
    /\ finished = [e \in Ends |-> FALSE]
    /\ end = [e \in Ends |-> "open"]

PutUnits(e, n) ==
    /\ ~finished[e]
    /\ written[e] + n <= Load[e]
    /\ written' = [written EXCEPT ![e] = @ + n]
    /\ UNCHANGED <<got, finished, end>>

GetUnits(e, n) ==
    /\ end[e] = "open"
    /\ Len(got[e]) + n <= written[Peer(e)]
    /\ got' = [got EXCEPT ![e] = [k \in 1..(Len(@) + n) |-> k]]
    /\ UNCHANGED <<written, finished, end>>

SayFinished(e) ==
    /\ finished' = [finished EXCEPT ![e] = TRUE]
    /\ UNCHANGED <<written, got, end>>

(* The end of the stream: everything was read and the writer had finished, *)
(* unless this end had finished itself and the other said nothing more.    *)
SeeEof(e) ==
    /\ end[e] = "open"
    /\ \/ finished[Peer(e)] /\ Len(got[e]) = written[Peer(e)]
       \/ finished[e]
    /\ end' = [end EXCEPT ![e] = "eof"]
    /\ UNCHANGED <<written, got, finished>>

SeeError(e) ==
    /\ end[e] = "open"
    /\ end' = [end EXCEPT ![e] = "error"]
    /\ UNCHANGED <<written, got, finished>>

StreamNext ==
    \E e \in Ends :
        \/ \E n \in 1..Load[e] : PutUnits(e, n)
        \/ \E n \in 1..Load[Peer(e)] : GetUnits(e, n)
        \/ SayFinished(e) \/ SeeEof(e) \/ SeeError(e)

StreamSpec == StreamInit /\ [][StreamNext]_streamVars
=============================================================================
