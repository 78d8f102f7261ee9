------------------------------- MODULE Swarm -------------------------------
(***************************************************************************)
(* How one torrent of risuko-bt is downloaded: piece_tracker.rs,           *)
(* chunk_tracker.rs and the event loop of torrent.rs that drives them with *)
(* the messages of peers, the results of disk writes and web seeds, and    *)
(* the commands of the session.                                            *)
(*                                                                         *)
(* The loop handles one event at a time, so an event is an action.  The    *)
(* requests that drive_peer sends after an event are actions of their own, *)
(* one per request: how many it sends depends on windows, budgets and the  *)
(* disk queue, which are left open.  The order by rarity is left open too. *)
(* There are no padding files, and peers suggest nothing and allow nothing *)
(* while they choke (Suggest, AllowedFast).                                *)
(***************************************************************************)
EXTENDS Naturals, FiniteSets, Sequences

CONSTANTS
    Peers, Seeds,      \* all peers; those that have every piece
    FastPeers,         \* those that speak the fast extension
    NPieces,           \* the pieces are 1..NPieces
    NChunks,           \* chunks per piece
    Selected,          \* selections (pieces of only_files) a torrent is added with
    MaxOutstanding,    \* bound of a peer's request window
    MaxWriteFailures,  \* MAX_WRITE_FAILURES
    FullQueues,        \* a peer's command queue may be full when interest changes
    MaxFaults, MaxSelections    \* bounds

Pieces == 1..NPieces

ASSUME SwarmAssumption ==
    /\ Seeds \subseteq Peers /\ FastPeers \subseteq Peers
    /\ NPieces \in Nat /\ NChunks \in [1..NPieces -> Nat \ {0}]
    /\ Selected \subseteq SUBSET Pieces
    /\ MaxOutstanding \in Nat \ {0} /\ MaxWriteFailures \in Nat \ {0}
    /\ MaxFaults \in Nat /\ MaxSelections \in Nat /\ FullQueues \in BOOLEAN
    /\ Peers \cap {"Missing", "Received"} = {}

ChunksOf(q) == {q} \X (1..NChunks[q])
Chunks == UNION {ChunksOf(q) : q \in Pieces}

VARIABLES
    \* PieceTracker
    have, wanted, inFlight, sorted, rebuild, resort, dead,
    \* ChunkTracker: pieces with an entry, state of their chunks, endgame
    tracked, chunk, endgame,
    \* piece_assemblies, those that are completed, the write tasks
    asm, completed, writing,
    \* peers: connected, bitfield, peer_choking, outstanding, am_interested
    live, has, choking, out, interested,
    webseed,           \* webseed_inflight
    paused, writeFailures, halted,
    swarmFaults, selections

pieceVars == <<have, wanted, inFlight, sorted, rebuild, resort, dead>>
chunkVars == <<tracked, chunk, endgame>>
diskVars  == <<asm, completed, writing, writeFailures, halted>>
peerVars  == <<live, has, choking, out, interested>>
swarmVars == <<pieceVars, chunkVars, diskVars, peerVars, webseed, paused, swarmFaults, selections>>

-----------------------------------------------------------------------------
(* is_useful, is_requestable; the needed bits and the counter that         *)
(* PieceTracker keeps for them are derived here.                           *)
Needed == wanted \ have
Requestable == Needed \ inFlight

Orders(S) == {f \in [1..Cardinality(S) -> S] : \A i, j \in DOMAIN f : f[i] = f[j] => i = j}
Listed(seq) == {seq[k] : k \in DOMAIN seq}

Fault == swarmFaults < MaxFaults /\ swarmFaults' = swarmFaults + 1

(* Mutant: dead_prefix is not looked at.                                   *)
ClearInFlightOnly(S) ==
    /\ inFlight' = inFlight \ S
    /\ UNCHANGED dead

(* clear_in_flight of the pieces S.                                        *)
ClearInFlight(S) ==
    /\ inFlight' = inFlight \ S
    /\ dead' = IF S \cap inFlight = {} THEN dead ELSE 0

(* has_missing, partial_pieces, contested_pieces.                          *)
HasMissing(q, tr, ch) == q \in tr => \E c \in ChunksOf(q) : ch[c] = "Missing"
Partial == {q \in tracked : \E c \in ChunksOf(q) : chunk[c] = "Missing"}
Contested == {q \in tracked : \E c \in ChunksOf(q) : chunk[c] \in Peers}

(* reset_piece and forget_piece.                                           *)
Blank(q) == [c \in Chunks |-> IF c \in ChunksOf(q) THEN "Missing" ELSE chunk[c]]

(* The outstanding requests without those of the chunks S.                 *)
Without(S) == [p \in Peers |-> out[p] \ S]

SwarmInit ==
    /\ have = {} /\ wanted \in Selected /\ inFlight = {}
    /\ sorted = <<>> /\ rebuild = TRUE /\ resort = FALSE /\ dead = 0
    /\ tracked = {} /\ chunk = [c \in Chunks |-> "Missing"] /\ endgame = FALSE
    /\ asm = {} /\ completed = {} /\ writing = {} /\ writeFailures = 0 /\ halted = FALSE
    /\ live = {} /\ has = [p \in Peers |-> {}] /\ choking = Peers
    /\ out = [p \in Peers |-> {}] /\ interested = {}
    /\ webseed = {} /\ paused = FALSE
    /\ swarmFaults = 0 /\ selections = 0

(* Interested and NotInterested bring am_interested to I.  A message that  *)
(* finds the queue of its peer full is dropped, and am_interested stays.   *)
Tell(I) ==
    interested' \in IF FullQueues
                    THEN {J \in SUBSET (interested \cup I) : interested \cap I \subseteq J}
                    ELSE {I}

(* The connected peers that have one of the pieces N (any_useful).         *)
Holders(N) == {p \in live : has[p] \cap N # {}}

(* A pause waits for the write tasks before the loop goes on.              *)
Turning == ~(paused /\ writing # {})

-----------------------------------------------------------------------------
(* Peers come, tell what they have (HaveAll, or HaveNone and then one Have *)
(* after the other), and choke or unchoke.                                 *)

Connect(p) ==
    /\ Turning /\ ~paused
    /\ p \notin live
    /\ live' = live \cup {p}
    /\ has' = [has EXCEPT ![p] = IF p \in Seeds THEN Pieces ELSE {}]
    /\ resort' = TRUE
    /\ Tell(interested \cup (IF p \in Seeds /\ Needed # {} THEN {p} ELSE {}))
    /\ UNCHANGED <<have, wanted, inFlight, sorted, rebuild, dead, chunkVars, diskVars, choking,
                   out, webseed, paused, swarmFaults, selections>>

Have(p, q) ==
    /\ Turning
    /\ p \in live /\ q \notin has[p]
    /\ has' = [has EXCEPT ![p] = @ \cup {q}]
    /\ resort' = (resort \/ q \in Needed)
    /\ Tell(interested \cup (IF q \in Needed THEN {p} ELSE {}))
    /\ UNCHANGED <<have, wanted, inFlight, sorted, rebuild, dead, chunkVars, diskVars, live,
                   choking, out, webseed, paused, swarmFaults, selections>>

Unchoke(p) ==
    /\ Turning
    /\ p \in live \cap choking
    /\ choking' = choking \ {p}
    /\ UNCHANGED <<pieceVars, chunkVars, diskVars, live, has, out, interested, webseed, paused,
                   swarmFaults, selections>>

(* reject_chunk of the requests S of p, and clear_in_flight of the pieces  *)
(* that miss a chunk then.                                                 *)
GiveBack(p, S) ==
    LET ch == [c \in Chunks |-> IF c \in S /\ chunk[c] = p THEN "Missing" ELSE chunk[c]] IN
    /\ chunk' = ch
    /\ ClearInFlight({q \in {c[1] : c \in S} : HasMissing(q, tracked, ch)})

(* release_choked_requests; a peer with the fast extension rejects its     *)
(* requests one by one instead.                                            *)
Choke(p) ==
    /\ Turning
    /\ p \in live \ choking /\ Fault
    /\ choking' = choking \cup {p}
    /\ IF p \in FastPeers
         THEN UNCHANGED <<out, chunk, inFlight, dead>>
         ELSE GiveBack(p, out[p]) /\ out' = [out EXCEPT ![p] = {}]
    /\ UNCHANGED <<have, wanted, sorted, rebuild, resort, tracked, endgame, diskVars, live, has,
                   interested, webseed, paused, selections>>

(* apply_request_reject.                                                   *)
Reject(p, c) ==
    /\ Turning
    /\ p \in live \cap FastPeers /\ c \in out[p] /\ Fault
    /\ out' = [out EXCEPT ![p] = @ \ {c}]
    /\ GiveBack(p, {c})
    /\ UNCHANGED <<have, wanted, sorted, rebuild, resort, tracked, endgame, diskVars, live, has,
                   choking, interested, webseed, paused, selections>>

(* release_peer_scheduler_state of the peers S: release_peer frees what    *)
(* was asked of them.                                                      *)
ReleasePeers(S) ==
    LET freed == {c \in Chunks : chunk[c] \in S} IN
    /\ live' = live \ S /\ choking' = choking \cup S /\ interested' = interested \ S
    /\ has' = [p \in Peers |-> IF p \in S THEN {} ELSE has[p]]
    /\ out' = [p \in Peers |-> IF p \in S THEN {} ELSE out[p]]
    /\ chunk' = [c \in Chunks |-> IF c \in freed THEN "Missing" ELSE chunk[c]]
    /\ resort' = (resort \/ S # {})

(* Mutant: the pieces of a peer that leaves stay in flight.                *)
DisconnectKeepsPieces(p) ==
    /\ Turning
    /\ p \in live /\ Fault
    /\ ReleasePeers({p}) /\ UNCHANGED <<inFlight, dead>>
    /\ UNCHANGED <<have, wanted, sorted, rebuild, tracked, endgame, diskVars, webseed, paused,
                   selections>>

Disconnect(p) ==
    /\ Turning
    /\ p \in live /\ Fault
    /\ ReleasePeers({p})
    /\ ClearInFlight({c[1] : c \in {d \in Chunks : chunk[d] = p}})
    /\ UNCHANGED <<have, wanted, sorted, rebuild, tracked, endgame, diskVars, webseed, paused,
                   selections>>

-----------------------------------------------------------------------------
(* Requests: drive_peer_with.                                              *)

(* next_requestable moves dead_prefix past pieces that cannot be asked for. *)
NextDead ==
    CHOOSE d \in dead..Len(sorted) :
        /\ \A k \in (dead + 1)..d : sorted[k] \notin Requestable
        /\ d = Len(sorted) \/ sorted[d + 1] \in Requestable

CanDrive(p) ==
    /\ ~paused /\ ~halted
    /\ p \in (live \ choking) \cap interested
    /\ Cardinality(out[p]) < MaxOutstanding

(* The stages of the search, with eg for endgame: the piece last asked of  *)
(* the peer (last_piece, left open), pieces that were begun, the rarest    *)
(* ones, and in endgame what others were asked for.  The first two come    *)
(* before the order is looked at and rebuilt.                              *)
Rarest == {sorted[k] : k \in (dead + 1)..Len(sorted)} \cap Requestable
Candidates(p, eg) ==
    has[p] \cap (IF eg THEN Needed ELSE Requestable)
           \cap (Partial \cup (IF rebuild THEN Requestable ELSE Rarest)
                         \cup (IF eg /\ ~rebuild THEN Contested \cup webseed ELSE {}))

(* next_chunk_skipping: what is missing first, in endgame then what        *)
(* another peer was asked for.                                             *)
NextChunks(p, q, eg) ==
    LET missing == {c \in ChunksOf(q) \ out[p] : chunk[c] = "Missing"}
        taken   == {c \in ChunksOf(q) \ out[p] : chunk[c] \in Peers \ {p}}
    IN  IF missing # {} \/ ~eg THEN missing ELSE taken

(* A request, or the finding that the piece has nothing left to ask for.   *)
Drive(p) ==
    /\ CanDrive(p)
    /\ LET eg == Requestable = {} IN
         /\ endgame' = eg
         /\ \E q \in Candidates(p, eg) :
              LET next == NextChunks(p, q, eg) IN
              /\ tracked' = tracked \cup {q}
              /\ dead' = IF rebuild \/ q \in Partial THEN dead ELSE NextDead
              /\ \/ \E c \in next :
                      /\ chunk' = [chunk EXCEPT ![c] = p]
                      /\ out' = [out EXCEPT ![p] = @ \cup {c}]
                 \/ next = {} /\ UNCHANGED <<chunk, out>>
              /\ inFlight' = IF HasMissing(q, tracked', chunk') THEN inFlight
                             ELSE inFlight \cup {q}
    /\ UNCHANGED <<have, wanted, sorted, rebuild, resort, diskVars, live, has, choking,
                   interested, webseed, paused, swarmFaults, selections>>

(* The queue of the peer is full and the request is taken back.            *)
SendFails(p) ==
    /\ CanDrive(p) /\ Fault
    /\ LET eg == Requestable = {} IN
         /\ endgame' = eg
         /\ \E q \in Candidates(p, eg) :
              /\ NextChunks(p, q, eg) # {}
              /\ tracked' = tracked \cup {q}
              /\ ClearInFlight(IF HasMissing(q, tracked', chunk) THEN {q} ELSE {})
    /\ UNCHANGED <<have, wanted, sorted, rebuild, resort, chunk, diskVars, peerVars, webseed,
                   paused, selections>>

(* Nothing to pick: a peer that has nothing of use is told so.             *)
DriveIdle(p) ==
    /\ CanDrive(p) /\ ~rebuild
    /\ LET eg == Requestable = {} IN
         /\ Candidates(p, eg) = {}
         /\ endgame' = eg
    /\ dead' = NextDead
    /\ Tell(interested \ (IF out[p] = {} /\ p \notin Holders(Needed) THEN {p} ELSE {}))
    /\ UNCHANGED <<have, wanted, inFlight, sorted, rebuild, resort, tracked, chunk, diskVars,
                   live, has, choking, out, webseed, paused, swarmFaults, selections>>

(* refresh_order on the tick, and rebuild_sorted on demand.                *)
RefreshOrder ==
    /\ Turning /\ ~paused
    /\ rebuild \/ resort
    /\ sorted' \in Orders(IF rebuild THEN Needed ELSE Listed(sorted) \cap Needed)
    /\ rebuild' = FALSE /\ resort' = FALSE /\ dead' = 0
    /\ UNCHANGED <<have, wanted, inFlight, chunkVars, diskVars, peerVars, webseed, paused,
                   swarmFaults, selections>>

(* reclaim_stale: requests S that were not answered in time.               *)
Reclaim(S) ==
    /\ Turning
    /\ S # {} /\ Fault
    /\ chunk' = [c \in Chunks |-> IF c \in S THEN "Missing" ELSE chunk[c]]
    /\ out' = [p \in Peers |-> out[p] \ {c \in S : chunk[c] = p}]
    /\ ClearInFlight({c[1] : c \in S})
    /\ UNCHANGED <<have, wanted, sorted, rebuild, resort, tracked, endgame, diskVars, live, has,
                   choking, interested, webseed, paused, selections>>

-----------------------------------------------------------------------------
(* A chunk arrives (Message::Piece).  One that was asked of several peers  *)
(* in endgame is cancelled at the others.  The last chunk of a piece       *)
(* starts its write task; a piece whose buffer has a hole starts again.    *)
(* A late chunk of a cancelled request changes nothing here.               *)
Deliver(p, c) ==
    /\ Turning
    /\ p \in live /\ c \in out[p]
    /\ LET q == c[1]
           accepted == q \notin completed /\ c \notin asm
           held == IF accepted THEN asm \cup {c} ELSE asm
           ch == [chunk EXCEPT ![c] = "Received"]
           done == \A d \in ChunksOf(q) : ch[d] = "Received"
       IN IF q \in have
            THEN /\ out' = [out EXCEPT ![p] = @ \ {c}]
                 /\ UNCHANGED <<chunk, tracked, asm, completed, writing, inFlight, dead>>
            ELSE /\ out' = IF accepted /\ endgame THEN Without({c})
                           ELSE [out EXCEPT ![p] = @ \ {c}]
                 /\ tracked' = tracked \cup {q}
                 /\ IF done /\ q \notin completed
                      THEN IF ChunksOf(q) \subseteq held
                             THEN /\ completed' = completed \cup {q}
                                  /\ writing' = writing \cup {q}
                                  /\ asm' = held /\ chunk' = ch
                                  /\ UNCHANGED <<inFlight, dead>>
                             ELSE /\ asm' = held \ ChunksOf(q)
                                  /\ chunk' = Blank(q)
                                  /\ ClearInFlight({q})
                                  /\ UNCHANGED <<completed, writing>>
                      ELSE /\ asm' = held /\ chunk' = ch
                           /\ UNCHANGED <<completed, writing, inFlight, dead>>
    /\ UNCHANGED <<have, wanted, sorted, rebuild, resort, endgame, writeFailures, halted, live,
                   has, choking, interested, webseed, paused, swarmFaults, selections>>

(* What a new piece q changes of our interest: it is looked at again for   *)
(* peers that have q, and for all when the download is complete.           *)
InterestWith(q) ==
    LET again == {p \in live : Needed \subseteq {q} \/ (p \in interested /\ q \in has[p])}
    IN  IF q \in have THEN interested
        ELSE (interested \ again) \cup (again \cap Holders(Needed \ {q}))

(* process_verify_result; r says whether the piece was good and written,   *)
(* or why not.  After a failure the peers that have the piece are told of  *)
(* our interest (reinterest_holders).                                      *)
ProcessVerified(q, r) ==
    /\ asm' = asm \ ChunksOf(q) /\ completed' = completed \ {q}
    /\ out' = Without(ChunksOf(q))
    /\ chunk' = Blank(q)
    /\ inFlight' = inFlight \ {q}
    /\ IF r = "ok"
         THEN /\ tracked' = tracked \ {q}
              /\ have' = have \cup {q}
              /\ resort' = TRUE
              /\ Tell(InterestWith(q))
         ELSE /\ Tell(interested \cup Holders({q}))
              /\ UNCHANGED <<tracked, have, resort>>
    /\ dead' = IF q \in inFlight THEN 0 ELSE dead

(* record_write.                                                           *)
RecordWrite(r) ==
    /\ writeFailures' = CASE r = "ok" -> 0
                          [] r = "unwritten" -> writeFailures + 1
                          [] OTHER -> writeFailures
    /\ halted' = (halted \/ r = "conflict" \/ writeFailures' >= MaxWriteFailures)

(* Mutant: a piece that failed is not reset.                               *)
WriteDoneLeaves(q, r) ==
    /\ q \in writing
    /\ r # "ok" => swarmFaults < MaxFaults
    /\ swarmFaults' = IF r = "ok" THEN swarmFaults ELSE swarmFaults + 1
    /\ writing' = writing \ {q}
    /\ IF r = "ok" THEN ProcessVerified(q, r)
       ELSE /\ ClearInFlight({q})
            /\ UNCHANGED <<asm, completed, out, interested, chunk, tracked, have, resort>>
    /\ IF paused THEN UNCHANGED <<writeFailures, halted>> ELSE RecordWrite(r)
    /\ UNCHANGED <<wanted, sorted, rebuild, endgame, live, has, choking, webseed, paused,
                   selections>>

(* A write task ends.  While a pause waits for it the result is not        *)
(* recorded.                                                               *)
WriteDone(q, r) ==
    /\ q \in writing
    /\ r # "ok" => swarmFaults < MaxFaults
    /\ swarmFaults' = IF r = "ok" THEN swarmFaults ELSE swarmFaults + 1
    /\ writing' = writing \ {q}
    /\ ProcessVerified(q, r)
    /\ IF paused THEN UNCHANGED <<writeFailures, halted>> ELSE RecordWrite(r)
    /\ UNCHANGED <<wanted, sorted, rebuild, endgame, live, has, choking, webseed, paused,
                   selections>>

-----------------------------------------------------------------------------
(* schedule_webseed_workers, and the result of a worker.  A failed piece   *)
(* only stops being in flight: peers may be at work on it.                 *)
WebSeedStart(q) ==
    /\ Turning /\ ~paused /\ ~halted
    /\ q \in (Requestable \ webseed) \ Contested
    /\ webseed' = webseed \cup {q}
    /\ inFlight' = inFlight \cup {q}
    /\ UNCHANGED <<have, wanted, sorted, rebuild, resort, dead, chunkVars, diskVars, peerVars,
                   paused, swarmFaults, selections>>

WebSeedDone(q, r) ==
    /\ Turning
    /\ q \in webseed
    /\ r # "ok" => swarmFaults < MaxFaults
    /\ swarmFaults' = IF r = "ok" THEN swarmFaults ELSE swarmFaults + 1
    /\ webseed' = webseed \ {q}
    /\ RecordWrite(r)
    /\ IF r = "ok" THEN ProcessVerified(q, r)
       ELSE /\ ClearInFlight({q})
            /\ UNCHANGED <<asm, completed, out, interested, chunk, tracked, have, resort>>
    /\ UNCHANGED <<wanted, sorted, rebuild, endgame, writing, live, has, choking, paused,
                   selections>>

-----------------------------------------------------------------------------
(* Mutant: the peers are not told.                                         *)
SetOnlyFilesSilent(W) ==
    /\ Turning
    /\ selections < MaxSelections /\ selections' = selections + 1
    /\ wanted' = W /\ rebuild' = TRUE /\ dead' = 0
    /\ LET gone == (Partial \ Contested) \ W IN
         /\ tracked' = tracked \ gone
         /\ chunk' = [c \in Chunks |-> IF c[1] \in gone THEN "Missing" ELSE chunk[c]]
         /\ asm' = {c \in asm : c[1] \notin gone}
         /\ completed' = completed \ gone
    /\ UNCHANGED <<have, inFlight, sorted, resort, endgame, writing, writeFailures, halted,
                   peerVars, webseed, paused, swarmFaults>>

(* SetOnlyFiles: set_wanted, drop_unwanted_partial_pieces, and             *)
(* refresh_peer_needs of every peer.                                       *)
SetOnlyFiles(W) ==
    /\ Turning
    /\ selections < MaxSelections /\ selections' = selections + 1
    /\ wanted' = W /\ rebuild' = TRUE /\ dead' = 0
    /\ LET gone == (Partial \ Contested) \ W IN
         /\ tracked' = tracked \ gone
         /\ chunk' = [c \in Chunks |-> IF c[1] \in gone THEN "Missing" ELSE chunk[c]]
         /\ asm' = {c \in asm : c[1] \notin gone}
         /\ completed' = completed \ gone
    /\ Tell(Holders(W \ have))
    /\ UNCHANGED <<have, inFlight, sorted, resort, endgame, writing, writeFailures, halted,
                   live, has, choking, out, webseed, paused, swarmFaults>>

(* Pause: pause_teardown_live_peers and release_webseed_inflight, then the *)
(* write tasks are waited for.                                             *)
Pause ==
    /\ ~paused /\ Fault
    /\ paused' = TRUE
    /\ ReleasePeers(live)
    /\ webseed' = {}
    /\ ClearInFlight(webseed \cup {c[1] : c \in {d \in Chunks : chunk[d] \in live}})
    /\ UNCHANGED <<have, wanted, sorted, rebuild, tracked, endgame, diskVars, selections>>

Resume ==
    /\ paused /\ Turning
    /\ paused' = FALSE
    /\ writeFailures' = 0 /\ halted' = FALSE
    /\ UNCHANGED <<pieceVars, chunkVars, asm, completed, writing, peerVars, webseed, swarmFaults,
                   selections>>

-----------------------------------------------------------------------------
Results == {"ok", "corrupt", "unwritten", "conflict"}
Driving == \E p \in Peers : Drive(p) \/ DriveIdle(p)

SwarmNext ==
    \/ \E p \in Peers :
         \/ Connect(p) \/ Unchoke(p) \/ Choke(p) \/ Disconnect(p)
         \/ Drive(p) \/ DriveIdle(p) \/ SendFails(p)
         \/ \E q \in Pieces : Have(p, q)
         \/ \E c \in Chunks : Deliver(p, c) \/ Reject(p, c)
    \/ RefreshOrder
    \/ \E S \in SUBSET {c \in Chunks : chunk[c] \in Peers} : Reclaim(S)
    \/ \E q \in Pieces, r \in Results : WriteDone(q, r) \/ WebSeedDone(q, r)
    \/ \E q \in Pieces : WebSeedStart(q)
    \/ \E W \in (SUBSET Pieces) \ {{}, wanted} : SetOnlyFiles(W)
    \/ Pause \/ Resume

(* The loop turns and ticks; write tasks and web seeds end; a seed comes   *)
(* back and unchokes, and whoever was asked for a chunk sends it.          *)
SwarmFairness ==
    /\ WF_swarmVars(Driving) /\ WF_swarmVars(RefreshOrder)
    /\ WF_swarmVars(\E q \in Pieces : WriteDone(q, "ok"))
    /\ WF_swarmVars(\E q \in Pieces : WebSeedDone(q, "ok") \/ WebSeedDone(q, "corrupt"))
    /\ \A p \in Seeds : WF_swarmVars(Connect(p)) /\ WF_swarmVars(Unchoke(p))
    /\ \A p \in Peers : WF_swarmVars(\E c \in Chunks : Deliver(p, c))

SwarmSpec == SwarmInit /\ [][SwarmNext]_swarmVars /\ SwarmFairness

-----------------------------------------------------------------------------
SwarmTypeOK ==
    /\ have \subseteq Pieces /\ wanted \subseteq Pieces /\ inFlight \subseteq Pieces
    /\ dead \in 0..Len(sorted) /\ Listed(sorted) \subseteq Pieces
    /\ tracked \subseteq Pieces /\ completed \subseteq Pieces /\ writing \subseteq completed \cup have
    /\ chunk \in [Chunks -> Peers \cup {"Missing", "Received"}]
    /\ asm \subseteq Chunks /\ out \in [Peers -> SUBSET Chunks]
    /\ webseed \subseteq Pieces

(* The records of a piece agree.  What ChunkTracker counts as received is  *)
(* in the buffer of the piece, so that none is assembled with a hole; and  *)
(* a piece in flight, which no peer is asked for again, has a reason to    *)
(* be: all of its chunks are asked for, in memory or being written, or a   *)
(* web seed has it.  A chunk that waits for a peer is in the list of       *)
(* requests of that peer, who is connected: choke, reject, timeout, cancel *)
(* and disconnect never leave it waiting for an answer that cannot come.   *)
(* Otherwise it would never be downloaded.                                 *)
PieceRecordsAgree ==
    /\ SwarmTypeOK
    /\ {c \in Chunks : chunk[c] = "Received"} = asm
    /\ \A q \in inFlight \cap Needed : q \in webseed \/ ~HasMissing(q, tracked, chunk)
    /\ \A c \in Chunks : chunk[c] \in Peers => chunk[c] \in live /\ c \in out[chunk[c]]

(* The cached order hides nothing: every piece that can be asked for is in *)
(* sorted behind dead_prefix, or the order is about to be rebuilt.         *)
OrderIsComplete == rebuild \/ Requestable \subseteq Rarest

(* Every connected peer that has a piece we need knows that we want it:    *)
(* only such peers are asked (request_peer_eligible), so one that is not   *)
(* told, after its bitfield, a Have, a failed piece or a new selection, is *)
(* connected for nothing.  Only connected peers are told.                  *)
HoldersAreTold == Holders(Needed) \subseteq interested /\ interested \subseteq live

(* Unless it stays paused or its disk halted it, the torrent gets every    *)
(* piece that is wanted, although requests time out, peers leave, choke    *)
(* and send bad data, writes fail and the selection changes.               *)
Downloads == (<>[](~paused /\ ~halted)) => <>[](wanted \subseteq have)
=============================================================================
