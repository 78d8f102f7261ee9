---------------------------- MODULE SwarmProofs ----------------------------
(***************************************************************************)
(* Proofs about Swarm, for every number of peers, pieces and chunks, and   *)
(* every bound.                                                            *)
(***************************************************************************)
EXTENDS Swarm, FiniteSetTheorems, WellFoundedInduction, TLAPS

-----------------------------------------------------------------------------
(* The inductive invariant of the records of a piece.                      *)

Types == SwarmTypeOK /\ sorted \in Seq(Pieces) /\ live \subseteq Peers

(* ChunkTracker and the buffers count the same chunks.                     *)
ReceivedIsHeld == \A c \in Chunks : chunk[c] = "Received" <=> c \in asm

(* A piece in flight, wanted or not, has a web seed or no chunk to ask for. *)
FlightHasReason == \A q \in inFlight : q \in webseed \/ ~HasMissing(q, tracked, chunk)

(* A chunk waits for a connected peer that was asked for it.               *)
AskedIsOutstanding ==
    \A c \in Chunks : chunk[c] \in Peers => chunk[c] \in live /\ c \in out[chunk[c]]

(* Nothing of a piece on disk is asked for, and a piece that is assembled  *)
(* has all its chunks.                                                     *)
HaveIsBlank == \A q \in have : \A c \in ChunksOf(q) : chunk[c] = "Missing"
CompletedIsWhole == \A q \in completed : \A c \in ChunksOf(q) : chunk[c] = "Received"

RecordsInv ==
    /\ Types /\ ReceivedIsHeld /\ FlightHasReason /\ AskedIsOutstanding
    /\ HaveIsBlank /\ CompletedIsWhole

(* The inductive invariant of the order: what is needed is listed, and     *)
(* what can be asked for is behind dead_prefix.                            *)
Behind == {sorted[k] : k \in (dead + 1)..Len(sorted)}
OrderInv == rebuild \/ (Needed \subseteq Listed(sorted) /\ Requestable \subseteq Behind)

(* The inductive invariant of our interest: it changes with every message  *)
(* when no queue is full.                                                  *)
HasTyped == has \in [Peers -> SUBSET Pieces]
InterestInv == HasTyped /\ (~FullQueues => HoldersAreTold)

Inv == RecordsInv /\ OrderInv /\ InterestInv
-----------------------------------------------------------------------------
(* Pieces and their chunks.                                                *)

(* A chunk belongs to one piece.                                           *)
LEMMA ChunksOfPieces ==
    /\ \A q \in Pieces : ChunksOf(q) \subseteq Chunks
    /\ \A q \in Pieces : \A c \in ChunksOf(q) : c[1] = q
    /\ \A c \in Chunks : c[1] \in Pieces /\ c \in ChunksOf(c[1])
<1>1. \A q \in Pieces : \A c \in ChunksOf(q) : c[1] = q
  BY DEF ChunksOf
<1>2. \A q \in Pieces : ChunksOf(q) \subseteq Chunks
  BY DEF Chunks
<1>3. ASSUME NEW c \in Chunks PROVE c[1] \in Pieces /\ c \in ChunksOf(c[1])
  <2>1. PICK q \in Pieces : c \in ChunksOf(q)
    BY DEF Chunks
  <2> QED BY <1>1, <2>1
<1> QED BY <1>1, <1>2, <1>3

(* There are finitely many pieces.                                         *)
LEMMA PiecesFinite == ASSUME NEW S \in SUBSET Pieces PROVE IsFiniteSet(S)
<1>1. NPieces \in Nat
  BY SwarmAssumption
<1>2. IsFiniteSet(1..NPieces)
  BY <1>1, FS_Interval
<1> QED BY <1>2, FS_Subset DEF Pieces

(* Every set of numbers has a smallest one.                                *)
LEMMA Smallest == ASSUME NEW T \in SUBSET Nat, T # {} PROVE \E x \in T : \A y \in T : x <= y
<1> DEFINE R == {ss \in Nat \X Nat : ss[1] < ss[2]}
<1>1. IsWellFoundedOn(R, Nat)
  BY NatLessThanWellFounded DEF OpToRel
<1>2. \E x \in T : \A y \in T : ~ (<<y, x>> \in R)
  <2> HIDE DEF R
  <2> QED BY <1>1, WFMin
<1>3. PICK x \in T : \A y \in T : ~ (<<y, x>> \in R)
  BY <1>2
<1>4. \A y \in T : ~(y < x)
  BY <1>3
<1> QED BY <1>4

(* An order of a finite set lists exactly its elements.                    *)
LEMMA OrdersList ==
    ASSUME NEW S, IsFiniteSet(S), NEW f \in Orders(S)
    PROVE  f \in Seq(S) /\ Listed(f) = S
<1>1. Cardinality(S) \in Nat
  BY FS_CardinalityType
<1>2. IsFiniteSet(1..Cardinality(S)) /\ Cardinality(1..Cardinality(S)) = Cardinality(S)
  BY <1>1, FS_Interval
<1>3. f \in Injection(1..Cardinality(S), S)
  BY DEF Orders, Injection, IsInjective
<1>4. f \in Surjection(1..Cardinality(S), S)
  BY <1>2, <1>3, FS_Injection
<1>5. Listed(f) = S
  BY <1>4 DEF Listed, Surjection
<1> QED BY <1>1, <1>5 DEF Orders

(* What next_requestable makes of dead_prefix.                             *)
LEMMA NextDeadSkips ==
    ASSUME Types
    PROVE  /\ NextDead \in dead..Len(sorted)
           /\ \A k \in (dead + 1)..NextDead : sorted[k] \notin Requestable
<1> DEFINE Stop(d) == /\ \A k \in (dead + 1)..d : sorted[k] \notin Requestable
                      /\ d = Len(sorted) \/ sorted[d + 1] \in Requestable
           T == {k \in (dead + 1)..Len(sorted) : sorted[k] \in Requestable}
<1>1. Len(sorted) \in Nat /\ dead \in 0..Len(sorted)
  BY DEF Types, SwarmTypeOK
<1>2. \E d \in dead..Len(sorted) : Stop(d)
  <2>1. CASE T = {}
    BY <1>1, <2>1
  <2>2. CASE T # {}
    <3>1. T \in SUBSET Nat
      BY <1>1
    <3>2. PICK x \in T : \A y \in T : x <= y
      BY <2>2, <3>1, Smallest
    <3>3. x - 1 \in dead..Len(sorted) /\ (x - 1) + 1 = x
      BY <1>1, <3>2
    <3>4. \A k \in (dead + 1)..(x - 1) : k \notin T /\ k \in (dead + 1)..Len(sorted)
      BY <1>1, <3>2
    <3>5. Stop(x - 1)
      BY <3>2, <3>3, <3>4
    <3> QED BY <3>3, <3>5
  <2> QED BY <2>1, <2>2
<1>3. NextDead = CHOOSE d \in dead..Len(sorted) : Stop(d)
  BY DEF NextDead
<1> HIDE DEF Stop
<1>4. NextDead \in dead..Len(sorted) /\ Stop(NextDead)
  BY <1>2, <1>3
<1> QED BY <1>4 DEF Stop

-----------------------------------------------------------------------------
(* The records are kept.                                                   *)

(* Nothing is asked for at first.                                          *)
LEMMA InitRecords == SwarmInit => RecordsInv
<1> SUFFICES ASSUME SwarmInit PROVE RecordsInv
  OBVIOUS
<1> USE SwarmAssumption DEF SwarmInit
<1>1. Types
  BY DEF Types, SwarmTypeOK, Listed, Pieces
<1> QED BY <1>1 DEF RecordsInv, ReceivedIsHeld, FlightHasReason, AskedIsOutstanding, HaveIsBlank,
                    CompletedIsWhole, Pieces

(* Every step keeps the records, action by action.                         *)
LEMMA RecordsKept ==
    ASSUME RecordsInv, [SwarmNext]_swarmVars
    PROVE  RecordsInv'
<1> USE SwarmAssumption
    DEF RecordsInv, pieceVars, chunkVars, diskVars, peerVars, Fault
<1>1. ASSUME NEW p \in Peers, Connect(p) PROVE RecordsInv'
  <2> USE <1>1 DEF Connect
  <2>1. Types'
    BY DEF Types, SwarmTypeOK, Listed, Needed, Requestable, HasMissing
  <2>2. ReceivedIsHeld'
    BY ChunksOfPieces DEF ReceivedIsHeld, Types, SwarmTypeOK
  <2>3. FlightHasReason'
    BY ChunksOfPieces DEF FlightHasReason, HasMissing, Types, SwarmTypeOK
  <2>4. AskedIsOutstanding'
    BY DEF AskedIsOutstanding, Types, SwarmTypeOK
  <2>5. HaveIsBlank'
    BY ChunksOfPieces DEF HaveIsBlank, Types, SwarmTypeOK
  <2>6. CompletedIsWhole'
    BY ChunksOfPieces DEF CompletedIsWhole, Types, SwarmTypeOK
  <2> QED BY <2>1, <2>2, <2>3, <2>4, <2>5, <2>6
<1>2. ASSUME NEW p \in Peers, NEW q \in Pieces, Have(p, q) PROVE RecordsInv'
  <2> USE <1>2 DEF Have
  <2>1. Types'
    BY DEF Types, SwarmTypeOK, Listed, Needed, Requestable, HasMissing
  <2>2. ReceivedIsHeld'
    BY ChunksOfPieces DEF ReceivedIsHeld, Types, SwarmTypeOK
  <2>3. FlightHasReason'
    BY ChunksOfPieces DEF FlightHasReason, HasMissing, Types, SwarmTypeOK
  <2>4. AskedIsOutstanding'
    BY DEF AskedIsOutstanding, Types, SwarmTypeOK
  <2>5. HaveIsBlank'
    BY ChunksOfPieces DEF HaveIsBlank, Types, SwarmTypeOK
  <2>6. CompletedIsWhole'
    BY ChunksOfPieces DEF CompletedIsWhole, Types, SwarmTypeOK
  <2> QED BY <2>1, <2>2, <2>3, <2>4, <2>5, <2>6
<1>3. ASSUME NEW p \in Peers, Unchoke(p) PROVE RecordsInv'
  <2> USE <1>3 DEF Unchoke
  <2>1. Types'
    BY DEF Types, SwarmTypeOK, Listed, Needed, Requestable, HasMissing
  <2>2. ReceivedIsHeld'
    BY ChunksOfPieces DEF ReceivedIsHeld, Types, SwarmTypeOK
  <2>3. FlightHasReason'
    BY ChunksOfPieces DEF FlightHasReason, HasMissing, Types, SwarmTypeOK
  <2>4. AskedIsOutstanding'
    BY DEF AskedIsOutstanding, Types, SwarmTypeOK
  <2>5. HaveIsBlank'
    BY ChunksOfPieces DEF HaveIsBlank, Types, SwarmTypeOK
  <2>6. CompletedIsWhole'
    BY ChunksOfPieces DEF CompletedIsWhole, Types, SwarmTypeOK
  <2> QED BY <2>1, <2>2, <2>3, <2>4, <2>5, <2>6
<1>4. ASSUME NEW p \in Peers, Choke(p) PROVE RecordsInv'
  <2> USE <1>4 DEF Choke, GiveBack, ClearInFlight
  <2>1. Types'
    <3>1. Len(sorted) \in Nat
      BY DEF Types
    <3>2. CASE p \in FastPeers
      BY <3>2 DEF Types, SwarmTypeOK
    <3>3. CASE p \notin FastPeers
      <4>1. chunk' \in [Chunks -> Peers \cup {"Missing", "Received"}]
        BY <3>3 DEF Types, SwarmTypeOK
      <4>2. out' \in [Peers -> SUBSET Chunks] /\ inFlight' \subseteq inFlight
        BY <3>3 DEF Types, SwarmTypeOK
      <4>3. dead' \in 0..Len(sorted)
        BY <3>1, <3>3 DEF Types, SwarmTypeOK
      <4> QED BY <4>1, <4>2, <4>3 DEF Types, SwarmTypeOK
    <3> QED BY <3>2, <3>3
  <2>2. ReceivedIsHeld'
    BY ChunksOfPieces DEF ReceivedIsHeld, Types, SwarmTypeOK
  <2>3. FlightHasReason'
    BY ChunksOfPieces DEF FlightHasReason, HasMissing, Types, SwarmTypeOK
  <2>4. AskedIsOutstanding'
    BY DEF AskedIsOutstanding, Types, SwarmTypeOK
  <2>5. HaveIsBlank'
    BY ChunksOfPieces DEF HaveIsBlank, Types, SwarmTypeOK
  <2>6. CompletedIsWhole'
    BY ChunksOfPieces DEF CompletedIsWhole, Types, SwarmTypeOK
  <2> QED BY <2>1, <2>2, <2>3, <2>4, <2>5, <2>6
<1>5. ASSUME NEW p \in Peers, Disconnect(p) PROVE RecordsInv'
  <2> USE <1>5 DEF Disconnect, ReleasePeers, ClearInFlight
  <2>1. Types'
    BY DEF Types, SwarmTypeOK, Listed, Needed, Requestable, HasMissing
  <2>2. ReceivedIsHeld'
    BY ChunksOfPieces DEF ReceivedIsHeld, Types, SwarmTypeOK
  <2>3. FlightHasReason'
    <3> SUFFICES ASSUME NEW q \in inFlight', q \notin webseed
                 PROVE  ~HasMissing(q, tracked, chunk')
      BY DEF FlightHasReason
    <3>1. q \in Pieces /\ \A c \in ChunksOf(q) : c \in Chunks /\ c[1] = q
      BY ChunksOfPieces DEF Types, SwarmTypeOK
    <3>2. \A c \in ChunksOf(q) : chunk'[c] = chunk[c]
      BY <3>1
    <3> QED BY <3>2 DEF FlightHasReason, HasMissing
  <2>4. AskedIsOutstanding'
    BY DEF AskedIsOutstanding, Types, SwarmTypeOK
  <2>5. HaveIsBlank'
    BY ChunksOfPieces DEF HaveIsBlank, Types, SwarmTypeOK
  <2>6. CompletedIsWhole'
    BY ChunksOfPieces DEF CompletedIsWhole, Types, SwarmTypeOK
  <2> QED BY <2>1, <2>2, <2>3, <2>4, <2>5, <2>6
<1>6. ASSUME NEW p \in Peers, Drive(p) PROVE RecordsInv'
  <2>1. PICK q \in Needed :
           /\ tracked' = tracked \cup {q}
           /\ dead' \in {dead, NextDead}
           /\ \/ \E c \in ChunksOf(q) :
                   /\ chunk[c] # "Received"
                   /\ chunk' = [chunk EXCEPT ![c] = p]
                   /\ out' = [out EXCEPT ![p] = @ \cup {c}]
              \/ chunk' = chunk /\ out' = out
           /\ inFlight' = IF HasMissing(q, tracked', chunk') THEN inFlight
                          ELSE inFlight \cup {q}
    <3>1. \A eg \in BOOLEAN : Candidates(p, eg) \subseteq Needed
      BY DEF Candidates, Requestable
    <3>2. \A q \in Needed, eg \in BOOLEAN : \A c \in NextChunks(p, q, eg) :
             c \in ChunksOf(q) /\ chunk[c] # "Received"
      BY DEF NextChunks
    <3> QED BY <1>6, <3>1, <3>2, ZenonT(30) DEF Drive
  <2>2. q \in Pieces /\ q \notin have /\ p \in live
    BY <1>6 DEF Drive, CanDrive, Needed, Types, SwarmTypeOK
  <2>3. UNCHANGED <<have, wanted, sorted, rebuild, diskVars, live, webseed>>
    BY <1>6 DEF Drive
  <2>4. Types'
    <3>1. dead' \in 0..Len(sorted)
      BY <2>1, NextDeadSkips DEF Types, SwarmTypeOK
    <3>2. /\ chunk' \in [Chunks -> Peers \cup {"Missing", "Received"}]
          /\ out' \in [Peers -> SUBSET Chunks]
      BY <2>1, <2>2, ChunksOfPieces DEF Types, SwarmTypeOK
    <3> QED BY <2>1, <2>2, <2>3, <3>1, <3>2 DEF Types, SwarmTypeOK
  <2>5. ReceivedIsHeld'
    BY <2>1, <2>2, <2>3, ChunksOfPieces DEF ReceivedIsHeld, Types, SwarmTypeOK
  <2>6. FlightHasReason'
    <3> SUFFICES ASSUME NEW r \in inFlight', r \notin webseed
                 PROVE  ~HasMissing(r, tracked', chunk')
      BY <2>3 DEF FlightHasReason
    <3>1. CASE r \notin inFlight
      BY <2>1, <3>1
    <3>2. CASE r \in inFlight
      <4>1. \A c \in ChunksOf(r) : chunk[c] # "Missing" => chunk'[c] # "Missing"
        BY <2>1, <2>2, <3>2, ChunksOfPieces DEF Types, SwarmTypeOK
      <4> QED BY <2>1, <3>2, <4>1 DEF FlightHasReason, HasMissing
    <3> QED BY <3>1, <3>2
  <2>7. AskedIsOutstanding'
    <3> SUFFICES ASSUME NEW d \in Chunks, chunk'[d] \in Peers
                 PROVE  chunk'[d] \in live /\ d \in out'[chunk'[d]]
      BY <2>3 DEF AskedIsOutstanding
    <3>1. CASE chunk' = chunk /\ out' = out
      BY <3>1 DEF AskedIsOutstanding
    <3>2. ASSUME NEW c \in ChunksOf(q), chunk' = [chunk EXCEPT ![c] = p],
                 out' = [out EXCEPT ![p] = @ \cup {c}]
          PROVE  chunk'[d] \in live /\ d \in out'[chunk'[d]]
      <4>1. CASE d = c
        BY <2>2, <3>2, <4>1 DEF Types, SwarmTypeOK
      <4>2. CASE d # c
        BY <3>2, <4>2 DEF AskedIsOutstanding, Types, SwarmTypeOK
      <4> QED BY <4>1, <4>2
    <3> QED BY <2>1, <3>1, <3>2
  <2>8. HaveIsBlank'
    <3> SUFFICES ASSUME NEW r \in have, NEW d \in ChunksOf(r) PROVE chunk'[d] = "Missing"
      BY <2>3 DEF HaveIsBlank
    <3>1. d \in Chunks /\ d \notin ChunksOf(q)
      BY <2>2, ChunksOfPieces DEF Types, SwarmTypeOK
    <3> QED BY <2>1, <3>1 DEF HaveIsBlank, Types, SwarmTypeOK
  <2>9. CompletedIsWhole'
    <3> SUFFICES ASSUME NEW r \in completed, NEW d \in ChunksOf(r) PROVE chunk'[d] = "Received"
      BY <2>3 DEF CompletedIsWhole
    <3>1. d \in Chunks /\ chunk[d] = "Received"
      BY ChunksOfPieces DEF Types, SwarmTypeOK, CompletedIsWhole
    <3> QED BY <2>1, <3>1 DEF Types, SwarmTypeOK
  <2> QED BY <2>4, <2>5, <2>6, <2>7, <2>8, <2>9
<1>7. ASSUME NEW p \in Peers, DriveIdle(p) PROVE RecordsInv'
  <2> USE <1>7 DEF DriveIdle
  <2>1. Types'
    BY NextDeadSkips DEF Types, SwarmTypeOK
  <2>2. ReceivedIsHeld'
    BY ChunksOfPieces DEF ReceivedIsHeld, Types, SwarmTypeOK
  <2>3. FlightHasReason'
    BY ChunksOfPieces DEF FlightHasReason, HasMissing, Types, SwarmTypeOK
  <2>4. AskedIsOutstanding'
    BY DEF AskedIsOutstanding, Types, SwarmTypeOK
  <2>5. HaveIsBlank'
    BY ChunksOfPieces DEF HaveIsBlank, Types, SwarmTypeOK
  <2>6. CompletedIsWhole'
    BY ChunksOfPieces DEF CompletedIsWhole, Types, SwarmTypeOK
  <2> QED BY <2>1, <2>2, <2>3, <2>4, <2>5, <2>6
<1>8. ASSUME NEW p \in Peers, SendFails(p) PROVE RecordsInv'
  <2> USE <1>8 DEF SendFails, ClearInFlight
  <2>1. Types'
    <3>1. Len(sorted) \in Nat
      BY DEF Types
    <3>2. \A eg \in BOOLEAN : Candidates(p, eg) \subseteq Pieces
      BY DEF Candidates, Requestable, Needed, Types, SwarmTypeOK
    <3>3. PICK q \in Pieces : tracked' = tracked \cup {q}
      BY <3>2
    <3>4. inFlight' \subseteq inFlight /\ dead' \in {0, dead}
      OBVIOUS
    <3> QED BY <3>1, <3>3, <3>4 DEF Types, SwarmTypeOK
  <2>2. ReceivedIsHeld'
    BY ChunksOfPieces DEF ReceivedIsHeld, Types, SwarmTypeOK
  <2>3. FlightHasReason'
    BY ChunksOfPieces DEF FlightHasReason, HasMissing, Types, SwarmTypeOK
  <2>4. AskedIsOutstanding'
    BY DEF AskedIsOutstanding, Types, SwarmTypeOK
  <2>5. HaveIsBlank'
    BY ChunksOfPieces DEF HaveIsBlank, Types, SwarmTypeOK
  <2>6. CompletedIsWhole'
    BY ChunksOfPieces DEF CompletedIsWhole, Types, SwarmTypeOK
  <2> QED BY <2>1, <2>2, <2>3, <2>4, <2>5, <2>6
<1>9. ASSUME NEW p \in Peers, NEW c \in Chunks, Deliver(p, c) PROVE RecordsInv'
  <2> DEFINE q == c[1]
             held == IF q \notin completed /\ c \notin asm THEN asm \cup {c} ELSE asm
             ch == [chunk EXCEPT ![c] = "Received"]
  <2>1. q \in Pieces /\ c \in ChunksOf(q) /\ ChunksOf(q) \subseteq Chunks
    BY ChunksOfPieces
  <2>2. UNCHANGED <<have, wanted, sorted, rebuild, live, webseed>>
    BY <1>9 DEF Deliver
  <2>3. CASE q \in have
    <3>1. /\ UNCHANGED <<chunk, tracked, asm, completed, writing, inFlight, dead>>
          /\ out' = [out EXCEPT ![p] = @ \ {c}]
      BY <1>9, <2>3 DEF Deliver
    <3>2. chunk[c] \notin Peers
      BY <2>1, <2>3 DEF HaveIsBlank
    <3>3. Types'
      BY <2>2, <3>1 DEF Types, SwarmTypeOK
    <3>4. AskedIsOutstanding'
      BY <2>2, <3>1, <3>2 DEF AskedIsOutstanding, Types, SwarmTypeOK
    <3> QED BY <2>2, <3>1, <3>3, <3>4 DEF ReceivedIsHeld, FlightHasReason, HaveIsBlank,
                                          CompletedIsWhole
  <2>4. CASE q \notin have
    <3>1. /\ out' \in {[r \in Peers |-> out[r] \ {c}], [out EXCEPT ![p] = @ \ {c}]}
          /\ tracked' = tracked \cup {q}
      BY <1>9, <2>4 DEF Deliver, Without
    <3>2. \/ /\ asm' = held /\ chunk' = ch /\ inFlight' = inFlight /\ dead' = dead
             /\ \/ completed' = completed /\ writing' = writing
                \/ /\ completed' = completed \cup {q} /\ writing' = writing \cup {q}
                   /\ \A d \in ChunksOf(q) : ch[d] = "Received"
          \/ /\ asm' = held \ ChunksOf(q) /\ chunk' = Blank(q)
             /\ inFlight' = inFlight \ {q} /\ dead' \in {0, dead}
             /\ completed' = completed /\ writing' = writing /\ q \notin completed
      BY <1>9, <2>4 DEF Deliver, ClearInFlight
    <3>3. held = asm \cup {c}
      BY <2>1 DEF CompletedIsWhole, ReceivedIsHeld
    <3>4. /\ ch \in [Chunks -> Peers \cup {"Missing", "Received"}] /\ ch[c] = "Received"
          /\ \A d \in Chunks \ {c} : ch[d] = chunk[d]
      BY DEF Types, SwarmTypeOK
    <3>5. /\ Blank(q) \in [Chunks -> Peers \cup {"Missing", "Received"}]
          /\ \A d \in ChunksOf(q) : Blank(q)[d] = "Missing"
          /\ \A d \in Chunks \ ChunksOf(q) : Blank(q)[d] = chunk[d]
      BY <2>1 DEF Blank, Types, SwarmTypeOK
    <3> HIDE DEF q, held, ch
    <3>6. Types'
      <4>1. Len(sorted) \in Nat /\ dead' \in 0..Len(sorted)
        BY <3>2 DEF Types, SwarmTypeOK
      <4>2. asm' \subseteq Chunks /\ chunk' \in [Chunks -> Peers \cup {"Missing", "Received"}]
        BY <3>2, <3>3, <3>4, <3>5 DEF Types, SwarmTypeOK
      <4>3. out' \in [Peers -> SUBSET Chunks]
        BY <3>1 DEF Types, SwarmTypeOK
      <4> QED BY <2>1, <2>2, <3>1, <3>2, <4>1, <4>2, <4>3 DEF Types, SwarmTypeOK
    <3>7. ReceivedIsHeld'
      <4>1. CASE asm' = held /\ chunk' = ch
        BY <3>3, <3>4, <4>1 DEF ReceivedIsHeld
      <4>2. CASE asm' = held \ ChunksOf(q) /\ chunk' = Blank(q)
        BY <2>1, <3>3, <3>5, <4>2 DEF ReceivedIsHeld
      <4> QED BY <3>2, <4>1, <4>2
    <3>8. FlightHasReason'
      <4> SUFFICES ASSUME NEW r \in inFlight', r \notin webseed
                   PROVE  ~HasMissing(r, tracked', chunk')
        BY <2>2 DEF FlightHasReason
      <4>1. r \in inFlight /\ r \in Pieces /\ ~HasMissing(r, tracked, chunk)
        BY <3>2 DEF FlightHasReason, Types, SwarmTypeOK
      <4>2. \A d \in ChunksOf(r) : d \in Chunks /\ d[1] = r
        BY <4>1, ChunksOfPieces
      <4>3. \A d \in ChunksOf(r) : chunk[d] # "Missing" => chunk'[d] # "Missing"
        <5>1. CASE chunk' = ch
          BY <3>4, <4>2, <5>1
        <5>2. CASE chunk' = Blank(q) /\ inFlight' = inFlight \ {q}
          BY <2>1, <3>5, <4>2, <5>2, ChunksOfPieces
        <5> QED BY <3>2, <5>1, <5>2
      <4> QED BY <3>1, <4>1, <4>3 DEF HasMissing
    <3>9. AskedIsOutstanding'
      <4> SUFFICES ASSUME NEW d \in Chunks, chunk'[d] \in Peers
                   PROVE  chunk'[d] \in live /\ d \in out'[chunk'[d]]
        BY <2>2 DEF AskedIsOutstanding
      <4>1. d # c /\ chunk'[d] = chunk[d]
        BY <2>1, <3>2, <3>4, <3>5
      <4>2. chunk[d] \in live /\ d \in out[chunk[d]]
        BY <4>1 DEF AskedIsOutstanding
      <4>3. \A r \in Peers : out[r] \ {c} \subseteq out'[r]
        BY <3>1 DEF Types, SwarmTypeOK
      <4> QED BY <4>1, <4>2, <4>3
    <3>10. HaveIsBlank'
      <4> SUFFICES ASSUME NEW r \in have, NEW d \in ChunksOf(r) PROVE chunk'[d] = "Missing"
        BY <2>2 DEF HaveIsBlank
      <4>1. d \in Chunks /\ d \notin ChunksOf(q) /\ d # c
        BY <2>1, <2>4, ChunksOfPieces DEF Types, SwarmTypeOK
      <4> QED BY <3>2, <3>4, <3>5, <4>1 DEF HaveIsBlank
    <3>11. CompletedIsWhole'
      <4> SUFFICES ASSUME NEW r \in completed', NEW d \in ChunksOf(r) PROVE chunk'[d] = "Received"
        BY DEF CompletedIsWhole
      <4>1. r \in Pieces /\ d \in Chunks /\ (r # q => d \notin ChunksOf(q) /\ r \in completed)
        BY <2>1, <3>2, ChunksOfPieces DEF Types, SwarmTypeOK
      <4>2. CASE r \in completed
        BY <3>2, <3>4, <3>5, <4>1, <4>2 DEF CompletedIsWhole
      <4>3. CASE r \notin completed
        BY <3>2, <4>1, <4>3
      <4> QED BY <4>2, <4>3
    <3> QED BY <3>6, <3>7, <3>8, <3>9, <3>10, <3>11
  <2> QED BY <2>3, <2>4
<1>10. ASSUME NEW p \in Peers, NEW c \in Chunks, Reject(p, c) PROVE RecordsInv'
  <2> USE <1>10 DEF Reject, GiveBack, ClearInFlight
  <2>1. Types'
    BY DEF Types, SwarmTypeOK, Listed, Needed, Requestable, HasMissing
  <2>2. ReceivedIsHeld'
    BY ChunksOfPieces DEF ReceivedIsHeld, Types, SwarmTypeOK
  <2>3. FlightHasReason'
    <3> SUFFICES ASSUME NEW q \in inFlight', q \notin webseed
                 PROVE  ~HasMissing(q, tracked, chunk')
      BY DEF FlightHasReason
    <3>1. CASE q = c[1]
      BY <3>1
    <3>2. CASE q # c[1]
      <4>1. \A d \in ChunksOf(q) : chunk'[d] = chunk[d]
        BY <3>2, ChunksOfPieces DEF Types, SwarmTypeOK
      <4> QED BY <4>1 DEF FlightHasReason, HasMissing
    <3> QED BY <3>1, <3>2
  <2>4. AskedIsOutstanding'
    BY DEF AskedIsOutstanding, Types, SwarmTypeOK
  <2>5. HaveIsBlank'
    BY ChunksOfPieces DEF HaveIsBlank, Types, SwarmTypeOK
  <2>6. CompletedIsWhole'
    BY ChunksOfPieces DEF CompletedIsWhole, Types, SwarmTypeOK
  <2> QED BY <2>1, <2>2, <2>3, <2>4, <2>5, <2>6
<1>11. ASSUME RefreshOrder PROVE RecordsInv'
  <2> USE <1>11 DEF RefreshOrder
  <2>1. Types'
    <3> DEFINE S == IF rebuild THEN Needed ELSE Listed(sorted) \cap Needed
    <3>1. S \subseteq Pieces
      BY DEF Needed, Types, SwarmTypeOK
    <3>2. IsFiniteSet(S)
      <4> HIDE DEF S
      <4> QED BY <3>1, PiecesFinite
    <3>3. sorted' \in Seq(S) /\ Listed(sorted') = S
      BY <3>2, OrdersList
    <3>4. sorted' \in Seq(Pieces) /\ Listed(sorted') \subseteq Pieces
      BY <3>1, <3>3
    <3>5. dead' \in 0..Len(sorted')
      BY <3>4
    <3> QED BY <3>4, <3>5 DEF Types, SwarmTypeOK, Listed
  <2>2. ReceivedIsHeld'
    BY ChunksOfPieces DEF ReceivedIsHeld, Types, SwarmTypeOK
  <2>3. FlightHasReason'
    BY ChunksOfPieces DEF FlightHasReason, HasMissing, Types, SwarmTypeOK
  <2>4. AskedIsOutstanding'
    BY DEF AskedIsOutstanding, Types, SwarmTypeOK
  <2>5. HaveIsBlank'
    BY ChunksOfPieces DEF HaveIsBlank, Types, SwarmTypeOK
  <2>6. CompletedIsWhole'
    BY ChunksOfPieces DEF CompletedIsWhole, Types, SwarmTypeOK
  <2> QED BY <2>1, <2>2, <2>3, <2>4, <2>5, <2>6
<1>12. ASSUME NEW S \in SUBSET {c \in Chunks : chunk[c] \in Peers}, Reclaim(S) PROVE RecordsInv'
  <2> USE <1>12 DEF Reclaim, ClearInFlight
  <2>1. Types'
    BY DEF Types, SwarmTypeOK, Listed, Needed, Requestable, HasMissing
  <2>2. ReceivedIsHeld'
    BY ChunksOfPieces DEF ReceivedIsHeld, Types, SwarmTypeOK
  <2>3. FlightHasReason'
    <3> SUFFICES ASSUME NEW q \in inFlight', q \notin webseed
                 PROVE  ~HasMissing(q, tracked, chunk')
      BY DEF FlightHasReason
    <3>1. q \in inFlight /\ q \in Pieces /\ \A c \in S : c[1] # q
      BY DEF Types, SwarmTypeOK
    <3>2. \A c \in ChunksOf(q) : c \in Chunks /\ c \notin S
      BY <3>1, ChunksOfPieces
    <3>3. \A c \in ChunksOf(q) : chunk'[c] = chunk[c]
      BY <3>2
    <3> QED BY <3>1, <3>3 DEF FlightHasReason, HasMissing
  <2>4. AskedIsOutstanding'
    BY DEF AskedIsOutstanding, Types, SwarmTypeOK
  <2>5. HaveIsBlank'
    BY ChunksOfPieces DEF HaveIsBlank, Types, SwarmTypeOK
  <2>6. CompletedIsWhole'
    BY ChunksOfPieces DEF CompletedIsWhole, Types, SwarmTypeOK
  <2> QED BY <2>1, <2>2, <2>3, <2>4, <2>5, <2>6
<1>13. ASSUME NEW q \in Pieces, NEW r \in Results, WriteDone(q, r) PROVE RecordsInv'
  <2> USE <1>13 DEF WriteDone, ProcessVerified, Blank, Without
  <2>1. Types'
    BY DEF Types, SwarmTypeOK, Listed, Needed, Requestable, HasMissing
  <2>2. ReceivedIsHeld'
    BY ChunksOfPieces DEF ReceivedIsHeld, Types, SwarmTypeOK
  <2>3. FlightHasReason'
    <3> SUFFICES ASSUME NEW f \in inFlight', f \notin webseed
                 PROVE  ~HasMissing(f, tracked', chunk')
      BY DEF FlightHasReason
    <3>1. f \in inFlight /\ f # q /\ f \in Pieces /\ tracked \ {q} \subseteq tracked'
      BY DEF Types, SwarmTypeOK
    <3>2. \A c \in ChunksOf(f) : chunk'[c] = chunk[c]
      BY <3>1, ChunksOfPieces
    <3> QED BY <3>1, <3>2 DEF FlightHasReason, HasMissing
  <2>4. AskedIsOutstanding'
    BY DEF AskedIsOutstanding, Types, SwarmTypeOK
  <2>5. HaveIsBlank'
    BY ChunksOfPieces DEF HaveIsBlank, Types, SwarmTypeOK
  <2>6. CompletedIsWhole'
    BY ChunksOfPieces DEF CompletedIsWhole, Types, SwarmTypeOK
  <2> QED BY <2>1, <2>2, <2>3, <2>4, <2>5, <2>6
<1>14. ASSUME NEW q \in Pieces, NEW r \in Results, WebSeedDone(q, r) PROVE RecordsInv'
  <2> USE <1>14 DEF WebSeedDone, ProcessVerified, Blank, Without, ClearInFlight
  <2>1. Types'
    BY DEF Types, SwarmTypeOK, Listed, Needed, Requestable, HasMissing
  <2>2. ReceivedIsHeld'
    BY ChunksOfPieces DEF ReceivedIsHeld, Types, SwarmTypeOK
  <2>3. FlightHasReason'
    BY ChunksOfPieces DEF FlightHasReason, HasMissing, Types, SwarmTypeOK
  <2>4. AskedIsOutstanding'
    BY DEF AskedIsOutstanding, Types, SwarmTypeOK
  <2>5. HaveIsBlank'
    BY ChunksOfPieces DEF HaveIsBlank, Types, SwarmTypeOK
  <2>6. CompletedIsWhole'
    BY ChunksOfPieces DEF CompletedIsWhole, Types, SwarmTypeOK
  <2> QED BY <2>1, <2>2, <2>3, <2>4, <2>5, <2>6
<1>15. ASSUME NEW q \in Pieces, WebSeedStart(q) PROVE RecordsInv'
  <2> USE <1>15 DEF WebSeedStart
  <2>1. Types'
    BY DEF Types, SwarmTypeOK, Listed, Needed, Requestable, HasMissing
  <2>2. ReceivedIsHeld'
    BY ChunksOfPieces DEF ReceivedIsHeld, Types, SwarmTypeOK
  <2>3. FlightHasReason'
    BY ChunksOfPieces DEF FlightHasReason, HasMissing, Types, SwarmTypeOK
  <2>4. AskedIsOutstanding'
    BY DEF AskedIsOutstanding, Types, SwarmTypeOK
  <2>5. HaveIsBlank'
    BY ChunksOfPieces DEF HaveIsBlank, Types, SwarmTypeOK
  <2>6. CompletedIsWhole'
    BY ChunksOfPieces DEF CompletedIsWhole, Types, SwarmTypeOK
  <2> QED BY <2>1, <2>2, <2>3, <2>4, <2>5, <2>6
<1>16. ASSUME NEW W \in (SUBSET Pieces) \ {{}, wanted}, SetOnlyFiles(W) PROVE RecordsInv'
  <2> USE <1>16 DEF SetOnlyFiles
  <2>1. Types'
    <3>1. Len(sorted) \in Nat
      BY DEF Types
    <3>2. Partial \cap completed = {}
      BY DEF Partial, CompletedIsWhole
    <3>3. completed' = completed
      BY <3>2
    <3>4. /\ chunk' \in [Chunks -> Peers \cup {"Missing", "Received"}] /\ asm' \subseteq asm
          /\ tracked' \subseteq tracked
      BY DEF Types, SwarmTypeOK
    <3> QED BY <3>1, <3>3, <3>4 DEF Types, SwarmTypeOK
  <2>2. ReceivedIsHeld'
    BY ChunksOfPieces DEF ReceivedIsHeld, Types, SwarmTypeOK
  <2>3. FlightHasReason'
    <3> SUFFICES ASSUME NEW q \in inFlight, q \notin webseed
                 PROVE  ~HasMissing(q, tracked', chunk')
      BY DEF FlightHasReason
    <3>1. ~HasMissing(q, tracked, chunk) /\ q \in Pieces
      BY DEF FlightHasReason, Types, SwarmTypeOK
    <3>2. q \notin Partial
      BY <3>1 DEF HasMissing, Partial
    <3>3. \A c \in ChunksOf(q) : chunk'[c] = chunk[c]
      BY <3>1, <3>2, ChunksOfPieces
    <3> QED BY <3>1, <3>2, <3>3 DEF HasMissing
  <2>4. AskedIsOutstanding'
    BY DEF AskedIsOutstanding, Types, SwarmTypeOK
  <2>5. HaveIsBlank'
    BY ChunksOfPieces DEF HaveIsBlank, Types, SwarmTypeOK
  <2>6. CompletedIsWhole'
    BY ChunksOfPieces DEF CompletedIsWhole, Types, SwarmTypeOK
  <2> QED BY <2>1, <2>2, <2>3, <2>4, <2>5, <2>6
<1>17. ASSUME Pause PROVE RecordsInv'
  <2> USE <1>17 DEF Pause, ReleasePeers, ClearInFlight
  <2>1. Types'
    BY DEF Types, SwarmTypeOK, Listed, Needed, Requestable, HasMissing
  <2>2. ReceivedIsHeld'
    BY ChunksOfPieces DEF ReceivedIsHeld, Types, SwarmTypeOK
  <2>3. FlightHasReason'
    BY ChunksOfPieces DEF FlightHasReason, HasMissing, Types, SwarmTypeOK
  <2>4. AskedIsOutstanding'
    BY DEF AskedIsOutstanding, Types, SwarmTypeOK
  <2>5. HaveIsBlank'
    BY ChunksOfPieces DEF HaveIsBlank, Types, SwarmTypeOK
  <2>6. CompletedIsWhole'
    BY ChunksOfPieces DEF CompletedIsWhole, Types, SwarmTypeOK
  <2> QED BY <2>1, <2>2, <2>3, <2>4, <2>5, <2>6
<1>18. ASSUME Resume PROVE RecordsInv'
  <2> USE <1>18 DEF Resume
  <2>1. Types'
    BY DEF Types, SwarmTypeOK, Listed, Needed, Requestable, HasMissing
  <2>2. ReceivedIsHeld'
    BY ChunksOfPieces DEF ReceivedIsHeld, Types, SwarmTypeOK
  <2>3. FlightHasReason'
    BY ChunksOfPieces DEF FlightHasReason, HasMissing, Types, SwarmTypeOK
  <2>4. AskedIsOutstanding'
    BY DEF AskedIsOutstanding, Types, SwarmTypeOK
  <2>5. HaveIsBlank'
    BY ChunksOfPieces DEF HaveIsBlank, Types, SwarmTypeOK
  <2>6. CompletedIsWhole'
    BY ChunksOfPieces DEF CompletedIsWhole, Types, SwarmTypeOK
  <2> QED BY <2>1, <2>2, <2>3, <2>4, <2>5, <2>6
<1>19. CASE UNCHANGED swarmVars
  BY <1>19
     DEF swarmVars, Types, ReceivedIsHeld, FlightHasReason, AskedIsOutstanding, HaveIsBlank,
         CompletedIsWhole, SwarmTypeOK, Listed, HasMissing
<1> QED
  BY <1>1, <1>2, <1>3, <1>4, <1>5, <1>6, <1>7, <1>8, <1>9, <1>10,
     <1>11, <1>12, <1>13, <1>14, <1>15, <1>16, <1>17, <1>18, <1>19
  DEF SwarmNext

-----------------------------------------------------------------------------
(* The order is kept.                                                      *)

(* A reset of dead_prefix shows the whole list again; otherwise nothing    *)
(* may become requestable.                                                 *)
LEMMA OrderStays ==
    ASSUME Types, OrderInv, sorted' = sorted, rebuild' = rebuild, wanted' = wanted,
           have \subseteq have', dead' = 0 \/ (dead' = dead /\ inFlight \subseteq inFlight')
    PROVE  OrderInv'
<1>1. CASE rebuild
  BY <1>1 DEF OrderInv
<1>2. CASE ~rebuild
  <2>1. Needed' \subseteq Listed(sorted')
    BY <1>2 DEF OrderInv, Needed, Listed
  <2>2. CASE dead' = 0
    <3>1. Behind' = Listed(sorted')
      BY <2>2 DEF Behind, Listed, Types
    <3> QED BY <2>1, <3>1 DEF OrderInv, Requestable
  <2>3. CASE dead' = dead /\ inFlight \subseteq inFlight'
    <3>1. Requestable' \subseteq Requestable /\ Behind' = Behind
      BY <2>3 DEF Requestable, Needed, Behind
    <3> QED BY <1>2, <2>1, <3>1 DEF OrderInv
  <2> QED BY <2>2, <2>3
<1> QED BY <1>1, <1>2

(* The search moves dead_prefix past pieces in flight only.                *)
LEMMA OrderSkips ==
    ASSUME Types, OrderInv, sorted' = sorted, rebuild' = rebuild, wanted' = wanted,
           have' = have, dead' \in {dead, NextDead}, inFlight \subseteq inFlight'
    PROVE  OrderInv'
<1>1. CASE dead' = dead
  BY <1>1, OrderStays
<1>2. CASE dead' = NextDead /\ ~rebuild
  <2>1. Needed' = Needed /\ Requestable' \subseteq Requestable
    BY DEF Needed, Requestable
  <2>2. ASSUME NEW q \in Requestable PROVE q \in Behind'
    <3>1. PICK k \in (dead + 1)..Len(sorted) : sorted[k] = q
      BY <1>2 DEF OrderInv, Behind
    <3>2. NextDead \in dead..Len(sorted) /\ k \notin (dead + 1)..NextDead
      BY <3>1, NextDeadSkips
    <3>3. dead \in Nat /\ Len(sorted) \in Nat
      BY DEF Types, SwarmTypeOK
    <3>4. k \in (dead' + 1)..Len(sorted')
      BY <1>2, <3>1, <3>2, <3>3
    <3> QED BY <3>1, <3>4 DEF Behind
  <2> QED BY <1>2, <2>1, <2>2 DEF OrderInv
<1>3. CASE rebuild
  BY <1>3 DEF OrderInv
<1> QED BY <1>1, <1>2, <1>3

(* Every step keeps the order, action by action.                           *)
LEMMA OrderKept ==
    ASSUME RecordsInv, OrderInv, [SwarmNext]_swarmVars
    PROVE  OrderInv'
<1> USE DEF RecordsInv, pieceVars, chunkVars, diskVars, peerVars
<1>1. ASSUME NEW p \in Peers,
             Connect(p) \/ Unchoke(p) \/ Choke(p) \/ Disconnect(p) \/ SendFails(p)
      PROVE  OrderInv'
  BY <1>1, OrderStays DEF Connect, Unchoke, Choke, GiveBack, Disconnect, ReleasePeers, SendFails,
                          ClearInFlight
<1>2. ASSUME NEW p \in Peers, NEW q \in Pieces, Have(p, q) PROVE OrderInv'
  BY <1>2, OrderStays DEF Have
<1>3. ASSUME NEW p \in Peers, Drive(p) PROVE OrderInv'
  <2>1. dead' \in {dead, NextDead} /\ inFlight \subseteq inFlight'
    BY <1>3 DEF Drive
  <2> QED BY <1>3, <2>1, OrderSkips DEF Drive
<1>4. ASSUME NEW p \in Peers, DriveIdle(p) PROVE OrderInv'
  BY <1>4, OrderSkips DEF DriveIdle
<1>5. ASSUME NEW p \in Peers, NEW c \in Chunks, Deliver(p, c) \/ Reject(p, c) PROVE OrderInv'
  BY <1>5, OrderStays DEF Deliver, Reject, GiveBack, ClearInFlight
<1>6. ASSUME RefreshOrder PROVE OrderInv'
  <2> DEFINE S == IF rebuild THEN Needed ELSE Listed(sorted) \cap Needed
  <2>1. S = Needed
    BY DEF OrderInv
  <2>0. Needed \subseteq Pieces
    BY DEF Needed, Types, SwarmTypeOK
  <2>2. IsFiniteSet(Needed)
    BY <2>0, PiecesFinite
  <2>3. sorted' \in Seq(Needed) /\ Listed(sorted') = Needed
    BY <1>6, <2>1, <2>2, OrdersList DEF RefreshOrder
  <2>4. Behind' = Listed(sorted')
    BY <1>6, <2>3 DEF RefreshOrder, Behind, Listed
  <2>5. Needed' = Needed
    BY <1>6 DEF RefreshOrder, Needed
  <2> QED BY <2>3, <2>4, <2>5 DEF OrderInv, Requestable
<1>7. ASSUME NEW S \in SUBSET {c \in Chunks : chunk[c] \in Peers}, Reclaim(S) PROVE OrderInv'
  BY <1>7, OrderStays DEF Reclaim, ClearInFlight
<1>8. ASSUME NEW q \in Pieces, NEW r \in Results, WriteDone(q, r) \/ WebSeedDone(q, r)
      PROVE  OrderInv'
  BY <1>8, OrderStays DEF WriteDone, WebSeedDone, ProcessVerified, ClearInFlight
<1>9. ASSUME NEW q \in Pieces, WebSeedStart(q) PROVE OrderInv'
  BY <1>9, OrderStays DEF WebSeedStart
<1>10. ASSUME NEW W \in (SUBSET Pieces) \ {{}, wanted}, SetOnlyFiles(W) PROVE OrderInv'
  BY <1>10 DEF SetOnlyFiles, OrderInv
<1>11. CASE Pause \/ Resume
  BY <1>11, OrderStays DEF Pause, Resume, ReleasePeers, ClearInFlight
<1>12. CASE UNCHANGED swarmVars
  BY <1>12, OrderStays DEF swarmVars
<1> QED
  BY <1>1, <1>2, <1>3, <1>4, <1>5, <1>6, <1>7, <1>8, <1>9, <1>10, <1>11, <1>12 DEF SwarmNext

-----------------------------------------------------------------------------
(* Our interest is told.                                                   *)

(* Bitfields are sets of pieces.                                           *)
LEMMA HasStays == ASSUME HasTyped, [SwarmNext]_swarmVars PROVE HasTyped'
<1> USE DEF HasTyped
<1>1. ASSUME NEW p \in Peers, Connect(p) PROVE HasTyped'
  BY <1>1 DEF Connect
<1>2. ASSUME NEW p \in Peers, NEW q \in Pieces, Have(p, q) PROVE HasTyped'
  BY <1>2 DEF Have
<1>3. ASSUME NEW S, ReleasePeers(S) PROVE HasTyped'
  BY <1>3 DEF ReleasePeers
<1>4. ASSUME UNCHANGED has PROVE HasTyped'
  BY <1>4
<1>5. ASSUME NEW p \in Peers,
             Unchoke(p) \/ Choke(p) \/ Disconnect(p) \/ Drive(p) \/ DriveIdle(p) \/ SendFails(p)
      PROVE  HasTyped'
  BY <1>3, <1>4, <1>5 DEF Unchoke, Choke, Disconnect, Drive, DriveIdle, SendFails, peerVars
<1>6. ASSUME NEW p \in Peers, NEW c \in Chunks, Deliver(p, c) \/ Reject(p, c) PROVE HasTyped'
  BY <1>4, <1>6 DEF Deliver, Reject
<1>7. ASSUME NEW q \in Pieces, NEW r \in Results, WriteDone(q, r) \/ WebSeedDone(q, r)
      PROVE  HasTyped'
  BY <1>4, <1>7 DEF WriteDone, WebSeedDone
<1>8. ASSUME \/ RefreshOrder \/ Pause \/ Resume \/ UNCHANGED swarmVars
             \/ \E S \in SUBSET {c \in Chunks : chunk[c] \in Peers} : Reclaim(S)
             \/ \E q \in Pieces : WebSeedStart(q)
             \/ \E W \in (SUBSET Pieces) \ {{}, wanted} : SetOnlyFiles(W)
      PROVE  HasTyped'
  BY <1>3, <1>4, <1>8
  DEF RefreshOrder, Pause, Resume, Reclaim, WebSeedStart, SetOnlyFiles, swarmVars, peerVars
<1> QED
  BY <1>1, <1>2, <1>5, <1>6, <1>7, <1>8 DEF SwarmNext

(* Every step keeps it, action by action.  A step that leaves the peers    *)
(* and what is needed alone, or only makes less of it needed, keeps it.    *)
LEMMA InterestKept ==
    ASSUME Types, HasTyped, HoldersAreTold, ~FullQueues, [SwarmNext]_swarmVars
    PROVE  HoldersAreTold'
<1> USE DEF HoldersAreTold, Holders, Needed, Tell, pieceVars, chunkVars, diskVars, peerVars
<1>1. ASSUME NEW p \in Peers, Connect(p) PROVE HoldersAreTold'
  <2>1. /\ live' = live \cup {p} /\ UNCHANGED <<have, wanted>>
        /\ interested' = interested \cup (IF p \in Seeds /\ Needed # {} THEN {p} ELSE {})
        /\ has' = [has EXCEPT ![p] = IF p \in Seeds THEN Pieces ELSE {}]
    BY <1>1 DEF Connect
  <2>2. \A r \in live \ {p} : has'[r] = has[r]
    BY <2>1 DEF Types, HasTyped
  <2>3. has'[p] = IF p \in Seeds THEN Pieces ELSE {}
    BY <2>1 DEF HasTyped
  <2>4. Needed' = Needed
    BY <2>1
  <2>5. ASSUME NEW r \in live', has'[r] \cap Needed' # {} PROVE r \in interested'
    <3>1. CASE r = p
      BY <2>1, <2>3, <2>4, <2>5, <3>1
    <3>2. CASE r # p
      BY <2>1, <2>2, <2>4, <2>5, <3>2
    <3> QED BY <3>1, <3>2
  <2>6. interested' \subseteq live'
    BY <2>1
  <2> QED BY <2>5, <2>6
<1>2. ASSUME NEW p \in Peers, NEW q \in Pieces, Have(p, q) PROVE HoldersAreTold'
  BY <1>2 DEF Have, Types, HasTyped
<1>3. ASSUME NEW p \in Peers,
             \/ Unchoke(p) \/ Choke(p) \/ Drive(p) \/ SendFails(p)
             \/ \E c \in Chunks : Deliver(p, c) \/ Reject(p, c)
      PROVE  HoldersAreTold'
  <2>1. UNCHANGED <<live, has, interested, wanted, have>>
    BY <1>3 DEF Unchoke, Choke, Drive, SendFails, Deliver, Reject
  <2> QED BY <2>1
<1>4. ASSUME NEW p \in Peers, Disconnect(p) PROVE HoldersAreTold'
  BY <1>4 DEF Disconnect, ReleasePeers, Types
<1>5. ASSUME NEW p \in Peers, DriveIdle(p) PROVE HoldersAreTold'
  BY <1>5 DEF DriveIdle
<1>6. ASSUME RefreshOrder \/ Resume \/ (\E q \in Pieces : WebSeedStart(q)) PROVE HoldersAreTold'
  <2>1. UNCHANGED <<live, has, interested, wanted, have>>
    BY <1>6 DEF RefreshOrder, Resume, WebSeedStart
  <2> QED BY <2>1
<1>7. ASSUME NEW S \in SUBSET {c \in Chunks : chunk[c] \in Peers}, Reclaim(S) PROVE HoldersAreTold'
  <2>1. UNCHANGED <<live, has, interested, wanted, have>>
    BY <1>7 DEF Reclaim
  <2> QED BY <2>1
<1>8. ASSUME NEW q \in Pieces, NEW r \in Results, WriteDone(q, r) \/ WebSeedDone(q, r)
      PROVE  HoldersAreTold'
  <2>1. UNCHANGED <<live, has, wanted>>
    BY <1>8 DEF WriteDone, WebSeedDone
  <2>2. CASE r = "ok"
    <3>1. have' = have \cup {q} /\ interested' = InterestWith(q)
      BY <1>8, <2>2 DEF WriteDone, WebSeedDone, ProcessVerified
    <3>2. Needed' = Needed \ {q}
      BY <2>1, <3>1
    <3> QED BY <2>1, <3>1, <3>2 DEF InterestWith
  <2>3. CASE r # "ok"
    <3>1. have' = have /\ (interested' = interested \/ interested' = interested \cup Holders({q}))
      BY <1>8, <2>3 DEF WriteDone, WebSeedDone, ProcessVerified
    <3> QED BY <2>1, <3>1
  <2> QED BY <2>2, <2>3
<1>9. ASSUME NEW W \in (SUBSET Pieces) \ {{}, wanted}, SetOnlyFiles(W) PROVE HoldersAreTold'
  BY <1>9 DEF SetOnlyFiles
<1>10. CASE Pause
  BY <1>10 DEF Pause, ReleasePeers
<1>11. CASE UNCHANGED swarmVars
  BY <1>11 DEF swarmVars
<1> QED
  BY <1>1, <1>2, <1>3, <1>4, <1>5, <1>6, <1>7, <1>8, <1>9, <1>10, <1>11 DEF SwarmNext

-----------------------------------------------------------------------------
(* The theorems.                                                           *)

(* The three invariants together.                                           *)
LEMMA Invariance == SwarmSpec => []Inv
<1>1. SwarmInit => Inv
  BY InitRecords DEF SwarmInit, Inv, OrderInv, InterestInv, HasTyped, HoldersAreTold, Holders
<1>2. Inv /\ [SwarmNext]_swarmVars => Inv'
  <2> SUFFICES ASSUME Inv, [SwarmNext]_swarmVars PROVE Inv'
    OBVIOUS
  <2>1. RecordsInv' /\ OrderInv'
    BY RecordsKept, OrderKept DEF Inv
  <2>2. InterestInv'
    BY HasStays, InterestKept DEF Inv, RecordsInv, InterestInv
  <2> QED BY <2>1, <2>2 DEF Inv
<1> QED BY <1>1, <1>2, PTL DEF SwarmSpec

(* For every number of peers, pieces and chunks: what ChunkTracker counts  *)
(* as received is buffered, a piece in flight has a reason to be, and no   *)
(* chunk waits for a peer that was not asked or has left, whatever chokes, *)
(* rejects, timeouts, disconnects, failed writes, web seeds, pauses and    *)
(* changes of the selection happened.                                      *)
THEOREM PieceRecordsAgreeHolds == SwarmSpec => []PieceRecordsAgree
<1>1. Inv => PieceRecordsAgree
  <2> SUFFICES ASSUME RecordsInv PROVE PieceRecordsAgree
    BY DEF Inv
  <2> USE DEF RecordsInv
  <2>1. {c \in Chunks : chunk[c] = "Received"} = asm
    BY DEF ReceivedIsHeld, Types, SwarmTypeOK
  <2> QED BY <2>1 DEF PieceRecordsAgree, Types, FlightHasReason, AskedIsOutstanding
<1> QED BY <1>1, Invariance, PTL

(* rebuild_sorted and dead_prefix never hide a piece that can be asked     *)
(* for: each is behind dead_prefix, or the order is about to be rebuilt.   *)
THEOREM OrderIsCompleteHolds == SwarmSpec => []OrderIsComplete
<1>1. Inv => OrderIsComplete
  BY DEF Inv, OrderInv, OrderIsComplete, Rarest, Behind
<1> QED BY <1>1, Invariance, PTL

(* As long as no Interested or NotInterested finds a full queue, every     *)
(* connected peer that has a needed piece is told of our interest, and so  *)
(* can be asked, whatever bitfields, Haves, finished and failed pieces and *)
(* changes of the selection came in which order.                           *)
THEOREM HoldersAreToldHolds == SwarmSpec => [](~FullQueues => HoldersAreTold)
<1>1. Inv => (~FullQueues => HoldersAreTold)
  BY DEF Inv, InterestInv
<1> QED BY <1>1, Invariance, PTL
=============================================================================
