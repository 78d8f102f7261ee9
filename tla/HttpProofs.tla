----------------------------- MODULE HttpProofs -----------------------------
(***************************************************************************)
(* Proofs about HttpDownload, for every number of workers, file and piece  *)
(* size, and number of retries, faults, runs and versions.                 *)
(***************************************************************************)
EXTENDS HttpDownload, FiniteSetTheorems, TLAPS

-----------------------------------------------------------------------------
(* The invariant of the queue and the workers.                             *)

Lengths(d) == d \in [Pieces -> Nat] /\ \A q \in Pieces : d[q] <= LenOf(q)
IsMeta(m) == m \in [ver : Versions, done : [Pieces -> Nat]] /\ Lengths(m.done)

Runs == {"idle", "probe", "multi", "pieces", "unlink", "fallback", "single", "streaming"}
Fetching == {"request", "stream", "count"}
Places == Fetching \cup {"off", "look", "enable", "wait", "ended"}

ServerTypes == version \in Versions /\ validated \in BOOLEAN /\ ranges \in BOOLEAN
DiskTypes ==
    /\ part \in [Units -> 0..MaxVersions] /\ plen \in 0..Size
    /\ sidecar # Nothing => IsMeta(sidecar)
    /\ saving # Nothing => IsMeta(saving)
RunTypes ==
    /\ run \in Runs /\ expected \in 0..MaxVersions
    /\ run \in {"multi", "pieces"} => expected \in Versions
QueueTypes ==
    /\ qstate \in [Pieces -> {"free", "inflight", "done"}]
    /\ Lengths(done)
WorkerTypes ==
    /\ wpc \in [Workers -> Places] /\ wq \in [Workers -> 0..NPieces]
    /\ wver \in [Workers -> 0..MaxVersions]
    /\ left \in [Workers -> SUBSET Pieces] /\ retries \in [Workers -> 0..MaxRetries]
Types == ServerTypes /\ DiskTypes /\ RunTypes /\ QueueTypes /\ WorkerTypes

(* A worker has a piece while it fetches, the piece is in flight, and no   *)
(* other worker has it; what is in flight is some worker's.                *)
PiecesShared ==
    /\ \A w \in Workers : wq[w] # 0 <=> wpc[w] \in Fetching
    /\ \A w \in Workers : wq[w] # 0 => qstate[wq[w]] = "inflight"
    /\ \A q \in Pieces : qstate[q] = "inflight" => \E w \in Workers : wq[w] = q
    /\ \A w, v \in Workers : wq[w] # 0 /\ wq[w] = wq[v] => w = v

(* Between two rounds of the workers the queue is empty and nothing is     *)
(* being saved.                                                            *)
Rests ==
    /\ run \notin {"pieces", "unlink"} =>
         /\ \A w \in Workers : wpc[w] = "off"
         /\ \A q \in Pieces : qstate[q] = "free" /\ done[q] = 0
    /\ run = "unlink" => \A w \in Workers : wpc[w] = "ended"
    /\ run # "pieces" => saving = Nothing

(* What was written and is about to be counted is part of the piece.       *)
Counting == \A w \in Workers : wpc[w] = "count" => done[wq[w]] < LenOf(wq[w])

QueueInv == Types /\ PiecesShared /\ Rests /\ Counting

-----------------------------------------------------------------------------
(* The invariant of the file and the sidecar.                              *)

(* What was written is within the length of the file; a server that names  *)
(* no version has no sidecar.                                              *)
FileLength == \A u \in Units : part[u] # 0 => u <= plen
Unnamed == ~validated => sidecar = Nothing /\ saving = Nothing

(* The sidecar tells no more than the file holds (until the file has been  *)
(* renamed).  While the workers run it tells no more than their counters,  *)
(* and neither does the snapshot that is being written; while the single   *)
(* connection writes, it tells of nothing.                                 *)
SidecarTrue == run # "unlink" /\ sidecar # Nothing => Holds(sidecar.done, {sidecar.ver})
Behind(m) == m # Nothing => m.ver = expected /\ \A q \in Pieces : m.done[q] <= done[q]
SidecarBehind == run = "pieces" => Behind(sidecar) /\ Behind(saving)
SidecarEmpty ==
    run \in {"single", "streaming"} /\ sidecar # Nothing => \A q \in Pieces : sidecar.done[q] = 0

(* The counters are backed by the file, and a worker that writes writes    *)
(* the version that is expected.                                           *)
CountersTrue == run = "pieces" => Holds(done, Current)
WritesCurrent ==
    \A w \in Workers :
        /\ wpc[w] = "stream" /\ done[wq[w]] < LenOf(wq[w]) => wver[w] \in Current
        /\ wpc[w] = "count" =>
             /\ done[wq[w]] < LenOf(wq[w]) /\ wver[w] \in Current
             /\ part[Unit(wq[w], done[wq[w]] + 1)] = wver[w]
DoneIsWhole == \A q \in Pieces : qstate[q] = "done" => done[q] = LenOf(q)

(* Unless a worker failed, a free piece still has a worker that looks at   *)
(* it or will look again.                                                  *)
FreeIsSeen ==
    run = "pieces" /\ errors = {} =>
        \A q \in Pieces : qstate[q] = "free" =>
            \E w \in Workers : \/ wpc[w] = "look" /\ q \in left[w]
                               \/ wpc[w] \in Fetching \cup {"enable"}

FileInv ==
    /\ FileLength /\ Unnamed /\ SidecarTrue /\ SidecarBehind /\ SidecarEmpty
    /\ CountersTrue /\ WritesCurrent /\ DoneIsWhole /\ FreeIsSeen /\ PiecesMakeWhole

-----------------------------------------------------------------------------
(* The arithmetic of pieces and units.                                     *)

(* What div_ceil is built on.                                              *)
LEMMA Division == ASSUME NEW a \in Nat, NEW b \in Nat \ {0}
                  PROVE  /\ a \div b \in Nat
                         /\ b * (a \div b) <= a /\ a < b * (a \div b) + b
<1>1. a \div b \in Nat
  OBVIOUS
<1>2. b * (a \div b) <= a /\ a < b * (a \div b) + b
  OBVIOUS
<1> QED BY <1>1, <1>2

(* Products grow with a factor.                                            *)
LEMMA Times == ASSUME NEW a \in Nat, NEW b \in Nat, NEW c \in Nat, a <= b
               PROVE  a * c <= b * c /\ a * c \in Nat
OBVIOUS

(* A file has a number of pieces.                                          *)
LEMMA PiecesAreNumbers == NPieces \in Nat
BY HttpAssumption, Division DEF NPieces

(* The start of a piece is a unit of the file.                             *)
LEMMA PieceStart ==
    ASSUME NEW q \in Pieces
    PROVE  Unit(q, 0) \in Nat /\ Unit(q, 0) < Size
<1> DEFINE n == Size + PieceLen - 1
<1>1. n \in Nat /\ NPieces = n \div PieceLen
  BY HttpAssumption DEF NPieces
<1>2. PieceLen * NPieces <= n
  BY <1>1, HttpAssumption, Division
<1>3. NPieces \in Nat /\ q \in Nat /\ q - 1 \in Nat /\ q <= NPieces
  BY PiecesAreNumbers DEF Pieces
<1>4. q * PieceLen <= NPieces * PieceLen
  BY <1>3, HttpAssumption, Times
<1>5. q * PieceLen = (q - 1) * PieceLen + PieceLen
  BY <1>3, HttpAssumption
<1>6. NPieces * PieceLen = PieceLen * NPieces
  BY <1>3, HttpAssumption
<1>7. (q - 1) * PieceLen \in Nat
  BY <1>3, HttpAssumption
<1> DEFINE x == (q - 1) * PieceLen  y == NPieces * PieceLen  z == q * PieceLen
<1>8. y \in Nat /\ z \in Nat
  BY <1>3, HttpAssumption
<1>9. x \in Nat /\ z = x + PieceLen /\ z <= y /\ y <= Size + PieceLen - 1
  BY <1>2, <1>4, <1>5, <1>6, <1>7
<1>10. Unit(q, 0) = x + 0
  BY DEF Unit
<1> HIDE DEF x, y, z
<1> QED BY <1>8, <1>9, <1>10, HttpAssumption

(* The units of a piece follow its first one.                              *)
LEMMA UnitFromStart ==
    ASSUME NEW q \in Pieces, NEW k \in Nat
    PROVE  Unit(q, k) = Unit(q, 0) + k
<1>1. q - 1 \in Nat
  BY PiecesAreNumbers DEF Pieces
<1>2. (q - 1) * PieceLen \in Nat
  BY <1>1, HttpAssumption
<1> DEFINE x == (q - 1) * PieceLen
<1> HIDE DEF x
<1>3. x + k = (x + 0) + k
  BY <1>2 DEF x
<1> QED BY <1>3 DEF Unit, x

(* No piece is empty, and the last one ends the file.                      *)
LEMMA PieceLength ==
    ASSUME NEW q \in Pieces
    PROVE  /\ LenOf(q) \in 1..PieceLen
           /\ LenOf(q) = Least(PieceLen, Size - Unit(q, 0))
<1>1. Unit(q, 0) = (q - 1) * PieceLen + 0
  BY DEF Unit
<1>2. (q - 1) * PieceLen \in Nat
  BY HttpAssumption, PiecesAreNumbers DEF Pieces
<1>3. Unit(q, 0) = (q - 1) * PieceLen
  BY <1>1, <1>2
<1> QED BY <1>3, PieceStart, HttpAssumption DEF LenOf, Least

(* The units of the pieces are units of the file ...                       *)
LEMMA UnitInFile ==
    ASSUME NEW q \in Pieces, NEW k \in 1..LenOf(q)
    PROVE  Unit(q, k) \in Units
BY PieceStart, PieceLength, UnitFromStart, HttpAssumption DEF Units, Least

(* ... of one piece each ...                                               *)
LEMMA NextStart ==
    ASSUME NEW q \in Pieces, NEW r \in Pieces, q < r
    PROVE  Unit(q, 0) + PieceLen <= Unit(r, 0)
<1>1. q \in Nat /\ r - 1 \in Nat /\ q <= r - 1 /\ q - 1 \in Nat
  BY PiecesAreNumbers DEF Pieces
<1>2. q * PieceLen <= (r - 1) * PieceLen
  BY <1>1, HttpAssumption, Times
<1>3. q * PieceLen = (q - 1) * PieceLen + PieceLen
  BY <1>1, HttpAssumption
<1> DEFINE x == (q - 1) * PieceLen  y == (r - 1) * PieceLen  z == q * PieceLen
<1>4. x \in Nat /\ y \in Nat /\ z \in Nat /\ z = x + PieceLen /\ z <= y
  BY <1>1, <1>2, <1>3, HttpAssumption
<1>5. Unit(q, 0) = x + 0 /\ Unit(r, 0) = y + 0
  BY DEF Unit
<1> HIDE DEF x, y, z
<1> QED BY <1>4, <1>5, HttpAssumption

(* No unit is in two pieces.                                               *)
LEMMA UnitOfOnePiece ==
    ASSUME NEW q \in Pieces, NEW r \in Pieces, NEW k \in 1..LenOf(q), NEW j \in 1..LenOf(r),
           Unit(q, k) = Unit(r, j)
    PROVE  q = r /\ k = j
<1>1. Unit(q, k) = Unit(q, 0) + k /\ Unit(r, j) = Unit(r, 0) + j
  BY UnitFromStart, PieceLength
<1>2. Unit(q, 0) \in Nat /\ Unit(r, 0) \in Nat /\ k \in 1..PieceLen /\ j \in 1..PieceLen
  BY PieceStart, PieceLength, HttpAssumption
<1> DEFINE x == Unit(q, 0)  y == Unit(r, 0)
<1>3. q < r => x + PieceLen <= y
  BY NextStart
<1>4. r < q => y + PieceLen <= x
  BY NextStart
<1>5. x \in Nat /\ y \in Nat /\ x + k = y + j
  BY <1>1, <1>2
<1> HIDE DEF x, y
<1>6. k \in Nat /\ j \in Nat /\ k <= PieceLen /\ j <= PieceLen /\ 0 < k /\ 0 < j
  BY <1>2, HttpAssumption
<1>7. ~(q < r) /\ ~(r < q)
  BY <1>3, <1>4, <1>5, <1>6, HttpAssumption
<1>8. q = r
  BY <1>7, PiecesAreNumbers DEF Pieces
<1>9. x = y
  BY <1>8 DEF x, y
<1> QED BY <1>5, <1>6, <1>8, <1>9

(* ... and there are no others.                                            *)
LEMMA DivideLess ==
    ASSUME NEW a \in Nat, NEW n \in Nat, NEW b \in Nat \ {0}, a + b <= n
    PROVE  a \div b + 1 <= n \div b
<1> DEFINE c == a \div b  m == n \div b
<1>1. c \in Nat /\ m \in Nat /\ b * c <= a /\ n < b * m + b
  BY Division
<1> HIDE DEF c, m
<1> SUFFICES ASSUME m <= c PROVE FALSE
  BY <1>1 DEF c, m
<1>2. m * b <= c * b
  BY <1>1, Times
<1>3. m * b = b * m /\ c * b = b * c /\ b * m \in Nat /\ b * c \in Nat
  BY <1>1
<1> DEFINE x == b * m  y == b * c
<1>4. x \in Nat /\ y \in Nat /\ x <= y /\ y <= a /\ n < x + b
  BY <1>1, <1>2, <1>3
<1> HIDE DEF x, y
<1> QED BY <1>4

(* Every unit is in a piece.                                               *)
LEMMA UnitHasPiece ==
    ASSUME NEW u \in Units
    PROVE  \E q \in Pieces : \E k \in 1..LenOf(q) : u = Unit(q, k)
<1> DEFINE a == u - 1  n == Size + PieceLen - 1  b == a \div PieceLen
           q == b + 1  k == u - PieceLen * b
<1>1. u \in Nat /\ a \in Nat /\ n \in Nat /\ a + PieceLen <= n /\ u <= Size /\ u = a + 1
  BY HttpAssumption DEF Units
<1>2. b \in Nat /\ PieceLen * b <= a /\ a < PieceLen * b + PieceLen
  BY <1>1, HttpAssumption, Division
<1>3. b + 1 <= NPieces
  BY <1>1, HttpAssumption, DivideLess DEF NPieces
<1> HIDE DEF b, a
<1>4. q \in Pieces
  BY <1>2, <1>3, PiecesAreNumbers DEF Pieces
<1>5. Unit(q, 0) = PieceLen * b /\ PieceLen * b \in Nat
  <2>1. q - 1 = b
    BY <1>2
  <2>2. b * PieceLen = PieceLen * b /\ PieceLen * b \in Nat
    BY <1>2, HttpAssumption
  <2> QED BY <2>1, <2>2 DEF Unit
<1> DEFINE x == PieceLen * b
<1>6. x \in Nat /\ k = u - x /\ x <= a /\ a < x + PieceLen /\ Unit(q, 0) = x
  BY <1>2, <1>5
<1> HIDE DEF x, k, q
<1>7. k \in 1..PieceLen /\ u = x + k
  BY <1>1, <1>6, HttpAssumption
<1>8. u = Unit(q, k)
  BY <1>4, <1>6, <1>7, UnitFromStart, HttpAssumption
<1>9. k <= LenOf(q)
  BY <1>1, <1>4, <1>6, <1>7, PieceLength, HttpAssumption DEF Least
<1>10. k \in 1..LenOf(q)
  BY <1>4, <1>7, <1>9, PieceLength
<1> QED BY <1>4, <1>8, <1>10

-----------------------------------------------------------------------------
(* QueueInv is kept: first the parts of the actions that several share.    *)

(* A round of the workers that ends without a finished file.              *)
MultiEnds ==
    /\ Joined /\ RunEnds /\ sidecar' \in {sidecar, Meta}
    /\ UNCHANGED <<serverVars, part, plen, final, by, runs>>

(* Both ways in which it does are of this kind.                            *)
LEMMA MultiEndsEither == ASSUME MultiFails \/ MultiFinishFails PROVE MultiEnds
BY DEF MultiEnds, MultiFails, MultiFinishFails, SaveMeta

AtRest ==
    /\ RunTypes /\ QueueTypes /\ WorkerTypes
    /\ PiecesShared /\ Rests /\ Counting /\ saving = Nothing

(* A run that ends leaves no worker and no queue.                          *)
LEMMA RunEndsAtRest == ASSUME RunEnds PROVE AtRest'
<1> USE HttpAssumption, PiecesAreNumbers, PieceLength DEF RunEnds, RunAt
<1>1. RunTypes'
  BY DEF RunTypes, Runs
<1>2. QueueTypes'
  BY DEF QueueTypes, Lengths
<1>3. WorkerTypes'
  BY DEF WorkerTypes, Places, Fetching
<1>4. PiecesShared' /\ Rests' /\ Counting'
  BY DEF PiecesShared, Rests, Fetching, Counting
<1> QED BY <1>1, <1>2, <1>3, <1>4 DEF AtRest

(* Neither does one that starts over without its .part.                    *)
LEMMA StartOverAtRest ==
    ASSUME QueueInv, StartOver, saving = Nothing, \A w \in Workers : wpc[w] \notin Fetching
    PROVE  AtRest'
<1>1. CASE stale
  BY <1>1, RunEndsAtRest DEF StartOver
<1>2. CASE ~stale
  <2> USE <1>2, HttpAssumption, PiecesAreNumbers, PieceLength DEF StartOver, RunAt, QueueInv, Types
  <2>1. RunTypes'
    BY DEF RunTypes, Runs
  <2>2. QueueTypes'
    BY DEF QueueTypes, Lengths
  <2>3. WorkerTypes'
    BY DEF WorkerTypes, Places, Fetching
  <2>4. PiecesShared' /\ Rests' /\ Counting'
    BY DEF PiecesShared, Rests, Fetching, Counting
  <2> QED BY <2>1, <2>2, <2>3, <2>4 DEF AtRest
<1> QED BY <1>1, <1>2

(* A step outside the workers' rounds that leaves the queue alone.         *)
LEMMA QuietKeeps ==
    ASSUME QueueInv, run \notin {"pieces", "unlink"}, run' \in Runs \ {"pieces", "unlink"},
           expected' \in 0..MaxVersions, run' = "multi" => expected' \in Versions,
           UNCHANGED <<queueVars, workerVars, saving>>
    PROVE  AtRest'
BY DEF QueueInv, AtRest, Types, RunTypes, QueueTypes, WorkerTypes, PiecesShared, Rests, Counting,
       queueVars, workerVars, Lengths

(* Where nothing runs the queue is in order.                               *)
LEMMA AtRestIsQueueInv ==
    ASSUME AtRest', ServerTypes', part' \in [Units -> 0..MaxVersions], plen' \in 0..Size,
           sidecar' # Nothing => IsMeta(sidecar)'
    PROVE  QueueInv'
BY DEF AtRest, QueueInv, Types, DiskTypes

(* A worker's piece is settled: those that waited look again.              *)
LEMMA SettleWakes ==
    ASSUME NEW w \in Workers, wpc[w] # "wait", NEW st, NEW l, Settle(w, st, l)
    PROVE  \A v \in Workers :
              wpc'[v] = IF v = w THEN l ELSE IF wpc[v] = "wait" THEN "look" ELSE wpc[v]
<1> SUFFICES ASSUME NEW v \in Workers
             PROVE  wpc'[v] = IF v = w THEN l ELSE IF wpc[v] = "wait" THEN "look" ELSE wpc[v]
  OBVIOUS
<1>1. wpc'[v] = CASE v = w -> l [] wpc[v] = "wait" -> "look" [] OTHER -> wpc[v]
  BY DEF Settle
<1>2. CASE v = w
  BY <1>1, <1>2
<1>3. CASE v # w /\ wpc[v] = "wait"
  BY <1>1, <1>3
<1>4. CASE v # w /\ wpc[v] # "wait"
  BY <1>1, <1>4
<1> QED BY <1>2, <1>3, <1>4

(* Handing a piece back, or completing it.                                 *)
LEMMA SettleKeeps ==
    ASSUME QueueInv, NEW w \in Workers, wpc[w] \in Fetching, NEW st \in {"free", "done"},
           NEW l \in {"look", "ended"}, Settle(w, st, l)
    PROVE  /\ run = "pieces" /\ wq[w] \in Pieces
           /\ qstate' \in [Pieces -> {"free", "inflight", "done"}]
           /\ wpc' \in [Workers -> Places] /\ wq' \in [Workers -> 0..NPieces]
           /\ wver' \in [Workers -> 0..MaxVersions] /\ left' \in [Workers -> SUBSET Pieces]
           /\ PiecesShared'
           /\ \A v \in Workers : wpc'[v] = "count" => wpc[v] = "count" /\ wq'[v] = wq[v]
<1> USE HttpAssumption, PiecesAreNumbers DEF QueueInv, Types
<1>1. run = "pieces"
  BY DEF Rests, Fetching
<1>2. wq[w] \in Pieces
  BY DEF PiecesShared, WorkerTypes, Pieces
<1>3. \A v \in Workers :
         wpc'[v] = IF v = w THEN l ELSE IF wpc[v] = "wait" THEN "look" ELSE wpc[v]
  <2>1. wpc[w] # "wait"
    BY DEF Fetching
  <2> QED BY <2>1, SettleWakes
<1>4. wpc' = [v \in Workers |-> wpc'[v]]
  BY DEF Settle
<1>5. wpc' \in [Workers -> Places]
  BY <1>3, <1>4 DEF WorkerTypes, Places, Fetching
<1>6. /\ qstate' = [qstate EXCEPT ![wq[w]] = st]
      /\ qstate' \in [Pieces -> {"free", "inflight", "done"}]
  BY DEF Settle, QueueTypes
<1>7. wq' = [wq EXCEPT ![w] = 0] /\ wq' \in [Workers -> 0..NPieces]
  BY DEF Settle, WorkerTypes
<1>8. wver' \in [Workers -> 0..MaxVersions] /\ left' \in [Workers -> SUBSET Pieces]
  BY DEF Settle, WorkerTypes
<1>9. PiecesShared'
  <2>1. \A v \in Workers : wq'[v] # 0 <=> wpc'[v] \in Fetching
    BY <1>3, <1>7 DEF PiecesShared, WorkerTypes, Fetching
  <2>2. \A v \in Workers : wq'[v] # 0 => qstate'[wq'[v]] = "inflight"
    <3> SUFFICES ASSUME NEW v \in Workers, wq'[v] # 0 PROVE qstate'[wq'[v]] = "inflight"
      OBVIOUS
    <3>1. v # w /\ wq'[v] = wq[v] /\ wq[v] # wq[w] /\ wq[v] \in Pieces
      BY <1>2, <1>7 DEF PiecesShared, WorkerTypes, Pieces
    <3> QED BY <3>1, <1>6, <1>2 DEF PiecesShared, QueueTypes
  <2>3. \A q \in Pieces : qstate'[q] = "inflight" => \E v \in Workers : wq'[v] = q
    <3> SUFFICES ASSUME NEW q \in Pieces, qstate'[q] = "inflight"
                 PROVE  \E v \in Workers : wq'[v] = q
      OBVIOUS
    <3>1. q # wq[w] /\ qstate[q] = "inflight"
      BY <1>2, <1>6 DEF QueueTypes
    <3>2. PICK v \in Workers : wq[v] = q
      BY <3>1 DEF PiecesShared
    <3> QED BY <3>1, <3>2, <1>7 DEF WorkerTypes
  <2>4. \A v, x \in Workers : wq'[v] # 0 /\ wq'[v] = wq'[x] => v = x
    BY <1>7 DEF PiecesShared, WorkerTypes
  <2> QED BY <2>1, <2>2, <2>3, <2>4 DEF PiecesShared
<1>10. \A v \in Workers : wpc'[v] = "count" => wpc[v] = "count" /\ wq'[v] = wq[v]
  BY <1>3, <1>7 DEF WorkerTypes
<1> QED BY <1>1, <1>2, <1>5, <1>6, <1>7, <1>8, <1>9, <1>10

(* The rest of QueueInv for a step of a worker.                            *)
LEMMA WorkerStepKeeps ==
    ASSUME QueueInv, run = "pieces", UNCHANGED <<serverVars, sidecar, final, runVars, saving>>,
           part' \in [Units -> 0..MaxVersions], plen' \in 0..Size,
           QueueTypes', WorkerTypes', PiecesShared', Counting'
    PROVE  QueueInv'
BY DEF QueueInv, Types, ServerTypes, DiskTypes, RunTypes, Rests, IsMeta, serverVars, runVars

(* No worker starts to count, and no counter moves.                        *)
LEMMA CountingKept ==
    ASSUME QueueInv, done' = done,
           \A v \in Workers : wpc'[v] = "count" => wpc[v] = "count" /\ wq'[v] = wq[v]
    PROVE  Counting'
BY DEF QueueInv, Counting

(* Workers are there while the pieces are fetched.                         *)
LEMMA WorkerRuns ==
    ASSUME QueueInv, NEW w \in Workers, wpc[w] \notin {"off", "ended"} PROVE run = "pieces"
BY DEF QueueInv, Rests

(* The steps of the workers.                                               *)
LEMMA WorkersKeepQueue ==
    ASSUME QueueInv, NEW w \in Workers, WorkerStep(w) \/ SourceFails(w) \/ StorageFails(w)
    PROVE  QueueInv'
<1> USE HttpAssumption, PiecesAreNumbers
<1> DEFINE Same == UNCHANGED <<serverVars, diskVars, runVars, saving>>
<1>0. ASSUME Same PROVE /\ UNCHANGED <<serverVars, sidecar, final, runVars, saving>>
                        /\ part' \in [Units -> 0..MaxVersions] /\ plen' \in 0..Size
  BY <1>0 DEF diskVars, QueueInv, Types, DiskTypes
<1>1. ASSUME NEW q \in Pieces, LookAt(w, q) PROVE QueueInv'
  <2>1. run = "pieces" /\ Same
    BY <1>1, WorkerRuns DEF LookAt
  <2>2. QueueTypes' /\ WorkerTypes' /\ PiecesShared'
    <3>1. CASE qstate[q] # "free"
      BY <1>1, <3>1 DEF LookAt, QueueInv, Types, QueueTypes, WorkerTypes, PiecesShared, Lengths
    <3>2. CASE qstate[q] = "free"
      <4> USE <1>1, <3>2 DEF LookAt, QueueInv, Types
      <4>1. QueueTypes'
        BY DEF QueueTypes, Lengths
      <4>2. q \in 1..NPieces
        BY DEF Pieces
      <4>3. WorkerTypes'
        BY <4>2 DEF WorkerTypes, Places, Fetching
      <4>4. wq[w] = 0 /\ \A v \in Workers : wq[v] # q
        BY <4>2 DEF PiecesShared, Fetching
      <4>5. PiecesShared'
        <5>1. /\ qstate' = [qstate EXCEPT ![q] = "inflight"] /\ wq' = [wq EXCEPT ![w] = q]
              /\ \E l \in {"request", "stream"} : wpc' = [wpc EXCEPT ![w] = l]
          OBVIOUS
        <5>2. \A v \in Workers : v # w => wq'[v] = wq[v] /\ wpc'[v] = wpc[v]
          BY <5>1 DEF WorkerTypes
        <5>3. wq'[w] = q /\ q # 0 /\ wpc'[w] \in Fetching
          BY <5>1, <4>2 DEF WorkerTypes, Fetching
        <5>4. \A r \in Pieces : qstate'[r] = IF r = q THEN "inflight" ELSE qstate[r]
          BY <5>1 DEF QueueTypes
        <5>5. \A v \in Workers : wq'[v] # 0 <=> wpc'[v] \in Fetching
          BY <5>2, <5>3 DEF PiecesShared
        <5>6. ASSUME NEW v \in Workers, wq'[v] # 0 PROVE qstate'[wq'[v]] = "inflight"
          <6>1. CASE v = w
            BY <6>1, <5>3, <5>4
          <6>2. CASE v # w
            <7>1. wq'[v] = wq[v] /\ wq[v] \in Pieces
              BY <6>2, <5>2, <5>6 DEF WorkerTypes, Pieces
            <7> QED BY <7>1, <5>4, <5>6 DEF PiecesShared
          <6> QED BY <6>1, <6>2
        <5>7. ASSUME NEW r \in Pieces, qstate'[r] = "inflight"
              PROVE  \E v \in Workers : wq'[v] = r
          <6>1. CASE r = q
            BY <6>1, <5>3
          <6>2. CASE r # q
            <7>1. PICK v \in Workers : wq[v] = r
              BY <6>2, <5>4, <5>7 DEF PiecesShared
            <7>2. v # w
              BY <7>1, <4>4 DEF Pieces
            <7> QED BY <7>1, <7>2, <5>2
          <6> QED BY <6>1, <6>2
        <5>8. \A v, x \in Workers : wq'[v] # 0 /\ wq'[v] = wq'[x] => v = x
          BY <5>2, <5>3, <4>4 DEF PiecesShared
        <5> QED BY <5>5, <5>6, <5>7, <5>8 DEF PiecesShared
      <4> QED BY <4>1, <4>3, <4>5
    <3> QED BY <3>1, <3>2
  <2>3. Counting'
    BY <1>1, CountingKept DEF LookAt, QueueInv, Types, WorkerTypes
  <2> QED BY <2>1, <2>2, <2>3, <1>0, WorkerStepKeeps
<1>2. ASSUME NoneFree(w) \/ WaitForChange(w) \/ StopIdle(w) PROVE QueueInv'
  <2>1. run = "pieces" /\ Same
    BY <1>2, WorkerRuns DEF NoneFree, WaitForChange, StopIdle
  <2>2. QueueTypes'
    BY <1>2 DEF NoneFree, WaitForChange, StopIdle, QueueInv, Types, QueueTypes, queueVars, Lengths
  <2>3. /\ wq' = wq /\ qstate' = qstate
        /\ \E l \in {"enable", "ended", "wait", "look"} : wpc' = [wpc EXCEPT ![w] = l]
        /\ wpc[w] \notin Fetching
    BY <1>2 DEF NoneFree, WaitForChange, StopIdle, WorkerEnds, LooksAgain, queueVars, Fetching
  <2>4. wver' = wver /\ retries' = retries /\ (left' = left \/ left' = [left EXCEPT ![w] = Pieces])
    BY <1>2 DEF NoneFree, WaitForChange, StopIdle, LooksAgain
  <2>5. WorkerTypes'
    BY <2>3, <2>4 DEF QueueInv, Types, WorkerTypes, Places
  <2>6. PiecesShared'
    BY <2>3 DEF QueueInv, Types, WorkerTypes, PiecesShared, Fetching
  <2>7. Counting'
    <3>1. done' = done
      BY <1>2 DEF NoneFree, WaitForChange, StopIdle, queueVars
    <3> QED BY <3>1, <2>3, CountingKept DEF QueueInv, Types, WorkerTypes
  <2> QED BY <2>1, <2>2, <2>5, <2>6, <2>7, <1>0, WorkerStepKeeps
<1>3. ASSUME NEW st \in {"free", "done"}, NEW l \in {"look", "ended"}, wpc[w] \in Fetching,
             Settle(w, st, l), Same, done' = done,
             \/ retries' = retries \/ retries' = [retries EXCEPT ![w] = 0]
             \/ retries[w] < MaxRetries /\ retries' = [retries EXCEPT ![w] = @ + 1]
      PROVE  QueueInv'
  <2>1. /\ run = "pieces" /\ qstate' \in [Pieces -> {"free", "inflight", "done"}]
        /\ wpc' \in [Workers -> Places] /\ wq' \in [Workers -> 0..NPieces]
        /\ wver' \in [Workers -> 0..MaxVersions] /\ left' \in [Workers -> SUBSET Pieces]
        /\ PiecesShared'
        /\ \A v \in Workers : wpc'[v] = "count" => wpc[v] = "count" /\ wq'[v] = wq[v]
    BY <1>3, SettleKeeps
  <2>2. QueueTypes'
    BY <1>3, <2>1 DEF QueueInv, Types, QueueTypes, Lengths
  <2>3. retries' \in [Workers -> 0..MaxRetries]
    BY <1>3 DEF QueueInv, Types, WorkerTypes
  <2>4. WorkerTypes'
    BY <2>1, <2>3 DEF WorkerTypes
  <2>5. Counting'
    BY <1>3, <2>1, CountingKept
  <2> QED BY <1>3, <2>1, <2>2, <2>4, <2>5, <1>0, WorkerStepKeeps
<1>4. ASSUME Respond(w) PROVE QueueInv'
  <2>1. CASE validated /\ version # expected
    BY <1>4, <2>1, <1>3 DEF Respond, Fetching
  <2>2. CASE ~(validated /\ version # expected)
    <3>1. run = "pieces" /\ Same
      BY <1>4, WorkerRuns DEF Respond
    <3>2. QueueTypes' /\ WorkerTypes'
      BY <1>4, <2>2 DEF Respond, QueueInv, Types, QueueTypes, WorkerTypes, Lengths, Places,
                        Fetching, ServerTypes, Versions
    <3>3. PiecesShared'
      BY <1>4, <2>2 DEF Respond, QueueInv, Types, WorkerTypes, PiecesShared, Fetching
    <3>4. Counting'
      BY <1>4, <2>2, CountingKept DEF Respond, QueueInv, Types, WorkerTypes
    <3> QED BY <3>1, <3>2, <3>3, <3>4, <1>0, WorkerStepKeeps
  <2> QED BY <2>1, <2>2
<1>5. ASSUME WriteUnit(w) PROVE QueueInv'
  <2> DEFINE q == wq[w]  u == Unit(q, done[q] + 1)
  <2>1. run = "pieces"
    BY <1>5, WorkerRuns DEF WriteUnit
  <2>2. q \in Pieces
    BY <1>5 DEF WriteUnit, QueueInv, Types, WorkerTypes, PiecesShared, Fetching, Pieces
  <2>3. done[q] + 1 \in 1..LenOf(q)
    BY <1>5, <2>2, PieceLength DEF WriteUnit, QueueInv, Types, QueueTypes, Lengths
  <2>4. u \in Units
    BY <2>2, <2>3, UnitInFile
  <2>5. part' = [part EXCEPT ![u] = wver[w]] /\ plen' = IF u > plen THEN u ELSE plen
    BY <1>5 DEF WriteUnit
  <2> HIDE DEF u
  <2>6. part' \in [Units -> 0..MaxVersions] /\ plen' \in 0..Size
    BY <2>4, <2>5 DEF QueueInv, Types, DiskTypes, WorkerTypes, Units
  <2>7. QueueTypes' /\ WorkerTypes' /\ PiecesShared'
    BY <1>5 DEF WriteUnit, QueueInv, Types, QueueTypes, WorkerTypes, Lengths, PiecesShared, Places,
                Fetching, queueVars
  <2>8. Counting'
    BY <1>5 DEF WriteUnit, QueueInv, Types, WorkerTypes, Counting, queueVars
  <2> QED BY <1>5, <2>1, <2>6, <2>7, <2>8, WorkerStepKeeps DEF WriteUnit
<1>6. ASSUME CountUnit(w) PROVE QueueInv'
  <2>1. run = "pieces" /\ Same
    BY <1>6, WorkerRuns DEF CountUnit
  <2>2. wq[w] \in Pieces
    BY <1>6 DEF CountUnit, QueueInv, Types, WorkerTypes, PiecesShared, Fetching, Pieces
  <2>3. QueueTypes'
    <3>1. done[wq[w]] < LenOf(wq[w])
      BY <1>6 DEF CountUnit, QueueInv, Counting
    <3> QED BY <1>6, <2>2, <3>1, PieceLength
          DEF CountUnit, QueueInv, Types, QueueTypes, Lengths
  <2>4. WorkerTypes' /\ PiecesShared'
    BY <1>6 DEF CountUnit, QueueInv, Types, WorkerTypes, PiecesShared, Places, Fetching
  <2>5. Counting'
    <3> SUFFICES ASSUME NEW v \in Workers, wpc'[v] = "count"
                 PROVE  done'[wq'[v]] < LenOf(wq'[v])
      BY DEF Counting
    <3>1. v # w /\ wpc[v] = "count" /\ wq'[v] = wq[v]
      BY <1>6 DEF CountUnit, QueueInv, Types, WorkerTypes
    <3>2. wq[v] # wq[w] /\ wq[v] \in Pieces
      BY <3>1, <2>2 DEF QueueInv, Types, WorkerTypes, PiecesShared, Fetching, Pieces
    <3>3. done'[wq[v]] = done[wq[v]]
      BY <1>6, <3>2, <2>2 DEF CountUnit, QueueInv, Types, QueueTypes, Lengths
    <3> QED BY <3>1, <3>3 DEF QueueInv, Counting
  <2> QED BY <2>1, <2>3, <2>4, <2>5, <1>0, WorkerStepKeeps
<1>7. ASSUME PieceDone(w) PROVE QueueInv'
  BY <1>7, <1>3 DEF PieceDone, Fetching
<1>8. ASSUME StopPiece(w) PROVE QueueInv'
  BY <1>8, <1>3 DEF StopPiece, Fetching
<1>9. ASSUME SourceFails(w) PROVE QueueInv'
  <2>1. wpc[w] \in Fetching /\ Same /\ done' = done
    BY <1>9 DEF SourceFails, Fetching
  <2> QED BY <1>9, <2>1, <1>3 DEF SourceFails
<1>10. ASSUME StorageFails(w) PROVE QueueInv'
  BY <1>10, <1>3 DEF StorageFails, Fetching
<1> QED BY <1>1, <1>2, <1>4, <1>5, <1>6, <1>7, <1>8, <1>9, <1>10 DEF WorkerStep

(* load_piece_meta gives each piece a length that it may have.             *)
LEMMA ResumedLengths == QueueInv => Lengths(Resumed)
<1> SUFFICES ASSUME QueueInv PROVE Lengths(Resumed)
  OBVIOUS
<1> USE HttpAssumption, PieceStart, PieceLength
<1>1. CASE sidecar # Nothing /\ plen > 0 /\ validated /\ sidecar.ver = expected
  <2>1. sidecar.done \in [Pieces -> Nat] /\ \A q \in Pieces : sidecar.done[q] <= LenOf(q)
    BY <1>1 DEF QueueInv, Types, DiskTypes, IsMeta, Lengths
  <2>2. plen \in Nat
    BY DEF QueueInv, Types, DiskTypes
  <2>3. Resumed = [q \in Pieces |-> Least(sidecar.done[q],
                      IF plen > Unit(q, 0) THEN plen - Unit(q, 0) ELSE 0)]
    BY <1>1 DEF Resumed
  <2>4. \A q \in Pieces : Resumed[q] \in Nat /\ Resumed[q] <= LenOf(q)
    BY <2>1, <2>2, <2>3 DEF Least
  <2>5. Resumed \in [Pieces -> Nat]
    BY <2>3, <2>4
  <2> QED BY <2>4, <2>5 DEF Lengths
<1>2. CASE ~(sidecar # Nothing /\ plen > 0 /\ validated /\ sidecar.ver = expected)
  <2>1. Resumed = [q \in Pieces |-> 0]
    BY <1>2 DEF Resumed
  <2> QED BY <2>1 DEF Lengths
<1> QED BY <1>1, <1>2

(* The empty .part is one.                                                 *)
LEMMA NoPartType == NoPart \in [Units -> 0..MaxVersions] /\ 0 \in 0..Size
BY HttpAssumption DEF NoPart

(* The steps of a run outside the workers' rounds.                         *)
LEMMA RunKeepsQueue ==
    ASSUME QueueInv,
           \/ StartRun \/ ProbeOk \/ ProbeFails \/ ProbeSkipped \/ Fallback
           \/ SingleRespond \/ SingleWrite \/ SingleFinishes \/ SingleFails \/ SingleStops
           \/ SingleStale \/ MultiChanged \/ MultiEnds \/ DeleteMeta \/ Crash
    PROVE  QueueInv'
<1> USE HttpAssumption, NoPartType
<1>0. ServerTypes'
  BY DEF StartRun, ProbeOk, ProbeFails, ProbeSkipped, Fallback, SingleRespond, SingleWrite,
         SingleFinishes, SingleFails, SingleStops, SingleStale, MultiChanged, MultiEnds,
         DeleteMeta, Crash, QueueInv, Types, ServerTypes, serverVars
<1>1. part' \in [Units -> 0..MaxVersions] /\ plen' \in 0..Size
  <2>1. part \in [Units -> 0..MaxVersions] /\ plen \in 0..Size /\ expected \in 0..MaxVersions
    BY DEF QueueInv, Types, DiskTypes, RunTypes
  <2>2. CASE SingleWrite
    BY <2>1, <2>2 DEF SingleWrite, Units
  <2>3. CASE ~SingleWrite
    <3>1. part' \in {part, NoPart} /\ plen' \in {plen, 0}
      BY <2>3 DEF StartRun, ProbeOk, ProbeFails, ProbeSkipped, Fallback, SingleRespond,
           SingleFinishes, SingleFails, SingleStops, SingleStale, MultiChanged, MultiEnds,
           DeleteMeta, Crash, diskVars
    <3> QED BY <2>1, <3>1
  <2> QED BY <2>2, <2>3
<1>2. sidecar' # Nothing => IsMeta(sidecar)'
  <2>1. sidecar' = sidecar \/ sidecar' = Nothing \/ MultiEnds
    BY DEF StartRun, ProbeOk, ProbeFails, ProbeSkipped, Fallback, SingleRespond, SingleWrite,
         SingleFinishes, SingleFails, SingleStops, SingleStale, MultiChanged,
         DeleteMeta, Crash, diskVars
  <2>2. CASE sidecar' = sidecar
    BY <2>2 DEF QueueInv, Types, DiskTypes, IsMeta
  <2>3. CASE MultiEnds /\ sidecar' # sidecar
    <3>1. sidecar' = [ver |-> expected, done |-> done] /\ run = "pieces"
      BY <2>3 DEF MultiEnds, Meta, Joined
    <3>2. expected \in Versions /\ Lengths(done)
      BY <3>1 DEF QueueInv, Types, RunTypes, QueueTypes
    <3> QED BY <3>1, <3>2 DEF IsMeta, Lengths
  <2> QED BY <2>1, <2>2, <2>3
<1>3. AtRest'
  <2>1. CASE RunEnds
    BY <2>1, RunEndsAtRest
  <2>2. CASE MultiChanged
    BY <2>2, StartOverAtRest DEF MultiChanged, Joined, Fetching
  <2>3. CASE SingleStale
    <3>1. StartOver /\ run = "single"
      BY <2>3 DEF SingleStale
    <3>2. saving = Nothing /\ \A w \in Workers : wpc[w] \notin Fetching
      BY <3>1 DEF QueueInv, Rests, Fetching
    <3> QED BY <3>1, <3>2, StartOverAtRest
  <2>4. CASE ~RunEnds /\ ~MultiChanged /\ ~SingleStale
    <3>1. UNCHANGED <<queueVars, workerVars, saving>>
      BY <2>4 DEF StartRun, ProbeOk, ProbeFails, ProbeSkipped, Fallback, SingleRespond,
           SingleWrite, SingleFinishes, SingleFails, SingleStops, MultiEnds, DeleteMeta, Crash
    <3>2. run \notin {"pieces", "unlink"} /\ run' \in Runs \ {"pieces", "unlink"}
      BY <2>4 DEF StartRun, ProbeOk, ProbeFails, ProbeSkipped, Fallback, SingleRespond,
           SingleWrite, SingleFinishes, SingleFails, SingleStops, MultiEnds, DeleteMeta, Crash,
           RunAt, Runs, runVars
    <3>3. expected' \in 0..MaxVersions /\ (run' = "multi" => expected' \in Versions)
      <4>1. CASE ProbeOk
        BY <4>1 DEF ProbeOk, QueueInv, Types, ServerTypes, Versions
      <4>2. CASE ProbeSkipped
        BY <4>2 DEF ProbeSkipped, HasSidecar, QueueInv, Types, DiskTypes, IsMeta, Versions, RunAt
      <4>3. CASE SingleRespond
        BY <4>3, <2>4 DEF SingleRespond, QueueInv, Types, ServerTypes, Versions, RunAt
      <4>4. CASE ~ProbeOk /\ ~ProbeSkipped /\ ~SingleRespond
        <5>1. expected' \in {expected, 0} /\ run' # "multi"
          BY <4>4, <2>4 DEF StartRun, ProbeFails, Fallback, SingleWrite, SingleFinishes,
             SingleFails, SingleStops, MultiEnds, DeleteMeta, Crash, RunAt, runVars
        <5> QED BY <5>1 DEF QueueInv, Types, RunTypes
      <4> QED BY <4>1, <4>2, <4>3, <4>4
    <3> QED BY <3>1, <3>2, <3>3, QuietKeeps
  <2> QED BY <2>1, <2>2, <2>3, <2>4
<1> QED BY <1>0, <1>1, <1>2, <1>3, AtRestIsQueueInv

(* The start and the end of the workers' rounds, the saves, and the        *)
(* environment.                                                            *)
LEMMA RoundKeepsQueue ==
    ASSUME QueueInv, MultiStart \/ MultiFinishes
    PROVE  QueueInv'
<1> USE HttpAssumption, PiecesAreNumbers
<1>1. CASE MultiStart
  <2>1. ServerTypes' /\ RunTypes'
    BY <1>1 DEF MultiStart, RunAt, QueueInv, Types, ServerTypes, RunTypes, serverVars, Runs
  <2>2. DiskTypes'
    <3>1. sidecar' # Nothing => sidecar' = sidecar
      BY <1>1 DEF MultiStart
    <3> QED BY <1>1, <3>1 DEF MultiStart, QueueInv, Types, DiskTypes, IsMeta, Lengths
  <2>3. QueueTypes'
    BY <1>1, ResumedLengths DEF MultiStart, QueueTypes, Lengths
  <2>4. WorkerTypes'
    BY <1>1 DEF MultiStart, QueueInv, Types, WorkerTypes, Places
  <2>5. run = "multi" /\ \A w \in Workers : wpc[w] = "off" /\ wq[w] = 0 /\ wq'[w] = 0
    BY <1>1 DEF MultiStart, QueueInv, PiecesShared, Rests, Fetching
  <2>6. \A q \in Pieces : qstate'[q] \in {"done", "free"}
    BY <1>1 DEF MultiStart
  <2>7. \A w \in Workers : wpc'[w] = "look"
    BY <1>1 DEF MultiStart
  <2>8. PiecesShared' /\ Counting'
    BY <2>5, <2>6, <2>7 DEF PiecesShared, Counting, Fetching
  <2>9. Rests'
    BY <1>1 DEF MultiStart, RunAt, Rests
  <2> QED BY <2>1, <2>2, <2>3, <2>4, <2>8, <2>9 DEF QueueInv, Types
<1>2. CASE MultiFinishes
  <2>1. ServerTypes' /\ RunTypes'
    BY <1>2 DEF MultiFinishes, RunAt, QueueInv, Types, ServerTypes, RunTypes, serverVars, Runs
  <2>2. run = "pieces" /\ saving = Nothing /\ saving' = Nothing
    BY <1>2 DEF MultiFinishes, Joined
  <2>3. DiskTypes'
    <3>1. expected \in Versions /\ Lengths(done)
      BY <2>2 DEF QueueInv, Types, RunTypes, QueueTypes
    <3>2. sidecar' = sidecar \/ sidecar' = [ver |-> expected, done |-> done]
      BY <1>2 DEF MultiFinishes, SaveMeta, Meta
    <3>3. sidecar' # Nothing => IsMeta(sidecar)'
      BY <3>1, <3>2 DEF QueueInv, Types, DiskTypes, IsMeta, Lengths
    <3>4. part' \in [Units -> 0..MaxVersions] /\ plen' \in 0..Size
      BY <1>2, NoPartType DEF MultiFinishes
    <3> QED BY <3>3, <3>4, <2>2 DEF DiskTypes
  <2>4. QueueTypes' /\ WorkerTypes' /\ PiecesShared' /\ Counting'
    BY <1>2 DEF MultiFinishes, QueueInv, Types, QueueTypes, WorkerTypes, PiecesShared, Counting,
                queueVars, workerVars, Lengths
  <2>5. Rests'
    BY <1>2, <2>2 DEF MultiFinishes, Joined, RunAt, Rests, workerVars
  <2> QED BY <2>1, <2>3, <2>4, <2>5 DEF QueueInv, Types
<1> QED BY <1>1, <1>2

(* Saving the sidecar does not touch the queue.                            *)
LEMMA SaveKeepsQueue ==
    ASSUME QueueInv, SaveTick \/ SaveWrite \/ SaveWriteFails
    PROVE  QueueInv'
<1>1. UNCHANGED <<serverVars, part, plen, runVars, queueVars, workerVars>>
  BY DEF SaveTick, SaveWrite, SaveWriteFails, diskVars
<1>2. run = "pieces"
  BY DEF SaveTick, SaveWrite, SaveWriteFails, QueueInv, Rests
<1>3. DiskTypes'
  <2>1. expected \in Versions /\ Lengths(done)
    BY <1>2 DEF QueueInv, Types, RunTypes, QueueTypes
  <2>2. \A m : m = [ver |-> expected, done |-> done] => IsMeta(m)
    BY <2>1 DEF IsMeta, Lengths
  <2>3. CASE SaveTick
    <3>1. saving' = [ver |-> expected, done |-> done] /\ sidecar' = sidecar
      BY <2>3 DEF SaveTick, Meta, diskVars
    <3>2. IsMeta(saving')
      BY <3>1, <2>2
    <3> QED BY <1>1, <3>1, <3>2 DEF QueueInv, Types, DiskTypes, IsMeta, Lengths
  <2>4. CASE SaveWrite
    <3>1. sidecar' = saving /\ saving' = Nothing
      BY <2>4 DEF SaveWrite
    <3> QED BY <1>1, <3>1 DEF QueueInv, Types, DiskTypes, IsMeta, Lengths
  <2>5. CASE SaveWriteFails
    <3>1. sidecar' = sidecar /\ saving' = Nothing
      BY <2>5 DEF SaveWriteFails, diskVars
    <3> QED BY <1>1, <3>1 DEF QueueInv, Types, DiskTypes, IsMeta, Lengths
  <2> QED BY <2>3, <2>4, <2>5
<1>4. ServerTypes' /\ RunTypes' /\ QueueTypes' /\ WorkerTypes' /\ PiecesShared' /\ Counting'
  BY <1>1 DEF QueueInv, Types, ServerTypes, RunTypes, QueueTypes, WorkerTypes, PiecesShared,
              Counting, serverVars, runVars, queueVars, workerVars, Lengths
<1>5. Rests'
  BY <1>1, <1>2 DEF Rests, runVars
<1> QED BY <1>3, <1>4, <1>5 DEF QueueInv, Types

(* Nor do a cancellation and a new version on the server.                  *)
LEMMA OthersKeepQueue ==
    ASSUME QueueInv, Cancel \/ ServerChanges \/ UNCHANGED httpVars
    PROVE  QueueInv'
<1>1. UNCHANGED <<diskVars, runVars, queueVars, workerVars, saving>>
  BY DEF Cancel, ServerChanges, httpVars
<1>2. ServerTypes'
  BY HttpAssumption DEF Cancel, ServerChanges, httpVars, QueueInv, Types, ServerTypes, serverVars,
                        Versions
<1>3. DiskTypes'
  BY <1>1 DEF QueueInv, Types, DiskTypes, diskVars, IsMeta, Lengths
<1>4. /\ RunTypes' /\ QueueTypes' /\ WorkerTypes' /\ PiecesShared' /\ Counting' /\ Rests'
  BY <1>1 DEF QueueInv, Types, RunTypes, QueueTypes, WorkerTypes, PiecesShared,
              Counting, Rests, runVars, queueVars, workerVars, Lengths
<1> QED BY <1>2, <1>3, <1>4 DEF QueueInv, Types

(* Nothing runs at first.                                                  *)
LEMMA InitQueue == HttpInit => QueueInv
<1> SUFFICES ASSUME HttpInit PROVE QueueInv
  OBVIOUS
<1> USE HttpAssumption, PiecesAreNumbers, PieceLength, NoPartType DEF HttpInit
<1>1. ServerTypes /\ DiskTypes /\ RunTypes
  BY DEF ServerTypes, DiskTypes, RunTypes, Runs, Versions
<1>2. QueueTypes /\ WorkerTypes
  BY DEF QueueTypes, WorkerTypes, Lengths, Places
<1>3. PiecesShared /\ Rests /\ Counting
  BY DEF PiecesShared, Rests, Counting, Fetching
<1> QED BY <1>1, <1>2, <1>3 DEF QueueInv, Types

(* Every step keeps the queue in order.                                    *)
LEMMA NextKeepsQueue == QueueInv /\ [HttpNext]_httpVars => QueueInv'
BY WorkersKeepQueue, RunKeepsQueue, RoundKeepsQueue, SaveKeepsQueue, OthersKeepQueue,
   MultiEndsEither
   DEF HttpNext, RunStep

(* The queue is always in order.                                           *)
LEMMA QueueInvAlways == HttpSpec => []QueueInv
BY InitQueue, NextKeepsQueue, PTL DEF HttpSpec

(* Then a piece has one worker.                                            *)
LEMMA QueueInvGivesOneWorker == QueueInv => PieceHasOneWorker
<1> SUFFICES ASSUME QueueInv PROVE PieceHasOneWorker
  OBVIOUS
<1>1. HttpTypeOK
  <2>1. done \in [Pieces -> 0..PieceLen]
    BY PieceLength, HttpAssumption DEF QueueInv, Types, QueueTypes, Lengths
  <2>2. sidecar # Nothing => sidecar \in [ver : Versions, done : [Pieces -> 0..PieceLen]]
    <3> SUFFICES ASSUME sidecar # Nothing
                 PROVE  sidecar \in [ver : Versions, done : [Pieces -> 0..PieceLen]]
      OBVIOUS
    <3>1. /\ sidecar \in [ver : Versions, done : [Pieces -> Nat]]
          /\ \A q \in Pieces : sidecar.done[q] <= LenOf(q)
      BY DEF QueueInv, Types, DiskTypes, IsMeta, Lengths
    <3>2. sidecar.done \in [Pieces -> 0..PieceLen]
      BY <3>1, PieceLength, HttpAssumption
    <3> QED BY <3>1, <3>2
  <2> QED BY <2>1, <2>2 DEF HttpTypeOK, QueueInv, Types, DiskTypes, QueueTypes, WorkerTypes
<1>2. ASSUME NEW q \in Pieces
      PROVE  Cardinality({w \in Workers : wq[w] = q}) = IF qstate[q] = "inflight" THEN 1 ELSE 0
  <2>1. CASE qstate[q] = "inflight"
    <3>1. PICK w \in Workers : wq[w] = q
      BY <2>1 DEF QueueInv, PiecesShared
    <3>2. {v \in Workers : wq[v] = q} = {w}
      BY <3>1, PiecesAreNumbers DEF QueueInv, PiecesShared, Pieces
    <3> QED BY <2>1, <3>2, FS_Singleton
  <2>2. CASE qstate[q] # "inflight"
    <3>1. {v \in Workers : wq[v] = q} = {}
      BY <2>2, PiecesAreNumbers DEF QueueInv, PiecesShared, Pieces
    <3> QED BY <2>2, <3>1, FS_EmptySet
  <2> QED BY <2>1, <2>2
<1> QED BY <1>1, <1>2 DEF PieceHasOneWorker

(* However many workers share the queue, whatever fails, is cancelled or   *)
(* dies, and whatever a sidecar resumes: a piece that claim_next marked in *)
(* flight is one worker's, and complete or release settles it.             *)
THEOREM OneWorkerHolds == HttpSpec => []PieceHasOneWorker
BY QueueInvAlways, QueueInvGivesOneWorker, PTL

-----------------------------------------------------------------------------
(* FileInv is kept, if the process does not die between the rename of a    *)
(* finished file and the removal of its sidecar.                           *)

(* Outside the workers' rounds only the disk matters.                      *)
LEMMA RestingFile ==
    ASSUME QueueInv', run' \notin {"pieces", "unlink"}
    PROVE  /\ SidecarBehind' /\ CountersTrue' /\ WritesCurrent' /\ DoneIsWhole' /\ FreeIsSeen'
           /\ saving' = Nothing
BY DEF QueueInv, Rests, SidecarBehind, CountersTrue, WritesCurrent, DoneIsWhole, FreeIsSeen

(* A step that changes no file, counter or version.                        *)
LEMMA SameFile ==
    ASSUME FileInv,
           UNCHANGED <<validated, part, plen, sidecar, final, run, expected, by, done, saving>>
    PROVE  /\ FileLength' /\ Unnamed' /\ SidecarTrue' /\ SidecarBehind' /\ SidecarEmpty'
           /\ CountersTrue' /\ PiecesMakeWhole'
<1> USE DEF FileInv
<1>1. FileLength' /\ Unnamed' /\ SidecarEmpty' /\ PiecesMakeWhole'
  BY DEF FileLength, Unnamed, SidecarEmpty, PiecesMakeWhole
<1>2. SidecarTrue' /\ SidecarBehind' /\ CountersTrue'
  BY DEF SidecarTrue, SidecarBehind, Behind, CountersTrue, Holds, Current
<1> QED BY <1>1, <1>2

(* A sidecar beside an empty file tells of nothing.                        *)
LEMMA EmptyFile ==
    ASSUME QueueInv, FileInv, plen = 0, sidecar # Nothing, run # "unlink", NEW q \in Pieces
    PROVE  sidecar.done[q] = 0
<1> SUFFICES ASSUME sidecar.done[q] # 0 PROVE FALSE
  OBVIOUS
<1>1. sidecar.done[q] \in Nat /\ sidecar.done[q] <= LenOf(q) /\ sidecar.ver \in Versions
  BY DEF QueueInv, Types, DiskTypes, IsMeta, Lengths
<1>2. 1 \in 1..sidecar.done[q] /\ 1 \in 1..LenOf(q)
  BY <1>1, PieceLength, HttpAssumption
<1>3. part[Unit(q, 1)] = sidecar.ver
  BY <1>2 DEF FileInv, SidecarTrue, Holds
<1>4. Unit(q, 1) \in Units
  BY <1>2, UnitInFile
<1> QED BY <1>1, <1>3, <1>4, HttpAssumption DEF FileInv, FileLength, Versions, Units

(* The steps of a run without its workers.                                 *)
LEMMA RunKeepsFile ==
    ASSUME QueueInv, FileInv, ~Orphans, QueueInv',
           \/ StartRun \/ ProbeOk \/ ProbeFails \/ ProbeSkipped \/ Fallback
           \/ SingleRespond \/ SingleWrite \/ SingleFinishes \/ SingleFails \/ SingleStops
           \/ SingleStale \/ MultiChanged \/ MultiEnds \/ DeleteMeta \/ Crash
    PROVE  FileInv'
<1> USE HttpAssumption
<1>1. run' \notin {"pieces", "unlink"} /\ validated' = validated
  BY DEF StartRun, ProbeOk, ProbeFails, ProbeSkipped, Fallback, SingleRespond, SingleWrite,
         SingleFinishes, SingleFails, SingleStops, SingleStale, MultiChanged, MultiEnds,
         DeleteMeta, Crash, RunEnds, StartOver, RunAt, runVars, serverVars
<1>2. FileLength'
  <2>1. CASE SingleWrite
    BY <2>1 DEF SingleWrite, FileInv, FileLength, QueueInv, Types, DiskTypes, Units
  <2>2. CASE ~SingleWrite
    <3>1. part' = NoPart \/ (part' = part /\ plen' = plen)
      BY <2>2 DEF StartRun, ProbeOk, ProbeFails, ProbeSkipped, Fallback, SingleRespond,
           SingleFinishes, SingleFails, SingleStops, SingleStale, MultiChanged, MultiEnds,
           DeleteMeta, Crash, diskVars
    <3> QED BY <3>1 DEF FileInv, FileLength, NoPart
  <2> QED BY <2>1, <2>2
<1>3. Unnamed'
  <2>1. sidecar' = sidecar \/ sidecar' = Nothing \/ sidecar' = Meta
    BY DEF StartRun, ProbeOk, ProbeFails, ProbeSkipped, Fallback, SingleRespond, SingleWrite,
         SingleFinishes, SingleFails, SingleStops, SingleStale, MultiChanged, MultiEnds,
         DeleteMeta, Crash, diskVars
  <2>2. saving' = Nothing
    BY <1>1, RestingFile
  <2> QED BY <2>1, <2>2, <1>1 DEF FileInv, Unnamed, Meta
<1>4. SidecarTrue'
  <2>1. CASE MultiEnds
    <3>1. run = "pieces" /\ part' = part /\ sidecar' \in {sidecar, Meta}
      BY <2>1 DEF MultiEnds, Joined
    <3>4. CASE sidecar' = sidecar
      BY <3>1, <3>4 DEF FileInv, SidecarTrue, Holds
    <3>2. CASE validated /\ sidecar' # sidecar
      <4>1. sidecar' = [ver |-> expected, done |-> done]
        BY <3>1, <3>2 DEF Meta
      <4> QED BY <3>1, <3>2, <4>1 DEF FileInv, CountersTrue, SidecarTrue, Holds, Current
    <3>3. CASE ~validated
      BY <3>1, <3>3 DEF FileInv, Unnamed, SidecarTrue, Meta
    <3> QED BY <3>2, <3>3, <3>4
  <2>2. CASE run \in {"single", "streaming"}
    <3>1. sidecar' = sidecar \/ sidecar' = Nothing \/ MultiEnds
      BY DEF StartRun, ProbeOk, ProbeFails, ProbeSkipped, Fallback, SingleRespond, SingleWrite,
           SingleFinishes, SingleFails, SingleStops, SingleStale, MultiChanged,
           DeleteMeta, Crash, diskVars
    <3> QED BY <2>1, <2>2, <3>1 DEF FileInv, SidecarEmpty, SidecarTrue, Holds
  <2>3. CASE ~MultiEnds /\ run \notin {"single", "streaming"}
    <3>1. sidecar' = Nothing \/ (sidecar' = sidecar /\ part' = part /\ run # "unlink")
      BY <2>3 DEF StartRun, ProbeOk, ProbeFails, ProbeSkipped, Fallback, SingleRespond,
           SingleWrite, SingleFinishes, SingleFails, SingleStops, SingleStale, MultiChanged,
           DeleteMeta, Crash, diskVars
    <3> QED BY <3>1 DEF FileInv, SidecarTrue, Holds
  <2> QED BY <2>1, <2>2, <2>3
<1>5. SidecarEmpty'
  <2>1. CASE Fallback
    BY <2>1, EmptyFile DEF Fallback, HasSidecar, SidecarEmpty, QueueInv, Types, DiskTypes
  <2>2. CASE ~Fallback /\ run' \in {"single", "streaming"}
    <3>1. run \in {"single", "streaming"} /\ sidecar' = sidecar
      BY <2>2 DEF StartRun, ProbeOk, ProbeFails, ProbeSkipped, SingleRespond, SingleWrite,
         SingleFinishes, SingleFails, SingleStops, SingleStale, MultiChanged, MultiEnds,
         DeleteMeta, Crash, RunEnds, StartOver, RunAt, runVars, diskVars
    <3> QED BY <3>1 DEF FileInv, SidecarEmpty
  <2> QED BY <2>1, <2>2 DEF SidecarEmpty
<1>6. PiecesMakeWhole'
  <2>1. (final' = final /\ by' = by) \/ final' = Nothing \/ by' = "single"
    BY DEF StartRun, ProbeOk, ProbeFails, ProbeSkipped, Fallback, SingleRespond, SingleWrite,
         SingleFinishes, SingleFails, SingleStops, SingleStale, MultiChanged, MultiEnds,
         DeleteMeta, Crash, diskVars, runVars
  <2> QED BY <2>1, <1>1 DEF FileInv, PiecesMakeWhole
<1> QED BY <1>1, <1>2, <1>3, <1>4, <1>5, <1>6, RestingFile DEF FileInv

(* The workers start with what load_piece_meta resumes: all that the       *)
(* sidecar tells, for the file holds it.                                   *)
LEMMA MultiStartKeepsFile ==
    ASSUME QueueInv, FileInv, QueueInv', MultiStart
    PROVE  FileInv'
<1> USE HttpAssumption, PieceStart, PieceLength
<1>1. /\ run = "multi" /\ run' = "pieces" /\ part' = part /\ plen' \in {plen, Size}
      /\ done' = Resumed /\ expected' = expected /\ validated' = validated
      /\ final' = final /\ by' = by /\ saving' = saving /\ saving = Nothing
      /\ \A w \in Workers : wpc'[w] = "look" /\ left'[w] = Pieces
      /\ \A q \in Pieces : qstate'[q] = IF Resumed[q] = LenOf(q) THEN "done" ELSE "free"
  BY DEF MultiStart, RunAt, serverVars, QueueInv, Rests
<1>2. sidecar' # Nothing => sidecar' = sidecar /\ plen # 0 /\ sidecar.ver = expected
  BY DEF MultiStart
<1>3. plen \in 0..Size
  BY DEF QueueInv, Types, DiskTypes
<1>4. ASSUME sidecar # Nothing, NEW q \in Pieces
      PROVE  /\ sidecar.done[q] \in Nat
             /\ sidecar.done[q] <= (IF plen > Unit(q, 0) THEN plen - Unit(q, 0) ELSE 0)
  <2> DEFINE k == sidecar.done[q]
  <2>1. k \in Nat /\ k <= LenOf(q) /\ sidecar.ver \in Versions
    BY <1>4 DEF QueueInv, Types, DiskTypes, IsMeta, Lengths
  <2>2. CASE k = 0
    BY <2>2, <1>3
  <2>3. CASE k # 0
    <3>1. k \in 1..k /\ k \in 1..LenOf(q)
      BY <2>1, <2>3
    <3>2. part[Unit(q, k)] = sidecar.ver /\ sidecar.ver # 0
      BY <3>1, <2>1, <1>1, <1>4 DEF FileInv, SidecarTrue, Holds, Versions
    <3>3. Unit(q, k) <= plen
      BY <3>1, <3>2, UnitInFile DEF FileInv, FileLength
    <3>4. Unit(q, k) = Unit(q, 0) + k /\ Unit(q, 0) \in Nat
      BY <2>1, UnitFromStart
    <3> HIDE DEF k
    <3>5. plen > Unit(q, 0) /\ k <= plen - Unit(q, 0)
      BY <3>3, <3>4, <2>1, <2>3, <1>3
    <3> QED BY <3>5, <2>1 DEF k
  <2> QED BY <2>2, <2>3
<1>5. ASSUME sidecar # Nothing, plen # 0, sidecar.ver = expected, NEW q \in Pieces
      PROVE  Resumed[q] = sidecar.done[q]
  <2>1. validated
    BY <1>5 DEF FileInv, Unnamed
  <2>2. Resumed[q] = Least(sidecar.done[q], IF plen > Unit(q, 0) THEN plen - Unit(q, 0) ELSE 0)
    BY <1>5, <2>1, <1>3 DEF Resumed
  <2> DEFINE x == IF plen > Unit(q, 0) THEN plen - Unit(q, 0) ELSE 0
  <2>3. x \in Nat /\ sidecar.done[q] \in Nat /\ sidecar.done[q] <= x
    BY <1>3, <1>4, <1>5
  <2> HIDE DEF x
  <2> QED BY <2>2, <2>3 DEF Least, x
<1>6. FileLength' /\ Unnamed' /\ SidecarEmpty' /\ PiecesMakeWhole'
  <2>1. FileLength'
    BY <1>1, <1>3 DEF FileInv, FileLength, Units
  <2> QED BY <2>1, <1>1, <1>2 DEF FileInv, Unnamed, SidecarEmpty, PiecesMakeWhole
<1>7. SidecarTrue'
  BY <1>1, <1>2 DEF FileInv, SidecarTrue, Holds
<1>8. SidecarBehind'
  <2>1. sidecar' # Nothing => \A q \in Pieces : sidecar'.done[q] = done'[q] /\ done'[q] \in Nat
    BY <1>1, <1>2, <1>4, <1>5
  <2> QED BY <1>1, <1>2, <2>1 DEF SidecarBehind, Behind
<1>9. CountersTrue'
  <2> SUFFICES ASSUME NEW q \in Pieces, NEW k \in 1..Resumed[q] PROVE part[Unit(q, k)] \in Current
    BY <1>1 DEF CountersTrue, Holds, Current
  <2>1. CASE sidecar # Nothing /\ plen > 0 /\ validated /\ sidecar.ver = expected
    <3>1. k \in 1..sidecar.done[q]
      BY <2>1, <1>5, <1>3
    <3> QED BY <3>1, <2>1, <1>1 DEF FileInv, SidecarTrue, Holds, Current
  <2>2. CASE ~(sidecar # Nothing /\ plen > 0 /\ validated /\ sidecar.ver = expected)
    BY <2>2 DEF Resumed
  <2> QED BY <2>1, <2>2
<1>10. WritesCurrent' /\ DoneIsWhole' /\ FreeIsSeen'
  BY <1>1 DEF WritesCurrent, DoneIsWhole, FreeIsSeen
<1> QED BY <1>6, <1>7, <1>8, <1>9, <1>10 DEF FileInv

(* When all workers are gone and none failed, every piece is done.         *)
LEMMA JoinedIsFinished ==
    ASSUME QueueInv, FileInv, Joined, errors = {} \/ Finished
    PROVE  Finished
<1> SUFFICES ASSUME errors = {}, NEW q \in Pieces PROVE qstate[q] = "done"
  BY DEF Finished
<1>1. run = "pieces" /\ \A w \in Workers : wpc[w] = "ended"
  BY DEF Joined
<1>2. qstate[q] # "free"
  BY <1>1 DEF FileInv, FreeIsSeen, Fetching
<1>3. qstate[q] # "inflight"
  BY <1>1, PiecesAreNumbers DEF QueueInv, PiecesShared, Fetching, Pieces
<1> QED BY <1>2, <1>3 DEF QueueInv, Types, QueueTypes

(* The rename of a .part that is whole.                                    *)
LEMMA MultiFinishesKeepsFile ==
    ASSUME QueueInv, FileInv, QueueInv', MultiFinishes
    PROVE  FileInv'
<1>1. /\ run = "pieces" /\ run' = "unlink" /\ part' = NoPart /\ final' = part
      /\ validated' = validated
      /\ Joined /\ Finished /\ UNCHANGED <<queueVars, workerVars>> /\ saving' = saving
      /\ \A w \in Workers : wpc'[w] = "ended"
  BY JoinedIsFinished DEF MultiFinishes, Unfinished, RunAt, Joined, serverVars, workerVars
<1>2. FileLength' /\ SidecarTrue' /\ SidecarBehind' /\ SidecarEmpty' /\ CountersTrue'
      /\ WritesCurrent' /\ FreeIsSeen'
  BY <1>1 DEF FileLength, NoPart, SidecarTrue, SidecarBehind, SidecarEmpty, CountersTrue,
              WritesCurrent, FreeIsSeen
<1>3. DoneIsWhole'
  BY <1>1 DEF FileInv, DoneIsWhole, queueVars
<1>4. Unnamed'
  BY <1>1 DEF FileInv, Unnamed, MultiFinishes, SaveMeta, Meta
<1>5. PiecesMakeWhole'
  <2>1. ASSUME NEW u \in Units PROVE part[u] \in Current
    <3>1. PICK q \in Pieces : \E k \in 1..LenOf(q) : u = Unit(q, k)
      BY UnitHasPiece
    <3>2. PICK k \in 1..LenOf(q) : u = Unit(q, k)
      BY <3>1
    <3>3. done[q] = LenOf(q)
      BY <1>1 DEF FileInv, DoneIsWhole, Finished
    <3> QED BY <1>1, <3>2, <3>3 DEF FileInv, CountersTrue, Holds
  <2>2. expected \in Versions
    BY <1>1 DEF QueueInv, Types, RunTypes
  <2> QED BY <1>1, <2>1, <2>2, HttpAssumption DEF PiecesMakeWhole, Current, Versions
<1> QED BY <1>2, <1>3, <1>4, <1>5 DEF FileInv

(* The sidecar counts no more than the workers do.                         *)
LEMMA SaveKeepsFile ==
    ASSUME QueueInv, FileInv, SaveTick \/ SaveWrite \/ SaveWriteFails
    PROVE  FileInv'
<1>1. /\ UNCHANGED <<serverVars, part, plen, final, runVars, queueVars, workerVars>>
      /\ run = "pieces" /\ validated
  BY DEF SaveTick, SaveWrite, SaveWriteFails, diskVars, QueueInv, Rests, FileInv, Unnamed
<1>2. FileLength' /\ Unnamed' /\ SidecarEmpty' /\ PiecesMakeWhole'
  BY <1>1 DEF FileInv, FileLength, Unnamed, SidecarEmpty, PiecesMakeWhole, serverVars, runVars
<1>3. CountersTrue' /\ WritesCurrent' /\ DoneIsWhole' /\ FreeIsSeen'
  BY <1>1 DEF FileInv, CountersTrue, Holds, Current, WritesCurrent, DoneIsWhole, FreeIsSeen,
              serverVars, runVars, queueVars, workerVars
<1>4. CASE SaveTick
  <2>1. saving' = [ver |-> expected, done |-> done] /\ sidecar' = sidecar
    BY <1>4 DEF SaveTick, Meta, diskVars
  <2>2. SidecarTrue'
    BY <1>1, <2>1 DEF FileInv, SidecarTrue, Holds, runVars
  <2>3. \A q \in Pieces : done[q] \in Nat
    BY DEF QueueInv, Types, QueueTypes, Lengths
  <2>4. SidecarBehind'
    BY <1>1, <2>1, <2>3 DEF FileInv, SidecarBehind, Behind, runVars, queueVars
  <2> QED BY <1>2, <1>3, <2>2, <2>4 DEF FileInv
<1>5. CASE SaveWrite
  <2>1. sidecar' = saving /\ saving' = Nothing /\ saving # Nothing
    BY <1>5 DEF SaveWrite
  <2>2. saving.ver = expected /\ \A q \in Pieces : saving.done[q] <= done[q]
    BY <1>1, <2>1 DEF FileInv, SidecarBehind, Behind
  <2>3. \A q \in Pieces : saving.done[q] \in Nat /\ done[q] \in Nat
    BY <2>1 DEF QueueInv, Types, QueueTypes, DiskTypes, IsMeta, Lengths
  <2>4. \A q \in Pieces : \A k \in 1..saving.done[q] : k \in 1..done[q]
    BY <2>2, <2>3
  <2>5. SidecarTrue'
    BY <1>1, <2>1, <2>2, <2>4 DEF FileInv, SidecarTrue, Holds, CountersTrue, Current
  <2>6. SidecarBehind'
    BY <1>1, <2>1, <2>2 DEF SidecarBehind, Behind, runVars, queueVars
  <2> QED BY <1>2, <1>3, <2>5, <2>6 DEF FileInv
<1>6. CASE SaveWriteFails
  <2>1. sidecar' = sidecar /\ saving' = Nothing
    BY <1>6 DEF SaveWriteFails, diskVars
  <2>2. SidecarTrue' /\ SidecarBehind'
    BY <1>1, <2>1 DEF FileInv, SidecarTrue, Holds, SidecarBehind, Behind, runVars, queueVars
  <2> QED BY <1>2, <1>3, <2>2 DEF FileInv
<1> QED BY <1>4, <1>5, <1>6

(* A cancellation and a new version on the server leave the file alone.    *)
LEMMA OthersKeepFile ==
    ASSUME FileInv, Cancel \/ ServerChanges \/ UNCHANGED httpVars
    PROVE  FileInv'
<1>1. UNCHANGED <<validated, diskVars, runVars, queueVars, workerVars, saving>>
  BY DEF Cancel, ServerChanges, httpVars, serverVars
<1>2. WritesCurrent' /\ DoneIsWhole' /\ FreeIsSeen'
  BY <1>1 DEF FileInv, WritesCurrent, Current, DoneIsWhole, FreeIsSeen, diskVars, runVars,
              queueVars, workerVars
<1> QED BY <1>1, <1>2, SameFile DEF FileInv, diskVars, runVars, queueVars

(* The steps of the workers.                                               *)
LEMMA WriteKeepsFile ==
    ASSUME QueueInv, FileInv, NEW w \in Workers, WriteUnit(w)
    PROVE  FileInv'
<1> DEFINE q == wq[w]  u == Unit(q, done[q] + 1)
<1> USE HttpAssumption
<1>1. run = "pieces" /\ q \in Pieces
  BY WorkerRuns, PiecesAreNumbers
     DEF WriteUnit, QueueInv, Types, WorkerTypes, PiecesShared, Fetching, Pieces
<1>2. done[q] \in Nat /\ done[q] + 1 \in 1..LenOf(q)
  BY <1>1, PieceLength DEF WriteUnit, QueueInv, Types, QueueTypes, Lengths
<1>3. u \in Units /\ wver[w] \in Current
  BY <1>1, <1>2, UnitInFile DEF WriteUnit, FileInv, WritesCurrent
<1>4. /\ part' = [part EXCEPT ![u] = wver[w]] /\ plen' = IF u > plen THEN u ELSE plen
      /\ wpc' = [wpc EXCEPT ![w] = "count"]
      /\ UNCHANGED <<validated, sidecar, final, runVars, queueVars, wq, wver, left, errors, saving>>
  BY DEF WriteUnit, serverVars
<1> HIDE DEF u
<1>5. part \in [Units -> 0..MaxVersions] /\ plen \in 0..Size
  BY DEF QueueInv, Types, DiskTypes
<1>6. ASSUME NEW r \in Pieces, NEW k \in 1..LenOf(r), r # q \/ k # done[q] + 1
      PROVE  part'[Unit(r, k)] = part[Unit(r, k)]
  <2>1. Unit(r, k) # u /\ Unit(r, k) \in Units
    BY <1>1, <1>2, <1>6, UnitOfOnePiece, UnitInFile DEF u
  <2> QED BY <2>1, <1>4, <1>5
<1>7. ASSUME NEW r \in Pieces, NEW k \in 1..done[r]
      PROVE  part'[Unit(r, k)] = part[Unit(r, k)]
  <2>1. k \in 1..LenOf(r) /\ (r = q => k # done[q] + 1)
    BY PieceLength DEF QueueInv, Types, QueueTypes, Lengths
  <2> QED BY <2>1, <1>6
<1>8. FileLength'
  BY <1>3, <1>4, <1>5 DEF FileInv, FileLength, Units
<1>9. Unnamed' /\ SidecarBehind' /\ SidecarEmpty' /\ PiecesMakeWhole' /\ DoneIsWhole'
  BY <1>4 DEF FileInv, Unnamed, SidecarBehind, Behind, SidecarEmpty, PiecesMakeWhole, DoneIsWhole,
              runVars, queueVars
<1>10. CountersTrue'
  BY <1>4, <1>7 DEF FileInv, CountersTrue, Holds, Current, runVars, queueVars
<1>11. SidecarTrue'
  <2> SUFFICES ASSUME sidecar # Nothing, NEW r \in Pieces, NEW k \in 1..sidecar.done[r]
               PROVE  part'[Unit(r, k)] = sidecar.ver
    BY <1>4 DEF SidecarTrue, Holds
  <2>1. sidecar.done[r] \in Nat /\ done[r] \in Nat /\ sidecar.done[r] <= done[r]
    BY <1>1 DEF QueueInv, Types, QueueTypes, DiskTypes, IsMeta, Lengths, FileInv, SidecarBehind,
                Behind
  <2>2. k \in 1..done[r]
    BY <2>1
  <2> QED BY <1>1, <1>7, <2>2 DEF FileInv, SidecarTrue, Holds
<1>12. WritesCurrent'
  <2> SUFFICES ASSUME NEW v \in Workers PROVE WritesCurrent!(v)'
    BY DEF WritesCurrent
  <2>1. CASE v = w
    <3>1. wpc'[v] = "count" /\ wq' = wq /\ done' = done /\ wver' = wver /\ Current' = Current
      BY <1>4, <2>1 DEF Current, runVars, queueVars, QueueInv, Types, WorkerTypes
    <3>2. part'[u] = wver[w]
      BY <1>3, <1>4, <1>5
    <3>3. done[q] < LenOf(q)
      BY <1>1, <1>2, PieceLength
    <3> QED BY <2>1, <3>1, <3>2, <3>3, <1>3 DEF u
  <2>2. CASE v # w
    <3>1. /\ wpc'[v] = wpc[v] /\ wq' = wq /\ done' = done /\ wver' = wver /\ Current' = Current
      BY <1>4, <2>2 DEF Current, runVars, queueVars, QueueInv, Types, WorkerTypes
    <3>2. CASE wpc[v] = "count"
      <4>1. wq[v] \in Pieces /\ wq[v] # q
        BY <1>1, <2>2, <3>2, PiecesAreNumbers
           DEF QueueInv, Types, WorkerTypes, PiecesShared, Fetching, Pieces
      <4>2. done[wq[v]] + 1 \in 1..LenOf(wq[v])
        BY <3>2, <4>1, PieceLength DEF QueueInv, Types, QueueTypes, Lengths, Counting
      <4>3. part'[Unit(wq[v], done[wq[v]] + 1)] = part[Unit(wq[v], done[wq[v]] + 1)]
        BY <4>1, <4>2, <1>6
      <4> QED BY <3>1, <3>2, <4>3 DEF FileInv, WritesCurrent
    <3>3. CASE wpc[v] # "count"
      BY <3>1, <3>3 DEF FileInv, WritesCurrent
    <3> QED BY <3>2, <3>3
  <2> QED BY <2>1, <2>2
<1>13. FreeIsSeen'
  BY <1>4 DEF FileInv, FreeIsSeen, Fetching, runVars, queueVars, QueueInv, Types, WorkerTypes
<1> QED BY <1>8, <1>9, <1>10, <1>11, <1>12, <1>13 DEF FileInv

(* Bytes that are written and then counted.                                *)
LEMMA CountKeepsFile ==
    ASSUME QueueInv, FileInv, NEW w \in Workers, CountUnit(w)
    PROVE  FileInv'
<1> DEFINE q == wq[w]
<1>1. run = "pieces" /\ q \in Pieces
  BY WorkerRuns, PiecesAreNumbers
     DEF CountUnit, QueueInv, Types, WorkerTypes, PiecesShared, Fetching, Pieces
<1>2. /\ done' = [done EXCEPT ![q] = @ + 1] /\ wpc' = [wpc EXCEPT ![w] = "stream"]
      /\ UNCHANGED <<validated, diskVars, runVars, qstate, wq, wver, left, errors, saving>>
  BY DEF CountUnit, serverVars
<1>3. \A r \in Pieces : done[r] \in Nat /\ done'[r] = IF r = q THEN done[q] + 1 ELSE done[r]
  BY <1>1, <1>2 DEF QueueInv, Types, QueueTypes, Lengths
<1>4. Current' = Current
  BY <1>2 DEF Current, runVars
<1>5. FileLength' /\ Unnamed' /\ SidecarTrue' /\ SidecarEmpty' /\ PiecesMakeWhole'
  BY <1>2 DEF FileInv, FileLength, Unnamed, SidecarTrue, Holds, SidecarEmpty, PiecesMakeWhole,
              diskVars, runVars
<1>6. SidecarBehind'
  <2>1. ASSUME NEW m, Behind(m), m # Nothing, IsMeta(m)
        PROVE  m.ver = expected' /\ \A r \in Pieces : m.done[r] <= done'[r]
    BY <2>1, <1>2, <1>3 DEF Behind, runVars, IsMeta, Lengths
  <2> QED BY <1>1, <1>2, <2>1
          DEF FileInv, SidecarBehind, Behind, QueueInv, Types, DiskTypes, diskVars
<1>7. CountersTrue'
  <2> SUFFICES ASSUME NEW r \in Pieces, NEW k \in 1..done'[r] PROVE part[Unit(r, k)] \in Current
    BY <1>2, <1>4 DEF CountersTrue, Holds, diskVars
  <2>1. CASE k \in 1..done[r]
    BY <1>1, <2>1 DEF FileInv, CountersTrue, Holds
  <2>2. CASE k \notin 1..done[r]
    <3>1. r = q /\ k = done[q] + 1
      BY <1>3, <2>2
    <3> QED BY <3>1 DEF FileInv, WritesCurrent, CountUnit
  <2> QED BY <2>1, <2>2
<1>8. WritesCurrent'
  <2> SUFFICES ASSUME NEW v \in Workers PROVE WritesCurrent!(v)'
    BY DEF WritesCurrent
  <2>1. CASE v = w
    <3>1. wpc'[v] = "stream" /\ wver[v] \in Current /\ wver' = wver
      BY <1>2, <2>1 DEF FileInv, WritesCurrent, CountUnit, QueueInv, Types, WorkerTypes
    <3> QED BY <3>1, <1>4
  <2>2. CASE v # w /\ wpc[v] \in Fetching
    <3>1. wpc'[v] = wpc[v] /\ wq' = wq /\ wver' = wver /\ part' = part
      BY <1>2, <2>2 DEF QueueInv, Types, WorkerTypes, diskVars
    <3>2. wq[v] \in Pieces /\ wq[v] # q
      BY <1>1, <2>2, PiecesAreNumbers
         DEF QueueInv, Types, WorkerTypes, PiecesShared, Pieces
    <3>3. done'[wq[v]] = done[wq[v]]
      BY <1>3, <3>2
    <3> QED BY <1>4, <3>1, <3>3 DEF FileInv, WritesCurrent
  <2>3. CASE v # w /\ wpc[v] \notin Fetching
    BY <1>2, <2>3 DEF Fetching, QueueInv, Types, WorkerTypes
  <2> QED BY <2>1, <2>2, <2>3
<1>9. DoneIsWhole'
  <2>1. qstate[q] = "inflight"
    BY <1>1, PiecesAreNumbers DEF QueueInv, PiecesShared, Pieces
  <2> QED BY <1>2, <1>3, <2>1 DEF FileInv, DoneIsWhole
<1>10. FreeIsSeen'
  BY <1>2 DEF FileInv, FreeIsSeen, Fetching, runVars, CountUnit, QueueInv, Types, WorkerTypes
<1> QED BY <1>5, <1>6, <1>7, <1>8, <1>9, <1>10 DEF FileInv

(* A step of a worker at the queue.                                        *)
LEMMA QueueStepKeepsFile ==
    ASSUME QueueInv, FileInv, NEW w \in Workers,
           \/ \E q \in Pieces : LookAt(w, q)
           \/ NoneFree(w) \/ WaitForChange(w) \/ StopIdle(w)
    PROVE  FileInv'
<1>1. UNCHANGED <<serverVars, diskVars, runVars, done, wver, saving>> /\ run = "pieces"
  BY WorkerRuns DEF LookAt, NoneFree, WaitForChange, StopIdle, queueVars
<1>2. /\ FileLength' /\ Unnamed' /\ SidecarTrue' /\ SidecarBehind' /\ SidecarEmpty'
      /\ CountersTrue' /\ PiecesMakeWhole'
  BY <1>1, SameFile DEF serverVars, diskVars, runVars
<1>3. /\ \A v \in Workers \ {w} : wpc'[v] = wpc[v] /\ wq'[v] = wq[v] /\ left'[v] = left[v]
      /\ \A q \in Pieces : qstate'[q] \in {"free", "done"} => qstate'[q] = qstate[q]
      /\ wpc'[w] # "count" /\ (wpc'[w] = "stream" => done[wq'[w]] >= LenOf(wq'[w]))
  <2>1. ASSUME NEW q \in Pieces, LookAt(w, q) PROVE <1>3!:
    <3>1. done[q] \in Nat /\ LenOf(q) \in Nat
      BY PieceLength, HttpAssumption DEF QueueInv, Types, QueueTypes, Lengths
    <3>2. CASE qstate[q] = "free"
      BY <2>1, <3>1, <3>2 DEF LookAt, QueueInv, Types, QueueTypes, WorkerTypes
    <3>3. CASE qstate[q] # "free"
      BY <2>1, <3>3 DEF LookAt, QueueInv, Types, QueueTypes, WorkerTypes
    <3> QED BY <3>2, <3>3
  <2>2. ASSUME NoneFree(w) \/ WaitForChange(w) \/ StopIdle(w) PROVE <1>3!:
    BY <2>2 DEF NoneFree, WaitForChange, StopIdle, WorkerEnds, LooksAgain, queueVars,
                QueueInv, Types, WorkerTypes
  <2> QED BY <2>1, <2>2
<1>4. WritesCurrent'
  <2> SUFFICES ASSUME NEW v \in Workers PROVE WritesCurrent!(v)'
    BY DEF WritesCurrent
  <2>1. Current' = Current /\ done' = done /\ wver' = wver /\ part' = part
    BY <1>1 DEF Current, serverVars, runVars, diskVars
  <2>2. CASE v # w
    BY <1>3, <2>1, <2>2 DEF FileInv, WritesCurrent
  <2>3. CASE v = w /\ wpc'[w] # "stream"
    BY <1>3, <2>3
  <2>4. CASE v = w /\ wpc'[w] = "stream"
    <3>1. QueueInv'
      BY WorkersKeepQueue DEF WorkerStep
    <3>2. wq'[w] \in Pieces
      BY <3>1, <2>4, PiecesAreNumbers
         DEF QueueInv, Types, WorkerTypes, PiecesShared, Fetching, Pieces
    <3>3. done[wq'[w]] \in Nat /\ LenOf(wq'[w]) \in Nat
      BY <3>2, PieceLength, HttpAssumption DEF QueueInv, Types, QueueTypes, Lengths
    <3> QED BY <1>3, <2>1, <2>4, <3>3
  <2> QED BY <2>2, <2>3, <2>4
<1>5. DoneIsWhole'
  BY <1>1, <1>3 DEF FileInv, DoneIsWhole
<1>6. FreeIsSeen'
  <2> SUFFICES ASSUME errors' = {}, NEW q \in Pieces, qstate'[q] = "free"
               PROVE  \E v \in Workers : \/ wpc'[v] = "look" /\ q \in left'[v]
                                         \/ wpc'[v] \in Fetching \cup {"enable"}
    BY <1>1 DEF FreeIsSeen, runVars
  <2>1. errors = {} /\ qstate[q] = "free"
    BY <1>3 DEF LookAt, NoneFree, WaitForChange, StopIdle, WorkerEnds
  <2>2. PICK v \in Workers : \/ wpc[v] = "look" /\ q \in left[v]
                             \/ wpc[v] \in Fetching \cup {"enable"}
    BY <1>1, <2>1 DEF FileInv, FreeIsSeen
  <2>3. CASE v # w
    BY <1>3, <2>2, <2>3
  <2>4. CASE v = w
    <3> SUFFICES \/ wpc'[w] = "look" /\ q \in left'[w]
                 \/ wpc'[w] \in Fetching \cup {"enable"}
      OBVIOUS
    <3>1. ASSUME NEW r \in Pieces, LookAt(w, r)
          PROVE  (wpc'[w] = "look" /\ q \in left'[w]) \/ wpc'[w] \in Fetching \cup {"enable"}
      <4>1. CASE qstate[r] = "free"
        BY <3>1, <4>1 DEF LookAt, Fetching, QueueInv, Types, WorkerTypes
      <4>2. CASE qstate[r] # "free"
        <5>1. r # q /\ wpc[w] = "look" /\ q \in left[w]
          BY <3>1, <4>2, <2>1, <2>2, <2>4 DEF LookAt, Fetching
        <5> QED BY <3>1, <4>2, <5>1 DEF LookAt, QueueInv, Types, WorkerTypes
      <4> QED BY <4>1, <4>2
    <3>2. ASSUME WaitForChange(w)
          PROVE  wpc'[w] = "look" /\ q \in left'[w]
      BY <3>2, <2>1 DEF WaitForChange, LooksAgain, QueueInv, Types, WorkerTypes
    <3>3. ASSUME NoneFree(w) PROVE FALSE
      BY <3>3, <2>2, <2>4 DEF NoneFree, Fetching
    <3>4. ASSUME StopIdle(w) PROVE FALSE
      BY <3>4 DEF StopIdle, WorkerEnds
    <3> QED BY <3>1, <3>2, <3>3, <3>4
  <2> QED BY <2>3, <2>4
<1> QED BY <1>2, <1>4, <1>5, <1>6 DEF FileInv

(* A step that settles a worker's piece: a piece is done when it is whole, *)
(* and one that is free again has a worker that looks, or an error.        *)
LEMMA SettleKeepsFile ==
    ASSUME QueueInv, FileInv, NEW w \in Workers, wpc[w] \in Fetching,
           NEW st \in {"free", "done"}, NEW l \in {"look", "ended"}, Settle(w, st, l),
           UNCHANGED <<serverVars, diskVars, runVars, done, saving>>,
           st = "done" => done[wq[w]] = LenOf(wq[w]), errors' = {} => errors = {} /\ l = "look"
    PROVE  FileInv'
<1>1. /\ FileLength' /\ Unnamed' /\ SidecarTrue' /\ SidecarBehind' /\ SidecarEmpty'
      /\ CountersTrue' /\ PiecesMakeWhole'
  BY SameFile DEF serverVars, diskVars, runVars
<1>2. wq[w] \in Pieces /\ run = "pieces"
  BY SettleKeeps
<1>3. /\ wq' = [wq EXCEPT ![w] = 0] /\ wver' = [wver EXCEPT ![w] = 0]
      /\ qstate' = [qstate EXCEPT ![wq[w]] = st]
      /\ \A v \in Workers : left'[v] = IF v = w \/ wpc[v] = "wait" THEN Pieces ELSE left[v]
  BY DEF Settle
<1>4. /\ wpc'[w] = l
      /\ \A v \in Workers : v # w => wpc'[v] = IF wpc[v] = "wait" THEN "look" ELSE wpc[v]
  BY SettleWakes DEF Fetching
<1>5. WritesCurrent'
  <2> SUFFICES ASSUME NEW v \in Workers PROVE WritesCurrent!(v)'
    BY DEF WritesCurrent
  <2>1. Current' = Current /\ done' = done /\ part' = part
    BY DEF Current, serverVars, runVars, diskVars
  <2>2. CASE v = w
    BY <1>4, <2>2
  <2>3. CASE v # w
    <3>1. /\ wq'[v] = wq[v] /\ wver'[v] = wver[v]
          /\ wpc'[v] \in {"stream", "count"} => wpc'[v] = wpc[v]
      BY <1>3, <1>4, <2>3 DEF QueueInv, Types, WorkerTypes
    <3> QED BY <2>1, <3>1 DEF FileInv, WritesCurrent
  <2> QED BY <2>2, <2>3
<1>6. DoneIsWhole'
  BY <1>2, <1>3 DEF FileInv, DoneIsWhole, QueueInv, Types, QueueTypes
<1>7. FreeIsSeen'
  <2> SUFFICES ASSUME errors' = {}, NEW q \in Pieces
               PROVE  \E v \in Workers : wpc'[v] = "look" /\ q \in left'[v]
    BY DEF FreeIsSeen
  <2> QED BY <1>3, <1>4
<1> QED BY <1>1, <1>5, <1>6, <1>7 DEF FileInv

(* The other steps of the workers.                                         *)
LEMMA WorkersKeepFile ==
    ASSUME QueueInv, FileInv, NEW w \in Workers, WorkerStep(w) \/ SourceFails(w) \/ StorageFails(w)
    PROVE  FileInv'
<1>1. CASE Respond(w) /\ validated /\ version # expected
  <2>1. wpc[w] \in Fetching /\ Settle(w, "free", "ended") /\ errors' # {}
        /\ UNCHANGED <<serverVars, diskVars, runVars, done, saving>>
    BY <1>1 DEF Respond, Fetching
  <2> QED BY <2>1, SettleKeepsFile
<1>2. CASE Respond(w) /\ ~(validated /\ version # expected)
  <2>1. /\ wpc' = [wpc EXCEPT ![w] = "stream"] /\ wver' = [wver EXCEPT ![w] = version]
        /\ UNCHANGED <<serverVars, diskVars, runVars, done, saving, qstate, left, wq, errors>>
    BY <1>2 DEF Respond
  <2>2. /\ FileLength' /\ Unnamed' /\ SidecarTrue' /\ SidecarBehind' /\ SidecarEmpty'
        /\ CountersTrue' /\ PiecesMakeWhole'
    BY <2>1, SameFile DEF serverVars, diskVars, runVars
  <2>3. version \in Current /\ Current' = Current
    BY <1>2, <2>1 DEF Current, QueueInv, Types, ServerTypes, serverVars, runVars
  <2>4. WritesCurrent'
    <3> SUFFICES ASSUME NEW v \in Workers PROVE WritesCurrent!(v)'
      BY DEF WritesCurrent
    <3>1. CASE v = w
      BY <2>1, <2>3, <3>1 DEF QueueInv, Types, WorkerTypes
    <3>2. CASE v # w
      BY <2>1, <2>3, <3>2 DEF QueueInv, Types, WorkerTypes, FileInv, WritesCurrent, diskVars
    <3> QED BY <3>1, <3>2
  <2>5. DoneIsWhole'
    BY <2>1 DEF FileInv, DoneIsWhole
  <2>6. FreeIsSeen'
    BY <2>1 DEF FileInv, FreeIsSeen, QueueInv, Types, WorkerTypes, Fetching, runVars
  <2> QED BY <2>2, <2>4, <2>5, <2>6 DEF FileInv
<1>3. CASE PieceDone(w)
  <2>1. /\ wpc[w] \in Fetching /\ Settle(w, "done", "look") /\ errors' = errors
        /\ done[wq[w]] = LenOf(wq[w])
        /\ UNCHANGED <<serverVars, diskVars, runVars, done, saving>>
    BY <1>3 DEF PieceDone, Fetching
  <2> QED BY <2>1, SettleKeepsFile
<1>4. CASE SourceFails(w) \/ StorageFails(w) \/ StopPiece(w)
  <2>1. /\ wpc[w] \in Fetching
        /\ \/ Settle(w, "free", "look") /\ errors' = errors
           \/ Settle(w, "free", "ended") /\ errors' # {}
        /\ UNCHANGED <<serverVars, diskVars, runVars, done, saving>>
    BY <1>4 DEF SourceFails, StorageFails, StopPiece, Fetching
  <2> QED BY <2>1, SettleKeepsFile
<1> QED BY <1>1, <1>2, <1>3, <1>4, WriteKeepsFile, CountKeepsFile, QueueStepKeepsFile
        DEF WorkerStep

-----------------------------------------------------------------------------
(* There is no file at first.                                              *)
LEMMA InitFile == HttpInit => FileInv
<1> SUFFICES ASSUME HttpInit PROVE FileInv
  OBVIOUS
<1> USE DEF HttpInit
<1>1. FileLength /\ Unnamed /\ SidecarTrue /\ SidecarBehind /\ SidecarEmpty /\ CountersTrue
  BY DEF FileLength, NoPart, Unnamed, SidecarTrue, SidecarBehind, SidecarEmpty, CountersTrue
<1>2. WritesCurrent /\ DoneIsWhole /\ FreeIsSeen /\ PiecesMakeWhole
  BY DEF WritesCurrent, DoneIsWhole, FreeIsSeen, PiecesMakeWhole
<1> QED BY <1>1, <1>2 DEF FileInv

(* Every step keeps the file and what is known of it in step.              *)
LEMMA NextKeepsFile ==
    ~Orphans /\ QueueInv /\ QueueInv' /\ FileInv /\ [HttpNext]_httpVars => FileInv'
BY WorkersKeepFile, RunKeepsFile, MultiStartKeepsFile, MultiFinishesKeepsFile, SaveKeepsFile,
   OthersKeepFile, MultiEndsEither
   DEF HttpNext, RunStep

(* They are always in step.                                                *)
LEMMA FileInvAlways == ASSUME ~Orphans PROVE HttpSpec => []FileInv
<1>1. HttpInit => FileInv BY InitFile
<1>2. QueueInv /\ QueueInv' /\ FileInv /\ [HttpNext]_httpVars => FileInv' BY NextKeepsFile
<1> QED BY <1>1, <1>2, QueueInvAlways, PTL DEF HttpSpec

(* At every moment the process may die, what the counters of the pieces    *)
(* and the sidecar tell was written, and of the version they name: resumed *)
(* bytes are never holes and never of another version.  The assumption is  *)
(* the one window where it may not die: a sidecar that outlives the rename *)
(* of its file is believed beside the next one.                            *)
THEOREM CountedIsWrittenHolds == ASSUME ~Orphans PROVE HttpSpec => []CountedIsWritten
<1>1. FileInv => CountedIsWritten
  BY DEF FileInv, CountersTrue, SidecarTrue, CountedIsWritten
<1> QED BY <1>1, FileInvAlways, PTL

(* A file that the workers finish is whole, and of one version if the      *)
(* server names its versions, whatever was resumed, failed, was retried or *)
(* changed on the way: the workers leave only when no piece is free or in  *)
(* flight, or with an error.                                               *)
THEOREM PiecesMakeWholeHolds == ASSUME ~Orphans PROVE HttpSpec => []PiecesMakeWhole
<1>1. FileInv => PiecesMakeWhole
  BY DEF FileInv
<1> QED BY <1>1, FileInvAlways, PTL
=============================================================================
