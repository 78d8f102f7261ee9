---------------------------- MODULE EngineProofs ----------------------------
(***************************************************************************)
(* Proofs about Engine, for every number of callers, engines and           *)
(* downloads and every capacity of the event channel; and about Uploads,   *)
(* to which the bridge of the engine hands completed downloads, for every  *)
(* set of jobs, files, sinks and callers, every limit on the uploads, and  *)
(* any number of changes of it.                                            *)
(***************************************************************************)
EXTENDS Engine, Uploads, SequenceTheorems, FiniteSetTheorems, TLAPS

-----------------------------------------------------------------------------
(* The inductive invariant behind OneEngine: the life of the engines ...   *)

LifePlaces == {"idle", "create", "bind", "pbh", "spawn", "store", "stopping"}

LifeTypes ==
    /\ instance \in Engines \cup {Nobody} /\ port \in Engines \cup {Nobody}
    /\ engLock \in Procs \cup {Nobody}
    /\ background \subseteq Engines /\ closing \subseteq Engines
    /\ rpcStop \subseteq Engines /\ watched \subseteq Engines
    /\ epc \in [Procs -> LifePlaces] /\ eng \in [Callers -> Engines \cup {Nobody}]
    /\ created \in 0..MaxEngines

(* Engines are numbered as they are created.                               *)
Numbered ==
    /\ \A e \in closing : e <= created
    /\ port # Nobody => port <= created
    /\ instance # Nobody => instance <= created

(* The start of an engine is in the hands of one caller until its instance *)
(* is stored, and nobody closes it before.  From the bind on the engine    *)
(* has the port, which keeps every other one from getting that far.        *)
Starting(c) == epc[c] \in {"bind", "pbh", "spawn", "store"}
StartsApart ==
    \A c \in Callers : Starting(c) =>
        /\ eng[c] \in Engines /\ eng[c] <= created
        /\ eng[c] \notin closing /\ eng[c] # instance
        /\ epc[c] = "bind" => port # eng[c]
        /\ epc[c] # "bind" => port = eng[c]
        /\ epc[c] \in {"bind", "pbh", "spawn"} => eng[c] \notin background
        /\ \A d \in Callers : Starting(d) /\ eng[d] = eng[c] => d = c

(* The stored instance answers on the port until it is taken.              *)
InstanceServes == instance # Nobody => port = instance /\ instance \notin closing

(* The background tasks that run are those of one engine.                  *)
OneRuns ==
    \A e \in background :
       /\ port = e /\ e \notin closing
       /\ e = instance \/ \E c \in Callers : epc[c] = "store" /\ eng[c] = e

LifeInv == LifeTypes /\ Numbered /\ StartsApart /\ InstanceServes /\ OneRuns

(* ... and the bridge: what is in a channel has finished.                  *)
BridgeTypes ==
    /\ channel \in [Engines -> Seq(Downloads \cup {Other})]
    /\ lagged \subseteq Engines /\ others \in 0..MaxOther
    /\ finished \subseteq Downloads

SentHasFinished ==
    \A e \in Engines :
       /\ Len(channel[e]) <= Capacity
       /\ \A i \in 1..Len(channel[e]) : channel[e][i] \in finished \cup {Other}

HandledHasFinished == handed \cup missed \subseteq finished

BridgeInv == BridgeTypes /\ SentHasFinished /\ HandledHasFinished

EngineInv == LifeInv /\ BridgeInv

-----------------------------------------------------------------------------
(* The invariant implies the property.                                     *)
LEMMA InvGivesOneEngine == EngineInv => OneEngine
BY DEF EngineInv, LifeInv, BridgeInv, OneEngine, EngineTypeOK, LifeTypes, BridgeTypes, OneRuns,
       SentHasFinished, HandledHasFinished, LifePlaces

(* Before the first start there is no engine.                              *)
LEMMA EngineInitInv == EngineInit => EngineInv
<1> SUFFICES ASSUME EngineInit PROVE EngineInv
  OBVIOUS
<1> USE EngineBounds DEF EngineInit
<1>1. LifeTypes
  BY DEF LifeTypes, LifePlaces, Procs
<1>2. Numbered /\ InstanceServes /\ OneRuns
  BY DEF Numbered, InstanceServes, OneRuns
<1>3. StartsApart
  BY DEF StartsApart, Starting, Procs
<1>4. BridgeInv
  <2>1. BridgeTypes
    BY DEF BridgeTypes
  <2>2. SentHasFinished /\ HandledHasFinished
    BY DEF SentHasFinished, HandledHasFinished
  <2> QED BY <2>1, <2>2 DEF BridgeInv
<1> QED BY <1>1, <1>2, <1>3, <1>4 DEF EngineInv, LifeInv

-----------------------------------------------------------------------------
(* The steps of start_engine and stop_engine keep LifeInv.                 *)

(* start_engine, step by step.                                             *)
LEMMA StartKeepsLife ==
    ASSUME LifeInv, NEW c \in Callers, StartCheck(c) \/ StartStep(c)
    PROVE  LifeInv'
<1> USE EngineBounds DEF LifeInv, Engines, Procs, LifePlaces
<1>1. CASE StartCheck(c)
  <2> USE <1>1 DEF StartCheck, At
  <2>1. LifeTypes' BY DEF LifeTypes
  <2>2. Numbered' /\ InstanceServes' /\ OneRuns'
    BY DEF Numbered, InstanceServes, OneRuns, LifeTypes
  <2>3. StartsApart' BY DEF StartsApart, Starting, LifeTypes
  <2> QED BY <2>1, <2>2, <2>3
<1>2. CASE Create(c)
  <2> USE <1>2 DEF Create, At
  <2>1. LifeTypes' BY DEF LifeTypes
  <2>2. Numbered' /\ InstanceServes'
    BY DEF Numbered, InstanceServes, LifeTypes
  <2>3. OneRuns' BY DEF OneRuns, LifeTypes
  <2>4. StartsApart'
    BY DEF StartsApart, Starting, LifeTypes, Numbered, OneRuns
  <2> QED BY <2>1, <2>2, <2>3, <2>4
<1>3. CASE Bind(c)
  <2> USE <1>3 DEF Bind, At
  <2>1. LifeTypes' BY DEF LifeTypes, StartsApart, Starting
  <2>2. Numbered' /\ InstanceServes'
    BY DEF Numbered, InstanceServes, LifeTypes, StartsApart, Starting
  <2>3. OneRuns' BY DEF OneRuns, LifeTypes
  <2>4. StartsApart'
    BY DEF StartsApart, Starting, LifeTypes, Numbered, OneRuns
  <2> QED BY <2>1, <2>2, <2>3, <2>4
<1>4. CASE PbhStarted(c)
  <2> USE <1>4 DEF PbhStarted, At
  <2>1. LifeTypes' BY DEF LifeTypes
  <2>2. Numbered' /\ InstanceServes' /\ OneRuns'
    BY DEF Numbered, InstanceServes, OneRuns, LifeTypes
  <2>3. StartsApart' BY DEF StartsApart, Starting, LifeTypes
  <2> QED BY <2>1, <2>2, <2>3
<1>5. CASE PbhFailed(c)
  <2> USE <1>5 DEF PbhFailed, At
  <2>0. Starting(c) BY DEF Starting
  <2>1. LifeTypes' BY <2>0 DEF LifeTypes, StartsApart
  <2>2. Numbered' /\ InstanceServes'
    BY <2>0 DEF Numbered, InstanceServes, LifeTypes, StartsApart
  <2>3. OneRuns' BY <2>0 DEF OneRuns, LifeTypes, StartsApart
  <2>4. StartsApart' BY <2>0 DEF StartsApart, Starting, LifeTypes
  <2> QED BY <2>1, <2>2, <2>3, <2>4
<1>6. CASE SpawnTasks(c)
  <2> USE <1>6 DEF SpawnTasks, At
  <2>0. Starting(c) BY DEF Starting
  <2>1. LifeTypes' BY <2>0 DEF LifeTypes, StartsApart
  <2>2. Numbered' /\ InstanceServes' BY DEF Numbered, InstanceServes, LifeTypes
  <2>3. OneRuns' BY <2>0 DEF OneRuns, LifeTypes, StartsApart
  <2>4. StartsApart' BY <2>0 DEF StartsApart, Starting, LifeTypes
  <2> QED BY <2>1, <2>2, <2>3, <2>4
<1>7. CASE StoreInstance(c)
  <2> USE <1>7 DEF StoreInstance, At
  <2>0. Starting(c) BY DEF Starting
  <2>1. LifeTypes' BY <2>0 DEF LifeTypes, StartsApart
  <2>2. Numbered' /\ InstanceServes'
    BY <2>0 DEF Numbered, InstanceServes, LifeTypes, StartsApart
  <2>3. OneRuns' BY <2>0 DEF OneRuns, LifeTypes, StartsApart
  <2>4. StartsApart' BY <2>0 DEF StartsApart, Starting, LifeTypes
  <2> QED BY <2>1, <2>2, <2>3, <2>4
<1> QED BY <1>1, <1>2, <1>3, <1>4, <1>5, <1>6, <1>7 DEF StartStep

(* stop_engine, by a caller or by the rpc watcher.                         *)
LEMMA StopKeepsLife ==
    ASSUME LifeInv, NEW p \in Procs, StopTake(p) \/ StopDone(p)
    PROVE  LifeInv'
<1> USE EngineBounds DEF LifeInv, Engines, Procs, LifePlaces
<1>1. CASE StopDone(p)
  <2> USE <1>1 DEF StopDone, At
  <2>1. LifeTypes' BY DEF LifeTypes
  <2>2. Numbered' /\ InstanceServes' /\ OneRuns'
    BY DEF Numbered, InstanceServes, OneRuns, LifeTypes
  <2>3. StartsApart' BY DEF StartsApart, Starting, LifeTypes
  <2> QED BY <2>1, <2>2, <2>3
<1>2. CASE StopTake(p) /\ instance = Nobody
  BY <1>2 DEF StopTake, LifeTypes, Numbered, InstanceServes, OneRuns, StartsApart, Starting
<1>3. CASE StopTake(p) /\ instance # Nobody
  <2> USE <1>3 DEF StopTake, At
  <2>0. epc[p] = "idle" BY DEF MayStop
  <2>1. LifeTypes' BY DEF LifeTypes
  <2>2. Numbered' /\ InstanceServes' BY DEF Numbered, InstanceServes, LifeTypes
  <2>3. OneRuns'
    <3>1. background' = background \ {instance} /\ port = instance
      BY DEF InstanceServes
    <3> QED BY <3>1 DEF OneRuns
  <2>4. StartsApart'
    BY <2>0 DEF StartsApart, Starting, LifeTypes
  <2> QED BY <2>1, <2>2, <2>3, <2>4
<1> QED BY <1>1, <1>2, <1>3

(* The rpc server: its shutdown, and the port it gives up.                 *)
LEMMA ServerKeepsLife ==
    ASSUME LifeInv, PortClosed \/ \E e \in Engines : RpcShutdown(e)
    PROVE  LifeInv'
<1> USE EngineBounds DEF LifeInv
<1>1. CASE PortClosed
  <2> USE <1>1 DEF PortClosed
  <2>1. LifeTypes' /\ Numbered' /\ InstanceServes' /\ OneRuns'
    BY DEF LifeTypes, Numbered, InstanceServes, OneRuns
  <2>2. StartsApart'
    BY DEF StartsApart, Starting, LifeTypes, Engines
  <2> QED BY <2>1, <2>2
<1>2. CASE \E e \in Engines : RpcShutdown(e)
  BY <1>2 DEF RpcShutdown, LifeTypes, Numbered, InstanceServes, OneRuns, StartsApart, Starting
<1> QED BY <1>1, <1>2

(* Steps that leave the engines alone.                                     *)
LEMMA LifeStutters == LifeInv /\ UNCHANGED lifeVars => LifeInv'
BY DEF LifeInv, lifeVars, LifeTypes, Numbered, InstanceServes, OneRuns, StartsApart, Starting

-----------------------------------------------------------------------------
(* The steps of the bridge keep BridgeInv.                                 *)

(* Steps that leave the event bridge alone.                                *)
LEMMA BridgeStutters == BridgeInv /\ UNCHANGED bridgeVars => BridgeInv'
BY DEF BridgeInv, bridgeVars, BridgeTypes, SentHasFinished, HandledHasFinished

(* What a channel holds after an event was sent.                           *)
LEMMA SendKeeps ==
    ASSUME BridgeInv, NEW e \in Engines, NEW v \in finished' \cup {Other}, Send(e, v),
           finished \subseteq finished', finished' \subseteq Downloads, others' \in 0..MaxOther,
           handed' = handed
    PROVE  BridgeInv'
<1> USE EngineBounds DEF BridgeInv
<1> DEFINE s == channel[e]
           full == Len(s) = Capacity
           kept == IF full THEN Tail(s) ELSE s
<1>1. s \in Seq(Downloads \cup {Other}) /\ Len(s) <= Capacity
  BY DEF BridgeTypes, SentHasFinished
<1>2. full => s # <<>>
  OBVIOUS
<1>3. /\ kept \in Seq(Downloads \cup {Other}) /\ Len(kept) < Capacity
      /\ \A i \in 1..Len(kept) : kept[i] \in finished \cup {Other}
  <2>1. CASE full
    <3>1. /\ Tail(s) \in Seq(Downloads \cup {Other}) /\ Len(Tail(s)) = Len(s) - 1
          /\ \A i \in 1..Len(Tail(s)) : Tail(s)[i] = s[i+1]
      BY <1>1, <1>2, <2>1, HeadTailProperties
    <3>2. \A i \in 1..Len(Tail(s)) : i + 1 \in 1..Len(s)
      BY <3>1, <1>1, LenProperties
    <3> QED BY <3>1, <3>2, <2>1, <1>1 DEF SentHasFinished
  <2>2. CASE ~full
    BY <2>2, <1>1, LenProperties DEF SentHasFinished
  <2> QED BY <2>1, <2>2
<1>4. /\ Append(kept, v) \in Seq(Downloads \cup {Other}) /\ Len(Append(kept, v)) <= Capacity
      /\ \A i \in 1..Len(Append(kept, v)) : Append(kept, v)[i] \in finished' \cup {Other}
  <2>1. v \in Downloads \cup {Other}
    OBVIOUS
  <2>2. /\ Append(kept, v) \in Seq(Downloads \cup {Other})
        /\ Len(Append(kept, v)) = Len(kept) + 1 /\ Len(kept) \in Nat
        /\ \A i \in 1..Len(kept) : Append(kept, v)[i] = kept[i]
        /\ Append(kept, v)[Len(kept) + 1] = v
    BY <1>3, <2>1, AppendProperties, LenProperties
  <2> HIDE DEF kept
  <2> QED BY <1>3, <2>2
<1>5. channel' = IF e \in background THEN [channel EXCEPT ![e] = Append(kept, v)] ELSE channel
  BY DEF Send
<1> HIDE DEF kept
<1>6. channel' \in [Engines -> Seq(Downloads \cup {Other})] /\ SentHasFinished'
  BY <1>4, <1>5 DEF BridgeTypes, SentHasFinished
<1>7. lagged' \subseteq Engines
  BY DEF Send, BridgeTypes
<1>8. missed' \subseteq finished'
  <2>1. full => Head(s) \in finished \cup {Other}
    <3> SUFFICES ASSUME full PROVE Head(s) = s[1] /\ 1 \in 1..Len(s)
      BY <1>1 DEF SentHasFinished
    <3> QED BY <1>1, <1>2, HeadTailProperties, LenProperties
  <2>2. Other \notin Downloads
    OBVIOUS
  <2> QED BY <2>1, <2>2 DEF Send, HandledHasFinished
<1>9. handed' \subseteq finished'
  BY DEF HandledHasFinished
<1> QED BY <1>6, <1>7, <1>8, <1>9 DEF BridgeTypes, HandledHasFinished

(* What is left of a channel when the bridge reads or is dropped.          *)
LEMMA ReadKeeps ==
    ASSUME BridgeInv, NEW e \in Engines, BridgeStep(e)
    PROVE  BridgeInv'
<1>1. CASE BridgeLagged(e)
  BY <1>1 DEF BridgeLagged, BridgeInv, BridgeTypes, SentHasFinished, HandledHasFinished
<1>2. CASE BridgeRecv(e)
  <2> DEFINE s == channel[e]
  <2>1. s \in Seq(Downloads \cup {Other}) /\ s # <<>> /\ Len(s) <= Capacity
    BY <1>2 DEF BridgeRecv, BridgeInv, BridgeTypes, SentHasFinished
  <2>2. /\ Tail(s) \in Seq(Downloads \cup {Other}) /\ Len(Tail(s)) = Len(s) - 1
        /\ \A i \in 1..Len(Tail(s)) : Tail(s)[i] = s[i+1]
        /\ Head(s) = s[1]
    BY <2>1, HeadTailProperties
  <2>3. Len(s) \in Nat /\ 1 \in 1..Len(s)
    BY <2>1, LenProperties
  <2>4. \A i \in 1..Len(Tail(s)) : i + 1 \in 1..Len(s)
    BY <2>2, <2>3
  <2>5. channel' = [channel EXCEPT ![e] = Tail(s)]
    BY <1>2 DEF BridgeRecv
  <2>6. \A i \in 1..Len(Tail(s)) : Tail(s)[i] \in finished \cup {Other}
    BY <2>2, <2>4 DEF BridgeInv, SentHasFinished
  <2>7. Len(Tail(s)) <= Capacity
    BY <2>1, <2>2, <2>3, EngineBounds
  <2>8. Head(s) \in finished \cup {Other}
    BY <2>2, <2>3 DEF BridgeInv, SentHasFinished
  <2> HIDE DEF s
  <2>9. BridgeTypes'
    BY <1>2, <2>2, <2>5 DEF BridgeRecv, BridgeInv, BridgeTypes
  <2>10. SentHasFinished'
    BY <1>2, <2>5, <2>6, <2>7 DEF BridgeRecv, BridgeInv, BridgeTypes, SentHasFinished
  <2>11. HandledHasFinished'
    BY <1>2, <2>8, EngineBounds DEF BridgeRecv, BridgeInv, HandledHasFinished, s
  <2> QED BY <2>9, <2>10, <2>11 DEF BridgeInv
<1> QED BY <1>1, <1>2 DEF BridgeStep

(* The end of an engine ends its bridge.                                   *)
LEMMA StopKeepsBridge ==
    ASSUME LifeInv, BridgeInv, NEW p \in Procs, StopTake(p)
    PROVE  BridgeInv'
<1>1. CASE instance = Nobody
  BY <1>1 DEF StopTake, BridgeInv, BridgeTypes, SentHasFinished, HandledHasFinished
<1>2. CASE instance # Nobody
  <2>1. instance \in Engines
    BY <1>2 DEF LifeInv, LifeTypes
  <2>2. channel[instance] \in Seq(Downloads \cup {Other})
    BY <2>1 DEF BridgeInv, BridgeTypes
  <2>3. DOMAIN channel[instance] = 1..Len(channel[instance])
    BY <2>2, LenProperties
  <2>4. missed' \subseteq finished
    BY <1>2, <2>1, <2>3, EngineBounds
      DEF StopTake, BridgeInv, SentHasFinished, HandledHasFinished
  <2>5. channel' = [channel EXCEPT ![instance] = <<>>]
    BY <1>2 DEF StopTake
  <2>6. BridgeTypes'
    <3>1. <<>> \in Seq(Downloads \cup {Other})
      OBVIOUS
    <3>2. channel' \in [Engines -> Seq(Downloads \cup {Other})]
      BY <2>5, <3>1 DEF BridgeInv, BridgeTypes
    <3> QED BY <3>2 DEF StopTake, BridgeInv, BridgeTypes
  <2>7. SentHasFinished'
    <3>1. \A e \in Engines : channel'[e] = channel[e] \/ channel'[e] = <<>>
      BY <2>5 DEF BridgeInv, BridgeTypes
    <3>2. Len(<<>>) = 0 /\ finished' = finished
      BY DEF StopTake
    <3> QED BY <3>1, <3>2, EngineBounds DEF BridgeInv, SentHasFinished
  <2> QED BY <2>4, <2>6, <2>7 DEF StopTake, BridgeInv, HandledHasFinished
<1> QED BY <1>1, <1>2

-----------------------------------------------------------------------------
(* Every step keeps the invariant.                                         *)
LEMMA NextKeepsInv == EngineInv /\ [EngineNext]_engineVars => EngineInv'
<1> SUFFICES ASSUME LifeInv, BridgeInv, [EngineNext]_engineVars PROVE LifeInv' /\ BridgeInv'
  BY DEF EngineInv
<1>1. ASSUME NEW c \in Callers, StartCheck(c) \/ StartStep(c) PROVE LifeInv' /\ BridgeInv'
  <2>1. UNCHANGED bridgeVars
    BY <1>1 DEF StartCheck, StartStep, Create, Bind, PbhStarted, PbhFailed, SpawnTasks,
                StoreInstance
  <2> QED BY <1>1, <2>1, StartKeepsLife, BridgeStutters
<1>2. ASSUME NEW p \in Procs, StopTake(p) PROVE LifeInv' /\ BridgeInv'
  BY <1>2, StopKeepsLife, StopKeepsBridge
<1>3. ASSUME NEW p \in Procs, StopDone(p) PROVE LifeInv' /\ BridgeInv'
  <2>1. UNCHANGED bridgeVars
    BY <1>3 DEF StopDone
  <2> QED BY <1>3, <2>1, StopKeepsLife, BridgeStutters
<1>4. ASSUME PortClosed \/ \E e \in Engines : RpcShutdown(e) PROVE LifeInv' /\ BridgeInv'
  <2>1. UNCHANGED bridgeVars
    BY <1>4 DEF PortClosed, RpcShutdown
  <2> QED BY <1>4, <2>1, ServerKeepsLife, BridgeStutters
<1>5. ASSUME NEW e \in Engines, BridgeStep(e) PROVE LifeInv' /\ BridgeInv'
  <2>1. UNCHANGED lifeVars
    BY <1>5 DEF BridgeStep, BridgeLagged, BridgeRecv
  <2> QED BY <1>5, <2>1, ReadKeeps, LifeStutters
<1>6. ASSUME NEW e \in Engines, OtherEvent(e) PROVE LifeInv' /\ BridgeInv'
  <2>1. UNCHANGED lifeVars /\ finished' = finished /\ handed' = handed /\ Send(e, Other)
    BY <1>6 DEF OtherEvent
  <2>2. others' \in 0..MaxOther
    BY <1>6, EngineBounds DEF OtherEvent, BridgeInv, BridgeTypes
  <2>3. finished' \subseteq Downloads
    BY <2>1 DEF BridgeInv, BridgeTypes
  <2> QED BY <2>1, <2>2, <2>3, SendKeeps, LifeStutters
<1>7. ASSUME NEW e \in Engines, NEW d \in Downloads, DownloadComplete(e, d)
      PROVE  LifeInv' /\ BridgeInv'
  <2>1. /\ UNCHANGED lifeVars /\ others' = others /\ handed' = handed
        /\ finished' = finished \cup {d} /\ Send(e, d)
    BY <1>7 DEF DownloadComplete
  <2>2. others' \in 0..MaxOther /\ finished' \subseteq Downloads
    BY <2>1 DEF BridgeInv, BridgeTypes
  <2> QED BY <2>1, <2>2, SendKeeps, LifeStutters
<1>8. ASSUME UNCHANGED engineVars PROVE LifeInv' /\ BridgeInv'
  BY <1>8, LifeStutters, BridgeStutters DEF engineVars
<1> QED BY <1>1, <1>2, <1>3, <1>4, <1>5, <1>6, <1>7, <1>8 DEF EngineNext

(* However many calls of start_engine and stop_engine overlap, with        *)
(* failing binds, RPC shutdowns and a listener that closes late, the       *)
(* background tasks of at most one engine run; that engine has the RPC     *)
(* port, and a stop can reach it.                                          *)
THEOREM OneEngineHolds == EngineSpec => []OneEngine
<1>1. EngineInit => EngineInv BY EngineInitInv
<1>2. EngineInv /\ [EngineNext]_engineVars => EngineInv' BY NextKeepsInv
<1>3. EngineInv => OneEngine BY InvGivesOneEngine
<1> QED BY <1>1, <1>2, <1>3, PTL DEF EngineSpec

-----------------------------------------------------------------------------
(* The inductive invariant of the uploads.                                 *)

JobPlaces == {"none", "record", "queued", "permit", "runtime", "uploading", "post", "failed",
           "cancelled", "touch", "save", "gone"}
HolderPlaces == {"permit", "runtime", "uploading"}

(* A job has a file and a sink from the time a sink was picked.            *)
JobTypes ==
    /\ jfile \in [Jobs -> Files \cup {NoVal}] /\ jsink \in [Jobs -> Sinks \cup {NoVal}]
    /\ jpc \in [Jobs -> JobPlaces] /\ queue \in Seq(Jobs \cup {NoVal})
    /\ \A j \in Jobs : jpc[j] # "none" => jfile[j] \in Files /\ jsink[j] \in Sinks

(* The post-action is run for a file that a sink has received.             *)
PostIsUploaded == \A j \in Jobs : jpc[j] = "post" => jfile[j] \in uploaded

(* A job that has taken a snapshot of the settings is about to write it.   *)
SaversWait == \A j \in Jobs : saving[j] # NoVal => jpc[j] = "save"

OrderInv == JobTypes /\ PostIsUploaded /\ SaversWait /\ UploadsInOrder

(* The jobs in the queue of the semaphore wait for a permit, and each is   *)
(* there once: a second entry would take a permit that nobody gives back.  *)
QueueInv ==
    /\ \A i \in DOMAIN queue : queue[i] \in Jobs => jpc[queue[i]] = "queued"
    /\ \A i, k \in DOMAIN queue : queue[i] \in Jobs /\ queue[i] = queue[k] => i = k

PermitInv == IsFiniteSet(Holders) /\ PermitsAccounted

UploadInv == OrderInv /\ QueueInv /\ PermitInv

-----------------------------------------------------------------------------
(* The queue of the semaphore.                                             *)

Nobodies(q) == {i \in DOMAIN q : q[i] = NoVal}
Waiters == Jobs \cup {NoVal}

(* Sets of places in a queue are finite.                                   *)
LEMMA NobodiesFinite ==
    ASSUME NEW q \in Seq(Waiters)
    PROVE  IsFiniteSet(Nobodies(q)) /\ Cardinality(Nobodies(q)) \in Nat
<1>1. Len(q) \in Nat /\ Nobodies(q) \subseteq 1..Len(q)
  BY DEF Nobodies
<1>2. IsFiniteSet(1..Len(q))
  BY <1>1, FS_Interval
<1> QED BY <1>1, <1>2, FS_Subset, FS_CardinalityType

(* A job that joins the queue retires nothing.                             *)
LEMMA NobodiesAppend ==
    ASSUME NEW q \in Seq(Waiters), NEW j \in Jobs
    PROVE  Nobodies(Append(q, j)) = Nobodies(q)
<1>1. j # NoVal
  BY UploadNames
<1> QED BY <1>1 DEF Nobodies

(* The first waiter leaves.                                                *)
LEMMA NobodiesTail ==
    ASSUME NEW q \in Seq(Waiters), q # <<>>
    PROVE  Cardinality(Nobodies(q)) =
             Cardinality(Nobodies(Tail(q))) + (IF Head(q) = NoVal THEN 1 ELSE 0)
<1> DEFINE T == Nobodies(Tail(q))
           S == Nobodies(q) \ {1}
           f == [i \in T |-> i + 1]
<1>1. Tail(q) \in Seq(Waiters) /\ Len(q) \in Nat \ {0} /\ Len(Tail(q)) = Len(q) - 1
      /\ \A i \in 1..(Len(q) - 1) : Tail(q)[i] = q[i + 1]
  OBVIOUS
<1>2. DOMAIN q = 1..Len(q) /\ DOMAIN Tail(q) = 1..(Len(q) - 1)
  BY <1>1
<1>3. f \in [T -> S]
  BY <1>1, <1>2 DEF Nobodies
<1>4. \A a, b \in T : f[a] = f[b] => a = b
  BY <1>2 DEF Nobodies
<1>5. \A s \in S : \E i \in T : f[i] = s
  <2> TAKE s \in S
  <2>1. s - 1 \in T /\ (s - 1) + 1 = s
    BY <1>1, <1>2 DEF Nobodies
  <2> QED BY <2>1
<1>6. f \in Bijection(T, S)
  <2> HIDE DEF f, T, S
  <2> QED BY <1>3, <1>4, <1>5 DEF Bijection, Injection, IsInjective, Surjection
<1>7. IsFiniteSet(T) /\ IsFiniteSet(Nobodies(q)) /\ Cardinality(Nobodies(q)) \in Nat
  BY <1>1, NobodiesFinite
<1>8. Cardinality(S) = Cardinality(T)
  <2> HIDE DEF f, T, S
  <2>1. ExistsBijection(T, S)
    BY <1>6 DEF ExistsBijection
  <2> QED BY <1>7, <2>1, FS_Bijection
<1>9. 1 \in Nobodies(q) <=> Head(q) = NoVal
  BY <1>1, <1>2 DEF Nobodies
<1>10. Cardinality(S) = IF 1 \in Nobodies(q) THEN Cardinality(Nobodies(q)) - 1
                                             ELSE Cardinality(Nobodies(q))
  BY <1>7, FS_RemoveElement
<1> QED
  <2> HIDE DEF T, S
  <2> QED BY <1>7, <1>8, <1>9, <1>10 DEF T

(* A waiter that gives up leaves the others in order.                      *)
LEMMA WithoutShifts ==
    ASSUME NEW q \in Seq(Waiters), NEW i \in DOMAIN q
    PROVE  /\ Without(q, i) \in Seq(Waiters) /\ Len(q) \in Nat \ {0} /\ i \in 1..Len(q)
           /\ DOMAIN Without(q, i) = 1..(Len(q) - 1)
           /\ \A k \in 1..(Len(q) - 1) : Without(q, i)[k] = IF k < i THEN q[k] ELSE q[k + 1]
<1> DEFINE a == SubSeq(q, 1, i - 1)
           b == SubSeq(q, i + 1, Len(q))
<1>1. i \in 1..Len(q) /\ Len(q) \in Nat
  OBVIOUS
<1>2. a \in Seq(Waiters) /\ Len(a) = i - 1 /\ \A k \in 1..(i - 1) : a[k] = q[k]
  BY <1>1
<1>3. b \in Seq(Waiters) /\ Len(b) = Len(q) - i /\ \A k \in 1..(Len(q) - i) : b[k] = q[i + k]
  BY <1>1
<1>4. Without(q, i) = a \o b
  BY DEF Without
<1> HIDE DEF a, b
<1>5. a \o b \in Seq(Waiters) /\ Len(a \o b) = Len(q) - 1
      /\ \A k \in 1..(Len(q) - 1) : (a \o b)[k] = IF k <= i - 1 THEN a[k] ELSE b[k - (i - 1)]
  BY <1>1, <1>2, <1>3, SMTT(30)
<1>6. \A k \in 1..(Len(q) - 1) : k >= i => b[k - (i - 1)] = q[k + 1]
  <2> TAKE k \in 1..(Len(q) - 1)
  <2> HAVE k >= i
  <2>1. k - (i - 1) \in 1..(Len(q) - i) /\ i + (k - (i - 1)) = k + 1
    BY <1>1
  <2> QED BY <1>3, <2>1
<1> QED BY <1>1, <1>2, <1>4, <1>5, <1>6

(* Nothing is retired when it is a job that gives up.                      *)
LEMMA NobodiesWithout ==
    ASSUME NEW q \in Seq(Waiters), NEW i \in DOMAIN q, q[i] # NoVal
    PROVE  Cardinality(Nobodies(Without(q, i))) = Cardinality(Nobodies(q))
<1> DEFINE W == Without(q, i)
           T == Nobodies(W)
           S == Nobodies(q)
           f == [k \in T |-> IF k < i THEN k ELSE k + 1]
<1>1. /\ W \in Seq(Waiters) /\ Len(q) \in Nat \ {0} /\ i \in 1..Len(q)
      /\ DOMAIN W = 1..(Len(q) - 1)
      /\ \A k \in 1..(Len(q) - 1) : W[k] = IF k < i THEN q[k] ELSE q[k + 1]
  BY WithoutShifts
<1> HIDE DEF W
<1>2. DOMAIN q = 1..Len(q)
  OBVIOUS
<1>3. f \in [T -> S]
  BY <1>1, <1>2 DEF Nobodies
<1>4. \A a, b \in T : f[a] = f[b] => a = b
  BY <1>1 DEF Nobodies
<1>5. \A s \in S : \E k \in T : f[k] = s
  <2> TAKE s \in S
  <2>1. CASE s < i
    <3>1. s \in T
      BY <1>1, <1>2, <2>1 DEF Nobodies
    <3> QED BY <2>1, <3>1
  <2>2. CASE s > i
    <3>1. s - 1 \in T /\ ~(s - 1 < i) /\ (s - 1) + 1 = s
      BY <1>1, <1>2, <2>2 DEF Nobodies
    <3> QED BY <3>1
  <2>3. s # i /\ s \in Nat
    BY <1>2 DEF Nobodies
  <2> QED BY <1>1, <2>1, <2>2, <2>3
<1>6. f \in Bijection(T, S)
  <2> HIDE DEF f, T, S
  <2> QED BY <1>3, <1>4, <1>5 DEF Bijection, Injection, IsInjective, Surjection
<1>7. IsFiniteSet(T)
  BY <1>1, NobodiesFinite
<1> QED
  <2> HIDE DEF f, T, S
  <2>1. ExistsBijection(T, S)
    BY <1>6 DEF ExistsBijection
  <2>2. Cardinality(S) = Cardinality(T)
    BY <1>7, <2>1, FS_Bijection
  <2> QED BY <2>2 DEF T, S, W

(* A lowered limit queues for as many permits as it takes away.            *)
LEMMA NobodiesRetire ==
    ASSUME NEW q \in Seq(Waiters), NEW n \in Nat
    PROVE  /\ q \o Retirement(n) \in Seq(Waiters)
           /\ Cardinality(Nobodies(q \o Retirement(n))) = Cardinality(Nobodies(q)) + n
           /\ \A i \in DOMAIN (q \o Retirement(n)) :
                 (q \o Retirement(n))[i] \in Jobs =>
                    i \in DOMAIN q /\ (q \o Retirement(n))[i] = q[i]
<1> DEFINE r == Retirement(n)
           S == Nobodies(q)
           R == (Len(q) + 1)..(Len(q) + n)
<1>1. r \in Seq(Waiters) /\ Len(r) = n /\ \A k \in 1..n : r[k] = NoVal
  BY DEF Retirement, Waiters
<1> HIDE DEF r
<1>2. /\ q \o r \in Seq(Waiters) /\ Len(q) \in Nat /\ DOMAIN (q \o r) = 1..(Len(q) + n)
      /\ DOMAIN q = 1..Len(q)
      /\ \A i \in 1..(Len(q) + n) : (q \o r)[i] = IF i <= Len(q) THEN q[i] ELSE r[i - Len(q)]
  BY <1>1
<1>3. \A i \in R : (q \o r)[i] = NoVal
  BY <1>1, <1>2
<1>4. Nobodies(q \o r) = S \cup R
  BY <1>2, <1>3 DEF Nobodies
<1>5. S \cap R = {}
  BY <1>2 DEF Nobodies
<1>6. IsFiniteSet(R) /\ Cardinality(R) = n
  <2> DEFINE lo == Len(q) + 1
             hi == Len(q) + n
  <2>1. lo \in Int /\ hi \in Int /\ (IF lo > hi THEN 0 ELSE hi - lo + 1) = n
    BY <1>2
  <2> HIDE DEF lo, hi
  <2>2. IsFiniteSet(lo..hi) /\ Cardinality(lo..hi) = n
    BY <2>1, FS_Interval
  <2> QED BY <2>2 DEF lo, hi
<1>7. IsFiniteSet(S) /\ Cardinality(S) \in Nat
  BY NobodiesFinite
<1>8. Cardinality(S \cup R) = Cardinality(S) + n
  <2> HIDE DEF S, R
  <2>1. Cardinality(S \cap R) = 0
    BY <1>5, FS_EmptySet
  <2>2. Cardinality(S \cup R) = Cardinality(S) + Cardinality(R) - Cardinality(S \cap R)
    BY <1>6, <1>7, FS_Union
  <2> QED BY <1>6, <1>7, <2>1, <2>2
<1>9. NoVal \notin Jobs
  BY UploadNames
<1> QED BY <1>2, <1>3, <1>4, <1>8, <1>9 DEF r

-----------------------------------------------------------------------------
(* The settings, the jobs and the files.                                   *)

(* Nothing is uploaded at first, and one sink is known.                    *)
LEMMA InitOrder == UploadInit => OrderInv
<1> SUFFICES ASSUME UploadInit PROVE OrderInv
  OBVIOUS
<1> USE UploadBounds, UploadNames DEF UploadInit
<1> DEFINE d == CHOOSE s \in Sinks : TRUE
<1>1. d \in Sinks
  OBVIOUS
<1> HIDE DEF d
<1>2. PICK w \in Widths : store = [config |-> [s \in Sinks |-> IF s = d THEN 1 ELSE 0],
                                   rules |-> {d}, default |-> d, width |-> w]
  BY DEF d
<1>3. store \in Settings /\ Consistent(store) /\ store.width \in Nat
  BY <1>1, <1>2 DEF Settings, Consistent
<1>4. JobTypes /\ PostIsUploaded /\ SaversWait
  BY DEF JobTypes, PostIsUploaded, SaversWait, JobPlaces, Savers
<1>5. UploadTypeOK
  BY <1>3 DEF UploadTypeOK, Savers, Terminal
<1> QED BY <1>3, <1>4, <1>5 DEF OrderInv, UploadsInOrder, Live, Savers

(* An edit of the settings: what the store and the cached runtimes become. *)
LEMMA OperateKeepsOrder ==
    ASSUME OrderInv, NEW u \in Users, NEW st \in Settings, NEW rt, Operate(u, st, rt),
           Consistent(st),
           rt \in [Sinks -> 1..MaxConfigs \cup {NoVal}],
           \A s \in Sinks : rt[s] \in {NoVal, st.config[s]},
           queue' \in Seq(Waiters), free' \in Nat
    PROVE  OrderInv'
<1> USE UploadBounds DEF Operate, OrderInv
<1>1. JobTypes' /\ PostIsUploaded' /\ SaversWait'
  BY DEF JobTypes, PostIsUploaded, SaversWait, jobVars, Waiters
<1>2. UploadTypeOK'
  BY DEF UploadsInOrder, UploadTypeOK, jobVars
<1> QED BY <1>1, <1>2 DEF UploadsInOrder, jobVars, Live, Consistent

(* A limit is a number.                                                    *)
LEMMA WidthsAreNumbers == \A w \in Widths : w \in Nat \ {0}
<1>1. Widths \subseteq 1..16
  BY UploadBounds
<1> QED BY <1>1

(* What a store consists of.                                               *)
LEMMA StoreFields ==
    ASSUME OrderInv
    PROVE  \E c \in [Sinks -> 0..MaxConfigs], r \in SUBSET Sinks, d \in Sinks \cup {NoVal},
             w \in Widths :
                /\ store = [config |-> c, rules |-> r, default |-> d, width |-> w]
                /\ \A s \in r : c[s] # 0
                /\ d # NoVal => c[d] # 0
<1>1. store \in Settings /\ Consistent(store)
  BY DEF OrderInv, UploadsInOrder, UploadTypeOK
<1>2. PICK c \in [Sinks -> 0..MaxConfigs], r \in SUBSET Sinks, d \in Sinks \cup {NoVal},
         w \in Widths : store = [config |-> c, rules |-> r, default |-> d, width |-> w]
  BY <1>1 DEF Settings
<1> QED BY <1>1, <1>2 DEF Consistent

(* What makes a store.                                                     *)
LEMMA SettingsMade ==
    ASSUME NEW c \in [Sinks -> 0..MaxConfigs], NEW r \in SUBSET Sinks,
           NEW d \in Sinks \cup {NoVal}, NEW w \in Widths,
           \A s \in r : c[s] # 0, d # NoVal => c[d] # 0
    PROVE  /\ [config |-> c, rules |-> r, default |-> d, width |-> w] \in Settings
           /\ Consistent([config |-> c, rules |-> r, default |-> d, width |-> w])
BY DEF Settings, Consistent

(* The calls that change the settings.                                     *)
LEMMA UsersKeepOrder ==
    ASSUME OrderInv, NEW u \in Users, UserStep(u), ~SaveSnapshot(u), ~SaveWrite(u)
    PROVE  OrderInv'
<1> USE UploadBounds, UploadNames
<1>1. /\ store \in Settings /\ Consistent(store) /\ free \in Nat /\ queue \in Seq(Waiters)
      /\ runtime \in [Sinks -> 1..MaxConfigs \cup {NoVal}]
      /\ \A s \in Sinks : runtime[s] \in {NoVal, store.config[s]}
  BY DEF OrderInv, JobTypes, UploadsInOrder, UploadTypeOK, Waiters
<1>0. PICK cc \in [Sinks -> 0..MaxConfigs], rr \in SUBSET Sinks, dd \in Sinks \cup {NoVal},
         ww \in Widths :
            /\ store = [config |-> cc, rules |-> rr, default |-> dd, width |-> ww]
            /\ \A s \in rr : cc[s] # 0
            /\ dd # NoVal => cc[dd] # 0
  BY StoreFields
<1>2. ASSUME NEW s \in Sinks, NEW c \in 1..MaxConfigs, AddSink(u, s, c) PROVE OrderInv'
  <2> DEFINE st == [store EXCEPT !.config[s] = c, !.default = IF @ = NoVal THEN s ELSE @]
  <2> DEFINE cf == [cc EXCEPT ![s] = c]
             df == IF dd = NoVal THEN s ELSE dd
  <2>0. st = [config |-> cf, rules |-> rr, default |-> df, width |-> ww]
    <3> DEFINE m == [store EXCEPT !.config[s] = c]
    <3>1. m = [config |-> cf, rules |-> rr, default |-> dd, width |-> ww]
      BY <1>0
    <3>2. st = [m EXCEPT !.default = IF @ = NoVal THEN s ELSE @]
      BY Zenon
    <3> HIDE DEF m, st, cf
    <3> QED BY <3>1, <3>2
  <2>4. /\ cf \in [Sinks -> 0..MaxConfigs] /\ df \in Sinks /\ cf[df] # 0
        /\ \A t \in rr : cf[t] # 0
    BY <1>0
  <2>1. st \in Settings /\ Consistent(st)
    <3> HIDE DEF st, cf, df
    <3> QED BY <2>0, <2>4, <1>0, SettingsMade
  <2>2. runtime[s] = NoVal /\ \A t \in Sinks : runtime[t] \in {NoVal, st.config[t]}
    BY <1>1, <1>2 DEF AddSink, Known, Settings
  <2> QED BY <1>1, <1>2, <2>1, <2>2, OperateKeepsOrder DEF AddSink, semVars
<1>3. ASSUME NEW s \in Sinks, NEW c \in 1..MaxConfigs, UpdateSink(u, s, c) PROVE OrderInv'
  <2> DEFINE st == [store EXCEPT !.config[s] = c]
             rt == [runtime EXCEPT ![s] = NoVal]
  <2> DEFINE cf == [cc EXCEPT ![s] = c]
  <2>0. st = [config |-> cf, rules |-> rr, default |-> dd,
              width |-> ww]
    BY <1>0
  <2>4. /\ cf \in [Sinks -> 0..MaxConfigs] /\ \A t \in rr : cf[t] # 0
        /\ dd # NoVal => cf[dd] # 0
    BY <1>0
  <2>1. st \in Settings /\ Consistent(st)
    <3> HIDE DEF st, cf
    <3>1. /\ [config |-> cf, rules |-> rr, default |-> dd, width |-> ww] \in Settings
          /\ Consistent([config |-> cf, rules |-> rr, default |-> dd, width |-> ww])
      BY <2>4, SettingsMade
    <3> QED BY <2>0, <3>1
  <2>2. rt \in [Sinks -> 1..MaxConfigs \cup {NoVal}]
        /\ \A t \in Sinks : rt[t] \in {NoVal, st.config[t]}
    BY <1>1 DEF Settings
  <2> QED BY <1>1, <1>3, <2>1, <2>2, OperateKeepsOrder DEF UpdateSink, semVars
<1>4. ASSUME NEW s \in Sinks, RemoveSink(u, s) PROVE OrderInv'
  <2> DEFINE rest == {t \in Sinks \ {s} : Known(t)}
             rt == [runtime EXCEPT ![s] = NoVal]
             st(d) == [store EXCEPT !.config[s] = 0, !.rules = @ \ {s}, !.default = d]
  <2>1. PICK d \in IF store.default # s THEN {store.default}
                   ELSE IF rest = {} THEN {NoVal} ELSE rest : Operate(u, st(d), rt)
    BY <1>4 DEF RemoveSink
  <2>2. d # s /\ d \in Sinks \cup {NoVal} /\ (d # NoVal => cc[d] # 0)
    BY <1>0, <2>1 DEF Known
  <2>3. st(d) \in Settings /\ Consistent(st(d))
    <3> DEFINE cf == [cc EXCEPT ![s] = 0]
    <3>1. st(d) = [config |-> cf, rules |-> rr \ {s}, default |-> d,
                   width |-> ww]
      <4> DEFINE x == rr \ {s}
                 m == [store EXCEPT !.config[s] = 0]
                 n == [m EXCEPT !.rules = x]
      <4>1. m = [config |-> cf, rules |-> rr, default |-> dd, width |-> ww]
        BY <1>0
      <4>2. store.rules = rr
        BY <1>0
      <4>3. st(d) = [n EXCEPT !.default = d]
        BY <4>2, Zenon
      <4> HIDE DEF m, x, cf, st
      <4>4. n = [config |-> cf, rules |-> x, default |-> dd, width |-> ww]
        BY <4>1
      <4> HIDE DEF n
      <4>5. st(d) = [config |-> cf, rules |-> x, default |-> d, width |-> ww]
        BY <4>3, <4>4
      <4> QED BY <4>5 DEF x
    <3>2. /\ cf \in [Sinks -> 0..MaxConfigs] /\ \A t \in rr \ {s} : cf[t] # 0
          /\ d # NoVal => cf[d] # 0
      BY <1>0, <2>2
    <3> HIDE DEF st, cf
    <3> QED BY <2>2, <3>1, <3>2, <1>0, SettingsMade
  <2>4. rt \in [Sinks -> 1..MaxConfigs \cup {NoVal}]
        /\ \A t \in Sinks : rt[t] \in {NoVal, st(d).config[t]}
    BY <1>1 DEF Settings
  <2>5. UNCHANGED semVars
    BY <1>4 DEF RemoveSink
  <2> HIDE DEF st, rt
  <2> QED BY <1>1, <2>1, <2>3, <2>4, <2>5, OperateKeepsOrder DEF semVars
<1>5. ASSUME NEW d \in Sinks \cup {NoVal}, SetDefault(u, d) PROVE OrderInv'
  <2> DEFINE st == [store EXCEPT !.default = d]
  <2>1. st \in Settings /\ Consistent(st) /\ st.config = store.config
    BY <1>1, <1>5 DEF Settings, Consistent, SetDefault, Known
  <2> QED BY <1>1, <1>5, <2>1, OperateKeepsOrder DEF SetDefault, semVars
<1>6. ASSUME NEW gone \in {{}} \cup {{s} : s \in Sinks},
             NEW new \in {{}} \cup {{s} : s \in Sinks},
             ChangeRules(u, gone, new)
      PROVE  OrderInv'
  <2> DEFINE st == [store EXCEPT !.rules = (@ \ gone) \cup new]
  <2>1. st \in Settings /\ Consistent(st) /\ st.config = store.config
    <3> DEFINE r == (rr \ gone) \cup new
    <3>1. st = [config |-> cc, rules |-> r, default |-> dd,
                width |-> ww]
      BY <1>0, SMTT(30)
    <3>2. r \subseteq Sinks /\ \A t \in r : cc[t] # 0
      BY <1>0, <1>6 DEF ChangeRules, Known
    <3>3. dd # NoVal => cc[dd] # 0
      BY <1>0
    <3> HIDE DEF st, r
    <3> QED BY <3>1, <3>2, <3>3, <1>0, SettingsMade
  <2> QED BY <1>1, <1>6, <2>1, OperateKeepsOrder DEF ChangeRules, semVars
<1>7. ASSUME NEW n \in Widths \ {store.width}, SetMaxConcurrency(u, n) PROVE OrderInv'
  <2> DEFINE st == [store EXCEPT !.width = n]
  <2>1. st \in Settings /\ Consistent(st) /\ st.config = store.config
    BY <1>1 DEF Settings, Consistent
  <2>2. n \in Nat /\ store.width \in Nat
    BY <1>0, WidthsAreNumbers
  <2>3. n < store.width => queue \o Retirement(store.width - n) \in Seq(Waiters)
    <3> HAVE n < store.width
    <3>1. store.width - n \in Nat
      BY <2>2
    <3> QED BY <1>1, <3>1, NobodiesRetire
  <2>4. free' \in Nat /\ queue' \in Seq(Waiters)
    BY <1>1, <1>7, <2>2, <2>3 DEF SetMaxConcurrency
  <2> QED BY <1>1, <1>7, <2>1, <2>4, OperateKeepsOrder DEF SetMaxConcurrency
<1> QED BY <1>2, <1>3, <1>4, <1>5, <1>6, <1>7 DEF UserStep

(* A job that moves on: its place, and with it its token and its status.   *)
LEMMA JobMoves ==
    ASSUME OrderInv, NEW j \in Jobs, NEW l \in JobPlaces, Step(j, l),
           UNCHANGED <<requests, storeVars, jfile, jsink>>,
           queue' \in Seq(Waiters), free' \in Nat, uops' = uops,
           jpc[j] \notin {"none", "save"}, here' \subseteq here, here \ here' \subseteq uploaded,
           uploaded \subseteq uploaded', uploaded' \subseteq Files,
           l = "post" => jfile[j] \in uploaded',
           stopped' = stopped,
           jstat' \in [Jobs -> Terminal \cup {"Absent", "Queued", "Active"}],
           l \in {"queued"} \cup HolderPlaces => jstat'[j] \in {"Queued", "Active"},
           \A k \in Jobs \ {j} : jstat[k] \in {"Queued", "Active"} => jstat'[k] = jstat[k],
           tokens' = IF l \in {"queued"} \cup HolderPlaces THEN tokens \cup {j} ELSE tokens \ {j}
    PROVE  OrderInv'
<1> USE DEF Step, OrderInv, storeVars
<1>1. JobTypes'
  BY DEF JobTypes, Waiters
<1>2. PostIsUploaded' /\ SaversWait'
  BY DEF JobTypes, PostIsUploaded, SaversWait
<1>3. UploadTypeOK'
  BY DEF UploadsInOrder, UploadTypeOK
<1>4. \A k \in Jobs : /\ Live(k)' <=> k \in tokens'
                      /\ Live(k)' => jstat'[k] \in {"Queued", "Active"}
  <2> TAKE k \in Jobs
  <2>1. /\ Live(k) <=> k \in tokens
        /\ Live(k) => jstat[k] \in {"Queued", "Active"}
    BY DEF UploadsInOrder, Live
  <2>2. CASE k = j
    <3>1. Live(k)' <=> l \in {"queued"} \cup HolderPlaces
      BY <2>2 DEF Live, HolderPlaces, JobTypes
    <3> QED BY <2>2, <3>1
  <2>3. CASE k # j
    <3>1. Live(k)' <=> Live(k)
      BY <2>3 DEF Live, JobTypes
    <3>2. k \in tokens' <=> k \in tokens
      BY <2>3
    <3> QED BY <2>1, <2>3, <3>1, <3>2
  <2> QED BY <2>2, <2>3
<1>5. Files \ here' \subseteq uploaded'
  BY DEF UploadsInOrder
<1> QED BY <1>3, <1>1, <1>2, <1>4, <1>5 DEF UploadsInOrder, Consistent

(* Mark leaves the others alone, and a job that was pruned absent.         *)
LEMMA MarkTypes ==
    ASSUME OrderInv, NEW j \in Jobs, NEW s \in Terminal \cup {"Active"}, Mark(j, s)
    PROVE  /\ jstat' \in [Jobs -> Terminal \cup {"Absent", "Queued", "Active"}]
           /\ \A k \in Jobs \ {j} : jstat'[k] = jstat[k]
           /\ jstat[j] # "Absent" => jstat'[j] = s
BY DEF OrderInv, UploadsInOrder, UploadTypeOK, Mark

(* The steps of a job.                                                     *)
LEMMA JobsKeepOrder ==
    ASSUME OrderInv, NEW j \in Jobs, ListJob(j) \/ RunStep(j)
    PROVE  OrderInv'
<1>1. /\ queue \in Seq(Waiters) /\ free \in Nat /\ free + 1 \in Nat
      /\ jstat \in [Jobs -> Terminal \cup {"Absent", "Queued", "Active"}]
      /\ uploaded \subseteq Files /\ jpc[j] \in JobPlaces
      /\ jpc[j] # "none" => jfile[j] \in Files /\ jsink[j] \in Sinks
      /\ jpc[j] = "post" => jfile[j] \in uploaded
      /\ Live(j) <=> j \in tokens
      /\ Live(j) => jstat[j] \in {"Queued", "Active"}
  <2>1. queue \in Seq(Waiters)
    BY DEF OrderInv, JobTypes, Waiters
  <2>2. free \in Nat /\ free + 1 \in Nat
    BY DEF OrderInv, UploadsInOrder, UploadTypeOK
  <2>3. /\ jpc[j] \in JobPlaces
        /\ jpc[j] # "none" => jfile[j] \in Files /\ jsink[j] \in Sinks
        /\ jpc[j] = "post" => jfile[j] \in uploaded
    BY DEF OrderInv, JobTypes, PostIsUploaded
  <2>4. /\ Live(j) <=> j \in tokens
        /\ Live(j) => jstat[j] \in {"Queued", "Active"}
    BY DEF OrderInv, UploadsInOrder, Live
  <2> QED BY <2>1, <2>2, <2>3, <2>4 DEF OrderInv, UploadsInOrder, UploadTypeOK
<1> USE DEF JobPlaces, HolderPlaces, semVars
<1>2. CASE ListJob(j) /\ Known(jsink[j])
  <2>1. PICK S \in Prunes :
           jstat' = [k \in Jobs |-> IF k = j THEN "Queued"
                                    ELSE IF k \in S THEN "Absent" ELSE jstat[k]]
    BY <1>2 DEF ListJob
  <2>2. \A k \in S : jstat[k] \in Terminal
    BY DEF Prunes
  <2>3. /\ jstat' \in [Jobs -> Terminal \cup {"Absent", "Queued", "Active"}]
        /\ jstat'[j] = "Queued"
        /\ \A k \in Jobs \ {j} : jstat[k] \in {"Queued", "Active"} => jstat'[k] = jstat[k]
    BY <1>1, <2>1, <2>2 DEF Terminal
  <2>4. queue' \in Seq(Waiters)
    <3>1. j \in Waiters /\ queue' = Append(queue, j)
      BY <1>2 DEF ListJob, Waiters
    <3> QED BY <1>1, <3>1
  <2>5. /\ Step(j, "queued") /\ tokens' = tokens \cup {j} /\ jpc[j] = "record"
        /\ UNCHANGED <<requests, storeVars, jfile, jsink, free, uops, here, uploaded, stopped>>
    BY <1>2 DEF ListJob
  <2> QED BY <1>1, <2>3, <2>4, <2>5, JobMoves
<1>3. CASE ListJob(j) /\ ~Known(jsink[j])
  <2>1. /\ Step(j, "gone") /\ jpc[j] = "record"
        /\ UNCHANGED <<requests, storeVars, jfile, jsink, jstat, tokens, semVars, uops, here,
                       uploaded, stopped>>
    BY <1>3 DEF ListJob
  <2>2. tokens' = tokens \ {j}
    BY <1>1, <2>1 DEF Live
  <2> QED BY <1>1, <2>1, <2>2, JobMoves
<1>4. CASE StopQueued(j)
  <2>1. PICK i \in DOMAIN queue : queue' = Without(queue, i)
    BY <1>4 DEF StopQueued
  <2>2. queue' \in Seq(Waiters)
    BY <1>1, <2>1, WithoutShifts
  <2> QED BY <1>1, <1>4, <2>2, JobMoves DEF StopQueued
<1>5. CASE StopPermit(j)
  BY <1>1, <1>5, JobMoves DEF StopPermit
<1>6. CASE Activate(j)
  <2>1. Live(j)
    BY <1>6 DEF Activate, Live
  <2>2. tokens' = tokens \cup {j} /\ jpc[j] = "permit" /\ Step(j, "runtime") /\ Mark(j, "Active")
    BY <1>1, <1>6, <2>1 DEF Activate
  <2> QED BY <1>1, <1>6, <2>1, <2>2, MarkTypes, JobMoves DEF Activate
<1>7. CASE SinkRuntime(j)
  <2> DEFINE s == jsink[j]
  <2>1. s \in Sinks
    BY <1>1, <1>7 DEF SinkRuntime
  <2>2. /\ runtime' \in [Sinks -> 1..MaxConfigs \cup {NoVal}]
        /\ \A t \in Sinks : runtime'[t] \in {NoVal, store.config[t]}
    <3>1. /\ runtime \in [Sinks -> 1..MaxConfigs \cup {NoVal}]
          /\ \A t \in Sinks : runtime[t] \in {NoVal, store.config[t]}
      BY DEF OrderInv, UploadsInOrder, UploadTypeOK
    <3>2. store.config \in [Sinks -> 0..MaxConfigs]
      BY StoreFields
    <3>3. Known(s) => store.config[s] \in 1..MaxConfigs
      BY <2>1, <3>2, UploadBounds DEF Known
    <3>4. \/ runtime' = runtime
          \/ Known(s) /\ runtime' = [runtime EXCEPT ![s] = store.config[s]]
      <4> HIDE DEF JobPlaces, HolderPlaces, semVars
      <4> QED BY <1>7 DEF SinkRuntime
    <3> QED BY <2>1, <3>1, <3>3, <3>4
  <2>3. /\ jpc[j] = "runtime" /\ jpc' = [jpc EXCEPT ![j] = "uploading"]
        /\ UNCHANGED <<requests, store, stored, saving, jfile, jsink, jstat, tokens, stopped,
                       free, queue, uops, here, uploaded>>
    BY <1>7 DEF SinkRuntime, Step
  <2>4. JobTypes' /\ PostIsUploaded' /\ SaversWait'
    BY <2>3 DEF OrderInv, JobTypes, PostIsUploaded, SaversWait
  <2>5. UploadTypeOK'
    BY <2>2, <2>3 DEF OrderInv, UploadsInOrder, UploadTypeOK
  <2>6. \A k \in Jobs : Live(k)' <=> Live(k)
    BY <2>3 DEF Live, OrderInv, JobTypes
  <2> QED BY <2>2, <2>3, <2>4, <2>5, <2>6 DEF OrderInv, UploadsInOrder, Consistent
<1>8. CASE UploadOk(j)
  BY <1>1, <1>8, JobMoves DEF UploadOk
<1>9. CASE UploadFails(j)
  <2> DEFINE l == IF j \in stopped THEN "cancelled" ELSE "failed"
  <2>1. l \in JobPlaces /\ l \notin {"queued", "post"} \cup HolderPlaces
    OBVIOUS
  <2>2. Step(j, l)
    BY <1>9 DEF UploadFails
  <2> HIDE DEF l
  <2> QED BY <1>1, <1>9, <2>1, <2>2, JobMoves DEF UploadFails
<1>10. CASE UploadRetries(j)
  <2>1. UNCHANGED <<requests, storeVars, jfile, jsink, jstat, jpc, tokens, stopped, semVars, uops,
                    here, uploaded>>
    BY <1>10 DEF UploadRetries
  <2> QED BY <2>1 DEF OrderInv, JobTypes, PostIsUploaded, SaversWait, UploadsInOrder,
                      UploadTypeOK, Consistent, Live, storeVars
<1>11. CASE PostAction(j)
  <2>1. tokens' = tokens \ {j} /\ jpc[j] = "post" /\ Step(j, "touch") /\ Mark(j, "Complete")
    BY <1>1, <1>11 DEF PostAction, Live
  <2> QED BY <1>1, <1>11, <2>1, MarkTypes, JobMoves DEF PostAction, Terminal
<1>12. CASE Finish(j)
  <2>1. PICK s \in Terminal : Mark(j, s)
    BY <1>12 DEF Finish, Terminal
  <2>2. tokens' = tokens \ {j} /\ jpc[j] \notin {"none", "save"} /\ Step(j, "gone")
    BY <1>1, <1>12 DEF Finish, Live
  <2> QED BY <1>1, <1>12, <2>1, <2>2, MarkTypes, JobMoves DEF Finish
<1>13. CASE TouchSink(j)
  <2> DEFINE l == IF Known(jsink[j]) THEN "save" ELSE "gone"
  <2>1. l \in JobPlaces /\ l \notin {"queued", "post"} \cup HolderPlaces
    OBVIOUS
  <2>2. Step(j, l) /\ jpc[j] = "touch" /\ tokens' = tokens \ {j}
    BY <1>1, <1>13 DEF TouchSink, Live
  <2> HIDE DEF l
  <2> QED BY <1>1, <1>13, <2>1, <2>2, JobMoves DEF TouchSink
<1> QED BY <1>2, <1>3, <1>4, <1>5, <1>6, <1>7, <1>8, <1>9, <1>10, <1>11, <1>12, <1>13 DEF RunStep

(* The other steps: requests, permits, cancellations, the history, saves.  *)
LEMMA OthersKeepOrder ==
    ASSUME OrderInv, QueueInv
    PROVE  /\ \A f \in Files : Request(f) \/ Unwanted(f) => OrderInv'
           /\ \A j \in Jobs, f \in Files, s \in Sinks : PickSink(j, f, s) => OrderInv'
           /\ Grant \/ ClearHistory => OrderInv'
           /\ \A j \in Jobs : CancelJob(j) => OrderInv'
           /\ \A p \in Savers : SaveSnapshot(p) \/ SaveWrite(p) => OrderInv'
           /\ UNCHANGED uploadVars => OrderInv'
<1> USE DEF OrderInv, storeVars, jobVars, semVars
<1>1. ASSUME NEW f \in Files, Request(f) \/ Unwanted(f) PROVE OrderInv'
  <2>1. /\ requests' \subseteq Files
        /\ UNCHANGED <<storeVars, jobVars, semVars, uops, here, uploaded>>
    BY <1>1 DEF Request, Unwanted, UploadsInOrder, UploadTypeOK
  <2> QED BY <2>1 DEF JobTypes, PostIsUploaded, SaversWait, UploadsInOrder,
              UploadTypeOK, Consistent, Live
<1>2. ASSUME NEW j \in Jobs, NEW f \in Files, NEW s \in Sinks, PickSink(j, f, s) PROVE OrderInv'
  <2> USE <1>2 DEF PickSink, Step
  <2>1. JobTypes'
    BY DEF JobTypes, JobPlaces
  <2>2. PostIsUploaded' /\ SaversWait'
    BY DEF JobTypes, PostIsUploaded, SaversWait
  <2>3. UploadTypeOK'
    BY DEF UploadsInOrder, UploadTypeOK
  <2>4. \A k \in Jobs : Live(k)' <=> Live(k)
    BY DEF Live, JobTypes
  <2> QED BY <2>1, <2>2, <2>3, <2>4 DEF UploadsInOrder, Consistent
<1>3. ASSUME Grant PROVE OrderInv'
  <2>1. /\ UNCHANGED <<requests, storeVars, jfile, jsink, jstat, tokens, stopped, uops, here,
                       uploaded>>
        /\ free' \in Nat
    BY <1>3 DEF Grant, UploadsInOrder, UploadTypeOK
  <2>2. queue' \in Seq(Jobs \cup {NoVal})
    BY <1>3 DEF Grant, JobTypes
  <2>3. \/ jpc' = jpc
        \/ \E j \in Jobs : jpc[j] = "queued" /\ jpc' = [jpc EXCEPT ![j] = "permit"]
    <3>1. Head(queue) = queue[1] /\ 1 \in DOMAIN queue
      BY <1>3 DEF Grant, JobTypes
    <3> QED BY <1>3, <3>1 DEF Grant, Step, QueueInv
  <2>4. JobTypes' /\ PostIsUploaded' /\ SaversWait'
    BY <2>1, <2>2, <2>3 DEF JobTypes, PostIsUploaded, SaversWait, JobPlaces
  <2>5. UploadTypeOK'
    BY <2>1 DEF UploadsInOrder, UploadTypeOK
  <2>6. \A k \in Jobs : Live(k)' <=> Live(k)
    BY <2>3 DEF Live, JobTypes
  <2> QED BY <2>1, <2>4, <2>5, <2>6 DEF UploadsInOrder, Consistent
<1>4. ASSUME ClearHistory PROVE OrderInv'
  <2> USE <1>4 DEF ClearHistory
  <2>1. JobTypes' /\ PostIsUploaded' /\ SaversWait'
    BY DEF JobTypes, PostIsUploaded, SaversWait
  <2>2. UploadTypeOK'
    BY UploadBounds DEF UploadsInOrder, UploadTypeOK
  <2> QED BY <2>1, <2>2 DEF UploadsInOrder, UploadTypeOK, Consistent, Live, Terminal
<1>5. ASSUME NEW j \in Jobs, CancelJob(j) PROVE OrderInv'
  <2> USE <1>5 DEF CancelJob
  <2>1. JobTypes' /\ PostIsUploaded' /\ SaversWait'
    BY DEF JobTypes, PostIsUploaded, SaversWait
  <2>2. UploadTypeOK'
    BY UploadBounds DEF UploadsInOrder, UploadTypeOK
  <2> QED BY <2>1, <2>2 DEF UploadsInOrder, Consistent, Live
<1>6. ASSUME NEW p \in Savers, SaveSnapshot(p) PROVE OrderInv'
  <2> USE <1>6 DEF SaveSnapshot
  <2>1. JobTypes' /\ PostIsUploaded' /\ SaversWait'
    BY UploadNames DEF JobTypes, PostIsUploaded, SaversWait, UploadsInOrder, UploadTypeOK, Savers
  <2>2. UploadTypeOK'
    BY DEF UploadsInOrder, UploadTypeOK
  <2>3. \A q \in Savers : saving'[q] # NoVal => Consistent(saving'[q])
    BY DEF UploadsInOrder, UploadTypeOK
  <2> QED BY <2>1, <2>2, <2>3 DEF UploadsInOrder, Consistent, Live
<1>7. ASSUME NEW p \in Savers, SaveWrite(p) PROVE OrderInv'
  <2> USE <1>7 DEF SaveWrite
  <2>1. \/ jpc' = jpc
        \/ p \in Jobs /\ jpc' = [jpc EXCEPT ![p] = "gone"]
    BY DEF Step, Savers
  <2>2. p \in Jobs => jpc[p] = "save"
    BY DEF SaversWait
  <2>3. stored' \in Settings /\ Consistent(stored)'
    BY DEF UploadsInOrder, UploadTypeOK, Consistent
  <2>4. JobTypes' /\ PostIsUploaded'
    BY <2>1, <2>2 DEF JobTypes, PostIsUploaded, JobPlaces
  <2>5. SaversWait'
    BY <2>1 DEF SaversWait, JobTypes, Savers, UploadsInOrder, UploadTypeOK
  <2>6. UploadTypeOK'
    BY <2>3 DEF UploadsInOrder, UploadTypeOK
  <2>7. \A k \in Jobs : Live(k)' <=> Live(k)
    BY <2>1, <2>2 DEF Live, JobTypes
  <2>8. \A q \in Savers : saving'[q] # NoVal => Consistent(saving'[q])
    BY DEF UploadsInOrder, UploadTypeOK
  <2> QED BY <2>3, <2>4, <2>5, <2>6, <2>7, <2>8 DEF UploadsInOrder, Consistent
<1>8. ASSUME UNCHANGED uploadVars PROVE OrderInv'
  BY <1>8 DEF uploadVars, JobTypes, PostIsUploaded, SaversWait, UploadsInOrder,
              UploadTypeOK, Consistent, Live
<1> QED BY <1>1, <1>2, <1>3, <1>4, <1>5, <1>6, <1>7, <1>8

-----------------------------------------------------------------------------
(* The queue and the permits.                                              *)

(* Jobs and waiters that do not move keep the queue in order.              *)
LEMMA QueueStays ==
    ASSUME QueueInv, UNCHANGED queue,
           \A j \in Jobs : jpc[j] = "queued" => jpc'[j] = "queued"
    PROVE  QueueInv'
BY DEF QueueInv

(* Every step keeps the queue in order.                                    *)
LEMMA QueueKept ==
    ASSUME OrderInv, QueueInv, [UploadNext \/ \E f \in Files : Request(f)]_uploadVars
    PROVE  QueueInv'
<1>1. jpc \in [Jobs -> JobPlaces] /\ queue \in Seq(Waiters) /\ NoVal \notin Jobs
  BY UploadNames DEF OrderInv, JobTypes, Waiters
<1> USE DEF jobVars, semVars, Step
<1>2. ASSUME NEW f \in Files, Request(f) \/ Unwanted(f) PROVE QueueInv'
  BY <1>2, QueueStays DEF Request, Unwanted
<1>3. ASSUME NEW j \in Jobs, NEW f \in Files, NEW s \in Sinks, PickSink(j, f, s) PROVE QueueInv'
  BY <1>1, <1>3, QueueStays DEF PickSink
<1>4. ASSUME Grant PROVE QueueInv'
  <2>1. /\ queue' = Tail(queue) /\ Len(queue) \in Nat \ {0} /\ Head(queue) = queue[1]
        /\ DOMAIN queue = 1..Len(queue) /\ DOMAIN queue' = 1..(Len(queue) - 1)
        /\ \A i \in DOMAIN queue' : i + 1 \in DOMAIN queue /\ queue'[i] = queue[i + 1]
    BY <1>1, <1>4 DEF Grant
  <2>2. \A i \in DOMAIN queue' : queue'[i] \in Jobs => queue'[i] # Head(queue)
    <3> SUFFICES ASSUME NEW i \in DOMAIN queue', queue'[i] \in Jobs, queue[i + 1] = queue[1]
                 PROVE  FALSE
      BY <2>1
    <3> QED BY <2>1 DEF QueueInv
  <2>3. \A j \in Jobs : j # Head(queue) => jpc'[j] = jpc[j]
    BY <1>1, <1>4 DEF Grant
  <2> QED BY <2>1, <2>2, <2>3 DEF QueueInv
<1>5. ASSUME NEW j \in Jobs, ListJob(j) PROVE QueueInv'
  <2>1. CASE Known(jsink[j])
    <3>1. /\ queue' = Append(queue, j) /\ jpc[j] = "record"
          /\ jpc' = [jpc EXCEPT ![j] = "queued"]
      BY <1>5, <2>1 DEF ListJob
    <3>2. /\ DOMAIN queue = 1..Len(queue) /\ DOMAIN queue' = 1..(Len(queue) + 1)
          /\ Len(queue) \in Nat
          /\ \A i \in 1..Len(queue) : queue'[i] = queue[i]
          /\ queue'[Len(queue) + 1] = j
      BY <1>1, <3>1
    <3>3. \A i \in DOMAIN queue : queue[i] # j
      BY <3>1 DEF QueueInv
    <3>4. \A i \in DOMAIN queue' : queue'[i] \in Jobs => jpc'[queue'[i]] = "queued"
      BY <1>1, <3>1, <3>2, <3>3 DEF QueueInv
    <3>5. \A i, k \in DOMAIN queue' : queue'[i] \in Jobs /\ queue'[i] = queue'[k] => i = k
      BY <3>2, <3>3 DEF QueueInv
    <3> QED BY <3>4, <3>5 DEF QueueInv
  <2>2. CASE ~Known(jsink[j])
    BY <1>1, <1>5, <2>2, QueueStays DEF ListJob
  <2> QED BY <2>1, <2>2
<1>6. ASSUME NEW j \in Jobs, StopQueued(j) PROVE QueueInv'
  <2>1. PICK i \in DOMAIN queue : queue[i] = j /\ queue' = Without(queue, i)
    BY <1>6 DEF StopQueued
  <2>2. /\ Len(queue) \in Nat /\ i \in 1..Len(queue) /\ DOMAIN queue' = 1..(Len(queue) - 1)
        /\ DOMAIN queue = 1..Len(queue)
        /\ \A k \in DOMAIN queue' : queue'[k] = IF k < i THEN queue[k] ELSE queue[k + 1]
    BY <1>1, <2>1, WithoutShifts
  <2>3. jpc' = [jpc EXCEPT ![j] = "cancelled"]
    BY <1>6 DEF StopQueued
  <2> DEFINE g(k) == IF k < i THEN k ELSE k + 1
  <2>4. \A k \in DOMAIN queue' : g(k) \in DOMAIN queue /\ g(k) # i /\ queue'[k] = queue[g(k)]
    BY <2>2
  <2>5. \A k, m \in DOMAIN queue' : g(k) = g(m) => k = m
    BY <2>2
  <2> HIDE DEF g
  <2>6. \A k \in DOMAIN queue' : queue'[k] \in Jobs => queue'[k] # j /\ jpc[queue'[k]] = "queued"
    BY <2>1, <2>4 DEF QueueInv
  <2>7. \A k, m \in DOMAIN queue' : queue'[k] \in Jobs /\ queue'[k] = queue'[m] => k = m
    BY <2>4, <2>5 DEF QueueInv
  <2> QED BY <1>1, <2>3, <2>6, <2>7 DEF QueueInv
<1>7. ASSUME NEW j \in Jobs, RunStep(j), ~StopQueued(j) PROVE QueueInv'
  <2>1. CASE StopPermit(j) \/ Activate(j) \/ SinkRuntime(j) \/ UploadOk(j)
    BY <1>1, <2>1, QueueStays DEF StopPermit, Activate, SinkRuntime, UploadOk
  <2>2. CASE UploadFails(j) \/ UploadRetries(j)
    BY <1>1, <2>2, QueueStays DEF UploadFails, UploadRetries
  <2>3. CASE PostAction(j) \/ Finish(j) \/ TouchSink(j)
    BY <1>1, <2>3, QueueStays DEF PostAction, Finish, TouchSink
  <2> QED BY <1>7, <2>1, <2>2, <2>3 DEF RunStep
<1>8. ASSUME NEW u \in Users, UserStep(u), ~SaveSnapshot(u), ~SaveWrite(u) PROVE QueueInv'
  <2>1. CASE \E n \in Widths \ {store.width} : SetMaxConcurrency(u, n)
    <3>1. PICK n \in Widths \ {store.width} : SetMaxConcurrency(u, n)
      BY <2>1
    <3>2. jpc' = jpc /\ queue' = IF n < store.width THEN queue \o Retirement(store.width - n)
                                                    ELSE queue
      BY <3>1 DEF SetMaxConcurrency, Operate
    <3>3. CASE n < store.width
      <4>1. store.width - n \in Nat
        BY <3>3, StoreFields, WidthsAreNumbers
      <4>2. \A i \in DOMAIN queue' :
               queue'[i] \in Jobs => i \in DOMAIN queue /\ queue'[i] = queue[i]
        <5> DEFINE m == store.width - n
        <5>1. queue' = queue \o Retirement(m)
          BY <3>2, <3>3
        <5> HIDE DEF m
        <5>2. \A i \in DOMAIN (queue \o Retirement(m)) :
                 (queue \o Retirement(m))[i] \in Jobs =>
                    i \in DOMAIN queue /\ (queue \o Retirement(m))[i] = queue[i]
          BY <1>1, <4>1, NobodiesRetire DEF m
        <5> QED BY <5>1, <5>2
      <4> QED BY <3>2, <4>2 DEF QueueInv
    <3>4. CASE ~(n < store.width)
      BY <3>2, <3>4, QueueStays
    <3> QED BY <3>3, <3>4
  <2>2. CASE ~ \E n \in Widths \ {store.width} : SetMaxConcurrency(u, n)
    <3>1. UNCHANGED <<jpc, queue>>
      BY <1>8, <2>2 DEF UserStep, AddSink, UpdateSink, RemoveSink, SetDefault, ChangeRules, Operate
    <3> QED BY <3>1, QueueStays
  <2> QED BY <2>1, <2>2
<1>9. ASSUME NEW p \in Savers, SaveSnapshot(p) \/ SaveWrite(p) PROVE QueueInv'
  <2>1. /\ UNCHANGED queue
        /\ \/ jpc' = jpc
           \/ p \in Jobs /\ jpc[p] = "save" /\ Step(p, "gone")
    <3>1. CASE SaveSnapshot(p)
      BY <3>1 DEF SaveSnapshot
    <3>2. CASE SaveWrite(p)
      <4>1. p \in Jobs => jpc[p] = "save"
        BY <3>2 DEF SaveWrite, OrderInv, SaversWait
      <4>2. /\ UNCHANGED queue
            /\ \/ p \in Users /\ jpc' = jpc
               \/ p \notin Users /\ Step(p, "gone")
        BY <3>2 DEF SaveWrite
      <4> QED BY <4>1, <4>2 DEF Savers
    <3> QED BY <1>9, <3>1, <3>2
  <2> QED BY <1>1, <2>1, QueueStays
<1>10. ASSUME NEW j \in Jobs, CancelJob(j) PROVE QueueInv'
  BY <1>10, QueueStays DEF CancelJob
<1>11. CASE ClearHistory
  BY <1>11, QueueStays DEF ClearHistory
<1>12. CASE UNCHANGED uploadVars
  BY <1>12, QueueStays DEF uploadVars
<1> QED BY <1>2, <1>3, <1>4, <1>5, <1>6, <1>7, <1>8, <1>9, <1>10, <1>11, <1>12
        DEF UploadNext, JobStep, UserStep, Savers

(* Nobody takes or returns a permit, and the limit is as it was.           *)
LEMMA PermitsStay ==
    ASSUME PermitInv, UNCHANGED semVars, store'.width = store.width, Holders' = Holders
    PROVE  PermitInv'
BY DEF PermitInv, PermitsAccounted, Retiring, semVars

(* A job returns its permit.                                               *)
LEMMA PermitReturned ==
    ASSUME OrderInv, PermitInv, NEW j \in Holders, free' = free + 1, UNCHANGED queue,
           store'.width = store.width, Holders' = Holders \ {j}
    PROVE  PermitInv'
<1>1. IsFiniteSet(Holders') /\ Cardinality(Holders') = Cardinality(Holders) - 1
  BY FS_RemoveElement DEF PermitInv
<1>2. Cardinality(Holders) \in Nat /\ free \in Nat
  BY FS_CardinalityType DEF PermitInv, OrderInv, UploadsInOrder, UploadTypeOK
<1>3. Cardinality(Retiring)' = Cardinality(Retiring)
  BY DEF Retiring
<1> QED BY <1>1, <1>2, <1>3 DEF PermitInv, PermitsAccounted

(* Every step keeps the permits accounted for.                             *)
LEMMA PermitsKept ==
    ASSUME OrderInv, QueueInv, PermitInv, [UploadNext \/ \E f \in Files : Request(f)]_uploadVars
    PROVE  PermitInv'
<1>1. /\ jpc \in [Jobs -> JobPlaces] /\ queue \in Seq(Waiters) /\ NoVal \notin Jobs
      /\ Retiring = Nobodies(queue) /\ Retiring' = Nobodies(queue')
  BY UploadNames DEF OrderInv, JobTypes, Waiters, Retiring, Nobodies
<1>2. /\ IsFiniteSet(Holders) /\ Cardinality(Holders) \in Nat /\ free \in Nat
      /\ store.width \in Nat /\ IsFiniteSet(Retiring) /\ Cardinality(Retiring) \in Nat
      /\ free + Cardinality(Holders) = store.width + Cardinality(Retiring)
  <2>1. IsFiniteSet(Holders) /\ free + Cardinality(Holders) = store.width + Cardinality(Retiring)
    BY DEF PermitInv, PermitsAccounted
  <2>2. Cardinality(Holders) \in Nat
    BY <2>1, FS_CardinalityType
  <2>3. free \in Nat /\ store.width \in Nat
    BY StoreFields, WidthsAreNumbers DEF OrderInv, UploadsInOrder, UploadTypeOK
  <2>4. IsFiniteSet(Retiring) /\ Cardinality(Retiring) \in Nat
    BY <1>1, NobodiesFinite
  <2> QED BY <2>1, <2>2, <2>3, <2>4
<1> USE DEF jobVars, semVars, storeVars, Step
<1>3. ASSUME NEW f \in Files, Request(f) \/ Unwanted(f) PROVE PermitInv'
  BY <1>3, PermitsStay DEF Request, Unwanted, Holders
<1>4. ASSUME NEW j \in Jobs, NEW f \in Files, NEW s \in Sinks, PickSink(j, f, s) PROVE PermitInv'
  <2>1. Holders' = Holders
    BY <1>1, <1>4 DEF PickSink, Holders
  <2> QED BY <1>4, <2>1, PermitsStay DEF PickSink
<1>5. ASSUME Grant PROVE PermitInv'
  <2>1. queue # <<>> /\ queue' = Tail(queue) /\ free' = free - 1 /\ store' = store
    BY <1>5 DEF Grant
  <2>2. Cardinality(Retiring) = Cardinality(Retiring') + (IF Head(queue) = NoVal THEN 1 ELSE 0)
    BY <1>1, <2>1, NobodiesTail
  <2>3. Cardinality(Retiring') \in Nat
    <3>1. queue' \in Seq(Waiters)
      BY <1>1, <2>1
    <3> QED BY <1>1, <3>1, NobodiesFinite
  <2>4. CASE Head(queue) \in Jobs
    <3> DEFINE j == Head(queue)
    <3>1. jpc[j] = "queued" /\ jpc' = [jpc EXCEPT ![j] = "permit"]
      <4>1. Head(queue) = queue[1] /\ 1 \in DOMAIN queue
        BY <1>1, <2>1
      <4> QED BY <1>5, <2>4, <4>1 DEF Grant, QueueInv
    <3>2. j \notin Holders /\ Holders' = Holders \cup {j}
      BY <1>1, <2>4, <3>1 DEF Holders
    <3>3. IsFiniteSet(Holders') /\ Cardinality(Holders') = Cardinality(Holders) + 1
      BY <1>2, <3>2, FS_AddElement
    <3>4. Cardinality(Retiring') = Cardinality(Retiring)
      BY <1>1, <1>2, <2>2, <2>3, <2>4
    <3> QED BY <1>2, <2>1, <3>3, <3>4 DEF PermitInv, PermitsAccounted
  <2>5. CASE Head(queue) \notin Jobs
    <3>1. Head(queue) = NoVal
      BY <1>1, <2>1, <2>5 DEF Waiters
    <3>2. Holders' = Holders
      BY <1>5, <2>5 DEF Grant, Holders
    <3> QED BY <1>2, <2>1, <2>2, <2>3, <3>1, <3>2 DEF PermitInv, PermitsAccounted
  <2> QED BY <2>4, <2>5
<1>6. ASSUME NEW j \in Jobs, ListJob(j) PROVE PermitInv'
  <2>1. Holders' = Holders
    BY <1>1, <1>6 DEF ListJob, Holders
  <2>2. Retiring' = Retiring /\ free' = free /\ store' = store
    BY <1>1, <1>6, NobodiesAppend DEF ListJob
  <2> QED BY <1>2, <2>1, <2>2 DEF PermitInv, PermitsAccounted
<1>7. ASSUME NEW j \in Jobs, StopQueued(j) PROVE PermitInv'
  <2>1. PICK i \in DOMAIN queue : queue[i] = j /\ queue' = Without(queue, i)
    BY <1>7 DEF StopQueued
  <2>2. Cardinality(Retiring') = Cardinality(Retiring)
    BY <1>1, <2>1, NobodiesWithout
  <2>3. Holders' = Holders
    BY <1>1, <1>7 DEF StopQueued, Holders
  <2> QED BY <1>2, <1>7, <2>2, <2>3 DEF PermitInv, PermitsAccounted, StopQueued
<1>8. ASSUME NEW j \in Jobs, StopPermit(j) \/ UploadOk(j) \/ UploadFails(j) PROVE PermitInv'
  <2>1. /\ jpc[j] \in HolderPlaces /\ free' = free + 1 /\ queue' = queue /\ store' = store
        /\ \E l \in JobPlaces \ HolderPlaces : jpc' = [jpc EXCEPT ![j] = l]
    BY <1>8 DEF StopPermit, UploadOk, UploadFails, JobPlaces, HolderPlaces
  <2>2. j \in Holders /\ Holders' = Holders \ {j}
    BY <1>1, <2>1 DEF Holders, HolderPlaces
  <2> QED BY <2>1, <2>2, PermitReturned
<1>9. ASSUME NEW j \in Jobs, \/ Activate(j) \/ SinkRuntime(j) \/ UploadRetries(j)
                             \/ PostAction(j) \/ Finish(j) \/ TouchSink(j)
      PROVE  PermitInv'
  <2>1. CASE Activate(j) \/ SinkRuntime(j)
    <3>1. Holders' = Holders
      BY <1>1, <2>1 DEF Activate, SinkRuntime, Holders
    <3> QED BY <2>1, <3>1, PermitsStay DEF Activate, SinkRuntime
  <2>2. CASE UploadRetries(j)
    BY <2>2, PermitsStay DEF UploadRetries, Holders
  <2>3. CASE PostAction(j) \/ Finish(j) \/ TouchSink(j)
    <3>1. Holders' = Holders
      BY <1>1, <2>3 DEF PostAction, Finish, TouchSink, Holders
    <3> QED BY <2>3, <3>1, PermitsStay DEF PostAction, Finish, TouchSink
  <2> QED BY <1>9, <2>1, <2>2, <2>3
<1>10. ASSUME NEW u \in Users, NEW n \in Widths \ {store.width}, SetMaxConcurrency(u, n)
       PROVE  PermitInv'
  <2>1. /\ Holders' = Holders /\ store'.width = n /\ n \in Nat /\ n # store.width
        /\ free' = IF n > store.width THEN free + (n - store.width) ELSE free
        /\ queue' = IF n < store.width THEN queue \o Retirement(store.width - n) ELSE queue
    <3>1. store' = [store EXCEPT !.width = n] /\ Holders' = Holders
      BY <1>10 DEF SetMaxConcurrency, Operate, Holders
    <3>2. store'.width = n
      BY <3>1, StoreFields
    <3> QED BY <1>10, <3>1, <3>2, WidthsAreNumbers DEF SetMaxConcurrency
  <2>2. CASE n > store.width
    <3>1. Retiring' = Retiring
      BY <1>2, <2>1, <2>2 DEF Retiring
    <3> QED BY <1>2, <2>1, <2>2, <3>1 DEF PermitInv, PermitsAccounted
  <2>3. CASE n < store.width
    <3> DEFINE m == store.width - n
    <3>1. m \in Nat /\ queue' = queue \o Retirement(m) /\ free' = free
      BY <1>2, <2>1, <2>3
    <3>2. store.width = n + m
      BY <1>2, <2>1, <2>3
    <3> HIDE DEF m
    <3>3. Cardinality(Retiring') = Cardinality(Retiring) + m
      BY <1>1, <3>1, NobodiesRetire
    <3> QED BY <1>2, <2>1, <3>1, <3>2, <3>3 DEF PermitInv, PermitsAccounted
  <2> QED BY <1>2, <2>1, <2>2, <2>3
<1>11. ASSUME NEW u \in Users, UserStep(u), ~SaveSnapshot(u), ~SaveWrite(u),
              \A n \in Widths \ {store.width} : ~SetMaxConcurrency(u, n)
       PROVE  PermitInv'
  <2>1. PICK st, rt : Operate(u, st, rt) /\ UNCHANGED semVars /\ st.width = store.width
    <3>0. PICK cc, rr, dd, ww : store = [config |-> cc, rules |-> rr, default |-> dd, width |-> ww]
      BY StoreFields
    <3>1. ASSUME NEW s \in Sinks, NEW c \in 1..MaxConfigs, AddSink(u, s, c)
          PROVE  \E st, rt : Operate(u, st, rt) /\ UNCHANGED semVars /\ st.width = store.width
      <4> DEFINE m == [store EXCEPT !.config[s] = c]
                 st == [store EXCEPT !.config[s] = c, !.default = IF @ = NoVal THEN s ELSE @]
      <4>1. m = [config |-> [cc EXCEPT ![s] = c], rules |-> rr, default |-> dd, width |-> ww]
        BY <3>0
      <4>2. st = [m EXCEPT !.default = IF @ = NoVal THEN s ELSE @]
        BY Zenon
      <4>3. Operate(u, st, runtime) /\ UNCHANGED semVars
        BY <3>1 DEF AddSink
      <4> HIDE DEF m, st
      <4>4. st.width = store.width
        BY <3>0, <4>1, <4>2
      <4> QED BY <4>3, <4>4
    <3>2. ASSUME NEW s \in Sinks, NEW c \in 1..MaxConfigs, UpdateSink(u, s, c)
          PROVE  \E st, rt : Operate(u, st, rt) /\ UNCHANGED semVars /\ st.width = store.width
      BY <3>0, <3>2 DEF UpdateSink
    <3>3. ASSUME NEW s \in Sinks, RemoveSink(u, s)
          PROVE  \E st, rt : Operate(u, st, rt) /\ UNCHANGED semVars /\ st.width = store.width
      <4> DEFINE rt == [runtime EXCEPT ![s] = NoVal]
                 m == [store EXCEPT !.config[s] = 0]
                 x == store.rules \ {s}
                 n == [m EXCEPT !.rules = x]
                 st(d) == [store EXCEPT !.config[s] = 0, !.rules = @ \ {s}, !.default = d]
      <4>1. PICK d : Operate(u, st(d), rt) /\ UNCHANGED semVars
        BY <3>3 DEF RemoveSink
      <4>2. m = [config |-> [cc EXCEPT ![s] = 0], rules |-> rr, default |-> dd, width |-> ww]
        BY <3>0
      <4>3. st(d) = [n EXCEPT !.default = d]
        BY Zenon
      <4> HIDE DEF m, x, st, rt
      <4>4. n = [config |-> [cc EXCEPT ![s] = 0], rules |-> x, default |-> dd, width |-> ww]
        BY <4>2
      <4> HIDE DEF n
      <4>5. st(d).width = store.width
        BY <3>0, <4>3, <4>4
      <4> QED BY <4>1, <4>5
    <3>4. ASSUME NEW d \in Sinks \cup {NoVal}, SetDefault(u, d)
          PROVE  \E st, rt : Operate(u, st, rt) /\ UNCHANGED semVars /\ st.width = store.width
      BY <3>0, <3>4 DEF SetDefault
    <3>5. ASSUME NEW gone, NEW new, ChangeRules(u, gone, new)
          PROVE  \E st, rt : Operate(u, st, rt) /\ UNCHANGED semVars /\ st.width = store.width
      BY <3>0, <3>5 DEF ChangeRules
    <3> QED BY <1>11, <3>1, <3>2, <3>3, <3>4, <3>5 DEF UserStep
  <2>2. store'.width = store.width /\ Holders' = Holders
    BY <2>1 DEF Operate, Holders
  <2> QED BY <2>1, <2>2, PermitsStay
<1>12. ASSUME NEW p \in Savers, SaveSnapshot(p) \/ SaveWrite(p) PROVE PermitInv'
  <2>1. CASE SaveSnapshot(p)
    BY <2>1, PermitsStay DEF SaveSnapshot, Holders
  <2>2. CASE SaveWrite(p)
    <3>1. p \in Jobs => jpc[p] = "save"
      BY <2>2 DEF SaveWrite, OrderInv, SaversWait
    <3>2. /\ UNCHANGED semVars /\ store' = store
          /\ (p \in Users /\ jpc' = jpc) \/ (p \in Jobs /\ Step(p, "gone"))
      BY <2>2 DEF SaveWrite, Savers
    <3>3. Holders' = Holders
      BY <1>1, <3>1, <3>2 DEF Holders
    <3> QED BY <3>2, <3>3, PermitsStay
  <2> QED BY <1>12, <2>1, <2>2
<1>13. ASSUME NEW j \in Jobs, CancelJob(j) PROVE PermitInv'
  BY <1>13, PermitsStay DEF CancelJob, Holders
<1>14. CASE ClearHistory
  BY <1>14, PermitsStay DEF ClearHistory, Holders
<1>15. CASE UNCHANGED uploadVars
  BY <1>15, PermitsStay DEF uploadVars, Holders
<1> QED BY <1>3, <1>4, <1>5, <1>6, <1>7, <1>8, <1>9, <1>10, <1>11, <1>12, <1>13, <1>14, <1>15
        DEF UploadNext, JobStep, RunStep, UserStep, Savers

-----------------------------------------------------------------------------
(* The theorems.                                                           *)

(* No job, and all permits free, at first.                                 *)
LEMMA UploadInitInv == UploadInit => UploadInv
<1> SUFFICES ASSUME UploadInit PROVE UploadInv
  OBVIOUS
<1>1. OrderInv
  BY InitOrder
<1>2. QueueInv
  BY DEF UploadInit, QueueInv
<1>3. Holders = {} /\ Retiring = {} /\ free = store.width
  BY DEF UploadInit, Holders, Retiring
<1>4. store.width \in Nat
  BY <1>1, StoreFields, WidthsAreNumbers
<1>5. PermitInv
  BY <1>3, <1>4, FS_EmptySet DEF PermitInv, PermitsAccounted
<1> QED BY <1>1, <1>2, <1>5 DEF UploadInv

(* Every step keeps the invariant.                                         *)
LEMMA InvKept == UploadInv /\ [UploadNext \/ \E f \in Files : Request(f)]_uploadVars => UploadInv'
<1> SUFFICES ASSUME UploadInv, [UploadNext \/ \E f \in Files : Request(f)]_uploadVars
         PROVE  UploadInv'
  OBVIOUS
<1>1. OrderInv'
  BY UsersKeepOrder, JobsKeepOrder, OthersKeepOrder
     DEF UploadInv, UploadNext, JobStep, UserStep, Savers
<1> QED BY <1>1, QueueKept, PermitsKept DEF UploadInv

(* It holds always.                                                        *)
LEMMA Invariance == UploadSpec => []UploadInv
BY UploadInitInv, InvKept, PTL DEF UploadSpec

(* The permits of the semaphore, the uploads that hold one and the permits *)
(* still to be retired always add up to max_concurrency, however often     *)
(* set_max_concurrency changes it and wherever jobs are cancelled.         *)
THEOREM PermitsAccountedHolds == UploadSpec => []PermitsAccounted
<1>1. UploadInv => PermitsAccounted
  BY DEF UploadInv, PermitInv
<1> QED BY <1>1, Invariance, PTL

(* Sinks, rules, jobs, tokens, cached runtimes, snapshots and files stay   *)
(* in order under every interleaving of edits, jobs, saves and prunes.     *)
THEOREM UploadsInOrderHolds == UploadSpec => []UploadsInOrder
<1>1. UploadInv => UploadsInOrder
  BY DEF UploadInv, OrderInv
<1> QED BY <1>1, Invariance, PTL
=============================================================================
