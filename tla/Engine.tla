------------------------------- MODULE Engine -------------------------------
(***************************************************************************)
(* The life of the embedded engine (start_engine and stop_engine of        *)
(* engine/mod.rs, RpcServer of rpc.rs) and the event bridge that turns a   *)
(* finished download into a request to upload its file.                    *)
(*                                                                         *)
(* Callers start and stop engines concurrently.  ENGINE_INSTANCE is locked *)
(* for the check of start_engine and again to store the instance, but not  *)
(* in between; stop_engine keeps the lock until the manager is shut down.  *)
(* What really keeps two engines apart is the RPC port.                    *)
(***************************************************************************)
EXTENDS Naturals, Sequences, FiniteSets

CONSTANTS
    Downloads,    \* downloads that may finish, one file each
    Callers,      \* callers of start_engine and stop_engine
    MaxEngines,   \* bound on the engines that are created
    Capacity,     \* of the broadcast channel
    MaxOther,     \* bound on the other events an engine sends
    Nobody,       \* "no value" of the optional fields
    Other         \* an event that is not a DownloadComplete

ASSUME EngineBounds ==
    /\ MaxEngines \in Nat /\ Capacity \in Nat \ {0} /\ MaxOther \in Nat
    /\ Nobody \notin Downloads \cup Callers \cup (1..MaxEngines)
    /\ Other \notin Downloads
    /\ Callers \cap (1..MaxEngines) = {}

VARIABLES
    instance,     \* ENGINE_INSTANCE
    engLock,      \* who holds its lock across an await
    port,         \* the engine that listens on the RPC port
    closing,      \* engines whose RPC server was told to stop
    created,      \* number of engines so far
    background,   \* engines whose progress, auto-save and bridge tasks run
    epc, eng,     \* the callers, and the engine a caller is starting
    rpcStop,      \* engines that were sent a shutdown over RPC
    watched,      \* engines whose shutdown watcher waits
    channel,      \* events the bridge of an engine has not read
    lagged,       \* engines whose bridge missed events
    others,       \* number of other events sent
    finished,     \* downloads that are complete
    missed,       \* completions that fell out of a channel or had no reader
    handed        \* completions that the bridge handed to the uploads

lifeVars   == <<instance, engLock, port, closing, created, background, epc, eng, rpcStop, watched>>
bridgeVars == <<channel, lagged, others, finished, missed, handed>>
engineVars == <<lifeVars, bridgeVars>>

Engines == 1..MaxEngines
Procs == Callers \cup Engines    \* an engine stands for its shutdown watcher
At(p, l) == epc' = [epc EXCEPT ![p] = l]

EngineInit ==
    /\ instance = Nobody /\ engLock = Nobody /\ port = Nobody
    /\ closing = {} /\ created = 0 /\ background = {}
    /\ epc = [p \in Procs |-> "idle"] /\ eng = [c \in Callers |-> Nobody]
    /\ rpcStop = {} /\ watched = {}
    /\ channel = [e \in Engines |-> <<>>] /\ lagged = {} /\ others = 0
    /\ finished = {} /\ missed = {} /\ handed = {}

-----------------------------------------------------------------------------
(* start_engine.                                                           *)

StartCheck(c) ==
    /\ epc[c] = "idle" /\ engLock = Nobody
    /\ instance = Nobody                  \* otherwise "already running"
    /\ At(c, "create")
    /\ UNCHANGED <<instance, engLock, port, closing, created, background, eng, rpcStop, watched,
                   bridgeVars>>

(* TaskManager::new, which may fail.                                       *)
Create(c) ==
    /\ epc[c] = "create"
    /\ \/ /\ created < MaxEngines
          /\ created' = created + 1
          /\ eng' = [eng EXCEPT ![c] = created']
          /\ At(c, "bind")
       \/ At(c, "idle") /\ UNCHANGED <<created, eng>>
    /\ UNCHANGED <<instance, engLock, port, closing, background, rpcStop, watched, bridgeVars>>

(* Mutant: a failed bind is only logged.                                   *)
BindLogged(c) ==
    /\ epc[c] = "bind"
    /\ At(c, "pbh")
    /\ port' = IF port = Nobody THEN eng[c] ELSE port
    /\ UNCHANGED <<instance, engLock, closing, created, background, eng, rpcStop, watched,
                   bridgeVars>>

(* RpcServer::start; a port that is taken ends the start.                  *)
Bind(c) ==
    /\ epc[c] = "bind"
    /\ IF port = Nobody
         THEN port' = eng[c] /\ At(c, "pbh")
         ELSE At(c, "idle") /\ UNCHANGED port
    /\ UNCHANGED <<instance, engLock, closing, created, background, eng, rpcStop, watched,
                   bridgeVars>>

(* The PeerBanHelper server is off or starts; or it fails, and the engine  *)
(* is taken down again.                                                    *)
PbhStarted(c) ==
    /\ epc[c] = "pbh"
    /\ At(c, "spawn")
    /\ UNCHANGED <<instance, engLock, port, closing, created, background, eng, rpcStop, watched,
                   bridgeVars>>
PbhFailed(c) ==
    /\ epc[c] = "pbh"
    /\ closing' = closing \cup {eng[c]}
    /\ At(c, "idle")
    /\ UNCHANGED <<instance, engLock, port, created, background, eng, rpcStop, watched,
                   bridgeVars>>

(* The background tasks are spawned, the bridge with its subscription.     *)
SpawnTasks(c) ==
    /\ epc[c] = "spawn"
    /\ background' = background \cup {eng[c]}
    /\ At(c, "store")
    /\ UNCHANGED <<instance, engLock, port, closing, created, eng, rpcStop, watched, bridgeVars>>

(* Mutant: the watcher listens only if nobody has asked yet.               *)
StoreInstanceLate(c) ==
    /\ epc[c] = "store" /\ engLock = Nobody
    /\ instance' = eng[c]
    /\ watched' = IF eng[c] \in rpcStop THEN watched ELSE watched \cup {eng[c]}
    /\ At(c, "idle")
    /\ UNCHANGED <<engLock, port, closing, created, background, eng, rpcStop, bridgeVars>>

(* The instance is stored and its shutdown watcher spawned.                *)
StoreInstance(c) ==
    /\ epc[c] = "store" /\ engLock = Nobody
    /\ instance' = eng[c]
    /\ watched' = watched \cup {eng[c]}
    /\ At(c, "idle")
    /\ UNCHANGED <<engLock, port, closing, created, background, eng, rpcStop, bridgeVars>>

-----------------------------------------------------------------------------
(* stop_engine, by a caller or by a watcher that received a shutdown.      *)

MayStop(p) ==
    \/ p \in Callers /\ epc[p] = "idle"
    \/ p \in watched \cap rpcStop /\ epc[p] = "idle"

(* The instance is taken, its tasks are aborted and its RPC server told to *)
(* stop; the lock is kept.  What the bridge had not read is lost.          *)
StopTake(p) ==
    /\ MayStop(p) /\ engLock = Nobody
    /\ watched' = watched \ {p}
    /\ IF instance = Nobody
         THEN /\ p \notin Callers
              /\ UNCHANGED <<instance, engLock, closing, background, epc, channel, missed>>
         ELSE /\ instance' = Nobody
              /\ background' = background \ {instance}
              /\ closing' = closing \cup {instance}
              /\ engLock' = p /\ At(p, "stopping")
              /\ missed' = missed \cup
                   {d \in Downloads : \E i \in DOMAIN channel[instance] : channel[instance][i] = d}
              /\ channel' = [channel EXCEPT ![instance] = <<>>]
    /\ UNCHANGED <<port, created, eng, rpcStop, lagged, others, finished, handed>>

(* The manager is shut down; the lock is released.                         *)
StopDone(p) ==
    /\ epc[p] = "stopping"
    /\ engLock' = Nobody
    /\ At(p, "idle")
    /\ UNCHANGED <<instance, port, closing, created, background, eng, rpcStop, watched, bridgeVars>>

(* axum's graceful shutdown closes the listener.                           *)
PortClosed ==
    /\ port \in closing
    /\ port' = Nobody
    /\ UNCHANGED <<instance, engLock, closing, created, background, epc, eng, rpcStop, watched,
                   bridgeVars>>

(* A client of the RPC server asks for a shutdown.                         *)
RpcShutdown(e) ==
    /\ port = e /\ e \notin closing \cup rpcStop
    /\ rpcStop' = rpcStop \cup {e}
    /\ UNCHANGED <<instance, engLock, port, closing, created, background, epc, eng, watched,
                   bridgeVars>>

-----------------------------------------------------------------------------
(* The event bridge.                                                       *)

(* EventBroadcaster::send: a full channel loses its oldest event, which    *)
(* the reader is told of; without a reader the event is gone.              *)
Send(e, v) ==
    LET full == Len(channel[e]) = Capacity
        gone == IF e \notin background THEN {v}
                ELSE IF full THEN {Head(channel[e])} ELSE {}
    IN  /\ missed' = missed \cup (gone \cap Downloads)
        /\ lagged' = IF e \in background /\ full THEN lagged \cup {e} ELSE lagged
        /\ channel' = IF e \in background
                        THEN [channel EXCEPT ![e] = Append(IF full THEN Tail(@) ELSE @, v)]
                        ELSE channel

(* A download of an engine that serves requests completes.                 *)
DownloadComplete(e, d) ==
    /\ port = e /\ e \notin closing
    /\ d \notin finished
    /\ finished' = finished \cup {d}
    /\ Send(e, d)
    /\ UNCHANGED <<lifeVars, others, handed>>

OtherEvent(e) ==
    /\ port = e /\ e \notin closing
    /\ others < MaxOther
    /\ others' = others + 1
    /\ Send(e, Other)
    /\ UNCHANGED <<lifeVars, finished, handed>>

(* Mutant: RecvError::Lagged ends the loop.                                *)
BridgeLaggedEnds(e) ==
    /\ e \in background \cap lagged /\ FALSE
    /\ UNCHANGED engineVars

(* recv answers Lagged once; the loop goes on.                             *)
BridgeLagged(e) ==
    /\ e \in background \cap lagged
    /\ lagged' = lagged \ {e}
    /\ UNCHANGED <<lifeVars, channel, others, finished, missed, handed>>

(* recv answers an event; a completion spawns the request for uploads.     *)
BridgeRecv(e) ==
    /\ e \in background \ lagged
    /\ channel[e] # <<>>
    /\ channel' = [channel EXCEPT ![e] = Tail(@)]
    /\ handed' = handed \cup ({Head(channel[e])} \cap Downloads)
    /\ UNCHANGED <<lifeVars, lagged, others, finished, missed>>

-----------------------------------------------------------------------------
StartStep(c) ==
    \/ Create(c) \/ Bind(c) \/ PbhStarted(c) \/ PbhFailed(c) \/ SpawnTasks(c) \/ StoreInstance(c)
BridgeStep(e) == BridgeLagged(e) \/ BridgeRecv(e)

EngineNext ==
    \/ \E c \in Callers : StartCheck(c) \/ StartStep(c)
    \/ \E p \in Procs : StopTake(p) \/ StopDone(p)
    \/ PortClosed
    \/ \E e \in Engines : RpcShutdown(e) \/ BridgeStep(e) \/ OtherEvent(e)
    \/ \E e \in Engines, d \in Downloads : DownloadComplete(e, d)

(* Spawned tasks run, and the shutdown of a manager ends.                  *)
EngineFairness ==
    /\ \A c \in Callers : WF_engineVars(StartStep(c))
    /\ \A p \in Procs : WF_engineVars(StopDone(p))
    /\ \A e \in Engines : WF_engineVars(BridgeStep(e)) /\ WF_engineVars(StopTake(e))

EngineSpec == EngineInit /\ [][EngineNext]_engineVars /\ EngineFairness

-----------------------------------------------------------------------------
EngineTypeOK ==
    /\ instance \in Engines \cup {Nobody} /\ port \in Engines \cup {Nobody}
    /\ engLock \in Procs \cup {Nobody}
    /\ background \subseteq Engines /\ closing \subseteq Engines /\ lagged \subseteq Engines
    /\ rpcStop \subseteq Engines /\ watched \subseteq Engines
    /\ epc \in [Procs -> {"idle", "create", "bind", "pbh", "spawn", "store", "stopping"}]
    /\ created \in 0..MaxEngines /\ others \in 0..MaxOther
    /\ \A e \in Engines : Len(channel[e]) <= Capacity
    /\ handed \cup missed \subseteq finished

(* However many starts and stops overlap, the background tasks of at most  *)
(* one engine run (they save the same session file).  It is the one that   *)
(* answers on the RPC port, and stop_engine can reach it: it is the stored *)
(* instance, or a start_engine is about to store it.                       *)
OneEngine ==
    /\ EngineTypeOK
    /\ \A e \in background :
          /\ port = e /\ e \notin closing
          /\ e = instance \/ \E c \in Callers : epc[c] = "store" /\ eng[c] = e

(* A completion that is in the channel of a bridge is handed to the        *)
(* uploads, unless the channel overflows or the engine is stopped first.   *)
CompletionsHandled ==
    \A d \in Downloads :
        (\E e \in Engines : \E i \in DOMAIN channel[e] : channel[e][i] = d)
            ~> d \in handed \cup missed

(* A shutdown sent over RPC to the engine that runs ends it, although the  *)
(* watcher races with callers that start and stop engines.                 *)
RpcShutdownStops == instance \in rpcStop ~> instance \notin rpcStop
=============================================================================
