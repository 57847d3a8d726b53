------------------------------ MODULE Targets ------------------------------
(***************************************************************************)
(* The two copies of what runs in a deployment target: the row of          *)
(* live_targets in the orchestrator's database and the entry of the        *)
(* executor's in-memory TargetStore.  An observation (POST                 *)
(* /api/targets/observe, or the demo drift endpoint) commits the row first *)
(* and then tells the executor over an RPC that may be lost, time out, or  *)
(* be applied after the caller gave up; nothing orders the RPCs of two     *)
(* observations of the same target.                                        *)
(*                                                                         *)
(* A target stands for a (project, environment) pair; a release for the    *)
(* other columns of a deployment identity (commit_sha, artifact_digest,    *)
(* config_hash).                                                           *)
(***************************************************************************)
EXTENDS Naturals

CONSTANTS
  Target,     \* the (project, environment) pairs
  Field,      \* the columns of a release
  Value,      \* the values a column takes
  Observer,   \* the worker threads that serve observations
  None,       \* no row, no entry
  Remote,     \* TRUE: http or grpc executor; FALSE: LocalExecutorClient
  Unreliable  \* TRUE: RPCs may be lost or late, processes may restart

Release == [Field -> Value]

ASSUME NoneIsNoRelease == None \notin Release
ASSUME ModesAreBooleans == Remote \in BOOLEAN /\ Unreliable \in BOOLEAN

VARIABLES
  live,       \* live[t]: the committed row of t, or None
  store,      \* store[t]: the executor's entry of t, or None
  obs,        \* obs[o]: the observation that o serves
  committed   \* history: the identities whose observation committed

tvars == <<live, store, obs, committed>>

----------------------------------------------------------------------------
(* An observation: "read" has queried the row, "sent" has committed and    *)
(* waits for the executor, "applied" was applied but not yet answered,     *)
(* "late" was given up by the caller while its request is still under way. *)

IdleObs == [step |-> "idle"]
Step == {"read", "sent", "applied", "late"}
Observation == [step: Step, target: Target, ident: Release, row: Release \cup {None}]

At(o, step) == obs[o].step = step

(* Slip: the worker keeps the finished observation.                        *)
Move_NoReset(o, step) == obs' = [obs EXCEPT ![o].step = step]

Move(o, step) ==
  obs' = [obs EXCEPT ![o] = IF step = "idle" THEN IdleObs ELSE [@ EXCEPT !.step = step]]

TargetsInit ==
  /\ live = [t \in Target |-> None]
  /\ store = [t \in Target |-> None]
  /\ obs = [o \in Observer |-> IdleObs]
  /\ committed = [t \in Target |-> {}]

----------------------------------------------------------------------------
(* upsert_target and demo_drift: the query that starts the transaction.    *)

(* Slip: the executor is called before the commit.                         *)
BeginObservation_SendsFirst(o, t, ident) ==
  /\ At(o, "idle")
  /\ obs' = [obs EXCEPT ![o] = [step |-> IF Remote THEN "sent" ELSE "read",
                                target |-> t, ident |-> ident, row |-> live[t]]]
  /\ UNCHANGED <<live, store, committed>>

BeginObservation(o, t, ident) ==
  /\ At(o, "idle")
  /\ obs' = [obs EXCEPT ![o] = [step |-> "read", target |-> t, ident |-> ident,
                                row |-> live[t]]]
  /\ UNCHANGED <<live, store, committed>>

ObserveRead(o) == \E t \in Target, ident \in Release : BeginObservation(o, t, ident)

DriftRead(o) ==
  \E t \in Target, f \in Field, v \in Value :
    /\ live[t] # None
    /\ BeginObservation(o, t, [live[t] EXCEPT ![f] = v])

(* Slip: the loop over the payload stops after one column.                 *)
Upsert_OneColumn(row, ident, current) ==
  IF row = None THEN ident
  ELSE LET f == CHOOSE f \in Field : TRUE IN [current EXCEPT ![f] = ident[f]]

(* The UPDATE that SQLAlchemy emits names only the columns that differ     *)
(* from the row the session loaded; the others keep what is in the         *)
(* database now.  A row that was absent is inserted.                       *)
Upsert(row, ident, current) ==
  IF row = None
  THEN ident
  ELSE [f \in Field |-> IF ident[f] # row[f] THEN ident[f] ELSE current[f]]

(* The unique (project, environment) constraint refuses a second insert.   *)
InsertCollides(o) == obs[o].row = None /\ live[obs[o].target] # None

(* Slip: the executor is not told.                                         *)
AfterCommit_Silent == "idle"

AfterCommit == IF Remote THEN "sent" ELSE "idle"

ObserveCommit(o) ==
  /\ At(o, "read")
  /\ ~InsertCollides(o)
  /\ LET t == obs[o].target
         ident == obs[o].ident
     IN /\ live' = [live EXCEPT ![t] = Upsert(obs[o].row, ident, @)]
        /\ committed' = [committed EXCEPT ![t] = @ \cup {ident}]
  /\ Move(o, AfterCommit)
  /\ UNCHANGED store

(* Slip: the refused insert is tried again for ever.                       *)
ObserveConflict_Retries(o) ==
  /\ At(o, "read")
  /\ InsertCollides(o)
  /\ UNCHANGED tvars

ObserveConflict(o) ==
  /\ At(o, "read")
  /\ InsertCollides(o)
  /\ Move(o, "idle")
  /\ UNCHANGED <<live, store, committed>>

----------------------------------------------------------------------------
(* The Observe RPC: the executor overwrites its entry whenever the request *)
(* gets there.                                                             *)

Deliver(o) ==
  /\ obs[o].step \in {"sent", "late"}
  /\ store' = [store EXCEPT ![obs[o].target] = obs[o].ident]
  /\ Move(o, IF At(o, "sent") THEN "applied" ELSE "idle")
  /\ UNCHANGED <<live, committed>>

ObserveAnswered(o) ==
  /\ At(o, "applied")
  /\ Move(o, "idle")
  /\ UNCHANGED <<live, store, committed>>

(* The five-second timeout: the handler answers 502, the committed row     *)
(* stays, and the request may still be on its way.                         *)
ObserveTimeout(o) ==
  /\ Unreliable
  /\ obs[o].step \in {"sent", "applied"}
  /\ Move(o, IF At(o, "sent") THEN "late" ELSE "idle")
  /\ UNCHANGED <<live, store, committed>>

Drop(o) ==
  /\ Unreliable
  /\ obs[o].step \in {"sent", "late"}
  /\ Move(o, "idle")
  /\ UNCHANGED <<live, store, committed>>

ExecutorRestart ==
  /\ Unreliable
  /\ store # [t \in Target |-> None]
  /\ store' = [t \in Target |-> None]
  /\ UNCHANGED <<live, obs, committed>>

(* The orchestrator dies: a transaction that has not committed is undone,  *)
(* a request that left may still arrive.                                   *)
DropObservations ==
  obs' = [o \in Observer |->
            IF obs[o].step \in {"sent", "late"} THEN [obs[o] EXCEPT !.step = "late"]
            ELSE IdleObs]

TargetsCrash ==
  /\ Unreliable
  /\ \E o \in Observer : obs[o].step \in {"read", "sent", "applied"}
  /\ DropObservations
  /\ UNCHANGED <<live, store, committed>>

ObserversNext ==
  \/ \E o \in Observer :
       \/ ObserveRead(o) \/ DriftRead(o)
       \/ ObserveCommit(o) \/ ObserveConflict(o)
       \/ Deliver(o) \/ ObserveAnswered(o)
       \/ ObserveTimeout(o) \/ Drop(o)
  \/ ExecutorRestart

TargetsNext == ObserversNext \/ TargetsCrash

(* A worker thread runs its handler to its end, and the RPC ends by an     *)
(* answer or by its timeout.  Nobody is obliged to report an observation,  *)
(* and a request that may be lost need not arrive.                         *)
HandlerStep(o) ==
  \/ ObserveCommit(o) \/ ObserveConflict(o)
  \/ ObserveAnswered(o) \/ ObserveTimeout(o)
  \/ (~Unreliable /\ Deliver(o))

TargetsSpec ==
  /\ TargetsInit /\ [][TargetsNext]_tvars
  /\ \A o \in Observer : WF_tvars(HandlerStep(o))

----------------------------------------------------------------------------
TargetsTypeOK ==
  /\ live \in [Target -> Release \cup {None}]
  /\ store \in [Target -> Release \cup {None}]
  /\ obs \in [Observer -> Observation \cup {IdleObs}]
  /\ committed \in [Target -> SUBSET Release]

(* The executor never holds an identity whose observation the database did *)
(* not commit before: upsert_target commits (services.py 238) before it    *)
(* calls the executor (239), whatever is lost, late or restarted.          *)
ExecutorFollowsDatabase ==
  \A t \in Target : store[t] # None => store[t] \in committed[t]

(* With nobody observing, the executor compares with the row the           *)
(* orchestrator shows: what docs/architecture.md says of the target.  Two  *)
(* concurrent observations of one target may commit in one order and be    *)
(* applied by the executor in the other.                                   *)
SettledStoresAgree ==
  (\A o \in Observer : obs[o].step \in {"idle", "read"}) => store = live

(* Two observations of one target are in their transactions at once.       *)
Overlapping ==
  \E o, p \in Observer :
    o # p /\ At(o, "read") /\ At(p, "read") /\ obs[o].target = obs[p].target

(* A handler that reports an observation comes to its end: every path out  *)
(* of the insert race and out of the RPC leads back to a free worker.      *)
Handling(o) == obs[o].step \in {"read", "sent", "applied"}
ObservationsEnd == \A o \in Observer : Handling(o) ~> ~Handling(o)
=============================================================================
