----------------------------- MODULE EventLoop -----------------------------
(***************************************************************************)
(* The scheduling of requests in the orchestrator's one process: an event  *)
(* loop, a limited number of worker threads, a pool of connections and the *)
(* row locks of PostgreSQL.                                                *)
(*                                                                         *)
(* A "sync" request (approve, issue, execute, or a read) authenticates and *)
(* runs in threads; the async handlers "upload" and "hook" run on the loop *)
(* and block it when they wait for a connection or, at their commit, for a *)
(* row lock.  A session takes its connection with its first query and      *)
(* keeps it, with the locks taken, until it commits or is closed; get_db   *)
(* closes it after the handler has answered, which takes the loop.         *)
(* What the handlers of sync requests decide is Orchestrator's subject.    *)
(***************************************************************************)
EXTENDS GitlabWebhook, EvidenceStore, FiniteSets

CONSTANTS
  Request,    \* the requests that clients send, each served once
  Content,    \* the contents of uploads
  Threads,    \* tokens of the thread limiter
  Conns,      \* connections of the pool
  Unreliable, \* TRUE: commits, writes and the process may fail
  None

ASSUME Capacities == Threads \in Nat \ {0} /\ Conns \in Nat \ {0} /\ Unreliable \in BOOLEAN
ASSUME PathsAreContentAddressed == Path = Epoch \X Content
ASSUME NoneIsNothing == None \notin Request \cup Epoch \cup Content \cup Nat

VARIABLES
  req,    \* req[r]: the request r
  loop,   \* the request whose handler blocks the loop, or None
  conns,  \* the requests that hold a connection
  lock    \* lock[e]: the request that holds the row lock of e, or None

svars == <<req, loop, conns, lock>>
allvars == <<svars, hvars, evars>>

----------------------------------------------------------------------------
Unsent == [pc |-> "unsent"]
SyncPc == {"new", "auth", "authed", "running", "locking", "locked", "answered", "done"}
UploadPc == {"new", "auth", "authed", "reading", "writing", "written", "committing",
             "answered", "done"}
HookPc == {"new", "opening", "opened", "connecting", "committing", "answered", "done"}
RequestState ==
  [kind: {"sync"}, pc: SyncPc, epoch: Epoch, content: {None}, hook: {0}, rows: {{}}]
  \cup [kind: {"upload"}, pc: UploadPc, epoch: Epoch, content: Content, hook: {0}, rows: {{}}]
  \cup [kind: {"hook"}, pc: HookPc, epoch: {None}, content: {None}, hook: 1..Len(Sent),
        rows: SUBSET Epoch]

At(r, pc) == req[r].pc = pc
Is(r, kind, pc) == At(r, pc) /\ req[r].kind = kind
Moved(r, pc) == [req EXCEPT ![r].pc = pc]
LoopFree == loop = None
OnThread ==
  {r \in Request : req[r].pc \in {"auth", "opening", "running", "locking", "locked"}}
ThreadFree == Cardinality(OnThread) < Threads
ConnFree == Cardinality(conns) < Conns
PathOf(r) == <<req[r].epoch, req[r].content>>

(* Another upload has begun to write the same path and is not through.     *)
Storing(r) == req[r].pc \in {"writing", "written", "committing"} /\ req[r].kind = "upload"
Shared(r) == \E q \in Request \ {r} : Storing(q) /\ PathOf(q) = PathOf(r)
OtherWriter(r) == \E q \in Request \ {r} : Is(q, "upload", "writing") /\ PathOf(q) = PathOf(r)

Init ==
  /\ req = [r \in Request |-> Unsent]
  /\ loop = None /\ conns = {} /\ lock = [e \in Epoch |-> None]
  /\ HooksInit /\ EvidenceInit

----------------------------------------------------------------------------
(* Clients.                                                                *)
Arrives(r, kind, e, content, hook) ==
  /\ req[r] = Unsent
  /\ req' = [req EXCEPT ![r] = [kind |-> kind, pc |-> "new", epoch |-> e,
                                content |-> content, hook |-> hook, rows |-> {}]]
  /\ UNCHANGED <<loop, conns, lock, hvars, evars>>

SyncArrives(r) == \E e \in Epoch : status[e] # "none" /\ Arrives(r, "sync", e, None, 0)
UploadArrives(r) ==
  \E e \in Epoch, c \in Content : status[e] # "none" /\ Arrives(r, "upload", e, c, 0)
HookArrives(r) == \E n \in 1..Len(Sent) : Arrives(r, "hook", None, None, n)

----------------------------------------------------------------------------
(* The dependencies are sync functions, which the loop runs in a thread:   *)
(* get_db for every request, and current_user, whose query takes the       *)
(* session's connection, for all but hooks.                                *)
DispatchDependencies(r) ==
  /\ At(r, "new")
  /\ LoopFree /\ ThreadFree
  /\ req' = Moved(r, IF req[r].kind = "hook" THEN "opening" ELSE "auth")
  /\ UNCHANGED <<loop, conns, lock, hvars, evars>>

(* The session of a hook; the others have theirs opened with current_user. *)
get_db(r) ==
  /\ At(r, "opening")
  /\ req' = Moved(r, "opened")
  /\ UNCHANGED <<loop, conns, lock, hvars, evars>>

current_user(r) ==
  /\ At(r, "auth")
  /\ ConnFree
  /\ req' = Moved(r, "authed")
  /\ conns' = conns \cup {r}
  /\ UNCHANGED <<loop, lock, hvars, evars>>

(* Slip: the handler goes on without a connection.                         *)
PoolTimeout_Swallowed(r) ==
  /\ req[r].pc \in {"auth", "connecting"}
  /\ ~ConnFree
  /\ req' = Moved(r, "authed")
  /\ loop' = IF loop = r THEN None ELSE loop
  /\ UNCHANGED <<conns, lock, hvars, evars>>

(* Slip: a full pool is waited for without a limit.                        *)
PoolTimeout_Never(r) == FALSE /\ UNCHANGED allvars

(* The pool was full for 30 seconds.                                       *)
PoolTimeout(r) ==
  /\ req[r].pc \in {"auth", "connecting"}
  /\ ~ConnFree
  /\ req' = Moved(r, "answered")
  /\ loop' = IF loop = r THEN None ELSE loop
  /\ UNCHANGED <<conns, lock, hvars, evars>>

(* Slip: the session is not closed.                                        *)
get_db_Leaks(r) ==
  /\ At(r, "answered") /\ LoopFree
  /\ req' = Moved(r, "done")
  /\ UNCHANGED <<loop, conns, lock, hvars, evars>>

(* get_db's finally, once the loop resumes the request.                    *)
get_db_Close(r) ==
  /\ At(r, "answered") /\ LoopFree
  /\ req' = Moved(r, "done")
  /\ conns' = conns \ {r}
  /\ lock' = [e \in Epoch |-> IF lock[e] = r THEN None ELSE lock[e]]
  /\ UNCHANGED <<loop, hvars, evars>>

----------------------------------------------------------------------------
(* Sync handlers.                                                          *)
DispatchHandler(r) ==
  /\ Is(r, "sync", "authed")
  /\ LoopFree /\ ThreadFree
  /\ req' = Moved(r, "running")
  /\ UNCHANGED <<loop, conns, lock, hvars, evars>>

(* A read, or a refusal before the locking query.                          *)
HandlerReads(r) ==
  /\ At(r, "running")
  /\ req' = Moved(r, "answered")
  /\ UNCHANGED <<loop, conns, lock, hvars, evars>>

(* with_for_update: the query is sent, and its thread waits for the row.   *)
HandlerSelects(r) ==
  /\ At(r, "running")
  /\ req' = Moved(r, "locking")
  /\ UNCHANGED <<loop, conns, lock, hvars, evars>>

HandlerLocks(r) ==
  /\ At(r, "locking")
  /\ lock[req[r].epoch] = None
  /\ req' = Moved(r, "locked")
  /\ lock' = [lock EXCEPT ![req[r].epoch] = r]
  /\ UNCHANGED <<loop, conns, hvars, evars>>

(* db.commit() in the thread: locks and connection are free at once.       *)
HandlerCommits(r) ==
  /\ At(r, "locked")
  /\ req' = Moved(r, "answered")
  /\ lock' = [lock EXCEPT ![req[r].epoch] = None]
  /\ conns' = conns \ {r}
  /\ UNCHANGED <<loop, hvars, evars>>

(* An existing approval, a replayed receipt, a refusal or a failed call:   *)
(* the handler ends with its transaction open.                             *)
HandlerReturns(r) ==
  /\ At(r, "locked")
  /\ req' = Moved(r, "answered")
  /\ UNCHANGED <<loop, conns, lock, hvars, evars>>

----------------------------------------------------------------------------
(* upload_evidence and save_evidence.                                      *)
(* Slip: the upload locks its epoch first, on the loop.                     *)
UploadLoads_ForUpdate(r) ==
  /\ Is(r, "upload", "authed") /\ LoopFree
  /\ lock[req[r].epoch] = None
  /\ req' = Moved(r, "reading")
  /\ lock' = [lock EXCEPT ![req[r].epoch] = r]
  /\ UNCHANGED <<loop, conns, hvars, evars>>

UploadLoads(r) ==
  /\ Is(r, "upload", "authed") /\ LoopFree
  /\ req' = Moved(r, "reading")
  /\ UNCHANGED <<loop, conns, lock, hvars, evars>>

UploadTooLarge(r) ==
  /\ At(r, "reading") /\ LoopFree
  /\ req' = Moved(r, "answered")
  /\ UNCHANGED <<loop, conns, lock, hvars, evars>>

(* asyncio.to_thread has threads of its own.                               *)
UploadWrites(r) ==
  /\ At(r, "reading") /\ LoopFree
  /\ req' = Moved(r, "writing")
  /\ WriteBegin(PathOf(r))
  /\ UNCHANGED <<loop, conns, lock, hvars>>

(* Slip: the row commits without waiting for the write.                    *)
UploadWritten_NotAwaited(r) ==
  /\ At(r, "writing")
  /\ req' = Moved(r, "written")
  /\ UNCHANGED <<loop, conns, lock, hvars, evars>>

UploadWritten(r) ==
  /\ At(r, "writing")
  /\ req' = Moved(r, "written")
  /\ WriteEnd(PathOf(r), OtherWriter(r))
  /\ UNCHANGED <<loop, conns, lock, hvars>>

UploadWriteFails(r) ==
  /\ Unreliable
  /\ At(r, "writing")
  /\ req' = Moved(r, "answered")
  /\ WriteFails(PathOf(r))
  /\ UNCHANGED <<loop, conns, lock, hvars>>

UploadFlushes(r) ==
  /\ At(r, "written") /\ LoopFree
  /\ req' = Moved(r, "committing")
  /\ loop' = r
  /\ UNCHANGED <<conns, lock, hvars, evars>>

(* The end of a commit on the loop.                                        *)
LoopCommitEnds(r) ==
  /\ At(r, "committing")
  /\ req' = Moved(r, "answered")
  /\ loop' = None
  /\ conns' = conns \ {r}
  /\ UNCHANGED lock

(* The foreign key of the row waits for the epoch's row lock.              *)
UploadCommits(r) ==
  /\ LoopCommitEnds(r) /\ req[r].kind = "upload"
  /\ lock[req[r].epoch] = None
  /\ RowCommits(PathOf(r))
  /\ UNCHANGED hvars

UploadCommitFails(r) ==
  /\ Unreliable
  /\ LoopCommitEnds(r) /\ req[r].kind = "upload"
  /\ CommitFails(PathOf(r), Shared(r))
  /\ UNCHANGED hvars

----------------------------------------------------------------------------
(* gitlab_webhook: from its first query to its commit it leaves the loop   *)
(* to nobody.                                                              *)
(* Slip: the handler gives up the loop before its commit.                  *)
HookQueries_Yields(r) ==
  /\ At(r, "opened") /\ LoopFree
  /\ req' = Moved(r, "connecting")
  /\ UNCHANGED <<loop, conns, lock, hvars, evars>>

HookQueries(r) ==
  /\ At(r, "opened") /\ LoopFree
  /\ req' = Moved(r, "connecting")
  /\ loop' = r
  /\ UNCHANGED <<conns, lock, hvars, evars>>

HookDuplicate(r) ==
  /\ At(r, "connecting") /\ ConnFree
  /\ Duplicate(req[r].hook)
  /\ req' = Moved(r, "answered")
  /\ loop' = None
  /\ conns' = conns \cup {r}
  /\ UNCHANGED <<lock, hvars, evars>>

HookLoads(r) ==
  /\ At(r, "connecting") /\ ConnFree
  /\ ~Duplicate(req[r].hook)
  /\ req' = [req EXCEPT ![r].pc = "committing", ![r].rows = LoadRows(req[r].hook)]
  /\ conns' = conns \cup {r}
  /\ UNCHANGED <<loop, lock, hvars, evars>>

(* The epochs whose row lock the commit of r needs.                        *)
Needs(r) ==
  IF ~At(r, "committing") THEN {}
  ELSE IF req[r].kind = "hook" THEN Updated(req[r].hook, req[r].rows)
  ELSE {req[r].epoch}

HookCommits(r) ==
  /\ LoopCommitEnds(r) /\ req[r].kind = "hook"
  /\ \A e \in Needs(r) : lock[e] = None
  /\ HookEffect(req[r].hook, req[r].rows)
  /\ UNCHANGED evars

HookCommitFails(r) ==
  /\ Unreliable
  /\ LoopCommitEnds(r) /\ req[r].kind = "hook"
  /\ UNCHANGED <<hvars, evars>>

----------------------------------------------------------------------------
(* The process dies and is restarted.                                      *)
InProgress(r) == req[r].pc \notin {"unsent", "done"}
Crash ==
  /\ Unreliable
  /\ \E r \in Request : InProgress(r)
  /\ req' = [r \in Request |-> IF InProgress(r) THEN [req[r] EXCEPT !.pc = "done"] ELSE req[r]]
  /\ loop' = None /\ conns' = {} /\ lock' = [e \in Epoch |-> None]
  /\ CrashDuring({PathOf(r) : r \in {q \in Request : Storing(q)}})
  /\ UNCHANGED hvars

NewEpoch == \E e \in Epoch : EpochCreated(e) /\ UNCHANGED <<svars, evars>>

(* The steps a started request takes by itself; a failure is not promised. *)
Step(r) ==
  \/ DispatchDependencies(r) \/ get_db(r) \/ current_user(r)
  \/ PoolTimeout(r) \/ get_db_Close(r)
  \/ DispatchHandler(r) \/ HandlerReads(r) \/ HandlerSelects(r) \/ HandlerLocks(r)
  \/ HandlerCommits(r) \/ HandlerReturns(r)
  \/ UploadLoads(r) \/ UploadTooLarge(r) \/ UploadWrites(r) \/ UploadWritten(r)
  \/ UploadFlushes(r) \/ UploadCommits(r)
  \/ HookQueries(r) \/ HookDuplicate(r) \/ HookLoads(r) \/ HookCommits(r)

Next ==
  \/ \E r \in Request :
       \/ SyncArrives(r) \/ UploadArrives(r) \/ HookArrives(r)
       \/ Step(r)
       \/ UploadWriteFails(r) \/ UploadCommitFails(r) \/ HookCommitFails(r)
  \/ Crash
  \/ NewEpoch

Spec == Init /\ [][Next]_allvars /\ \A r \in Request : WF_allvars(Step(r))

----------------------------------------------------------------------------
TypeOK ==
  /\ req \in [Request -> RequestState \cup {Unsent}]
  /\ loop \in Request \cup {None}
  /\ conns \subseteq Request
  /\ lock \in [Epoch -> Request \cup {None}]
  /\ HooksTypeOK /\ EvidenceTypeOK

(* Between its query for duplicates and its commit a hook waits twice, for *)
(* a connection and for rows, yet no other hook comes in between and no    *)
(* redelivery repeats it: it takes effect as if in one step, even with     *)
(* threads, failed commits and crashes, since the handler never awaits.    *)
ImplementsHooks == HooksSpec

NoConnPc == {"unsent", "new", "auth", "opening", "opened", "connecting", "done"}

(* Whoever holds a connection, a row lock or the loop is at a step that    *)
(* gives it back: nothing is left behind by refusals, timeouts, failed     *)
(* commits and crashes, so the pool does not run dry.                      *)
NothingLeaks ==
  /\ \A r \in conns : req[r].pc \notin NoConnPc
  /\ \A e \in Epoch : lock[e] # None =>
       /\ lock[e] \in conns /\ req[lock[e]].pc \in {"locked", "answered"}
       /\ req[lock[e]].epoch = e
  /\ \A r \in Request : loop = r <=> req[r].pc \in {"connecting", "committing"}

(* A row has its file, whole or being rewritten with the same bytes,       *)
(* unless another upload of the same content failed or a crash hit one:    *)
(* the unlink of the failed upload removes the file of the other's row     *)
(* (services.py 366), a failed rewrite truncates it.                       *)
RowHasFile ==
  \A p \in evidence \ harmed :
    \/ files[p] = "whole"
    \/ \E r \in Request : Is(r, "upload", "writing") /\ PathOf(r) = p

(* A file that no row names belongs to an upload under way, or is what a   *)
(* failed write or a crash left; a failed commit leaves none.              *)
NoOrphanAtRest ==
  \A p \in Path \ (evidence \cup harmed) :
    files[p] # "absent" => \E r \in Request : Storing(r) /\ PathOf(r) = p

(* The loop waits, in a commit, for the row lock of a request that has     *)
(* answered: that one waits for the loop to close its session, and no      *)
(* timeout ends either wait.                                               *)
LoopStuck ==
  \E r \in Request : loop = r /\ \E e \in Needs(r) : lock[e] # None /\ At(lock[e], "answered")

(* What a request cannot go on without.  The wait for a connection is not  *)
(* listed: it ends by itself.                                              *)
WantsLoop(r) == req[r].pc \in {"new", "opened", "authed", "reading", "written", "answered"}
WantsThread(r) == At(r, "new") \/ Is(r, "sync", "authed")
WantsRows(r) == IF At(r, "locking") THEN {req[r].epoch} ELSE Needs(r)

(* Each request of S waits for what requests of S hold, or finished ones.  *)
Finished == {r \in Request : At(r, "done")}
Blocked(r, S) ==
  \/ WantsLoop(r) /\ loop \in S
  \/ WantsThread(r) /\ ~ThreadFree /\ OnThread \subseteq S
  \/ \E e \in WantsRows(r) : lock[e] \in S
Deadlocked(S) == S # {} /\ \A r \in S : Blocked(r, S \cup Finished)

(* The requests can block one another for good in that one way: no cycle   *)
(* through threads, connections and rows exists without the loop in a      *)
(* commit that waits for the row of an answered request.                   *)
OneDeadlock == (\E S \in SUBSET Request : Deadlocked(S)) <=> LoopStuck

(* Every request comes to its end, through waits for threads, connections  *)
(* and locks, unless the loop gets stuck.                                  *)
EndsUnlessLoopStuck ==
  \A r \in Request : ~At(r, "unsent") ~> (At(r, "done") \/ LoopStuck)

(* The tests see a hook that verifies the pipeline answered with 200       *)
(* (test_gitlab_webhook.py 14) and an approval without a verified pipeline *)
(* with 409 (line 44); sent together, neither is answered.                 *)
LoopNeverStuck == ~LoopStuck
=============================================================================
