# EpochDeploy in TLA+

EpochDeploy lets a person or an AI agent deploy exactly the release that was
approved. A *deployment epoch* pins five values (project, environment, commit,
artifact digest, config hash). Right before the execution the Go executor compares
the pinned identity with what it last observed on the target, and answers
`EXECUTED` or `DENIED_STALE`. This directory models that lifecycle, checks it
with TLC and proves its safety properties with TLAPS.

## The system

| Component | State it keeps | Operations | How it interacts |
|---|---|---|---|
| Orchestrator, epoch lifecycle (`services.py`, `main.py`, `governance.py`) | rows of epochs, approvals, change requests, grants, receipts, passport and outbox events | create, agent change, approve, issue capability, execute (human, agent) | worker threads over one database; `SELECT ... FOR UPDATE` on the epoch; RPC to the executor while the lock is held |
| Policy engine (`policy.py`) | none | `evaluate_policy` | called by issue, agent execute and the dry run |
| Live targets (`services.py`, `main.py`) | one row per (project, environment) | observe, demo drift | commits the row, then tells the executor |
| Executor (`executor/`, `executor-gin/`) | in-memory `TargetStore` | Observe, Execute | gRPC (Gin program), HTTP (Gin or stdlib program), or replaced by `LocalExecutorClient` |
| Capability tokens (`capability.py`, `boundary.go`) | none (the grant row is the orchestrator's) | issue, verify twice | signed token carried by the agent |
| GitLab webhook (`main.py`) | webhook events | deduplicate, update pipeline status | async handler on the event loop, writes epochs |
| Evidence store (`services.py`) | files and rows | upload | async handler, thread for the write |
| Request scheduling (FastAPI, `db.py`) | sessions, pool, threads, event loop | open, run, close a session | everything above runs on it |
| Fingerprint (`fingerprint.py`, `core.go`) | none | digest of an identity | computed on both sides and compared |
| Change Passport view (`governance.py`) | none | one query per section | reads while everything above commits |
| Outbox | queued events | only written | nothing in the repository reads it |
| Auth, schemas, console, scripts | users | login, validation | no effect on the above |

**What makes it hard.** The row lock comes *after* the epoch was loaded, and the
ORM session keeps the object of that load. The executor has its own copy of the
target, updated by RPCs that nothing orders. A capability may expire while its
request waits. Human and agent paths share one handler and differ in what
authorises them. Async handlers block the event loop on row locks whose holders
need that loop. Two languages on two clocks judge one call. Each of these is listed with its line in `PROJECT.json`
("hazards"), with the properties that cover it.

**What makes each component correct.**

- *Epoch lifecycle*: no verdict without authority; one verdict per key; a
  verdict, its receipt, its outbox event and its passport event appear together;
  an approved verdict is final; the passport shows causes before effects.
- *Live targets*: the executor never holds what the database did not commit; the
  two agree when nothing is under way; a row is an identity somebody reported;
  handlers end.
- *Execution boundary*: it accepts what the policy allowed, and `EXECUTED` is
  about a release that was observed.
- *Capability*: scope and expiry hold when the executor answers, on its clock.
- *Webhook*: a verified status was reported, the passport tells the same as the row,
  and a redelivery changes nothing.
- *Evidence*: a row has its file, and a file has its row.
- *Scheduling*: every request ends and gives back what it held.
- *Fingerprint*: the two digests of a receipt are equal for an executed release.
- *Passport view*: what a passport shows, its timeline accounts for.

## Modules

| Module | Models | Extends or instantiates |
|---|---|---|
| `Policy` | `policy.py`: the rule clauses in their order | |
| `Targets` | the row of `live_targets`, the executor's entry, and the observations between them | |
| `TargetsHistory` | the same steps with a history of overlaps and failures | `Targets` |
| `EpochLedger` | abstract: what the orchestrator promises about an epoch | |
| `Orchestrator` | requests of worker threads over the database and the executor | `Policy`, `Targets`, `EpochLedger` |
| `PassportView` | a reader that assembles a passport while requests commit | `Orchestrator` |
| `Fingerprints` | the digest of an identity in Python and in Go | |
| `Boundary` | the signed call and its capability on two clocks | `Fingerprints` |
| `GitlabWebhook` | pipeline hooks: deduplication, statuses, events | |
| `EvidenceStore` | evidence files and rows | |
| `EventLoop` | event loop, threads, connection pool and row locks, under both | `GitlabWebhook`, `EvidenceStore` |
| `MCTargets`, `MCOrchestrator`, `MCView`, `MCBoundary`, `MCEventLoop` | payloads and symmetry for TLC | the module of that name |
| `TargetsProofs`, `HistoryProofs`, `OrchestratorProofs`, `LedgerProofs`, `PassportProofs`, `PassportViewProofs`, `BoundaryProofs`, `EventLoopProofs` | theorems and proofs | |

Three compositions. `Orchestrator` is about *what handlers decide*: it extends `Policy`
(a pure function) and `Targets`, whose observer steps are the disjunct `TargetStep` of its
`Next`; a crash of the orchestrator process hits requests and observers in one step.
`EventLoop` is about *how handlers are scheduled*: it decides nothing of its own, but runs
the two async handlers, whose data are `GitlabWebhook` and `EvidenceStore`, beside sync
requests that only wait, lock, commit or return. `Boundary` opens up the one step in which
`Orchestrator` lets the executor answer: it has both clocks, the age of the signature, the
two verifications of the capability and the two fingerprints.

Three refinements: `Orchestrator` implements `EpochLedger`, and, as far as the targets are
concerned, `Targets`; the webhook handler as `EventLoop` schedules it implements the
one-step `HooksSpec` of `GitlabWebhook`.

### How state and actions correspond to the code

`Targets`. `live` is the table, `store` the map of `boundary.go`, `obs[o]` the
observation a worker serves: `read` after the query, `sent` after the commit,
`applied` when the executor has stored it, `late` when the caller gave up and the
request is still under way. `Upsert` follows the UPDATE SQLAlchemy emits, which
names only the columns that differ from the row the session loaded. `committed`
is a history variable.

`Orchestrator`. `ses[s]` is the request of worker `s`. A handler is split where
other actors can come in between:

1. `...Load`: `_epoch_or_404` reads the epoch (`ses[s].row`). The agent's checks
   of change request, capability and policy belong to this step; they hold no
   lock, and the state they read only grows, apart from the clock.
2. The locking query returns (`Locked`). It does *not* refresh `ses[s].row`: the
   session was created with `expire_on_commit=False`, the query without
   `populate_existing`, so the identity map hands back the loaded object. Rows of
   approvals, receipts, changes and targets are first read here and are fresh.
3. Approve and issue decide and commit in the same step, as they call nobody. An
   execution keeps the lock and calls the executor (`ExecuteCall`), which answers
   or fails (`ExecutorAnswer`, `ExecutorFail`), and commits (`ExecuteCommit`) or
   meets the unique constraint (`ExecuteConflict`).
4. At any point a statement or a commit may fail (`RequestFails`): the handler ends with 500
   and what it has not committed is undone. `create_agent_change` has two commits, so what
   stays may be half of it: an epoch without its change request, as after a crash in between.

Refusals that change something (a recorded DENY or ASK) are actions of their own;
those that change nothing only end the request. With `RowLocks = FALSE` nobody
holds the lock, as SQLite ignores `FOR UPDATE`.

An epoch's identity, its change's action and its environment are constants
(`TargetOf`, `ReleaseOf`, `ActionOf`, `EnvOf`): no code changes them. A fingerprint
is the identity it digests. A pipeline status other than `success` and
`sha_mismatch` is `pending`. `passport[e]` is the set of event types; since every
prefix of a passport is the passport of an earlier state, an invariant over the
set is a statement about the order.

`EpochLedger` knows neither requests nor executor: register, approve at most
once, decide with authority and a fresh key, with state, receipt and event at one
instant. `Ledger` in `Orchestrator` is the refinement mapping.

`TargetsHistory` adds `disturbed[t]`: an observation that begins while another one of the
same target is under way marks an overlap, a timeout, a lost RPC or a restart marks a failure.

`PassportView`. `view` is a passport under construction: the object `_epoch_or_404` loaded,
and what each of `build_passport`'s queries returned, in the order of `governance.py`. Every
step of `Orchestrator` may come between two queries. A section stands for what its rows say
happened, in the words of the passport events, so that it can be compared with the timeline.

`Fingerprints`, `Boundary`. A digest keeps apart what the hash keeps apart: Go's JSON escapes
`&`, `<`, `>`, U+2028 and U+2029, and Python strips four separators that Go does not. `entries`
are the targets the executor's store knows: an observation adds one (`Put`), a restart forgets
all, and an execution without one is refused. What an entry says is any release here; `Targets`
has its contents. Time is in ticks, several to a second, because the token, its grant row and
the timestamp of the signature round differently: `expires` is the grant row's exact expiry,
`exp` the token's, `ts` the signed second. `call[w]` goes from `issued` (a capability) over
`ready` (admitted by `execute_agent_epoch`; it may wait here for the row lock) and `sent` to
`replied`, or is `late` once the caller has given up. `mode` is chosen at the start: in-process,
stdlib or Gin.

`GitlabWebhook`. `Sent` is the stream of hooks in GitLab's order; a hook's number stands for
the hash of its bytes. `HookLoads` (in `EventLoop`) reads the pipeline's epochs, `HookEffect`
is the handler's one commit: webhook row, statuses, events. `newest` and `inOrder` are history.
`HooksSpec` is the promise: a hook takes effect in one step and once; it may miss only epochs
that were created meanwhile. It holds because the handler never awaits between its query for
duplicates and its commit; with an `await` in between (`HookQueries_Yields`) it does not.

`EvidenceStore`. A path is an epoch and a content, as in `save_evidence`; two uploads of the
same content share it. `write_bytes` truncates, fills, and ends in steps of its own, the row
commits afterwards, and the `except` clause unlinks. `harmed` is the history of paths that a
failed upload or a crash touched while others used them.

`EventLoop`. `req[r]` is a request, its `pc` the point at which it can wait: dependencies in a
thread (`auth` with the query of the user, which takes the pooled connection; `opening` for a
hook, which has `get_db` alone), the handler in a thread (`running`; `locking`, from which only
the row lock leads on; `locked`) or on the loop (`connecting`, `committing`), and `answered`,
where `get_db`'s cleanup waits for the loop. That cleanup runs under a limiter of its own, so it
needs the loop but no worker thread. `loop` is the request whose handler blocks it, `conns` the
holders of connections, `lock[e]` the holder of a row lock. A full pool ends a wait after 30
seconds (`PoolTimeout`); a row lock has no timeout. `Deadlocked(S)`: each request of `S` waits
for the loop, a thread or a row that requests of `S` hold. A wait for a connection does not
count, as it ends by itself.

## Runs

Passing:

| Run | Instance | Shows |
|---|---|---|
| `MCTargets` | 2 observers, 1 target, 2 columns x 2 values, failures | the executor follows the database; the copies agree and the row was reported unless observations overlapped or something failed; handlers end |
| `MCHuman` | 1 human epoch, 2 workers, 3 keys, row locks, failures | locks, key freshness, verdicts per worker, observed releases, finality, the ledger |
| `MCAgentAllow` | 1 agent epoch in staging, 2 workers, 1 key, no row locks (SQLite), TTL 1, clock to 1, failures | authority, one verdict per key, controls and causality while capabilities expire; half a change serves no agent |
| `MCAgents` | 2 agent epochs, staging (ALLOW) and production (ASK), 1 worker, no failures | capabilities do not cross epochs; production needs its approval |
| `MCView` | 1 agent epoch, 1 worker, 3 keys, in-process executor, failures, 1 reader | a passport accounts for what it shows; a worker gives an epoch one verdict before its approval and one after |
| `MCBoundary` | 1 call at a time, 3 projects, 2 actions, 2 releases, 2 ticks to a second, drift 1 tick, all three executors, restarts | verdicts within the grant, late calls expire, refusals have a cause, fingerprints tell executions |
| `MCEventLoop` | 3 requests of any kind, 2 threads, 2 connections, 1 epoch, 3 hooks, 1 content, failures | nothing leaks, hooks take effect in one step, redeliveries are harmless, status and events are true, files and rows match; one kind of deadlock and no other; requests end |

Violations, each a disagreement between the code and what the repository says of it
("findings" quotes the lines):

| Run | What TLC finds |
|---|---|
| `MCStaleState` | two keys, two verdicts: both requests loaded `APPROVED` before the first commit |
| `MCStalePipeline` | an approval commits although the webhook has withdrawn the pipeline |
| `MCReopened` | an ALLOW epoch is executed, then approved, and is executable again |
| `MCTargetsReorder` | commits and RPCs in opposite orders leave the executor with the older identity |
| `MCLoopStuck` | an approval is refused, as the pipeline is pending, and ends with its row lock held; the commit of the webhook that verifies the pipeline waits for it on the event loop, and the cleanup that would free it needs the loop (a repeated approval or a replayed receipt does the same) |

`SettledStoresAgree` fails with overlapping observations, and `UndisturbedStoresAgree` holds
without: together they say that only overlaps and failures separate the copies. In the same
way `OneDeadlock` says that the state `MCLoopStuck` finds is the only one in which requests
wait in a circle, and `EndsUnlessLoopStuck` that it is the only way in which a request may
fail to end. `VerdictsPerWorker` bounds what `MCStaleState` and `MCReopened` find: a stale row
costs one verdict per worker, and an approval doubles the bound only where the policy
had let an agent execute before it.

Disagreements and weaknesses without a run of their own:

- With two observers the column-wise UPDATEs blend two observations into a row nobody
  reported (`LiveWasObserved` excepts overlaps), which the local client, comparing with the
  row, answers `EXECUTED`.
- With the local client an agent's read-only action, which the policy allows because it
  "changes no state" (`policy.py:31`), goes through `execute_epoch` and sets the state.
- The policy allows an agent's `promote`, the Gin executor refuses any action but
  `deploy` (`boundary.go:150`), and the stdlib program refuses every agent: `RefusedForCause`
  names these causes. A project with one of Go's five escaped characters in its name is
  refused to agents, and its `EXECUTED` receipts of humans show two different fingerprints
  (`ReceiptFingerprints`).
- After a restart the executor refuses every execution, a human's too, until somebody
  observes the target again (`grpc_server.go:141`), and nothing repeats the observations.
- A crash or a failed second commit (`governance.py:76`) leaves an agent's epoch without its
  change request for good; `HalfChangeServesNoAgent` says what it can still be used for.
- A failed upload unlinks the file of an earlier one with the same content
  (`services.py:366`); `RowHasFile` excepts such paths.
- An older hook delivered after a newer one overwrites its status (`main.py:358`);
  `RedeliveryHarmless` is about streams whose first deliveries are in order.
- A hook that finds the pool full holds the event loop for up to 30 seconds (`PoolTimeout`).
- What commits while a passport is read is in its timeline and missing in the sections
  read before: the converse of `PassportAccounts` does not hold.

**Bounds.** Two workers are the fewest with races, and each hazard of the list is a
race of two requests or of a request and the webhook or an observer, which have
their own actions. Three keys against two workers let one worker decide twice and
still leave a key, so `VerdictsPerWorker` could fail; three keys against the one worker of
`MCView` do the same for the doubled bound of an allowed epoch. `MCAgentAllow` has one key for two
workers, so every pair of executions competes for it; without row locks its interleavings
include those with. One epoch is enough where no step reads another epoch's rows;
capabilities are what could cross, hence `MCAgents`. Two values of one column make observed
and pinned release differ; two columns are needed for blending. `TTL = 1` and `MaxTime = 1`
put the expiry inside every request. `MaxTime` is the only cap on a counter, in `Tick` and in
the ticks of `Boundary`; `outbox` is bounded by the keys, as every decision takes one.

`RequestFails` and `Crash` are in every run of `Orchestrator` with failures; `MCAgents` has
none, as its question is about two epochs, and `MCAgentAllow` asks the same of one with them.
`MCView` has one worker: two queries of the reader separate any two commits, whoever makes them,
and one reader is enough as readers change nothing. In `MCBoundary` calls touch only through the
entries that earlier ones left, so one worker with consecutive calls is enough; two ticks to a
second show every rounding, and nine ticks hold a capability of two seconds and a signature
window of two seconds one after the other. The third project stands for those with a separator
at an end, the second for those with an escaped character. In `MCEventLoop` a request is served
once, so three requests mean one that holds, one that waits and one in their way; two threads
and two connections are both one less than the requests. The three hooks are a success on the
epoch's commit, one on another commit, and a rerun.

Workers, keys and observers are symmetric; no run with liveness uses symmetry.

**Fairness.** `HistorySpec` (as `TargetsSpec`): weak fairness of `HandlerStep`, the steps of a
worker that already runs an observation. A thread of the pool runs its handler to the end and
the RPC ends by an answer or by its five-second timeout (`executor_client.py`). Nobody is
obliged to report an observation, and a lost RPC need not arrive; without failures a sent
RPC does. `EventLoop`: weak fairness of `Step(r)` for each request, the steps it takes by
itself. The loop runs the callbacks that are ready, a thread runs until it waits, and a
pool wait ends by a connection or by its timeout. Weak fairness is enough although requests
compete, as each holds a place once and there are finitely many requests. Arrivals, failures
and crashes are not promised. The other specifications have no fairness: their properties are
safety properties.

**Deadlock** is checked in every run but those of `EventLoop`, whose finitely many requests
end (and `MCLoopStuck` is there for the case that they do not).

## Proofs

All theorems hold for every value of the constants that satisfies the named
assumptions (types of the payload constants; `None` differs from releases, sessions and
fingerprints; `Remote` agrees with `Executor`; `TTL` positive; `FinitelyManyWorkers`, which
only the bound on verdicts needs; drift at most the signature's window). Every safety
property of the passing runs is proved.

`TargetsProofs`: `TargetsInv` adds two facts to typing and `ExecutorFollowsDatabase`: a row
that was loaded stays (`LoadedRowStays`), and what was sent had been committed
(`SentWasCommitted`). The second is what makes the property inductive: `Deliver` needs
to know it of a request that has been under way for any time, through timeouts and crashes.

`HistoryProofs`: `Serial` (without overlap at most one observation of a target is under way,
and the row it loaded is still there, so its UPDATE is exact, `UpsertIsExact`) holds with
either client and gives `SerialRowWasObserved`. `Calm` (without failure what is on its way is
the row, and with nothing on its way the executor has it) is about `Remote` only, and so is
`UndisturbedCopiesAgree`: the local client has no second copy.

`OrchestratorProofs`: the inductive invariant `Inv` is
`TypeOK /\ TargetsInv /\ LockInv /\ RequestInv /\ VerdictHasAuthority /\ KeyDecidedOnce`.
`VerdictHasAuthority` alone is not inductive, since `ExecuteCommit` no longer looks at the
approval, the policy or the token: `RequestInv` carries what the earlier steps of the
same request established, and `AuthorityStays` shows that no step of another request
takes it back (approvals, changes and grants only grow). Each action has a lemma;
a handler's end is proved once (`FinishKeepsInv`). `OrchestratorRunsTargets` is the
composition: each step of the orchestrator is a step of `Targets` or leaves the targets
alone, so the safety properties of `Targets` hold inside it; the one step to look at
is the crash, which drops observations only if there are any (`CrashOfTargets`).

`LedgerProofs` draws on `Inv`:

- `KeysStayFresh`: by `LockInv` the commit of another request is one of another epoch.
- `ApprovedVerdictIsFinal`: only approve leads out of a verdict state, and it returns the approval that exists.
- `RemoteExecutionWasObserved`: under `Remote`, with the answers not yet committed (`AnswersWereObserved`) as strengthening.
- `SerialExecutionWasObserved`: with either client, as long as no two observations of one target
  are in their transactions at once (`[]~Overlapping`). The in-process client compares with
  the row the execution read, so the strengthening follows that row from the commit of its
  observation (`SerialInv`) into `ses[s].seen` (`SeenWasObserved`) and the answer. Without the
  hypothesis it is false, by the blended row listed above.
- `OrchestratorImplementsLedger`: `ApproveCommit` is `Approve`, `ExecuteCommit` is `Decide` (its
  authority is `RequestInv`'s, its fresh key its own guard), creation is `Register`,
  and `EpochWrites` with `OnlyCommitsWriteReceipts` leaves stuttering for the rest.

`PassportProofs`: `PassportInv` says what each row, request, capability and receipt left in
the passport of its epoch. The part about requests matters: an approval is admitted by the
*stale* row of its request, so causality needs that a row ever loaded as verified left its
event. `WorkersInv` counts: in a verdict state the receipts of an epoch plus the requests that
may still decide it (`Pending`) never exceed its quota, since nobody joins them; an approval
reopens only an epoch of an allowed agent, and only once, which adds the workers once more
(`Reserve`). Two theorems say what the stale row of `services.py:257` is to blame for. Their
hypothesis `[][~ActsOnStaleRow]_vars` is what a refreshing query would ensure: no request
approves, issues or calls the executor on a row that was changed after it loaded it.
`CurrentRowsDecideOnce`: then, with row locks, an epoch gets one verdict (two if it is approved
after an agent's), because an execution under its lock finds an executable state and nobody
changes it before the commit (`DecidedOnce`). `CurrentRowsAreVerified`: then an approval finds
the pipeline verified. `MCStaleState` and `MCStalePipeline` show that both need it.
`OnlyUnattendedReopen` does the same for `MCReopened`, without a hypothesis: a verdict state is
left only by the first approval of an epoch the policy had let an agent execute, since any
other verdict rests on an approval that exists (`DecidedIsApproved`, `DecidedHasReceipt`).

`HalfChangesServeNoAgent` is about the two commits of an agent's change: a capability needs
the change request (`GrantsHaveChange`), an agent's verdict a capability (`PassportInv`), and any
other verdict an approval (`Inv`).

`PassportViewProofs`: `AccountsInv` (the state of an epoch has its approval or its receipt,
a receipt its event) and `ViewInv`: what was read so far is in the passport *now*, which
stays true while others commit because events, approvals and receipts are never removed; the
timeline is read last, so it has all of it. `ReaderIsInvisible` brings `Inv` and `PassportInv` along.

`BoundaryProofs`: `BoundaryInv` adds the drift of the clocks and `Stamped` (a token
carries the expiry of its grant row and a timestamp the time of signing, both cut to whole
seconds) to the four properties; the rest is arithmetic on whole seconds (`div`), stated as lemmas.

`EventLoopProofs`: `LeakInv` is `NothingLeaks` with `Connected` (a request past its first
query has its connection), proved through one lemma about how a request moves. On it rests
`NoOtherDeadlock`, a proof about every set of requests that wait in a circle: the holder of a
row in it has answered, so it waits for the loop (`RowHolderAnswered`); if all threads are
taken by it, one of their requests waits for a row; so the loop is always in it
(`DeadlockTakesLoop`), in a commit that waits for a row (`DeadlockIsLoopStuck`).
`OpenTransactionsStickTheLoop` names the step to blame, `HandlerReturns`: were every handler to
end its transaction before it answers, rows would be held at work only (`HeldAtWork`) and no
circle would exist. `HookInv` says that the rows a hook loaded are still those of its pipeline
when it commits, that the hook is still unprocessed, since it holds the loop in between, and
that epochs it missed were loaded by no hook; this is what the refinement
`HandlerImplementsHooks` needs. `FileInv` follows each path through its writers and the uploads
that wait to commit.

So each violation run has its counterpart among the theorems, which says that the cause it
shows is the only one: `MCStaleState` `CurrentRowsDecideOnce`, `MCStalePipeline`
`CurrentRowsAreVerified`, `MCReopened` `OnlyUnattendedReopen`, `MCLoopStuck` `NoOtherDeadlock` and
`OpenTransactionsStickTheLoop`, `MCTargetsReorder` `UndisturbedCopiesAgree` (overlap or failure).

Model-checked only: the two liveness properties, `ObservationsEnd` and `EndsUnlessLoopStuck`
(liveness is out of the prover's reach). The reachability of the five violations is TLC's as well.

## What is left

The plan of this project is carried out. What a next step could add: `demo_bootstrap` against
running requests (it needs a history that survives the deletion of epochs); the composition
of `EventLoop` with the handlers of `Orchestrator`, whose product is beyond TLC and which
would have to be proved from the refinements above; a publisher of the outbox, once the repository has one.

## Not modelled

- `demo_bootstrap`, an endpoint of the demo mode that deletes the rows every other property
  speaks of.
- Roles and login (every caller may call; `EventLoop` has the query of `current_user`),
  input validation (its outcome is the range of the constants), the health probe and the
  other read endpoints, which change nothing.
- The console, migrations, scripts and generated code.
- HMAC and JWT signatures are taken to be valid, since both sides share the key in one
  deployment; their age and their expiry are modelled.
- Wording, latencies and field diffs of receipts; no property is about them.
