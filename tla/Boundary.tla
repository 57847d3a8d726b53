------------------------------ MODULE Boundary ------------------------------
(***************************************************************************)
(* The authenticated call from the orchestrator to the executor, on two    *)
(* clocks.  The orchestrator issues a capability whose expiry is exact in  *)
(* the grant row and cut to whole seconds in the token, verifies it,       *)
(* possibly waits for the epoch's row lock, signs the call with its time   *)
(* in whole seconds, and gives up after a timeout; the executor checks the *)
(* age of the signature, the capability and the release when the call      *)
(* arrives, by its own clock.                                              *)
(*                                                                         *)
(* Time is counted in ticks, TicksPerSecond of them to a second.  The      *)
(* secrets are shared and signatures are not forged.  Of the executor's    *)
(* store, which is in memory, the model keeps which targets have an entry; *)
(* what the entry says is any release (Targets has the contents).  A       *)
(* project stands for the target in one environment.                       *)
(***************************************************************************)
EXTENDS Integers, Fingerprints

CONSTANTS
  Worker,          \* the worker threads that call the executor
  Action,          \* the actions agents ask for
  TicksPerSecond,
  TTL,             \* lifetime of a capability, in seconds
  MaxClockSkew,    \* age at which the executor drops a signature, in seconds
  CallTimeout,     \* patience of the caller, in seconds
  Drift,           \* bound on the difference of the clocks, in ticks
  MaxTime          \* bound on the clocks

ASSUME ClockBounds ==
  /\ TicksPerSecond \in Nat \ {0}
  /\ {TTL, MaxClockSkew, CallTimeout, Drift, MaxTime} \subseteq Nat
  /\ Drift <= MaxClockSkew * TicksPerSecond

VARIABLES
  mode,      \* settings.executor_mode and the Go program behind it
  oclock,    \* the orchestrator's clock
  eclock,    \* the executor's clock
  entries,   \* the projects of which the executor's store has an entry
  call       \* call[w]: the call of worker w

bvars == <<mode, oclock, eclock, entries, call>>

----------------------------------------------------------------------------
(* A call: "issued" has only its capability, "ready" has passed            *)
(* execute_agent_epoch's checks, "sent" is under way, "late" too but given *)
(* up by the caller, "replied" was answered.  The reply keeps both clocks, *)
(* and whether the store had an entry, as history.                         *)

Idle == [step |-> "idle"]
Verdict == {"EXECUTED", "DENIED_STALE"}
NoReply == [verdict |-> "none"]
Reply == [verdict: Verdict \cup {"stored", "refused"}, fingerprint: Digest, at: Nat, eat: Nat,
          entry: BOOLEAN]
Call == [step: {"issued", "ready", "sent", "late", "replied"},
         by: {"human", "agent", "observe"}, name: Name, release: Release, action: Action,
         expires: Nat, exp: Nat, signed: Nat, ts: Nat, reply: Reply \cup {NoReply}]

(* A time in whole seconds.                                                *)
Seconds(t) == t \div TicksPerSecond

BoundaryInit ==
  /\ mode \in {"local", "stdlib", "gin"}
  /\ oclock = 0 /\ eclock = 0 /\ entries = {}
  /\ call = [w \in Worker |-> Idle]

Begin(w, step, by, name, release, action, expires, exp) ==
  /\ call[w] = Idle
  /\ call' = [call EXCEPT ![w] =
       [step |-> step, by |-> by, name |-> name, release |-> release, action |-> action,
        expires |-> expires, exp |-> exp, signed |-> 0, ts |-> 0, reply |-> NoReply]]
  /\ UNCHANGED <<mode, oclock, eclock, entries>>

(* Slip: the token's expiry is rounded up.                                 *)
TokenExpiry_RoundedUp(expires) == Seconds(expires) + 1

(* The encoder of the token writes a date as whole seconds.                *)
TokenExpiry(expires) == Seconds(expires)

(* issue_capability; the expiry of the row is the one before truncation.   *)
IssueCapability(w, name, release, action) ==
  LET expires == oclock + TTL * TicksPerSecond
  IN Begin(w, "issued", "agent", name, release, action, expires, TokenExpiry(expires))

(* A human's execution and an observation carry no capability.             *)
CallWithoutContext(w, by, name, release) ==
  /\ by = "observe" => mode # "local"
  /\ \E action \in Action : Begin(w, "ready", by, name, release, action, 0, 0)

(* verify_capability: the decoder refuses from the second exp on.          *)
verify_capability(c) == c.exp * TicksPerSecond > oclock
GrantAlive(c) == c.expires > oclock

(* execute_agent_epoch admits the call or answers 403.                     *)
AgentChecked(w) ==
  /\ call[w].step = "issued"
  /\ call' = [call EXCEPT ![w] =
       IF verify_capability(@) /\ GrantAlive(@) THEN [@ EXCEPT !.step = "ready"] ELSE Idle]
  /\ UNCHANGED <<mode, oclock, eclock, entries>>

----------------------------------------------------------------------------
(* _signed_post and _grpc_metadata stamp and sign the call, then send it.  *)
Send(w) ==
  /\ call[w].step = "ready" /\ mode # "local"
  /\ call' = [call EXCEPT ![w] =
       [@ EXCEPT !.step = "sent", !.signed = oclock, !.ts = Seconds(oclock)]]
  /\ UNCHANGED <<mode, oclock, eclock, entries>>

Replied(w, verdict, fingerprint) ==
  /\ call' = [call EXCEPT ![w] =
       [@ EXCEPT !.step = "replied",
                 !.reply = [verdict |-> verdict, fingerprint |-> fingerprint,
                            at |-> oclock, eat |-> eclock,
                            entry |-> call[w].name \in entries]]]
  /\ UNCHANGED <<mode, oclock, eclock>>

(* Slip: the age of a signature is not limited.                            *)
ValidSignature_AnyAge(c) == c.ts * TicksPerSecond - eclock <= MaxClockSkew * TicksPerSecond

(* Slip: a signature from the future is refused however near.              *)
ValidSignature_NoFuture(c) ==
  /\ eclock - c.ts * TicksPerSecond <= MaxClockSkew * TicksPerSecond
  /\ c.ts * TicksPerSecond <= eclock

(* ValidSignature and ValidRPCSignature.                                   *)
ValidSignature(c) ==
  /\ eclock - c.ts * TicksPerSecond <= MaxClockSkew * TicksPerSecond
  /\ c.ts * TicksPerSecond - eclock <= MaxClockSkew * TicksPerSecond

VerifyCapability(c) == c.exp > Seconds(eclock)

(* ValidateAgentExecutionCapability; the stdlib program knows no context   *)
(* and refuses the field.                                                  *)
ContextValid(c) ==
  c.by = "agent" =>
    /\ mode = "gin"
    /\ c.action = "deploy"
    /\ PythonFingerprint(c.name, c.release) = GoFingerprint(c.name, c.release)
    /\ VerifyCapability(c)

(* Slip: only project and environment are compared.                        *)
Compare_TargetOnly(expected, observed) == "EXECUTED"

(* Slip: an outcome the orchestrator does not know.                        *)
Compare_Renamed(expected, observed) == IF expected = observed THEN "EXECUTED" ELSE "DENIED"

(* Compare goes by the columns, never by the fingerprint.                  *)
Compare(expected, observed) == IF expected = observed THEN "EXECUTED" ELSE "DENIED_STALE"

(* Put, and the keys of the store.                                         *)
Put(name) == entries' = entries \cup {name}

(* The call arrives.  Execute answers FailedPrecondition (409 over HTTP)   *)
(* for a target of which the store has no entry.                           *)
ExecutorReceives(w, observed) ==
  LET c == call[w]
      Refuse == Replied(w, "refused", GoFingerprint(c.name, c.release)) /\ UNCHANGED entries
      Observe == Replied(w, "stored", GoFingerprint(c.name, c.release)) /\ Put(c.name)
      Execute == /\ Replied(w, Compare(c.release, observed), GoFingerprint(c.name, observed))
                 /\ UNCHANGED entries
  IN /\ c.step \in {"sent", "late"}
     /\ IF ~ValidSignature(c) \/ ~ContextValid(c) THEN Refuse
        ELSE IF c.by = "observe" THEN Observe
        ELSE IF c.name \in entries THEN Execute ELSE Refuse

(* The executor dies and is started again, with an empty store.            *)
ExecutorRestarts ==
  /\ mode # "local"
  /\ entries' = {}
  /\ UNCHANGED <<mode, oclock, eclock, call>>

(* LocalExecutorClient.execute compares the fingerprints, the observed one *)
(* of the database's row, without which no call is made (services.py 287). *)
LocalExecute(w, observed) ==
  LET c == call[w]
      digest == PythonFingerprint(c.name, observed)
  IN /\ c.step = "ready" /\ mode = "local"
     /\ Replied(w, IF c.by = "agent" /\ ~verify_capability(c) THEN "refused"
                   ELSE IF PythonFingerprint(c.name, c.release) = digest THEN "EXECUTED"
                   ELSE "DENIED_STALE",
                digest)
     /\ UNCHANGED entries

GiveUp(w) ==
  /\ call[w].step = "sent"
  /\ oclock >= call[w].signed + CallTimeout * TicksPerSecond
  /\ call' = [call EXCEPT ![w].step = "late"]
  /\ UNCHANGED <<mode, oclock, eclock, entries>>

(* The reply reaches the caller or does not; a call may be lost.           *)
Finish(w) ==
  /\ call[w].step \in {"sent", "late", "replied"}
  /\ call' = [call EXCEPT ![w] = Idle]
  /\ UNCHANGED <<mode, oclock, eclock, entries>>

OrchestratorTick ==
  /\ oclock < MaxTime /\ oclock < eclock + Drift
  /\ oclock' = oclock + 1
  /\ UNCHANGED <<mode, eclock, entries, call>>

ExecutorTick ==
  /\ eclock < MaxTime /\ eclock < oclock + Drift
  /\ eclock' = eclock + 1
  /\ UNCHANGED <<mode, oclock, entries, call>>

BoundaryNext ==
  \/ \E w \in Worker :
       \/ \E name \in Name, release \in Release :
            \/ \E action \in Action : IssueCapability(w, name, release, action)
            \/ \E by \in {"human", "observe"} : CallWithoutContext(w, by, name, release)
       \/ AgentChecked(w) \/ Send(w)
       \/ \E observed \in Release : ExecutorReceives(w, observed) \/ LocalExecute(w, observed)
       \/ GiveUp(w) \/ Finish(w)
  \/ ExecutorRestarts
  \/ OrchestratorTick \/ ExecutorTick

BoundarySpec == BoundaryInit /\ [][BoundaryNext]_bvars

----------------------------------------------------------------------------
BoundaryTypeOK ==
  /\ mode \in {"local", "stdlib", "gin"}
  /\ oclock \in Nat /\ eclock \in Nat /\ entries \subseteq Name
  /\ call \in [Worker -> Call \cup {Idle}]

Decided(c) == c.step = "replied" /\ c.reply.verdict \in Verdict
Taken(c) == c.step = "replied" /\ c.reply.verdict # "refused"
Refused(c) == c.step = "replied" /\ c.reply.verdict = "refused"

(* An agent gets a verdict only while the grant row is unexpired: by the   *)
(* executor's clock, whatever the call waited for after the orchestrator   *)
(* had verified the capability, and up to the drift by the orchestrator's. *)
DecidedWhileGranted ==
  \A w \in Worker : Decided(call[w]) /\ call[w].by = "agent" =>
    /\ call[w].reply.at < call[w].expires + Drift
    /\ call[w].reply.at < call[w].expires \/ mode # "local"
    /\ call[w].reply.eat < call[w].expires \/ mode = "local"

(* A call that the caller gave up long ago has no effect any more: an      *)
(* observation in particular overwrites the executor's entry at most       *)
(* MaxClockSkew and the drift after it was signed.                         *)
LateCallsExpire ==
  \A w \in Worker : Taken(call[w]) /\ mode # "local" =>
    call[w].reply.at <= call[w].signed + MaxClockSkew * TicksPerSecond + Drift

(* The executor refuses nobody without a cause the caller can know: an     *)
(* agent's context that this program does not take, a project whose        *)
(* fingerprint differs between the languages, a capability in its last     *)
(* second, a target it has not been told of since its last start, or a     *)
(* call that took as long as a signature lives, less the drift and the     *)
(* second lost in the timestamp.                                           *)
NotTaken(c) ==
  \/ mode = "stdlib"
  \/ mode = "gin" /\ (c.action # "deploy" \/ c.name \notin Portable)
Expiring(c) == c.reply.at + Drift + TicksPerSecond > c.expires
Unobserved(c) == c.by # "observe" /\ ~c.reply.entry
TookLong(c) ==
  c.reply.at + Drift + TicksPerSecond > c.signed + MaxClockSkew * TicksPerSecond
RefusedForCause ==
  \A w \in Worker : Refused(call[w]) =>
    \/ call[w].by = "agent" /\ (NotTaken(call[w]) \/ Expiring(call[w]))
    \/ mode # "local" /\ (Unobserved(call[w]) \/ TookLong(call[w]))

(* The two fingerprints of a receipt, the approved one computed in Python  *)
(* and the observed one by the executor, are equal for an executed release *)
(* and only for one, unless the project is one that the languages digest   *)
(* differently: then an EXECUTED receipt shows two fingerprints.           *)
ReceiptFingerprints ==
  \A w \in Worker : Decided(call[w]) =>
    (call[w].reply.fingerprint = PythonFingerprint(call[w].name, call[w].release)
       <=> /\ call[w].reply.verdict = "EXECUTED"
           /\ mode = "local" \/ call[w].name \in Portable)
=============================================================================
