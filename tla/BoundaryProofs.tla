--------------------------- MODULE BoundaryProofs ---------------------------
(***************************************************************************)
(* Proofs about the call from the orchestrator to the executor, for any    *)
(* number of workers and projects, any resolution of the clocks, lifetimes *)
(* and limits, and any drift up to the limit on signatures.                *)
(***************************************************************************)
EXTENDS Boundary, TLAPS

(* A time and the same time in whole seconds differ by less than a second. *)
LEMMA SecondsBounds ==
  \A t \in Nat : /\ Seconds(t) \in Nat
                 /\ Seconds(t) * TicksPerSecond <= t
                 /\ t < Seconds(t) * TicksPerSecond + TicksPerSecond
  BY ClockBounds DEF Seconds

(* Comparing whole seconds with a time and with its truncation is the      *)
(* same: PyJWT and VerifyCapability agree on equal clocks.                 *)
LEMMA WholeSeconds ==
  \A s, t \in Nat : s > Seconds(t) <=> s * TicksPerSecond > t
  <1> SUFFICES ASSUME NEW s \in Nat, NEW t \in Nat
               PROVE  s > Seconds(t) <=> s * TicksPerSecond > t
    OBVIOUS
  <1>1. /\ Seconds(t) \in Nat
        /\ Seconds(t) * TicksPerSecond <= t
        /\ t < Seconds(t) * TicksPerSecond + TicksPerSecond
    BY SecondsBounds
  <1>2. ASSUME s > Seconds(t) PROVE s * TicksPerSecond >= Seconds(t) * TicksPerSecond + TicksPerSecond
    <2>1. s >= Seconds(t) + 1
      BY <1>1, <1>2
    <2> QED BY <1>1, <2>1, ClockBounds
  <1>3. ASSUME ~(s > Seconds(t)) PROVE s * TicksPerSecond <= Seconds(t) * TicksPerSecond
    BY <1>1, <1>3, ClockBounds
  <1> QED BY <1>1, <1>2, <1>3, ClockBounds

(* The two languages digest an identity alike exactly for a portable       *)
(* project, and each digest tells releases apart.                          *)
LEMMA FingerprintsAgree ==
  ASSUME NEW n \in Name, NEW r \in Release, NEW q \in Release
  PROVE  /\ PythonFingerprint(n, r) = PythonFingerprint(n, q) <=> r = q
         /\ GoFingerprint(n, q) = PythonFingerprint(n, r) <=> r = q /\ n \in Portable
         /\ PythonFingerprint(n, r) \in Digest
         /\ GoFingerprint(n, r) \in Digest
  <1> DEFINE written == n \in Escaped
             padded == n \in Padded
  <1>1. written \in BOOLEAN /\ padded \in BOOLEAN
    OBVIOUS
  <1>2. n \in Portable <=> written = FALSE /\ padded = FALSE
    BY DEF Portable
  <1>3. GoFingerprint(n, r) = [name |-> n, escaped |-> written, padded |-> padded, release |-> r]
    BY DEF GoFingerprint
  <1>4. GoFingerprint(n, q) = [name |-> n, escaped |-> written, padded |-> padded, release |-> q]
    BY DEF GoFingerprint
  <1> HIDE DEF written, padded
  <1>5. [name |-> n, escaped |-> written, padded |-> padded, release |-> r] \in Digest
    BY <1>1 DEF Digest
  <1>6. [name |-> n, escaped |-> written, padded |-> padded, release |-> q]
          = [name |-> n, escaped |-> FALSE, padded |-> FALSE, release |-> r]
        <=> r = q /\ written = FALSE /\ padded = FALSE
    BY <1>1
  <1>7. PythonFingerprint(n, r) \in Digest
    BY DEF PythonFingerprint, Digest
  <1>8. PythonFingerprint(n, r) = PythonFingerprint(n, q) <=> r = q
    BY DEF PythonFingerprint
  <1>9. GoFingerprint(n, q) = PythonFingerprint(n, r) <=> r = q /\ n \in Portable
    BY <1>2, <1>4, <1>6 DEF PythonFingerprint
  <1> QED BY <1>3, <1>5, <1>7, <1>8, <1>9

(* The strengthening: the clocks stay together, the token's expiry is the  *)
(* grant's in whole seconds, and a call is under way only to a remote      *)
(* executor and carries the second in which it was signed.                 *)
ClocksTogether == oclock <= eclock + Drift /\ eclock <= oclock + Drift

Stamped(c) ==
  /\ c.step # "idle" /\ c.by = "agent" => c.exp = Seconds(c.expires)
  /\ c.step \in {"sent", "late"} =>
       mode # "local" /\ c.ts = Seconds(c.signed) /\ c.signed <= oclock

BoundaryInv ==
  /\ BoundaryTypeOK
  /\ ClocksTogether
  /\ \A w \in Worker : Stamped(call[w])
  /\ DecidedWhileGranted
  /\ LateCallsExpire
  /\ RefusedForCause
  /\ ReceiptFingerprints

(* What the four properties say of one call.                               *)
ReplyOK(c) ==
  /\ Decided(c) /\ c.by = "agent" =>
       /\ c.reply.at < c.expires + Drift
       /\ c.reply.at < c.expires \/ mode # "local"
       /\ c.reply.eat < c.expires \/ mode = "local"
  /\ Taken(c) /\ mode # "local" =>
       c.reply.at <= c.signed + MaxClockSkew * TicksPerSecond + Drift
  /\ Refused(c) =>
       \/ c.by = "agent" /\ (NotTaken(c) \/ Expiring(c))
       \/ mode # "local" /\ (Unobserved(c) \/ TookLong(c))
  /\ Decided(c) =>
       (c.reply.fingerprint = PythonFingerprint(c.name, c.release)
          <=> /\ c.reply.verdict = "EXECUTED"
              /\ mode = "local" \/ c.name \in Portable)

LEMMA RepliesOK ==
  (\A w \in Worker : ReplyOK(call[w])) <=>
    DecidedWhileGranted /\ LateCallsExpire /\ RefusedForCause /\ ReceiptFingerprints
  BY DEF ReplyOK, DecidedWhileGranted, LateCallsExpire, RefusedForCause, ReceiptFingerprints

(* A step that changes one call keeps the invariant when the call it       *)
(* leaves behind is well formed.                                           *)
LEMMA OneCall ==
  ASSUME BoundaryInv, NEW w \in Worker, UNCHANGED <<mode, oclock, eclock>>,
         entries' \subseteq Name,
         NEW c \in Call \cup {Idle}, call' = [call EXCEPT ![w] = c],
         Stamped(c), ReplyOK(c)
  PROVE  BoundaryInv'
  <1>1. /\ call'[w] = c
        /\ \A v \in Worker : v # w => call'[v] = call[v]
    BY DEF BoundaryInv, BoundaryTypeOK
  <1>2. (BoundaryTypeOK /\ ClocksTogether)'
    BY DEF BoundaryInv, BoundaryTypeOK, ClocksTogether
  <1>3. \A v \in Worker : Stamped(call[v])'
    BY <1>1 DEF BoundaryInv, Stamped
  <1>4. \A v \in Worker : ReplyOK(call[v])'
    <2>1. \A v \in Worker : ReplyOK(call[v])
      BY RepliesOK DEF BoundaryInv
    <2> QED BY <1>1, <2>1 DEF ReplyOK, NotTaken, Expiring, Unobserved, TookLong, Decided,
                              Taken, Refused
  <1>5. (DecidedWhileGranted /\ LateCallsExpire /\ RefusedForCause /\ ReceiptFingerprints)'
    BY <1>4 DEF ReplyOK, DecidedWhileGranted, LateCallsExpire, RefusedForCause,
                ReceiptFingerprints
  <1> QED BY <1>2, <1>3, <1>5 DEF BoundaryInv

LEMMA IdleCall == Idle \in Call \cup {Idle} /\ Stamped(Idle) /\ ReplyOK(Idle)
  BY DEF Idle, Stamped, ReplyOK, Decided, Taken, Refused

(* A new call has no reply and is not signed.                              *)
LEMMA BeginKeeps ==
  ASSUME BoundaryInv, NEW w \in Worker, NEW step \in {"issued", "ready"},
         NEW by \in {"human", "agent", "observe"}, NEW n \in Name, NEW r \in Release,
         NEW a \in Action, NEW expires \in Nat, NEW exp \in Nat,
         by = "agent" => exp = Seconds(expires),
         Begin(w, step, by, n, r, a, expires, exp)
  PROVE  BoundaryInv'
  <1> DEFINE c == [step |-> step, by |-> by, name |-> n, release |-> r, action |-> a,
                   expires |-> expires, exp |-> exp, signed |-> 0, ts |-> 0, reply |-> NoReply]
  <1>1. c \in Call
    BY DEF Call
  <1>2. Stamped(c) /\ ReplyOK(c)
    BY DEF Stamped, ReplyOK, Decided, Taken, Refused
  <1> HIDE DEF c
  <1>3. call' = [call EXCEPT ![w] = c] /\ UNCHANGED <<mode, oclock, eclock>>
        /\ entries' \subseteq Name
    BY DEF Begin, c, BoundaryInv, BoundaryTypeOK
  <1> QED BY <1>1, <1>2, <1>3, OneCall

LEMMA IssueKeeps ==
  ASSUME BoundaryInv, NEW w \in Worker, NEW n \in Name, NEW r \in Release, NEW a \in Action,
         IssueCapability(w, n, r, a)
  PROVE  BoundaryInv'
  <1>1. oclock + TTL * TicksPerSecond \in Nat
    BY ClockBounds DEF BoundaryInv, BoundaryTypeOK
  <1>2. Seconds(oclock + TTL * TicksPerSecond) \in Nat
    BY <1>1, SecondsBounds
  <1> QED BY <1>1, <1>2, BeginKeeps DEF IssueCapability, TokenExpiry

LEMMA ContextlessKeeps ==
  ASSUME BoundaryInv, NEW w \in Worker, NEW by \in {"human", "observe"},
         NEW n \in Name, NEW r \in Release, CallWithoutContext(w, by, n, r)
  PROVE  BoundaryInv'
  <1>1. PICK a \in Action : Begin(w, "ready", by, n, r, a, 0, 0)
    BY DEF CallWithoutContext
  <1> QED BY <1>1, BeginKeeps

LEMMA CheckedKeeps ==
  ASSUME BoundaryInv, NEW w \in Worker, AgentChecked(w)
  PROVE  BoundaryInv'
  <1> DEFINE c == IF verify_capability(call[w]) /\ GrantAlive(call[w])
                    THEN [call[w] EXCEPT !.step = "ready"] ELSE Idle
  <1>1. call[w] \in Call /\ Stamped(call[w])
    BY DEF BoundaryInv, BoundaryTypeOK, AgentChecked, Idle
  <1>2. c \in Call \cup {Idle} /\ Stamped(c) /\ ReplyOK(c)
    BY <1>1, IdleCall DEF AgentChecked, Call, Stamped, ReplyOK, Decided, Taken, Refused
  <1>3. call' = [call EXCEPT ![w] = c] /\ UNCHANGED <<mode, oclock, eclock>>
        /\ entries' \subseteq Name
    BY DEF AgentChecked, BoundaryInv, BoundaryTypeOK
  <1> HIDE DEF c
  <1> QED BY <1>2, <1>3, OneCall

(* The stamp of the call is the second of the orchestrator's clock.        *)
LEMMA SendKeeps ==
  ASSUME BoundaryInv, NEW w \in Worker, Send(w)
  PROVE  BoundaryInv'
  <1> DEFINE c == [call[w] EXCEPT !.step = "sent", !.signed = oclock, !.ts = Seconds(oclock)]
  <1>1. call[w] \in Call /\ Stamped(call[w]) /\ oclock \in Nat /\ Seconds(oclock) \in Nat
    BY SecondsBounds DEF BoundaryInv, BoundaryTypeOK, Send, Idle
  <1>2. c \in Call
    BY <1>1 DEF Send, Call
  <1>3. /\ c.step = "sent" /\ c.signed = oclock /\ c.ts = Seconds(oclock)
        /\ c.by = call[w].by /\ c.exp = call[w].exp /\ c.expires = call[w].expires
    BY <1>1 DEF Call
  <1>4. call' = [call EXCEPT ![w] = c] /\ UNCHANGED <<mode, oclock, eclock>>
        /\ entries' \subseteq Name
    BY DEF Send, BoundaryInv, BoundaryTypeOK
  <1> HIDE DEF c
  <1>5. Stamped(c) /\ ReplyOK(c)
    BY <1>1, <1>3 DEF Send, Stamped, ReplyOK, Decided, Taken, Refused
  <1> QED BY <1>2, <1>4, <1>5, OneCall

(* What the four properties ask of a reply to the call b.                  *)
Fits(b, verdict, digest) ==
  /\ verdict \in Verdict /\ b.by = "agent" =>
       /\ oclock < b.expires + Drift
       /\ oclock < b.expires \/ mode # "local"
       /\ eclock < b.expires \/ mode = "local"
  /\ verdict # "refused" /\ mode # "local" =>
       oclock <= b.signed + MaxClockSkew * TicksPerSecond + Drift
  /\ verdict = "refused" =>
       \/ b.by = "agent" /\ (NotTaken(b) \/ oclock + Drift + TicksPerSecond > b.expires)
       \/ /\ mode # "local"
          /\ \/ b.by # "observe" /\ b.name \notin entries
             \/ oclock + Drift + TicksPerSecond > b.signed + MaxClockSkew * TicksPerSecond
  /\ verdict \in Verdict =>
       (digest = PythonFingerprint(b.name, b.release)
          <=> verdict = "EXECUTED" /\ (mode = "local" \/ b.name \in Portable))

(* A reply leaves the rest of the call as it is.                           *)
LEMMA RepliedKeeps ==
  ASSUME BoundaryInv, NEW w \in Worker, call[w].step \in {"ready", "sent", "late"},
         NEW verdict \in Verdict \cup {"stored", "refused"}, NEW digest \in Digest,
         Replied(w, verdict, digest), Fits(call[w], verdict, digest),
         entries' \subseteq Name
  PROVE  BoundaryInv'
  <1> DEFINE reply == [verdict |-> verdict, fingerprint |-> digest,
                       at |-> oclock, eat |-> eclock,
                       entry |-> call[w].name \in entries]
             c == [call[w] EXCEPT !.step = "replied", !.reply = reply]
  <1>1. call[w] \in Call /\ Stamped(call[w]) /\ oclock \in Nat /\ eclock \in Nat
    BY DEF BoundaryInv, BoundaryTypeOK, Idle
  <1>2. reply \in Reply
    BY <1>1 DEF Reply
  <1>3. /\ reply.verdict = verdict /\ reply.fingerprint = digest
        /\ reply.at = oclock /\ reply.eat = eclock
        /\ reply.entry <=> call[w].name \in entries
    OBVIOUS
  <1>4. call' = [call EXCEPT ![w] = c] /\ UNCHANGED <<mode, oclock, eclock>>
    BY DEF Replied
  <1> HIDE DEF reply
  <1>5. c \in Call
    BY <1>1, <1>2 DEF Call
  <1>6. /\ c.step = "replied" /\ c.by = call[w].by /\ c.name = call[w].name
        /\ c.release = call[w].release /\ c.action = call[w].action
        /\ c.expires = call[w].expires /\ c.exp = call[w].exp
        /\ c.signed = call[w].signed /\ c.reply = reply
    BY <1>1 DEF Call
  <1> HIDE DEF c
  <1>7. Stamped(c)
    BY <1>1, <1>6 DEF Stamped, Idle
  <1>8. ReplyOK(c)
    BY <1>3, <1>6 DEF Fits, ReplyOK, Decided, Taken, Refused, NotTaken, Expiring,
                      Unobserved, TookLong
  <1> QED BY <1>4, <1>5, <1>7, <1>8, OneCall

(* An unexpired token means an unexpired grant.                            *)
LEMMA TokenWithinGrant ==
  \A t, expires \in Nat : Seconds(expires) * TicksPerSecond > t => expires > t
  BY SecondsBounds, ClockBounds

LEMMA LocalKeeps ==
  ASSUME BoundaryInv, NEW w \in Worker, NEW observed \in Release, LocalExecute(w, observed)
  PROVE  BoundaryInv'
  <1> DEFINE b == call[w]
             digest == PythonFingerprint(b.name, observed)
             verdict == IF b.by = "agent" /\ ~verify_capability(b) THEN "refused"
                        ELSE IF PythonFingerprint(b.name, b.release) = digest THEN "EXECUTED"
                        ELSE "DENIED_STALE"
  <1>1. b \in Call /\ Stamped(b) /\ oclock \in Nat /\ eclock \in Nat /\ b.step = "ready"
    BY DEF BoundaryInv, BoundaryTypeOK, Idle, LocalExecute
  <1>2. b.expires \in Nat /\ b.name \in Name /\ b.release \in Release /\ b.exp \in Nat
    BY <1>1 DEF Call
  <1>3. mode = "local" /\ Replied(w, verdict, digest)
    BY DEF LocalExecute
  <1>4. digest \in Digest /\ verdict \in Verdict \cup {"stored", "refused"}
    BY <1>2, FingerprintsAgree DEF Verdict
  <1>5. b.by = "agent" => b.exp = Seconds(b.expires)
    BY <1>1 DEF Stamped
  <1>6. verdict \in Verdict =>
          (verdict = "EXECUTED" <=> digest = PythonFingerprint(b.name, b.release))
    BY DEF Verdict
  <1>7. b.by = "agent" /\ verdict # "refused" => b.exp * TicksPerSecond > oclock
    BY DEF verify_capability
  <1>8. verdict = "refused" => b.by = "agent" /\ ~(b.exp * TicksPerSecond > oclock)
    BY DEF verify_capability
  <1> HIDE DEF verdict, digest, b
  <1>9. b.by = "agent" /\ verdict # "refused" => oclock < b.expires
    BY <1>1, <1>2, <1>5, <1>7, TokenWithinGrant
  <1>10. verdict = "refused" => oclock + Drift + TicksPerSecond > b.expires
    BY <1>1, <1>2, <1>5, <1>8, SecondsBounds, ClockBounds
  <1>11. Fits(b, verdict, digest)
    BY <1>1, <1>2, <1>3, <1>4, <1>6, <1>8, <1>9, <1>10, ClockBounds DEF Fits, Verdict
  <1>12. entries' \subseteq Name
    BY DEF LocalExecute, BoundaryInv, BoundaryTypeOK
  <1> QED BY <1>1, <1>3, <1>4, <1>11, <1>12, RepliedKeeps DEF b

(* The age of the signature at the executor bounds the age of the call at  *)
(* the orchestrator, one way and the other.                                *)
LEMMA SignatureAge ==
  ASSUME NEW c \in Call, c.step \in {"sent", "late"}, Stamped(c), ClocksTogether,
         oclock \in Nat, eclock \in Nat
  PROVE  /\ ValidSignature(c) => oclock <= c.signed + MaxClockSkew * TicksPerSecond + Drift
         /\ ~ValidSignature(c) =>
              oclock + Drift + TicksPerSecond > c.signed + MaxClockSkew * TicksPerSecond
  <1>1. /\ c.signed \in Nat /\ c.signed <= oclock /\ c.ts \in Nat
        /\ c.ts * TicksPerSecond <= c.signed
        /\ c.signed < c.ts * TicksPerSecond + TicksPerSecond
    BY SecondsBounds DEF Call, Stamped
  <1> DEFINE stamp == c.ts * TicksPerSecond
             window == MaxClockSkew * TicksPerSecond
  <1>2. stamp \in Nat /\ window \in Nat /\ Drift <= window /\ Drift \in Nat
        /\ TicksPerSecond \in Nat
    BY <1>1, ClockBounds
  <1>3. ValidSignature(c) <=> eclock - stamp <= window /\ stamp - eclock <= window
    BY DEF ValidSignature
  <1>4. stamp <= c.signed /\ c.signed < stamp + TicksPerSecond
    BY <1>1
  <1> HIDE DEF stamp
  <1>5. /\ ValidSignature(c) => oclock <= c.signed + window + Drift
        /\ ~ValidSignature(c) => oclock + Drift + TicksPerSecond > c.signed + window
    <2> HIDE DEF window
    <2> QED BY <1>1, <1>2, <1>3, <1>4 DEF ClocksTogether
  <1> QED BY <1>5

LEMMA ReceivesKeeps ==
  ASSUME BoundaryInv, NEW w \in Worker, NEW observed \in Release, ExecutorReceives(w, observed)
  PROVE  BoundaryInv'
  <1> DEFINE b == call[w]
  <1>1. b \in Call /\ Stamped(b) /\ oclock \in Nat /\ eclock \in Nat /\ b.step \in {"sent", "late"}
    BY DEF BoundaryInv, BoundaryTypeOK, Idle, ExecutorReceives
  <1>2. b.expires \in Nat /\ b.name \in Name /\ b.release \in Release /\ b.exp \in Nat
        /\ b.signed \in Nat
    BY <1>1 DEF Call
  <1>3. ClocksTogether
    BY DEF BoundaryInv
  <1>4. b.by = "agent" => b.exp = Seconds(b.expires)
    BY <1>1 DEF Stamped
  <1>5. VerifyCapability(b) <=> b.exp * TicksPerSecond > eclock
    BY <1>1, <1>2, WholeSeconds DEF VerifyCapability
  <1>6. b.by = "agent" /\ VerifyCapability(b) => eclock < b.expires
    BY <1>1, <1>2, <1>4, <1>5, TokenWithinGrant
  <1>7. b.by = "agent" /\ ~VerifyCapability(b) => oclock + Drift + TicksPerSecond > b.expires
    <2>1. b.by = "agent" /\ ~VerifyCapability(b) => b.expires < eclock + TicksPerSecond
      BY <1>1, <1>2, <1>4, <1>5, SecondsBounds, ClockBounds
    <2> QED BY <1>1, <1>2, <1>3, <2>1, ClockBounds DEF ClocksTogether
  <1>8. /\ ValidSignature(b) => oclock <= b.signed + MaxClockSkew * TicksPerSecond + Drift
        /\ ~ValidSignature(b) =>
             oclock + Drift + TicksPerSecond > b.signed + MaxClockSkew * TicksPerSecond
    BY <1>1, <1>3, SignatureAge
  <1>9. PICK verdict \in Verdict \cup {"stored", "refused"}, digest \in Digest :
          /\ Replied(w, verdict, digest)
          /\ verdict = "refused" <=>
               \/ ~ValidSignature(b) \/ ~ContextValid(b)
               \/ b.by # "observe" /\ b.name \notin entries
          /\ verdict \in Verdict =>
               /\ verdict = "EXECUTED" <=> b.release = observed
               /\ digest = GoFingerprint(b.name, observed)
    BY <1>2, FingerprintsAgree DEF ExecutorReceives, Compare, Verdict
  <1> HIDE DEF b
  <1>10. verdict \in Verdict =>
           (digest = PythonFingerprint(b.name, b.release)
              <=> verdict = "EXECUTED" /\ b.name \in Portable)
    BY <1>2, <1>9, FingerprintsAgree
  <1>11. mode # "local"
    BY <1>1 DEF Stamped
  <1>12. ContextValid(b) /\ b.by = "agent" => VerifyCapability(b)
    BY DEF ContextValid
  <1>13. ~ContextValid(b) => b.by = "agent" /\ (NotTaken(b) \/ ~VerifyCapability(b))
    <2>1. mode \in {"stdlib", "gin"}
      BY <1>11 DEF BoundaryInv, BoundaryTypeOK
    <2>2. PythonFingerprint(b.name, b.release) = GoFingerprint(b.name, b.release)
            <=> b.name \in Portable
      BY <1>2, FingerprintsAgree
    <2> QED BY <2>1, <2>2 DEF ContextValid, NotTaken
  <1>14. eclock < b.expires => oclock < b.expires + Drift
    BY <1>1, <1>2, <1>3, ClockBounds DEF ClocksTogether
  <1>15. Fits(b, verdict, digest)
    BY <1>6, <1>7, <1>8, <1>9, <1>10, <1>11, <1>12, <1>13, <1>14 DEF Fits, Verdict
  <1>16. entries' \subseteq Name
    BY <1>2 DEF ExecutorReceives, Put, BoundaryInv, BoundaryTypeOK, b
  <1> QED BY <1>1, <1>9, <1>15, <1>16, RepliedKeeps DEF b

LEMMA GiveUpKeeps ==
  ASSUME BoundaryInv, NEW w \in Worker, GiveUp(w)
  PROVE  BoundaryInv'
  <1> DEFINE c == [call[w] EXCEPT !.step = "late"]
  <1>1. call[w] \in Call /\ Stamped(call[w]) /\ call[w].step = "sent"
    BY DEF BoundaryInv, BoundaryTypeOK, GiveUp, Idle
  <1>2. c \in Call
    BY <1>1 DEF Call
  <1>3. /\ c.step = "late" /\ c.by = call[w].by /\ c.exp = call[w].exp
        /\ c.expires = call[w].expires /\ c.signed = call[w].signed /\ c.ts = call[w].ts
    BY <1>1 DEF Call
  <1>4. call' = [call EXCEPT ![w] = c] /\ UNCHANGED <<mode, oclock, eclock>>
        /\ entries' \subseteq Name
    BY DEF GiveUp, BoundaryInv, BoundaryTypeOK
  <1> HIDE DEF c
  <1>5. Stamped(c) /\ ReplyOK(c)
    BY <1>1, <1>3 DEF Stamped, ReplyOK, Decided, Taken, Refused
  <1> QED BY <1>2, <1>4, <1>5, OneCall

LEMMA FinishKeeps ==
  ASSUME BoundaryInv, NEW w \in Worker, Finish(w)
  PROVE  BoundaryInv'
  <1>1. entries' \subseteq Name
    BY DEF Finish, BoundaryInv, BoundaryTypeOK
  <1> QED BY <1>1, IdleCall, OneCall DEF Finish

(* A clock that advances, or a restart of the executor, leaves every reply *)
(* as it was.                                                              *)
LEMMA TickKeeps ==
  ASSUME BoundaryInv, OrchestratorTick \/ ExecutorTick \/ ExecutorRestarts
  PROVE  BoundaryInv'
  <1>1. /\ UNCHANGED <<mode, call>>
        /\ oclock' \in Nat /\ eclock' \in Nat /\ oclock <= oclock'
        /\ entries' \subseteq Name
    BY DEF BoundaryInv, BoundaryTypeOK, OrchestratorTick, ExecutorTick, ExecutorRestarts
  <1>2. ClocksTogether'
    BY ClockBounds DEF BoundaryInv, BoundaryTypeOK, ClocksTogether, OrchestratorTick,
                       ExecutorTick, ExecutorRestarts
  <1>3. BoundaryTypeOK'
    BY <1>1 DEF BoundaryInv, BoundaryTypeOK
  <1>4. \A w \in Worker : Stamped(call[w])'
    <2> SUFFICES ASSUME NEW w \in Worker PROVE Stamped(call[w])'
      OBVIOUS
    <2>1. call[w].step \in {"sent", "late"} => call[w].signed \in Nat
      BY DEF BoundaryInv, BoundaryTypeOK, Call, Idle
    <2> QED BY <1>1, <2>1 DEF BoundaryInv, BoundaryTypeOK, Stamped
  <1>5. (DecidedWhileGranted /\ LateCallsExpire /\ RefusedForCause /\ ReceiptFingerprints)'
    BY <1>1 DEF BoundaryInv, DecidedWhileGranted, LateCallsExpire, RefusedForCause,
                ReceiptFingerprints, Decided, Taken, Refused, NotTaken, Expiring,
                Unobserved, TookLong
  <1> QED BY <1>2, <1>3, <1>4, <1>5 DEF BoundaryInv

LEMMA BoundaryInitInv == BoundaryInit => BoundaryInv
  <1> SUFFICES ASSUME BoundaryInit PROVE BoundaryInv
    OBVIOUS
  <1>1. \A w \in Worker : call[w] = Idle
    BY DEF BoundaryInit
  <1>2. \A w \in Worker : Stamped(call[w]) /\ ReplyOK(call[w])
    BY <1>1, IdleCall
  <1>3. BoundaryTypeOK /\ ClocksTogether
    BY ClockBounds DEF BoundaryInit, BoundaryTypeOK, ClocksTogether
  <1> QED BY <1>2, <1>3, RepliesOK DEF BoundaryInv

LEMMA BoundaryStepInv == BoundaryInv /\ [BoundaryNext]_bvars => BoundaryInv'
  <1> SUFFICES ASSUME BoundaryInv, [BoundaryNext]_bvars PROVE BoundaryInv'
    OBVIOUS
  <1>1. ASSUME NEW w \in Worker, NEW n \in Name, NEW r \in Release, NEW a \in Action,
               IssueCapability(w, n, r, a)
        PROVE  BoundaryInv'
    BY <1>1, IssueKeeps
  <1>2. ASSUME NEW w \in Worker, NEW n \in Name, NEW r \in Release,
               NEW by \in {"human", "observe"}, CallWithoutContext(w, by, n, r)
        PROVE  BoundaryInv'
    BY <1>2, ContextlessKeeps
  <1>3. ASSUME NEW w \in Worker, AgentChecked(w) PROVE BoundaryInv'
    BY <1>3, CheckedKeeps
  <1>4. ASSUME NEW w \in Worker, Send(w) PROVE BoundaryInv'
    BY <1>4, SendKeeps
  <1>5. ASSUME NEW w \in Worker, NEW observed \in Release, ExecutorReceives(w, observed)
        PROVE  BoundaryInv'
    BY <1>5, ReceivesKeeps
  <1>6. ASSUME NEW w \in Worker, NEW observed \in Release, LocalExecute(w, observed)
        PROVE  BoundaryInv'
    BY <1>6, LocalKeeps
  <1>7. ASSUME NEW w \in Worker, GiveUp(w) PROVE BoundaryInv'
    BY <1>7, GiveUpKeeps
  <1>8. ASSUME NEW w \in Worker, Finish(w) PROVE BoundaryInv'
    BY <1>8, FinishKeeps
  <1>9. CASE OrchestratorTick \/ ExecutorTick \/ ExecutorRestarts
    BY <1>9, TickKeeps
  <1>10. CASE UNCHANGED bvars
    <2>1. UNCHANGED <<mode, oclock, eclock, entries, call>>
      BY <1>10 DEF bvars
    <2>2. (BoundaryTypeOK /\ ClocksTogether /\ \A w \in Worker : Stamped(call[w]))'
      BY <2>1 DEF BoundaryInv, BoundaryTypeOK, ClocksTogether, Stamped
    <2>3. (DecidedWhileGranted /\ LateCallsExpire /\ RefusedForCause /\ ReceiptFingerprints)'
      BY <2>1 DEF BoundaryInv, DecidedWhileGranted, LateCallsExpire, RefusedForCause,
                  ReceiptFingerprints, Decided, Taken, Refused, NotTaken, Expiring,
                  Unobserved, TookLong
    <2> QED BY <2>2, <2>3 DEF BoundaryInv
  <1> QED BY <1>1, <1>2, <1>3, <1>4, <1>5, <1>6, <1>7, <1>8, <1>9, <1>10 DEF BoundaryNext

LEMMA BoundaryInvariant == BoundarySpec => []BoundaryInv
  BY BoundaryInitInv, BoundaryStepInv, PTL DEF BoundarySpec

(* Every call and both clocks keep their types, and every verdict is one   *)
(* that the orchestrator knows.                                            *)
THEOREM BoundaryTypeCorrect == BoundarySpec => []BoundaryTypeOK
  <1>1. BoundaryInv => BoundaryTypeOK
    BY DEF BoundaryInv
  <1> QED BY <1>1, BoundaryInvariant, PTL

(* An agent's verdict falls into the lifetime of its grant row, exactly by *)
(* the clock of the executor, up to the drift by the orchestrator's.       *)
THEOREM VerdictsWithinGrant == BoundarySpec => []DecidedWhileGranted
  <1>1. BoundaryInv => DecidedWhileGranted
    BY DEF BoundaryInv
  <1> QED BY <1>1, BoundaryInvariant, PTL

(* The signature's age ends the effect of calls that were given up.        *)
THEOREM LateCallsHaveNoEffect == BoundarySpec => []LateCallsExpire
  <1>1. BoundaryInv => LateCallsExpire
    BY DEF BoundaryInv
  <1> QED BY <1>1, BoundaryInvariant, PTL

(* Clocks that differ by less than the window refuse nobody by themselves, *)
(* and neither does the executor's restart once the target is observed.    *)
THEOREM RefusalsHaveCause == BoundarySpec => []RefusedForCause
  <1>1. BoundaryInv => RefusedForCause
    BY DEF BoundaryInv
  <1> QED BY <1>1, BoundaryInvariant, PTL

(* For the projects that both languages digest alike, equal fingerprints   *)
(* in a receipt tell an execution.                                         *)
THEOREM FingerprintsTellExecution == BoundarySpec => []ReceiptFingerprints
  <1>1. BoundaryInv => ReceiptFingerprints
    BY DEF BoundaryInv
  <1> QED BY <1>1, BoundaryInvariant, PTL
=============================================================================
