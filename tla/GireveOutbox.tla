---------------------------- MODULE GireveOutbox ----------------------------
(***************************************************************************)
(* The outbox of failed pushes to the Gireve hub and the one-shot CronJob  *)
(* that retries them.                                                      *)
(*                                                                         *)
(* Live pushes (BaseClientApi.broadcastToClients) of successive versions   *)
(* of a resource run concurrently; a failed one is stored by               *)
(* GireveBroadcastRetryOutbox.upsertOnFailure, a FIND followed by an       *)
(* INSERT or an UPDATE, with nothing to make the pair atomic.  A cron run  *)
(* (GireveBroadcastRetryWorker.runOnce) releases stale locks, claims a     *)
(* batch of due rows and retries them one after the other; every database  *)
(* or HTTP call is a step, and the run may die at each of them.            *)
(*                                                                         *)
(* Time is abstracted to the two facts the code tests: a row is due or not *)
(* (nextRetryAt <= now), its lock is stale or not (lockedAt < now - 900s). *)
(***************************************************************************)
EXTENDS Naturals, FiniteSets

CONSTANTS Resources,   \* dedupe keys (moduleId, partner, resourceType, resourceId)
          Cdrs,        \* those of the CDR module
          MaxVersion,  \* bound: payload versions of one resource
          Runs,        \* slots for cron runs
          BatchSize,   \* gireve.retryBatchSize
          MaxAttempt,  \* bound: attemptCount at which the delay stays at its cap
          Forbid       \* the CronJob's concurrencyPolicy is Forbid

ASSUME ResourcesAssumption == Cdrs \subseteq Resources
ASSUME BoundsAssumption == /\ MaxVersion \in Nat \ {0}
                           /\ MaxAttempt \in Nat
                           /\ BatchSize \in Nat \ {0}
ASSUME ForbidAssumption == Forbid \in BOOLEAN

Versions == 1..MaxVersion
Attempts == 0..MaxAttempt

VARIABLES row,        \* row[r]: the row of GireveBroadcastRetryQueues for key r
          push,       \* push[r][v]: the live push of version v
          pc,         \* pc[w]: the call run w is at
          batch,      \* batch[w]: the claimed items run w has not begun
          cur,        \* cur[w]: the item run w is retrying, at most one
          cdrSentAt,  \* cdrSentAt[r]: the CDR row has its successfullySentAt
          answered,   \* history: versions the partner answered with HTTP 2xx
          accepted,   \* history: versions answered with OCPI status_code 1000
          lastCall    \* history: versions in the order of upsertOnFailure calls: the last

vars == <<row, push, pc, batch, cur, cdrSentAt, answered, accepted, lastCall>>
liveVars == <<push, lastCall>>
runVars == <<pc, batch, cur>>

Statuses == {"none", "pending", "processing", "sent"}   \* "none": no row
Row == [status : Statuses, payload : Versions, attempt : Attempts,
        due : BOOLEAN, lock : {"null", "fresh", "stale"}]
Item == [res : Resources, payload : Versions, attempt : Attempts]
\* "queued" and "dropped" tell how the upsert of a failed push ended.
PushPc == {"idle", "sending", "finding", "writing", "queued", "dropped", "ok"}
\* What the FIND of an upsert returned: {} is no row, {n} the attemptCount to write.
Push == [pc : PushPc, seen : {{}} \cup {{n} : n \in Attempts}]
RunPc == {"idle", "releasing", "claiming", "next", "partner", "pushing",
          "markingCdr", "marking", "rescheduling"}

NoRow == [status |-> "none", payload |-> 1, attempt |-> 0, due |-> FALSE, lock |-> "null"]
At(p) == [pc |-> p, seen |-> {}]   \* a push with no FIND under way
AttemptAfter(n) == IF n < MaxAttempt THEN n + 1 ELSE n

TypeOK == /\ row \in [Resources -> Row]
          /\ push \in [Resources -> [Versions -> Push]]
          /\ pc \in [Runs -> RunPc]
          /\ batch \in [Runs -> SUBSET Item]
          /\ cur \in [Runs -> SUBSET Item]
          /\ cdrSentAt \in [Resources -> BOOLEAN]
          /\ answered \in [Resources -> SUBSET Versions]
          /\ accepted \in [Resources -> SUBSET Versions]
          /\ lastCall \in [Resources -> {0} \cup Versions]

Init == /\ row = [r \in Resources |-> NoRow]
        /\ push = [r \in Resources |-> [v \in Versions |-> At("idle")]]
        /\ pc = [w \in Runs |-> "idle"]
        /\ batch = [w \in Runs |-> {}]
        /\ cur = [w \in Runs |-> {}]
        /\ cdrSentAt = [r \in Resources |-> FALSE]
        /\ answered = [r \in Resources |-> {}]
        /\ accepted = [r \in Resources |-> {}]
        /\ lastCall = [r \in Resources |-> 0]
-----------------------------------------------------------------------------
(* Live pushes *)

\* The resource changed again and its new version is broadcast.
BeginPush(r, v) ==
    /\ push[r][v].pc = "idle"
    /\ v > 1 => push[r][v - 1].pc # "idle"
    /\ push' = [push EXCEPT ![r][v] = At("sending")]
    /\ UNCHANGED <<row, pc, batch, cur, cdrSentAt, answered, accepted, lastCall>>

\* HTTP 2xx: done, whatever the OCPI status_code; a row left by an earlier
\* failure is not touched.
PushAnswered(r, v, ok) ==
    /\ push[r][v].pc = "sending"
    /\ push' = [push EXCEPT ![r][v] = At("ok")]
    /\ answered' = [answered EXCEPT ![r] = @ \cup {v}]
    /\ accepted' = IF ok THEN [accepted EXCEPT ![r] = @ \cup {v}] ELSE accepted
    /\ UNCHANGED <<row, pc, batch, cur, cdrSentAt, lastCall>>

PushFails(r, v) ==
    /\ push[r][v].pc = "sending"
    /\ push' = [push EXCEPT ![r][v] = At("finding")]
    /\ lastCall' = [lastCall EXCEPT ![r] = v]
    /\ UNCHANGED <<row, pc, batch, cur, cdrSentAt, answered, accepted>>

\* FIND: a row already sent will restart its backoff, an open one keeps its count.
AttemptToWrite(r) == CASE row[r].status = "none" -> {}
                       [] row[r].status = "sent" -> {0}
                       [] OTHER                  -> {row[r].attempt}

UpsertFind(r, v) ==
    /\ push[r][v].pc = "finding"
    /\ push' = [push EXCEPT ![r][v] = [pc |-> "writing", seen |-> AttemptToWrite(r)]]
    /\ UNCHANGED <<row, pc, batch, cur, cdrSentAt, answered, accepted, lastCall>>

UpsertInsert(r, v) ==
    /\ push[r][v].pc = "writing" /\ push[r][v].seen = {}
    /\ row[r].status = "none"
    /\ row' = [row EXCEPT ![r] = [status |-> "pending", payload |-> v, attempt |-> 0,
                                  due |-> FALSE, lock |-> "null"]]
    /\ push' = [push EXCEPT ![r][v] = At("queued")]
    /\ UNCHANGED <<pc, batch, cur, cdrSentAt, answered, accepted, lastCall>>

\* The UPDATE is by id alone: it re-opens the row whatever its status is now,
\* and leaves lockedAt as it was.
UpsertUpdate(r, v) ==
    /\ push[r][v].pc = "writing"
    /\ \E n \in push[r][v].seen :
          row' = [row EXCEPT ![r] = [status |-> "pending", payload |-> v, attempt |-> n,
                                     due |-> FALSE, lock |-> row[r].lock]]
    /\ push' = [push EXCEPT ![r][v] = At("queued")]
    /\ UNCHANGED <<pc, batch, cur, cdrSentAt, answered, accepted, lastCall>>

\* The upsert throws: a database error at either call.  It is logged and swallowed.
UpsertError(r, v) ==
    /\ push[r][v].pc \in {"finding", "writing"}
    /\ push' = [push EXCEPT ![r][v] = At("dropped")]
    /\ UNCHANGED <<row, pc, batch, cur, cdrSentAt, answered, accepted, lastCall>>

LiveStep(r, v) == \/ BeginPush(r, v)
                  \/ \E ok \in BOOLEAN : PushAnswered(r, v, ok)
                  \/ PushFails(r, v)
                  \/ UpsertFind(r, v)
                  \/ UpsertInsert(r, v)
                  \/ UpsertUpdate(r, v)
                  \/ UpsertError(r, v)
-----------------------------------------------------------------------------
(* Time *)

BecomesDue(r) ==
    /\ row[r].status = "pending" /\ ~row[r].due
    /\ row' = [row EXCEPT ![r].due = TRUE]
    /\ UNCHANGED <<liveVars, runVars, cdrSentAt, answered, accepted>>

LockAges(r) ==
    /\ row[r].lock = "fresh"
    /\ row' = [row EXCEPT ![r].lock = "stale"]
    /\ UNCHANGED <<liveVars, runVars, cdrSentAt, answered, accepted>>
-----------------------------------------------------------------------------
(* A cron run *)

\* Kubernetes starts no run while another is active when the policy is Forbid.
StartRun(w) ==
    /\ pc[w] = "idle"
    /\ Forbid => \A x \in Runs : pc[x] = "idle"
    /\ pc' = [pc EXCEPT ![w] = "releasing"]
    /\ UNCHANGED <<row, liveVars, batch, cur, cdrSentAt, answered, accepted>>

Released(x) == IF x.status = "processing" /\ x.lock = "stale"
               THEN [x EXCEPT !.status = "pending", !.lock = "null"] ELSE x

ReleaseStaleLocks(w) ==
    /\ pc[w] = "releasing"
    /\ row' = [r \in Resources |-> Released(row[r])]
    /\ pc' = [pc EXCEPT ![w] = "claiming"]
    /\ UNCHANGED <<liveVars, batch, cur, cdrSentAt, answered, accepted>>

IsDue(r) == row[r].status = "pending" /\ row[r].due
\* As many due rows as the batch takes.
Claimable == {S \in SUBSET {r \in Resources : IsDue(r)} :
                 /\ Cardinality(S) <= BatchSize
                 /\ Cardinality(S) < BatchSize => \A r \in Resources : IsDue(r) => r \in S}
Claimed(x) == [x EXCEPT !.status = "processing", !.lock = "fresh"]
ClaimedAll(S) == [r \in Resources |-> IF r \in S THEN Claimed(row[r]) ELSE row[r]]
ItemOf(r) == [res |-> r, payload |-> row[r].payload, attempt |-> row[r].attempt]

\* One SQL call: SELECT ... FOR UPDATE SKIP LOCKED and UPDATE.
ClaimDueRetries(w) ==
    /\ pc[w] = "claiming"
    /\ \E S \in Claimable :
          /\ row' = ClaimedAll(S)
          /\ batch' = [batch EXCEPT ![w] = {ItemOf(r) : r \in S}]
    /\ pc' = [pc EXCEPT ![w] = "next"]
    /\ UNCHANGED <<liveVars, cur, cdrSentAt, answered, accepted>>

\* The claim is committed but its answer never reaches the run, which dies.
ClaimAnswerLost(w) ==
    /\ pc[w] = "claiming"
    /\ \E S \in Claimable : row' = ClaimedAll(S)
    /\ pc' = [pc EXCEPT ![w] = "idle"]
    /\ UNCHANGED <<liveVars, batch, cur, cdrSentAt, answered, accepted>>

TakeItem(w) ==
    /\ pc[w] = "next"
    /\ \E i \in batch[w] : /\ batch' = [batch EXCEPT ![w] = @ \ {i}]
                           /\ cur' = [cur EXCEPT ![w] = {i}]
    /\ pc' = [pc EXCEPT ![w] = "partner"]
    /\ UNCHANGED <<row, liveVars, cdrSentAt, answered, accepted>>

EndRun(w) ==
    /\ pc[w] = "next" /\ batch[w] = {}
    /\ pc' = [pc EXCEPT ![w] = "idle"]
    /\ UNCHANGED <<row, liveVars, batch, cur, cdrSentAt, answered, accepted>>

PartnerFound(w) ==
    /\ pc[w] = "partner"
    /\ pc' = [pc EXCEPT ![w] = "pushing"]
    /\ UNCHANGED <<row, liveVars, batch, cur, cdrSentAt, answered, accepted>>

PartnerMissing(w) ==
    /\ pc[w] = "partner"
    /\ pc' = [pc EXCEPT ![w] = "rescheduling"]
    /\ UNCHANGED <<row, liveVars, batch, cur, cdrSentAt, answered, accepted>>

\* Mutant: the OCPI status_code is not looked at.
RetryAnsweredUnchecked(w, ok) ==
    /\ pc[w] = "pushing"
    /\ \E i \in cur[w] :
          /\ answered' = [answered EXCEPT ![i.res] = @ \cup {i.payload}]
          /\ accepted' = IF ok THEN [accepted EXCEPT ![i.res] = @ \cup {i.payload}]
                               ELSE accepted
          /\ pc' = [pc EXCEPT ![w] = IF i.res \in Cdrs THEN "markingCdr" ELSE "marking"]
    /\ UNCHANGED <<row, liveVars, batch, cur, cdrSentAt>>

\* HTTP 2xx.  Only a CDR looks at the OCPI status_code.
RetryAnswered(w, ok) ==
    /\ pc[w] = "pushing"
    /\ \E i \in cur[w] :
          /\ answered' = [answered EXCEPT ![i.res] = @ \cup {i.payload}]
          /\ accepted' = IF ok THEN [accepted EXCEPT ![i.res] = @ \cup {i.payload}]
                               ELSE accepted
          /\ pc' = [pc EXCEPT ![w] = IF ok /\ i.res \in Cdrs THEN "markingCdr" ELSE "marking"]
    /\ UNCHANGED <<row, liveVars, batch, cur, cdrSentAt>>

\* Mutant: a failed request is swallowed, as broadcastToClients does, and marked.
RetryFailsUnnoticed(w) ==
    /\ pc[w] = "pushing"
    /\ pc' = [pc EXCEPT ![w] = "marking"]
    /\ UNCHANGED <<row, liveVars, batch, cur, cdrSentAt, answered, accepted>>

RetryFails(w) ==
    /\ pc[w] = "pushing"
    /\ pc' = [pc EXCEPT ![w] = "rescheduling"]
    /\ UNCHANGED <<row, liveVars, batch, cur, cdrSentAt, answered, accepted>>

\* Best-effort: a missing row or a database error leaves it unmarked.
MarkCdrRowAsSent(w) ==
    /\ pc[w] = "markingCdr"
    /\ \/ \E i \in cur[w] : cdrSentAt' = [cdrSentAt EXCEPT ![i.res] = TRUE]
       \/ UNCHANGED cdrSentAt
    /\ pc' = [pc EXCEPT ![w] = "marking"]
    /\ UNCHANGED <<row, liveVars, batch, cur, answered, accepted>>

\* Mutant: markSent by id alone.
SentById(x) == [x EXCEPT !.status = "sent", !.lock = "null"]

Sent(x) == IF x.status = "processing"
           THEN [x EXCEPT !.status = "sent", !.lock = "null"] ELSE x

MarkSent(w) ==
    /\ pc[w] = "marking"
    /\ \E i \in cur[w] : row' = [row EXCEPT ![i.res] = Sent(row[i.res])]
    /\ pc' = [pc EXCEPT ![w] = "next"]
    /\ cur' = [cur EXCEPT ![w] = {}]
    /\ UNCHANGED <<liveVars, batch, cdrSentAt, answered, accepted>>

\* markSent throws, before or after its commit: the catch block reschedules.
MarkSentError(w) ==
    /\ pc[w] = "marking"
    /\ \/ \E i \in cur[w] : row' = [row EXCEPT ![i.res] = Sent(row[i.res])]
       \/ UNCHANGED row
    /\ pc' = [pc EXCEPT ![w] = "rescheduling"]
    /\ UNCHANGED <<liveVars, batch, cur, cdrSentAt, answered, accepted>>

\* Mutant: reschedule by id alone.
RescheduledById(x, n) ==
    [x EXCEPT !.status = "pending", !.attempt = n, !.due = FALSE, !.lock = "null"]

\* Mutant: reschedule forgets the status.
RescheduledInPlace(x, n) ==
    IF x.status = "processing"
    THEN [x EXCEPT !.attempt = n, !.due = FALSE, !.lock = "null"]
    ELSE x

Rescheduled(x, n) ==
    IF x.status = "processing"
    THEN [x EXCEPT !.status = "pending", !.attempt = n, !.due = FALSE, !.lock = "null"]
    ELSE x

Reschedule(w) ==
    /\ pc[w] = "rescheduling"
    /\ \E i \in cur[w] :
          row' = [row EXCEPT ![i.res] = Rescheduled(row[i.res], AttemptAfter(i.attempt))]
    /\ pc' = [pc EXCEPT ![w] = "next"]
    /\ cur' = [cur EXCEPT ![w] = {}]
    /\ UNCHANGED <<liveVars, batch, cdrSentAt, answered, accepted>>

\* The process is killed, or a call outside retryOne's try block throws.
\* What the run had claimed stays in processing.
RunDies(w) ==
    /\ pc[w] # "idle"
    /\ pc' = [pc EXCEPT ![w] = "idle"]
    /\ batch' = [batch EXCEPT ![w] = {}]
    /\ cur' = [cur EXCEPT ![w] = {}]
    /\ UNCHANGED <<row, liveVars, cdrSentAt, answered, accepted>>

RunStep(w) == \/ StartRun(w)
              \/ ReleaseStaleLocks(w)
              \/ ClaimDueRetries(w)
              \/ ClaimAnswerLost(w)
              \/ TakeItem(w)
              \/ EndRun(w)
              \/ PartnerFound(w)
              \/ PartnerMissing(w)
              \/ \E ok \in BOOLEAN : RetryAnswered(w, ok)
              \/ RetryFails(w)
              \/ MarkCdrRowAsSent(w)
              \/ MarkSent(w)
              \/ MarkSentError(w)
              \/ Reschedule(w)
              \/ RunDies(w)

Next == \/ \E r \in Resources : \/ \E v \in Versions : LiveStep(r, v)
                                \/ BecomesDue(r)
                                \/ LockAges(r)
        \/ \E w \in Runs : RunStep(w)

Spec == Init /\ [][Next]_vars
-----------------------------------------------------------------------------
(* Fairness: the CronJob's schedule, clocks, and no failure that lasts for ever *)

\* What a run does when nothing kills it.
Progress(w) == \/ ReleaseStaleLocks(w) \/ ClaimDueRetries(w) \/ TakeItem(w) \/ EndRun(w)
               \/ PartnerFound(w) \/ PartnerMissing(w)
               \/ \E ok \in BOOLEAN : RetryAnswered(w, ok)
               \/ RetryFails(w) \/ MarkCdrRowAsSent(w) \/ MarkSent(w)
               \/ MarkSentError(w) \/ Reschedule(w)

CronFairness == /\ WF_vars(\E w \in Runs : StartRun(w))
                /\ \A w \in Runs : WF_vars(Progress(w)) /\ SF_vars(ReleaseStaleLocks(w))
                /\ \A r \in Resources : WF_vars(BecomesDue(r)) /\ WF_vars(LockAges(r))

Holds(w, r) == \E i \in cur[w] : i.res = r

\* Each call of a retry of r gets through if it is tried again and again.
\* Claims are oldest first, so a due row is claimed if claims keep happening.
RetryFairness ==
    \A r \in Resources :
       /\ SF_vars(\E w \in Runs : ClaimDueRetries(w) /\ \E i \in batch'[w] : i.res = r)
       /\ SF_vars(\E w \in Runs : TakeItem(w) /\ \E i \in cur'[w] : i.res = r)
       /\ SF_vars(\E w \in Runs : PartnerFound(w) /\ Holds(w, r))
       /\ SF_vars(\E w \in Runs, ok \in BOOLEAN : RetryAnswered(w, ok) /\ Holds(w, r))
       /\ SF_vars(\E w \in Runs : MarkCdrRowAsSent(w) /\ Holds(w, r))
       /\ SF_vars(\E w \in Runs : MarkSent(w) /\ Holds(w, r))

FairSpec == Spec /\ CronFairness /\ RetryFairness
-----------------------------------------------------------------------------
(* Properties *)

IsOpen(r) == row[r].status \in {"pending", "processing"}

\* A row is closed only when the partner has answered the payload the row holds
\* now.  markSent tests the row's status and nothing of its payload, so this rests
\* on no two runs being active at once and on the upsert re-opening the row.
SentMeansAnswered ==
    \A r \in Resources : row[r].status = "sent" => row[r].payload \in answered[r]

\* A CDR row gets its successfullySentAt only when the hub accepted the CDR: an
\* OCPI rejection inside an HTTP 2xx must not count as delivered (retryOne).
CdrMarkedMeansAccepted ==
    \A r \in Resources : cdrSentAt[r] => accepted[r] # {}

\* Only the write of a live failure re-opens a row that was sent: a run that comes
\* back late, or whose markSent failed after its commit, cannot.
SentReopensOnlyByLiveFailure ==
    [][\A r \in Resources :
          row[r].status = "sent" /\ row'[r].status # "sent" =>
             \E v \in Versions : push[r][v].pc = "writing" /\ push'[r][v].pc = "queued"]_vars

\* The outbox implements the obligation it promises: an open row owes its payload.
Owed == [r \in Resources |-> IF IsOpen(r) THEN {row[r].payload} ELSE {}]
Obligation == INSTANCE RetryObligation WITH owed <- Owed
ImplementsObligation == Obligation!Spec

\* If failures do not last for ever, every stored payload is delivered or replaced
\* by one that is: in the end no row stays open.
RetriesDrain == \A r \in Resources : <>[](~IsOpen(r))

\* upsertOnFailure's comment: "latest wins".  Once no upsert of a resource is under
\* way, its row holds the payload of the last call that did not fail.
\* It does not hold (README, section 6), and no configuration lists it.
NoUpsertUnderWay(r) == \A v \in Versions : push[r][v].pc \notin {"finding", "writing"}
LatestWins ==
    \A r \in Resources :
       lastCall[r] # 0 /\ NoUpsertUnderWay(r) /\ push[r][lastCall[r]].pc = "queued"
          => row[r].payload = lastCall[r]
-----------------------------------------------------------------------------
(* Why a closed row's payload was answered.  markSent looks at the status alone, *)
(* so each claimed item must be tied to its row: while the row is in processing  *)
(* it still holds the item's payload.  An upsert that replaces the payload also  *)
(* leaves processing, and only the claim of another run could bring the row back *)
(* there: with one run at a time there is none.                                  *)

\* At most one run is active when the CronJob forbids concurrency.
Sole == \A w, x \in Runs : pc[w] # "idle" /\ pc[x] # "idle" => w = x

\* A run holds items only between its claim and its end, one of them at a time.
HoldsOnlyWhileRetrying ==
  \A w \in Runs : /\ pc[w] \in {"idle", "releasing", "claiming"} => batch[w] = {}
                  /\ pc[w] \in {"idle", "releasing", "claiming", "next"} => cur[w] = {}
                  /\ \A i, j \in cur[w] : i = j

\* A row in processing holds what the run that claimed it will push.
ItemsMatchRows ==
  \A w \in Runs : \A i \in batch[w] \cup cur[w] :
     row[i.res].status = "processing" => row[i.res].payload = i.payload

\* The item about to be marked was answered.
MarkingIsAnswered ==
  \A w \in Runs : pc[w] \in {"markingCdr", "marking"} =>
     \A i \in cur[w] : i.payload \in answered[i.res]

\* The inductive invariant: the four facts above make SentMeansAnswered inductive
\* when the CronJob forbids concurrent runs.
IInv == /\ TypeOK
        /\ Sole
        /\ HoldsOnlyWhileRetrying
        /\ ItemsMatchRows
        /\ MarkingIsAnswered
        /\ SentMeansAnswered
=============================================================================
