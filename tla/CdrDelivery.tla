---------------------------- MODULE CdrDelivery -----------------------------
(***************************************************************************)
(* How the CDR of one ended transaction reaches the token owner's partner: *)
(* CdrBroadcaster.broadcastPostCdr, called for every update of the ended   *)
(* transaction, and, when the partner is the Gireve hub, the retry of      *)
(* GireveOutbox, which is reduced here to the payload it holds.            *)
(*                                                                         *)
(* The calls of the handlers interleave at every await.  The id of a CDR   *)
(* is computed again each time, in the format of the program that handles  *)
(* the update: during a rollout two of them run side by side.              *)
(***************************************************************************)

CONSTANTS Handlers,   \* bound: updates of the transaction after its end
          Formats,    \* the formats in which the running programs compute CDR ids
          Hub         \* the partner is Gireve, whose failed pushes are queued

ASSUME HubAssumption == Hub \in BOOLEAN

VARIABLES pc,        \* the call broadcastPostCdr is at, for each update
          id,        \* id[h]: the id of the CDR that h will send
          stored,    \* the ids of the transaction's rows in Cdrs
          sent,      \* the row has its successfullySentAt
          queued,    \* the id in the outbox's payload, {} when there is no open row
          marking,   \* the id a cron run has delivered and is about to mark
          posted,    \* history: the ids the partner may have received
          accepted,  \* history: the ids it accepted, status_code 1000
          reposted   \* history: a CDR was posted although it was marked as sent

vars == <<pc, id, stored, sent, queued, marking, posted, accepted, reposted>>
outboxVars == <<queued, marking>>
partnerVars == <<posted, accepted, reposted>>

Calls == {"unborn", "finding", "inserting", "posting", "queueing", "marking", "done", "threw"}

TypeOK == /\ pc \in [Handlers -> Calls]
          /\ id \in [Handlers -> Formats]
          /\ stored \in SUBSET Formats /\ sent \in BOOLEAN
          /\ queued \in SUBSET Formats /\ marking \in SUBSET Formats
          /\ posted \in SUBSET Formats /\ accepted \in SUBSET Formats
          /\ reposted \in BOOLEAN

Init == /\ pc = [h \in Handlers |-> "unborn"]
        /\ id \in [Handlers -> Formats]
        /\ stored = {} /\ sent = FALSE
        /\ queued = {} /\ marking = {}
        /\ posted = {} /\ accepted = {} /\ reposted = FALSE

Goes(h, call) == pc' = [pc EXCEPT ![h] = call]
-----------------------------------------------------------------------------
(* broadcastPostCdr and insertSentCdr *)

\* The transaction is mapped; without a tariff or a token owner there is no CDR.
MapCdr(h) ==
    /\ pc[h] = "unborn"
    /\ \E call \in {"finding", "done", "threw"} : Goes(h, call)
    /\ UNCHANGED <<id, stored, sent, outboxVars, partnerVars>>

\* Mutant: the CDR is sent under the id just computed, not the stored one.
FindKeepingId(h) ==
    /\ pc[h] = "finding"
    /\ Goes(h, IF stored = {} THEN "inserting" ELSE IF sent THEN "done" ELSE "posting")
    /\ UNCHANGED <<id, stored, sent, outboxVars, partnerVars>>

\* Looked up by transaction and partner: a row already sent ends the call, an
\* undelivered one gives its id to the CDR.
FindCdr(h) ==
    /\ pc[h] = "finding"
    /\ \/ stored = {} /\ Goes(h, "inserting") /\ UNCHANGED id
       \/ stored # {} /\ sent /\ Goes(h, "done") /\ UNCHANGED id
       \/ /\ ~sent
          /\ \E i \in stored : id' = [id EXCEPT ![h] = i]
          /\ Goes(h, "posting")
    /\ UNCHANGED <<stored, sent, outboxVars, partnerVars>>

\* The table's key Cdrs_transactionId_toTenantPartnerId_key admits one row.
InsertCdr(h) ==
    /\ pc[h] = "inserting" /\ stored = {}
    /\ stored' = {id[h]}
    /\ \E call \in {"posting", "threw"} : Goes(h, call)   \* the answer may be lost
    /\ UNCHANGED <<id, sent, outboxVars, partnerVars>>

\* A request fails, or the key refuses the row: the error is thrown on.
StoreFails(h) ==
    /\ pc[h] \in {"finding", "inserting"}
    /\ Goes(h, "threw")
    /\ UNCHANGED <<id, stored, sent, outboxVars, partnerVars>>

\* A POST reaches the partner: i is what it may know from now on.
Posted(i) == /\ posted' = posted \cup {i}
             /\ reposted' = (reposted \/ sent)

\* Mutant: any answer counts as delivered.
PostRefusedUnnoticed(h) ==
    /\ pc[h] = "posting"
    /\ Posted(id[h])
    /\ Goes(h, "marking")
    /\ UNCHANGED <<id, stored, sent, outboxVars, accepted>>

PostAccepted(h) ==
    /\ pc[h] = "posting"
    /\ Posted(id[h])
    /\ accepted' = accepted \cup {id[h]}
    /\ Goes(h, "marking")
    /\ UNCHANGED <<id, stored, sent, outboxVars>>

\* HTTP 2xx with another status_code: stored, not marked, not queued.
PostRefused(h) ==
    /\ pc[h] = "posting"
    /\ Posted(id[h])
    /\ Goes(h, "done")
    /\ UNCHANGED <<id, stored, sent, outboxVars, accepted>>

\* The partner may have taken the CDR before the answer was lost.
PostFails(h) ==
    /\ pc[h] = "posting"
    /\ Posted(id[h])
    /\ \/ accepted' = accepted \cup {id[h]}
       \/ UNCHANGED accepted
    /\ Goes(h, IF Hub THEN "queueing" ELSE "done")
    /\ UNCHANGED <<id, stored, sent, outboxVars>>

\* The partners cannot be listed, or none takes CDRs from us.
NothingPosted(h) ==
    /\ pc[h] = "posting"
    /\ Goes(h, "done")
    /\ UNCHANGED <<id, stored, sent, outboxVars, partnerVars>>

\* upsertOnFailure: the payload replaces an older one; an error is swallowed.
Queue(h) ==
    /\ pc[h] = "queueing"
    /\ \/ queued' = {id[h]}
       \/ UNCHANGED queued
    /\ Goes(h, "done")
    /\ UNCHANGED <<id, stored, sent, marking, partnerVars>>

\* markCdrAsSent, whose failure is swallowed too.
Mark(h) ==
    /\ pc[h] = "marking"
    /\ \/ sent' = TRUE
       \/ UNCHANGED sent
    /\ Goes(h, "done")
    /\ UNCHANGED <<id, stored, outboxVars, partnerVars>>
-----------------------------------------------------------------------------
(* The cron run's retry, and crashes *)

RetryAccepted ==
    /\ marking = {}
    /\ \E i \in queued : Posted(i)
    /\ accepted' = accepted \cup queued
    /\ marking' = queued
    /\ UNCHANGED <<pc, id, stored, sent, queued>>

\* Refused inside an HTTP 2xx, or no answer: the row is closed or waits for the next run.
RetryNotAccepted ==
    /\ marking = {}
    /\ \E i \in queued : Posted(i)
    /\ \/ queued' = {} /\ UNCHANGED accepted
       \/ UNCHANGED queued /\ accepted' \in {accepted, accepted \cup queued}
    /\ UNCHANGED <<pc, id, stored, sent, marking>>

\* markCdrRowAsSent looks the row up by the id delivered; whatever comes of it the
\* outbox row is closed, if no live failure opened it again.
RetryMarks ==
    /\ marking # {}
    /\ \/ sent' = (sent \/ marking \subseteq stored)
       \/ UNCHANGED sent
    /\ \/ queued' = {}
       \/ UNCHANGED queued
    /\ marking' = {}
    /\ UNCHANGED <<pc, id, stored, partnerVars>>

RetryDies ==
    /\ marking # {}
    /\ marking' = {}
    /\ UNCHANGED <<pc, id, stored, sent, queued, partnerVars>>

\* The process that handles an update ends.
Dies(h) ==
    /\ pc[h] \notin {"unborn", "done", "threw"}
    /\ Goes(h, "threw")
    /\ UNCHANGED <<id, stored, sent, outboxVars, partnerVars>>

Next == \/ \E h \in Handlers :
              \/ MapCdr(h) \/ FindCdr(h) \/ InsertCdr(h) \/ StoreFails(h)
              \/ PostAccepted(h) \/ PostRefused(h) \/ PostFails(h) \/ NothingPosted(h)
              \/ Queue(h) \/ Mark(h) \/ Dies(h)
        \/ RetryAccepted \/ RetryNotAccepted \/ RetryMarks \/ RetryDies

Spec == Init /\ [][Next]_vars
-----------------------------------------------------------------------------
(* Properties *)

\* Comment in broadcastPostCdr: "so the partner never receives two CDRs for one
\* transaction".  Every POST of the transaction's CDR, live or retried, carries one id,
\* whatever updates raced, requests failed or formats differed in between.
OneCdrPerTransaction == \A i, j \in posted : i = j

\* The row is marked as sent only if the partner accepted the very CDR it holds: an OCPI
\* refusal or the delivery of another id does not count.
MarkedWasAccepted == sent => stored # {} /\ stored \subseteq accepted

\* Test: "does not re-send a CDR the partner already acknowledged".
\* It does not hold (README, section 6), and no configuration lists it.
NotResentOnceMarked == ~reposted

\* The inductive invariant of CdrDeliveryProofs: one row, and every id that is about to
\* be posted, queued or marked is that row's.
OneRow == \A i, j \in stored : i = j
SendsTheStoredId ==
    /\ \A h \in Handlers : pc[h] \in {"posting", "queueing", "marking"} => id[h] \in stored
    /\ queued \subseteq stored /\ marking \subseteq stored /\ posted \subseteq stored
MarkingIsAccepted ==
    /\ \A h \in Handlers : pc[h] = "marking" => id[h] \in accepted
    /\ marking \subseteq accepted

IInv == TypeOK /\ OneRow /\ SendsTheStoredId /\ MarkingIsAccepted /\ MarkedWasAccepted
=============================================================================
