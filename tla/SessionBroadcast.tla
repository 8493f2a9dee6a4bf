-------------------------- MODULE SessionBroadcast --------------------------
(***************************************************************************)
(* The Sessions module on the CPO side: every write of a transaction emits *)
(* a TransactionNotification, every notification is handled concurrently   *)
(* with the others, and SessionBroadcastDedupeService decides which of the *)
(* handlers may push the session to the token owner's partner.             *)
(*                                                                         *)
(* One transaction and one partner: the dedupe keys of different           *)
(* transactions and partners are disjoint.  A handler is suspended at each *)
(* await: reading the transaction, mapping it, pushing, posting the CDR.   *)
(***************************************************************************)
EXTENDS Naturals, FiniteSets

CONSTANTS MaxEvents,   \* bound: writes of the transaction
          Gireve       \* the token owner is the Gireve hub

ASSUME MaxEventsAssumption == MaxEvents \in Nat \ {0}
ASSUME GireveAssumption == Gireve \in BOOLEAN

Events == 1..MaxEvents   \* an event's number is also the updatedAt it carries

VARIABLES tx,          \* the Transactions row
          event,       \* event[e]: the notification of write e
          handler,          \* handler[e]: where the handler of event e is
          body,        \* body[e]: what that handler will push
          fingerprint, \* fingerprint[k]: what was last marked sent under key k
          attempted,   \* history: the last push begun under key k that has not failed
          inFlight,    \* keys of the pushes thought to be under way
          partner,     \* the session body the partner took last
          cleared,     \* history: the dedupe entries have been cleared
          faulty       \* history: a push, a mapping or a query has failed

sessionVars == <<tx, event, handler, body, fingerprint, attempted, inFlight, partner, cleared, faulty>>

Kinds == {"none", "insert", "meter", "state", "other", "end"}
Tx == [updatedAt : 0..MaxEvents, kwh : 0..MaxEvents, active : BOOLEAN]
\* What the trigger puts in the notification: the columns that changed.
Event == [kind : Kinds, kwh : 0..MaxEvents]
\* What the fingerprint of a session body distinguishes.
Body == [updatedAt : 0..MaxEvents, kwh : 0..MaxEvents, ended : BOOLEAN]
NoBody == [updatedAt |-> 0, kwh |-> 0, ended |-> FALSE]
HandlerPc == {"unborn", "reading", "mapping", "deciding", "sending", "ending", "done", "threw"}

Keys == {"PUT", "PATCH"}
\* The insert is a PUT; an update is a PATCH, except to Gireve (broadcastPatchSession).
KeyOf(e) == IF Gireve \/ event[e].kind = "insert" THEN "PUT" ELSE "PATCH"
Ends(e) == event[e].kind = "end"

SessionTypeOK ==
          /\ tx \in Tx
          /\ event \in [Events -> Event]
          /\ handler \in [Events -> HandlerPc]
          /\ body \in [Events -> Body]
          /\ fingerprint \in [Keys -> SUBSET Body]
          /\ attempted \in [Keys -> SUBSET Body]
          /\ inFlight \in SUBSET Keys
          /\ partner \in Body
          /\ cleared \in BOOLEAN /\ faulty \in BOOLEAN

SessionInit ==
        /\ tx = [updatedAt |-> 0, kwh |-> 0, active |-> TRUE]
        /\ event = [e \in Events |-> [kind |-> "none", kwh |-> 0]]
        /\ handler = [e \in Events |-> "unborn"]
        /\ body = [e \in Events |-> NoBody]
        /\ fingerprint = [k \in Keys |-> {}]
        /\ attempted = [k \in Keys |-> {}]
        /\ inFlight = {}
        /\ partner = NoBody
        /\ cleared = FALSE /\ faulty = FALSE
-----------------------------------------------------------------------------
\* The OCPP core writes the transaction; the trigger notifies what changed.
Write(e, kind) ==
    /\ handler[e] = "unborn" /\ e = tx.updatedAt + 1
    /\ kind = "insert" <=> e = 1
    /\ kind # "none" /\ tx.active
    /\ tx' = [updatedAt |-> e,
              kwh |-> IF kind = "meter" THEN tx.kwh + 1 ELSE tx.kwh,
              active |-> kind # "end"]
    /\ event' = [event EXCEPT ![e] = [kind |-> kind, kwh |-> tx'.kwh]]
    /\ handler' = [handler EXCEPT ![e] = "reading"]
    /\ UNCHANGED <<body, fingerprint, attempted, inFlight, partner, cleared, faulty>>

\* { ...fullTx, ...transactionDto }: the event's columns over the row as it is now.
\* updatedAt is in every notification, totalKwh only when it changed.
Merged(e) == [updatedAt |-> IF event[e].kind = "insert" THEN tx.updatedAt ELSE e,
              kwh |-> IF event[e].kind = "meter" THEN event[e].kwh ELSE tx.kwh,
              ended |-> ~tx.active]

\* An update that is neither an end, nor meter progress, nor a state change is skipped;
\* the row's isActive counts as well as the event's.
Worthwhile(e) == event[e].kind # "other" \/ ~tx.active

ReadTransaction(e) ==
    /\ handler[e] = "reading"
    /\ IF Worthwhile(e)
       THEN /\ body' = [body EXCEPT ![e] = Merged(e)]
            /\ handler' = [handler EXCEPT ![e] = "mapping"]
       ELSE /\ handler' = [handler EXCEPT ![e] = "done"]
            /\ UNCHANGED body
    /\ UNCHANGED <<tx, event, fingerprint, attempted, inFlight, partner, cleared, faulty>>

\* The query fails, or the row is not found.
ReadFails(e) ==
    /\ handler[e] = "reading"
    /\ handler' = [handler EXCEPT ![e] = "threw"]
    /\ faulty' = TRUE
    /\ UNCHANGED <<tx, event, body, fingerprint, attempted, inFlight, partner, cleared>>

\* Locations, tokens and tariffs are read; one of them may be missing or a query fail.
MapSession(e) ==
    /\ handler[e] = "mapping"
    /\ \/ handler' = [handler EXCEPT ![e] = "deciding"] /\ UNCHANGED faulty
       \/ handler' = [handler EXCEPT ![e] = "threw"] /\ faulty' = TRUE
    /\ UNCHANGED <<tx, event, body, fingerprint, attempted, inFlight, partner, cleared>>

AfterBroadcast(e) == IF Ends(e) THEN "ending" ELSE "done"

\* Mutant: a push under way does not stop the next one.
ShouldBroadcastAnyway(e) == body[e] \notin fingerprint[KeyOf(e)]

ShouldBroadcast(e) == KeyOf(e) \notin inFlight /\ body[e] \notin fingerprint[KeyOf(e)]

\* shouldBroadcast and markInFlight, without an await between them.
StartBroadcast(e) ==
    /\ handler[e] = "deciding" /\ ShouldBroadcast(e)
    /\ inFlight' = inFlight \cup {KeyOf(e)}
    /\ attempted' = [attempted EXCEPT ![KeyOf(e)] = {body[e]}]
    /\ handler' = [handler EXCEPT ![e] = "sending"]
    /\ UNCHANGED <<tx, event, body, fingerprint, partner, cleared, faulty>>

\* Dropped: nothing remembers that there was something to push.
SkipBroadcast(e) ==
    /\ handler[e] = "deciding" /\ ~ShouldBroadcast(e)
    /\ handler' = [handler EXCEPT ![e] = AfterBroadcast(e)]
    /\ UNCHANGED <<tx, event, body, fingerprint, attempted, inFlight, partner, cleared, faulty>>

\* Mutant: the body that was sent is not remembered.
FinishUnremembered(e, taken) ==
    /\ handler[e] = "sending"
    /\ partner' = IF taken THEN body[e] ELSE partner
    /\ faulty' = (faulty \/ ~taken)
    /\ inFlight' = inFlight \ {KeyOf(e)}
    /\ handler' = [handler EXCEPT ![e] = AfterBroadcast(e)]
    /\ UNCHANGED <<tx, event, body, fingerprint, attempted, cleared>>

\* broadcastToClients returns, the partner's failure being swallowed: markSent.
FinishBroadcast(e, taken) ==
    /\ handler[e] = "sending"
    /\ partner' = IF taken THEN body[e] ELSE partner
    /\ faulty' = (faulty \/ ~taken)
    /\ fingerprint' = [fingerprint EXCEPT ![KeyOf(e)] = {body[e]}]
    /\ inFlight' = inFlight \ {KeyOf(e)}
    /\ handler' = [handler EXCEPT ![e] = AfterBroadcast(e)]
    /\ UNCHANGED <<tx, event, body, attempted, cleared>>

\* Mutant: the error is rethrown without markFailed.
FailWithoutMark(e) ==
    /\ handler[e] = "sending"
    /\ attempted' = [attempted EXCEPT ![KeyOf(e)] = {}]
    /\ faulty' = TRUE
    /\ handler' = [handler EXCEPT ![e] = "threw"]
    /\ UNCHANGED <<tx, event, body, fingerprint, inFlight, partner, cleared>>

\* The partners cannot be listed: markFailed, and the handler throws.
FailBroadcast(e) ==
    /\ handler[e] = "sending"
    /\ inFlight' = inFlight \ {KeyOf(e)}
    /\ attempted' = [attempted EXCEPT ![KeyOf(e)] = {}]
    /\ faulty' = TRUE
    /\ handler' = [handler EXCEPT ![e] = "threw"]
    /\ UNCHANGED <<tx, event, body, fingerprint, partner, cleared>>

\* broadcastPostCdr, then clear(transactionId): the entries of every handler go.
PostCdrAndClear(e) ==
    /\ handler[e] = "ending"
    /\ fingerprint' = [k \in Keys |-> {}]
    /\ attempted' = [k \in Keys |-> {}]
    /\ inFlight' = {}
    /\ cleared' = TRUE
    /\ handler' = [handler EXCEPT ![e] = "done"]
    /\ UNCHANGED <<tx, event, body, partner, faulty>>

\* broadcastPostCdr throws: the CDR cannot be mapped or stored.  Nothing is cleared.
PostCdrThrows(e) ==
    /\ handler[e] = "ending"
    /\ faulty' = TRUE
    /\ handler' = [handler EXCEPT ![e] = "threw"]
    /\ UNCHANGED <<tx, event, body, fingerprint, attempted, inFlight, partner, cleared>>

SessionNext == \E e \in Events :
           \/ \E kind \in Kinds : Write(e, kind)
           \/ ReadTransaction(e)
           \/ ReadFails(e)
           \/ MapSession(e)
           \/ StartBroadcast(e)
           \/ SkipBroadcast(e)
           \/ \E taken \in BOOLEAN : FinishBroadcast(e, taken)
           \/ FailBroadcast(e)
           \/ PostCdrAndClear(e)
           \/ PostCdrThrows(e)

SessionSpec == SessionInit /\ [][SessionNext]_sessionVars
-----------------------------------------------------------------------------
(* Properties *)

Sending(k) == {e \in Events : handler[e] = "sending" /\ KeyOf(e) = k}

\* A key is in flight only while some push under it is: a key left behind would
\* silence the session for good, for nothing else ever removes it.
NoStuckKey == \A k \in inFlight : Sending(k) # {}

\* Until the transaction's entries are cleared, at most one push per key is under way
\* and the key is marked for as long as it is.
InFlightGuardsPushes ==
    ~cleared => \A k \in Keys : /\ Sending(k) # {} => k \in inFlight
                                /\ \A d, e \in Sending(k) : d = e

\* A body is not pushed again right after itself under one key, unless that push failed
\* or the entries were cleared: the duplicate pushes the service was written to stop.
\* Deciding, sending and marking are three steps of handlers that interleave.
NoRepeatedPush ==
    [][\A e \in Events :
          handler[e] = "deciding" /\ handler'[e] = "sending" /\ ~cleared
             => body[e] \notin attempted[KeyOf(e)]]_sessionVars

\* What the proofs need besides: the push under way is the last attempt, and an attempt
\* that is over without having failed is the body remembered under its key.
AttemptIsRemembered ==
    ~cleared => \A k \in Keys : /\ \A e \in Sending(k) : attempted[k] = {body[e]}
                                /\ Sending(k) = {} => attempted[k] \subseteq fingerprint[k]

\* A write is at most one reading (keeps the readings within the bound).
ReadingsAreWrites == tx.kwh <= tx.updatedAt

\* The inductive invariant of SessionBroadcastProofs.
SessionInv == SessionTypeOK /\ ReadingsAreWrites /\ NoStuckKey /\ InFlightGuardsPushes /\ AttemptIsRemembered

Quiet == \A e \in Events : handler[e] \in {"unborn", "done", "threw"}

\* README: "Broadcast PATCH session" on every transaction update.  When every handler has
\* run without a failure and the transaction is over, the partner knows that it is over.
\* It does not hold (README, section 6), and no configuration lists it.
EndReachesPartner == Quiet /\ ~faulty /\ ~tx.active => partner.ended
=============================================================================
