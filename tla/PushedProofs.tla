----------------------------- MODULE PushedProofs -----------------------------
(***************************************************************************)
(* What TLAPS proves of what is pushed: CdrDelivery for any number of      *)
(* updates of the ended transaction, any formats of CDR ids and both kinds *)
(* of partner, SessionBroadcast for every number of writes, OwnLocation    *)
(* and TransactionMessages for any EVSEs, partners, updates, energies and  *)
(* prices, and of the four side by side, as they are run.                  *)
(***************************************************************************)
EXTENDS MCPushed, TLAPS

-----------------------------------------------------------------------------
(* One CDR per transaction *)

USE DEF Goes, Posted, outboxVars, partnerVars

LEMMA CdrInitInv == Init => IInv
  BY DEF Init, IInv, TypeOK, Calls, OneRow, SendsTheStoredId,
     MarkingIsAccepted, MarkedWasAccepted

\* A handler's own steps before it posts.
LEMMA StoreStep ==
  ASSUME IInv, NEW h \in Handlers,
         \/ MapCdr(h) \/ FindCdr(h) \/ InsertCdr(h)
         \/ StoreFails(h) \/ NothingPosted(h) \/ Dies(h)
  PROVE  IInv'
<1> USE DEF IInv
<1>1. CASE MapCdr(h)
  <2>1. TypeOK'
    BY <1>1 DEF MapCdr, TypeOK, Calls
  <2>2. \A g \in Handlers : pc'[g] \in {"posting", "queueing", "marking"} =>
                              pc[g] = pc'[g] /\ id'[g] = id[g]
    BY <1>1 DEF MapCdr, TypeOK
  <2> QED BY <1>1, <2>1, <2>2 DEF MapCdr, OneRow, SendsTheStoredId, MarkingIsAccepted, MarkedWasAccepted
<1>2. CASE FindCdr(h)
  <2>1. TypeOK'
    BY <1>2 DEF FindCdr, TypeOK, Calls
  <2>2. /\ UNCHANGED <<stored, sent, queued, marking, posted, accepted>>
        /\ pc'[h] = "posting" => id'[h] \in stored
        /\ pc'[h] \notin {"queueing", "marking"}
        /\ \A g \in Handlers : g # h => pc'[g] = pc[g] /\ id'[g] = id[g]
    BY <1>2 DEF FindCdr, TypeOK
  <2> QED BY <2>1, <2>2 DEF OneRow, SendsTheStoredId, MarkingIsAccepted, MarkedWasAccepted
<1>3. CASE InsertCdr(h)
  <2>1. TypeOK'
    BY <1>3 DEF InsertCdr, TypeOK, Calls
  <2>2. /\ UNCHANGED <<id, sent, queued, marking, posted, accepted>>
        /\ stored = {} /\ stored' = {id[h]}
        /\ pc'[h] \in {"posting", "threw"}
        /\ \A g \in Handlers : g # h => pc'[g] = pc[g]
    BY <1>3 DEF InsertCdr, TypeOK
  <2>3. queued = {} /\ marking = {} /\ posted = {} /\ ~sent
    BY <2>2 DEF SendsTheStoredId, MarkedWasAccepted
  <2>4. \A g \in Handlers : pc[g] \notin {"posting", "queueing", "marking"}
    BY <2>2 DEF SendsTheStoredId
  <2>5. \A g \in Handlers : pc'[g] \in {"posting", "queueing", "marking"} => g = h /\ pc'[g] = "posting"
    BY <2>2, <2>4
  <2> QED BY <2>1, <2>2, <2>3, <2>5 DEF OneRow, SendsTheStoredId, MarkingIsAccepted, MarkedWasAccepted
<1>4. CASE StoreFails(h) \/ NothingPosted(h) \/ Dies(h)
  <2>1. TypeOK'
    BY <1>4 DEF StoreFails, NothingPosted, Dies, TypeOK, Calls
  <2>2. /\ UNCHANGED <<id, stored, sent, queued, marking, posted, accepted>>
        /\ \A g \in Handlers : pc'[g] = pc[g] \/ pc'[g] \in {"threw", "done"}
    BY <1>4 DEF StoreFails, NothingPosted, Dies, TypeOK
  <2> QED BY <2>1, <2>2 DEF OneRow, SendsTheStoredId, MarkingIsAccepted, MarkedWasAccepted
<1> QED BY <1>1, <1>2, <1>3, <1>4

\* The POST, whatever becomes of it, and what follows it.
LEMMA PostStep ==
  ASSUME IInv, NEW h \in Handlers,
         PostAccepted(h) \/ PostRefused(h) \/ PostFails(h) \/ Queue(h) \/ Mark(h)
  PROVE  IInv'
<1> USE DEF IInv
<1>1. CASE PostAccepted(h) \/ PostRefused(h) \/ PostFails(h)
  <2>1. id[h] \in stored /\ id[h] \in Formats
    BY <1>1 DEF PostAccepted, PostRefused, PostFails, SendsTheStoredId, TypeOK
  <2>2. /\ UNCHANGED <<id, stored, sent, queued, marking>>
        /\ posted' = posted \cup {id[h]} /\ reposted' = (reposted \/ sent)
        /\ accepted' \in {accepted, accepted \cup {id[h]}}
        /\ pc'[h] \in {"marking", "queueing", "done"}
        /\ pc'[h] = "marking" => id[h] \in accepted'
        /\ \A g \in Handlers : g # h => pc'[g] = pc[g]
        /\ pc' \in [Handlers -> Calls]
    BY <1>1 DEF PostAccepted, PostRefused, PostFails, TypeOK, Calls
  <2>3. TypeOK'
    BY <2>1, <2>2 DEF TypeOK
  <2>4. accepted \subseteq accepted'
    BY <2>2
  <2>5. SendsTheStoredId'
    BY <2>1, <2>2 DEF SendsTheStoredId
  <2>6. MarkingIsAccepted'
    BY <2>2, <2>4 DEF MarkingIsAccepted
  <2>7. OneRow' /\ MarkedWasAccepted'
    BY <2>2, <2>4 DEF OneRow, MarkedWasAccepted
  <2> QED BY <2>3, <2>5, <2>6, <2>7
<1>2. CASE Queue(h)
  <2>1. id[h] \in stored /\ id[h] \in Formats
    BY <1>2 DEF Queue, SendsTheStoredId, TypeOK
  <2>2. /\ UNCHANGED <<id, stored, sent, marking, posted, accepted, reposted>>
        /\ queued' \in {queued, {id[h]}}
        /\ \A g \in Handlers : pc'[g] = pc[g] \/ pc'[g] = "done"
        /\ pc' \in [Handlers -> Calls]
    BY <1>2 DEF Queue, TypeOK, Calls
  <2>3. TypeOK'
    BY <2>1, <2>2 DEF TypeOK
  <2> QED BY <2>1, <2>2, <2>3 DEF OneRow, SendsTheStoredId, MarkingIsAccepted, MarkedWasAccepted
<1>3. CASE Mark(h)
  <2>1. id[h] \in stored /\ id[h] \in accepted
    BY <1>3 DEF Mark, SendsTheStoredId, MarkingIsAccepted
  <2>2. /\ UNCHANGED <<id, stored, queued, marking, posted, accepted, reposted>>
        /\ sent' \in BOOLEAN
        /\ \A g \in Handlers : pc'[g] = pc[g] \/ pc'[g] = "done"
        /\ pc' \in [Handlers -> Calls]
    BY <1>3 DEF Mark, TypeOK, Calls
  <2>3. TypeOK'
    BY <2>2 DEF TypeOK
  <2>4. stored \subseteq accepted
    BY <2>1 DEF OneRow
  <2> QED BY <2>1, <2>2, <2>3, <2>4 DEF OneRow, SendsTheStoredId, MarkingIsAccepted, MarkedWasAccepted
<1> QED BY <1>1, <1>2, <1>3

\* The cron run's retry.
LEMMA RetryStep ==
  ASSUME IInv, RetryAccepted \/ RetryNotAccepted \/ RetryMarks \/ RetryDies
  PROVE  IInv'
<1> USE DEF IInv
<1>1. CASE RetryAccepted \/ RetryNotAccepted
  <2>1. PICK i \in queued : Posted(i)
    BY <1>1 DEF RetryAccepted, RetryNotAccepted
  <2>2. i \in stored /\ queued \subseteq Formats
    BY <2>1 DEF SendsTheStoredId, TypeOK
  <2>3. /\ UNCHANGED <<pc, id, stored, sent>>
        /\ accepted' \in {accepted, accepted \cup queued}
        /\ queued' \in {queued, {}}
        /\ marking' = marking \/ (marking' = queued /\ queued \subseteq accepted')
    BY <1>1 DEF RetryAccepted, RetryNotAccepted
  <2>4. TypeOK'
    BY <2>1, <2>2, <2>3 DEF TypeOK
  <2>5. accepted \subseteq accepted'
    BY <2>3
  <2>6. SendsTheStoredId'
    BY <2>1, <2>2, <2>3 DEF SendsTheStoredId
  <2>7. OneRow' /\ MarkingIsAccepted' /\ MarkedWasAccepted'
    BY <2>3, <2>5 DEF OneRow, MarkingIsAccepted, MarkedWasAccepted
  <2> QED BY <2>4, <2>6, <2>7
<1>2. CASE RetryMarks
  <2>1. PICK i \in marking : TRUE
    BY <1>2 DEF RetryMarks
  <2>2. i \in stored /\ i \in accepted
    BY <2>1 DEF SendsTheStoredId, MarkingIsAccepted
  <2>3. stored \subseteq accepted
    BY <2>2 DEF OneRow
  <2>4. /\ UNCHANGED <<pc, id, stored, posted, accepted, reposted>>
        /\ sent' \in BOOLEAN /\ queued' \in {queued, {}} /\ marking' = {}
    BY <1>2 DEF RetryMarks, TypeOK
  <2>5. TypeOK'
    BY <2>4 DEF TypeOK
  <2> QED BY <2>2, <2>3, <2>4, <2>5 DEF OneRow, SendsTheStoredId, MarkingIsAccepted, MarkedWasAccepted
<1>3. CASE RetryDies
  BY <1>3 DEF RetryDies, TypeOK, OneRow, SendsTheStoredId, MarkingIsAccepted, MarkedWasAccepted
<1> QED BY <1>1, <1>2, <1>3

\* The table's row, everything queued and everything posted keep to one id.
THEOREM CdrInvariant == Spec => []IInv
<1>1. ASSUME IInv, [Next]_vars PROVE IInv'
  <2>1. CASE UNCHANGED vars
    BY <1>1, <2>1 DEF vars, IInv, TypeOK, OneRow, SendsTheStoredId, MarkingIsAccepted, MarkedWasAccepted
  <2>2. CASE Next
    BY <1>1, <2>2, StoreStep, PostStep, RetryStep DEF Next
  <2> QED BY <1>1, <2>1, <2>2
<1> QED BY <1>1, CdrInitInv, PTL DEF Spec

\* However many updates, retries, lost answers and crashes there are, the partner is
\* sent the CDR of a transaction under one id only.
THEOREM OneCdrIsSent == Spec => []OneCdrPerTransaction
<1>1. IInv => OneCdrPerTransaction
  BY DEF IInv, OneRow, SendsTheStoredId, OneCdrPerTransaction
<1> QED BY <1>1, CdrInvariant, PTL

\* A CDR is marked as sent only when the partner accepted the CDR in its row.
THEOREM MarkedCdrWasAccepted == Spec => []MarkedWasAccepted
<1>1. IInv => MarkedWasAccepted
  BY DEF IInv
<1> QED BY <1>1, CdrInvariant, PTL

HIDE DEF Goes, Posted, outboxVars, partnerVars
-----------------------------------------------------------------------------
(* The session *)

USE DEF Events

LEMMA SessionInitInv == SessionInit => SessionInv
<1> SUFFICES ASSUME SessionInit PROVE SessionInv
  OBVIOUS
<1>1. SessionTypeOK
  <2> USE MaxEventsAssumption DEF SessionInit
  <2>1. tx \in Tx /\ event \in [Events -> Event] /\ NoBody \in Body
    BY DEF Tx, Event, Kinds, NoBody, Body
  <2>2. handler \in [Events -> HandlerPc]
    BY DEF HandlerPc
  <2>3. body \in [Events -> Body] /\ partner \in Body
    BY <2>1
  <2>4. /\ fingerprint \in [Keys -> SUBSET Body]
        /\ attempted \in [Keys -> SUBSET Body]
    OBVIOUS
  <2> QED BY <2>1, <2>2, <2>3, <2>4 DEF SessionTypeOK
<1>2. ReadingsAreWrites
  BY DEF SessionInit, ReadingsAreWrites
<1>3. \A k : Sending(k) = {}
  BY DEF SessionInit, Sending
<1> QED BY <1>1, <1>2, <1>3
        DEF SessionInit, SessionInv, NoStuckKey, InFlightGuardsPushes, AttemptIsRemembered, Keys

LEMMA KeyType == \A e : KeyOf(e) \in Keys
  BY DEF KeyOf, Keys

LEMMA MergedType == SessionTypeOK => \A e \in Events : Merged(e) \in Body
  BY MaxEventsAssumption DEF SessionTypeOK, Merged, Body, Tx, Event

-----------------------------------------------------------------------------
(* Type correctness, one lemma for the write and one for the handlers *)

LEMMA WriteType ==
  ASSUME SessionTypeOK, ReadingsAreWrites, NEW e \in Events, NEW kind \in Kinds, Write(e, kind)
  PROVE  SessionTypeOK' /\ ReadingsAreWrites'
<1>1. tx.updatedAt \in 0..MaxEvents /\ tx.kwh \in 0..MaxEvents
  BY DEF SessionTypeOK, Tx
<1>2. tx' \in Tx /\ tx'.kwh <= tx'.updatedAt /\ tx'.kwh \in 0..MaxEvents
  <2>1. CASE kind = "meter"
    <3>1. tx' = [updatedAt |-> e, kwh |-> tx.kwh + 1, active |-> TRUE]
      BY <2>1 DEF Write
    <3>2. tx.kwh + 1 <= e /\ tx.kwh + 1 \in 0..MaxEvents
      BY <1>1, MaxEventsAssumption DEF Write, ReadingsAreWrites
    <3> QED BY <3>1, <3>2, MaxEventsAssumption DEF Tx
  <2>2. CASE kind # "meter"
    <3>1. tx' = [updatedAt |-> e, kwh |-> tx.kwh, active |-> kind # "end"]
      BY <2>2 DEF Write
    <3>2. tx.kwh <= e
      BY <1>1, MaxEventsAssumption DEF Write, ReadingsAreWrites
    <3> QED BY <1>1, <3>1, <3>2, MaxEventsAssumption DEF Tx
  <2> QED BY <2>1, <2>2
<1>3. event' \in [Events -> Event]
  BY <1>2 DEF Write, SessionTypeOK, Event
<1>4. handler' \in [Events -> HandlerPc]
  BY DEF Write, SessionTypeOK, HandlerPc
<1> QED BY <1>2, <1>3, <1>4 DEF Write, SessionTypeOK, ReadingsAreWrites

\* One handler's step, the write apart.
HandlerStep(e) ==
    \/ ReadTransaction(e) \/ ReadFails(e) \/ MapSession(e)
    \/ StartBroadcast(e) \/ SkipBroadcast(e)
    \/ (\E taken \in BOOLEAN : FinishBroadcast(e, taken)) \/ FailBroadcast(e)
    \/ PostCdrAndClear(e) \/ PostCdrThrows(e)

LEMMA HandlerType ==
  ASSUME SessionTypeOK, NEW e \in Events, HandlerStep(e)
  PROVE  SessionTypeOK'
<1> USE KeyType
<1>1. CASE ReadTransaction(e)
  BY <1>1, MergedType DEF ReadTransaction, SessionTypeOK, HandlerPc
<1>2. CASE ReadFails(e) \/ MapSession(e) \/ PostCdrThrows(e)
  BY <1>2 DEF ReadFails, MapSession, PostCdrThrows, SessionTypeOK, HandlerPc
<1>3. CASE StartBroadcast(e)
  BY <1>3 DEF StartBroadcast, SessionTypeOK, HandlerPc
<1>4. CASE SkipBroadcast(e)
  BY <1>4 DEF SkipBroadcast, AfterBroadcast, SessionTypeOK, HandlerPc
<1>5. ASSUME NEW taken \in BOOLEAN, FinishBroadcast(e, taken) PROVE SessionTypeOK'
  BY <1>5 DEF FinishBroadcast, AfterBroadcast, SessionTypeOK, HandlerPc
<1>6. CASE FailBroadcast(e)
  BY <1>6 DEF FailBroadcast, SessionTypeOK, HandlerPc
<1>7. CASE PostCdrAndClear(e)
  BY <1>7 DEF PostCdrAndClear, SessionTypeOK, HandlerPc
<1> QED BY <1>1, <1>2, <1>3, <1>4, <1>5, <1>6, <1>7 DEF HandlerStep

-----------------------------------------------------------------------------
(* The keys in flight *)

\* The part of the invariant that speaks of pushes.
PushInv == NoStuckKey /\ InFlightGuardsPushes /\ AttemptIsRemembered

\* Steps that begin and end no push, and touch no dedupe entry.
LEMMA KeysKept ==
  ASSUME PushInv,
         UNCHANGED <<fingerprint, attempted, inFlight, cleared>>,
         \A k \in Keys : Sending(k)' = Sending(k),
         \A k \in Keys : \A e \in Sending(k) : body'[e] = body[e],
         SessionTypeOK
  PROVE  PushInv'
<1>1. inFlight \subseteq Keys
  BY DEF SessionTypeOK
<1> QED BY <1>1 DEF PushInv, NoStuckKey, InFlightGuardsPushes, AttemptIsRemembered

LEMMA WriteKeys ==
  ASSUME SessionTypeOK, PushInv, NEW e \in Events, NEW kind \in Kinds, Write(e, kind)
  PROVE  PushInv'
<1>1. \A d \in Events : d # e => handler'[d] = handler[d] /\ event'[d] = event[d]
  BY DEF Write, SessionTypeOK
<1>2. handler[e] # "sending" /\ handler'[e] # "sending"
  BY DEF Write, SessionTypeOK
<1>3. \A k \in Keys : Sending(k)' = Sending(k)
  BY <1>1, <1>2 DEF Sending, KeyOf
<1> QED BY <1>3, KeysKept DEF Write

LEMMA QuietKeys ==
  ASSUME SessionTypeOK, PushInv, NEW e \in Events,
         \/ ReadTransaction(e) \/ ReadFails(e) \/ MapSession(e)
         \/ SkipBroadcast(e) \/ PostCdrThrows(e)
  PROVE  PushInv'
<1> USE DEF ReadTransaction, ReadFails, MapSession, SkipBroadcast, PostCdrThrows,
            AfterBroadcast
<1>1. UNCHANGED <<fingerprint, attempted, inFlight, cleared, event>>
  OBVIOUS
<1>2. handler[e] # "sending" /\ handler'[e] # "sending"
  BY DEF SessionTypeOK
<1>3. \A d \in Events : d # e => handler'[d] = handler[d] /\ body'[d] = body[d]
  BY DEF SessionTypeOK
<1>4. \A k \in Keys : Sending(k)' = Sending(k)
  BY <1>1, <1>2, <1>3 DEF Sending, KeyOf
<1>5. \A k \in Keys : \A d \in Sending(k) : body'[d] = body[d]
  BY <1>2, <1>3 DEF Sending
<1> QED BY <1>1, <1>4, <1>5, KeysKept

LEMMA StartKeys ==
  ASSUME SessionTypeOK, PushInv, NEW e \in Events, StartBroadcast(e)
  PROVE  PushInv'
<1>1. PICK key \in Keys : key = KeyOf(e)
  BY KeyType
<1>2. /\ handler'[e] = "sending" /\ UNCHANGED event
      /\ \A d \in Events : d # e => handler'[d] = handler[d]
  BY DEF StartBroadcast, SessionTypeOK
<1>3. \A d : d \in Sending(key)' <=> d \in Sending(key) \/ d = e
  BY <1>1, <1>2 DEF Sending, KeyOf
<1>4. \A k \in Keys : k # key => Sending(k)' = Sending(k)
  <2> SUFFICES ASSUME NEW k \in Keys, k # key, NEW d \in Events
               PROVE  d \in Sending(k)' <=> d \in Sending(k)
    BY DEF Sending
  <2> QED BY <1>1, <1>2 DEF Sending, KeyOf
<1>5. ~cleared => Sending(key) = {}
  BY <1>1 DEF PushInv, InFlightGuardsPushes, StartBroadcast, ShouldBroadcast
<1>6. /\ inFlight' = inFlight \cup {key}
      /\ UNCHANGED <<body, fingerprint, cleared>>
      /\ attempted'[key] = {body[e]}
      /\ \A k \in Keys : k # key => attempted'[k] = attempted[k]
  BY <1>1 DEF StartBroadcast, SessionTypeOK
<1>7. NoStuckKey'
  <2>1. inFlight \subseteq Keys
    BY DEF SessionTypeOK
  <2> QED BY <1>3, <1>4, <1>6, <2>1 DEF PushInv, NoStuckKey
<1>8. InFlightGuardsPushes'
  <2> SUFFICES ASSUME ~cleared, NEW k \in Keys
               PROVE  /\ Sending(k)' # {} => k \in inFlight'
                      /\ \A c, d \in Sending(k)' : c = d
    BY <1>6 DEF InFlightGuardsPushes
  <2>1. CASE k = key
    BY <1>3, <1>5, <1>6, <2>1
  <2>2. CASE k # key
    BY <1>4, <1>6, <2>2 DEF PushInv, InFlightGuardsPushes
  <2> QED BY <2>1, <2>2
<1>9. AttemptIsRemembered'
  <2> SUFFICES ASSUME ~cleared, NEW k \in Keys
               PROVE  /\ \A d \in Sending(k)' : attempted'[k] = {body[d]}
                      /\ Sending(k)' = {} => attempted'[k] \subseteq fingerprint[k]
    BY <1>6 DEF AttemptIsRemembered
  <2>1. CASE k = key
    BY <1>3, <1>5, <1>6, <2>1
  <2>2. CASE k # key
    BY <1>4, <1>6, <2>2 DEF PushInv, AttemptIsRemembered
  <2> QED BY <2>1, <2>2
<1> QED BY <1>7, <1>8, <1>9 DEF PushInv

\* A push ends: the handler leaves sending, and its key is released.
LEMMA EndOfPush ==
  ASSUME SessionTypeOK, PushInv, NEW e \in Events, NEW key \in Keys, key = KeyOf(e),
         handler[e] = "sending", handler'[e] # "sending", UNCHANGED <<event, body, cleared>>,
         \A d \in Events : d # e => handler'[d] = handler[d],
         inFlight' = inFlight \ {key},
         attempted'[key] \in {{}, attempted[key]},
         attempted'[key] # {} => fingerprint'[key] = {body[e]},
         \A k \in Keys : k # key => /\ attempted'[k] = attempted[k]
                                    /\ fingerprint'[k] = fingerprint[k]
  PROVE  PushInv'
<1>1. /\ e \in Sending(key)
      /\ \A d : d \in Sending(key)' => d \in Sending(key) /\ d # e
  BY DEF Sending, KeyOf
<1>2. \A k \in Keys : k # key => Sending(k)' = Sending(k)
  <2> SUFFICES ASSUME NEW k \in Keys, k # key, NEW d \in Events
               PROVE  d \in Sending(k)' <=> d \in Sending(k)
    BY DEF Sending
  <2> QED BY DEF Sending, KeyOf
<1>3. ~cleared => Sending(key)' = {} /\ attempted[key] = {body[e]}
  BY <1>1 DEF PushInv, InFlightGuardsPushes, AttemptIsRemembered
<1>4. NoStuckKey'
  <2>1. inFlight \subseteq Keys
    BY DEF SessionTypeOK
  <2> QED BY <1>2, <2>1 DEF PushInv, NoStuckKey
<1>5. InFlightGuardsPushes'
  <2> SUFFICES ASSUME ~cleared, NEW k \in Keys
               PROVE  /\ Sending(k)' # {} => k \in inFlight'
                      /\ \A c, d \in Sending(k)' : c = d
    BY DEF InFlightGuardsPushes
  <2>1. CASE k = key
    BY <1>3, <2>1
  <2>2. CASE k # key
    BY <1>2, <2>2 DEF PushInv, InFlightGuardsPushes
  <2> QED BY <2>1, <2>2
<1>6. AttemptIsRemembered'
  <2> SUFFICES ASSUME ~cleared, NEW k \in Keys
               PROVE  /\ \A d \in Sending(k)' : attempted'[k] = {body[d]}
                      /\ Sending(k)' = {} => attempted'[k] \subseteq fingerprint'[k]
    BY DEF AttemptIsRemembered
  <2>1. CASE k = key
    BY <1>3, <2>1
  <2>2. CASE k # key
    BY <1>2, <2>2 DEF PushInv, AttemptIsRemembered
  <2> QED BY <2>1, <2>2
<1> QED BY <1>4, <1>5, <1>6 DEF PushInv

LEMMA FinishKeys ==
  ASSUME SessionTypeOK, PushInv, NEW e \in Events, NEW taken \in BOOLEAN, FinishBroadcast(e, taken)
  PROVE  PushInv'
<1>1. PICK key \in Keys : key = KeyOf(e)
  BY KeyType
<1>2. handler[e] = "sending" /\ handler'[e] # "sending"
  BY DEF FinishBroadcast, AfterBroadcast, SessionTypeOK
<1>3. \A d \in Events : d # e => handler'[d] = handler[d]
  BY DEF FinishBroadcast, SessionTypeOK
<1>4. /\ fingerprint'[key] = {body[e]}
      /\ \A k \in Keys : k # key => fingerprint'[k] = fingerprint[k]
  BY <1>1 DEF FinishBroadcast, SessionTypeOK
<1>5. inFlight' = inFlight \ {key} /\ UNCHANGED <<event, body, attempted, cleared>>
  BY <1>1 DEF FinishBroadcast
<1> QED BY <1>1, <1>2, <1>3, <1>4, <1>5, EndOfPush

LEMMA FailKeys ==
  ASSUME SessionTypeOK, PushInv, NEW e \in Events, FailBroadcast(e)
  PROVE  PushInv'
<1>1. PICK key \in Keys : key = KeyOf(e)
  BY KeyType
<1>2. handler[e] = "sending" /\ handler'[e] # "sending"
  BY DEF FailBroadcast, SessionTypeOK
<1>3. \A d \in Events : d # e => handler'[d] = handler[d]
  BY DEF FailBroadcast, SessionTypeOK
<1>4. /\ attempted'[key] = {}
      /\ \A k \in Keys : k # key => attempted'[k] = attempted[k]
  BY <1>1 DEF FailBroadcast, SessionTypeOK
<1>5. inFlight' = inFlight \ {key} /\ UNCHANGED <<event, body, fingerprint, cleared>>
  BY <1>1 DEF FailBroadcast
<1> QED BY <1>1, <1>2, <1>3, <1>4, <1>5, EndOfPush

LEMMA ClearKeys ==
  ASSUME SessionTypeOK, PushInv, NEW e \in Events, PostCdrAndClear(e)
  PROVE  PushInv'
  BY DEF PostCdrAndClear, PushInv, NoStuckKey, InFlightGuardsPushes, AttemptIsRemembered

-----------------------------------------------------------------------------
LEMMA SessionIInvParts == SessionInv <=> SessionTypeOK /\ ReadingsAreWrites /\ PushInv
  BY DEF SessionInv, PushInv

LEMMA SessionNextInv == SessionInv /\ [SessionNext]_sessionVars => SessionInv'
<1> SUFFICES ASSUME SessionInv, [SessionNext]_sessionVars PROVE SessionTypeOK' /\ ReadingsAreWrites' /\ PushInv'
  BY DEF SessionInv, PushInv
<1> USE SessionIInvParts
<1>1. ASSUME NEW e \in Events, NEW kind \in Kinds, Write(e, kind)
      PROVE  SessionTypeOK' /\ ReadingsAreWrites' /\ PushInv'
  BY <1>1, WriteType, WriteKeys
<1>2. ASSUME NEW e \in Events, HandlerStep(e)
      PROVE  SessionTypeOK' /\ ReadingsAreWrites' /\ PushInv'
  <2>1. SessionTypeOK'
    BY <1>2, HandlerType
  <2>2. UNCHANGED tx
    BY <1>2 DEF HandlerStep, ReadTransaction, ReadFails, MapSession, StartBroadcast,
       SkipBroadcast, FinishBroadcast, FailBroadcast, PostCdrAndClear, PostCdrThrows
  <2>3. PushInv'
    BY <1>2, QuietKeys, StartKeys, FinishKeys, FailKeys, ClearKeys DEF HandlerStep
  <2> QED BY <2>1, <2>2, <2>3 DEF ReadingsAreWrites
<1>3. CASE UNCHANGED sessionVars
  BY <1>3 DEF sessionVars, SessionTypeOK, ReadingsAreWrites, PushInv, NoStuckKey, InFlightGuardsPushes,
     AttemptIsRemembered, Sending, KeyOf
<1> QED BY <1>1, <1>2, <1>3 DEF SessionNext, HandlerStep

LEMMA SessionInductiveInv == SessionSpec => []SessionInv
  BY SessionInitInv, SessionNextInv, PTL DEF SessionSpec

\* Every variable keeps its type, whatever the handlers of SessionBroadcaster interleave.
THEOREM SessionTypeCorrect == SessionSpec => []SessionTypeOK
  BY SessionInductiveInv, PTL DEF SessionInv

\* No dedupe key stays in flight without a push under it: markSent, markFailed and clear
\* together release every key that markInFlight took.
THEOREM KeysAreReleased == SessionSpec => []NoStuckKey
  BY SessionInductiveInv, PTL DEF SessionInv

\* Until clear, the key is held for as long as a push lasts and by one push at a time.
THEOREM PushesAreGuarded == SessionSpec => []InFlightGuardsPushes
  BY SessionInductiveInv, PTL DEF SessionInv

\* Until clear, shouldBroadcast lets no body through right after itself, unless that
\* push failed.
THEOREM BodiesAreNotRepeated == SessionSpec => NoRepeatedPush
<1>1. ASSUME SessionInv, [SessionNext]_sessionVars, NEW e \in Events,
             handler[e] = "deciding", handler'[e] = "sending", ~cleared
      PROVE  body[e] \notin attempted[KeyOf(e)]
  <2>1. StartBroadcast(e)
    <3>1. ~UNCHANGED sessionVars
      BY <1>1 DEF sessionVars
    <3>2. handler \in [Events -> HandlerPc]
      BY <1>1 DEF SessionInv, SessionTypeOK
    <3>3. PICK d \in Events : HandlerStep(d) \/ \E kind \in Kinds : Write(d, kind)
      BY <1>1, <3>1 DEF SessionNext, HandlerStep
    <3>4. d = e
      BY <1>1, <3>2, <3>3 DEF HandlerStep, Write, ReadTransaction, ReadFails, MapSession,
         StartBroadcast, SkipBroadcast, FinishBroadcast, FailBroadcast, PostCdrAndClear,
         PostCdrThrows
    <3> QED BY <1>1, <3>2, <3>3, <3>4 DEF HandlerStep, Write, ReadTransaction, ReadFails,
         MapSession, SkipBroadcast, AfterBroadcast, FinishBroadcast, FailBroadcast,
         PostCdrAndClear, PostCdrThrows
  <2>2. KeyOf(e) \notin inFlight /\ body[e] \notin fingerprint[KeyOf(e)]
    BY <2>1 DEF StartBroadcast, ShouldBroadcast
  <2>3. Sending(KeyOf(e)) = {}
    BY <1>1, <2>2, KeyType DEF SessionInv, InFlightGuardsPushes
  <2>4. attempted[KeyOf(e)] \subseteq fingerprint[KeyOf(e)]
    BY <1>1, <2>3, KeyType DEF SessionInv, AttemptIsRemembered
  <2> QED BY <2>2, <2>4
<1>2. SessionInv /\ [SessionNext]_sessionVars
        => [\A e \in Events : handler[e] = "deciding" /\ handler'[e] = "sending" /\ ~cleared
              => body[e] \notin attempted[KeyOf(e)]]_sessionVars
  BY <1>1
<1> QED BY <1>2, SessionInductiveInv, PTL DEF SessionSpec, NoRepeatedPush

HIDE DEF Events
-----------------------------------------------------------------------------
(* The removal of an own location *)

LEMMA NoRemovalType == NoRemoval \in Removals /\ NoPusher \in Pushers
BY DEF NoRemoval, Removals, RemovalSteps, Pairs, NoPusher, Pushers

LEMMA LocationInitInv == OwnLocationInit => RemovalIInv
<1> SUFFICES ASSUME OwnLocationInit PROVE RemovalIInv
  OBVIOUS
<1>1. OwnLocationTypeOK
  <2>1. /\ there \subseteq EvseRows /\ edits \in 0..MaxEdits
        /\ pusher \in Pushers /\ removal \in Removals
    BY OwnLocationAssumption, NoRemovalType DEF OwnLocationInit
  <2>2. /\ report \in [EvseRows -> Reports]
        /\ told \in [Peers -> [EvseRows -> Reports \cup {"nothing", "REMOVED"}]]
    BY DEF OwnLocationInit, Reports
  <2> QED BY <2>1, <2>2 DEF OwnLocationInit, OwnLocationTypeOK
<1>2. /\ removal.at = "idle" /\ removal.status = "none" /\ removal.ids = {}
      /\ removal.pending = {} /\ ~removal.quiet
  BY DEF OwnLocationInit, NoRemoval
<1>3. \A p \in Peers, e \in EvseRows : told[p][e] # "REMOVED"
  BY DEF OwnLocationInit
<1>4. there \subseteq EvseRows
  BY <1>1 DEF OwnLocationTypeOK
<1>5. FoundIsBorn /\ FoundIsMarked /\ OnlyLateDiverge
  BY <1>2, <1>3, <1>4 DEF FoundIsBorn, FoundIsMarked, OnlyLateDiverge
<1>6. QuietStays /\ StepsAreDone /\ TurnsAreTold
  BY <1>2 DEF QuietStays, StepsAreDone, TurnsAreTold
<1> QED BY <1>1, <1>5, <1>6 DEF RemovalIInv

\* The core's changes touch neither the call's variables nor what partners were told.
LEMMA CoreStep ==
  ASSUME RemovalIInv, EvseAppears \/ EvseGoes \/ \E e \in EvseRows : ConnectorChanges(e)
  PROVE  RemovalIInv'
<1>1. /\ OwnLocationTypeOK /\ removal \in Removals
      /\ UNCHANGED <<hidden, told, removal, refused>>
  BY DEF RemovalIInv, OwnLocationTypeOK, EvseAppears, EvseGoes, ConnectorChanges
<1>2. OwnLocationTypeOK'
  <2>1. edits' \in 0..MaxEdits
    BY <1>1, OwnLocationAssumption DEF EvseAppears, EvseGoes, ConnectorChanges, Edits, OwnLocationTypeOK
  <2>2. CASE EvseAppears \/ EvseGoes
    BY <1>1, <2>1, <2>2 DEF EvseAppears, EvseGoes, OwnLocationTypeOK
  <2>3. ASSUME NEW e \in EvseRows, ConnectorChanges(e) PROVE OwnLocationTypeOK'
    <3>1. report' \in [EvseRows -> Reports]
      BY <1>1, <2>3 DEF ConnectorChanges, OwnLocationTypeOK
    <3>2. pusher' \in Pushers
      BY <1>1, <2>3 DEF ConnectorChanges, OwnLocationTypeOK, Pushers
    <3> QED BY <1>1, <2>1, <2>3, <3>1, <3>2 DEF ConnectorChanges, OwnLocationTypeOK
  <2> QED BY <2>2, <2>3
<1>3. removal.ids \cap there' \subseteq removal.ids \cap there
  BY DEF RemovalIInv, FoundIsBorn, EvseAppears, EvseGoes, ConnectorChanges
<1>4. FoundIsBorn' /\ QuietStays'
  BY <1>1 DEF RemovalIInv, FoundIsBorn, QuietStays, EvseAppears, EvseGoes, ConnectorChanges
<1>5. FoundIsMarked'
  <2>1. there' \subseteq there \/ removal.at \in {"idle", "lookup"} \/ there' \subseteq there \cup late'
    BY DEF EvseAppears, EvseGoes, ConnectorChanges
  <2>2. late \subseteq late' /\ there' \cap marked \subseteq marked'
    BY <1>1 DEF EvseAppears, EvseGoes, ConnectorChanges
  <2> QED BY <1>1, <1>3, <2>1, <2>2 DEF RemovalIInv, FoundIsMarked
<1>6. OnlyLateDiverge'
  <2> SUFFICES ASSUME NEW p \in Peers, NEW e \in there', told[p][e] = "REMOVED"
               PROVE  e \in marked' \cup late'
    BY <1>1 DEF OnlyLateDiverge
  <2>1. e \in there
    BY <1>1, <1>2 DEF RemovalIInv, FoundIsBorn, OwnLocationTypeOK, EvseAppears, EvseGoes, ConnectorChanges
  <2> QED BY <1>1, <2>1 DEF RemovalIInv, OnlyLateDiverge, EvseAppears, EvseGoes, ConnectorChanges
<1> QED BY <1>1, <1>2, <1>3, <1>4, <1>5, <1>6 DEF RemovalIInv, StepsAreDone, TurnsAreTold

LEMMA ReopenStep ==
  ASSUME RemovalIInv, Reopens
  PROVE  RemovalIInv'
<1>1. /\ removal' = NoRemoval /\ hidden' = FALSE
      /\ UNCHANGED <<there, born, late, marked, report, told, pusher, refused>>
      /\ edits' \in 0..MaxEdits
  BY OwnLocationAssumption DEF Reopens, Edits, RemovalIInv, OwnLocationTypeOK
<1>2. OwnLocationTypeOK'
  BY <1>1, NoRemovalType DEF RemovalIInv, OwnLocationTypeOK
<1>3. /\ removal'.at = "idle" /\ removal'.status = "none" /\ removal'.ids = {}
      /\ removal'.pending = {} /\ ~removal'.quiet
  BY <1>1 DEF NoRemoval
<1>4. FoundIsBorn' /\ FoundIsMarked' /\ OnlyLateDiverge'
  BY <1>1, <1>3 DEF RemovalIInv, FoundIsBorn, FoundIsMarked, OnlyLateDiverge
<1>5. QuietStays' /\ StepsAreDone' /\ TurnsAreTold'
  BY <1>3 DEF QuietStays, StepsAreDone, TurnsAreTold
<1> QED BY <1>2, <1>4, <1>5 DEF RemovalIInv

\* No status is pushed while a quiet call stands.
LEMMA PusherStep ==
  ASSUME RemovalIInv, PusherReads \/ \E p \in Peers, arrives \in BOOLEAN : PusherSends(p, arrives)
  PROVE  RemovalIInv'
<1>1. /\ OwnLocationTypeOK /\ pusher \in Pushers
      /\ UNCHANGED <<there, born, late, marked, report, hidden, removal, refused, edits>>
  BY DEF RemovalIInv, OwnLocationTypeOK, PusherReads, PusherSends
<1>2. pusher # NoPusher
  BY DEF PusherReads, PusherSends, NoPusher
<1>3. ~removal.quiet
  BY <1>2 DEF RemovalIInv, QuietStays
<1>4. OwnLocationTypeOK'
  <2>1. CASE PusherReads
    <3>1. pusher.evse \in EvseRows
      BY <1>1, <2>1 DEF PusherReads, Pushers, NoPusher
    <3>2. report[pusher.evse] \in Reports
      BY <1>1, <3>1 DEF OwnLocationTypeOK
    <3>3. pusher' \in Pushers
      BY <2>1, <3>1, <3>2, NoRemovalType DEF PusherReads, Pushers
    <3> QED BY <1>1, <2>1, <3>3 DEF PusherReads, OwnLocationTypeOK
  <2>2. ASSUME NEW p \in Peers, NEW arrives \in BOOLEAN, PusherSends(p, arrives)
        PROVE  OwnLocationTypeOK'
    <3>1. pusher \in [at : {"pushing"}, evse : EvseRows, to : SUBSET Peers, says : Reports]
      BY <1>1, <2>2 DEF PusherSends, Pushers, NoPusher
    <3>2. pusher' \in Pushers
      BY <2>2, <3>1 DEF PusherSends, Pushers
    <3>3. told' \in [Peers -> [EvseRows -> Reports \cup {"nothing", "REMOVED"}]]
      BY <1>1, <2>2, <3>1 DEF PusherSends, OwnLocationTypeOK
    <3> QED BY <1>1, <3>2, <3>3 DEF OwnLocationTypeOK
  <2> QED BY <2>1, <2>2
<1>5. \A p \in Peers, e \in EvseRows : told'[p][e] = "REMOVED" => told[p][e] = "REMOVED"
  <2>1. CASE PusherReads
    BY <2>1 DEF PusherReads
  <2>2. ASSUME NEW p \in Peers, NEW arrives \in BOOLEAN, PusherSends(p, arrives),
               NEW q \in Peers, NEW e \in EvseRows, told'[q][e] = "REMOVED"
        PROVE  told[q][e] = "REMOVED"
    <3>1. pusher.says # "REMOVED"
      BY <1>1, <2>2 DEF PusherSends, Pushers, NoPusher, Reports
    <3> QED BY <1>1, <2>2, <3>1 DEF PusherSends, OwnLocationTypeOK
  <2> QED BY <2>1, <2>2
<1>6. there \subseteq EvseRows
  BY <1>1 DEF OwnLocationTypeOK
<1>7. FoundIsBorn' /\ FoundIsMarked' /\ OnlyLateDiverge'
  BY <1>1, <1>5, <1>6 DEF RemovalIInv, FoundIsBorn, FoundIsMarked, OnlyLateDiverge
<1>8. QuietStays' /\ StepsAreDone' /\ TurnsAreTold'
  BY <1>1, <1>3 DEF RemovalIInv, QuietStays, StepsAreDone, TurnsAreTold
<1> QED BY <1>4, <1>7, <1>8 DEF RemovalIInv
-----------------------------------------------------------------------------
(* deleteLocationOCPI *)

\* The steps before the first PATCH.
LEMMA DisableStep ==
  ASSUME RemovalIInv, BeginRemoval \/ LookUpEvses \/ DisableLocation
  PROVE  RemovalIInv'
<1>1. OwnLocationTypeOK /\ removal \in Removals /\ UNCHANGED <<there, born, late, report, pusher, marked, told>>
  BY DEF RemovalIInv, OwnLocationTypeOK, BeginRemoval, LookUpEvses, DisableLocation, RemovalKeeps
<1>2. CASE BeginRemoval
  <2>1. /\ removal' = [NoRemoval EXCEPT !.at = "lookup", !.peers = Peers] /\ refused' = {}
        /\ edits' \in 0..MaxEdits /\ UNCHANGED hidden
    BY <1>1, <1>2, OwnLocationAssumption DEF BeginRemoval, Edits, OwnLocationTypeOK
  <2>2. /\ removal' \in Removals /\ removal'.at = "lookup" /\ removal'.status = "none"
        /\ removal'.ids = {} /\ removal'.pending = {} /\ ~removal'.quiet /\ removal'.peers = Peers
    BY <2>1, NoRemovalType DEF NoRemoval, Removals, RemovalSteps
  <2>3. OwnLocationTypeOK'
    BY <1>1, <2>1, <2>2 DEF OwnLocationTypeOK
  <2> QED BY <1>1, <2>2, <2>3
          DEF RemovalIInv, FoundIsBorn, QuietStays, StepsAreDone, TurnsAreTold, FoundIsMarked, OnlyLateDiverge
<1>3. CASE LookUpEvses \/ DisableLocation
  <2>1. PICK at \in {"disable", "mark"}, ids \in {there, removal.ids}, quiet \in BOOLEAN :
          /\ removal' = [removal EXCEPT !.at = at, !.ids = ids, !.quiet = quiet]
          /\ quiet => pusher = NoPusher /\ hidden'
    <3>1. CASE LookUpEvses
      <4>1. removal' = [removal EXCEPT !.at = "disable", !.ids = there, !.quiet = removal.quiet]
        BY <1>1, <3>1 DEF LookUpEvses, Removals
      <4> QED BY <1>1, <3>1, <4>1 DEF LookUpEvses, Removals, RemovalIInv, QuietStays
    <3>2. CASE DisableLocation
      <4>1. removal' = [removal EXCEPT !.at = "mark", !.ids = removal.ids, !.quiet = pusher = NoPusher]
        BY <1>1, <3>2 DEF DisableLocation, Removals
      <4> QED BY <3>2, <4>1 DEF DisableLocation
    <3> QED BY <1>3, <3>1, <3>2
  <2>2. there \subseteq born /\ born \subseteq EvseRows /\ removal.ids \subseteq born
    BY <1>1 DEF RemovalIInv, OwnLocationTypeOK, FoundIsBorn
  <2>3. /\ removal' \in Removals /\ removal'.at = at /\ removal'.ids = ids /\ removal'.quiet = quiet
        /\ removal'.pending = removal.pending /\ removal'.status = removal.status
        /\ removal'.peers = removal.peers
    BY <1>1, <2>1, <2>2 DEF Removals, RemovalSteps
  <2>4. removal.at \in {"lookup", "disable"} /\ UNCHANGED <<refused, edits>> /\ hidden' \in BOOLEAN
    BY <1>1, <1>3 DEF LookUpEvses, DisableLocation, RemovalKeeps, OwnLocationTypeOK
  <2>5. OwnLocationTypeOK'
    BY <1>1, <2>3, <2>4 DEF OwnLocationTypeOK
  <2>6. OnlyLateDiverge' /\ FoundIsBorn'
    BY <1>1, <2>1, <2>2, <2>3 DEF RemovalIInv, OnlyLateDiverge, FoundIsBorn
  <2>7. FoundIsMarked'
    <3>1. there \subseteq ids \cup late
      BY <1>1, <1>3, <2>1, <2>3 DEF RemovalIInv, FoundIsMarked, LookUpEvses, DisableLocation, Removals
    <3> QED BY <1>1, <2>3, <3>1 DEF FoundIsMarked
  <2>8. QuietStays' /\ StepsAreDone' /\ TurnsAreTold'
    BY <1>1, <2>1, <2>3, <2>4 DEF RemovalIInv, QuietStays, StepsAreDone, TurnsAreTold
  <2> QED BY <2>5, <2>6, <2>7, <2>8 DEF RemovalIInv
<1> QED BY <1>2, <1>3
\* A call that ends before its last PATCH has nothing more to tell.
LEMMA StopStep ==
  ASSUME RemovalIInv, RemovalRequestFails \/ RemovalDies \/ (MarkEvses /\ ~(removal.ids \subseteq there))
  PROVE  RemovalIInv'
<1>1. /\ OwnLocationTypeOK /\ removal \in Removals
      /\ UNCHANGED <<there, born, late, report, pusher, edits, told, refused>>
  BY DEF RemovalIInv, OwnLocationTypeOK, RemovalRequestFails, RemovalDies, MarkEvses, RemovalKeeps
<1>2. hidden' \in BOOLEAN /\ (hidden => hidden') /\ marked' \subseteq there
  BY <1>1 DEF RemovalRequestFails, RemovalDies, MarkEvses, OwnLocationTypeOK
<1>3. removal' = NoRemoval \/ removal' = Stands("failed")
  BY DEF RemovalRequestFails, RemovalDies, MarkEvses
<1>4. /\ removal' \in Removals /\ removal'.at = "idle" /\ removal'.status # "ok"
      /\ removal'.pending = {} /\ removal'.ids \subseteq removal.ids
      /\ removal'.quiet => removal.quiet
  <2>1. CASE removal' = NoRemoval
    BY <2>1, NoRemovalType DEF NoRemoval
  <2>2. CASE removal' = Stands("failed")
    BY <1>1, <2>2 DEF Stands, Removals, RemovalSteps
  <2> QED BY <1>3, <2>1, <2>2
<1>5. OwnLocationTypeOK'
  BY <1>1, <1>2, <1>4 DEF OwnLocationTypeOK
<1>6. marked \subseteq marked'
  BY <1>1 DEF RemovalRequestFails, RemovalDies, MarkEvses
<1>7. FoundIsBorn' /\ FoundIsMarked' /\ OnlyLateDiverge'
  BY <1>1, <1>4, <1>6 DEF RemovalIInv, FoundIsBorn, FoundIsMarked, OnlyLateDiverge
<1>8. QuietStays' /\ StepsAreDone' /\ TurnsAreTold'
  BY <1>1, <1>2, <1>4 DEF RemovalIInv, QuietStays, StepsAreDone, TurnsAreTold
<1> QED BY <1>5, <1>7, <1>8 DEF RemovalIInv

\* All that was found is marked, or the call has ended.
LEMMA MarkEvsesStep ==
  ASSUME RemovalIInv, MarkEvses, removal.ids \subseteq there
  PROVE  RemovalIInv'
<1>1. /\ OwnLocationTypeOK /\ removal \in Removals /\ removal' = [removal EXCEPT !.at = "evses"]
      /\ UNCHANGED <<there, born, late, report, pusher, edits, hidden, told, refused>>
      /\ marked' = marked \cup (removal.ids \cap there)
  BY DEF RemovalIInv, OwnLocationTypeOK, MarkEvses, RemovalKeeps
<1>2. /\ removal' \in Removals /\ removal'.at = "evses" /\ removal'.ids = removal.ids
      /\ removal'.peers = removal.peers /\ removal'.pending = removal.pending
      /\ removal'.quiet = removal.quiet /\ removal'.status = removal.status
  BY <1>1 DEF Removals, RemovalSteps
<1>3. OwnLocationTypeOK'
  BY <1>1, <1>2 DEF OwnLocationTypeOK
<1>4. removal.peers = Peers /\ removal.status = "none" /\ removal.pending = {}
  BY DEF MarkEvses, RemovalIInv, StepsAreDone
<1>5. TurnsAreTold'
  BY <1>2, <1>4 DEF TurnsAreTold
<1>6. there \subseteq removal.ids \cup late
  BY DEF MarkEvses, RemovalIInv, FoundIsMarked
<1>7. FoundIsBorn' /\ FoundIsMarked' /\ OnlyLateDiverge'
  BY <1>1, <1>2, <1>6 DEF RemovalIInv, FoundIsBorn, FoundIsMarked, OnlyLateDiverge
<1>8. QuietStays' /\ StepsAreDone'
  BY <1>1, <1>2, <1>4 DEF RemovalIInv, QuietStays, StepsAreDone
<1> QED BY <1>3, <1>5, <1>7, <1>8 DEF RemovalIInv

\* A partner's turn comes with all that is there still to be PATCHed, or with all of it failed.
LEMMA TurnStep ==
  ASSUME RemovalIInv, NEW p \in Peers, ReadEvses(p) \/ ReadEvsesFails(p)
  PROVE  RemovalIInv'
<1>1. /\ OwnLocationTypeOK /\ removal \in Removals /\ removal.at = "evses"
      /\ UNCHANGED <<there, born, late, report, pusher, edits, marked, hidden, told, refused>>
  BY DEF RemovalIInv, OwnLocationTypeOK, ReadEvses, ReadEvsesFails, RemovalKeeps
<1>2. removal.pending = {} /\ removal.status # "ok" /\ there \subseteq EvseRows
  BY <1>1 DEF RemovalIInv, StepsAreDone, OwnLocationTypeOK
<1>3. PICK at \in {"patch", "evses"}, pending \in SUBSET Pairs, failed \in SUBSET Pairs :
        /\ removal' = [removal EXCEPT !.at = at, !.peers = @ \ {p}, !.pending = pending, !.failed = failed]
        /\ removal.failed \subseteq failed /\ {p} \X there \subseteq pending \cup failed
        /\ pending # {} => at = "patch"
        /\ \A q \in Peers, e \in EvseRows : <<q, e>> \in pending => e \in there
  <2>1. removal.pending \in SUBSET Pairs /\ removal.failed \in SUBSET Pairs
    BY <1>1 DEF Removals
  <2>2. CASE ReadEvses(p)
    <3>1. removal' = [removal EXCEPT !.at = "patch", !.peers = @ \ {p}, !.pending = {p} \X there,
                                     !.failed = removal.failed]
      BY <1>1, <2>2 DEF ReadEvses, Removals
    <3>2. {p} \X there \in SUBSET Pairs
      BY <1>2 DEF Pairs
    <3> QED BY <2>1, <3>1, <3>2
  <2>3. CASE ReadEvsesFails(p)
    <3>1. removal' = [removal EXCEPT !.at = "evses", !.peers = @ \ {p}, !.pending = removal.pending,
                                     !.failed = removal.failed \cup ({p} \X EvseRows)]
      BY <1>1, <2>3 DEF ReadEvsesFails, Removals
    <3>2. {p} \X EvseRows \in SUBSET Pairs /\ {p} \X there \subseteq {p} \X EvseRows
      BY <1>2 DEF Pairs
    <3>3. removal.failed \cup ({p} \X EvseRows) \in SUBSET Pairs
      BY <2>1, <3>2
    <3> DEFINE all == removal.failed \cup ({p} \X EvseRows)
    <3>4. removal.failed \subseteq all /\ {p} \X there \subseteq removal.pending \cup all
      BY <3>2
    <3>5. all \in SUBSET Pairs /\ removal' = [removal EXCEPT !.at = "evses", !.peers = @ \ {p},
                                              !.pending = removal.pending, !.failed = all]
      BY <3>1, <3>3
    <3> HIDE DEF all
    <3> QED BY <1>2, <2>1, <3>4, <3>5
  <2> QED BY <2>2, <2>3
<1>4. /\ removal' \in Removals /\ removal'.at = at /\ removal'.ids = removal.ids
      /\ removal'.peers = removal.peers \ {p} /\ removal'.pending = pending /\ removal'.failed = failed
      /\ removal'.quiet = removal.quiet /\ removal'.status = removal.status
  BY <1>1, <1>3 DEF Removals, RemovalSteps
<1>5. OwnLocationTypeOK'
  BY <1>1, <1>4 DEF OwnLocationTypeOK
<1>6. TurnsAreTold'
  <2> SUFFICES ASSUME removal.quiet, NEW q \in Peers \ (removal.peers \ {p}),
                      NEW e \in removal.ids \cap there, <<q, e>> \notin pending \cup failed \cup refused
               PROVE  told[q][e] = "REMOVED"
    BY <1>1, <1>4 DEF TurnsAreTold
  <2>1. q # p
    BY <1>3
  <2> QED BY <1>1, <1>2, <1>3, <2>1 DEF RemovalIInv, TurnsAreTold
<1>7. FoundIsBorn' /\ FoundIsMarked' /\ OnlyLateDiverge'
  <2>1. there \subseteq born
    BY <1>1 DEF OwnLocationTypeOK
  <2> QED BY <1>1, <1>3, <1>4, <2>1 DEF RemovalIInv, FoundIsBorn, FoundIsMarked, OnlyLateDiverge
<1>8. QuietStays' /\ StepsAreDone'
  BY <1>1, <1>2, <1>3, <1>4 DEF RemovalIInv, QuietStays, StepsAreDone
<1> QED BY <1>5, <1>6, <1>7, <1>8 DEF RemovalIInv

LEMMA PatchStep ==
  ASSUME RemovalIInv, NEW p \in Peers, NEW e \in EvseRows,
         NEW answer \in {"taken", "refused", "lost", "failed"}, Patch(p, e, answer)
  PROVE  RemovalIInv'
<1>1. /\ OwnLocationTypeOK /\ removal \in Removals /\ removal.at = "patch"
      /\ UNCHANGED <<there, born, late, report, pusher, edits, marked, hidden>>
      /\ told \in [Peers -> [EvseRows -> Reports \cup {"nothing", "REMOVED"}]]
  BY DEF RemovalIInv, OwnLocationTypeOK, Patch, RemovalKeeps
<1>2. PICK failed \in SUBSET Pairs :
        /\ removal' = [removal EXCEPT !.pending = @ \ {<<p, e>>}, !.failed = failed]
        /\ removal.failed \subseteq failed
        /\ answer \in {"lost", "failed"} => <<p, e>> \in failed
  <2> DEFINE failed == IF answer \in {"lost", "failed"} THEN removal.failed \cup {<<p, e>>}
                                                      ELSE removal.failed
  <2>1. removal' = [removal EXCEPT !.pending = @ \ {<<p, e>>}, !.failed = failed]
    BY <1>1 DEF Patch, Removals
  <2>2. failed \in SUBSET Pairs
    BY <1>1 DEF Removals, Pairs
  <2> QED BY <2>1, <2>2
<1>3. /\ removal' \in Removals /\ removal'.at = removal.at /\ removal'.ids = removal.ids
      /\ removal'.peers = removal.peers /\ removal'.pending = removal.pending \ {<<p, e>>}
      /\ removal'.failed = failed
      /\ removal'.quiet = removal.quiet /\ removal'.status = removal.status
  BY <1>1, <1>2 DEF Removals
<1>4. /\ refused' \subseteq Pairs /\ refused \subseteq refused'
      /\ answer = "refused" => <<p, e>> \in refused'
  BY <1>1 DEF Patch, Pairs, OwnLocationTypeOK
<1>5. /\ told' \in [Peers -> [EvseRows -> Reports \cup {"nothing", "REMOVED"}]]
      /\ answer \in {"taken", "lost"} => told'[p][e] = "REMOVED"
      /\ \A q \in Peers, d \in EvseRows : told[q][d] = "REMOVED" => told'[q][d] = "REMOVED"
  BY <1>1 DEF Patch
<1>6. OwnLocationTypeOK'
  BY <1>1, <1>3, <1>4, <1>5 DEF OwnLocationTypeOK
<1>7. TurnsAreTold'
  <2> SUFFICES ASSUME removal.quiet, NEW q \in Peers \ removal.peers, NEW d \in removal.ids \cap there,
                      <<q, d>> \notin (removal.pending \ {<<p, e>>}) \cup failed \cup refused'
               PROVE  told'[q][d] = "REMOVED"
    BY <1>1, <1>3 DEF TurnsAreTold
  <2>1. CASE <<q, d>> = <<p, e>>
    BY <1>2, <1>4, <1>5, <2>1
  <2>2. CASE <<q, d>> # <<p, e>>
    <3>1. told[q][d] = "REMOVED"
      BY <1>1, <1>2, <1>4, <2>2 DEF RemovalIInv, TurnsAreTold
    <3>2. d \in EvseRows
      BY <1>1 DEF OwnLocationTypeOK
    <3> QED BY <1>5, <3>1, <3>2
  <2> QED BY <2>1, <2>2
<1>8. <<p, e>> \in removal.pending /\ e \in born
  BY <1>1 DEF Patch, RemovalIInv, FoundIsBorn
<1>9. \A q \in Peers, d \in EvseRows : told'[q][d] = "REMOVED" => told[q][d] = "REMOVED" \/ d = e
  BY <1>1 DEF Patch
<1>10. there \subseteq EvseRows /\ (e \in there => e \in marked \cup late)
  BY <1>1 DEF RemovalIInv, OwnLocationTypeOK, FoundIsMarked
<1>11. FoundIsBorn' /\ FoundIsMarked' /\ OnlyLateDiverge'
  BY <1>1, <1>3, <1>8, <1>9, <1>10 DEF RemovalIInv, FoundIsBorn, FoundIsMarked, OnlyLateDiverge
<1>12. QuietStays' /\ StepsAreDone'
  BY <1>1, <1>3 DEF RemovalIInv, QuietStays, StepsAreDone
<1> QED BY <1>6, <1>7, <1>11, <1>12 DEF RemovalIInv

LEMMA SettledStep ==
  ASSUME RemovalIInv, PartnerSettled \/ RemovalEnds
  PROVE  RemovalIInv'
<1>1. /\ OwnLocationTypeOK /\ removal \in Removals
      /\ UNCHANGED <<there, born, late, report, pusher, edits, marked, hidden, told, refused>>
  BY DEF RemovalIInv, OwnLocationTypeOK, PartnerSettled, RemovalEnds, RemovalKeeps
<1>2. CASE PartnerSettled
  <2>1. /\ removal' \in Removals /\ removal'.at = "evses" /\ removal'.ids = removal.ids
        /\ removal'.peers = removal.peers /\ removal'.pending = {} /\ removal.pending = {}
        /\ removal'.failed = removal.failed /\ removal.at = "patch"
        /\ removal'.quiet = removal.quiet /\ removal'.status = removal.status
    BY <1>1, <1>2 DEF PartnerSettled, Removals, RemovalSteps
  <2>2. OwnLocationTypeOK'
    BY <1>1, <2>1 DEF OwnLocationTypeOK
  <2> QED BY <1>1, <2>1, <2>2
          DEF RemovalIInv, FoundIsBorn, QuietStays, StepsAreDone, TurnsAreTold, FoundIsMarked, OnlyLateDiverge
<1>3. CASE RemovalEnds
  <2>1. /\ removal' \in Removals /\ removal'.at = "idle" /\ removal'.ids = removal.ids
        /\ removal'.peers = {} /\ removal.peers = {} /\ removal'.pending = {} /\ removal.at = "evses"
        /\ removal'.failed = removal.failed /\ removal'.status = "ok"
        /\ removal'.quiet = removal.quiet
    BY <1>1, <1>3 DEF RemovalEnds, Stands, Removals, RemovalSteps
  <2>2. OwnLocationTypeOK'
    BY <1>1, <2>1 DEF OwnLocationTypeOK
  <2> QED BY <1>1, <2>1, <2>2
          DEF RemovalIInv, FoundIsBorn, QuietStays, StepsAreDone, TurnsAreTold, FoundIsMarked, OnlyLateDiverge
<1> QED BY <1>2, <1>3

LEMMA LocationNextInv == RemovalIInv /\ [OwnLocationNext]_ownLocationVars => RemovalIInv'
<1> SUFFICES ASSUME RemovalIInv, [OwnLocationNext]_ownLocationVars PROVE RemovalIInv'
  OBVIOUS
<1>1. CASE Remove
  BY <1>1, DisableStep, StopStep, MarkEvsesStep, TurnStep, PatchStep, SettledStep DEF Remove
<1>2. CASE UNCHANGED ownLocationVars
  BY <1>2 DEF ownLocationVars, RemovalIInv, OwnLocationTypeOK, FoundIsBorn, QuietStays,
       StepsAreDone, TurnsAreTold, FoundIsMarked, OnlyLateDiverge
<1> QED BY <1>1, <1>2, CoreStep, ReopenStep, PusherStep DEF OwnLocationNext

LEMMA RemovalTells == RemovalIInv => RemovalTellsAll
BY DEF RemovalIInv, RemovalTellsAll, TurnsAreTold, StepsAreDone, RemovalIsTold

\* A removal that is reported as told was told, for any EVSEs and partners and whatever is
\* changed and pushed meanwhile; and of an EVSE that partners were told is REMOVED the two sides
\* agree, except of one that appeared after the lookup of a removal under way.
THEOREM LocationRemovalTellsAll == OwnLocationSpec => []RemovalTellsAll
BY LocationInitInv, LocationNextInv, RemovalTells, PTL DEF OwnLocationSpec
-----------------------------------------------------------------------------
(* The messages and the CDR of one transaction *)

LEMMA Chosen ==
  ASSUME NEW S, NEW T \in Optional(S), T # {}
  PROVE  (CHOOSE x \in T : TRUE) \in S /\ T = {CHOOSE x \in T : TRUE}
BY DEF Optional

LEMMA OptionalNone == \A S : {} \in Optional(S) /\ \A x \in S : {x} \in Optional(S)
BY DEF Optional

LEMMA CostType == \A k \in Kwh, p \in Price : k * p \in Cost
<1> SUFFICES ASSUME NEW k \in Nat, NEW p \in Nat, k <= MaxKwh, p <= MaxPrice
             PROVE  k * p \in Nat /\ k * p <= MaxKwh * MaxPrice /\ MaxKwh * MaxPrice \in Nat
  BY MessagesAssumption DEF Kwh, Price, Cost
<1>1. k * p \in Nat /\ k * MaxPrice \in Nat /\ MaxKwh * MaxPrice \in Nat
  BY MessagesAssumption
<1>2. k * p <= k * MaxPrice
  BY MessagesAssumption
<1>3. k * MaxPrice <= MaxKwh * MaxPrice
  BY MessagesAssumption
<1> QED BY <1>1, <1>2, <1>3

LEMMA CostOfType ==
  ASSUME NEW w \in WorkRecords, w.tariff # {}
  PROVE  CostOf(w) \in Cost
<1>1. w.tx.kwh \in Kwh /\ (CHOOSE p \in w.tariff : TRUE) \in Price
  BY Chosen DEF WorkRecords, TxRow
<1> QED BY <1>1, CostType DEF CostOf

LEMMA IdleType == Idle \in WorkRecords /\ NoNotice \in NoticeRecords
<1>1. Idle.tx \in TxRow
  BY MessagesAssumption DEF Idle, TxRow, Kwh
<1> QED BY <1>1, OptionalNone DEF Idle, WorkRecords, Steps, NoNotice, NoticeRecords

LEMMA MessagesInitInv == MessagesInit => MessagesIInv
<1> SUFFICES ASSUME MessagesInit PROVE MessagesIInv
  OBVIOUS
<1>1. MessagesTypeOK
  <2>1. txRow \in TxRow
    BY IdleType DEF MessagesInit, WorkRecords
  <2>2. price \in Optional(Price) /\ cdrRow \in Optional(Cdr) /\ endKwh \in Optional(Kwh)
    BY OptionalNone DEF MessagesInit
  <2>3. notice \in [Updates -> NoticeRecords] /\ work \in [Updates -> WorkRecords]
    BY IdleType DEF MessagesInit
  <2> QED BY <2>1, <2>2, <2>3 DEF MessagesInit, MessagesTypeOK
<1>2. \A u \in Updates : /\ work[u].at = "unborn" /\ work[u].tariff = {} /\ work[u].said = {}
                         /\ work[u].cdr = {} /\ ~work[u].edited /\ ~notice[u].over
  BY DEF MessagesInit, Idle, NoNotice
<1>3. RestingHoldNothing /\ OneEnd
  BY <1>2 DEF MessagesInit, RestingHoldNothing, OneEnd, CdrSteps
<1>4. ObjectsAreSaid /\ TariffIsCurrent /\ CdrsAgree
  BY <1>2 DEF MessagesInit, ObjectsAreSaid, SaidFromObject, TariffIsCurrent, Between, CdrsAgree, CdrSteps
<1>5. EnergyIsKept /\ SaysWhatIsDue /\ ErrorIsOfEdited
  BY <1>2 DEF MessagesInit, EnergyIsKept, SaysWhatIsDue, ErrorIsOfEdited, Resting
<1> QED BY <1>1, <1>3, <1>4, <1>5 DEF MessagesIInv

\* The invariant, as far as it speaks of one handler.
Fits(u, w) ==
    /\ w.at \in Resting => w.tariff = {} /\ w.said = {} /\ w.cdr = {} /\ ~w.edited
    /\ w.at = "unborn" => ~notice[u].over
    /\ w.at \in {"mapping", "listing"} \cup CdrSteps => notice[u].over
    /\ SaidFromObject(w)
    /\ w.tariff # {} /\ w.at \in {"looking", "telling", "mapping", "listing"} /\ ~w.edited =>
          w.tariff = price
    /\ \A c \in w.cdr : AgreesWithTariff(c)
    /\ notice[u].over /\ w.at \notin Resting => \A k \in endKwh : w.tx.kwh >= k
    /\ writtenOn \/ (notice[u].over =>
          /\ w.at \notin Resting => w.tx.kwh = DueKwh(u) /\ w.tariff \in {{}, price}
          /\ \A c \in w.cdr : Says(c) = Due(u))

LEMMA WorkFits == MessagesIInv => \A u \in Updates : work[u] \in WorkRecords /\ Fits(u, work[u])
<1> SUFFICES ASSUME MessagesIInv, NEW u \in Updates PROVE work[u] \in WorkRecords /\ Fits(u, work[u])
  OBVIOUS
<1>1. work[u] \in WorkRecords
  BY DEF MessagesIInv, MessagesTypeOK
<1>2. /\ SaidFromObject(work[u]) /\ \A c \in work[u].cdr : AgreesWithTariff(c)
      /\ work[u].at \in {"mapping", "listing"} \cup CdrSteps => notice[u].over
      /\ work[u].at = "unborn" => ~notice[u].over
  BY DEF MessagesIInv, ObjectsAreSaid, CdrsAgree, OneEnd
<1>3. /\ work[u].at \in Resting => /\ work[u].tariff = {} /\ work[u].said = {} /\ work[u].cdr = {}
                                   /\ ~work[u].edited
      /\ Between(u) /\ ~work[u].edited => work[u].tariff = price
  BY DEF MessagesIInv, RestingHoldNothing, TariffIsCurrent
<1>4. /\ notice[u].over /\ work[u].at \notin Resting => \A k \in endKwh : work[u].tx.kwh >= k
      /\ writtenOn \/ (notice[u].over =>
            /\ work[u].at \notin Resting => work[u].tx.kwh = DueKwh(u) /\ work[u].tariff \in {{}, price}
            /\ \A c \in work[u].cdr : Says(c) = Due(u))
  BY DEF MessagesIInv, EnergyIsKept, SaysWhatIsDue
<1> QED BY <1>1, <1>2, <1>3, <1>4 DEF Fits, Between
\* A handler steps, and stores or posts what it has mapped, or not.
LEMMA WorkStep ==
  ASSUME MessagesIInv, NEW u \in Updates, NEW w \in WorkRecords, WorksOn(u, w), Fits(u, w),
         w.at \in {"posting", "marking"} \/ cdrPosts' # {} => cdrRow' # {},
         cdrRow' = cdrRow \/ (cdrRow = {} /\ cdrRow' = work[u].cdr),
         cdrPosts' \subseteq cdrPosts \cup work[u].cdr, cdrTaken' \in BOOLEAN, UNCHANGED served
  PROVE  MessagesIInv'
<1>1. /\ UNCHANGED <<ofHub, txRow, price, place, notice, endKwh, writtenOn>>
      /\ work' = [work EXCEPT ![u] = w] /\ work \in [Updates -> WorkRecords]
  BY DEF WorksOn, inputVars, MessagesIInv, MessagesTypeOK
<1>2. \A v \in Updates : /\ work'[v] = IF v = u THEN w ELSE work[v]
                         /\ work'[v] \in WorkRecords /\ Fits(v, work'[v])
  BY <1>1, WorkFits
<1>3. /\ work[u].cdr \in Optional(Cdr) /\ \A c \in work[u].cdr : AgreesWithTariff(c)
      /\ work[u].cdr # {} => work[u].at \in CdrSteps /\ notice[u].over
  BY WorkFits DEF Fits, SaidFromObject, WorkRecords
<1>4. MessagesTypeOK'
  <2>1. cdrRow' \in Optional(Cdr) /\ cdrPosts' \subseteq Cdr
    BY <1>3 DEF MessagesIInv, MessagesTypeOK, Optional
  <2> QED BY <1>1, <2>1 DEF MessagesIInv, MessagesTypeOK
<1>5. RestingHoldNothing'
  BY <1>2 DEF Fits, RestingHoldNothing
<1>6. OneEnd'
  <2>1. \A v \in Updates : work[v].at \in {"posting", "marking"} => cdrRow' # {}
    BY DEF MessagesIInv, OneEnd
  <2>2. \A v \in Updates : work'[v].at \in {"posting", "marking"} => cdrRow' # {}
    BY <1>2, <2>1
  <2>3. cdrRow' # {} => \E v \in Updates : notice[v].over
    BY <1>3 DEF MessagesIInv, OneEnd
  <2> QED BY <1>1, <1>2, <2>2, <2>3 DEF MessagesIInv, OneEnd, Fits
<1>7. ObjectsAreSaid' /\ TariffIsCurrent'
  BY <1>1, <1>2 DEF Fits, ObjectsAreSaid, TariffIsCurrent, Between
<1>8. CdrsAgree'
  BY <1>2, <1>3 DEF MessagesIInv, CdrsAgree, Fits
<1>9. EnergyIsKept'
  <2> SUFFICES ASSUME NEW k \in endKwh
               PROVE  /\ \A v \in Updates : notice[v].over /\ work'[v].at \notin Resting => work'[v].tx.kwh >= k
                      /\ \A c \in work[u].cdr : c.kwh >= k
    BY <1>1 DEF MessagesIInv, EnergyIsKept
  <2>1. \A c \in work[u].cdr : c.kwh = work[u].tx.kwh /\ work[u].at \notin Resting
    BY <1>3, WorkFits DEF Fits, SaidFromObject, CdrSteps, Resting
  <2>2. \A c \in work[u].cdr : c.kwh >= k
    BY <1>3, <2>1, WorkFits DEF Fits
  <2> QED BY <1>2, <2>2 DEF Fits
<1>10. SaysWhatIsDue'
  <2>1. \A v \in Updates : DueKwh(v)' = DueKwh(v) /\ Due(v)' = Due(v)
    BY <1>1 DEF DueKwh, Due, RowWithPayload
  <2> SUFFICES ASSUME ~writtenOn, NEW v \in Updates, notice[v].over
               PROVE  /\ work'[v].at \notin Resting =>
                            work'[v].tx.kwh = DueKwh(v) /\ work'[v].tariff \in {{}, price}
                      /\ \A c \in cdrPosts' \cup cdrRow' \cup work'[v].cdr : Says(c) = Due(v)
    BY <1>1, <2>1 DEF SaysWhatIsDue
  <2>2. \A c \in cdrPosts \cup cdrRow : Says(c) = Due(v)
    BY DEF MessagesIInv, SaysWhatIsDue
  <2>3. work[u].cdr # {} => u = v
    BY <1>3 DEF MessagesIInv, OneEnd
  <2>4. \A c \in work[u].cdr : Says(c) = Due(v)
    BY <2>3, WorkFits DEF Fits
  <2> QED BY <1>2, <2>2, <2>4 DEF Fits
<1>11. ErrorIsOfEdited'
  BY DEF MessagesIInv, ErrorIsOfEdited
<1> QED BY <1>4, <1>5, <1>6, <1>7, <1>8, <1>9, <1>10, <1>11 DEF MessagesIInv

\* As it is when nothing is stored or posted.
LEMMA QuietWorkStep ==
  ASSUME MessagesIInv, NEW u \in Updates, NEW w \in WorkRecords, WorksOn(u, w), Fits(u, w),
         w.at \in {"posting", "marking"} => cdrRow # {}, UNCHANGED cdrVars
  PROVE  MessagesIInv'
<1>1. /\ UNCHANGED <<cdrRow, cdrPosts, cdrTaken, served>> /\ cdrTaken \in BOOLEAN
      /\ cdrPosts # {} => cdrRow # {}
  BY DEF cdrVars, MessagesIInv, OneEnd, MessagesTypeOK
<1> QED BY <1>1, WorkStep

\* A handler that ends, or goes on with what it has.
LEMMA AfterFits ==
  ASSUME MessagesIInv, NEW u \in Updates, NEW step \in Steps,
         \/ step \in {"done", "threw"}
         \/ work[u].at = "telling" /\ step = "mapping" /\ notice[u].over
         \/ work[u].at = "mapping" /\ step = "listing" /\ work[u].tariff # {}
         \/ work[u].at \in CdrSteps /\ step \in CdrSteps
  PROVE  /\ After(u, step) \in WorkRecords /\ After(u, step).at = step
         /\ Fits(u, After(u, step))
<1>1. CASE step \in {"done", "threw"}
  <2>1. After(u, step) = [Idle EXCEPT !.at = step]
    BY <1>1 DEF After
  <2>2. After(u, step) \in WorkRecords
    BY <2>1, IdleType DEF WorkRecords
  <2>3. /\ After(u, step).at = step /\ After(u, step).tariff = {} /\ After(u, step).said = {}
        /\ After(u, step).cdr = {} /\ ~After(u, step).edited
    BY <2>1 DEF Idle
  <2> QED BY <1>1, <2>2, <2>3 DEF Fits, SaidFromObject, CdrSteps, Resting
<1>2. CASE step \notin {"done", "threw"}
  <2>1. After(u, step) = [work[u] EXCEPT !.at = step]
    BY <1>2 DEF After
  <2>2. work[u] \in WorkRecords /\ Fits(u, work[u])
    BY WorkFits
  <2>3. After(u, step) \in WorkRecords
    BY <2>1, <2>2 DEF WorkRecords
  <2> DEFINE w == work[u]
             m == After(u, step)
  <2>4. /\ m.at = step /\ m.tx = w.tx /\ m.tariff = w.tariff /\ m.said = w.said
        /\ m.cdr = w.cdr /\ m.edited = w.edited
    BY <2>1, <2>2 DEF WorkRecords
  <2>5. CostOf(m) = CostOf(w)
    BY <2>4 DEF CostOf
  <2>6. SaidFromObject(m)
    BY <1>2, <2>2, <2>4, <2>5 DEF Fits, SaidFromObject, CdrSteps
  <2> HIDE DEF m
  <2>7. w.at \notin Resting /\ m.at \notin Resting /\ notice[u].over
    BY <1>2, <2>2, <2>4 DEF Fits, CdrSteps, Resting
  <2>8. m.at \in {"looking", "telling", "mapping", "listing"} =>
           w.at \in {"looking", "telling", "mapping", "listing"}
    BY <1>2, <2>4 DEF CdrSteps
  <2>9. m.at # "unborn" /\ \A c \in m.cdr : AgreesWithTariff(c)
    BY <2>2, <2>4, <2>7 DEF Fits, Resting
  <2>10. /\ \A k \in endKwh : m.tx.kwh >= k
         /\ writtenOn \/ /\ m.tx.kwh = DueKwh(u) /\ m.tariff \in {{}, price}
                         /\ \A c \in m.cdr : Says(c) = Due(u)
    BY <2>2, <2>4, <2>7 DEF Fits
  <2>11. m.tariff # {} /\ m.at \in {"looking", "telling", "mapping", "listing"} /\ ~m.edited =>
            m.tariff = price
    BY <2>2, <2>4, <2>8 DEF Fits
  <2> HIDE DEF w
  <2>12. Fits(u, m)
    BY <2>6, <2>7, <2>9, <2>10, <2>11 DEF Fits
  <2> QED BY <2>3, <2>4, <2>12 DEF m
<1> QED BY <1>1, <1>2
\* A handler that ends or goes on, as a step of the module.
LEMMA StepsToStep ==
  ASSUME MessagesIInv, NEW u \in Updates, NEW step \in Steps, StepsTo(u, step),
         \/ step \in {"done", "threw"}
         \/ work[u].at = "telling" /\ step = "mapping" /\ notice[u].over
         \/ work[u].at = "mapping" /\ step = "listing" /\ work[u].tariff # {}
         \/ work[u].at \in CdrSteps /\ step \in CdrSteps,
         step \in {"posting", "marking"} => cdrRow # {}
  PROVE  MessagesIInv'
BY AfterFits, QuietWorkStep DEF StepsTo

LEMMA ReadTxRowStep ==
  ASSUME MessagesIInv, NEW u \in Updates, ReadTxRow(u)
  PROVE  MessagesIInv'
<1>1. CASE StepsTo(u, "done")
  BY <1>1, StepsToStep DEF Steps
<1>2. CASE /\ WorksOn(u, [Idle EXCEPT !.at = "looking", !.tx = RowWithPayload(notice[u])])
           /\ UNCHANGED cdrVars
  <2> DEFINE w == [Idle EXCEPT !.at = "looking", !.tx = RowWithPayload(notice[u])]
             n == notice[u]
  <2>1. n \in NoticeRecords /\ txRow \in TxRow /\ n.kwh \in Optional(Kwh)
    BY DEF MessagesIInv, MessagesTypeOK, NoticeRecords
  <2>2. RowWithPayload(n) = [txRow EXCEPT !.kwh = RowWithPayload(n).kwh]
    BY <2>1 DEF RowWithPayload, TxRow
  <2>3. RowWithPayload(n).kwh = IF n.kwh = {} THEN txRow.kwh ELSE CHOOSE k \in n.kwh : TRUE
    BY <2>1 DEF RowWithPayload, TxRow
  <2>4. RowWithPayload(n).kwh \in Kwh /\ (n.kwh # {} => RowWithPayload(n).kwh \in n.kwh)
    BY <2>1, <2>3, Chosen DEF TxRow
  <2>5. RowWithPayload(n) \in TxRow
    BY <2>1, <2>2, <2>4 DEF TxRow
  <2>6. w \in WorkRecords
    BY <2>5, IdleType DEF WorkRecords, Steps
  <2>7. /\ w.at = "looking" /\ w.tx = RowWithPayload(n) /\ w.tariff = {} /\ w.said = {}
        /\ w.cdr = {} /\ ~w.edited
    BY DEF Idle
  <2>8. n.over => \A k \in endKwh : w.tx.kwh >= k
    <3> SUFFICES ASSUME n.over, NEW k \in endKwh PROVE RowWithPayload(n).kwh >= k
      BY <2>7
    <3>1. txRow.kwh >= k /\ n.kwh \subseteq {k} /\ k \in Nat
      BY MessagesAssumption DEF MessagesIInv, EnergyIsKept, MessagesTypeOK, Optional, Kwh
    <3>2. n.kwh # {} => RowWithPayload(n).kwh = k
      BY <2>4, <3>1
    <3>3. n.kwh = {} => RowWithPayload(n).kwh = txRow.kwh
      BY <2>3
    <3> QED BY <3>1, <3>2, <3>3
  <2>9. Fits(u, w)
    BY <2>7, <2>8 DEF Fits, SaidFromObject, Resting, CdrSteps, DueKwh
  <2> HIDE DEF w
  <2> QED BY <1>2, <2>6, <2>7, <2>9, QuietWorkStep DEF w
<1> QED BY <1>1, <1>2 DEF ReadTxRow

LEMMA LookUpStep ==
  ASSUME MessagesIInv, NEW u \in Updates, LookUpTariff(u) \/ LookUpLocation(u)
  PROVE  MessagesIInv'
<1>1. PICK tariff \in Optional(Price), location \in BOOLEAN :
        /\ WorksOn(u, [work[u] EXCEPT !.tariff = tariff, !.location = location])
        /\ tariff = work[u].tariff \/ (work[u].tariff = {} /\ tariff = price)
  <2>1. work[u] \in WorkRecords /\ price \in Optional(Price) /\ place \in BOOLEAN
    BY WorkFits DEF MessagesIInv, MessagesTypeOK
  <2>2. work[u].tariff \in Optional(Price) /\ work[u].location \in BOOLEAN
    BY <2>1 DEF WorkRecords
  <2>3. CASE LookUpTariff(u)
    <3>1. [work[u] EXCEPT !.tariff = price]
            = [work[u] EXCEPT !.tariff = price, !.location = work[u].location]
      BY <2>1 DEF WorkRecords
    <3> QED BY <2>1, <2>2, <2>3, <3>1 DEF LookUpTariff, TariffByKey
  <2>4. CASE LookUpLocation(u)
    <3>1. [work[u] EXCEPT !.location = place]
            = [work[u] EXCEPT !.tariff = work[u].tariff, !.location = place]
      BY <2>1 DEF WorkRecords
    <3> QED BY <2>1, <2>2, <2>4, <3>1 DEF LookUpLocation, OurLocation
  <2> QED BY <2>3, <2>4
<1> DEFINE w == work[u]
           m == [w EXCEPT !.tariff = tariff, !.location = location]
<1>2. w.at \in {"looking", "mapping"} /\ UNCHANGED cdrVars
  BY DEF LookUpTariff, LookUpLocation
<1>3. w \in WorkRecords /\ Fits(u, w)
  BY WorkFits
<1>4. m \in WorkRecords
  BY <1>3 DEF WorkRecords
<1>5. /\ m.at = w.at /\ m.tx = w.tx /\ m.said = w.said /\ m.cdr = w.cdr /\ m.edited = w.edited
      /\ m.tariff = tariff
  BY <1>3 DEF WorkRecords
<1> HIDE DEF m
<1>6. w.cdr = {} /\ (w.said # {} => w.tariff # {})
  BY <1>2, <1>3 DEF Fits, SaidFromObject, CdrSteps
<1>7. w.tariff # {} => CostOf(m) = CostOf(w)
  BY <1>1, <1>5 DEF CostOf
<1>8. SaidFromObject(m)
  BY <1>1, <1>2, <1>3, <1>5, <1>6, <1>7 DEF Fits, SaidFromObject, CdrSteps
<1>9. w.at \notin Resting
  BY <1>2 DEF Resting
<1>10. Fits(u, m)
  BY <1>1, <1>2, <1>3, <1>5, <1>6, <1>8, <1>9 DEF Fits, CdrSteps
<1> QED BY <1>1, <1>2, <1>4, <1>5, <1>10, QuietWorkStep DEF m
LEMMA MapSessionStep ==
  ASSUME MessagesIInv, NEW u \in Updates, MapSessionMessage(u)
  PROVE  MessagesIInv'
<1>1. CASE StepsTo(u, "threw")
  BY <1>1, StepsToStep DEF Steps
<1> DEFINE w == work[u]
<1>2. w \in WorkRecords /\ Fits(u, w) /\ w.at = "looking"
  BY WorkFits DEF MapSessionMessage, At
<1>3. ASSUME NEW s \in {SessionPut(w), SessionPatch(w)}, w.tariff # {},
             WorksOn(u, [w EXCEPT !.at = "telling", !.said = {s}]), UNCHANGED cdrVars
      PROVE  MessagesIInv'
  <2> DEFINE m == [w EXCEPT !.at = "telling", !.said = {s}]
  <2>1. CostOf(w) \in Cost /\ w.tx.kwh \in Kwh
    BY <1>2, <1>3, CostOfType DEF WorkRecords, TxRow
  <2>2. {CostOf(w)} \in Optional(Cost) /\ {} \in Optional(Cost)
    BY <2>1, OptionalNone
  <2>3. s \in Session /\ s.kwh = w.tx.kwh /\ s.cost \subseteq {CostOf(w)}
    BY <1>3, <2>1, <2>2 DEF SessionPut, SessionPatch, Session
  <2>4. {s} \in Optional(Session)
    BY <2>3, OptionalNone
  <2>5. m \in WorkRecords
    BY <1>2, <2>4 DEF WorkRecords, Steps
  <2>6. /\ m.at = "telling" /\ m.tx = w.tx /\ m.tariff = w.tariff /\ m.said = {s}
        /\ m.cdr = w.cdr /\ m.edited = w.edited
    BY <1>2 DEF WorkRecords
  <2> HIDE DEF m
  <2>7. CostOf(m) = CostOf(w) /\ w.cdr = {}
    BY <1>2, <2>6 DEF CostOf, Fits, SaidFromObject, CdrSteps
  <2>8. SaidFromObject(m)
    BY <1>3, <2>3, <2>6, <2>7 DEF SaidFromObject, CdrSteps
  <2>9. Fits(u, m)
    BY <1>2, <2>6, <2>7, <2>8 DEF Fits, Resting, CdrSteps
  <2> QED BY <1>3, <2>5, <2>6, <2>9, QuietWorkStep DEF m
<1> QED BY <1>1, <1>3 DEF MapSessionMessage, Complete

LEMMA TellStep ==
  ASSUME MessagesIInv, NEW u \in Updates, TellSession(u) \/ MapCdrSession(u) \/ Fails(u)
  PROVE  MessagesIInv'
<1>1. CASE TellSession(u)
  <2>1. CASE notice[u].over
    BY <1>1, <2>1, StepsToStep DEF TellSession, At, Steps
  <2>2. CASE ~notice[u].over
    BY <1>1, <2>2, StepsToStep DEF TellSession, At, Steps
  <2> QED BY <2>1, <2>2
<1>2. CASE MapCdrSession(u)
  BY <1>2, StepsToStep DEF MapCdrSession, Complete, At, Steps
<1>3. CASE Fails(u)
  BY <1>3, StepsToStep DEF Fails, Steps
<1> QED BY <1>1, <1>2, <1>3

LEMMA ListStep ==
  ASSUME MessagesIInv, NEW u \in Updates, ListTariff(u)
  PROVE  MessagesIInv'
<1> DEFINE w == work[u]
           c == CdrOf(w, price)
           m == [w EXCEPT !.at = "finding", !.cdr = {c}]
<1>1. /\ w \in WorkRecords /\ Fits(u, w) /\ w.at = "listing" /\ price \in Optional(Price)
      /\ WorksOn(u, m) /\ UNCHANGED cdrVars
  BY WorkFits DEF ListTariff, At, TariffByKey, MessagesIInv, MessagesTypeOK
<1>2. w.tariff # {} /\ notice[u].over /\ w.at \notin Resting
  BY <1>1 DEF Fits, SaidFromObject, Resting
<1>3. CostOf(w) \in Cost /\ w.tx.kwh \in Kwh /\ w.edited \in BOOLEAN
  BY <1>1, <1>2, CostOfType DEF WorkRecords, TxRow
<1>4. c \in Cdr /\ c.kwh = w.tx.kwh /\ c.cost = CostOf(w) /\ c.listed = price /\ c.edited = w.edited
  BY <1>1, <1>3 DEF CdrOf, Cdr
<1> HIDE DEF c
<1>5. {c} \in Optional(Cdr)
  BY <1>4, OptionalNone
<1>6. m \in WorkRecords
  BY <1>1, <1>5 DEF WorkRecords, Steps
<1>7. /\ m.at = "finding" /\ m.tx = w.tx /\ m.tariff = w.tariff /\ m.said = w.said
      /\ m.cdr = {c} /\ m.edited = w.edited
  BY <1>1 DEF WorkRecords
<1> HIDE DEF m
<1>8. CostOf(m) = CostOf(w)
  BY <1>7 DEF CostOf
<1>9. SaidFromObject(m)
  BY <1>1, <1>2, <1>4, <1>7, <1>8 DEF Fits, SaidFromObject, CdrSteps
<1>10. w.tariff = price => \A p \in price : p = CHOOSE q \in price : TRUE
  BY <1>1 DEF Optional
<1>11. AgreesWithTariff(c)
  <2> SUFFICES ASSUME ~c.edited PROVE c.listed # {} /\ \A p \in c.listed : c.cost = c.kwh * p
    BY DEF AgreesWithTariff
  <2>1. w.tariff = price
    BY <1>1, <1>2, <1>4 DEF Fits
  <2>2. c.cost = c.kwh * CHOOSE q \in price : TRUE
    BY <1>4, <2>1 DEF CostOf
  <2> QED BY <1>2, <1>4, <1>10, <2>1, <2>2
<1>12. writtenOn \/ Says(c) = Due(u)
  BY <1>1, <1>2, <1>4 DEF Fits, Says, Due, CostOf
<1>13. Fits(u, m)
  <2>1. m.at \notin Resting /\ \A k \in endKwh : m.tx.kwh >= k
    BY <1>1, <1>2, <1>7 DEF Fits, Resting
  <2>2. writtenOn \/ (m.tx.kwh = DueKwh(u) /\ m.tariff \in {{}, price})
    BY <1>1, <1>2, <1>7 DEF Fits
  <2> QED BY <1>2, <1>7, <1>9, <1>11, <1>12, <2>1, <2>2 DEF Fits, CdrSteps, Resting
<1> QED BY <1>1, <1>6, <1>7, <1>13, QuietWorkStep DEF c, m

LEMMA StoreCdrStep ==
  ASSUME MessagesIInv, NEW u \in Updates,
         FindSentCdr(u) \/ InsertSentCdr(u) \/ PostSentCdr(u) \/ MarkSentCdr(u)
  PROVE  MessagesIInv'
<1>1. /\ work[u] \in WorkRecords /\ Fits(u, work[u]) /\ cdrTaken \in BOOLEAN
      /\ cdrPosts # {} => cdrRow # {}
      /\ work[u].at \in {"posting", "marking"} => cdrRow # {}
  BY WorkFits DEF MessagesIInv, MessagesTypeOK, OneEnd
<1>2. CASE FindSentCdr(u)
  <2>1. CASE cdrRow = {}
    BY <1>2, <2>1, StepsToStep DEF FindSentCdr, At, Steps, CdrSteps
  <2>2. CASE cdrRow # {} /\ cdrTaken
    BY <1>2, <2>2, StepsToStep DEF FindSentCdr, At, Steps
  <2>3. CASE cdrRow # {} /\ ~cdrTaken
    BY <1>2, <2>3, StepsToStep DEF FindSentCdr, At, Steps, CdrSteps
  <2> QED BY <2>1, <2>2, <2>3
<1>3. CASE InsertSentCdr(u)
  <2>1. work[u].at = "inserting" /\ work[u].cdr # {}
    BY <1>1, <1>3 DEF InsertSentCdr, At, Fits, SaidFromObject, CdrSteps
  <2>2. /\ After(u, "posting") = [work[u] EXCEPT !.at = "posting"]
        /\ After(u, "posting") \in WorkRecords /\ After(u, "posting").at = "posting"
        /\ Fits(u, After(u, "posting"))
    BY <2>1, AfterFits DEF After, Steps, CdrSteps
  <2> HIDE DEF After
  <2>3. /\ WorksOn(u, After(u, "posting")) /\ cdrRow = {} /\ cdrRow' = work[u].cdr
        /\ UNCHANGED <<cdrTaken, served, cdrPosts>>
    BY <1>3, <2>2 DEF InsertSentCdr
  <2> QED BY <1>1, <2>1, <2>2, <2>3, WorkStep
<1>4. CASE PostSentCdr(u)
  <2>1. work[u].at = "posting" /\ cdrRow # {}
    BY <1>1, <1>4 DEF PostSentCdr, At
  <2>2. PICK step \in {"marking", "done"} : WorksOn(u, After(u, step))
    BY <1>4 DEF PostSentCdr
  <2>3. After(u, step) \in WorkRecords /\ After(u, step).at = step /\ Fits(u, After(u, step))
    BY <2>1, AfterFits DEF Steps, CdrSteps
  <2>4. cdrPosts' = cdrPosts \cup work[u].cdr /\ UNCHANGED <<cdrRow, cdrTaken, served>>
    BY <1>4 DEF PostSentCdr
  <2> QED BY <1>1, <2>1, <2>2, <2>3, <2>4, WorkStep
<1>5. CASE MarkSentCdr(u)
  <2>1. After(u, "done") \in WorkRecords /\ After(u, "done").at = "done" /\ Fits(u, After(u, "done"))
    BY AfterFits DEF Steps
  <2>2. /\ WorksOn(u, After(u, "done")) /\ cdrTaken' = TRUE
        /\ UNCHANGED <<cdrRow, served, cdrPosts>>
    BY <1>5 DEF MarkSentCdr
  <2> QED BY <1>1, <2>1, <2>2, WorkStep
<1> QED BY <1>2, <1>3, <1>4, <1>5
-----------------------------------------------------------------------------
(* The rest of the system writes *)

\* A new notice: its update was unborn.
LEMMA NoticeTypes ==
  ASSUME MessagesIInv, NEW u \in Updates, NEW n \in NoticeRecords, Notices(u, n)
  PROVE  /\ notice' \in [Updates -> NoticeRecords] /\ work' \in [Updates -> WorkRecords]
         /\ work[u].at = "unborn" /\ ~notice[u].over
         /\ work'[u].at = "noticed" /\ work'[u].tariff = {} /\ work'[u].said = {}
         /\ work'[u].cdr = {} /\ ~work'[u].edited /\ notice'[u] = n
         /\ \A v \in Updates \ {u} : work'[v] = work[v] /\ notice'[v] = notice[v]
<1>1. /\ work \in [Updates -> WorkRecords] /\ notice \in [Updates -> NoticeRecords]
      /\ work' = [work EXCEPT ![u].at = "noticed"] /\ notice' = [notice EXCEPT ![u] = n]
      /\ work[u].at = "unborn" /\ ~notice[u].over
  BY DEF Notices, MessagesIInv, MessagesTypeOK, OneEnd
<1>2. /\ work[u].tariff = {} /\ work[u].said = {} /\ work[u].cdr = {} /\ ~work[u].edited
      /\ work[u] \in WorkRecords
  BY <1>1 DEF MessagesIInv, RestingHoldNothing, Resting
<1>3. work'[u] = [work[u] EXCEPT !.at = "noticed"] /\ work'[u] \in WorkRecords
  BY <1>1, <1>2 DEF WorkRecords, Steps
<1> QED BY <1>1, <1>2, <1>3 DEF WorkRecords
\* What a write leaves alone for every handler but its own.
LEMMA StartsStep ==
  ASSUME MessagesIInv, NEW u \in Updates, Starts(u)
  PROVE  MessagesIInv'
<1> DEFINE n == [NoNotice EXCEPT !.insert = TRUE]
<1>1. n \in NoticeRecords /\ ~n.over
  BY IdleType DEF NoticeRecords, NoNotice
<1> HIDE DEF n
<1>2. /\ Notices(u, n) /\ \A v \in Updates : work[v].at = "unborn"
      /\ UNCHANGED <<ofHub, txRow, price, place, endKwh, rewrites, cdrRow, cdrTaken, served,
                     cdrPosts, writtenOn, deaths>>
  BY DEF Starts, cdrVars, n
<1>3. MessagesTypeOK'
  BY <1>1, <1>2, NoticeTypes DEF MessagesIInv, MessagesTypeOK
<1>4. \A v \in Updates : /\ ~notice'[v].over /\ ~notice[v].over /\ work'[v].at \in Resting
                         /\ work'[v].tariff = {} /\ work'[v].said = {} /\ work'[v].cdr = {}
                         /\ ~work'[v].edited
  BY <1>1, <1>2, NoticeTypes DEF MessagesIInv, RestingHoldNothing, OneEnd, Resting
<1>5. RestingHoldNothing' /\ OneEnd'
  BY <1>2, <1>4 DEF MessagesIInv, RestingHoldNothing, OneEnd, Resting, CdrSteps
<1>6. ObjectsAreSaid' /\ TariffIsCurrent' /\ CdrsAgree'
  BY <1>2, <1>4 DEF MessagesIInv, ObjectsAreSaid, SaidFromObject, TariffIsCurrent, Between,
                    CdrsAgree, CdrSteps, Resting
<1>7. EnergyIsKept' /\ SaysWhatIsDue' /\ ErrorIsOfEdited'
  BY <1>2, <1>4 DEF MessagesIInv, EnergyIsKept, SaysWhatIsDue, ErrorIsOfEdited
<1> QED BY <1>3, <1>5, <1>6, <1>7 DEF MessagesIInv

\* Nothing is mapped, or the write is noted as one after a mapping.
LEMMA NothingMapped ==
  ASSUME MessagesIInv, ~Mapped
  PROVE  /\ cdrRow = {} /\ cdrPosts = {}
         /\ \A u \in Updates : notice[u].over => work[u].at \in {"unborn", "noticed"} /\ work[u].cdr = {}
BY DEF Mapped, MessagesIInv, OneEnd, RestingHoldNothing, Resting

LEMMA TxWrittenStep ==
  ASSUME MessagesIInv, NEW u \in Updates, TxWritten(u)
  PROVE  MessagesIInv'
<1>1. PICK k \in {txRow.kwh, txRow.kwh + 1} \cap Kwh, a \in {txRow.active, FALSE},
           e \in {txRow.ended, TRUE} : Writes(u, [kwh |-> k, active |-> a, ended |-> e])
  BY DEF TxWritten
<1> DEFINE row == [kwh |-> k, active |-> a, ended |-> e]
           n == [insert |-> FALSE, kwh |-> IF row.kwh # txRow.kwh THEN {row.kwh} ELSE {},
                 over |-> row.active # txRow.active, ended |-> row.ended # txRow.ended]
<1>2. /\ Notices(u, n) /\ txRow' = row
      /\ endKwh' = IF row.active # txRow.active THEN {row.kwh} ELSE endKwh
      /\ writtenOn' = (writtenOn \/ Mapped)
      /\ UNCHANGED <<ofHub, price, place, cdrRow, cdrTaken, served, cdrPosts>>
  BY <1>1 DEF Writes, WrittenOn, cdrVars
<1>3. txRow \in TxRow /\ row \in TxRow /\ row.kwh = k /\ row.active = a /\ txRow.kwh \in Nat /\ k >= txRow.kwh
  <2>1. txRow \in TxRow /\ txRow.kwh \in Kwh /\ {txRow.active, txRow.ended} \subseteq BOOLEAN
    BY DEF MessagesIInv, MessagesTypeOK, TxRow
  <2>2. row \in TxRow /\ row.kwh = k /\ row.active = a
    BY <2>1 DEF TxRow
  <2>3. txRow.kwh \in Nat /\ k >= txRow.kwh
    BY <2>1, MessagesAssumption DEF Kwh
  <2> QED BY <2>1, <2>2, <2>3
<1>4. n \in NoticeRecords /\ n.over = (a # txRow.active) /\ n.kwh \subseteq {k}
  BY <1>3, OptionalNone DEF NoticeRecords, TxRow
<1> HIDE DEF n, row
<1>5. /\ notice' \in [Updates -> NoticeRecords] /\ work' \in [Updates -> WorkRecords]
      /\ work[u].at = "unborn" /\ ~notice[u].over
      /\ work'[u].at = "noticed" /\ work'[u].tariff = {} /\ work'[u].said = {}
      /\ work'[u].cdr = {} /\ ~work'[u].edited /\ notice'[u] = n
      /\ \A v \in Updates \ {u} : work'[v] = work[v] /\ notice'[v] = notice[v]
  BY <1>2, <1>4, NoticeTypes
<1>6. MessagesTypeOK'
  BY <1>2, <1>3, <1>5, OptionalNone DEF MessagesIInv, MessagesTypeOK, Mapped, TxRow
<1>7. RestingHoldNothing'
  BY <1>5 DEF MessagesIInv, RestingHoldNothing
<1>8. n.over => /\ txRow.active /\ ~a /\ \A v \in Updates : ~notice[v].over
                /\ endKwh = {} /\ cdrRow = {} /\ cdrPosts = {}
  BY <1>3, <1>4 DEF MessagesIInv, OneEnd, TxRow
<1>9. ~txRow.active => ~a
  BY DEF TxRow
<1>10. OneEnd'
  <2>1. (\E v \in Updates : notice'[v].over) \/ endKwh' # {} => ~txRow'.active
    BY <1>2, <1>3, <1>5, <1>8, <1>9, <1>4 DEF MessagesIInv, OneEnd
  <2>2. \A v, x \in Updates : notice'[v].over /\ notice'[x].over => v = x
    BY <1>5, <1>8 DEF MessagesIInv, OneEnd
  <2>3. \A v \in Updates : /\ work'[v].at = "unborn" => ~notice'[v].over
                           /\ work'[v].at \in {"mapping", "listing"} \cup CdrSteps => notice'[v].over
                           /\ work'[v].at \in {"posting", "marking"} => cdrRow' # {}
    BY <1>2, <1>5 DEF MessagesIInv, OneEnd, CdrSteps
  <2>4. (cdrPosts' # {} => cdrRow' # {}) /\ (cdrRow' # {} => \E v \in Updates : notice'[v].over)
    BY <1>2, <1>5 DEF MessagesIInv, OneEnd
  <2> QED BY <2>1, <2>2, <2>3, <2>4 DEF OneEnd
<1>11. ObjectsAreSaid' /\ TariffIsCurrent' /\ CdrsAgree'
  BY <1>2, <1>5 DEF MessagesIInv, ObjectsAreSaid, SaidFromObject, TariffIsCurrent, Between,
                    CdrsAgree, CdrSteps
<1>12. EnergyIsKept'
  <2>1. CASE n.over
    <3>1. endKwh' = {k} /\ txRow'.kwh = k
      BY <1>2, <1>3, <1>4, <2>1
    <3> QED BY <1>2, <1>3, <1>4, <1>5, <1>8, <2>1, <3>1 DEF EnergyIsKept, Resting
  <2>2. CASE ~n.over
    <3>1. endKwh' = endKwh /\ txRow'.kwh = k /\ endKwh \subseteq Nat
      <4>1. endKwh \subseteq Kwh /\ Kwh \subseteq Nat
        BY MessagesAssumption DEF MessagesIInv, MessagesTypeOK, Optional, Kwh
      <4>2. a = txRow.active
        BY <1>4, <2>2
      <4> QED BY <1>2, <1>3, <4>1, <4>2
    <3>2. \A j \in endKwh : txRow.kwh >= j /\ k >= j
      BY <1>3, <3>1 DEF MessagesIInv, EnergyIsKept
    <3> QED BY <1>2, <1>5, <2>2, <3>1, <3>2 DEF MessagesIInv, EnergyIsKept
  <2> QED BY <2>1, <2>2
<1>13. SaysWhatIsDue'
  <2> SUFFICES ASSUME ~writtenOn', NEW v \in Updates, notice'[v].over
               PROVE  /\ work'[v].at \in Resting
                      /\ cdrPosts' \cup cdrRow' \cup work'[v].cdr = {}
    BY DEF SaysWhatIsDue
  <2>1. ~Mapped
    BY <1>2
  <2> QED BY <1>2, <1>5, <2>1, NothingMapped DEF Resting
<1>14. ErrorIsOfEdited'
  BY <1>2 DEF MessagesIInv, ErrorIsOfEdited
<1> QED BY <1>6, <1>7, <1>10, <1>11, <1>12, <1>13, <1>14 DEF MessagesIInv
\* The handlers that have it on their objects are noted.
LEMMA TariffWrittenStep ==
  ASSUME MessagesIInv, TariffWritten
  PROVE  MessagesIInv'
<1>1. /\ price' \in Optional(Price) /\ writtenOn' = (writtenOn \/ Mapped)
      /\ work' = [u \in Updates |-> IF Between(u) THEN [work[u] EXCEPT !.edited = TRUE] ELSE work[u]]
      /\ UNCHANGED <<ofHub, txRow, place, notice, endKwh, cdrRow, cdrTaken, served, cdrPosts>>
  BY OptionalNone DEF TariffWritten, WrittenOn, cdrVars
<1>2. \A u \in Updates :
        /\ work'[u] \in WorkRecords
        /\ work'[u].at = work[u].at /\ work'[u].tx = work[u].tx /\ work'[u].tariff = work[u].tariff
        /\ work'[u].said = work[u].said /\ work'[u].cdr = work[u].cdr
        /\ work'[u].edited = (work[u].edited \/ Between(u))
  BY <1>1, WorkFits DEF WorkRecords
<1>3. MessagesTypeOK'
  <2>1. work' \in [Updates -> WorkRecords]
    BY <1>1, <1>2
  <2> QED BY <1>1, <2>1 DEF MessagesIInv, MessagesTypeOK, Mapped
<1>4. RestingHoldNothing'
  BY <1>2 DEF MessagesIInv, RestingHoldNothing, Between
<1>5. OneEnd'
  BY <1>1, <1>2 DEF MessagesIInv, OneEnd
<1>6. ObjectsAreSaid'
  <2>1. \A u \in Updates : CostOf(work'[u]) = CostOf(work[u])
    BY <1>2 DEF CostOf
  <2> QED BY <1>2, <2>1 DEF MessagesIInv, ObjectsAreSaid, SaidFromObject
<1>7. TariffIsCurrent'
  <2>1. \A u \in Updates : Between(u)' = Between(u)
    BY <1>2 DEF Between
  <2> QED BY <1>2, <2>1 DEF TariffIsCurrent
<1>8. CdrsAgree' /\ EnergyIsKept' /\ ErrorIsOfEdited'
  BY <1>1, <1>2 DEF MessagesIInv, CdrsAgree, EnergyIsKept, ErrorIsOfEdited
<1>9. SaysWhatIsDue'
  BY ZenonT(60), <1>1, <1>2, NothingMapped DEF SaysWhatIsDue, Resting
<1> QED BY <1>3, <1>4, <1>5, <1>6, <1>7, <1>8, <1>9 DEF MessagesIInv

\* The location is on an object, or not.
LEMMA LocationDeletedStep ==
  ASSUME MessagesIInv, LocationDeleted
  PROVE  MessagesIInv'
<1>1. /\ UNCHANGED <<ofHub, txRow, price, notice, endKwh, work, cdrRow, cdrTaken, served, cdrPosts>>
      /\ place' = FALSE /\ writtenOn' = (writtenOn \/ Mapped)
  BY DEF LocationDeleted, WrittenOn, cdrVars
<1>2. MessagesTypeOK'
  BY <1>1 DEF MessagesIInv, MessagesTypeOK, Mapped
<1>3. RestingHoldNothing' /\ OneEnd' /\ ObjectsAreSaid' /\ TariffIsCurrent'
  BY <1>1 DEF MessagesIInv, RestingHoldNothing, OneEnd, ObjectsAreSaid, TariffIsCurrent, Between
<1>4. CdrsAgree' /\ EnergyIsKept' /\ ErrorIsOfEdited'
  BY <1>1 DEF MessagesIInv, CdrsAgree, EnergyIsKept, ErrorIsOfEdited
<1>5. SaysWhatIsDue'
  BY <1>1, NothingMapped DEF SaysWhatIsDue, Resting
<1> QED BY <1>2, <1>3, <1>4, <1>5 DEF MessagesIInv

\* A crash leaves the rows, and every handler that had not ended at its beginning.
LEMMA HandlersDieStep ==
  ASSUME MessagesIInv, HandlersDie
  PROVE  MessagesIInv'
<1> DEFINE again == [Idle EXCEPT !.at = "noticed"]
<1>1. /\ work' = [u \in Updates |-> IF work[u].at \in {"unborn", "done", "threw"} THEN work[u] ELSE again]
      /\ UNCHANGED <<ofHub, txRow, price, place, notice, endKwh, cdrRow, cdrTaken, served, cdrPosts,
                     writtenOn>>
  BY DEF HandlersDie, inputVars, cdrVars
<1>2. /\ again \in WorkRecords /\ again.at = "noticed" /\ again.tariff = {} /\ again.said = {}
      /\ again.cdr = {} /\ ~again.edited
  BY IdleType DEF Idle, WorkRecords, Steps
<1> HIDE DEF again
<1>3. \A u \in Updates :
        /\ work'[u] \in WorkRecords /\ work'[u].at \in Resting
        /\ work'[u].tariff = {} /\ work'[u].said = {} /\ work'[u].cdr = {} /\ ~work'[u].edited
        /\ work'[u].at = "unborn" => ~notice[u].over
  BY <1>1, <1>2, WorkFits DEF Resting, Fits
<1>4. MessagesTypeOK'
  <2>1. work' \in [Updates -> WorkRecords]
    BY <1>1, <1>3
  <2> QED BY <1>1, <2>1 DEF MessagesIInv, MessagesTypeOK
<1>5. RestingHoldNothing' /\ OneEnd'
  BY <1>1, <1>3 DEF MessagesIInv, RestingHoldNothing, OneEnd, Resting, CdrSteps
<1>6. ObjectsAreSaid' /\ TariffIsCurrent' /\ CdrsAgree'
  BY <1>1, <1>3 DEF MessagesIInv, ObjectsAreSaid, SaidFromObject, TariffIsCurrent, Between,
                    CdrsAgree, CdrSteps, Resting
<1>7. EnergyIsKept' /\ ErrorIsOfEdited'
  BY <1>1, <1>3 DEF MessagesIInv, EnergyIsKept, ErrorIsOfEdited
<1>8. SaysWhatIsDue'
  <2>1. \A u \in Updates : Due(u)' = Due(u)
    BY <1>1 DEF Due, DueKwh, RowWithPayload
  <2> QED BY <1>1, <1>3, <2>1 DEF MessagesIInv, SaysWhatIsDue
<1> QED BY <1>4, <1>5, <1>6, <1>7, <1>8 DEF MessagesIInv

\* A CDR that cannot be served lists no tariff, so it was edited while it was made.
LEMMA ServeStep ==
  ASSUME MessagesIInv, ServeCdrs
  PROVE  MessagesIInv'
<1>1. /\ UNCHANGED <<ofHub, txRow, price, place, notice, endKwh, work, writtenOn, cdrRow, cdrTaken, cdrPosts>>
      /\ served' \in {"error", "page"} /\ (served' = "error" => \E c \in cdrRow : c.listed = {})
  BY DEF ServeCdrs, inputVars, StoredCdrs, Unmappable
<1>2. MessagesTypeOK'
  BY <1>1 DEF MessagesIInv, MessagesTypeOK
<1>3. RestingHoldNothing' /\ OneEnd' /\ ObjectsAreSaid' /\ TariffIsCurrent' /\ CdrsAgree'
  BY <1>1 DEF MessagesIInv, RestingHoldNothing, OneEnd, ObjectsAreSaid, TariffIsCurrent, Between, CdrsAgree
<1>4. EnergyIsKept'
  BY <1>1 DEF MessagesIInv, EnergyIsKept
<1>5. SaysWhatIsDue'
  BY ZenonT(30), <1>1 DEF MessagesIInv, SaysWhatIsDue, Due, DueKwh, RowWithPayload
<1>6. ErrorIsOfEdited'
  BY <1>1 DEF MessagesIInv, CdrsAgree, AgreesWithTariff, ErrorIsOfEdited
<1> QED BY <1>2, <1>3, <1>4, <1>5, <1>6 DEF MessagesIInv
-----------------------------------------------------------------------------
LEMMA MessagesNextInv == MessagesIInv /\ [MessagesNext]_messageVars => MessagesIInv'
<1> SUFFICES ASSUME MessagesIInv, [MessagesNext]_messageVars PROVE MessagesIInv'
  OBVIOUS
<1>1. CASE UNCHANGED messageVars
  <2>1. /\ UNCHANGED <<ofHub, txRow, price, place, notice, endKwh, work, writtenOn, cdrRow, cdrTaken,
                       served, cdrPosts>>
    BY <1>1 DEF messageVars, inputVars, cdrVars
  <2>2. MessagesTypeOK' /\ RestingHoldNothing' /\ OneEnd' /\ ObjectsAreSaid' /\ TariffIsCurrent'
    BY <2>1 DEF MessagesIInv, MessagesTypeOK, RestingHoldNothing, OneEnd, ObjectsAreSaid,
                TariffIsCurrent, Between
  <2>3. CdrsAgree' /\ EnergyIsKept' /\ ErrorIsOfEdited'
    BY <2>1 DEF MessagesIInv, CdrsAgree, EnergyIsKept, ErrorIsOfEdited
  <2>4. SaysWhatIsDue'
    BY SMTT(30), <2>1 DEF MessagesIInv, SaysWhatIsDue, Due, DueKwh, RowWithPayload
  <2> QED BY <2>2, <2>3, <2>4 DEF MessagesIInv
<1>2. CASE TariffWritten \/ LocationDeleted \/ HandlersDie \/ ServeCdrs
  BY <1>2, TariffWrittenStep, LocationDeletedStep, HandlersDieStep, ServeStep
<1>3. ASSUME NEW u \in Updates,
             \/ Starts(u) \/ TxWritten(u) \/ Fails(u)
             \/ ReadTxRow(u) \/ LookUpTariff(u) \/ LookUpLocation(u) \/ MapSessionMessage(u)
             \/ TellSession(u) \/ MapCdrSession(u) \/ ListTariff(u)
             \/ FindSentCdr(u) \/ InsertSentCdr(u) \/ PostSentCdr(u) \/ MarkSentCdr(u)
      PROVE  MessagesIInv'
  BY <1>3, StartsStep, TxWrittenStep, ReadTxRowStep, LookUpStep, MapSessionStep, TellStep, ListStep,
     StoreCdrStep
<1> QED BY <1>1, <1>2, <1>3 DEF MessagesNext

LEMMA MessagesAreTrue == MessagesIInv => CdrIsTrue
<1> SUFFICES ASSUME MessagesIInv PROVE CdrIsTrue
  OBVIOUS
<1>1. CdrAgreesWithSession /\ CdrAgreesWithTariff
  BY DEF MessagesIInv, ObjectsAreSaid, SaidFromObject, CdrsAgree, AgreesWithTariff,
         CdrAgreesWithSession, CdrAgreesWithTariff
<1>2. CdrHasAllEnergy
  BY DEF MessagesIInv, EnergyIsKept, CdrHasAllEnergy
<1>3. ASSUME ~writtenOn, NEW c \in cdrPosts, NEW d \in cdrRow
      PROVE  Says(c) = Says(d)
  <2>1. PICK u \in Updates : notice[u].over
    BY <1>3 DEF MessagesIInv, OneEnd
  <2> QED BY <1>3, <2>1 DEF MessagesIInv, SaysWhatIsDue
<1> QED BY <1>1, <1>2, <1>3 DEF CdrIsTrue, CdrStaysTheSame, MessagesIInv, ErrorIsOfEdited

\* What partners are told of a transaction, in session messages and its CDR, agrees with each
\* other, with the tariff listed and with the energy at the end, and stays as stored unless
\* something is written meanwhile, however the rows are written on and handlers die.
THEOREM CdrTellsTheTruth == MessagesSpec => []CdrIsTrue
BY MessagesInitInv, MessagesNextInv, MessagesAreTrue, PTL DEF MessagesSpec
-----------------------------------------------------------------------------
(* The four parts side by side *)

LEMMA PushedStep ==
  [OfCdr \/ OfSession \/ OfLocation \/ OfMessages]_pushedVars =>
    /\ [Next]_vars /\ [SessionNext]_sessionVars
    /\ [OwnLocationNext]_ownLocationVars /\ [MessagesNext]_messageVars
<1>1. CASE OfCdr
  BY <1>1 DEF OfCdr
<1>2. CASE OfSession
  BY <1>2 DEF OfSession
<1>3. CASE OfLocation
  BY <1>3 DEF OfLocation
<1>4. CASE OfMessages
  BY <1>4 DEF OfMessages
<1>5. CASE UNCHANGED pushedVars
  BY <1>5 DEF pushedVars
<1> QED BY <1>1, <1>2, <1>3, <1>4, <1>5

\* What is run is each of its parts: an execution of one is a stuttering of the others.
THEOREM PushedIsItsParts == PushedSpec => Spec /\ SessionSpec /\ OwnLocationSpec /\ MessagesSpec
<1>1. PushedInit => Init /\ SessionInit /\ OwnLocationInit /\ MessagesInit
  BY DEF PushedInit
<1> QED BY <1>1, PushedStep, PTL DEF PushedSpec, Spec, SessionSpec, OwnLocationSpec, MessagesSpec

\* All that the run checks of what is pushed, for any number of handlers, writes, EVSEs, partners,
\* edits, deaths, energies and prices.
THEOREM PushedSafe ==
  PushedSpec => /\ [](OneCdrPerTransaction /\ MarkedWasAccepted)
                /\ [](NoStuckKey /\ InFlightGuardsPushes) /\ NoRepeatedPush
                /\ [](RemovalTellsAll /\ CdrIsTrue)
<1>1. Spec => [](OneCdrPerTransaction /\ MarkedWasAccepted)
  BY OneCdrIsSent, MarkedCdrWasAccepted, PTL
<1>2. SessionSpec => [](NoStuckKey /\ InFlightGuardsPushes) /\ NoRepeatedPush
  BY KeysAreReleased, PushesAreGuarded, BodiesAreNotRepeated, PTL
<1>3. OwnLocationSpec /\ MessagesSpec => [](RemovalTellsAll /\ CdrIsTrue)
  BY LocationRemovalTellsAll, CdrTellsTheTruth, PTL
<1> QED BY <1>1, <1>2, <1>3, PushedIsItsParts
==============================================================================
