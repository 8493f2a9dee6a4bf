------------------------------ MODULE EvseStatus ------------------------------
(***************************************************************************)
(* What partners are told of an own EVSE: its status when one of its       *)
(* connectors changes, and its connectors' tariffs when these do.  Each    *)
(* event is handled for itself: its handler reads the rows, and PATCHes    *)
(* one partner after the other with what it read.  A request that fails is *)
(* not repeated.                                                           *)
(***************************************************************************)
EXTENDS Naturals, Sequences

CONSTANTS Connectors,   \* the connectors of the EVSE
          Reported,     \* Reported[c]: the statuses the station reports of c
          Chargeable,   \* the connectors on which there are transactions
          TariffsOf,    \* TariffsOf[c]: the lists of tariffs c has had
          Partners,     \* those that have a locations receiver
          Gireve,       \* the hub, among them or not
          Handlers,     \* handlers at a time, a bound
          MaxChanges    \* bound: changes of rows

InUse == {"Preparing", "Charging", "SuspendedEVSE", "SuspendedEV", "Finishing"}
ConnectorStatuses == InUse \cup {"Occupied", "Reserved", "Available", "Unavailable", "Faulted", "Unknown"}
EvseStatuses == {"CHARGING", "RESERVED", "AVAILABLE", "INOPERATIVE", "OUTOFORDER", "UNKNOWN"}
Lists == UNION {TariffsOf[c] : c \in Connectors}

ASSUME EvseAssumption == /\ "status" \notin Connectors /\ Chargeable \subseteq Connectors
                         /\ \A c \in Connectors : Reported[c] \subseteq ConnectorStatuses
                         /\ \A c \in Connectors : TariffsOf[c] # {}
                         /\ MaxChanges \in Nat

VARIABLES connectors,  \* the rows' statuses
          active,      \* the connectors with an active transaction
          tariffs,     \* the rows' lists of tariffs
          disabled,    \* the location's disableOCPI
          handlers,    \* what each handler is about to do
          known,       \* known[p]: what partner p knows of the EVSE and its connectors
          due,         \* history: changes that no push made after them has brought to a partner
          settled,     \* history: what was last read by a handler alone, after its last change
          changes      \* the changes there were

rows == <<connectors, active, tariffs, disabled>>
evseVars == <<rows, handlers, known, due, settled, changes>>

Keys == {"status"} \cup Connectors
Idle == [stage |-> "idle"]
Calls == [stage : {"called"}, key : Keys, off : BOOLEAN, mute : BOOLEAN]
Bodies == {b \in UNION {[ks -> EvseStatuses \cup Lists] : ks \in SUBSET Keys} :
             \A k \in DOMAIN b : b[k] \in IF k = "status" THEN EvseStatuses ELSE Lists}
Broadcasts == [to : SUBSET Partners, body : Bodies]
Pushings == [stage : {"pushing"}, key : Keys, fresh : BOOLEAN, mute : BOOLEAN, pushes : Seq(Broadcasts)]

\* A handler that pushes has a partner left to push to.
EvseTypeOK ==
    /\ connectors \in [Connectors -> ConnectorStatuses]
    /\ active \subseteq Chargeable /\ tariffs \in [Connectors -> Lists] /\ disabled \in BOOLEAN
    /\ handlers \in [Handlers -> {Idle} \cup Calls \cup Pushings]
    /\ \A h \in Handlers : handlers[h].stage = "pushing" =>
          \E i \in DOMAIN handlers[h].pushes : handlers[h].pushes[i].to # {}
    /\ known \in [Partners -> {b \in Bodies : DOMAIN b = Keys}]
    /\ due \subseteq Partners \X Keys /\ settled \subseteq Keys /\ changes \in 0..MaxChanges
-----------------------------------------------------------------------------
\* What a connector's status calls for; onTransaction: it has an active transaction.
Means(status, onTransaction) ==
    CASE status \in InUse \/ (status = "Occupied" /\ onTransaction) -> "CHARGING"
      [] status = "Reserved" -> "RESERVED"
      [] status = "Available" \/ (status = "Occupied" /\ ~onTransaction) -> "AVAILABLE"
      [] status = "Unavailable" -> "INOPERATIVE"
      [] status = "Faulted" -> "OUTOFORDER"
      [] OTHER -> "UNKNOWN"

Precedence == <<"CHARGING", "RESERVED", "AVAILABLE", "INOPERATIVE", "OUTOFORDER">>

\* mapEvseStatusFromConnectors
StatusOf(status, transactions) ==
    LET meant == {Means(status[c], c \in transactions) : c \in DOMAIN status}
        first == {i \in DOMAIN Precedence : /\ Precedence[i] \in meant
                                            /\ \A j \in 1..(i - 1) : Precedence[j] \notin meant}
    IN  IF first = {} THEN "UNKNOWN" ELSE Precedence[CHOOSE i \in first : TRUE]

\* The EVSE and its connectors, with the status that these transactions give it.
Evse(transactions) ==
    [k \in Keys |-> IF k = "status" THEN StatusOf(connectors, transactions) ELSE tariffs[k]]

EvseInit ==
    /\ connectors \in {f \in [Connectors -> ConnectorStatuses] : \A c \in Connectors : f[c] \in Reported[c]}
    /\ active = {} /\ disabled = FALSE
    /\ tariffs = [c \in Connectors |-> CHOOSE l \in TariffsOf[c] : TRUE]
    /\ handlers = [h \in Handlers |-> Idle]
    /\ known = [p \in Partners |-> Evse(active)]
    /\ due = {} /\ settled = Keys /\ changes = 0
-----------------------------------------------------------------------------
(* The rows, and what their triggers call *)

Another == changes < MaxChanges /\ changes' = changes + 1

\* What was read of k before it changed is no longer fresh.
Stale(k) == [h \in Handlers |-> IF handlers[h].stage = "pushing" /\ handlers[h].key = k
                                THEN [handlers[h] EXCEPT !.fresh = FALSE] ELSE handlers[h]]

Call(h, k) == /\ handlers[h] = Idle
              /\ handlers' = [Stale(k) EXCEPT ![h] = [stage |-> "called", key |-> k, off |-> disabled, mute |-> disabled]]
              /\ due' = IF disabled THEN due \ (Partners \X {k}) ELSE due \cup Partners \X {k}
              /\ settled' = settled \ {k}

\* ConnectorNotify, of a status that changes; of other columns nothing is pushed.
StatusChanges(h, c) == /\ Another /\ Call(h, "status")
                       /\ \E s \in Reported[c] \ {connectors[c]} : connectors' = [connectors EXCEPT ![c] = s]
                       /\ UNCHANGED <<active, tariffs, disabled, known>>

\* ConnectorTariffNotify: a tariff was linked to the connector, or unlinked.
TariffsChange(h, c) == /\ Another /\ Call(h, c)
                       /\ \E l \in TariffsOf[c] \ {tariffs[c]} : tariffs' = [tariffs EXCEPT ![c] = l]
                       /\ UNCHANGED <<connectors, active, disabled, known>>

\* Of a transaction that begins or ends, and of the location, no handler pushes a status.
TransactionChanges(c) == /\ Another
                         /\ active' = IF c \in active THEN active \ {c} ELSE active \cup {c}
                         /\ settled' = settled \ {"status"}
                         /\ UNCHANGED <<connectors, tariffs, disabled, handlers, known, due>>

\* History: a change is no longer one of a location disabled ever since.
LocationChanges == /\ Another /\ disabled' = ~disabled
                   /\ handlers' = [h \in Handlers |-> IF handlers[h] = Idle THEN Idle
                                                      ELSE [handlers[h] EXCEPT !.mute = @ /\ disabled']]
                   /\ UNCHANGED <<connectors, active, tariffs, known, due, settled>>
-----------------------------------------------------------------------------
(* The handlers *)

\* Mutant: a change of status does not look at the location.
DisabledAtRead(call) == call.key # "status" /\ disabled

\* A change of status carries the disableOCPI it was made under, one of tariffs reads it.
Disabled(call) == IF call.key = "status" THEN call.off ELSE disabled

\* A partner is sent the connector's tariffs; then Gireve the EVSE's connectors, with a status
\* that is computed without the transactions.
TariffPushes(c) ==
    << [to |-> Partners \ {Gireve}, body |-> [k \in {c} |-> tariffs[k]]],
       [to |-> Partners \cap {Gireve}, body |-> Evse({})] >>

\* Mutant: the status is computed without the transactions, as that of a tariff change is.
StatusPushesBare == << [to |-> Partners, body |-> [k \in {"status"} |-> Evse({})[k]]] >>

StatusPushes == << [to |-> Partners, body |-> [k \in {"status"} |-> Evse(active)[k]]] >>

\* The handler ends when each broadcast has gone to each of its partners.
Pushing(handler, pushes) ==
    IF \A i \in DOMAIN pushes : pushes[i].to = {} THEN Idle ELSE [handler EXCEPT !.pushes = pushes]

\* The handler reads the rows it announces, or is told by the change not to.
Read(h) ==
    LET call == handlers[h]
        k == call.key
        pushes == IF k = "status" THEN StatusPushes ELSE TariffPushes(k)
        alone == \A g \in Handlers \ {h} : handlers[g].stage # "pushing"
    IN  /\ call.stage = "called"
        /\ IF Disabled(call)
             THEN /\ handlers' = [handlers EXCEPT ![h] = Idle]
                  /\ due' = due \ (Partners \X (Connectors \cap {k}))
                  /\ UNCHANGED settled
             ELSE /\ handlers' = [handlers EXCEPT ![h] =
                         Pushing([stage |-> "pushing", key |-> k, fresh |-> TRUE, mute |-> call.mute, pushes |-> <<>>], pushes)]
                  /\ settled' = IF alone THEN settled \cup {k} ELSE {}
                  /\ UNCHANGED due
        /\ UNCHANGED <<rows, known, changes>>

\* Another handler that has yet to read k, or pushes what it read of k after its last change.
AnotherBrings(h, k) ==
    \E g \in Handlers \ {h} :
        \/ handlers[g].stage = "called" /\ handlers[g].key = k /\ ~(k = "status" /\ handlers[g].off)
        \/ handlers[g].stage = "pushing" /\ handlers[g].key = k /\ handlers[g].fresh

\* The handler's request fails, or the station, EVSE or connector is not found, or has no number at
\* its station: it ends without a push.  History: the change is due no more, unless another
\* handler brings it.
ReadFails(h) ==
    LET call == handlers[h]
    IN  /\ call.stage = "called" /\ ~(call.key = "status" /\ call.off)
        /\ handlers' = [handlers EXCEPT ![h] = Idle]
        /\ due' = IF AnotherBrings(h, call.key) THEN due ELSE due \ (Partners \X {call.key})
        /\ UNCHANGED <<rows, known, settled, changes>>

\* Mutant: a request that fails ends the handler.
OnlyIfArrived(handler, i, p, arrives) ==
    IF arrives THEN Pushing(handler, [handler.pushes EXCEPT ![i].to = @ \ {p}]) ELSE Idle

\* A failure is logged, and the loop goes on to the next partner.
WithoutPartner(handler, i, p, arrives) == Pushing(handler, [handler.pushes EXCEPT ![i].to = @ \ {p}])

\* broadcastToClients, one partner of the i-th broadcast, who gets the PATCH or does not; when the
\* partners themselves cannot be read, none of that broadcast's does.
Push(h, i, p, arrives) ==
    LET handler == handlers[h]
        body == handler.pushes[i].body
    IN  /\ p \in handler.pushes[i].to /\ \A j \in 1..(i - 1) : handler.pushes[j].to = {}
        /\ known' = IF arrives THEN [known EXCEPT ![p] = [k \in Keys |-> IF k \in DOMAIN body THEN body[k] ELSE @[k]]] ELSE known
        /\ due' = IF handler.fresh THEN due \ {<<p, handler.key>>} ELSE due
        /\ settled' = IF arrives THEN settled ELSE settled \ {handler.key}
        /\ handlers' = [handlers EXCEPT ![h] = WithoutPartner(handler, i, p, arrives)]
        /\ UNCHANGED <<rows, changes>>

Handle(h) == \/ Read(h) \/ ReadFails(h)
             \/ /\ handlers[h].stage = "pushing"
                /\ \E i \in DOMAIN handlers[h].pushes, p \in Partners, arrives \in BOOLEAN :
                      Push(h, i, p, arrives)

EvseNext ==
    \/ \E h \in Handlers, c \in Connectors : StatusChanges(h, c) \/ TariffsChange(h, c)
    \/ \E c \in Chargeable : TransactionChanges(c)
    \/ LocationChanges
    \/ \E h \in Handlers : Handle(h)

\* Requests end, those to partners by their timeout at the latest.
EvseFairness == \A h \in Handlers : WF_evseVars(Handle(h))
EvseSpec == EvseInit /\ [][EvseNext]_evseVars /\ EvseFairness
-----------------------------------------------------------------------------
(* Properties *)

NothingIsPushed == \A h \in Handlers : handlers[h].stage # "pushing"
Charging(c) == connectors[c] \in InUse \/ (connectors[c] = "Occupied" /\ c \in active)
Free(c) == connectors[c] = "Available" \/ (connectors[c] = "Occupied" /\ c \notin active)

\* Once a change of status was handled alone, whatever went wrong before, a partner takes the
\* EVSE for charging if and only if a connector is in use, and for available only if one is free.
\* It is not so of Gireve if tariffs change while a connector is Occupied by a transaction.
StatusIsTrue ==
    NothingIsPushed /\ "status" \in settled =>
       \A p \in Partners :
          ~(p = Gireve /\ \E c \in active : connectors[c] = "Occupied") =>
             /\ known[p]["status"] = "CHARGING" <=> \E c \in Connectors : Charging(c)
             /\ known[p]["status"] = "AVAILABLE" => \E c \in Connectors : Free(c)

\* Once a change of a connector's tariffs was handled alone, every partner has its list.
TariffsAreTrue ==
    NothingIsPushed => \A c \in settled \ {"status"}, p \in Partners : known[p][c] = tariffs[c]

\* A change that is handled alone puts right whatever overlapping handlers and requests that
\* failed have left with a partner: the EVSE's status, and the connectors' tariffs.
SettledIsTrue == StatusIsTrue /\ TariffsAreTrue

\* A change made in a location that has been disabled ever since is not pushed.
DisabledIsNotPushed == \A h \in Handlers : handlers[h].stage = "pushing" => ~handlers[h].mute

\* The inductive invariant: what has been read alone is what each partner knows, or what the
\* one handler that pushes will bring it; and what it pushes is true until the row changes.
Right(p, k, value) == IF k = "status"
                      THEN \/ value = StatusOf(connectors, active)
                           \/ p = Gireve /\ value = StatusOf(connectors, {})
                      ELSE value = tariffs[k]
Brings(h, p, k) == /\ handlers[h].stage = "pushing" /\ handlers[h].key = k
                   /\ \E i \in DOMAIN handlers[h].pushes : p \in handlers[h].pushes[i].to
PushesWhatIsRight(h) ==
    handlers[h].stage = "pushing" => \A i \in DOMAIN handlers[h].pushes :
        LET push == handlers[h].pushes[i]
        IN  /\ handlers[h].key \in DOMAIN push.body
            /\ \A p \in push.to, k \in settled \cap DOMAIN push.body : Right(p, k, push.body[k])
MutedIsDisabled(h) == /\ handlers[h] \in Calls /\ handlers[h].mute => handlers[h].off /\ disabled
                      /\ handlers[h].stage = "pushing" => ~handlers[h].mute
EvseIInv ==
    /\ EvseTypeOK
    /\ \A h \in Handlers : PushesWhatIsRight(h) /\ MutedIsDisabled(h)
    /\ \A g, h \in Handlers : handlers[g].stage = "pushing" /\ handlers[h].stage = "pushing" /\ g # h
                               => settled = {}
    /\ \A k \in settled, p \in Partners :
          Right(p, k, known[p][k]) \/ \E h \in Handlers : Brings(h, p, k)

\* A change made in a location that is not disabled is pushed to every partner by a handler that
\* read the row after it, whichever requests to partners fail, unless every such handler's read
\* fails or finds no row, or the location is disabled when the row is read or changes again.
ChangesArePushed == \A p \in Partners, k \in Keys : <<p, k>> \in due ~> <<p, k>> \notin due
=============================================================================
