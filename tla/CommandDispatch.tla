-------------------------- MODULE CommandDispatch --------------------------
(***************************************************************************)
(* What becomes of a command's content on its way to a charging station    *)
(* and back: the checks of CommandsService on the station, the connector,  *)
(* the transaction and the token; the authorization that a start stores    *)
(* for the core to find; the OCPP request that the handler of the          *)
(* station's version makes of the command; and the result that the         *)
(* station's status becomes.                                               *)
(*                                                                         *)
(* The cache, the timer and the routing of results are CommandResults'.    *)
(* A command whose request to the database fails, or whose process ends,   *)
(* stays where it is.  One station and one token are modelled.  The        *)
(* station, and the core that records its transactions, are not under src/.*)
(***************************************************************************)
EXTENDS Naturals, FiniteSets

CONSTANTS Commands,      \* bound: commands that are given
          Given,         \* bound: Given[c]: what c may be, [kind, evse, connector, session]
          Sessions,      \* bound: transactions of the station
          Requesters,    \* the parties that give commands
          DirectOf,      \* DirectOf[r]: the tenant partner that r is, or is behind
          EvseRows,      \* the station's EVSEs: [id, evseTypeId]
          ConnectorRows, \* its connectors: [id, evseId, connectorId, evseTypeConnectorId]
          Reported,      \* bound: the statuses that a connector changes to
          MaxReports     \* bound: the changes of the station

ASSUME DispatchAssumption ==
    /\ Reported \subseteq {"Available", "Occupied", "Charging", "Unavailable"}
    /\ MaxReports \in Nat /\ 0 \notin Commands
    /\ \A c \in Commands : \A body \in Given[c] : body.kind \in {"START", "STOP", "UNLOCK"}
    /\ DirectOf \in [Requesters -> Requesters] /\ "nobody" \notin Requesters
    /\ \A r \in EvseRows : r.evseTypeId # 0 /\ \A s \in EvseRows :
         r = s \/ (r.id # s.id /\ r.evseTypeId # s.evseTypeId)
    /\ \A x \in ConnectorRows : x.id # 0 /\ \E r \in EvseRows : r.id = x.evseId

VARIABLES protocol,      \* the station's OCPP version
          online,        \* whether the core knows it as connected
          status,        \* status[k]: the status of connector k
          reports,       \* how many of them the station has changed
          tokenOf,       \* the party that the token is of
          authorization, \* the token's row: its tenant partner and its roaming partner
          transactions,  \* transactions[t]: the row of the session t
          dispatch,      \* dispatch[c]: where the command c is, and what it names
          sequence,      \* the row of the station's remote start ids
          upserts,       \* the values on their way to it
          requests,      \* requests[c]: what the station was asked
          answered,      \* history: answered[c]: the status it gave
          verdicts       \* verdicts[c]: the results posted to the partner

dispatchVars == <<protocol, online, status, reports, tokenOf, authorization, transactions, dispatch,
                  sequence, upserts, requests, answered, verdicts>>

Nobody == "nobody"
Versions == {"ocpp1.6", "ocpp2.0.1", "other"}
Connectors == {x.id : x \in ConnectorRows}
DispatchStages == {"idle", "persist", "handler", "sequence", "send", "asked", "ended", "refused"}
NoCommand == [kind |-> "none", at |-> "idle", from |-> Nobody, evse |-> 0, connector |-> 0,
              session |-> Nobody, remoteStartId |-> 0]
NoTransaction == [isActive |-> FALSE, connector |-> 0, linked |-> FALSE, remote |-> FALSE,
                  by |-> 0]
NoRequest == [kind |-> "none", evse |-> 0, connector |-> 0, session |-> Nobody]

CommandKinds == {"none", "START", "STOP", "UNLOCK"}
Bodies == UNION {Given[c] : c \in Commands}
NamedSessions == {Nobody} \cup {body.session : body \in Bodies}
DispatchRecords == [kind : CommandKinds, at : DispatchStages, from : Requesters \cup {Nobody},
                    evse : {0} \cup {body.evse : body \in Bodies},
                    connector : {0} \cup {body.connector : body \in Bodies},
                    session : NamedSessions, remoteStartId : Nat]
RequestRecords ==
    [kind : CommandKinds, session : NamedSessions,
     evse : {0} \cup {body.evse : body \in Bodies} \cup {r.evseTypeId : r \in EvseRows},
     connector : {0} \cup {body.connector : body \in Bodies} \cup {x.connectorId : x \in ConnectorRows}
                   \cup {x.evseTypeConnectorId : x \in ConnectorRows}]
TransactionRecords == [isActive : BOOLEAN, connector : {0} \cup Connectors, linked : BOOLEAN,
                       remote : BOOLEAN, by : {0} \cup Commands]
StationStatuses == {"Accepted", "Rejected", "Unlocked", "NotSupported", "UnlockFailed",
                    "OngoingAuthorizedTransaction", "UnknownConnector"}
Verdicts == {"ACCEPTED", "REJECTED", "FAILED", "EVSE_OCCUPIED", "NOT_SUPPORTED"}

DispatchTypeOK ==
    /\ protocol \in Versions /\ online \in BOOLEAN /\ tokenOf \in Requesters
    /\ status \in [Connectors -> {"Available"} \cup Reported]
    /\ authorization \in [tenantPartner : Requesters \cup {Nobody},
                          roamingPartner : Requesters \cup {Nobody}]
    /\ transactions \in [Sessions -> TransactionRecords]
    /\ dispatch \in [Commands -> DispatchRecords] /\ requests \in [Commands -> RequestRecords]
    /\ answered \in [Commands -> {"none"} \cup StationStatuses]
    /\ verdicts \in [Commands -> SUBSET Verdicts]
    /\ sequence \in Nat /\ upserts \subseteq Nat

DispatchInit ==
    /\ protocol \in Versions /\ online = TRUE /\ reports = 0
    /\ status = [k \in Connectors |-> "Available"]
    /\ tokenOf \in Requesters
    /\ authorization \in [tenantPartner : {Nobody, DirectOf[tokenOf]}, roamingPartner : {Nobody}]
    /\ transactions = [t \in Sessions |-> NoTransaction]
    /\ dispatch = [c \in Commands |-> NoCommand]
    /\ sequence = 0 /\ upserts = {}
    /\ requests = [c \in Commands |-> NoRequest]
    /\ answered = [c \in Commands |-> "none"]
    /\ verdicts = [c \in Commands |-> {}]

Asking(c) == [NoRequest EXCEPT !.kind = dispatch[c].kind]

At(c, at) == dispatch[c].at = at
Moves(c, at) == dispatch' = [dispatch EXCEPT ![c].at = at]
outside == <<protocol, online, status, reports, tokenOf, transactions, answered>>
-----------------------------------------------------------------------------
(* CommandsService: whether a command is accepted *)

Active(k) == \E t \in Sessions : transactions[t].isActive /\ transactions[t].connector = k
InUse(k) == status[k] = "Charging" \/ (status[k] = "Occupied" /\ Active(k))
Free(k) == status[k] = "Available" \/ (status[k] = "Occupied" /\ ~Active(k))

\* The connectors of the EVSE that a uid is of, the one named or all of them.
Named(e, k) == {x.id : x \in {y \in ConnectorRows :
                   k \in {0, y.id} /\ \E r \in EvseRows : r.evseTypeId = e /\ r.id = y.evseId}}

\* getEvseAvailabilityForStartSession
IsAvailable(e, k) == /\ \E x \in Named(e, k) : Free(x)
                     /\ \A x \in Named(e, k) : ~InUse(x)

\* The reply to the partner: the command goes on, or is refused.
Replies(c, command, accepted, next) ==
    /\ dispatch' = [dispatch EXCEPT ![c] = [command EXCEPT !.at = IF accepted THEN next
                                                                  ELSE "refused"]]
    /\ UNCHANGED <<outside, authorization, sequence, upserts, requests, verdicts>>

\* The token in the body must be of the party that gives the command.
StartAsked(c, from, e, k) ==
    /\ At(c, "idle")
    /\ Replies(c, [NoCommand EXCEPT !.kind = "START", !.from = from, !.evse = e, !.connector = k],
               /\ from = tokenOf /\ online /\ k \in Connectors \cup {0}
               /\ IsAvailable(e, k),
               "persist")

\* getTokenOwnerFromAuthorization
Owner(row) == IF row.roamingPartner # Nobody THEN row.roamingPartner ELSE row.tenantPartner

\* Mutant: the tenant partner that the call came from is compared.
MayStopDirect(from, t) ==
    IF transactions[t].linked THEN DirectOf[from] = authorization.tenantPartner
                              ELSE transactions[t].remote

MayStop(from, t) ==
    IF transactions[t].linked THEN from = Owner(authorization) ELSE transactions[t].remote

StopAsked(c, from, t) ==
    /\ At(c, "idle")
    /\ Replies(c, [NoCommand EXCEPT !.kind = "STOP", !.from = from, !.session = t],
               t \in Sessions /\ MayStop(from, t) /\ transactions[t].isActive,
               "handler")

UnlockAsked(c, from, e, k) ==
    /\ At(c, "idle")
    /\ Replies(c, [NoCommand EXCEPT !.kind = "UNLOCK", !.from = from, !.evse = e, !.connector = k],
               online /\ k \in Connectors \cup {0},
               "handler")

\* Mutant: the roaming partner is not stored.
PersistOfDirect(c) ==
    /\ At(c, "persist") /\ authorization.tenantPartner \in {Nobody, DirectOf[dispatch[c].from]}
    /\ authorization' = [authorization EXCEPT !.tenantPartner = DirectOf[dispatch[c].from]]
    /\ Moves(c, "handler")
    /\ UNCHANGED <<outside, sequence, upserts, requests, verdicts>>

\* persistRoamingAuthorization; a direct partner's start leaves roamingPartnerId as it is.
PersistAuthorization(c) ==
    LET from == dispatch[c].from
    IN  /\ At(c, "persist") /\ authorization.tenantPartner \in {Nobody, DirectOf[from]}
        /\ authorization' = [tenantPartner |-> DirectOf[from],
                             roamingPartner |-> IF from # DirectOf[from] THEN from
                                                ELSE authorization.roamingPartner]
        /\ Moves(c, "handler")
        /\ UNCHANGED <<outside, sequence, upserts, requests, verdicts>>
-----------------------------------------------------------------------------
(* CommandExecutor and the handler of the station's version *)

\* FAILED is posted without asking the station.
FailsUnasked(c) ==
    /\ Moves(c, "ended") /\ verdicts' = [verdicts EXCEPT ![c] = @ \cup {"FAILED"}]
    /\ UNCHANGED <<outside, authorization, sequence, upserts, requests>>

\* getCommandHandler
NoHandler(c) == At(c, "handler") /\ protocol = "other" /\ FailsUnasked(c)

GetCommandHandler(c) ==
    /\ At(c, "handler") /\ protocol # "other"
    /\ Moves(c, IF protocol = "ocpp2.0.1" /\ dispatch[c].kind = "START" THEN "sequence" ELSE "send")
    /\ UNCHANGED <<outside, authorization, sequence, upserts, requests, verdicts>>

\* The sequence is read, and written without waiting for it.
NextRemoteStartId(c) ==
    /\ At(c, "sequence")
    /\ dispatch' = [dispatch EXCEPT ![c].at = "send", ![c].remoteStartId = sequence + 1]
    /\ upserts' = upserts \cup {sequence + 1}
    /\ UNCHANGED <<outside, authorization, sequence, requests, verdicts>>

UpsertSequence ==
    \E value \in upserts :
        /\ upserts' = upserts \ {value} /\ sequence' \in {sequence, value}
        /\ UNCHANGED <<outside, authorization, dispatch, requests, verdicts>>

\* The OCPP request is posted to the core: it may arrive, and may be known not to have.
Sends(c, request) ==
    /\ \/ requests' = [requests EXCEPT ![c] = request] /\ UNCHANGED verdicts /\ Moves(c, "asked")
       \/ /\ requests' \in {requests, [requests EXCEPT ![c] = request]}
          /\ verdicts' = [verdicts EXCEPT ![c] = @ \cup {"FAILED"}] /\ Moves(c, "ended")
    /\ UNCHANGED <<outside, authorization, sequence, upserts>>

\* connectorId: Number(connector_id) in 1.6, where a missing one is NaN, sent as null;
\* evseId: the number in the uid in 2.0.1.
SendStart16(c) ==
    /\ At(c, "send") /\ protocol = "ocpp1.6" /\ dispatch[c].kind = "START"
    /\ Sends(c, [Asking(c) EXCEPT !.connector = dispatch[c].connector])

\* Mutant: the number in the uid is taken for the id of the row.
SendStart201ById(c) ==
    /\ At(c, "send") /\ protocol = "ocpp2.0.1" /\ dispatch[c].kind = "START"
    /\ \E r \in EvseRows : /\ r.id = dispatch[c].evse
                           /\ Sends(c, [Asking(c) EXCEPT !.evse = r.evseTypeId])

SendStart201(c) ==
    /\ At(c, "send") /\ protocol = "ocpp2.0.1" /\ dispatch[c].kind = "START"
    /\ Sends(c, [Asking(c) EXCEPT !.evse = dispatch[c].evse])

\* transactionId: the session's id, as a number in 1.6.
SendStop(c) ==
    /\ At(c, "send") /\ dispatch[c].kind = "STOP"
    /\ Sends(c, [Asking(c) EXCEPT !.session = dispatch[c].session])

\* Mutant: the connector's id is sent, as a start does.
SendUnlock16ById(c) ==
    /\ At(c, "send") /\ protocol = "ocpp1.6" /\ dispatch[c].kind = "UNLOCK"
    /\ Sends(c, [Asking(c) EXCEPT !.connector = dispatch[c].connector])

\* The connector named is looked up for the number it has at the station.
SendUnlock16(c) ==
    /\ At(c, "send") /\ protocol = "ocpp1.6" /\ dispatch[c].kind = "UNLOCK"
    /\ \E x \in ConnectorRows : /\ x.id = dispatch[c].connector
                                /\ Sends(c, [Asking(c) EXCEPT !.connector = x.connectorId])

\* The EVSE is looked up by its row's id, though the uid holds its evseTypeId.
SendUnlock201(c) ==
    /\ At(c, "send") /\ protocol = "ocpp2.0.1" /\ dispatch[c].kind = "UNLOCK"
    /\ \E r \in EvseRows, x \in ConnectorRows :
         /\ r.id = dispatch[c].evse /\ x.id = dispatch[c].connector
         /\ Sends(c, [Asking(c) EXCEPT !.evse = r.evseTypeId, !.connector = x.evseTypeConnectorId])

UnlockNotFound(c) ==
    /\ At(c, "send") /\ dispatch[c].kind = "UNLOCK"
    /\ \/ dispatch[c].connector \notin Connectors
       \/ protocol = "ocpp2.0.1" /\ \A r \in EvseRows : r.id # dispatch[c].evse
    /\ FailsUnasked(c)
-----------------------------------------------------------------------------
(* The station's answers, and the callback endpoint *)

StatusesOf(kind) ==
    IF kind # "UNLOCK" THEN {"Accepted", "Rejected"}
    ELSE IF protocol = "ocpp1.6" THEN {"Unlocked", "NotSupported", "UnlockFailed"}
    ELSE {"Unlocked", "OngoingAuthorizedTransaction", "UnknownConnector", "UnlockFailed"}

StationAnswers(c, answer) ==
    /\ requests[c] # NoRequest /\ answered[c] = "none"
    /\ answer \in StatusesOf(dispatch[c].kind)
    /\ answered' = [answered EXCEPT ![c] = answer]
    /\ UNCHANGED <<protocol, online, status, reports, tokenOf, authorization, transactions,
                   dispatch, sequence, upserts, requests, verdicts>>

\* Mutant: a station that knows no such connector, or has its cable locked, is a success.
TranslateLeniently(kind, answer) ==
    IF answer \in {"Accepted", "Unlocked", "UnknownConnector"} THEN "ACCEPTED" ELSE "FAILED"

Translate(kind, answer) ==
    CASE answer \in {"Accepted", "Unlocked"} -> "ACCEPTED"
      [] answer = "Rejected" -> IF kind = "START" THEN "EVSE_OCCUPIED" ELSE "REJECTED"
      [] answer = "NotSupported" -> "NOT_SUPPORTED"
      [] answer = "OngoingAuthorizedTransaction" -> "EVSE_OCCUPIED"
      [] answer = "UnknownConnector" -> "REJECTED"
      [] answer = "UnlockFailed" -> "FAILED"

\* An answer with the command's id in its address; it may be too late, or fail.
HandleAsyncCommandResponse(c) ==
    /\ answered[c] # "none"
    /\ verdicts' = [verdicts EXCEPT ![c] = @ \cup {Translate(dispatch[c].kind, answered[c])}]
    /\ verdicts' # verdicts
    /\ UNCHANGED <<outside, authorization, dispatch, sequence, upserts, requests>>
-----------------------------------------------------------------------------
(* The station, and the core that records its transactions *)

Records(t, row) ==
    /\ transactions[t] = NoTransaction
    /\ transactions' = [transactions EXCEPT ![t] = [row EXCEPT !.isActive = TRUE]]
    /\ UNCHANGED <<protocol, online, status, reports, tokenOf, authorization, dispatch, sequence,
                   upserts, requests, answered, verdicts>>

\* A start that the station accepted begins a transaction on a connector of its EVSE; the core
\* links it with the token's row, if there is one.
BeginsForCommand(c, t, k) ==
    /\ answered[c] = "Accepted" /\ dispatch[c].kind = "START" /\ ~Active(k)
    /\ \A s \in Sessions : transactions[s].by # c
    /\ protocol = "ocpp2.0.1" => k \in Named(requests[c].evse, 0)
    /\ Records(t, [NoTransaction EXCEPT !.connector = k, !.by = c,
                     !.linked = authorization.tenantPartner # Nobody,
                     !.remote = protocol = "ocpp2.0.1"])

\* Somebody charges with the token, or with a card that nobody knows.
BeginsLocally(t, k, linked) ==
    /\ ~Active(k) /\ linked => authorization.tenantPartner # Nobody
    /\ Records(t, [NoTransaction EXCEPT !.connector = k, !.linked = linked])

Ends(t) ==
    /\ transactions[t].isActive
    /\ transactions' = [transactions EXCEPT ![t].isActive = FALSE]
    /\ UNCHANGED <<protocol, online, status, reports, tokenOf, authorization, dispatch, sequence,
                   upserts, requests, answered, verdicts>>

Reports(k, now) ==
    /\ reports < MaxReports /\ reports' = reports + 1
    /\ \/ now # status[k] /\ status' = [status EXCEPT ![k] = now] /\ UNCHANGED online
       \/ online' = ~online /\ UNCHANGED status
    /\ UNCHANGED <<protocol, tokenOf, authorization, transactions, dispatch, sequence, upserts,
                   requests, answered, verdicts>>

-----------------------------------------------------------------------------
Gives(c) ==
    \E from \in Requesters : \E body \in Given[c] :
        \/ body.kind = "START" /\ StartAsked(c, from, body.evse, body.connector)
        \/ body.kind = "STOP" /\ StopAsked(c, from, body.session)
        \/ body.kind = "UNLOCK" /\ UnlockAsked(c, from, body.evse, body.connector)

Asks(c) == \/ PersistAuthorization(c) \/ GetCommandHandler(c) \/ NoHandler(c)
           \/ NextRemoteStartId(c) \/ SendStart16(c) \/ SendStart201(c) \/ SendStop(c)
           \/ SendUnlock16(c) \/ SendUnlock201(c) \/ UnlockNotFound(c)

StationActs ==
    \/ \E c \in Commands : \/ \E answer \in StatusesOf(dispatch[c].kind) : StationAnswers(c, answer)
                           \/ \E t \in Sessions, k \in Connectors : BeginsForCommand(c, t, k)
    \/ \E t \in Sessions : Ends(t) \/ \E k \in Connectors, linked \in BOOLEAN :
                                          BeginsLocally(t, k, linked)
    \/ \E k \in Connectors, now \in Reported : Reports(k, now)

DispatchNext == \/ \E c \in Commands : Gives(c) \/ Asks(c) \/ HandleAsyncCommandResponse(c)
                \/ UpsertSequence
                \/ StationActs

DispatchSpec == DispatchInit /\ [][DispatchNext]_dispatchVars
-----------------------------------------------------------------------------
(* Properties *)

\* The party that gave a start may stop what it started, whether it is a partner or behind
\* one, and whatever else the token is used for.  It is about the authorization that
\* handleStartSession stores before the station is asked, and handleStopSession's check of it.
StarterMayStop ==
    \A t \in Sessions : transactions[t].by # 0 => MayStop(dispatch[transactions[t].by].from, t)

\* A station is asked to stop a session that the core has linked with a token only for the party
\* that the token is of, or for the partner that it was received from: no other one stops it, not
\* even one behind the same partner.  It is about the check of handleStopSession.
StopsOwnSessions ==
    \A c \in Commands :
        requests[c].session # Nobody /\ transactions[requests[c].session].linked
            => dispatch[c].from \in {tokenOf, authorization.tenantPartner}

\* The request names the EVSE (2.0.1) and the connector (1.6, and to unlock) of the command by
\* the numbers that the station has for them.
AsksForTheNamed(command, request) ==
    /\ protocol = "ocpp2.0.1" => request.evse = command.evse
    /\ protocol = "ocpp1.6" \/ command.kind = "UNLOCK" =>
         \/ command.connector = 0 /\ request.connector = 0
         \/ \E x \in ConnectorRows :
              /\ x.id = command.connector
              /\ request.connector = IF protocol = "ocpp1.6" THEN x.connectorId ELSE x.evseTypeConnectorId

\* A start takes the connector's row id for its number in 1.6, and an unlock the EVSE's number for
\* its row id in 2.0.1: such a command, if the two differ, goes elsewhere.
ConfusesIds(command) ==
    \/ /\ protocol = "ocpp1.6" /\ command.kind = "START"
       /\ \E x \in ConnectorRows : x.id = command.connector /\ x.connectorId # x.id
    \/ /\ protocol = "ocpp2.0.1" /\ command.kind = "UNLOCK"
       /\ \E r \in EvseRows : r.id = command.evse /\ r.evseTypeId # r.id

\* What a station is asked is about the EVSE and the connector that the partner named, or is one of
\* the two commands of which that is not so: a start of OCPP 1.6, or an unlock of 2.0.1, at a
\* station whose numbers are not the ids of the rows.
ReachesTheNamed ==
    \A c \in Commands : requests[c] # NoRequest =>
        AsksForTheNamed(dispatch[c], requests[c]) \/ ConfusesIds(dispatch[c])

\* ACCEPTED is told of a command only if the station did what that very command asks for; and a
\* command that was refused is heard of no more.
AcceptedWasDone ==
    \A c \in Commands :
        /\ "ACCEPTED" \in verdicts[c] => answered[c] \in {"Accepted", "Unlocked"}
        /\ dispatch[c].at \in {"refused", "persist"} => verdicts[c] = {} /\ answered[c] = "none"

\* The inductive invariant.  The token's row is its party's, and says so from the first start
\* that has stored it on; a transaction keeps the token it is linked with.
RowIsOfToken ==
    /\ authorization.tenantPartner \in {Nobody, DirectOf[tokenOf]}
    /\ authorization.roamingPartner \in {Nobody, tokenOf}
    /\ authorization.roamingPartner # Nobody => tokenOf # DirectOf[tokenOf]
RowTellsOwner == authorization.tenantPartner = DirectOf[tokenOf] /\ Owner(authorization) = tokenOf
CommandIsSound(c) ==
    LET command == dispatch[c]
    IN  /\ command.at = "idle" => command = NoCommand
        /\ command.at # "idle" => command.kind # "none" /\ command.from \in Requesters
        /\ command.kind = "START" /\ command.at # "refused" => command.from = tokenOf
        /\ command.kind = "START" /\ command.at \notin {"refused", "persist"} => RowTellsOwner
        /\ command.kind = "START" /\ command.at # "refused" => command.connector \in Connectors \cup {0}
        /\ command.kind # "START" => command.at # "persist"
        /\ command.kind = "STOP" => command.evse = 0 /\ command.connector = 0
        /\ command.kind = "STOP" /\ command.at # "refused" =>
              /\ command.session \in Sessions /\ transactions[command.session].connector # 0
              /\ transactions[command.session].linked =>
                    command.from \in {tokenOf, authorization.tenantPartner}
        /\ requests[c] # NoRequest => command.at \in {"asked", "ended"}
        /\ requests[c].session # Nobody =>
              command.kind = "STOP" /\ requests[c].session = command.session
        /\ answered[c] # "none" => requests[c] # NoRequest
        /\ verdicts[c] # {} => command.at = "ended" \/ answered[c] # "none"
TransactionIsSound(t) ==
    /\ transactions[t].connector = 0 => transactions[t] = NoTransaction
    /\ transactions[t].by # 0 => /\ transactions[t].linked
                                 /\ dispatch[transactions[t].by].kind = "START"
                                 /\ dispatch[transactions[t].by].at \in {"asked", "ended"}
DispatchIInv == /\ DispatchTypeOK /\ RowIsOfToken /\ \A c \in Commands : CommandIsSound(c)
                /\ \A t \in Sessions : TransactionIsSound(t)
                /\ ReachesTheNamed /\ AcceptedWasDone
=============================================================================
