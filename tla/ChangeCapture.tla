---------------------------- MODULE ChangeCapture ----------------------------
(***************************************************************************)
(* What makes an event of a change: the triggers of the database and their *)
(* functions, which the migrations make, replace and remove statement by   *)
(* statement, and the handlers that pass a change on to partners or not.   *)
(* A function is abstracted to what handlers tell apart in its payloads.   *)
(***************************************************************************)
EXTENDS Naturals, Sequences, SequencesExt

CONSTANTS MaxBreaks,  \* bound: migrators that end between two statements
          MaxUndos    \* bound: migrations that are undone

ASSUME CaptureAssumption == MaxBreaks \in Nat /\ MaxUndos \in Nat

VARIABLES schema,    \* the triggers, and the functions by name
          applied,   \* how many migrations SequelizeMeta lists: the first ones
          migrator,  \* the migration under way and its statements to come
          torn,      \* history: listed migrations of which an undo broke off
          breaks, undos

captureVars == <<schema, applied, migrator, torn, breaks, undos>>

Stays == {"INSERT", "UPDATE"}
Ops == Stays \cup {"DELETE"}

\* A function: the operations it has data for, those of which the data is the whole row, what
\* else its data holds, whether an UPDATE must change more than the columns that are always
\* there, and the tables of which it passes a partner's rows over.
Plain(carries) == [for |-> Stays, whole |-> {"INSERT"}, carries |-> carries, compares |-> TRUE,
                   passesOver |-> {}]

Trigger(name, table, ops, function) == [name |-> name, table |-> table, ops |-> ops,
                                        function |-> function]

\* The statements.
Replace(function, body) == [do |-> "replace", function |-> function, body |-> body]
Forget(function) == [do |-> "forget", function |-> function]
Create(trigger) == [do |-> "create", trigger |-> trigger]
Drop(name) == [do |-> "drop", name |-> name]
-----------------------------------------------------------------------------
(* The migrations *)

\* One that makes a function with its trigger, and removes both when it is undone.
Introduces(trigger, body) ==
    [up |-> <<Replace(trigger.function, body), Create(trigger)>>,
     down |-> <<Drop(trigger.name), Forget(trigger.function)>>]
\* One that changes a function.
Changes(function, before, after) ==
    [up |-> <<Replace(function, after)>>, down |-> <<Replace(function, before)>>]

ChargingStation == Introduces(
    Trigger("ChargingStationNotification", "ChargingStations", {"UPDATE"}, "ChargingStationNotify"),
    [Plain({}) EXCEPT !.for = {"UPDATE"}, !.whole = {}])

Transaction == Introduces(
    Trigger("TransactionNotification", "Transactions", Stays, "TransactionNotify"), Plain({}))

OfTariffs == [Plain({"tenantPartnerId"}) EXCEPT !.for = Ops]
Tariff == Introduces(Trigger("TariffNotification", "Tariffs", Ops, "TariffNotify"), OfTariffs)

Evse == Introduces(Trigger("EvseNotification", "Evses", Stays, "EvseNotify"), Plain({}))

MeterValue == Introduces(
    Trigger("MeterValueNotification", "MeterValues", {"INSERT"}, "MeterValueNotify"),
    [Plain({}) EXCEPT !.for = {"INSERT"}])

Location == Introduces(Trigger("LocationNotification", "Locations", Stays, "LocationNotify"),
                       Plain({}))

Connector == Introduces(Trigger("ConnectorNotification", "Connectors", Stays, "ConnectorNotify"),
                        Plain({}))

OfAuthorizations(ops) == Trigger("AuthorizationNotification", "Authorizations", ops,
                                 "AuthorizationNotify")
Authorizations == Introduces(OfAuthorizations(Stays), Plain({"tenantPartnerId"}))

AuthorizationDelete ==
    [up |-> <<Drop("AuthorizationNotification"),
              Replace("AuthorizationNotify", [Plain({"tenantPartnerId"}) EXCEPT
                          !.for = Ops, !.whole = {"INSERT", "DELETE"}]),
              Create(OfAuthorizations(Ops))>>,
     down |-> <<Drop("AuthorizationNotification"),
                Replace("AuthorizationNotify", Plain({"tenantPartnerId"})),
                Create(OfAuthorizations(Stays))>>]

OwnerOfLocation == Changes("LocationNotify", Plain({}), Plain({"ownerTenantPartnerId"}))

OwnerOfConnector ==
    Changes("ConnectorNotify", Plain({}), Plain({"ocpiId", "ownerTenantPartner"}))

OwnerOfEvse == Changes("EvseNotify", Plain({}), Plain({"ocpiUid", "ownerTenantPartner"}))

\* Undone, it makes "the old (broken) function".
RemoveAuthorizations ==
    [up |-> <<Drop("AuthorizationNotification"), Forget("AuthorizationNotify")>>,
     down |-> <<Replace("AuthorizationNotify",
                        [Plain({}) EXCEPT !.whole = Stays, !.compares = FALSE]),
                Create(OfAuthorizations(Stays))>>]

\* The whole authorization, as it is now, with the tenants it is linked to, or was.
AuthorizationTenants ==
    [up |-> <<Replace("AuthorizationNotify",
                      [Plain({"tenants"}) EXCEPT !.for = Ops, !.whole = Ops, !.compares = FALSE]),
              Create(Trigger("AuthorizationTenantNotification", "AuthorizationTenants", Ops,
                             "AuthorizationNotify")),
              Create(OfAuthorizations({"UPDATE"})),
              Create(Trigger("AuthorizationDeleteNotification", "Authorizations", {"DELETE"},
                             "AuthorizationNotify"))>>,
     down |-> <<Drop("AuthorizationTenantNotification"), Drop("AuthorizationNotification"),
                Drop("AuthorizationDeleteNotification"), Forget("AuthorizationNotify")>>]

OnElements == Create(Trigger("TariffElementNotification", "TariffElements", Ops, "TariffNotify"))
WithElements == Replace("TariffNotify", [OfTariffs EXCEPT !.passesOver = {"TariffElements"}])

\* Mutant: the trigger is made before the function that knows its table.
TariffsElementHasty ==
    [up |-> <<OnElements, WithElements>>,
     down |-> <<Drop("TariffElementNotification"), Replace("TariffNotify", OfTariffs)>>]

TariffsElement ==
    [up |-> <<WithElements, OnElements>>,
     down |-> <<Drop("TariffElementNotification"), Replace("TariffNotify", OfTariffs)>>]

\* The owner is left out, and comes back neither by this nor when it is undone.
ConnectorStatus == Changes("ConnectorNotify", Plain({}), Plain({"isStatusChanged"}))

ConnectorTariffs == Introduces(
    Trigger("ConnectorTariffNotification", "ConnectorTariffs", Ops, "ConnectorTariffNotify"),
    [for |-> Ops, whole |-> {}, carries |-> {"tenantPartnerId"}, compares |-> FALSE,
     passesOver |-> {"ConnectorTariffs"}])

DisableLocation == Changes("LocationNotify", Plain({"ownerTenantPartnerId"}),
                           Plain({"ownerTenantPartnerId", "disableOCPI"}))

DisableEvse == Changes("EvseNotify", Plain({"ocpiUid", "ownerTenantPartner"}),
                       Plain({"ocpiUid", "ownerTenantPartner", "disableOCPI"}))

DisableConnector == Changes("ConnectorNotify", Plain({"isStatusChanged"}),
                            Plain({"isStatusChanged", "disableOCPI"}))

\* In the order of their names.
Migrations ==
    <<ChargingStation, Transaction, Tariff, Evse, MeterValue, Location, Connector,
      Authorizations, AuthorizationDelete, OwnerOfLocation, OwnerOfConnector, OwnerOfEvse,
      RemoveAuthorizations, AuthorizationTenants, TariffsElement, ConnectorStatus,
      ConnectorTariffs, DisableLocation, DisableEvse, DisableConnector>>
-----------------------------------------------------------------------------
(* The migrator *)

NoFunction == [Plain({}) EXCEPT !.for = {}]
Functions == {"ChargingStationNotify", "TransactionNotify", "TariffNotify", "EvseNotify",
              "MeterValueNotify", "LocationNotify", "ConnectorNotify", "AuthorizationNotify",
              "ConnectorTariffNotify"}
NoSchema == [triggers |-> {}, functions |-> [f \in Functions |-> NoFunction]]

\* What a statement leaves.  A name is dropped if it is there.
Leaves(now, s) ==
    CASE s.do = "replace" -> [now EXCEPT !.functions[s.function] = s.body]
      [] s.do = "forget" -> [now EXCEPT !.functions[s.function] = NoFunction]
      [] s.do = "create" -> [now EXCEPT !.triggers = @ \cup {s.trigger}]
      [] s.do = "drop" -> [now EXCEPT !.triggers = {t \in @ : t.name # s.name}]

\* A trigger is not made twice, and a function that one calls is not removed.
Refused(now, s) ==
    \/ s.do = "create" /\ \E t \in now.triggers : t.name = s.trigger.name
    \/ s.do = "forget" /\ \E t \in now.triggers : t.function = s.function

Idle == [of |-> 0, way |-> "up", left |-> <<>>]

CaptureInit == /\ schema = NoSchema /\ applied = 0 /\ migrator = Idle
               /\ torn = {} /\ breaks = 0 /\ undos = 0

Up == /\ migrator = Idle /\ applied < Len(Migrations)
      /\ migrator' = [of |-> applied + 1, way |-> "up", left |-> Migrations[applied + 1].up]
      /\ UNCHANGED <<schema, applied, torn, breaks, undos>>

Undo == /\ migrator = Idle /\ applied > 0 /\ undos < MaxUndos
        /\ migrator' = [of |-> applied, way |-> "down", left |-> Migrations[applied].down]
        /\ undos' = undos + 1
        /\ UNCHANGED <<schema, applied, torn, breaks>>

\* Each statement is committed alone.
Executes == /\ migrator.left # <<>> /\ ~Refused(schema, Head(migrator.left))
            /\ schema' = Leaves(schema, Head(migrator.left))
            /\ migrator' = [migrator EXCEPT !.left = Tail(@)]
            /\ UNCHANGED <<applied, torn, breaks, undos>>

Recorded == /\ migrator # Idle /\ migrator.left = <<>>
            /\ applied' = IF migrator.way = "up" THEN migrator.of ELSE migrator.of - 1
            /\ torn' = torn \ {migrator.of}
            /\ migrator' = Idle
            /\ UNCHANGED <<schema, breaks, undos>>

BreaksOff == /\ migrator' = Idle
             /\ torn' = torn \cup (IF migrator.way = "down" THEN {migrator.of} ELSE {})
             /\ UNCHANGED <<schema, applied, undos>>
StatementFails == /\ migrator.left # <<>> /\ Refused(schema, Head(migrator.left))
                  /\ BreaksOff /\ UNCHANGED breaks
MigratorEnds == /\ migrator # Idle /\ breaks < MaxBreaks
                /\ BreaksOff /\ breaks' = breaks + 1

CaptureNext == Up \/ Undo \/ Executes \/ Recorded \/ StatementFails \/ MigratorEnds
-----------------------------------------------------------------------------
(* A change of a row, and what is broadcast of it *)

Markers == [Locations |-> "ownerTenantPartnerId", Evses |-> "ocpiUid", Connectors |-> "ocpiId",
            Tariffs |-> "tenantPartnerId", Authorizations |-> "tenantPartnerId",
            AuthorizationTenants |-> "tenantPartnerId", ConnectorTariffs |-> "tenantPartnerId"]
Tables == DOMAIN Markers \cup {"ChargingStations", "TariffElements", "Transactions", "MeterValues"}

\* of: whose row it is; changed: whether an UPDATE changes the status of a connector, what is told
\* of a session (anything, once it has ended), something else, or nothing but updatedAt; disabled:
\* OCPI is, for the location; tenants: the authorization is linked to some; parent: the tariff of
\* an element, or the authorization of a link, is not removed with it.
Rows == [table : Tables, op : Ops, of : {"own", "partner"}, changed : {"nothing", "status", "else"},
         disabled : BOOLEAN, tenants : BOOLEAN, parent : BOOLEAN]

\* What the receiver writes of a partner leaves the status of connectors alone, and links no
\* token to a tenant; sessions of partners have a table of their own.
Possible(c) ==
    /\ c.op # "UPDATE" => c.changed = "else"
    /\ c.table \notin {"Connectors", "ConnectorTariffs"} => ~c.disabled
    /\ c.table = "AuthorizationTenants" => c.tenants
    /\ c.table \notin {"Authorizations", "AuthorizationTenants"} => ~c.tenants
    /\ c.table \notin {"AuthorizationTenants", "TariffElements"} \/ c.op # "DELETE" => c.parent
    /\ c.of = "partner" => /\ c.table # "Connectors" \/ c.changed # "status"
                           /\ ~c.tenants /\ c.table \notin {"Transactions", "MeterValues"}
ChangesOfRows == {c \in Rows : Possible(c)}

\* The data of a change has the columns of its row, or some of them.
Notified(f, c) ==
    /\ c.op \in f.for
    /\ f.compares /\ c.op = "UPDATE" /\ c.table # "TariffElements" => c.changed # "nothing"
    /\ c.table \in f.passesOver => c.of = "own" /\ c.parent

ShowsPartner(f, c) ==
    /\ c.of = "partner" /\ c.parent
    /\ \/ "ownerTenantPartner" \in f.carries
       \/ c.table \in DOMAIN Markers /\ (c.op \in f.whole \/ Markers[c.table] \in f.carries)

\* Mutant: a tariff is passed on, whoever it is of.
HandleAnyTariff(f, c) == TRUE

HandleTariff(f, c) == ~ShowsPartner(f, c)

HandleAuthorization(f, c) == ~ShowsPartner(f, c) /\ "tenants" \in f.carries /\ c.tenants

HandleConnector(f, c) ==
    /\ c.op = "UPDATE" /\ ~ShowsPartner(f, c)
    /\ "disableOCPI" \in f.carries => ~c.disabled
    /\ "isStatusChanged" \in f.carries /\ c.changed = "status"

\* The connector and its location are read again.
HandleConnectorTariffChange(f, c) == ~ShowsPartner(f, c) /\ c.of = "own" /\ ~c.disabled

HandleTransactionInsert(c) == c.op = "INSERT"
HandleTransactionUpdate(c) == c.op = "UPDATE" /\ c.changed = "status"

\* The broadcasts of locations, stations and EVSEs are commented out, as those of new connectors.
QuietLocations == {"LocationNotify", "ChargingStationNotify"}
QuietEvses == {"EvseNotify"}

\* The functions whose channel is listened to: a module handles their events.
ListenedTo == Functions \ {"MeterValueNotify"}

Broadcast(function, c) ==
    LET f == schema.functions[function]
    IN  /\ Notified(f, c)
        /\ CASE function = "TariffNotify" -> HandleTariff(f, c)
             [] function = "AuthorizationNotify" -> HandleAuthorization(f, c)
             [] function = "ConnectorNotify" -> HandleConnector(f, c)
             [] function = "ConnectorTariffNotify" -> HandleConnectorTariffChange(f, c)
             [] function = "TransactionNotify" -> HandleTransactionInsert(c)
                                                  \/ HandleTransactionUpdate(c)
             [] function \in QuietLocations \cup QuietEvses -> FALSE
Told(c) == \E t \in schema.triggers : /\ t.table = c.table /\ c.op \in t.ops
                                      /\ t.function \in ListenedTo /\ Broadcast(t.function, c)
-----------------------------------------------------------------------------
(* Properties *)

CaptureTypeOK ==
    /\ schema.functions \in [Functions -> {NoFunction} \cup
          {r.body : r \in UNION {{s \in Range(m.up \o m.down) : s.do = "replace"} :
                                    m \in Range(Migrations)}}]
    /\ applied \in 0..Len(Migrations) /\ migrator.of \in 0..Len(Migrations)
    /\ torn \subseteq 1..applied /\ breaks \in 0..MaxBreaks /\ undos \in 0..MaxUndos

\* A database that lists all migrations has the triggers and functions of one that was migrated
\* without a break, whatever broke off, failed or was undone before; unless an undo broke off.
Migrated == migrator = Idle /\ applied = Len(Migrations) /\ torn = {}
Fresh == FoldLeft(Leaves, NoSchema, FlattenSeq([m \in DOMAIN Migrations |-> Migrations[m].up]))
SchemaConverges == Migrated => schema = Fresh

\* No handler broadcasts a row of a partner, between any two statements of any migration, its
\* undo and its repetition.
NothingEchoed == \A c \in ChangesOfRows : Told(c) => c.of = "own"

\* On a migrated database a change of an own row is broadcast if partners are to know of it, and
\* otherwise not: a trigger for each, with a function that gives its handler what that looks at.
ToldToPartners(c) ==
    \/ c.table = "Connectors" /\ c.op = "UPDATE" /\ c.changed = "status" /\ ~c.disabled
    \/ c.table = "ConnectorTariffs" /\ ~c.disabled
    \/ c.table = "Tariffs" /\ c.changed # "nothing"
    \/ c.table = "TariffElements" /\ c.parent
    \/ c.table = "AuthorizationTenants"  \* each link that goes with its authorization, too
    \/ c.table = "Authorizations" /\ c.op # "INSERT" /\ c.tenants
    \/ c.table = "Transactions" /\ (c.op = "INSERT" \/ c.changed = "status")
OwnChangesTold == Migrated => \A c \in ChangesOfRows :
                                 c.of = "own" => (Told(c) <=> ToldToPartners(c))

ChangesAreCaptured == CaptureTypeOK /\ SchemaConverges /\ NothingEchoed /\ OwnChangesTold
=============================================================================
