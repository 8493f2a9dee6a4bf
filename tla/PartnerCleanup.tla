---------------------------- MODULE PartnerCleanup -----------------------------
(***************************************************************************)
(* The scripts that remove a partner's rows, one per table.  Each counts,  *)
(* and while it has counted any it finds a batch of ids, deletes them and  *)
(* counts again.  EVSEs, connectors and stations are the partner's by the  *)
(* location of their station, so what a script finds depends on which      *)
(* other scripts have run, and each takes rows of one tenant only, which   *)
(* it is told apart from the partner.  What the database does to the rows  *)
(* that refer to a deleted one is declared in the core, not visible here.  *)
(***************************************************************************)
EXTENDS Naturals, FiniteSets

CONSTANTS CleanRows,    \* the rows there may be
          TableOf,      \* TableOf[r]
          RefersTo,     \* RefersTo[r]: the rows that r's foreign keys name when it is made
          PartnerIdOf,  \* PartnerIdOf[r]: the partner's id in a location, link or tariff, or "null"
          Cleaned,      \* the partner whose rows are removed
          Tenants,      \* what TENANT_ID may be
          TenantOf,     \* TenantOf[r]: tenantId
          TenantOfCleaned,  \* the tenant that the partner is a partner of
          BatchSize,    \* BATCH_SIZE
          Sweepers,     \* scripts at a time, a bound
          TablesOf,     \* bound: TablesOf[s], the tables whose scripts s runs
          Returning     \* bound: the rows that come again while scripts run, one of them once

CleanTables == {"locations", "stations", "evses", "connectors", "links", "tariffs"}

ASSUME CleanupAssumption ==
    /\ IsFiniteSet(CleanRows)
    /\ TableOf \in [CleanRows -> CleanTables] /\ RefersTo \in [CleanRows -> SUBSET CleanRows]
    /\ TablesOf \in [Sweepers -> SUBSET CleanTables]
    /\ TenantOf \in [CleanRows -> Tenants] /\ TenantOfCleaned \in Tenants
    /\ BatchSize \in Nat \ {0} /\ Returning \subseteq CleanRows

\* A partner's row: it names the partner, or was made under one of its rows.
ClosedBelow(those) == \A r \in CleanRows :
                        PartnerIdOf[r] = Cleaned \/ RefersTo[r] \cap those # {} => r \in those
TheirRows == {r \in CleanRows : \A above \in SUBSET CleanRows : ClosedBelow(above) => r \in above}

\* How the server makes the rows (LocationReceiverService): a station for a location, an EVSE at
\* a station, a connector at an EVSE and its station, none of which name the partner; a location,
\* a tariff and a link of a connector to a tariff do.  All are given the partner's tenant.
ASSUME RowsAreMadeSo ==
    /\ \A r \in TheirRows : TenantOf[r] = TenantOfCleaned
    /\ \A r \in CleanRows :
         CASE TableOf[r] = "stations" ->
              PartnerIdOf[r] # Cleaned /\ \A p \in RefersTo[r] : TableOf[p] = "locations"
           [] TableOf[r] = "evses" ->
              PartnerIdOf[r] # Cleaned /\ \A p \in RefersTo[r] : TableOf[p] = "stations"
           [] TableOf[r] = "connectors" ->
              /\ PartnerIdOf[r] # Cleaned
              /\ \A p \in RefersTo[r] : \/ TableOf[p] = "stations"
                                        \/ TableOf[p] = "evses" /\ RefersTo[p] \subseteq RefersTo[r]
           [] OTHER -> PartnerIdOf[r] = Cleaned \/ RefersTo[r] \cap TheirRows = {}

VARIABLES onDelete,  \* what the database does to rows that refer to a deleted one
          present,      \* the rows there are
          refersNow,      \* refersNow[r]: what r refers to still
          sweep,     \* sweep[s]: where a script is
          returned,  \* one has come again
          swept,     \* history: tables whose script, run for the partner's tenant, ended after
                     \* those of all that refer to them, and that have had no new row since
          inOrder,   \* history: none of these was started before those had ended, and no row
                     \* came again
          surplus    \* history: totalDeleted of all scripts, less the rows that answers named

cleanupVars == <<onDelete, present, refersNow, sweep, returned, swept, inOrder, surplus>>

NoSweep == [at |-> "idle", table |-> "links", tenant |-> TenantOfCleaned, ids |-> {}]

CleanupTypeOK ==
    /\ onDelete \in {"refuse", "set null", "cascade"}
    /\ present \subseteq CleanRows /\ refersNow \in [CleanRows -> SUBSET CleanRows]
    /\ returned \in BOOLEAN
    /\ sweep \in [Sweepers -> [at : {"idle", "count", "fetch", "delete"}, table : CleanTables,
                               tenant : Tenants, ids : SUBSET CleanRows]]
    /\ swept \subseteq CleanTables /\ inOrder \in BOOLEAN /\ surplus \in Nat
-----------------------------------------------------------------------------
(* What each script takes for the partner's *)

Those(table) == {r \in present : TableOf[r] = table}
Named(table) == {r \in Those(table) : PartnerIdOf[r] = Cleaned}
Under(table, parents) == {r \in Those(table) : refersNow[r] \cap parents # {}}
OfTenant(rows, tenant) == {r \in rows : TenantOf[r] = tenant}

\* The clauses on what a row is under do not ask for a tenant (theirs are commented out).
OwnedStations == Under("stations", Named("locations"))

LocationRows(tenant) == OfTenant(Named("locations"), tenant)
StationRows(tenant) == OfTenant(OwnedStations, tenant)

\* Mutant: the filter's clause on the location is commented out.
AnyEvseRows(tenant) == OfTenant(Those("evses"), tenant)
EvseRowsOfPartner(tenant) == OfTenant(Under("evses", OwnedStations), tenant)
ConnectorRows(tenant) == OfTenant(Under("connectors", OwnedStations), tenant)
LinkRows(tenant) == OfTenant(Named("links"), tenant)
TariffRows(tenant) == OfTenant(Named("tariffs"), tenant)

FoundBy(table, tenant) ==
    CASE table = "locations" -> LocationRows(tenant)
      [] table = "stations" -> StationRows(tenant)
      [] table = "evses" -> EvseRowsOfPartner(tenant)
      [] table = "connectors" -> ConnectorRows(tenant)
      [] table = "links" -> LinkRows(tenant)
      [] table = "tariffs" -> TariffRows(tenant)

CleanupInit ==
    /\ onDelete \in {"refuse", "set null", "cascade"}
    /\ present = CleanRows /\ refersNow = RefersTo
    /\ sweep = [s \in Sweepers |-> NoSweep] /\ returned = FALSE
    /\ swept = {} /\ inOrder = TRUE /\ surplus = 0
-----------------------------------------------------------------------------
(* A script *)

\* The tables whose rows refer to rows of this one.
Children(table) ==
    {TableOf[r] : r \in {q \in CleanRows : \E p \in RefersTo[q] : TableOf[p] = table}}

\* main begins, for the tenant of the environment; one that names none is tenant 8 to the
\* script of the tariffs and tenant 1 to the others.  A script that ended, or broke off, may be
\* started again.
StartScript(s, table, tenant) ==
    /\ sweep[s].at = "idle" /\ table \in TablesOf[s]
    /\ sweep' = [sweep EXCEPT ![s] = [NoSweep EXCEPT !.at = "count", !.table = table, !.tenant = tenant]]
    /\ inOrder' = (inOrder /\ (tenant = TenantOfCleaned => Children(table) \subseteq swept))
    /\ UNCHANGED <<onDelete, present, refersNow, returned, swept, surplus>>

FoundFor(s) == FoundBy(sweep[s].table, sweep[s].tenant)

\* The script has ended with none left: a table of the partner's is swept.
SweptBy(s) == IF sweep[s].tenant = TenantOfCleaned /\ Children(sweep[s].table) \subseteq swept
                THEN swept \cup {sweep[s].table} ELSE swept

\* Mutant: the loop ends when a last batch is left.
CountLastBatch(s) ==
    LET done == Cardinality(FoundFor(s)) <= BatchSize
    IN  /\ sweep[s].at = "count"
        /\ sweep' = [sweep EXCEPT ![s] = IF done THEN NoSweep ELSE [@ EXCEPT !.at = "fetch"]]
        /\ swept' = IF done THEN SweptBy(s) ELSE swept
        /\ UNCHANGED <<onDelete, present, refersNow, returned, inOrder, surplus>>

\* countRemaining: without rows the script is done.
CountRemaining(s) ==
    LET done == FoundFor(s) = {}
    IN  /\ sweep[s].at = "count"
        /\ sweep' = [sweep EXCEPT ![s] = IF done THEN NoSweep ELSE [@ EXCEPT !.at = "fetch"]]
        /\ swept' = IF done THEN SweptBy(s) ELSE swept
        /\ UNCHANGED <<onDelete, present, refersNow, returned, inOrder, surplus>>

\* fetchBatchIds; with nothing found the loop is left.  A dry run ends here, as by BreaksOff.
FetchBatch(s) ==
    LET found == FoundFor(s)
        IsBatch(ids) == \/ Cardinality(ids) = BatchSize
                        \/ Cardinality(ids) < BatchSize /\ ids = found
    IN  /\ sweep[s].at = "fetch"
        /\ \E ids \in SUBSET found :
              /\ IsBatch(ids)
              /\ sweep' = [sweep EXCEPT ![s] = IF ids = {} THEN NoSweep
                                               ELSE [@ EXCEPT !.at = "delete", !.ids = ids]]
        /\ UNCHANGED <<onDelete, present, refersNow, returned, swept, inOrder, surplus>>

\* The rows that go with those deleted.
Falls(those) == \A r \in present : refersNow[r] \cap those # {} => r \in those
Falling(ids) == {r \in present : \A those \in SUBSET present : ids \subseteq those /\ Falls(those) => r \in those}

\* Mutant: the summary counts the ids that were asked for.
CountIds(s) == Cardinality(sweep[s].ids)

\* affected_rows: what another script deleted meanwhile is not counted again.
Affected(s) == Cardinality(sweep[s].ids \cap present)

\* One statement deletes the batch, all of it, or the database refuses; its answer may be lost.
\* What is thrown ends main.
DeleteBatch(s, answered) ==
    LET ids == sweep[s].ids \cap present
        gone == IF onDelete = "cascade" THEN Falling(ids) ELSE ids
        refused == onDelete = "refuse" /\ \E r \in present \ ids : refersNow[r] \cap ids # {}
    IN  /\ sweep[s].at = "delete"
        /\ present' = IF refused THEN present ELSE present \ gone
        /\ refersNow' = IF refused THEN refersNow ELSE [r \in CleanRows |-> refersNow[r] \ gone]
        /\ IF refused \/ ~answered
             THEN sweep' = [sweep EXCEPT ![s] = NoSweep] /\ UNCHANGED surplus
             ELSE /\ sweep' = [sweep EXCEPT ![s] = [@ EXCEPT !.at = "count", !.ids = {}]]
                  /\ surplus' = surplus + Affected(s) - Cardinality(ids)
        /\ UNCHANGED <<onDelete, returned, swept, inOrder>>

\* Another request fails, or the process is ended.
BreaksOff(s) == /\ sweep[s].at # "idle" /\ sweep' = [sweep EXCEPT ![s] = NoSweep]
                /\ UNCHANGED <<onDelete, present, refersNow, returned, swept, inOrder, surplus>>

\* The partner, who is not told, PUTs again what was deleted.
ComesAgain(r) == /\ r \notin present /\ RefersTo[r] \subseteq present
                 /\ ~returned /\ returned' = TRUE
                 /\ present' = present \cup {r}
                 /\ refersNow' = [refersNow EXCEPT ![r] = RefersTo[r]]
                 /\ swept' = swept \ {TableOf[r]} /\ inOrder' = FALSE
                 /\ UNCHANGED <<onDelete, sweep, surplus>>

\* main, of any of the scripts.
Script(s, table) ==
    \/ \E tenant \in Tenants : StartScript(s, table, tenant)
    \/ /\ sweep[s].table = table
       /\ \/ CountRemaining(s) \/ FetchBatch(s) \/ BreaksOff(s)
          \/ \E answered \in BOOLEAN : DeleteBatch(s, answered)

RemoveLinks(s) == Script(s, "links")
RemoveConnectors(s) == Script(s, "connectors")
RemoveEvses(s) == Script(s, "evses")
RemoveStations(s) == Script(s, "stations")
RemoveLocations(s) == Script(s, "locations")
RemoveTariffs(s) == Script(s, "tariffs")

CleanupNext ==
    \/ \E s \in Sweepers :
          \/ RemoveLinks(s) \/ RemoveConnectors(s) \/ RemoveEvses(s)
          \/ RemoveStations(s) \/ RemoveLocations(s) \/ RemoveTariffs(s)
    \/ \E r \in Returning : ComesAgain(r)

CleanupSpec == CleanupInit /\ [][CleanupNext]_cleanupVars
-----------------------------------------------------------------------------
(* Properties *)

\* A table whose script has ended, run for the partner's tenant and after those of all tables
\* that refer to it, holds no row of the partner, also none that no location leads to any more,
\* whatever broke off before.  In another order, or if rows come again, it may where deleting a
\* row nulls what refers to it; and a run for another tenant ends the same way and leaves all.
SweptIsGone == inOrder \/ onDelete # "set null" =>
                  \A t \in swept : Those(t) \cap TheirRows = {}

\* No script deletes a row of anyone else, nor a reference of one.
OthersStay == \A r \in CleanRows \ TheirRows : r \in present /\ refersNow[r] = RefersTo[r]

\* The rows that scripts delete are each counted by one of them, also when two run at once.
CountedOnce == surplus = 0

\* What is found of a table is all of the partner's as long as rows refer to what they were made
\* under.  It is no longer so where deleting a row nulls what refers to it, except in the scripts'
\* order, in which none of the rows that refer to it is left.
Intact == inOrder \/ onDelete # "set null" =>
            \A r \in present : refersNow[r] = RefersTo[r] /\ RefersTo[r] \subseteq present

CleanupIInv ==
    /\ CleanupTypeOK /\ CountedOnce /\ OthersStay /\ SweptIsGone /\ Intact
    /\ \A r \in CleanRows : refersNow[r] \subseteq RefersTo[r]
    /\ \A s \in Sweepers :
         /\ sweep[s].at = "delete" =>
              sweep[s].ids \subseteq {r \in TheirRows : /\ TableOf[r] = sweep[s].table
                                                      /\ TenantOf[r] = sweep[s].tenant}
         /\ inOrder /\ sweep[s].at # "idle" /\ sweep[s].tenant = TenantOfCleaned =>
              Children(sweep[s].table) \subseteq swept
=============================================================================
