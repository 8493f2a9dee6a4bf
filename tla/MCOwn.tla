-------------------------------- MODULE MCOwn --------------------------------
(***************************************************************************)
(* What the server tells partners of its own rows, for TLC: the periods of *)
(* a session, the status of an EVSE, a tariff, a token, and the lists a    *)
(* partner pages through.  They share no row, so an execution is one of    *)
(* the six, and a run explores the sum of their states.                    *)
(***************************************************************************)
EXTENDS SessionPeriods, EvseStatus, OwnTariff, OwnToken, BulkPush, Listings

\* Instants and registers whose differences round in every way.
MCMeter == [t \in {2, 16, 24, 37} |-> CASE t = 2 -> 7 [] t = 16 -> 14 [] t = 24 -> 25 [] OTHER -> 36]
MCReports == {{"all"}, {"L1", "L2", "L1-N", "L2-N"}, {"SoC"}, {"all", "L1", "L2", "SoC"}}

CONSTANTS c1, c2, gireve, p1
MCReported == (c1 :> {"Available", "Occupied"}) @@ (c2 :> {"Faulted", "Charging"})
MCTariffsOf == (c1 :> {"none", "t1"}) @@ (c2 :> {"none"})
MCPartnersOf == ("FR" :> {gireve, p1}) @@ ("NL" :> {p1})
MCOneOrder == <<"w1", "w2">>

VARIABLE part
ownVars == <<periodVars, evseVars, ownTariffVars, ownTokenVars, bulkVars, listingVars, part>>

\* The other parts stay at one of their initial states.
OwnInit == /\ PeriodsInit /\ EvseInit /\ OwnTariffInit /\ OwnTokenInit /\ BulkInit
           /\ ListingsInit
           /\ part \in {"periods", "evse", "tariff", "token", "bulk", "list"}
           /\ part = "periods" \/ tx.meterStart = {}
           /\ part = "evse" \/ connectors = (c1 :> "Available") @@ (c2 :> "Faulted")
           /\ part = "tariff" \/ own.named
           /\ part = "bulk" \/ <<pushed, table>> = <<"tokens", MCOneOrder>>
           /\ part = "list" \/ <<interface, entries, reader.limit>> = <<"cdrs", <<>>, 1>>

OfPeriods == /\ part = "periods" /\ PeriodsNext
             /\ UNCHANGED <<part, evseVars, ownTariffVars, ownTokenVars, bulkVars, listingVars>>
OfEvse == /\ part = "evse" /\ EvseNext
          /\ UNCHANGED <<part, periodVars, ownTariffVars, ownTokenVars, bulkVars, listingVars>>
OfTariff == /\ part = "tariff" /\ OwnTariffNext
            /\ UNCHANGED <<part, periodVars, evseVars, ownTokenVars, bulkVars, listingVars>>
OfToken == /\ part = "token" /\ OwnTokenNext
           /\ UNCHANGED <<part, periodVars, evseVars, ownTariffVars, bulkVars, listingVars>>
OfBulk == /\ part = "bulk" /\ BulkNext
          /\ UNCHANGED <<part, periodVars, evseVars, ownTariffVars, ownTokenVars, listingVars>>
OfList == /\ part = "list" /\ ListingsNext
          /\ UNCHANGED <<part, periodVars, evseVars, ownTariffVars, ownTokenVars, bulkVars>>

OwnNext == OfPeriods \/ OfEvse \/ OfTariff \/ OfToken \/ OfBulk \/ OfList
OwnSpec == OwnInit /\ [][OwnNext]_ownVars /\ EvseFairness
-----------------------------------------------------------------------------
\* The variables keep their types, and a change made in a location that has been disabled ever
\* since is not pushed; with the inductive invariants of what is told and paged.
OwnIInv == /\ PeriodsTypeOK /\ EvseIInv /\ OwnTariffIInv /\ OwnTokenIInv /\ BulkIInv
           /\ ListingsIInv
           /\ DisabledIsNotPushed

\* What a partner was told last is what the row holds, once its handler was alone and reached
\* the partner: of an EVSE and its connectors, of a tariff, of a token.  Overlapping handlers
\* and failed requests may leave anything, but the next change that is handled alone heals it.
ToldIsTrue == SettledIsTrue /\ TariffIsTold /\ TokenIsTold

\* Who goes through a list by pages misses no row that stays: a partner that follows the links
\* misses no more rows than leave the list, and a push of all rows ends with each row that was
\* there throughout in its summary, with the partner if it is a token counted as pushed.
PagesReachAll == PagesCover /\ SummaryCovers /\ SucceededArrived
=============================================================================
