----------------------------- MODULE MCReceived -----------------------------
(***************************************************************************)
(* What a partner sends and the server stores, for TLC: one location and   *)
(* its columns, one session, one tariff, what pulls and requests store of  *)
(* several, which party's rows a request touches, the tokens each side is  *)
(* to use (CredentialsHandshake), the rows that an administrator sets up   *)
(* for a partner behind a hub (Onboarding), and the scripts that remove a  *)
(* partner's rows (PartnerCleanup).  An execution is one of one of them,   *)
(* and a run explores the sum of their states.                             *)
(***************************************************************************)
EXTENDS ReceivedLocation, ReceivedFields, ReceivedSession, ReceivedTariff, PartnerPull,
        PartyRows, CredentialsHandshake, Onboarding, PartnerCleanup, TLC

E1 == [uid |-> "e1", status |-> "AVAILABLE", connector |-> TRUE, tariffs |-> {"t2"}]
E1Plain == [uid |-> "e1", status |-> "REMOVED", connector |-> FALSE, tariffs |-> {}]
E2 == [uid |-> "e2", status |-> "AVAILABLE", connector |-> FALSE, tariffs |-> {}]
MCBodies == {<<>>, <<E1>>, <<E1Plain, E2>>}

\* Two bodies that share the opening times and nothing else.
MCFieldBodies == {{"name", "state", "regular hours"}, {"exceptional hours"}}

\* Three parties use one id; the last is not registered here.
MCItems == {"d1", "r1", "x1"}
MCPartyOf == ("d1" :> "hub") @@ ("r1" :> "roaming") @@ ("x1" :> "stranger")
MCIdOf == [i \in MCItems |-> "1"]
MCFirst == {<<"d1", "r1">>}

\* One partner speaks for another party too.
MCBehind == ("hub" :> {"roaming"}) @@ ("peer" :> {})

\* A location of the partner with what belongs to it, and a station of another tenant's.
MCRows == {"L", "S", "E", "C", "K", "K2", "S0", "E0"}
MCTableOf == [r \in MCRows |-> CASE r = "L" -> "locations"
                                 [] r \in {"S", "S0"} -> "stations"
                                 [] r \in {"E", "E0"} -> "evses"
                                 [] r = "C" -> "connectors"
                                 [] OTHER -> "links"]
MCRefersTo == [r \in MCRows |-> CASE r = "S" -> {"L"} [] r = "E" -> {"S"} [] r = "E0" -> {"S0"}
                                  [] r = "C" -> {"S", "E"} [] r \in {"K", "K2"} -> {"C"}
                                  [] OTHER -> {}]
MCPartnerIdOf == [r \in MCRows |-> IF r \in {"L", "K", "K2"} THEN "hub" ELSE "null"]
MCTenantOf == [r \in MCRows |-> IF r \in {"S0", "E0"} THEN 8 ELSE 1]
MCTablesOf == [s \in {1, 2} |-> IF s = 1 THEN CleanTables ELSE {"links"}]

\* The calls on a location are interchangeable, and so are the contracts of roaming partners.
Symmetry == Permutations(LocationCalls) \cup Permutations(Contracts)

VARIABLE part
receivedVars == <<locationVars, fieldVars, sessionVars, tariffVars, partnerPullVars,
                  credentialsVars, partyVars, onboardingVars, cleanupVars, part>>

\* The other parts stay at one of their initial states.  Sessions are pulled as tariffs of all
\* parties are, so that one of the two has a unique key here and the other has none.
ReceivedInit ==
    /\ part \in {"location", "fields", "session", "tariff", "items", "credentials",
                 "rows", "onboarding", "cleanup"}
    /\ LocationInit /\ knownTariffs = {"t1"}
    /\ FieldInit /\ (part = "fields" \/ \A p \in Parties : fieldRows[p] = NothingReceived)
    /\ SessionInit /\ TariffInit
    /\ PartnerPullInit /\ keyed = (interfaceOf # "tariffs")
    /\ part = "items" \/ interfaceOf = "cdrs"
    /\ CredentialsInit /\ (part = "credentials" \/ minted = 0)
    /\ PartyInit /\ (part = "rows" \/ resource = "cdrs")
    /\ OnboardingInit
    /\ part = "onboarding" \/ (roaming = {} /\ hubKnown /\ uniqueKey)
    /\ CleanupInit /\ (part = "cleanup" \/ onDelete = "refuse")

Location == /\ part = "location" /\ LocationNext
            /\ UNCHANGED <<part, fieldVars, sessionVars, tariffVars, partnerPullVars,
                           credentialsVars, partyVars, onboardingVars, cleanupVars>>
Fields == /\ part = "fields" /\ FieldNext
          /\ UNCHANGED <<part, locationVars, sessionVars, tariffVars, partnerPullVars,
                         credentialsVars, partyVars, onboardingVars, cleanupVars>>
Session == /\ part = "session" /\ SessionNext
           /\ UNCHANGED <<part, locationVars, fieldVars, tariffVars, partnerPullVars,
                          credentialsVars, partyVars, onboardingVars, cleanupVars>>
Tariff == /\ part = "tariff" /\ TariffNext
          /\ UNCHANGED <<part, locationVars, fieldVars, sessionVars, partnerPullVars,
                         credentialsVars, partyVars, onboardingVars, cleanupVars>>
OfItems == /\ part = "items" /\ PartnerPullNext
           /\ UNCHANGED <<part, locationVars, fieldVars, sessionVars, tariffVars,
                          credentialsVars, partyVars, onboardingVars, cleanupVars>>
OfCredentials == /\ part = "credentials" /\ CredentialsNext
                 /\ UNCHANGED <<part, locationVars, fieldVars, sessionVars, tariffVars,
                                partnerPullVars, partyVars, onboardingVars, cleanupVars>>
OfParties == /\ part = "rows" /\ PartyNext
             /\ UNCHANGED <<part, locationVars, fieldVars, sessionVars, tariffVars,
                            partnerPullVars, credentialsVars, onboardingVars, cleanupVars>>
OfOnboarding == /\ part = "onboarding" /\ OnboardingNext
                /\ UNCHANGED <<part, locationVars, fieldVars, sessionVars, tariffVars,
                               partnerPullVars, credentialsVars, partyVars, cleanupVars>>
OfCleanup == /\ part = "cleanup" /\ CleanupNext
             /\ UNCHANGED <<part, locationVars, fieldVars, sessionVars, tariffVars,
                            partnerPullVars, credentialsVars, partyVars, onboardingVars>>

ReceivedNext == Location \/ Fields \/ Session \/ Tariff \/ OfItems \/ OfCredentials \/ OfParties
                \/ OfOnboarding \/ OfCleanup
ReceivedSpec == ReceivedInit /\ [][ReceivedNext]_receivedVars
-----------------------------------------------------------------------------
\* A part that does not move stays at an initial state of it, and each of these is one of an
\* execution in which it moves: a property asks for what it says of the part that moves.

\* A row has its parent, and a call in its middle has found or made the rows it writes to; a
\* party's locations are written by none but it, except for the direct party's PUTs; a CDR is
\* refused as known only if it is there, under the party it is of.
ReceivedIInv ==
    /\ part = "location" => LocationIInv
    /\ part = "fields" => FieldIInv /\ RowsOfOwnParty
    /\ part = "session" => SessionIInv
    /\ part = "tariff" => TariffIInv
    /\ part = "items" => PartnerPullIInv
    /\ part = "credentials" => CredentialsIInv
    /\ part = "rows" => PartyIInv
    /\ part = "onboarding" => OnboardingIInv
    /\ part = "cleanup" => CleanupIInv

\* Calls that do not overlap make one station, one row per EVSE, one of a tariff and one of a
\* partner behind a hub; a pull and a request make one row, if a unique key or the time between
\* them keeps them apart; a party has no row that it was not told of.
NoDuplicates ==
    /\ part = "location" => OneOfEach
    /\ part = "tariff" => OneTariff
    /\ part = "items" => OneRowEach
    /\ part = "rows" => OneRowPerParty
    /\ part = "onboarding" => OneRoamingPartner

\* What a partner lists is here once a pull has ended without failures: of the item of a full
\* pull of locations its EVSEs and no others, of tariffs, sessions and CDRs each that was
\* listed throughout.
PullsMirror == /\ part = "location" => FullPullMirrors
               /\ part = "items" => PulledIsStored

\* A call that was alone and ended leaves what it carried, whatever earlier ones left; a tariff
\* without elements has a PUT under way that will insert them, or one that broke off; and no
\* column of a location goes back to what it was; its last_updated follows its EVSEs'.  What a
\* party, or an administrator of it, was told is stored, no other party takes or changes.  Scripts
\* that remove a partner's rows remove all, run in their order, and nothing else.
StoredAlone ==
    /\ part = "location" => AloneStores
    /\ part = "tariff" => AlonePutStores /\ NeverLeftEmpty
    /\ part = "fields" => FieldsKept /\ ParentsFollow
    /\ part = "rows" => RowsAreKept
    /\ part = "onboarding" => OnboardedAsTold
    /\ part = "cleanup" => SweptIsGone /\ OthersStay /\ CountedOnce

\* No period is lost and none is out of order, unless calls overlap or one is repeated.
PeriodsStay == PeriodsKept /\ PeriodsInOrder

\* Operations on credentials that do not overlap leave both sides with each other's newest
\* token, and after one failure one side is still able to renew them; the partner knows no token
\* that was not stored before.
ConnectionSurvives == AgreeWhenDone /\ OneSideStillConnects /\ ToldWasStored
=============================================================================
