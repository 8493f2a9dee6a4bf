----------------------------- MODULE Onboarding -----------------------------
(***************************************************************************)
(* The administrator's routes that set up a partner behind a hub, as a CPO *)
(* or as an EMSP, and the billing of an EMSP: RoamingPartnerService, which *)
(* looks for the partner's row and inserts it or adds a role to it, and    *)
(* the request for a customer to the billing system, which is not under    *)
(* src/.  One partner behind one hub is modelled; a call may be repeated,  *)
(* overlap another one, fail at each of its requests or end with the       *)
(* process.                                                                *)
(***************************************************************************)
EXTENDS Naturals, FiniteSets

CONSTANTS OnboardCalls,  \* bound: the calls of the administrator's routes
          Contracts    \* what a body may say of the name and of the contract's dates

ASSUME OnboardingAssumption == /\ {"old", "direct", "none"} \cap OnboardCalls = {}
                               /\ IsFiniteSet(OnboardCalls)

VARIABLES hubKnown,    \* the credentials were exchanged: the hub has a TenantPartners row
          uniqueKey,   \* the database refuses a second row of the partner
          roaming,     \* the partner's rows in RoamingPartners
          customers,   \* the rows that the billing system has linked with a customer
          onboarding,  \* onboarding[c]: the route, the body and how far the call is
          dataPull,    \* dataPull[c]: the pull in the background that c has begun
          onboardOverlap   \* history: two calls were under way at once

onboardingVars == <<hubKnown, uniqueKey, roaming, customers, onboarding, dataPull, onboardOverlap>>

CpoRoutes == {"onboard-roaming-partner-cpo", "create-roaming-partner-cpo"}
EmspRoutes == {"onboard-roaming-partner-emsp", "create-roaming-partner-emsp"}
BillingRoutes == {"onboard-roaming-partner-emsp", "onboard-tenant-partner-emsp"}
Routes == CpoRoutes \cup EmspRoutes \cup BillingRoutes
RoleOf(route) == IF route \in CpoRoutes THEN "CPO" ELSE "EMSP"
PartnerRowIds == OnboardCalls \cup {"old"}
Outcomes == {"none", "created", "role_added", "unchanged"}

NoOnboarding == [route |-> "none", contract |-> "none", billing |-> TRUE, at |-> "idle",
           row |-> "none", sees |-> {}, outcome |-> "none"]
Over == {"idle", "ok", "refused", "failed"}

Partnerships == [id : PartnerRowIds, contract : Contracts, roles : SUBSET {"CPO", "EMSP"}]
OnboardingCalls ==
    [route : Routes \cup {"none"}, contract : Contracts \cup {"none"}, billing : BOOLEAN,
     at : Over \cup {"hub", "find", "insert", "append", "answer", "bill"},
     row : PartnerRowIds \cup {"direct", "none"}, sees : SUBSET {"CPO", "EMSP"}, outcome : Outcomes]

OnboardingTypeOK ==
    /\ hubKnown \in BOOLEAN /\ uniqueKey \in BOOLEAN /\ onboardOverlap \in BOOLEAN
    /\ roaming \subseteq Partnerships /\ customers \subseteq PartnerRowIds \cup {"direct"}
    /\ onboarding \in [OnboardCalls -> OnboardingCalls]
    /\ dataPull \in [OnboardCalls -> {"none", "tariffs", "locations", "ended"}]

\* The row may be from before this service wrote any, with or without roles and a customer.
OnboardingInit ==
    /\ hubKnown \in BOOLEAN /\ uniqueKey \in BOOLEAN /\ onboardOverlap = FALSE
    /\ \/ roaming = {} /\ customers = {}
       \/ /\ \E contract \in Contracts, roles \in SUBSET {"CPO", "EMSP"} :
                roaming = {[id |-> "old", contract |-> contract, roles |-> roles]}
          /\ customers \in SUBSET {"old"}
    /\ onboarding = [c \in OnboardCalls |-> NoOnboarding]
    /\ dataPull = [c \in OnboardCalls |-> "none"]
-----------------------------------------------------------------------------
Onboards(c, change) == onboarding' = [onboarding EXCEPT ![c] = change]
UnderWay(c) == onboarding[c].at \notin Over
Is(c, at) == onboarding[c].at = at
steady == <<hubKnown, uniqueKey, onboardOverlap>>

\* Mutant: the billing part of the body is not parsed before the partner is written.
OnboardUnparsed(c, route, contract, billing) ==
    /\ Is(c, "idle")
    /\ Onboards(c, [NoOnboarding EXCEPT !.route = route, !.contract = contract,
                      !.billing = billing, !.at = "hub"])
    /\ onboardOverlap' = (onboardOverlap \/ \E d \in OnboardCalls : UnderWay(d))
    /\ UNCHANGED <<hubKnown, uniqueKey, roaming, customers, dataPull>>

\* The identity in the body is valid; its billing part is parsed too where there is one.
Onboard(c, route, contract, billing) ==
    /\ Is(c, "idle")
    /\ Onboards(c, [NoOnboarding EXCEPT !.route = route, !.contract = contract, !.billing = billing,
                  !.at = IF route \in BillingRoutes /\ ~billing THEN "refused" ELSE "hub"])
    /\ onboardOverlap' = (onboardOverlap \/ \E d \in OnboardCalls : UnderWay(d))
    /\ UNCHANGED <<hubKnown, uniqueKey, roaming, customers, dataPull>>

Direct(c) == onboarding[c].route = "onboard-tenant-partner-emsp"

FindTenantPartner(c) ==
    /\ Is(c, "hub")
    /\ Onboards(c, [onboarding[c] EXCEPT
                  !.at = IF ~hubKnown THEN "refused" ELSE IF Direct(c) THEN "bill" ELSE "find",
                  !.row = IF Direct(c) THEN "direct" ELSE "none"])
    /\ UNCHANGED <<steady, roaming, customers, dataPull>>

\* Mutant: the contract in the body is not compared with the row's.
FoundAnyContract(c, row) ==
    IF RoleOf(onboarding[c].route) \in row.roles
    THEN [onboarding[c] EXCEPT !.at = "answer", !.row = row.id, !.outcome = "unchanged"]
    ELSE [onboarding[c] EXCEPT !.at = "append", !.row = row.id, !.sees = row.roles]

\* GET_ROAMING_PARTNER_BY_IDENTITY, and what the row it found calls for.
FoundPartner(c, row) ==
    IF row.contract # onboarding[c].contract
    THEN [onboarding[c] EXCEPT !.at = "refused"]
    ELSE IF RoleOf(onboarding[c].route) \in row.roles
    THEN [onboarding[c] EXCEPT !.at = "answer", !.row = row.id, !.outcome = "unchanged"]
    ELSE [onboarding[c] EXCEPT !.at = "append", !.row = row.id, !.sees = row.roles]

FindExisting(c) ==
    /\ Is(c, "find")
    /\ \/ roaming = {} /\ Onboards(c, [onboarding[c] EXCEPT !.at = "insert"])
       \/ \E row \in roaming : Onboards(c, FoundPartner(c, row))
    /\ UNCHANGED <<steady, roaming, customers, dataPull>>

CreateRoamingPartner(c) ==
    /\ Is(c, "insert")
    /\ IF uniqueKey /\ roaming # {}
       THEN Onboards(c, [onboarding[c] EXCEPT !.at = "failed"]) /\ UNCHANGED roaming
       ELSE /\ roaming' = roaming \cup {[id |-> c, contract |-> onboarding[c].contract,
                                         roles |-> {RoleOf(onboarding[c].route)}]}
            /\ Onboards(c, [onboarding[c] EXCEPT !.at = "answer", !.row = c, !.outcome = "created"])
    /\ UNCHANGED <<steady, customers, dataPull>>

WithRole(row, role) == [row EXCEPT !.roles = @ \cup {role}]

\* Mutant: the roles that were read are written back with the new one.
AddRoleToRead(c) ==
    /\ Is(c, "append")
    /\ \E row \in roaming :
         /\ row.id = onboarding[c].row
         /\ roaming' = (roaming \ {row}) \cup {[row EXCEPT !.roles = onboarding[c].sees \cup
                                                               {RoleOf(onboarding[c].route)}]}
    /\ Onboards(c, [onboarding[c] EXCEPT !.at = "answer", !.outcome = "role_added"])
    /\ UNCHANGED <<steady, customers, dataPull>>

\* ADD_ROAMING_PARTNER_ROLE: one update, of a row that does not have the role yet.
AddRole(c) ==
    LET role == RoleOf(onboarding[c].route)
    IN  /\ Is(c, "append")
        /\ \E row \in roaming :
             /\ row.id = onboarding[c].row
             /\ roaming' = (roaming \ {row}) \cup {WithRole(row, role)}
             /\ Onboards(c, [onboarding[c] EXCEPT !.at = "answer",
                           !.outcome = IF role \in row.roles THEN "unchanged" ELSE "role_added"])
        /\ UNCHANGED <<steady, customers, dataPull>>

\* Mutant: a customer is asked for only if the partner is new.
AnswerBillsTheNew(c) ==
    /\ Is(c, "answer")
    /\ Onboards(c, [onboarding[c] EXCEPT
                  !.at = IF onboarding[c].route \in BillingRoutes
                            /\ onboarding[c].outcome = "created" THEN "bill"
                         ELSE "ok"])
    /\ UNCHANGED <<steady, roaming, customers, dataPull>>

\* Each outcome of an EMSP's onboarding asks for a customer, not only that of a new partner, and
\* a CPO's pulls in the background unless it was there.
AnswerUpsert(c) ==
    /\ Is(c, "answer")
    /\ Onboards(c, [onboarding[c] EXCEPT
                  !.at = IF onboarding[c].route \in BillingRoutes THEN "bill" ELSE "ok"])
    /\ dataPull' = [dataPull EXCEPT
           ![c] = IF onboarding[c].route = "onboard-roaming-partner-cpo"
                     /\ onboarding[c].outcome # "unchanged" THEN "tariffs" ELSE @]
    /\ UNCHANGED <<steady, roaming, customers>>

\* createCompanyCustomer: the billing system makes a customer, finds one to link, says that the
\* partner is linked already, which is success for a partner behind a hub only, or fails; its
\* answer may be lost.
CreateCompanyCustomer(c) ==
    LET row == onboarding[c].row
    IN  /\ Is(c, "bill")
        /\ \/ /\ customers' = customers \cup {row}
              /\ \E at \in {"ok", "failed"} : Onboards(c, [onboarding[c] EXCEPT !.at = at])
           \/ /\ row \in customers /\ UNCHANGED customers
              /\ Onboards(c, [onboarding[c] EXCEPT !.at = IF Direct(c) THEN "failed" ELSE "ok"])
           \/ UNCHANGED customers /\ Onboards(c, [onboarding[c] EXCEPT !.at = "failed"])
        /\ UNCHANGED <<steady, roaming, dataPull>>

\* A request to the database fails, after a write of it or before, or the process ends.
CallFailsAt(c) ==
    /\ onboarding[c].at \in {"hub", "find", "insert", "append", "answer"}
    /\ Onboards(c, [onboarding[c] EXCEPT !.at = "failed"])
    /\ UNCHANGED <<steady, roaming, customers, dataPull>>

\* Tariffs first, then locations; a failure of either ends it.
PullGoesOn(c) ==
    /\ dataPull[c] \in {"tariffs", "locations"}
    /\ dataPull' = [dataPull EXCEPT ![c] = IF @ = "tariffs" THEN "locations" ELSE "ended"]
    /\ UNCHANGED <<steady, roaming, customers, onboarding>>

PullFails(c) ==
    /\ dataPull[c] \in {"tariffs", "locations"}
    /\ dataPull' = [dataPull EXCEPT ![c] = "ended"]
    /\ UNCHANGED <<steady, roaming, customers, onboarding>>

AdminActs(c) ==
    \/ \E route \in Routes, contract \in Contracts, billing \in BOOLEAN :
         (billing \/ route \in BillingRoutes) /\ Onboard(c, route, contract, billing)
    \/ FindTenantPartner(c) \/ FindExisting(c) \/ CreateRoamingPartner(c) \/ AddRole(c)
    \/ AnswerUpsert(c) \/ CreateCompanyCustomer(c) \/ CallFailsAt(c)
    \/ PullGoesOn(c) \/ PullFails(c)

OnboardingNext == \E c \in OnboardCalls : AdminActs(c)
OnboardingSpec == OnboardingInit /\ [][OnboardingNext]_onboardingVars
-----------------------------------------------------------------------------
(* Properties *)

\* Whatever overlapping calls do, an administrator who was told that a partner is there finds it
\* with the contract and the role of the call, and billed where the route bills it, be it new,
\* given a role or there already; a call that failed after its insert is completed by its
\* repetition.  It is about the check of the details and the atomic append of
\* upsertRoamingPartner, and what onboardRoamingPartnerEmsp says of its request for a customer,
\* "called for every outcome"; that the route "creates the Pennylane customer only if the partner
\* is new", as its description and the module's README have it, is not what it does.
OnboardedAsTold ==
    \A c \in OnboardCalls : Is(c, "ok") =>
        /\ ~Direct(c) =>
             \E row \in roaming : /\ row.id = onboarding[c].row
                                  /\ row.contract = onboarding[c].contract
                                  /\ RoleOf(onboarding[c].route) \in row.roles
        /\ onboarding[c].route \in BillingRoutes => onboarding[c].row \in customers

\* The partner has one row if the calls do not overlap, even without a unique key; a body whose
\* billing part is bad leaves none.  It is about upsertRoamingPartner, and the place of parseBody
\* in onboardRoamingPartnerEmsp.
OneRoamingPartner ==
    /\ uniqueKey \/ ~onboardOverlap => Cardinality(roaming) <= 1
    /\ \A row \in roaming : row.id \in OnboardCalls =>
         onboarding[row.id].billing \/ onboarding[row.id].route \notin BillingRoutes

\* What a call knows of the rows at each of its positions: the row it has found or made keeps
\* its contract and has the call's role once that was found or added, for those that come after
\* only add roles.
KnowsItsRow(c) ==
    /\ onboarding[c].at \in {"find", "insert", "append", "answer"} => ~Direct(c)
    /\ Is(c, "bill") /\ Direct(c) => onboarding[c].row = "direct"
    /\ onboarding[c].at \in {"append", "answer", "bill", "ok"} /\ ~Direct(c) =>
         \E row \in roaming : /\ row.id = onboarding[c].row
                              /\ row.contract = onboarding[c].contract
                              /\ Is(c, "append") \/ RoleOf(onboarding[c].route) \in row.roles
    /\ Is(c, "ok") /\ onboarding[c].route \in BillingRoutes => onboarding[c].row \in customers
    /\ ~Is(c, "idle") => onboarding[c].contract \in Contracts
    /\ onboarding[c].at \notin {"idle", "refused"} =>
         onboarding[c].billing \/ onboarding[c].route \notin BillingRoutes

\* A row is made by the call it is named after, which then is past its insert; a call that meets
\* no other finds no row where it has found none.
RowsAreOfCalls ==
    /\ \A row \in roaming : row.id \in OnboardCalls =>
         onboarding[row.id].at \in {"answer", "bill", "ok", "failed"}
    /\ \A row, other \in roaming : row.id = other.id \/ uniqueKey \/ ~onboardOverlap => row = other
    /\ ~onboardOverlap => /\ \A c, d \in OnboardCalls : UnderWay(c) /\ UnderWay(d) => c = d
                          /\ \A c \in OnboardCalls : Is(c, "insert") => roaming = {}

OnboardingIInv == /\ OnboardingTypeOK /\ RowsAreOfCalls
                  /\ \A c \in OnboardCalls : KnowsItsRow(c)
=============================================================================
