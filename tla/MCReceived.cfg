SPECIFICATION ReceivedSpec
CONSTANTS
    Uids = {"e1", "e2"}
    Tariffs = {"t1", "t2"}
    LocationCalls = {c1, c2}
    MaxStarts = 3
    Bodies <- MCBodies
    FieldCalls = {c1, c2}
    MaxFieldCalls = 2
    FieldBodies <- MCFieldBodies
    SessionCalls = {sc1, sc2}
    MaxSent = 4
    TariffCalls = {tc1, tc2, tc3}
    MaxPuts = 3
    Items <- MCItems
    PartyOf <- MCPartyOf
    IdOf <- MCIdOf
    First <- MCFirst
    Registered = {"hub", "roaming"}
    MaxEvents = 1
    Ops = {c1, c2}
    MaxOps = 3
    MaxFaults = 2
    Partners = {"hub", "peer"}
    Behind <- MCBehind
    Strangers = {"stranger"}
    OnboardCalls = {c1, c2}
    Contracts = {d1, d2}
    CleanRows <- MCRows
    TableOf <- MCTableOf
    RefersTo <- MCRefersTo
    PartnerIdOf <- MCPartnerIdOf
    Cleaned = "hub"
    Tenants = {1, 8}
    TenantOf <- MCTenantOf
    TenantOfCleaned = 1
    BatchSize = 1
    Sweepers = {1, 2}
    TablesOf <- MCTablesOf
    Returning = {"K"}
SYMMETRY Symmetry
INVARIANTS ReceivedIInv NoDuplicates StoredAlone PullsMirror PeriodsStay ConnectionSurvives
CHECK_DEADLOCK FALSE
