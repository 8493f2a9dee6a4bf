------------------------- MODULE TransactionMessages -------------------------
(***************************************************************************)
(* What the session messages and the CDR of one transaction say: its row   *)
(* and the payload of the update are merged when the update is handled,    *)
(* the location and the tariff are read while the session is mapped and    *)
(* kept on the object, and the CDR is mapped from the same object after    *)
(* the push, with its tariff read once more to be listed.                  *)
(*                                                                         *)
(* The row is written on, the tariff edited or deleted and the location    *)
(* deleted between any two of these reads; a crash repeats the handling.   *)
(* Which pushes are made is in SessionBroadcast, and in CdrDelivery what   *)
(* becomes of a CDR's id when several are stored and sent at once.         *)
(***************************************************************************)
EXTENDS Naturals

CONSTANTS Updates,    \* bound: the writes of the transaction that are noticed
          MaxKwh,     \* bound: of the energy
          MaxPrice,   \* bound: of the tariff's price of energy
          MaxRewrites,   \* bound: writes of the tariff, deletions of the location
          MaxDeaths   \* bound: crashes

ASSUME MessagesAssumption == {MaxKwh, MaxPrice, MaxRewrites, MaxDeaths} \subseteq Nat

VARIABLES ofHub,      \* the token's owner is Gireve, which gets whole sessions
          txRow,      \* the transaction
          price,      \* {the tariff's price of energy}, {} once it is deleted
          place,      \* the location is there, with the EVSE
          notice,     \* notice[u]: what the trigger told of the write
          work,       \* work[u]: the handler
          cdrRow,     \* {what the stored CDR says}, {} if there is none
          cdrTaken,   \* it is marked as sent
          served,     \* what the last GET of the CDRs came to
          cdrPosts,   \* history: what posted CDRs said
          endKwh,     \* history: {the energy when the transaction was ended}
          writtenOn,  \* history: something was written after a CDR was begun
          rewrites, deaths

inputVars == <<ofHub, txRow, price, place, notice, endKwh, rewrites>>
cdrVars == <<cdrRow, cdrTaken, served, cdrPosts>>
messageVars == <<inputVars, cdrVars, work, writtenOn, deaths>>

Kwh == 0..MaxKwh
Price == 0..MaxPrice
Cost == 0..(MaxKwh * MaxPrice)
Optional(S) == {T \in SUBSET S : \A x, y \in T : x = y}

TxRow == [kwh : Kwh, active : BOOLEAN, ended : BOOLEAN]
Session == [kwh : Kwh, cost : Optional(Cost)]
Cdr == [kwh : Kwh, cost : Cost, listed : Optional(Price), edited : BOOLEAN]
Steps == {"unborn", "noticed", "looking", "telling", "mapping", "listing", "finding",
          "inserting", "posting", "marking", "done", "threw"}

NoticeRecords == [insert : BOOLEAN, kwh : Optional(Kwh), over : BOOLEAN, ended : BOOLEAN]
WorkRecords == [at : Steps, tx : TxRow, tariff : Optional(Price), location : BOOLEAN,
                edited : BOOLEAN, said : Optional(Session), cdr : Optional(Cdr)]

\* kwh, over and ended are the columns that the write changed.
NoNotice == [insert |-> FALSE, kwh |-> {}, over |-> FALSE, ended |-> FALSE]
Idle == [at |-> "unborn", tx |-> [kwh |-> 0, active |-> TRUE, ended |-> FALSE],
         tariff |-> {}, location |-> FALSE, edited |-> FALSE, said |-> {}, cdr |-> {}]

MessagesTypeOK ==
    /\ ofHub \in BOOLEAN /\ txRow \in TxRow /\ price \in Optional(Price) /\ place \in BOOLEAN
    /\ notice \in [Updates -> NoticeRecords] /\ work \in [Updates -> WorkRecords]
    /\ cdrRow \in Optional(Cdr) /\ cdrTaken \in BOOLEAN /\ served \in {"nothing", "page", "error"}
    /\ cdrPosts \subseteq Cdr /\ endKwh \in Optional(Kwh) /\ writtenOn \in BOOLEAN

MessagesInit ==
    /\ ofHub \in BOOLEAN /\ txRow = Idle.tx /\ price \in {{p} : p \in Price} /\ place = TRUE
    /\ notice = [u \in Updates |-> NoNotice] /\ work = [u \in Updates |-> Idle]
    /\ cdrRow = {} /\ cdrTaken = FALSE /\ served = "nothing" /\ cdrPosts = {}
    /\ endKwh = {} /\ writtenOn = FALSE /\ rewrites = 0 /\ deaths = 0
-----------------------------------------------------------------------------
(* The rest of the system writes *)

Mapped == \/ cdrRow # {}
          \/ \E u \in Updates : notice[u].over /\ work[u].at \notin {"unborn", "noticed"}
WrittenOn == writtenOn' = (writtenOn \/ Mapped)

\* The trigger tells of each write what it changed, and before the first of the insertion,
\* unless that has been handled.
Notices(u, told) ==
    /\ work[u].at = "unborn"
    /\ notice' = [notice EXCEPT ![u] = told]
    /\ work' = [work EXCEPT ![u].at = "noticed"]

Starts(u) ==
    /\ \A v \in Updates : work[v].at = "unborn"
    /\ Notices(u, [NoNotice EXCEPT !.insert = TRUE])
    /\ UNCHANGED <<ofHub, txRow, price, place, endKwh, rewrites, cdrVars, writtenOn, deaths>>

Writes(u, row) ==
    /\ row # txRow
    /\ Notices(u, [insert |-> FALSE,
                   kwh |-> IF row.kwh # txRow.kwh THEN {row.kwh} ELSE {},
                   over |-> row.active # txRow.active,
                   ended |-> row.ended # txRow.ended])
    /\ txRow' = row
    /\ endKwh' = IF row.active # txRow.active THEN {row.kwh} ELSE endKwh
    /\ WrittenOn
    /\ UNCHANGED <<ofHub, price, place, rewrites, cdrVars, deaths>>

\* The energy grows, in the write that ends the transaction or in another, even after it; the
\* end may be written apart from its time.
TxWritten(u) ==
    \E k \in {txRow.kwh, txRow.kwh + 1} \cap Kwh, a \in {txRow.active, FALSE},
       e \in {txRow.ended, TRUE} : Writes(u, [kwh |-> k, active |-> a, ended |-> e])

\* Handlers that have the tariff on their object and have not listed it yet.
Between(u) == work[u].tariff # {} /\ work[u].at \in {"looking", "telling", "mapping", "listing"}

TariffWritten ==
    /\ rewrites < MaxRewrites /\ price # {}
    /\ rewrites' = rewrites + 1
    /\ price' \in {{}} \cup {{p} : p \in Price} /\ price' # price
    /\ work' = [u \in Updates |-> IF Between(u) THEN [work[u] EXCEPT !.edited = TRUE] ELSE work[u]]
    /\ WrittenOn
    /\ UNCHANGED <<ofHub, txRow, place, notice, endKwh, cdrVars, deaths>>

LocationDeleted ==
    /\ rewrites < MaxRewrites /\ place
    /\ rewrites' = rewrites + 1 /\ place' = FALSE /\ WrittenOn
    /\ UNCHANGED <<ofHub, txRow, price, notice, endKwh, work, cdrVars, deaths>>
-----------------------------------------------------------------------------
(* handleTransactionInsert, handleTransactionUpdate *)

WorksOn(u, w) == /\ work' = [work EXCEPT ![u] = w]
              /\ UNCHANGED <<inputVars, writtenOn, deaths>>
At(u, step) == work[u].at = step
\* A handler that has ended leaves nothing behind.
After(u, step) == [IF step \in {"done", "threw"} THEN Idle ELSE work[u] EXCEPT !.at = step]
StepsTo(u, step) == WorksOn(u, After(u, step)) /\ UNCHANGED cdrVars

\* Mutant: the message is built from the payload alone.
PayloadAlone(n) == [kwh |-> IF n.kwh = {} THEN 0 ELSE CHOOSE k \in n.kwh : TRUE,
                     active |-> txRow.active, ended |-> n.ended]

\* { ...fullTx, ...payload }: what the write changed as it was then, the rest as it is now.
RowWithPayload(n) == [txRow EXCEPT !.kwh = IF n.kwh = {} THEN @ ELSE CHOOSE k \in n.kwh : TRUE]

\* The insert has no payload to merge; an update without energy or end is not pushed.
ReadTxRow(u) ==
    /\ At(u, "noticed")
    /\ LET n == notice[u]
       IN  IF ~n.insert /\ ~n.over /\ txRow.active /\ n.kwh = {}
           THEN StepsTo(u, "done")
           ELSE /\ WorksOn(u, [Idle EXCEPT !.at = "looking", !.tx = RowWithPayload(n)])
                /\ UNCHANGED cdrVars

TariffByKey == price
OurLocation == place

\* Mutant: every mapping reads the tariff for itself.
LookUpTariffAgain(u) ==
    /\ work[u].at \in {"looking", "mapping"}
    /\ WorksOn(u, [work[u] EXCEPT !.tariff = TariffByKey]) /\ UNCHANGED cdrVars

\* What is on the object already is not read again.  The two reads have no order.
LookUpTariff(u) ==
    /\ work[u].at \in {"looking", "mapping"} /\ work[u].tariff = {}
    /\ WorksOn(u, [work[u] EXCEPT !.tariff = TariffByKey]) /\ UNCHANGED cdrVars
LookUpLocation(u) ==
    /\ work[u].at \in {"looking", "mapping"} /\ ~work[u].location
    /\ WorksOn(u, [work[u] EXCEPT !.location = OurLocation]) /\ UNCHANGED cdrVars

Gone(u) == (work[u].tariff = {} /\ price = {}) \/ (~work[u].location /\ ~place)
Complete(u) == work[u].tariff # {} /\ work[u].location

CostOf(w) == w.tx.kwh * CHOOSE p \in w.tariff : TRUE

\* The whole session has a cost once it has an end.
SessionPut(w) == [kwh |-> w.tx.kwh, cost |-> IF w.tx.ended THEN {CostOf(w)} ELSE {}]
\* The incremental one always.
SessionPatch(w) == [kwh |-> w.tx.kwh, cost |-> {CostOf(w)}]

\* Both reads have been made: a PUT needs the tariff and the location, a PATCH the tariff.
MapSessionMessage(u) ==
    /\ At(u, "looking")
    /\ LET whole == ofHub \/ notice[u].insert
           w == work[u]
       IN  \/ /\ Complete(u) \/ (~whole /\ w.tariff # {} /\ ~place)
              /\ WorksOn(u, [w EXCEPT !.at = "telling",
                                   !.said = {IF whole THEN SessionPut(w) ELSE SessionPatch(w)}])
              /\ UNCHANGED cdrVars
           \/ /\ Gone(u) /\ (whole \/ w.tariff = {})
              /\ StepsTo(u, "threw")

\* A failing push is caught.  Only the update that ends the transaction goes on to the CDR.
TellSession(u) == At(u, "telling") /\ StepsTo(u, IF notice[u].over THEN "mapping" ELSE "done")

\* mapTransactionsToCdrs skips what it has no tariff or location for.
MapCdrSession(u) ==
    /\ At(u, "mapping")
    /\ \/ Complete(u) /\ StepsTo(u, "listing")
       \/ Gone(u) /\ StepsTo(u, "done")

\* Mutant: the CDR takes its energy from the row as it is now.
CdrOfRow(w, tariff) == [kwh |-> txRow.kwh, cost |-> CostOf(w), listed |-> tariff, edited |-> w.edited]

\* The session's energy, and the cost by the tariff on the object.
CdrOf(w, tariff) == [kwh |-> w.tx.kwh, cost |-> CostOf(w), listed |-> tariff, edited |-> w.edited]

\* The tariff is read again to be listed; one that is gone leaves the list with nothing in it.
ListTariff(u) ==
    /\ At(u, "listing")
    /\ WorksOn(u, [work[u] EXCEPT !.at = "finding", !.cdr = {CdrOf(work[u], TariffByKey)}])
    /\ UNCHANGED cdrVars
-----------------------------------------------------------------------------
(* insertSentCdr, and the POST *)

FindSentCdr(u) ==
    /\ At(u, "finding")
    /\ StepsTo(u, IF cdrRow = {} THEN "inserting" ELSE IF cdrTaken THEN "done" ELSE "posting")

\* The row has what was mapped first, and keeps it.
InsertSentCdr(u) ==
    /\ At(u, "inserting") /\ cdrRow = {}
    /\ cdrRow' = work[u].cdr
    /\ WorksOn(u, [work[u] EXCEPT !.at = "posting"])
    /\ UNCHANGED <<cdrTaken, served, cdrPosts>>

\* What was mapped now, under the stored id.
PostSentCdr(u) ==
    /\ At(u, "posting")
    /\ cdrPosts' = cdrPosts \cup work[u].cdr
    /\ \E step \in {"marking", "done"} : WorksOn(u, After(u, step))
    /\ UNCHANGED <<cdrRow, cdrTaken, served>>

MarkSentCdr(u) ==
    /\ At(u, "marking")
    /\ cdrTaken' = TRUE
    /\ WorksOn(u, After(u, "done"))
    /\ UNCHANGED <<cdrRow, served, cdrPosts>>

Fails(u) ==
    /\ work[u].at \in {"noticed", "looking", "mapping", "listing", "finding", "inserting",
                      "marking"}
    /\ StepsTo(u, "threw")

\* RabbitMQ delivers again what was not acknowledged.
HandlersDie ==
    /\ deaths < MaxDeaths /\ deaths' = deaths + 1
    /\ work' = [u \in Updates |-> IF work[u].at \in {"unborn", "done", "threw"} THEN work[u]
                                  ELSE [Idle EXCEPT !.at = "noticed"]]
    /\ UNCHANGED <<inputVars, cdrVars, writtenOn>>
-----------------------------------------------------------------------------
(* GET /cdrs serves what is stored *)

StoredCdrs == cdrRow

\* mapCdrReceiver looks into every tariff of the list.
Unmappable(c) == c.listed = {}

\* One such CDR fails the whole page.
ServeCdrs ==
    /\ StoredCdrs # {}
    /\ served' = IF \E c \in StoredCdrs : Unmappable(c) THEN "error" ELSE "page"
    /\ UNCHANGED <<inputVars, cdrRow, cdrTaken, cdrPosts, work, writtenOn, deaths>>

MessagesNext ==
    \/ TariffWritten \/ LocationDeleted \/ HandlersDie \/ ServeCdrs
    \/ \E u \in Updates :
          \/ Starts(u) \/ TxWritten(u) \/ Fails(u)
          \/ ReadTxRow(u) \/ LookUpTariff(u) \/ LookUpLocation(u) \/ MapSessionMessage(u)
          \/ TellSession(u) \/ MapCdrSession(u) \/ ListTariff(u)
          \/ FindSentCdr(u) \/ InsertSentCdr(u) \/ PostSentCdr(u) \/ MarkSentCdr(u)

MessagesSpec == MessagesInit /\ [][MessagesNext]_messageVars
-----------------------------------------------------------------------------
(* Properties *)

\* The CDR and the session message before it, made by one handling of the end, name the same
\* energy and the same cost.
CdrAgreesWithSession ==
    \A u \in Updates : \A c \in work[u].cdr, s \in work[u].said :
        c.kwh = s.kwh /\ s.cost \subseteq {c.cost}

\* A CDR's cost is its energy at the price of the tariff it lists, unless that was edited or
\* deleted in between.
CdrAgreesWithTariff ==
    \A c \in cdrPosts \cup cdrRow :
        ~c.edited => c.listed # {} /\ \A p \in c.listed : c.cost = c.kwh * p

\* It has all the energy that was there when the transaction was ended.
CdrHasAllEnergy == \A c \in cdrPosts \cup cdrRow, k \in endKwh : c.kwh >= k

\* Whatever is posted is what is stored, and served, unless something was written since the
\* first CDR was begun; a tariff that was deleted meanwhile is the only cause of an answer
\* with an error.
Says(c) == <<c.kwh, c.cost, c.listed>>
CdrStaysTheSame == /\ writtenOn \/ \A c \in cdrPosts, d \in cdrRow : Says(c) = Says(d)
                   /\ served = "error" => \E c \in cdrRow : c.edited

\* The inductive invariant.  A handler at rest has nothing on its object, and only that of the
\* end comes to a CDR.
Resting == {"unborn", "noticed", "done", "threw"}
CdrSteps == {"finding", "inserting", "posting", "marking"}
RestingHoldNothing ==
    \A u \in Updates : work[u].at \in Resting =>
        work[u].tariff = {} /\ work[u].said = {} /\ work[u].cdr = {} /\ ~work[u].edited
OneEnd ==
    /\ \A u \in Updates : /\ work[u].at = "unborn" => ~notice[u].over
                          /\ work[u].at \in {"mapping", "listing"} \cup CdrSteps => notice[u].over
                          /\ work[u].at \in {"posting", "marking"} => cdrRow # {}
    /\ \A u, v \in Updates : notice[u].over /\ notice[v].over => u = v
    /\ (\E u \in Updates : notice[u].over) \/ endKwh # {} => ~txRow.active
    /\ cdrPosts # {} => cdrRow # {}
    /\ cdrRow # {} => \E u \in Updates : notice[u].over

\* What it has said and mapped is what is on its object, where the tariff is the one there is
\* until that is edited.
SaidFromObject(w) ==
    /\ w.cdr # {} <=> w.at \in CdrSteps
    /\ w.at \in {"listing"} \cup CdrSteps => w.tariff # {}
    /\ \A s \in w.said : w.tariff # {} /\ s.kwh = w.tx.kwh /\ s.cost \subseteq {CostOf(w)}
    /\ \A c \in w.cdr : c.kwh = w.tx.kwh /\ c.cost = CostOf(w)
ObjectsAreSaid == \A u \in Updates : SaidFromObject(work[u])
TariffIsCurrent == \A u \in Updates : Between(u) /\ ~work[u].edited => work[u].tariff = price
AgreesWithTariff(c) == ~c.edited => c.listed # {} /\ \A p \in c.listed : c.cost = c.kwh * p
CdrsAgree == /\ \A c \in cdrPosts \cup cdrRow : AgreesWithTariff(c)
             /\ \A u \in Updates : \A c \in work[u].cdr : AgreesWithTariff(c)

\* The energy of the end is in the row, in its notice if it was written with the end, and then
\* on the object.
EnergyIsKept ==
    \A k \in endKwh :
        /\ txRow.kwh >= k
        /\ \A u \in Updates : notice[u].over => /\ notice[u].kwh \subseteq {k}
                                                /\ work[u].at \notin Resting => work[u].tx.kwh >= k
        /\ \A c \in cdrPosts \cup cdrRow : c.kwh >= k

\* What every CDR says until something is written.
DueKwh(u) == RowWithPayload(notice[u]).kwh
Due(u) == <<DueKwh(u), DueKwh(u) * (CHOOSE p \in price : TRUE), price>>
SaysWhatIsDue ==
    writtenOn \/ \A u \in Updates : notice[u].over =>
        /\ work[u].at \notin Resting =>
              work[u].tx.kwh = DueKwh(u) /\ work[u].tariff \in {{}, price}
        /\ \A c \in cdrPosts \cup cdrRow \cup work[u].cdr : Says(c) = Due(u)

ErrorIsOfEdited == served = "error" => \E c \in cdrRow : c.edited
MessagesIInv == /\ MessagesTypeOK /\ RestingHoldNothing /\ OneEnd /\ ObjectsAreSaid /\ TariffIsCurrent
                /\ CdrsAgree /\ EnergyIsKept /\ SaysWhatIsDue /\ ErrorIsOfEdited
=============================================================================
