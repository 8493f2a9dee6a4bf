------------------------------ MODULE OwnTariff ------------------------------
(***************************************************************************)
(* What partners have of one own tariff: a change of its row or of its     *)
(* elements calls a handler that reads the tariff and PUTs it to each      *)
(* partner; its deletion calls one that sends a DELETE.  A push that fails *)
(* is queued for the hub Gireve (GireveOutbox), and for no other partner.  *)
(***************************************************************************)
EXTENDS Naturals, Sequences, FiniteSetsExt

CONSTANTS Recipients,     \* the partners that have a tariffs receiver
          Hub,            \* Gireve, among them or not
          Pushers,        \* bound: handlers at a time
          MaxVersions     \* bound: writes of the tariff

ASSUME OwnTariffAssumption == MaxVersions \in Nat \ {0}

VARIABLES own,       \* the row: its version, 0 before it is inserted, whether it is there, has
                     \* elements, and has an ocpiTariffId of its own
          pushers,   \* what each handler is about to do
          has,       \* has[p][i]: the version partner p has under the id i, 0 for none
          outbox,    \* the outbox's rows for this tariff, one for each id
          inTouch,   \* history: what was read last was read alone, and has reached p so far
          overtaken  \* history: the ids under which Gireve has got more than the outbox holds

ownTariffVars == <<own, pushers, has, outbox, inTouch, overtaken>>

Ids == {"named", "numbered"}
Versions == 0..MaxVersions
AtRest == [stage |-> "idle"]
NoRetry == [queued |-> FALSE, version |-> 0]

CalledPushers == [stage : {"called"}, kind : {"put", "delete"}]
BusyPushers == [stage : {"pushing"}, id : Ids, version : Versions, to : (SUBSET Recipients) \ {{}}]

OwnTariffTypeOK ==
    /\ own \in [version : Versions, there : BOOLEAN, elements : BOOLEAN, named : BOOLEAN]
    /\ pushers \in [Pushers -> {AtRest} \cup CalledPushers \cup BusyPushers]
    /\ has \in [Recipients -> [Ids -> Versions]]
    /\ outbox \in [Ids -> [queued : BOOLEAN, version : Versions]]
    /\ inTouch \subseteq Recipients /\ overtaken \subseteq Ids

OwnTariffInit == /\ own \in [version : {0}, there : {FALSE}, elements : {FALSE}, named : BOOLEAN]
                 /\ pushers = [h \in Pushers |-> AtRest]
                 /\ has = [p \in Recipients |-> [i \in Ids |-> 0]]
                 /\ outbox = [i \in Ids |-> NoRetry]
                 /\ inTouch = Recipients /\ overtaken = {}

\* What mapForSender calls the tariff.
SenderId == IF own.named THEN "named" ELSE "numbered"

\* broadcastTariffDeletion prefers the ocpiTariffId, which is not among the requiredFields
\* that TariffNotify leaves of a deleted row: the id is always made from the number.
DeletionId == "numbered"
-----------------------------------------------------------------------------
(* The row, and the handlers its triggers call *)

CallsPusher(h, kind) == /\ pushers[h] = AtRest
                  /\ pushers' = [pushers EXCEPT ![h] = [stage |-> "called", kind |-> kind]]
                  /\ inTouch' = {}
                  /\ UNCHANGED <<has, outbox, overtaken>>
Writes == own.version < MaxVersions

InsertOwn(h) ==
    /\ own.version = 0
    /\ own' = [own EXCEPT !.version = 1, !.there = TRUE]
    /\ CallsPusher(h, "put")

\* Mutant: the trigger of 20250730123503, which is on the tariff's own row only.
ChangeElementsUnnoticed(h) ==
    /\ Writes /\ own.there
    /\ \E some \in BOOLEAN : own' = [own EXCEPT !.version = @ + 1, !.elements = some]
    /\ inTouch' = IF pushers[h] = AtRest THEN inTouch ELSE {}
    /\ UNCHANGED <<pushers, has, outbox, overtaken>>

\* An element is inserted, updated or deleted: an UPDATE of the tariff.
ChangeElements(h) ==
    /\ Writes /\ own.there
    /\ \E some \in BOOLEAN : own' = [own EXCEPT !.version = @ + 1, !.elements = some]
    /\ CallsPusher(h, "put")

ChangeOwn(h) ==
    /\ Writes /\ own.there
    /\ own' = [own EXCEPT !.version = @ + 1]
    /\ CallsPusher(h, "put")

\* The elements go with the row, and their trigger finds no tariff.
DeleteOwn(h) ==
    /\ own.there
    /\ own' = [own EXCEPT !.there = FALSE, !.elements = FALSE]
    /\ CallsPusher(h, "delete")
-----------------------------------------------------------------------------
(* The handlers *)

Begins(h, i, v) ==
    /\ pushers' = [pushers EXCEPT ![h] = IF Recipients = {} THEN AtRest ELSE
                     [stage |-> "pushing", id |-> i, version |-> v, to |-> Recipients]]
    /\ inTouch' = IF \A g \in Pushers \ {h} : pushers[g].stage # "pushing" THEN Recipients ELSE {}

\* broadcastPutTariff: without the row, or without elements, there is nothing to send.
ReadOwn(h) ==
    /\ pushers[h].stage = "called" /\ pushers[h].kind = "put"
    /\ IF own.elements
       THEN Begins(h, SenderId, own.version)
       ELSE pushers' = [pushers EXCEPT ![h] = AtRest] /\ UNCHANGED inTouch
    /\ UNCHANGED <<own, has, outbox, overtaken>>

SendDeletion(h) ==
    /\ pushers[h].stage = "called" /\ pushers[h].kind = "delete"
    /\ Begins(h, DeletionId, 0)
    /\ UNCHANGED <<own, has, outbox, overtaken>>

Without(h, p) == IF pushers[h].to = {p} THEN AtRest ELSE [pushers[h] EXCEPT !.to = @ \ {p}]

\* One request of broadcastToClients.
Reaches(h, p) ==
    /\ pushers[h].stage = "pushing" /\ p \in pushers[h].to
    /\ has' = [has EXCEPT ![p][pushers[h].id] = pushers[h].version]
    /\ pushers' = [pushers EXCEPT ![h] = Without(h, p)]
    /\ overtaken' = IF p # Hub THEN overtaken
                    ELSE {i \in overtaken \cup {pushers[h].id} : outbox[i].queued \/ i # pushers[h].id}
    /\ UNCHANGED <<own, outbox, inTouch>>

\* Mutant: a payload that waits already is kept.
FailsKeepingOlder(h, p) ==
    LET i == pushers[h].id
    IN  /\ pushers[h].stage = "pushing" /\ p \in pushers[h].to
        /\ \/ UNCHANGED has
           \/ has' = [has EXCEPT ![p][i] = pushers[h].version]
        /\ pushers' = [pushers EXCEPT ![h] = Without(h, p)]
        /\ IF p = Hub
           THEN /\ outbox' = [outbox EXCEPT ![i] = IF @.queued THEN @ ELSE [queued |-> TRUE, version |-> pushers[h].version]]
                /\ overtaken' = overtaken \ {i}
                /\ UNCHANGED inTouch
           ELSE inTouch' = inTouch \ {p} /\ UNCHANGED <<outbox, overtaken>>
        /\ UNCHANGED own

\* The partner got the request or did not.  The outbox keeps the latest failure of an id.
Fails(h, p) ==
    LET i == pushers[h].id
    IN  /\ pushers[h].stage = "pushing" /\ p \in pushers[h].to
        /\ \/ UNCHANGED has
           \/ has' = [has EXCEPT ![p][i] = pushers[h].version]
        /\ pushers' = [pushers EXCEPT ![h] = Without(h, p)]
        /\ IF p = Hub
           THEN /\ outbox' = [outbox EXCEPT ![i] = [queued |-> TRUE, version |-> pushers[h].version]]
                /\ overtaken' = overtaken \ {i}
                /\ UNCHANGED inTouch
           ELSE inTouch' = inTouch \ {p} /\ UNCHANGED <<outbox, overtaken>>
        /\ UNCHANGED own

\* The hub accepts what a cron run sends again: its body, or the deletion.
Retries(i) ==
    /\ Hub \in Recipients /\ outbox[i].queued
    /\ has' = [has EXCEPT ![Hub][i] = outbox[i].version]
    /\ outbox' = [outbox EXCEPT ![i] = NoRetry]
    /\ UNCHANGED <<own, pushers, inTouch, overtaken>>

\* The process ends, and its handlers with it.
OwnTariffDies ==
    /\ \E h \in Pushers : pushers[h] # AtRest
    /\ pushers' = [h \in Pushers |-> AtRest]
    /\ inTouch' = {}
    /\ UNCHANGED <<own, has, outbox, overtaken>>
-----------------------------------------------------------------------------
OwnTariffNext ==
    \/ \E h \in Pushers : \/ InsertOwn(h) \/ ChangeElements(h) \/ ChangeOwn(h) \/ DeleteOwn(h)
                         \/ ReadOwn(h) \/ SendDeletion(h)
                         \/ \E p \in Recipients : Reaches(h, p) \/ Fails(h, p)
    \/ \E i \in Ids : Retries(i)
    \/ OwnTariffDies

OwnTariffSpec == OwnTariffInit /\ [][OwnTariffNext]_ownTariffVars
-----------------------------------------------------------------------------
(* Properties *)

\* Partner p has been told all that was to tell: no handler is under way, the last to read
\* did so alone and reached it, and for Gireve the outbox has done its part and not more.
Told(p) == /\ \A h \in Pushers : pushers[h] = AtRest
           /\ p \in inTouch
           /\ p = Hub => overtaken = {} /\ \A i \in Ids : ~outbox[i].queued

\* Such a partner has the tariff as it is, under one id, and none once it is deleted, whatever
\* overlapping handlers and failed requests left before: of a failure at Gireve the retry
\* brings what the last push would have.  A deleted tariff with an ocpiTariffId is left out: its
\* deletion is sent under another id (README, section 6).
TariffIsTold ==
    \A p \in Recipients : Told(p) =>
        /\ own.elements => has[p] = [i \in Ids |-> IF i = SenderId THEN own.version ELSE 0]
        /\ ~own.there /\ ~own.named => \A i \in Ids : has[p][i] = 0

\* Such a partner has nothing of a deleted tariff, as the broadcaster's test of deletions with
\* an ocpiTariffId has it.  It does not hold, for DeletionId is not the id it was PUT under.
DeletedIsGone == \A p \in Recipients : Told(p) /\ ~own.there => \A i \in Ids : has[p][i] = 0

\* The inductive invariant: a partner in touch has what is current under the id of the tariff,
\* or the one handler that pushes, for Gireve else the outbox, will bring it; under the other
\* id there is nothing.
Claimed == own.elements \/ (~own.there /\ ~own.named)
CurrentVersion == IF own.elements THEN own.version ELSE 0
Awaits(p) == \E h \in Pushers : pushers[h].stage = "pushing" /\ p \in pushers[h].to
IsInTouch(p) ==
    IF p = Hub /\ outbox[SenderId].queued THEN outbox[SenderId].version = CurrentVersion
    ELSE has[p][SenderId] = CurrentVersion
NothingElse(i) == /\ \A p \in Recipients : has[p][i] = 0
                  /\ outbox[i].version = 0
                  /\ \A h \in Pushers : pushers[h].stage = "pushing" /\ pushers[h].id = i =>
                                         pushers[h].version = 0
OwnTariffIInv ==
    /\ OwnTariffTypeOK
    /\ own.there => own.version # 0
    /\ own.elements => own.there
    /\ own.there /\ ~own.elements => inTouch = {}
    /\ \A h \in Pushers : pushers[h] \in CalledPushers /\ pushers[h].kind = "delete" =>
                            ~own.there /\ own.version # 0
    /\ \A i \in Ids \ {SenderId} : NothingElse(i)
    /\ inTouch # {} => \A h \in Pushers : pushers[h].stage = "pushing" =>
          /\ \A g \in Pushers \ {h} : pushers[g].stage # "pushing"
          /\ Claimed => pushers[h].id = SenderId /\ pushers[h].version = CurrentVersion
    /\ \A p \in inTouch : Claimed =>
          Awaits(p) \/ (p = Hub /\ SenderId \in overtaken) \/ IsInTouch(p)
=============================================================================
