----------------------------- MODULE PartnerPull -----------------------------
(***************************************************************************)
(* The pulls of a partner's tariffs, sessions and CDRs, page by page, and  *)
(* the requests by which the partner sends one of them meanwhile.  A hub   *)
(* offers those of several parties, which may use the same ids.  A tariff  *)
(* or session is inserted or replaced, a CDR is inserted once.             *)
(***************************************************************************)
EXTENDS Naturals, Sequences, FiniteSets, SequencesExt

CONSTANTS Items,        \* what the partner may ever offer
          PartyOf,      \* PartyOf[i]: the party it is of
          IdOf,         \* IdOf[i]: its id, unique for a party
          First,        \* what it may offer to begin with
          Registered,   \* the parties known here: the partner itself and its roaming partners
          MaxEvents     \* bound: changes of the partner's list

ASSUME PartnerPullAssumption == /\ \A list \in First : list \in Seq(Items) /\ IsInjective(list)
                                /\ MaxEvents \in Nat /\ IsFiniteSet(Items) /\ Items # {}
                                /\ \A i, j \in Items : PartyOf[i] = PartyOf[j] /\ IdOf[i] = IdOf[j] => i = j

VARIABLES interfaceOf,  \* the module that is pulled
          keyed,        \* whether its table has a unique key on what a row is found by
          offered,      \* the partner's list, in its order
          theirs,       \* theirs[i]: the version the partner has of i, 0 before it exists
          rows,         \* rows[i]: the versions of the rows that hold i
          writer,       \* what the pull, and a request, are storing
          puller,       \* the pull's position and local variables
          since,        \* history: since[i] is the version at the pull's beginning, 0 if i was not listed
          atOnce,       \* history: the pull and a request have been storing one item at a time
          events

partnerPullVars == <<interfaceOf, keyed, offered, theirs, rows, writer, puller, since, atOnce, events>>

Writers == {"pull", "request"}
Resolved == {"idle", "stored", "exists", "failed"}
Nothing == [stage |-> "idle", item |-> CHOOSE i \in Items : TRUE, version |-> 0, found |-> FALSE]
NoPull == [at |-> "idle", wanted |-> {}, offset |-> 0, page |-> <<>>, more |-> FALSE,
           steady |-> TRUE, failures |-> 0]
PullOver == {"idle", "ended", "failed"}

Storings == [stage : Resolved \cup {"find", "write"}, item : Items, version : 0..MaxEvents + 1,
             found : BOOLEAN]
Entries == [item : Items, version : 1..MaxEvents + 1]
Pullings == [at : PullOver \cup {"ask", "store", "storing"}, wanted : SUBSET Items, offset : Nat,
             page : {<<>>} \cup {<<entry>> : entry \in Entries}, more : BOOLEAN, steady : BOOLEAN,
             failures : Nat]

PartnerPullTypeOK ==
    /\ interfaceOf \in {"tariffs", "sessions", "cdrs"} /\ keyed \in BOOLEAN
    /\ offered \in Seq(Items) /\ IsInjective(offered)
    /\ theirs \in [Items -> 0..MaxEvents + 1] /\ since \in [Items -> 0..MaxEvents + 1]
    /\ rows \in [Items -> Seq(1..MaxEvents + 1)]
    /\ writer \in [Writers -> Storings] /\ puller \in Pullings
    /\ atOnce \in BOOLEAN /\ events \in 0..MaxEvents

PartnerPullInit ==
    /\ interfaceOf \in {"tariffs", "sessions", "cdrs"} /\ keyed \in BOOLEAN
    /\ offered \in First
    /\ theirs = [i \in Items |-> IF i \in Range(offered) THEN 1 ELSE 0]
    /\ rows = [i \in Items |-> <<>>]
    /\ writer = [w \in Writers |-> Nothing]
    /\ puller = NoPull
    /\ since = [i \in Items |-> 0] /\ atOnce = FALSE /\ events = 0
-----------------------------------------------------------------------------
(* The partner *)

Happens == events < MaxEvents /\ events' = events + 1

\* A new one is the last, or not: the list is in any order.
OffersItem(i, k) ==
    /\ Happens /\ theirs[i] = 0
    /\ offered' = InsertAt(offered, k, i)
    /\ theirs' = [theirs EXCEPT ![i] = 1]
    /\ UNCHANGED <<interfaceOf, keyed, rows, writer, puller, since, atOnce>>

\* A CDR does not change.
ChangesItem(i) ==
    /\ Happens /\ interfaceOf # "cdrs" /\ theirs[i] # 0
    /\ theirs' = [theirs EXCEPT ![i] = @ + 1]
    /\ UNCHANGED <<interfaceOf, keyed, offered, rows, writer, puller, since, atOnce>>

WithdrawsItem(k) ==
    /\ Happens
    /\ offered' = RemoveAt(offered, k)
    /\ puller' = [puller EXCEPT !.steady = FALSE]
    /\ UNCHANGED <<interfaceOf, keyed, theirs, rows, writer, since, atOnce>>

StartsStoring(w, i, version) ==
    /\ writer' = [writer EXCEPT ![w] = [stage |-> "find", item |-> i, version |-> version, found |-> FALSE]]
    /\ atOnce' = (atOnce \/ \E o \in Writers \ {w} : writer[o].item = i /\ writer[o].stage \notin Resolved)

\* The receiver's PUT of a tariff or session, or POST of a CDR; also again.
SendsItem(i) ==
    /\ theirs[i] # 0 /\ writer["request"].stage \in Resolved
    /\ StartsStoring("request", i, theirs[i])
    /\ UNCHANGED <<interfaceOf, keyed, offered, theirs, rows, puller, since, events>>
-----------------------------------------------------------------------------
(* What is stored of one of them: findThenUpsert *)

StaysAtPartner == UNCHANGED <<interfaceOf, keyed, offered, theirs, since, events>>
EndsStoring(w, result) == writer' = [writer EXCEPT ![w] = [Nothing EXCEPT !.stage = result, !.item = writer[w].item]]

\* Mutant: the id alone is looked for.
FoundById(i) == \E j \in Items : IdOf[j] = IdOf[i] /\ rows[j] # <<>>

\* A row of the partner with this id, and of this roaming partner or of none.
Found(i) == \E j \in Items : IdOf[j] = IdOf[i] /\ PartyOf[j] = PartyOf[i] /\ rows[j] # <<>>

FindItem(w) ==
    /\ writer[w].stage = "find"
    /\ IF PartyOf[writer[w].item] \in Registered
       THEN writer' = [writer EXCEPT ![w].stage = "write", ![w].found = Found(writer[w].item)]
       ELSE EndsStoring(w, "failed")
    /\ UNCHANGED <<rows, puller, atOnce>> /\ StaysAtPartner

\* A second insert of a CDR is refused by the key, and so is one of the others, as an error.
InsertItem(w) ==
    LET i == writer[w].item
    IN  /\ writer[w].stage = "write" /\ ~writer[w].found
        /\ IF keyed /\ rows[i] # <<>>
           THEN /\ EndsStoring(w, IF interfaceOf = "cdrs" THEN "exists" ELSE "failed")
                /\ UNCHANGED rows
           ELSE /\ EndsStoring(w, "stored")
                /\ rows' = [rows EXCEPT ![i] = Append(@, writer[w].version)]
        /\ UNCHANGED <<puller, atOnce>> /\ StaysAtPartner

\* Mutant: a CDR that is found is stored once more.
UpdateItemInserting(w) ==
    LET i == writer[w].item
    IN  /\ writer[w].stage = "write" /\ writer[w].found
        /\ EndsStoring(w, "stored")
        /\ rows' = [rows EXCEPT ![i] = Append(@, writer[w].version)]
        /\ UNCHANGED <<puller, atOnce>> /\ StaysAtPartner

\* Any of the rows; beforeUpdate refuses a CDR.
UpdateItem(w) ==
    LET i == writer[w].item
    IN  /\ writer[w].stage = "write" /\ writer[w].found
        /\ IF interfaceOf = "cdrs"
           THEN EndsStoring(w, "exists") /\ UNCHANGED rows
           ELSE /\ EndsStoring(w, "stored")
                /\ \E r \in DOMAIN rows[i] : rows' = [rows EXCEPT ![i][r] = writer[w].version]
        /\ UNCHANGED <<puller, atOnce>> /\ StaysAtPartner

\* The database refuses, as for a CDR that lacks a field.
StoreFails(w) == /\ writer[w].stage \in {"find", "write"} /\ EndsStoring(w, "failed")
                 /\ UNCHANGED <<rows, puller, atOnce>> /\ StaysAtPartner
-----------------------------------------------------------------------------
(* The pull *)

PullerMoves(at) == puller' = [puller EXCEPT !.at = at]

\* Through a hub, tariffs are asked for one roaming partner or for all.
StartPull(parties) ==
    /\ puller.at = "idle"
    /\ \/ parties = {PartyOf[i] : i \in Items}
       \/ interfaceOf = "tariffs" /\ \E p \in Registered : parties = {p}
    /\ puller' = [NoPull EXCEPT !.at = "ask", !.wanted = {i \in Items : PartyOf[i] \in parties},
                                !.steady = writer["request"].stage \in Resolved]
    /\ since' = [i \in Items |-> IF i \in Range(offered) /\ PartyOf[i] \in parties THEN theirs[i] ELSE 0]
    /\ UNCHANGED <<interfaceOf, keyed, offered, theirs, rows, writer, atOnce, events>>

Wanted == puller.wanted \cap Range(offered)
Precedes(j, i) == \E a, b \in DOMAIN offered : a < b /\ offered[a] = j /\ offered[b] = i
Before(i) == {j \in Wanted : Precedes(j, i)}
PageIs(page) == puller' = [puller EXCEPT !.at = "store", !.page = page,
                                         !.more = puller.offset + 1 < Cardinality(Wanted)]

\* A page of one, and a link if there is more.
PageComes ==
    /\ puller.at = "ask"
    /\ \/ Cardinality(Wanted) <= puller.offset /\ PageIs(<<>>)
       \/ \E i \in Wanted : /\ Cardinality(Before(i)) = puller.offset
                          /\ PageIs(<<[item |-> i, version |-> theirs[i]]>>)
    /\ UNCHANGED <<rows, writer, atOnce>> /\ StaysAtPartner

PageIsRefused == /\ puller.at = "ask" /\ PullerMoves("failed")
                 /\ UNCHANGED <<rows, writer, atOnce>> /\ StaysAtPartner

StoreOfPage ==
    /\ puller.at = "store" /\ puller.page # <<>>
    /\ StartsStoring("pull", Head(puller.page).item, Head(puller.page).version)
    /\ puller' = [puller EXCEPT !.at = "storing", !.page = Tail(@)]
    /\ UNCHANGED rows /\ StaysAtPartner

\* Counted; a CDR that exists is among the failures, and is passed over like them.
StoreOver ==
    /\ puller.at = "storing" /\ writer["pull"].stage \in Resolved
    /\ puller' = [puller EXCEPT !.at = "store",
                                !.failures = IF writer["pull"].stage = "failed" THEN 1 ELSE @]
    /\ UNCHANGED <<rows, writer, atOnce>> /\ StaysAtPartner

TurnsPage ==
    /\ puller.at = "store" /\ puller.page = <<>>
    /\ puller' = IF puller.more THEN [puller EXCEPT !.at = "ask", !.offset = @ + 1]
                 ELSE [puller EXCEPT !.at = "ended"]
    /\ UNCHANGED <<rows, writer, atOnce>> /\ StaysAtPartner
-----------------------------------------------------------------------------
PartnerPullNext ==
    \/ PageComes \/ PageIsRefused \/ StoreOfPage \/ StoreOver \/ TurnsPage
    \/ \E w \in Writers : FindItem(w) \/ InsertItem(w) \/ UpdateItem(w) \/ StoreFails(w)
    \/ \E parties \in SUBSET {PartyOf[i] : i \in Items} : StartPull(parties)
    \/ \E i \in Items : \/ ChangesItem(i) \/ SendsItem(i)
                        \/ \E k \in 1..Len(offered) + 1 : OffersItem(i, k)
    \/ \E k \in DOMAIN offered : WithdrawsItem(k)

PartnerPullSpec == PartnerPullInit /\ [][PartnerPullNext]_partnerPullVars
-----------------------------------------------------------------------------
(* Properties *)

\* A pull that ended without failures has stored what the partner has listed ever since it
\* began, of each party under whatever id, no older than it was then: although requests store
\* the same rows, and others may have come first.  Not if the partner withdraws one, or sent a
\* request before the pull that is still being stored.
PulledIsStored ==
    puller.at = "ended" /\ puller.steady /\ puller.failures = 0 =>
        \A i \in Items : since[i] # 0 => \E r \in DOMAIN rows[i] : rows[i][r] >= since[i]

\* The answer "already exists" is only for what is there.
ExistsIsTrue == \A w \in Writers : writer[w].stage = "exists" => rows[writer[w].item] # <<>>

\* With a unique key there is one row of each, and without it unless the pull and a request
\* have stored one item at the same time.
OneRowEach == keyed \/ ~atOnce => \A i \in Items : Len(rows[i]) <= 1

\* What is found stays, and what is not found is not there unless one item is stored twice at once.
WhatIsFoundIsThere ==
    /\ \A w \in Writers : writer[w].stage = "write" =>
         /\ writer[w].found => rows[writer[w].item] # <<>>
         /\ ~atOnce /\ ~writer[w].found => rows[writer[w].item] = <<>>
    /\ ~atOnce => \A w, o \in Writers :
         writer[w].stage \notin Resolved /\ writer[o].stage \notin Resolved /\ writer[w].item = writer[o].item
           => w = o

\* A version grows with the events, a CDR's does not; what is about to be stored has one.
VersionsGrow ==
    /\ \A i \in Items : /\ theirs[i] <= events + 1 /\ since[i] <= theirs[i]
                        /\ interfaceOf = "cdrs" => theirs[i] <= 1
                        /\ i \in Range(offered) => theirs[i] # 0
    /\ \A w \in Writers : writer[w].stage \notin Resolved => writer[w].version # 0
    /\ puller.at # "storing" => writer["pull"].stage \in Resolved
    /\ puller.at = "idle" => \A i \in Items : since[i] = 0

\* Of a pull that the partner does not disturb: what is stored from its beginning on is no older
\* than what was listed then, and of that each is stored, or a failure was counted, or it is
\* under way, or it is still ahead, for a new one only moves others back.
IsStored(i) == \E r \in DOMAIN rows[i] : rows[i][r] >= since[i]
UnderWayHere(i) == \/ puller.at = "store" /\ \E r \in DOMAIN puller.page : puller.page[r].item = i
                   \/ /\ puller.at = "storing" /\ writer["pull"].item = i
                      /\ writer["pull"].stage \in {"find", "write", "failed"}
IsAhead(i) == \/ puller.at = "ask" /\ Cardinality(Before(i)) >= puller.offset
              \/ /\ puller.at \in {"store", "storing"} /\ puller.more
                 /\ Cardinality(Before(i)) > puller.offset
NothingPassedOver ==
    puller.steady =>
      /\ \A w \in Writers : writer[w].stage \notin Resolved => writer[w].version >= since[writer[w].item]
      /\ \A r \in DOMAIN puller.page : puller.page[r].version >= since[puller.page[r].item]
      /\ puller.at # "failed" => \A i \in Items : since[i] # 0 =>
           /\ i \in Wanted
           /\ puller.failures > 0 \/ IsStored(i) \/ UnderWayHere(i) \/ IsAhead(i)

PartnerPullIInv == /\ PartnerPullTypeOK /\ ExistsIsTrue /\ OneRowEach
                   /\ WhatIsFoundIsThere /\ VersionsGrow /\ NothingPassedOver
=============================================================================
