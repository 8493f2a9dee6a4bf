------------------------------- MODULE Listings -------------------------------
(***************************************************************************)
(* The paginated lists of own sessions, tariffs, tokens, locations and     *)
(* CDRs: a partner asks for the first page and follows the Link headers,   *)
(* while rows enter and leave the list it asked for.                       *)
(***************************************************************************)
EXTENDS Naturals, Sequences, SequencesExt, FiniteSets

CONSTANTS Rows,       \* what is listed
          Limits,     \* the page sizes a partner asks for
          MaxListed,  \* bound: rows in a list to begin with
          MaxMoves    \* bound: rows that enter or leave

Interfaces == {"sessions", "tariffs", "tokens", "locations", "cdrs"}

ASSUME ListingsAssumption == IsFiniteSet(Rows) /\ Limits \subseteq Nat \ {0} /\ MaxListed \in Nat /\ MaxMoves \in Nat

VARIABLES interface,  \* which list is asked for
          entries,    \* the rows that match the partner and its dates, in order
          unmapped,   \* tokens that are no OCPI token
          reader,     \* the partner: its next offset, and what it has got
          stayed,     \* history: the rows listed ever since the first page was asked for
          entered, left

listingVars == <<interface, entries, unmapped, reader, stayed, entered, left>>

\* got: the rows it has got; again: how many it got once more.
Readers == [at : {"ask", "end"}, limit : Limits, offset : Nat, got : SUBSET Rows, again : Nat]

ListingsTypeOK ==
    /\ interface \in Interfaces
    /\ entries \in Seq(Rows) /\ IsInjective(entries) /\ unmapped \subseteq Rows
    /\ reader \in Readers /\ reader.got \cap unmapped = {}
    /\ stayed \subseteq Range(entries)
    /\ entered \in Nat /\ left \in Nat /\ entered + left <= MaxMoves

ListingsInit ==
    /\ interface \in Interfaces
    /\ entries \in {s \in SeqOf(Rows, MaxListed) : IsInjective(s)}
    /\ unmapped \in IF interface = "tokens" THEN SUBSET Rows ELSE {{}}
    /\ reader \in {[at |-> "ask", limit |-> n, offset |-> 0, got |-> {}, again |-> 0] : n \in Limits}
    /\ stayed = Range(entries) /\ entered = 0 /\ left = 0
-----------------------------------------------------------------------------
(* The rows *)

\* A row enters where its createdAt puts it (a CDR by its last_updated), when it is created or,
\* with date_from, when it is updated.
Enters(r, i) ==
    /\ entered + left < MaxMoves /\ r \notin Range(entries)
    /\ entered' = entered + 1 /\ entries' = InsertAt(entries, i, r)
    /\ UNCHANGED <<interface, unmapped, reader, stayed, left>>

\* It leaves when it is deleted, a location when it is disabled and, with date_to, any row when
\* it is updated.
Leaves(i) ==
    /\ entered + left < MaxMoves
    /\ left' = left + 1 /\ entries' = RemoveAt(entries, i) /\ stayed' = stayed \ {entries[i]}
    /\ UNCHANGED <<interface, unmapped, reader, entered>>
-----------------------------------------------------------------------------
(* One request *)

\* The query's rows, and those of them that can be mapped.
Selected == {entries[k] : k \in DOMAIN entries \cap (reader.offset + 1)..(reader.offset + reader.limit)}
Page == Selected \ unmapped

\* Mutant: every list takes the length of the page for the total.
TotalOfPage == Cardinality(Page)

\* Locations and CDRs are counted by the database, with the page; of the others the page is.
Total == IF interface \in {"locations", "cdrs"} THEN Len(entries) ELSE Cardinality(Page)

\* PaginatedMiddleware.createLink: the offset of the next page, if there is one.
Link == IF reader.offset + reader.limit < Total THEN {reader.offset + reader.limit} ELSE {}

GetPage ==
    /\ reader.at = "ask"
    /\ reader' = [reader EXCEPT !.got = @ \cup Page,
                                !.again = @ + Cardinality(Page \cap reader.got),
                                !.at = IF Link = {} THEN "end" ELSE "ask",
                                !.offset = IF Link = {} THEN @ ELSE CHOOSE n \in Link : TRUE]
    /\ UNCHANGED <<interface, entries, unmapped, stayed, entered, left>>

ListingsNext == \/ GetPage
                \/ \E r \in Rows, i \in 1..Len(entries) + 1 : Enters(r, i)
                \/ \E i \in DOMAIN entries : Leaves(i)

ListingsSpec == ListingsInit /\ [][ListingsNext]_listingVars
-----------------------------------------------------------------------------
(* Properties *)

Missed == (stayed \ unmapped) \ reader.got

\* A partner that has followed the links of locations or CDRs misses no more of the rows that
\* were listed throughout than rows have left the list meanwhile, and gets no more rows twice
\* than have entered it.
PagesCover ==
    reader.at = "end" /\ interface \in {"locations", "cdrs"} =>
       /\ Cardinality(Missed) <= left
       /\ reader.again <= entered

\* A partner that has followed the links of any list from which nothing was taken has got every
\* row that was listed throughout: the Link header is set as PaginatedMiddleware documents it.
LinksReachEveryRow == reader.at = "end" /\ left = 0 => Missed = {}

\* The inductive invariant: so it is of the rows before the next offset, where a row comes to be
\* missed only by one that leaves, and after it, where one it has got comes only by one that
\* enters.
Behind == {entries[k] : k \in DOMAIN entries \cap 1..reader.offset}
AheadOf == {entries[k] : k \in DOMAIN entries \ 1..reader.offset}
ListingsIInv ==
    /\ ListingsTypeOK
    /\ interface # "tokens" => unmapped = {}
    /\ interface \in {"locations", "cdrs"} =>
         /\ reader.again <= entered /\ (reader.at = "end" => Cardinality(Missed) <= left)
         /\ reader.at = "ask" => /\ Cardinality(Missed \cap Behind) <= left
                                /\ reader.again + Cardinality(AheadOf \cap reader.got) <= entered
=============================================================================
