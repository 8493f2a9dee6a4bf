---------------------------- MODULE ReceivedTariff ----------------------------
(***************************************************************************)
(* One tariff that a partner sends: a PUT (a pull's item is stored the     *)
(* same way) inserts the row with its elements, or deletes the elements of *)
(* the row it finds, inserts the new ones (OCPI requires one at least) and *)
(* updates the row, in three requests; a DELETE deletes all rows.  A PUT   *)
(* is known by its number.                                                 *)
(* Core's schema is external: whether a second row is refused is not known *)
(* to the repository, and the elements go with their row.                  *)
(***************************************************************************)
EXTENDS Naturals, FiniteSets

CONSTANTS TariffCalls,  \* bound: calls under way at a time
          MaxPuts       \* bound: calls that ever begin

ASSUME TariffAssumption == MaxPuts \in Nat

RowIds == 1..MaxPuts

VARIABLES tariffRows,  \* tariffRows[r]: a row's version, 0 when it is not there, and its elements
          tariffCall,  \* a call's position and local variables
          puts,        \* calls begun so far
          together,    \* history: two calls have overlapped
          brokenOff,   \* history: a call has broken off
          ended        \* history: the PUT that has just ended, and whether it was alone

tariffVars == <<tariffRows, tariffCall, puts, together, brokenOff, ended>>

NoRow == [version |-> 0, elements |-> {}]
NoTariffCall == [kind |-> "none", at |-> "idle", version |-> 0, row |-> 0, alone |-> FALSE]
There == {r \in RowIds : tariffRows[r].version # 0}

TariffRowType == [version : 0..MaxPuts, elements : SUBSET (1..MaxPuts)]
TariffCallType == [kind : {"none", "put", "delete"},
                   at : {"idle", "find", "insert", "clear", "elements", "update", "delete"},
                   version : 0..MaxPuts, row : 0..MaxPuts, alone : BOOLEAN]

TariffTypeOK ==
    /\ tariffRows \in [RowIds -> TariffRowType]
    /\ tariffCall \in [TariffCalls -> TariffCallType] /\ ended \in TariffCallType
    /\ puts \in 0..MaxPuts /\ together \in BOOLEAN /\ brokenOff \in BOOLEAN

TariffInit ==
    /\ tariffRows = [r \in RowIds |-> NoRow]
    /\ tariffCall = [c \in TariffCalls |-> NoTariffCall]
    /\ puts = 0 /\ together = FALSE /\ brokenOff = FALSE /\ ended = NoTariffCall
-----------------------------------------------------------------------------
This(c) == tariffCall[c]
TariffGoesTo(c, r, at) == /\ tariffCall' = [tariffCall EXCEPT ![c].at = at, ![c].row = r]
                          /\ UNCHANGED <<puts, together, brokenOff, ended>>
Stops(c) == /\ tariffCall' = [tariffCall EXCEPT ![c] = NoTariffCall]
            /\ UNCHANGED <<puts, together, brokenOff, ended>>
Ends(c) == /\ tariffCall' = [tariffCall EXCEPT ![c] = NoTariffCall]
           /\ ended' = This(c)
           /\ UNCHANGED <<puts, together, brokenOff>>

BeginTariff(c, kind) ==
    LET others == {d \in TariffCalls \ {c} : This(d).at # "idle"}
    IN  /\ This(c).at = "idle" /\ puts < MaxPuts
        /\ puts' = puts + 1 /\ together' = (together \/ others # {}) /\ ended' = NoTariffCall
        /\ tariffCall' = [d \in TariffCalls |->
             IF d = c
             THEN [NoTariffCall EXCEPT !.kind = kind, !.version = puts', !.alone = others = {},
                                       !.at = IF kind = "put" THEN "find" ELSE "delete"]
             ELSE [This(d) EXCEPT !.alone = FALSE]]
        /\ UNCHANGED <<tariffRows, brokenOff>>

\* The query takes the first of the rows, which it does not order.
FindTariff(c) ==
    /\ This(c).at = "find"
    /\ IF There = {} THEN TariffGoesTo(c, 0, "insert") ELSE \E r \in There : TariffGoesTo(c, r, "clear")
    /\ UNCHANGED tariffRows

\* The elements are inserted with the row.
InsertTariff(c) ==
    /\ This(c).at = "insert"
    /\ tariffRows' = [tariffRows EXCEPT ![This(c).version] =
                        [version |-> This(c).version, elements |-> {This(c).version}]]
    /\ Ends(c)

\* Where a constraint makes the tariff unique.
InsertRefused(c) == This(c).at = "insert" /\ There # {} /\ Stops(c) /\ UNCHANGED tariffRows

\* Mutant: the elements are kept.
ClearNothing(c) ==
    /\ This(c).at = "clear"
    /\ TariffGoesTo(c, This(c).row, "elements")
    /\ UNCHANGED tariffRows

ClearElements(c) ==
    /\ This(c).at = "clear"
    /\ tariffRows' = [tariffRows EXCEPT ![This(c).row].elements = {}]
    /\ TariffGoesTo(c, This(c).row, "elements")

\* Mutant: the new elements are not inserted, as if there were none.
InsertNoElements(c) ==
    /\ This(c).at = "elements"
    /\ TariffGoesTo(c, This(c).row, "update")
    /\ UNCHANGED tariffRows

InsertElements(c) ==
    /\ This(c).at = "elements" /\ This(c).row \in There
    /\ tariffRows' = [tariffRows EXCEPT ![This(c).row].elements = @ \cup {This(c).version}]
    /\ TariffGoesTo(c, This(c).row, "update")

UpdateTariff(c) ==
    /\ This(c).at = "update" /\ This(c).row \in There
    /\ tariffRows' = [tariffRows EXCEPT ![This(c).row].version = This(c).version]
    /\ Ends(c)

\* The row has been deleted: the insert of its elements is refused, or "Update failed".
RowGone(c) == /\ This(c).at \in {"elements", "update"} /\ This(c).row \notin There
              /\ Stops(c) /\ UNCHANGED tariffRows

\* Mutant: the elements are left behind.
DeleteRowsOnly(c) == /\ This(c).at = "delete"
                     /\ tariffRows' = [r \in RowIds |-> [tariffRows[r] EXCEPT !.version = 0]]
                     /\ Ends(c)

\* deleteTariff; without a row the answer is that there is none.
DeleteTariff(c) == /\ This(c).at = "delete"
                   /\ tariffRows' = [r \in RowIds |-> NoRow]
                   /\ Ends(c)

TariffBreaks(c) ==
    /\ This(c).at # "idle"
    /\ tariffCall' = [tariffCall EXCEPT ![c] = NoTariffCall]
    /\ brokenOff' = TRUE
    /\ UNCHANGED <<tariffRows, puts, together, ended>>
-----------------------------------------------------------------------------
TariffNext ==
    \E c \in TariffCalls :
        \/ \E kind \in {"put", "delete"} : BeginTariff(c, kind)
        \/ FindTariff(c) \/ InsertTariff(c) \/ InsertRefused(c) \/ ClearElements(c)
        \/ InsertElements(c) \/ UpdateTariff(c) \/ RowGone(c) \/ DeleteTariff(c) \/ TariffBreaks(c)

TariffSpec == TariffInit /\ [][TariffNext]_tariffVars
-----------------------------------------------------------------------------
(* Properties *)

\* A PUT that ends and was alone leaves the row it found with its own elements only,
\* whatever overlapping or broken calls had left there.
AlonePutStores == ended.alone /\ ended.kind = "put" =>
                    \E r \in There : tariffRows[r] = [version |-> ended.version, elements |-> {ended.version}]

\* Overlapping PUTs may mix their elements, but only a call that broke off leaves a tariff
\* without any: a row without elements has a PUT under way that will insert them.
NeverLeftEmpty == ~brokenOff => \A r \in There : tariffRows[r].elements = {} =>
                    \E c \in TariffCalls : This(c).at = "elements" /\ This(c).row = r

\* Without overlap the tariff has one row, and the elements of one PUT at most.
OneTariff == ~together => /\ Cardinality(There) <= 1
                          /\ \A r \in There : Cardinality(tariffRows[r].elements) <= 1

-----------------------------------------------------------------------------
(* The inductive invariant *)

\* A call is what its step says, and a row that is not there has no elements.
TariffCallsAreSound ==
    /\ \A r \in RowIds \ There : tariffRows[r].elements = {}
    /\ \A c \in TariffCalls :
         /\ This(c).at # "idle" => This(c).version # 0
         /\ This(c).at = "delete" => This(c).kind = "delete"
         /\ This(c).at \in {"clear", "elements", "update"} => This(c).row # 0

\* What a call found is so as long as it is alone, and what it has written stays.
AloneFindsItsRow ==
    \A c \in TariffCalls : This(c).at # "idle" /\ This(c).alone =>
        /\ \A d \in TariffCalls : d # c => This(d).at = "idle"
        /\ This(c).at = "insert" => There = {}
        /\ This(c).at \in {"clear", "elements", "update"} => This(c).row \in There
        /\ This(c).at = "elements" => tariffRows[This(c).row].elements = {}
        /\ This(c).at = "update" => tariffRows[This(c).row].elements = {This(c).version}

NothingAfterAlone == ended.alone => \A c \in TariffCalls : This(c).at = "idle"

OneAtATime ==
    ~together => /\ \A c \in TariffCalls : This(c).at # "idle" => This(c).alone
                 /\ \A r, s \in There : r = s
                 /\ \A r \in There : \A e, f \in tariffRows[r].elements : e = f

TariffIInv == /\ TariffTypeOK /\ TariffCallsAreSound /\ AloneFindsItsRow
              /\ NothingAfterAlone /\ OneAtATime /\ AlonePutStores /\ NeverLeftEmpty
=============================================================================
