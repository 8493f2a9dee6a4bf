------------------------------ MODULE BulkPush ------------------------------
(***************************************************************************)
(* The push of all own tokens, or of all own tariffs, to one partner, by a *)
(* service or, of tokens, by a script, and the script that invalidates     *)
(* them: read by pages and sent one by one, while rows are created,        *)
(* deleted and changed, and a change is broadcast to the same partner.     *)
(***************************************************************************)
EXTENDS Naturals, Sequences, SequencesExt

CONSTANTS Pushable,    \* the rows there may be
          Incomplete,  \* those that cannot be mapped: for lack of an issuer, or of anything else
          NoIssuer,    \* of these, for lack of an issuer
          PushLimits,  \* sizes of a page
          MaxTouches   \* bound: changes of rows

ASSUME BulkAssumption == /\ IsFiniteSet(Pushable) /\ NoIssuer \subseteq Incomplete /\ Incomplete \subseteq Pushable
                         /\ PushLimits \subseteq Nat \ {0} /\ MaxTouches \in Nat

VARIABLES pushed,      \* what is pushed: by a service, or by one of the scripts
          table,       \* the rows that are there, in the order of createdAt
          revision,    \* revision[r] of each row, 0 before it is created
          partnerHas,  \* partnerHas[r]: the revision the partner has, 0 for none
          bulk,        \* the push's position and local variables
          atStart,     \* history: atStart[r] is the revision when the push began, 0 if r was not there
          touches

bulkVars == <<pushed, table, revision, partnerHas, bulk, atStart, touches>>

Scripts == {"pushing script", "invalidating script"}
Pushed == {"tokens", "tariffs"} \cup Scripts

NoPush == [at |-> "idle", limit |-> 1, offset |-> 0, batch |-> <<>>, more |-> TRUE, steady |-> TRUE,
           succeeded |-> {}, failed |-> {}, skipped |-> {}]
Revisions == 0..MaxTouches + 1
Batched == [row : Pushable, revision : Revisions]
Pushes == [at : {"idle", "read", "send", "ended"}, limit : PushLimits \cup {1}, offset : Nat,
           batch : Seq(Batched), more : BOOLEAN, steady : BOOLEAN,
           succeeded : SUBSET Pushable, failed : SUBSET Pushable, skipped : SUBSET Pushable]

BulkTypeOK ==
    /\ pushed \in Pushed
    /\ table \in Seq(Pushable) /\ IsInjective(table)
    /\ revision \in [Pushable -> Revisions] /\ partnerHas \in [Pushable -> Revisions]
    /\ bulk \in Pushes /\ atStart \in [Pushable -> Revisions] /\ touches \in 0..MaxTouches

BulkInit ==
    /\ pushed \in Pushed
    /\ table \in SetToSeqs(Pushable) \cup {Front(s) : s \in SetToSeqs(Pushable)}
    /\ revision = [r \in Pushable |-> IF r \in Range(table) THEN 1 ELSE 0]
    /\ partnerHas = IF pushed = "invalidating script" THEN revision ELSE [r \in Pushable |-> 0]
    /\ bulk = NoPush
    /\ atStart = [r \in Pushable |-> 0] /\ touches = 0
-----------------------------------------------------------------------------
(* The rows, and what is broadcast of them *)

Touches == touches < MaxTouches /\ touches' = touches + 1

\* The broadcast of a change arrives at once, or not at all.
IsBroadcast(r) ==
    \/ UNCHANGED partnerHas
    \/ r \notin Incomplete /\ partnerHas' = [partnerHas EXCEPT ![r] = revision'[r]]

\* The newest is the last.
PushableAppears(r) ==
    /\ Touches /\ revision[r] = 0
    /\ table' = Append(table, r)
    /\ revision' = [revision EXCEPT ![r] = 1]
    /\ IsBroadcast(r)
    /\ UNCHANGED <<pushed, bulk, atStart>>

PushableChanges(r) ==
    /\ Touches /\ r \in Range(table)
    /\ revision' = [revision EXCEPT ![r] = @ + 1]
    /\ IsBroadcast(r)
    /\ UNCHANGED <<pushed, table, bulk, atStart>>

\* The rows after it move to the front.
PushableGoes(k) ==
    /\ Touches
    /\ table' = RemoveAt(table, k)
    /\ bulk' = [bulk EXCEPT !.steady = FALSE]
    /\ UNCHANGED <<pushed, revision, partnerHas, atStart>>
-----------------------------------------------------------------------------
(* pushTokensToPartner and pushTariffsToPartner *)

RowsStay == UNCHANGED <<pushed, table, revision, atStart, touches>>

StartPush(limit) ==
    /\ bulk.at = "idle"
    /\ bulk' = [NoPush EXCEPT !.at = "read", !.limit = limit]
    /\ atStart' = [r \in Pushable |-> IF r \in Range(table) THEN revision[r] ELSE 0]
    /\ UNCHANGED <<pushed, table, revision, partnerHas, touches>>

\* The batch holds the rows as they are now; it is the last if it is not full.
BatchFrom(first) ==
    LET page == SubSeq(table, first + 1, Min({first + bulk.limit, Len(table)}))
    IN  [k \in DOMAIN page |-> [row |-> page[k], revision |-> revision[page[k]]]]

\* A service has read all when a batch is not full, a script when it is empty.
ReadsOn(batch) == pushed \in Scripts \/ Len(batch) = bulk.limit

ReadBatch ==
    LET batch == BatchFrom(bulk.offset)
    IN  /\ bulk.at = "read"
        /\ bulk' = [bulk EXCEPT !.at = IF batch = <<>> THEN "ended" ELSE "send",
                                !.offset = @ + Len(batch), !.batch = batch,
                                !.more = ReadsOn(batch)]
        /\ RowsStay /\ UNCHANGED partnerHas

NextRow == Head(bulk.batch).row
HasNextRow == bulk.at = "send" /\ bulk.batch # <<>>

\* Mutant: what the mapping throws is not caught, and ends the push.
CannotMapAtAll ==
    /\ HasNextRow /\ NextRow \in Incomplete
    /\ bulk' = [bulk EXCEPT !.at = "ended"]
    /\ RowsStay /\ UNCHANGED partnerHas

\* toDtoSender or mapForSender throws; a token's missing issuer is no failure.
CannotMap ==
    /\ HasNextRow /\ NextRow \in Incomplete
    /\ bulk' = IF pushed = "tokens" /\ NextRow \in NoIssuer
               THEN [bulk EXCEPT !.batch = Tail(@), !.skipped = @ \cup {NextRow}]
               ELSE [bulk EXCEPT !.batch = Tail(@), !.failed = @ \cup {NextRow}]
    /\ RowsStay /\ UNCHANGED partnerHas

\* The PATCH that invalidates finds no token where the partner has none.
FindsToken == pushed = "invalidating script" => partnerHas[NextRow] # 0

PartnerTakes ==
    /\ HasNextRow /\ NextRow \notin Incomplete /\ FindsToken
    /\ partnerHas' = [partnerHas EXCEPT ![NextRow] = Head(bulk.batch).revision]
    /\ bulk' = [bulk EXCEPT !.batch = Tail(@), !.succeeded = @ \cup {NextRow}]
    /\ RowsStay

\* Mutant: whatever is answered is a success, as it is of a tariff.
PartnerRefusesUnseen ==
    /\ HasNextRow /\ NextRow \notin Incomplete
    /\ bulk' = [bulk EXCEPT !.batch = Tail(@), !.succeeded = @ \cup {NextRow}]
    /\ RowsStay /\ UNCHANGED partnerHas

\* An answer whose status_code is not 1000; that to a tariff or a script is not looked at.
PartnerRefuses ==
    /\ HasNextRow /\ NextRow \notin Incomplete
    /\ bulk' = IF pushed = "tokens" THEN [bulk EXCEPT !.batch = Tail(@), !.failed = @ \cup {NextRow}]
               ELSE [bulk EXCEPT !.batch = Tail(@), !.succeeded = @ \cup {NextRow}]
    /\ RowsStay /\ UNCHANGED partnerHas

\* The request throws, whether or not the partner has got it.
PushThrows ==
    /\ HasNextRow /\ NextRow \notin Incomplete
    /\ \/ UNCHANGED partnerHas
       \/ FindsToken /\ partnerHas' = [partnerHas EXCEPT ![NextRow] = Head(bulk.batch).revision]
    /\ bulk' = [bulk EXCEPT !.batch = Tail(@), !.failed = @ \cup {NextRow}]
    /\ RowsStay

BatchDone ==
    /\ bulk.at = "send" /\ bulk.batch = <<>>
    /\ bulk' = [bulk EXCEPT !.at = IF bulk.more THEN "read" ELSE "ended"]
    /\ RowsStay /\ UNCHANGED partnerHas

BulkNext == \/ ReadBatch \/ CannotMap \/ PartnerTakes \/ PartnerRefuses \/ PushThrows \/ BatchDone
            \/ \E limit \in PushLimits : StartPush(limit)
            \/ \E r \in Pushable : PushableAppears(r) \/ PushableChanges(r)
            \/ \E k \in DOMAIN table : PushableGoes(k)

BulkSpec == BulkInit /\ [][BulkNext]_bulkVars
-----------------------------------------------------------------------------
(* Properties *)

\* When the push has ended, each row that was there throughout is in its summary, whatever
\* failed and was created or changed meanwhile; only a deletion makes it miss rows.
SummaryCovers ==
    bulk.at = "ended" /\ bulk.steady =>
        \A r \in Pushable : atStart[r] # 0 => r \in bulk.succeeded \cup bulk.failed \cup bulk.skipped

\* A token that is counted as pushed is with the partner, no older than when the push began.
\* It may be older than a change that was broadcast meanwhile.
SucceededArrived ==
    pushed = "tokens" => \A r \in bulk.succeeded : partnerHas[r] # 0 /\ partnerHas[r] >= atStart[r]

\* The inductive invariant: what was there throughout is in the summary, in the batch or still
\* ahead, which nothing is once a batch was not full; revisions only grow.
Summary == bulk.succeeded \cup bulk.failed \cup bulk.skipped
InBatch(r) == \E k \in DOMAIN bulk.batch : bulk.batch[k].row = r
IsAhead(r) == \E k \in DOMAIN table : k > bulk.offset /\ table[k] = r
Grows(r) == /\ revision[r] <= touches + 1 /\ revision[r] >= atStart[r]
            /\ r \in Range(table) => revision[r] # 0
BulkIInv ==
    /\ BulkTypeOK
    /\ \A r \in Pushable : Grows(r)
    /\ bulk.at = "idle" => bulk = [NoPush EXCEPT !.steady = bulk.steady] /\ \A r \in Pushable : atStart[r] = 0
    /\ bulk.at \in {"read", "ended"} => bulk.batch = <<>>
    /\ bulk.at \in {"read", "send"} => bulk.limit \in PushLimits
    /\ bulk.at = "read" => bulk.more
    /\ \A k \in DOMAIN bulk.batch : /\ bulk.batch[k].revision # 0
                                    /\ bulk.batch[k].revision >= atStart[bulk.batch[k].row]
    /\ bulk.steady /\ bulk.at # "idle" => \A r \in Pushable : atStart[r] # 0 =>
          \/ r \in Summary \/ InBatch(r)
          \/ IsAhead(r) /\ bulk.more /\ bulk.at # "ended"
    /\ SucceededArrived
=============================================================================
