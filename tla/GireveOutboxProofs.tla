-------------------------- MODULE GireveOutboxProofs ------------------------
(***************************************************************************)
(* What TLAPS proves of GireveOutbox for every set of resources and runs,  *)
(* every number of versions, attempts and rows per batch.                  *)
(***************************************************************************)
EXTENDS GireveOutbox, TLAPS

USE DEF Versions, Attempts

LEMMA AttemptAfterType == \A n \in Attempts : AttemptAfter(n) \in Attempts
  BY BoundsAssumption DEF AttemptAfter

LEMMA ItemOfType == TypeOK => \A r \in Resources : ItemOf(r) \in Item
  BY DEF TypeOK, ItemOf, Item, Row

LEMMA ItemOfFields == \A r : ItemOf(r).res = r /\ ItemOf(r).payload = row[r].payload
  BY DEF ItemOf

LEMMA RowTypes ==
  ASSUME NEW x \in Row
  PROVE  /\ Released(x) \in Row
         /\ Claimed(x) \in Row
         /\ Sent(x) \in Row
         /\ \A n \in Attempts : Rescheduled(x, n) \in Row
<1>1. Released(x) \in Row
  BY DEF Released, Row, Statuses
<1>2. Claimed(x) \in Row
  BY DEF Claimed, Row, Statuses
<1>3. Sent(x) \in Row
  BY DEF Sent, Row, Statuses
<1>4. \A n \in Attempts : Rescheduled(x, n) \in Row
  BY DEF Rescheduled, Row, Statuses
<1> QED BY <1>1, <1>2, <1>3, <1>4

-----------------------------------------------------------------------------
(* Type correctness *)

LEMMA InitType == Init => TypeOK
  BY BoundsAssumption
  DEF Init, TypeOK, NoRow, At, Row, Push, PushPc, RunPc, Statuses

LEMMA PushTypes ==
  ASSUME TypeOK, NEW r \in Resources, NEW v \in Versions, NEW p \in Push
  PROVE  [push EXCEPT ![r][v] = p] \in [Resources -> [Versions -> Push]]
<1>1. [push[r] EXCEPT ![v] = p] \in [Versions -> Push]
  BY DEF TypeOK
<1> QED BY <1>1 DEF TypeOK

LEMMA AtType == \A p \in PushPc : At(p) \in Push
  BY DEF At, Push

LEMMA SeenType ==
  ASSUME TypeOK, NEW r \in Resources, NEW v \in Versions, NEW n \in push[r][v].seen
  PROVE  n \in Attempts
<1>1. push[r][v] \in Push
  BY ZenonT(30) DEF TypeOK
<1>2. push[r][v].seen \in {{}} \cup {{m} : m \in Attempts}
  BY <1>1 DEF Push
<1> QED BY <1>2

LEMMA LiveStepType ==
  ASSUME TypeOK, NEW r \in Resources, NEW v \in Versions, LiveStep(r, v)
  PROVE  TypeOK'
<1> USE DEF runVars
<1>1. CASE BeginPush(r, v)
  BY <1>1, PushTypes, AtType DEF BeginPush, TypeOK, PushPc
<1>2. ASSUME NEW ok \in BOOLEAN, PushAnswered(r, v, ok) PROVE TypeOK'
  <2>1. push' \in [Resources -> [Versions -> Push]]
    BY <1>2, PushTypes, AtType DEF PushAnswered, PushPc
  <2> QED BY <1>2, <2>1 DEF PushAnswered, TypeOK
<1>3. CASE PushFails(r, v)
  <2>1. push' \in [Resources -> [Versions -> Push]]
    BY <1>3, PushTypes, AtType DEF PushFails, PushPc
  <2> QED BY <1>3, <2>1 DEF PushFails, TypeOK
<1>4. CASE UpsertFind(r, v)
  <2>1. AttemptToWrite(r) \in {{}} \cup {{n} : n \in Attempts}
    <3>1. row[r].attempt \in Attempts /\ 0 \in Attempts
      BY BoundsAssumption DEF Row, TypeOK
    <3>2. CASE row[r].status = "none"
      BY <3>2 DEF AttemptToWrite
    <3>3. CASE row[r].status = "sent"
      BY <3>1, <3>3 DEF AttemptToWrite
    <3>4. CASE row[r].status \notin {"none", "sent"}
      <4>1. AttemptToWrite(r) = {row[r].attempt}
        BY <3>4 DEF AttemptToWrite
      <4> QED BY <3>1, <4>1
    <3> QED BY <3>2, <3>3, <3>4
  <2>2. [pc |-> "writing", seen |-> AttemptToWrite(r)] \in Push
    BY <2>1 DEF Push, PushPc
  <2> QED BY <1>4, <2>2, PushTypes DEF UpsertFind, TypeOK
<1>5. CASE UpsertInsert(r, v)
  <2>1. push' \in [Resources -> [Versions -> Push]]
    BY <1>5, PushTypes, AtType DEF UpsertInsert, PushPc
  <2>2. row' \in [Resources -> Row]
    BY <1>5, BoundsAssumption DEF UpsertInsert, Row, Statuses, TypeOK
  <2> QED BY <1>5, <2>1, <2>2 DEF UpsertInsert, TypeOK
<1>6. CASE UpsertUpdate(r, v)
  <2>1. push' \in [Resources -> [Versions -> Push]]
    BY <1>6, PushTypes, AtType DEF UpsertUpdate, PushPc
  <2>2. PICK n \in push[r][v].seen :
           row' = [row EXCEPT ![r] = [status |-> "pending", payload |-> v, attempt |-> n,
                                      due |-> FALSE, lock |-> row[r].lock]]
    BY <1>6 DEF UpsertUpdate
  <2>3. row' \in [Resources -> Row]
    BY <2>2, SeenType DEF Row, Statuses, TypeOK
  <2> QED BY <1>6, <2>1, <2>3 DEF UpsertUpdate, TypeOK
<1>7. CASE UpsertError(r, v)
  BY <1>7, PushTypes, AtType DEF UpsertError, PushPc, TypeOK
<1> QED BY <1>1, <1>2, <1>3, <1>4, <1>5, <1>6, <1>7 DEF LiveStep

LEMMA RunStepType ==
  ASSUME TypeOK, NEW w \in Runs, RunStep(w)
  PROVE  TypeOK'
<1> USE DEF TypeOK, liveVars, RunPc
<1>1. CASE StartRun(w)
  BY <1>1 DEF StartRun
<1>2. CASE ReleaseStaleLocks(w)
  BY <1>2, RowTypes DEF ReleaseStaleLocks
<1>3. CASE ClaimDueRetries(w)
  <2>1. PICK S \in Claimable : row' = ClaimedAll(S)
                            /\ batch' = [batch EXCEPT ![w] = {ItemOf(r) : r \in S}]
    BY <1>3 DEF ClaimDueRetries
  <2>2. S \subseteq Resources
    BY DEF Claimable
  <2>3. {ItemOf(r) : r \in S} \subseteq Item
    BY <2>2, ItemOfType
  <2>4. row' \in [Resources -> Row]
    BY <2>1, RowTypes DEF ClaimedAll
  <2> QED BY <1>3, <2>1, <2>3, <2>4 DEF ClaimDueRetries
<1>4. CASE ClaimAnswerLost(w)
  BY <1>4, RowTypes DEF ClaimAnswerLost, ClaimedAll
<1>5. CASE TakeItem(w)
  BY <1>5 DEF TakeItem
<1>6. CASE EndRun(w)
  BY <1>6 DEF EndRun
<1>7. CASE PartnerFound(w)
  BY <1>7 DEF PartnerFound
<1>8. CASE PartnerMissing(w)
  BY <1>8 DEF PartnerMissing
<1>9. ASSUME NEW ok \in BOOLEAN, RetryAnswered(w, ok) PROVE TypeOK'
  BY <1>9 DEF RetryAnswered, Item
<1>10. CASE RetryFails(w)
  BY <1>10 DEF RetryFails
<1>11. CASE MarkCdrRowAsSent(w)
  BY <1>11 DEF MarkCdrRowAsSent, Item
<1>12. CASE MarkSent(w)
  BY <1>12, RowTypes DEF MarkSent, Item
<1>13. CASE MarkSentError(w)
  <2>1. row' \in [Resources -> Row]
    BY SMTT(30), <1>13, RowTypes DEF MarkSentError, Item
  <2> QED BY <1>13, <2>1 DEF MarkSentError
<1>14. CASE Reschedule(w)
  <2>1. PICK i \in cur[w] :
           row' = [row EXCEPT ![i.res] = Rescheduled(row[i.res], AttemptAfter(i.attempt))]
    BY <1>14 DEF Reschedule
  <2>2. i \in Item
    OBVIOUS
  <2>3. i.res \in Resources /\ AttemptAfter(i.attempt) \in Attempts
    BY <2>2, AttemptAfterType DEF Item
  <2>4. row' \in [Resources -> Row]
    BY <2>1, <2>3, RowTypes
  <2> QED BY <1>14, <2>4 DEF Reschedule
<1>15. CASE RunDies(w)
  BY <1>15 DEF RunDies
<1> QED BY <1>1, <1>2, <1>3, <1>4, <1>5, <1>6, <1>7, <1>8, <1>9, <1>10, <1>11,
           <1>12, <1>13, <1>14, <1>15 DEF RunStep

LEMMA ClockType ==
  ASSUME TypeOK, NEW r \in Resources, BecomesDue(r) \/ LockAges(r)
  PROVE  TypeOK'
<1>1. row[r] \in Row
  BY DEF TypeOK
<1>2. [row[r] EXCEPT !.due = TRUE] \in Row /\ [row[r] EXCEPT !.lock = "stale"] \in Row
  BY <1>1 DEF Row
<1>3. row' \in [Resources -> Row]
  BY <1>2 DEF TypeOK, BecomesDue, LockAges
<1> QED BY <1>3 DEF TypeOK, BecomesDue, LockAges, liveVars, runVars

LEMMA TypeStep == TypeOK /\ [Next]_vars => TypeOK'
<1> SUFFICES ASSUME TypeOK, [Next]_vars PROVE TypeOK'
  OBVIOUS
<1>1. CASE UNCHANGED vars
  BY <1>1 DEF vars, TypeOK
<1>2. CASE Next
  BY <1>2, LiveStepType, RunStepType, ClockType DEF Next
<1> QED BY <1>1, <1>2

\* The variables keep their types for every value of the constants: no upsert,
\* claim or reschedule writes a status, an attempt count or an item of another kind.
THEOREM TypeCorrect == Spec => []TypeOK
  BY InitType, TypeStep, PTL DEF Spec
-----------------------------------------------------------------------------
(* A closed row's payload was answered: IInv is inductive (see GireveOutbox). *)

LEMMA IInvInit == Init => IInv
<1> SUFFICES ASSUME Init PROVE IInv
  OBVIOUS
<1>1. TypeOK
  BY InitType
<1> QED BY <1>1 DEF Init, IInv, Sole, HoldsOnlyWhileRetrying, ItemsMatchRows,
                    MarkingIsAnswered, SentMeansAnswered, NoRow

LEMMA LiveStepIInv ==
  ASSUME IInv, NEW r \in Resources, NEW v \in Versions, LiveStep(r, v)
  PROVE  IInv'
<1> USE DEF IInv, runVars
<1>1. TypeOK /\ TypeOK'
  BY LiveStepType
<1>2. (Sole /\ HoldsOnlyWhileRetrying)'
  BY DEF LiveStep, BeginPush, PushAnswered, PushFails, UpsertFind, UpsertInsert,
         UpsertUpdate, UpsertError, Sole, HoldsOnlyWhileRetrying
<1>3. UNCHANGED <<pc, batch, cur>> /\ \A q \in Resources : answered[q] \subseteq answered'[q]
  <2>1. UNCHANGED <<pc, batch, cur>>
    BY DEF LiveStep, BeginPush, PushAnswered, PushFails, UpsertFind, UpsertInsert,
           UpsertUpdate, UpsertError
  <2>2. ASSUME NEW ok \in BOOLEAN, PushAnswered(r, v, ok)
        PROVE  \A q \in Resources : answered[q] \subseteq answered'[q]
    BY <1>1, <2>2 DEF PushAnswered, TypeOK
  <2>3. ASSUME UNCHANGED answered
        PROVE  \A q \in Resources : answered[q] \subseteq answered'[q]
    BY <2>3
  <2>4. \/ \E ok \in BOOLEAN : PushAnswered(r, v, ok)
        \/ UNCHANGED answered
    BY DEF LiveStep, BeginPush, PushFails, UpsertFind, UpsertInsert, UpsertUpdate, UpsertError
  <2> QED BY <2>1, <2>2, <2>3, <2>4
<1>4. \A q \in Resources : row'[q] = row[q] \/ row'[q].status = "pending"
  BY <1>1 DEF LiveStep, BeginPush, PushAnswered, PushFails, UpsertFind, UpsertInsert,
         UpsertUpdate, UpsertError, TypeOK
<1>5. \A w \in Runs : \A i \in batch[w] \cup cur[w] : i.res \in Resources
  BY <1>1 DEF TypeOK, Item
<1>6. ItemsMatchRows'
  BY <1>3, <1>4, <1>5 DEF ItemsMatchRows
<1>7. MarkingIsAnswered'
  BY <1>3, <1>5 DEF MarkingIsAnswered
<1>8. SentMeansAnswered'
  BY <1>3, <1>4 DEF SentMeansAnswered
<1> QED BY <1>1, <1>2, <1>6, <1>7, <1>8

LEMMA ClockIInv ==
  ASSUME IInv, NEW r \in Resources, BecomesDue(r) \/ LockAges(r)
  PROVE  IInv'
<1> USE DEF IInv, runVars, liveVars
<1>1. TypeOK /\ TypeOK'
  BY ClockType
<1>2. \A q \in Resources : row'[q].status = row[q].status /\ row'[q].payload = row[q].payload
  <2>1. row[r] \in Row
    BY <1>1 DEF TypeOK
  <2>2. \/ row' = [row EXCEPT ![r] = [row[r] EXCEPT !.due = TRUE]]
        \/ row' = [row EXCEPT ![r] = [row[r] EXCEPT !.lock = "stale"]]
    BY <1>1 DEF BecomesDue, LockAges, TypeOK
  <2>3. row'[r].status = row[r].status /\ row'[r].payload = row[r].payload
    BY <1>1, <2>1, <2>2 DEF TypeOK, Row
  <2>4. \A q \in Resources \ {r} : row'[q] = row[q]
    BY <1>1, <2>2 DEF TypeOK
  <2> QED BY <2>3, <2>4
<1>3. UNCHANGED <<pc, batch, cur, answered>>
  BY DEF BecomesDue, LockAges
<1>4. \A w \in Runs : \A i \in batch[w] \cup cur[w] : i.res \in Resources
  BY <1>1 DEF TypeOK, Item
<1> QED BY <1>1, <1>2, <1>3, <1>4
        DEF Sole, HoldsOnlyWhileRetrying, ItemsMatchRows, MarkingIsAnswered, SentMeansAnswered

\* What the steps that write a row do to its status and payload.
LEMMA RowSteps ==
  ASSUME NEW x \in Row
  PROVE  /\ Released(x).payload = x.payload
         /\ Released(x).status \in {x.status, "pending"}
         /\ Claimed(x).payload = x.payload
         /\ Claimed(x).status = "processing"
         /\ Sent(x).payload = x.payload
         /\ Sent(x).status = IF x.status = "processing" THEN "sent" ELSE x.status
         /\ \A n : /\ Rescheduled(x, n).payload = x.payload
                   /\ Rescheduled(x, n).status \in {x.status, "pending"}
  BY DEF Row, Released, Claimed, Sent, Rescheduled

\* A run alone is the only one with items.
LEMMA Alone ==
  ASSUME IInv, Forbid, NEW w \in Runs, pc[w] # "idle", NEW x \in Runs, x # w
  PROVE  batch[x] = {} /\ cur[x] = {}
<1>1. pc[x] = "idle"
  BY DEF IInv, Sole
<1> QED BY <1>1 DEF IInv, HoldsOnlyWhileRetrying

LEMMA RunStepIInv ==
  ASSUME IInv, Forbid, NEW w \in Runs, RunStep(w)
  PROVE  IInv'
<1> USE DEF liveVars
<1>1. TypeOK /\ TypeOK'
  BY RunStepType DEF IInv
<1>2. \A x \in Runs : \A i \in batch[x] \cup cur[x] : i \in Item /\ i.res \in Resources
  BY <1>1 DEF TypeOK, Item
<1>3. \A r \in Resources : row[r] \in Row
  BY <1>1 DEF TypeOK
\* A step that only moves the run along its program.
<1>4. ASSUME UNCHANGED <<row, batch, cur, answered>>, pc' = [pc EXCEPT ![w] = pc'[w]],
             pc[w] # "idle", pc'[w] \notin {"releasing", "claiming", "next"},
             pc'[w] = "idle" => batch[w] = {} /\ cur[w] = {},
             pc'[w] \in {"markingCdr", "marking"} => pc[w] \in {"markingCdr", "marking"}
      PROVE  IInv'
  <2>1. \A x \in Runs \ {w} : pc'[x] = pc[x]
    BY <1>1, <1>4 DEF TypeOK
  <2>2. (Sole /\ HoldsOnlyWhileRetrying)'
    BY <1>4, <2>1 DEF IInv, Sole, HoldsOnlyWhileRetrying
  <2>3. MarkingIsAnswered'
    BY <1>4, <2>1 DEF IInv, MarkingIsAnswered
  <2> QED BY <1>1, <1>4, <2>2, <2>3 DEF IInv, TypeOK, Sole, HoldsOnlyWhileRetrying, ItemsMatchRows,
                    MarkingIsAnswered, SentMeansAnswered
<1>5. CASE StartRun(w)
  BY <1>1, <1>5 DEF StartRun, IInv, TypeOK, Sole, HoldsOnlyWhileRetrying, ItemsMatchRows,
                    MarkingIsAnswered, SentMeansAnswered
<1>6. CASE ReleaseStaleLocks(w)
  <2>1. \A r \in Resources : /\ row'[r].payload = row[r].payload
                             /\ row'[r].status \in {row[r].status, "pending"}
    BY <1>3, <1>6, RowSteps DEF ReleaseStaleLocks
  <2>2. ItemsMatchRows' /\ SentMeansAnswered'
    BY <1>2, <1>6, <2>1 DEF ReleaseStaleLocks, IInv, ItemsMatchRows, SentMeansAnswered
  <2>3. (Sole /\ HoldsOnlyWhileRetrying /\ MarkingIsAnswered)'
    BY <1>1, <1>6 DEF ReleaseStaleLocks, IInv, TypeOK, Sole, HoldsOnlyWhileRetrying,
                      MarkingIsAnswered
  <2> QED BY <1>1, <2>2, <2>3 DEF IInv
<1>7. CASE ClaimDueRetries(w)
  <2>1. PICK S \in Claimable : row' = ClaimedAll(S)
                            /\ batch' = [batch EXCEPT ![w] = {ItemOf(r) : r \in S}]
    BY <1>7 DEF ClaimDueRetries
  <2>2. S \subseteq Resources
    BY DEF Claimable
  <2>3. \A r \in Resources : /\ row'[r].payload = row[r].payload
                             /\ row'[r].status \in {row[r].status, "processing"}
    BY <1>3, <2>1, RowSteps DEF ClaimedAll
  <2>4. cur[w] = {} /\ \A x \in Runs \ {w} : batch[x] = {} /\ cur[x] = {}
    <3>1. pc[w] = "claiming"
      BY <1>7 DEF ClaimDueRetries
    <3> QED BY <3>1, Alone DEF IInv, HoldsOnlyWhileRetrying
  <2>5. \A i \in batch'[w] : i.payload = row[i.res].payload /\ i.res \in Resources
    BY <1>1, <2>1, <2>2, ItemOfFields DEF TypeOK
  <2>6. \A x \in Runs \ {w} : batch'[x] = {} /\ cur'[x] = {}
    BY <1>1, <1>7, <2>1, <2>4 DEF TypeOK, ClaimDueRetries
  <2>7. ItemsMatchRows'
    BY <1>7, <2>3, <2>4, <2>5, <2>6 DEF ItemsMatchRows, ClaimDueRetries
  <2>8. SentMeansAnswered'
    BY <1>7, <2>3 DEF SentMeansAnswered, ClaimDueRetries, IInv
  <2>9. (Sole /\ HoldsOnlyWhileRetrying /\ MarkingIsAnswered)'
    BY <1>1, <1>7, <2>4, <2>6 DEF ClaimDueRetries, IInv, TypeOK, Sole,
                                  HoldsOnlyWhileRetrying, MarkingIsAnswered
  <2> QED BY <1>1, <2>7, <2>8, <2>9 DEF IInv
<1>8. CASE ClaimAnswerLost(w)
  <2>1. \A r \in Resources : /\ row'[r].payload = row[r].payload
                             /\ row'[r].status \in {row[r].status, "processing"}
    BY <1>3, <1>8, RowSteps DEF ClaimAnswerLost, ClaimedAll
  <2>2. \A x \in Runs : batch[x] = {} /\ cur[x] = {}
    <3>1. pc[w] = "claiming"
      BY <1>8 DEF ClaimAnswerLost
    <3> QED BY <3>1, Alone DEF IInv, HoldsOnlyWhileRetrying
  <2>3. ItemsMatchRows' /\ SentMeansAnswered'
    BY <1>8, <2>1, <2>2 DEF ClaimAnswerLost, IInv, ItemsMatchRows, SentMeansAnswered
  <2>4. (Sole /\ HoldsOnlyWhileRetrying /\ MarkingIsAnswered)'
    BY <1>1, <1>8, <2>2 DEF ClaimAnswerLost, IInv, TypeOK, Sole, HoldsOnlyWhileRetrying,
                            MarkingIsAnswered
  <2> QED BY <1>1, <2>3, <2>4 DEF IInv
<1>9. CASE TakeItem(w)
  <2>1. batch'[w] \cup cur'[w] \subseteq batch[w]
    BY <1>1, <1>9 DEF TakeItem, TypeOK
  <2>2. \A x \in Runs \ {w} : UNCHANGED <<batch[x], cur[x], pc[x]>>
    BY <1>1, <1>9 DEF TakeItem, TypeOK
  <2>3. pc[w] = "next" /\ pc'[w] = "partner" /\ UNCHANGED <<row, answered>>
    BY <1>1, <1>9 DEF TakeItem, TypeOK
  <2>4. \A i, j \in cur'[w] : i = j
    BY <1>1, <1>9 DEF TakeItem, TypeOK
  <2>5. (Sole /\ HoldsOnlyWhileRetrying)'
    BY <2>2, <2>3, <2>4 DEF IInv, Sole, HoldsOnlyWhileRetrying
  <2>6. ItemsMatchRows'
    BY <2>1, <2>2, <2>3 DEF IInv, ItemsMatchRows
  <2>7. (MarkingIsAnswered /\ SentMeansAnswered)'
    BY <2>2, <2>3 DEF IInv, MarkingIsAnswered, SentMeansAnswered
  <2> QED BY <1>1, <2>5, <2>6, <2>7 DEF IInv
<1>10. CASE EndRun(w)
  BY <1>1, <1>4, <1>10 DEF EndRun, TypeOK, IInv, HoldsOnlyWhileRetrying
<1>11. CASE PartnerFound(w)
  BY <1>1, <1>4, <1>11 DEF PartnerFound, TypeOK
<1>12. CASE PartnerMissing(w)
  BY <1>1, <1>4, <1>12 DEF PartnerMissing, TypeOK
<1>13. ASSUME NEW ok \in BOOLEAN, RetryAnswered(w, ok) PROVE IInv'
  <2>1. PICK i \in cur[w] :
           /\ answered' = [answered EXCEPT ![i.res] = @ \cup {i.payload}]
           /\ pc' = [pc EXCEPT ![w] = IF ok /\ i.res \in Cdrs THEN "markingCdr" ELSE "marking"]
    BY <1>13 DEF RetryAnswered
  <2>2. cur[w] = {i}
    BY <1>13, <2>1 DEF RetryAnswered, IInv, HoldsOnlyWhileRetrying
  <2>3. \A r \in Resources : answered[r] \subseteq answered'[r]
    BY <1>1, <2>1 DEF TypeOK
  <2>4. i.payload \in answered'[i.res]
    BY <1>1, <1>2, <2>1 DEF TypeOK
  <2>5. pc[w] = "pushing" /\ pc'[w] \in {"markingCdr", "marking"}
    BY <1>1, <1>13, <2>1 DEF RetryAnswered, TypeOK
  <2>6. \A x \in Runs \ {w} : pc'[x] = pc[x]
    BY <1>1, <2>1 DEF TypeOK
  <2>7. UNCHANGED <<row, batch, cur>>
    BY <1>13 DEF RetryAnswered
  <2>8. MarkingIsAnswered'
    BY <1>2, <2>2, <2>3, <2>4, <2>6, <2>7 DEF IInv, MarkingIsAnswered
  <2>9. (Sole /\ HoldsOnlyWhileRetrying)'
    BY <2>5, <2>6, <2>7 DEF IInv, Sole, HoldsOnlyWhileRetrying
  <2>10. (ItemsMatchRows /\ SentMeansAnswered)'
    BY <2>3, <2>7 DEF IInv, ItemsMatchRows, SentMeansAnswered
  <2> QED BY <1>1, <2>8, <2>9, <2>10 DEF IInv
<1>14. CASE RetryFails(w)
  BY <1>1, <1>4, <1>14 DEF RetryFails, TypeOK
<1>15. CASE MarkCdrRowAsSent(w)
  BY <1>1, <1>4, <1>15 DEF MarkCdrRowAsSent, TypeOK
<1>16. ASSUME NEW i \in cur[w], pc[w] = "marking", UNCHANGED answered,
              row' = [row EXCEPT ![i.res] = Sent(row[i.res])]
       PROVE  SentMeansAnswered' /\ \A r \in Resources : /\ row'[r].payload = row[r].payload
                                                         /\ row'[r].status \in {row[r].status, "sent"}
  <2>1. i.res \in Resources /\ i.payload \in answered[i.res]
    BY <1>2, <1>16 DEF IInv, MarkingIsAnswered
  <2>2. row[i.res].status = "processing" => row[i.res].payload = i.payload
    BY <1>16 DEF IInv, ItemsMatchRows
  <2>3. row'[i.res] = Sent(row[i.res]) /\ \A r \in Resources \ {i.res} : row'[r] = row[r]
    BY <1>1, <1>16, <2>1 DEF TypeOK
  <2>4. \A r \in Resources : row'[r].payload = row[r].payload /\ row'[r].status \in {row[r].status, "sent"}
    BY <1>3, <2>1, <2>3, RowSteps
  <2>5. SentMeansAnswered'
    BY <1>3, <1>16, <2>1, <2>2, <2>3, RowSteps DEF IInv, SentMeansAnswered
  <2> QED BY <2>4, <2>5
<1>17. CASE MarkSent(w)
  <2>1. SentMeansAnswered' /\ \A r \in Resources : /\ row'[r].payload = row[r].payload
                                                   /\ row'[r].status \in {row[r].status, "sent"}
    BY <1>16, <1>17 DEF MarkSent
  <2>2. ItemsMatchRows'
    BY SMTT(30), <1>1, <1>2, <1>17, <2>1 DEF MarkSent, IInv, ItemsMatchRows, TypeOK
  <2>3. (Sole /\ HoldsOnlyWhileRetrying /\ MarkingIsAnswered)'
    BY <1>1, <1>17 DEF MarkSent, IInv, TypeOK, Sole, HoldsOnlyWhileRetrying, MarkingIsAnswered
  <2> QED BY <1>1, <2>1, <2>2, <2>3 DEF IInv
<1>18. CASE MarkSentError(w)
  <2>1. SentMeansAnswered' /\ \A r \in Resources : /\ row'[r].payload = row[r].payload
                                                   /\ row'[r].status \in {row[r].status, "sent"}
    <3>1. CASE UNCHANGED row
      BY <1>18, <3>1 DEF MarkSentError, IInv, SentMeansAnswered
    <3> QED BY <1>16, <1>18, <3>1 DEF MarkSentError
  <2>2. ItemsMatchRows'
    BY <1>2, <1>18, <2>1 DEF MarkSentError, IInv, ItemsMatchRows
  <2>3. (Sole /\ HoldsOnlyWhileRetrying /\ MarkingIsAnswered)'
    BY <1>1, <1>18 DEF MarkSentError, IInv, TypeOK, Sole, HoldsOnlyWhileRetrying,
                       MarkingIsAnswered
  <2> QED BY <1>1, <2>1, <2>2, <2>3 DEF IInv
<1>19. CASE Reschedule(w)
  <2>1. PICK i \in cur[w] :
           row' = [row EXCEPT ![i.res] = Rescheduled(row[i.res], AttemptAfter(i.attempt))]
    BY <1>19 DEF Reschedule
  <2>2. \A r \in Resources : /\ row'[r].payload = row[r].payload
                             /\ row'[r].status \in {row[r].status, "pending"}
    BY <1>1, <1>2, <1>3, <2>1, RowSteps DEF TypeOK
  <2>3. ItemsMatchRows' /\ SentMeansAnswered'
    BY <1>1, <1>2, <1>19, <2>2 DEF Reschedule, IInv, ItemsMatchRows, SentMeansAnswered, TypeOK
  <2>4. (Sole /\ HoldsOnlyWhileRetrying /\ MarkingIsAnswered)'
    BY <1>1, <1>19 DEF Reschedule, IInv, TypeOK, Sole, HoldsOnlyWhileRetrying,
                       MarkingIsAnswered
  <2> QED BY <1>1, <2>3, <2>4 DEF IInv
<1>20. CASE RunDies(w)
  BY <1>1, <1>20 DEF RunDies, IInv, TypeOK, Sole, HoldsOnlyWhileRetrying, ItemsMatchRows,
                     MarkingIsAnswered, SentMeansAnswered
<1> QED BY <1>5, <1>6, <1>7, <1>8, <1>9, <1>10, <1>11, <1>12, <1>13, <1>14, <1>15, <1>17,
           <1>18, <1>19, <1>20 DEF RunStep

LEMMA IInvStep == ASSUME Forbid PROVE IInv /\ [Next]_vars => IInv'
<1> SUFFICES ASSUME IInv, [Next]_vars PROVE IInv'
  OBVIOUS
<1>1. CASE UNCHANGED vars
  BY <1>1 DEF vars, IInv, TypeOK, Sole, HoldsOnlyWhileRetrying, ItemsMatchRows,
              MarkingIsAnswered, SentMeansAnswered
<1>2. CASE Next
  BY <1>2, LiveStepIInv, RunStepIInv, ClockIInv DEF Next
<1> QED BY <1>1, <1>2

\* With a CronJob that forbids concurrent runs, a row is closed only when the
\* partner has answered the payload the row holds, whatever dies or fails.
THEOREM ClosedRowsWereAnswered == ASSUME Forbid PROVE Spec => []SentMeansAnswered
<1>1. Init => IInv
  BY IInvInit
<1>2. IInv /\ [Next]_vars => IInv'
  BY IInvStep
<1>3. IInv => SentMeansAnswered
  BY DEF IInv
<1> QED BY <1>1, <1>2, <1>3, PTL DEF Spec
-----------------------------------------------------------------------------
(* The two facts that hold even when runs overlap *)

\* Only the write of a live failure takes a row out of "sent": markSent and
\* reschedule are conditional on "processing", the stale-lock release likewise.
THEOREM SentIsReopenedByLiveFailure == Spec => SentReopensOnlyByLiveFailure
<1> DEFINE Reopened(r) == \E v \in Versions : push[r][v].pc = "writing"
                                              /\ push'[r][v].pc = "queued"
<1>1. ASSUME TypeOK, [Next]_vars, NEW r \in Resources,
             row[r].status = "sent", row'[r].status # "sent"
      PROVE  Reopened(r)
  <2> USE DEF liveVars, runVars
  <2>1. row' # row /\ \A q \in Resources : row[q] \in Row
    BY <1>1 DEF TypeOK
  <2>2. ASSUME NEW q \in Resources, NEW v \in Versions, LiveStep(q, v) PROVE Reopened(r)
    <3>1. UpsertInsert(q, v) \/ UpsertUpdate(q, v)
      BY <2>1, <2>2 DEF LiveStep, BeginPush, PushAnswered, PushFails, UpsertFind, UpsertError
    <3>2. q = r
      BY <1>1, <3>1 DEF UpsertInsert, UpsertUpdate, TypeOK
    <3>3. push[r][v].pc = "writing" /\ push'[r][v] = At("queued")
      <4>1. push[r][v].pc = "writing" /\ push' = [push EXCEPT ![r][v] = At("queued")]
        BY <3>1, <3>2 DEF UpsertInsert, UpsertUpdate
      <4>2. push \in [Resources -> [Versions -> Push]]
        BY <1>1 DEF TypeOK
      <4> HIDE DEF Versions
      <4>3. push'[r] = [push[r] EXCEPT ![v] = At("queued")]
        BY <4>1, <4>2
      <4>4. push[r] \in [Versions -> Push]
        BY <4>2
      <4> QED BY <4>1, <4>3, <4>4
    <3> QED BY <3>3 DEF At
  <2>3. ASSUME NEW q \in Resources, BecomesDue(q) \/ LockAges(q) PROVE FALSE
    <3>1. row'[r] = row[r] \/ \/ row'[r] = [row[r] EXCEPT !.due = TRUE]
                              \/ row'[r] = [row[r] EXCEPT !.lock = "stale"]
      BY <1>1, <2>3 DEF BecomesDue, LockAges, TypeOK
    <3> QED BY <1>1, <2>1, <3>1 DEF Row
  <2>4. ASSUME NEW w \in Runs, RunStep(w) PROVE FALSE
    <3>1. \A i \in cur[w] : i.res \in Resources
      BY <1>1 DEF TypeOK, Item
    <3>2. \/ row'[r] = row[r] \/ row'[r] = Released(row[r])
          \/ IsDue(r) /\ row'[r] = Claimed(row[r])
          \/ row'[r] = Sent(row[r])
          \/ \E n : row'[r] = Rescheduled(row[r], n)
      <4>1. CASE ClaimDueRetries(w) \/ ClaimAnswerLost(w)
        BY <1>1, <4>1 DEF ClaimDueRetries, ClaimAnswerLost, ClaimedAll, Claimable
      <4>2. CASE ReleaseStaleLocks(w)
        BY <4>2 DEF ReleaseStaleLocks
      <4>3. CASE MarkSent(w) \/ MarkSentError(w)
        BY <1>1, <3>1, <4>3 DEF MarkSent, MarkSentError, TypeOK
      <4>4. CASE Reschedule(w)
        <5>1. PICK i \in cur[w] :
                 row' = [row EXCEPT ![i.res] = Rescheduled(row[i.res], AttemptAfter(i.attempt))]
          BY <4>4 DEF Reschedule
        <5> QED BY <1>1, <3>1, <5>1 DEF TypeOK
      <4> QED BY <2>1, <2>4, <4>1, <4>2, <4>3, <4>4
              DEF RunStep, StartRun, TakeItem, EndRun, PartnerFound, PartnerMissing,
                  RetryAnswered, RetryFails, MarkCdrRowAsSent, RunDies
    <3> QED BY <1>1, <2>1, <3>2 DEF Released, Claimed, Sent, Rescheduled, IsDue, Row
  <2> QED BY <1>1, <2>1, <2>2, <2>3, <2>4 DEF Next, vars
<1>2. TypeOK /\ [Next]_vars =>
        [\A r \in Resources : row[r].status = "sent" /\ row'[r].status # "sent" => Reopened(r)]_vars
  BY <1>1
<1> QED BY <1>2, TypeCorrect, PTL DEF Spec, SentReopensOnlyByLiveFailure
-----------------------------------------------------------------------------
(* A CDR row is marked only after the hub accepted a version of the CDR. *)

\* A run at markCdrRowAsSent has an accepted CDR in hand.
MarkingCdrIsAccepted ==
  \A w \in Runs : pc[w] = "markingCdr" => \A i \in cur[w] : accepted[i.res] # {}

CdrInv == TypeOK /\ HoldsOnlyWhileRetrying /\ MarkingCdrIsAccepted /\ CdrMarkedMeansAccepted

LEMMA CdrInvStep == CdrInv /\ [Next]_vars => CdrInv'
<1> SUFFICES ASSUME CdrInv, [Next]_vars PROVE CdrInv'
  OBVIOUS
<1> USE DEF liveVars, runVars
<1>1. TypeOK /\ TypeOK'
  BY TypeStep DEF CdrInv
<1>2. \A x \in Runs : \A i \in cur[x] : i.res \in Resources
  BY <1>1 DEF TypeOK, Item
<1>3. CASE UNCHANGED vars
  BY <1>1, <1>3 DEF vars, CdrInv, HoldsOnlyWhileRetrying, MarkingCdrIsAccepted,
                    CdrMarkedMeansAccepted
<1>4. ASSUME NEW r \in Resources, NEW v \in Versions, LiveStep(r, v) PROVE CdrInv'
  <2>1. UNCHANGED <<pc, batch, cur, cdrSentAt>>
        /\ \A q \in Resources : accepted[q] \subseteq accepted'[q]
    <3>1. ASSUME NEW ok \in BOOLEAN, PushAnswered(r, v, ok)
          PROVE  \A q \in Resources : accepted[q] \subseteq accepted'[q]
      BY <1>1, <3>1 DEF PushAnswered, TypeOK
    <3>2. UNCHANGED accepted \/ \E ok \in BOOLEAN : PushAnswered(r, v, ok)
      BY <1>4 DEF LiveStep, BeginPush, PushFails, UpsertFind, UpsertInsert, UpsertUpdate,
                  UpsertError
    <3>3. UNCHANGED <<pc, batch, cur, cdrSentAt>>
      BY <1>4 DEF LiveStep, BeginPush, PushAnswered, PushFails, UpsertFind, UpsertInsert,
                  UpsertUpdate, UpsertError
    <3> QED BY <3>1, <3>2, <3>3
  <2>2. HoldsOnlyWhileRetrying'
    BY <2>1 DEF CdrInv, HoldsOnlyWhileRetrying
  <2> QED BY <1>1, <1>2, <2>1, <2>2 DEF CdrInv, HoldsOnlyWhileRetrying, MarkingCdrIsAccepted,
                                  CdrMarkedMeansAccepted
<1>5. ASSUME NEW r \in Resources, BecomesDue(r) \/ LockAges(r) PROVE CdrInv'
  BY <1>1, <1>5 DEF BecomesDue, LockAges, CdrInv, HoldsOnlyWhileRetrying,
                    MarkingCdrIsAccepted, CdrMarkedMeansAccepted
<1>6. ASSUME NEW w \in Runs, RunStep(w) PROVE CdrInv'
  <2>1. HoldsOnlyWhileRetrying'
    <3>1. \A x \in Runs \ {w} : UNCHANGED <<pc[x], batch[x], cur[x]>>
      BY <1>1, <1>6 DEF RunStep, StartRun, ReleaseStaleLocks, ClaimDueRetries,
        ClaimAnswerLost, TakeItem, EndRun, PartnerFound, PartnerMissing, RetryAnswered,
        RetryFails, MarkCdrRowAsSent, MarkSent, MarkSentError, Reschedule, RunDies, TypeOK
    <3>2. /\ pc'[w] \in {"idle", "releasing", "claiming"} => batch'[w] = {}
          /\ pc'[w] \in {"idle", "releasing", "claiming", "next"} => cur'[w] = {}
          /\ \A i, j \in cur'[w] : i = j
      BY <1>1, <1>6 DEF RunStep, StartRun, ReleaseStaleLocks, ClaimDueRetries,
        ClaimAnswerLost, TakeItem, EndRun, PartnerFound, PartnerMissing, RetryAnswered,
        RetryFails, MarkCdrRowAsSent, MarkSent, MarkSentError, Reschedule, RunDies, TypeOK,
        CdrInv, HoldsOnlyWhileRetrying
    <3> QED BY <3>1, <3>2 DEF CdrInv, HoldsOnlyWhileRetrying
  <2>2. CASE \E ok \in BOOLEAN : RetryAnswered(w, ok)
    <3>1. PICK ok \in BOOLEAN, i \in cur[w] :
             /\ accepted' = IF ok THEN [accepted EXCEPT ![i.res] = @ \cup {i.payload}]
                                  ELSE accepted
             /\ pc' = [pc EXCEPT ![w] = IF ok /\ i.res \in Cdrs THEN "markingCdr"
                                                                ELSE "marking"]
      BY <2>2 DEF RetryAnswered
    <3>2. cur[w] = {i} /\ UNCHANGED <<cur, cdrSentAt>>
      BY <2>2, <3>1 DEF RetryAnswered, CdrInv, HoldsOnlyWhileRetrying
    <3>3. \A q \in Resources : accepted[q] \subseteq accepted'[q]
      BY <1>1, <3>1 DEF TypeOK
    <3>4. pc'[w] = "markingCdr" => accepted'[i.res] # {}
      BY <1>1, <1>2, <3>1 DEF TypeOK
    <3>5. \A x \in Runs \ {w} : pc'[x] = pc[x]
      BY <1>1, <3>1 DEF TypeOK
    <3>6. MarkingCdrIsAccepted' /\ CdrMarkedMeansAccepted'
      BY <1>2, <3>2, <3>3, <3>4, <3>5 DEF CdrInv, MarkingCdrIsAccepted,
                                              CdrMarkedMeansAccepted
    <3> QED BY <1>1, <2>1, <3>6 DEF CdrInv
  <2>3. CASE MarkCdrRowAsSent(w)
    <3>1. \A x \in Runs : pc'[x] = "markingCdr" => pc[x] = "markingCdr"
      BY <1>1, <2>3 DEF MarkCdrRowAsSent, TypeOK
    <3>2. \A q \in Resources : cdrSentAt'[q] => cdrSentAt[q] \/ accepted[q] # {}
      BY <1>1, <1>2, <2>3 DEF MarkCdrRowAsSent, CdrInv, MarkingCdrIsAccepted, TypeOK
    <3> QED BY <1>1, <2>1, <2>3, <3>1, <3>2 DEF MarkCdrRowAsSent, CdrInv,
                                    MarkingCdrIsAccepted, CdrMarkedMeansAccepted
  <2>4. CASE ~MarkCdrRowAsSent(w) /\ ~\E ok \in BOOLEAN : RetryAnswered(w, ok)
    <3>1. UNCHANGED <<accepted, cdrSentAt>>
      BY <1>6, <2>4 DEF RunStep, StartRun, ReleaseStaleLocks, ClaimDueRetries,
        ClaimAnswerLost, TakeItem, EndRun, PartnerFound, PartnerMissing,
        RetryFails, MarkSent, MarkSentError, Reschedule, RunDies
    <3>2. \A x \in Runs : pc'[x] = "markingCdr" => UNCHANGED <<pc[x], cur[x]>>
      BY <1>1, <1>6, <2>4 DEF RunStep, StartRun, ReleaseStaleLocks, ClaimDueRetries,
        ClaimAnswerLost, TakeItem, EndRun, PartnerFound, PartnerMissing,
        RetryFails, MarkSent, MarkSentError, Reschedule, RunDies, TypeOK
    <3> QED BY <1>1, <2>1, <3>1, <3>2 DEF CdrInv, MarkingCdrIsAccepted,
                                              CdrMarkedMeansAccepted
  <2> QED BY <2>2, <2>3, <2>4
<1> QED BY <1>3, <1>4, <1>5, <1>6 DEF Next

\* A CDR row gets its successfullySentAt only after an OCPI acceptance, however
\* many runs overlap: an HTTP 2xx carrying a rejection never marks it.
THEOREM MarkedCdrsWereAccepted == Spec => []CdrMarkedMeansAccepted
<1>1. Init => CdrInv
  BY InitType DEF Init, CdrInv, HoldsOnlyWhileRetrying, MarkingCdrIsAccepted,
                  CdrMarkedMeansAccepted
<1>2. CdrInv => CdrMarkedMeansAccepted
  BY DEF CdrInv
<1> QED BY <1>1, <1>2, CdrInvStep, PTL DEF Spec
-----------------------------------------------------------------------------
(* Refinement: the outbox is an implementation of RetryObligation. *)

LEMMA SameOwed ==
  ASSUME \A r \in Resources : /\ row'[r].payload = row[r].payload
                              /\ IsOpen(r)' <=> IsOpen(r)
  PROVE  Owed' = Owed
  BY DEF Owed

LEMMA LiveStepRefines ==
  ASSUME IInv, NEW r \in Resources, NEW v \in Versions, LiveStep(r, v)
  PROVE  [Obligation!Next]_(Obligation!vars)
<1> USE DEF runVars
<1>1. row \in [Resources -> Row] /\ answered \in [Resources -> SUBSET Versions]
  BY DEF IInv, TypeOK
<1>2. CASE \E ok \in BOOLEAN : PushAnswered(r, v, ok)
  <2>1. Owed' = Owed /\ Obligation!Answer(r, v)
    BY <1>2 DEF PushAnswered, Owed, IsOpen, Obligation!Answer
  <2> QED BY <2>1 DEF Obligation!Next
<1>3. CASE UpsertInsert(r, v) \/ UpsertUpdate(r, v)
  <2>1. row'[r].status = "pending" /\ row'[r].payload = v
    BY <1>1, <1>3 DEF UpsertInsert, UpsertUpdate
  <2>2. \A q \in Resources \ {r} : row'[q] = row[q]
    BY <1>1, <1>3 DEF UpsertInsert, UpsertUpdate
  <2>3. Owed' = [Owed EXCEPT ![r] = {v}]
    BY <2>1, <2>2 DEF Owed, IsOpen
  <2>4. UNCHANGED answered
    BY <1>3 DEF UpsertInsert, UpsertUpdate
  <2> QED BY <2>3, <2>4 DEF Obligation!Owe, Obligation!Next
<1>4. CASE BeginPush(r, v) \/ PushFails(r, v) \/ UpsertFind(r, v) \/ UpsertError(r, v)
  <2>1. UNCHANGED <<row, answered>>
    BY <1>4 DEF BeginPush, PushFails, UpsertFind, UpsertError
  <2> QED BY <2>1 DEF Obligation!vars, Owed, IsOpen
<1> QED BY <1>2, <1>3, <1>4 DEF LiveStep

LEMMA RunStepRefines ==
  ASSUME IInv, NEW w \in Runs, RunStep(w)
  PROVE  [Obligation!Next]_(Obligation!vars)
<1> USE DEF liveVars, runVars
<1>1. /\ row \in [Resources -> Row] /\ answered \in [Resources -> SUBSET Versions]
      /\ \A r \in Resources : row[r] \in Row
      /\ \A i \in cur[w] : i.res \in Resources /\ i.payload \in Versions
  BY DEF IInv, TypeOK, Item
<1>2. CASE \E ok \in BOOLEAN : RetryAnswered(w, ok)
  <2>1. PICK i \in cur[w] : answered' = [answered EXCEPT ![i.res] = @ \cup {i.payload}]
    BY <1>2 DEF RetryAnswered
  <2>2. Owed' = Owed
    BY <1>2 DEF RetryAnswered, Owed, IsOpen
  <2>3. Obligation!Answer(i.res, i.payload)
    BY <2>1, <2>2 DEF Obligation!Answer
  <2> QED BY <1>1, <2>3 DEF Obligation!Next
<1>3. CASE \/ ReleaseStaleLocks(w) \/ ClaimDueRetries(w) \/ ClaimAnswerLost(w)
           \/ Reschedule(w)
  <2>1. \A r \in Resources : \/ row'[r] = row[r] \/ row'[r] = Released(row[r])
                             \/ IsDue(r) /\ row'[r] = Claimed(row[r])
                             \/ \E n : row'[r] = Rescheduled(row[r], n)
    <3>1. CASE ClaimDueRetries(w) \/ ClaimAnswerLost(w)
      BY <3>1 DEF ClaimDueRetries, ClaimAnswerLost, ClaimedAll, Claimable
    <3>2. CASE ReleaseStaleLocks(w)
      BY <3>2 DEF ReleaseStaleLocks
    <3>3. CASE Reschedule(w)
      <4>1. PICK i \in cur[w] :
               row' = [row EXCEPT ![i.res] = Rescheduled(row[i.res], AttemptAfter(i.attempt))]
        BY <3>3 DEF Reschedule
      <4> QED BY <1>1, <4>1
    <3> QED BY <1>3, <3>1, <3>2, <3>3
  <2>2. \A r \in Resources : /\ row'[r].payload = row[r].payload
                             /\ IsOpen(r)' <=> IsOpen(r)
    BY ZenonT(60), <1>1, <2>1 DEF Released, Claimed, Rescheduled, IsDue, IsOpen, Row
  <2>3. UNCHANGED answered
    BY <1>3 DEF ReleaseStaleLocks, ClaimDueRetries, ClaimAnswerLost, Reschedule
  <2> QED BY <2>2, <2>3, SameOwed DEF Obligation!vars
<1>4. CASE MarkSent(w) \/ MarkSentError(w)
  <2>1. UNCHANGED answered
    BY <1>4 DEF MarkSent, MarkSentError
  <2>2. CASE UNCHANGED row
    BY <2>1, <2>2 DEF Obligation!vars, Owed, IsOpen
  <2>3. ASSUME NEW i \in cur[w], row' = [row EXCEPT ![i.res] = Sent(row[i.res])],
               row[i.res].status = "processing"
        PROVE  Obligation!Discharge(i.res)
    <3>1. i.payload \in answered[i.res] /\ row[i.res].payload = i.payload
      BY <1>4, <2>3 DEF IInv, MarkingIsAnswered, ItemsMatchRows, MarkSent, MarkSentError
    <3>2. Owed[i.res] = {i.payload}
      BY <1>1, <2>3, <3>1 DEF Owed, IsOpen
    <3>3. row'[i.res].status = "sent" /\ \A q \in Resources \ {i.res} : row'[q] = row[q]
      BY <1>1, <2>3, RowSteps
    <3>4. Owed' = [Owed EXCEPT ![i.res] = {}]
      BY <3>3 DEF Owed, IsOpen
    <3> QED BY <2>1, <3>1, <3>2, <3>4 DEF Obligation!Discharge
  <2>4. ASSUME NEW i \in cur[w], row' = [row EXCEPT ![i.res] = Sent(row[i.res])],
               row[i.res].status # "processing"
        PROVE  UNCHANGED row
    BY <1>1, <2>4 DEF Sent
  <2> QED BY <1>1, <1>4, <2>2, <2>3, <2>4 DEF MarkSent, MarkSentError, Obligation!Next
<1>5. CASE \/ StartRun(w) \/ TakeItem(w) \/ EndRun(w) \/ PartnerFound(w)
           \/ PartnerMissing(w) \/ RetryFails(w) \/ MarkCdrRowAsSent(w) \/ RunDies(w)
  <2>1. UNCHANGED <<row, answered>>
    BY <1>5 DEF StartRun, TakeItem, EndRun, PartnerFound, PartnerMissing, RetryFails,
                MarkCdrRowAsSent, RunDies
  <2> QED BY <2>1 DEF Obligation!vars, Owed, IsOpen
<1> QED BY <1>2, <1>3, <1>4, <1>5 DEF RunStep

\* The rows, locks, claims and retries implement the obligation of RetryObligation
\* when runs do not overlap: a stored payload is owed until it is answered or
\* replaced by a later failure, through crashes, lost answers and late marks.
THEOREM OutboxImplementsObligation == ASSUME Forbid PROVE Spec => ImplementsObligation
<1>1. Init => Obligation!Init
  BY DEF Init, Obligation!Init, Owed, IsOpen, NoRow
<1>2. IInv /\ [Next]_vars => [Obligation!Next]_(Obligation!vars)
  <2> SUFFICES ASSUME IInv, [Next]_vars PROVE [Obligation!Next]_(Obligation!vars)
    OBVIOUS
  <2>1. CASE UNCHANGED vars
    BY <2>1 DEF vars, Obligation!vars, Owed, IsOpen
  <2>2. ASSUME NEW r \in Resources, BecomesDue(r) \/ LockAges(r)
        PROVE  UNCHANGED Obligation!vars
    <3>1. \A q \in Resources : /\ row'[q].payload = row[q].payload
                               /\ IsOpen(q)' <=> IsOpen(q)
      <4>1. row \in [Resources -> Row] /\ row[r] \in Row
        BY DEF IInv, TypeOK
      <4>2. CASE row' = [row EXCEPT ![r] = [row[r] EXCEPT !.due = TRUE]]
        BY <4>1, <4>2 DEF Row, IsOpen
      <4>3. CASE row' = [row EXCEPT ![r] = [row[r] EXCEPT !.lock = "stale"]]
        BY <4>1, <4>3 DEF Row, IsOpen
      <4> QED BY <2>2, <4>1, <4>2, <4>3 DEF BecomesDue, LockAges
    <3> QED BY <2>2, <3>1, SameOwed DEF BecomesDue, LockAges, Obligation!vars
  <2> QED BY <2>1, <2>2, LiveStepRefines, RunStepRefines DEF Next
<1> QED BY <1>1, <1>2, IInvInit, IInvStep, PTL
        DEF Spec, ImplementsObligation, Obligation!Spec
=============================================================================
