------------------------ MODULE CommandResultsProofs ------------------------
(***************************************************************************)
(* What is proved of a command: of its results, for any number of answers  *)
(* and every order of answers, timers, failures and restarts; and of its   *)
(* content, for any commands, parties, EVSEs and connectors.               *)
(***************************************************************************)
EXTENDS MCCommandResults, TLAPS

LEMMA PosterFacts == /\ Answers \subseteq Posters
                     /\ "executor" \in Posters /\ "timer" \in Posters
                     /\ \A a \in Answers : a # "executor" /\ a # "timer"
  BY AnswersAssumption DEF Posters

LEMMA InitInvariant == Init => IInv
<1> SUFFICES ASSUME Init PROVE IInv
  OBVIOUS
<1>1. TypeOK
  BY DEF Init, TypeOK, Kinds, Supported, Stages, Entries, Steps
<1>2. /\ BeforeTheCache /\ ContextMeansUnresolved /\ (entry = "resolved" => marked)
      /\ TimeoutAfterWatch /\ LateIsIdle /\ IdleHasPostedNothing
  BY PosterFacts
     DEF Init, BeforeTheCache, ContextMeansUnresolved, TimeoutAfterWatch, LateIsIdle,
         IdleHasPostedNothing
<1> QED
  BY <1>1, <1>2 DEF IInv

LEMMA TypePreserved == TypeOK /\ [Next]_vars => TypeOK'
<1> SUFFICES ASSUME TypeOK, [Next]_vars PROVE TypeOK'
  OBVIOUS
<1> USE PosterFacts DEF TypeOK, Kinds, Supported, Stages, Entries, Steps, command, outcome
<1>1. CASE HandleStartSession \/ HandleStopSession \/ HandleUnlockConnector \/ NotSupported
  BY <1>1 DEF HandleStartSession, HandleStopSession, HandleUnlockConnector, Replied, NotSupported
<1>2. CASE GenerateCommandId
  BY ZenonT(30), <1>2 DEF GenerateCommandId
<1>3. CASE UnsupportedVersion
  BY <1>3 DEF UnsupportedVersion, Decides
<1>4. CASE UnknownConnector
  BY <1>4 DEF UnknownConnector, Decides
<1>5. CASE PreparationThrows \/ CallConfirmed
          \/ SendStartSessionCommand \/ SendStopSessionCommand \/ SendUnlockConnectorCommand
  BY <1>5 DEF PreparationThrows, CallConfirmed, CallCore,
     SendStartSessionCommand, SendStopSessionCommand, SendUnlockConnectorCommand
<1>6. CASE CallFails
  BY <1>6 DEF CallFails, Decides
<1>7. ASSUME NEW a \in Answers, Answer(a) PROVE TypeOK'
  BY <1>7 DEF Answer, Decides
<1>8. ASSUME NEW a \in Answers,
             HandleStartAnswer(a) \/ HandleStopAnswer(a) \/ HandleUnlockAnswer(a)
      PROVE  TypeOK'
  BY <1>8 DEF AnswerChecked, HandleStartAnswer, HandleStopAnswer, HandleUnlockAnswer
<1>9. ASSUME NEW p \in Posters, ResolveRouting(p) PROVE TypeOK'
  BY <1>9 DEF ResolveRouting
<1>10. ASSUME NEW p \in Posters, MarkResolved(p) PROVE TypeOK'
  BY <1>10 DEF MarkResolved
<1>11. ASSUME NEW p \in Posters, MarkFails(p) PROVE TypeOK'
  BY <1>11 DEF MarkFails
<1>12. ASSUME NEW p \in Posters, Post(p) PROVE TypeOK'
  BY <1>12 DEF Post
<1>13. ASSUME NEW p \in Posters, PostFails(p) PROVE TypeOK'
  BY <1>13 DEF PostFails
<1>14. CASE Elapse
  BY <1>14 DEF Elapse
<1>15. CASE Expire
  BY <1>15 DEF Expire
<1>16. CASE Deadline
  BY <1>16 DEF Deadline
<1>17. CASE WatchEnds
  BY <1>17 DEF WatchEnds
<1>18. CASE Die
  BY <1>18 DEF Die
<1>19. CASE UNCHANGED vars
  BY <1>19 DEF vars
<1> QED
  BY <1>1, <1>2, <1>3, <1>4, <1>5, <1>6, <1>7, <1>8, <1>9, <1>10,
     <1>11, <1>12, <1>13, <1>14, <1>15, <1>16, <1>17, <1>18, <1>19
     DEF Next, Executing, Answering, Posting

\* The invariant without its type part.
Settled == /\ BeforeTheCache
           /\ ContextMeansUnresolved
           /\ entry = "resolved" => marked
           /\ TimeoutAfterWatch
           /\ LateIsIdle
           /\ IdleHasPostedNothing

LEMMA SettledPreserved == TypeOK /\ Settled /\ [Next]_vars => Settled'
<1> SUFFICES ASSUME TypeOK, Settled, [Next]_vars PROVE Settled'
  OBVIOUS
<1> USE PosterFacts
    DEF Settled, TypeOK, Entries, Steps, command, outcome,
        BeforeTheCache, ContextMeansUnresolved, TimeoutAfterWatch, LateIsIdle, IdleHasPostedNothing
<1>1. CASE HandleStartSession \/ HandleStopSession \/ HandleUnlockConnector \/ NotSupported
  BY <1>1 DEF HandleStartSession, HandleStopSession, HandleUnlockConnector, Replied, NotSupported
<1>2. CASE GenerateCommandId
  BY <1>2 DEF GenerateCommandId
<1>3. CASE UnsupportedVersion
  BY <1>3 DEF UnsupportedVersion, Decides
<1>4. CASE UnknownConnector
  BY <1>4 DEF UnknownConnector, Decides
<1>5. CASE PreparationThrows \/ CallConfirmed
          \/ SendStartSessionCommand \/ SendStopSessionCommand \/ SendUnlockConnectorCommand
  BY <1>5 DEF PreparationThrows, CallConfirmed, CallCore,
     SendStartSessionCommand, SendStopSessionCommand, SendUnlockConnectorCommand
<1>6. CASE CallFails
  BY <1>6 DEF CallFails, Decides
<1>7. ASSUME NEW a \in Answers, Answer(a) PROVE Settled'
  <2>1. a \in Posters /\ a # "timer" /\ a # "executor"
    BY <1>7
  <2>2. /\ step' = [step EXCEPT ![a] = IF entry = "context" THEN "looked" ELSE "done"]
        /\ late' = IF marked THEN late \cup {a} ELSE late
        /\ step[a] = "idle" /\ delivered
        /\ UNCHANGED <<stage, delivered, entry, watch, posted, marked>>
    BY <1>7 DEF Answer, Decides
  <2>3. /\ BeforeTheCache' /\ ContextMeansUnresolved' /\ TimeoutAfterWatch'
        /\ IdleHasPostedNothing' /\ (entry = "resolved" => marked)'
    BY <2>1, <2>2
  <2>4. LateIsIdle'
    BY <2>1, <2>2
  <2> QED
    BY <2>3, <2>4
<1>8. ASSUME NEW a \in Answers,
             HandleStartAnswer(a) \/ HandleStopAnswer(a) \/ HandleUnlockAnswer(a)
      PROVE  Settled'
  BY <1>8 DEF AnswerChecked, HandleStartAnswer, HandleStopAnswer, HandleUnlockAnswer
<1>9. ASSUME NEW p \in Posters, ResolveRouting(p) PROVE Settled'
  BY <1>9 DEF ResolveRouting
<1>10. ASSUME NEW p \in Posters, MarkResolved(p) PROVE Settled'
  BY <1>10 DEF MarkResolved
<1>11. ASSUME NEW p \in Posters, MarkFails(p) PROVE Settled'
  BY <1>11 DEF MarkFails
<1>12. ASSUME NEW p \in Posters, Post(p) PROVE Settled'
  BY <1>12 DEF Post
<1>13. ASSUME NEW p \in Posters, PostFails(p) PROVE Settled'
  BY <1>13 DEF PostFails
<1>14. CASE Elapse \/ Expire \/ Deadline
  BY <1>14 DEF Elapse, Expire, Deadline
<1>15. CASE WatchEnds
  BY <1>15 DEF WatchEnds
<1>16. CASE Die
  BY <1>16 DEF Die
<1>17. CASE UNCHANGED vars
  BY <1>17 DEF vars
<1> QED
  BY <1>1, <1>2, <1>3, <1>4, <1>5, <1>6, <1>7, <1>8, <1>9, <1>10,
     <1>11, <1>12, <1>13, <1>14, <1>15, <1>16, <1>17
     DEF Next, Executing, Answering, Posting

\* The inductive invariant: a result that is marked has taken the context from
\* the cache and the watch from the timer, so whoever comes later has nothing
\* to post.
THEOREM CommandInvariant == Spec => []IInv
<1>1. IInv /\ [Next]_vars => IInv'
  BY TypePreserved, SettledPreserved DEF IInv, Settled
<1> QED
  BY <1>1, InitInvariant, PTL DEF Spec

\* However many answers come and whenever, only the failure of the OCPP call can
\* be posted as a second result after the first was marked.
THEOREM LateAnswersPostNothing == Spec => []LateResultsAreFailures
<1>1. IInv => LateResultsAreFailures
  BY DEF IInv, LateIsIdle, LateResultsAreFailures
<1> QED
  BY <1>1, CommandInvariant, PTL
-----------------------------------------------------------------------------
(* The content of commands *)

LEMMA NoCommandType ==
  /\ NoCommand \in DispatchRecords /\ NoRequest \in RequestRecords
  /\ NoTransaction \in TransactionRecords
BY DEF NoCommand, NoRequest, NoTransaction, DispatchRecords, RequestRecords, TransactionRecords,
       CommandKinds, DispatchStages, NamedSessions, Bodies

LEMMA DispatchInitInv == DispatchInit => DispatchIInv
<1> SUFFICES ASSUME DispatchInit PROVE DispatchIInv
  OBVIOUS
<1>1. DispatchTypeOK
  <2>1. authorization \in [tenantPartner : Requesters \cup {Nobody}, roamingPartner : Requesters \cup {Nobody}]
    BY DispatchAssumption DEF DispatchInit
  <2> QED BY <2>1, NoCommandType DEF DispatchInit, DispatchTypeOK
<1>2. RowIsOfToken
  BY DEF DispatchInit, RowIsOfToken
<1>3. \A c \in Commands : /\ dispatch[c] = NoCommand /\ requests[c] = NoRequest
                          /\ answered[c] = "none" /\ verdicts[c] = {}
  BY DEF DispatchInit
<1>4. NoCommand.at = "idle" /\ NoCommand.kind = "none" /\ NoRequest.session = Nobody
  BY DEF NoCommand, NoRequest
<1>5. \A c \in Commands : CommandIsSound(c)
  BY <1>3, <1>4 DEF CommandIsSound
<1>6. \A t \in Sessions : TransactionIsSound(t)
  BY DEF DispatchInit, NoTransaction, TransactionIsSound
<1> QED BY <1>1, <1>2, <1>3, <1>4, <1>5, <1>6 DEF DispatchIInv, ReachesTheNamed, AcceptedWasDone

\* What was asked of the station is what the command names, or confuses its ids.
Reaches(d, q) == AsksForTheNamed(d, q) \/ ConfusesIds(d)

\* A step of one command, which moves it, and may send a request, say a verdict, or write the
\* token's row.
LEMMA CommandStep ==
  ASSUME DispatchIInv, NEW c \in Commands, NEW d \in DispatchRecords, NEW q \in RequestRecords,
         NEW said \in SUBSET {"FAILED"},
         dispatch' = [dispatch EXCEPT ![c] = d], requests' = [requests EXCEPT ![c] = q],
         verdicts' = [verdicts EXCEPT ![c] = @ \cup said], UNCHANGED outside,
         authorization' \in [tenantPartner : Requesters \cup {Nobody},
                             roamingPartner : Requesters \cup {Nobody}],
         RowIsOfToken', RowTellsOwner => RowTellsOwner',
         authorization.tenantPartner \in {Nobody, authorization'.tenantPartner},
         sequence' \in Nat, upserts' \subseteq Nat,
         d.at # "idle", d.kind # "none", d.from \in Requesters,
         answered[c] = "none", dispatch[c].at \notin {"asked", "ended"},
         d.kind = "START" /\ d.at # "refused" => d.from = tokenOf,
         d.kind = "START" /\ d.at \notin {"refused", "persist"} => RowTellsOwner',
         d.kind = "START" /\ d.at # "refused" => d.connector \in Connectors \cup {0},
         d.kind # "START" => d.at # "persist",
         d.kind = "STOP" => d.evse = 0 /\ d.connector = 0,
         d.kind = "STOP" /\ d.at # "refused" =>
              /\ d.session \in Sessions /\ transactions[d.session].connector # 0
              /\ transactions[d.session].linked => d.from \in {tokenOf, authorization'.tenantPartner},
         q # NoRequest => d.at \in {"asked", "ended"} /\ Reaches(d, q),
         q.session # Nobody => d.kind = "STOP" /\ q.session = d.session,
         said # {} => d.at = "ended"
  PROVE  DispatchIInv'
<1>1. /\ UNCHANGED <<protocol, online, status, reports, tokenOf, transactions, answered>>
      /\ dispatch \in [Commands -> DispatchRecords] /\ requests \in [Commands -> RequestRecords]
      /\ verdicts \in [Commands -> SUBSET Verdicts] /\ "FAILED" \in Verdicts
  BY DEF outside, DispatchIInv, DispatchTypeOK, Verdicts
<1>2. CommandIsSound(c) /\ requests[c] = NoRequest
  BY DEF DispatchIInv, CommandIsSound
<1>3. verdicts[c] = {}
  BY <1>2 DEF CommandIsSound
<1>4. /\ dispatch'[c] = d /\ requests'[c] = q /\ verdicts'[c] = said
      /\ \A b \in Commands \ {c} : /\ dispatch'[b] = dispatch[b] /\ requests'[b] = requests[b]
                                   /\ verdicts'[b] = verdicts[b]
  BY <1>1, <1>3
<1>5. DispatchTypeOK'
  BY <1>1 DEF DispatchIInv, DispatchTypeOK
<1>6. ASSUME NEW b \in Commands PROVE CommandIsSound(b)'
  <2>1. CASE b = c
    BY <1>1, <1>4, <2>1 DEF CommandIsSound
  <2>2. CASE b # c
    <3>1. CommandIsSound(b) /\ dispatch'[b] = dispatch[b] /\ requests'[b] = requests[b] /\ verdicts'[b] = verdicts[b]
      BY <1>4, <2>2 DEF DispatchIInv
    <3>2. authorization.tenantPartner # Nobody => authorization'.tenantPartner = authorization.tenantPartner
      OBVIOUS
    <3>3. dispatch[b].from # Nobody \/ dispatch[b].at = "idle"
      BY <3>1, DispatchAssumption DEF CommandIsSound, Nobody
    <3>4. dispatch[b].kind = "STOP" /\ dispatch[b].at # "refused" =>
            (transactions[dispatch[b].session].linked => dispatch[b].from \in {tokenOf, authorization'.tenantPartner})
      <4>1. dispatch[b].at = "idle" => dispatch[b].kind # "STOP"
        BY <3>1 DEF CommandIsSound, NoCommand
      <4> QED BY <3>1, <3>2, <3>3, <4>1 DEF CommandIsSound
    <3> QED BY <1>1, <3>1, <3>4 DEF CommandIsSound
  <2> QED BY <2>1, <2>2
<1>7. ASSUME NEW t \in Sessions PROVE TransactionIsSound(t)'
  <2>1. TransactionIsSound(t) /\ transactions[t].by \in {0} \cup Commands
    BY DEF DispatchIInv, DispatchTypeOK, TransactionRecords
  <2>2. transactions[t].by # c \/ transactions[t].by = 0
    BY <2>1 DEF TransactionIsSound
  <2>3. transactions[t].by # 0 => dispatch'[transactions[t].by] = dispatch[transactions[t].by]
    BY <1>4, <2>1, <2>2
  <2> QED BY <1>1, <2>1, <2>3 DEF TransactionIsSound
<1>8. ReachesTheNamed'
  BY <1>1, <1>4 DEF DispatchIInv, ReachesTheNamed, Reaches, AsksForTheNamed, ConfusesIds
<1>9. AcceptedWasDone'
  <2> SUFFICES ASSUME NEW b \in Commands
               PROVE  /\ "ACCEPTED" \in verdicts'[b] => answered[b] \in {"Accepted", "Unlocked"}
                      /\ dispatch'[b].at \in {"refused", "persist"} => verdicts'[b] = {} /\ answered[b] = "none"
    BY <1>1 DEF AcceptedWasDone
  <2>1. CASE b = c
    BY <1>4, <2>1
  <2>2. CASE b # c
    BY <1>4, <2>2 DEF DispatchIInv, AcceptedWasDone
  <2> QED BY <2>1, <2>2
<1> QED BY <1>5, <1>6, <1>7, <1>8, <1>9 DEF DispatchIInv
\* What is sound of a command that has not been asked of the station yet.
LEMMA NotAskedYet ==
  ASSUME DispatchIInv, NEW c \in Commands, dispatch[c].at \notin {"asked", "ended"}
  PROVE  /\ dispatch[c] \in DispatchRecords /\ CommandIsSound(c)
         /\ requests[c] = NoRequest /\ answered[c] = "none"
         /\ requests = [requests EXCEPT ![c] = NoRequest]
         /\ verdicts = [verdicts EXCEPT ![c] = @ \cup {}]
         /\ NoRequest.session = Nobody
BY DEF DispatchIInv, DispatchTypeOK, CommandIsSound, NoRequest

\* A command that is accepted or refused.
LEMMA ReplyStep ==
  ASSUME DispatchIInv, NEW c \in Commands, At(c, "idle"), NEW given \in DispatchRecords,
         NEW accepted \in BOOLEAN, NEW next \in {"persist", "handler"},
         Replies(c, given, accepted, next), given.kind # "none", given.from \in Requesters,
         given.kind = "START" => /\ next = "persist"
                                 /\ accepted => given.from = tokenOf /\ given.connector \in Connectors \cup {0},
         given.kind # "START" => next = "handler",
         given.kind = "STOP" => given.evse = 0 /\ given.connector = 0,
         given.kind = "STOP" /\ accepted =>
              /\ given.session \in Sessions /\ transactions[given.session].connector # 0
              /\ transactions[given.session].linked =>
                    given.from \in {tokenOf, authorization.tenantPartner}
  PROVE  DispatchIInv'
<1> DEFINE at == IF accepted THEN next ELSE "refused"
           d == [given EXCEPT !.at = at]
<1>1. /\ d \in DispatchRecords /\ d.at = at /\ d.kind = given.kind /\ d.from = given.from
      /\ d.session = given.session /\ d.connector = given.connector /\ d.evse = given.evse
  BY DEF DispatchRecords, DispatchStages
<1>2. /\ dispatch' = [dispatch EXCEPT ![c] = d] /\ UNCHANGED outside
      /\ UNCHANGED <<authorization, sequence, upserts, requests, verdicts>>
  BY DEF Replies
<1>3. UNCHANGED tokenOf
  BY <1>2 DEF outside
<1>4. /\ RowIsOfToken' /\ (RowTellsOwner => RowTellsOwner')
      /\ authorization' \in [tenantPartner : Requesters \cup {Nobody}, roamingPartner : Requesters \cup {Nobody}]
      /\ sequence' \in Nat /\ upserts' \subseteq Nat
  BY <1>2, <1>3 DEF DispatchIInv, DispatchTypeOK, RowIsOfToken, RowTellsOwner, Owner
<1>5. /\ requests' = [requests EXCEPT ![c] = NoRequest] /\ verdicts' = [verdicts EXCEPT ![c] = @ \cup {}]
      /\ answered[c] = "none" /\ dispatch[c].at \notin {"asked", "ended"} /\ NoRequest.session = Nobody
  BY <1>2, NotAskedYet DEF At
<1> HIDE DEF d
<1>6. d.at \in {"persist", "handler", "refused"}
  BY <1>1
<1>7. /\ d.kind = "START" /\ d.at # "refused" => d.from = tokenOf /\ d.connector \in Connectors \cup {0}
      /\ d.kind = "START" /\ d.at \notin {"refused", "persist"} => RowTellsOwner'
      /\ d.kind # "START" => d.at # "persist"
      /\ d.kind = "STOP" => d.evse = 0 /\ d.connector = 0
      /\ d.at # "idle" /\ d.kind # "none" /\ d.from \in Requesters
  BY <1>1
<1>8. d.kind = "STOP" /\ d.at # "refused" =>
        /\ d.session \in Sessions /\ transactions[d.session].connector # 0
        /\ transactions[d.session].linked => d.from \in {tokenOf, authorization'.tenantPartner}
  BY <1>1, <1>2
<1>9. authorization.tenantPartner \in {Nobody, authorization'.tenantPartner}
  BY <1>2
<1> DEFINE none == {}
<1>10. none \in SUBSET {"FAILED"} /\ verdicts' = [verdicts EXCEPT ![c] = @ \cup none] /\ none = {}
  BY <1>5
<1> HIDE DEF none
<1> QED BY <1>1, <1>2, <1>4, <1>5, <1>7, <1>8, <1>9, <1>10, CommandStep, NoCommandType

LEMMA GivesStep ==
  ASSUME DispatchIInv, NEW c \in Commands, Gives(c)
  PROVE  DispatchIInv'
<1>1. PICK from \in Requesters, body \in Given[c] :
        \/ body.kind = "START" /\ StartAsked(c, from, body.evse, body.connector)
        \/ body.kind = "STOP" /\ StopAsked(c, from, body.session)
        \/ body.kind = "UNLOCK" /\ UnlockAsked(c, from, body.evse, body.connector)
  BY DEF Gives
<1>2. body \in Bodies
  BY DEF Bodies
<1> DEFINE e == body.evse
           k == body.connector
           t == body.session
<1>3. CASE StartAsked(c, from, e, k)
  <2> DEFINE d == [NoCommand EXCEPT !.kind = "START", !.from = from, !.evse = e, !.connector = k]
             accepted == from = tokenOf /\ online /\ k \in Connectors \cup {0} /\ IsAvailable(e, k)
  <2>1. d \in DispatchRecords /\ d.kind = "START" /\ d.from = from /\ d.connector = k
    BY <1>2, NoCommandType DEF DispatchRecords, CommandKinds, NoCommand
  <2>2. accepted \in BOOLEAN /\ (accepted => from = tokenOf /\ k \in Connectors \cup {0})
    OBVIOUS
  <2>3. At(c, "idle") /\ Replies(c, d, accepted, "persist")
    BY <1>3 DEF StartAsked
  <2> HIDE DEF d, accepted
  <2> QED BY <2>1, <2>2, <2>3, ReplyStep
<1>4. CASE StopAsked(c, from, t)
  <2> DEFINE d == [NoCommand EXCEPT !.kind = "STOP", !.from = from, !.session = t]
             accepted == t \in Sessions /\ MayStop(from, t) /\ transactions[t].isActive
  <2>1. d \in DispatchRecords /\ d.kind = "STOP" /\ d.from = from /\ d.session = t /\ d.evse = 0 /\ d.connector = 0
    BY <1>2, NoCommandType DEF DispatchRecords, CommandKinds, NoCommand, NamedSessions
  <2>2. accepted \in BOOLEAN
    OBVIOUS
  <2>3. accepted => /\ t \in Sessions /\ transactions[t].connector # 0
                    /\ transactions[t].linked => from \in {tokenOf, authorization.tenantPartner}
    <3> SUFFICES ASSUME accepted
                 PROVE  /\ t \in Sessions /\ transactions[t].connector # 0
                        /\ transactions[t].linked => from \in {tokenOf, authorization.tenantPartner}
      OBVIOUS
    <3>1. transactions[t].connector # 0
      BY DEF DispatchIInv, TransactionIsSound, NoTransaction
    <3>2. ASSUME transactions[t].linked PROVE from \in {tokenOf, authorization.tenantPartner}
      BY <3>2 DEF MayStop, Owner, DispatchIInv, RowIsOfToken
    <3> QED BY <3>1, <3>2
  <2>4. At(c, "idle") /\ Replies(c, d, accepted, "handler")
    BY <1>4 DEF StopAsked
  <2> HIDE DEF d, accepted
  <2> QED BY <2>1, <2>2, <2>3, <2>4, ReplyStep
<1>5. CASE UnlockAsked(c, from, e, k)
  <2> DEFINE d == [NoCommand EXCEPT !.kind = "UNLOCK", !.from = from, !.evse = e, !.connector = k]
             accepted == online /\ k \in Connectors \cup {0}
  <2>1. d \in DispatchRecords /\ d.kind = "UNLOCK" /\ d.from = from
    BY <1>2, NoCommandType DEF DispatchRecords, CommandKinds, NoCommand
  <2>2. accepted \in BOOLEAN
    BY DEF DispatchIInv, DispatchTypeOK
  <2>3. At(c, "idle") /\ Replies(c, d, accepted, "handler")
    BY <1>5 DEF UnlockAsked
  <2> HIDE DEF d, accepted
  <2> QED BY <2>1, <2>2, <2>3, ReplyStep
<1> QED BY <1>1, <1>3, <1>4, <1>5

\* A command on its way moves, perhaps with the request, and perhaps to a verdict of FAILED.
LEMMA MoveCommandStep ==
  ASSUME DispatchIInv, NEW c \in Commands, NEW at \in DispatchStages, NEW remote \in Nat,
         NEW q \in RequestRecords, NEW said \in SUBSET {"FAILED"},
         dispatch[c].at \in {"persist", "handler", "sequence", "send"},
         dispatch' = [dispatch EXCEPT ![c] = [@ EXCEPT !.at = at, !.remoteStartId = remote]],
         requests' = [requests EXCEPT ![c] = q], verdicts' = [verdicts EXCEPT ![c] = @ \cup said],
         UNCHANGED outside, UNCHANGED authorization, sequence' \in Nat, upserts' \subseteq Nat,
         dispatch[c].at # "persist", at \in {"handler", "sequence", "send", "asked", "ended"},
         q # NoRequest => at \in {"asked", "ended"} /\ Reaches(dispatch[c], q),
         q.session # Nobody => dispatch[c].kind = "STOP" /\ q.session = dispatch[c].session,
         said # {} => at = "ended"
  PROVE  DispatchIInv'
<1> DEFINE d == [dispatch[c] EXCEPT !.at = at, !.remoteStartId = remote]
<1>1. /\ dispatch[c] \in DispatchRecords /\ CommandIsSound(c) /\ answered[c] = "none"
      /\ dispatch \in [Commands -> DispatchRecords]
  BY NotAskedYet DEF DispatchIInv, DispatchTypeOK
<1>2. /\ d \in DispatchRecords /\ d.at = at /\ d.kind = dispatch[c].kind /\ d.from = dispatch[c].from
      /\ d.session = dispatch[c].session /\ d.evse = dispatch[c].evse /\ d.connector = dispatch[c].connector
  BY <1>1 DEF DispatchRecords
<1>3. dispatch' = [dispatch EXCEPT ![c] = d]
  BY <1>1
<1> HIDE DEF d
<1>4. UNCHANGED tokenOf
  BY DEF outside
<1>5. /\ RowIsOfToken' /\ (RowTellsOwner <=> RowTellsOwner')
      /\ authorization' \in [tenantPartner : Requesters \cup {Nobody}, roamingPartner : Requesters \cup {Nobody}]
  BY <1>4 DEF DispatchIInv, DispatchTypeOK, RowIsOfToken, RowTellsOwner, Owner
<1>6. q # NoRequest => Reaches(d, q)
  BY <1>2 DEF Reaches, AsksForTheNamed, ConfusesIds
<1>7. /\ d.kind # "none" /\ d.from \in Requesters /\ (d.kind = "START" => d.from = tokenOf /\ RowTellsOwner /\ d.connector \in Connectors \cup {0})
      /\ d.kind = "STOP" => /\ d.session \in Sessions /\ transactions[d.session].connector # 0
                            /\ d.evse = 0 /\ d.connector = 0
                            /\ transactions[d.session].linked => d.from \in {tokenOf, authorization.tenantPartner}
  BY <1>1, <1>2 DEF CommandIsSound
<1>8. /\ d.kind = "START" /\ d.at # "refused" => d.from = tokenOf /\ d.connector \in Connectors \cup {0}
      /\ d.kind = "START" /\ d.at \notin {"refused", "persist"} => RowTellsOwner'
      /\ d.kind # "START" => d.at # "persist"
      /\ d.kind = "STOP" => d.evse = 0 /\ d.connector = 0
      /\ d.at # "idle" /\ d.kind # "none" /\ d.from \in Requesters
  BY <1>2, <1>5, <1>7
<1>9. d.kind = "STOP" /\ d.at # "refused" =>
        /\ d.session \in Sessions /\ transactions[d.session].connector # 0
        /\ transactions[d.session].linked => d.from \in {tokenOf, authorization'.tenantPartner}
  BY <1>7
<1>10. authorization.tenantPartner \in {Nobody, authorization'.tenantPartner}
  OBVIOUS
<1>11. /\ q # NoRequest => d.at \in {"asked", "ended"} /\ Reaches(d, q)
       /\ q.session # Nobody => d.kind = "STOP" /\ q.session = d.session
       /\ said # {} => d.at = "ended"
       /\ dispatch[c].at \notin {"asked", "ended"}
  BY <1>2, <1>6
<1> QED BY <1>1, <1>2, <1>3, <1>5, <1>8, <1>9, <1>10, <1>11, CommandStep
\* The token's row becomes that of the party that starts.
LEMMA PersistStep ==
  ASSUME DispatchIInv, NEW c \in Commands, PersistAuthorization(c)
  PROVE  DispatchIInv'
<1> DEFINE from == dispatch[c].from
           d == [dispatch[c] EXCEPT !.at = "handler"]
           direct == DirectOf[from]
           roaming == IF from # direct THEN from ELSE authorization.roamingPartner
           none == {}
<1>1. /\ dispatch[c].at = "persist" /\ authorization.tenantPartner \in {Nobody, direct}
      /\ authorization' = [tenantPartner |-> direct, roamingPartner |-> roaming]
      /\ dispatch' = [dispatch EXCEPT ![c] = d]
      /\ UNCHANGED outside /\ UNCHANGED <<sequence, upserts, requests, verdicts>>
  BY DEF PersistAuthorization, At, Moves, DispatchIInv, DispatchTypeOK
<1>2. UNCHANGED tokenOf
  BY <1>1 DEF outside
<1>3. /\ dispatch[c] \in DispatchRecords /\ CommandIsSound(c) /\ requests[c] = NoRequest
      /\ answered[c] = "none" /\ requests' = [requests EXCEPT ![c] = NoRequest]
      /\ verdicts' = [verdicts EXCEPT ![c] = @ \cup none] /\ none = {} /\ NoRequest.session = Nobody
  BY <1>1, NotAskedYet
<1>4. dispatch[c].kind = "START" /\ from = tokenOf /\ from \in Requesters /\ from # Nobody
  BY <1>1, <1>3, DispatchAssumption DEF CommandIsSound, DispatchIInv, DispatchTypeOK, Nobody
<1>5. /\ d \in DispatchRecords /\ d.at = "handler" /\ d.kind = "START" /\ d.from = tokenOf
      /\ d.connector \in Connectors \cup {0}
  BY <1>1, <1>3, <1>4 DEF DispatchRecords, DispatchStages, CommandIsSound
<1>6. direct \in Requesters /\ roaming \in {Nobody, tokenOf} /\ (roaming # Nobody => tokenOf # direct)
  <2>1. direct \in Requesters
    BY <1>4, DispatchAssumption
  <2> QED BY <1>4, <2>1 DEF DispatchIInv, RowIsOfToken
<1>7. /\ authorization' \in [tenantPartner : Requesters \cup {Nobody}, roamingPartner : Requesters \cup {Nobody}]
      /\ authorization'.tenantPartner = direct /\ authorization'.roamingPartner = roaming
  BY <1>1, <1>4, <1>6
<1>8. RowIsOfToken'
  BY <1>2, <1>4, <1>6, <1>7 DEF RowIsOfToken
<1>9. RowTellsOwner'
  <2>1. CASE tokenOf # direct
    BY <1>2, <1>4, <1>7, <2>1 DEF RowTellsOwner, Owner
  <2>2. CASE tokenOf = direct
    BY <1>2, <1>4, <1>6, <1>7, <2>2 DEF RowTellsOwner, Owner
  <2> QED BY <2>1, <2>2
<1>10. sequence' \in Nat /\ upserts' \subseteq Nat /\ none \in SUBSET {"FAILED"}
  BY <1>1 DEF DispatchIInv, DispatchTypeOK
<1>11. authorization.tenantPartner \in {Nobody, authorization'.tenantPartner}
  BY <1>1, <1>7
<1>12. d.at # "idle" /\ d.kind # "none" /\ d.from \in Requesters /\ d.kind # "STOP"
  BY <1>4, <1>5
<1>13. dispatch[c].at \notin {"asked", "ended"}
  BY <1>1
<1> HIDE DEF d, none
<1> QED BY <1>1, <1>3, <1>5, <1>7, <1>8, <1>9, <1>10, <1>11, <1>12, <1>13, CommandStep, NoCommandType

\* To the handler of the station's version, and FAILED without asking.
LEMMA HandlerSteps ==
  ASSUME DispatchIInv, NEW c \in Commands,
         NoHandler(c) \/ GetCommandHandler(c) \/ NextRemoteStartId(c) \/ UnlockNotFound(c)
  PROVE  DispatchIInv'
<1>1. dispatch[c].at \in {"handler", "sequence", "send"}
  BY DEF NoHandler, GetCommandHandler, NextRemoteStartId, UnlockNotFound, At
<1>2. /\ dispatch[c] \in DispatchRecords /\ requests = [requests EXCEPT ![c] = NoRequest]
      /\ NoRequest.session = Nobody /\ dispatch \in [Commands -> DispatchRecords]
      /\ sequence \in Nat /\ upserts \subseteq Nat
  BY <1>1, NotAskedYet DEF DispatchIInv, DispatchTypeOK
<1>3. dispatch[c].remoteStartId \in Nat
  BY <1>2 DEF DispatchRecords
<1>4. \A at : [dispatch[c] EXCEPT !.at = at]
                = [dispatch[c] EXCEPT !.at = at, !.remoteStartId = dispatch[c].remoteStartId]
  BY <1>2 DEF DispatchRecords
<1>5. PICK at \in {"handler", "sequence", "send", "ended"}, remote \in Nat, said \in SUBSET {"FAILED"} :
        /\ dispatch' = [dispatch EXCEPT ![c] = [@ EXCEPT !.at = at, !.remoteStartId = remote]]
        /\ verdicts' = [verdicts EXCEPT ![c] = @ \cup said] /\ (said # {} => at = "ended")
        /\ UNCHANGED outside /\ UNCHANGED <<authorization, requests>>
        /\ sequence' \in Nat /\ upserts' \subseteq Nat
  <2>1. CASE FailsUnasked(c)
    <3>1. dispatch' = [dispatch EXCEPT ![c] = [@ EXCEPT !.at = "ended", !.remoteStartId = dispatch[c].remoteStartId]]
      BY <1>2, <1>4, <2>1 DEF FailsUnasked, Moves
    <3>2. verdicts' = [verdicts EXCEPT ![c] = @ \cup {"FAILED"}]
      BY <2>1 DEF FailsUnasked
    <3>3. UNCHANGED outside /\ UNCHANGED <<authorization, requests, sequence, upserts>>
      BY <2>1 DEF FailsUnasked
    <3> QED BY <1>2, <1>3, <3>1, <3>2, <3>3
  <2> DEFINE none == {}
  <2>2. verdicts = [verdicts EXCEPT ![c] = @ \cup none] /\ none = {} /\ none \in SUBSET {"FAILED"}
    BY <1>1, NotAskedYet
  <2> HIDE DEF none
  <2>3. CASE GetCommandHandler(c)
    <3> DEFINE at == IF protocol = "ocpp2.0.1" /\ dispatch[c].kind = "START" THEN "sequence" ELSE "send"
    <3>1. dispatch' = [dispatch EXCEPT ![c] = [@ EXCEPT !.at = at, !.remoteStartId = dispatch[c].remoteStartId]]
      BY <1>2, <1>4, <2>3 DEF GetCommandHandler, Moves
    <3>2. at \in {"handler", "sequence", "send", "ended"}
      OBVIOUS
    <3>3. UNCHANGED outside /\ UNCHANGED <<authorization, requests, sequence, upserts, verdicts>>
      BY <2>3 DEF GetCommandHandler
    <3> HIDE DEF at
    <3> QED BY <1>2, <1>3, <2>2, <3>1, <3>2, <3>3
  <2>4. CASE NextRemoteStartId(c)
    <3>1. dispatch' = [dispatch EXCEPT ![c] = [@ EXCEPT !.at = "send", !.remoteStartId = sequence + 1]]
      BY <1>2, <2>4 DEF NextRemoteStartId
    <3>2. UNCHANGED outside /\ UNCHANGED <<authorization, requests, sequence, verdicts>>
      BY <2>4 DEF NextRemoteStartId
    <3>3. sequence + 1 \in Nat /\ upserts' \subseteq Nat
      BY <1>2, <2>4 DEF NextRemoteStartId
    <3> QED BY <1>2, <2>2, <3>1, <3>2, <3>3
  <2> QED BY <2>1, <2>3, <2>4 DEF NoHandler, UnlockNotFound
<1>6. /\ at \in DispatchStages /\ at \in {"handler", "sequence", "send", "asked", "ended"}
      /\ requests' = [requests EXCEPT ![c] = NoRequest]
      /\ dispatch[c].at \in {"persist", "handler", "sequence", "send"} /\ dispatch[c].at # "persist"
  BY <1>1, <1>2, <1>5 DEF DispatchStages
<1> QED BY <1>2, <1>5, <1>6, MoveCommandStep, NoCommandType

\* Whatever is sent is what the command names.
LEMMA SendsStep ==
  ASSUME DispatchIInv, NEW c \in Commands, NEW q \in RequestRecords, At(c, "send"), Sends(c, q),
         Reaches(dispatch[c], q),
         q.session # Nobody => dispatch[c].kind = "STOP" /\ q.session = dispatch[c].session
  PROVE  DispatchIInv'
<1>1. /\ dispatch[c] \in DispatchRecords /\ requests = [requests EXCEPT ![c] = NoRequest]
      /\ NoRequest.session = Nobody /\ dispatch \in [Commands -> DispatchRecords]
      /\ sequence \in Nat /\ upserts \subseteq Nat
  BY NotAskedYet DEF At, DispatchIInv, DispatchTypeOK
<1>2. dispatch[c].remoteStartId \in Nat
  BY <1>1 DEF DispatchRecords
<1>3. \A at : [dispatch[c] EXCEPT !.at = at]
                = [dispatch[c] EXCEPT !.at = at, !.remoteStartId = dispatch[c].remoteStartId]
  BY <1>1 DEF DispatchRecords
<1>4. PICK at \in {"asked", "ended"}, sent \in {q, NoRequest}, said \in SUBSET {"FAILED"} :
        /\ dispatch' = [dispatch EXCEPT ![c] = [@ EXCEPT !.at = at, !.remoteStartId = dispatch[c].remoteStartId]]
        /\ requests' = [requests EXCEPT ![c] = sent]
        /\ verdicts' = [verdicts EXCEPT ![c] = @ \cup said] /\ (said # {} => at = "ended")
  <2>1. CASE requests' = [requests EXCEPT ![c] = q] /\ UNCHANGED verdicts /\ Moves(c, "asked")
    <3> DEFINE none == {}
    <3>1. verdicts = [verdicts EXCEPT ![c] = @ \cup none] /\ none = {} /\ none \in SUBSET {"FAILED"}
      BY NotAskedYet DEF At
    <3> HIDE DEF none
    <3>2. dispatch' = [dispatch EXCEPT ![c] = [@ EXCEPT !.at = "asked", !.remoteStartId = dispatch[c].remoteStartId]]
      BY <1>1, <1>3, <2>1 DEF Moves
    <3> QED BY <2>1, <3>1, <3>2
  <2>2. CASE /\ requests' \in {requests, [requests EXCEPT ![c] = q]}
             /\ verdicts' = [verdicts EXCEPT ![c] = @ \cup {"FAILED"}] /\ Moves(c, "ended")
    <3>1. dispatch' = [dispatch EXCEPT ![c] = [@ EXCEPT !.at = "ended", !.remoteStartId = dispatch[c].remoteStartId]]
      BY <1>1, <1>3, <2>2 DEF Moves
    <3> QED BY <1>1, <2>2, <3>1
  <2> QED BY <2>1, <2>2 DEF Sends
<1>5. /\ UNCHANGED outside /\ UNCHANGED authorization /\ sequence' \in Nat /\ upserts' \subseteq Nat
      /\ at \in DispatchStages /\ at \in {"handler", "sequence", "send", "asked", "ended"}
      /\ dispatch[c].at \in {"persist", "handler", "sequence", "send"} /\ dispatch[c].at # "persist"
  BY <1>1 DEF Sends, DispatchStages, At
<1>6. sent \in RequestRecords /\ (sent # NoRequest => Reaches(dispatch[c], sent))
      /\ (sent.session # Nobody => dispatch[c].kind = "STOP" /\ sent.session = dispatch[c].session)
  BY <1>1, NoCommandType
<1> QED BY <1>2, <1>4, <1>5, <1>6, MoveCommandStep
LEMMA SendSteps ==
  ASSUME DispatchIInv, NEW c \in Commands,
         \/ SendStart16(c) \/ SendStart201(c) \/ SendStop(c) \/ SendUnlock16(c) \/ SendUnlock201(c)
  PROVE  DispatchIInv'
<1> DEFINE d == dispatch[c]
<1>1. At(c, "send") /\ d \in DispatchRecords /\ d.kind \in CommandKinds
  BY DEF SendStart16, SendStart201, SendStop, SendUnlock16, SendUnlock201, DispatchIInv,
         DispatchTypeOK, DispatchRecords
<1>2. /\ Asking(c) \in RequestRecords
      /\ Asking(c) = [kind |-> d.kind, evse |-> 0, connector |-> 0, session |-> Nobody]
  BY <1>1, NoCommandType DEF Asking, RequestRecords, NoRequest
<1>3. /\ d.evse \in {0} \cup {body.evse : body \in Bodies} /\ d.session \in NamedSessions
      /\ d.connector \in {0} \cup {body.connector : body \in Bodies}
  BY <1>1 DEF DispatchRecords
<1>4. CASE SendStart16(c)
  <2> DEFINE q == [Asking(c) EXCEPT !.connector = d.connector]
  <2>1. q \in RequestRecords /\ q.session = Nobody /\ q.connector = d.connector
    BY <1>2, <1>3 DEF RequestRecords
  <2>2. protocol = "ocpp1.6" /\ d.kind = "START" /\ d.connector \in Connectors \cup {0}
    BY <1>1, <1>4 DEF SendStart16, DispatchIInv, CommandIsSound, At
  <2>3. Reaches(d, q)
    <3> HIDE DEF q, d
    <3> QED BY <2>1, <2>2 DEF Reaches, AsksForTheNamed, ConfusesIds, Connectors
  <2>4. Sends(c, q)
    BY <1>4 DEF SendStart16
  <2> HIDE DEF q
  <2> QED BY <1>1, <2>1, <2>3, <2>4, SendsStep
<1>5. CASE SendStart201(c)
  <2> DEFINE q == [Asking(c) EXCEPT !.evse = d.evse]
  <2>1. q \in RequestRecords /\ q.session = Nobody /\ q.evse = d.evse
    BY <1>2, <1>3 DEF RequestRecords
  <2>2. Reaches(d, q)
    BY <1>5, <2>1 DEF SendStart201, Reaches, AsksForTheNamed
  <2>3. Sends(c, q)
    BY <1>5 DEF SendStart201
  <2> HIDE DEF q
  <2> QED BY <1>1, <2>1, <2>2, <2>3, SendsStep
<1>6. CASE SendStop(c)
  <2> DEFINE q == [Asking(c) EXCEPT !.session = d.session]
  <2>1. /\ q \in RequestRecords /\ q.session = d.session /\ q.evse = 0 /\ q.connector = 0
    BY <1>2, <1>3 DEF RequestRecords
  <2>2. Reaches(d, q) /\ d.kind = "STOP"
    <3>1. d.kind = "STOP" /\ d.evse = 0 /\ d.connector = 0
      BY <1>1, <1>6 DEF SendStop, DispatchIInv, CommandIsSound, At
    <3> HIDE DEF q, d
    <3> QED BY <2>1, <3>1 DEF Reaches, AsksForTheNamed
  <2>3. Sends(c, q)
    BY <1>6 DEF SendStop
  <2> HIDE DEF q
  <2> QED BY <1>1, <2>1, <2>2, <2>3, SendsStep
<1>7. CASE SendUnlock16(c)
  <2>1. PICK x \in ConnectorRows : x.id = d.connector /\ Sends(c, [Asking(c) EXCEPT !.connector = x.connectorId])
    BY <1>7 DEF SendUnlock16
  <2> DEFINE q == [Asking(c) EXCEPT !.connector = x.connectorId]
  <2>2. q \in RequestRecords /\ q.session = Nobody /\ q.connector = x.connectorId
    BY <1>2 DEF RequestRecords
  <2>3. Reaches(d, q)
    BY <1>7, <2>1, <2>2 DEF SendUnlock16, Reaches, AsksForTheNamed
  <2> HIDE DEF q
  <2>4. Sends(c, q)
    BY <2>1 DEF q
  <2> QED BY <1>1, <2>2, <2>3, <2>4, SendsStep
<1>8. CASE SendUnlock201(c)
  <2>1. PICK r \in EvseRows, x \in ConnectorRows :
          r.id = d.evse /\ x.id = d.connector /\
          Sends(c, [Asking(c) EXCEPT !.evse = r.evseTypeId, !.connector = x.evseTypeConnectorId])
    BY <1>8 DEF SendUnlock201
  <2> DEFINE q == [Asking(c) EXCEPT !.evse = r.evseTypeId, !.connector = x.evseTypeConnectorId]
  <2>2. /\ q \in RequestRecords /\ q.session = Nobody
        /\ q.evse = r.evseTypeId /\ q.connector = x.evseTypeConnectorId
    <3>1. /\ r.evseTypeId \in {0} \cup {body.evse : body \in Bodies} \cup {s.evseTypeId : s \in EvseRows}
          /\ x.evseTypeConnectorId \in {0} \cup {body.connector : body \in Bodies}
               \cup {y.connectorId : y \in ConnectorRows} \cup {y.evseTypeConnectorId : y \in ConnectorRows}
      OBVIOUS
    <3>2. q = [kind |-> d.kind, evse |-> r.evseTypeId, connector |-> x.evseTypeConnectorId,
               session |-> Nobody]
      <4> DEFINE first == [kind |-> d.kind, evse |-> 0, connector |-> 0, session |-> Nobody]
                 second == [first EXCEPT !.evse = r.evseTypeId]
      <4>1. q = [first EXCEPT !.evse = r.evseTypeId, !.connector = x.evseTypeConnectorId]
        BY <1>2
      <4>2. second = [kind |-> d.kind, evse |-> r.evseTypeId, connector |-> 0, session |-> Nobody]
        OBVIOUS
      <4>3. q = [second EXCEPT !.connector = x.evseTypeConnectorId]
        BY <4>1
      <4> HIDE DEF q, second
      <4> QED BY <4>2, <4>3
    <3>3. Nobody \in NamedSessions
      BY DEF NamedSessions
    <3> HIDE DEF q
    <3> QED BY <1>1, <3>1, <3>2, <3>3 DEF RequestRecords
  <2>3. Reaches(d, q)
    <3>1. protocol = "ocpp2.0.1" /\ d.kind = "UNLOCK"
      BY <1>8 DEF SendUnlock201
    <3> HIDE DEF q, d
    <3> QED BY <2>1, <2>2, <3>1 DEF Reaches, AsksForTheNamed, ConfusesIds
  <2> HIDE DEF q
  <2>4. Sends(c, q)
    BY <2>1 DEF q
  <2> QED BY <1>1, <2>2, <2>3, <2>4, SendsStep
<1> QED BY <1>4, <1>5, <1>6, <1>7, <1>8

\* Steps that touch no transaction, no command and no row of the token.
LEMMA AnswersStep ==
  ASSUME DispatchIInv, NEW c \in Commands,
         HandleAsyncCommandResponse(c) \/ \E answer \in StatusesOf(dispatch[c].kind) : StationAnswers(c, answer)
  PROVE  DispatchIInv'
<1>1. /\ UNCHANGED <<protocol, online, status, tokenOf, authorization, transactions, dispatch,
                     sequence, upserts, requests>>
      /\ answered \in [Commands -> {"none"} \cup StationStatuses] /\ verdicts \in [Commands -> SUBSET Verdicts]
  BY DEF HandleAsyncCommandResponse, StationAnswers, outside, DispatchIInv, DispatchTypeOK
<1>2. CASE HandleAsyncCommandResponse(c)
  <2> DEFINE said == Translate(dispatch[c].kind, answered[c])
  <2>1. /\ answered[c] # "none" /\ verdicts' = [verdicts EXCEPT ![c] = @ \cup {said}] /\ UNCHANGED answered
    BY <1>2 DEF HandleAsyncCommandResponse, outside
  <2>2. answered[c] \in StationStatuses
    BY <1>1, <2>1
  <2>3. said \in Verdicts /\ (said = "ACCEPTED" => answered[c] \in {"Accepted", "Unlocked"})
    BY <2>2 DEF Translate, StationStatuses, Verdicts
  <2> HIDE DEF said
  <2>4. DispatchTypeOK'
    BY <1>1, <2>1, <2>3 DEF DispatchIInv, DispatchTypeOK
  <2>5. \A b \in Commands : CommandIsSound(b)'
    BY <1>1, <2>1 DEF DispatchIInv, CommandIsSound, RowTellsOwner, Owner
  <2>6. dispatch[c].at \in {"asked", "ended"}
    BY <2>1 DEF DispatchIInv, CommandIsSound
  <2>7. AcceptedWasDone'
    BY <1>1, <2>1, <2>3, <2>6 DEF DispatchIInv, AcceptedWasDone
  <2> QED BY <1>1, <2>4, <2>5, <2>7
          DEF DispatchIInv, RowIsOfToken, TransactionIsSound, ReachesTheNamed, AsksForTheNamed, ConfusesIds
<1>3. ASSUME NEW answer \in StatusesOf(dispatch[c].kind), StationAnswers(c, answer)
      PROVE  DispatchIInv'
  <2>1. /\ answered' = [answered EXCEPT ![c] = answer] /\ requests[c] # NoRequest
        /\ answered[c] = "none" /\ UNCHANGED verdicts
    BY <1>3 DEF StationAnswers
  <2>2. answer \in StationStatuses
    BY DEF StatusesOf, StationStatuses
  <2>3. DispatchTypeOK'
    BY <1>1, <2>1, <2>2 DEF DispatchIInv, DispatchTypeOK
  <2>4. \A b \in Commands : CommandIsSound(b)'
    BY <1>1, <2>1, <2>2 DEF DispatchIInv, CommandIsSound, RowTellsOwner, Owner, StationStatuses
  <2>5. dispatch[c].at \in {"asked", "ended"}
    BY <2>1 DEF DispatchIInv, CommandIsSound
  <2>6. AcceptedWasDone'
    BY <1>1, <2>1, <2>5 DEF DispatchIInv, AcceptedWasDone
  <2> QED BY <1>1, <2>3, <2>4, <2>6
          DEF DispatchIInv, RowIsOfToken, TransactionIsSound, ReachesTheNamed, AsksForTheNamed, ConfusesIds
<1> QED BY <1>2, <1>3

LEMMA AsideStep ==
  ASSUME DispatchIInv, UpsertSequence \/ \E k \in Connectors, now \in Reported : Reports(k, now)
  PROVE  DispatchIInv'
<1>1. UNCHANGED <<protocol, tokenOf, authorization, transactions, dispatch, requests, answered, verdicts>>
  BY DEF UpsertSequence, Reports, outside
<1>2. DispatchTypeOK'
  BY <1>1 DEF UpsertSequence, Reports, outside, DispatchIInv, DispatchTypeOK
<1> QED BY <1>1, <1>2
        DEF DispatchIInv, RowIsOfToken, CommandIsSound, RowTellsOwner, Owner, TransactionIsSound,
            ReachesTheNamed, AsksForTheNamed, ConfusesIds, AcceptedWasDone

\* A transaction is written: it keeps its link, and a new one is linked if a command began it.
LEMMA TransactionStep ==
  ASSUME DispatchIInv, NEW t \in Sessions, NEW row \in TransactionRecords,
         transactions' = [transactions EXCEPT ![t] = row],
         UNCHANGED <<protocol, online, status, tokenOf, authorization, dispatch, sequence, upserts,
                     requests, answered, verdicts>>,
         row.connector # 0, transactions[t].connector # 0 => row.linked = transactions[t].linked,
         row.by # 0 => row.linked /\ dispatch[row.by].kind = "START" /\ dispatch[row.by].at \in {"asked", "ended"}
  PROVE  DispatchIInv'
<1>1. transactions \in [Sessions -> TransactionRecords]
  BY DEF DispatchIInv, DispatchTypeOK
<1>2. DispatchTypeOK'
  BY DEF DispatchIInv, DispatchTypeOK
<1>3. \A s \in Sessions : TransactionIsSound(s)'
  BY <1>1 DEF DispatchIInv, TransactionIsSound
<1>4. ASSUME NEW c \in Commands PROVE CommandIsSound(c)'
  <2>1. CommandIsSound(c)
    BY DEF DispatchIInv
  <2>2. dispatch[c].kind = "STOP" /\ dispatch[c].at # "refused" =>
          /\ transactions'[dispatch[c].session].connector # 0
          /\ transactions'[dispatch[c].session].linked = transactions[dispatch[c].session].linked
    BY <1>1, <2>1 DEF CommandIsSound
  <2> QED BY <2>1, <2>2 DEF CommandIsSound, RowTellsOwner, Owner
<1> QED BY <1>2, <1>3, <1>4 DEF DispatchIInv, RowIsOfToken, ReachesTheNamed, AsksForTheNamed, ConfusesIds, AcceptedWasDone

LEMMA BeginsStep ==
  ASSUME DispatchIInv, NEW t \in Sessions, NEW k \in Connectors,
         (\E c \in Commands : BeginsForCommand(c, t, k)) \/ (\E linked \in BOOLEAN : BeginsLocally(t, k, linked))
  PROVE  DispatchIInv'
<1>1. k # 0
  BY DispatchAssumption DEF Connectors
<1>2. ASSUME NEW row \in TransactionRecords, Records(t, row), row.connector = k,
             row.by # 0 => row.linked /\ dispatch[row.by].kind = "START" /\ dispatch[row.by].at \in {"asked", "ended"}
      PROVE  DispatchIInv'
  <2> DEFINE r == [row EXCEPT !.isActive = TRUE]
  <2>1. r \in TransactionRecords /\ r.connector = k /\ r.linked = row.linked /\ r.by = row.by
    BY <1>2 DEF TransactionRecords
  <2>2. /\ transactions[t].connector = 0 /\ transactions' = [transactions EXCEPT ![t] = r]
        /\ UNCHANGED <<protocol, online, status, tokenOf, authorization, dispatch, sequence, upserts,
                       requests, answered, verdicts>>
    BY <1>2 DEF Records, NoTransaction
  <2> HIDE DEF r
  <2> QED BY <1>1, <1>2, <2>1, <2>2, TransactionStep
<1>3. ASSUME NEW c \in Commands, BeginsForCommand(c, t, k) PROVE DispatchIInv'
  <2> DEFINE row == [NoTransaction EXCEPT !.connector = k, !.by = c,
                       !.linked = authorization.tenantPartner # Nobody, !.remote = protocol = "ocpp2.0.1"]
  <2>1. /\ row \in TransactionRecords /\ row.connector = k /\ row.by = c
        /\ row.linked = (authorization.tenantPartner # Nobody)
    BY NoCommandType DEF NoTransaction, TransactionRecords
  <2>2. answered[c] = "Accepted" /\ dispatch[c].kind = "START" /\ Records(t, row)
    BY <1>3 DEF BeginsForCommand
  <2>3. dispatch[c].at \in {"asked", "ended"} /\ RowTellsOwner
    BY <2>2 DEF DispatchIInv, CommandIsSound
  <2>4. authorization.tenantPartner # Nobody
    BY <2>3, DispatchAssumption DEF RowTellsOwner, DispatchIInv, DispatchTypeOK, Nobody
  <2> HIDE DEF row
  <2> QED BY <1>2, <2>1, <2>2, <2>3, <2>4
<1>4. ASSUME NEW linked \in BOOLEAN, BeginsLocally(t, k, linked) PROVE DispatchIInv'
  <2> DEFINE row == [NoTransaction EXCEPT !.connector = k, !.linked = linked]
  <2>1. row \in TransactionRecords /\ row.connector = k /\ row.by = 0
    BY NoCommandType DEF NoTransaction, TransactionRecords
  <2>2. Records(t, row)
    BY <1>4 DEF BeginsLocally
  <2> HIDE DEF row
  <2> QED BY <1>2, <2>1, <2>2
<1> QED BY <1>3, <1>4

LEMMA EndsStep ==
  ASSUME DispatchIInv, NEW t \in Sessions, Ends(t)
  PROVE  DispatchIInv'
<1> DEFINE row == [transactions[t] EXCEPT !.isActive = FALSE]
<1>1. transactions[t] \in TransactionRecords /\ TransactionIsSound(t) /\ transactions[t].isActive
  BY DEF DispatchIInv, DispatchTypeOK, Ends
<1>2. /\ row \in TransactionRecords /\ row.connector = transactions[t].connector
      /\ row.linked = transactions[t].linked /\ row.by = transactions[t].by
  BY <1>1 DEF TransactionRecords
<1>3. /\ transactions' = [transactions EXCEPT ![t] = row] /\ transactions[t].connector # 0
      /\ UNCHANGED <<protocol, online, status, tokenOf, authorization, dispatch, sequence, upserts,
                     requests, answered, verdicts>>
  BY <1>1 DEF Ends, TransactionIsSound, NoTransaction, DispatchIInv, DispatchTypeOK
<1> HIDE DEF row
<1> QED BY <1>1, <1>2, <1>3, TransactionStep DEF TransactionIsSound

LEMMA DispatchNextInv == DispatchIInv /\ [DispatchNext]_dispatchVars => DispatchIInv'
<1> SUFFICES ASSUME DispatchIInv, [DispatchNext]_dispatchVars PROVE DispatchIInv'
  OBVIOUS
<1>1. CASE UNCHANGED dispatchVars
  BY <1>1 DEF dispatchVars, DispatchIInv, DispatchTypeOK, RowIsOfToken, CommandIsSound, RowTellsOwner,
              Owner, TransactionIsSound, ReachesTheNamed, AsksForTheNamed, ConfusesIds, AcceptedWasDone
<1>2. ASSUME NEW c \in Commands, Gives(c) \/ Asks(c) \/ HandleAsyncCommandResponse(c)
      PROVE  DispatchIInv'
  BY <1>2, GivesStep, PersistStep, HandlerSteps, SendSteps, AnswersStep DEF Asks
<1>3. CASE UpsertSequence
  BY <1>3, AsideStep
<1>4. CASE StationActs
  BY <1>4, AnswersStep, AsideStep, BeginsStep, EndsStep DEF StationActs
<1> QED BY <1>1, <1>2, <1>3, <1>4 DEF DispatchNext

LEMMA DispatchIsDoneAsGiven == DispatchIInv => DoneAsGiven
<1> SUFFICES ASSUME DispatchIInv PROVE DoneAsGiven
  OBVIOUS
<1>1. StarterMayStop
  <2> SUFFICES ASSUME NEW t \in Sessions, transactions[t].by # 0
               PROVE  MayStop(dispatch[transactions[t].by].from, t)
    BY DEF StarterMayStop
  <2> DEFINE c == transactions[t].by
  <2>1. /\ c \in Commands /\ transactions[t].linked /\ dispatch[c].kind = "START"
        /\ dispatch[c].at \in {"asked", "ended"}
    BY DEF DispatchIInv, DispatchTypeOK, TransactionRecords, TransactionIsSound
  <2>2. dispatch[c].from = tokenOf /\ RowTellsOwner
    BY <2>1 DEF DispatchIInv, CommandIsSound
  <2> QED BY <2>1, <2>2 DEF MayStop, RowTellsOwner
<1>2. StopsOwnSessions
  <2> SUFFICES ASSUME NEW c \in Commands, requests[c].session # Nobody,
                      transactions[requests[c].session].linked
               PROVE  dispatch[c].from \in {tokenOf, authorization.tenantPartner}
    BY DEF StopsOwnSessions
  <2>1. CommandIsSound(c) /\ requests[c] # NoRequest
    BY DEF DispatchIInv, NoRequest
  <2> QED BY <2>1 DEF CommandIsSound
<1> QED BY <1>1, <1>2 DEF DoneAsGiven, DispatchIInv

\* For any commands that overlap, whatever the station does and the core records meanwhile: whoever
\* started may stop, no one else stops a session linked with a token; the station is asked of what
\* the command names, but by a start of 1.6 and an unlock of 2.0.1 where ids and numbers differ;
\* and ACCEPTED is told only of what the station accepted.
THEOREM CommandsDoneAsGiven == DispatchSpec => []DoneAsGiven
BY DispatchInitInv, DispatchNextInv, DispatchIsDoneAsGiven, PTL DEF DispatchSpec
==============================================================================
