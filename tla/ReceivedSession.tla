--------------------------- MODULE ReceivedSession ---------------------------
(***************************************************************************)
(* One session that a partner sends: PUTs that create it or replace fields *)
(* (a pull's item is stored the same way) and PATCHes that append charging *)
(* periods by reading, merging and writing back the list.  The partner     *)
(* numbers its periods; it may repeat a PATCH of which the answer was lost.*)
(* No constraint is known to the repository that makes a session unique.   *)
(***************************************************************************)
EXTENDS Naturals, Sequences, FiniteSets, SequencesExt

CONSTANTS SessionCalls,  \* bound: calls under way at a time
          MaxSent        \* bound: calls that ever begin

ASSUME SessionAssumption == MaxSent \in Nat

VARIABLES sessionRows,  \* the rows of the session: their lists of periods
          sessionCall,  \* a call's position and local variables
          period,       \* the last period that the partner has sent
          sent,         \* calls begun so far
          owed,         \* history: the periods of the PATCHes that have been answered
          clash,        \* history: two PUTs, or two calls with periods, have overlapped
          repeated      \* history: a period has been sent again

sessionVars == <<sessionRows, sessionCall, period, sent, owed, clash, repeated>>

NoSessionCall == [kind |-> "none", at |-> "idle", periods |-> <<>>, row |-> 0]

SessionCallType == [kind : {"none", "put", "patch"}, periods : Seq(1..period), row : Nat,
                    at : {"idle", "find", "insert", "find again", "update"}]

SessionTypeOK ==
    /\ sessionRows \in Seq(Seq(1..period)) /\ period \in 0..sent /\ sent \in 0..MaxSent
    /\ sessionCall \in [SessionCalls -> SessionCallType]
    /\ owed \subseteq 1..period /\ clash \in BOOLEAN /\ repeated \in BOOLEAN

SessionInit ==
    /\ sessionRows = <<>>
    /\ sessionCall = [c \in SessionCalls |-> NoSessionCall]
    /\ period = 0 /\ sent = 0 /\ owed = {} /\ clash = FALSE /\ repeated = FALSE
-----------------------------------------------------------------------------
InCall(c) == sessionCall[c]
SessionGoesTo(c, at) == sessionCall' = [sessionCall EXCEPT ![c].at = at]
SessionGoesToRow(c, r, at) == sessionCall' = [sessionCall EXCEPT ![c].at = at, ![c].row = r]
SessionReturns(c) == sessionCall' = [sessionCall EXCEPT ![c] = NoSessionCall]
SessionElseSame == UNCHANGED <<period, sent, owed, clash, repeated>>

Meets(kind, periods, d) == \/ kind = "put" /\ InCall(d).kind = "put"
                           \/ periods # <<>> /\ InCall(d).periods # <<>>

SendSession(c, kind, periods) ==
    /\ InCall(c).at = "idle" /\ sent < MaxSent
    /\ sent' = sent + 1
    /\ clash' = (clash \/ \E d \in SessionCalls \ {c} : Meets(kind, periods, d))
    /\ sessionCall' = [sessionCall EXCEPT ![c] =
         [NoSessionCall EXCEPT !.kind = kind, !.at = "find", !.periods = periods]]
    /\ UNCHANGED <<sessionRows, owed>>

\* A PUT names all periods or none; a PATCH names the next, an earlier one again, or none.
SendPut(c) == /\ \E periods \in {<<>>, [i \in 1..period |-> i]} : SendSession(c, "put", periods)
              /\ UNCHANGED <<period, repeated>>
SendStatus(c) == SendSession(c, "patch", <<>>) /\ UNCHANGED <<period, repeated>>
SendPeriod(c) == /\ SendSession(c, "patch", <<period + 1>>)
                 /\ period' = period + 1 /\ UNCHANGED repeated
SendAgain(c) == /\ \E p \in 1..period : SendSession(c, "patch", <<p>>)
                /\ repeated' = TRUE /\ UNCHANGED period

\* Mutant: a PUT looks for no row.
FindNothing(c) ==
    /\ InCall(c).at = "find" /\ InCall(c).kind = "put"
    /\ SessionGoesTo(c, "insert")
    /\ SessionElseSame /\ UNCHANGED sessionRows

\* findThenUpsert; of two rows either may be found.
FindForPut(c) ==
    /\ InCall(c).at = "find" /\ InCall(c).kind = "put"
    /\ IF sessionRows = <<>> THEN SessionGoesTo(c, "insert")
       ELSE \E r \in DOMAIN sessionRows : SessionGoesToRow(c, r, "update")
    /\ SessionElseSame /\ UNCHANGED sessionRows

InsertSession(c) ==
    /\ InCall(c).at = "insert"
    /\ sessionRows' = Append(sessionRows, InCall(c).periods)
    /\ SessionReturns(c) /\ SessionElseSame

\* Mutant: a PATCH without periods writes the list it has read.
MergeAlways(c, r) == sessionRows[r] \o InCall(c).periods

\* The periods that were read and those of the PATCH; <<>> leaves the column alone.
Merge(c, r) == IF InCall(c).periods = <<>> THEN <<>> ELSE sessionRows[r] \o InCall(c).periods

\* getSessionByOcpiId; a session that is not stored is refused.
ReadForPatch(c) ==
    /\ InCall(c).at = "find" /\ InCall(c).kind = "patch"
    /\ IF sessionRows = <<>> THEN SessionReturns(c)
       ELSE \E r \in DOMAIN sessionRows :
              sessionCall' = [sessionCall EXCEPT ![c].at = "find again", ![c].periods = Merge(c, r)]
    /\ SessionElseSame /\ UNCHANGED sessionRows

FindSessionToPatch(c) ==
    /\ InCall(c).at = "find again"
    /\ \E r \in DOMAIN sessionRows : SessionGoesToRow(c, r, "update")
    /\ SessionElseSame /\ UNCHANGED sessionRows

\* Mutant: a PUT without periods empties the list.
UpdateWhole(c) ==
    /\ InCall(c).at = "update"
    /\ sessionRows' = [sessionRows EXCEPT ![InCall(c).row] = InCall(c).periods]
    /\ owed' = IF InCall(c).kind = "patch" THEN owed \cup Range(InCall(c).periods) ELSE owed
    /\ SessionReturns(c)
    /\ UNCHANGED <<period, sent, clash, repeated>>

\* UPDATE_SESSION_BY_PK_MUTATION of the fields that the call names.
UpdateSession(c) ==
    /\ InCall(c).at = "update"
    /\ sessionRows' = IF InCall(c).periods = <<>> THEN sessionRows
                      ELSE [sessionRows EXCEPT ![InCall(c).row] = InCall(c).periods]
    /\ owed' = IF InCall(c).kind = "patch" THEN owed \cup Range(InCall(c).periods) ELSE owed
    /\ SessionReturns(c)
    /\ UNCHANGED <<period, sent, clash, repeated>>

SessionBreaks(c) == /\ InCall(c).at # "idle" /\ SessionReturns(c)
                    /\ SessionElseSame /\ UNCHANGED sessionRows
-----------------------------------------------------------------------------
SessionNext ==
    \E c \in SessionCalls :
        \/ SendPut(c) \/ SendStatus(c) \/ SendPeriod(c) \/ SendAgain(c)
        \/ FindForPut(c) \/ InsertSession(c) \/ ReadForPatch(c) \/ FindSessionToPatch(c)
        \/ UpdateSession(c) \/ SessionBreaks(c)

SessionSpec == SessionInit /\ [][SessionNext]_sessionVars
-----------------------------------------------------------------------------
(* Properties *)

\* A period whose PATCH was answered stays in the list, whatever PUTs and PATCHes without
\* periods overlap with it or fail: only two calls that both write the list lose any.
PeriodsKept == ~clash => \A r \in DOMAIN sessionRows : owed \subseteq Range(sessionRows[r])

\* A session has one row, and a period is in it once and in order, as long as the partner
\* sends no period again and its PUTs and its calls with periods one after the other.
PeriodsInOrder == ~clash => /\ Len(sessionRows) <= 1
                            /\ ~repeated => \A r \in DOMAIN sessionRows :
                                 \A i, j \in DOMAIN sessionRows[r] : i < j => sessionRows[r][i] < sessionRows[r][j]
-----------------------------------------------------------------------------
(* The inductive invariant *)

\* The list that a call is about to write holds what the partner may count on.
WritesOwed(c) == InCall(c).at # "idle" /\ (InCall(c).kind = "put" \/ InCall(c).at # "find") =>
                   InCall(c).periods = <<>> \/ owed \subseteq Range(InCall(c).periods)

\* A call is what its step says, and has found the row that it will update.
CallsAreSound ==
    \A c \in SessionCalls :
        /\ InCall(c).at = "idle" => InCall(c) = NoSessionCall
        /\ InCall(c).at = "insert" => InCall(c).kind = "put"
        /\ InCall(c).at = "find again" => InCall(c).kind = "patch"
        /\ InCall(c).at # "idle" => InCall(c).kind # "none"
        /\ InCall(c).at = "update" => InCall(c).row \in DOMAIN sessionRows

\* No two calls meet; one that inserts the row is the first to; nothing is owed without it.
CallsKeepApart ==
    /\ \A c, d \in SessionCalls : c # d => ~Meets(InCall(c).kind, InCall(c).periods, d)
    /\ Len(sessionRows) <= 1
    /\ \A c \in SessionCalls : /\ InCall(c).at = "insert" => sessionRows = <<>>
                               /\ WritesOwed(c)

\* Every list is in order, and what is still to be appended comes after all of them.
InOrder(list) == \A i, j \in DOMAIN list : i < j => list[i] < list[j]
ListsRise ==
    /\ \A r \in DOMAIN sessionRows : InOrder(sessionRows[r])
    /\ \A c \in SessionCalls :
         /\ InOrder(InCall(c).periods)
         /\ InCall(c).at = "find" /\ InCall(c).kind = "patch" /\ InCall(c).periods # <<>> =>
              /\ Len(InCall(c).periods) = 1
              /\ \A r \in DOMAIN sessionRows : \A i \in DOMAIN sessionRows[r] :
                    sessionRows[r][i] < InCall(c).periods[1]

SessionIInv == /\ SessionTypeOK /\ CallsAreSound /\ PeriodsKept
               /\ sessionRows = <<>> => owed = {}
               /\ ~clash => CallsKeepApart
               /\ ~clash /\ ~repeated => ListsRise
=============================================================================
