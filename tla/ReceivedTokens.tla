---------------------------- MODULE ReceivedTokens ----------------------------
(***************************************************************************)
(* One token as the partners send it: the PUT and PATCH of TokensService   *)
(* and the real-time authorization that asks the partners and caches the   *)
(* answer.  A call's requests to the database interleave with those of     *)
(* other calls.  Core's schema is external: a token is unique across the   *)
(* partners, and so is a group's token.                                    *)
(***************************************************************************)
EXTENDS Naturals, Sequences

CONSTANTS Partners,       \* the partners with a tokens_SENDER endpoint
          Emsps,          \* those with the role EMSP; the others are hubs
          Calls,          \* bound: calls under way at a time
          MaxStamp,       \* bound: calls begin while there are fewer payloads
          PutContents,    \* what a PUT's token may hold; OCPI requires the contract
          PatchContents,  \* what a PATCH may name
          Verdicts        \* the values of "allowed" that partners answer

Names == {"contract", "visual", "group", "valid", "invalid"}
Priority == <<"ALLOWED", "BLOCKED", "EXPIRED", "NO_CREDIT", "NOT_ALLOWED">>

ASSUME TokensAssumption == /\ "nobody" \notin Partners
                           /\ Emsps \subseteq Partners /\ MaxStamp \in Nat
                           /\ \A names \in PutContents : names \subseteq Names /\ "contract" \in names
                           /\ PatchContents \subseteq SUBSET Names
                           /\ Verdicts \subseteq {Priority[i] : i \in 1..5}

VARIABLES token,      \* the authorization's row
          groupOwner, \* whose the group's row is
          tokenCall,  \* tokenCall[c]: a call's kind, position and local variables
          answers,    \* answers[p]: the partner's answer to the real-time request
          stamp,      \* payloads sent so far; each is known by its number
          said,       \* history: the payloads each partner has sent
          verdict     \* history: what the last real-time request was answered

tokenVars == <<token, groupOwner, tokenCall, answers, stamp, said, verdict>>

Nobody == "nobody"
Sources == Partners \cup {Nobody}

\* contract and visual are the entries of additionalInfo, 0 when there is none; never is
\* the whitelist of a cached answer.
Rows == [owner : Sources, contract : Nat, visual : Nat, valid : BOOLEAN,
         group : BOOLEAN, never : BOOLEAN]
NoRow == [owner |-> Nobody, contract |-> 0, visual |-> 0, valid |-> FALSE,
          group |-> FALSE, never |-> FALSE]

NoVerdict == [allowed |-> "none", by |-> Nobody]
Answers == [at : {"idle", "waiting", "failed", "timed out", "answered"},
            allowed : Verdicts \cup {"none"}, holds : BOOLEAN]
Unanswered(at) == [at |-> at, allowed |-> "none", holds |-> FALSE]
NotAsked == [p \in Partners |-> Unanswered("idle")]

IdleCall == [kind |-> "none", at |-> "idle", from |-> Nobody, stamp |-> 0,
             names |-> {}, all |-> FALSE, allowed |-> "none", found |-> NoRow]

TokenCalls == [kind : {"none", "put", "patch", "ask"},
               at : {"idle", "asking", "owner", "find", "group", "new group", "write"},
               from : Sources, stamp : Nat, names : SUBSET Names, all : BOOLEAN,
               allowed : Verdicts \cup {"none"}, found : Rows]

TokensTypeOK ==
    /\ token \in Rows /\ groupOwner \in Sources
    /\ tokenCall \in [Calls -> TokenCalls]
    /\ answers \in [Partners -> Answers]
    /\ stamp \in Nat /\ said \in [Partners -> SUBSET Nat]
    /\ verdict \in [allowed : Verdicts \cup {"none"}, by : Sources]

TokensInit == /\ token = NoRow /\ groupOwner = Nobody
              /\ tokenCall = [c \in Calls |-> IdleCall]
              /\ answers = NotAsked
              /\ stamp = 0 /\ said = [p \in Partners |-> {}]
              /\ verdict = NoVerdict
-----------------------------------------------------------------------------
At(c, at) == tokenCall[c].at = at
Moves(c, at) == tokenCall' = [tokenCall EXCEPT ![c].at = at]
Returns(c) == tokenCall' = [tokenCall EXCEPT ![c] = IdleCall]

\* A partner's payload gets the next number.
Says(p) == /\ stamp' = stamp + 1
           /\ said' = [said EXCEPT ![p] = @ \cup {stamp'}]

ReceivePut(c, p, names) ==
    /\ At(c, "idle") /\ stamp < MaxStamp /\ Says(p)
    /\ tokenCall' = [tokenCall EXCEPT ![c] =
         [IdleCall EXCEPT !.kind = "put", !.at = "find", !.from = p, !.stamp = stamp', !.names = names]]
    /\ UNCHANGED <<token, groupOwner, answers, verdict>>

ReceivePatch(c, p, names) ==
    /\ At(c, "idle") /\ stamp < MaxStamp /\ Says(p)
    /\ tokenCall' = [tokenCall EXCEPT ![c] =
         [IdleCall EXCEPT !.kind = "patch", !.at = "find", !.from = p, !.stamp = stamp', !.names = names]]
    /\ UNCHANGED <<token, groupOwner, answers, verdict>>

\* Mutant: the token is looked up whoever owns it.
FindAnyones(c) ==
    /\ At(c, "find")
    /\ LET found == token
           next == IF "group" \in tokenCall[c].names THEN "group" ELSE "write"
       IN  IF tokenCall[c].kind = "patch" /\ found = NoRow
           THEN Returns(c)
           ELSE tokenCall' = [tokenCall EXCEPT ![c].found = found, ![c].at = next]
    /\ UNCHANGED <<token, groupOwner, answers, stamp, said, verdict>>

\* GET_AUTHORIZATION_BY_TOKEN, of the caller's tokens; a PATCH needs one.
Find(c) ==
    /\ At(c, "find")
    /\ LET found == IF token.owner = tokenCall[c].from THEN token ELSE NoRow
           next == IF "group" \in tokenCall[c].names THEN "group" ELSE "write"
       IN  IF tokenCall[c].kind = "patch" /\ found = NoRow
           THEN Returns(c)
           ELSE tokenCall' = [tokenCall EXCEPT ![c].found = found, ![c].at = next]
    /\ UNCHANGED <<token, groupOwner, answers, stamp, said, verdict>>

FindGroup(c) ==
    /\ At(c, "group")
    /\ Moves(c, IF groupOwner = tokenCall[c].from THEN "write" ELSE "new group")
    /\ UNCHANGED <<token, groupOwner, answers, stamp, said, verdict>>

\* The insert of a group that exists, of this or another partner, is refused.
CreateGroup(c) ==
    /\ At(c, "new group")
    /\ IF groupOwner = Nobody
       THEN groupOwner' = tokenCall[c].from /\ Moves(c, "write")
       ELSE Returns(c) /\ UNCHANGED groupOwner
    /\ UNCHANGED <<token, answers, stamp, said, verdict>>
-----------------------------------------------------------------------------
(* What is written: the mapper's authorization, merged by a PATCH *)

Given(c, name, otherwise) == IF name \in tokenCall[c].names THEN tokenCall[c].stamp ELSE otherwise

\* status = valid ? Accepted : Invalid, also when the payload does not say.
StatusOf(c) == "valid" \in tokenCall[c].names

Upserted(c) ==
    [owner |-> tokenCall[c].from,
     contract |-> Given(c, "contract", 0), visual |-> Given(c, "visual", 0),
     valid |-> StatusOf(c),
     group |-> "group" \in tokenCall[c].names \/ token.group,
     never |-> tokenCall[c].kind = "ask"]

\* mergeAdditionalInfo replaces entries of the list that was read and adds none.
Merged(c, name, old) == IF old = 0 THEN 0 ELSE Given(c, name, old)

Patched(c) ==
    LET found == tokenCall[c].found
        info == tokenCall[c].names \cap {"contract", "visual"}
        row == [token EXCEPT !.valid = StatusOf(c),
                             !.group = @ \/ "group" \in tokenCall[c].names]
    IN  IF info = {} THEN row
        ELSE IF found.contract = 0 /\ found.visual = 0
        THEN [row EXCEPT !.contract = Given(c, "contract", 0), !.visual = Given(c, "visual", 0)]
        ELSE [row EXCEPT !.contract = Merged(c, "contract", found.contract),
                         !.visual = Merged(c, "visual", found.visual)]

\* The request was the last one: the call is answered, a real-time call with its verdict.
Answered(c) ==
    /\ Returns(c)
    /\ verdict' = IF tokenCall[c].kind = "ask"
                  THEN [allowed |-> tokenCall[c].allowed, by |-> tokenCall[c].from]
                  ELSE verdict
    /\ answers' = IF tokenCall[c].kind = "ask" THEN NotAsked ELSE answers

\* UPDATE_TOKEN_MUTATION of the caller's row; without one it returns none, and the call throws.
Update(c) ==
    /\ At(c, "write") /\ tokenCall[c].found # NoRow /\ token.owner = tokenCall[c].from
    /\ token' = IF tokenCall[c].kind = "patch" THEN Patched(c) ELSE Upserted(c)
    /\ Answered(c)
    /\ UNCHANGED <<groupOwner, stamp, said>>

\* Mutant: the insert takes the row over when the token exists.
CreateOrTakeOver(c) ==
    /\ At(c, "write") /\ tokenCall[c].found = NoRow
    /\ token' = Upserted(c)
    /\ Answered(c)
    /\ UNCHANGED <<groupOwner, stamp, said>>

\* Mutant: the insert updates the other columns of the row when the token exists.
CreateOrOverwrite(c) ==
    /\ At(c, "write") /\ tokenCall[c].found = NoRow
    /\ token' = [Upserted(c) EXCEPT !.owner = IF token = NoRow THEN @ ELSE token.owner]
    /\ Answered(c)
    /\ UNCHANGED <<groupOwner, stamp, said>>

\* CREATE_AUTHORIZATION_MUTATION.
Create(c) ==
    /\ At(c, "write") /\ tokenCall[c].found = NoRow /\ token = NoRow
    /\ token' = Upserted(c)
    /\ Answered(c)
    /\ UNCHANGED <<groupOwner, stamp, said>>

\* The token to insert is there by now, or the one to update has gone: the call throws.
Refused(c) ==
    /\ At(c, "write")
    /\ IF tokenCall[c].found = NoRow THEN token # NoRow ELSE token.owner # tokenCall[c].from
    /\ Returns(c)
    /\ answers' = IF tokenCall[c].kind = "ask" THEN NotAsked ELSE answers
    /\ UNCHANGED <<token, groupOwner, stamp, said, verdict>>

\* The call fails: a request to the database, an exception, or the process.
Breaks(c) ==
    /\ ~At(c, "idle")
    /\ Returns(c)
    /\ answers' = IF tokenCall[c].kind = "ask" THEN NotAsked ELSE answers
    /\ UNCHANGED <<token, groupOwner, stamp, said, verdict>>
-----------------------------------------------------------------------------
(* Real-time authorization *)

\* One partner, or all of them; nobody else's answers are awaited meanwhile.
Ask(c, asked, all) ==
    /\ At(c, "idle") /\ stamp < MaxStamp /\ \A d \in Calls : tokenCall[d].kind # "ask"
    /\ answers' = [p \in Partners |-> Unanswered(IF p \in asked THEN "waiting" ELSE "idle")]
    /\ tokenCall' = [tokenCall EXCEPT ![c] =
         [IdleCall EXCEPT !.kind = "ask", !.at = "asking", !.all = all]]
    /\ verdict' = NoVerdict
    /\ UNCHANGED <<token, groupOwner, stamp, said>>

\* The partner's answer may hold its token.
PartnerAnswers(p, allowed, holds) ==
    /\ answers[p].at = "waiting"
    /\ answers' = [answers EXCEPT ![p] = [at |-> "answered", allowed |-> allowed, holds |-> holds]]
    /\ UNCHANGED <<token, groupOwner, tokenCall, stamp, said, verdict>>

\* The request fails, or the answer's status code is not 1000.
PartnerFails(p) ==
    /\ answers[p].at = "waiting"
    /\ answers' = [answers EXCEPT ![p].at = "failed"]
    /\ UNCHANGED <<token, groupOwner, tokenCall, stamp, said, verdict>>

\* Mutant: the partners are awaited for as long as they take.
NeverTimesOut(p) == answers[p].at = "timed out" /\ UNCHANGED tokenVars

\* withTimeout, which only a request to all partners has.
TimesOut(p) ==
    /\ answers[p].at = "waiting" /\ \E c \in Calls : tokenCall[c].all
    /\ answers' = [answers EXCEPT ![p].at = "timed out"]
    /\ UNCHANGED <<token, groupOwner, tokenCall, stamp, said, verdict>>

Answering == {p \in Partners : answers[p].at = "answered"}
Settled == \A p \in Partners : answers[p].at # "waiting"
RankOf(allowed) == CHOOSE i \in 1..5 : Priority[i] = allowed
Rank(p) == RankOf(answers[p].allowed)

\* Mutant: the most severe refusal wins.
PrecedesReversed(p, q) == Rank(p) > Rank(q) \/ (Rank(p) = Rank(q) /\ p \in Emsps /\ q \notin Emsps)

\* Of two answers of one rank a direct eMSP's goes before a hub's.
Precedes(p, q) == Rank(p) < Rank(q) \/ (Rank(p) = Rank(q) /\ p \in Emsps /\ q \notin Emsps)

\* The selected partner's answer is cached if it holds the token.
Select(c, p) ==
    /\ At(c, "asking") /\ Settled /\ p \in Answering
    /\ \A q \in Answering : ~Precedes(q, p)
    /\ IF answers[p].holds
       THEN /\ Says(p)
            /\ tokenCall' = [tokenCall EXCEPT ![c].at = "owner", ![c].from = p, ![c].stamp = stamp',
                 ![c].names = {"contract", "valid"}, ![c].allowed = answers[p].allowed]
            /\ UNCHANGED <<answers, verdict>>
       ELSE /\ Returns(c)
            /\ verdict' = [allowed |-> answers[p].allowed, by |-> p]
            /\ answers' = NotAsked
            /\ UNCHANGED <<stamp, said>>
    /\ UNCHANGED <<token, groupOwner>>

\* No partner answered: the request is refused.
SelectNone(c) ==
    /\ At(c, "asking") /\ Settled /\ Answering = {}
    /\ Returns(c)
    /\ answers' = NotAsked
    /\ UNCHANGED <<token, groupOwner, stamp, said, verdict>>

\* GET_AUTHORIZATION_OWNER: a token of another partner is not cached, but the answer stands.
CheckOwner(c) ==
    /\ At(c, "owner")
    /\ IF token.owner \in {Nobody, tokenCall[c].from}
       THEN Moves(c, "find") /\ UNCHANGED <<answers, verdict>>
       ELSE Answered(c)
    /\ UNCHANGED <<token, groupOwner, stamp, said>>
-----------------------------------------------------------------------------
Proceeds(c) == \/ Find(c) \/ FindGroup(c) \/ CreateGroup(c) \/ Update(c) \/ Create(c)
               \/ Refused(c) \/ CheckOwner(c) \/ SelectNone(c) \/ \E p \in Partners : Select(c, p)

Arrives(c) == \E p \in Partners : \/ \E names \in PutContents : ReceivePut(c, p, names)
                                  \/ \E names \in PatchContents : ReceivePatch(c, p, names)
                                  \/ Ask(c, {p}, FALSE)

TokensNext == \/ \E c \in Calls : Proceeds(c) \/ Breaks(c) \/ Arrives(c) \/ Ask(c, Partners, TRUE)
              \/ \E p \in Partners : \/ PartnerFails(p) \/ TimesOut(p)
                                     \/ \E allowed \in Verdicts, holds \in BOOLEAN :
                                          PartnerAnswers(p, allowed, holds)

TokensSpec == TokensInit /\ [][TokensNext]_tokenVars

\* Requests to the database end, and so do timers.  Nothing is assumed of the partners.
TokensFairness == /\ \A c \in Calls : WF_tokenVars(Proceeds(c))
                  /\ \A p \in Partners : WF_tokenVars(TimesOut(p))

FairTokensSpec == TokensSpec /\ TokensFairness
-----------------------------------------------------------------------------
(* Properties *)

\* What is stored of a token was said by the partner that owns it: neither two partners'
\* calls nor a cached answer mix their payloads, whatever the order of their requests.
OwnersWords == token.owner # Nobody =>
                 {token.contract, token.visual} \subseteq said[token.owner] \cup {0}

\* "Token is unique across partners; moving it between partners is out of scope": no
\* PUT, PATCH or cached answer takes a token from the partner that has it.
OwnerStays == [][token.owner # Nobody => token'.owner = token.owner]_tokenVars

\* The answer that is given to core (and cached) is the best of those that came in time:
\* "Allowed wins", and "a direct eMSP beats a hub on ties".
BestAnswerWins ==
    [][verdict'.by # Nobody /\ verdict # verdict' =>
         LET by == verdict'.by
             Like(p) == p \in Answering /\ answers[p].allowed = verdict'.allowed
             Allowing == {p \in Answering : answers[p].allowed = "ALLOWED"}
         IN  /\ Like(by)
             /\ Allowing # {} => by \in Allowing
             /\ by \notin Emsps => \A p \in Emsps : ~Like(p)]_tokenVars
-----------------------------------------------------------------------------
(* The inductive invariant *)

\* A call carries its partner's payload and at most a row of that partner.
CarriesOwnWords(c) ==
    LET call == tokenCall[c]
    IN  /\ call.at \notin {"idle", "asking"} =>
             call.from \in Partners /\ call.stamp \in said[call.from]
        /\ call.found # NoRow =>
             /\ call.at \notin {"idle", "asking"}
             /\ call.found.owner = call.from
             /\ {call.found.contract, call.found.visual} \subseteq said[call.from] \cup {0}

\* One real-time request at a time, which stores no group.
AsksAlone(c) ==
    LET call == tokenCall[c]
    IN  /\ call.at \in {"asking", "owner"} => call.kind = "ask"
        /\ call.kind = "ask" => /\ call.at \notin {"idle", "group", "new group"}
                               /\ "group" \notin call.names
                               /\ \A d \in Calls : tokenCall[d].kind = "ask" => d = c

\* From the selection on the answers stay as they were.
AnswerStands(c) ==
    LET call == tokenCall[c]
    IN  call.kind = "ask" /\ call.at # "asking" =>
          /\ Settled /\ call.from \in Answering /\ call.allowed = answers[call.from].allowed
          /\ \A q \in Answering : ~Precedes(q, call.from)

TokensIInv == /\ TokensTypeOK
              /\ OwnersWords
              /\ token.owner = Nobody => token = NoRow
              /\ \A c \in Calls : CarriesOwnWords(c) /\ AsksAlone(c) /\ AnswerStands(c)
              /\ \A p \in Answering : answers[p].allowed \in Verdicts
=============================================================================
