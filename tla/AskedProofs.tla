----------------------------- MODULE AskedProofs ------------------------------
(***************************************************************************)
(* What TLAPS proves of ReceivedTokens and LocationsPull, and of the two   *)
(* together: for any partners, contents, lists and sizes of pages.         *)
(***************************************************************************)
EXTENDS MCAsked, SequenceTheorems, TLAPS

-----------------------------------------------------------------------------
(* Tokens *)

LEMMA IdleCallType == IdleCall \in TokenCalls /\ NoRow \in Rows
  BY DEF IdleCall, TokenCalls, Rows, NoRow, Sources

LEMMA TokensInitInv == TokensInit => TokensIInv
<1> USE DEF TokensInit, TokensIInv, Answering
<1> SUFFICES ASSUME TokensInit PROVE TokensIInv
  OBVIOUS
<1>1. TokensTypeOK
  BY TokensAssumption DEF TokensTypeOK, Rows, NoRow, Sources, IdleCall, TokenCalls, NotAsked, Answers,
       Unanswered, NoVerdict
<1>2. \A c \in Calls : CarriesOwnWords(c) /\ AsksAlone(c) /\ AnswerStands(c)
  BY DEF CarriesOwnWords, AsksAlone, AnswerStands, IdleCall
<1>3. OwnersWords /\ \A p \in Partners : answers[p].at = "idle"
  BY DEF OwnersWords, NoRow, NotAsked, Unanswered
<1> QED BY <1>1, <1>2, <1>3

\* A call that keeps its variables keeps to its partner's words.
LEMMA CarriedStays ==
  ASSUME TokensIInv, \A p \in Partners : said[p] \subseteq said'[p],
         NEW c \in Calls, tokenCall'[c] = tokenCall[c]
  PROVE  CarriesOwnWords(c)'
<1> DEFINE call == tokenCall[c]
<1>1. CarriesOwnWords(c)
  BY DEF TokensIInv
<1>2. call.at \notin {"idle", "asking"} => said[call.from] \subseteq said'[call.from]
  BY <1>1 DEF CarriesOwnWords
<1> QED BY <1>1, <1>2 DEF CarriesOwnWords

LEMMA WordsStay ==
  ASSUME TokensIInv, \A p \in Partners : said[p] \subseteq said'[p], UNCHANGED token
  PROVE  OwnersWords' /\ (token.owner = Nobody => token = NoRow)'
<1>1. token.owner # Nobody => token.owner \in Partners
  BY DEF TokensIInv, TokensTypeOK, Rows, Sources
<1> QED BY <1>1 DEF TokensIInv, OwnersWords

\* While the answers are kept, the request that is on may go on or end.
LEMMA AskingStays ==
  ASSUME TokensIInv, UNCHANGED answers,
         \A c \in Calls : tokenCall'[c].kind = "ask" =>
           /\ tokenCall[c].kind = "ask" /\ tokenCall'[c].names = tokenCall[c].names
           /\ tokenCall'[c].at \notin {"idle", "group", "new group"}
           /\ tokenCall'[c].at # "asking" =>
                /\ tokenCall[c].at # "asking"
                /\ tokenCall'[c].from = tokenCall[c].from
                /\ tokenCall'[c].allowed = tokenCall[c].allowed,
         \A c \in Calls : tokenCall'[c].at \in {"asking", "owner"} => tokenCall'[c].kind = "ask"
  PROVE  /\ \A c \in Calls : AsksAlone(c)' /\ AnswerStands(c)'
         /\ (\A p \in Answering : answers[p].allowed \in Verdicts)'
<1>1. Settled' = Settled /\ Answering' = Answering
  BY DEF Settled, Answering
<1>2. \A p, q : Precedes(p, q)' = Precedes(p, q)
  BY DEF Precedes, Rank
<1>3. \A c \in Calls : AsksAlone(c) /\ AnswerStands(c)
  BY DEF TokensIInv
<1>4. ASSUME NEW c \in Calls PROVE AsksAlone(c)'
  BY <1>3 DEF AsksAlone
<1>5. ASSUME NEW c \in Calls PROVE AnswerStands(c)'
  BY <1>1, <1>2, <1>3 DEF AnswerStands
<1> QED BY <1>1, <1>4, <1>5 DEF TokensIInv

LEMMA NobodyAsks ==
  ASSUME \A c \in Calls : /\ tokenCall'[c].kind # "ask"
                          /\ tokenCall'[c].at \notin {"asking", "owner"},
         answers' = NotAsked
  PROVE  /\ \A c \in Calls : AsksAlone(c)' /\ AnswerStands(c)'
         /\ (\A p \in Answering : answers[p].allowed \in Verdicts)'
<1>1. ASSUME NEW c \in Calls PROVE AsksAlone(c)' /\ AnswerStands(c)'
  BY DEF AsksAlone, AnswerStands
<1>2. Answering' = {}
  BY DEF Answering, NotAsked, Unanswered
<1> QED BY <1>1, <1>2

\* A call that returns, whatever it has written, leaves the others as they are.
LEMMA ReturnStep ==
  ASSUME TokensIInv, NEW c \in Calls, Returns(c),
         answers' = IF tokenCall[c].kind = "ask" THEN NotAsked ELSE answers,
         \A p \in Partners : said[p] \subseteq said'[p],
         token' \in Rows, groupOwner' \in Sources, stamp' \in Nat,
         said' \in [Partners -> SUBSET Nat],
         verdict' \in [allowed : Verdicts \cup {"none"}, by : Sources],
         OwnersWords' /\ (token.owner = Nobody => token = NoRow)'
  PROVE  TokensIInv'
<1>1. TokensTypeOK'
  BY IdleCallType DEF TokensIInv, TokensTypeOK, Returns, NotAsked, Unanswered, Answers
<1>2. /\ \A d \in Calls : d # c => tokenCall'[d] = tokenCall[d]
      /\ tokenCall'[c].kind = "none" /\ tokenCall'[c].at = "idle" /\ tokenCall'[c].found = NoRow
  BY DEF Returns, TokensIInv, TokensTypeOK, IdleCall
<1>3. \A d \in Calls : CarriesOwnWords(d)'
  <2>1. CarriesOwnWords(c)'
    BY <1>2 DEF CarriesOwnWords
  <2> QED BY <1>2, <2>1, CarriedStays
<1>4. \A d \in Calls : AsksAlone(d)
  BY DEF TokensIInv
<1>5. /\ \A d \in Calls : AsksAlone(d)' /\ AnswerStands(d)'
      /\ (\A q \in Answering : answers[q].allowed \in Verdicts)'
  <2>1. CASE tokenCall[c].kind = "ask"
    <3>1. \A d \in Calls : tokenCall'[d].kind # "ask" /\ tokenCall'[d].at \notin {"asking", "owner"}
      BY <1>2, <1>4, <2>1 DEF AsksAlone
    <3> QED BY <2>1, <3>1, NobodyAsks
  <2>2. CASE tokenCall[c].kind # "ask"
    <3>1. \A d \in Calls : /\ tokenCall'[d].kind = "ask" =>
                                /\ tokenCall'[d] = tokenCall[d]
                                /\ tokenCall'[d].at \notin {"idle", "group", "new group"}
                           /\ tokenCall'[d].at \in {"asking", "owner"} => tokenCall'[d].kind = "ask"
      BY <1>2, <1>4 DEF AsksAlone
    <3> QED BY <2>2, <3>1, AskingStays
  <2> QED BY <2>1, <2>2
<1> QED BY <1>1, <1>3, <1>5 DEF TokensIInv

LEMMA MovedCallType ==
  ASSUME NEW call \in TokenCalls, NEW found \in Rows,
         NEW at \in {"find", "group", "new group", "write"}
  PROVE  [call EXCEPT !.at = at, !.found = found] \in TokenCalls
  BY DEF TokenCalls

\* A call moves on with what it carries, and perhaps with a row it has found.
LEMMA MoveStep ==
  ASSUME TokensIInv, NEW c \in Calls,
         tokenCall[c].at \notin {"idle", "asking"},
         NEW at \in {"find", "group", "new group", "write"},
         NEW found \in Rows,
         tokenCall' = [tokenCall EXCEPT ![c] = [@ EXCEPT !.at = at, !.found = found]],
         at \in {"group", "new group"} => tokenCall[c].kind # "ask",
         found # NoRow => /\ found.owner = tokenCall[c].from
                          /\ {found.contract, found.visual} \subseteq said[found.owner] \cup {0},
         groupOwner' \in Sources, UNCHANGED <<token, answers, stamp, said, verdict>>
  PROVE  TokensIInv'
<1>1. tokenCall[c] \in TokenCalls /\ tokenCall'[c] = [tokenCall[c] EXCEPT !.at = at, !.found = found]
  BY DEF TokensIInv, TokensTypeOK
<1>2. [tokenCall[c] EXCEPT !.at = at, !.found = found] \in TokenCalls
  BY <1>1, MovedCallType
<1>3. /\ tokenCall'[c].at = at /\ tokenCall'[c].found = found
      /\ tokenCall'[c].from = tokenCall[c].from /\ tokenCall'[c].stamp = tokenCall[c].stamp
      /\ tokenCall'[c].kind = tokenCall[c].kind /\ tokenCall'[c].allowed = tokenCall[c].allowed
      /\ tokenCall'[c].names = tokenCall[c].names
      /\ \A d \in Calls : d # c => tokenCall'[d] = tokenCall[d]
  BY <1>1 DEF TokenCalls, TokensIInv, TokensTypeOK
<1>4. TokensTypeOK'
  BY <1>1, <1>2 DEF TokensIInv, TokensTypeOK
<1>5. \A d \in Calls : CarriesOwnWords(d) /\ AsksAlone(d)
  BY DEF TokensIInv
<1>6. \A d \in Calls : CarriesOwnWords(d)'
  <2>1. tokenCall[c].from \in Partners /\ tokenCall[c].stamp \in said[tokenCall[c].from]
    BY <1>5 DEF CarriesOwnWords
  <2>2. CarriesOwnWords(c)'
    <3>1. tokenCall'[c].from \in Partners /\ tokenCall'[c].stamp \in said'[tokenCall'[c].from]
      BY <1>3, <2>1
    <3>2. tokenCall'[c].found # NoRow =>
            /\ tokenCall'[c].found.owner = tokenCall'[c].from
            /\ {tokenCall'[c].found.contract, tokenCall'[c].found.visual}
                 \subseteq said'[tokenCall'[c].from] \cup {0}
      <4>1. tokenCall'[c].found = found /\ tokenCall'[c].from = tokenCall[c].from /\ said' = said
        BY <1>3
      <4> QED BY ONLY <4>1, found # NoRow =>
                             /\ found.owner = tokenCall[c].from
                             /\ {found.contract, found.visual} \subseteq said[found.owner] \cup {0}
    <3>3. tokenCall'[c].at \notin {"idle", "asking"}
      BY <1>3
    <3> QED BY <3>1, <3>2, <3>3 DEF CarriesOwnWords
  <2> QED BY <1>3, <2>2, CarriedStays
<1>7. /\ \A d \in Calls : AsksAlone(d)' /\ AnswerStands(d)'
      /\ (\A q \in Answering : answers[q].allowed \in Verdicts)'
  <2>1. \A d \in Calls : /\ tokenCall[d].kind = "ask" =>
                              tokenCall[d].at \notin {"idle", "group", "new group"}
                         /\ tokenCall[d].at \in {"asking", "owner"} => tokenCall[d].kind = "ask"
    BY <1>5 DEF AsksAlone
  <2> QED BY <1>3, <2>1, AskingStays
<1> QED BY <1>4, <1>6, <1>7, WordsStay DEF TokensIInv

LEMMA ReceiveStep ==
  ASSUME TokensIInv, NEW c \in Calls, NEW p \in Partners,
         \/ \E names \in PutContents : ReceivePut(c, p, names)
         \/ \E names \in PatchContents : ReceivePatch(c, p, names)
  PROVE  TokensIInv'
<1> PICK names \in PutContents \cup PatchContents, kind \in {"put", "patch"} :
      /\ At(c, "idle") /\ Says(p)
      /\ tokenCall' = [tokenCall EXCEPT ![c] = [IdleCall EXCEPT !.kind = kind, !.at = "find",
                         !.from = p, !.stamp = stamp', !.names = names]]
      /\ UNCHANGED <<token, groupOwner, answers, verdict>>
  BY DEF ReceivePut, ReceivePatch
<1>1. names \subseteq Names /\ p \in Sources
  BY TokensAssumption DEF Sources
<1>2. stamp' = stamp + 1 /\ \A q \in Partners : said[q] \subseteq said'[q]
  BY DEF Says, TokensIInv, TokensTypeOK
<1>3. stamp' \in said'[p]
  BY DEF Says, TokensIInv, TokensTypeOK
<1>4. TokensTypeOK'
  <2>1. stamp' \in Nat /\ said' \in [Partners -> SUBSET Nat]
    BY DEF TokensIInv, TokensTypeOK, Says
  <2>2. [IdleCall EXCEPT !.kind = kind, !.at = "find", !.from = p, !.stamp = stamp', !.names = names]
          \in TokenCalls
    BY <1>1, <2>1, IdleCallType DEF TokenCalls
  <2>3. tokenCall' \in [Calls -> TokenCalls]
    BY <2>2 DEF TokensIInv, TokensTypeOK
  <2> QED BY <2>1, <2>3 DEF TokensIInv, TokensTypeOK
<1>5. OwnersWords' /\ (token.owner = Nobody => token = NoRow)'
  BY <1>2, WordsStay
<1>6. /\ tokenCall'[c].kind = kind /\ tokenCall'[c].found = NoRow
      /\ tokenCall'[c].from = p /\ tokenCall'[c].stamp = stamp' /\ tokenCall'[c].at = "find"
      /\ \A d \in Calls : d # c => tokenCall'[d] = tokenCall[d]
  BY DEF TokensIInv, TokensTypeOK, TokenCalls, IdleCall
<1>7. \A d \in Calls : CarriesOwnWords(d)'
  <2>1. CarriesOwnWords(c)'
    BY <1>3, <1>6 DEF CarriesOwnWords
  <2> QED BY <1>2, <1>6, <2>1, CarriedStays
<1>8. \A d \in Calls : /\ tokenCall[d].kind = "ask" =>
                            tokenCall[d].at \notin {"idle", "group", "new group"}
                       /\ tokenCall[d].at \in {"asking", "owner"} => tokenCall[d].kind = "ask"
  BY DEF TokensIInv, AsksAlone
<1>9. /\ \A d \in Calls : AsksAlone(d)' /\ AnswerStands(d)'
      /\ (\A q \in Answering : answers[q].allowed \in Verdicts)'
  BY <1>6, <1>8, AskingStays
<1> QED BY <1>4, <1>5, <1>7, <1>9 DEF TokensIInv

LEMMA FindStep ==
  ASSUME TokensIInv, NEW c \in Calls, Find(c)
  PROVE  TokensIInv'
<1> DEFINE found == IF token.owner = tokenCall[c].from THEN token ELSE NoRow
           next == IF "group" \in tokenCall[c].names THEN "group" ELSE "write"
<1>1. CASE tokenCall[c].kind = "patch" /\ found = NoRow
  <2>1. Returns(c) /\ UNCHANGED <<token, groupOwner, answers, stamp, said, verdict>>
    BY <1>1 DEF Find
  <2> QED BY <1>1, <2>1, ReturnStep, WordsStay DEF TokensIInv, TokensTypeOK
<1>2. CASE ~(tokenCall[c].kind = "patch" /\ found = NoRow)
  <2>1. tokenCall' = [tokenCall EXCEPT ![c] = [@ EXCEPT !.at = next, !.found = found]]
    BY ZenonT(30), <1>2 DEF Find, TokensIInv, TokensTypeOK, TokenCalls
  <2>2. tokenCall[c].at = "find" /\ tokenCall[c].from \in Partners
    BY DEF Find, At, TokensIInv, CarriesOwnWords
  <2>3. /\ found \in Rows /\ next \in {"group", "write"}
        /\ next = "group" => tokenCall[c].kind # "ask"
    BY IdleCallType DEF TokensIInv, TokensTypeOK, AsksAlone
  <2>4. found # NoRow => /\ found.owner = tokenCall[c].from
                         /\ {found.contract, found.visual} \subseteq said[found.owner] \cup {0}
    BY <2>2, TokensAssumption DEF TokensIInv, OwnersWords, Nobody
  <2>5. groupOwner' \in Sources /\ UNCHANGED <<token, answers, stamp, said, verdict>>
    BY DEF Find, TokensIInv, TokensTypeOK
  <2> HIDE DEF found, next
  <2> QED BY <2>1, <2>2, <2>3, <2>4, <2>5, MoveStep
<1> QED BY <1>1, <1>2

\* FindGroup, CreateGroup and CheckOwner keep the row the call has found.
LEMMA OnwardStep ==
  ASSUME TokensIInv, NEW c \in Calls, FindGroup(c) \/ CreateGroup(c) \/ CheckOwner(c)
  PROVE  TokensIInv'
<1>1. tokenCall[c] \in TokenCalls /\ CarriesOwnWords(c) /\ AsksAlone(c)
  BY DEF TokensIInv, TokensTypeOK
<1>2. ASSUME NEW at \in {"find", "group", "new group", "write"}, Moves(c, at),
             tokenCall[c].at \notin {"idle", "asking"},
             at \in {"group", "new group"} => tokenCall[c].kind # "ask",
             groupOwner' \in Sources, UNCHANGED <<token, answers, stamp, said, verdict>>
      PROVE  TokensIInv'
  <2>1. tokenCall' = [tokenCall EXCEPT ![c] = [@ EXCEPT !.at = at, !.found = tokenCall[c].found]]
    BY <1>1, <1>2 DEF Moves, TokensIInv, TokensTypeOK, TokenCalls
  <2>2. tokenCall[c].found \in Rows
    BY <1>1 DEF TokenCalls
  <2>3. tokenCall[c].found # NoRow =>
          /\ tokenCall[c].found.owner = tokenCall[c].from
          /\ {tokenCall[c].found.contract, tokenCall[c].found.visual}
               \subseteq said[tokenCall[c].found.owner] \cup {0}
    BY <1>1 DEF CarriesOwnWords
  <2> QED BY <1>2, <2>1, <2>2, <2>3, MoveStep
<1>3. CASE FindGroup(c)
  BY <1>1, <1>2, <1>3 DEF FindGroup, At, AsksAlone, TokensIInv, TokensTypeOK
<1>4. CASE CreateGroup(c) /\ groupOwner = Nobody
  <2>1. tokenCall[c].from \in Sources
    BY <1>1 DEF TokenCalls
  <2> QED BY <1>2, <1>4, <2>1 DEF CreateGroup, At
<1>5. CASE CreateGroup(c) /\ groupOwner # Nobody
  <2>1. /\ Returns(c) /\ UNCHANGED <<token, groupOwner, answers, stamp, said, verdict>>
        /\ tokenCall[c].kind # "ask"
    BY <1>1, <1>5 DEF CreateGroup, At, AsksAlone
  <2> QED BY <2>1, ReturnStep, WordsStay DEF TokensIInv, TokensTypeOK
<1>6. CASE CheckOwner(c) /\ token.owner \in {Nobody, tokenCall[c].from}
  BY <1>2, <1>6 DEF CheckOwner, At, TokensIInv, TokensTypeOK
<1>7. CASE CheckOwner(c) /\ token.owner \notin {Nobody, tokenCall[c].from}
  <2>1. Answered(c) /\ UNCHANGED <<token, groupOwner, stamp, said>>
    BY <1>7 DEF CheckOwner
  <2>2. verdict' \in [allowed : Verdicts \cup {"none"}, by : Sources]
    BY <1>1, <2>1 DEF Answered, TokenCalls, TokensIInv, TokensTypeOK
  <2> QED BY <2>1, <2>2, ReturnStep, WordsStay DEF Answered, TokensIInv, TokensTypeOK
<1> QED BY <1>3, <1>4, <1>5, <1>6, <1>7
\* The row a call writes holds what its partner said, now or in what it found.
LEMMA WriteStep ==
  ASSUME TokensIInv, NEW c \in Calls, Update(c) \/ Create(c)
  PROVE  TokensIInv'
<1> DEFINE call == tokenCall[c]
<1>1. call \in TokenCalls /\ token \in Rows
  BY DEF TokensIInv, TokensTypeOK
<1>2. /\ call.from \in Partners /\ call.stamp \in said[call.from] /\ call.stamp \in Nat
      /\ call.found # NoRow =>
           {call.found.contract, call.found.visual} \subseteq said[call.from] \cup {0}
  BY <1>1 DEF Update, Create, At, TokensIInv, CarriesOwnWords, TokenCalls
<1>3. ASSUME NEW name, NEW old \in Nat, old \in said[call.from] \cup {0}
      PROVE  /\ Given(c, name, old) \in Nat /\ Merged(c, name, old) \in Nat
             /\ Given(c, name, old) \in said[call.from] \cup {0}
             /\ Merged(c, name, old) \in said[call.from] \cup {0}
  BY <1>2, <1>3 DEF Given, Merged
<1>4. /\ Upserted(c) \in Rows /\ Upserted(c).owner = call.from
      /\ {Upserted(c).contract, Upserted(c).visual} \subseteq said[call.from] \cup {0}
  BY <1>1, <1>2, <1>3 DEF Upserted, StatusOf, Rows, Sources
<1>5. ASSUME call.found # NoRow, token.owner = call.from
      PROVE  /\ Patched(c) \in Rows /\ Patched(c).owner = call.from
             /\ {Patched(c).contract, Patched(c).visual} \subseteq said[call.from] \cup {0}
  <2>1. /\ call.found.contract \in Nat /\ call.found.visual \in Nat
        /\ token.contract \in Nat /\ token.visual \in Nat
    BY <1>1 DEF TokenCalls, Rows
  <2>2. {token.contract, token.visual} \subseteq said[call.from] \cup {0}
    BY <1>2, <1>5, TokensAssumption DEF TokensIInv, OwnersWords, Nobody
  <2> DEFINE row == [token EXCEPT !.valid = StatusOf(c),
                                  !.group = @ \/ "group" \in call.names]
  <2>3. /\ row \in Rows /\ row.owner = call.from
        /\ row.contract = token.contract /\ row.visual = token.visual
    <3>1. \A valid, group \in BOOLEAN :
            LET new == [token EXCEPT !.valid = valid, !.group = group]
            IN  /\ new \in Rows /\ new.owner = call.from
                /\ new.contract = token.contract /\ new.visual = token.visual
      BY <1>1, <1>5 DEF Rows
    <3>2. StatusOf(c) \in BOOLEAN /\ (token.group \/ "group" \in call.names) \in BOOLEAN
      BY DEF StatusOf
    <3> QED BY <3>1, <3>2, Zenon
  <2>4. ASSUME NEW contract \in Nat, NEW visual \in Nat,
               {contract, visual} \subseteq said[call.from] \cup {0},
               Patched(c) = [row EXCEPT !.contract = contract, !.visual = visual]
        PROVE  /\ Patched(c) \in Rows /\ Patched(c).owner = call.from
               /\ {Patched(c).contract, Patched(c).visual} \subseteq said[call.from] \cup {0}
    <3> HIDE DEF row
    <3> QED BY <2>3, <2>4 DEF Rows
  <2>5. Patched(c) \in {row,
          [row EXCEPT !.contract = Given(c, "contract", 0), !.visual = Given(c, "visual", 0)],
          [row EXCEPT !.contract = Merged(c, "contract", call.found.contract),
                      !.visual = Merged(c, "visual", call.found.visual)]}
    BY DEF Patched
  <2> HIDE DEF row
  <2>6. CASE Patched(c) = row
    BY <2>2, <2>3, <2>6
  <2>7. CASE Patched(c) = [row EXCEPT !.contract = Given(c, "contract", 0),
                                      !.visual = Given(c, "visual", 0)]
    <3>1. /\ Given(c, "contract", 0) \in Nat /\ Given(c, "visual", 0) \in Nat
          /\ {Given(c, "contract", 0), Given(c, "visual", 0)} \subseteq said[call.from] \cup {0}
      BY <1>3
    <3> QED BY <2>4, <2>7, <3>1
  <2>8. CASE Patched(c) = [row EXCEPT !.contract = Merged(c, "contract", call.found.contract),
                                      !.visual = Merged(c, "visual", call.found.visual)]
    <3>1. /\ Merged(c, "contract", call.found.contract) \in Nat
          /\ Merged(c, "visual", call.found.visual) \in Nat
          /\ {Merged(c, "contract", call.found.contract), Merged(c, "visual", call.found.visual)}
               \subseteq said[call.from] \cup {0}
      BY <1>2, <1>3, <1>5, <2>1
    <3> QED BY <2>4, <2>8, <3>1
  <2> QED BY <2>5, <2>6, <2>7, <2>8
<1>6. token' \in Rows /\ token'.owner = call.from
      /\ {token'.contract, token'.visual} \subseteq said[call.from] \cup {0}
  BY <1>4, <1>5 DEF Update, Create
<1>7. OwnersWords' /\ (token.owner = Nobody => token = NoRow)'
  BY <1>2, <1>6, TokensAssumption DEF OwnersWords, Nobody, Update, Create
<1>8. Answered(c) /\ UNCHANGED <<groupOwner, stamp, said>>
  BY DEF Update, Create
<1>9. verdict' \in [allowed : Verdicts \cup {"none"}, by : Sources]
  BY <1>1, <1>8 DEF Answered, TokenCalls, TokensIInv, TokensTypeOK
<1> QED BY <1>6, <1>7, <1>8, <1>9, ReturnStep DEF Answered, TokensIInv, TokensTypeOK

LEMMA EndStep ==
  ASSUME TokensIInv, NEW c \in Calls, Refused(c) \/ Breaks(c) \/ SelectNone(c)
  PROVE  TokensIInv'
<1>1. Returns(c) /\ UNCHANGED <<token, groupOwner, stamp, said, verdict>>
  BY DEF Refused, Breaks, SelectNone
<1>2. answers' = IF tokenCall[c].kind = "ask" THEN NotAsked ELSE answers
  BY DEF Refused, Breaks, SelectNone, At, TokensIInv, AsksAlone
<1> QED BY <1>1, <1>2, ReturnStep, WordsStay DEF TokensIInv, TokensTypeOK

LEMMA AskStep ==
  ASSUME TokensIInv, NEW c \in Calls, NEW asked1, NEW all \in BOOLEAN, Ask(c, asked1, all)
  PROVE  TokensIInv'
<1>1. [IdleCall EXCEPT !.kind = "ask", !.at = "asking", !.all = all] \in TokenCalls
  BY IdleCallType DEF TokenCalls
<1>2. TokensTypeOK'
  BY <1>1 DEF Ask, TokensIInv, TokensTypeOK, Unanswered, Answers, NoVerdict, Sources
<1>3. /\ tokenCall'[c].kind = "ask" /\ tokenCall'[c].at = "asking"
      /\ tokenCall'[c].found = NoRow /\ tokenCall'[c].names = {}
      /\ \A d \in Calls : d # c => tokenCall'[d] = tokenCall[d] /\ tokenCall[d].kind # "ask"
  BY DEF Ask, TokensIInv, TokensTypeOK, IdleCall
<1>4. \A d \in Calls : CarriesOwnWords(d)'
  <2>1. CarriesOwnWords(c)'
    BY <1>3 DEF CarriesOwnWords
  <2> QED BY <1>3, <2>1, CarriedStays DEF Ask
<1>5. \A d \in Calls : AsksAlone(d)' /\ AnswerStands(d)'
  BY <1>3 DEF TokensIInv, AsksAlone, AnswerStands
<1>6. Answering' = {}
  BY DEF Answering, Ask, Unanswered
<1> QED BY <1>2, <1>4, <1>5, <1>6, WordsStay DEF TokensIInv, Ask

\* Only while a request is on is an answer awaited.
LEMMA AnswerStep ==
  ASSUME TokensIInv, NEW p \in Partners,
         \/ PartnerFails(p) \/ TimesOut(p)
         \/ \E allowed \in Verdicts, holds \in BOOLEAN : PartnerAnswers(p, allowed, holds)
  PROVE  TokensIInv'
<1>1. answers[p].at = "waiting" /\ UNCHANGED <<token, groupOwner, tokenCall, stamp, said, verdict>>
  BY DEF PartnerFails, TimesOut, PartnerAnswers
<1>2. PICK answer \in Answers : /\ answers' = [answers EXCEPT ![p] = answer]
                                /\ answer.at = "answered" => answer.allowed \in Verdicts
  <2>1. answers[p] \in Answers
    BY DEF TokensIInv, TokensTypeOK
  <2>2. \A at \in {"failed", "timed out"} : [answers[p] EXCEPT !.at = at] \in Answers
    BY <2>1 DEF Answers
  <2>3. CASE PartnerFails(p) \/ TimesOut(p)
    <3>1. PICK at \in {"failed", "timed out"} :
            answers' = [answers EXCEPT ![p] = [answers[p] EXCEPT !.at = at]]
      BY <2>3 DEF PartnerFails, TimesOut
    <3>2. [answers[p] EXCEPT !.at = at].at = at
      BY <2>1 DEF Answers
    <3> QED BY <2>2, <3>1, <3>2
  <2>4. CASE \E allowed \in Verdicts, holds \in BOOLEAN : PartnerAnswers(p, allowed, holds)
    BY <2>4 DEF PartnerAnswers, Answers
  <2> QED BY <2>3, <2>4
<1>3. TokensTypeOK'
  BY <1>1, <1>2 DEF TokensIInv, TokensTypeOK
<1>4. ~Settled
  BY <1>1 DEF Settled
<1>5. \A d \in Calls : AsksAlone(d)' /\ AnswerStands(d)'
  BY <1>1, <1>4 DEF TokensIInv, AsksAlone, AnswerStands
<1>6. (\A q \in Answering : answers[q].allowed \in Verdicts)'
  BY <1>2 DEF TokensIInv, TokensTypeOK, Answering
<1> QED BY <1>1, <1>3, <1>5, <1>6, CarriedStays, WordsStay DEF TokensIInv
LEMMA SelectStep ==
  ASSUME TokensIInv, NEW c \in Calls, NEW p \in Partners, Select(c, p)
  PROVE  TokensIInv'
<1> DEFINE call == tokenCall[c]
<1>1. /\ call \in TokenCalls /\ CarriesOwnWords(c) /\ call.at = "asking" /\ call.kind = "ask"
      /\ answers[p] \in Answers /\ answers[p].allowed \in Verdicts /\ p \in Sources
      /\ \A d \in Calls : tokenCall[d].kind = "ask" => d = c
  BY DEF TokensIInv, TokensTypeOK, Select, At, AsksAlone, Sources
<1>2. CASE answers[p].holds
  <2>1. /\ Says(p) /\ UNCHANGED <<token, groupOwner, answers, verdict>>
        /\ tokenCall' = [tokenCall EXCEPT ![c] = [@ EXCEPT !.at = "owner", !.from = p,
             !.stamp = stamp', !.names = {"contract", "valid"}, !.allowed = answers[p].allowed]]
    BY <1>2 DEF Select, TokensIInv, TokensTypeOK, TokenCalls
  <2>2. /\ stamp' \in Nat /\ said' \in [Partners -> SUBSET Nat] /\ stamp' \in said'[p]
        /\ \A q \in Partners : said[q] \subseteq said'[q]
    BY <2>1 DEF Says, TokensIInv, TokensTypeOK
  <2>3. ASSUME NEW stamped \in Nat
        PROVE  [call EXCEPT !.at = "owner", !.from = p, !.stamp = stamped,
                  !.names = {"contract", "valid"}, !.allowed = answers[p].allowed] \in TokenCalls
    BY <1>1 DEF TokenCalls, Names
  <2>4. TokensTypeOK'
    BY <2>1, <2>2, <2>3 DEF TokensIInv, TokensTypeOK
  <2>5. /\ tokenCall'[c].at = "owner" /\ tokenCall'[c].from = p /\ tokenCall'[c].stamp = stamp'
        /\ tokenCall'[c].names = {"contract", "valid"} /\ tokenCall'[c].allowed = answers[p].allowed
        /\ tokenCall'[c].found = NoRow /\ tokenCall'[c].kind = "ask"
        /\ \A d \in Calls : d # c => tokenCall'[d] = tokenCall[d]
    BY <1>1, <2>1 DEF TokenCalls, TokensIInv, TokensTypeOK, CarriesOwnWords
  <2>6. \A d \in Calls : CarriesOwnWords(d)'
    <3>1. CarriesOwnWords(c)'
      BY <2>2, <2>5 DEF CarriesOwnWords
    <3> QED BY <2>2, <2>5, <3>1, CarriedStays
  <2>7. \A d \in Calls : AsksAlone(d)'
    <3>1. \A d \in Calls : d # c => tokenCall'[d].kind # "ask" /\ tokenCall'[d].at \notin {"asking", "owner"}
      BY ZenonT(30), <1>1, <2>5 DEF TokensIInv, AsksAlone
    <3> QED BY <2>5, <3>1 DEF AsksAlone
  <2>8. /\ Settled' = Settled /\ Answering' = Answering
        /\ \A q, r : Precedes(q, r)' = Precedes(q, r)
    BY <2>1 DEF Settled, Answering, Precedes, Rank
  <2>9. \A d \in Calls : AnswerStands(d)'
    <3>1. AnswerStands(c)'
      BY <2>1, <2>5, <2>8 DEF AnswerStands, Select
    <3> QED BY <1>1, <2>5, <3>1 DEF AnswerStands
  <2> QED BY <2>1, <2>2, <2>4, <2>6, <2>7, <2>8, <2>9, WordsStay DEF TokensIInv
<1>3. CASE ~answers[p].holds
  <2>1. /\ Returns(c) /\ answers' = NotAsked
        /\ verdict' = [allowed |-> answers[p].allowed, by |-> p]
        /\ UNCHANGED <<token, groupOwner, stamp, said>>
    BY <1>3 DEF Select
  <2>2. verdict' \in [allowed : Verdicts \cup {"none"}, by : Sources]
    BY <1>1, <2>1
  <2> QED BY <1>1, <2>1, <2>2, ReturnStep, WordsStay DEF TokensIInv, TokensTypeOK
<1> QED BY <1>2, <1>3

LEMMA TokensNextInv == TokensIInv /\ [TokensNext]_tokenVars => TokensIInv'
<1> SUFFICES ASSUME TokensIInv, [TokensNext]_tokenVars PROVE TokensIInv'
  OBVIOUS
<1>1. ASSUME NEW c \in Calls, Proceeds(c) PROVE TokensIInv'
  BY <1>1, FindStep, OnwardStep, WriteStep, EndStep, SelectStep DEF Proceeds
<1>2. ASSUME NEW c \in Calls, Breaks(c) PROVE TokensIInv'
  BY <1>2, EndStep
<1>3. ASSUME NEW c \in Calls, Arrives(c) \/ Ask(c, Partners, TRUE) PROVE TokensIInv'
  BY <1>3, ReceiveStep, AskStep DEF Arrives
<1>4. CASE UNCHANGED tokenVars
  <2>1. UNCHANGED <<token, groupOwner, tokenCall, answers, stamp, said, verdict>>
    BY <1>4 DEF tokenVars
  <2>2. \A c \in Calls : AsksAlone(c)
    BY DEF TokensIInv
  <2>3. /\ \A c \in Calls : AsksAlone(c)' /\ AnswerStands(c)'
        /\ (\A p \in Answering : answers[p].allowed \in Verdicts)'
    BY <2>1, <2>2, AskingStays DEF AsksAlone
  <2> QED BY <2>1, <2>3, CarriedStays, WordsStay DEF TokensIInv, TokensTypeOK
<1> QED BY <1>1, <1>2, <1>3, <1>4, AnswerStep DEF TokensNext

\* What is stored of a token was said by its owner, and a call carries its own partner's
\* words: of the token rows, the inductive invariant of ReceivedTokens.
THEOREM TokensAreTheirOwners == TokensSpec => []TokensIInv
BY TokensInitInv, TokensNextInv, PTL DEF TokensSpec
-----------------------------------------------------------------------------
LEMMA OwnerStep == TokensIInv /\ [TokensNext]_tokenVars =>
                     (token.owner # Nobody => token'.owner = token.owner)
<1> SUFFICES ASSUME TokensIInv, TokensNext, token.owner # Nobody
             PROVE  token'.owner = token.owner
  BY DEF tokenVars
<1>1. ASSUME NEW c \in Calls, Proceeds(c)
      PROVE  UNCHANGED token \/ Update(c) \/ Create(c)
  BY <1>1 DEF Proceeds, Find, FindGroup, CreateGroup, Refused, Select, SelectNone, CheckOwner
<1>2. ASSUME NEW c \in Calls, Breaks(c) \/ Arrives(c) \/ Ask(c, Partners, TRUE)
      PROVE  UNCHANGED token
  BY <1>2 DEF Breaks, Arrives, ReceivePut, ReceivePatch, Ask
<1>3. ASSUME NEW p \in Partners,
             \/ PartnerFails(p) \/ TimesOut(p)
             \/ \E allowed \in Verdicts, holds \in BOOLEAN : PartnerAnswers(p, allowed, holds)
      PROVE  UNCHANGED token
  BY <1>3 DEF PartnerFails, TimesOut, PartnerAnswers
<1>4. ASSUME NEW c \in Calls, Update(c) PROVE token'.owner = token.owner
  BY <1>4 DEF Update, Patched, Upserted, TokensIInv, TokensTypeOK, Rows
<1>5. ASSUME NEW c \in Calls, Create(c) PROVE FALSE
  BY <1>5 DEF Create, NoRow
<1> QED BY <1>1, <1>2, <1>3, <1>4, <1>5 DEF TokensNext

\* No PUT, PATCH or cached answer takes a token from the partner that has it.
THEOREM TokenOwnerStays == TokensSpec => OwnerStays
<1>1. TokensIInv /\ [TokensNext]_tokenVars =>
        [token.owner # Nobody => token'.owner = token.owner]_tokenVars
  BY OwnerStep
<1> QED BY <1>1, TokensAreTheirOwners, PTL DEF TokensSpec, OwnerStays
-----------------------------------------------------------------------------
LEMMA RankIsPlace ==
  ASSUME NEW allowed \in Verdicts
  PROVE  /\ RankOf(allowed) \in 1..5
         /\ RankOf(allowed) = 1 <=> allowed = "ALLOWED"
<1>1. \E i \in 1..5 : Priority[i] = allowed
  BY TokensAssumption
<1>2. RankOf(allowed) \in 1..5 /\ Priority[RankOf(allowed)] = allowed
  BY <1>1 DEF RankOf
<1>3. /\ Priority[1] = "ALLOWED" /\ Priority[2] = "BLOCKED" /\ Priority[3] = "EXPIRED"
      /\ Priority[4] = "NO_CREDIT" /\ Priority[5] = "NOT_ALLOWED"
  BY DEF Priority
<1>4. RankOf(allowed) # 1 => RankOf(allowed) \in {2, 3, 4, 5}
  BY <1>2
<1> QED BY <1>2, <1>3, <1>4
\* The answer a call stands by is the best there is.
LEMMA BestIsBest ==
  ASSUME TokensIInv, NEW by \in Answering, \A q \in Answering : ~Precedes(q, by)
  PROVE  LET Like(p) == p \in Answering /\ answers[p].allowed = answers[by].allowed
             Allowing == {p \in Answering : answers[p].allowed = "ALLOWED"}
         IN  /\ Like(by)
             /\ Allowing # {} => by \in Allowing
             /\ by \notin Emsps => \A p \in Emsps : ~Like(p)
<1>1. \A p \in Answering : answers[p].allowed \in Verdicts
  BY DEF TokensIInv
<1>2. ASSUME NEW q \in Answering, answers[q].allowed = "ALLOWED"
      PROVE  answers[by].allowed = "ALLOWED"
  <2>1. Rank(q) = 1 /\ Rank(by) \in 1..5 /\ ~(Rank(q) < Rank(by))
    BY <1>1, <1>2, RankIsPlace DEF Rank, Precedes
  <2>2. Rank(by) = 1
    BY <2>1
  <2> QED BY <1>1, <2>2, RankIsPlace DEF Rank
<1>3. ASSUME by \notin Emsps, NEW p \in Emsps, p \in Answering, answers[p].allowed = answers[by].allowed
      PROVE  FALSE
  BY <1>3 DEF Precedes, Rank
<1> QED BY <1>2, <1>3

LEMMA VerdictStep ==
  ASSUME TokensIInv, TokensNext, verdict'.by # Nobody, verdict # verdict'
  PROVE  /\ verdict'.by \in Answering
         /\ verdict'.allowed = answers[verdict'.by].allowed
         /\ \A q \in Answering : ~Precedes(q, verdict'.by)
<1>1. \E c \in Calls : Update(c) \/ Create(c) \/ CheckOwner(c) \/ \E p \in Partners : Select(c, p)
  <2>1. ASSUME NEW c \in Calls, Arrives(c) \/ Ask(c, Partners, TRUE) PROVE FALSE
    <3>1. NoVerdict.by = Nobody
      BY DEF NoVerdict
    <3> QED BY <2>1, <3>1 DEF Arrives, ReceivePut, ReceivePatch, Ask
  <2>2. ASSUME NEW c \in Calls, \/ Find(c) \/ FindGroup(c) \/ CreateGroup(c)
                                \/ Refused(c) \/ SelectNone(c) \/ Breaks(c)
        PROVE  FALSE
    BY <2>2 DEF Find, FindGroup, CreateGroup, Refused, Breaks, SelectNone
  <2>3. ASSUME NEW p \in Partners,
               \/ PartnerFails(p) \/ TimesOut(p)
               \/ \E allowed \in Verdicts, holds \in BOOLEAN : PartnerAnswers(p, allowed, holds)
        PROVE  FALSE
    BY <2>3 DEF PartnerAnswers, PartnerFails, TimesOut
  <2> QED BY <2>1, <2>2, <2>3 DEF TokensNext, Proceeds
<1>2. ASSUME NEW c \in Calls, NEW p \in Partners, Select(c, p)
      PROVE  /\ verdict'.by \in Answering
             /\ verdict'.allowed = answers[verdict'.by].allowed
             /\ \A q \in Answering : ~Precedes(q, verdict'.by)
  BY <1>2 DEF Select
<1>3. ASSUME NEW c \in Calls, Update(c) \/ Create(c) \/ CheckOwner(c)
      PROVE  /\ verdict'.by \in Answering
             /\ verdict'.allowed = answers[verdict'.by].allowed
             /\ \A q \in Answering : ~Precedes(q, verdict'.by)
  <2>1. AnswerStands(c) /\ tokenCall[c].at \in {"write", "owner"} /\ Answered(c)
    BY <1>3 DEF TokensIInv, Update, Create, CheckOwner, At
  <2>2. tokenCall[c].kind = "ask" /\ verdict' = [allowed |-> tokenCall[c].allowed, by |-> tokenCall[c].from]
    BY <2>1 DEF Answered
  <2> QED BY <2>1, <2>2 DEF AnswerStands
<1> QED BY <1>1, <1>2, <1>3

\* A request is answered with the best of the answers that came in time, a direct eMSP's
\* before a hub's of the same rank, also when the answer is cached first and the database
\* is slow.
THEOREM TheBestAnswerWins == TokensSpec => BestAnswerWins
<1>1. ASSUME TokensIInv, [TokensNext]_tokenVars
      PROVE  [verdict'.by # Nobody /\ verdict # verdict' =>
                LET by == verdict'.by
                    Like(p) == p \in Answering /\ answers[p].allowed = verdict'.allowed
                    Allowing == {p \in Answering : answers[p].allowed = "ALLOWED"}
                IN  /\ Like(by)
                    /\ Allowing # {} => by \in Allowing
                    /\ by \notin Emsps => \A p \in Emsps : ~Like(p)]_tokenVars
  <2>1. CASE UNCHANGED tokenVars
    BY <2>1
  <2>2. CASE TokensNext /\ verdict'.by # Nobody /\ verdict # verdict'
    BY <1>1, <2>2, VerdictStep, BestIsBest
  <2> QED BY <1>1, <2>1, <2>2
<1> QED BY <1>1, TokensAreTheirOwners, PTL DEF TokensSpec, BestAnswerWins
-----------------------------------------------------------------------------
(* Lists *)

LEMMA MinOfTwo ==
  ASSUME NEW a \in Int, NEW b \in Int
  PROVE  Min({a, b}) = IF a <= b THEN a ELSE b
BY DEF Min

LEMMA RangeOfList ==
  ASSUME NEW S, NEW s \in Seq(S)
  PROVE  /\ Range(s) = {s[i] : i \in 1..Len(s)}
         /\ Range(s) \subseteq S
BY DEF Range

LEMMA InsertedList ==
  ASSUME NEW S, NEW s \in Seq(S), NEW i \in 1..Len(s) + 1, NEW e \in S
  PROVE  /\ InsertAt(s, i, e) \in Seq(S)
         /\ Len(InsertAt(s, i, e)) = Len(s) + 1
         /\ \A j \in 1..Len(s) + 1 :
              InsertAt(s, i, e)[j] = IF j < i THEN s[j] ELSE IF j = i THEN e ELSE s[j - 1]
<1> DEFINE before == SubSeq(s, 1, i - 1)
           after == SubSeq(s, i, Len(s))
<1>1. /\ before \in Seq(S) /\ Len(before) = i - 1
      /\ \A j \in 1..i - 1 : before[j] = s[j]
  BY SubSeqProperties
<1>2. /\ after \in Seq(S) /\ Len(after) = Len(s) - i + 1
      /\ \A j \in 1..Len(s) - i + 1 : after[j] = s[i + j - 1]
  BY SubSeqProperties
<1>3. InsertAt(s, i, e) = (before \o <<e>>) \o after
  BY DEF InsertAt
<1> HIDE DEF before, after
<1>4. /\ before \o <<e>> \in Seq(S) /\ Len(before \o <<e>>) = i
      /\ \A j \in 1..i : (before \o <<e>>)[j] = IF j < i THEN s[j] ELSE e
  BY <1>1, ConcatProperties
<1> DEFINE upTo == before \o <<e>>
<1>5. /\ upTo \in Seq(S) /\ Len(upTo) = i
      /\ \A j \in 1..i : upTo[j] = IF j < i THEN s[j] ELSE e
  BY <1>4
<1>6. InsertAt(s, i, e) = upTo \o after
  BY <1>3
<1> HIDE DEF upTo
<1>7. /\ upTo \o after \in Seq(S)
      /\ Len(upTo \o after) = Len(upTo) + Len(after)
      /\ \A j \in 1..Len(upTo) + Len(after) : (upTo \o after)[j] =
           IF j <= Len(upTo) THEN upTo[j] ELSE after[j - Len(upTo)]
  BY <1>2, <1>5, ConcatProperties
<1>8. Len(upTo) + Len(after) = Len(s) + 1
  BY <1>2, <1>5
<1>9. \A j \in 1..Len(s) + 1 :
        (upTo \o after)[j] = IF j < i THEN s[j] ELSE IF j = i THEN e ELSE s[j - 1]
  BY <1>2, <1>5, <1>7, <1>8
<1> QED BY <1>6, <1>7, <1>8, <1>9

LEMMA RemovedList ==
  ASSUME NEW S, NEW s \in Seq(S), NEW i \in 1..Len(s)
  PROVE  /\ RemoveAt(s, i) \in Seq(S)
         /\ Len(RemoveAt(s, i)) = Len(s) - 1
         /\ \A j \in 1..Len(s) - 1 : RemoveAt(s, i)[j] = IF j < i THEN s[j] ELSE s[j + 1]
<1> DEFINE before == SubSeq(s, 1, i - 1)
           after == SubSeq(s, i + 1, Len(s))
<1>1. /\ before \in Seq(S) /\ Len(before) = i - 1
      /\ \A j \in 1..i - 1 : before[j] = s[j]
  BY SubSeqProperties
<1>2. /\ after \in Seq(S) /\ Len(after) = Len(s) - i
      /\ \A j \in 1..Len(s) - i : after[j] = s[i + j]
  BY SubSeqProperties
<1>3. RemoveAt(s, i) = before \o after
  BY DEF RemoveAt
<1> HIDE DEF before, after
<1>4. /\ before \o after \in Seq(S) /\ Len(before \o after) = Len(before) + Len(after)
      /\ \A j \in 1..Len(before) + Len(after) : (before \o after)[j] =
           IF j <= Len(before) THEN before[j] ELSE after[j - Len(before)]
  BY <1>1, <1>2, ConcatProperties
<1>5. Len(before) + Len(after) = Len(s) - 1
  BY <1>1, <1>2
<1>6. \A j \in 1..Len(s) - 1 : (before \o after)[j] = IF j < i THEN s[j] ELSE s[j + 1]
  BY <1>1, <1>2, <1>4, <1>5
<1> QED BY <1>3, <1>4, <1>5, <1>6

LEMMA InsertedRange ==
  ASSUME NEW S, NEW s \in Seq(S), NEW i \in 1..Len(s) + 1, NEW e \in S \ Range(s), IsInjective(s)
  PROVE  /\ Range(InsertAt(s, i, e)) = Range(s) \cup {e}
         /\ IsInjective(InsertAt(s, i, e))
         /\ \A j \in 1..Len(s) : \E k \in 1..Len(s) + 1 : InsertAt(s, i, e)[k] = s[j] /\ k >= j
<1> DEFINE t == InsertAt(s, i, e)
<1>1. /\ t \in Seq(S) /\ Len(t) = Len(s) + 1
      /\ \A j \in 1..Len(s) + 1 : t[j] = IF j < i THEN s[j] ELSE IF j = i THEN e ELSE s[j - 1]
  BY InsertedList
<1> HIDE DEF t
<1>2. Range(s) = {s[j] : j \in 1..Len(s)} /\ Range(t) = {t[j] : j \in 1..Len(t)}
  BY <1>1, RangeOfList
<1>3. \A j \in 1..Len(s) : \E k \in 1..Len(s) + 1 : t[k] = s[j] /\ k >= j
  <2> TAKE j \in 1..Len(s)
  <2>1. CASE j < i
    BY <1>1, <2>1
  <2>2. CASE j >= i
    <3>1. j + 1 \in 1..Len(s) + 1 /\ t[j + 1] = s[j]
      BY <1>1, <2>2
    <3> QED BY <3>1
  <2> QED BY <2>1, <2>2
<1>4. Range(t) = Range(s) \cup {e}
  <2>1. t[i] = e /\ i \in 1..Len(t)
    BY <1>1
  <2>2. \A j \in 1..Len(t) : t[j] \in Range(s) \cup {e}
    BY <1>1, <1>2
  <2>3. Range(s) \subseteq Range(t)
    BY <1>1, <1>2, <1>3
  <2>4. Range(t) \subseteq Range(s) \cup {e} /\ e \in Range(t)
    BY <1>2, <2>1, <2>2
  <2> QED BY <2>3, <2>4
<1>5. IsInjective(t)
  <2> SUFFICES ASSUME NEW a \in 1..Len(t), NEW b \in 1..Len(t), t[a] = t[b] PROVE a = b
    BY <1>1 DEF IsInjective
  <2>1. \A j, k \in 1..Len(s) : s[j] = s[k] => j = k
    BY DEF IsInjective
  <2>2. \A j \in 1..Len(s) : s[j] # e
    BY <1>2
  <2> DEFINE From(j) == IF j < i THEN j ELSE j - 1
  <2>3. \A j \in 1..Len(t) : j # i => From(j) \in 1..Len(s) /\ t[j] = s[From(j)]
    BY <1>1
  <2>4. t[i] = e
    BY <1>1
  <2>5. CASE a = i \/ b = i
    BY <2>2, <2>3, <2>4, <2>5
  <2>6. CASE a # i /\ b # i
    <3>1. From(a) = From(b)
      BY <2>1, <2>3, <2>6
    <3>2. a \in Int /\ b \in Int
      BY <1>1
    <3> QED BY <2>6, <3>1, <3>2
  <2> QED BY <2>5, <2>6
<1> QED BY <1>3, <1>4, <1>5 DEF t

LEMMA RemovedRange ==
  ASSUME NEW S, NEW s \in Seq(S), NEW i \in 1..Len(s), IsInjective(s)
  PROVE  /\ Range(RemoveAt(s, i)) = Range(s) \ {s[i]}
         /\ IsInjective(RemoveAt(s, i))
<1> DEFINE t == RemoveAt(s, i)
<1>1. /\ t \in Seq(S) /\ Len(t) = Len(s) - 1
      /\ \A j \in 1..Len(s) - 1 : t[j] = IF j < i THEN s[j] ELSE s[j + 1]
  BY RemovedList
<1> HIDE DEF t
<1>2. Range(s) = {s[j] : j \in 1..Len(s)} /\ Range(t) = {t[j] : j \in 1..Len(t)}
  BY <1>1, RangeOfList
<1>3. \A j, k \in 1..Len(s) : s[j] = s[k] => j = k
  BY DEF IsInjective
<1>4. \A j \in 1..Len(s) : j # i => \E k \in 1..Len(t) : t[k] = s[j]
  <2> TAKE j \in 1..Len(s)
  <2>1. CASE j < i
    BY <1>1, <2>1
  <2>2. CASE j > i
    <3>1. j - 1 \in 1..Len(t) /\ t[j - 1] = s[j]
      BY <1>1, <2>2
    <3> QED BY <3>1
  <2> QED BY <2>1, <2>2
<1>5. \A k \in 1..Len(t) : \E j \in 1..Len(s) : j # i /\ t[k] = s[j]
  <2> TAKE k \in 1..Len(t)
  <2>1. CASE k < i
    BY <1>1, <2>1
  <2>2. CASE k >= i
    <3>1. k + 1 \in 1..Len(s) /\ t[k] = s[k + 1] /\ k + 1 # i
      BY <1>1, <2>2
    <3> QED BY <3>1
  <2> QED BY <2>1, <2>2
<1>6. Range(t) = Range(s) \ {s[i]}
  BY <1>2, <1>3, <1>4, <1>5
<1>7. IsInjective(t)
  <2> SUFFICES ASSUME NEW a \in 1..Len(t), NEW b \in 1..Len(t), t[a] = t[b] PROVE a = b
    BY <1>1 DEF IsInjective
  <2> QED BY <1>1, <1>3
<1> QED BY <1>6, <1>7 DEF t
-----------------------------------------------------------------------------
(* Pulls *)

LEMMA IdlePull == Idle \in PullRecords /\ Idle.page = <<>> /\ Idle.seen = {} /\ Idle.next = {}
<1>1. <<>> \in Seq(Locations)
  OBVIOUS
<1> QED BY <1>1 DEF Idle, PullRecords, Positions, Resting

LEMMA EmptyPage == Range(<<>>) = {}
BY DEF Range

LEMMA PullInitInv == PullInit => PullIInv
<1> SUFFICES ASSUME PullInit PROVE PullIInv
  OBVIOUS
<1>1. PullTypeOK
  BY PullAssumption, IdlePull DEF PullInit, PullTypeOK
<1>2. pull.at = "idle" /\ pull.page = <<>> /\ pull.seen = {} /\ pull.next = {} /\ kept = {} /\ gone = {}
  BY IdlePull DEF PullInit, Idle
<1> QED BY <1>1, <1>2 DEF PullIInv, KeptIsAhead, MarksTheUnseen, GoneIsUnseen, GoneIsMarked

\* What the partner does to its list.
LEMMA AddStep ==
  ASSUME PullIInv, NEW l \in Locations, NEW i \in 1..Len(listed) + 1, Adds(l, i)
  PROVE  PullIInv'
<1>1. PullTypeOK /\ listed \in Seq(Locations)
  BY DEF PullIInv, PullTypeOK
<1>2. l \in Locations \ Range(listed) /\ IsInjective(listed)
  BY <1>1 DEF Adds, PullTypeOK
<1>3. /\ listed' \in Seq(Locations) /\ Len(listed') = Len(listed) + 1
      /\ Range(listed') = Range(listed) \cup {l} /\ IsInjective(listed')
      /\ \A j \in 1..Len(listed) : \E k \in 1..Len(listed) + 1 : listed'[k] = listed[j] /\ k >= j
  <2>1. /\ InsertAt(listed, i, l) \in Seq(Locations)
        /\ Len(InsertAt(listed, i, l)) = Len(listed) + 1
    BY <1>1, InsertedList
  <2>2. /\ Range(InsertAt(listed, i, l)) = Range(listed) \cup {l}
        /\ IsInjective(InsertAt(listed, i, l))
        /\ \A j \in 1..Len(listed) :
             \E k \in 1..Len(listed) + 1 : InsertAt(listed, i, l)[k] = listed[j] /\ k >= j
    BY <1>1, <1>2, InsertedRange
  <2> QED BY <2>1, <2>2 DEF Adds
<1>4. gone' = gone \ {l} /\ UNCHANGED <<shown, pull, kept>>
  BY DEF Adds
<1>5. PullTypeOK'
  BY <1>1, <1>3, <1>4 DEF PullTypeOK
<1>6. ASSUME NEW m, NEW offset \in Nat, Ahead(m, offset) PROVE Ahead(m, offset)'
  <2>1. DOMAIN listed = 1..Len(listed) /\ DOMAIN listed' = 1..Len(listed) + 1 /\ Len(listed) \in Nat
    BY <1>1, <1>3
  <2>2. PICK j \in 1..Len(listed) : listed[j] = m /\ j > offset
    BY <1>6, <2>1 DEF Ahead
  <2>3. PICK k \in 1..Len(listed) + 1 : listed'[k] = listed[j] /\ k >= j
    BY <1>3
  <2> QED BY <2>1, <2>2, <2>3 DEF Ahead
<1>7. KeptIsAhead'
  <2>1. pull.offset \in Nat /\ pull.next \subseteq Nat
    BY <1>1 DEF PullTypeOK, PullRecords
  <2>2. \A m : AheadOrSeen(m) => AheadOrSeen(m)'
    BY <1>4, <1>6, <2>1 DEF AheadOrSeen
  <2> QED BY <1>4, <2>2 DEF PullIInv, KeptIsAhead
<1> QED BY <1>4, <1>5, <1>7 DEF PullIInv, MarksTheUnseen, GoneIsUnseen, GoneIsMarked, Hides

LEMMA TakeOffStep ==
  ASSUME PullIInv, NEW i \in DOMAIN listed, TakesOff(i)
  PROVE  PullIInv'
<1>1. PullTypeOK /\ listed \in Seq(Locations) /\ IsInjective(listed) /\ i \in 1..Len(listed)
  BY DEF PullIInv, PullTypeOK
<1>2. /\ listed' \in Seq(Locations) /\ Range(listed') = Range(listed) \ {listed[i]}
      /\ IsInjective(listed')
  BY <1>1, RemovedList, RemovedRange DEF TakesOff
<1>3. /\ pull \in PullRecords /\ pull' = [pull EXCEPT !.steady = FALSE]
      /\ kept' = kept \ {listed[i]} /\ UNCHANGED <<shown, gone>>
  BY <1>1 DEF TakesOff, PullTypeOK
<1>4. /\ pull' \in PullRecords /\ ~pull'.steady
      /\ pull'.at = pull.at /\ pull'.full = pull.full /\ pull'.missing = pull.missing
      /\ pull'.seen = pull.seen /\ pull'.page = pull.page /\ pull'.marked = pull.marked
      /\ pull'.next = pull.next
  BY <1>3 DEF PullRecords
<1>5. PullTypeOK'
  BY <1>1, <1>2, <1>3, <1>4 DEF PullTypeOK
<1> QED BY <1>3, <1>4, <1>5 DEF PullIInv, KeptIsAhead, MarksTheUnseen, GoneIsUnseen, GoneIsMarked, Hides

LEMMA PutsStep ==
  ASSUME PullIInv, NEW l \in Locations, Puts(l)
  PROVE  PullIInv'
<1>1. /\ shown' \in [Locations -> {"absent", "visible", "removed"}]
      /\ \A m \in Locations : shown[m] # "absent" => shown'[m] = shown[m]
      /\ UNCHANGED <<listed, pull, kept, gone>>
  BY DEF Puts, Stored, PullIInv, PullTypeOK
<1>2. PullTypeOK'
  BY <1>1 DEF PullIInv, PullTypeOK
<1>3. \A m \in gone : Hides(m) => Hides(m)' 
  BY <1>1 DEF PullIInv, PullTypeOK, Hides
<1>4. KeptIsAhead'
  BY <1>1 DEF PullIInv, KeptIsAhead, AheadOrSeen, Ahead
<1> QED BY <1>1, <1>2, <1>3, <1>4 DEF PullIInv, MarksTheUnseen, GoneIsUnseen, GoneIsMarked

LEMMA BeginStep ==
  ASSUME PullIInv, NEW full \in BOOLEAN, NEW start \in Starts, BeginPull(full, start)
  PROVE  PullIInv'
<1>1. PullTypeOK /\ start \in Nat
  BY PullAssumption DEF PullIInv
<1>2. /\ kept' = Range(listed) /\ gone' = {l \in Locations : shown[l] # "absent"} \ Range(listed)
      /\ UNCHANGED <<listed, shown>>
      /\ pull' = [Idle EXCEPT !.at = "ask", !.full = full, !.start = start, !.offset = start]
  BY DEF BeginPull
<1>3. /\ pull' \in PullRecords /\ pull'.at = "ask" /\ pull'.full = full /\ pull'.start = start
      /\ pull'.offset = start
  BY <1>1, <1>2, IdlePull DEF PullRecords, Positions
<1>4. pull'.page = <<>> /\ pull'.seen = {} /\ pull'.next = {}
  BY <1>2, IdlePull DEF PullRecords
<1>5. PullTypeOK'
  BY <1>1, <1>2, <1>3 DEF PullTypeOK
<1>6. \A l \in Range(listed) : \E i \in DOMAIN listed : listed[i] = l /\ i > 0
  <2>1. DOMAIN listed = 1..Len(listed) /\ Len(listed) \in Nat
    BY <1>1 DEF PullTypeOK
  <2> QED BY <2>1 DEF Range
<1>7. KeptIsAhead'
  BY <1>2, <1>3, <1>6 DEF KeptIsAhead, AheadOrSeen, Ahead
<1> QED BY <1>2, <1>3, <1>4, <1>5, <1>7, EmptyPage DEF PullIInv, MarksTheUnseen, GoneIsUnseen, GoneIsMarked, Hides
\* A page of a full pull reaches to where the next begins.
LEMMA PageEnd ==
  ASSUME PullIInv
  PROVE  /\ End \in Nat /\ End <= Len(listed)
         /\ End = pull.offset + Limit \/ (End = Len(listed) /\ Len(listed) < pull.offset + Limit)
<1>1. pull.offset \in Nat /\ Limit \in Nat /\ Len(listed) \in Nat
  BY PullAssumption DEF PullIInv, PullTypeOK, PullRecords
<1> QED BY <1>1, MinOfTwo DEF End

LEMMA PageOfListed ==
  ASSUME PullIInv, NEW page \in PageContents
  PROVE  /\ page \in Seq(Locations) /\ Range(page) \subseteq Range(listed)
         /\ pull.full => \A i \in pull.offset + 1..End : listed[i] \in Range(page)
<1>1. listed \in Seq(Locations) /\ pull.offset \in Nat /\ Limit \in Nat
  BY PullAssumption DEF PullIInv, PullTypeOK, PullRecords
<1>2. Range(listed) = {listed[i] : i \in 1..Len(listed)} /\ Range(listed) \subseteq Locations
  BY <1>1, RangeOfList
<1>3. CASE pull.full
  <2>1. page = SubSeq(listed, pull.offset + 1, End) /\ End \in Nat /\ End <= Len(listed)
    BY <1>3, PageEnd DEF PageContents
  <2>2. \A i \in pull.offset + 1..End : listed[i] \in Range(listed)
    BY <1>1, <1>2, <2>1
  <2>3. /\ page \in Seq(Range(listed))
        /\ Len(page) = IF pull.offset + 1 <= End THEN End - (pull.offset + 1) + 1 ELSE 0
        /\ \A i \in 1..End - (pull.offset + 1) + 1 : page[i] = listed[pull.offset + 1 + i - 1]
    BY SMTT(30), <1>1, <2>1, <2>2, SubSeqProperties
  <2>4. page \in Seq(Locations)
    BY <1>2, <2>3, SeqMonotonic
  <2>5. Range(page) = {page[i] : i \in 1..Len(page)} /\ Range(page) \subseteq Range(listed)
    BY <2>3, RangeOfList
  <2>6. ASSUME NEW i \in pull.offset + 1..End PROVE listed[i] \in Range(page)
    <3> DEFINE k == i - pull.offset
    <3>1. k \in 1..End - (pull.offset + 1) + 1 /\ pull.offset + 1 + k - 1 = i
      BY <1>1, <2>1
    <3>2. k \in 1..Len(page)
      BY SMTT(30), <1>1, <2>1, <2>3
    <3>3. page[k] = listed[i]
      BY <2>3, <3>1
    <3> QED BY <2>5, <3>2, <3>3
  <2> QED BY <2>4, <2>5, <2>6
<1>4. CASE ~pull.full
  <2>1. page \in SeqOf(Range(listed), Limit)
    BY <1>4 DEF PageContents
  <2>2. PICK m \in 0..Limit : page \in [1..m -> Range(listed)]
    BY <2>1 DEF SeqOf
  <2>3. page \in Seq(Range(listed)) /\ page \in Seq(Locations)
    BY <1>1, <1>2, <2>2
  <2>4. Range(page) \subseteq Range(listed)
    BY <2>3, RangeOfList
  <2> QED BY <1>4, <2>3, <2>4
<1> QED BY <1>3, <1>4

\* The page that has come holds what was ahead, or the next page will.
LEMMA PageStep ==
  ASSUME PullIInv, PageAnswered \/ PageLinksWithoutOffset
  PROVE  PullIInv'
<1>1. PullTypeOK /\ pull \in PullRecords /\ pull.at = "ask"
  BY DEF PullIInv, PullTypeOK, PageAnswered, PageLinksWithoutOffset
<1>2. PICK page \in PageContents, next \in Links \cup {{0}}, restarted \in BOOLEAN :
        /\ pull' = [pull EXCEPT !.at = "store", !.page = page, !.next = next, !.restarted = restarted]
        /\ UNCHANGED <<listed, shown, kept, gone>>
  <2>1. CASE PageAnswered
    <3>1. PICK page \in PageContents, link \in Links :
            pull' = [pull EXCEPT !.at = "store", !.page = page, !.next = link]
      BY <2>1 DEF PageAnswered
    <3>2. pull' = [pull EXCEPT !.at = "store", !.page = page, !.next = link, !.restarted = pull.restarted]
      BY <1>1, <3>1 DEF PullRecords
    <3> QED BY <1>1, <2>1, <3>2 DEF PageAnswered, PullRecords
  <2>2. CASE PageLinksWithoutOffset
    BY <2>2 DEF PageLinksWithoutOffset
  <2> QED BY <2>1, <2>2
<1>3. /\ page \in Seq(Locations) /\ Range(page) \subseteq Range(listed)
      /\ pull.full => \A i \in pull.offset + 1..End : listed[i] \in Range(page)
  BY PageOfListed
<1>4. /\ next \subseteq Nat /\ \A m, n \in next : m = n
      /\ pull.full => next = {0} \/ next = {End} \/ (next = {} /\ End = Len(listed))
  BY PageEnd DEF Links
<1>5. /\ pull' \in PullRecords /\ pull'.at = "store" /\ pull'.page = page /\ pull'.next = next
      /\ pull'.full = pull.full /\ pull'.steady = pull.steady /\ pull'.start = pull.start
      /\ pull'.seen = pull.seen /\ pull'.marked = pull.marked
  BY <1>1, <1>2, <1>3, <1>4 DEF PullRecords, Positions
<1>6. PullTypeOK'
  BY <1>1, <1>2, <1>5 DEF PullTypeOK
<1>7. KeptIsAhead'
  <2> SUFFICES ASSUME pull.full, pull.steady, pull.start = 0, NEW l \in kept
               PROVE  AheadOrSeen(l)'
    BY <1>2, <1>5 DEF KeptIsAhead
  <2>1. l \in pull.seen \/ \E i \in 1..Len(listed) : listed[i] = l /\ i > pull.offset
    BY <1>1 DEF PullIInv, PullTypeOK, KeptIsAhead, AheadOrSeen, Ahead
  <2>2. CASE l \in pull.seen
    BY <1>5, <2>2 DEF AheadOrSeen
  <2>3. ASSUME NEW i \in 1..Len(listed), listed[i] = l, i > pull.offset
        PROVE  AheadOrSeen(l)'
    <3>1. CASE i <= End
      <4>1. i \in pull.offset + 1..End
        BY <1>1, <2>3, <3>1, PageEnd DEF PullRecords
      <4> QED BY <1>3, <1>5, <2>3, <4>1 DEF AheadOrSeen
    <3>2. CASE i > End
      <4>1. \E offset \in next : i > offset
        BY <1>4, <2>3, <3>2, PageEnd
      <4>2. i \in DOMAIN listed
        BY <1>1 DEF PullTypeOK
      <4> QED BY <1>2, <1>5, <2>3, <4>1, <4>2 DEF AheadOrSeen, Ahead
    <3> QED BY <3>1, <3>2, PageEnd
  <2> QED BY <2>1, <2>2, <2>3
<1>8. gone \cap Range(listed) = {}
  BY <1>1 DEF PullTypeOK
<1> QED BY <1>1, <1>2, <1>3, <1>4, <1>5, <1>6, <1>7, <1>8
        DEF PullIInv, MarksTheUnseen, GoneIsUnseen, GoneIsMarked, Hides
\* An item leaves the page; it counts as seen unless it has no id.
LEMMA ItemStep ==
  ASSUME PullIInv, ItemStored \/ ItemFails \/ ItemInvalid
  PROVE  PullIInv'
<1>1. /\ PullTypeOK /\ pull \in PullRecords /\ pull.at = "store"
      /\ pull.page \in Seq(Locations) /\ pull.page # <<>>
  BY DEF PullIInv, PullTypeOK, PullRecords, ItemStored, ItemFails, ItemInvalid
<1>2. Item \in Locations /\ Tail(pull.page) \in Seq(Locations)
  BY <1>1, HeadTailProperties DEF Item
<1>3. Range(pull.page) = Range(Tail(pull.page)) \cup {Item}
  <2> DEFINE page == pull.page
  <2>1. /\ Len(Tail(page)) = Len(page) - 1 /\ Len(page) \in Nat \ {0}
        /\ \A i \in 1..Len(Tail(page)) : Tail(page)[i] = page[i + 1]
        /\ Item = page[1]
    BY <1>1, HeadTailProperties, EmptySeq DEF Item
  <2>2. /\ Range(page) = {page[i] : i \in 1..Len(page)}
        /\ Range(Tail(page)) = {Tail(page)[i] : i \in 1..Len(Tail(page))}
    BY ZenonT(30), <1>1, <1>2, RangeOfList
  <2>3. \A i \in 1..Len(page) : i = 1 \/ (i - 1 \in 1..Len(Tail(page)) /\ page[i] = Tail(page)[i - 1])
    BY <2>1
  <2>4. \A i \in 1..Len(Tail(page)) : i + 1 \in 1..Len(page)
    BY <2>1
  <2>5. Range(page) \subseteq Range(Tail(page)) \cup {Item}
    <3>1. ASSUME NEW i \in 1..Len(page) PROVE page[i] \in Range(Tail(page)) \cup {Item}
      BY <2>1, <2>2, <2>3
    <3> QED BY <2>2, <3>1
  <2>6. Range(Tail(page)) \cup {Item} \subseteq Range(page)
    BY <2>1, <2>2, <2>4
  <2> QED BY <2>5, <2>6
<1>4. PICK seen \in {pull.seen, pull.seen \cup {Item}}, steady \in BOOLEAN :
        /\ pull' = [pull EXCEPT !.page = Tail(@), !.seen = seen, !.steady = steady]
        /\ steady => seen = pull.seen \cup {Item} /\ pull.steady
  <2>1. CASE ItemStored \/ ItemFails
    <3>1. pull' = [pull EXCEPT !.page = Tail(@), !.seen = @ \cup {Item}]
      BY <2>1 DEF ItemStored, ItemFails, Passes
    <3>2. pull' = [pull EXCEPT !.page = Tail(@), !.seen = pull.seen \cup {Item}, !.steady = pull.steady]
      BY <1>1, <3>1 DEF PullRecords
    <3> QED BY <1>1, <3>2 DEF PullRecords
  <2>2. CASE ItemInvalid
    <3>1. pull' = [pull EXCEPT !.page = Tail(@), !.seen = pull.seen, !.steady = FALSE]
      BY <1>1, <2>2 DEF ItemInvalid, PullRecords
    <3> QED BY <3>1
  <2> QED BY <2>1, <2>2
<1>5. /\ shown' \in [Locations -> {"absent", "visible", "removed"}]
      /\ \A l \in Locations : shown[l] # "absent" => shown'[l] # "absent"
      /\ UNCHANGED <<listed, kept, gone>>
  BY <1>1, <1>2 DEF ItemStored, ItemFails, ItemInvalid, Stored, PullTypeOK
<1>6. /\ pull' \in PullRecords /\ pull'.at = "store" /\ pull'.page = Tail(pull.page)
      /\ pull'.seen = seen /\ pull'.steady = steady /\ pull'.next = pull.next
      /\ pull'.full = pull.full /\ pull'.start = pull.start /\ pull'.marked = pull.marked
  <2>1. seen \subseteq Locations
    BY <1>1, <1>2 DEF PullRecords
  <2> QED BY <1>1, <1>2, <1>4, <2>1 DEF PullRecords
<1>7. PullTypeOK'
  BY <1>1, <1>5, <1>6 DEF PullTypeOK
<1>8. KeptIsAhead'
  <2> SUFFICES ASSUME pull.full, steady, pull.start = 0, NEW l \in kept
               PROVE  AheadOrSeen(l)'
    BY <1>5, <1>6 DEF KeptIsAhead
  <2>1. \/ l \in pull.seen \cup Range(pull.page)
        \/ \E offset \in pull.next : Ahead(l, offset)
    BY <1>1, <1>4 DEF PullIInv, KeptIsAhead, AheadOrSeen
  <2>2. l \in pull.seen \cup Range(pull.page) => l \in seen \cup Range(Tail(pull.page))
    BY <1>3, <1>4
  <2> QED BY <1>5, <1>6, <2>1, <2>2 DEF AheadOrSeen, Ahead
<1>9. GoneIsUnseen'
  <2>1. seen \cup Range(Tail(pull.page)) \subseteq pull.seen \cup Range(pull.page)
    BY <1>3, <1>4
  <2> QED BY <1>5, <1>6, <2>1 DEF PullIInv, GoneIsUnseen
<1>10. GoneIsMarked'
  <2>1. gone \subseteq Locations
    BY <1>1 DEF PullTypeOK
  <2> QED BY <1>1, <1>5, <1>6, <2>1 DEF PullIInv, GoneIsMarked, Hides
<1> QED BY <1>6, <1>7, <1>8, <1>9, <1>10 DEF PullIInv, MarksTheUnseen

\* The pull goes on to the next page or to what it knows, or ends.
LEMMA PullMovesStep ==
  ASSUME PullIInv, PageDone \/ PageFails \/ MarkingDone \/ PullCrashes
  PROVE  PullIInv'
<1>1. PullTypeOK /\ pull \in PullRecords /\ UNCHANGED <<listed, shown, kept, gone>>
  BY DEF PullIInv, PullTypeOK, PageDone, PageFails, MarkingDone, PullCrashes
<1>2. PICK at \in Positions, offset \in Nat :
        /\ pull' = [pull EXCEPT !.at = at, !.offset = offset]
        /\ \/ at = "failed"
           \/ at = "ask" /\ pull.at = "store" /\ pull.page = <<>> /\ offset \in pull.next
           \/ at = "known" /\ pull.at = "store" /\ pull.page = <<>> /\ pull.next = {} /\ pull.full
           \/ at = "ended" /\ pull.at = "store" /\ ~pull.full
           \/ at = "ended" /\ pull.at = "mark" /\ pull.missing = {}
  <2>1. \A at : [pull EXCEPT !.at = at] = [pull EXCEPT !.at = at, !.offset = pull.offset]
    BY <1>1 DEF PullRecords
  <2>2. pull.offset \in Nat /\ pull.next \subseteq Nat
    BY <1>1 DEF PullRecords
  <2>3. CASE PageFails \/ PullCrashes
    BY <2>1, <2>2, <2>3 DEF PageFails, PullCrashes, PullMoves, Positions, Resting
  <2>4. CASE MarkingDone
    BY <2>1, <2>2, <2>4 DEF MarkingDone, PullMoves, Positions, Resting
  <2>5. CASE PageDone /\ pull.next = {}
    BY <2>1, <2>2, <2>5 DEF PageDone, PullMoves, Positions, Resting
  <2>6. CASE PageDone /\ pull.next # {}
    BY <2>2, <2>6 DEF PageDone, Positions
  <2> QED BY <2>3, <2>4, <2>5, <2>6
<1>3. /\ pull' \in PullRecords /\ pull'.at = at /\ pull'.offset = offset
      /\ pull'.page = pull.page /\ pull'.seen = pull.seen /\ pull'.steady = pull.steady
      /\ pull'.full = pull.full /\ pull'.start = pull.start /\ pull'.marked = pull.marked
      /\ pull'.missing = pull.missing /\ pull'.next = pull.next
  BY <1>1, <1>2 DEF PullRecords
<1>4. PullTypeOK'
  BY <1>1, <1>3 DEF PullTypeOK
<1>5. KeptIsAhead'
  <2> SUFFICES ASSUME pull.full, pull.steady, pull.start = 0, NEW l \in kept
               PROVE  AheadOrSeen(l)'
    BY <1>1, <1>3 DEF KeptIsAhead
  <2>1. AheadOrSeen(l)
    BY DEF PullIInv, KeptIsAhead
  <2>2. CASE at = "ask"
    <3>1. l \in pull.seen \/ Ahead(l, offset)
      BY <1>2, <2>1, <2>2, EmptyPage DEF AheadOrSeen, PullIInv
    <3> QED BY <1>1, <1>3, <2>2, <3>1 DEF AheadOrSeen, Ahead
  <2>3. CASE at = "known"
    BY <1>2, <1>3, <2>1, <2>3, EmptyPage DEF AheadOrSeen
  <2>4. CASE at \in {"failed", "ended"}
    BY <1>3, <2>4 DEF AheadOrSeen
  <2> QED BY <1>2, <2>2, <2>3, <2>4
<1>6. MarksTheUnseen'
  BY <1>2, <1>3 DEF MarksTheUnseen
<1>7. GoneIsMarked'
  BY <1>1, <1>2, <1>3 DEF PullIInv, GoneIsMarked, Hides, MarksTheUnseen
<1> QED BY <1>1, <1>3, <1>4, <1>5, <1>6, <1>7 DEF PullIInv, GoneIsUnseen
\* What is stored and was not seen is missing, and is marked.
LEMMA MarkStep ==
  ASSUME PullIInv, ReadKnown \/ \E l \in Locations : MarkRemoved(l) \/ MarkFails(l)
  PROVE  PullIInv'
<1>1. PullTypeOK /\ pull \in PullRecords /\ UNCHANGED <<listed, kept, gone>> /\ gone \subseteq Locations
  BY DEF PullIInv, PullTypeOK, ReadKnown, MarkRemoved, MarkFails
<1>2. CASE ReadKnown
  <2> DEFINE missing == {l \in Locations : shown[l] # "absent"} \ pull.seen
  <2>1. pull' = [pull EXCEPT !.at = "mark", !.missing = missing] /\ pull.at = "known" /\ UNCHANGED shown
    BY <1>2 DEF ReadKnown
  <2>2. /\ pull' \in PullRecords /\ pull'.at = "mark" /\ pull'.missing = missing
        /\ pull'.page = pull.page /\ pull'.seen = pull.seen /\ pull'.steady = pull.steady
        /\ pull'.full = pull.full /\ pull'.start = pull.start /\ pull'.marked = pull.marked
        /\ pull'.next = pull.next
    BY <1>1, <2>1 DEF PullRecords, Positions
  <2>3. PullTypeOK'
    BY <1>1, <2>1, <2>2 DEF PullTypeOK
  <2>4. KeptIsAhead'
    BY <1>1, <2>1, <2>2 DEF PullIInv, KeptIsAhead, AheadOrSeen
  <2>5. GoneIsMarked'
    BY <1>1, <2>1, <2>2 DEF PullIInv, GoneIsMarked, GoneIsUnseen, Hides
  <2> QED BY <1>1, <2>1, <2>2, <2>3, <2>4, <2>5 DEF PullIInv, GoneIsUnseen, MarksTheUnseen
<1>3. ASSUME NEW l \in Locations, MarkRemoved(l) \/ MarkFails(l)
      PROVE  PullIInv'
  <2>1. PICK marked \in BOOLEAN :
          /\ pull' = [pull EXCEPT !.missing = @ \ {l}, !.marked = marked]
          /\ pull.at = "mark" /\ (marked => pull.marked /\ shown' = [shown EXCEPT ![l] = "removed"])
          /\ shown' \in {shown, [shown EXCEPT ![l] = "removed"]}
    <3>1. CASE MarkRemoved(l)
      <4>1. pull' = [pull EXCEPT !.missing = @ \ {l}, !.marked = pull.marked]
        BY <1>1, <3>1 DEF MarkRemoved, PullRecords
      <4> QED BY <1>1, <3>1, <4>1 DEF MarkRemoved, PullRecords
    <3>2. CASE MarkFails(l)
      BY <3>2 DEF MarkFails
    <3> QED BY <1>3, <3>1, <3>2
  <2>2. /\ pull' \in PullRecords /\ pull'.at = "mark" /\ pull'.missing = pull.missing \ {l}
        /\ pull'.page = pull.page /\ pull'.seen = pull.seen /\ pull'.steady = pull.steady
        /\ pull'.full = pull.full /\ pull'.start = pull.start /\ pull'.marked = marked
        /\ pull'.next = pull.next
    BY <1>1, <2>1 DEF PullRecords
  <2>3. PullTypeOK'
    BY <1>1, <2>1, <2>2 DEF PullTypeOK
  <2>4. KeptIsAhead'
    BY <1>1, <2>1, <2>2 DEF PullIInv, KeptIsAhead, AheadOrSeen
  <2>5. GoneIsMarked'
    BY <1>1, <2>1, <2>2 DEF PullIInv, PullTypeOK, GoneIsMarked, Hides
  <2> QED BY <1>1, <2>1, <2>2, <2>3, <2>4, <2>5 DEF PullIInv, GoneIsUnseen, MarksTheUnseen
<1> QED BY <1>2, <1>3

LEMMA PullNextInv == PullIInv /\ [PullNext]_pullVars => PullIInv'
<1> SUFFICES ASSUME PullIInv, [PullNext]_pullVars PROVE PullIInv'
  OBVIOUS
<1>1. CASE PullStep \/ PullCrashes
  BY <1>1, PageStep, ItemStep, PullMovesStep, MarkStep DEF PullStep
<1>2. CASE UNCHANGED pullVars
  BY <1>2 DEF pullVars, PullIInv, PullTypeOK, KeptIsAhead, AheadOrSeen, Ahead, MarksTheUnseen,
       GoneIsUnseen, GoneIsMarked, Hides
<1> QED BY <1>1, <1>2, BeginStep, PutsStep, AddStep, TakeOffStep DEF PullNext

\* While a full pull goes on, what stays on the list is seen or still ahead, and what has
\* left it is neither: the inductive invariant of LocationsPull.
THEOREM PullsKnowTheList == PullInit /\ [][PullNext]_pullVars => []PullIInv
BY PullInitInv, PullNextInv, PTL

\* After a full pull of which no write failed, what has gone from the list is hidden.
THEOREM WhatHasGoneIsHidden == PullInit /\ [][PullNext]_pullVars => []GoneIsHidden
<1>1. PullIInv => GoneIsHidden
  BY DEF PullIInv, GoneIsMarked, Hides, GoneIsHidden
<1> QED BY <1>1, PullsKnowTheList, PTL

LEMMA KeptStep ==
  PullIInv /\ [PullNext]_pullVars =>
    (pull.at = "mark" /\ pull.steady /\ pull.start = 0 =>
       \A l \in kept : shown'[l] = shown[l] \/ shown[l] = "absent")
<1> SUFFICES ASSUME PullIInv, [PullNext]_pullVars,
                    pull.at = "mark", pull.steady, pull.start = 0, NEW l \in kept
             PROVE  shown'[l] = shown[l] \/ shown[l] = "absent"
  OBVIOUS
<1>1. l \in pull.seen /\ l \notin pull.missing
  BY DEF PullIInv, KeptIsAhead, AheadOrSeen, MarksTheUnseen
<1>2. shown \in [Locations -> {"absent", "visible", "removed"}]
  BY DEF PullIInv, PullTypeOK
<1>3. ASSUME NEW m \in Locations, Puts(m) \/ MarkRemoved(m)
      PROVE  shown'[l] = shown[l] \/ shown[l] = "absent"
  <2>1. CASE Puts(m)
    <3>1. shown' = [shown EXCEPT ![m] = IF shown[m] = "absent" THEN "visible" ELSE shown[m]]
      BY <2>1 DEF Puts, Stored
    <3> QED BY <1>2, <3>1
  <2>2. CASE MarkRemoved(m)
    <3>1. m # l /\ shown' = [shown EXCEPT ![m] = "removed"]
      BY <1>1, <2>2 DEF MarkRemoved
    <3> QED BY <1>2, <3>1
  <2> QED BY <1>3, <2>1, <2>2
<1>4. UNCHANGED shown \/ \E m \in Locations : Puts(m) \/ MarkRemoved(m)
  BY DEF PullNext, PullStep, pullVars, PageAnswered, PageLinksWithoutOffset, PageFails, ItemStored,
       ItemFails, ItemInvalid, PageDone, ReadKnown, MarkingDone, MarkFails, PullCrashes, BeginPull,
       Adds, TakesOff
<1> QED BY <1>3, <1>4

\* A full pull from the first offset hides no location that has been listed since it began.
THEOREM WhatIsKeptStaysVisible == PullInit /\ [][PullNext]_pullVars => KeptStaysVisible
<1>1. PullIInv /\ [PullNext]_pullVars =>
        [pull.at = "mark" /\ pull.steady /\ pull.start = 0 =>
           \A l \in kept : shown'[l] = shown[l] \/ shown[l] = "absent"]_pullVars
  BY KeptStep
<1> QED BY <1>1, PullsKnowTheList, PTL DEF KeptStaysVisible
-----------------------------------------------------------------------------
(* The two together *)

\* Of tokens and pulls together, the inductive invariant that the run checks.
THEOREM AskedSafe == AskedSpec => []AskedIInv
<1>1. AskedInit => TokensIInv /\ PullIInv
  BY TokensInitInv, PullInitInv DEF AskedInit
<1>2. [Token \/ Pages]_askedVars => [TokensNext]_tokenVars /\ [PullNext]_pullVars
  BY DEF Token, Pages, askedVars
<1> QED BY <1>1, <1>2, TokensNextInv, PullNextInv, PTL DEF AskedSpec, AskedIInv
==============================================================================
