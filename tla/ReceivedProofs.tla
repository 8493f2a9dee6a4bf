--------------------------- MODULE ReceivedProofs ---------------------------
(***************************************************************************)
(* Theorems about what a partner sends and the server stores, part by part *)
(* of MCReceived: a session, a tariff, a connection's credentials, which   *)
(* party's rows a request touches, pulled lists, the partners behind a hub *)
(* and the scripts that remove a partner's rows; about a location, and all *)
(* parts together, LocationProofs.                                         *)
(***************************************************************************)
EXTENDS MCReceived, SequenceTheorems, FiniteSetTheorems, TLAPS

-----------------------------------------------------------------------------
(* One session *)

LEMMA SeqGrows ==
  ASSUME NEW S, NEW T, S \subseteq T, NEW s \in Seq(S)
  PROVE  s \in Seq(T)
<1>1. Len(s) \in Nat /\ s \in [1..Len(s) -> S]
  OBVIOUS
<1>2. s \in [1..Len(s) -> T]
  BY <1>1
<1> QED BY <1>1, <1>2, SeqDef

LEMMA SeqHolds ==
  ASSUME NEW S, NEW s \in Seq(S), NEW i \in DOMAIN s
  PROVE  s[i] \in S
OBVIOUS

LEMMA OneElement == ASSUME NEW S, NEW e \in S PROVE <<e>> \in Seq(S)
OBVIOUS

LEMMA NoSessionCallType == NoSessionCall \in SessionCallType
<1>1. <<>> \in Seq(1..period)
  OBVIOUS
<1> QED BY <1>1 DEF NoSessionCall, SessionCallType

LEMMA SessionInitInv == SessionInit => SessionIInv
<1> SUFFICES ASSUME SessionInit PROVE SessionIInv
  OBVIOUS
<1>1. <<>> \in Seq(Seq(1..period)) /\ DOMAIN <<>> = {} /\ Len(<<>>) = 0
  OBVIOUS
<1>2. SessionTypeOK
  <2>1. sessionCall \in [SessionCalls -> SessionCallType]
    BY NoSessionCallType DEF SessionInit
  <2>2. period \in 0..sent /\ sent \in 0..MaxSent /\ owed \subseteq 1..period
    BY SessionAssumption DEF SessionInit
  <2> QED BY <1>1, <2>1, <2>2 DEF SessionInit, SessionTypeOK
<1>3. \A c \in SessionCalls : InCall(c) = NoSessionCall
  BY DEF SessionInit, InCall
<1>4. /\ NoSessionCall.at = "idle" /\ NoSessionCall.kind = "none" /\ NoSessionCall.periods = <<>>
      /\ sessionRows = <<>> /\ owed = {}
  BY DEF SessionInit, NoSessionCall
<1>5. CallsAreSound /\ PeriodsKept
  BY <1>1, <1>3, <1>4 DEF CallsAreSound, PeriodsKept
<1>6. CallsKeepApart
  BY <1>1, <1>3, <1>4 DEF CallsKeepApart, Meets, WritesOwed
<1>7. ListsRise
  BY <1>1, <1>3, <1>4 DEF ListsRise, InOrder
<1> QED BY <1>2, <1>4, <1>5, <1>6, <1>7 DEF SessionIInv

\* What the invariant says of one call.
SessionCallFits(w) ==
    /\ w.at = "idle" => w = NoSessionCall
    /\ w.at = "insert" => w.kind = "put"
    /\ w.at = "find again" => w.kind = "patch"
    /\ w.at # "idle" => w.kind # "none"
    /\ w.at = "update" => w.row \in DOMAIN sessionRows
    /\ ~clash => /\ w.at = "insert" => sessionRows = <<>>
                 /\ w.at # "idle" /\ (w.kind = "put" \/ w.at # "find") =>
                      w.periods = <<>> \/ owed \subseteq Range(w.periods)
    /\ ~clash /\ ~repeated =>
         /\ InOrder(w.periods)
         /\ w.at = "find" /\ w.kind = "patch" /\ w.periods # <<>> =>
              /\ Len(w.periods) = 1
              /\ \A r \in DOMAIN sessionRows : \A i \in DOMAIN sessionRows[r] :
                    sessionRows[r][i] < w.periods[1]

LEMMA SessionCallsFit ==
  ASSUME SessionIInv, NEW c \in SessionCalls
  PROVE  sessionCall[c] \in SessionCallType /\ SessionCallFits(sessionCall[c])
<1>1. sessionCall[c] \in SessionCallType
  BY DEF SessionIInv, SessionTypeOK
<1>2. ~clash => CallsKeepApart
  BY DEF SessionIInv
<1>3. ~clash /\ ~repeated => ListsRise
  BY DEF SessionIInv
<1>4. CallsAreSound
  BY DEF SessionIInv
<1> QED BY <1>1, <1>2, <1>3, <1>4
        DEF SessionCallFits, CallsAreSound, CallsKeepApart, ListsRise, WritesOwed, InCall

\* A call goes on to w, and nothing else happens.
LEMMA SessionMoveStep ==
  ASSUME SessionIInv, NEW c \in SessionCalls, NEW w \in SessionCallType,
         sessionCall' = [sessionCall EXCEPT ![c] = w],
         UNCHANGED <<sessionRows, period, sent, owed, clash, repeated>>,
         SessionCallFits(w),
         w.kind = "put" => sessionCall[c].kind = "put",
         w.periods # <<>> => sessionCall[c].periods # <<>>
  PROVE  SessionIInv'
<1>1. /\ sessionCall'[c] = w /\ \A d \in SessionCalls : d # c => sessionCall'[d] = sessionCall[d]
      /\ sessionCall' \in [SessionCalls -> SessionCallType]
  BY DEF SessionIInv, SessionTypeOK
<1>2. \A d \in SessionCalls : SessionCallFits(sessionCall'[d])
  BY <1>1, SessionCallsFit
<1>3. SessionTypeOK' /\ PeriodsKept'
  BY <1>1 DEF SessionIInv, SessionTypeOK, SessionCallType, PeriodsKept
<1>4. CallsAreSound'
  BY <1>2 DEF SessionCallFits, CallsAreSound, InCall
<1>5. ASSUME ~clash PROVE CallsKeepApart'
  <2>1. CallsKeepApart
    BY <1>5 DEF SessionIInv
  <2>2. \A d, e \in SessionCalls : d # e =>
          /\ ~(sessionCall'[d].kind = "put" /\ sessionCall'[e].kind = "put")
          /\ ~(sessionCall'[d].periods # <<>> /\ sessionCall'[e].periods # <<>>)
    BY <1>1, <2>1 DEF CallsKeepApart, Meets, InCall
  <2>3. \A d \in SessionCalls : /\ InCall(d)'.at = "insert" => sessionRows' = <<>>
                                /\ WritesOwed(d)'
    BY <1>2, <1>5 DEF SessionCallFits, WritesOwed, InCall
  <2> QED BY <2>1, <2>2, <2>3 DEF CallsKeepApart, Meets, InCall
<1>6. ASSUME ~clash, ~repeated PROVE ListsRise'
  BY <1>2, <1>6 DEF SessionIInv, ListsRise, SessionCallFits, InCall
<1> QED BY <1>3, <1>4, <1>5, <1>6 DEF SessionIInv

\* A call that ends without having written anything.
LEMMA SessionReturnStep ==
  ASSUME SessionIInv, NEW c \in SessionCalls, sessionCall' = [sessionCall EXCEPT ![c] = NoSessionCall],
         UNCHANGED <<sessionRows, period, sent, owed, clash, repeated>>
  PROVE  SessionIInv'
<1>1. SessionCallFits(NoSessionCall)
  BY DEF SessionCallFits, NoSessionCall, InOrder
<1>2. NoSessionCall.kind = "none" /\ NoSessionCall.periods = <<>>
  BY DEF NoSessionCall
<1> QED BY <1>1, <1>2, NoSessionCallType, SessionMoveStep

LEMMA FindForPutStep ==
  ASSUME SessionIInv, NEW c \in SessionCalls, FindForPut(c)
  PROVE  SessionIInv'
<1>1. /\ sessionCall[c] \in SessionCallType /\ SessionCallFits(sessionCall[c])
      /\ sessionCall[c].at = "find" /\ sessionCall[c].kind = "put"
      /\ UNCHANGED <<sessionRows, period, sent, owed, clash, repeated>>
  BY SessionCallsFit DEF FindForPut, InCall, SessionElseSame
<1>2. CASE sessionRows = <<>>
  <2> DEFINE w == [sessionCall[c] EXCEPT !.at = "insert"]
  <2>1. sessionCall' = [sessionCall EXCEPT ![c] = w]
    BY <1>2 DEF FindForPut, SessionGoesTo
  <2>2. /\ w \in SessionCallType /\ w.at = "insert" /\ w.kind = sessionCall[c].kind
        /\ w.periods = sessionCall[c].periods
    BY <1>1 DEF SessionCallType
  <2> HIDE DEF w
  <2>3. SessionCallFits(w)
    BY <1>1, <1>2, <2>2 DEF SessionCallFits
  <2> QED BY <1>1, <2>1, <2>2, <2>3, SessionMoveStep
<1>3. CASE sessionRows # <<>>
  <2>1. PICK r \in DOMAIN sessionRows : SessionGoesToRow(c, r, "update")
    BY <1>3 DEF FindForPut
  <2> DEFINE w == [sessionCall[c] EXCEPT !.at = "update", !.row = r]
  <2>2. sessionCall' = [sessionCall EXCEPT ![c] = w]
    BY <2>1 DEF SessionGoesToRow
  <2>3. r \in Nat
    BY DEF SessionIInv, SessionTypeOK
  <2>4. /\ w \in SessionCallType /\ w.at = "update" /\ w.kind = sessionCall[c].kind
        /\ w.periods = sessionCall[c].periods /\ w.row = r
    BY <1>1, <2>3 DEF SessionCallType
  <2> HIDE DEF w
  <2>5. SessionCallFits(w)
    BY <1>1, <2>4 DEF SessionCallFits
  <2> QED BY <1>1, <2>2, <2>4, <2>5, SessionMoveStep
<1> QED BY <1>2, <1>3

LEMMA FindAgainStep ==
  ASSUME SessionIInv, NEW c \in SessionCalls, FindSessionToPatch(c)
  PROVE  SessionIInv'
<1>1. /\ sessionCall[c] \in SessionCallType /\ SessionCallFits(sessionCall[c])
      /\ sessionCall[c].at = "find again" /\ sessionCall[c].kind = "patch"
      /\ UNCHANGED <<sessionRows, period, sent, owed, clash, repeated>>
  BY SessionCallsFit DEF FindSessionToPatch, InCall, SessionElseSame, SessionCallFits
<1>2. PICK r \in DOMAIN sessionRows : SessionGoesToRow(c, r, "update")
  BY DEF FindSessionToPatch
<1> DEFINE w == [sessionCall[c] EXCEPT !.at = "update", !.row = r]
<1>3. sessionCall' = [sessionCall EXCEPT ![c] = w]
  BY <1>2 DEF SessionGoesToRow
<1>4. r \in Nat
  BY DEF SessionIInv, SessionTypeOK
<1>5. /\ w \in SessionCallType /\ w.at = "update" /\ w.kind = sessionCall[c].kind
      /\ w.periods = sessionCall[c].periods /\ w.row = r
  BY <1>1, <1>4 DEF SessionCallType
<1> HIDE DEF w
<1>6. SessionCallFits(w)
  BY <1>1, <1>5 DEF SessionCallFits
<1> QED BY <1>1, <1>3, <1>5, <1>6, SessionMoveStep

\* A list that rises, and a later period.
LEMMA AppendedInOrder ==
  ASSUME NEW n \in Nat, NEW s \in Seq(1..n), NEW p \in Seq(1..n)
  PROVE  /\ s \o p \in Seq(1..n) /\ (p # <<>> => s \o p # <<>>)
         /\ Range(s) \subseteq Range(s \o p)
         /\ InOrder(s) /\ Len(p) = 1 /\ (\A i \in DOMAIN s : s[i] < p[1]) => InOrder(s \o p)
<1> DEFINE t == s \o p
<1>1. /\ t \in Seq(1..n) /\ Len(t) = Len(s) + Len(p)
      /\ \A i \in 1..Len(s) + Len(p) : t[i] = IF i <= Len(s) THEN s[i] ELSE p[i - Len(s)]
  BY ConcatProperties
<1>2. Len(s) \in Nat /\ Len(p) \in Nat /\ DOMAIN s = 1..Len(s) /\ DOMAIN p = 1..Len(p)
  OBVIOUS
<1> HIDE DEF t
<1>3. DOMAIN t = 1..Len(s) + Len(p)
  BY <1>1
<1>4. p # <<>> => t # <<>>
  <2> SUFFICES ASSUME p # <<>>, t = <<>> PROVE FALSE
    OBVIOUS
  <2>1. Len(p) # 0 /\ Len(t) = 0
    OBVIOUS
  <2> QED BY <1>1, <1>2, <2>1
<1>5. Range(s) \subseteq Range(t)
  <2> SUFFICES ASSUME NEW i \in DOMAIN s PROVE s[i] \in Range(t)
    BY DEF Range
  <2>1. i \in DOMAIN t /\ t[i] = s[i]
    BY <1>1, <1>2, <1>3
  <2> QED BY <2>1 DEF Range
<1>6. ASSUME InOrder(s), Len(p) = 1, \A i \in DOMAIN s : s[i] < p[1]
      PROVE  InOrder(t)
  <2> SUFFICES ASSUME NEW i \in DOMAIN t, NEW j \in DOMAIN t, i < j PROVE t[i] < t[j]
    BY DEF InOrder
  <2>1. i \in DOMAIN s /\ t[i] = s[i] /\ i \in Nat /\ j \in Nat
    BY <1>1, <1>2, <1>3, <1>6
  <2>2. CASE j <= Len(s)
    <3>1. j \in DOMAIN s /\ t[j] = s[j]
      BY <1>1, <1>2, <1>3, <2>2
    <3> QED BY <1>6, <2>1, <3>1 DEF InOrder
  <2>3. CASE ~(j <= Len(s))
    <3>1. j = Len(s) + 1
      BY <1>2, <1>3, <1>6, <2>3
    <3>2. j - Len(s) = 1
      BY <1>2, <3>1
    <3>3. t[j] = p[j - Len(s)]
      BY <1>1, <1>3, <2>3
    <3> QED BY <1>6, <2>1, <3>2, <3>3
  <2> QED BY <2>2, <2>3
<1> QED BY <1>1, <1>4, <1>5, <1>6 DEF t

LEMMA ReadForPatchStep ==
  ASSUME SessionIInv, NEW c \in SessionCalls, ReadForPatch(c)
  PROVE  SessionIInv'
<1>1. /\ sessionCall[c] \in SessionCallType /\ SessionCallFits(sessionCall[c])
      /\ sessionCall[c].at = "find" /\ sessionCall[c].kind = "patch"
      /\ UNCHANGED <<sessionRows, period, sent, owed, clash, repeated>>
  BY SessionCallsFit DEF ReadForPatch, InCall, SessionElseSame
<1>2. CASE sessionRows = <<>>
  BY <1>1, <1>2, SessionReturnStep DEF ReadForPatch, SessionReturns
<1>3. CASE sessionRows # <<>>
  <2> DEFINE p == sessionCall[c].periods
  <2>1. PICK r \in DOMAIN sessionRows :
          sessionCall' = [sessionCall EXCEPT ![c].at = "find again", ![c].periods = Merge(c, r)]
    BY <1>3 DEF ReadForPatch
  <2> DEFINE list == Merge(c, r)
             w == [sessionCall[c] EXCEPT !.at = "find again", !.periods = list]
  <2>2. sessionCall' = [sessionCall EXCEPT ![c] = w]
    BY <2>1
  <2>3. sessionRows[r] \in Seq(1..period) /\ p \in Seq(1..period) /\ period \in Nat
    <3>1. sessionRows[r] \in Seq(1..period)
      BY DEF SessionIInv, SessionTypeOK
    <3>2. p \in Seq(1..period)
      BY <1>1 DEF SessionCallType
    <3>3. period \in Nat
      BY SessionAssumption DEF SessionIInv, SessionTypeOK
    <3> QED BY <3>1, <3>2, <3>3
  <2>4. list = IF p = <<>> THEN <<>> ELSE sessionRows[r] \o p
    BY DEF Merge, InCall
  <2>5. /\ sessionRows[r] \o p \in Seq(1..period) /\ Range(sessionRows[r]) \subseteq Range(sessionRows[r] \o p)
        /\ InOrder(sessionRows[r]) /\ Len(p) = 1 /\ (\A i \in DOMAIN sessionRows[r] : sessionRows[r][i] < p[1])
             => InOrder(sessionRows[r] \o p)
    BY <2>3, AppendedInOrder
  <2> HIDE DEF list
  <2>6. list \in Seq(1..period)
    <3>1. <<>> \in Seq(1..period)
      OBVIOUS
    <3> QED BY <2>4, <2>5, <3>1
  <2>7. /\ w \in SessionCallType /\ w.at = "find again" /\ w.kind = "patch" /\ w.periods = list
    BY <1>1, <2>6 DEF SessionCallType
  <2>8. ~clash => list = <<>> \/ owed \subseteq Range(list)
    BY <2>4, <2>5 DEF SessionIInv, PeriodsKept
  <2>9. ~clash /\ ~repeated => InOrder(list)
    <3> SUFFICES ASSUME ~clash, ~repeated PROVE InOrder(list)
      OBVIOUS
    <3>1. CASE p = <<>>
      BY <2>4, <3>1 DEF InOrder
    <3>2. CASE p # <<>>
      <4>1. Len(p) = 1 /\ \A i \in DOMAIN sessionRows[r] : sessionRows[r][i] < p[1]
        BY <1>1, <3>2 DEF SessionCallFits
      <4>2. InOrder(sessionRows[r])
        BY DEF SessionIInv, ListsRise
      <4> QED BY <2>4, <2>5, <3>2, <4>1, <4>2
    <3> QED BY <3>1, <3>2
  <2>10. list # <<>> => p # <<>>
    BY <2>4
  <2> HIDE DEF w
  <2>11. SessionCallFits(w)
    BY <2>7, <2>8, <2>9 DEF SessionCallFits
  <2> HIDE DEF p
  <2> QED BY <1>1, <2>2, <2>7, <2>10, <2>11, SessionMoveStep DEF p
<1> QED BY <1>2, <1>3

\* A call begins, unless it meets another; what it carries is owed by nobody yet.
LEMMA SendStep ==
  ASSUME SessionIInv, NEW c \in SessionCalls, NEW kind \in {"put", "patch"},
         NEW periods \in Seq(1..period'),
         SendSession(c, kind, periods),
         period' \in {period, period + 1}, repeated' \in BOOLEAN, repeated => repeated',
         kind = "put" => periods \in {<<>>, [i \in 1..period |-> i]},
         kind = "patch" /\ periods # <<>> =>
            /\ Len(periods) = 1 /\ (repeated' \/ periods[1] = period + 1)
  PROVE  SessionIInv'
<1> DEFINE w == [NoSessionCall EXCEPT !.kind = kind, !.at = "find", !.periods = periods]
<1>1. /\ sessionCall[c].at = "idle" /\ sent < MaxSent /\ sent' = sent + 1
      /\ clash' = (clash \/ \E d \in SessionCalls \ {c} : Meets(kind, periods, d))
      /\ sessionCall' = [sessionCall EXCEPT ![c] = w]
      /\ UNCHANGED <<sessionRows, owed>>
  BY DEF SendSession, InCall
<1>2. w.kind = kind /\ w.at = "find" /\ w.periods = periods /\ w.row = 0
  BY DEF NoSessionCall
<1>3. period \in Nat /\ sent \in Nat /\ period <= sent /\ period' \in Nat
  BY SessionAssumption DEF SessionIInv, SessionTypeOK
<1>4. 1..period \subseteq 1..period'
  BY <1>3
<1>5. \A list \in Seq(1..period) : list \in Seq(1..period')
  BY <1>4, SeqGrows
<1>6. /\ sessionCall'[c] = w /\ \A d \in SessionCalls : d # c => sessionCall'[d] = sessionCall[d]
  BY <1>1 DEF SessionIInv, SessionTypeOK
<1>7. sessionCall' \in [SessionCalls -> SessionCallType']
  <2>1. w \in SessionCallType'
    BY DEF NoSessionCall, SessionCallType
  <2>2. \A d \in SessionCalls : sessionCall[d] \in SessionCallType'
    BY <1>5 DEF SessionIInv, SessionTypeOK, SessionCallType
  <2> QED BY <1>1, <1>6, <2>1, <2>2 DEF SessionIInv, SessionTypeOK
<1>8. SessionTypeOK'
  <2>1. sessionRows \in Seq(Seq(1..period'))
    <3>1. Seq(1..period) \subseteq Seq(1..period')
      BY <1>5
    <3>2. sessionRows \in Seq(Seq(1..period))
      BY DEF SessionIInv, SessionTypeOK
    <3> QED BY <3>1, <3>2, SeqGrows
  <2>2. sent' \in 0..MaxSent /\ period' \in 0..sent'
    BY <1>1, <1>3, SessionAssumption DEF SessionIInv, SessionTypeOK
  <2>3. owed' \subseteq 1..period' /\ clash' \in BOOLEAN
    BY <1>1, <1>4 DEF SessionIInv, SessionTypeOK
  <2> QED BY <1>1, <1>7, <2>1, <2>2, <2>3 DEF SessionTypeOK
<1> HIDE DEF w
<1>9. CallsAreSound'
  <2>1. CallsAreSound
    BY DEF SessionIInv
  <2>2. UNCHANGED sessionRows /\ w.kind # "none"
    BY <1>1, <1>2
  <2> SUFFICES ASSUME NEW d \in SessionCalls, NEW v, v = sessionCall'[d], v = w \/ v = sessionCall[d]
               PROVE  /\ v.at = "idle" => v = NoSessionCall
                      /\ v.at = "insert" => v.kind = "put"
                      /\ v.at = "find again" => v.kind = "patch"
                      /\ v.at # "idle" => v.kind # "none"
                      /\ v.at = "update" => v.row \in DOMAIN sessionRows
    BY <1>6, <2>2 DEF CallsAreSound, InCall
  <2> QED BY <1>2, <2>1, <2>2 DEF CallsAreSound, InCall
<1>10. PeriodsKept' /\ (sessionRows = <<>> => owed = {})'
  BY <1>1 DEF SessionIInv, PeriodsKept
<1>11. ASSUME ~clash' PROVE CallsKeepApart'
  <2>1. CallsKeepApart /\ ~clash /\ \A d \in SessionCalls \ {c} : ~Meets(kind, periods, d)
    BY <1>1, <1>11 DEF SessionIInv
  <2>2. \A d, e \in SessionCalls : d # e =>
          /\ ~(sessionCall'[d].kind = "put" /\ sessionCall'[e].kind = "put")
          /\ ~(sessionCall'[d].periods # <<>> /\ sessionCall'[e].periods # <<>>)
    BY <1>2, <1>6, <2>1 DEF CallsKeepApart, Meets, InCall
  <2>3. kind = "put" => periods = <<>> \/ owed \subseteq Range(periods)
    <3> SUFFICES ASSUME periods = [i \in 1..period |-> i] PROVE owed \subseteq Range(periods)
      OBVIOUS
    <3>1. owed \subseteq 1..period
      BY DEF SessionIInv, SessionTypeOK
    <3> QED BY <3>1 DEF Range
  <2>4. \A d \in SessionCalls : /\ InCall(d)'.at = "insert" => sessionRows' = <<>>
                                /\ WritesOwed(d)'
    BY <1>1, <1>2, <1>6, <2>1, <2>3 DEF CallsKeepApart, WritesOwed, InCall
  <2> QED BY <1>1, <2>1, <2>2, <2>4 DEF CallsKeepApart, Meets, InCall
<1>12. ASSUME ~clash', ~repeated' PROVE ListsRise'
  <2>1. ListsRise
    BY <1>1, <1>12 DEF SessionIInv
  <2>2. InOrder(periods)
    <3>1. CASE kind = "put"
      <4>1. CASE periods = <<>>
        BY <4>1 DEF InOrder
      <4>2. CASE periods = [i \in 1..period |-> i]
        BY <1>3, <4>2 DEF InOrder
      <4> QED BY <3>1, <4>1, <4>2
    <3>2. CASE kind = "patch" /\ periods # <<>>
      <4>1. DOMAIN periods = {1}
        <5>1. DOMAIN periods = 1..Len(periods)
          OBVIOUS
        <5>2. Len(periods) = 1
          BY <3>2
        <5> QED BY <5>1, <5>2
      <4> QED BY <4>1 DEF InOrder
    <3>3. CASE kind = "patch" /\ periods = <<>>
      BY <3>3 DEF InOrder
    <3> QED BY <3>1, <3>2, <3>3
  <2>3. kind = "patch" /\ periods # <<>> =>
          /\ Len(periods) = 1
          /\ \A r \in DOMAIN sessionRows : \A i \in DOMAIN sessionRows[r] : sessionRows[r][i] < periods[1]
    <3> SUFFICES ASSUME kind = "patch", periods # <<>>, NEW r \in DOMAIN sessionRows, NEW i \in DOMAIN sessionRows[r]
                 PROVE  sessionRows[r][i] < periods[1]
      OBVIOUS
    <3>1. sessionRows[r] \in Seq(1..period)
      BY DEF SessionIInv, SessionTypeOK
    <3>2. sessionRows[r][i] \in 1..period
      BY <3>1, SeqHolds
    <3>3. periods[1] = period + 1
      BY <1>12
    <3> QED BY <1>3, <3>2, <3>3
  <2>4. \A d \in SessionCalls :
          /\ InOrder(sessionCall'[d].periods)
          /\ sessionCall'[d].at = "find" /\ sessionCall'[d].kind = "patch" /\ sessionCall'[d].periods # <<>> =>
               /\ Len(sessionCall'[d].periods) = 1
               /\ \A r \in DOMAIN sessionRows : \A i \in DOMAIN sessionRows[r] :
                     sessionRows[r][i] < sessionCall'[d].periods[1]
    <3> SUFFICES ASSUME NEW d \in SessionCalls
                 PROVE  /\ InOrder(sessionCall'[d].periods)
                        /\ sessionCall'[d].at = "find" /\ sessionCall'[d].kind = "patch" /\ sessionCall'[d].periods # <<>> =>
                             /\ Len(sessionCall'[d].periods) = 1
                             /\ \A r \in DOMAIN sessionRows : \A i \in DOMAIN sessionRows[r] :
                                   sessionRows[r][i] < sessionCall'[d].periods[1]
      OBVIOUS
    <3>1. CASE d = c
      BY <1>2, <1>6, <2>2, <2>3, <3>1
    <3>2. CASE d # c
      BY <1>6, <2>1, <3>2 DEF ListsRise, InCall
    <3> QED BY <3>1, <3>2
  <2> QED BY <1>1, <2>1, <2>4 DEF ListsRise, InCall
<1> QED BY <1>8, <1>9, <1>10, <1>11, <1>12 DEF SessionIInv

LEMMA SendingStep ==
  ASSUME SessionIInv, NEW c \in SessionCalls,
         SendPut(c) \/ SendStatus(c) \/ SendPeriod(c) \/ SendAgain(c)
  PROVE  SessionIInv'
<1>1. period \in Nat /\ repeated \in BOOLEAN
  BY SessionAssumption DEF SessionIInv, SessionTypeOK
<1>2. CASE SendPut(c)
  <2>1. PICK periods \in {<<>>, [i \in 1..period |-> i]} : SendSession(c, "put", periods)
    BY <1>2 DEF SendPut
  <2>2. period' = period /\ repeated' = repeated
    BY <1>2 DEF SendPut
  <2>3. periods \in Seq(1..period')
    <3>1. CASE periods = <<>>
      BY <3>1
    <3>2. CASE periods = [i \in 1..period |-> i]
      BY <1>1, <2>2, <3>2
    <3> QED BY <2>1, <3>1, <3>2
  <2> QED BY <1>1, <2>1, <2>2, <2>3, SendStep
<1>3. CASE SendStatus(c)
  <2>1. SendSession(c, "patch", <<>>) /\ period' = period /\ repeated' = repeated /\ <<>> \in Seq(1..period')
    BY <1>3 DEF SendStatus
  <2> QED BY <1>1, <2>1, SendStep
<1>4. CASE SendPeriod(c)
  <2> DEFINE periods == <<period + 1>>
  <2>1. SendSession(c, "patch", periods) /\ period' = period + 1 /\ repeated' = repeated
    BY <1>4 DEF SendPeriod
  <2>2. periods \in Seq(1..period') /\ Len(periods) = 1 /\ periods[1] = period + 1
    <3>1. period + 1 \in 1..period'
      BY <1>1, <2>1
    <3>2. periods \in Seq(1..period')
      BY <3>1, OneElement
    <3> QED BY <3>2
  <2> HIDE DEF periods
  <2> QED BY <1>1, <2>1, <2>2, SendStep
<1>5. CASE SendAgain(c)
  <2>1. PICK p \in 1..period : SendSession(c, "patch", <<p>>)
    BY <1>5 DEF SendAgain
  <2> DEFINE periods == <<p>>
  <2>2. SendSession(c, "patch", periods) /\ period' = period /\ repeated'
    BY <1>5, <2>1 DEF SendAgain
  <2>3. repeated' \in BOOLEAN
    BY <1>5 DEF SendAgain
  <2>4. periods \in Seq(1..period') /\ Len(periods) = 1
    <3>1. p \in 1..period'
      BY <2>2
    <3>2. Len(periods) = 1
      OBVIOUS
    <3>3. periods \in Seq(1..period')
      BY <3>1, OneElement
    <3> QED BY <3>2, <3>3
  <2> HIDE DEF periods
  <2> QED BY <2>2, <2>3, <2>4, SendStep
<1> QED BY <1>2, <1>3, <1>4, <1>5

LEMMA InsertSessionStep ==
  ASSUME SessionIInv, NEW c \in SessionCalls, InsertSession(c)
  PROVE  SessionIInv'
<1> DEFINE p == sessionCall[c].periods
<1>1. /\ sessionCall[c] \in SessionCallType /\ SessionCallFits(sessionCall[c])
      /\ sessionCall[c].at = "insert" /\ sessionCall[c].kind = "put"
      /\ sessionRows' = Append(sessionRows, p)
      /\ sessionCall' = [sessionCall EXCEPT ![c] = NoSessionCall]
      /\ UNCHANGED <<period, sent, owed, clash, repeated>>
  BY SessionCallsFit DEF InsertSession, InCall, SessionElseSame, SessionReturns, SessionCallFits
<1>2. sessionRows \in Seq(Seq(1..period)) /\ p \in Seq(1..period)
  <2>1. p \in Seq(1..period)
    BY <1>1 DEF SessionCallType
  <2> QED BY <2>1 DEF SessionIInv, SessionTypeOK
<1>3. /\ sessionRows' \in Seq(Seq(1..period)) /\ sessionRows' # <<>> /\ Len(sessionRows') = Len(sessionRows) + 1
      /\ \A r \in 1..Len(sessionRows) : sessionRows'[r] = sessionRows[r]
      /\ sessionRows'[Len(sessionRows) + 1] = p
  BY <1>1, <1>2, AppendProperties
<1>4. /\ Len(sessionRows) \in Nat /\ DOMAIN sessionRows = 1..Len(sessionRows)
      /\ DOMAIN sessionRows' = 1..Len(sessionRows) + 1
  BY <1>2, <1>3
<1> HIDE DEF p
<1>5. /\ sessionCall'[c] = NoSessionCall /\ \A d \in SessionCalls : d # c => sessionCall'[d] = sessionCall[d]
      /\ sessionCall' \in [SessionCalls -> SessionCallType]
      /\ NoSessionCall.at = "idle" /\ NoSessionCall.kind = "none" /\ NoSessionCall.periods = <<>>
  BY <1>1, NoSessionCallType DEF SessionIInv, SessionTypeOK, NoSessionCall
<1>6. SessionTypeOK'
  BY <1>1, <1>3, <1>5 DEF SessionIInv, SessionTypeOK, SessionCallType
<1>7. CallsAreSound'
  <2>1. DOMAIN sessionRows \subseteq DOMAIN sessionRows'
    BY <1>4
  <2> QED BY <1>5, <2>1 DEF SessionIInv, CallsAreSound, InCall
<1>8. ~clash => sessionRows = <<>> /\ owed = {} /\ CallsKeepApart
  BY <1>1 DEF SessionCallFits, SessionIInv
<1>9. PeriodsKept'
  BY <1>1, <1>8 DEF PeriodsKept
<1>10. ASSUME ~clash PROVE CallsKeepApart'
  <2>1. \A d, e \in SessionCalls : d # e =>
          /\ ~(sessionCall'[d].kind = "put" /\ sessionCall'[e].kind = "put")
          /\ ~(sessionCall'[d].periods # <<>> /\ sessionCall'[e].periods # <<>>)
    BY <1>5, <1>8, <1>10 DEF CallsKeepApart, Meets, InCall
  <2>2. \A d \in SessionCalls : sessionCall'[d].at # "insert"
    <3>1. \A d \in SessionCalls : d # c => sessionCall[d].kind # "put"
      BY <1>1, <1>8, <1>10 DEF CallsKeepApart, Meets, InCall
    <3> QED BY <1>5, <3>1 DEF SessionIInv, CallsAreSound, InCall
  <2>3. \A d \in SessionCalls : WritesOwed(d)'
    BY <1>1, <1>8, <1>10 DEF WritesOwed
  <2>4. Len(sessionRows') <= 1
    BY <1>3, <1>8, <1>10
  <2> QED BY <2>1, <2>2, <2>3, <2>4 DEF CallsKeepApart, Meets, InCall
<1>11. ASSUME ~clash, ~repeated PROVE ListsRise'
  <2>1. ListsRise /\ InOrder(p)
    BY <1>1, <1>11 DEF SessionIInv, SessionCallFits, p
  <2>2. DOMAIN sessionRows' = {1} /\ sessionRows'[1] = p
    BY <1>3, <1>4, <1>8, <1>11
  <2>3. \A d \in SessionCalls :
          /\ InOrder(sessionCall'[d].periods)
          /\ sessionCall'[d].at = "find" /\ sessionCall'[d].kind = "patch" /\ sessionCall'[d].periods # <<>> =>
               /\ Len(sessionCall'[d].periods) = 1
               /\ p = <<>>
    <3>1. InOrder(<<>>)
      BY DEF InOrder
    <3>2. \A d \in SessionCalls : d # c /\ sessionCall[d].periods # <<>> => p = <<>>
      BY <1>8, <1>11 DEF CallsKeepApart, Meets, InCall, p
    <3> QED BY <1>5, <2>1, <3>1, <3>2 DEF ListsRise, InCall
  <2>4. p = <<>> => DOMAIN p = {}
    OBVIOUS
  <2> QED BY <2>1, <2>2, <2>3, <2>4 DEF ListsRise, InCall
<1> QED BY <1>1, <1>3, <1>6, <1>7, <1>9, <1>10, <1>11 DEF SessionIInv

LEMMA UpdateSessionStep ==
  ASSUME SessionIInv, NEW c \in SessionCalls, UpdateSession(c)
  PROVE  SessionIInv'
<1> DEFINE p == sessionCall[c].periods
           k == sessionCall[c].row
<1>1. /\ sessionCall[c] \in SessionCallType /\ SessionCallFits(sessionCall[c])
      /\ sessionCall[c].at = "update" /\ sessionCall[c].kind \in {"put", "patch"}
      /\ sessionRows' = IF p = <<>> THEN sessionRows ELSE [sessionRows EXCEPT ![k] = p]
      /\ owed' = IF sessionCall[c].kind = "patch" THEN owed \cup Range(p) ELSE owed
      /\ sessionCall' = [sessionCall EXCEPT ![c] = NoSessionCall]
      /\ UNCHANGED <<period, sent, clash, repeated>>
  <2>1. sessionCall[c] \in SessionCallType /\ SessionCallFits(sessionCall[c])
    BY SessionCallsFit
  <2> QED BY <2>1 DEF UpdateSession, InCall, SessionReturns, SessionCallFits, SessionCallType
<1>2. sessionRows \in Seq(Seq(1..period)) /\ p \in Seq(1..period) /\ k \in DOMAIN sessionRows
  <2>1. p \in Seq(1..period) /\ k \in DOMAIN sessionRows
    BY <1>1 DEF SessionCallType, SessionCallFits
  <2> QED BY <2>1 DEF SessionIInv, SessionTypeOK
<1>3. sessionRows' \in Seq(Seq(1..period)) /\ DOMAIN sessionRows' = DOMAIN sessionRows
      /\ Len(sessionRows') = Len(sessionRows) /\ sessionRows' # <<>>
  <2> DEFINE written == [sessionRows EXCEPT ![k] = p]
  <2>1. written \in Seq(Seq(1..period)) /\ Len(written) = Len(sessionRows)
    BY <1>2, ExceptSeq
  <2>2. DOMAIN written = DOMAIN sessionRows
    OBVIOUS
  <2>3. sessionRows # <<>> /\ Len(sessionRows) # 0
    BY <1>2
  <2> HIDE DEF written
  <2>4. sessionRows' = IF p = <<>> THEN sessionRows ELSE written
    BY <1>1 DEF written
  <2>5. Len(sessionRows') = Len(sessionRows)
    BY <2>1, <2>4
  <2> QED BY <1>2, <2>1, <2>2, <2>3, <2>4, <2>5
<1>4. /\ p = <<>> => sessionRows' = sessionRows
      /\ p # <<>> => sessionRows'[k] = p /\ \A r \in DOMAIN sessionRows : r # k => sessionRows'[r] = sessionRows[r]
  BY <1>1, <1>2
<1> HIDE DEF p, k
<1>5. /\ sessionCall'[c] = NoSessionCall /\ \A d \in SessionCalls : d # c => sessionCall'[d] = sessionCall[d]
      /\ sessionCall' \in [SessionCalls -> SessionCallType]
      /\ NoSessionCall.at = "idle" /\ NoSessionCall.kind = "none" /\ NoSessionCall.periods = <<>>
  BY <1>1, NoSessionCallType DEF SessionIInv, SessionTypeOK, NoSessionCall
<1>6. SessionTypeOK'
  <2>1. Range(p) \subseteq 1..period
    <3>1. \A i \in DOMAIN p : p[i] \in 1..period
      BY <1>2, SeqHolds
    <3> QED BY <3>1 DEF Range
  <2>2. owed' \subseteq 1..period
    BY <1>1, <2>1 DEF SessionIInv, SessionTypeOK
  <2> QED BY <1>1, <1>3, <1>5, <2>2 DEF SessionIInv, SessionTypeOK, SessionCallType
<1>7. CallsAreSound'
  BY <1>3, <1>5 DEF SessionIInv, CallsAreSound, InCall
<1>8. ~clash => CallsKeepApart
  BY DEF SessionIInv
<1>9. Range(<<>>) = {}
  BY DEF Range
<1>10. ASSUME ~clash
       PROVE  /\ p = <<>> => owed' = owed
              /\ p # <<>> => owed \subseteq Range(p) /\ owed' \subseteq Range(p)
  <2>1. p # <<>> => owed \subseteq Range(p)
    BY <1>1, <1>10 DEF SessionCallFits, p
  <2> QED BY <1>1, <1>9, <2>1
<1>11. ~clash => DOMAIN sessionRows = {k}
  <2> SUFFICES ASSUME Len(sessionRows) <= 1 PROVE DOMAIN sessionRows = {k}
    BY <1>8 DEF CallsKeepApart
  <2>1. Len(sessionRows) \in Nat /\ DOMAIN sessionRows = 1..Len(sessionRows)
    BY <1>2
  <2> QED BY <1>2, <2>1
<1>12. PeriodsKept'
  <2> SUFFICES ASSUME ~clash PROVE owed' \subseteq Range(sessionRows'[k])
    BY <1>1, <1>3, <1>11 DEF PeriodsKept
  <2>1. CASE p = <<>>
    BY <1>2, <1>4, <1>10, <2>1 DEF SessionIInv, PeriodsKept
  <2>2. CASE p # <<>>
    BY <1>4, <1>10, <2>2
  <2> QED BY <2>1, <2>2
<1>13. ASSUME ~clash PROVE CallsKeepApart'
  <2>1. \A d, e \in SessionCalls : d # e =>
          /\ ~(sessionCall'[d].kind = "put" /\ sessionCall'[e].kind = "put")
          /\ ~(sessionCall'[d].periods # <<>> /\ sessionCall'[e].periods # <<>>)
    BY <1>5, <1>8, <1>13 DEF CallsKeepApart, Meets, InCall
  <2>2. \A d \in SessionCalls : sessionCall'[d].at # "insert"
    <3>1. sessionRows # <<>>
      BY <1>2
    <3> QED BY <1>5, <1>8, <1>13, <3>1 DEF CallsKeepApart, InCall
  <2>3. \A d \in SessionCalls : WritesOwed(d)'
    <3> SUFFICES ASSUME NEW d \in SessionCalls PROVE WritesOwed(d)'
      OBVIOUS
    <3>1. d # c => WritesOwed(d) /\ (p = <<>> \/ sessionCall[d].periods = <<>>)
      BY <1>8, <1>13 DEF CallsKeepApart, Meets, InCall, p
    <3> QED BY <1>5, <1>10, <1>13, <3>1 DEF WritesOwed, InCall
  <2> QED BY <1>3, <1>8, <1>13, <2>1, <2>2, <2>3 DEF CallsKeepApart, Meets, InCall
<1>14. ASSUME ~clash, ~repeated PROVE ListsRise'
  <2>1. ListsRise /\ InOrder(p)
    BY <1>1, <1>14 DEF SessionIInv, SessionCallFits, p
  <2>2. \A r \in DOMAIN sessionRows : InOrder(sessionRows'[r])
    BY <1>4, <2>1 DEF ListsRise
  <2>3. \A d \in SessionCalls :
          /\ InOrder(sessionCall'[d].periods)
          /\ sessionCall'[d].at = "find" /\ sessionCall'[d].kind = "patch" /\ sessionCall'[d].periods # <<>> =>
               /\ d # c /\ p = <<>>
    <3>1. InOrder(<<>>)
      BY DEF InOrder
    <3>2. \A d \in SessionCalls : d # c /\ sessionCall[d].periods # <<>> => p = <<>>
      BY <1>8, <1>14 DEF CallsKeepApart, Meets, InCall, p
    <3> QED BY <1>5, <2>1, <3>1, <3>2 DEF ListsRise, InCall
  <2> QED BY <1>3, <1>4, <1>5, <2>1, <2>2, <2>3 DEF ListsRise, InCall
<1> QED BY <1>1, <1>3, <1>6, <1>7, <1>12, <1>13, <1>14 DEF SessionIInv

LEMMA SessionNextInv == SessionIInv /\ [SessionNext]_sessionVars => SessionIInv'
<1> SUFFICES ASSUME SessionIInv, [SessionNext]_sessionVars PROVE SessionIInv'
  OBVIOUS
<1>1. CASE UNCHANGED sessionVars
  BY <1>1 DEF sessionVars, SessionIInv, SessionTypeOK, SessionCallType, CallsAreSound, PeriodsKept,
              CallsKeepApart, ListsRise, WritesOwed, Meets, InCall
<1>2. ASSUME NEW c \in SessionCalls, SessionBreaks(c) PROVE SessionIInv'
  BY <1>2, SessionReturnStep DEF SessionBreaks, SessionReturns, SessionElseSame
<1> QED BY <1>1, <1>2, SendingStep, FindForPutStep, InsertSessionStep, ReadForPatchStep, FindAgainStep,
           UpdateSessionStep DEF SessionNext

LEMMA SessionKeeps == SessionIInv => PeriodsStay
BY DEF SessionIInv, PeriodsStay, PeriodsInOrder, CallsKeepApart, ListsRise, InOrder

\* No period of an answered PATCH is lost, and none is out of order, unless calls that both
\* write the list overlap or the partner sends one again, however many calls there are.
THEOREM SessionPeriodsStay == SessionSpec => [](SessionIInv /\ PeriodsStay)
BY SessionInitInv, SessionNextInv, SessionKeeps, PTL DEF SessionSpec

-----------------------------------------------------------------------------
(* One tariff *)

LEMMA NoTariffCallType == NoTariffCall \in TariffCallType
BY TariffAssumption DEF NoTariffCall, TariffCallType

LEMMA TariffInitInv == TariffInit => TariffIInv
<1> SUFFICES ASSUME TariffInit PROVE TariffIInv
  OBVIOUS
<1>1. NoRow \in TariffRowType /\ NoRow.version = 0 /\ NoRow.elements = {}
  BY TariffAssumption DEF NoRow, TariffRowType
<1>2. /\ NoTariffCall.at = "idle" /\ NoTariffCall.alone = FALSE
  BY DEF NoTariffCall
<1>3. \A r \in RowIds : tariffRows[r] = NoRow
  BY DEF TariffInit
<1>4. \A c \in TariffCalls : This(c) = NoTariffCall
  BY DEF TariffInit, This
<1>5. There = {} /\ ended = NoTariffCall
  BY <1>1, <1>3 DEF There, TariffInit
<1>6. TariffTypeOK
  <2>1. tariffRows \in [RowIds -> TariffRowType] /\ tariffCall \in [TariffCalls -> TariffCallType]
    BY <1>1, NoTariffCallType DEF TariffInit
  <2>2. puts \in 0..MaxPuts /\ together \in BOOLEAN /\ brokenOff \in BOOLEAN
    <3>1. 0 \in 0..MaxPuts
      BY TariffAssumption
    <3> QED BY <3>1 DEF TariffInit
  <2> QED BY <1>5, <2>1, <2>2, NoTariffCallType DEF TariffTypeOK
<1>7. TariffCallsAreSound /\ AloneFindsItsRow /\ NothingAfterAlone /\ OneAtATime
  BY <1>1, <1>2, <1>3, <1>4, <1>5 DEF TariffCallsAreSound, AloneFindsItsRow, NothingAfterAlone, OneAtATime
<1>8. AlonePutStores /\ NeverLeftEmpty
  BY <1>2, <1>5 DEF AlonePutStores, NeverLeftEmpty
<1> QED BY <1>6, <1>7, <1>8 DEF TariffIInv

\* What a call finds when it is alone, of its own row and of all.
FindsItsRow(w) ==
    w.at # "idle" /\ w.alone =>
        /\ w.at = "insert" => There = {}
        /\ w.at \in {"clear", "elements", "update"} => w.row \in There
        /\ w.at = "elements" => tariffRows[w.row].elements = {}
        /\ w.at = "update" => tariffRows[w.row].elements = {w.version}

TariffCallFits(w) ==
    /\ w.at # "idle" => w.version # 0
    /\ w.at = "delete" => w.kind = "delete"
    /\ w.at \in {"clear", "elements", "update"} => w.row # 0

LEMMA TariffCallsFit ==
  ASSUME TariffIInv, NEW c \in TariffCalls
  PROVE  /\ This(c) \in TariffCallType /\ TariffCallFits(This(c)) /\ FindsItsRow(This(c))
         /\ This(c).at # "idle" /\ This(c).alone => \A d \in TariffCalls : d # c => This(d).at = "idle"
BY DEF TariffIInv, TariffTypeOK, TariffCallsAreSound, AloneFindsItsRow, TariffCallFits, FindsItsRow, This

OneRow == /\ \A r, s \in There : r = s
          /\ \A r \in There : \A e, f \in tariffRows[r].elements : e = f

\* A step of a call that is under way, which leaves it at w.
LEMMA TariffStepOf ==
  ASSUME TariffIInv, NEW c \in TariffCalls, NEW w \in TariffCallType, This(c).at # "idle",
         tariffCall' = [tariffCall EXCEPT ![c] = w], UNCHANGED <<puts, together>>,
         tariffRows' \in [RowIds -> TariffRowType], brokenOff' \in BOOLEAN,
         \A r \in RowIds : tariffRows'[r].version = 0 => tariffRows'[r].elements = {},
         TariffCallFits(w), FindsItsRow(w)', w.at # "idle" => w.alone = This(c).alone,
         \/ ended' = ended
         \/ /\ ended' = This(c) /\ w.at = "idle"
            /\ This(c).alone /\ This(c).kind = "put" =>
                 \E r \in There' : tariffRows'[r] = [version |-> This(c).version, elements |-> {This(c).version}],
         ~together /\ This(c).alone => OneRow',
         NeverLeftEmpty'
  PROVE  TariffIInv'
<1>1. /\ This(c)' = w /\ \A d \in TariffCalls : d # c => This(d)' = This(d)
      /\ tariffCall' \in [TariffCalls -> TariffCallType]
  BY DEF TariffIInv, TariffTypeOK, This
<1>2. This(c).alone => \A d \in TariffCalls : d # c => This(d).at = "idle"
  BY TariffCallsFit
<1>3. ~ended.alone
  BY DEF TariffIInv, NothingAfterAlone
<1>4. TariffTypeOK'
  <2>1. This(c) \in TariffCallType /\ ended \in TariffCallType
    BY TariffCallsFit DEF TariffIInv, TariffTypeOK
  <2>2. ended' \in TariffCallType
    BY <2>1
  <2> QED BY <1>1, <2>2 DEF TariffIInv, TariffTypeOK, TariffCallType, TariffRowType, RowIds
<1>5. TariffCallsAreSound'
  <2>1. \A d \in TariffCalls : TariffCallFits(This(d)')
    BY <1>1, TariffCallsFit
  <2>2. \A r \in RowIds \ There' : tariffRows'[r].elements = {}
    BY DEF There
  <2> QED BY <2>1, <2>2 DEF TariffCallsAreSound, TariffCallFits, RowIds
<1>6. AloneFindsItsRow'
  <2> SUFFICES ASSUME NEW d \in TariffCalls, This(d)'.at # "idle", This(d)'.alone
               PROVE  /\ \A e \in TariffCalls : e # d => This(e)'.at = "idle"
                      /\ FindsItsRow(This(d))'
    BY DEF AloneFindsItsRow, FindsItsRow
  <2>1. CASE d = c
    BY <1>1, <1>2, <2>1 DEF FindsItsRow
  <2>2. CASE d # c
    <3>1. This(d).at # "idle" /\ This(d).alone
      BY <1>1, <2>2
    <3> QED BY <2>2, <3>1, TariffCallsFit
  <2> QED BY <2>1, <2>2
<1>7. NothingAfterAlone'
  <2> SUFFICES ASSUME ended'.alone PROVE \A d \in TariffCalls : This(d)'.at = "idle"
    BY DEF NothingAfterAlone
  <2>1. ended' = This(c) /\ w.at = "idle"
    BY <1>3
  <2> QED BY <1>1, <1>2, <2>1
<1>8. OneAtATime'
  <2> SUFFICES ASSUME ~together PROVE OneAtATime'
    BY DEF OneAtATime
  <2>1. \A d \in TariffCalls : This(d).at # "idle" => This(d).alone
    BY DEF TariffIInv, OneAtATime
  <2>2. OneRow'
    BY <2>1
  <2>3. \A d \in TariffCalls : This(d)'.at # "idle" => This(d)'.alone
    BY <1>1, <2>1
  <2> QED BY <2>2, <2>3 DEF OneAtATime, OneRow
<1>9. AlonePutStores'
  <2> SUFFICES ASSUME ended'.alone, ended'.kind = "put"
               PROVE  \E r \in There' : tariffRows'[r] = [version |-> ended'.version, elements |-> {ended'.version}]
    BY DEF AlonePutStores
  <2> QED BY <1>3
<1> QED BY <1>4, <1>5, <1>6, <1>7, <1>8, <1>9 DEF TariffIInv

\* One that writes to no row.
LEMMA TariffMoveStep ==
  ASSUME TariffIInv, NEW c \in TariffCalls, NEW w \in TariffCallType, This(c).at # "idle", This(c).at # "elements",
         tariffCall' = [tariffCall EXCEPT ![c] = w], UNCHANGED <<puts, together, tariffRows, ended>>,
         brokenOff' \in BOOLEAN, brokenOff => brokenOff',
         TariffCallFits(w), FindsItsRow(w), w.at # "idle" => w.alone = This(c).alone
  PROVE  TariffIInv'
<1>1. There' = There
  BY DEF There
<1>2. FindsItsRow(w)'
  BY <1>1 DEF FindsItsRow
<1>3. /\ tariffRows' \in [RowIds -> TariffRowType]
      /\ \A r \in RowIds : tariffRows'[r].version = 0 => tariffRows'[r].elements = {}
  BY DEF TariffIInv, TariffTypeOK, TariffCallsAreSound, There
<1>4. ~together => OneRow'
  BY <1>1 DEF TariffIInv, OneAtATime, OneRow
<1>5. NeverLeftEmpty'
  <2> SUFFICES ASSUME ~brokenOff, NEW r \in There, tariffRows[r].elements = {}
               PROVE  \E d \in TariffCalls : This(d)'.at = "elements" /\ This(d)'.row = r
    BY <1>1 DEF NeverLeftEmpty
  <2>1. PICK d \in TariffCalls : This(d).at = "elements" /\ This(d).row = r
    BY DEF TariffIInv, NeverLeftEmpty
  <2>2. This(d)' = This(d)
    BY <2>1 DEF TariffIInv, TariffTypeOK, This
  <2> QED BY <2>1, <2>2
<1> QED BY <1>2, <1>3, <1>4, <1>5, TariffStepOf

LEMMA FindTariffStep ==
  ASSUME TariffIInv, NEW c \in TariffCalls, FindTariff(c)
  PROVE  TariffIInv'
<1>1. /\ This(c) \in TariffCallType /\ TariffCallFits(This(c)) /\ This(c).at = "find"
      /\ UNCHANGED <<puts, together, brokenOff, ended, tariffRows>>
  BY TariffCallsFit DEF FindTariff, TariffGoesTo
<1>2. ASSUME NEW r \in 0..MaxPuts, NEW at \in {"insert", "clear"},
             tariffCall' = [tariffCall EXCEPT ![c].at = at, ![c].row = r],
             at = "insert" => There = {}, at = "clear" => r \in There
      PROVE  TariffIInv'
  <2>1. PICK w : w = [This(c) EXCEPT !.at = at, !.row = r]
    OBVIOUS
  <2>2. tariffCall' = [tariffCall EXCEPT ![c] = w]
    BY <1>2, <2>1 DEF This
  <2>3. /\ w \in TariffCallType /\ w.at = at /\ w.row = r /\ w.kind = This(c).kind
        /\ w.version = This(c).version /\ w.alone = This(c).alone
    BY <1>1, <2>1 DEF TariffCallType
  <2>4. \A s \in There : s # 0
    BY DEF There, RowIds
  <2>5. TariffCallFits(w) /\ FindsItsRow(w)
    BY <1>1, <1>2, <2>3, <2>4 DEF TariffCallFits, FindsItsRow
  <2> QED BY <1>1, <2>2, <2>3, <2>5, TariffMoveStep DEF TariffIInv, TariffTypeOK
<1>3. CASE There = {}
  <2>1. 0 \in 0..MaxPuts
    BY TariffAssumption
  <2> QED BY <1>2, <1>3, <2>1 DEF FindTariff, TariffGoesTo
<1>4. CASE There # {}
  <2>1. \A r \in There : r \in 0..MaxPuts
    BY TariffAssumption DEF There, RowIds
  <2> QED BY <1>2, <1>4, <2>1 DEF FindTariff, TariffGoesTo
<1> QED BY <1>3, <1>4

LEMMA TariffStopStep ==
  ASSUME TariffIInv, NEW c \in TariffCalls, This(c).at # "idle",
         tariffCall' = [tariffCall EXCEPT ![c] = NoTariffCall], UNCHANGED <<puts, together, tariffRows, ended>>,
         brokenOff' \in BOOLEAN, brokenOff => brokenOff',
         This(c).at = "elements" => This(c).row \notin There \/ brokenOff'
  PROVE  TariffIInv'
<1>1. /\ NoTariffCall.at = "idle" /\ NoTariffCall.kind = "none" /\ NoTariffCall \in TariffCallType
      /\ TariffCallFits(NoTariffCall) /\ FindsItsRow(NoTariffCall)
  BY NoTariffCallType DEF NoTariffCall, TariffCallFits, FindsItsRow
<1>2. There' = There
  BY DEF There
<1>3. FindsItsRow(NoTariffCall)'
  BY <1>1 DEF FindsItsRow, NoTariffCall
<1>4. /\ tariffRows' \in [RowIds -> TariffRowType]
      /\ \A r \in RowIds : tariffRows'[r].version = 0 => tariffRows'[r].elements = {}
  BY DEF TariffIInv, TariffTypeOK, TariffCallsAreSound, There
<1>5. ~together => OneRow'
  BY <1>2 DEF TariffIInv, OneAtATime, OneRow
<1>6. NeverLeftEmpty'
  <2> SUFFICES ASSUME ~brokenOff', NEW r \in There, tariffRows[r].elements = {}
               PROVE  \E d \in TariffCalls : This(d)'.at = "elements" /\ This(d)'.row = r
    BY <1>2 DEF NeverLeftEmpty
  <2>1. PICK d \in TariffCalls : This(d).at = "elements" /\ This(d).row = r
    BY DEF TariffIInv, NeverLeftEmpty
  <2>2. d # c
    BY <2>1
  <2>3. This(d)' = This(d)
    BY <2>2 DEF TariffIInv, TariffTypeOK, This
  <2> QED BY <2>1, <2>3
<1> HIDE DEF NoTariffCall
<1> QED BY <1>1, <1>3, <1>4, <1>5, <1>6, TariffStepOf

\* A row is written, and no row is left without its elements.
LEMMA ElementsStay ==
  ASSUME TariffIInv, NEW c \in TariffCalls, NEW w \in TariffCallType, NEW k \in RowIds,
         tariffCall' = [tariffCall EXCEPT ![c] = w],
         NEW row \in TariffRowType, tariffRows' = [tariffRows EXCEPT ![k] = row],
         brokenOff' = brokenOff,
         This(c).at = "elements" => This(c).row = k,
         row.elements = {} => w.at = "elements" /\ w.row = k
  PROVE  NeverLeftEmpty'
<1>1. tariffRows'[k] = row /\ \A r \in RowIds : r # k => tariffRows'[r] = tariffRows[r]
  BY DEF TariffIInv, TariffTypeOK
<1>2. This(c)' = w /\ \A d \in TariffCalls : d # c => This(d)' = This(d)
  BY DEF TariffIInv, TariffTypeOK, This
<1> SUFFICES ASSUME ~brokenOff, NEW r \in RowIds, tariffRows'[r].version # 0, tariffRows'[r].elements = {}
             PROVE  \E d \in TariffCalls : This(d)'.at = "elements" /\ This(d)'.row = r
  BY DEF NeverLeftEmpty, There, RowIds
<1>3. CASE r = k
  BY <1>1, <1>2, <1>3
<1>4. CASE r # k
  <2>1. PICK d \in TariffCalls : This(d).at = "elements" /\ This(d).row = r
    BY <1>1, <1>4 DEF TariffIInv, NeverLeftEmpty, There
  <2>2. d # c
    BY <1>4, <2>1
  <2> QED BY <1>2, <2>1, <2>2
<1> QED BY <1>3, <1>4

LEMMA InsertTariffStep ==
  ASSUME TariffIInv, NEW c \in TariffCalls, InsertTariff(c)
  PROVE  TariffIInv'
<1>1. /\ This(c) \in TariffCallType /\ TariffCallFits(This(c)) /\ FindsItsRow(This(c)) /\ This(c).at = "insert"
      /\ tariffCall' = [tariffCall EXCEPT ![c] = NoTariffCall] /\ ended' = This(c)
      /\ UNCHANGED <<puts, together, brokenOff>>
  BY TariffCallsFit DEF InsertTariff, Ends
<1>2. PICK v : v = This(c).version
  OBVIOUS
<1>3. PICK row : row = [version |-> v, elements |-> {v}]
  OBVIOUS
<1>4. v \in RowIds /\ v # 0 /\ MaxPuts \in Nat
  BY <1>1, <1>2, TariffAssumption DEF TariffCallType, TariffCallFits, RowIds
<1>5. row \in TariffRowType /\ row.version = v /\ row.elements = {v}
  BY <1>3, <1>4 DEF TariffRowType, RowIds
<1>6. tariffRows' = [tariffRows EXCEPT ![v] = row]
  BY <1>2, <1>3 DEF InsertTariff
<1>7. /\ tariffRows'[v] = row /\ \A r \in RowIds : r # v => tariffRows'[r] = tariffRows[r]
      /\ tariffRows' \in [RowIds -> TariffRowType]
  BY <1>4, <1>5, <1>6 DEF TariffIInv, TariffTypeOK
<1>8. There' = There \cup {v}
  BY <1>4, <1>5, <1>7 DEF There, RowIds
<1>9. PICK w : w = NoTariffCall
  OBVIOUS
<1>10. /\ w \in TariffCallType /\ w.at = "idle" /\ w.kind = "none"
  BY <1>9, NoTariffCallType DEF NoTariffCall
<1>11. TariffCallFits(w) /\ FindsItsRow(w)'
  BY <1>10 DEF TariffCallFits, FindsItsRow
<1>12. \A r \in RowIds : tariffRows'[r].version = 0 => tariffRows'[r].elements = {}
  BY <1>4, <1>5, <1>7 DEF TariffIInv, TariffCallsAreSound, There
<1>13. This(c).alone => OneRow'
  BY <1>1, <1>5, <1>7, <1>8 DEF FindsItsRow, OneRow
<1>14. NeverLeftEmpty'
  BY <1>1, <1>4, <1>5, <1>6, <1>9, <1>10, ElementsStay
<1>15. \E r \in There' : tariffRows'[r] = [version |-> This(c).version, elements |-> {This(c).version}]
  BY <1>2, <1>3, <1>7, <1>8
<1> QED BY <1>1, <1>7, <1>9, <1>10, <1>11, <1>12, <1>13, <1>14, <1>15, TariffStepOf DEF TariffIInv, TariffTypeOK

LEMMA ClearElementsStep ==
  ASSUME TariffIInv, NEW c \in TariffCalls, ClearElements(c)
  PROVE  TariffIInv'
<1>1. /\ This(c) \in TariffCallType /\ TariffCallFits(This(c)) /\ FindsItsRow(This(c)) /\ This(c).at = "clear"
      /\ UNCHANGED <<puts, together, brokenOff, ended>>
  BY TariffCallsFit DEF ClearElements, TariffGoesTo
<1>2. PICK k : k = This(c).row
  OBVIOUS
<1>3. PICK row : row = [tariffRows[k] EXCEPT !.elements = {}]
  OBVIOUS
<1>4. PICK w : w = [This(c) EXCEPT !.at = "elements", !.row = k]
  OBVIOUS
<1>5. k \in RowIds
  BY <1>1, <1>2, TariffAssumption DEF TariffCallType, TariffCallFits, RowIds
<1>6. row \in TariffRowType /\ row.version = tariffRows[k].version /\ row.elements = {}
  BY <1>3, <1>5 DEF TariffIInv, TariffTypeOK, TariffRowType
<1>7. /\ tariffRows' = [tariffRows EXCEPT ![k] = row]
      /\ tariffCall' = [tariffCall EXCEPT ![c] = w]
  BY <1>2, <1>3, <1>4 DEF ClearElements, TariffGoesTo, This
<1>8. /\ tariffRows'[k] = row /\ \A r \in RowIds : r # k => tariffRows'[r] = tariffRows[r]
      /\ tariffRows' \in [RowIds -> TariffRowType]
  BY <1>5, <1>6, <1>7 DEF TariffIInv, TariffTypeOK
<1>9. There' = There
  BY <1>6, <1>8 DEF There, RowIds
<1>10. /\ w \in TariffCallType /\ w.at = "elements" /\ w.kind = This(c).kind /\ w.row = k
       /\ w.version = This(c).version /\ w.alone = This(c).alone
  BY <1>1, <1>2, <1>4 DEF TariffCallType
<1>11. TariffCallFits(w) /\ FindsItsRow(w)'
  BY <1>1, <1>2, <1>6, <1>8, <1>9, <1>10 DEF TariffCallFits, FindsItsRow
<1>12. \A r \in RowIds : tariffRows'[r].version = 0 => tariffRows'[r].elements = {}
  BY <1>6, <1>8 DEF TariffIInv, TariffCallsAreSound, There
<1>13. ~together => OneRow'
  BY <1>6, <1>8, <1>9 DEF TariffIInv, OneAtATime, OneRow, There
<1>14. NeverLeftEmpty'
  BY <1>1, <1>5, <1>6, <1>7, <1>10, ElementsStay
<1> QED BY <1>1, <1>7, <1>8, <1>10, <1>11, <1>12, <1>13, <1>14, TariffStepOf DEF TariffIInv, TariffTypeOK

LEMMA InsertElementsStep ==
  ASSUME TariffIInv, NEW c \in TariffCalls, InsertElements(c)
  PROVE  TariffIInv'
<1>1. /\ This(c) \in TariffCallType /\ TariffCallFits(This(c)) /\ FindsItsRow(This(c)) /\ This(c).at = "elements"
      /\ This(c).row \in There /\ UNCHANGED <<puts, together, brokenOff, ended>>
  BY TariffCallsFit DEF InsertElements, TariffGoesTo
<1>2. PICK k : k = This(c).row
  OBVIOUS
<1>3. PICK v : v = This(c).version
  OBVIOUS
<1>4. PICK row : row = [tariffRows[k] EXCEPT !.elements = @ \cup {v}]
  OBVIOUS
<1>5. PICK w : w = [This(c) EXCEPT !.at = "update", !.row = k]
  OBVIOUS
<1>6. k \in RowIds /\ v \in 1..MaxPuts
  BY <1>1, <1>2, <1>3, TariffAssumption DEF TariffCallType, TariffCallFits, There, RowIds
<1>7. row \in TariffRowType /\ row.version = tariffRows[k].version /\ row.elements = tariffRows[k].elements \cup {v}
  BY <1>4, <1>6 DEF TariffIInv, TariffTypeOK, TariffRowType
<1>8. /\ tariffRows' = [tariffRows EXCEPT ![k] = row]
      /\ tariffCall' = [tariffCall EXCEPT ![c] = w]
  BY <1>2, <1>3, <1>4, <1>5 DEF InsertElements, TariffGoesTo, This
<1>9. /\ tariffRows'[k] = row /\ \A r \in RowIds : r # k => tariffRows'[r] = tariffRows[r]
      /\ tariffRows' \in [RowIds -> TariffRowType]
  BY <1>6, <1>7, <1>8 DEF TariffIInv, TariffTypeOK
<1>10. There' = There
  BY <1>7, <1>9 DEF There, RowIds
<1>11. /\ w \in TariffCallType /\ w.at = "update" /\ w.kind = This(c).kind /\ w.row = k
       /\ w.version = v /\ w.alone = This(c).alone
  BY <1>1, <1>2, <1>3, <1>5 DEF TariffCallType
<1>12. TariffCallFits(w) /\ FindsItsRow(w)'
  BY <1>1, <1>2, <1>3, <1>7, <1>9, <1>10, <1>11 DEF TariffCallFits, FindsItsRow
<1>13. \A r \in RowIds : tariffRows'[r].version = 0 => tariffRows'[r].elements = {}
  BY <1>1, <1>2, <1>7, <1>9 DEF TariffIInv, TariffCallsAreSound, There
<1>14. ~together /\ This(c).alone => OneRow'
  BY <1>1, <1>2, <1>7, <1>9, <1>10 DEF TariffIInv, OneAtATime, OneRow, FindsItsRow, There
<1>15. NeverLeftEmpty'
  BY <1>1, <1>2, <1>6, <1>7, <1>8, <1>11, ElementsStay
<1> QED BY <1>1, <1>8, <1>9, <1>11, <1>12, <1>13, <1>14, <1>15, TariffStepOf DEF TariffIInv, TariffTypeOK

LEMMA UpdateTariffStep ==
  ASSUME TariffIInv, NEW c \in TariffCalls, UpdateTariff(c)
  PROVE  TariffIInv'
<1>1. /\ This(c) \in TariffCallType /\ TariffCallFits(This(c)) /\ FindsItsRow(This(c)) /\ This(c).at = "update"
      /\ This(c).row \in There /\ ended' = This(c) /\ UNCHANGED <<puts, together, brokenOff>>
  BY TariffCallsFit DEF UpdateTariff, Ends
<1>2. PICK k : k = This(c).row
  OBVIOUS
<1>3. PICK v : v = This(c).version
  OBVIOUS
<1>4. PICK row : row = [tariffRows[k] EXCEPT !.version = v]
  OBVIOUS
<1>5. PICK w : w = NoTariffCall
  OBVIOUS
<1>6. k \in RowIds /\ v \in 1..MaxPuts /\ v # 0
  BY <1>1, <1>2, <1>3, TariffAssumption DEF TariffCallType, TariffCallFits, There, RowIds
<1>7. /\ row \in TariffRowType /\ row.version = v /\ row.elements = tariffRows[k].elements
      /\ row = [version |-> v, elements |-> tariffRows[k].elements]
  BY <1>4, <1>6 DEF TariffIInv, TariffTypeOK, TariffRowType
<1>8. /\ tariffRows' = [tariffRows EXCEPT ![k] = row]
      /\ tariffCall' = [tariffCall EXCEPT ![c] = w]
  BY <1>2, <1>3, <1>4, <1>5 DEF UpdateTariff, Ends
<1>9. /\ tariffRows'[k] = row /\ \A r \in RowIds : r # k => tariffRows'[r] = tariffRows[r]
      /\ tariffRows' \in [RowIds -> TariffRowType]
  BY <1>6, <1>7, <1>8 DEF TariffIInv, TariffTypeOK
<1>10. There' = There
  BY <1>1, <1>2, <1>6, <1>7, <1>9 DEF There, RowIds
<1>11. /\ w \in TariffCallType /\ w.at = "idle" /\ w.kind = "none"
  BY <1>5, NoTariffCallType DEF NoTariffCall
<1>12. TariffCallFits(w) /\ FindsItsRow(w)'
  BY <1>11 DEF TariffCallFits, FindsItsRow
<1>13. \A r \in RowIds : tariffRows'[r].version = 0 => tariffRows'[r].elements = {}
  BY <1>6, <1>7, <1>9 DEF TariffIInv, TariffCallsAreSound, There
<1>14. ~together => OneRow'
  BY <1>1, <1>2, <1>7, <1>9, <1>10 DEF TariffIInv, OneAtATime, OneRow, There
<1>15. NeverLeftEmpty'
  <2> SUFFICES ASSUME ~brokenOff, NEW r \in There, tariffRows'[r].elements = {}
               PROVE  \E d \in TariffCalls : This(d)'.at = "elements" /\ This(d)'.row = r
    BY <1>1, <1>10 DEF NeverLeftEmpty
  <2>1. tariffRows[r].elements = {}
    BY <1>7, <1>9 DEF There
  <2>2. PICK d \in TariffCalls : This(d).at = "elements" /\ This(d).row = r
    BY <2>1 DEF TariffIInv, NeverLeftEmpty
  <2>3. This(d)' = This(d)
    BY <1>1, <1>8, <2>2 DEF TariffIInv, TariffTypeOK, This
  <2> QED BY <2>2, <2>3
<1>16. This(c).alone => \E r \in There' : tariffRows'[r] = [version |-> This(c).version, elements |-> {This(c).version}]
  BY <1>1, <1>2, <1>3, <1>7, <1>9, <1>10 DEF FindsItsRow
<1> QED BY <1>1, <1>8, <1>9, <1>11, <1>12, <1>13, <1>14, <1>15, <1>16, TariffStepOf DEF TariffIInv, TariffTypeOK

LEMMA DeleteTariffStep ==
  ASSUME TariffIInv, NEW c \in TariffCalls, DeleteTariff(c)
  PROVE  TariffIInv'
<1>1. /\ This(c) \in TariffCallType /\ This(c).kind = "delete" /\ This(c).at = "delete"
      /\ tariffCall' = [tariffCall EXCEPT ![c] = NoTariffCall]
      /\ ended' = This(c) /\ UNCHANGED <<puts, together, brokenOff>>
  BY TariffCallsFit DEF DeleteTariff, Ends, TariffCallFits
<1>2. PICK w : w = NoTariffCall
  OBVIOUS
<1>3. NoRow \in TariffRowType /\ NoRow.version = 0 /\ NoRow.elements = {}
  BY TariffAssumption DEF NoRow, TariffRowType
<1>4. tariffRows' \in [RowIds -> TariffRowType] /\ \A r \in RowIds : tariffRows'[r] = NoRow
  BY <1>3 DEF DeleteTariff
<1>5. There' = {}
  BY <1>3, <1>4 DEF There, RowIds
<1>6. /\ w \in TariffCallType /\ w.at = "idle" /\ w.kind = "none"
  BY <1>2, NoTariffCallType DEF NoTariffCall
<1>7. TariffCallFits(w) /\ FindsItsRow(w)'
  BY <1>6 DEF TariffCallFits, FindsItsRow
<1>8. \A r \in RowIds : tariffRows'[r].version = 0 => tariffRows'[r].elements = {}
  BY <1>3, <1>4
<1>9. OneRow' /\ NeverLeftEmpty'
  BY <1>5 DEF OneRow, NeverLeftEmpty
<1> QED BY <1>1, <1>2, <1>4, <1>6, <1>7, <1>8, <1>9, TariffStepOf DEF TariffIInv, TariffTypeOK

LEMMA BeginTariffStep ==
  ASSUME TariffIInv, NEW c \in TariffCalls, NEW kind \in {"put", "delete"}, BeginTariff(c, kind)
  PROVE  TariffIInv'
<1> DEFINE others == {d \in TariffCalls \ {c} : This(d).at # "idle"}
           w == [NoTariffCall EXCEPT !.kind = kind, !.version = puts', !.alone = others = {},
                                     !.at = IF kind = "put" THEN "find" ELSE "delete"]
<1>1. /\ This(c).at = "idle" /\ puts < MaxPuts /\ puts' = puts + 1
      /\ together' = (together \/ others # {}) /\ ended' = NoTariffCall
      /\ tariffCall' = [d \in TariffCalls |-> IF d = c THEN w ELSE [This(d) EXCEPT !.alone = FALSE]]
      /\ UNCHANGED <<tariffRows, brokenOff>>
  BY DEF BeginTariff
<1>2. puts' \in 1..MaxPuts
  <2>1. puts \in 0..MaxPuts
    BY DEF TariffIInv, TariffTypeOK
  <2>2. puts < MaxPuts /\ puts' = puts + 1 /\ MaxPuts \in Nat
    BY <1>1, TariffAssumption
  <2> HIDE DEF others, w
  <2> QED BY <2>1, <2>2
<1>3. /\ w.at \in {"find", "delete"} /\ (w.at = "delete" => w.kind = "delete") /\ w.version = puts'
      /\ w.alone = (others = {}) /\ w \in TariffCallType
  <2>1. 0 \in 0..MaxPuts /\ puts' \in 0..MaxPuts
    BY <1>2, TariffAssumption
  <2> DEFINE alone == others = {}
  <2>2. w = [kind |-> kind, version |-> puts', row |-> 0, alone |-> alone,
             at |-> IF kind = "put" THEN "find" ELSE "delete"]
    <3> HIDE DEF alone, others
    <3>1. w = [NoTariffCall EXCEPT !.kind = kind, !.version = puts', !.alone = alone,
                                   !.at = IF kind = "put" THEN "find" ELSE "delete"]
      BY DEF alone
    <3> HIDE DEF w
    <3> QED BY <3>1 DEF NoTariffCall
  <2>3. alone \in BOOLEAN
    OBVIOUS
  <2> HIDE DEF w, alone
  <2>4. /\ w.at \in {"find", "delete"} /\ (w.at = "delete" => w.kind = "delete") /\ w.version = puts'
        /\ w.alone = alone /\ w \in TariffCallType
    BY <2>1, <2>2, <2>3 DEF TariffCallType
  <2> QED BY <2>4 DEF alone
<1> HIDE DEF w
<1>4. /\ This(c)' = w
      /\ \A d \in TariffCalls : d # c =>
           /\ This(d)' = [This(d) EXCEPT !.alone = FALSE] /\ This(d) \in TariffCallType
  BY <1>1 DEF This, TariffIInv, TariffTypeOK
<1>5. \A d \in TariffCalls : d # c =>
        /\ This(d)' \in TariffCallType /\ This(d)'.at = This(d).at /\ This(d)'.kind = This(d).kind
        /\ This(d)'.version = This(d).version /\ This(d)'.row = This(d).row /\ This(d)'.alone = FALSE
  <2> SUFFICES ASSUME NEW d \in TariffCalls, d # c, NEW was, was = This(d), was \in TariffCallType,
                      This(d)' = [was EXCEPT !.alone = FALSE]
               PROVE  /\ This(d)' \in TariffCallType /\ This(d)'.at = was.at /\ This(d)'.kind = was.kind
                      /\ This(d)'.version = was.version /\ This(d)'.row = was.row /\ This(d)'.alone = FALSE
    BY <1>4
  <2> QED BY DEF TariffCallType
<1>6. There' = There
  BY <1>1 DEF There
<1>7. TariffTypeOK'
  <2>1. tariffCall' \in [TariffCalls -> TariffCallType]
    <3>1. \A d \in TariffCalls : This(d)' \in TariffCallType
      BY <1>3, <1>4, <1>5
    <3> QED BY <1>1, <3>1 DEF This
  <2>2. puts' \in 0..MaxPuts /\ together' \in BOOLEAN
    BY <1>1, <1>2
  <2>3. tariffRows' \in [RowIds -> TariffRowType] /\ brokenOff' \in BOOLEAN /\ ended' \in TariffCallType
    BY <1>1, NoTariffCallType DEF TariffIInv, TariffTypeOK
  <2> QED BY <2>1, <2>2, <2>3 DEF TariffTypeOK, TariffCallType, TariffRowType, RowIds
<1>8. TariffCallsAreSound'
  <2>1. \A r \in RowIds \ There' : tariffRows'[r].elements = {}
    BY <1>1, <1>6 DEF TariffIInv, TariffCallsAreSound
  <2>2. \A d \in TariffCalls : TariffCallFits(This(d)')
    <3> SUFFICES ASSUME NEW d \in TariffCalls PROVE TariffCallFits(This(d)')
      OBVIOUS
    <3>1. CASE d = c
      BY <1>2, <1>3, <1>4, <3>1 DEF TariffCallFits
    <3>2. CASE d # c
      <4>1. TariffCallFits(This(d))
        BY TariffCallsFit
      <4> QED BY <1>5, <3>2, <4>1 DEF TariffCallFits
    <3> QED BY <3>1, <3>2
  <2> QED BY <2>1, <2>2 DEF TariffCallsAreSound, TariffCallFits, RowIds
<1>9. AloneFindsItsRow'
  <2> SUFFICES ASSUME NEW d \in TariffCalls, This(d)'.at # "idle", This(d)'.alone
               PROVE  /\ \A e \in TariffCalls : e # d => This(e)'.at = "idle"
                      /\ FindsItsRow(This(d))'
    BY DEF AloneFindsItsRow, FindsItsRow
  <2>1. d = c /\ others = {}
    BY <1>3, <1>4, <1>5
  <2>2. \A e \in TariffCalls : e # d => This(e)'.at = "idle"
    BY <1>5, <2>1
  <2>3. FindsItsRow(This(d))'
    BY <1>3, <1>4, <2>1 DEF FindsItsRow
  <2> QED BY <2>2, <2>3
<1>10. NothingAfterAlone' /\ AlonePutStores'
  BY <1>1 DEF NothingAfterAlone, AlonePutStores, NoTariffCall
<1>11. OneAtATime'
  <2> SUFFICES ASSUME ~together, others = {} PROVE OneAtATime'
    BY <1>1 DEF OneAtATime
  <2>1. \A d \in TariffCalls : This(d)'.at # "idle" => This(d)'.alone
    BY <1>3, <1>4, <1>5
  <2> QED BY <1>1, <1>6, <2>1 DEF TariffIInv, OneAtATime
<1>12. NeverLeftEmpty'
  <2> SUFFICES ASSUME ~brokenOff, NEW r \in There, tariffRows[r].elements = {}
               PROVE  \E d \in TariffCalls : This(d)'.at = "elements" /\ This(d)'.row = r
    BY <1>1, <1>6 DEF NeverLeftEmpty
  <2>1. PICK d \in TariffCalls : This(d).at = "elements" /\ This(d).row = r
    BY DEF TariffIInv, NeverLeftEmpty
  <2>2. d # c
    BY <1>1, <2>1
  <2> QED BY <1>5, <2>1, <2>2
<1> QED BY <1>7, <1>8, <1>9, <1>10, <1>11, <1>12 DEF TariffIInv

LEMMA TariffNextInv == TariffIInv /\ [TariffNext]_tariffVars => TariffIInv'
<1> SUFFICES ASSUME TariffIInv, [TariffNext]_tariffVars PROVE TariffIInv'
  OBVIOUS
<1>1. CASE UNCHANGED tariffVars
  <2>1. There' = There /\ \A c \in TariffCalls : This(c)' = This(c)
    BY <1>1 DEF tariffVars, This, There
  <2>2. TariffTypeOK'
    BY <1>1 DEF tariffVars, TariffIInv, TariffTypeOK, TariffCallType, TariffRowType, RowIds
  <2>3. TariffCallsAreSound'
    BY <1>1, <2>1 DEF tariffVars, TariffIInv, TariffCallsAreSound, RowIds
  <2>4. AloneFindsItsRow'
    BY <1>1, <2>1 DEF tariffVars, TariffIInv, AloneFindsItsRow
  <2>5. NothingAfterAlone' /\ OneAtATime' /\ AlonePutStores' /\ NeverLeftEmpty'
    BY <1>1, <2>1 DEF tariffVars, TariffIInv, NothingAfterAlone, OneAtATime, AlonePutStores, NeverLeftEmpty
  <2> QED BY <2>2, <2>3, <2>4, <2>5 DEF TariffIInv
<1>2. ASSUME NEW c \in TariffCalls, InsertRefused(c) \/ RowGone(c) \/ TariffBreaks(c) PROVE TariffIInv'
  <2>1. brokenOff \in BOOLEAN
    BY DEF TariffIInv, TariffTypeOK
  <2>2. /\ This(c).at # "idle" /\ tariffCall' = [tariffCall EXCEPT ![c] = NoTariffCall]
        /\ UNCHANGED <<puts, together, tariffRows, ended>>
        /\ This(c).at = "elements" => This(c).row \notin There \/ brokenOff'
        /\ brokenOff' = brokenOff \/ brokenOff' = TRUE
    BY <1>2 DEF InsertRefused, RowGone, TariffBreaks, Stops
  <2>3. brokenOff' \in BOOLEAN /\ (brokenOff => brokenOff')
    <3>1. CASE brokenOff' = brokenOff
      BY <2>1, <3>1
    <3>2. CASE brokenOff' = TRUE
      BY <3>2
    <3> QED BY <2>2, <3>1, <3>2
  <2> QED BY <2>2, <2>3, TariffStopStep
<1> QED BY <1>1, <1>2, FindTariffStep, InsertTariffStep, ClearElementsStep, InsertElementsStep,
           UpdateTariffStep, DeleteTariffStep, BeginTariffStep DEF TariffNext

LEMMA AtMostOne ==
  ASSUME NEW S, \A x, y \in S : x = y
  PROVE  Cardinality(S) <= 1
<1>1. CASE S = {}
  BY <1>1, FS_EmptySet
<1>2. CASE S # {}
  <2>1. PICK x : S = {x}
    BY <1>2
  <2> QED BY <2>1, FS_Singleton
<1> QED BY <1>1, <1>2

LEMMA TariffKeeps == TariffIInv => OneTariff
BY AtMostOne DEF TariffIInv, OneAtATime, OneTariff

\* A PUT of a tariff that was alone leaves its own elements, only a call that broke off leaves
\* a tariff without any, and calls that do not overlap leave one row, with the elements of one
\* PUT, however many calls there are.
THEOREM TariffsAreStored == TariffSpec => [](TariffIInv /\ OneTariff)
BY TariffInitInv, TariffNextInv, TariffKeeps, PTL DEF TariffSpec

-----------------------------------------------------------------------------
(* Credentials *)

LEMMA BlankType == \A state \in {"unset", "set", "erased", "deleted"} : Blank(state) \in Profiles
BY DEF Blank, Profiles, None

LEMMA IdleType == Idle \in OpType
BY BlankType DEF Idle, OpType, Steps, None

LEMMA WritesProfileType ==
  ASSUME CredentialsTypeOK, NEW v \in Profiles, WritesProfile(v)
  PROVE  profile' \in Profiles /\ stored' \in SUBSET Nat
<1>1. profile' \in Profiles
  BY DEF WritesProfile, CredentialsTypeOK
<1>2. profile'.server \in Nat
  BY <1>1 DEF Profiles
<1> QED BY <1>1, <1>2 DEF WritesProfile, CredentialsTypeOK

\* What a step of an operation leaves of the others, and the types it must keep.
LEMMA CredentialsTypeOf ==
  ASSUME CredentialsTypeOK, NEW o \in Ops, NEW w \in OpType, op' = [op EXCEPT ![o] = w],
         profile' \in Profiles, stored' \in SUBSET Nat, partner' \in PartnerType,
         started' \in Nat, minted' \in Nat, issued' \in Nat, faults' \in Nat, strained' \in BOOLEAN
  PROVE  CredentialsTypeOK'
BY DEF CredentialsTypeOK

LEMMA OpEndsAs ==
  ASSUME CredentialsTypeOK, NEW o \in Ops, OpEnds(o)
  PROVE  op' = [op EXCEPT ![o] = Idle] /\ Idle \in OpType
BY IdleType DEF OpEnds

LEMMA GoesAs ==
  ASSUME CredentialsTypeOK, NEW o \in Ops, NEW p \in Steps, Goes(o, p)
  PROVE  /\ [op[o] EXCEPT !.at = p] \in OpType
         /\ op' = [op EXCEPT ![o] = [op[o] EXCEPT !.at = p]]
BY DEF Goes, CredentialsTypeOK, OpType

LEMMA AdoptsAs ==
  ASSUME CredentialsTypeOK, NEW o \in Ops, Adopts(o)
  PROVE  /\ [op[o] EXCEPT !.at = "versions", !.copy = [profile EXCEPT !.cred = op[o].given]] \in OpType
         /\ op' = [op EXCEPT ![o] = [op[o] EXCEPT !.at = "versions",
                                                  !.copy = [profile EXCEPT !.cred = op[o].given]]]
<1>1. op[o] \in OpType /\ profile \in Profiles
  BY DEF CredentialsTypeOK
<1>2. [profile EXCEPT !.cred = op[o].given] \in Profiles
  BY <1>1 DEF Profiles, OpType
<1> QED BY <1>1, <1>2 DEF Adopts, OpType, Steps, CredentialsTypeOK

LEMMA StartsAs ==
  ASSUME CredentialsTypeOK, NEW o \in Ops, NEW kind \in PartnerKinds \cup AdminKinds,
         NEW p \in Steps, NEW with \in Nat, NEW given \in Nat, Starts(o, kind, p, with, given)
  PROVE  LET w == [Idle EXCEPT !.kind = kind, !.at = p, !.with = with, !.given = given]
         IN  /\ w \in OpType /\ op' = [op EXCEPT ![o] = w]
             /\ started' \in Nat /\ strained' \in BOOLEAN
<1> DEFINE w == [Idle EXCEPT !.kind = kind, !.at = p, !.with = with, !.given = given]
<1>1. w \in OpType
  BY IdleType DEF OpType
<1>2. op' = [op EXCEPT ![o] = w]
  BY DEF Starts
<1>3. started' \in Nat
  BY DEF Starts, CredentialsTypeOK
<1>4. strained' = (strained \/ Running # {} \/ faults > 0)
  BY DEF Starts
<1>5. strained' \in BOOLEAN
  BY <1>4
<1> HIDE DEF w
<1>6. w \in OpType /\ op' = [op EXCEPT ![o] = w] /\ started' \in Nat /\ strained' \in BOOLEAN
  BY <1>1, <1>2, <1>3, <1>5
<1> QED BY <1>6 DEF w

LEMMA StartsDoes ==
  ASSUME CredentialsTypeOK, NEW o \in Ops, NEW kind, NEW p, NEW with, NEW given,
         Starts(o, kind, p, with, given)
  PROVE  /\ strained' = (strained \/ Running # {} \/ faults > 0)
         /\ \A q \in Ops : q # o => op'[q] = op[q]
         /\ op'[o].at = p /\ op'[o].kind = kind /\ op'[o].given = given
<1>1. op' = [op EXCEPT ![o] = [Idle EXCEPT !.kind = kind, !.at = p, !.with = with, !.given = given]]
  BY DEF Starts
<1>2. op'[o] = [Idle EXCEPT !.kind = kind, !.at = p, !.with = with, !.given = given]
  BY <1>1 DEF CredentialsTypeOK
<1>3. \A q \in Ops : q # o => op'[q] = op[q]
  BY <1>1 DEF CredentialsTypeOK
<1>4. strained' = (strained \/ Running # {} \/ faults > 0)
  BY DEF Starts
<1> QED BY <1>2, <1>3, <1>4 DEF Idle

LEMMA VersionsAs ==
  ASSUME CredentialsTypeOK, NEW o \in Ops, Versions(o)
  PROVE  LET w == [op[o] EXCEPT !.at = "store", !.copy = [op[o].copy EXCEPT !.server = minted + 1]]
         IN  w \in OpType /\ op' = [op EXCEPT ![o] = w] /\ minted' = minted + 1 /\ minted' \in Nat
<1>1. op[o] \in OpType /\ minted + 1 \in Nat
  BY DEF CredentialsTypeOK
<1>2. [op[o].copy EXCEPT !.server = minted + 1] \in Profiles
  BY <1>1 DEF Profiles, OpType
<1> QED BY <1>1, <1>2 DEF Versions, OpType, Steps, CredentialsTypeOK

LEMMA ReadToGenerateAs ==
  ASSUME CredentialsTypeOK, NEW o \in Ops, ReadToGenerate(o)
  PROVE  LET w == [op[o] EXCEPT !.at = "store",
                                !.copy = [state |-> "set", server |-> minted + 1, cred |-> None]]
         IN  w \in OpType /\ op' = [op EXCEPT ![o] = w] /\ minted' = minted + 1 /\ minted' \in Nat
<1>1. op[o] \in OpType /\ minted + 1 \in Nat
  BY DEF CredentialsTypeOK
<1>2. [state |-> "set", server |-> minted + 1, cred |-> None] \in Profiles
  BY <1>1 DEF Profiles, None
<1> QED BY <1>1, <1>2 DEF ReadToGenerate, OpType, Steps, CredentialsTypeOK

LEMMA ReadToRenewOrLeaveAs ==
  ASSUME CredentialsTypeOK, NEW o \in Ops, ReadToRenewOrLeave(o)
  PROVE  LET w == [op[o] EXCEPT !.at = IF op[o].kind = "regenerate" THEN "versions" ELSE "withdraw",
                                !.copy = profile]
         IN  w \in OpType /\ op' = [op EXCEPT ![o] = w]
<1>1. op[o] \in OpType /\ profile \in Profiles
  BY DEF CredentialsTypeOK
<1> QED BY <1>1 DEF ReadToRenewOrLeave, OpType, Steps, CredentialsTypeOK

LEMMA AskAs ==
  ASSUME CredentialsTypeOK, NEW o \in Ops, Ask(o)
  PROVE  LET w == [op[o] EXCEPT !.at = "replace", !.copy = [op[o].copy EXCEPT !.cred = issued + 1]]
         IN  /\ w \in OpType /\ op' = [op EXCEPT ![o] = w] /\ issued' = issued + 1 /\ issued' \in Nat
             /\ partner' \in PartnerType
<1>1. op[o] \in OpType /\ issued + 1 \in Nat
  BY DEF CredentialsTypeOK
<1>2. [op[o].copy EXCEPT !.cred = issued + 1] \in Profiles /\ op[o].copy.server \in Nat
  BY <1>1 DEF Profiles, OpType
<1> QED BY <1>1, <1>2 DEF Ask, OpType, PartnerType, Steps, CredentialsTypeOK

LEMMA NoneType == None \in Nat /\ [knows |-> None, accepts |-> {}] \in PartnerType
BY DEF None, PartnerType

LEMMA FaultType == CredentialsTypeOK /\ (Fault \/ NoFault) => faults' \in Nat
BY DEF CredentialsTypeOK, Fault, NoFault

LEMMA PartnerAcceptsType ==
  ASSUME CredentialsTypeOK, issued' = issued + 1, partner' = [partner EXCEPT !.accepts = @ \cup {issued'}]
  PROVE  issued' \in Nat /\ partner' \in PartnerType
<1>1. issued' \in Nat
  BY DEF CredentialsTypeOK
<1> QED BY <1>1 DEF CredentialsTypeOK, PartnerType

\* The requests of both sides, which begin an operation.
LEMMA BeginsType ==
  ASSUME CredentialsTypeOK, NEW o \in Ops,
         \/ \E kind \in PartnerKinds : PartnerSends(o, kind)
         \/ \E kind \in AdminKinds : AdminCalls(o, kind)
  PROVE  CredentialsTypeOK'
<1>1. /\ "authenticate" \in Steps /\ "read" \in Steps
      /\ partner.knows \in Nat /\ issued + 1 \in Nat
  BY DEF Steps, CredentialsTypeOK, PartnerType
<1>2. ASSUME NEW kind \in PartnerKinds, PartnerSends(o, kind) PROVE CredentialsTypeOK'
  <2>1. CASE kind = "delete"
    <3>1. Starts(o, kind, "authenticate", partner.knows, None) /\ UNCHANGED <<partner, issued>>
      BY <1>2, <2>1 DEF PartnerSends
    <3>2. UNCHANGED <<profile, minted, faults, stored>>
      BY <1>2 DEF PartnerSends
    <3> QED BY <1>1, <3>1, <3>2, StartsAs, CredentialsTypeOf, NoneType DEF CredentialsTypeOK
  <2>2. CASE kind # "delete"
    <3>1. /\ Starts(o, kind, "authenticate", partner.knows, issued')
          /\ issued' = issued + 1 /\ partner' = [partner EXCEPT !.accepts = @ \cup {issued'}]
      BY <1>2, <2>2 DEF PartnerSends
    <3>2. UNCHANGED <<profile, minted, faults, stored>>
      BY <1>2 DEF PartnerSends
    <3>3. issued' \in Nat /\ partner' \in PartnerType
      BY <3>1, PartnerAcceptsType
    <3> QED BY <1>1, <3>1, <3>2, <3>3, StartsAs, CredentialsTypeOf DEF CredentialsTypeOK
  <2> QED BY <2>1, <2>2
<1>3. ASSUME NEW kind \in AdminKinds, AdminCalls(o, kind) PROVE CredentialsTypeOK'
  <2>1. CASE kind # "register"
    <3>1. Starts(o, kind, "read", None, None) /\ UNCHANGED <<partner, issued>>
      BY <1>3, <2>1 DEF AdminCalls
    <3>2. UNCHANGED <<profile, minted, faults, stored>>
      BY <1>3 DEF AdminCalls
    <3> QED BY <1>1, <3>1, <3>2, StartsAs, CredentialsTypeOf, NoneType DEF CredentialsTypeOK
  <2>2. CASE kind = "register"
    <3>1. /\ Starts(o, kind, "read", None, issued')
          /\ issued' = issued + 1 /\ partner' = [partner EXCEPT !.accepts = @ \cup {issued'}]
      BY <1>3, <2>2 DEF AdminCalls
    <3>2. UNCHANGED <<profile, minted, faults, stored>>
      BY <1>3 DEF AdminCalls
    <3>3. issued' \in Nat /\ partner' \in PartnerType
      BY <3>1, PartnerAcceptsType
    <3> QED BY <1>1, <3>1, <3>2, <3>3, StartsAs, CredentialsTypeOf, NoneType DEF CredentialsTypeOK
  <2> QED BY <2>1, <2>2
<1> QED BY <1>2, <1>3

\* The steps after which an operation is over, but for an answer.
EndsAlike(o) ==
    \/ NotAdmitted(o) \/ ReadRefused(o) \/ VersionsFail(o) \/ AnswerLost(o)
    \/ ProfileWriteFails(o) \/ EraseFails(o) \/ AskFails(o) \/ Replace(o)
    \/ WithdrawFails(o) \/ RemovePartner(o) \/ RemoveFails(o) \/ Answer(o)

LEMMA EndsAlikeType ==
  ASSUME CredentialsTypeOK, NEW o \in Ops, EndsAlike(o) PROVE CredentialsTypeOK'
<1>1. OpEnds(o) /\ UNCHANGED <<started, minted, strained>>
  BY DEF EndsAlike, NotAdmitted, ReadRefused, VersionsFail, AnswerLost, ProfileWriteFails,
         EraseFails, AskFails, Replace, WithdrawFails, RemovePartner, RemoveFails, Answer
<1>2. Idle \in OpType /\ op' = [op EXCEPT ![o] = Idle]
  BY <1>1, OpEndsAs
<1>3. faults' \in Nat
  BY FaultType DEF EndsAlike, NotAdmitted, ReadRefused, VersionsFail, AnswerLost, ProfileWriteFails,
         EraseFails, AskFails, Replace, WithdrawFails, RemovePartner, RemoveFails, Answer, CredentialsTypeOK
<1>4. op[o] \in OpType /\ op[o].copy \in Profiles /\ op[o].copy.server \in Nat /\ op[o].given \in Nat
  BY DEF CredentialsTypeOK, OpType, Profiles
<1>5. Blank("erased") \in Profiles /\ Blank("deleted") \in Profiles
  BY BlankType
<1>6. profile' \in Profiles /\ stored' \in SUBSET Nat
  <2>1. CASE UNCHANGED <<profile, stored>>
    BY <2>1 DEF CredentialsTypeOK
  <2>2. CASE WritesProfile(op[o].copy) \/ WritesProfile(Blank("erased"))
    BY <2>2, <1>4, <1>5, WritesProfileType
  <2>3. CASE profile' \in {profile, Blank("deleted")} /\ UNCHANGED stored
    BY <2>3, <1>5 DEF CredentialsTypeOK
  <2> QED BY <2>1, <2>2, <2>3
      DEF EndsAlike, NotAdmitted, ReadRefused, VersionsFail, AnswerLost, ProfileWriteFails,
          EraseFails, AskFails, Replace, WithdrawFails, RemovePartner, RemoveFails, Answer
<1>7. partner' \in PartnerType /\ issued' \in Nat
  <2>1. CASE UNCHANGED <<partner, issued>>
    BY <2>1 DEF CredentialsTypeOK
  <2>2. CASE AskFails(o)
    <3>1. CASE UNCHANGED <<partner, issued>>
      BY <3>1 DEF CredentialsTypeOK
    <3>2. CASE issued' = issued + 1 /\ partner' = [knows |-> op[o].copy.server, accepts |-> {issued'}]
      <4>1. issued' \in Nat
        BY <3>2 DEF CredentialsTypeOK
      <4> QED BY <4>1, <3>2, <1>4 DEF PartnerType
    <3> QED BY <2>2, <3>1, <3>2 DEF AskFails
  <2>3. CASE WithdrawFails(o)
    BY <2>3, NoneType DEF WithdrawFails, CredentialsTypeOK
  <2>4. CASE Answer(o)
    <3>1. [partner EXCEPT !.knows = op[o].copy.server] \in PartnerType
      BY <1>4 DEF CredentialsTypeOK, PartnerType
    <3>2. [knows |-> op[o].copy.server, accepts |-> {op[o].given}] \in PartnerType
      BY <1>4 DEF PartnerType
    <3> QED BY <2>4, <3>1, <3>2, NoneType DEF Answer, CredentialsTypeOK
  <2> QED BY <2>1, <2>2, <2>3, <2>4
      DEF EndsAlike, NotAdmitted, ReadRefused, VersionsFail, AnswerLost, ProfileWriteFails,
          EraseFails, Replace, RemovePartner, RemoveFails
<1>8. started' \in Nat /\ minted' \in Nat /\ strained' \in BOOLEAN
  BY <1>1 DEF CredentialsTypeOK
<1> QED BY <1>2, <1>3, <1>6, <1>7, <1>8, CredentialsTypeOf

\* The steps with which an operation goes on.
GoesOn(o) ==
    \/ PostAdmitted(o) \/ PutAdmitted(o) \/ DeleteAdmitted(o)
    \/ ReadToGenerate(o) \/ ReadToRegister(o) \/ ReadToRenewOrLeave(o)
    \/ Versions(o) \/ Store(o) \/ Ask(o) \/ Erase(o) \/ Withdraw(o)

LEMMA GoesOnType ==
  ASSUME CredentialsTypeOK, NEW o \in Ops, GoesOn(o) PROVE CredentialsTypeOK'
<1>1. op[o] \in OpType /\ op[o].copy \in Profiles /\ Blank("erased") \in Profiles
  BY BlankType DEF CredentialsTypeOK, OpType
<1>2. {"erase", "answer", "ask", "remove"} \subseteq Steps
  BY DEF Steps
<1>3. CASE PostAdmitted(o) \/ PutAdmitted(o) \/ ReadToRegister(o)
  <2>1. Adopts(o) /\ UNCHANGED <<profile, partner, started, minted, issued, faults, stored, strained>>
    BY <1>3 DEF PostAdmitted, PutAdmitted, ReadToRegister
  <2> QED BY <2>1, AdoptsAs, CredentialsTypeOf DEF CredentialsTypeOK
<1>4. CASE DeleteAdmitted(o)
  BY <1>2, <1>4, GoesAs, CredentialsTypeOf DEF DeleteAdmitted, CredentialsTypeOK
<1>5. CASE ReadToGenerate(o)
  <2>1. UNCHANGED <<profile, partner, started, issued, faults, stored, strained>>
    BY <1>5 DEF ReadToGenerate
  <2> QED BY <1>5, <2>1, ReadToGenerateAs, CredentialsTypeOf DEF CredentialsTypeOK
<1>6. CASE ReadToRenewOrLeave(o)
  <2>1. UNCHANGED <<profile, partner, started, minted, issued, faults, stored, strained>>
    BY <1>6 DEF ReadToRenewOrLeave
  <2> QED BY <1>6, <2>1, ReadToRenewOrLeaveAs, CredentialsTypeOf DEF CredentialsTypeOK
<1>7. CASE Versions(o)
  <2>1. UNCHANGED <<profile, partner, started, issued, faults, stored, strained>>
    BY <1>7 DEF Versions
  <2> QED BY <1>7, <2>1, VersionsAs, CredentialsTypeOf DEF CredentialsTypeOK
<1>8. CASE Store(o)
  <2>1. /\ WritesProfile(op[o].copy)
        /\ UNCHANGED <<partner, started, minted, issued, faults, strained>>
    BY <1>8 DEF Store
  <2>2. PICK p \in {"ask", "answer"} : Goes(o, p)
    BY <1>8 DEF Store
  <2>3. profile' \in Profiles /\ stored' \in SUBSET Nat
    BY <1>1, <2>1, WritesProfileType
  <2> QED BY <1>2, <2>1, <2>2, <2>3, GoesAs, CredentialsTypeOf DEF CredentialsTypeOK
<1>9. CASE Ask(o)
  <2>1. UNCHANGED <<profile, started, minted, faults, stored, strained>>
    BY <1>9 DEF Ask
  <2> QED BY <1>9, <2>1, AskAs, CredentialsTypeOf DEF CredentialsTypeOK
<1>10. CASE Erase(o)
  <2>1. /\ WritesProfile(Blank("erased"))
        /\ UNCHANGED <<partner, started, minted, issued, faults, strained>>
    BY <1>10 DEF Erase
  <2>2. profile' \in Profiles /\ stored' \in SUBSET Nat
    BY <1>1, <2>1, WritesProfileType
  <2>3. CASE OpEnds(o)
    BY <2>1, <2>2, <2>3, OpEndsAs, CredentialsTypeOf DEF CredentialsTypeOK
  <2>4. CASE Goes(o, "answer")
    BY <1>2, <2>1, <2>2, <2>4, GoesAs, CredentialsTypeOf DEF CredentialsTypeOK
  <2> QED BY <1>10, <2>3, <2>4 DEF Erase
<1>11. CASE Withdraw(o)
  <2>1. /\ partner' = [knows |-> None, accepts |-> {}] /\ Goes(o, "remove")
        /\ UNCHANGED <<profile, started, minted, issued, faults, stored, strained>>
    BY <1>11 DEF Withdraw
  <2> QED BY <1>2, <2>1, NoneType, GoesAs, CredentialsTypeOf DEF CredentialsTypeOK
<1> QED BY <1>3, <1>4, <1>5, <1>6, <1>7, <1>8, <1>9, <1>10, <1>11 DEF GoesOn

LEMMA CredentialsTypeNext ==
  CredentialsTypeOK /\ [CredentialsNext]_credentialsVars => CredentialsTypeOK'
<1> SUFFICES ASSUME CredentialsTypeOK, [CredentialsNext]_credentialsVars PROVE CredentialsTypeOK'
  OBVIOUS
<1>1. CASE UNCHANGED credentialsVars
  BY <1>1 DEF credentialsVars, CredentialsTypeOK
<1>2. CASE Crash
  <2>1. op' \in [Ops -> OpType]
    BY <1>2, IdleType DEF Crash
  <2>2. faults' \in Nat
    BY <1>2, FaultType DEF Crash
  <2> QED BY <1>2, <2>1, <2>2 DEF Crash, CredentialsTypeOK
<1>3. ASSUME NEW o \in Ops, Step(o) PROVE CredentialsTypeOK'
  BY <1>3, BeginsType, EndsAlikeType, GoesOnType DEF Step, EndsAlike, GoesOn
<1> QED BY <1>1, <1>2, <1>3 DEF CredentialsNext

-----------------------------------------------------------------------------
(* What the partner is told was stored *)

TellsTheStored == AnnouncedWasStored /\ ToldWasStored

\* A step of one operation keeps it that what is told, or about to be, was stored.
LEMMA ToldStep ==
  ASSUME CredentialsTypeOK, TellsTheStored, NEW o \in Ops,
         profile'.state # "deleted" => profile.state # "deleted", stored \subseteq stored',
         \/ partner'.knows \in {partner.knows, None}
         \/ Announces(o) /\ partner'.knows = op[o].copy.server,
         \A q \in Ops : q # o => op'[q] = op[q],
         op'[o].at = "erase" => op'[o].kind = "delete",
         Announces(o)' /\ profile'.state # "deleted" =>
           \/ op'[o].copy.server \in stored'
           \/ Announces(o) /\ op'[o].copy.server = op[o].copy.server
  PROVE  TellsTheStored'
<1>1. \A q \in Ops : q # o => (Announces(q)' <=> Announces(q)) /\ op'[q].copy = op[q].copy
  BY DEF Announces
<1>2. ASSUME profile'.state # "deleted" PROVE ToldWasStored'
  BY <1>2 DEF TellsTheStored, ToldWasStored, AnnouncedWasStored
<1>3. ASSUME NEW q \in Ops PROVE op'[q].at = "erase" => op'[q].kind = "delete"
  BY DEF TellsTheStored, AnnouncedWasStored
<1>4. ASSUME profile'.state # "deleted", NEW q \in Ops, Announces(q)' PROVE op'[q].copy.server \in stored'
  BY <1>1, <1>4 DEF TellsTheStored, AnnouncedWasStored
<1>5. AnnouncedWasStored'
  BY <1>3, <1>4 DEF AnnouncedWasStored
<1>6. ToldWasStored'
  BY <1>2 DEF ToldWasStored
<1> QED BY <1>5, <1>6 DEF TellsTheStored

LEMMA WritesProfileKeeps ==
  ASSUME NEW v, WritesProfile(v)
  PROVE  /\ profile'.state # "deleted" => profile.state # "deleted" /\ profile' = v /\ v.server \in stored'
         /\ profile.state # "deleted" => profile' = v
         /\ profile.state = "deleted" => profile' = profile
         /\ stored \subseteq stored'
BY DEF WritesProfile

LEMMA EndsTold ==
  ASSUME CredentialsTypeOK, TellsTheStored, NEW o \in Ops, EndsAlike(o) PROVE TellsTheStored'
<1>1. OpEnds(o)
  BY DEF EndsAlike, NotAdmitted, ReadRefused, VersionsFail, AnswerLost, ProfileWriteFails,
         EraseFails, AskFails, Replace, WithdrawFails, RemovePartner, RemoveFails, Answer
<1>2. /\ ~Announces(o)' /\ op'[o].at # "erase"
      /\ \A q \in Ops : q # o => op'[q] = op[q]
  BY <1>1 DEF OpEnds, Idle, Announces, CredentialsTypeOK
<1>3. /\ profile'.state # "deleted" => profile.state # "deleted"
      /\ stored \subseteq stored'
  <2>1. CASE UNCHANGED <<profile, stored>>
    BY <2>1
  <2>2. CASE WritesProfile(op[o].copy) \/ WritesProfile(Blank("erased"))
    BY <2>2, WritesProfileKeeps
  <2>3. CASE profile' \in {profile, Blank("deleted")} /\ UNCHANGED stored
    BY <2>3 DEF Blank
  <2> QED BY <2>1, <2>2, <2>3
      DEF EndsAlike, NotAdmitted, ReadRefused, VersionsFail, AnswerLost, ProfileWriteFails,
          EraseFails, AskFails, Replace, WithdrawFails, RemovePartner, RemoveFails, Answer
<1>4. \/ partner'.knows \in {partner.knows, None}
      \/ Announces(o) /\ partner'.knows = op[o].copy.server
  <2>1. CASE UNCHANGED partner
    BY <2>1
  <2>2. CASE AskFails(o)
    BY <2>2 DEF AskFails, Announces
  <2>3. CASE WithdrawFails(o)
    BY <2>3 DEF WithdrawFails
  <2>4. CASE Answer(o)
    <3>1. CASE op[o].kind = "delete"
      BY <2>4, <3>1 DEF Answer
    <3>2. CASE op[o].kind = "generate"
      <4>1. partner' = [partner EXCEPT !.knows = op[o].copy.server]
        BY <2>4, <3>2 DEF Answer
      <4>2. partner'.knows = op[o].copy.server
        BY <4>1 DEF CredentialsTypeOK, PartnerType
      <4> QED BY <2>4, <3>2, <4>2 DEF Answer, Announces
    <3>3. CASE op[o].kind \notin {"delete", "generate"}
      BY <2>4, <3>3 DEF Answer, Announces
    <3> QED BY <3>1, <3>2, <3>3
  <2> QED BY <2>1, <2>2, <2>3, <2>4
      DEF EndsAlike, NotAdmitted, ReadRefused, VersionsFail, AnswerLost, ProfileWriteFails,
          EraseFails, Replace, RemovePartner, RemoveFails
<1> QED BY <1>2, <1>3, <1>4, ToldStep

LEMMA GoesOnTold ==
  ASSUME CredentialsTypeOK, TellsTheStored, NEW o \in Ops, GoesOn(o) PROVE TellsTheStored'
<1>1. op[o] \in OpType
  BY DEF CredentialsTypeOK
<1>2. \A q \in Ops : q # o => op'[q] = op[q]
  BY DEF GoesOn, PostAdmitted, PutAdmitted, DeleteAdmitted, ReadToGenerate, ReadToRegister,
         ReadToRenewOrLeave, Versions, Store, Ask, Erase, Withdraw, Adopts, Goes, OpEnds, CredentialsTypeOK
<1>3. CASE PostAdmitted(o) \/ PutAdmitted(o) \/ ReadToRegister(o) \/ DeleteAdmitted(o)
           \/ ReadToRenewOrLeave(o) \/ ReadToGenerate(o) \/ Versions(o)
  <2>1. UNCHANGED <<profile, partner, stored>>
    BY <1>3 DEF PostAdmitted, PutAdmitted, ReadToRegister, DeleteAdmitted, ReadToRenewOrLeave,
                ReadToGenerate, Versions
  <2>2. op'[o].at \in {"versions", "erase", "withdraw", "store"}
    BY <1>1, <1>3 DEF PostAdmitted, PutAdmitted, ReadToRegister, DeleteAdmitted, ReadToRenewOrLeave,
                ReadToGenerate, Versions, Adopts, Goes, OpType, CredentialsTypeOK
  <2>3. op'[o].at = "erase" => op'[o].kind = "delete"
    BY <1>1, <1>3 DEF PostAdmitted, PutAdmitted, ReadToRegister, DeleteAdmitted, ReadToRenewOrLeave,
                ReadToGenerate, Versions, Adopts, Goes, OpType, CredentialsTypeOK
  <2> QED BY <1>2, <2>1, <2>2, <2>3, ToldStep DEF Announces
<1>4. CASE Store(o)
  <2>1. WritesProfile(op[o].copy) /\ UNCHANGED partner
    BY <1>4 DEF Store
  <2>2. op'[o].copy = op[o].copy /\ op'[o].at # "erase"
    BY <1>1, <1>4 DEF Store, Goes, OpType, CredentialsTypeOK
  <2> QED BY <1>2, <2>1, <2>2, WritesProfileKeeps, ToldStep
<1>5. CASE Ask(o)
  <2>1. UNCHANGED <<profile, stored>> /\ partner'.knows = op[o].copy.server /\ Announces(o)
    BY <1>5 DEF Ask, Announces
  <2>2. op'[o].copy.server = op[o].copy.server /\ op'[o].at # "erase"
    <3>1. op'[o] = [op[o] EXCEPT !.at = "replace", !.copy = [op[o].copy EXCEPT !.cred = issued + 1]]
      BY <1>5, AskAs DEF CredentialsTypeOK
    <3> QED BY <1>1, <3>1 DEF OpType, Profiles
  <2> QED BY <1>2, <2>1, <2>2, ToldStep
<1>6. CASE Erase(o)
  <2>1. WritesProfile(Blank("erased")) /\ UNCHANGED partner
    BY <1>6 DEF Erase
  <2>2. op[o].kind = "delete"
    BY <1>6 DEF Erase, TellsTheStored, AnnouncedWasStored
  <2>3. ~Announces(o)' /\ op'[o].at # "erase"
    BY <1>1, <1>6, <2>2 DEF Erase, Goes, OpEnds, Idle, Announces, OpType, CredentialsTypeOK
  <2> QED BY <1>2, <2>1, <2>3, WritesProfileKeeps, ToldStep
<1>7. CASE Withdraw(o)
  <2>1. UNCHANGED <<profile, stored>> /\ partner'.knows = None
    BY <1>7 DEF Withdraw
  <2>2. ~Announces(o)' /\ op'[o].at # "erase"
    BY <1>1, <1>7 DEF Withdraw, Goes, Announces, OpType, CredentialsTypeOK
  <2> QED BY <1>2, <2>1, <2>2, ToldStep
<1> QED BY <1>3, <1>4, <1>5, <1>6, <1>7 DEF GoesOn

-----------------------------------------------------------------------------
(* Both sides agree, or one still connects *)

OneReaches == IsRegistered /\ partner.knows # None => PartnerReachesUs \/ WeReachPartner

LEMMA AgreedReaches == Agreed => OneReaches
BY DEF Agreed, OneReaches

LEMMA HeldReaches ==
  ASSUME NEW held \in Profiles, Alike(held), held.cred = None \/ held.cred \in partner.accepts
  PROVE  OneReaches
BY DEF Alike, OneReaches, IsRegistered, WeReachPartner

\* Whatever an operation on course has done so far, one side still connects.
LEMMA OnCourseConnects ==
  ASSUME CredentialsTypeOK, NEW w \in OpType, OnCourse(w), w.at # "idle"
  PROVE  OneReaches
<1>1. w.copy \in Profiles /\ w.at \in Steps /\ profile \in Profiles
  BY DEF OpType, CredentialsTypeOK
<1>2. CASE w.at \in {"authenticate", "read", "versions", "store", "erase", "withdraw"}
  BY <1>2, AgreedReaches DEF OnCourse
<1>3. CASE w.at = "ask"
  <2>1. Alike(w.copy) /\ w.copy.cred \in partner.accepts
    BY <1>3 DEF OnCourse
  <2> QED BY <1>1, <2>1, HeldReaches
<1>4. CASE w.at = "answer"
  <2>1. CASE w.kind = "delete"
    BY <1>4, <2>1 DEF OnCourse, OneReaches
  <2>2. CASE w.kind # "delete"
    <3>1. Alike(w.copy) /\ (w.copy.cred = None \/ w.copy.cred \in partner.accepts)
      BY <1>4, <2>2 DEF OnCourse
    <3> QED BY <1>1, <3>1, HeldReaches
  <2> QED BY <2>1, <2>2
<1>5. CASE w.at = "replace"
  <2>1. partner.knows = w.copy.server /\ Alike([w.copy EXCEPT !.cred = profile.cred])
    BY <1>5 DEF OnCourse
  <2>2. [w.copy EXCEPT !.cred = profile.cred].server = w.copy.server
    BY <1>1 DEF Profiles
  <2> QED BY <2>1, <2>2 DEF Alike, OneReaches, IsRegistered, PartnerReachesUs
<1>6. CASE w.at = "remove"
  BY <1>6 DEF OnCourse, OneReaches
<1> QED BY <1>1, <1>2, <1>3, <1>4, <1>5, <1>6 DEF Steps

\* A step of one operation, if it keeps its course, and ends it when something fails.
LEMMA CourseStep ==
  ASSUME CredentialsTypeOK, OneByOne, NEW o \in Ops, op[o].at # "idle",
         strained' = strained, faults' \in Nat,
         \A q \in Ops : q # o => op'[q] = op[q],
         faults = 0 /\ faults' = 0 /\ OnCourse(op[o]) =>
             OnCourse(op[o])' /\ (op'[o].at = "idle" => Agreed'),
         faults = 0 /\ faults' > 0 /\ OnCourse(op[o]) => op'[o].at = "idle" /\ OneReaches'
  PROVE  OneByOne'
<1> SUFFICES ASSUME ~strained
             PROVE  /\ \A q, r \in Running' : q = r
                    /\ faults' = 0 => \A q \in Ops : OnCourse(op[q])'
                    /\ faults' = 0 /\ Running' = {} => Agreed'
                    /\ faults' > 0 => Running' = {} /\ OneSideStillConnects'
  BY DEF OneByOne
<1>1. o \in Running /\ faults \in Nat
  BY DEF Running, CredentialsTypeOK
<1>2. faults = 0 /\ OnCourse(op[o])
  BY <1>1 DEF OneByOne
<1>3. \A q \in Ops : q # o => op[q].at = "idle" /\ op'[q].at = "idle"
  BY <1>1 DEF OneByOne, Running
<1>4. \A q, r \in Running' : q = r
  BY <1>3 DEF Running
<1>5. ASSUME faults' = 0, NEW q \in Ops PROVE OnCourse(op[q])'
  BY <1>2, <1>3, <1>5 DEF OnCourse
<1>6. ASSUME faults' = 0, Running' = {} PROVE Agreed'
  BY <1>2, <1>6 DEF Running
<1>7. ASSUME faults' > 0 PROVE Running' = {} /\ OneSideStillConnects'
  BY <1>2, <1>3, <1>7 DEF Running, OneSideStillConnects, OneReaches
<1> QED BY <1>4, <1>5, <1>6, <1>7

LEMMA BeginsOnCourse ==
  ASSUME CredentialsTypeOK, OneByOne, NEW o \in Ops,
         \/ \E kind \in PartnerKinds : PartnerSends(o, kind)
         \/ \E kind \in AdminKinds : AdminCalls(o, kind)
  PROVE  OneByOne'
<1>1. partner.accepts \subseteq partner'.accepts /\ partner'.knows = partner.knows
  BY DEF PartnerSends, AdminCalls, CredentialsTypeOK, PartnerType
<1>2. UNCHANGED <<profile, faults>>
  BY DEF PartnerSends, AdminCalls
<1>3. /\ strained' = (strained \/ Running # {} \/ faults > 0)
      /\ \A q \in Ops : q # o => op'[q] = op[q]
      /\ op'[o].at \in {"authenticate", "read"}
      /\ op'[o].at = "authenticate" => op'[o].kind \in PartnerKinds
      /\ op'[o].kind \in {"post", "put", "register"} => op'[o].given \in partner'.accepts
  <2>1. ASSUME NEW kind \in PartnerKinds, PartnerSends(o, kind), kind = "delete"
        PROVE  <1>3!:
    <3>1. Starts(o, kind, "authenticate", partner.knows, None)
      BY <2>1 DEF PartnerSends
    <3> QED BY <2>1, <3>1, StartsDoes
  <2>2. ASSUME NEW kind \in PartnerKinds, PartnerSends(o, kind), kind # "delete"
        PROVE  <1>3!:
    <3>1. Starts(o, kind, "authenticate", partner.knows, issued') /\ issued' \in partner'.accepts
      BY <2>2 DEF PartnerSends, CredentialsTypeOK, PartnerType
    <3> QED BY <2>2, <3>1, StartsDoes
  <2>3. ASSUME NEW kind \in AdminKinds, AdminCalls(o, kind), kind = "register"
        PROVE  <1>3!:
    <3>1. Starts(o, kind, "read", None, issued') /\ issued' \in partner'.accepts
      BY <2>3 DEF AdminCalls, CredentialsTypeOK, PartnerType
    <3> QED BY <3>1, StartsDoes
  <2>4. ASSUME NEW kind \in AdminKinds, AdminCalls(o, kind), kind # "register"
        PROVE  <1>3!:
    <3>1. Starts(o, kind, "read", None, None) /\ kind \notin {"post", "put", "register"}
      BY <2>4 DEF AdminCalls, AdminKinds
    <3> QED BY <3>1, StartsDoes
  <2> QED BY <2>1, <2>2, <2>3, <2>4
<1> SUFFICES ASSUME ~strained' PROVE OneByOne'
  BY DEF OneByOne
<1>4. ~strained /\ Running = {} /\ ~(faults > 0)
  BY <1>3
<1>5. faults = 0 /\ faults' = 0
  BY <1>2, <1>4 DEF CredentialsTypeOK
<1>6. Agreed'
  BY <1>1, <1>2, <1>4, <1>5 DEF OneByOne, Agreed, IsRegistered, PartnerReachesUs, WeReachPartner
<1>7. \A q \in Ops : q # o => op'[q].at = "idle"
  BY <1>3, <1>4 DEF Running
<1>8. OnCourse(op[o])'
  BY <1>3, <1>6 DEF OnCourse
<1>9. \A q \in Ops : OnCourse(op[q])'
  BY <1>7, <1>8 DEF OnCourse
<1>10. o \in Running' /\ \A q, r \in Running' : q = r
  BY <1>3, <1>7 DEF Running
<1> QED BY <1>5, <1>9, <1>10 DEF OneByOne

LEMMA ReachesAlike ==
  ASSUME OneReaches, UNCHANGED <<profile, partner>> PROVE OneReaches'
BY DEF OneReaches, IsRegistered, PartnerReachesUs, WeReachPartner

LEMMA AgreedAlike ==
  ASSUME Agreed, UNCHANGED <<profile, partner>> PROVE Agreed'
BY DEF Agreed, IsRegistered, PartnerReachesUs, WeReachPartner

LEMMA NotRegisteredAgreed == ~IsRegistered => Agreed /\ OneReaches
BY DEF Agreed, OneReaches

LEMMA ErasedNotRegistered ==
  ASSUME WritesProfile(Blank("erased")) PROVE ~IsRegistered'
BY DEF WritesProfile, Blank, IsRegistered

\* Where the failure of the step was none of the requests' (Agrees) and where it was (Reaches).
LEMMA EndsOnCourse ==
  ASSUME CredentialsTypeOK, TellsTheStored, NEW o \in Ops, EndsAlike(o), OnCourse(op[o])
  PROVE  /\ op[o].at # "idle" /\ OpEnds(o) /\ strained' = strained
         /\ faults' = faults => Agreed'
         /\ OneReaches'
<1>1. /\ op[o].at # "idle" /\ OpEnds(o) /\ strained' = strained
  BY DEF EndsAlike, NotAdmitted, ReadRefused, VersionsFail, AnswerLost, ProfileWriteFails,
         EraseFails, AskFails, Replace, WithdrawFails, RemovePartner, RemoveFails, Answer
<1>2. OneReaches /\ op[o] \in OpType /\ op[o].copy \in Profiles /\ faults \in Nat /\ profile \in Profiles
  BY <1>1, OnCourseConnects DEF CredentialsTypeOK, OpType
<1>3. Fault => faults' # faults
  BY <1>2 DEF Fault
<1>4. CASE NotAdmitted(o) \/ ReadRefused(o) \/ VersionsFail(o)
  <2>1. UNCHANGED <<profile, partner>> /\ op[o].at \in {"authenticate", "read", "versions"}
    BY <1>4 DEF NotAdmitted, ReadRefused, VersionsFail
  <2>2. Agreed
    BY <2>1 DEF OnCourse
  <2>3. Agreed'
    BY <2>1, <2>2, AgreedAlike
  <2>4. OneReaches'
    BY <1>2, <2>1, ReachesAlike
  <2> QED BY <1>1, <2>3, <2>4
<1>5. CASE AnswerLost(o)
  <2>1. UNCHANGED <<profile, partner>> /\ Fault
    BY <1>5 DEF AnswerLost
  <2>2. OneReaches'
    BY <1>2, <2>1, ReachesAlike
  <2> QED BY <1>1, <1>3, <2>1, <2>2
<1>6. CASE ProfileWriteFails(o)
  <2>1. UNCHANGED partner /\ Fault /\ op[o].at \in {"store", "replace"}
    BY <1>6 DEF ProfileWriteFails
  <2>2. CASE UNCHANGED profile
    <3>1. OneReaches'
      BY <1>2, <2>1, <2>2, ReachesAlike
    <3> QED BY <1>1, <1>3, <2>1, <3>1
  <2>3. CASE WritesProfile(op[o].copy)
    <3>1. op[o].copy.cred = None \/ op[o].copy.cred \in partner.accepts
      BY <2>1 DEF OnCourse
    <3>2. profile'.state = "deleted" \/ profile' = op[o].copy
      BY <2>3 DEF WritesProfile
    <3>3. OneReaches'
      BY <2>1, <3>1, <3>2 DEF OneReaches, IsRegistered, WeReachPartner
    <3> QED BY <1>1, <1>3, <2>1, <3>3
  <2> QED BY <1>6, <2>2, <2>3 DEF ProfileWriteFails
<1>7. CASE EraseFails(o)
  <2>1. UNCHANGED partner /\ Fault
    BY <1>7 DEF EraseFails
  <2>2. CASE UNCHANGED profile
    <3>1. OneReaches'
      BY <1>2, <2>1, <2>2, ReachesAlike
    <3> QED BY <1>1, <1>3, <2>1, <3>1
  <2>3. CASE WritesProfile(Blank("erased"))
    <3>1. OneReaches'
      BY <2>3, ErasedNotRegistered DEF OneReaches
    <3> QED BY <1>1, <1>3, <2>1, <3>1
  <2> QED BY <1>7, <2>2, <2>3 DEF EraseFails
<1>8. CASE AskFails(o)
  <2>1. UNCHANGED profile /\ op[o].at = "ask"
    BY <1>8 DEF AskFails
  <2>2. /\ Alike(op[o].copy) /\ op[o].copy.cred \in partner.accepts /\ op[o].copy.state = "set"
    BY <2>1 DEF OnCourse
  <2>3. CASE UNCHANGED <<partner, issued>> /\ Fault
    <3>1. OneReaches'
      BY <1>2, <2>1, <2>3, ReachesAlike
    <3> QED BY <1>1, <1>3, <2>3, <3>1
  <2>4. CASE ~Takes(o) /\ UNCHANGED <<partner, issued>>
    <3>1. profile.state = "deleted"
      BY <2>2, <2>4 DEF Takes, Alike
    <3>2. ~IsRegistered'
      BY <2>1, <3>1 DEF IsRegistered
    <3>3. Agreed' /\ OneReaches'
      BY <3>2 DEF Agreed, OneReaches
    <3> QED BY <1>1, <3>3
  <2>5. CASE Fault /\ partner' = [knows |-> op[o].copy.server, accepts |-> {issued'}]
    <3>1. OneReaches'
      BY <2>1, <2>2, <2>5 DEF OneReaches, IsRegistered, PartnerReachesUs, Alike
    <3> QED BY <1>1, <1>3, <2>5, <3>1
  <2> QED BY <1>8, <2>3, <2>4, <2>5 DEF AskFails
<1>9. CASE Replace(o)
  <2>1. UNCHANGED partner /\ WritesProfile(op[o].copy) /\ op[o].at = "replace"
    BY <1>9 DEF Replace
  <2>2. partner.knows = op[o].copy.server /\ op[o].copy.cred \in partner.accepts
    BY <2>1 DEF OnCourse
  <2>3. profile'.state = "deleted" \/ profile' = op[o].copy
    BY <2>1 DEF WritesProfile
  <2>4. Agreed'
    BY <2>1, <2>2, <2>3 DEF Agreed, IsRegistered, PartnerReachesUs, WeReachPartner
  <2>5. OneReaches'
    BY <2>4 DEF OneReaches, Agreed
  <2> QED BY <1>1, <2>4, <2>5
<1>10. CASE WithdrawFails(o)
  <2>1. UNCHANGED profile /\ op[o].at = "withdraw"
    BY <1>10 DEF WithdrawFails
  <2>2. CASE UNCHANGED partner
    <3>1. Agreed
      BY <2>1 DEF OnCourse
    <3>2. Agreed'
      BY <2>1, <2>2, <3>1, AgreedAlike
    <3>3. OneReaches'
      BY <3>2 DEF OneReaches, Agreed
    <3> QED BY <1>1, <3>2, <3>3
  <2>3. CASE Fault /\ partner' = [knows |-> None, accepts |-> {}]
    <3>1. OneReaches'
      BY <2>3 DEF OneReaches
    <3> QED BY <1>1, <1>3, <2>3, <3>1
  <2> QED BY <1>10, <2>2, <2>3 DEF WithdrawFails
<1>11. CASE RemovePartner(o)
  <2>1. ~IsRegistered'
    BY <1>11 DEF RemovePartner, Blank, IsRegistered
  <2>2. Agreed' /\ OneReaches'
    BY <2>1 DEF Agreed, OneReaches
  <2> QED BY <1>1, <2>2
<1>12. CASE RemoveFails(o)
  <2>1. UNCHANGED partner /\ op[o].at = "remove" /\ Fault
    BY <1>12 DEF RemoveFails
  <2>2. partner'.knows = None
    BY <2>1 DEF OnCourse
  <2>3. OneReaches'
    BY <2>2 DEF OneReaches
  <2> QED BY <1>1, <1>3, <2>1, <2>3
<1>13. CASE Answer(o)
  <2>1. UNCHANGED profile /\ op[o].at = "answer" /\ op[o].kind \in {"post", "put", "delete", "generate"}
    BY <1>13 DEF Answer, OnCourse
  <2>2. CASE op[o].kind \in {"delete", "generate"}
    <3>1. ~IsRegistered'
      BY <2>1, <2>2 DEF OnCourse, IsRegistered, Alike
    <3>2. Agreed' /\ OneReaches'
      BY <3>1 DEF Agreed, OneReaches
    <3> QED BY <1>1, <3>2
  <2>3. CASE op[o].kind \in {"post", "put"}
    <3>1. partner' = [knows |-> op[o].copy.server, accepts |-> {op[o].given}]
      BY <1>13, <2>3 DEF Answer
    <3>2. Alike(op[o].copy) /\ op[o].copy.cred = op[o].given
      BY <2>1, <2>3 DEF OnCourse
    <3>3. Agreed'
      BY <2>1, <3>1, <3>2 DEF Agreed, IsRegistered, PartnerReachesUs, WeReachPartner, Alike
    <3>4. OneReaches'
      BY <3>3 DEF OneReaches, Agreed
    <3> QED BY <1>1, <3>3, <3>4
  <2> QED BY <2>1, <2>2, <2>3
<1> QED BY <1>4, <1>5, <1>6, <1>7, <1>8, <1>9, <1>10, <1>11, <1>12, <1>13 DEF EndsAlike

LEMMA GoesOnCourse ==
  ASSUME CredentialsTypeOK, TellsTheStored, NEW o \in Ops, GoesOn(o), OnCourse(op[o])
  PROVE  /\ op[o].at # "idle" /\ UNCHANGED <<strained, faults>>
         /\ \A q \in Ops : q # o => op'[q] = op[q]
         /\ OnCourse(op[o])'
         /\ op'[o].at = "idle" => Agreed'
<1>1. op[o] \in OpType /\ op[o].copy \in Profiles /\ profile \in Profiles /\ partner \in PartnerType
  BY DEF CredentialsTypeOK, OpType
<1>2. op[o].at # "idle" /\ UNCHANGED <<strained, faults>>
  BY DEF GoesOn, PostAdmitted, PutAdmitted, DeleteAdmitted, ReadToGenerate, ReadToRegister,
         ReadToRenewOrLeave, Versions, Store, Ask, Erase, Withdraw
<1>3. \A q \in Ops : q # o => op'[q] = op[q]
  BY DEF GoesOn, PostAdmitted, PutAdmitted, DeleteAdmitted, ReadToGenerate, ReadToRegister,
         ReadToRenewOrLeave, Versions, Store, Ask, Erase, Withdraw, Adopts, Goes, OpEnds, CredentialsTypeOK
<1> SUFFICES OnCourse(op[o])' /\ (op'[o].at = "idle" => Agreed')
  BY <1>2, <1>3
<1>4. CASE PostAdmitted(o) \/ PutAdmitted(o) \/ ReadToRegister(o)
  <2>1. /\ UNCHANGED <<profile, partner>> /\ Adopts(o) /\ profile.state = "set"
        /\ op[o].at \in {"authenticate", "read"} /\ op[o].kind \in {"post", "put", "register"}
    BY <1>4 DEF PostAdmitted, PutAdmitted, ReadToRegister, Authentic
  <2>2. op'[o] = [op[o] EXCEPT !.at = "versions", !.copy = [profile EXCEPT !.cred = op[o].given]]
    BY <2>1, AdoptsAs DEF CredentialsTypeOK
  <2>3. /\ op'[o].at = "versions" /\ op'[o].kind = op[o].kind /\ op'[o].given = op[o].given
        /\ op'[o].copy.cred = op[o].given /\ op'[o].copy.state = "set"
    BY <1>1, <2>1, <2>2 DEF OpType, Profiles
  <2>4. Agreed /\ op[o].given \in partner.accepts
    BY <2>1 DEF OnCourse
  <2>5. Agreed'
    BY <2>1, <2>4, AgreedAlike
  <2> QED BY <2>1, <2>3, <2>4, <2>5 DEF OnCourse
<1>5. CASE DeleteAdmitted(o)
  <2>1. UNCHANGED <<profile, partner>> /\ op'[o].at = "erase" /\ op[o].at = "authenticate"
    BY <1>1, <1>5 DEF DeleteAdmitted, Goes, OpType, CredentialsTypeOK
  <2>2. Agreed'
    BY <2>1, AgreedAlike DEF OnCourse
  <2> QED BY <2>1, <2>2 DEF OnCourse
<1>6. CASE ReadToGenerate(o)
  <2>1. UNCHANGED <<profile, partner>> /\ op[o].at = "read" /\ op[o].kind = "generate"
    BY <1>6 DEF ReadToGenerate
  <2>2. op'[o] = [op[o] EXCEPT !.at = "store",
                               !.copy = [state |-> "set", server |-> minted + 1, cred |-> None]]
    BY <1>6, ReadToGenerateAs DEF CredentialsTypeOK
  <2>3. /\ op'[o].at = "store" /\ op'[o].kind = "generate"
        /\ op'[o].copy.cred = None /\ op'[o].copy.state = "set"
    BY <1>1, <2>1, <2>2 DEF OpType
  <2>4. Agreed'
    BY <2>1, AgreedAlike DEF OnCourse
  <2> QED BY <2>3, <2>4 DEF OnCourse
<1>7. CASE ReadToRenewOrLeave(o)
  <2>1. /\ UNCHANGED <<profile, partner>> /\ op[o].at = "read"
        /\ op[o].kind \in {"regenerate", "unregister"} /\ IsRegistered
    BY <1>7 DEF ReadToRenewOrLeave, IsRegistered
  <2>2. op'[o] = [op[o] EXCEPT !.at = IF op[o].kind = "regenerate" THEN "versions" ELSE "withdraw",
                               !.copy = profile]
    BY <1>7, ReadToRenewOrLeaveAs DEF CredentialsTypeOK
  <2>3. Agreed
    BY <2>1 DEF OnCourse
  <2>4. Agreed' /\ profile.cred \in partner'.accepts /\ profile.state = "set"
    BY <2>1, <2>3, AgreedAlike DEF Agreed, WeReachPartner, IsRegistered
  <2>5. CASE op[o].kind = "regenerate"
    <3>1. op'[o].at = "versions" /\ op'[o].kind = "regenerate" /\ op'[o].copy = profile
      BY <1>1, <2>2, <2>5 DEF OpType
    <3> QED BY <2>4, <3>1 DEF OnCourse
  <2>6. CASE op[o].kind = "unregister"
    <3>1. op'[o].at = "withdraw" /\ op'[o].kind = "unregister"
      BY <1>1, <2>2, <2>6 DEF OpType
    <3> QED BY <2>4, <3>1 DEF OnCourse
  <2> QED BY <2>1, <2>5, <2>6
<1>8. CASE Versions(o)
  <2>1. UNCHANGED <<profile, partner>> /\ op[o].at = "versions"
    BY <1>8 DEF Versions
  <2>2. op'[o] = [op[o] EXCEPT !.at = "store", !.copy = [op[o].copy EXCEPT !.server = minted + 1]]
    BY <1>8, VersionsAs DEF CredentialsTypeOK
  <2>3. /\ op'[o].at = "store" /\ op'[o].kind = op[o].kind /\ op'[o].given = op[o].given
        /\ op'[o].copy.cred = op[o].copy.cred /\ op'[o].copy.state = op[o].copy.state
    BY <1>1, <2>2 DEF OpType, Profiles
  <2>4. Agreed'
    BY <2>1, AgreedAlike DEF OnCourse
  <2> QED BY <2>1, <2>3, <2>4 DEF OnCourse
<1>9. CASE Store(o)
  <2>1. /\ WritesProfile(op[o].copy) /\ UNCHANGED partner /\ op[o].at = "store"
    BY <1>9 DEF Store
  <2>2. /\ op'[o].kind = op[o].kind /\ op'[o].given = op[o].given /\ op'[o].copy = op[o].copy
        /\ op'[o].at = IF op[o].kind \in {"register", "regenerate"} THEN "ask" ELSE "answer"
    BY <1>1, <1>9 DEF Store, Goes, OpType, CredentialsTypeOK
  <2>3. op[o].kind \in {"post", "put", "generate", "register", "regenerate"}
    BY <2>1 DEF OnCourse
  <2>4. profile'.state = "deleted" \/ profile' = op[o].copy
    BY <2>1 DEF WritesProfile
  <2>5. Alike(op[o].copy)'
    BY <2>2, <2>4 DEF Alike
  <2> QED BY <2>1, <2>2, <2>3, <2>5 DEF OnCourse
<1>10. CASE Ask(o)
  <2>1. /\ op[o].at = "ask" /\ UNCHANGED profile
        /\ partner' = [knows |-> op[o].copy.server, accepts |-> {issued + 1}]
    BY <1>10 DEF Ask
  <2>2. op'[o] = [op[o] EXCEPT !.at = "replace", !.copy = [op[o].copy EXCEPT !.cred = issued + 1]]
    BY <1>10, AskAs DEF CredentialsTypeOK
  <2>3. /\ op'[o].at = "replace" /\ op'[o].kind = op[o].kind
        /\ op'[o].copy = [op[o].copy EXCEPT !.cred = issued + 1]
    BY <1>1, <2>2 DEF OpType
  <2>4. /\ op'[o].copy.cred = issued + 1 /\ op'[o].copy.server = op[o].copy.server
        /\ op'[o].copy.state = op[o].copy.state
    BY <1>1, <2>3 DEF Profiles
  <2>5. /\ Alike(op[o].copy) /\ op[o].copy.state = "set" /\ op[o].kind \in {"register", "regenerate"}
    BY <2>1 DEF OnCourse
  <2>6. profile = op[o].copy => [op'[o].copy EXCEPT !.cred = profile.cred] = profile
    BY <1>1, <2>3 DEF Profiles
  <2>7. Alike([op[o].copy EXCEPT !.cred = profile.cred])'
    BY <2>1, <2>5, <2>6 DEF Alike
  <2> QED BY <2>1, <2>3, <2>4, <2>5, <2>7 DEF OnCourse
<1>11. CASE Erase(o)
  <2>1. ~IsRegistered'
    BY <1>11, ErasedNotRegistered DEF Erase
  <2>2. op[o].kind = "delete"
    BY <1>11 DEF Erase, TellsTheStored, AnnouncedWasStored
  <2>3. Agreed'
    BY <2>1 DEF Agreed
  <2>4. CASE OpEnds(o)
    <3>1. op'[o].at = "idle"
      BY <2>4 DEF OpEnds, Idle, CredentialsTypeOK
    <3> QED BY <2>3, <3>1 DEF OnCourse
  <2>5. CASE Goes(o, "answer")
    <3>1. op'[o].at = "answer" /\ op'[o].kind = "delete"
      BY <1>1, <2>2, <2>5 DEF Goes, OpType, CredentialsTypeOK
    <3> QED BY <2>1, <3>1 DEF OnCourse
  <2> QED BY <1>11, <2>4, <2>5 DEF Erase
<1>12. CASE Withdraw(o)
  <2>1. partner'.knows = None /\ op'[o].at = "remove"
    BY <1>1, <1>12 DEF Withdraw, Goes, OpType, CredentialsTypeOK
  <2> QED BY <2>1 DEF OnCourse
<1> QED BY <1>4, <1>5, <1>6, <1>7, <1>8, <1>9, <1>10, <1>11, <1>12 DEF GoesOn

LEMMA CrashOnCourse ==
  ASSUME CredentialsTypeOK, OneByOne, Crash PROVE OneByOne'
<1> SUFFICES ASSUME ~strained
             PROVE  Running' = {} /\ faults' > 0 /\ OneSideStillConnects'
  BY DEF Crash, OneByOne
<1>1. PICK o \in Ops : op[o].at # "idle"
  BY DEF Crash, Running
<1>2. o \in Running /\ faults \in Nat
  BY <1>1 DEF Running, CredentialsTypeOK
<1>3. OnCourse(op[o]) /\ op[o] \in OpType
  BY <1>2 DEF OneByOne, CredentialsTypeOK
<1>4. OneReaches'
  BY <1>1, <1>3, OnCourseConnects, ReachesAlike DEF Crash
<1>5. faults' > 0
  BY <1>2 DEF Crash, Fault
<1>6. Running' = {}
  BY DEF Crash, Running, Idle
<1> QED BY <1>4, <1>5, <1>6 DEF OneReaches, OneSideStillConnects

LEMMA CredentialsInitInv == CredentialsInit => CredentialsIInv
<1> SUFFICES ASSUME CredentialsInit PROVE CredentialsIInv
  OBVIOUS
<1>1. /\ op = [o \in Ops |-> Idle] /\ started = 0 /\ faults = 0 /\ strained = FALSE
      /\ stored = {profile.server}
  BY DEF CredentialsInit
<1>2. /\ profile \in Profiles /\ partner \in PartnerType /\ minted \in Nat /\ issued \in Nat
      /\ partner.knows \in {profile.server, None}
      /\ Agreed
  <2>1. CASE /\ profile = Blank("unset")
             /\ partner = [knows |-> None, accepts |-> {}]
             /\ minted = 0 /\ issued = 0
    <3>1. ~IsRegistered
      BY <2>1 DEF Blank, IsRegistered
    <3> QED BY <2>1, <3>1, BlankType, NoneType DEF Agreed
  <2>2. CASE /\ profile = [state |-> "set", server |-> 1, cred |-> 1]
             /\ partner = [knows |-> 1, accepts |-> {1}]
             /\ minted = 1 /\ issued = 1
    BY <2>2 DEF Profiles, PartnerType, Agreed, PartnerReachesUs, WeReachPartner, IsRegistered
  <2> QED BY <2>1, <2>2 DEF CredentialsInit
<1>3. \A o \in Ops : op[o].at = "idle"
  BY <1>1 DEF Idle
<1>4. profile.server \in Nat
  BY <1>2 DEF Profiles
<1>5. CredentialsTypeOK
  BY <1>1, <1>2, <1>4, IdleType DEF CredentialsTypeOK
<1>6. AnnouncedWasStored /\ ToldWasStored
  BY <1>1, <1>2, <1>3 DEF AnnouncedWasStored, ToldWasStored, Announces
<1>7. OneByOne
  BY <1>1, <1>2, <1>3 DEF OneByOne, Running, OnCourse
<1> QED BY <1>5, <1>6, <1>7 DEF CredentialsIInv

LEMMA CredentialsNextInv ==
  CredentialsIInv /\ [CredentialsNext]_credentialsVars => CredentialsIInv'
<1> SUFFICES ASSUME CredentialsIInv, [CredentialsNext]_credentialsVars PROVE CredentialsIInv'
  OBVIOUS
<1>1. CredentialsTypeOK /\ TellsTheStored /\ OneByOne /\ CredentialsTypeOK'
  BY CredentialsTypeNext DEF CredentialsIInv, TellsTheStored
<1> SUFFICES TellsTheStored' /\ OneByOne'
  BY <1>1 DEF CredentialsIInv, TellsTheStored
<1>2. CASE UNCHANGED credentialsVars
  <2>1. TellsTheStored'
    BY <1>1, <1>2 DEF credentialsVars, TellsTheStored, AnnouncedWasStored, ToldWasStored, Announces
  <2>2. OneByOne'
    BY <1>1, <1>2 DEF credentialsVars, OneByOne, OnCourse, Agreed, Alike, Running, OneSideStillConnects,
              IsRegistered, PartnerReachesUs, WeReachPartner
  <2> QED BY <2>1, <2>2
<1>3. CASE Crash
  <2>1. TellsTheStored'
    BY <1>1, <1>3 DEF Crash, Idle, TellsTheStored, AnnouncedWasStored, ToldWasStored, Announces
  <2> QED BY <1>1, <1>3, <2>1, CrashOnCourse
<1>4. ASSUME NEW o \in Ops, \/ \E kind \in PartnerKinds : PartnerSends(o, kind)
                            \/ \E kind \in AdminKinds : AdminCalls(o, kind)
      PROVE  TellsTheStored' /\ OneByOne'
  <2>1. /\ UNCHANGED <<profile, stored>> /\ partner'.knows = partner.knows
        /\ \A q \in Ops : q # o => op'[q] = op[q]
        /\ op'[o].at \in {"authenticate", "read"}
    <3>1. UNCHANGED <<profile, stored>> /\ partner'.knows = partner.knows
      BY <1>1, <1>4 DEF PartnerSends, AdminCalls, CredentialsTypeOK, PartnerType
    <3>2. \E kind, with, given : \E p \in {"authenticate", "read"} : Starts(o, kind, p, with, given)
      BY <1>4 DEF PartnerSends, AdminCalls
    <3> QED BY <1>1, <3>1, <3>2, StartsDoes
  <2>2. TellsTheStored'
    BY <1>1, <2>1, ToldStep DEF Announces
  <2> QED BY <1>1, <1>4, <2>2, BeginsOnCourse
<1>5. ASSUME NEW o \in Ops, EndsAlike(o) PROVE TellsTheStored' /\ OneByOne'
  <2>1. OnCourse(op[o]) =>
          /\ op[o].at # "idle" /\ OpEnds(o) /\ strained' = strained
          /\ faults' = faults => Agreed'
          /\ OneReaches'
    BY <1>1, <1>5, EndsOnCourse
  <2>2. op[o].at # "idle" /\ OpEnds(o) /\ strained' = strained
    BY <1>5 DEF EndsAlike, NotAdmitted, ReadRefused, VersionsFail, AnswerLost, ProfileWriteFails,
         EraseFails, AskFails, Replace, WithdrawFails, RemovePartner, RemoveFails, Answer
  <2>3. op'[o].at = "idle" /\ \A q \in Ops : q # o => op'[q] = op[q]
    BY <1>1, <2>2 DEF OpEnds, Idle, CredentialsTypeOK
  <2>4. OnCourse(op[o])'
    BY <2>3 DEF OnCourse
  <2>5. OneByOne'
    BY <1>1, <2>1, <2>2, <2>3, <2>4, CourseStep DEF CredentialsTypeOK
  <2> QED BY <1>1, <1>5, <2>5, EndsTold
<1>6. ASSUME NEW o \in Ops, GoesOn(o) PROVE TellsTheStored' /\ OneByOne'
  <2>1. OnCourse(op[o]) =>
          OnCourse(op[o])' /\ (op'[o].at = "idle" => Agreed')
    BY <1>1, <1>6, GoesOnCourse
  <2>2. op[o].at # "idle" /\ UNCHANGED <<strained, faults>>
    BY <1>6 DEF GoesOn, PostAdmitted, PutAdmitted, DeleteAdmitted, ReadToGenerate, ReadToRegister,
         ReadToRenewOrLeave, Versions, Store, Ask, Erase, Withdraw
  <2>3. \A q \in Ops : q # o => op'[q] = op[q]
    BY <1>1, <1>6 DEF GoesOn, PostAdmitted, PutAdmitted, DeleteAdmitted, ReadToGenerate, ReadToRegister,
         ReadToRenewOrLeave, Versions, Store, Ask, Erase, Withdraw, Adopts, Goes, OpEnds, CredentialsTypeOK
  <2>4. OneByOne'
    BY <1>1, <2>1, <2>2, <2>3, CourseStep DEF CredentialsTypeOK
  <2> QED BY <1>1, <1>6, <2>4, GoesOnTold
<1> QED BY <1>2, <1>3, <1>4, <1>5, <1>6 DEF CredentialsNext, Step, EndsAlike, GoesOn

LEMMA CredentialsKeep == CredentialsIInv => ConnectionSurvives
<1> SUFFICES ASSUME CredentialsIInv PROVE AgreeWhenDone /\ OneSideStillConnects
  BY DEF CredentialsIInv, ConnectionSurvives
<1>1. faults \in Nat /\ OneByOne
  BY DEF CredentialsIInv, CredentialsTypeOK
<1>2. AgreeWhenDone
  BY <1>1 DEF OneByOne, AgreeWhenDone, Agreed
<1>3. OneSideStillConnects
  BY <1>1 DEF OneByOne, OneSideStillConnects, Agreed
<1> QED BY <1>2, <1>3

\* Operations that do not overlap leave both sides with each other's newest token, after one
\* failure one side is still able to renew them, and the partner is told of no token that was
\* not stored, however many operations and faults there are.
THEOREM CredentialsSurvive == CredentialsSpec => [](CredentialsIInv /\ ConnectionSurvives)
BY CredentialsInitInv, CredentialsNextInv, CredentialsKeep, PTL DEF CredentialsSpec

-----------------------------------------------------------------------------
(* Whose rows a request touches *)

IsOf(r, p, q) == r.partner = p /\ r.party = q

LEMMA KeyOf ==
  ASSUME NEW p \in Partners, NEW q \in Partners \cup Roaming
  PROVE  /\ <<p, q>> \in Keys <=> (q = p \/ q \in Behind[p])
         /\ <<p, q>>[1] = p /\ <<p, q>>[2] = q
BY DEF Keys

LEMMA KeysArePairs ==
  ASSUME NEW k \in Keys
  PROVE  k[1] \in Partners /\ k[2] \in Partners \cup Roaming /\ k = <<k[1], k[2]>>
BY DEF Keys

LEMMA Represented ==
  ASSUME NEW p \in Partners, NEW q
  PROVE  /\ Represents(p, q) <=> (q = p \/ q \in Behind[p])
         /\ RoamingOf(p, q) # {} <=> q \in Behind[p]
         /\ q \in Behind[p] => q \in Roaming /\ q # p
<1>1. /\ Represents(p, q) <=> (q = p \/ q \in Behind[p])
      /\ RoamingOf(p, q) # {} <=> q \in Behind[p]
  BY DEF Represents, RoamingOf
<1>2. q \in Behind[p] => q \in Roaming
  BY DEF Roaming
<1>3. q \in Roaming => q # p
  BY PartyAssumption
<1> QED BY <1>1, <1>2, <1>3

LEMMA RepresentedHasKey ==
  ASSUME NEW p \in Partners, NEW q, Represents(p, q)
  PROVE  q \in Partners \cup Roaming /\ <<p, q>> \in Keys
<1>1. q \in Partners \cup Roaming /\ (q = p \/ q \in Behind[p])
  BY Represented
<1> QED BY <1>1, KeyOf

LEMMA PartyInitInv == PartyInit => PartyIInv
BY DEF PartyInit, PartyIInv, PartyTypeOK, OneRowPerParty, KeptIsThere, TokensAreThePartners

\* An answer changes no row.
LEMMA PartyAnswerStep ==
  ASSUME PartyIInv, NEW p \in Partners, NEW q, NEW ofParty, ofParty \subseteq partyRows, AnswersWith(p, q, ofParty)
  PROVE  PartyIInv'
<1>1. shown' = Told(p, q, ofParty) /\ UNCHANGED <<resource, partyRows, kept, astray>>
  BY DEF AnswersWith
<1>2. shown'.partner = p /\ shown'.rows = ofParty /\ ofParty \subseteq PartyRow
  BY <1>1 DEF Told, PartyIInv, PartyTypeOK
<1> QED BY <1>1, <1>2 DEF PartyIInv, PartyTypeOK, OneRowPerParty, KeptIsThere, TokensAreThePartners

LEMMA PartyRefusal ==
  ASSUME PartyIInv, NEW p \in Partners, NEW q, Refuses(p, q)
  PROVE  PartyIInv'
BY PartyAnswerStep DEF Refuses

\* What is stored replaces exactly the rows of the party.
LEMMA PartyStoreStep ==
  ASSUME PartyIInv, NEW p \in Partners, NEW q, <<p, q>> \in Keys, NEW says \in Contents, NEW ofParty,
         \A r \in partyRows : r \in ofParty <=> IsOf(r, p, q),
         resource = "tokens" => q = p,
         Stores(p, q, ofParty, says)
  PROVE  PartyIInv'
<1> DEFINE new == [partner |-> p, party |-> q, says |-> says]
           k == <<p, q>>
<1>1. /\ partyRows' = (partyRows \ ofParty) \cup {new}
      /\ kept' = [kept EXCEPT ![k] = says] /\ shown' = Told(p, q, {})
      /\ UNCHANGED <<resource, astray>>
  BY DEF Stores
<1>2. q \in Partners \cup Roaming
  BY DEF Keys
<1>3. new \in PartyRow /\ new.partner = p /\ new.party = q /\ new.says = says
  BY <1>2 DEF PartyRow
<1>4. /\ kept'[k] = says /\ \A j \in Keys : j # k => kept'[j] = kept[j]
      /\ kept' \in [Keys -> Contents \cup {0}] /\ says # 0
  BY <1>1 DEF PartyIInv, PartyTypeOK, Contents
<1>5. \A r \in partyRows : /\ r \in PartyRow /\ <<r.partner, r.party>> \in Keys
                           /\ r \notin ofParty <=> <<r.partner, r.party>> # k
  BY DEF PartyIInv, PartyTypeOK, IsOf
<1> HIDE DEF new, k
<1>6. PartyTypeOK'
  <2>1. shown'.partner = p /\ shown'.rows = {}
    BY <1>1 DEF Told
  <2>2. partyRows' \subseteq PartyRow /\ \A r \in partyRows' : <<r.partner, r.party>> \in Keys
    BY <1>1, <1>3, <1>5
  <2> QED BY <1>1, <1>4, <2>1, <2>2 DEF PartyIInv, PartyTypeOK
<1>7. <<new.partner, new.party>> = k
  BY <1>3 DEF k
<1>8. OneRowPerParty'
  <2>1. \A r, s \in partyRows' : r.partner = s.partner /\ r.party = s.party => r = s
    BY <1>1, <1>5, <1>7 DEF PartyIInv, OneRowPerParty
  <2>2. ~astray => \A r \in partyRows' : kept'[<<r.partner, r.party>>] = r.says
    BY <1>1, <1>3, <1>4, <1>5, <1>7 DEF PartyIInv, OneRowPerParty
  <2> QED BY <1>1, <2>1, <2>2 DEF OneRowPerParty
<1>9. KeptIsThere'
  <2> SUFFICES ASSUME ~astray, NEW j \in Keys, kept'[j] # 0
               PROVE  \E r \in partyRows' : r.partner = j[1] /\ r.party = j[2] /\ r.says = kept'[j]
    BY <1>1 DEF KeptIsThere
  <2>1. CASE j = k
    <3>1. j[1] = p /\ j[2] = q
      BY <2>1 DEF k
    <3> QED BY <1>1, <1>3, <1>4, <2>1, <3>1
  <2>2. CASE j # k
    <3>1. PICK r \in partyRows : r.partner = j[1] /\ r.party = j[2] /\ r.says = kept[j]
      BY <1>4, <2>2 DEF PartyIInv, KeptIsThere
    <3>2. <<r.partner, r.party>> = j
      BY <3>1, KeysArePairs
    <3> QED BY <1>1, <1>4, <1>5, <2>2, <3>1, <3>2
  <2> QED BY <2>1, <2>2
<1>10. TokensAreThePartners'
  BY <1>1, <1>3 DEF PartyIInv, TokensAreThePartners
<1> QED BY <1>6, <1>8, <1>9, <1>10 DEF PartyIInv

\* One row says something else; of a party that is not the partner's it is another's.
LEMMA PatchSessionStep ==
  ASSUME PartyIInv, NEW p \in Partners, NEW q, NEW says \in Contents, resource = "sessions",
         PatchSession(p, q, says)
  PROVE  PartyIInv'
<1>1. CASE SessionFound(p, q) = {}
  BY <1>1, PartyRefusal DEF PatchSession
<1>2. CASE SessionFound(p, q) # {}
  <2>1. PICK r \in SessionFound(p, q) :
            /\ partyRows' = (partyRows \ {r}) \cup {[r EXCEPT !.says = says]}
            /\ astray' = (astray \/ ~Represents(p, q))
            /\ kept' = IF Represents(p, q) THEN [kept EXCEPT ![<<p, q>>] = says] ELSE kept
            /\ shown' = Told(p, q, {}) /\ UNCHANGED resource
    BY <1>2 DEF PatchSession
  <2> DEFINE new == [r EXCEPT !.says = says]
  <2>2. /\ r \in partyRows /\ r \in PartyRow /\ r.partner = p
        /\ Represents(p, q) => r.party = q
    BY Represented DEF SessionFound, RoamingSession, DirectSession, RowsOf, PartyIInv, PartyTypeOK
  <2>3. new \in PartyRow /\ new.partner = p /\ new.party = r.party /\ new.says = says
    BY <2>2 DEF PartyRow
  <2>4. partyRows' = (partyRows \ {r}) \cup {new}
    BY <2>1
  <2> HIDE DEF new
  <2>5. \A s \in partyRows : s # r => s.partner # p \/ s.party # r.party
    BY <2>2 DEF PartyIInv, OneRowPerParty
  <2>6. PartyTypeOK'
    <3>1. shown'.partner = p /\ shown'.rows = {}
      BY <2>1 DEF Told
    <3>2. partyRows' \subseteq PartyRow /\ \A s \in partyRows' : <<s.partner, s.party>> \in Keys
      BY <2>2, <2>3, <2>4 DEF PartyIInv, PartyTypeOK
    <3>3. kept' \in [Keys -> Contents \cup {0}]
      BY <2>1 DEF PartyIInv, PartyTypeOK
    <3>4. astray' \in BOOLEAN
      BY <2>1
    <3> QED BY <2>1, <3>1, <3>2, <3>3, <3>4 DEF PartyIInv, PartyTypeOK
  <2>7. \A s, t \in partyRows' : s.partner = t.partner /\ s.party = t.party => s = t
    BY <2>3, <2>4, <2>5 DEF PartyIInv, OneRowPerParty
  <2>8. ASSUME ~astray' PROVE /\ \A s \in partyRows' : kept'[<<s.partner, s.party>>] = s.says
                              /\ KeptIsThere'
    <3>1. Represents(p, q) /\ ~astray /\ r.party = q
      BY <2>1, <2>2, <2>8
    <3> DEFINE k == <<p, q>>
    <3>2. k \in Keys /\ k[1] = p /\ k[2] = q
      BY <3>1, RepresentedHasKey
    <3>3. /\ kept'[k] = says /\ \A j \in Keys : j # k => kept'[j] = kept[j]
      BY <2>1, <3>1, <3>2 DEF PartyIInv, PartyTypeOK
    <3>4. \A s \in partyRows : s # r => <<s.partner, s.party>> # k /\ <<s.partner, s.party>> \in Keys
      BY <2>5, <3>1 DEF PartyIInv, PartyTypeOK
    <3>5. <<new.partner, new.party>> = k
      BY <2>3, <3>1
    <3> HIDE DEF k
    <3>6. \A s \in partyRows' : kept'[<<s.partner, s.party>>] = s.says
      BY <2>3, <2>4, <3>1, <3>3, <3>4, <3>5 DEF PartyIInv, OneRowPerParty
    <3>7. ASSUME NEW j \in Keys, kept'[j] # 0
          PROVE  \E s \in partyRows' : s.partner = j[1] /\ s.party = j[2] /\ s.says = kept'[j]
      <4>1. CASE j = k
        BY <2>3, <2>4, <3>1, <3>2, <3>3, <4>1
      <4>2. CASE j # k
        <5>1. PICK s \in partyRows : s.partner = j[1] /\ s.party = j[2] /\ s.says = kept[j]
          BY <3>1, <3>3, <3>7, <4>2 DEF PartyIInv, KeptIsThere
        <5>2. <<s.partner, s.party>> = j
          BY <5>1, KeysArePairs
        <5>3. s # r
          BY <2>2, <3>1, <4>2, <5>2 DEF k
        <5> QED BY <2>4, <3>3, <4>2, <5>1, <5>3
      <4> QED BY <4>1, <4>2
    <3> QED BY <3>6, <3>7 DEF KeptIsThere
  <2>9. OneRowPerParty' /\ KeptIsThere'
    BY <2>7, <2>8 DEF OneRowPerParty, KeptIsThere
  <2>10. TokensAreThePartners'
    BY <2>1 DEF TokensAreThePartners
  <2> QED BY <2>6, <2>9, <2>10 DEF PartyIInv
<1> QED BY <1>1, <1>2

LEMMA SessionRequestStep ==
  ASSUME PartyIInv, NEW p \in Partners, NEW from, NEW toUs, NEW q, SessionRequest(p, from, toUs, q)
  PROVE  PartyIInv'
<1>1. resource = "sessions"
  BY DEF SessionRequest
<1>2. SessionFound(p, q) \subseteq partyRows
  BY DEF SessionFound, RoamingSession, DirectSession, RowsOf
<1>3. CASE GetSession(p, q)
  BY <1>2, <1>3, PartyAnswerStep DEF GetSession
<1>4. ASSUME NEW says \in Contents, PutSession(p, q, says) PROVE PartyIInv'
  <2>1. CASE Represents(p, q)
    <3>1. Stores(p, q, SessionFound(p, q), says) /\ <<p, q>> \in Keys
      BY <1>4, <2>1, RepresentedHasKey DEF PutSession
    <3>2. \A r \in partyRows : r \in SessionFound(p, q) <=> IsOf(r, p, q)
      BY <2>1, Represented DEF SessionFound, RoamingSession, DirectSession, RowsOf, IsOf
    <3> QED BY <1>1, <3>1, <3>2, PartyStoreStep
  <2>2. CASE ~Represents(p, q)
    BY <1>4, <2>2, PartyRefusal DEF PutSession
  <2> QED BY <2>1, <2>2
<1> QED BY <1>1, <1>3, <1>4, PatchSessionStep, PartyRefusal DEF SessionRequest

LEMMA RemoveTariffStep ==
  ASSUME PartyIInv, NEW p \in Partners, NEW q, resource = "tariffs", RemoveTariff(p, q)
  PROVE  PartyIInv'
<1> DEFINE gone == IF RoamingOf(p, q) # {} THEN RoamingTariffToDelete(p, q) ELSE DirectTariffToDelete(p)
<1>1. gone \subseteq partyRows
  BY DEF RoamingTariffToDelete, DirectTariffToDelete, RowsOf
<1>2. CASE gone = {}
  BY <1>2, PartyRefusal DEF RemoveTariff
<1>3. CASE gone # {}
  <2>1. /\ partyRows' = partyRows \ gone
        /\ kept' = [k \in Keys |-> IF \E r \in gone : k = <<r.partner, r.party>> THEN 0 ELSE kept[k]]
        /\ shown' = Told(p, q, {}) /\ UNCHANGED <<resource, astray>>
    BY <1>3 DEF RemoveTariff
  <2> HIDE DEF gone
  <2>2. shown'.partner = p /\ shown'.rows = {}
    BY <2>1 DEF Told
  <2>3. PartyTypeOK'
    BY <2>1, <2>2 DEF PartyIInv, PartyTypeOK
  <2>4. \A r \in partyRows' : /\ r \in partyRows /\ <<r.partner, r.party>> \in Keys
                              /\ \A s \in gone : <<r.partner, r.party>> # <<s.partner, s.party>>
    BY <1>1, <2>1 DEF PartyIInv, PartyTypeOK, OneRowPerParty
  <2>5. \A r \in partyRows' : kept'[<<r.partner, r.party>>] = kept[<<r.partner, r.party>>]
    BY <2>1, <2>4
  <2>6. OneRowPerParty'
    BY <2>1, <2>4, <2>5 DEF PartyIInv, OneRowPerParty
  <2>7. KeptIsThere'
    <3> SUFFICES ASSUME ~astray, NEW j \in Keys, kept'[j] # 0
                 PROVE  \E r \in partyRows' : r.partner = j[1] /\ r.party = j[2] /\ r.says = kept'[j]
      BY <2>1 DEF KeptIsThere
    <3>1. kept'[j] = kept[j] /\ \A r \in gone : j # <<r.partner, r.party>>
      BY <2>1
    <3>2. PICK r \in partyRows : r.partner = j[1] /\ r.party = j[2] /\ r.says = kept[j]
      BY <3>1 DEF PartyIInv, KeptIsThere
    <3>3. <<r.partner, r.party>> = j
      BY <3>2, KeysArePairs
    <3> QED BY <2>1, <3>1, <3>2, <3>3
  <2>8. TokensAreThePartners'
    BY <2>1 DEF TokensAreThePartners
  <2> QED BY <2>3, <2>6, <2>7, <2>8 DEF PartyIInv
<1> QED BY <1>2, <1>3

LEMMA TariffRequestStep ==
  ASSUME PartyIInv, NEW p \in Partners, NEW from, NEW toUs, NEW q, TariffRequest(p, from, toUs, q)
  PROVE  PartyIInv'
<1>1. resource = "tariffs"
  BY DEF TariffRequest
<1>2. TariffFound(p, q) \subseteq partyRows
  BY DEF TariffFound, RoamingTariff, DirectTariffToGet, RowsOf
<1>3. CASE GetTariff(p, q)
  <2>1. CASE \E r \in TariffFound(p, q) : AnswersWith(p, q, {r})
    BY <1>2, <2>1, PartyAnswerStep
  <2>2. CASE Refuses(p, q)
    BY <2>2, PartyRefusal
  <2> QED BY <1>3, <2>1, <2>2 DEF GetTariff
<1>4. ASSUME NEW says \in Contents, PutTariff(p, q, says) PROVE PartyIInv'
  <2> DEFINE ofParty == IF RoamingOf(p, q) # {} THEN RoamingTariff(p, q) ELSE DirectTariffToPut(p)
  <2>1. CASE Represents(p, q)
    <3>1. Stores(p, q, ofParty, says) /\ <<p, q>> \in Keys
      BY <1>4, <2>1, RepresentedHasKey DEF PutTariff
    <3>2. \A r \in partyRows : r \in ofParty <=> IsOf(r, p, q)
      BY <2>1, Represented DEF RoamingTariff, DirectTariffToPut, RowsOf, IsOf
    <3> HIDE DEF ofParty
    <3> QED BY <1>1, <3>1, <3>2, PartyStoreStep
  <2>2. CASE ~Represents(p, q)
    BY <1>4, <2>2, PartyRefusal DEF PutTariff
  <2> QED BY <2>1, <2>2
<1> QED BY <1>1, <1>3, <1>4, RemoveTariffStep, PartyRefusal DEF TariffRequest

LEMMA PostCdrStep ==
  ASSUME PartyIInv, NEW p \in Partners, NEW from, NEW toUs, NEW q, NEW says \in Contents,
         PostCdr(p, from, toUs, q, says)
  PROVE  PartyIInv'
<1> DEFINE found == IF RoamingOf(p, q) # {} THEN RoamingCdr(p, q) ELSE DirectCdr(p)
<1>1. resource = "cdrs"
  BY DEF PostCdr
<1>2. CASE Represents(p, q) /\ found = {} /\ Stores(p, q, {}, says)
  <2>1. \A r \in partyRows : ~IsOf(r, p, q)
    BY <1>2, Represented DEF RoamingCdr, DirectCdr, RowsOf, IsOf
  <2>2. <<p, q>> \in Keys
    BY <1>2, RepresentedHasKey
  <2> QED BY <1>1, <1>2, <2>1, <2>2, PartyStoreStep
<1> QED BY <1>2, PartyRefusal DEF PostCdr

LEMMA TokenRequestStep ==
  ASSUME PartyIInv, NEW p \in Partners, NEW from, NEW toUs, NEW q, TokenRequest(p, from, toUs, q)
  PROVE  PartyIInv'
<1>1. resource = "tokens" /\ <<p, p>> \in Keys
  BY KeyOf DEF TokenRequest
<1>2. \A r \in partyRows : r \in TokenOfPartner(p) <=> IsOf(r, p, p)
  BY <1>1 DEF TokenOfPartner, RowsOf, IsOf, PartyIInv, TokensAreThePartners
<1>3. ASSUME NEW says \in Contents, Stores(p, p, TokenOfPartner(p), says) PROVE PartyIInv'
  BY <1>1, <1>2, <1>3, PartyStoreStep
<1>4. CASE GetToken(p, q)
  BY <1>4, PartyAnswerStep DEF GetToken
<1>5. ASSUME NEW says \in Contents, PutToken(p, says) \/ PatchToken(p, from, q, says) PROVE PartyIInv'
  BY <1>3, <1>5, PartyRefusal DEF PutToken, PatchToken
<1> QED BY <1>4, <1>5, PartyRefusal DEF TokenRequest

LEMMA PartyNextInv == PartyIInv /\ [PartyNext]_partyVars => PartyIInv'
<1> SUFFICES ASSUME PartyIInv, [PartyNext]_partyVars PROVE PartyIInv'
  OBVIOUS
<1>1. CASE UNCHANGED partyVars
  BY <1>1 DEF partyVars, PartyIInv, PartyTypeOK, OneRowPerParty, KeptIsThere, TokensAreThePartners
<1>2. ASSUME NEW p \in Partners, NEW from, NEW toUs, NEW r \in partyRows, GetCdr(p, from, toUs, r) PROVE PartyIInv'
  BY <1>2, PartyAnswerStep, PartyRefusal DEF GetCdr
<1>3. ASSUME NEW p \in Partners, NEW from, NEW toUs, TokenAuthorization(p, from, toUs) PROVE PartyIInv'
  <2>1. TokenOfPartner(p) \subseteq partyRows
    BY DEF TokenOfPartner, RowsOf
  <2> QED BY <1>3, <2>1, PartyAnswerStep, PartyRefusal DEF TokenAuthorization, AuthorizeToken
<1> QED BY <1>1, <1>2, <1>3, SessionRequestStep, TariffRequestStep, PostCdrStep, TokenRequestStep DEF PartyNext

\* Each interface finds a party's row again by the key it is asked with.
LEMMA PartyKeeps == PartyIInv => RowsAreKept
<1> SUFFICES ASSUME PartyIInv, ~astray, NEW k \in Keys, kept[k] # 0
             PROVE  \E r \in FoundBack(k[1], k[2]) : r.party = k[2] /\ r.says = kept[k]
  BY DEF RowsAreKept
<1>1. PICK p \in Partners : p = k[1]
  BY KeysArePairs
<1>2. PICK q \in Partners \cup Roaming : q = k[2]
  BY KeysArePairs
<1>3. PICK r \in partyRows : r.partner = p /\ r.party = q /\ r.says = kept[k]
  BY <1>1, <1>2 DEF PartyIInv, KeptIsThere
<1>4. q = p \/ q \in Behind[p]
  BY <1>1, <1>2 DEF Keys
<1>5. r \in SessionFound(p, q) /\ r \in TariffFound(p, q) /\ r \in TokenOfPartner(p)
  BY <1>3, <1>4, Represented DEF SessionFound, RoamingSession, DirectSession, TariffFound, RoamingTariff,
     DirectTariffToGet, TokenOfPartner, RowsOf
<1>6. CdrFound(p, q, r)
  <2>1. q # NoHeaders
    BY PartyAssumption DEF NoHeaders
  <2> QED BY <1>3, <1>4, <2>1, Represented DEF CdrFound, RoamingCdrShown, DirectCdrShown
<1>7. resource \in Resources
  BY DEF PartyIInv, PartyTypeOK
<1>8. r \in FoundBack(p, q)
  BY <1>5, <1>6, <1>7 DEF FoundBack, Resources
<1> QED BY <1>1, <1>2, <1>3, <1>8

\* A party has one row, of what it was told is stored, and finds it again under its key, for any
\* partners, parties behind them and requests, unless a PATCH went astray.
THEOREM PartiesKeepTheirRows == PartySpec => [](PartyIInv /\ RowsAreKept)
BY PartyInitInv, PartyNextInv, PartyKeeps, PTL DEF PartySpec

-----------------------------------------------------------------------------
(* Pulls of lists *)

LEMMA InsertedList ==
  ASSUME NEW S, NEW s \in Seq(S), NEW i \in 1..Len(s) + 1, NEW e \in S
  PROVE  /\ InsertAt(s, i, e) \in Seq(S)
         /\ Len(InsertAt(s, i, e)) = Len(s) + 1
         /\ \A j \in 1..Len(s) + 1 :
              InsertAt(s, i, e)[j] = IF j < i THEN s[j] ELSE IF j = i THEN e ELSE s[j - 1]
<1> DEFINE before == SubSeq(s, 1, i - 1)
           after == SubSeq(s, i, Len(s))
<1>1. /\ before \in Seq(S) /\ Len(before) = i - 1
      /\ \A j \in 1..i - 1 : before[j] = s[j]
  BY SubSeqProperties
<1>2. /\ after \in Seq(S) /\ Len(after) = Len(s) - i + 1
      /\ \A j \in 1..Len(s) - i + 1 : after[j] = s[i + j - 1]
  BY SubSeqProperties
<1>3. InsertAt(s, i, e) = (before \o <<e>>) \o after
  BY DEF InsertAt
<1> HIDE DEF before, after
<1>4. /\ before \o <<e>> \in Seq(S) /\ Len(before \o <<e>>) = i
      /\ \A j \in 1..i : (before \o <<e>>)[j] = IF j < i THEN s[j] ELSE e
  BY <1>1, ConcatProperties
<1> DEFINE upTo == before \o <<e>>
<1>5. /\ upTo \in Seq(S) /\ Len(upTo) = i
      /\ \A j \in 1..i : upTo[j] = IF j < i THEN s[j] ELSE e
  BY <1>4
<1>6. InsertAt(s, i, e) = upTo \o after
  BY <1>3
<1> HIDE DEF upTo
<1>7. /\ upTo \o after \in Seq(S)
      /\ Len(upTo \o after) = Len(upTo) + Len(after)
      /\ \A j \in 1..Len(upTo) + Len(after) : (upTo \o after)[j] =
           IF j <= Len(upTo) THEN upTo[j] ELSE after[j - Len(upTo)]
  BY <1>2, <1>5, ConcatProperties
<1>8. Len(upTo) + Len(after) = Len(s) + 1
  BY <1>2, <1>5
<1>9. \A j \in 1..Len(s) + 1 :
        (upTo \o after)[j] = IF j < i THEN s[j] ELSE IF j = i THEN e ELSE s[j - 1]
  BY <1>2, <1>5, <1>7, <1>8
<1> QED BY <1>6, <1>7, <1>8, <1>9

LEMMA RemovedList ==
  ASSUME NEW S, NEW s \in Seq(S), NEW i \in 1..Len(s)
  PROVE  /\ RemoveAt(s, i) \in Seq(S)
         /\ Len(RemoveAt(s, i)) = Len(s) - 1
         /\ \A j \in 1..Len(s) - 1 : RemoveAt(s, i)[j] = IF j < i THEN s[j] ELSE s[j + 1]
<1> DEFINE before == SubSeq(s, 1, i - 1)
           after == SubSeq(s, i + 1, Len(s))
<1>1. /\ before \in Seq(S) /\ Len(before) = i - 1
      /\ \A j \in 1..i - 1 : before[j] = s[j]
  BY SubSeqProperties
<1>2. /\ after \in Seq(S) /\ Len(after) = Len(s) - i
      /\ \A j \in 1..Len(s) - i : after[j] = s[i + j]
  BY SubSeqProperties
<1>3. RemoveAt(s, i) = before \o after
  BY DEF RemoveAt
<1> HIDE DEF before, after
<1>4. /\ before \o after \in Seq(S) /\ Len(before \o after) = Len(before) + Len(after)
      /\ \A j \in 1..Len(before) + Len(after) : (before \o after)[j] =
           IF j <= Len(before) THEN before[j] ELSE after[j - Len(before)]
  BY <1>1, <1>2, ConcatProperties
<1>5. Len(before) + Len(after) = Len(s) - 1
  BY <1>1, <1>2
<1>6. \A j \in 1..Len(s) - 1 : (before \o after)[j] = IF j < i THEN s[j] ELSE s[j + 1]
  BY <1>1, <1>2, <1>4, <1>5
<1> QED BY <1>3, <1>4, <1>5, <1>6

\* An insertion keeps the others in their order.
LEMMA InsertedInto ==
  ASSUME NEW S, NEW s \in Seq(S), NEW k \in 1..Len(s) + 1, NEW e \in S \ Range(s), IsInjective(s)
  PROVE  /\ InsertAt(s, k, e) \in Seq(S) /\ IsInjective(InsertAt(s, k, e))
         /\ Range(InsertAt(s, k, e)) = Range(s) \cup {e}
         /\ \A a, b \in DOMAIN s : a < b =>
              \E c, d \in DOMAIN InsertAt(s, k, e) :
                 c < d /\ InsertAt(s, k, e)[c] = s[a] /\ InsertAt(s, k, e)[d] = s[b]
<1> DEFINE t == InsertAt(s, k, e)
           from(j) == IF j < k THEN j ELSE j - 1
           to(j) == IF j < k THEN j ELSE j + 1
<1>0. e \in S /\ k \in 1..Len(s) + 1
  OBVIOUS
<1>1. /\ t \in Seq(S) /\ Len(t) = Len(s) + 1
      /\ \A j \in 1..Len(s) + 1 : t[j] = IF j < k THEN s[j] ELSE IF j = k THEN e ELSE s[j - 1]
  BY <1>0, InsertedList
<1> HIDE DEF t
<1>2. DOMAIN t = 1..Len(s) + 1 /\ DOMAIN s = 1..Len(s) /\ Len(s) \in Nat /\ k \in Nat
  BY <1>1
<1>3. /\ \A i, j \in 1..Len(s) : s[i] = s[j] => i = j
      /\ \A i \in 1..Len(s) : s[i] # e /\ s[i] \in Range(s)
  BY <1>2 DEF IsInjective, Range
<1>4. \A j \in DOMAIN t : j # k => from(j) \in 1..Len(s) /\ t[j] = s[from(j)]
  BY <1>1, <1>2
<1>5. \A j \in 1..Len(s) : to(j) \in DOMAIN t /\ t[to(j)] = s[j]
  BY <1>1, <1>2
<1>6. t[k] = e /\ k \in DOMAIN t
  BY <1>1, <1>2
<1>7. \A i, j \in DOMAIN t : i # k /\ j # k /\ from(i) = from(j) => i = j
  BY <1>2
<1>8. \A i, j \in 1..Len(s) : i < j => to(i) < to(j)
  BY <1>2
<1> HIDE DEF from, to
<1>9. IsInjective(t)
  <2> SUFFICES ASSUME NEW i \in DOMAIN t, NEW j \in DOMAIN t, t[i] = t[j] PROVE i = j
    BY DEF IsInjective
  <2>1. CASE i # k /\ j # k
    BY <1>3, <1>4, <1>7, <2>1
  <2>2. CASE i = k \/ j = k
    BY <1>3, <1>4, <1>6, <2>2
  <2> QED BY <2>1, <2>2
<1>10. Range(t) = Range(s) \cup {e}
  <2>1. \A j \in DOMAIN t : t[j] \in Range(s) \cup {e}
    BY <1>3, <1>4, <1>6
  <2>2. \A j \in 1..Len(s) : \E i \in DOMAIN t : t[i] = s[j]
    BY <1>5
  <2> QED BY <1>2, <1>6, <2>1, <2>2 DEF Range
<1>11. \A a, b \in DOMAIN s : a < b => \E c, d \in DOMAIN t : c < d /\ t[c] = s[a] /\ t[d] = s[b]
  BY <1>2, <1>5, <1>8
<1> QED BY <1>1, <1>9, <1>10, <1>11 DEF t

LEMMA RemovedFrom ==
  ASSUME NEW S, NEW s \in Seq(S), NEW k \in DOMAIN s, IsInjective(s)
  PROVE  /\ RemoveAt(s, k) \in Seq(S) /\ IsInjective(RemoveAt(s, k))
         /\ Range(RemoveAt(s, k)) \subseteq Range(s)
<1> DEFINE t == RemoveAt(s, k)
           at(n) == IF n < k THEN n ELSE n + 1
<1>1. /\ t \in Seq(S) /\ Len(t) = Len(s) - 1
      /\ \A j \in 1..Len(s) - 1 : t[j] = IF j < k THEN s[j] ELSE s[j + 1]
  BY RemovedList
<1> HIDE DEF t
<1>2. DOMAIN t = 1..Len(s) - 1 /\ DOMAIN s = 1..Len(s) /\ Len(s) \in Nat /\ k \in Nat
  BY <1>1
<1>3. \A j \in DOMAIN t : at(j) \in DOMAIN s /\ t[j] = s[at(j)]
  BY <1>1, <1>2
<1>4. \A i, j \in DOMAIN t : at(i) = at(j) => i = j
  BY <1>2
<1> HIDE DEF at
<1>5. IsInjective(t)
  BY <1>3, <1>4 DEF IsInjective
<1>6. Range(t) \subseteq Range(s)
  BY <1>3 DEF Range
<1> QED BY <1>1, <1>5, <1>6 DEF t

LEMMA NothingType == Nothing \in Storings /\ Nothing.stage = "idle" /\ Nothing.version = 0
BY PartnerPullAssumption DEF Nothing, Storings, Resolved

LEMMA NoPullType == NoPull \in Pullings
BY DEF NoPull, Pullings, PullOver

\* What the actions on a writer do to it.
LEMMA EndsStoringIs ==
  ASSUME PartnerPullTypeOK, NEW w \in Writers, NEW result \in Resolved, EndsStoring(w, result)
  PROVE  /\ writer' \in [Writers -> Storings]
         /\ writer'[w].stage = result /\ writer'[w].item = writer[w].item
         /\ \A o \in Writers : o # w => writer'[o] = writer[o]
<1>1. writer[w] \in Storings
  BY DEF PartnerPullTypeOK
<1>2. PICK rest : rest = [Nothing EXCEPT !.stage = result, !.item = writer[w].item]
  OBVIOUS
<1>3. rest \in Storings /\ rest.stage = result /\ rest.item = writer[w].item
  BY <1>1, <1>2, NothingType DEF Storings, Resolved
<1>4. writer' = [writer EXCEPT ![w] = rest]
  BY <1>2 DEF EndsStoring
<1> QED BY <1>3, <1>4 DEF PartnerPullTypeOK

LEMMA StartsStoringIs ==
  ASSUME PartnerPullTypeOK, NEW w \in Writers, NEW i \in Items, NEW v \in 1..MaxEvents + 1,
         StartsStoring(w, i, v)
  PROVE  /\ writer' \in [Writers -> Storings]
         /\ writer'[w].stage = "find" /\ writer'[w].item = i /\ writer'[w].version = v
         /\ \A o \in Writers : o # w => writer'[o] = writer[o]
         /\ atOnce' \in BOOLEAN
         /\ ~atOnce' => /\ ~atOnce
                        /\ \A o \in Writers : o # w /\ writer[o].stage \notin Resolved => writer[o].item # i
<1>0. MaxEvents \in Nat
  BY PartnerPullAssumption
<1>1. PICK begun : begun = [stage |-> "find", item |-> i, version |-> v, found |-> FALSE]
  OBVIOUS
<1>2. begun \in Storings /\ begun.stage = "find" /\ begun.item = i /\ begun.version = v
  BY <1>0, <1>1 DEF Storings
<1>3. /\ writer' = [writer EXCEPT ![w] = begun]
      /\ atOnce' = (atOnce \/ \E o \in Writers \ {w} : writer[o].item = i /\ writer[o].stage \notin Resolved)
  BY <1>1 DEF StartsStoring
<1>4. atOnce' \in BOOLEAN
  BY <1>3
<1>5. ~atOnce' => /\ ~atOnce
                  /\ \A o \in Writers : o # w /\ writer[o].stage \notin Resolved => writer[o].item # i
  BY <1>3
<1> QED BY <1>2, <1>3, <1>4, <1>5 DEF PartnerPullTypeOK

LEMMA PartnerPullStarts == PartnerPullInit => PartnerPullIInv
<1> SUFFICES ASSUME PartnerPullInit PROVE PartnerPullIInv
  OBVIOUS
<1>0. MaxEvents \in Nat /\ offered \in Seq(Items) /\ IsInjective(offered)
  BY PartnerPullAssumption DEF PartnerPullInit
<1>1. \A w \in Writers : writer[w] = Nothing /\ writer[w].stage \in Resolved
  BY NothingType DEF PartnerPullInit, Resolved
<1>2. PartnerPullTypeOK
  <2>1. rows \in [Items -> Seq(1..MaxEvents + 1)] /\ since \in [Items -> 0..MaxEvents + 1]
        /\ theirs \in [Items -> 0..MaxEvents + 1] /\ events \in 0..MaxEvents
    BY <1>0 DEF PartnerPullInit
  <2>2. writer \in [Writers -> Storings] /\ puller \in Pullings
    BY NothingType, NoPullType DEF PartnerPullInit
  <2> QED BY <1>0, <2>1, <2>2 DEF PartnerPullInit, PartnerPullTypeOK
<1>3. ExistsIsTrue /\ WhatIsFoundIsThere
  BY <1>1, NothingType DEF ExistsIsTrue, WhatIsFoundIsThere, Resolved
<1>4. OneRowEach
  BY DEF PartnerPullInit, OneRowEach
<1>5. \A i \in Items : since[i] = 0 /\ theirs[i] \in {0, 1} /\ (i \in Range(offered) => theirs[i] # 0)
  BY DEF PartnerPullInit
<1>6. VersionsGrow
  <2>1. \A i \in Items : /\ theirs[i] <= events + 1 /\ since[i] <= theirs[i]
                         /\ interfaceOf = "cdrs" => theirs[i] <= 1
    BY <1>5 DEF PartnerPullInit
  <2>2. "pull" \in Writers
    BY DEF Writers
  <2> QED BY <1>1, <1>5, <2>1, <2>2 DEF VersionsGrow
<1>7. NothingPassedOver
  <2>1. puller.page = <<>>
    BY DEF PartnerPullInit, NoPull
  <2> QED BY <1>1, <1>5, <2>1 DEF NothingPassedOver
<1> QED BY <1>2, <1>3, <1>4, <1>6, <1>7 DEF PartnerPullIInv
-----------------------------------------------------------------------------
\* What the partner does to its list

LEMMA MoreBefore ==
  ASSUME NEW S, IsFiniteSet(S), NEW T \in SUBSET S
  PROVE  Cardinality(T) <= Cardinality(S) /\ Cardinality(T) \in Nat /\ Cardinality(S) \in Nat
         /\ (T # S => Cardinality(T) < Cardinality(S))
BY FS_Subset, FS_CardinalityType

LEMMA WantedIsFinite ==
  ASSUME PartnerPullTypeOK
  PROVE  IsFiniteSet(Wanted) /\ \A i \in Items : Before(i) \subseteq Wanted /\ IsFiniteSet(Before(i))
<1>1. Wanted \subseteq Items
  BY DEF Wanted, PartnerPullTypeOK, Pullings
<1>2. IsFiniteSet(Wanted)
  BY <1>1, PartnerPullAssumption, FS_Subset
<1>3. \A i \in Items : Before(i) \subseteq Wanted
  BY DEF Before
<1> QED BY <1>2, <1>3, FS_Subset

LEMMA RowsUntouched ==
  ASSUME PartnerPullIInv, UNCHANGED <<keyed, rows, writer, atOnce>>
  PROVE  ExistsIsTrue' /\ OneRowEach' /\ WhatIsFoundIsThere'
BY DEF PartnerPullIInv, ExistsIsTrue, OneRowEach, WhatIsFoundIsThere

LEMMA OffersItemKeeps ==
  ASSUME PartnerPullIInv, NEW i \in Items, NEW k \in 1..Len(offered) + 1, OffersItem(i, k)
  PROVE  PartnerPullIInv'
<1>1. /\ events < MaxEvents /\ events' = events + 1 /\ theirs[i] = 0
      /\ offered' = InsertAt(offered, k, i) /\ theirs' = [theirs EXCEPT ![i] = 1]
      /\ UNCHANGED <<interfaceOf, keyed, rows, writer, puller, since, atOnce>>
  BY DEF OffersItem, Happens
<1>2. PartnerPullTypeOK /\ VersionsGrow /\ NothingPassedOver /\ MaxEvents \in Nat
  BY PartnerPullAssumption DEF PartnerPullIInv
<1>3. offered \in Seq(Items) /\ IsInjective(offered) /\ i \in Items \ Range(offered)
  BY <1>1, <1>2 DEF PartnerPullTypeOK, VersionsGrow
<1>4. /\ offered' \in Seq(Items) /\ IsInjective(offered') /\ Range(offered') = Range(offered) \cup {i}
      /\ \A a, b \in DOMAIN offered : a < b =>
           \E c, d \in DOMAIN offered' : c < d /\ offered'[c] = offered[a] /\ offered'[d] = offered[b]
  BY <1>1, <1>3, InsertedInto
<1>5. \A j \in Items : theirs'[j] = IF j = i THEN 1 ELSE theirs[j]
  BY <1>1, <1>2 DEF PartnerPullTypeOK
<1>6. PartnerPullTypeOK'
  BY <1>1, <1>2, <1>4 DEF PartnerPullTypeOK
<1>7. ExistsIsTrue' /\ OneRowEach' /\ WhatIsFoundIsThere'
  BY <1>1, RowsUntouched
<1>8. VersionsGrow'
  <2>1. \A j \in Items : theirs[j] \in Nat /\ since[j] \in Nat /\ theirs[j] <= events + 1 /\ since[j] <= theirs[j]
                         /\ (interfaceOf = "cdrs" => theirs[j] <= 1) /\ (j \in Range(offered) => theirs[j] # 0)
    BY <1>2 DEF VersionsGrow, PartnerPullTypeOK
  <2>2. \A j \in Items : /\ theirs'[j] <= events' + 1 /\ since'[j] <= theirs'[j]
                         /\ interfaceOf' = "cdrs" => theirs'[j] <= 1
                         /\ j \in Range(offered') => theirs'[j] # 0
    <3> TAKE j \in Items
    <3>1. CASE j = i
      BY <1>1, <1>2, <1>5, <2>1, <3>1 DEF PartnerPullTypeOK
    <3>2. CASE j # i
      BY <1>1, <1>2, <1>4, <1>5, <2>1, <3>2 DEF PartnerPullTypeOK
    <3> QED BY <3>1, <3>2
  <2> QED BY <1>1, <1>2, <2>2 DEF VersionsGrow
<1>9. NothingPassedOver'
  <2>1. Wanted \subseteq Wanted'
    BY <1>1, <1>4 DEF Wanted
  <2>2. \A x \in Items : Cardinality(Before(x)) <= Cardinality(Before(x)')
                         /\ Cardinality(Before(x)) \in Nat /\ Cardinality(Before(x)') \in Nat
    <3> TAKE x \in Items
    <3>1. \A j : Precedes(j, x) => Precedes(j, x)'
      BY <1>4 DEF Precedes
    <3>2. Before(x) \subseteq Before(x)'
      BY <2>1, <3>1 DEF Before
    <3>3. IsFiniteSet(Before(x)')
      <4>1. Before(x)' \subseteq Items
        BY <1>6 DEF Before, Wanted, PartnerPullTypeOK, Pullings
      <4> QED BY <4>1, PartnerPullAssumption, FS_Subset
    <3> QED BY <3>2, <3>3, MoreBefore
  <2>3. \A x \in Items : IsAhead(x) => IsAhead(x)'
    <3>1. puller.offset \in Nat /\ puller' = puller
      BY <1>1, <1>2 DEF PartnerPullTypeOK, Pullings
    <3> QED BY <2>2, <3>1 DEF IsAhead
  <2>4. \A x \in Items : (IsStored(x) => IsStored(x)') /\ (UnderWayHere(x) => UnderWayHere(x)')
    BY <1>1 DEF IsStored, UnderWayHere
  <2> QED BY <1>1, <1>2, <2>1, <2>3, <2>4 DEF NothingPassedOver
<1> QED BY <1>6, <1>7, <1>8, <1>9 DEF PartnerPullIInv

LEMMA ChangesItemKeeps ==
  ASSUME PartnerPullIInv, NEW i \in Items, ChangesItem(i)
  PROVE  PartnerPullIInv'
<1>1. /\ events < MaxEvents /\ events' = events + 1 /\ theirs[i] # 0 /\ interfaceOf # "cdrs"
      /\ theirs' = [theirs EXCEPT ![i] = @ + 1]
      /\ UNCHANGED <<interfaceOf, keyed, offered, rows, writer, puller, since, atOnce>>
  BY DEF ChangesItem, Happens
<1>2. PartnerPullTypeOK /\ VersionsGrow /\ NothingPassedOver /\ MaxEvents \in Nat
  BY PartnerPullAssumption DEF PartnerPullIInv
<1>3. \A j \in Items : theirs'[j] = IF j = i THEN theirs[j] + 1 ELSE theirs[j]
  BY <1>1, <1>2 DEF PartnerPullTypeOK
<1>4. \A j \in Items : theirs[j] \in Nat /\ since[j] \in Nat /\ theirs[j] <= events + 1 /\ since[j] <= theirs[j]
                       /\ (j \in Range(offered) => theirs[j] # 0)
  BY <1>2 DEF VersionsGrow, PartnerPullTypeOK
<1>5. events \in Nat
  BY <1>2 DEF PartnerPullTypeOK
<1>6. \A j \in Items : /\ theirs'[j] <= events' + 1 /\ since'[j] <= theirs'[j] /\ theirs'[j] \in 0..MaxEvents + 1
                       /\ interfaceOf' = "cdrs" => theirs'[j] <= 1
                       /\ j \in Range(offered') => theirs'[j] # 0
  BY <1>1, <1>2, <1>3, <1>4, <1>5
<1>7. PartnerPullTypeOK'
  BY <1>1, <1>2, <1>5, <1>6 DEF PartnerPullTypeOK
<1>8. VersionsGrow'
  BY <1>1, <1>2, <1>6 DEF VersionsGrow
<1>9. NothingPassedOver'
  <2>1. Wanted' = Wanted /\ \A x : Before(x)' = Before(x)
    BY <1>1 DEF Wanted, Before, Precedes
  <2> QED BY <1>1, <1>2, <2>1 DEF NothingPassedOver, IsStored, UnderWayHere, IsAhead
<1> QED BY <1>1, <1>7, <1>8, <1>9, RowsUntouched DEF PartnerPullIInv

LEMMA WithdrawsItemKeeps ==
  ASSUME PartnerPullIInv, NEW k \in DOMAIN offered, WithdrawsItem(k)
  PROVE  PartnerPullIInv'
<1>1. /\ events < MaxEvents /\ events' = events + 1 /\ offered' = RemoveAt(offered, k)
      /\ puller' = [puller EXCEPT !.steady = FALSE]
      /\ UNCHANGED <<interfaceOf, keyed, theirs, rows, writer, since, atOnce>>
  BY DEF WithdrawsItem, Happens
<1>2. PartnerPullTypeOK /\ VersionsGrow /\ MaxEvents \in Nat
  BY PartnerPullAssumption DEF PartnerPullIInv
<1>3. /\ offered' \in Seq(Items) /\ IsInjective(offered') /\ Range(offered') \subseteq Range(offered)
  BY <1>1, <1>2, RemovedFrom DEF PartnerPullTypeOK
<1>4. puller' \in Pullings /\ puller'.at = puller.at /\ puller'.steady = FALSE
  BY <1>1, <1>2 DEF PartnerPullTypeOK, Pullings
<1>5. PartnerPullTypeOK'
  <2>1. events' \in 0..MaxEvents
    BY <1>1, <1>2 DEF PartnerPullTypeOK
  <2>2. /\ interfaceOf' = interfaceOf /\ keyed' = keyed /\ theirs' = theirs /\ since' = since
        /\ rows' = rows /\ writer' = writer /\ atOnce' = atOnce
    BY <1>1
  <2> QED BY <1>2, <1>3, <1>4, <2>1, <2>2 DEF PartnerPullTypeOK
<1>6. VersionsGrow'
  <2>1. \A j \in Items : theirs[j] \in Nat /\ theirs[j] <= events + 1
    BY <1>2 DEF VersionsGrow, PartnerPullTypeOK
  <2>2. \A j \in Items : theirs'[j] <= events' + 1
    BY <1>1, <1>2, <2>1 DEF PartnerPullTypeOK
  <2> QED BY <1>1, <1>2, <1>3, <1>4, <2>2 DEF VersionsGrow
<1>7. NothingPassedOver'
  BY <1>4 DEF NothingPassedOver
<1> QED BY <1>1, <1>5, <1>6, <1>7, RowsUntouched DEF PartnerPullIInv

-----------------------------------------------------------------------------
\* What is stored of one of them

LEMMA WritersAre == Writers = {"pull", "request"} /\ "pull" \in Writers /\ "request" \in Writers
BY DEF Writers

LEMMA BeforeStays ==
  ASSUME UNCHANGED <<offered, puller>>
  PROVE  Wanted' = Wanted /\ (\A x : Before(x)' = Before(x)) /\ (\A x : IsAhead(x)' = IsAhead(x))
<1>1. Wanted' = Wanted /\ \A x : Before(x)' = Before(x)
  BY DEF Wanted, Before, Precedes
<1> QED BY <1>1 DEF IsAhead

LEMMA StartsKeeps ==
  ASSUME PartnerPullIInv, NEW w \in Writers, NEW i \in Items, NEW v \in 1..MaxEvents + 1,
         StartsStoring(w, i, v), writer[w].stage \in Resolved, UNCHANGED <<rows, keyed>>
  PROVE  ExistsIsTrue' /\ OneRowEach' /\ WhatIsFoundIsThere'
<1>1. PartnerPullTypeOK /\ OneRowEach /\ ExistsIsTrue /\ WhatIsFoundIsThere
  BY DEF PartnerPullIInv
<1>2. /\ writer'[w].stage = "find" /\ writer'[w].item = i
      /\ \A o \in Writers : o # w => writer'[o] = writer[o]
      /\ ~atOnce' => /\ ~atOnce
                     /\ \A o \in Writers : o # w /\ writer[o].stage \notin Resolved => writer[o].item # i
  BY <1>1, StartsStoringIs
<1>3. ExistsIsTrue'
  BY <1>1, <1>2 DEF ExistsIsTrue
<1>4. OneRowEach'
  BY <1>1, <1>2 DEF OneRowEach
<1>5. WhatIsFoundIsThere'
  BY <1>1, <1>2, WritersAre DEF WhatIsFoundIsThere
<1> QED BY <1>3, <1>4, <1>5

LEMMA SendsItemKeeps ==
  ASSUME PartnerPullIInv, NEW i \in Items, SendsItem(i)
  PROVE  PartnerPullIInv'
<1>1. /\ theirs[i] # 0 /\ writer["request"].stage \in Resolved
      /\ StartsStoring("request", i, theirs[i])
      /\ UNCHANGED <<interfaceOf, keyed, offered, theirs, rows, puller, since, events>>
  BY DEF SendsItem
<1>2. PartnerPullTypeOK /\ VersionsGrow /\ NothingPassedOver /\ OneRowEach /\ ExistsIsTrue /\ WhatIsFoundIsThere
  BY DEF PartnerPullIInv
<1>3. theirs[i] \in 1..MaxEvents + 1 /\ since[i] <= theirs[i]
  BY <1>1, <1>2, PartnerPullAssumption DEF PartnerPullTypeOK, VersionsGrow
<1>4. /\ writer' \in [Writers -> Storings]
      /\ writer'["request"].stage = "find" /\ writer'["request"].item = i
      /\ writer'["request"].version = theirs[i]
      /\ \A o \in Writers : o # "request" => writer'[o] = writer[o]
      /\ atOnce' \in BOOLEAN
      /\ ~atOnce' => /\ ~atOnce
                     /\ \A o \in Writers : o # "request" /\ writer[o].stage \notin Resolved => writer[o].item # i
  BY <1>1, <1>2, <1>3, StartsStoringIs, WritersAre
<1>5. PartnerPullTypeOK'
  BY <1>1, <1>2, <1>4 DEF PartnerPullTypeOK
<1>6. ExistsIsTrue' /\ OneRowEach' /\ WhatIsFoundIsThere'
  BY <1>1, <1>3, StartsKeeps, WritersAre
<1>9. VersionsGrow'
  BY <1>1, <1>2, <1>4, WritersAre DEF VersionsGrow
<1>10. NothingPassedOver'
  <2> SUFFICES ASSUME puller.steady
      PROVE  NothingPassedOver'
    BY <1>1 DEF NothingPassedOver
  <2>1. \A w \in Writers : writer'[w].stage \notin Resolved => writer'[w].version >= since[writer'[w].item]
    <3> TAKE w \in Writers
    <3>1. CASE w = "request"
      BY <1>2, <1>3, <1>4, <3>1 DEF PartnerPullTypeOK
    <3>2. CASE w # "request"
      BY <1>2, <1>4, <3>2 DEF NothingPassedOver
    <3> QED BY <3>1, <3>2
  <2>2. \A x \in Items : (IsStored(x) => IsStored(x)') /\ (UnderWayHere(x) => UnderWayHere(x)')
    BY <1>1, <1>4, WritersAre DEF IsStored, UnderWayHere
  <2>3. Wanted' = Wanted /\ (\A x : IsAhead(x)' = IsAhead(x))
    BY <1>1, BeforeStays
  <2> QED BY <1>1, <1>2, <2>1, <2>2, <2>3 DEF NothingPassedOver
<1> QED BY <1>5, <1>6, <1>9, <1>10 DEF PartnerPullIInv

\* A step of a writer that is storing one of them, where the pull is.
LEMMA StoringStep ==
  ASSUME PartnerPullIInv, StaysAtPartner, UNCHANGED <<puller, atOnce>>,
         NEW w \in Writers, writer[w].stage \notin Resolved,
         rows' \in [Items -> Seq(1..MaxEvents + 1)], writer' \in [Writers -> Storings],
         \A o \in Writers : o # w => writer'[o] = writer[o],
         writer'[w].item = writer[w].item,
         writer'[w].stage \notin Resolved => writer'[w].version = writer[w].version,
         puller.steady => \A i \in Items : IsStored(i) => IsStored(i)',
         puller.steady /\ writer'[w].stage \notin {"find", "write", "failed"} => IsStored(writer[w].item)'
  PROVE  PartnerPullTypeOK' /\ VersionsGrow' /\ NothingPassedOver'
<1>1. /\ interfaceOf' = interfaceOf /\ keyed' = keyed /\ offered' = offered /\ theirs' = theirs
      /\ since' = since /\ events' = events /\ puller' = puller /\ atOnce' = atOnce
  BY DEF StaysAtPartner
<1>2. PartnerPullTypeOK /\ VersionsGrow /\ NothingPassedOver
  BY DEF PartnerPullIInv
<1>3. PartnerPullTypeOK'
  BY <1>1, <1>2 DEF PartnerPullTypeOK
<1>4. VersionsGrow'
  <2>1. puller.at # "storing" => writer'["pull"].stage \in Resolved
    BY <1>2, WritersAre DEF VersionsGrow
  <2>2. \A o \in Writers : writer'[o].stage \notin Resolved => writer'[o].version # 0
    BY <1>2 DEF VersionsGrow
  <2> QED BY <1>1, <1>2, <2>1, <2>2 DEF VersionsGrow
<1>5. NothingPassedOver'
  <2> SUFFICES ASSUME puller.steady
      PROVE  NothingPassedOver'
    BY <1>1 DEF NothingPassedOver
  <2>1. \A o \in Writers : writer'[o].stage \notin Resolved => writer'[o].version >= since[writer'[o].item]
    BY <1>2 DEF NothingPassedOver
  <2>2. \A x \in Items : UnderWayHere(x) => UnderWayHere(x)' \/ IsStored(x)'
    <3> TAKE x \in Items
    <3>1. CASE puller.at = "store"
      BY <1>1, <3>1 DEF UnderWayHere
    <3>2. CASE puller.at # "store" /\ w # "pull"
      BY <1>1, <3>2, WritersAre DEF UnderWayHere
    <3>3. CASE puller.at # "store" /\ w = "pull"
      BY <1>1, <3>3 DEF UnderWayHere
    <3> QED BY <3>1, <3>2, <3>3
  <2>3. Wanted' = Wanted /\ (\A x : IsAhead(x)' = IsAhead(x))
    BY <1>1, BeforeStays
  <2> QED BY <1>1, <1>2, <2>1, <2>2, <2>3 DEF NothingPassedOver
<1> QED BY <1>3, <1>4, <1>5

\* The end of a storing leaves the other writer what it found.
LEMMA EndsKeeps ==
  ASSUME PartnerPullIInv, UNCHANGED atOnce, NEW w \in Writers, writer[w].stage \notin Resolved,
         NEW result \in Resolved, EndsStoring(w, result),
         \A j \in Items : j # writer[w].item => rows'[j] = rows[j],
         rows[writer[w].item] # <<>> \/ result = "exists" => rows'[writer[w].item] # <<>>
  PROVE  ExistsIsTrue' /\ WhatIsFoundIsThere'
<1>1. PartnerPullTypeOK /\ ExistsIsTrue /\ WhatIsFoundIsThere
  BY DEF PartnerPullIInv
<1>2. /\ writer'[w].stage = result /\ writer'[w].item = writer[w].item
      /\ \A o \in Writers : o # w => writer'[o] = writer[o]
  BY <1>1, EndsStoringIs
<1>3. \A o \in Writers : writer[o].item \in Items
  BY <1>1 DEF PartnerPullTypeOK, Storings
<1>4. ExistsIsTrue'
  <2> SUFFICES ASSUME NEW o \in Writers, writer'[o].stage = "exists"
      PROVE  rows'[writer'[o].item] # <<>>
    BY DEF ExistsIsTrue
  <2>1. CASE o = w
    BY <1>2, <2>1
  <2>2. CASE o # w
    BY <1>1, <1>2, <1>3, <2>2 DEF ExistsIsTrue
  <2> QED BY <2>1, <2>2
<1>5. WhatIsFoundIsThere'
  <2>1. \A o \in Writers : writer'[o].stage \notin Resolved => o # w /\ writer'[o] = writer[o]
    BY <1>2
  <2>2. \A o \in Writers : writer'[o].stage = "write" =>
          /\ writer'[o].found => rows'[writer'[o].item] # <<>>
          /\ ~atOnce /\ ~writer'[o].found => rows'[writer'[o].item] = <<>>
    <3> SUFFICES ASSUME NEW o \in Writers, writer'[o].stage = "write"
        PROVE  /\ writer'[o].found => rows'[writer'[o].item] # <<>>
               /\ ~atOnce /\ ~writer'[o].found => rows'[writer'[o].item] = <<>>
      OBVIOUS
    <3>1. o # w /\ writer'[o] = writer[o] /\ writer[o].stage \notin Resolved
      BY <2>1 DEF Resolved
    <3>2. writer'[o].found => rows'[writer'[o].item] # <<>>
      BY <1>1, <1>3, <3>1 DEF WhatIsFoundIsThere
    <3>3. ~atOnce => writer[o].item # writer[w].item
      BY <1>1, <3>1 DEF WhatIsFoundIsThere
    <3>4. ~atOnce /\ ~writer'[o].found => rows'[writer'[o].item] = <<>>
      BY <1>1, <1>3, <3>1, <3>3 DEF WhatIsFoundIsThere
    <3> QED BY <3>2, <3>4
  <2>3. ~atOnce => \A a, b \in Writers : writer'[a].stage \notin Resolved /\ writer'[b].stage \notin Resolved
                                         /\ writer'[a].item = writer'[b].item => a = b
    BY <1>1, <2>1 DEF WhatIsFoundIsThere
  <2> QED BY <2>2, <2>3 DEF WhatIsFoundIsThere
<1> QED BY <1>4, <1>5

LEMMA StoreFailsKeeps ==
  ASSUME PartnerPullIInv, NEW w \in Writers, writer[w].stage \in {"find", "write"},
         EndsStoring(w, "failed"), UNCHANGED <<rows, puller, atOnce>>, StaysAtPartner
  PROVE  PartnerPullIInv'
<1>1. PartnerPullTypeOK /\ OneRowEach
  BY DEF PartnerPullIInv
<1>2. "failed" \in Resolved /\ writer[w].stage \notin Resolved
  BY DEF Resolved
<1>3. /\ writer' \in [Writers -> Storings] /\ writer'[w].stage = "failed" /\ writer'[w].item = writer[w].item
      /\ \A o \in Writers : o # w => writer'[o] = writer[o]
  BY <1>1, <1>2, EndsStoringIs
<1>4. ExistsIsTrue' /\ WhatIsFoundIsThere'
  BY <1>2, EndsKeeps
<1>5. OneRowEach'
  BY <1>1 DEF OneRowEach, StaysAtPartner
<1>6. \A i \in Items : IsStored(i) => IsStored(i)'
  BY DEF IsStored, StaysAtPartner
<1>7. rows' \in [Items -> Seq(1..MaxEvents + 1)]
  BY <1>1 DEF PartnerPullTypeOK
<1>8. PartnerPullTypeOK' /\ VersionsGrow' /\ NothingPassedOver'
  BY <1>2, <1>3, <1>6, <1>7, StoringStep
<1> QED BY <1>4, <1>5, <1>8 DEF PartnerPullIInv

LEMMA FindItemKeeps ==
  ASSUME PartnerPullIInv, NEW w \in Writers, FindItem(w)
  PROVE  PartnerPullIInv'
<1>1. /\ writer[w].stage = "find" /\ UNCHANGED <<rows, puller, atOnce>> /\ StaysAtPartner
      /\ PartyOf[writer[w].item] \in Registered =>
           writer' = [writer EXCEPT ![w].stage = "write", ![w].found = Found(writer[w].item)]
      /\ PartyOf[writer[w].item] \notin Registered => EndsStoring(w, "failed")
  BY DEF FindItem
<1>2. CASE PartyOf[writer[w].item] \notin Registered
  BY <1>1, <1>2, StoreFailsKeeps
<1>3. CASE PartyOf[writer[w].item] \in Registered
  <2>1. PartnerPullTypeOK /\ ExistsIsTrue /\ OneRowEach /\ WhatIsFoundIsThere
    BY DEF PartnerPullIInv
  <2>2. writer[w] \in Storings /\ writer[w].item \in Items /\ writer[w].stage \notin Resolved
    BY <1>1, <2>1 DEF PartnerPullTypeOK, Storings, Resolved
  <2>3. PICK is : is = [writer[w] EXCEPT !.stage = "write", !.found = Found(writer[w].item)]
    OBVIOUS
  <2>4. /\ is \in Storings /\ is.stage = "write" /\ is.found = Found(writer[w].item)
        /\ is.item = writer[w].item /\ is.version = writer[w].version
    <3>1. Found(writer[w].item) \in BOOLEAN
      BY DEF Found
    <3> QED BY <2>2, <2>3, <3>1 DEF Storings
  <2>5. writer' = [writer EXCEPT ![w] = is]
    BY <1>1, <1>3, <2>3, <2>1 DEF PartnerPullTypeOK
  <2>6. /\ writer' \in [Writers -> Storings] /\ writer'[w] = is
        /\ \A o \in Writers : o # w => writer'[o] = writer[o]
    BY <2>1, <2>4, <2>5 DEF PartnerPullTypeOK
  <2>7. Found(writer[w].item) <=> rows[writer[w].item] # <<>>
    BY <2>2, PartnerPullAssumption DEF Found
  <2>8. ExistsIsTrue'
    BY <1>1, <2>1, <2>4, <2>6 DEF ExistsIsTrue
  <2>9. OneRowEach'
    BY <1>1, <2>1 DEF OneRowEach, StaysAtPartner
  <2>10. WhatIsFoundIsThere'
    <3>1. \A o \in Writers : writer'[o].stage = "write" =>
            /\ writer'[o].found => rows[writer'[o].item] # <<>>
            /\ ~atOnce /\ ~writer'[o].found => rows[writer'[o].item] = <<>>
      <4> TAKE o \in Writers
      <4>1. CASE o = w
        BY <2>4, <2>6, <2>7, <4>1
      <4>2. CASE o # w
        BY <2>1, <2>6, <4>2 DEF WhatIsFoundIsThere
      <4> QED BY <4>1, <4>2
    <3>2. \A o \in Writers : /\ writer'[o].item = writer[o].item
                             /\ writer'[o].stage \notin Resolved => writer[o].stage \notin Resolved
      BY <2>2, <2>4, <2>6
    <3>3. ~atOnce => \A a, b \in Writers : writer'[a].stage \notin Resolved /\ writer'[b].stage \notin Resolved
                                           /\ writer'[a].item = writer'[b].item => a = b
      BY <2>1, <3>2 DEF WhatIsFoundIsThere
    <3> QED BY <1>1, <3>1, <3>3 DEF WhatIsFoundIsThere
  <2>11. \A i \in Items : IsStored(i) => IsStored(i)'
    BY <1>1 DEF IsStored, StaysAtPartner
  <2>12. rows' \in [Items -> Seq(1..MaxEvents + 1)]
    BY <1>1, <2>1 DEF PartnerPullTypeOK
  <2>13. PartnerPullTypeOK' /\ VersionsGrow' /\ NothingPassedOver'
    BY <1>1, <2>2, <2>4, <2>6, <2>11, <2>12, StoringStep
  <2> QED BY <2>8, <2>9, <2>10, <2>13 DEF PartnerPullIInv
<1> QED BY <1>2, <1>3

LEMMA UpdateItemKeeps ==
  ASSUME PartnerPullIInv, NEW w \in Writers, UpdateItem(w)
  PROVE  PartnerPullIInv'
<1>0. PICK i : i = writer[w].item
  OBVIOUS
<1>1. /\ writer[w].stage = "write" /\ writer[w].found /\ UNCHANGED <<puller, atOnce>> /\ StaysAtPartner
      /\ interfaceOf = "cdrs" => EndsStoring(w, "exists") /\ UNCHANGED rows
      /\ interfaceOf # "cdrs" => /\ EndsStoring(w, "stored")
                                 /\ \E r \in DOMAIN rows[i] : rows' = [rows EXCEPT ![i][r] = writer[w].version]
  BY <1>0 DEF UpdateItem
<1>2. PartnerPullTypeOK /\ OneRowEach /\ WhatIsFoundIsThere /\ VersionsGrow /\ NothingPassedOver
  BY DEF PartnerPullIInv
<1>3. /\ writer[w] \in Storings /\ i \in Items /\ writer[w].stage \notin Resolved /\ MaxEvents \in Nat
      /\ writer[w].version \in 1..MaxEvents + 1 /\ rows[i] # <<>> /\ rows[i] \in Seq(1..MaxEvents + 1)
  <2>1. writer[w] \in Storings /\ i \in Items /\ writer[w].stage \notin Resolved /\ MaxEvents \in Nat
    BY <1>0, <1>1, <1>2, PartnerPullAssumption DEF PartnerPullTypeOK, Storings, Resolved
  <2>2. writer[w].version # 0
    BY <1>2, <2>1 DEF VersionsGrow
  <2>3. rows[i] # <<>> /\ rows[i] \in Seq(1..MaxEvents + 1)
    BY <1>1, <1>2, <1>0, <2>1 DEF WhatIsFoundIsThere, PartnerPullTypeOK
  <2> QED BY <2>1, <2>2, <2>3 DEF Storings
<1>4. CASE interfaceOf = "cdrs"
  <2>1. EndsStoring(w, "exists") /\ rows' = rows /\ "exists" \in Resolved
    BY <1>1, <1>4 DEF Resolved
  <2>2. /\ writer' \in [Writers -> Storings] /\ writer'[w].stage = "exists" /\ writer'[w].item = writer[w].item
        /\ \A o \in Writers : o # w => writer'[o] = writer[o]
    BY <1>2, <2>1, EndsStoringIs
  <2>3. ExistsIsTrue' /\ WhatIsFoundIsThere'
    BY <1>1, <1>3, <2>1, <1>0, EndsKeeps
  <2>4. OneRowEach'
    BY <1>1, <1>2, <2>1 DEF OneRowEach, StaysAtPartner
  <2>5. \A x \in Items : IsStored(x) => IsStored(x)'
    BY <1>1, <2>1 DEF IsStored, StaysAtPartner
  <2>6. IsStored(i)'
    <3>1. since'[i] <= 1 /\ since'[i] \in Nat
      BY <1>1, <1>2, <1>3, <1>4 DEF StaysAtPartner, VersionsGrow, PartnerPullTypeOK
    <3>2. 1 \in DOMAIN rows[i] /\ rows[i][1] >= 1
      <4>1. Len(rows[i]) \in Nat /\ Len(rows[i]) # 0
        BY <1>3
      <4> QED BY <1>3, <4>1
    <3>3. rows[i][1] \in Nat
      BY <1>3, <3>2
    <3> QED BY <2>1, <3>1, <3>2, <3>3 DEF IsStored
  <2>7. rows' \in [Items -> Seq(1..MaxEvents + 1)]
    BY <1>2, <2>1 DEF PartnerPullTypeOK
  <2>8. writer'[w].stage \in Resolved
    BY <2>1, <2>2
  <2>9. PartnerPullTypeOK' /\ VersionsGrow' /\ NothingPassedOver'
    BY <1>1, <1>3, <2>2, <2>5, <2>6, <2>7, <2>8, <1>0, StoringStep
  <2> QED BY <2>3, <2>4, <2>9 DEF PartnerPullIInv
<1>5. CASE interfaceOf # "cdrs"
  <2>1. EndsStoring(w, "stored") /\ "stored" \in Resolved
    BY <1>1, <1>5 DEF Resolved
  <2>2. PICK r \in DOMAIN rows[i] : rows' = [rows EXCEPT ![i][r] = writer[w].version]
    BY <1>1, <1>5
  <2>3. PICK list : list = [rows[i] EXCEPT ![r] = writer[w].version]
    OBVIOUS
  <2>4. /\ list \in Seq(1..MaxEvents + 1) /\ Len(list) = Len(rows[i]) /\ DOMAIN list = DOMAIN rows[i]
        /\ list[r] = writer[w].version /\ \A q \in DOMAIN rows[i] : q # r => list[q] = rows[i][q]
    <3>1. list[r] = writer[w].version /\ DOMAIN list = DOMAIN rows[i]
          /\ \A q \in DOMAIN rows[i] : q # r => list[q] = rows[i][q]
      BY <2>3
    <3>2. list \in Seq(1..MaxEvents + 1) /\ Len(list) = Len(rows[i])
      BY <1>3, <2>3, ExceptSeq
    <3> QED BY <3>1, <3>2
  <2>5. rows' = [rows EXCEPT ![i] = list]
    BY <1>2, <2>2, <2>3 DEF PartnerPullTypeOK
  <2>6. /\ rows' \in [Items -> Seq(1..MaxEvents + 1)] /\ rows'[i] = list
        /\ \A j \in Items : j # i => rows'[j] = rows[j]
    BY <1>2, <1>3, <2>4, <2>5 DEF PartnerPullTypeOK
  <2>7. /\ writer' \in [Writers -> Storings] /\ writer'[w].stage = "stored" /\ writer'[w].item = writer[w].item
        /\ \A o \in Writers : o # w => writer'[o] = writer[o]
    BY <1>2, <2>1, EndsStoringIs
  <2>8. list # <<>>
    BY <2>2, <2>4
  <2>9. ExistsIsTrue' /\ WhatIsFoundIsThere'
    BY <1>1, <1>3, <2>1, <2>6, <2>8, <1>0, EndsKeeps
  <2>10. OneRowEach'
    BY <1>1, <1>2, <2>4, <2>6 DEF OneRowEach, StaysAtPartner
  <2>11. puller.steady => IsStored(i)'
    <3>1. puller.steady => writer[w].version >= since[i]
      BY <1>0, <1>2, <1>3 DEF NothingPassedOver
    <3> QED BY <1>1, <2>2, <2>4, <2>6, <3>1 DEF IsStored, StaysAtPartner
  <2>12. puller.steady => \A x \in Items : IsStored(x) => IsStored(x)'
    <3> SUFFICES ASSUME puller.steady, NEW x \in Items, IsStored(x)
        PROVE  IsStored(x)'
      OBVIOUS
    <3>1. CASE x = i
      BY <2>11, <3>1
    <3>2. CASE x # i
      BY <1>1, <2>6, <3>2 DEF IsStored, StaysAtPartner
    <3> QED BY <3>1, <3>2
  <2>13. writer'[w].stage \in Resolved
    BY <2>1, <2>7
  <2>14. PartnerPullTypeOK' /\ VersionsGrow' /\ NothingPassedOver'
    BY <1>1, <1>3, <2>6, <2>7, <2>11, <2>12, <2>13, <1>0, StoringStep
  <2> QED BY <2>9, <2>10, <2>14 DEF PartnerPullIInv
<1> QED BY <1>4, <1>5

LEMMA InsertItemKeeps ==
  ASSUME PartnerPullIInv, NEW w \in Writers, InsertItem(w)
  PROVE  PartnerPullIInv'
<1>0. PICK i : i = writer[w].item
  OBVIOUS
<1>1. /\ writer[w].stage = "write" /\ ~writer[w].found /\ UNCHANGED <<puller, atOnce>> /\ StaysAtPartner
      /\ keyed /\ rows[i] # <<>> => /\ EndsStoring(w, IF interfaceOf = "cdrs" THEN "exists" ELSE "failed")
                                    /\ UNCHANGED rows
      /\ ~(keyed /\ rows[i] # <<>>) => /\ EndsStoring(w, "stored")
                                       /\ rows' = [rows EXCEPT ![i] = Append(rows[i], writer[w].version)]
  BY <1>0 DEF InsertItem
<1>2. PartnerPullTypeOK /\ OneRowEach /\ WhatIsFoundIsThere /\ VersionsGrow /\ NothingPassedOver
  BY DEF PartnerPullIInv
<1>3. /\ writer[w] \in Storings /\ i \in Items /\ writer[w].stage \notin Resolved /\ MaxEvents \in Nat
      /\ writer[w].version \in 1..MaxEvents + 1 /\ rows[i] \in Seq(1..MaxEvents + 1)
      /\ ~atOnce => rows[i] = <<>>
  <2>1. writer[w] \in Storings /\ i \in Items /\ writer[w].stage \notin Resolved /\ MaxEvents \in Nat
    BY <1>0, <1>1, <1>2, PartnerPullAssumption DEF PartnerPullTypeOK, Storings, Resolved
  <2>2. writer[w].version # 0
    BY <1>2, <2>1 DEF VersionsGrow
  <2>3. (~atOnce => rows[i] = <<>>) /\ rows[i] \in Seq(1..MaxEvents + 1)
    BY <1>1, <1>2, <1>0, <2>1 DEF WhatIsFoundIsThere, PartnerPullTypeOK
  <2> QED BY <2>1, <2>2, <2>3 DEF Storings
<1>4. CASE keyed /\ rows[i] # <<>> /\ interfaceOf = "cdrs"
  <2>1. EndsStoring(w, "exists") /\ rows' = rows /\ "exists" \in Resolved
    BY <1>1, <1>4 DEF Resolved
  <2>2. /\ writer' \in [Writers -> Storings] /\ writer'[w].stage = "exists" /\ writer'[w].item = writer[w].item
        /\ \A o \in Writers : o # w => writer'[o] = writer[o]
    BY <1>2, <2>1, EndsStoringIs
  <2>3. ExistsIsTrue' /\ WhatIsFoundIsThere'
    BY <1>1, <1>3, <1>4, <2>1, <1>0, EndsKeeps
  <2>4. OneRowEach'
    BY <1>1, <1>2, <2>1 DEF OneRowEach, StaysAtPartner
  <2>5. \A x \in Items : IsStored(x) => IsStored(x)'
    BY <1>1, <2>1 DEF IsStored, StaysAtPartner
  <2>6. IsStored(i)'
    <3>1. since'[i] <= 1 /\ since'[i] \in Nat
      BY <1>1, <1>2, <1>3, <1>4 DEF StaysAtPartner, VersionsGrow, PartnerPullTypeOK
    <3>2. 1 \in DOMAIN rows[i] /\ rows[i][1] >= 1
      <4>1. Len(rows[i]) \in Nat /\ Len(rows[i]) # 0
        BY <1>3, <1>4
      <4> QED BY <1>3, <4>1
    <3>3. rows[i][1] \in Nat
      BY <1>3, <3>2
    <3> QED BY <2>1, <3>1, <3>2, <3>3 DEF IsStored
  <2>7. rows' \in [Items -> Seq(1..MaxEvents + 1)]
    BY <1>2, <2>1 DEF PartnerPullTypeOK
  <2>8. writer'[w].stage \in Resolved
    BY <2>1, <2>2
  <2>9. PartnerPullTypeOK' /\ VersionsGrow' /\ NothingPassedOver'
    BY <1>1, <1>3, <2>2, <2>5, <2>6, <2>7, <2>8, <1>0, StoringStep
  <2> QED BY <2>3, <2>4, <2>9 DEF PartnerPullIInv
<1>5. CASE keyed /\ rows[i] # <<>> /\ interfaceOf # "cdrs"
  BY <1>1, <1>5, <1>0, StoreFailsKeeps
<1>6. CASE ~(keyed /\ rows[i] # <<>>)
  <2>1. EndsStoring(w, "stored") /\ "stored" \in Resolved
    BY <1>1, <1>6 DEF Resolved
  <2>3. PICK list : list = Append(rows[i], writer[w].version)
    OBVIOUS
  <2>4. /\ list \in Seq(1..MaxEvents + 1) /\ Len(list) = Len(rows[i]) + 1 /\ Len(rows[i]) \in Nat
        /\ list[Len(list)] = writer[w].version /\ Len(list) \in DOMAIN list
        /\ \A q \in DOMAIN rows[i] : q \in DOMAIN list /\ list[q] = rows[i][q]
    BY <1>3, <2>3
  <2>5. rows' = [rows EXCEPT ![i] = list]
    BY <1>1, <1>6, <2>3
  <2>6. /\ rows' \in [Items -> Seq(1..MaxEvents + 1)] /\ rows'[i] = list
        /\ \A j \in Items : j # i => rows'[j] = rows[j]
    BY <1>2, <1>3, <2>4, <2>5 DEF PartnerPullTypeOK
  <2>7. /\ writer' \in [Writers -> Storings] /\ writer'[w].stage = "stored" /\ writer'[w].item = writer[w].item
        /\ \A o \in Writers : o # w => writer'[o] = writer[o]
    BY <1>2, <2>1, EndsStoringIs
  <2>8. list # <<>>
    BY <2>4
  <2>9. ExistsIsTrue' /\ WhatIsFoundIsThere'
    BY <1>1, <1>3, <2>1, <2>6, <2>8, <1>0, EndsKeeps
  <2>10. OneRowEach'
    <3> SUFFICES ASSUME keyed \/ ~atOnce, NEW j \in Items
        PROVE  Len(rows'[j]) <= 1
      BY <1>1 DEF OneRowEach, StaysAtPartner
    <3>1. CASE j = i
      <4>1. Len(rows[i]) = 0
        BY <1>3, <1>6
      <4>2. Len(list) = 1
        BY <2>4, <4>1
      <4>3. rows'[j] = list
        BY <2>6, <3>1
      <4>4. Len(rows'[j]) = 1
        BY <4>2, <4>3
      <4> QED BY <4>4
    <3>2. CASE j # i
      BY <1>2, <2>6, <3>2 DEF OneRowEach
    <3> QED BY <3>1, <3>2
  <2>11. puller.steady => IsStored(i)'
    <3>1. puller.steady => writer[w].version >= since[i]
      BY <1>0, <1>2, <1>3 DEF NothingPassedOver
    <3> QED BY <1>1, <2>4, <2>6, <3>1 DEF IsStored, StaysAtPartner
  <2>12. \A x \in Items : IsStored(x) => IsStored(x)'
    <3> SUFFICES ASSUME NEW x \in Items, IsStored(x)
        PROVE  IsStored(x)'
      OBVIOUS
    <3>1. CASE x = i
      BY <1>1, <2>4, <2>6, <3>1 DEF IsStored, StaysAtPartner
    <3>2. CASE x # i
      BY <1>1, <2>6, <3>2 DEF IsStored, StaysAtPartner
    <3> QED BY <3>1, <3>2
  <2>13. writer'[w].stage \in Resolved
    BY <2>1, <2>7
  <2>14. PartnerPullTypeOK' /\ VersionsGrow' /\ NothingPassedOver'
    BY <1>1, <1>3, <2>6, <2>7, <2>11, <2>12, <2>13, <1>0, StoringStep
  <2> QED BY <2>9, <2>10, <2>14 DEF PartnerPullIInv
<1> QED BY <1>4, <1>5, <1>6

-----------------------------------------------------------------------------
\* The pull

\* The wanted ones are in one order, and the places in it are their positions.
LEMMA PlacesInOrder ==
  ASSUME PartnerPullTypeOK, NEW i \in Wanted, NEW x \in Wanted
  PROVE  /\ Cardinality(Before(x)) \in Nat /\ Cardinality(Wanted) \in Nat
         /\ Cardinality(Before(x)) < Cardinality(Wanted)
         /\ i # x /\ Cardinality(Before(x)) >= Cardinality(Before(i)) => Cardinality(Before(x)) > Cardinality(Before(i))
<1>1. /\ IsFiniteSet(Wanted) /\ \A j \in Items : Before(j) \subseteq Wanted /\ IsFiniteSet(Before(j))
      /\ i \in Items /\ x \in Items
  BY WantedIsFinite DEF PartnerPullTypeOK, Pullings, Wanted
<1>2. offered \in Seq(Items) /\ \A a, b \in DOMAIN offered : offered[a] = offered[b] => a = b
  BY DEF PartnerPullTypeOK, IsInjective
<1>3. DOMAIN offered \subseteq Nat
  BY <1>2
<1>4. \A j \in Wanted : \E a \in DOMAIN offered : offered[a] = j
  BY DEF Wanted, Range
<1>5. \A j : ~Precedes(j, j)
  BY <1>2, <1>3 DEF Precedes
<1>6. \A j, k, l : Precedes(j, k) /\ Precedes(k, l) => Precedes(j, l)
  <2> SUFFICES ASSUME NEW j, NEW k, NEW l, Precedes(j, k), Precedes(k, l)
      PROVE  Precedes(j, l)
    OBVIOUS
  <2>1. PICK a \in DOMAIN offered, b \in DOMAIN offered : a < b /\ offered[a] = j /\ offered[b] = k
    BY DEF Precedes
  <2>2. PICK c \in DOMAIN offered, d \in DOMAIN offered : c < d /\ offered[c] = k /\ offered[d] = l
    BY DEF Precedes
  <2>3. b = c
    BY <1>2, <2>1, <2>2
  <2>4. a < d
    BY <1>3, <2>1, <2>2, <2>3
  <2> QED BY <2>1, <2>2, <2>4 DEF Precedes
<1>7. i # x => Precedes(i, x) \/ Precedes(x, i)
  <2>1. PICK a \in DOMAIN offered : offered[a] = i
    BY <1>4
  <2>2. PICK b \in DOMAIN offered : offered[b] = x
    BY <1>4
  <2>3. a < b \/ b < a \/ a = b
    BY <1>3
  <2> QED BY <2>1, <2>2, <2>3 DEF Precedes
<1>8. x \notin Before(x)
  BY <1>5 DEF Before
<1>9. /\ Cardinality(Before(x)) \in Nat /\ Cardinality(Before(i)) \in Nat /\ Cardinality(Wanted) \in Nat
      /\ Cardinality(Before(x)) < Cardinality(Wanted)
  <2>1. Before(x) \in SUBSET Wanted /\ Before(x) # Wanted
    BY <1>1, <1>8
  <2>2. Before(i) \in SUBSET Wanted
    BY <1>1
  <2> QED BY <1>1, <2>1, <2>2, MoreBefore
<1>10. ASSUME Precedes(x, i)
       PROVE  Cardinality(Before(x)) < Cardinality(Before(i))
  <2>1. Before(x) \in SUBSET Before(i)
    BY <1>6, <1>10 DEF Before
  <2>2. x \in Before(i)
    BY <1>10 DEF Before
  <2>3. Before(x) # Before(i)
    BY <1>8, <2>2
  <2> QED BY <1>1, <2>1, <2>3, MoreBefore
<1>11. ASSUME Precedes(i, x)
       PROVE  Cardinality(Before(i)) < Cardinality(Before(x))
  <2>1. Before(i) \in SUBSET Before(x)
    BY <1>6, <1>11 DEF Before
  <2>2. i \in Before(x) /\ i \notin Before(i)
    BY <1>5, <1>11 DEF Before
  <2>3. Before(i) # Before(x)
    BY <2>2
  <2> QED BY <1>1, <2>1, <2>3, MoreBefore
<1>12. i # x /\ Cardinality(Before(x)) >= Cardinality(Before(i)) => Cardinality(Before(x)) > Cardinality(Before(i))
  BY <1>7, <1>9, <1>10, <1>11
<1> QED BY <1>9, <1>12

LEMMA StartPullKeeps ==
  ASSUME PartnerPullIInv, NEW parties, StartPull(parties)
  PROVE  PartnerPullIInv'
<1>0. PICK mine : mine = {i \in Items : PartyOf[i] \in parties}
  OBVIOUS
<1>1. /\ puller.at = "idle"
      /\ puller' = [NoPull EXCEPT !.at = "ask", !.wanted = mine, !.steady = writer["request"].stage \in Resolved]
      /\ since' = [i \in Items |-> IF i \in Range(offered) /\ PartyOf[i] \in parties THEN theirs[i] ELSE 0]
      /\ UNCHANGED <<interfaceOf, keyed, offered, theirs, rows, writer, atOnce, events>>
  BY <1>0 DEF StartPull
<1>2. PartnerPullTypeOK /\ VersionsGrow /\ NothingPassedOver /\ MaxEvents \in Nat
  BY PartnerPullAssumption DEF PartnerPullIInv
<1>3. /\ puller'.at = "ask" /\ puller'.wanted = mine /\ puller'.offset = 0 /\ puller'.page = <<>>
      /\ puller'.steady = (writer["request"].stage \in Resolved) /\ puller' \in Pullings
  <2>1. mine \subseteq Items
    BY <1>0
  <2>2. (writer["request"].stage \in Resolved) \in BOOLEAN
    OBVIOUS
  <2> QED BY <1>1, <2>1, <2>2, NoPullType DEF Pullings, NoPull
<1>4. /\ since' \in [Items -> 0..MaxEvents + 1]
      /\ \A i \in Items : /\ since'[i] <= theirs[i]
                          /\ since'[i] # 0 => i \in Range(offered) /\ i \in mine
  BY <1>0, <1>1, <1>2 DEF PartnerPullTypeOK
<1>5. PartnerPullTypeOK'
  BY <1>1, <1>2, <1>3, <1>4 DEF PartnerPullTypeOK
<1>6. VersionsGrow'
  BY <1>1, <1>2, <1>3, <1>4 DEF VersionsGrow
<1>7. NothingPassedOver'
  <2> SUFFICES ASSUME puller'.steady
      PROVE  NothingPassedOver'
    BY DEF NothingPassedOver
  <2>1. \A w \in Writers : writer[w].stage \in Resolved
    BY <1>1, <1>2, <1>3, WritersAre DEF VersionsGrow
  <2>2. \A i \in Items : since'[i] # 0 => i \in Wanted' /\ IsAhead(i)'
    <3> SUFFICES ASSUME NEW i \in Items, since'[i] # 0
        PROVE  i \in Wanted' /\ IsAhead(i)'
      OBVIOUS
    <3>1. i \in Wanted'
      BY <1>1, <1>3, <1>4 DEF Wanted
    <3>2. Cardinality(Before(i)') \in Nat
      <4>1. Before(i)' \subseteq Items
        BY <1>5 DEF Before, Wanted, PartnerPullTypeOK, Pullings
      <4> QED BY <4>1, PartnerPullAssumption, FS_Subset, FS_CardinalityType
    <3> QED BY <1>3, <3>1, <3>2 DEF IsAhead
  <2> QED BY <1>1, <1>3, <2>1, <2>2 DEF NothingPassedOver
<1> QED BY <1>1, <1>5, <1>6, <1>7, RowsUntouched DEF PartnerPullIInv

\* A step of the pull that stores nothing.
LEMMA PullStep ==
  ASSUME PartnerPullIInv, StaysAtPartner, UNCHANGED <<rows, writer, atOnce>>,
         puller' \in Pullings, puller'.steady = puller.steady,
         puller.at # "idle", puller'.at # "idle",
         writer["pull"].stage \in Resolved,
         puller.steady => \A r \in DOMAIN puller'.page : puller'.page[r].version >= since[puller'.page[r].item],
         puller.steady /\ puller'.at # "failed" => \A i \in Items : since[i] # 0 =>
           i \in Wanted' /\ (puller'.failures > 0 \/ IsStored(i) \/ UnderWayHere(i)' \/ IsAhead(i)')
  PROVE  PartnerPullIInv'
<1>1. /\ interfaceOf' = interfaceOf /\ keyed' = keyed /\ offered' = offered /\ theirs' = theirs
      /\ since' = since /\ events' = events
  BY DEF StaysAtPartner
<1>2. PartnerPullTypeOK /\ VersionsGrow /\ NothingPassedOver
  BY DEF PartnerPullIInv
<1>3. PartnerPullTypeOK'
  BY <1>1, <1>2 DEF PartnerPullTypeOK
<1>4. VersionsGrow'
  BY <1>1, <1>2 DEF VersionsGrow
<1>5. NothingPassedOver'
  <2>1. \A i \in Items : IsStored(i)' = IsStored(i)
    BY <1>1 DEF IsStored
  <2> SUFFICES ASSUME puller.steady
      PROVE  NothingPassedOver'
    BY DEF NothingPassedOver
  <2>2. \A w \in Writers : writer'[w].stage \notin Resolved => writer'[w].version >= since'[writer'[w].item]
    BY <1>1, <1>2 DEF NothingPassedOver
  <2> QED BY <1>1, <2>1, <2>2 DEF NothingPassedOver
<1> QED BY <1>1, <1>3, <1>4, <1>5, RowsUntouched DEF PartnerPullIInv

LEMMA PageComesKeeps ==
  ASSUME PartnerPullIInv, PageComes
  PROVE  PartnerPullIInv'
<1>1. /\ puller.at = "ask" /\ UNCHANGED <<rows, writer, atOnce>> /\ StaysAtPartner
      /\ \/ Cardinality(Wanted) <= puller.offset /\ PageIs(<<>>)
         \/ \E i \in Wanted : /\ Cardinality(Before(i)) = puller.offset
                            /\ PageIs(<<[item |-> i, version |-> theirs[i]]>>)
  BY DEF PageComes
<1>2. PartnerPullTypeOK /\ VersionsGrow /\ NothingPassedOver /\ MaxEvents \in Nat
  BY PartnerPullAssumption DEF PartnerPullIInv
<1>3. /\ puller \in Pullings /\ puller.offset \in Nat /\ writer["pull"].stage \in Resolved
      /\ Cardinality(Wanted) \in Nat
  BY <1>1, <1>2, WantedIsFinite, FS_CardinalityType DEF PartnerPullTypeOK, Pullings, VersionsGrow
<1>4. ASSUME NEW page \in {<<>>} \cup {<<entry>> : entry \in Entries}, PageIs(page)
      PROVE  /\ puller' \in Pullings /\ puller'.at = "store" /\ puller'.page = page
             /\ puller'.more = (puller.offset + 1 < Cardinality(Wanted))
             /\ puller'.steady = puller.steady /\ puller'.offset = puller.offset
             /\ puller'.failures = puller.failures
             /\ Wanted' = Wanted /\ \A x : Before(x)' = Before(x)
  <2>1. /\ puller' = [puller EXCEPT !.at = "store", !.page = page,
                                    !.more = puller.offset + 1 < Cardinality(Wanted)]
    BY <1>4 DEF PageIs
  <2>2. (puller.offset + 1 < Cardinality(Wanted)) \in BOOLEAN
    OBVIOUS
  <2>3. /\ puller' \in Pullings /\ puller'.at = "store" /\ puller'.page = page
        /\ puller'.more = (puller.offset + 1 < Cardinality(Wanted))
        /\ puller'.steady = puller.steady /\ puller'.offset = puller.offset
        /\ puller'.failures = puller.failures /\ puller'.wanted = puller.wanted
    BY <1>3, <2>1, <2>2 DEF Pullings
  <2>4. offered' = offered
    BY <1>1 DEF StaysAtPartner
  <2>5. Wanted' = Wanted /\ \A x : Before(x)' = Before(x)
    BY <2>3, <2>4 DEF Wanted, Before, Precedes
  <2> QED BY <2>3, <2>5
<1>5. puller.steady => \A x \in Items : since[x] # 0 =>
        /\ x \in Wanted /\ Cardinality(Before(x)) < Cardinality(Wanted) /\ Cardinality(Before(x)) \in Nat
        /\ puller.failures > 0 \/ IsStored(x) \/ Cardinality(Before(x)) >= puller.offset
  BY <1>1, <1>2, PlacesInOrder DEF NothingPassedOver, UnderWayHere, IsAhead
<1>6. CASE Cardinality(Wanted) <= puller.offset /\ PageIs(<<>>)
  <2>1. /\ puller' \in Pullings /\ puller'.at = "store" /\ puller'.page = <<>>
        /\ puller'.steady = puller.steady /\ puller'.failures = puller.failures /\ Wanted' = Wanted
    BY <1>4, <1>6
  <2>2. puller.steady => \A x \in Items : since[x] # 0 =>
          x \in Wanted /\ (puller.failures > 0 \/ IsStored(x))
    BY <1>3, <1>5, <1>6
  <2> QED BY <1>1, <1>3, <2>1, <2>2, PullStep
<1>7. ASSUME NEW i \in Wanted, Cardinality(Before(i)) = puller.offset,
             PageIs(<<[item |-> i, version |-> theirs[i]]>>)
      PROVE  PartnerPullIInv'
  <2>1. PICK entry : entry = [item |-> i, version |-> theirs[i]]
    OBVIOUS
  <2>2. /\ i \in Items /\ theirs[i] \in 1..MaxEvents + 1 /\ since[i] <= theirs[i] /\ since[i] \in Nat
    BY <1>2 DEF PartnerPullTypeOK, VersionsGrow, Wanted, Pullings
  <2>3. entry \in Entries /\ entry.item = i /\ entry.version = theirs[i]
    BY <2>1, <2>2 DEF Entries
  <2>4. /\ puller' \in Pullings /\ puller'.at = "store" /\ puller'.page = <<entry>>
        /\ puller'.more = (puller.offset + 1 < Cardinality(Wanted))
        /\ puller'.steady = puller.steady /\ puller'.offset = puller.offset
        /\ puller'.failures = puller.failures
        /\ Wanted' = Wanted /\ \A x : Before(x)' = Before(x)
    BY <1>4, <1>7, <2>1, <2>3
  <2>5. \A r \in DOMAIN puller'.page : puller'.page[r] = entry
    BY <2>4
  <2>6. puller.steady => \A r \in DOMAIN puller'.page : puller'.page[r].version >= since[puller'.page[r].item]
    BY <2>2, <2>3, <2>5
  <2>7. puller.steady => \A x \in Items : since[x] # 0 =>
          x \in Wanted' /\ (puller'.failures > 0 \/ IsStored(x) \/ UnderWayHere(x)' \/ IsAhead(x)')
    <3> SUFFICES ASSUME puller.steady, NEW x \in Items, since[x] # 0, ~(puller.failures > 0), ~IsStored(x)
        PROVE  UnderWayHere(x)' \/ IsAhead(x)'
      BY <1>5, <2>4
    <3>1. x \in Wanted /\ Cardinality(Before(x)) >= puller.offset
          /\ Cardinality(Before(x)) < Cardinality(Wanted) /\ Cardinality(Before(x)) \in Nat
      BY <1>5
    <3>2. CASE x = i
      <4>1. 1 \in DOMAIN puller'.page /\ puller'.page[1].item = x
        BY <2>3, <2>4, <3>2
      <4> QED BY <2>4, <4>1 DEF UnderWayHere
    <3>3. CASE x # i
      <4>1. Cardinality(Before(x)) > puller.offset
        BY <1>2, <1>7, <3>1, <3>3, PlacesInOrder
      <4>2. puller'.more
        <5>1. puller.offset + 1 < Cardinality(Wanted)
          BY <1>3, <3>1, <4>1
        <5> QED BY <2>4, <5>1
      <4> QED BY <2>4, <4>1, <4>2 DEF IsAhead
    <3> QED BY <3>2, <3>3
  <2> QED BY <1>1, <1>3, <2>4, <2>6, <2>7, PullStep
<1> QED BY <1>1, <1>6, <1>7

LEMMA PageIsRefusedKeeps ==
  ASSUME PartnerPullIInv, PageIsRefused
  PROVE  PartnerPullIInv'
<1>1. /\ puller.at = "ask" /\ puller' = [puller EXCEPT !.at = "failed"]
      /\ UNCHANGED <<rows, writer, atOnce>> /\ StaysAtPartner
  BY DEF PageIsRefused, PullerMoves
<1>2. PartnerPullTypeOK /\ VersionsGrow /\ NothingPassedOver
  BY DEF PartnerPullIInv
<1>3. /\ puller' \in Pullings /\ puller'.at = "failed" /\ puller'.steady = puller.steady
      /\ puller'.page = puller.page
  BY <1>1, <1>2 DEF PartnerPullTypeOK, Pullings, PullOver
<1>4. writer["pull"].stage \in Resolved
  BY <1>1, <1>2 DEF VersionsGrow
<1>5. puller.steady => \A r \in DOMAIN puller'.page : puller'.page[r].version >= since[puller'.page[r].item]
  BY <1>2, <1>3 DEF NothingPassedOver
<1> QED BY <1>1, <1>3, <1>4, <1>5, PullStep

LEMMA StoreOverKeeps ==
  ASSUME PartnerPullIInv, StoreOver
  PROVE  PartnerPullIInv'
<1>0. PICK count : count = IF writer["pull"].stage = "failed" THEN 1 ELSE puller.failures
  OBVIOUS
<1>1. /\ puller.at = "storing" /\ writer["pull"].stage \in Resolved
      /\ puller' = [puller EXCEPT !.at = "store", !.failures = count]
      /\ UNCHANGED <<rows, writer, atOnce>> /\ StaysAtPartner
  BY <1>0 DEF StoreOver
<1>2. PartnerPullTypeOK /\ VersionsGrow /\ NothingPassedOver
  BY DEF PartnerPullIInv
<1>3. count \in Nat /\ (puller.failures > 0 \/ writer["pull"].stage = "failed" => count > 0)
  BY <1>0, <1>2 DEF PartnerPullTypeOK, Pullings
<1>4. /\ puller' \in Pullings /\ puller'.at = "store" /\ puller'.steady = puller.steady
      /\ puller'.page = puller.page /\ puller'.failures = count /\ puller'.more = puller.more
      /\ puller'.offset = puller.offset /\ puller'.wanted = puller.wanted
  BY <1>1, <1>2, <1>3 DEF PartnerPullTypeOK, Pullings
<1>5. puller.steady => \A r \in DOMAIN puller'.page : puller'.page[r].version >= since[puller'.page[r].item]
  BY <1>2, <1>4 DEF NothingPassedOver
<1>6. Wanted' = Wanted /\ \A x : Before(x)' = Before(x)
  BY <1>1, <1>4 DEF Wanted, Before, Precedes, StaysAtPartner
<1>7. puller.steady => \A x \in Items : since[x] # 0 =>
        x \in Wanted' /\ (puller'.failures > 0 \/ IsStored(x) \/ UnderWayHere(x)' \/ IsAhead(x)')
  <2> SUFFICES ASSUME puller.steady, NEW x \in Items, since[x] # 0
      PROVE  x \in Wanted' /\ (puller'.failures > 0 \/ IsStored(x) \/ UnderWayHere(x)' \/ IsAhead(x)')
    OBVIOUS
  <2>1. x \in Wanted /\ (puller.failures > 0 \/ IsStored(x) \/ UnderWayHere(x) \/ IsAhead(x))
    BY <1>1, <1>2 DEF NothingPassedOver
  <2>2. UnderWayHere(x) => writer["pull"].stage = "failed"
    BY <1>1 DEF UnderWayHere, Resolved
  <2>3. IsAhead(x) => IsAhead(x)'
    BY <1>1, <1>4, <1>6 DEF IsAhead
  <2> QED BY <1>3, <1>4, <1>6, <2>1, <2>2, <2>3
<1> QED BY <1>1, <1>4, <1>5, <1>7, PullStep

LEMMA TurnsPageKeeps ==
  ASSUME PartnerPullIInv, TurnsPage
  PROVE  PartnerPullIInv'
<1>1. /\ puller.at = "store" /\ puller.page = <<>>
      /\ puller.more => puller' = [puller EXCEPT !.at = "ask", !.offset = puller.offset + 1]
      /\ ~puller.more => puller' = [puller EXCEPT !.at = "ended"]
      /\ UNCHANGED <<rows, writer, atOnce>> /\ StaysAtPartner
  BY DEF TurnsPage
<1>2. PartnerPullTypeOK /\ VersionsGrow /\ NothingPassedOver
  BY DEF PartnerPullIInv
<1>3. puller \in Pullings /\ puller.offset \in Nat /\ puller.more \in BOOLEAN
  BY <1>2 DEF PartnerPullTypeOK, Pullings
<1>4. /\ puller' \in Pullings /\ puller'.at \in {"ask", "ended"} /\ puller'.steady = puller.steady
      /\ puller'.page = <<>> /\ puller'.failures = puller.failures
      /\ puller'.wanted = puller.wanted
      /\ puller.more => puller'.at = "ask" /\ puller'.offset = puller.offset + 1
  <2>1. CASE puller.more
    <3>1. puller.offset + 1 \in Nat
      BY <1>3
    <3>2. puller' = [puller EXCEPT !.at = "ask", !.offset = puller.offset + 1]
      BY <1>1, <2>1
    <3> QED BY <1>1, <1>3, <2>1, <3>1, <3>2 DEF Pullings
  <2>2. CASE ~puller.more
    BY <1>1, <1>3, <2>2 DEF Pullings, PullOver
  <2> QED BY <2>1, <2>2
<1>5. writer["pull"].stage \in Resolved
  BY <1>1, <1>2 DEF VersionsGrow
<1>6. Wanted' = Wanted /\ \A x : Before(x)' = Before(x)
  BY <1>1, <1>4 DEF Wanted, Before, Precedes, StaysAtPartner
<1>7. puller.steady => \A x \in Items : since[x] # 0 =>
        x \in Wanted' /\ (puller'.failures > 0 \/ IsStored(x) \/ UnderWayHere(x)' \/ IsAhead(x)')
  <2> SUFFICES ASSUME puller.steady, NEW x \in Items, since[x] # 0
      PROVE  x \in Wanted' /\ (puller'.failures > 0 \/ IsStored(x) \/ UnderWayHere(x)' \/ IsAhead(x)')
    OBVIOUS
  <2>1. x \in Wanted /\ (puller.failures > 0 \/ IsStored(x) \/ UnderWayHere(x) \/ IsAhead(x))
    BY <1>1, <1>2 DEF NothingPassedOver
  <2>2. ~UnderWayHere(x)
    BY <1>1 DEF UnderWayHere
  <2>3. IsAhead(x) => IsAhead(x)'
    <3>1. Cardinality(Before(x)) \in Nat
      BY <1>2, WantedIsFinite, FS_CardinalityType
    <3> QED BY <1>1, <1>3, <1>4, <1>6, <3>1 DEF IsAhead
  <2> QED BY <1>4, <1>6, <2>1, <2>2, <2>3
<1> QED BY <1>1, <1>4, <1>5, <1>7, PullStep

LEMMA StoreOfPageKeeps ==
  ASSUME PartnerPullIInv, StoreOfPage
  PROVE  PartnerPullIInv'
<1>1. /\ puller.at = "store" /\ puller.page # <<>>
      /\ StartsStoring("pull", Head(puller.page).item, Head(puller.page).version)
      /\ puller' = [puller EXCEPT !.at = "storing", !.page = Tail(puller.page)]
      /\ UNCHANGED rows /\ StaysAtPartner
  BY DEF StoreOfPage
<1>2. PartnerPullTypeOK /\ VersionsGrow /\ NothingPassedOver
  BY DEF PartnerPullIInv
<1>3. puller \in Pullings
  BY <1>2 DEF PartnerPullTypeOK
<1>4. PICK entry \in Entries : puller.page = <<entry>>
  BY <1>1, <1>3 DEF Pullings
<1>5. Head(puller.page) = entry /\ Tail(puller.page) = <<>>
  BY <1>4
<1>6. entry.item \in Items /\ entry.version \in 1..MaxEvents + 1
  BY DEF Entries
<1>7. StartsStoring("pull", entry.item, entry.version)
  BY <1>1, <1>5
<1>8. /\ writer' \in [Writers -> Storings]
      /\ writer'["pull"].stage = "find" /\ writer'["pull"].item = entry.item
      /\ writer'["pull"].version = entry.version
      /\ \A o \in Writers : o # "pull" => writer'[o] = writer[o]
      /\ atOnce' \in BOOLEAN
  BY <1>2, <1>6, <1>7, StartsStoringIs, WritersAre
<1>9. ExistsIsTrue' /\ OneRowEach' /\ WhatIsFoundIsThere'
  <2>1. writer["pull"].stage \in Resolved
    BY <1>1, <1>2 DEF VersionsGrow
  <2> QED BY <1>1, <1>6, <1>7, <2>1, StartsKeeps, WritersAre DEF StaysAtPartner
<1>10. /\ puller' \in Pullings /\ puller'.at = "storing" /\ puller'.page = <<>> /\ puller'.more = puller.more
       /\ puller'.offset = puller.offset /\ puller'.steady = puller.steady
       /\ puller'.failures = puller.failures /\ puller'.wanted = puller.wanted
  BY <1>1, <1>3, <1>5 DEF Pullings
<1>11. /\ interfaceOf' = interfaceOf /\ keyed' = keyed /\ offered' = offered /\ theirs' = theirs
       /\ since' = since /\ events' = events /\ rows' = rows
  BY <1>1 DEF StaysAtPartner
<1>12. PartnerPullTypeOK'
  BY <1>2, <1>8, <1>10, <1>11 DEF PartnerPullTypeOK
<1>13. VersionsGrow'
  BY <1>2, <1>6, <1>8, <1>10, <1>11, WritersAre DEF VersionsGrow
<1>14. NothingPassedOver'
  <2> SUFFICES ASSUME puller.steady
      PROVE  NothingPassedOver'
    BY <1>10 DEF NothingPassedOver
  <2>1. entry.version >= since[entry.item]
    BY <1>2, <1>4 DEF NothingPassedOver
  <2>2. \A w \in Writers : writer'[w].stage \notin Resolved => writer'[w].version >= since[writer'[w].item]
    BY <1>2, <1>8, <2>1 DEF NothingPassedOver
  <2>3. Wanted' = Wanted /\ \A x : Before(x)' = Before(x)
    BY <1>10, <1>11 DEF Wanted, Before, Precedes
  <2>4. \A x \in Items : /\ IsStored(x) => IsStored(x)'
                         /\ UnderWayHere(x) => UnderWayHere(x)'
                         /\ IsAhead(x) => IsAhead(x)'
    <3> TAKE x \in Items
    <3>1. IsStored(x) => IsStored(x)'
      BY <1>11 DEF IsStored
    <3>2. UnderWayHere(x) => UnderWayHere(x)'
      <4>1. UnderWayHere(x) => entry.item = x
        BY <1>1, <1>4 DEF UnderWayHere
      <4> QED BY <1>8, <1>10, <4>1 DEF UnderWayHere
    <3>3. IsAhead(x) => IsAhead(x)'
      BY <1>1, <1>10, <2>3 DEF IsAhead
    <3> QED BY <3>1, <3>2, <3>3
  <2>5. puller.at # "failed"
    BY <1>1
  <2> QED BY <1>2, <1>10, <1>11, <2>2, <2>3, <2>4, <2>5 DEF NothingPassedOver
<1> QED BY <1>9, <1>12, <1>13, <1>14 DEF PartnerPullIInv
-----------------------------------------------------------------------------
LEMMA PartnerPullStep ==
  ASSUME PartnerPullIInv, PartnerPullNext
  PROVE  PartnerPullIInv'
<1>1. CASE PageComes \/ PageIsRefused \/ StoreOfPage \/ StoreOver \/ TurnsPage
  BY <1>1, PageComesKeeps, PageIsRefusedKeeps, StoreOfPageKeeps, StoreOverKeeps, TurnsPageKeeps
<1>2. ASSUME NEW w \in Writers, FindItem(w) \/ InsertItem(w) \/ UpdateItem(w) \/ StoreFails(w)
      PROVE  PartnerPullIInv'
  BY <1>2, FindItemKeeps, InsertItemKeeps, UpdateItemKeeps, StoreFailsKeeps DEF StoreFails
<1>3. ASSUME NEW parties, StartPull(parties)
      PROVE  PartnerPullIInv'
  BY <1>3, StartPullKeeps
<1>4. ASSUME NEW i \in Items, \/ ChangesItem(i) \/ SendsItem(i)
                              \/ \E k \in 1..Len(offered) + 1 : OffersItem(i, k)
      PROVE  PartnerPullIInv'
  BY <1>4, ChangesItemKeeps, SendsItemKeeps, OffersItemKeeps
<1>5. ASSUME NEW k \in DOMAIN offered, WithdrawsItem(k)
      PROVE  PartnerPullIInv'
  BY <1>5, WithdrawsItemKeeps
<1> QED BY <1>1, <1>2, <1>3, <1>4, <1>5 DEF PartnerPullNext

LEMMA PartnerPullStutters ==
  ASSUME PartnerPullIInv, UNCHANGED partnerPullVars
  PROVE  PartnerPullIInv'
<1>1. /\ interfaceOf' = interfaceOf /\ keyed' = keyed /\ offered' = offered /\ theirs' = theirs
      /\ rows' = rows /\ writer' = writer /\ puller' = puller /\ since' = since /\ atOnce' = atOnce
      /\ events' = events
  BY DEF partnerPullVars
<1>2. PartnerPullTypeOK /\ VersionsGrow /\ NothingPassedOver
  BY DEF PartnerPullIInv
<1>3. PartnerPullTypeOK'
  BY <1>1, <1>2 DEF PartnerPullTypeOK
<1>4. VersionsGrow'
  BY <1>1, <1>2 DEF VersionsGrow
<1>5. NothingPassedOver'
  <2>1. Wanted' = Wanted /\ \A x : IsAhead(x)' = IsAhead(x)
    BY <1>1, BeforeStays
  <2>2. \A x \in Items : IsStored(x)' = IsStored(x) /\ UnderWayHere(x)' = UnderWayHere(x)
    BY <1>1 DEF IsStored, UnderWayHere
  <2> QED BY <1>1, <1>2, <2>1, <2>2 DEF NothingPassedOver
<1> QED BY <1>1, <1>3, <1>4, <1>5, RowsUntouched DEF PartnerPullIInv

LEMMA PulledByItsOrder ==
  ASSUME PartnerPullIInv
  PROVE  PulledIsStored
<1>1. NothingPassedOver
  BY DEF PartnerPullIInv
<1> SUFFICES ASSUME puller.at = "ended", puller.steady, puller.failures = 0, NEW i \in Items, since[i] # 0
    PROVE  IsStored(i)
  BY DEF PulledIsStored, IsStored
<1>2. puller.failures > 0 \/ IsStored(i) \/ UnderWayHere(i) \/ IsAhead(i)
  BY <1>1 DEF NothingPassedOver
<1>3. ~UnderWayHere(i) /\ ~IsAhead(i)
  BY DEF UnderWayHere, IsAhead
<1> QED BY <1>2, <1>3

\* What a pull of tariffs, sessions or CDRs and the requests meanwhile store: a pull that ended
\* without failures has all that was listed throughout, no older than it was, in one row each if
\* a key or the time keeps them apart, and what is answered to exist is there.
THEOREM ListsArePulled == PartnerPullSpec => [](PartnerPullIInv /\ PulledIsStored /\ ExistsIsTrue /\ OneRowEach)
<1>1. PartnerPullInit => PartnerPullIInv
  BY PartnerPullStarts
<1>2. PartnerPullIInv /\ [PartnerPullNext]_partnerPullVars => PartnerPullIInv'
  BY PartnerPullStep, PartnerPullStutters
<1>3. PartnerPullIInv => PulledIsStored /\ ExistsIsTrue /\ OneRowEach
  BY PulledByItsOrder DEF PartnerPullIInv
<1> QED BY <1>1, <1>2, <1>3, PTL DEF PartnerPullSpec

-----------------------------------------------------------------------------
(* Partners behind a hub *)

LEMMA AtMostOneRow ==
  ASSUME NEW S, \A row, other \in S : row = other
  PROVE  Cardinality(S) <= 1
<1>1. CASE S = {}
  BY <1>1, FS_EmptySet
<1>2. CASE S # {}
  <2>1. PICK row : row \in S
    BY <1>2
  <2>2. S = {row}
    BY <2>1
  <2> QED BY <2>2, FS_Singleton
<1> QED BY <1>1, <1>2

LEMMA NoOnboardingType == NoOnboarding \in OnboardingCalls
BY DEF NoOnboarding, OnboardingCalls, Over, Outcomes

LEMMA OnboardingStarts == OnboardingInit => OnboardingIInv
<1> SUFFICES ASSUME OnboardingInit PROVE OnboardingIInv
  OBVIOUS
<1>1. \A c \in OnboardCalls : onboarding[c] = NoOnboarding
  BY DEF OnboardingInit
<1>2. roaming \subseteq Partnerships /\ customers \subseteq {"old"}
      /\ (\A row \in roaming : row.id = "old") /\ (\A row, other \in roaming : row = other)
  <2>1. CASE roaming = {} /\ customers = {}
    BY <2>1
  <2>2. CASE \E contract \in Contracts, roles \in SUBSET {"CPO", "EMSP"} :
               roaming = {[id |-> "old", contract |-> contract, roles |-> roles]}
    BY <2>2 DEF OnboardingInit, Partnerships, PartnerRowIds
  <2> QED BY <2>1, <2>2 DEF OnboardingInit
<1>3. OnboardingTypeOK
  BY <1>2, NoOnboardingType DEF OnboardingInit, OnboardingTypeOK, PartnerRowIds
<1>4. RowsAreOfCalls
  <2>1. \A row \in roaming : row.id \notin OnboardCalls
    BY <1>2, OnboardingAssumption
  <2>2. \A c \in OnboardCalls : Is(c, "idle")
    BY <1>1 DEF Is, NoOnboarding
  <2> QED BY <1>2, <2>1, <2>2 DEF RowsAreOfCalls, UnderWay, Over, Is
<1>5. \A c \in OnboardCalls : KnowsItsRow(c)
  BY <1>1 DEF KnowsItsRow, Is, NoOnboarding
<1> QED BY <1>3, <1>4, <1>5 DEF OnboardingIInv

\* The rows that a call may know: a step that keeps them, but for more roles, keeps what the
\* other calls know of them.
LEMMA OtherCallsKnow ==
  ASSUME OnboardingIInv, NEW c \in OnboardCalls, NEW change, Onboards(c, change),
         \A row \in roaming : \E now \in roaming' : /\ now.id = row.id /\ now.contract = row.contract
                                                  /\ row.roles \subseteq now.roles,
         customers \subseteq customers'
  PROVE  \A d \in OnboardCalls : d # c => onboarding'[d] = onboarding[d] /\ KnowsItsRow(d)'
<1> SUFFICES ASSUME NEW d \in OnboardCalls, d # c
             PROVE  onboarding'[d] = onboarding[d] /\ KnowsItsRow(d)'
  OBVIOUS
<1>1. onboarding'[d] = onboarding[d]
  BY DEF OnboardingIInv, OnboardingTypeOK, Onboards
<1>2. KnowsItsRow(d)
  BY DEF OnboardingIInv
<1>3. Direct(d)' = Direct(d) /\ \A at : Is(d, at)' = Is(d, at)
  BY <1>1 DEF Direct, Is
<1>4. (\E row \in roaming : /\ row.id = onboarding[d].row
                            /\ row.contract = onboarding[d].contract
                            /\ Is(d, "append") \/ RoleOf(onboarding[d].route) \in row.roles)
      => (\E row \in roaming' : /\ row.id = onboarding[d].row
                                /\ row.contract = onboarding[d].contract
                                /\ Is(d, "append") \/ RoleOf(onboarding[d].route) \in row.roles)
  OBVIOUS
<1> QED BY <1>1, <1>2, <1>3, <1>4 DEF KnowsItsRow, RoleOf

\* A call that is not alone ends the hope of a row of its own, unless there is a unique key.
LEMMA OneCallStays ==
  ASSUME OnboardingIInv, NEW c \in OnboardCalls, NEW change, Onboards(c, change), UnderWay(c),
         onboardOverlap' = onboardOverlap
  PROVE  ~onboardOverlap' => \A d, e \in OnboardCalls : UnderWay(d)' /\ UnderWay(e)' => d = e
<1> SUFFICES ASSUME ~onboardOverlap, NEW d \in OnboardCalls, NEW e \in OnboardCalls,
                    UnderWay(d)', UnderWay(e)'
             PROVE  d = e
  OBVIOUS
<1>1. \A q \in OnboardCalls : q # c => onboarding'[q] = onboarding[q]
  BY DEF OnboardingIInv, OnboardingTypeOK, Onboards
<1>2. UnderWay(d) /\ UnderWay(e)
  BY <1>1 DEF UnderWay
<1> QED BY <1>2 DEF OnboardingIInv, RowsAreOfCalls

\* A call's next position, when no row is made or changed.
LEMMA CallMovesOn ==
  ASSUME OnboardingIInv, NEW c \in OnboardCalls, UnderWay(c), NEW change \in OnboardingCalls,
         Onboards(c, change), UNCHANGED <<steady, roaming>>, customers \subseteq customers',
         customers' \subseteq PartnerRowIds \cup {"direct"},
         dataPull' \in [OnboardCalls -> {"none", "tariffs", "locations", "ended"}],
         onboarding[c].at \in {"answer", "bill", "ok", "failed"} =>
             change.at \in {"answer", "bill", "ok", "failed"},
         ~onboardOverlap /\ change.at = "insert" => roaming = {},
         KnowsItsRow(c)'
  PROVE  OnboardingIInv'
<1>1. \A d \in OnboardCalls : d # c => onboarding'[d] = onboarding[d] /\ KnowsItsRow(d)'
  <2>1. \A row \in roaming : \E now \in roaming' : /\ now.id = row.id /\ now.contract = row.contract
                                                   /\ row.roles \subseteq now.roles
    BY DEF steady
  <2> QED BY <2>1, OtherCallsKnow
<1>2. onboarding'[c] = change
  BY DEF Onboards, OnboardingIInv, OnboardingTypeOK
<1>3. OnboardingTypeOK'
  BY DEF OnboardingIInv, OnboardingTypeOK, Onboards, steady
<1>4. RowsAreOfCalls'
  <2>1. \A row \in roaming' : row.id \in OnboardCalls =>
            onboarding'[row.id].at \in {"answer", "bill", "ok", "failed"}
    BY <1>1, <1>2 DEF OnboardingIInv, RowsAreOfCalls, steady
  <2>2. \A row, other \in roaming' : row.id = other.id \/ uniqueKey' \/ ~onboardOverlap' => row = other
    BY DEF OnboardingIInv, RowsAreOfCalls, steady
  <2>3. ~onboardOverlap' => \A d, e \in OnboardCalls : UnderWay(d)' /\ UnderWay(e)' => d = e
    BY OneCallStays DEF steady
  <2>4. ~onboardOverlap' => \A d \in OnboardCalls : Is(d, "insert")' => roaming' = {}
    BY <1>1, <1>2 DEF OnboardingIInv, RowsAreOfCalls, steady, Is
  <2> QED BY <2>1, <2>2, <2>3, <2>4 DEF RowsAreOfCalls
<1> QED BY <1>1, <1>3, <1>4 DEF OnboardingIInv

LEMMA OnboardKeeps ==
  ASSUME OnboardingIInv, NEW c \in OnboardCalls, NEW route \in Routes, NEW contract \in Contracts,
         NEW billing \in BOOLEAN, Onboard(c, route, contract, billing)
  PROVE  OnboardingIInv'
<1>1. PICK change : change = [NoOnboarding EXCEPT !.route = route, !.contract = contract, !.billing = billing,
                  !.at = IF route \in BillingRoutes /\ ~billing THEN "refused" ELSE "hub"]
  OBVIOUS
<1>2. Onboards(c, change) /\ Is(c, "idle")
      /\ onboardOverlap' = (onboardOverlap \/ \E d \in OnboardCalls : UnderWay(d))
      /\ UNCHANGED <<hubKnown, uniqueKey, roaming, customers, dataPull>>
  BY <1>1 DEF Onboard
<1>3. change \in OnboardingCalls /\ change.route = route /\ change.contract = contract
      /\ change.billing = billing /\ change.at \in {"refused", "hub"}
      /\ (change.at = "hub" => billing \/ route \notin BillingRoutes)
  BY <1>1, NoOnboardingType DEF OnboardingCalls, Over
<1>4. \A d \in OnboardCalls : d # c => onboarding'[d] = onboarding[d] /\ KnowsItsRow(d)'
  <2>1. \A row \in roaming : \E now \in roaming' : /\ now.id = row.id /\ now.contract = row.contract
                                                   /\ row.roles \subseteq now.roles
    BY <1>2
  <2>2. customers \subseteq customers'
    BY <1>2
  <2> QED BY <1>2, <2>1, <2>2, OtherCallsKnow
<1>5. onboarding'[c] = change
  BY <1>2 DEF Onboards, OnboardingIInv, OnboardingTypeOK
<1>6. OnboardingTypeOK'
  BY <1>2, <1>3 DEF OnboardingIInv, OnboardingTypeOK, Onboards
<1>7. RowsAreOfCalls'
  <2>1. \A row \in roaming' : row.id \in OnboardCalls => row.id # c
    BY <1>2 DEF OnboardingIInv, RowsAreOfCalls, Is
  <2>2. \A row \in roaming' : row.id \in OnboardCalls =>
            onboarding'[row.id].at \in {"answer", "bill", "ok", "failed"}
    BY <1>2, <1>4, <2>1 DEF OnboardingIInv, RowsAreOfCalls
  <2>3. \A row, other \in roaming' : row.id = other.id \/ uniqueKey' \/ ~onboardOverlap' => row = other
    BY <1>2 DEF OnboardingIInv, RowsAreOfCalls
  <2>4. ~onboardOverlap' => \A d \in OnboardCalls : UnderWay(d)' => d = c
    BY <1>2, <1>4 DEF UnderWay
  <2>5. ~onboardOverlap' => \A d \in OnboardCalls : ~Is(d, "insert")'
    BY <2>4, <1>3, <1>5 DEF UnderWay, Is, Over
  <2> QED BY <2>2, <2>3, <2>4, <2>5 DEF RowsAreOfCalls
<1>8. KnowsItsRow(c)'
  BY <1>3, <1>5 DEF KnowsItsRow, Is
<1> QED BY <1>4, <1>6, <1>7, <1>8 DEF OnboardingIInv

LEMMA FindTenantPartnerKeeps ==
  ASSUME OnboardingIInv, NEW c \in OnboardCalls, FindTenantPartner(c)
  PROVE  OnboardingIInv'
<1>0. onboarding[c] \in OnboardingCalls
  BY DEF OnboardingIInv, OnboardingTypeOK
<1>1. PICK change : change = [onboarding[c] EXCEPT
                  !.at = IF ~hubKnown THEN "refused" ELSE IF Direct(c) THEN "bill" ELSE "find",
                  !.row = IF Direct(c) THEN "direct" ELSE "none"]
  OBVIOUS
<1>2. change \in OnboardingCalls
  BY <1>0, <1>1 DEF OnboardingCalls, Over
<1>3. Onboards(c, change) /\ Is(c, "hub") /\ UNCHANGED <<steady, roaming, customers, dataPull>>
  BY <1>1 DEF FindTenantPartner
<1>4. onboarding'[c] = change
  BY <1>3 DEF Onboards, OnboardingIInv, OnboardingTypeOK
<1>5. KnowsItsRow(c)'
  BY <1>0, <1>1, <1>3, <1>4 DEF KnowsItsRow, Is, Direct, OnboardingIInv, OnboardingCalls
<1>6. change.at \in {"refused", "bill", "find"} /\ onboarding[c].at = "hub"
  BY <1>0, <1>1, <1>3 DEF OnboardingCalls, Is
<1>7. dataPull' \in [OnboardCalls -> {"none", "tariffs", "locations", "ended"}]
      /\ customers' \subseteq PartnerRowIds \cup {"direct"} /\ customers \subseteq customers'
  BY <1>3 DEF OnboardingIInv, OnboardingTypeOK
<1> QED BY <1>2, <1>3, <1>5, <1>6, <1>7, CallMovesOn DEF UnderWay, Over

LEMMA FindExistingKeeps ==
  ASSUME OnboardingIInv, NEW c \in OnboardCalls, FindExisting(c)
  PROVE  OnboardingIInv'
<1>0. onboarding[c] \in OnboardingCalls /\ Is(c, "find") /\ ~Direct(c)
      /\ UNCHANGED <<steady, roaming, customers, dataPull>>
  BY DEF OnboardingIInv, OnboardingTypeOK, FindExisting, KnowsItsRow, Is
<1>1. UnderWay(c) /\ onboarding[c].at = "find"
  BY <1>0 DEF UnderWay, Over, Is
<1>2. dataPull' \in [OnboardCalls -> {"none", "tariffs", "locations", "ended"}]
      /\ customers' \subseteq PartnerRowIds \cup {"direct"} /\ customers \subseteq customers'
  BY <1>0 DEF OnboardingIInv, OnboardingTypeOK
<1>3. KnowsItsRow(c)
  BY DEF OnboardingIInv
<1>4. CASE roaming = {} /\ Onboards(c, [onboarding[c] EXCEPT !.at = "insert"])
  <2>1. PICK change : change = [onboarding[c] EXCEPT !.at = "insert"]
    OBVIOUS
  <2>2. change \in OnboardingCalls /\ change.at = "insert"
    BY <1>0, <2>1 DEF OnboardingCalls, Over
  <2>3. onboarding'[c] = change /\ Onboards(c, change)
    BY <1>4, <2>1 DEF Onboards, OnboardingIInv, OnboardingTypeOK
  <2>4. KnowsItsRow(c)'
    BY <1>0, <1>3, <2>1, <2>3 DEF KnowsItsRow, Is, Direct, OnboardingCalls
  <2> QED BY <1>0, <1>1, <1>2, <1>4, <2>2, <2>3, <2>4, CallMovesOn
<1>5. ASSUME NEW row \in roaming, Onboards(c, FoundPartner(c, row))
      PROVE  OnboardingIInv'
  <2>0. row \in Partnerships
    BY DEF OnboardingIInv, OnboardingTypeOK
  <2>1. PICK change : change = FoundPartner(c, row)
    OBVIOUS
  <2>2. /\ change \in OnboardingCalls /\ change.at \in {"refused", "answer", "append"}
        /\ change.route = onboarding[c].route /\ change.contract = onboarding[c].contract
        /\ change.billing = onboarding[c].billing
        /\ change.at # "refused" => change.row = row.id /\ row.contract = change.contract
        /\ change.at = "answer" => RoleOf(change.route) \in row.roles
    BY <1>0, <2>0, <2>1 DEF FoundPartner, OnboardingCalls, Partnerships, Over, Outcomes
  <2>3. onboarding'[c] = change /\ Onboards(c, change)
    BY <1>5, <2>1 DEF Onboards, OnboardingIInv, OnboardingTypeOK
  <2>4. KnowsItsRow(c)'
    <3>1. \E r \in roaming' : change.at # "refused" =>
             /\ r.id = onboarding'[c].row /\ r.contract = onboarding'[c].contract
             /\ Is(c, "append")' \/ RoleOf(onboarding'[c].route) \in r.roles
      BY <1>0, <2>2, <2>3 DEF Is
    <3>2. ~Direct(c)'
      BY <1>0, <2>2, <2>3 DEF Direct
    <3> QED BY <1>0, <1>1, <1>3, <2>2, <2>3, <3>1, <3>2 DEF KnowsItsRow, Is, RoleOf
  <2> QED BY <1>0, <1>1, <1>2, <2>2, <2>3, <2>4, CallMovesOn
<1> QED BY <1>4, <1>5 DEF FindExisting

LEMMA CreateRoamingPartnerKeeps ==
  ASSUME OnboardingIInv, NEW c \in OnboardCalls, CreateRoamingPartner(c)
  PROVE  OnboardingIInv'
<1>0. onboarding[c] \in OnboardingCalls /\ Is(c, "insert") /\ ~Direct(c)
      /\ UNCHANGED <<steady, customers, dataPull>>
  BY DEF OnboardingIInv, OnboardingTypeOK, CreateRoamingPartner, KnowsItsRow, Is
<1>1. UnderWay(c) /\ onboarding[c].at = "insert"
  BY <1>0 DEF UnderWay, Over, Is
<1>2. dataPull' \in [OnboardCalls -> {"none", "tariffs", "locations", "ended"}]
      /\ customers' \subseteq PartnerRowIds \cup {"direct"} /\ customers \subseteq customers'
  BY <1>0 DEF OnboardingIInv, OnboardingTypeOK
<1>3. KnowsItsRow(c)
  BY DEF OnboardingIInv
<1>4. CASE uniqueKey /\ roaming # {}
  <2>1. PICK change : change = [onboarding[c] EXCEPT !.at = "failed"]
    OBVIOUS
  <2>2. change \in OnboardingCalls /\ change.at = "failed"
    BY <1>0, <2>1 DEF OnboardingCalls, Over
  <2>3. onboarding'[c] = change /\ Onboards(c, change) /\ UNCHANGED roaming
    BY <1>4, <2>1 DEF Onboards, OnboardingIInv, OnboardingTypeOK, CreateRoamingPartner
  <2>4. KnowsItsRow(c)'
    BY <1>0, <1>1, <1>3, <2>1, <2>3 DEF KnowsItsRow, Is, Direct, OnboardingCalls
  <2> QED BY <1>0, <1>1, <1>2, <2>2, <2>3, <2>4, CallMovesOn
<1>5. CASE ~(uniqueKey /\ roaming # {})
  <2>1. PICK change : change = [onboarding[c] EXCEPT !.at = "answer", !.row = c, !.outcome = "created"]
    OBVIOUS
  <2>2. PICK made : made = [id |-> c, contract |-> onboarding[c].contract, roles |-> {RoleOf(onboarding[c].route)}]
    OBVIOUS
  <2>3. Onboards(c, change) /\ roaming' = roaming \cup {made}
    BY <1>5, <2>1, <2>2 DEF CreateRoamingPartner
  <2>4. onboarding'[c] = change
    BY <2>3 DEF Onboards, OnboardingIInv, OnboardingTypeOK
  <2>5. change \in OnboardingCalls /\ change.at = "answer" /\ change.row = c
        /\ change.route = onboarding[c].route /\ change.contract = onboarding[c].contract
        /\ change.billing = onboarding[c].billing
    BY <1>0, <2>1 DEF OnboardingCalls, Over, Outcomes, PartnerRowIds
  <2>6. made \in Partnerships /\ made.id = c /\ made.contract = onboarding[c].contract
        /\ RoleOf(onboarding[c].route) \in made.roles
    BY <1>1, <1>3, <2>2 DEF Partnerships, PartnerRowIds, KnowsItsRow, RoleOf, Is
  <2>7. \A d \in OnboardCalls : d # c => onboarding'[d] = onboarding[d] /\ KnowsItsRow(d)'
    <3>1. \A row \in roaming : row \in roaming'
      BY <2>3
    <3>2. \A row \in roaming : \E now \in roaming' : /\ now.id = row.id /\ now.contract = row.contract
                                                     /\ row.roles \subseteq now.roles
      BY <3>1
    <3> QED BY <1>2, <2>3, <3>2, OtherCallsKnow
  <2>8. OnboardingTypeOK'
    BY <1>0, <1>2, <2>3, <2>5, <2>6 DEF OnboardingIInv, OnboardingTypeOK, Onboards, steady
  <2>9. RowsAreOfCalls'
    <3>1. \A row \in roaming : row.id # c
      BY <1>1 DEF OnboardingIInv, RowsAreOfCalls
    <3>2. \A row \in roaming' : row.id \in OnboardCalls =>
            onboarding'[row.id].at \in {"answer", "bill", "ok", "failed"}
      BY <2>3, <2>4, <2>5, <2>6, <2>7, <3>1 DEF OnboardingIInv, RowsAreOfCalls
    <3>3. uniqueKey \/ ~onboardOverlap => roaming = {}
      BY <1>0, <1>5 DEF OnboardingIInv, RowsAreOfCalls
    <3>4. \A row, other \in roaming' : row.id = other.id \/ uniqueKey' \/ ~onboardOverlap' => row = other
      BY <1>0, <2>3, <2>6, <3>1, <3>3 DEF OnboardingIInv, RowsAreOfCalls, steady
    <3>5. ~onboardOverlap' => \A d, e \in OnboardCalls : UnderWay(d)' /\ UnderWay(e)' => d = e
      BY <1>0, <1>1, <2>3, OneCallStays DEF steady
    <3>6. ~onboardOverlap' => \A d \in OnboardCalls : ~Is(d, "insert")'
      <4>1. \A d \in OnboardCalls : Is(d, "insert")' => UnderWay(d)'
        BY DEF Is, UnderWay, Over
      <4>2. UnderWay(c)' /\ ~Is(c, "insert")'
        BY <2>4, <2>5 DEF UnderWay, Over, Is
      <4> QED BY <3>5, <4>1, <4>2
    <3> QED BY <3>2, <3>4, <3>5, <3>6 DEF RowsAreOfCalls
  <2>10. KnowsItsRow(c)'
    <3>1. made \in roaming'
      BY <2>3
    <3>2. ~Direct(c)'
      BY <1>0, <2>4, <2>5 DEF Direct
    <3>3. \E row \in roaming' : /\ row.id = onboarding'[c].row /\ row.contract = onboarding'[c].contract
                                /\ Is(c, "append")' \/ RoleOf(onboarding'[c].route) \in row.roles
      BY <2>4, <2>5, <2>6, <3>1
    <3> QED BY <1>1, <1>3, <2>4, <2>5, <3>2, <3>3 DEF KnowsItsRow, Is, RoleOf
  <2> QED BY <2>7, <2>8, <2>9, <2>10 DEF OnboardingIInv
<1> QED BY <1>4, <1>5

LEMMA AddRoleKeeps ==
  ASSUME OnboardingIInv, NEW c \in OnboardCalls, AddRole(c)
  PROVE  OnboardingIInv'
<1>0. onboarding[c] \in OnboardingCalls /\ Is(c, "append") /\ ~Direct(c)
      /\ UNCHANGED <<steady, customers, dataPull>>
  BY DEF OnboardingIInv, OnboardingTypeOK, AddRole, KnowsItsRow, Is
<1>1. UnderWay(c) /\ onboarding[c].at = "append"
  BY <1>0 DEF UnderWay, Over, Is
<1>2. dataPull' \in [OnboardCalls -> {"none", "tariffs", "locations", "ended"}]
      /\ customers' \subseteq PartnerRowIds \cup {"direct"} /\ customers \subseteq customers'
  BY <1>0 DEF OnboardingIInv, OnboardingTypeOK
<1>3. KnowsItsRow(c)
  BY DEF OnboardingIInv
<1>4. PICK role : role = RoleOf(onboarding[c].route)
  OBVIOUS
<1>5. PICK row \in roaming :
        /\ row.id = onboarding[c].row
        /\ roaming' = (roaming \ {row}) \cup {WithRole(row, role)}
        /\ Onboards(c, [onboarding[c] EXCEPT !.at = "answer",
                      !.outcome = IF role \in row.roles THEN "unchanged" ELSE "role_added"])
  BY <1>4 DEF AddRole
<1>6. PICK made : made = WithRole(row, role)
  OBVIOUS
<1>7. PICK change : change = [onboarding[c] EXCEPT !.at = "answer",
                      !.outcome = IF role \in row.roles THEN "unchanged" ELSE "role_added"]
  OBVIOUS
<1>8. row \in Partnerships
  BY DEF OnboardingIInv, OnboardingTypeOK
<1>9. made \in Partnerships /\ made.id = row.id /\ made.contract = row.contract
      /\ made.roles = row.roles \cup {role}
  BY <1>4, <1>6, <1>8 DEF WithRole, Partnerships, RoleOf
<1>10. roaming' = (roaming \ {row}) \cup {made} /\ Onboards(c, change)
  BY <1>5, <1>6, <1>7
<1>11. change \in OnboardingCalls /\ change.at = "answer" /\ change.row = onboarding[c].row
       /\ change.route = onboarding[c].route /\ change.contract = onboarding[c].contract
       /\ change.billing = onboarding[c].billing
  BY <1>0, <1>7 DEF OnboardingCalls, Over, Outcomes
<1>12. onboarding'[c] = change
  BY <1>10 DEF Onboards, OnboardingIInv, OnboardingTypeOK
<1>13. \A r \in roaming : \E now \in roaming' : /\ now.id = r.id /\ now.contract = r.contract
                                                /\ r.roles \subseteq now.roles
  <2> SUFFICES ASSUME NEW r \in roaming
               PROVE  \E now \in roaming' : /\ now.id = r.id /\ now.contract = r.contract
                                            /\ r.roles \subseteq now.roles
    OBVIOUS
  <2>1. CASE r = row
    BY <2>1, <1>9, <1>10
  <2>2. CASE r # row
    BY <2>2, <1>10
  <2> QED BY <2>1, <2>2
<1>14. \A d \in OnboardCalls : d # c => onboarding'[d] = onboarding[d] /\ KnowsItsRow(d)'
  BY <1>2, <1>10, <1>13, OtherCallsKnow
<1>15. OnboardingTypeOK'
  BY <1>0, <1>2, <1>9, <1>10, <1>11 DEF OnboardingIInv, OnboardingTypeOK, Onboards, steady
<1>16. RowsAreOfCalls'
  <2>1. \A r \in roaming' : \E old \in roaming : r.id = old.id
    BY <1>9, <1>10
  <2>2. \A r \in roaming' : r.id \in OnboardCalls =>
            onboarding'[r.id].at \in {"answer", "bill", "ok", "failed"}
    BY <1>11, <1>12, <1>14, <2>1 DEF OnboardingIInv, RowsAreOfCalls
  <2>3. \A r, other \in roaming' : r.id = other.id \/ uniqueKey' \/ ~onboardOverlap' => r = other
    <3> SUFFICES ASSUME NEW r \in roaming', NEW other \in roaming',
                        r.id = other.id \/ uniqueKey' \/ ~onboardOverlap'
                 PROVE  r = other
      OBVIOUS
    <3>1. \A q \in roaming : r.id = q.id \/ uniqueKey \/ ~onboardOverlap =>
             \A p \in roaming : p.id = q.id \/ uniqueKey \/ ~onboardOverlap => p = q
      BY DEF OnboardingIInv, RowsAreOfCalls
    <3>2. \A q \in roaming : q.id = row.id \/ uniqueKey \/ ~onboardOverlap => q = row
      BY DEF OnboardingIInv, RowsAreOfCalls
    <3>3. uniqueKey' = uniqueKey /\ onboardOverlap' = onboardOverlap
      BY <1>0 DEF steady
    <3>4. CASE r = made
      BY <3>2, <3>3, <3>4, <1>9, <1>10
    <3>5. CASE other = made
      BY <3>2, <3>3, <3>5, <1>9, <1>10
    <3>6. CASE r \in roaming /\ other \in roaming
      BY <3>3, <3>6 DEF OnboardingIInv, RowsAreOfCalls
    <3> QED BY <3>4, <3>5, <3>6, <1>10
  <2>4. ~onboardOverlap' => \A d, e \in OnboardCalls : UnderWay(d)' /\ UnderWay(e)' => d = e
    BY <1>0, <1>1, <1>10, OneCallStays DEF steady
  <2>5. ~onboardOverlap' => \A d \in OnboardCalls : ~Is(d, "insert")'
    <3>1. \A d \in OnboardCalls : Is(d, "insert")' => UnderWay(d)'
      BY DEF Is, UnderWay, Over
    <3>2. UnderWay(c)' /\ ~Is(c, "insert")'
      BY <1>11, <1>12 DEF UnderWay, Over, Is
    <3> QED BY <2>4, <3>1, <3>2
  <2> QED BY <2>2, <2>3, <2>4, <2>5 DEF RowsAreOfCalls
<1>17. KnowsItsRow(c)'
  <2>1. ~Direct(c)'
    BY <1>0, <1>11, <1>12 DEF Direct
  <2>2. PICK known \in roaming : known.id = onboarding[c].row /\ known.contract = onboarding[c].contract
    BY <1>0, <1>1, <1>3 DEF KnowsItsRow
  <2>3. known = row
    BY <1>5, <2>2 DEF OnboardingIInv, RowsAreOfCalls
  <2>4. \E r \in roaming' : /\ r.id = onboarding'[c].row /\ r.contract = onboarding'[c].contract
                            /\ Is(c, "append")' \/ RoleOf(onboarding'[c].route) \in r.roles
    BY <1>4, <1>5, <1>9, <1>10, <1>11, <1>12, <2>2, <2>3
  <2> QED BY <1>1, <1>3, <1>11, <1>12, <2>1, <2>4 DEF KnowsItsRow, Is, RoleOf
<1> QED BY <1>14, <1>15, <1>16, <1>17 DEF OnboardingIInv

LEMMA AnswerUpsertKeeps ==
  ASSUME OnboardingIInv, NEW c \in OnboardCalls, AnswerUpsert(c)
  PROVE  OnboardingIInv'
<1>0. onboarding[c] \in OnboardingCalls /\ Is(c, "answer") /\ ~Direct(c)
      /\ UNCHANGED <<steady, roaming, customers>>
  BY DEF OnboardingIInv, OnboardingTypeOK, AnswerUpsert, KnowsItsRow, Is
<1>1. UnderWay(c) /\ onboarding[c].at = "answer"
  BY <1>0 DEF UnderWay, Over, Is
<1>2. dataPull' \in [OnboardCalls -> {"none", "tariffs", "locations", "ended"}]
      /\ customers' \subseteq PartnerRowIds \cup {"direct"} /\ customers \subseteq customers'
  BY <1>0 DEF OnboardingIInv, OnboardingTypeOK, AnswerUpsert
<1>3. KnowsItsRow(c)
  BY DEF OnboardingIInv
<1>4. PICK change : change = [onboarding[c] EXCEPT
                  !.at = IF onboarding[c].route \in BillingRoutes THEN "bill" ELSE "ok"]
  OBVIOUS
<1>5. change \in OnboardingCalls /\ change.at \in {"bill", "ok"}
      /\ (change.at = "ok" => onboarding[c].route \notin BillingRoutes)
      /\ change.row = onboarding[c].row
      /\ change.route = onboarding[c].route /\ change.contract = onboarding[c].contract
      /\ change.billing = onboarding[c].billing
  BY <1>0, <1>4 DEF OnboardingCalls, Over
<1>6. Onboards(c, change)
  BY <1>4 DEF AnswerUpsert
<1>7. onboarding'[c] = change
  BY <1>6 DEF Onboards, OnboardingIInv, OnboardingTypeOK
<1>8. KnowsItsRow(c)'
  <2>1. ~Direct(c)'
    BY <1>0, <1>5, <1>7 DEF Direct
  <2>2. \E r \in roaming' : /\ r.id = onboarding'[c].row /\ r.contract = onboarding'[c].contract
                            /\ RoleOf(onboarding'[c].route) \in r.roles
    BY <1>0, <1>1, <1>3, <1>5, <1>7 DEF KnowsItsRow, Is
  <2> QED BY <1>1, <1>3, <1>5, <1>7, <2>1, <2>2 DEF KnowsItsRow, Is, RoleOf
<1> QED BY <1>0, <1>1, <1>2, <1>5, <1>6, <1>8, CallMovesOn

LEMMA CreateCompanyCustomerKeeps ==
  ASSUME OnboardingIInv, NEW c \in OnboardCalls, CreateCompanyCustomer(c)
  PROVE  OnboardingIInv'
<1>0. onboarding[c] \in OnboardingCalls /\ onboarding[c].at = "bill"
      /\ UNCHANGED <<steady, roaming, dataPull>>
  BY DEF OnboardingIInv, OnboardingTypeOK, CreateCompanyCustomer, Is
<1>1. UnderWay(c)
  BY <1>0 DEF UnderWay, Over
<1>2. KnowsItsRow(c)
  BY DEF OnboardingIInv
<1>3. onboarding[c].row \in PartnerRowIds \cup {"direct"}
  <2>1. CASE Direct(c)
    BY <1>0, <1>2, <2>1 DEF KnowsItsRow, Is
  <2>2. CASE ~Direct(c)
    BY <1>0, <1>2, <2>2 DEF KnowsItsRow, OnboardingIInv, OnboardingTypeOK, Partnerships
  <2> QED BY <2>1, <2>2
<1>4. PICK at \in {"ok", "failed"} :
        /\ Onboards(c, [onboarding[c] EXCEPT !.at = at])
        /\ customers' \in {customers, customers \cup {onboarding[c].row}}
        /\ at = "ok" => onboarding[c].row \in customers'
  <2>1. CASE /\ customers' = customers \cup {onboarding[c].row}
             /\ \E at \in {"ok", "failed"} : Onboards(c, [onboarding[c] EXCEPT !.at = at])
    BY <2>1
  <2>2. CASE /\ onboarding[c].row \in customers /\ UNCHANGED customers
             /\ Onboards(c, [onboarding[c] EXCEPT !.at = IF Direct(c) THEN "failed" ELSE "ok"])
    <3>1. PICK at : at = IF Direct(c) THEN "failed" ELSE "ok"
      OBVIOUS
    <3>2. Onboards(c, [onboarding[c] EXCEPT !.at = at]) /\ at \in {"ok", "failed"}
      BY <2>2, <3>1
    <3> QED BY <2>2, <3>2
  <2>3. CASE UNCHANGED customers /\ Onboards(c, [onboarding[c] EXCEPT !.at = "failed"])
    BY <2>3
  <2> QED BY <2>1, <2>2, <2>3 DEF CreateCompanyCustomer
<1>5. PICK change : change = [onboarding[c] EXCEPT !.at = at]
  OBVIOUS
<1>6. change \in OnboardingCalls /\ change.at \in {"ok", "failed"} /\ change.at = at
      /\ change.row = onboarding[c].row
      /\ change.route = onboarding[c].route /\ change.contract = onboarding[c].contract
      /\ change.billing = onboarding[c].billing
  BY <1>0, <1>5 DEF OnboardingCalls, Over
<1>7. onboarding'[c] = change /\ Onboards(c, change)
  BY <1>4, <1>5 DEF Onboards, OnboardingIInv, OnboardingTypeOK
<1>8. /\ customers' \subseteq PartnerRowIds \cup {"direct"} /\ customers \subseteq customers'
      /\ dataPull' \in [OnboardCalls -> {"none", "tariffs", "locations", "ended"}]
  BY <1>0, <1>3, <1>4 DEF OnboardingIInv, OnboardingTypeOK
<1>9. KnowsItsRow(c)'
  <2>1. Direct(c)' = Direct(c)
    BY <1>6, <1>7 DEF Direct
  <2>2. ~Direct(c) => \E r \in roaming' : /\ r.id = onboarding'[c].row
                                          /\ r.contract = onboarding'[c].contract
                                          /\ RoleOf(onboarding'[c].route) \in r.roles
    BY <1>0, <1>2, <1>6, <1>7 DEF KnowsItsRow, Is
  <2>3. Is(c, "ok")' => onboarding'[c].row \in customers'
    BY <1>4, <1>6, <1>7 DEF Is
  <2> QED BY <1>0, <1>2, <1>6, <1>7, <2>1, <2>2, <2>3 DEF KnowsItsRow, Is, RoleOf
<1> QED BY <1>0, <1>1, <1>6, <1>7, <1>8, <1>9, CallMovesOn

LEMMA CallFailsAtKeeps ==
  ASSUME OnboardingIInv, NEW c \in OnboardCalls, CallFailsAt(c)
  PROVE  OnboardingIInv'
<1>0. onboarding[c] \in OnboardingCalls
      /\ onboarding[c].at \in {"hub", "find", "insert", "append", "answer"}
      /\ UNCHANGED <<steady, roaming, customers, dataPull>>
  BY DEF OnboardingIInv, OnboardingTypeOK, CallFailsAt
<1>1. UnderWay(c)
  BY <1>0 DEF UnderWay, Over
<1>2. /\ customers' \subseteq PartnerRowIds \cup {"direct"} /\ customers \subseteq customers'
      /\ dataPull' \in [OnboardCalls -> {"none", "tariffs", "locations", "ended"}]
  BY <1>0 DEF OnboardingIInv, OnboardingTypeOK
<1>3. PICK change : change = [onboarding[c] EXCEPT !.at = "failed"]
  OBVIOUS
<1>4. change \in OnboardingCalls /\ change.at = "failed"
      /\ change.route = onboarding[c].route /\ change.contract = onboarding[c].contract
      /\ change.billing = onboarding[c].billing
  BY <1>0, <1>3 DEF OnboardingCalls, Over
<1>5. onboarding'[c] = change /\ Onboards(c, change)
  BY <1>3 DEF Onboards, OnboardingIInv, OnboardingTypeOK, CallFailsAt
<1>6. KnowsItsRow(c)
  BY DEF OnboardingIInv
<1>7. KnowsItsRow(c)'
  BY <1>0, <1>4, <1>5, <1>6 DEF KnowsItsRow, Is, Direct
<1> QED BY <1>0, <1>1, <1>2, <1>4, <1>5, <1>7, CallMovesOn

LEMMA DataPullKeeps ==
  ASSUME OnboardingIInv, UNCHANGED <<steady, roaming, customers, onboarding>>,
         dataPull' \in [OnboardCalls -> {"none", "tariffs", "locations", "ended"}]
  PROVE  OnboardingIInv'
<1>1. OnboardingTypeOK'
  BY DEF OnboardingIInv, OnboardingTypeOK, steady
<1>2. RowsAreOfCalls'
  BY DEF OnboardingIInv, RowsAreOfCalls, steady, UnderWay, Is
<1>3. \A c \in OnboardCalls : KnowsItsRow(c)'
  BY DEF OnboardingIInv, KnowsItsRow, Direct, Is
<1> QED BY <1>1, <1>2, <1>3 DEF OnboardingIInv

LEMMA OnboardingStep == OnboardingIInv /\ [OnboardingNext]_onboardingVars => OnboardingIInv'
<1> SUFFICES ASSUME OnboardingIInv, [OnboardingNext]_onboardingVars PROVE OnboardingIInv'
  OBVIOUS
<1>1. CASE UNCHANGED onboardingVars
  <2>1. dataPull' = dataPull /\ UNCHANGED <<steady, roaming, customers, onboarding>>
    BY <1>1 DEF onboardingVars, steady
  <2> QED BY <2>1, DataPullKeeps DEF OnboardingIInv, OnboardingTypeOK
<1>2. CASE OnboardingNext
  <2>1. PICK c \in OnboardCalls : AdminActs(c)
    BY <1>2 DEF OnboardingNext
  <2>2. CASE \E route \in Routes, contract \in Contracts, billing \in BOOLEAN :
               (billing \/ route \in BillingRoutes) /\ Onboard(c, route, contract, billing)
    BY <2>2, OnboardKeeps
  <2>3. CASE PullGoesOn(c)
    <3>1. dataPull' \in [OnboardCalls -> {"none", "tariffs", "locations", "ended"}]
      BY <2>3 DEF PullGoesOn, OnboardingIInv, OnboardingTypeOK
    <3> QED BY <2>3, <3>1, DataPullKeeps DEF PullGoesOn
  <2>4. CASE PullFails(c)
    <3>1. dataPull' \in [OnboardCalls -> {"none", "tariffs", "locations", "ended"}]
      BY <2>4 DEF PullFails, OnboardingIInv, OnboardingTypeOK
    <3> QED BY <2>4, <3>1, DataPullKeeps DEF PullFails
  <2> QED BY <2>1, <2>2, <2>3, <2>4, FindTenantPartnerKeeps, FindExistingKeeps, CreateRoamingPartnerKeeps,
             AddRoleKeeps, AnswerUpsertKeeps, CreateCompanyCustomerKeeps, CallFailsAtKeeps DEF AdminActs
<1> QED BY <1>1, <1>2

\* What an administrator was told of a partner behind a hub stays true whatever calls overlap or
\* break off, and there is one row of it with a unique key, or if calls do not overlap.
THEOREM PartnersAreOnboarded == OnboardingSpec => [](OnboardingIInv /\ OneRoamingPartner /\ OnboardedAsTold)
<1>1. OnboardingIInv => OneRoamingPartner
  <2> SUFFICES ASSUME OnboardingIInv PROVE OneRoamingPartner
    OBVIOUS
  <2>1. uniqueKey \/ ~onboardOverlap => Cardinality(roaming) <= 1
    BY AtMostOneRow DEF OnboardingIInv, RowsAreOfCalls
  <2>2. \A row \in roaming : row.id \in OnboardCalls =>
           onboarding[row.id].billing \/ onboarding[row.id].route \notin BillingRoutes
    BY DEF OnboardingIInv, RowsAreOfCalls, KnowsItsRow
  <2> QED BY <2>1, <2>2 DEF OneRoamingPartner
<1>2. OnboardingIInv => OnboardedAsTold
  BY DEF OnboardingIInv, KnowsItsRow, OnboardedAsTold, Is
<1> QED BY <1>1, <1>2, OnboardingStarts, OnboardingStep, PTL DEF OnboardingSpec

-----------------------------------------------------------------------------
(* The scripts that remove a partner's rows *)

\* TheirRows is the least set that holds the rows naming the partner and those made under its.
LEMMA TheirRowsClosed == ClosedBelow(TheirRows)
<1> SUFFICES ASSUME NEW r \in CleanRows, PartnerIdOf[r] = Cleaned \/ RefersTo[r] \cap TheirRows # {},
                    NEW above \in SUBSET CleanRows, ClosedBelow(above)
             PROVE  r \in above
  BY DEF ClosedBelow, TheirRows
<1>1. TheirRows \subseteq above
  BY DEF TheirRows
<1> QED BY <1>1 DEF ClosedBelow

LEMMA TheirRowsFrom ==
  \A r \in TheirRows : PartnerIdOf[r] = Cleaned \/ RefersTo[r] \cap TheirRows # {}
<1> DEFINE made == {r \in CleanRows : PartnerIdOf[r] = Cleaned \/ RefersTo[r] \cap TheirRows # {}}
<1>1. made \subseteq TheirRows
  BY TheirRowsClosed DEF ClosedBelow
<1>2. ClosedBelow(made)
  <2> SUFFICES ASSUME NEW r \in CleanRows, PartnerIdOf[r] = Cleaned \/ RefersTo[r] \cap made # {}
               PROVE  r \in made
    BY DEF ClosedBelow
  <2>1. RefersTo[r] \cap made # {} => RefersTo[r] \cap TheirRows # {}
    BY <1>1
  <2> QED BY <2>1
<1>3. made \in SUBSET CleanRows
  OBVIOUS
<1> HIDE DEF made
<1>4. TheirRows \subseteq made
  BY <1>2, <1>3 DEF TheirRows
<1> QED BY <1>4 DEF made

LEMMA TheirRowsAreRows == TheirRows \subseteq CleanRows
BY DEF TheirRows

LEMMA HowRowsAreMade ==
  ASSUME NEW r \in CleanRows
  PROVE  /\ TableOf[r] = "stations" =>
              PartnerIdOf[r] # Cleaned /\ \A p \in RefersTo[r] : TableOf[p] = "locations"
         /\ TableOf[r] = "evses" =>
              PartnerIdOf[r] # Cleaned /\ \A p \in RefersTo[r] : TableOf[p] = "stations"
         /\ TableOf[r] = "connectors" =>
              /\ PartnerIdOf[r] # Cleaned
              /\ \A p \in RefersTo[r] : \/ TableOf[p] = "stations"
                                        \/ TableOf[p] = "evses" /\ RefersTo[p] \subseteq RefersTo[r]
         /\ TableOf[r] \in {"locations", "links", "tariffs"} =>
              PartnerIdOf[r] = Cleaned \/ RefersTo[r] \cap TheirRows = {}
<1>1. CASE TableOf[r] = "stations"
  BY <1>1, RowsAreMadeSo
<1>2. CASE TableOf[r] = "evses"
  BY <1>2, RowsAreMadeSo
<1>3. CASE TableOf[r] = "connectors"
  BY <1>3, RowsAreMadeSo
<1>4. CASE TableOf[r] \in {"locations", "links", "tariffs"}
  BY <1>4, RowsAreMadeSo
<1>5. TableOf[r] \in CleanTables
  BY CleanupAssumption
<1> QED BY <1>1, <1>2, <1>3, <1>4, <1>5 DEF CleanTables

\* What falls with deleted rows: no row that is left refers to one of them.
LEMMA FallingIs ==
  ASSUME NEW ids \in SUBSET present
  PROVE  /\ ids \subseteq Falling(ids) /\ Falling(ids) \subseteq present
         /\ Falls(Falling(ids))
         /\ \A those \in SUBSET present : ids \subseteq those /\ Falls(those) => Falling(ids) \subseteq those
<1>1. ids \subseteq Falling(ids) /\ Falling(ids) \subseteq present
  BY DEF Falling
<1>2. \A those \in SUBSET present : ids \subseteq those /\ Falls(those) => Falling(ids) \subseteq those
  BY DEF Falling
<1>3. Falls(Falling(ids))
  <2> SUFFICES ASSUME NEW r \in present, refersNow[r] \cap Falling(ids) # {},
                      NEW those \in SUBSET present, ids \subseteq those, Falls(those)
               PROVE  r \in those
    BY DEF Falling, Falls
  <2>1. Falling(ids) \subseteq those
    BY <1>2
  <2> QED BY <2>1 DEF Falls
<1> QED BY <1>1, <1>2, <1>3

\* Of the rows of a table a script takes those of its tenant, and that is all of the partner's or
\* none.
LEMMA TakenOf ==
  ASSUME NEW those, NEW tenant
  PROVE  /\ OfTenant(those, tenant) \subseteq those
         /\ \A r \in OfTenant(those, tenant) : TenantOf[r] = tenant
         /\ tenant = TenantOfCleaned => those \cap TheirRows \subseteq OfTenant(those, tenant)
<1>1. OfTenant(those, tenant) \subseteq those /\ \A r \in OfTenant(those, tenant) : TenantOf[r] = tenant
  BY DEF OfTenant
<1>2. \A r \in TheirRows : TenantOf[r] = TenantOfCleaned
  BY RowsAreMadeSo
<1> QED BY <1>1, <1>2 DEF OfTenant

\* A script finds none but the partner's rows of its table.
LEMMA FoundAreTheirs ==
  ASSUME CleanupTypeOK, \A r \in CleanRows : refersNow[r] \subseteq RefersTo[r],
         NEW table \in CleanTables, NEW tenant
  PROVE  /\ FoundBy(table, tenant) \subseteq {r \in TheirRows : TableOf[r] = table}
         /\ FoundBy(table, tenant) \subseteq present
         /\ \A r \in FoundBy(table, tenant) : TenantOf[r] = tenant
<1> DEFINE ofPartner(t) == {r \in TheirRows : TableOf[r] = t} \cap present
<1>1. \A r \in CleanRows : PartnerIdOf[r] = Cleaned \/ RefersTo[r] \cap TheirRows # {} => r \in TheirRows
  BY TheirRowsClosed DEF ClosedBelow
<1>2. present \subseteq CleanRows
  BY DEF CleanupTypeOK
<1>3. \A t : Named(t) \subseteq ofPartner(t)
  BY <1>1, <1>2 DEF Named, Those
<1>4. ASSUME NEW t, NEW parents, parents \subseteq TheirRows
      PROVE  Under(t, parents) \subseteq ofPartner(t)
  <2> SUFFICES ASSUME NEW r \in Under(t, parents)
               PROVE  r \in TheirRows /\ TableOf[r] = t /\ r \in present
    OBVIOUS
  <2>1. r \in present /\ TableOf[r] = t /\ refersNow[r] \cap parents # {}
    BY DEF Under, Those
  <2>2. RefersTo[r] \cap TheirRows # {}
    BY <1>2, <1>4, <2>1
  <2> QED BY <1>1, <1>2, <2>1, <2>2
<1>5. OwnedStations \subseteq ofPartner("stations")
  <2>1. Named("locations") \subseteq TheirRows
    BY <1>3
  <2> QED BY <1>4, <2>1 DEF OwnedStations
<1>6. Under("evses", OwnedStations) \subseteq ofPartner("evses")
      /\ Under("connectors", OwnedStations) \subseteq ofPartner("connectors")
  <2>1. OwnedStations \subseteq TheirRows
    BY <1>5
  <2> QED BY <1>4, <2>1
<1> HIDE DEF ofPartner
<1>7. FoundBy(table, tenant) \subseteq ofPartner(table) /\ \A r \in FoundBy(table, tenant) : TenantOf[r] = tenant
  <2>1. CASE table = "locations"
    BY <1>3, <2>1, TakenOf DEF FoundBy, LocationRows
  <2>2. CASE table = "stations"
    BY <1>5, <2>2, TakenOf DEF FoundBy, StationRows
  <2>3. CASE table = "evses"
    BY <1>6, <2>3, TakenOf DEF FoundBy, EvseRowsOfPartner
  <2>4. CASE table = "connectors"
    BY <1>6, <2>4, TakenOf DEF FoundBy, ConnectorRows
  <2>5. CASE table = "links"
    BY <1>3, <2>5, TakenOf DEF FoundBy, LinkRows
  <2>6. CASE table = "tariffs"
    BY <1>3, <2>6, TakenOf DEF FoundBy, TariffRows
  <2> QED BY <2>1, <2>2, <2>3, <2>4, <2>5, <2>6 DEF CleanTables
<1> QED BY <1>7 DEF ofPartner

\* And it finds all of them, run for their tenant, as long as rows refer to what they were made
\* under.
LEMMA TheirsAreFound ==
  ASSUME CleanupTypeOK, \A r \in present : refersNow[r] = RefersTo[r] /\ RefersTo[r] \subseteq present,
         NEW table \in CleanTables
  PROVE  Those(table) \cap TheirRows \subseteq FoundBy(table, TenantOfCleaned)
<1> SUFFICES ASSUME NEW r \in Those(table), r \in TheirRows PROVE r \in FoundBy(table, TenantOfCleaned)
  OBVIOUS
<1>0. \A those : r \in those => r \in OfTenant(those, TenantOfCleaned)
  BY TakenOf
<1>1. r \in present /\ TableOf[r] = table /\ present \subseteq CleanRows
  BY DEF Those, CleanupTypeOK
<1>2. PartnerIdOf[r] = Cleaned \/ \E p \in RefersTo[r] : p \in TheirRows
  BY TheirRowsFrom
<1>3. \A q \in present : TableOf[q] = "locations" /\ q \in TheirRows => q \in Named("locations")
  BY <1>1, TheirRowsFrom, HowRowsAreMade DEF Named, Those
<1>4. \A q \in present : TableOf[q] = "stations" /\ q \in TheirRows => q \in OwnedStations
  <2> SUFFICES ASSUME NEW q \in present, TableOf[q] = "stations", q \in TheirRows PROVE q \in OwnedStations
    OBVIOUS
  <2>1. PICK p \in RefersTo[q] : p \in TheirRows
    BY <1>1, TheirRowsFrom, HowRowsAreMade
  <2>2. p \in present /\ TableOf[p] = "locations"
    BY <1>1, HowRowsAreMade
  <2>3. p \in refersNow[q] \cap Named("locations")
    BY <1>3, <2>1, <2>2
  <2> QED BY <2>3 DEF OwnedStations, Under, Those
<1>5. \A q \in present : TableOf[q] = "evses" /\ q \in TheirRows =>
         \E p \in RefersTo[q] : p \in OwnedStations
  <2> SUFFICES ASSUME NEW q \in present, TableOf[q] = "evses", q \in TheirRows
               PROVE  \E p \in RefersTo[q] : p \in OwnedStations
    OBVIOUS
  <2>1. PICK p \in RefersTo[q] : p \in TheirRows
    BY <1>1, TheirRowsFrom, HowRowsAreMade
  <2>2. p \in present /\ TableOf[p] = "stations"
    BY <1>1, HowRowsAreMade
  <2> QED BY <1>4, <2>1, <2>2
<1>6. CASE table = "evses"
  <2>1. PICK p \in RefersTo[r] : p \in OwnedStations
    BY <1>1, <1>5, <1>6
  <2>2. p \in refersNow[r] \cap OwnedStations
    BY <1>1, <2>1
  <2>3. r \in Under("evses", OwnedStations)
    BY <1>6, <2>2 DEF Under
  <2> QED BY <1>0, <1>6, <2>3 DEF FoundBy, EvseRowsOfPartner
<1>7. CASE table = "connectors"
  <2>1. \E p \in RefersTo[r] : p \in OwnedStations
    <3>1. PICK p \in RefersTo[r] : p \in TheirRows
      BY <1>1, <1>2, <1>7, HowRowsAreMade
    <3>2. p \in present
      BY <1>1
    <3>3. CASE TableOf[p] = "stations"
      BY <1>4, <3>1, <3>2, <3>3
    <3>4. CASE TableOf[p] = "evses" /\ RefersTo[p] \subseteq RefersTo[r]
      BY <1>5, <3>1, <3>2, <3>4
    <3> QED BY <1>1, <1>7, <3>3, <3>4, HowRowsAreMade
  <2>2. PICK p \in RefersTo[r] : p \in OwnedStations
    BY <2>1
  <2>3. p \in refersNow[r] \cap OwnedStations
    BY <1>1, <2>2
  <2>4. r \in Under("connectors", OwnedStations)
    BY <1>7, <2>3 DEF Under
  <2> QED BY <1>0, <1>7, <2>4 DEF FoundBy, ConnectorRows
<1>8. CASE table = "stations"
  BY <1>0, <1>1, <1>4, <1>8 DEF FoundBy, StationRows
<1>9. CASE table = "locations"
  BY <1>0, <1>1, <1>3, <1>9 DEF FoundBy, LocationRows
<1>10. CASE table \in {"links", "tariffs"}
  <2>1. PartnerIdOf[r] = Cleaned
    BY <1>1, <1>2, <1>10, HowRowsAreMade
  <2>2. r \in Named(table)
    BY <2>1 DEF Named
  <2> QED BY <1>0, <1>10, <2>2 DEF FoundBy, LinkRows, TariffRows
<1> QED BY <1>6, <1>7, <1>8, <1>9, <1>10 DEF CleanTables

Sweeps == [at : {"idle", "count", "fetch", "delete"}, table : CleanTables,
           tenant : Tenants, ids : SUBSET CleanRows]

\* What the invariant says of one script.
SweepKnows(s) ==
    /\ sweep[s].at = "delete" =>
         sweep[s].ids \subseteq {r \in TheirRows : TableOf[r] = sweep[s].table /\ TenantOf[r] = sweep[s].tenant}
    /\ inOrder /\ sweep[s].at # "idle" /\ sweep[s].tenant = TenantOfCleaned =>
         Children(sweep[s].table) \subseteq swept

LEMMA NoSweepType == NoSweep \in Sweeps /\ NoSweep.at = "idle"
BY CleanupAssumption DEF NoSweep, Sweeps, CleanTables

LEMMA CleanupStarts == CleanupInit => CleanupIInv
<1> SUFFICES ASSUME CleanupInit PROVE CleanupIInv
  OBVIOUS
<1>1. CleanupTypeOK
  BY CleanupAssumption, NoSweepType DEF CleanupInit, CleanupTypeOK, Sweeps
<1>2. CountedOnce /\ SweptIsGone
  BY DEF CleanupInit, CountedOnce, SweptIsGone
<1>3. OthersStay /\ Intact /\ \A r \in CleanRows : refersNow[r] \subseteq RefersTo[r]
  BY CleanupAssumption DEF CleanupInit, OthersStay, Intact
<1>4. \A s \in Sweepers : sweep[s].at = "idle"
  BY NoSweepType DEF CleanupInit
<1> QED BY <1>1, <1>2, <1>3, <1>4 DEF CleanupIInv

\* A script goes on without a change to the rows.
LEMMA SweepGoesOn ==
  ASSUME CleanupIInv, NEW s \in Sweepers, NEW next \in Sweeps,
         sweep' = [sweep EXCEPT ![s] = next], UNCHANGED <<onDelete, present, refersNow, returned, surplus>>,
         swept' \in SUBSET CleanTables, inOrder' \in BOOLEAN, inOrder' => inOrder,
         swept \subseteq swept',
         inOrder' \/ onDelete # "set null" => \A t \in swept' \ swept : Those(t) \cap TheirRows = {},
         next.at = "delete" =>
           next.ids \subseteq {r \in TheirRows : TableOf[r] = next.table /\ TenantOf[r] = next.tenant},
         inOrder' /\ next.at # "idle" /\ next.tenant = TenantOfCleaned => Children(next.table) \subseteq swept'
  PROVE  CleanupIInv'
<1>1. CleanupTypeOK'
  BY DEF CleanupIInv, CleanupTypeOK, Sweeps
<1>2. CountedOnce' /\ OthersStay' /\ Intact' /\ (\A r \in CleanRows : refersNow'[r] \subseteq RefersTo[r])
  BY DEF CleanupIInv, CountedOnce, OthersStay, Intact
<1>3. SweptIsGone'
  <2>1. \A t : Those(t)' = Those(t)
    BY DEF Those
  <2> QED BY <2>1 DEF CleanupIInv, SweptIsGone
<1>4. sweep'[s] = next /\ \A q \in Sweepers : q # s => sweep'[q] = sweep[q]
  BY DEF CleanupIInv, CleanupTypeOK
<1>5. \A q \in Sweepers : SweepKnows(q)'
  <2>1. SweepKnows(s)'
    BY <1>4 DEF SweepKnows
  <2>2. ASSUME NEW q \in Sweepers, q # s PROVE SweepKnows(q)'
    <3>1. sweep'[q] = sweep[q] /\ SweepKnows(q)
      BY <1>4, <2>2 DEF CleanupIInv, SweepKnows
    <3> QED BY <3>1 DEF SweepKnows
  <2> QED BY <2>1, <2>2
<1> QED BY <1>1, <1>2, <1>3, <1>5 DEF CleanupIInv, SweepKnows

LEMMA StartScriptKeeps ==
  ASSUME CleanupIInv, NEW s \in Sweepers, NEW table, NEW tenant \in Tenants, StartScript(s, table, tenant)
  PROVE  CleanupIInv'
<1>1. PICK next : next = [NoSweep EXCEPT !.at = "count", !.table = table, !.tenant = tenant]
  OBVIOUS
<1>2. table \in CleanTables
  BY CleanupAssumption DEF StartScript
<1>3. next \in Sweeps /\ next.at = "count" /\ next.table = table /\ next.tenant = tenant
  BY <1>1, <1>2, NoSweepType DEF Sweeps
<1>4. /\ sweep' = [sweep EXCEPT ![s] = next]
      /\ inOrder' = (inOrder /\ (tenant = TenantOfCleaned => Children(table) \subseteq swept))
      /\ UNCHANGED <<onDelete, present, refersNow, returned, swept, surplus>>
  BY <1>1 DEF StartScript
<1>5. swept' = swept /\ swept' \in SUBSET CleanTables /\ inOrder' \in BOOLEAN /\ (inOrder' => inOrder)
  BY <1>4 DEF CleanupIInv, CleanupTypeOK
<1>6. inOrder' /\ tenant = TenantOfCleaned => Children(table) \subseteq swept'
  BY <1>4, <1>5
<1> QED BY <1>3, <1>4, <1>5, <1>6, SweepGoesOn

LEMMA CountRemainingKeeps ==
  ASSUME CleanupIInv, NEW s \in Sweepers, CountRemaining(s)
  PROVE  CleanupIInv'
<1>0. sweep[s] \in Sweeps /\ sweep[s].at = "count" /\ sweep[s].table \in CleanTables
  BY DEF CleanupIInv, CleanupTypeOK, Sweeps, CountRemaining
<1>1. PICK table, tenant : table = sweep[s].table /\ tenant = sweep[s].tenant
  OBVIOUS
<1>2. PICK next : next = IF FoundBy(table, tenant) = {} THEN NoSweep ELSE [sweep[s] EXCEPT !.at = "fetch"]
  OBVIOUS
<1>3. next \in Sweeps /\ next.at \in {"idle", "fetch"}
      /\ (next.at # "idle" => next.table = table /\ next.tenant = tenant)
  BY <1>0, <1>1, <1>2, NoSweepType DEF Sweeps
<1>4. /\ sweep' = [sweep EXCEPT ![s] = next]
      /\ swept' = IF FoundBy(table, tenant) = {} /\ tenant = TenantOfCleaned /\ Children(table) \subseteq swept
                    THEN swept \cup {table} ELSE swept
      /\ UNCHANGED <<onDelete, present, refersNow, returned, inOrder, surplus>>
  BY <1>1, <1>2 DEF CountRemaining, FoundFor, SweptBy, CleanupIInv, CleanupTypeOK
<1>5. swept' \in SUBSET CleanTables /\ swept \subseteq swept' /\ inOrder' \in BOOLEAN /\ (inOrder' => inOrder)
  BY <1>0, <1>1, <1>4 DEF CleanupIInv, CleanupTypeOK
<1>6. ASSUME inOrder' \/ onDelete # "set null", NEW t \in swept' \ swept
      PROVE  Those(t) \cap TheirRows = {}
  <2>1. t = table /\ FoundBy(table, TenantOfCleaned) = {}
    BY <1>4, <1>6
  <2>2. \A r \in present : refersNow[r] = RefersTo[r] /\ RefersTo[r] \subseteq present
    BY <1>5, <1>6 DEF CleanupIInv, Intact
  <2>3. Those(table) \cap TheirRows \subseteq FoundBy(table, TenantOfCleaned)
    BY <1>0, <1>1, <2>2, TheirsAreFound DEF CleanupIInv
  <2> QED BY <2>1, <2>3
<1>7. inOrder' /\ tenant = TenantOfCleaned => Children(table) \subseteq swept'
  BY <1>0, <1>1, <1>5 DEF CleanupIInv
<1> QED BY <1>3, <1>4, <1>5, <1>6, <1>7, SweepGoesOn

LEMMA FetchBatchKeeps ==
  ASSUME CleanupIInv, NEW s \in Sweepers, FetchBatch(s)
  PROVE  CleanupIInv'
<1>0. sweep[s] \in Sweeps /\ sweep[s].at = "fetch" /\ sweep[s].table \in CleanTables
  BY DEF CleanupIInv, CleanupTypeOK, Sweeps, FetchBatch
<1>1. PICK ids \in SUBSET FoundBy(sweep[s].table, sweep[s].tenant) :
        sweep' = [sweep EXCEPT ![s] = IF ids = {} THEN NoSweep
                                      ELSE [@ EXCEPT !.at = "delete", !.ids = ids]]
  BY DEF FetchBatch, FoundFor
<1>2. ids \subseteq {r \in TheirRows : TableOf[r] = sweep[s].table /\ TenantOf[r] = sweep[s].tenant}
      /\ ids \subseteq CleanRows
  BY <1>0, FoundAreTheirs, TheirRowsAreRows DEF CleanupIInv
<1>3. PICK next : next = IF ids = {} THEN NoSweep ELSE [sweep[s] EXCEPT !.at = "delete", !.ids = ids]
  OBVIOUS
<1>4. next \in Sweeps /\ (next.at = "delete" => next.ids = ids)
      /\ (next.at # "idle" => next.table = sweep[s].table /\ next.tenant = sweep[s].tenant)
  BY <1>0, <1>2, <1>3, NoSweepType DEF Sweeps
<1>5. sweep' = [sweep EXCEPT ![s] = next]
  BY <1>1, <1>3 DEF CleanupIInv, CleanupTypeOK
<1>6. UNCHANGED <<onDelete, present, refersNow, returned, swept, inOrder, surplus>>
  BY DEF FetchBatch
<1>7. swept' \in SUBSET CleanTables /\ swept' = swept /\ inOrder' \in BOOLEAN /\ (inOrder' => inOrder)
  BY <1>6 DEF CleanupIInv, CleanupTypeOK
<1>8. inOrder' /\ sweep[s].tenant = TenantOfCleaned => Children(sweep[s].table) \subseteq swept'
  BY <1>0, <1>7 DEF CleanupIInv
<1>9. next.at = "delete" =>
        next.ids \subseteq {r \in TheirRows : TableOf[r] = next.table /\ TenantOf[r] = next.tenant}
  BY <1>2, <1>4
<1> QED BY <1>4, <1>5, <1>6, <1>7, <1>8, <1>9, SweepGoesOn

LEMMA BreaksOffKeeps ==
  ASSUME CleanupIInv, NEW s \in Sweepers, BreaksOff(s)
  PROVE  CleanupIInv'
<1>1. UNCHANGED <<onDelete, present, refersNow, returned, swept, inOrder, surplus>>
      /\ sweep' = [sweep EXCEPT ![s] = NoSweep]
  BY DEF BreaksOff
<1>2. swept' \in SUBSET CleanTables /\ swept' = swept /\ inOrder' \in BOOLEAN /\ (inOrder' => inOrder)
  BY <1>1 DEF CleanupIInv, CleanupTypeOK
<1> QED BY <1>1, <1>2, NoSweepType, SweepGoesOn

\* Rows of the partner are deleted, and all that is left that referred to them no longer does.
LEMMA RowsGo ==
  ASSUME CleanupIInv, NEW gone \in SUBSET present, gone \subseteq TheirRows,
         present' = present \ gone, refersNow' = [r \in CleanRows |-> refersNow[r] \ gone],
         UNCHANGED <<onDelete, swept, inOrder>>,
         inOrder \/ onDelete # "set null" => \A r \in present \ gone : refersNow[r] \cap gone = {}
  PROVE  /\ OthersStay' /\ SweptIsGone' /\ Intact'
         /\ \A r \in CleanRows : refersNow'[r] \subseteq RefersTo[r]
         /\ present' \subseteq CleanRows /\ refersNow' \in [CleanRows -> SUBSET CleanRows]
<1>1. present \subseteq CleanRows /\ refersNow \in [CleanRows -> SUBSET CleanRows]
      /\ \A r \in CleanRows : refersNow[r] \subseteq RefersTo[r]
  BY DEF CleanupIInv, CleanupTypeOK
<1>2. present' \subseteq CleanRows /\ refersNow' \in [CleanRows -> SUBSET CleanRows]
      /\ \A r \in CleanRows : refersNow'[r] \subseteq RefersTo[r]
  BY <1>1
<1>3. OthersStay'
  <2> SUFFICES ASSUME NEW r \in CleanRows, r \notin TheirRows
               PROVE  r \in present' /\ refersNow'[r] = RefersTo[r]
    BY DEF OthersStay
  <2>1. RefersTo[r] \cap TheirRows = {}
    BY TheirRowsClosed DEF ClosedBelow
  <2>2. r \in present /\ refersNow[r] = RefersTo[r]
    BY DEF CleanupIInv, OthersStay
  <2> QED BY <2>1, <2>2
<1>4. SweptIsGone'
  <2>1. \A t : Those(t)' \subseteq Those(t)
    BY DEF Those
  <2> QED BY <2>1 DEF CleanupIInv, SweptIsGone
<1>5. Intact'
  <2> SUFFICES ASSUME inOrder \/ onDelete # "set null", NEW r \in present, r \notin gone
               PROVE  refersNow'[r] = RefersTo[r] /\ RefersTo[r] \subseteq present'
    BY DEF Intact
  <2>1. refersNow[r] = RefersTo[r] /\ RefersTo[r] \subseteq present
    BY DEF CleanupIInv, Intact
  <2>2. refersNow[r] \cap gone = {}
    OBVIOUS
  <2> QED BY <1>1, <2>1, <2>2
<1> QED BY <1>2, <1>3, <1>4, <1>5

LEMMA DeleteBatchKeeps ==
  ASSUME CleanupIInv, NEW s \in Sweepers, NEW answered \in BOOLEAN, DeleteBatch(s, answered)
  PROVE  CleanupIInv'
<1>0. sweep[s] \in Sweeps /\ sweep[s].at = "delete" /\ sweep[s].table \in CleanTables
      /\ sweep[s].ids \subseteq {r \in TheirRows : TableOf[r] = sweep[s].table /\ TenantOf[r] = sweep[s].tenant}
      /\ UNCHANGED <<onDelete, returned, swept, inOrder>>
  BY DEF CleanupIInv, CleanupTypeOK, Sweeps, DeleteBatch
<1>1. PICK ids : ids = sweep[s].ids \cap present
  OBVIOUS
<1>2. PICK gone : gone = IF onDelete = "cascade" THEN Falling(ids) ELSE ids
  OBVIOUS
<1>3. CASE onDelete = "refuse" /\ \E r \in present \ ids : refersNow[r] \cap ids # {}
  <2>1. UNCHANGED <<onDelete, present, refersNow, returned, surplus>> /\ sweep' = [sweep EXCEPT ![s] = NoSweep]
    BY <1>0, <1>1, <1>3 DEF DeleteBatch
  <2>2. swept' \in SUBSET CleanTables /\ swept' = swept /\ inOrder' \in BOOLEAN /\ (inOrder' => inOrder)
    BY <1>0 DEF CleanupIInv, CleanupTypeOK
  <2> QED BY <2>1, <2>2, NoSweepType, SweepGoesOn
<1>4. CASE ~(onDelete = "refuse" /\ \E r \in present \ ids : refersNow[r] \cap ids # {})
  <2>1. present' = present \ gone /\ refersNow' = [r \in CleanRows |-> refersNow[r] \ gone]
    BY <1>1, <1>2, <1>4 DEF DeleteBatch
  <2>2. ids \subseteq present /\ ids \subseteq TheirRows /\ \A r \in ids : TableOf[r] = sweep[s].table
    BY <1>0, <1>1
  <2>3. present \subseteq CleanRows /\ \A r \in CleanRows : refersNow[r] \subseteq RefersTo[r]
    BY DEF CleanupIInv, CleanupTypeOK
  <2>4. gone \subseteq present /\ gone \subseteq TheirRows
    <3>1. CASE onDelete = "cascade"
      <4> DEFINE ofTheirs == present \cap TheirRows
      <4>1. Falls(ofTheirs)
        BY <2>3, TheirRowsClosed DEF ClosedBelow, Falls
      <4>2. ids \subseteq ofTheirs /\ ofTheirs \in SUBSET present
        BY <2>2
      <4> HIDE DEF ofTheirs
      <4>3. Falling(ids) \subseteq ofTheirs /\ Falling(ids) \subseteq present
        BY <2>2, <4>1, <4>2, FallingIs
      <4> QED BY <1>2, <3>1, <4>3 DEF ofTheirs
    <3>2. CASE onDelete # "cascade"
      BY <1>2, <2>2, <3>2
    <3> QED BY <3>1, <3>2
  <2>5. ASSUME inOrder \/ onDelete # "set null", NEW r \in present \ gone
        PROVE  refersNow[r] \cap gone = {}
    <3>1. CASE onDelete = "cascade"
      <4>1. Falls(gone)
        BY <1>2, <2>2, <3>1, FallingIs
      <4> QED BY <4>1 DEF Falls
    <3>2. CASE onDelete = "refuse"
      BY <1>2, <1>4, <3>2
    <3>3. CASE onDelete = "set null"
      <4>1. gone = ids
        BY <1>2, <3>3
      <4>2. ids # {} => Children(sweep[s].table) \subseteq swept
        <5>1. ids # {} => sweep[s].tenant = TenantOfCleaned
          BY <1>0, <1>1, RowsAreMadeSo
        <5> QED BY <1>0, <2>5, <3>3, <5>1 DEF CleanupIInv
      <4>3. ASSUME NEW p \in refersNow[r], p \in ids
            PROVE  FALSE
        <5>1. r \in CleanRows /\ p \in RefersTo[r] /\ p \in TheirRows /\ TableOf[p] = sweep[s].table
          BY <2>2, <2>3, <4>3
        <5>2. TableOf[r] \in Children(sweep[s].table)
          BY <5>1 DEF Children
        <5>3. r \in TheirRows
          BY <5>1, TheirRowsClosed DEF ClosedBelow
        <5>4. Those(TableOf[r]) \cap TheirRows = {}
          <6>1. Children(sweep[s].table) \subseteq swept
            BY <4>2, <4>3
          <6>2. \A t \in swept : Those(t) \cap TheirRows = {}
            BY <2>5 DEF CleanupIInv, SweptIsGone
          <6> QED BY <5>2, <6>1, <6>2
        <5> QED BY <5>3, <5>4 DEF Those
      <4> QED BY <4>1, <4>3
    <3>4. onDelete \in {"refuse", "set null", "cascade"}
      BY DEF CleanupIInv, CleanupTypeOK
    <3> QED BY <3>1, <3>2, <3>3, <3>4
  <2>6. /\ OthersStay' /\ SweptIsGone' /\ Intact'
        /\ \A r \in CleanRows : refersNow'[r] \subseteq RefersTo[r]
        /\ present' \subseteq CleanRows /\ refersNow' \in [CleanRows -> SUBSET CleanRows]
    BY <1>0, <2>1, <2>4, <2>5, RowsGo
  <2>7. CountedOnce' /\ surplus' \in Nat
    <3>1. surplus = 0
      BY DEF CleanupIInv, CountedOnce
    <3>2. CASE ~answered
      BY <1>1, <1>4, <3>1, <3>2 DEF DeleteBatch, CountedOnce
    <3>3. CASE answered
      <4>1. surplus' = surplus + Affected(s) - Cardinality(ids)
        BY <1>1, <1>4, <3>3 DEF DeleteBatch
      <4>2. Affected(s) = Cardinality(ids)
        BY <1>1 DEF Affected
      <4>3. IsFiniteSet(ids)
        BY <2>2, <2>3, CleanupAssumption, FS_Subset
      <4>4. Cardinality(ids) \in Nat
        BY <4>3, FS_CardinalityType
      <4> QED BY <3>1, <4>1, <4>2, <4>4 DEF CountedOnce
    <3> QED BY <3>2, <3>3
  <2>8. PICK next \in Sweeps : /\ sweep' = [sweep EXCEPT ![s] = next] /\ next.at \in {"idle", "count"}
                               /\ next.at # "idle" => /\ next.table = sweep[s].table
                                                      /\ next.tenant = sweep[s].tenant
    <3>1. CASE ~answered
      BY <1>1, <1>4, <3>1, NoSweepType DEF DeleteBatch
    <3>2. CASE answered
      <4>1. PICK next : next = [sweep[s] EXCEPT !.at = "count", !.ids = {}]
        OBVIOUS
      <4>2. next \in Sweeps /\ next.at = "count" /\ next.table = sweep[s].table /\ next.tenant = sweep[s].tenant
        BY <1>0, <4>1 DEF Sweeps
      <4>3. sweep' = [sweep EXCEPT ![s] = next]
        BY <1>1, <1>4, <3>2, <4>1 DEF DeleteBatch, CleanupIInv, CleanupTypeOK
      <4> QED BY <4>2, <4>3
    <3> QED BY <3>1, <3>2
  <2>9. CleanupTypeOK'
    BY <1>0, <2>6, <2>7, <2>8 DEF CleanupIInv, CleanupTypeOK, Sweeps
  <2>10. \A q \in Sweepers : SweepKnows(q)'
    <3>1. sweep'[s] = next /\ \A q \in Sweepers : q # s => sweep'[q] = sweep[q]
      BY <2>8 DEF CleanupIInv, CleanupTypeOK
    <3>2. SweepKnows(s)'
      BY <1>0, <2>8, <3>1 DEF SweepKnows, CleanupIInv
    <3>3. ASSUME NEW q \in Sweepers, q # s PROVE SweepKnows(q)'
      BY <1>0, <3>1, <3>3 DEF CleanupIInv, SweepKnows
    <3> QED BY <3>2, <3>3
  <2> QED BY <2>6, <2>7, <2>9, <2>10 DEF CleanupIInv, SweepKnows
<1> QED BY <1>3, <1>4

LEMMA ComesAgainKeeps ==
  ASSUME CleanupIInv, NEW r \in Returning, ComesAgain(r)
  PROVE  CleanupIInv'
<1>1. /\ r \notin present /\ RefersTo[r] \subseteq present /\ returned' = TRUE
      /\ present' = present \cup {r} /\ refersNow' = [refersNow EXCEPT ![r] = RefersTo[r]]
      /\ swept' = swept \ {TableOf[r]} /\ inOrder' = FALSE /\ UNCHANGED <<onDelete, sweep, surplus>>
  BY DEF ComesAgain
<1>2. r \in CleanRows /\ RefersTo[r] \in SUBSET CleanRows
  BY CleanupAssumption
<1>3. CleanupTypeOK'
  BY <1>1, <1>2 DEF CleanupIInv, CleanupTypeOK
<1>4. refersNow'[r] = RefersTo[r] /\ \A q \in CleanRows : q # r => refersNow'[q] = refersNow[q]
  BY <1>1, <1>2 DEF CleanupIInv, CleanupTypeOK
<1>5. OthersStay' /\ \A q \in CleanRows : refersNow'[q] \subseteq RefersTo[q]
  <2>1. \A q \in CleanRows : refersNow'[q] \subseteq RefersTo[q]
    BY <1>4 DEF CleanupIInv
  <2>2. OthersStay'
    BY <1>1, <1>4 DEF CleanupIInv, OthersStay
  <2> QED BY <2>1, <2>2
<1>6. Intact'
  <2> SUFFICES ASSUME onDelete # "set null", NEW q \in present'
               PROVE  refersNow'[q] = RefersTo[q] /\ RefersTo[q] \subseteq present'
    BY <1>1 DEF Intact
  <2>1. CASE q = r
    BY <1>1, <1>4, <2>1
  <2>2. CASE q \in present /\ q # r
    <3>1. refersNow[q] = RefersTo[q] /\ RefersTo[q] \subseteq present /\ q \in CleanRows
      BY <2>2 DEF CleanupIInv, Intact, CleanupTypeOK
    <3> QED BY <1>1, <1>4, <2>2, <3>1
  <2> QED BY <1>1, <2>1, <2>2
<1>7. SweptIsGone'
  <2> SUFFICES ASSUME onDelete # "set null", NEW t \in swept', NEW q \in Those(t)', q \in TheirRows
               PROVE  FALSE
    BY <1>1 DEF SweptIsGone
  <2>1. t \in swept /\ t # TableOf[r]
    BY <1>1
  <2>2. q \in Those(t)
    BY <1>1, <2>1 DEF Those
  <2> QED BY <2>1, <2>2 DEF CleanupIInv, SweptIsGone
<1>8. CountedOnce'
  BY <1>1 DEF CleanupIInv, CountedOnce
<1>9. \A s \in Sweepers : SweepKnows(s)'
  BY <1>1 DEF CleanupIInv, SweepKnows
<1> QED BY <1>3, <1>5, <1>6, <1>7, <1>8, <1>9 DEF CleanupIInv, SweepKnows

LEMMA CleanupStep == CleanupIInv /\ [CleanupNext]_cleanupVars => CleanupIInv'
<1> SUFFICES ASSUME CleanupIInv, [CleanupNext]_cleanupVars PROVE CleanupIInv'
  OBVIOUS
<1>1. CASE UNCHANGED cleanupVars
  BY <1>1 DEF cleanupVars, CleanupIInv, CleanupTypeOK, CountedOnce, OthersStay, SweptIsGone, Intact, Those
<1>2. CASE \E r \in Returning : ComesAgain(r)
  BY <1>2, ComesAgainKeeps
<1>3. ASSUME NEW s \in Sweepers, NEW table, Script(s, table)
      PROVE  CleanupIInv'
  BY <1>3, StartScriptKeeps, CountRemainingKeeps, FetchBatchKeeps, BreaksOffKeeps, DeleteBatchKeeps DEF Script
<1> QED BY <1>1, <1>2, <1>3 DEF CleanupNext, RemoveLinks, RemoveConnectors, RemoveEvses, RemoveStations,
           RemoveLocations, RemoveTariffs

\* The scripts, in any order and broken off anywhere, delete none but the partner's rows and count
\* each once; those run for the partner's tenant, whose children went before them, leave none.
THEOREM ScriptsSweep == CleanupSpec => [](CleanupIInv /\ SweptIsGone /\ OthersStay /\ CountedOnce)
<1>1. CleanupIInv => SweptIsGone /\ OthersStay /\ CountedOnce
  BY DEF CleanupIInv
<1> QED BY <1>1, CleanupStarts, CleanupStep, PTL DEF CleanupSpec

-----------------------------------------------------------------------------
(* The parts side by side *)

LEMMA ReceivedStep ==
  [ReceivedNext]_receivedVars =>
    /\ [SessionNext]_sessionVars /\ [TariffNext]_tariffVars /\ [PartyNext]_partyVars
    /\ [CredentialsNext]_credentialsVars /\ [PartnerPullNext]_partnerPullVars
    /\ [OnboardingNext]_onboardingVars /\ [CleanupNext]_cleanupVars
<1>1. CASE Location
  BY <1>1 DEF Location
<1>2. CASE Fields
  BY <1>2 DEF Fields
<1>3. CASE Session
  BY <1>3 DEF Session
<1>4. CASE Tariff
  BY <1>4 DEF Tariff
<1>5. CASE OfItems
  BY <1>5 DEF OfItems
<1>6. CASE OfCredentials
  BY <1>6 DEF OfCredentials
<1>7. CASE OfParties
  BY <1>7 DEF OfParties
<1>8. CASE OfOnboarding
  BY <1>8 DEF OfOnboarding
<1>9. CASE OfCleanup
  BY <1>9 DEF OfCleanup
<1>10. CASE UNCHANGED receivedVars
  BY <1>10 DEF receivedVars
<1> QED BY <1>1, <1>2, <1>3, <1>4, <1>5, <1>6, <1>7, <1>8, <1>9, <1>10 DEF ReceivedNext

\* What is run is each of its parts: an execution of one is a stuttering of the others.
THEOREM ReceivedIsItsParts ==
  ReceivedSpec => /\ SessionSpec /\ TariffSpec /\ PartySpec /\ CredentialsSpec
                  /\ PartnerPullSpec /\ OnboardingSpec /\ CleanupSpec
<1>1. ReceivedInit => /\ SessionInit /\ TariffInit /\ PartyInit /\ CredentialsInit
                      /\ PartnerPullInit /\ OnboardingInit /\ CleanupInit
  BY DEF ReceivedInit
<1> QED BY <1>1, ReceivedStep, PTL DEF ReceivedSpec, SessionSpec, TariffSpec, PartySpec, CredentialsSpec,
        PartnerPullSpec, OnboardingSpec, CleanupSpec

\* Of what the run checks: a session's periods, a tariff's elements, which party's rows a
\* request touches, and what a connection is left with, for any calls, parties and contents.
THEOREM ReceivedSafe ==
  ReceivedSpec => /\ []PeriodsStay
                  /\ [](AlonePutStores /\ NeverLeftEmpty /\ OneTariff)
                  /\ [](OneRowPerParty /\ RowsAreKept)
                  /\ []ConnectionSurvives
<1>1. TariffIInv => AlonePutStores /\ NeverLeftEmpty
  BY DEF TariffIInv
<1>2. PartyIInv => OneRowPerParty
  BY DEF PartyIInv
<1>3. TariffSpec => [](AlonePutStores /\ NeverLeftEmpty /\ OneTariff)
  BY <1>1, TariffsAreStored, PTL
<1>4. PartySpec => [](OneRowPerParty /\ RowsAreKept)
  BY <1>2, PartiesKeepTheirRows, PTL
<1>5. CredentialsSpec => []ConnectionSurvives
  BY CredentialsSurvive, PTL
<1>6. SessionSpec => []PeriodsStay
  BY SessionPeriodsStay, PTL
<1> QED BY <1>3, <1>4, <1>5, <1>6, ReceivedIsItsParts
=============================================================================
