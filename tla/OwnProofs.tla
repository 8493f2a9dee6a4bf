------------------------------ MODULE OwnProofs -------------------------------
(***************************************************************************)
(* What TLAPS proves of what partners are told of own EVSEs, tariffs and   *)
(* tokens, and of the lists they page through, for any rows, partners and  *)
(* handlers.                                                               *)
(***************************************************************************)
EXTENDS MCOwn, FiniteSetTheorems, SequenceTheorems, TLAPS

-----------------------------------------------------------------------------
(* The status of an EVSE *)

LEMMA MeansType == \A s, b : Means(s, b) \in EvseStatuses
BY DEF Means, EvseStatuses

LEMMA MeansIs ==
  ASSUME NEW s \in ConnectorStatuses, NEW b \in BOOLEAN
  PROVE  /\ Means(s, b) = "CHARGING" <=> s \in InUse \/ (s = "Occupied" /\ b)
         /\ Means(s, b) = "AVAILABLE" => s = "Available" \/ (s = "Occupied" /\ ~b)
<1>1. CASE s \in InUse \/ (s = "Occupied" /\ b)
  <2>1. /\ s # "Reserved" /\ s # "Unavailable" /\ s # "Faulted" /\ s # "Available"
        /\ s \in InUse => s # "Occupied"
    BY <1>1 DEF InUse
  <2> QED BY <1>1, <2>1 DEF Means
<1>2. CASE ~(s \in InUse \/ (s = "Occupied" /\ b))
  <2>1. CASE s = "Occupied"
    BY <1>2, <2>1 DEF Means, InUse
  <2>2. CASE s # "Occupied"
    BY <1>2, <2>2 DEF Means, InUse, ConnectorStatuses
  <2> QED BY <2>1, <2>2
<1> QED BY <1>1, <1>2

\* The status is one that a connector calls for, and CHARGING goes before all others.
LEMMA StatusIs ==
  ASSUME NEW st, NEW ts
  PROVE  /\ StatusOf(st, ts) \in EvseStatuses
         /\ StatusOf(st, ts) = "CHARGING" <=>
              \E c \in DOMAIN st : Means(st[c], c \in ts) = "CHARGING"
         /\ StatusOf(st, ts) = "AVAILABLE" =>
              \E c \in DOMAIN st : Means(st[c], c \in ts) = "AVAILABLE"
<1> DEFINE meant == {Means(st[c], c \in ts) : c \in DOMAIN st}
           first == {i \in DOMAIN Precedence : /\ Precedence[i] \in meant
                                               /\ \A j \in 1..(i - 1) : Precedence[j] \notin meant}
           chosen == CHOOSE i \in first : TRUE
<1>1. StatusOf(st, ts) = IF first = {} THEN "UNKNOWN" ELSE Precedence[chosen]
  BY DEF StatusOf
<1>2. /\ DOMAIN Precedence = 1..5 /\ Precedence[1] = "CHARGING"
      /\ \A i \in 1..5 : Precedence[i] \in EvseStatuses /\ (Precedence[i] = "CHARGING" => i = 1)
  BY DEF Precedence, EvseStatuses
<1>3. first # {} => /\ chosen \in 1..5 /\ Precedence[chosen] \in meant
                    /\ \A j \in 1..(chosen - 1) : Precedence[j] \notin meant
  BY <1>2
<1>4. "CHARGING" \in meant => 1 \in first
  BY <1>2
<1>5. \A v : v \in meant <=> \E c \in DOMAIN st : Means(st[c], c \in ts) = v
  OBVIOUS
<1>6. first # {} /\ "CHARGING" \in meant => chosen = 1
  BY <1>2, <1>3
<1> HIDE DEF meant, first, chosen
<1>7. StatusOf(st, ts) \in EvseStatuses
  BY <1>1, <1>2, <1>3 DEF EvseStatuses
<1>8. StatusOf(st, ts) = "CHARGING" <=> "CHARGING" \in meant
  BY <1>1, <1>2, <1>3, <1>4, <1>6
<1>9. StatusOf(st, ts) = "AVAILABLE" => "AVAILABLE" \in meant
  BY <1>1, <1>3
<1> QED BY <1>5, <1>7, <1>8, <1>9
-----------------------------------------------------------------------------
(* EVSEs: the handlers *)

LEMMA HandlerKinds ==
  ASSUME EvseTypeOK, NEW h \in Handlers
  PROVE  /\ handlers[h].stage = "pushing" =>
              /\ handlers[h] \in Pushings /\ handlers[h].pushes \in Seq(Broadcasts)
              /\ handlers[h].key \in Keys /\ handlers[h].fresh \in BOOLEAN /\ handlers[h].mute \in BOOLEAN
              /\ \A i \in DOMAIN handlers[h].pushes : handlers[h].pushes[i] \in Broadcasts
         /\ handlers[h].stage = "called" =>
              /\ handlers[h] \in Calls /\ handlers[h].key \in Keys
              /\ handlers[h].off \in BOOLEAN /\ handlers[h].mute \in BOOLEAN
         /\ handlers[h] \in Calls => handlers[h].stage = "called"
         /\ handlers[h] = Idle <=> handlers[h].stage = "idle"
<1>1. handlers[h] \in {Idle} \cup Calls \cup Pushings
  BY DEF EvseTypeOK
<1>2. \A s \in Seq(Broadcasts) : \A i \in DOMAIN s : s[i] \in Broadcasts
  OBVIOUS
<1> QED BY <1>1, <1>2 DEF Idle, Calls, Pushings

LEMMA KnownBodies ==
  ASSUME EvseTypeOK, NEW p \in Partners
  PROVE  known[p] \in Bodies /\ DOMAIN known[p] = Keys
BY DEF EvseTypeOK

LEMMA BodyIs ==
  \A b : b \in Bodies <=> /\ DOMAIN b \subseteq Keys
                          /\ b = [k \in DOMAIN b |-> b[k]]
                          /\ \A k \in DOMAIN b : b[k] \in IF k = "status" THEN EvseStatuses ELSE Lists
<1> TAKE b
<1>1. ASSUME b \in Bodies
      PROVE  /\ DOMAIN b \subseteq Keys /\ b = [k \in DOMAIN b |-> b[k]]
             /\ \A k \in DOMAIN b : b[k] \in IF k = "status" THEN EvseStatuses ELSE Lists
  BY <1>1 DEF Bodies
<1>2. ASSUME DOMAIN b \subseteq Keys, b = [k \in DOMAIN b |-> b[k]],
             \A k \in DOMAIN b : b[k] \in IF k = "status" THEN EvseStatuses ELSE Lists
      PROVE  b \in Bodies
  <2>1. \A k \in DOMAIN b : b[k] \in EvseStatuses \cup Lists
    BY <1>2
  <2>2. b \in [DOMAIN b -> EvseStatuses \cup Lists]
    BY <1>2, <2>1
  <2> QED BY <1>2, <2>2 DEF Bodies
<1> QED BY <1>1, <1>2

\* What is read of the rows.
LEMMA EvseIs ==
  ASSUME tariffs \in [Connectors -> Lists], NEW ts
  PROVE  /\ Evse(ts) \in Bodies /\ DOMAIN Evse(ts) = Keys
         /\ Evse(ts)["status"] = StatusOf(connectors, ts)
         /\ \A c \in Connectors : Evse(ts)[c] = tariffs[c]
         /\ \A ks \in SUBSET Keys : [k \in ks |-> Evse(ts)[k]] \in Bodies
         /\ \A c \in Connectors : [k \in {c} |-> tariffs[k]] \in Bodies
<1>1. "status" \in Keys /\ \A c \in Connectors : c \in Keys /\ c # "status" /\ tariffs[c] \in Lists
  BY EvseAssumption DEF Keys
<1>2. \A k \in Keys : Evse(ts)[k] = IF k = "status" THEN StatusOf(connectors, ts) ELSE tariffs[k]
  BY DEF Evse
<1>3. \A k \in Keys : Evse(ts)[k] \in IF k = "status" THEN EvseStatuses ELSE Lists
  BY <1>1, <1>2, StatusIs DEF Keys
<1>4. DOMAIN Evse(ts) = Keys /\ Evse(ts) = [k \in Keys |-> Evse(ts)[k]]
  BY DEF Evse
<1>5. Evse(ts) \in Bodies
  BY <1>3, <1>4, BodyIs
<1>6. ASSUME NEW ks \in SUBSET Keys PROVE [k \in ks |-> Evse(ts)[k]] \in Bodies
  BY <1>3, BodyIs
<1>7. ASSUME NEW c \in Connectors PROVE [k \in {c} |-> tariffs[k]] \in Bodies
  BY <1>1, BodyIs
<1> QED BY <1>1, <1>2, <1>4, <1>5, <1>6, <1>7
\* Handlers that push go on as they were while what they push stays right.
LEMMA PushesStay ==
  ASSUME EvseIInv, UNCHANGED known, settled' \subseteq settled,
         \A h \in Handlers :
           /\ handlers'[h].stage = "pushing" <=> handlers[h].stage = "pushing"
           /\ handlers[h].stage = "pushing" => /\ handlers'[h].key = handlers[h].key
                                               /\ handlers'[h].pushes = handlers[h].pushes,
         \A p \in Partners, k \in settled' : \A value : Right(p, k, value) => Right(p, k, value)'
  PROVE  /\ \A h \in Handlers : PushesWhatIsRight(h)'
         /\ \A h \in Handlers : handlers'[h].stage = "pushing" =>
               \E i \in DOMAIN handlers'[h].pushes : handlers'[h].pushes[i].to # {}
         /\ \A g, h \in Handlers : handlers'[g].stage = "pushing" /\ handlers'[h].stage = "pushing" /\ g # h
                                   => settled' = {}
         /\ \A k \in settled', p \in Partners :
               Right(p, k, known[p][k])' \/ \E h \in Handlers : Brings(h, p, k)'
<1>1. ASSUME NEW h \in Handlers PROVE PushesWhatIsRight(h)'
  <2> SUFFICES ASSUME handlers'[h].stage = "pushing", NEW i \in DOMAIN handlers'[h].pushes
               PROVE  /\ handlers'[h].key \in DOMAIN handlers'[h].pushes[i].body
                      /\ \A p \in handlers'[h].pushes[i].to,
                            k \in settled' \cap DOMAIN handlers'[h].pushes[i].body :
                            Right(p, k, handlers[h].pushes[i].body[k])'
    BY DEF PushesWhatIsRight
  <2>1. /\ handlers[h].stage = "pushing" /\ handlers'[h].key = handlers[h].key
        /\ handlers'[h].pushes = handlers[h].pushes
    OBVIOUS
  <2>2. PushesWhatIsRight(h) /\ handlers[h].pushes[i] \in Broadcasts
    BY <2>1, HandlerKinds DEF EvseIInv
  <2>3. \A p \in handlers[h].pushes[i].to : p \in Partners
    BY <2>2 DEF Broadcasts
  <2>4. handlers[h].key \in DOMAIN handlers[h].pushes[i].body
    BY <2>1, <2>2 DEF PushesWhatIsRight
  <2>5. ASSUME NEW p \in handlers[h].pushes[i].to,
               NEW k \in settled' \cap DOMAIN handlers[h].pushes[i].body
        PROVE  Right(p, k, handlers[h].pushes[i].body[k])'
    <3>1. Right(p, k, handlers[h].pushes[i].body[k])
      BY <2>1, <2>2 DEF PushesWhatIsRight
    <3> DEFINE value == handlers[h].pushes[i].body[k]
    <3>2. Right(p, k, value) => Right(p, k, handlers[h].pushes[i].body[k])'
      BY <2>1, <2>3 DEF Right
    <3> QED BY <3>1, <3>2
  <2> QED BY <2>1, <2>4, <2>5
<1>2. \A h \in Handlers : handlers'[h].stage = "pushing" =>
        \E i \in DOMAIN handlers'[h].pushes : handlers'[h].pushes[i].to # {}
  BY DEF EvseIInv, EvseTypeOK
<1>3. \A g, h \in Handlers : handlers'[g].stage = "pushing" /\ handlers'[h].stage = "pushing" /\ g # h
                             => settled' = {}
  BY DEF EvseIInv
<1>4. ASSUME NEW k \in settled', NEW p \in Partners
      PROVE  Right(p, k, known[p][k])' \/ \E h \in Handlers : Brings(h, p, k)'
  <2>1. \A h \in Handlers : Brings(h, p, k) => Brings(h, p, k)'
    BY DEF Brings
  <2>2. Right(p, k, known[p][k]) \/ \E h \in Handlers : Brings(h, p, k)
    BY DEF EvseIInv
  <2>3. Right(p, k, known[p][k]) => Right(p, k, known[p][k])'
    BY DEF Right
  <2> QED BY <2>1, <2>2, <2>3
<1> QED BY <1>1, <1>2, <1>3, <1>4
\* A change calls a handler; what was read of the row before is no longer fresh.
LEMMA CallChanges ==
  ASSUME EvseTypeOK, NEW h \in Handlers, NEW k \in Keys, Call(h, k)
  PROVE  /\ handlers' \in [Handlers -> {Idle} \cup Calls \cup Pushings]
         /\ due' \subseteq Partners \X Keys /\ settled' = settled \ {k}
         /\ \A g \in Handlers :
              /\ handlers'[g].stage = "pushing" <=> handlers[g].stage = "pushing"
              /\ handlers[g].stage = "pushing" => /\ handlers'[g].key = handlers[g].key
                                                  /\ handlers'[g].pushes = handlers[g].pushes
                                                  /\ handlers'[g].mute = handlers[g].mute
              /\ handlers'[g].stage = "called" =>
                   \/ handlers'[g] = handlers[g]
                   \/ handlers'[g].off = disabled /\ handlers'[g].mute = disabled
<1> DEFINE call == [stage |-> "called", key |-> k, off |-> disabled, mute |-> disabled]
<1>1. call \in Calls /\ call.stage = "called"
  BY DEF Calls, EvseTypeOK
<1>2. /\ handlers[h] = Idle /\ handlers' = [Stale(k) EXCEPT ![h] = call]
      /\ settled' = settled \ {k}
      /\ due' = due \ (Partners \X {k}) \/ due' = due \cup Partners \X {k}
  BY DEF Call
<1>3. ASSUME NEW g \in Handlers, g # h
      PROVE  /\ handlers'[g] \in {Idle} \cup Calls \cup Pushings
             /\ handlers'[g] = handlers[g] \/
                  /\ handlers[g].stage = "pushing"
                  /\ handlers'[g] = [handlers[g] EXCEPT !.fresh = FALSE]
                  /\ handlers'[g].stage = "pushing" /\ handlers'[g].key = handlers[g].key
                  /\ handlers'[g].pushes = handlers[g].pushes
                  /\ handlers'[g].mute = handlers[g].mute
  <2>1. handlers'[g] = Stale(k)[g]
    BY <1>2, <1>3 DEF Stale
  <2>2. handlers'[g] = IF handlers[g].stage = "pushing" /\ handlers[g].key = k
                       THEN [handlers[g] EXCEPT !.fresh = FALSE] ELSE handlers[g]
    BY <2>1 DEF Stale
  <2>3. handlers[g] \in {Idle} \cup Calls \cup Pushings
    BY DEF EvseTypeOK
  <2>4. CASE handlers[g].stage = "pushing" /\ handlers[g].key = k
    <3>1. handlers[g] \in Pushings
      BY <2>4, HandlerKinds
    <3>2. [handlers[g] EXCEPT !.fresh = FALSE] \in Pushings
      BY <3>1 DEF Pushings
    <3>3. LET x == [handlers[g] EXCEPT !.fresh = FALSE]
          IN  x.stage = handlers[g].stage /\ x.key = handlers[g].key
              /\ x.pushes = handlers[g].pushes /\ x.mute = handlers[g].mute
      BY <3>1 DEF Pushings
    <3> QED BY <2>2, <2>4, <3>2, <3>3
  <2> QED BY <2>2, <2>3, <2>4
<1>4. handlers'[h] = call /\ handlers[h].stage = "idle"
  BY <1>2 DEF Stale, Idle
<1>5. handlers' \in [Handlers -> {Idle} \cup Calls \cup Pushings]
  <2>1. handlers' = [g \in Handlers |-> handlers'[g]]
    BY <1>2 DEF Stale
  <2>2. \A g \in Handlers : handlers'[g] \in {Idle} \cup Calls \cup Pushings
    BY <1>1, <1>3, <1>4
  <2> QED BY <2>1, <2>2
<1>6. due' \subseteq Partners \X Keys
  BY <1>2 DEF EvseTypeOK
<1> HIDE DEF call
<1>7. ASSUME NEW g \in Handlers
      PROVE  /\ handlers'[g].stage = "pushing" <=> handlers[g].stage = "pushing"
             /\ handlers[g].stage = "pushing" => /\ handlers'[g].key = handlers[g].key
                                                 /\ handlers'[g].pushes = handlers[g].pushes
                                                 /\ handlers'[g].mute = handlers[g].mute
             /\ handlers'[g].stage = "called" =>
                  \/ handlers'[g] = handlers[g]
                  \/ handlers'[g].off = disabled /\ handlers'[g].mute = disabled
  <2>1. CASE g = h
    BY <1>1, <1>4, <2>1 DEF call
  <2>2. CASE g # h
    BY <1>3, <2>2
  <2> QED BY <2>1, <2>2
<1> QED BY <1>2, <1>5, <1>6, <1>7

LEMMA ChangesStay == changes \in 0..MaxChanges /\ Another => changes' \in 0..MaxChanges
BY EvseAssumption DEF Another

\* A change of the rows that calls a handler for key k, and leaves what is right of the others.
LEMMA CallSound ==
  ASSUME EvseIInv, NEW h \in Handlers, NEW k \in Keys, Call(h, k), Another, UNCHANGED <<disabled, known>>,
         connectors' \in [Connectors -> ConnectorStatuses], active' \subseteq Chargeable,
         tariffs' \in [Connectors -> Lists],
         \A p \in Partners, j \in settled' : \A value : Right(p, j, value) => Right(p, j, value)'
  PROVE  EvseIInv'
<1>1. EvseTypeOK
  BY DEF EvseIInv
<1>2. /\ handlers' \in [Handlers -> {Idle} \cup Calls \cup Pushings]
      /\ due' \subseteq Partners \X Keys /\ settled' = settled \ {k}
      /\ \A g \in Handlers :
           /\ handlers'[g].stage = "pushing" <=> handlers[g].stage = "pushing"
           /\ handlers[g].stage = "pushing" => /\ handlers'[g].key = handlers[g].key
                                               /\ handlers'[g].pushes = handlers[g].pushes
                                               /\ handlers'[g].mute = handlers[g].mute
           /\ handlers'[g].stage = "called" =>
                \/ handlers'[g] = handlers[g]
                \/ handlers'[g].off = disabled /\ handlers'[g].mute = disabled
  BY <1>1, CallChanges
<1>3. /\ \A g \in Handlers : PushesWhatIsRight(g)'
      /\ \A g \in Handlers : handlers'[g].stage = "pushing" =>
            \E i \in DOMAIN handlers'[g].pushes : handlers'[g].pushes[i].to # {}
      /\ \A f, g \in Handlers : handlers'[f].stage = "pushing" /\ handlers'[g].stage = "pushing" /\ f # g
                                => settled' = {}
      /\ \A j \in settled', p \in Partners :
            Right(p, j, known[p][j])' \/ \E g \in Handlers : Brings(g, p, j)'
  BY <1>2, PushesStay
<1>4. EvseTypeOK'
  BY <1>1, <1>2, <1>3, ChangesStay DEF EvseTypeOK
<1>5. ASSUME NEW g \in Handlers PROVE MutedIsDisabled(g)'
  <2>1. MutedIsDisabled(g)
    BY DEF EvseIInv
  <2>2. handlers'[g] \in Calls => handlers'[g].stage = "called"
    BY DEF Calls
  <2>3. handlers'[g] = handlers[g] => MutedIsDisabled(g)'
    BY <2>1 DEF MutedIsDisabled
  <2> QED BY <1>2, <2>1, <2>2, <2>3 DEF MutedIsDisabled
<1> QED BY <1>3, <1>4, <1>5 DEF EvseIInv

LEMMA RowsChangeSound ==
  ASSUME EvseIInv, NEW h \in Handlers, NEW c \in Connectors, StatusChanges(h, c) \/ TariffsChange(h, c)
  PROVE  EvseIInv'
<1>1. EvseTypeOK /\ c # "status" /\ c \in Keys /\ "status" \in Keys
  BY EvseAssumption DEF EvseIInv, Keys
<1>2. CASE StatusChanges(h, c)
  <2>1. PICK s \in Reported[c] : connectors' = [connectors EXCEPT ![c] = s]
    BY <1>2 DEF StatusChanges
  <2>2. connectors' \in [Connectors -> ConnectorStatuses]
    BY <1>1, <2>1, EvseAssumption DEF EvseTypeOK
  <2>3. Call(h, "status") /\ Another /\ UNCHANGED <<active, tariffs, disabled, known>>
        /\ settled' = settled \ {"status"}
    BY <1>2 DEF StatusChanges, Call
  <2>4. \A p \in Partners, j \in settled' : \A value : Right(p, j, value) => Right(p, j, value)'
    BY <2>3 DEF Right
  <2>5. active' \subseteq Chargeable /\ tariffs' \in [Connectors -> Lists]
    BY <1>1, <2>3 DEF EvseTypeOK
  <2> QED BY <1>1, <2>2, <2>3, <2>4, <2>5, CallSound
<1>3. CASE TariffsChange(h, c)
  <2>1. PICK l \in TariffsOf[c] : tariffs' = [tariffs EXCEPT ![c] = l]
    BY <1>3 DEF TariffsChange
  <2>2. tariffs' \in [Connectors -> Lists]
    BY <1>1, <2>1 DEF EvseTypeOK, Lists
  <2>3. Call(h, c) /\ Another /\ UNCHANGED <<active, connectors, disabled, known>>
        /\ settled' = settled \ {c}
    BY <1>3 DEF TariffsChange, Call
  <2>4. \A j \in settled' : j # "status" => j \in Connectors /\ tariffs'[j] = tariffs[j]
    BY <1>1, <2>1, <2>3 DEF EvseTypeOK, Keys
  <2>5. \A p \in Partners, j \in settled' : \A value : Right(p, j, value) => Right(p, j, value)'
    BY <2>3, <2>4 DEF Right
  <2>6. active' \subseteq Chargeable /\ connectors' \in [Connectors -> ConnectorStatuses]
    BY <1>1, <2>3 DEF EvseTypeOK
  <2> QED BY <1>1, <2>2, <2>3, <2>5, <2>6, CallSound
<1> QED BY <1>2, <1>3
LEMMA OtherChangesSound ==
  ASSUME EvseIInv, LocationChanges \/ \E c \in Chargeable : TransactionChanges(c)
  PROVE  EvseIInv'
<1>1. EvseTypeOK
  BY DEF EvseIInv
<1>2. ASSUME NEW c \in Chargeable, TransactionChanges(c) PROVE EvseIInv'
  <2>1. /\ Another /\ settled' = settled \ {"status"} /\ active' \subseteq Chargeable
        /\ UNCHANGED <<connectors, tariffs, disabled, handlers, known, due>>
    BY <1>1, <1>2 DEF TransactionChanges, EvseTypeOK
  <2>2. \A p \in Partners, j \in settled' : \A value : Right(p, j, value) => Right(p, j, value)'
    BY <2>1 DEF Right
  <2>3. /\ \A g \in Handlers : PushesWhatIsRight(g)'
        /\ \A f, g \in Handlers : handlers'[f].stage = "pushing" /\ handlers'[g].stage = "pushing" /\ f # g
                                  => settled' = {}
        /\ \A j \in settled', p \in Partners :
              Right(p, j, known[p][j])' \/ \E g \in Handlers : Brings(g, p, j)'
    BY <2>1, <2>2, PushesStay
  <2>4. EvseTypeOK'
    BY <1>1, <2>1, ChangesStay DEF EvseTypeOK
  <2>5. \A g \in Handlers : MutedIsDisabled(g)'
    BY <2>1 DEF EvseIInv, MutedIsDisabled
  <2> QED BY <2>3, <2>4, <2>5 DEF EvseIInv
<1>3. CASE LocationChanges
  <2>1. /\ Another /\ disabled' = ~disabled /\ disabled' \in BOOLEAN
        /\ UNCHANGED <<connectors, active, tariffs, known, due, settled>>
    BY <1>1, <1>3 DEF LocationChanges, EvseTypeOK
  <2>2. ASSUME NEW g \in Handlers
        PROVE  /\ handlers'[g] \in {Idle} \cup Calls \cup Pushings
               /\ handlers'[g].stage = handlers[g].stage
               /\ handlers[g].stage = "pushing" => /\ handlers'[g].key = handlers[g].key
                                                   /\ handlers'[g].pushes = handlers[g].pushes
                                                   /\ handlers'[g].mute = (handlers[g].mute /\ disabled')
               /\ handlers[g].stage = "called" => /\ handlers'[g].off = handlers[g].off
                                                  /\ handlers'[g].mute = (handlers[g].mute /\ disabled')
    <3>1. handlers'[g] = IF handlers[g] = Idle THEN Idle
                         ELSE [handlers[g] EXCEPT !.mute = @ /\ disabled']
      BY <1>3 DEF LocationChanges
    <3>2. handlers[g] \in {Idle} \cup Calls \cup Pushings
      BY <1>1 DEF EvseTypeOK
    <3>3. CASE handlers[g] = Idle
      BY <3>1, <3>3 DEF Idle
    <3>4. CASE handlers[g] \in Calls
      <4>1. handlers[g].mute \in BOOLEAN /\ handlers[g] # Idle /\ handlers[g].stage = "called"
        BY <3>4 DEF Calls, Idle
      <4> DEFINE m == handlers[g].mute /\ disabled'
      <4>2. m \in BOOLEAN /\ handlers'[g] = [handlers[g] EXCEPT !.mute = m]
        BY <3>1, <4>1
      <4> HIDE DEF m
      <4>3. handlers'[g] \in Calls /\ handlers'[g].mute = m /\ handlers'[g].off = handlers[g].off
            /\ handlers'[g].stage = "called"
        BY <3>4, <4>2 DEF Calls
      <4> QED BY <4>1, <4>3 DEF m
    <3>5. CASE handlers[g] \in Pushings
      <4>1. handlers[g].mute \in BOOLEAN /\ handlers[g] # Idle /\ handlers[g].stage = "pushing"
        BY <3>5 DEF Pushings, Idle
      <4> DEFINE m == handlers[g].mute /\ disabled'
      <4>2. m \in BOOLEAN /\ handlers'[g] = [handlers[g] EXCEPT !.mute = m]
        BY <3>1, <4>1
      <4> HIDE DEF m
      <4>3. handlers'[g] \in Pushings /\ handlers'[g].mute = m /\ handlers'[g].key = handlers[g].key
            /\ handlers'[g].stage = "pushing" /\ handlers'[g].pushes = handlers[g].pushes
        BY <3>5, <4>2 DEF Pushings
      <4> QED BY <4>1, <4>3 DEF m
    <3> QED BY <3>2, <3>3, <3>4, <3>5
  <2>3. handlers' \in [Handlers -> {Idle} \cup Calls \cup Pushings]
    <3>1. handlers' = [g \in Handlers |-> handlers'[g]]
      BY <1>3 DEF LocationChanges
    <3> QED BY <2>2, <3>1
  <2>4. \A p \in Partners, j \in settled' : \A value : Right(p, j, value) => Right(p, j, value)'
    BY <2>1 DEF Right
  <2>5. /\ \A g \in Handlers : PushesWhatIsRight(g)'
        /\ \A g \in Handlers : handlers'[g].stage = "pushing" =>
              \E i \in DOMAIN handlers'[g].pushes : handlers'[g].pushes[i].to # {}
        /\ \A f, g \in Handlers : handlers'[f].stage = "pushing" /\ handlers'[g].stage = "pushing" /\ f # g
                                  => settled' = {}
        /\ \A j \in settled', p \in Partners :
              Right(p, j, known[p][j])' \/ \E g \in Handlers : Brings(g, p, j)'
    BY <2>1, <2>2, <2>4, PushesStay
  <2>6. EvseTypeOK'
    BY <1>1, <2>1, <2>3, <2>5, ChangesStay DEF EvseTypeOK
  <2>7. ASSUME NEW g \in Handlers PROVE MutedIsDisabled(g)'
    <3>1. MutedIsDisabled(g) /\ (handlers[g].stage = "called" => handlers[g] \in Calls)
      BY <1>1, HandlerKinds DEF EvseIInv
    <3>2. handlers'[g] \in Calls => handlers'[g].stage = "called"
      BY DEF Calls
    <3> QED BY <2>2, <3>1, <3>2 DEF MutedIsDisabled
  <2> QED BY <2>5, <2>6, <2>7 DEF EvseIInv
<1> QED BY <1>2, <1>3

\* What a handler reads is right, names its key, and is for every partner.
LEMMA ReadPushes ==
  ASSUME EvseTypeOK, NEW k \in Keys, NEW pushes, pushes = IF k = "status" THEN StatusPushes ELSE TariffPushes(k)
  PROVE  /\ pushes \in Seq(Broadcasts)
         /\ \A i \in DOMAIN pushes :
              /\ k \in DOMAIN pushes[i].body
              /\ \A p \in pushes[i].to, j \in DOMAIN pushes[i].body : Right(p, j, pushes[i].body[j])
         /\ \A p \in Partners : \E i \in DOMAIN pushes : p \in pushes[i].to
<1>0. tariffs \in [Connectors -> Lists]
  BY DEF EvseTypeOK
<1>1. CASE k = "status"
  <2> DEFINE push == [to |-> Partners, body |-> [j \in {"status"} |-> Evse(active)[j]]]
  <2>1. pushes = <<push>>
    BY <1>1 DEF StatusPushes
  <2>2. {"status"} \in SUBSET Keys
    BY DEF Keys
  <2>3. [j \in {"status"} |-> Evse(active)[j]] \in Bodies /\ Evse(active)["status"] = StatusOf(connectors, active)
    BY <1>0, <2>2, EvseIs
  <2>4. push \in Broadcasts /\ push.to = Partners /\ DOMAIN push.body = {"status"}
        /\ push.body["status"] = StatusOf(connectors, active)
    BY <2>3 DEF Broadcasts
  <2> HIDE DEF push
  <2>5. pushes \in Seq(Broadcasts) /\ (\A i \in DOMAIN pushes : i = 1) /\ 1 \in DOMAIN pushes
        /\ pushes[1] = push
    <3>1. <<push>> \in Seq(Broadcasts) /\ Len(<<push>>) = 1 /\ <<push>>[1] = push
      BY <2>4
    <3>2. DOMAIN <<push>> = {1}
      <4>1. DOMAIN <<push>> = 1..1
        OBVIOUS
      <4> QED BY <4>1
    <3>3. /\ <<push>> \in Seq(Broadcasts) /\ (\A i \in DOMAIN <<push>> : i = 1)
          /\ 1 \in DOMAIN <<push>> /\ <<push>>[1] = push
      BY <3>1, <3>2
    <3> QED BY <2>1, <3>3, Zenon
  <2> QED BY <1>1, <2>4, <2>5 DEF Right
<1>2. CASE k # "status"
  <2> DEFINE one == [to |-> Partners \ {Gireve}, body |-> [j \in {k} |-> tariffs[j]]]
             all == [to |-> Partners \cap {Gireve}, body |-> Evse({})]
  <2>1. pushes = <<one, all>> /\ k \in Connectors
    BY <1>2 DEF TariffPushes, Keys
  <2>2. [j \in {k} |-> tariffs[j]] \in Bodies /\ Evse({}) \in Bodies /\ DOMAIN Evse({}) = Keys
    BY <1>0, <2>1, EvseIs
  <2>3. /\ one \in Broadcasts /\ one.to = Partners \ {Gireve}
        /\ DOMAIN one.body = {k} /\ one.body[k] = tariffs[k]
        /\ all \in Broadcasts /\ all.to = Partners \cap {Gireve} /\ all.body = Evse({})
    BY <2>2 DEF Broadcasts
  <2> HIDE DEF one, all
  <2>4. /\ pushes \in Seq(Broadcasts) /\ \A i \in DOMAIN pushes : i \in {1, 2}
        /\ 1 \in DOMAIN pushes /\ 2 \in DOMAIN pushes /\ pushes[1] = one /\ pushes[2] = all
    <3>1. <<one, all>> \in Seq(Broadcasts) /\ <<one, all>>[1] = one /\ <<one, all>>[2] = all
      BY <2>3
    <3>2. DOMAIN <<one, all>> = 1..2
      OBVIOUS
    <3>3. 1..2 = {1, 2}
      OBVIOUS
    <3> QED BY <2>1, <3>1, <3>2, <3>3
  <2>5. \A p \in one.to, j \in DOMAIN one.body : Right(p, j, one.body[j])
    BY <1>2, <2>3 DEF Right
  <2>6. \A p \in all.to, j \in DOMAIN all.body : Right(p, j, all.body[j])
    <3> SUFFICES ASSUME NEW j \in Keys PROVE Right(Gireve, j, Evse({})[j])
      BY <2>2, <2>3
    <3>1. CASE j = "status"
      BY <1>0, <3>1, EvseIs DEF Right
    <3>2. CASE j # "status"
      <4>1. j \in Connectors
        BY <3>2 DEF Keys
      <4> QED BY <1>0, <3>2, <4>1, EvseIs DEF Right
    <3> QED BY <3>1, <3>2
  <2>7. \A p \in Partners : p \in one.to \/ p \in all.to
    BY <2>3
  <2> QED BY <2>2, <2>3, <2>4, <2>5, <2>6, <2>7
<1> QED BY <1>1, <1>2
\* Neither a read that fails nor one that is told not to push changes what partners know.
LEMMA HandlerEndsSound ==
  ASSUME EvseIInv, NEW h \in Handlers, handlers[h].stage = "called",
         handlers' = [handlers EXCEPT ![h] = Idle], settled' = settled, due' \subseteq due,
         UNCHANGED <<rows, known, changes>>
  PROVE  EvseIInv'
<1>1. /\ EvseTypeOK
      /\ UNCHANGED <<connectors, active, tariffs, disabled, known, changes>>
  BY DEF EvseIInv, rows
<1>2. \A p, j, value : Right(p, j, value) <=> Right(p, j, value)'
  BY <1>1 DEF Right
<1>3. \A g \in Handlers : handlers'[g] = IF g = h THEN Idle ELSE handlers[g]
  BY <1>1 DEF EvseTypeOK
<1>4. handlers' \in [Handlers -> {Idle} \cup Calls \cup Pushings]
  BY <1>1 DEF EvseTypeOK
<1>5. \A g \in Handlers :
        /\ handlers'[g].stage = "pushing" <=> handlers[g].stage = "pushing"
        /\ handlers[g].stage = "pushing" => handlers'[g] = handlers[g]
  BY <1>3 DEF Idle
<1>6. /\ \A g \in Handlers : PushesWhatIsRight(g)'
      /\ \A g \in Handlers : handlers'[g].stage = "pushing" =>
            \E i \in DOMAIN handlers'[g].pushes : handlers'[g].pushes[i].to # {}
      /\ \A f, g \in Handlers : handlers'[f].stage = "pushing" /\ handlers'[g].stage = "pushing" /\ f # g
                                => settled' = {}
      /\ \A j \in settled', p \in Partners :
            Right(p, j, known[p][j])' \/ \E g \in Handlers : Brings(g, p, j)'
  BY <1>1, <1>2, <1>5, PushesStay
<1>7. EvseTypeOK'
  BY <1>1, <1>4, <1>6 DEF EvseTypeOK
<1>8. ASSUME NEW g \in Handlers PROVE MutedIsDisabled(g)'
  <2>1. MutedIsDisabled(g) /\ handlers'[g] \in {Idle, handlers[g]} /\ disabled' = disabled
    BY <1>1, <1>3 DEF EvseIInv
  <2>2. Idle \notin Calls /\ Idle.stage # "pushing"
    BY DEF Calls, Idle
  <2> QED BY <2>1, <2>2 DEF MutedIsDisabled
<1> QED BY <1>6, <1>7, <1>8 DEF EvseIInv

LEMMA ReadFailsSound ==
  ASSUME EvseIInv, NEW h \in Handlers, ReadFails(h)
  PROVE  EvseIInv'
<1>1. due' \subseteq due
  BY DEF ReadFails
<1> QED BY <1>1, HandlerEndsSound DEF ReadFails

LEMMA ReadSound ==
  ASSUME EvseIInv, NEW h \in Handlers, Read(h)
  PROVE  EvseIInv'
<1> DEFINE k == handlers[h].key
           pushes == IF k = "status" THEN StatusPushes ELSE TariffPushes(k)
           alone == \A g \in Handlers \ {h} : handlers[g].stage # "pushing"
           begun == [stage |-> "pushing", key |-> k, fresh |-> TRUE, mute |-> handlers[h].mute, pushes |-> <<>>]
           full == [begun EXCEPT !.pushes = pushes]
<1>1. /\ EvseTypeOK /\ handlers[h].stage = "called" /\ k \in Keys /\ handlers[h] \in Calls
      /\ UNCHANGED <<connectors, active, tariffs, disabled, known, changes>>
      /\ handlers[h].mute \in BOOLEAN
      /\ handlers[h].mute => handlers[h].off /\ disabled
  BY HandlerKinds DEF EvseIInv, Read, MutedIsDisabled, rows
<1>2. \A p, j, value : Right(p, j, value) <=> Right(p, j, value)'
  BY <1>1 DEF Right
<1>3. CASE Disabled(handlers[h])
  <2>1. /\ handlers' = [handlers EXCEPT ![h] = Idle] /\ settled' = settled /\ due' \subseteq due
        /\ UNCHANGED <<rows, known, changes>>
    BY <1>3 DEF Read
  <2> QED BY <1>1, <2>1, HandlerEndsSound
<1>4. CASE ~Disabled(handlers[h])
  <2>1. /\ pushes \in Seq(Broadcasts)
        /\ \A i \in DOMAIN pushes :
             /\ k \in DOMAIN pushes[i].body
             /\ \A p \in pushes[i].to, j \in DOMAIN pushes[i].body : Right(p, j, pushes[i].body[j])
        /\ \A p \in Partners : \E i \in DOMAIN pushes : p \in pushes[i].to
    BY <1>1, ReadPushes
  <2>2. /\ handlers' = [handlers EXCEPT ![h] = Pushing(begun, pushes)]
        /\ settled' = (IF alone THEN settled \cup {k} ELSE {}) /\ due' = due
    BY <1>4 DEF Read
  <2> HIDE DEF pushes
  <2>3. begun \in Pushings /\ begun.mute = handlers[h].mute
    BY <1>1 DEF Pushings
  <2>4. Pushing(begun, pushes) = IF \A i \in DOMAIN pushes : pushes[i].to = {} THEN Idle ELSE full
    BY DEF Pushing
  <2>5. full \in Pushings /\ full.stage = "pushing" /\ full.key = k /\ full.pushes = pushes
        /\ full.mute = handlers[h].mute
    <3>1. begun.stage = "pushing" /\ begun.key = k
      OBVIOUS
    <3> HIDE DEF begun
    <3> QED BY <2>1, <2>3, <3>1 DEF Pushings
  <2>6. handlers[h].mute = FALSE
    BY <1>1, <1>4 DEF Disabled
  <2> HIDE DEF full, begun
  <2>7. /\ handlers'[h] = IF \A i \in DOMAIN pushes : pushes[i].to = {} THEN Idle ELSE full
        /\ \A g \in Handlers \ {h} : handlers'[g] = handlers[g]
        /\ handlers' \in [Handlers -> {Idle} \cup Calls \cup Pushings]
    BY <1>1, <2>2, <2>4, <2>5 DEF EvseTypeOK
  <2>8. handlers'[h].stage = "pushing" => handlers'[h] = full /\ \E i \in DOMAIN pushes : pushes[i].to # {}
    BY <2>7 DEF Idle
  <2>9. settled' \subseteq Keys /\ (settled' # {} => alone)
    BY <1>1, <2>2 DEF EvseTypeOK
  <2> HIDE DEF k
  <2>10. EvseTypeOK'
    <3>1. ASSUME NEW g \in Handlers, handlers'[g].stage = "pushing"
          PROVE  \E i \in DOMAIN handlers'[g].pushes : handlers'[g].pushes[i].to # {}
      <4>1. CASE g = h
        BY <2>5, <2>8, <3>1, <4>1
      <4>2. CASE g # h
        BY <1>1, <2>7, <3>1, <4>2 DEF EvseTypeOK
      <4> QED BY <4>1, <4>2
    <3> QED BY <1>1, <2>2, <2>7, <2>9, <3>1 DEF EvseTypeOK
  <2>11. ASSUME NEW g \in Handlers PROVE PushesWhatIsRight(g)'
    <3> SUFFICES ASSUME handlers'[g].stage = "pushing", NEW i \in DOMAIN handlers'[g].pushes
                 PROVE  /\ handlers'[g].key \in DOMAIN handlers'[g].pushes[i].body
                        /\ \A p \in handlers'[g].pushes[i].to, j \in settled' \cap DOMAIN handlers'[g].pushes[i].body :
                              Right(p, j, handlers[g].pushes[i].body[j])'
      BY DEF PushesWhatIsRight
    <3>1. CASE g = h
      <4>1. handlers'[g].pushes = pushes /\ handlers'[g].key = k
        BY <2>5, <2>8, <3>1
      <4>2. ASSUME NEW p \in handlers'[g].pushes[i].to, NEW j \in settled' \cap DOMAIN handlers'[g].pushes[i].body
            PROVE  Right(p, j, handlers[g].pushes[i].body[j])'
        <5>1. Right(p, j, pushes[i].body[j])
          BY <2>1, <4>1
        <5> QED BY <1>2, <4>1, <5>1 DEF Right
      <4> QED BY <2>1, <4>1, <4>2
    <3>2. CASE g # h
      <4>1. handlers'[g] = handlers[g] /\ settled' = {}
        BY <2>7, <2>9, <3>2
      <4> QED BY <4>1 DEF EvseIInv, PushesWhatIsRight
    <3> QED BY <3>1, <3>2
  <2>12. ASSUME NEW g \in Handlers PROVE MutedIsDisabled(g)'
    <3>1. CASE g = h
      <4>1. Idle \notin Calls /\ full \notin Calls /\ Idle.stage # "pushing"
        BY <2>5 DEF Calls, Idle
      <4>2. handlers'[g] = Idle \/ handlers'[g] = full
        BY <2>7, <3>1
      <4> QED BY <2>5, <2>6, <4>1, <4>2 DEF MutedIsDisabled
    <3>2. CASE g # h
      <4>1. MutedIsDisabled(g) /\ handlers'[g] = handlers[g] /\ disabled' = disabled
        BY <1>1, <2>7, <3>2 DEF EvseIInv
      <4> QED BY <4>1 DEF MutedIsDisabled
    <3> QED BY <3>1, <3>2
  <2>13. \A f, g \in Handlers : handlers'[f].stage = "pushing" /\ handlers'[g].stage = "pushing" /\ f # g
                                => settled' = {}
    BY <2>7, <2>9
  <2>14. ASSUME NEW j \in settled', NEW p \in Partners
         PROVE  Right(p, j, known[p][j])' \/ \E g \in Handlers : Brings(g, p, j)'
    <3>1. alone /\ settled' = settled \cup {k}
      BY <2>2
    <3>2. CASE j = k
      <4>1. PICK i \in DOMAIN pushes : p \in pushes[i].to
        BY <2>1
      <4>2. handlers'[h] = full
        BY <2>7, <4>1
      <4>3. Brings(h, p, j)'
        BY <2>5, <3>2, <4>1, <4>2 DEF Brings
      <4> QED BY <4>3
    <3>3. CASE j # k
      <4>1. \A g \in Handlers : ~Brings(g, p, j)
        BY <1>1, <3>1 DEF Brings
      <4>2. Right(p, j, known[p][j])
        BY <3>1, <3>3, <4>1 DEF EvseIInv
      <4> QED BY <1>1, <1>2, <4>2 DEF Right
    <3> QED BY <3>2, <3>3
  <2> QED BY <2>10, <2>11, <2>12, <2>13, <2>14 DEF EvseIInv
<1> QED BY <1>3, <1>4
\* Of the broadcasts only the partner's request is gone.
LEMMA WithoutOne ==
  ASSUME NEW x \in Pushings, NEW i \in DOMAIN x.pushes, NEW p \in x.pushes[i].to
  PROVE  LET after == [x.pushes EXCEPT ![i].to = @ \ {p}]
             y == [x EXCEPT !.pushes = after]
         IN  /\ after \in Seq(Broadcasts) /\ DOMAIN after = DOMAIN x.pushes
             /\ \A j \in DOMAIN x.pushes : /\ after[j].body = x.pushes[j].body
                                           /\ after[j].to \subseteq x.pushes[j].to
                                           /\ x.pushes[j].to \ {p} \subseteq after[j].to
             /\ y \in Pushings /\ y.stage = "pushing" /\ y.key = x.key /\ y.mute = x.mute
             /\ y.pushes = after
<1> DEFINE after == [x.pushes EXCEPT ![i].to = @ \ {p}]
           push == x.pushes[i]
           rest == [push EXCEPT !.to = @ \ {p}]
<1>1. x.pushes \in Seq(Broadcasts) /\ push \in Broadcasts
  BY DEF Pushings
<1>2. rest \in Broadcasts /\ rest.body = push.body /\ rest.to = push.to \ {p}
  BY <1>1 DEF Broadcasts
<1>3. after = [x.pushes EXCEPT ![i] = rest]
  OBVIOUS
<1> HIDE DEF rest
<1>4. after \in Seq(Broadcasts) /\ DOMAIN after = DOMAIN x.pushes
  <2>1. i \in 1..Len(x.pushes) /\ [x.pushes EXCEPT ![i] = rest] \in Seq(Broadcasts)
    BY <1>1, <1>2, ExceptSeq
  <2> QED BY <1>1, <1>3, <2>1
<1>5. \A j \in DOMAIN x.pushes : after[j] = IF j = i THEN rest ELSE x.pushes[j]
  BY <1>1, <1>3
<1>6. \A j \in DOMAIN x.pushes : /\ after[j].body = x.pushes[j].body
                                 /\ after[j].to \subseteq x.pushes[j].to
                                 /\ x.pushes[j].to \ {p} \subseteq after[j].to
  BY <1>2, <1>5
<1> HIDE DEF after
<1>7. LET y == [x EXCEPT !.pushes = after]
      IN  /\ y \in Pushings /\ y.stage = "pushing" /\ y.key = x.key /\ y.mute = x.mute
          /\ y.pushes = after
  BY <1>4 DEF Pushings
<1> QED BY <1>4, <1>6, <1>7 DEF after

LEMMA PushSound ==
  ASSUME EvseIInv, NEW h \in Handlers, handlers[h].stage = "pushing",
         NEW i \in DOMAIN handlers[h].pushes, NEW p \in Partners, NEW arrives \in BOOLEAN,
         Push(h, i, p, arrives)
  PROVE  EvseIInv'
<1> DEFINE x == handlers[h]
           body == x.pushes[i].body
           after == [x.pushes EXCEPT ![i].to = @ \ {p}]
           y == [x EXCEPT !.pushes = after]
           merged == [k \in Keys |-> IF k \in DOMAIN body THEN body[k] ELSE known[p][k]]
<1>1. /\ EvseTypeOK /\ x \in Pushings /\ x.key \in Keys /\ x.pushes[i] \in Broadcasts
      /\ p \in x.pushes[i].to
      /\ UNCHANGED <<connectors, active, tariffs, disabled, changes>>
  BY HandlerKinds DEF EvseIInv, Push, rows
<1>2. \A q, k, value : Right(q, k, value) <=> Right(q, k, value)'
  BY <1>1 DEF Right
<1>3. /\ due' \subseteq due
      /\ settled' = (IF arrives THEN settled ELSE settled \ {x.key})
      /\ known' = (IF arrives THEN [known EXCEPT ![p] = [k \in Keys |-> IF k \in DOMAIN body THEN body[k] ELSE @[k]]]
                   ELSE known)
  BY DEF Push
<1>4. handlers' = [handlers EXCEPT ![h] = Pushing(x, after)]
  BY DEF Push, WithoutPartner
<1>5. Pushing(x, after) = IF \A j \in DOMAIN after : after[j].to = {} THEN Idle ELSE y
  BY DEF Pushing
<1>6. /\ after \in Seq(Broadcasts) /\ DOMAIN after = DOMAIN x.pushes
      /\ \A j \in DOMAIN x.pushes : /\ after[j].body = x.pushes[j].body
                                    /\ after[j].to \subseteq x.pushes[j].to
                                    /\ x.pushes[j].to \ {p} \subseteq after[j].to
      /\ y \in Pushings /\ y.stage = "pushing" /\ y.key = x.key /\ y.mute = x.mute
      /\ y.pushes = after
  BY <1>1, WithoutOne
<1> HIDE DEF y, after
<1>7. /\ handlers'[h] = IF \A j \in DOMAIN after : after[j].to = {} THEN Idle ELSE y
      /\ \A g \in Handlers \ {h} : handlers'[g] = handlers[g]
      /\ handlers' \in [Handlers -> {Idle} \cup Calls \cup Pushings]
  BY <1>1, <1>4, <1>5, <1>6 DEF EvseTypeOK
<1>8. handlers'[h].stage = "pushing" => handlers'[h] = y /\ \E j \in DOMAIN after : after[j].to # {}
  BY <1>7 DEF Idle
<1>9. /\ arrives => known' = [known EXCEPT ![p] = merged]
      /\ merged \in Bodies /\ DOMAIN merged = Keys
  <2>1. body \in Bodies /\ known[p] \in Bodies /\ DOMAIN known[p] = Keys
    BY <1>1, KnownBodies DEF Broadcasts
  <2>2. \A k \in DOMAIN merged : merged[k] \in IF k = "status" THEN EvseStatuses ELSE Lists
    BY <2>1, BodyIs
  <2>3. DOMAIN merged = Keys /\ merged = [k \in DOMAIN merged |-> merged[k]]
    OBVIOUS
  <2>4. merged \in Bodies
    BY <2>2, <2>3, BodyIs
  <2> QED BY <1>3, <2>3, <2>4
<1>10. /\ known' \in [Partners -> {b \in Bodies : DOMAIN b = Keys}]
       /\ \A q \in Partners : q # p => known'[q] = known[q]
       /\ IF arrives THEN known'[p] = merged ELSE known'[p] = known[p]
  <2> HIDE DEF merged
  <2> QED BY <1>1, <1>3, <1>9 DEF EvseTypeOK
<1>11. EvseTypeOK'
  <2>1. ASSUME NEW g \in Handlers, handlers'[g].stage = "pushing"
        PROVE  \E j \in DOMAIN handlers'[g].pushes : handlers'[g].pushes[j].to # {}
    <3>1. CASE g = h
      BY <1>6, <1>8, <2>1, <3>1
    <3>2. CASE g # h
      BY <1>1, <1>7, <2>1, <3>2 DEF EvseTypeOK
    <3> QED BY <3>1, <3>2
  <2>2. settled' \subseteq settled
    BY <1>3
  <2> QED BY <1>1, <1>3, <1>7, <1>10, <2>1, <2>2 DEF EvseTypeOK
<1>12. ASSUME NEW g \in Handlers PROVE PushesWhatIsRight(g)'
  <2> SUFFICES ASSUME handlers'[g].stage = "pushing", NEW j \in DOMAIN handlers'[g].pushes
               PROVE  /\ handlers'[g].key \in DOMAIN handlers'[g].pushes[j].body
                      /\ \A q \in handlers'[g].pushes[j].to, k \in settled' \cap DOMAIN handlers'[g].pushes[j].body :
                            Right(q, k, handlers[g].pushes[j].body[k])'
    BY DEF PushesWhatIsRight
  <2>1. /\ handlers[g].stage = "pushing" /\ handlers'[g].key = handlers[g].key
        /\ j \in DOMAIN handlers[g].pushes
        /\ handlers'[g].pushes[j].body = handlers[g].pushes[j].body
        /\ handlers'[g].pushes[j].to \subseteq handlers[g].pushes[j].to
    <3>1. CASE g = h
      BY <1>6, <1>8, <3>1
    <3>2. CASE g # h
      BY <1>7, <3>2
    <3> QED BY <3>1, <3>2
  <2>2. PushesWhatIsRight(g) /\ settled' \subseteq settled
    BY <1>3 DEF EvseIInv
  <2>3. handlers[g].key \in DOMAIN handlers[g].pushes[j].body
    BY <2>1, <2>2 DEF PushesWhatIsRight
  <2>4. ASSUME NEW q \in handlers'[g].pushes[j].to, NEW k \in settled' \cap DOMAIN handlers'[g].pushes[j].body
        PROVE  Right(q, k, handlers[g].pushes[j].body[k])'
    <3>1. Right(q, k, handlers[g].pushes[j].body[k])
      BY <2>1, <2>2 DEF PushesWhatIsRight
    <3> QED BY <1>2, <2>1, <3>1 DEF Right
  <2> QED BY <2>1, <2>3, <2>4
<1>13. ASSUME NEW g \in Handlers PROVE MutedIsDisabled(g)'
  <2>1. CASE g = h
    <3>1. Idle \notin Calls /\ y \notin Calls /\ Idle.stage # "pushing"
      BY <1>6 DEF Calls, Idle
    <3>2. handlers'[g] = Idle \/ handlers'[g] = y
      BY <1>7, <2>1
    <3>3. ~x.mute
      BY DEF EvseIInv, MutedIsDisabled
    <3> QED BY <1>6, <3>1, <3>2, <3>3 DEF MutedIsDisabled
  <2>2. CASE g # h
    <3>1. MutedIsDisabled(g) /\ handlers'[g] = handlers[g] /\ disabled' = disabled
      BY <1>1, <1>7, <2>2 DEF EvseIInv
    <3> QED BY <3>1 DEF MutedIsDisabled
  <2> QED BY <2>1, <2>2
<1>14. \A g \in Handlers : handlers'[g].stage = "pushing" => handlers[g].stage = "pushing"
  BY <1>7
<1>15. \A f, g \in Handlers : handlers'[f].stage = "pushing" /\ handlers'[g].stage = "pushing" /\ f # g
                              => settled' = {}
  BY <1>3, <1>14 DEF EvseIInv
<1>16. ASSUME NEW k \in settled', NEW q \in Partners
       PROVE  Right(q, k, known[q][k])' \/ \E g \in Handlers : Brings(g, q, k)'
  <2>1. k \in settled /\ k \in Keys /\ \A g \in Handlers \ {h} : handlers[g].stage # "pushing"
    BY <1>1, <1>3 DEF EvseIInv, EvseTypeOK
  <2>2. Right(q, k, known[q][k]) \/ Brings(h, q, k)
    BY <2>1 DEF EvseIInv, Brings
  <2>3. x.key \in DOMAIN body /\ (k \in DOMAIN body => Right(p, k, body[k]))
    BY <1>1, <2>1 DEF EvseIInv, PushesWhatIsRight
  <2>4. CASE q # p
    <3>1. known'[q] = known[q]
      BY <1>10, <2>4
    <3>2. CASE Right(q, k, known[q][k])
      BY <1>2, <3>1, <3>2 DEF Right
    <3>3. CASE Brings(h, q, k)
      <4>1. PICK j \in DOMAIN x.pushes : q \in x.pushes[j].to
        BY <3>3 DEF Brings
      <4>2. j \in DOMAIN after /\ q \in after[j].to
        BY <1>6, <2>4, <4>1
      <4>3. handlers'[h] = y
        BY <1>7, <4>2
      <4>4. x.key = k
        BY <3>3 DEF Brings
      <4>5. Brings(h, q, k)'
        BY <1>6, <4>2, <4>3, <4>4 DEF Brings
      <4> QED BY <4>5
    <3> QED BY <2>2, <3>2, <3>3
  <2>5. CASE q = p /\ arrives
    <3>1. CASE k \in DOMAIN body
      <4>1. known'[q][k] = body[k]
        BY <1>10, <2>1, <2>5, <3>1
      <4>2. Right(q, k, body[k])
        BY <2>3, <2>5, <3>1
      <4> QED BY <1>2, <4>1, <4>2 DEF Right
    <3>2. CASE k \notin DOMAIN body
      <4>1. known'[q][k] = known[q][k]
        BY <1>10, <2>1, <2>5, <3>2
      <4>2. ~Brings(h, q, k)
        BY <2>3, <3>2 DEF Brings
      <4> QED BY <1>2, <2>2, <4>1, <4>2 DEF Right
    <3> QED BY <3>1, <3>2
  <2>6. CASE q = p /\ ~arrives
    <3>1. k # x.key /\ known'[q] = known[q]
      BY <1>3, <1>10, <2>6
    <3>2. ~Brings(h, q, k)
      BY <3>1 DEF Brings
    <3> QED BY <1>2, <2>2, <3>1, <3>2 DEF Right
  <2> QED BY <2>4, <2>5, <2>6
<1> QED BY <1>11, <1>12, <1>13, <1>15, <1>16 DEF EvseIInv

LEMMA EvseInitSound == EvseInit => EvseIInv
<1> SUFFICES ASSUME EvseInit PROVE EvseIInv
  OBVIOUS
<1>1. /\ tariffs = [c \in Connectors |-> CHOOSE l \in TariffsOf[c] : TRUE]
      /\ connectors \in [Connectors -> ConnectorStatuses] /\ active = {} /\ disabled = FALSE
      /\ handlers = [h \in Handlers |-> Idle] /\ known = [p \in Partners |-> Evse(active)]
      /\ due = {} /\ settled = Keys /\ changes = 0
  BY DEF EvseInit
<1>2. tariffs \in [Connectors -> Lists]
  BY <1>1, EvseAssumption DEF Lists
<1>3. /\ Evse(active) \in Bodies /\ DOMAIN Evse(active) = Keys
      /\ Evse(active)["status"] = StatusOf(connectors, active)
      /\ \A c \in Connectors : Evse(active)[c] = tariffs[c]
  BY <1>2, EvseIs
<1>4. \A h \in Handlers : handlers[h] = Idle /\ Idle.stage # "pushing" /\ Idle \notin Calls
  BY <1>1 DEF Idle, Calls
<1>5. EvseTypeOK
  <2>1. known \in [Partners -> {b \in Bodies : DOMAIN b = Keys}]
    BY <1>1, <1>3
  <2>2. 0 \in 0..MaxChanges
    BY EvseAssumption
  <2> QED BY <1>1, <1>2, <1>4, <2>1, <2>2 DEF EvseTypeOK
<1>6. ASSUME NEW k \in settled, NEW p \in Partners PROVE Right(p, k, known[p][k])
  <2>1. known[p] = Evse(active) /\ k \in Keys
    BY <1>1
  <2>2. CASE k = "status"
    BY <1>3, <2>1, <2>2 DEF Right
  <2>3. CASE k # "status"
    BY <1>3, <2>1, <2>3 DEF Right, Keys
  <2> QED BY <2>2, <2>3
<1> QED BY <1>4, <1>5, <1>6 DEF EvseIInv, PushesWhatIsRight, MutedIsDisabled

LEMMA EvseStepSound == EvseIInv /\ [EvseNext]_evseVars => EvseIInv'
<1> SUFFICES ASSUME EvseIInv, [EvseNext]_evseVars PROVE EvseIInv'
  OBVIOUS
<1>1. CASE UNCHANGED evseVars
  <2>1. UNCHANGED <<connectors, active, tariffs, disabled, handlers, known, due, settled, changes>>
    BY <1>1 DEF evseVars, rows
  <2>2. EvseTypeOK'
    BY <2>1 DEF EvseIInv, EvseTypeOK
  <2>3. \A h \in Handlers : PushesWhatIsRight(h)' /\ MutedIsDisabled(h)'
    BY <2>1 DEF EvseIInv, PushesWhatIsRight, MutedIsDisabled, Right
  <2>4. \A k \in settled', p \in Partners :
          Right(p, k, known[p][k])' \/ \E h \in Handlers : Brings(h, p, k)'
    BY <2>1 DEF EvseIInv, Brings, Right
  <2>5. \A g, h \in Handlers : handlers'[g].stage = "pushing" /\ handlers'[h].stage = "pushing" /\ g # h
                               => settled' = {}
    BY <2>1 DEF EvseIInv
  <2> QED BY <2>2, <2>3, <2>4, <2>5 DEF EvseIInv
<1>2. ASSUME NEW h \in Handlers, NEW c \in Connectors, StatusChanges(h, c) \/ TariffsChange(h, c)
      PROVE  EvseIInv'
  BY <1>2, RowsChangeSound
<1>3. ASSUME LocationChanges \/ \E c \in Chargeable : TransactionChanges(c) PROVE EvseIInv'
  BY <1>3, OtherChangesSound
<1>4. ASSUME NEW h \in Handlers, Read(h) PROVE EvseIInv'
  BY <1>4, ReadSound
<1>5. ASSUME NEW h \in Handlers, handlers[h].stage = "pushing",
             NEW i \in DOMAIN handlers[h].pushes, NEW p \in Partners, NEW arrives \in BOOLEAN,
             Push(h, i, p, arrives)
      PROVE  EvseIInv'
  BY <1>5, PushSound
<1>6. ASSUME NEW h \in Handlers, ReadFails(h) PROVE EvseIInv'
  BY <1>6, ReadFailsSound
<1> QED BY <1>1, <1>2, <1>3, <1>4, <1>5, <1>6 DEF EvseNext, Handle

LEMMA MutedStayUnpushed == EvseIInv => DisabledIsNotPushed
BY DEF EvseIInv, MutedIsDisabled, DisabledIsNotPushed

\* Without a transaction an Occupied connector is free, and the others mean the same.
LEMMA SettledTold == EvseIInv => SettledIsTrue
<1> SUFFICES ASSUME EvseIInv, NothingIsPushed PROVE SettledIsTrue
  BY DEF SettledIsTrue, StatusIsTrue, TariffsAreTrue
<1>1. EvseTypeOK /\ \A k \in settled, p \in Partners : Right(p, k, known[p][k])
  BY DEF EvseIInv, NothingIsPushed, Brings
<1>2. TariffsAreTrue
  BY <1>1 DEF TariffsAreTrue, Right
<1>3. ASSUME "status" \in settled, NEW p \in Partners,
             ~(p = Gireve /\ \E c \in active : connectors[c] = "Occupied")
      PROVE  /\ known[p]["status"] = "CHARGING" <=> \E c \in Connectors : Charging(c)
             /\ known[p]["status"] = "AVAILABLE" => \E c \in Connectors : Free(c)
  <2> DEFINE value == known[p]["status"]
  <2>1. DOMAIN connectors = Connectors /\ \A c \in Connectors : connectors[c] \in ConnectorStatuses
    BY <1>1 DEF EvseTypeOK
  <2>2. PICK ts : /\ value = StatusOf(connectors, ts) /\ ts \in {active, {}}
                  /\ ts = active \/ \A c \in active : connectors[c] # "Occupied"
    BY <1>1, <1>3 DEF Right
  <2>3. /\ value = "CHARGING" <=> \E c \in Connectors : Means(connectors[c], c \in ts) = "CHARGING"
        /\ value = "AVAILABLE" => \E c \in Connectors : Means(connectors[c], c \in ts) = "AVAILABLE"
    BY <2>1, <2>2, StatusIs
  <2>4. ASSUME NEW c \in Connectors
        PROVE  /\ Means(connectors[c], c \in ts) = "CHARGING" <=> Charging(c)
               /\ Means(connectors[c], c \in ts) = "AVAILABLE" => Free(c)
    <3>1. connectors[c] = "Occupied" => (c \in ts <=> c \in active)
      BY <2>2
    <3>2. connectors[c] \in ConnectorStatuses /\ (c \in ts) \in BOOLEAN
      BY <2>1
    <3> QED BY <3>1, <3>2, MeansIs DEF Charging, Free
  <2> QED BY <2>3, <2>4
<1> QED BY <1>2, <1>3 DEF SettledIsTrue, StatusIsTrue
-----------------------------------------------------------------------------
(* An own tariff *)

LEMMA PusherKinds ==
  ASSUME OwnTariffTypeOK, NEW h \in Pushers
  PROVE  /\ pushers[h].stage = "pushing" =>
              /\ pushers[h] \in BusyPushers /\ pushers[h].id \in Ids /\ pushers[h].version \in Versions
              /\ pushers[h].to \subseteq Recipients /\ pushers[h].to # {}
         /\ pushers[h] \in BusyPushers => pushers[h].stage = "pushing"
         /\ pushers[h].stage = "called" <=> pushers[h] \in CalledPushers
         /\ pushers[h] = AtRest <=> pushers[h].stage = "idle"
<1>1. pushers[h] \in {AtRest} \cup CalledPushers \cup BusyPushers
  BY DEF OwnTariffTypeOK
<1>2. CASE pushers[h] = AtRest
  BY <1>2 DEF AtRest, CalledPushers, BusyPushers
<1>3. CASE pushers[h] \in CalledPushers
  BY <1>3 DEF AtRest, CalledPushers, BusyPushers
<1>4. CASE pushers[h] \in BusyPushers
  <2>1. pushers[h].stage = "pushing" /\ pushers[h] # AtRest /\ pushers[h] \notin CalledPushers
    BY <1>4 DEF AtRest, CalledPushers, BusyPushers
  <2>2. pushers[h].id \in Ids /\ pushers[h].version \in Versions
    BY <1>4 DEF BusyPushers
  <2>3. pushers[h].to \in (SUBSET Recipients) \ {{}}
    BY <1>4 DEF BusyPushers
  <2> QED BY <1>4, <2>1, <2>2, <2>3
<1> QED BY <1>1, <1>2, <1>3, <1>4

LEMMA OwnFields ==
  ASSUME OwnTariffTypeOK
  PROVE  /\ own.version \in Versions /\ own.there \in BOOLEAN /\ own.elements \in BOOLEAN
         /\ own.named \in BOOLEAN /\ SenderId \in Ids
BY DEF OwnTariffTypeOK, SenderId, Ids

\* A write of the row that calls a handler.
LEMMA CallsPusherSound ==
  ASSUME OwnTariffIInv, NEW h \in Pushers, NEW kind \in {"put", "delete"}, CallsPusher(h, kind),
         own' \in [version : Versions, there : BOOLEAN, elements : BOOLEAN, named : BOOLEAN],
         own'.named = own.named, own'.there => own'.version # 0, own'.elements => own'.there,
         ~own.there /\ own.version # 0 => ~own'.there /\ own'.version # 0,
         kind = "delete" => ~own'.there /\ own'.version # 0
  PROVE  OwnTariffIInv'
<1> DEFINE call == [stage |-> "called", kind |-> kind]
<1>1. /\ OwnTariffTypeOK /\ pushers[h] = AtRest /\ pushers' = [pushers EXCEPT ![h] = call]
      /\ inTouch' = {} /\ UNCHANGED <<has, outbox, overtaken>>
  BY DEF CallsPusher, OwnTariffIInv
<1>2. call \in CalledPushers /\ call.kind = kind /\ call.stage = "called"
  BY DEF CalledPushers
<1> HIDE DEF call
<1>3. \A g \in Pushers : pushers'[g] = IF g = h THEN call ELSE pushers[g]
  BY <1>1 DEF OwnTariffTypeOK
<1>4. OwnTariffTypeOK'
  BY <1>1, <1>2 DEF OwnTariffTypeOK
<1>5. ASSUME NEW g \in Pushers, pushers'[g] \in CalledPushers, pushers'[g].kind = "delete"
      PROVE  ~own'.there /\ own'.version # 0
  BY <1>2, <1>3, <1>5 DEF OwnTariffIInv
<1>6. SenderId' = SenderId
  BY DEF SenderId
<1>7. ASSUME NEW i \in Ids \ {SenderId} PROVE NothingElse(i)'
  <2>1. \A g \in Pushers : pushers'[g].stage = "pushing" => pushers'[g] = pushers[g]
    BY <1>2, <1>3
  <2> QED BY <1>1, <2>1 DEF OwnTariffIInv, NothingElse
<1> QED BY <1>1, <1>4, <1>5, <1>6, <1>7 DEF OwnTariffIInv

LEMMA OwnRowSound ==
  ASSUME OwnTariffIInv, NEW h \in Pushers,
         InsertOwn(h) \/ ChangeElements(h) \/ ChangeOwn(h) \/ DeleteOwn(h)
  PROVE  OwnTariffIInv'
<1>1. /\ OwnTariffTypeOK /\ own \in [version : Versions, there : BOOLEAN, elements : BOOLEAN, named : BOOLEAN]
      /\ own.there => own.version # 0
      /\ own.elements => own.there
  BY DEF OwnTariffIInv, OwnTariffTypeOK
<1>2. CASE InsertOwn(h)
  <2>1. CallsPusher(h, "put") /\ own.version = 0 /\ own' = [own EXCEPT !.version = 1, !.there = TRUE]
    BY <1>2 DEF InsertOwn
  <2>2. 1 \in Versions /\ ~own.elements
    BY <1>1, <2>1, OwnTariffAssumption DEF Versions
  <2>3. /\ own' \in [version : Versions, there : BOOLEAN, elements : BOOLEAN, named : BOOLEAN]
        /\ own'.named = own.named /\ own'.version = 1 /\ own'.there /\ own'.elements = own.elements
    BY <1>1, <2>1, <2>2
  <2> QED BY <2>1, <2>3, CallsPusherSound
<1>3. ASSUME ChangeElements(h) \/ ChangeOwn(h)
      PROVE  OwnTariffIInv'
  <2>1. /\ CallsPusher(h, "put") /\ own.version < MaxVersions /\ own.there
        /\ \E some \in BOOLEAN : own' = [own EXCEPT !.version = @ + 1, !.elements = some]
    <3>1. own = [own EXCEPT !.elements = own.elements] /\ own.elements \in BOOLEAN
      BY <1>1
    <3>2. CASE ChangeElements(h)
      BY <3>2 DEF ChangeElements, Writes
    <3>3. CASE ChangeOwn(h)
      <4>1. own' = [own EXCEPT !.version = @ + 1, !.elements = own.elements]
        BY <1>1, <3>3 DEF ChangeOwn
      <4> QED BY <3>1, <3>3, <4>1 DEF ChangeOwn, Writes
    <3> QED BY <1>3, <3>2, <3>3
  <2>2. PICK some \in BOOLEAN : own' = [own EXCEPT !.version = @ + 1, !.elements = some]
    BY <2>1
  <2>3. own.version + 1 \in Versions /\ own.version + 1 # 0
    BY <1>1, <2>1, OwnTariffAssumption DEF Versions
  <2>4. /\ own' \in [version : Versions, there : BOOLEAN, elements : BOOLEAN, named : BOOLEAN]
        /\ own'.named = own.named /\ own'.version # 0 /\ own'.there
    BY <1>1, <2>1, <2>2, <2>3
  <2> QED BY <2>1, <2>4, CallsPusherSound
<1>4. CASE DeleteOwn(h)
  <2>1. CallsPusher(h, "delete") /\ own.there /\ own' = [own EXCEPT !.there = FALSE, !.elements = FALSE]
    BY <1>4 DEF DeleteOwn
  <2>2. /\ own' \in [version : Versions, there : BOOLEAN, elements : BOOLEAN, named : BOOLEAN]
        /\ own'.named = own.named /\ own'.version = own.version /\ ~own'.there /\ ~own'.elements
    BY <1>1, <2>1
  <2> QED BY <1>1, <2>1, <2>2, CallsPusherSound
<1> QED BY <1>2, <1>3, <1>4
\* A handler that has read what to send is the only one that pushes, or nobody is in touch.
LEMMA BeginsSound ==
  ASSUME OwnTariffIInv, NEW h \in Pushers, pushers[h].stage = "called",
         NEW i \in Ids, NEW v \in Versions, Begins(h, i, v), UNCHANGED <<own, has, outbox, overtaken>>,
         i # SenderId => v = 0, Claimed => i = SenderId /\ v = CurrentVersion,
         ~(own.there /\ ~own.elements)
  PROVE  OwnTariffIInv'
<1> DEFINE busy == [stage |-> "pushing", id |-> i, version |-> v, to |-> Recipients]
<1>1. /\ OwnTariffTypeOK
      /\ pushers' = [pushers EXCEPT ![h] = IF Recipients = {} THEN AtRest ELSE busy]
      /\ inTouch' = IF \A g \in Pushers \ {h} : pushers[g].stage # "pushing" THEN Recipients ELSE {}
  BY DEF Begins, OwnTariffIInv
<1>2. /\ busy.stage = "pushing" /\ busy.id = i /\ busy.version = v /\ busy.to = Recipients
      /\ Recipients # {} => busy \in BusyPushers
      /\ busy \notin CalledPushers
  BY DEF BusyPushers, CalledPushers
<1> HIDE DEF busy
<1>3. /\ pushers'[h] = IF Recipients = {} THEN AtRest ELSE busy
      /\ \A g \in Pushers \ {h} : pushers'[g] = pushers[g]
  BY <1>1 DEF OwnTariffTypeOK
<1>4. OwnTariffTypeOK'
  <2>1. pushers' \in [Pushers -> {AtRest} \cup CalledPushers \cup BusyPushers]
    BY <1>1, <1>2 DEF OwnTariffTypeOK
  <2> QED BY <1>1, <2>1 DEF OwnTariffTypeOK
<1>5. SenderId' = SenderId /\ CurrentVersion' = CurrentVersion /\ (Claimed' <=> Claimed)
  BY DEF SenderId, CurrentVersion, Claimed
<1>6. AtRest \notin CalledPushers /\ AtRest.stage # "pushing"
  BY DEF AtRest, CalledPushers
<1>7. ASSUME NEW g \in Pushers, pushers'[g] \in CalledPushers, pushers'[g].kind = "delete"
      PROVE  ~own'.there /\ own'.version # 0
  BY <1>2, <1>3, <1>6, <1>7 DEF OwnTariffIInv
<1>8. ASSUME NEW j \in Ids \ {SenderId} PROVE NothingElse(j)'
  <2>1. NothingElse(j)
    BY DEF OwnTariffIInv
  <2>2. \A g \in Pushers : pushers'[g].stage = "pushing" /\ pushers'[g].id = j => pushers'[g].version = 0
    BY <1>2, <1>3, <1>6, <2>1 DEF NothingElse
  <2> QED BY <2>1, <2>2 DEF NothingElse
<1>9. inTouch' # {} => \A g \in Pushers : pushers'[g].stage = "pushing" =>
          /\ \A f \in Pushers \ {g} : pushers'[f].stage # "pushing"
          /\ Claimed => pushers'[g].id = SenderId /\ pushers'[g].version = CurrentVersion
  BY <1>1, <1>2, <1>3
<1>10. \A p \in inTouch' : Awaits(p)'
  <2> SUFFICES ASSUME NEW p \in inTouch' PROVE Awaits(p)'
    OBVIOUS
  <2>1. p \in Recipients
    BY <1>1
  <2> QED BY <1>2, <1>3, <2>1 DEF Awaits
<1>11. own'.there /\ ~own'.elements => inTouch' = {}
  OBVIOUS
<1> QED BY <1>4, <1>5, <1>7, <1>8, <1>9, <1>10, <1>11 DEF OwnTariffIInv

LEMMA OwnReadSound ==
  ASSUME OwnTariffIInv, NEW h \in Pushers, ReadOwn(h) \/ SendDeletion(h)
  PROVE  OwnTariffIInv'
<1>1. /\ OwnTariffTypeOK /\ pushers[h].stage = "called" /\ UNCHANGED <<own, has, outbox, overtaken>>
      /\ own.version \in Versions /\ own.named \in BOOLEAN /\ SenderId \in Ids
  BY OwnFields DEF OwnTariffIInv, ReadOwn, SendDeletion
<1>2. CASE ReadOwn(h) /\ own.elements
  <2>1. Begins(h, SenderId, own.version)
    BY <1>2 DEF ReadOwn
  <2>2. own.version = CurrentVersion
    BY <1>2 DEF CurrentVersion
  <2> QED BY <1>1, <1>2, <2>1, <2>2, BeginsSound
<1>3. CASE ReadOwn(h) /\ ~own.elements
  <2>1. pushers' = [pushers EXCEPT ![h] = AtRest] /\ UNCHANGED inTouch
    BY <1>3 DEF ReadOwn
  <2>2. AtRest \notin CalledPushers /\ AtRest.stage # "pushing"
    BY DEF AtRest, CalledPushers
  <2>3. \A g \in Pushers : pushers'[g] = IF g = h THEN AtRest ELSE pushers[g]
    BY <1>1, <2>1 DEF OwnTariffTypeOK
  <2>4. OwnTariffTypeOK'
    BY <1>1, <2>1 DEF OwnTariffTypeOK
  <2>5. SenderId' = SenderId /\ CurrentVersion' = CurrentVersion /\ (Claimed' <=> Claimed)
    BY <1>1 DEF SenderId, CurrentVersion, Claimed
  <2>6. ASSUME NEW j \in Ids \ {SenderId} PROVE NothingElse(j)'
    BY <1>1, <2>2, <2>3 DEF OwnTariffIInv, NothingElse
  <2>7. \A p \in inTouch : /\ Awaits(p) => Awaits(p)'
                           /\ IsInTouch(p) => IsInTouch(p)'
    BY <1>1, <2>3, <2>5 DEF Awaits, IsInTouch
  <2> QED BY <1>1, <2>1, <2>2, <2>3, <2>4, <2>5, <2>6, <2>7 DEF OwnTariffIInv
<1>4. CASE SendDeletion(h)
  <2>1. Begins(h, "numbered", 0) /\ pushers[h].kind = "delete" /\ pushers[h] \in CalledPushers
    BY <1>1, <1>4, PusherKinds DEF SendDeletion, DeletionId
  <2>2. ~own.there /\ ~own.elements
    BY <2>1 DEF OwnTariffIInv
  <2>3. "numbered" \in Ids /\ 0 \in Versions
    BY OwnTariffAssumption DEF Ids, Versions
  <2>4. Claimed => "numbered" = SenderId /\ 0 = CurrentVersion
    BY <2>2 DEF Claimed, SenderId, CurrentVersion
  <2> QED BY <1>1, <2>1, <2>2, <2>3, <2>4, BeginsSound
<1> QED BY <1>2, <1>3, <1>4
\* A handler that has sent its request to one partner.
LEMMA WithoutPusher ==
  ASSUME NEW b \in BusyPushers, NEW p \in b.to, b.to # {p}
  PROVE  LET less == [b EXCEPT !.to = @ \ {p}]
         IN  /\ less \in BusyPushers /\ less.stage = "pushing" /\ less.id = b.id
             /\ less.version = b.version /\ less.to = b.to \ {p}
<1>1. b.to \in (SUBSET Recipients) \ {{}} /\ b.to \ {p} # {}
  BY DEF BusyPushers
<1> DEFINE others == b.to \ {p}
<1>2. others \in (SUBSET Recipients) \ {{}}
  BY <1>1
<1> HIDE DEF others
<1>3. LET less == [b EXCEPT !.to = others]
      IN  /\ less \in BusyPushers /\ less.stage = "pushing" /\ less.id = b.id
          /\ less.version = b.version /\ less.to = others
  BY <1>2 DEF BusyPushers
<1> QED BY <1>3 DEF others

LEMMA WithoutSound ==
  ASSUME OwnTariffTypeOK, NEW h \in Pushers, pushers[h].stage = "pushing", NEW p \in pushers[h].to,
         pushers' = [pushers EXCEPT ![h] = Without(h, p)]
  PROVE  /\ pushers' \in [Pushers -> {AtRest} \cup CalledPushers \cup BusyPushers]
         /\ \A g \in Pushers \ {h} : pushers'[g] = pushers[g]
         /\ pushers'[h] \notin CalledPushers
         /\ pushers'[h].stage = "pushing" =>
              pushers'[h].id = pushers[h].id /\ pushers'[h].version = pushers[h].version
         /\ \A q \in pushers[h].to \ {p} : pushers'[h].stage = "pushing" /\ q \in pushers'[h].to
<1>1. pushers[h] \in BusyPushers
  BY PusherKinds
<1>2. pushers'[h] = Without(h, p) /\ \A g \in Pushers \ {h} : pushers'[g] = pushers[g]
  BY DEF OwnTariffTypeOK
<1>3. CASE pushers[h].to = {p}
  <2>1. Without(h, p) = AtRest
    BY <1>3 DEF Without
  <2>2. AtRest \notin CalledPushers /\ AtRest.stage # "pushing"
    BY DEF AtRest, CalledPushers
  <2> QED BY <1>2, <1>3, <2>1, <2>2 DEF OwnTariffTypeOK
<1>4. CASE pushers[h].to # {p}
  <2> DEFINE less == [pushers[h] EXCEPT !.to = @ \ {p}]
  <2>1. Without(h, p) = less
    BY <1>4 DEF Without
  <2>2. /\ less \in BusyPushers /\ less.stage = "pushing" /\ less.id = pushers[h].id
        /\ less.version = pushers[h].version /\ less.to = pushers[h].to \ {p}
    BY <1>1, <1>4, WithoutPusher
  <2> HIDE DEF less
  <2>3. less \notin CalledPushers
    BY <2>2 DEF CalledPushers
  <2> QED BY <1>2, <2>1, <2>2, <2>3 DEF OwnTariffTypeOK
<1> QED BY <1>3, <1>4

\* What is under another id stays nothing when a handler's version is written there.
LEMMA SendsSound ==
  ASSUME OwnTariffIInv, NEW h \in Pushers, pushers[h].stage = "pushing", NEW p \in pushers[h].to,
         pushers' = [pushers EXCEPT ![h] = Without(h, p)], UNCHANGED own,
         has' = has \/ has' = [has EXCEPT ![p][pushers[h].id] = pushers[h].version],
         outbox' = outbox \/ outbox' = [outbox EXCEPT ![pushers[h].id] = [queued |-> TRUE, version |-> pushers[h].version]],
         inTouch' \subseteq inTouch, overtaken' \subseteq Ids,
         \A q \in inTouch' : Claimed /\ ~Awaits(q)' => (q = Hub /\ SenderId \in overtaken') \/ IsInTouch(q)'
  PROVE  OwnTariffIInv'
<1> DEFINE id == pushers[h].id
           v == pushers[h].version
<1>1. /\ OwnTariffTypeOK /\ id \in Ids /\ v \in Versions /\ p \in Recipients
  BY PusherKinds DEF OwnTariffIInv
<1>2. /\ pushers' \in [Pushers -> {AtRest} \cup CalledPushers \cup BusyPushers]
      /\ \A g \in Pushers \ {h} : pushers'[g] = pushers[g]
      /\ pushers'[h] \notin CalledPushers
      /\ pushers'[h].stage = "pushing" => pushers'[h].id = id /\ pushers'[h].version = v
      /\ \A q \in pushers[h].to \ {p} : pushers'[h].stage = "pushing" /\ q \in pushers'[h].to
  BY <1>1, WithoutSound
<1>3. SenderId' = SenderId /\ CurrentVersion' = CurrentVersion /\ (Claimed' <=> Claimed)
  BY DEF SenderId, CurrentVersion, Claimed
<1>4. has' \in [Recipients -> [Ids -> Versions]]
      /\ \A q \in Recipients, j \in Ids : has'[q][j] = has[q][j] \/ (j = id /\ has'[q][j] = v)
  <2>1. has \in [Recipients -> [Ids -> Versions]]
    BY <1>1 DEF OwnTariffTypeOK
  <2> DEFINE new == [has[p] EXCEPT ![id] = v]
  <2>2. has[p] \in [Ids -> Versions]
    BY <1>1, <2>1
  <2>3. new \in [Ids -> Versions] /\ \A j \in Ids : new[j] = IF j = id THEN v ELSE has[p][j]
    BY <1>1, <2>2
  <2>4. has' = has \/ has' = [has EXCEPT ![p] = new]
    OBVIOUS
  <2> HIDE DEF new, id, v
  <2> QED BY <1>1, <2>1, <2>3, <2>4
<1>5. outbox' \in [Ids -> [queued : BOOLEAN, version : Versions]]
      /\ \A j \in Ids : outbox'[j] = outbox[j] \/ (j = id /\ outbox'[j].version = v)
  <2> DEFINE new == [queued |-> TRUE, version |-> v]
  <2>1. new \in [queued : BOOLEAN, version : Versions] /\ new.version = v
    BY <1>1
  <2>2. outbox' = outbox \/ outbox' = [outbox EXCEPT ![id] = new]
    OBVIOUS
  <2>3. outbox \in [Ids -> [queued : BOOLEAN, version : Versions]]
    BY <1>1 DEF OwnTariffTypeOK
  <2> HIDE DEF new, id, v
  <2> QED BY <1>1, <2>1, <2>2, <2>3
<1>6. OwnTariffTypeOK'
  BY <1>1, <1>2, <1>4, <1>5 DEF OwnTariffTypeOK
<1>7. ASSUME NEW j \in Ids \ {SenderId} PROVE NothingElse(j)'
  <2>1. NothingElse(j) /\ (j = id => v = 0)
    BY DEF OwnTariffIInv, NothingElse
  <2>2. \A g \in Pushers : pushers'[g].stage = "pushing" /\ pushers'[g].id = j => pushers'[g].version = 0
    BY <1>2, <2>1 DEF NothingElse
  <2>3. (\A q \in Recipients : has'[q][j] = 0) /\ outbox'[j].version = 0
    BY <1>4, <1>5, <2>1 DEF NothingElse
  <2> QED BY <2>2, <2>3 DEF NothingElse
<1>8. ASSUME NEW g \in Pushers, pushers'[g] \in CalledPushers, pushers'[g].kind = "delete"
      PROVE  ~own'.there /\ own'.version # 0
  BY <1>2, <1>8 DEF OwnTariffIInv
<1>9. inTouch' # {} => \A g \in Pushers : pushers'[g].stage = "pushing" =>
          /\ \A f \in Pushers \ {g} : pushers'[f].stage # "pushing"
          /\ Claimed => pushers'[g].id = SenderId /\ pushers'[g].version = CurrentVersion
  <2> SUFFICES ASSUME inTouch' # {}, NEW g \in Pushers, pushers'[g].stage = "pushing"
               PROVE  /\ \A f \in Pushers \ {g} : pushers'[f].stage # "pushing"
                      /\ Claimed => pushers'[g].id = SenderId /\ pushers'[g].version = CurrentVersion
    OBVIOUS
  <2>1. \A f \in Pushers : pushers'[f].stage = "pushing" =>
           /\ pushers[f].stage = "pushing" /\ pushers'[f].id = pushers[f].id
           /\ pushers'[f].version = pushers[f].version
    BY <1>2
  <2> QED BY <2>1 DEF OwnTariffIInv
<1>10. own'.there /\ ~own'.elements => inTouch' = {}
  BY DEF OwnTariffIInv
<1>11. \A q \in inTouch' : Claimed' =>
          Awaits(q)' \/ (q = Hub /\ SenderId' \in overtaken') \/ IsInTouch(q)'
  BY <1>3
<1>12. /\ own'.there => own'.version # 0
       /\ own'.elements => own'.there
  BY DEF OwnTariffIInv
<1> QED BY <1>3, <1>6, <1>7, <1>8, <1>9, <1>10, <1>11, <1>12 DEF OwnTariffIInv
LEMMA ReachesSound ==
  ASSUME OwnTariffIInv, NEW h \in Pushers, NEW p \in Recipients, Reaches(h, p)
  PROVE  OwnTariffIInv'
<1> DEFINE id == pushers[h].id
           v == pushers[h].version
<1>1. /\ OwnTariffTypeOK /\ pushers[h].stage = "pushing" /\ p \in pushers[h].to /\ id \in Ids
      /\ pushers' = [pushers EXCEPT ![h] = Without(h, p)] /\ UNCHANGED <<own, outbox, inTouch>>
      /\ has' = [has EXCEPT ![p][id] = v]
      /\ overtaken' = IF p # Hub THEN overtaken
                      ELSE {i \in overtaken \cup {id} : outbox[i].queued \/ i # id}
  BY PusherKinds DEF OwnTariffIInv, Reaches
<1>2. overtaken' \subseteq Ids
  BY <1>1 DEF OwnTariffTypeOK
<1>3. \A q \in pushers[h].to \ {p} : pushers'[h].stage = "pushing" /\ q \in pushers'[h].to
  BY <1>1, WithoutSound
<1>4. ASSUME NEW q \in inTouch', Claimed, ~Awaits(q)'
      PROVE  (q = Hub /\ SenderId \in overtaken') \/ IsInTouch(q)'
  <2>1. /\ q \in Recipients /\ q \in inTouch /\ id = SenderId /\ v = CurrentVersion
        /\ \A g \in Pushers \ {h} : pushers[g].stage # "pushing"
    BY <1>1, <1>4 DEF OwnTariffIInv, OwnTariffTypeOK
  <2>2. SenderId' = SenderId /\ CurrentVersion' = CurrentVersion
    BY <1>1 DEF SenderId, CurrentVersion
  <2>3. CASE q = p
    <3>1. has'[q][SenderId] = CurrentVersion
      BY <1>1, <2>1, <2>3 DEF OwnTariffTypeOK
    <3>2. CASE p = Hub /\ outbox[SenderId].queued
      BY <1>1, <2>1, <2>3, <3>2
    <3>3. CASE ~(p = Hub /\ outbox[SenderId].queued)
      BY <1>1, <2>2, <2>3, <3>1, <3>3 DEF IsInTouch
    <3> QED BY <3>2, <3>3
  <2>4. CASE q # p
    <3>1. ~Awaits(q)
      BY <1>3, <1>4, <2>1, <2>4 DEF Awaits
    <3>2. (q = Hub /\ SenderId \in overtaken) \/ IsInTouch(q)
      BY <1>4, <2>1, <3>1 DEF OwnTariffIInv
    <3>3. has'[q] = has[q]
      BY <1>1, <2>1, <2>4 DEF OwnTariffTypeOK
    <3>4. IsInTouch(q) => IsInTouch(q)'
      BY <1>1, <2>2, <3>3 DEF IsInTouch
    <3>5. q = Hub => overtaken' = overtaken
      BY <1>1, <2>4
    <3> QED BY <3>2, <3>4, <3>5
  <2> QED BY <2>3, <2>4
<1> QED BY <1>1, <1>2, <1>4, SendsSound

LEMMA FailsSound ==
  ASSUME OwnTariffIInv, NEW h \in Pushers, NEW p \in Recipients, Fails(h, p)
  PROVE  OwnTariffIInv'
<1> DEFINE id == pushers[h].id
           v == pushers[h].version
           retry == [queued |-> TRUE, version |-> v]
<1>1. /\ OwnTariffTypeOK /\ pushers[h].stage = "pushing" /\ p \in pushers[h].to /\ id \in Ids
      /\ pushers' = [pushers EXCEPT ![h] = Without(h, p)] /\ UNCHANGED own
      /\ has' = has \/ has' = [has EXCEPT ![p][id] = v]
      /\ IF p = Hub THEN /\ outbox' = [outbox EXCEPT ![id] = retry]
                         /\ overtaken' = overtaken \ {id} /\ inTouch' = inTouch
                    ELSE inTouch' = inTouch \ {p} /\ outbox' = outbox /\ overtaken' = overtaken
  BY PusherKinds DEF OwnTariffIInv, Fails
<1>2. overtaken' \subseteq Ids /\ inTouch' \subseteq inTouch
  BY <1>1 DEF OwnTariffTypeOK
<1>3. \A q \in pushers[h].to \ {p} : pushers'[h].stage = "pushing" /\ q \in pushers'[h].to
  BY <1>1, WithoutSound
<1>4. ASSUME NEW q \in inTouch', Claimed, ~Awaits(q)'
      PROVE  (q = Hub /\ SenderId \in overtaken') \/ IsInTouch(q)'
  <2>1. /\ q \in Recipients /\ q \in inTouch /\ id = SenderId /\ v = CurrentVersion
        /\ \A g \in Pushers \ {h} : pushers[g].stage # "pushing"
    BY <1>1, <1>2, <1>4 DEF OwnTariffIInv, OwnTariffTypeOK
  <2>2. SenderId' = SenderId /\ CurrentVersion' = CurrentVersion
    BY <1>1 DEF SenderId, CurrentVersion
  <2>3. CASE q = p
    <3>1. p = Hub
      BY <1>1, <1>4, <2>3
    <3>2. outbox'[SenderId] = retry
      BY <1>1, <2>1, <3>1 DEF OwnTariffTypeOK
    <3>3. retry.queued /\ retry.version = CurrentVersion
      BY <2>1
    <3> QED BY <2>2, <2>3, <3>1, <3>2, <3>3 DEF IsInTouch
  <2>4. CASE q # p
    <3>1. ~Awaits(q)
      BY <1>3, <1>4, <2>1, <2>4 DEF Awaits
    <3>2. (q = Hub /\ SenderId \in overtaken) \/ IsInTouch(q)
      BY <1>4, <2>1, <3>1 DEF OwnTariffIInv
    <3>3. has'[q] = has[q]
      BY <1>1, <2>1, <2>4 DEF OwnTariffTypeOK
    <3>4. q = Hub => overtaken' = overtaken /\ outbox' = outbox
      BY <1>1, <2>4
    <3>5. IsInTouch(q) => IsInTouch(q)'
      BY <2>2, <3>3, <3>4 DEF IsInTouch
    <3> QED BY <3>2, <3>4, <3>5
  <2> QED BY <2>3, <2>4
<1>5. outbox' = outbox \/ outbox' = [outbox EXCEPT ![id] = retry]
  BY <1>1
<1> QED BY <1>1, <1>2, <1>4, <1>5, SendsSound

LEMMA RetriesSound ==
  ASSUME OwnTariffIInv, NEW i \in Ids, Retries(i)
  PROVE  OwnTariffIInv'
<1>1. /\ OwnTariffTypeOK /\ Hub \in Recipients /\ outbox[i].queued
      /\ has' = [has EXCEPT ![Hub][i] = outbox[i].version] /\ outbox' = [outbox EXCEPT ![i] = NoRetry]
      /\ UNCHANGED <<own, pushers, inTouch, overtaken>>
  BY DEF OwnTariffIInv, Retries
<1>2. has \in [Recipients -> [Ids -> Versions]] /\ outbox \in [Ids -> [queued : BOOLEAN, version : Versions]]
  BY <1>1 DEF OwnTariffTypeOK
<1> DEFINE v == outbox[i].version
           new == [has[Hub] EXCEPT ![i] = v]
<1>3. v \in Versions /\ has[Hub] \in [Ids -> Versions] /\ has' = [has EXCEPT ![Hub] = new]
  BY <1>1, <1>2
<1>4. new \in [Ids -> Versions] /\ \A j \in Ids : new[j] = IF j = i THEN v ELSE has[Hub][j]
  BY <1>3
<1>5. NoRetry \in [queued : BOOLEAN, version : Versions] /\ NoRetry.queued = FALSE /\ NoRetry.version = 0
  BY OwnTariffAssumption DEF NoRetry, Versions
<1> HIDE DEF new
<1>6. /\ has' \in [Recipients -> [Ids -> Versions]]
      /\ has'[Hub] = new /\ \A q \in Recipients \ {Hub} : has'[q] = has[q]
      /\ outbox' \in [Ids -> [queued : BOOLEAN, version : Versions]]
      /\ outbox'[i] = NoRetry /\ \A j \in Ids \ {i} : outbox'[j] = outbox[j]
  BY <1>1, <1>2, <1>3, <1>4, <1>5
<1>7. OwnTariffTypeOK'
  BY <1>1, <1>6 DEF OwnTariffTypeOK
<1>8. SenderId' = SenderId /\ CurrentVersion' = CurrentVersion /\ (Claimed' <=> Claimed) /\ SenderId \in Ids
  BY <1>1, OwnFields DEF SenderId, CurrentVersion, Claimed
<1>9. ASSUME NEW j \in Ids \ {SenderId} PROVE NothingElse(j)'
  <2>1. NothingElse(j) /\ (j = i => v = 0)
    BY DEF OwnTariffIInv, NothingElse
  <2>2. \A q \in Recipients : has'[q][j] = 0
    BY <1>1, <1>4, <1>6, <2>1 DEF NothingElse
  <2>3. outbox'[j].version = 0
    BY <1>5, <1>6, <2>1 DEF NothingElse
  <2> QED BY <1>1, <2>1, <2>2, <2>3 DEF NothingElse
<1>10. ASSUME NEW q \in inTouch', Claimed'
       PROVE  Awaits(q)' \/ (q = Hub /\ SenderId' \in overtaken') \/ IsInTouch(q)'
  <2>1. Awaits(q) \/ (q = Hub /\ SenderId \in overtaken) \/ IsInTouch(q)
    BY <1>1, <1>8, <1>10 DEF OwnTariffIInv
  <2>2. IsInTouch(q) => IsInTouch(q)'
    <3>1. CASE q # Hub
      BY <1>1, <1>6, <1>8, <1>10, <3>1 DEF IsInTouch, OwnTariffTypeOK
    <3>2. CASE q = Hub /\ i = SenderId
      BY <1>1, <1>4, <1>5, <1>6, <1>8, <3>2 DEF IsInTouch
    <3>3. CASE q = Hub /\ i # SenderId
      BY <1>4, <1>6, <1>8, <3>3 DEF IsInTouch
    <3> QED BY <3>1, <3>2, <3>3
  <2>3. Awaits(q) => Awaits(q)'
    BY <1>1 DEF Awaits
  <2> QED BY <1>1, <1>8, <2>1, <2>2, <2>3
<1> QED BY <1>1, <1>7, <1>8, <1>9, <1>10 DEF OwnTariffIInv

LEMMA OwnDiesSound == OwnTariffIInv /\ OwnTariffDies => OwnTariffIInv'
<1> SUFFICES ASSUME OwnTariffIInv, OwnTariffDies PROVE OwnTariffIInv'
  OBVIOUS
<1>1. /\ OwnTariffTypeOK /\ pushers' = [h \in Pushers |-> AtRest] /\ inTouch' = {}
      /\ UNCHANGED <<own, has, outbox, overtaken>>
  BY DEF OwnTariffIInv, OwnTariffDies
<1>2. \A h \in Pushers : pushers'[h] = AtRest /\ AtRest \notin CalledPushers /\ AtRest.stage # "pushing"
  BY <1>1 DEF AtRest, CalledPushers
<1>3. OwnTariffTypeOK'
  BY <1>1, <1>2 DEF OwnTariffTypeOK
<1>4. SenderId' = SenderId
  BY <1>1 DEF SenderId
<1>5. \A i \in Ids \ {SenderId} : NothingElse(i)'
  BY <1>1, <1>2 DEF OwnTariffIInv, NothingElse
<1> QED BY <1>1, <1>2, <1>3, <1>4, <1>5 DEF OwnTariffIInv

LEMMA OwnTariffInitSound == OwnTariffInit => OwnTariffIInv
<1> SUFFICES ASSUME OwnTariffInit PROVE OwnTariffIInv
  OBVIOUS
<1>1. /\ own.version = 0 /\ ~own.there /\ ~own.elements /\ 0 \in Versions
      /\ own \in [version : Versions, there : BOOLEAN, elements : BOOLEAN, named : BOOLEAN]
  <2>1. own \in [version : {0}, there : {FALSE}, elements : {FALSE}, named : BOOLEAN]
    BY DEF OwnTariffInit
  <2>2. 0 \in Versions
    BY OwnTariffAssumption DEF Versions
  <2>3. own.version \in {0} /\ own.there \in {FALSE} /\ own.elements \in {FALSE}
    BY <2>1
  <2>4. own \in [version : Versions, there : BOOLEAN, elements : BOOLEAN, named : BOOLEAN]
    <3>1. {0} \subseteq Versions /\ {FALSE} \subseteq BOOLEAN
      BY <2>2
    <3> QED BY <2>1, <3>1
  <2> QED BY <2>2, <2>3, <2>4
<1>2. /\ pushers = [h \in Pushers |-> AtRest] /\ has = [p \in Recipients |-> [i \in Ids |-> 0]]
      /\ outbox = [i \in Ids |-> NoRetry] /\ inTouch = Recipients /\ overtaken = {}
  BY DEF OwnTariffInit
<1>3. /\ AtRest \notin CalledPushers /\ AtRest.stage # "pushing"
      /\ NoRetry \in [queued : BOOLEAN, version : Versions] /\ NoRetry.version = 0 /\ ~NoRetry.queued
  BY <1>1 DEF AtRest, CalledPushers, NoRetry
<1>4. OwnTariffTypeOK
  BY <1>1, <1>2, <1>3 DEF OwnTariffTypeOK
<1>5. \A i \in Ids : NothingElse(i)
  BY <1>2, <1>3 DEF NothingElse
<1>6. SenderId \in Ids /\ CurrentVersion = 0
  BY <1>1, <1>4, OwnFields DEF CurrentVersion
<1>7. \A p \in Recipients : IsInTouch(p)
  BY <1>2, <1>3, <1>6 DEF IsInTouch
<1> QED BY <1>1, <1>2, <1>3, <1>4, <1>5, <1>7 DEF OwnTariffIInv

LEMMA OwnTariffStepSound == OwnTariffIInv /\ [OwnTariffNext]_ownTariffVars => OwnTariffIInv'
<1> SUFFICES ASSUME OwnTariffIInv, [OwnTariffNext]_ownTariffVars PROVE OwnTariffIInv'
  OBVIOUS
<1>1. CASE UNCHANGED ownTariffVars
  BY <1>1 DEF ownTariffVars, OwnTariffIInv, OwnTariffTypeOK, SenderId, CurrentVersion, Claimed,
              NothingElse, Awaits, IsInTouch
<1>2. ASSUME NEW h \in Pushers, InsertOwn(h) \/ ChangeElements(h) \/ ChangeOwn(h) \/ DeleteOwn(h)
      PROVE  OwnTariffIInv'
  BY <1>2, OwnRowSound
<1>3. ASSUME NEW h \in Pushers, ReadOwn(h) \/ SendDeletion(h) PROVE OwnTariffIInv'
  BY <1>3, OwnReadSound
<1>4. ASSUME NEW h \in Pushers, NEW p \in Recipients, Reaches(h, p) \/ Fails(h, p) PROVE OwnTariffIInv'
  BY <1>4, ReachesSound, FailsSound
<1>5. ASSUME NEW i \in Ids, Retries(i) PROVE OwnTariffIInv'
  BY <1>5, RetriesSound
<1>6. CASE OwnTariffDies
  BY <1>6, OwnDiesSound
<1> QED BY <1>1, <1>2, <1>3, <1>4, <1>5, <1>6 DEF OwnTariffNext

LEMMA TariffTold == OwnTariffIInv => TariffIsTold
<1> SUFFICES ASSUME OwnTariffIInv, NEW p \in Recipients, Told(p), Claimed
             PROVE  has[p] = [i \in Ids |-> IF i = SenderId THEN CurrentVersion ELSE 0]
  <2>1. own.elements => Claimed /\ CurrentVersion = own.version
    BY DEF Claimed, CurrentVersion
  <2>2. OwnTariffIInv /\ ~own.there /\ ~own.named => Claimed /\ CurrentVersion = 0
    BY DEF Claimed, CurrentVersion, OwnTariffIInv
  <2> QED BY <2>1, <2>2 DEF TariffIsTold
<1>1. OwnTariffTypeOK /\ SenderId \in Ids /\ has[p] \in [Ids -> Versions]
  BY OwnFields DEF OwnTariffIInv, OwnTariffTypeOK
<1>2. ~Awaits(p)
  BY DEF Told, Awaits, AtRest
<1>3. has[p][SenderId] = CurrentVersion
  BY <1>1, <1>2 DEF Told, OwnTariffIInv, IsInTouch
<1>4. \A i \in Ids \ {SenderId} : has[p][i] = 0
  BY DEF OwnTariffIInv, NothingElse
<1> QED BY <1>1, <1>3, <1>4
-----------------------------------------------------------------------------
(* An own token *)

LEMMA PairsIs ==
  ASSUME NEW ts \in SUBSET Tenants
  PROVE  /\ \A x : x \in Pairs(ts) => /\ x \in Pairs(Tenants) /\ x[1] \in ts /\ x[1] \in Tenants
                                      /\ x[2] \in AllPartners
                                      /\ x = <<x[1], x[2]>>
         /\ \A x \in Pairs(Tenants) : x[1] \in ts => x \in Pairs(ts)
         /\ Pairs(ts) \in SUBSET Pairs(Tenants)
BY DEF Pairs

LEMMA MessageFields ==
  ASSUME OwnTokenTypeOK, NEW h \in Senders
  PROVE  /\ senders[h] \in Messages /\ senders[h].body \in Auths
         /\ senders[h].kind \in {"none", "put", "patch", "invalidate"}
         /\ senders[h].to \in SUBSET Pairs(Tenants) /\ senders[h].about \in SUBSET Tenants
         /\ senders[h].alone \in BOOLEAN
         /\ Silent.to = {} /\ Silent.kind = "none" /\ Silent.alone = FALSE
BY DEF OwnTokenTypeOK, Messages, Silent

LEMMA SilentIsAMessage == Silent \in Messages /\ NoAuth \in Auths
<1>1. NoAuth \in Auths
  BY OwnTokenAssumption DEF NoAuth, Auths
<1>2. {} \in SUBSET Pairs(Tenants) /\ {} \in SUBSET Tenants
  OBVIOUS
<1>3. Silent \in Messages
  BY <1>1, <1>2 DEF Silent, Messages
<1> QED BY <1>1, <1>3

\* The pairs but x know what they knew.
LEMMA OthersKnow ==
  ASSUME OwnTokenTypeOK, NEW x \in Pairs(Tenants), NEW said \in [version : 0..MaxWrites, valid : BOOLEAN],
         knows' = [knows EXCEPT ![x[1]][x[2]] = said]
  PROVE  /\ knows' \in [Tenants -> [AllPartners -> [version : 0..MaxWrites, valid : BOOLEAN]]]
         /\ knows'[x[1]][x[2]] = said
         /\ \A y \in Pairs(Tenants) : y # x => knows'[y[1]][y[2]] = knows[y[1]][y[2]]
<1> DEFINE t == x[1]
           p == x[2]
           new == [knows[t] EXCEPT ![p] = said]
<1>1. /\ t \in Tenants /\ p \in AllPartners
      /\ \A y \in Pairs(Tenants) : /\ y[1] \in Tenants /\ y[2] \in AllPartners
                                   /\ y # x => y[1] # t \/ y[2] # p
  BY PairsIs
<1>2. knows \in [Tenants -> [AllPartners -> [version : 0..MaxWrites, valid : BOOLEAN]]]
  BY DEF OwnTokenTypeOK
<1>3. knows[t] \in [AllPartners -> [version : 0..MaxWrites, valid : BOOLEAN]]
  BY <1>1, <1>2
<1>4. /\ new \in [AllPartners -> [version : 0..MaxWrites, valid : BOOLEAN]]
      /\ new[p] = said /\ \A q \in AllPartners : q # p => new[q] = knows[t][q]
  BY <1>1, <1>3
<1>5. knows' = [knows EXCEPT ![t] = new]
  OBVIOUS
<1> HIDE DEF new, t, p
<1>6. /\ knows' \in [Tenants -> [AllPartners -> [version : 0..MaxWrites, valid : BOOLEAN]]]
      /\ knows'[t] = new /\ \A u \in Tenants : u # t => knows'[u] = knows[u]
  BY <1>1, <1>2, <1>4, <1>5
<1>7. \A y \in Pairs(Tenants) : y # x => knows'[y[1]][y[2]] = knows[y[1]][y[2]]
  BY <1>1, <1>4, <1>6
<1> QED BY <1>4, <1>6, <1>7 DEF t, p

\* A change of the row or its links, of which a handler is notified.
LEMMA NotifySound ==
  ASSUME OwnTokenIInv, NEW h \in Senders, NEW kind \in {"put", "patch", "invalidate"},
         NEW body \in Auths, body.version # 0, NEW ts \in SUBSET Tenants, Notifies(h, kind, body, ts),
         auth' \in Auths, links' \subseteq Tenants, writes' \in 0..MaxWrites,
         auth'.version = 0 => links' = {},
         IF kind = "invalidate" THEN ts \cap links' = {} ELSE ts = links' /\ body = auth',
         \A x \in Pairs(Tenants) : x[1] \notin ts /\ KnowsWhatIsSo(x) => KnowsWhatIsSo(x)'
  PROVE  OwnTokenIInv'
<1> DEFINE others == {g \in Senders \ {h} : senders[g] # Silent}
           to == IF kind = "put" /\ ~body.whole THEN {} ELSE Pairs(ts)
           alone == others = {}
           message == [kind |-> kind, body |-> body, to |-> to, about |-> ts, alone |-> alone]
<1>1. /\ OwnTokenTypeOK /\ senders[h] = Silent /\ informed' = informed \ ts /\ knows' = knows
      /\ senders' = [g \in Senders |-> CASE g = h -> IF to = {} THEN Silent ELSE message
                                         [] g \in others -> [senders[g] EXCEPT !.alone = FALSE]
                                         [] OTHER -> Silent]
  BY DEF OwnTokenIInv, Notifies
<1>2. to = {} \/ to = Pairs(ts)
  OBVIOUS
<1>3. to \in SUBSET Pairs(Tenants) /\ alone \in BOOLEAN
  BY <1>2, PairsIs
<1> HIDE DEF to, alone
<1>4. /\ message \in Messages /\ message.kind = kind /\ message.body = body /\ message.to = to
      /\ message.about = ts /\ message.alone = alone
  BY <1>3 DEF Messages
<1> HIDE DEF message
<1>5. /\ senders'[h] = IF to = {} THEN Silent ELSE message
      /\ \A g \in Senders : g \in others => g # h /\ senders'[g] = [senders[g] EXCEPT !.alone = FALSE]
      /\ \A g \in Senders : g # h /\ g \notin others => senders'[g] = Silent /\ senders[g] = Silent
  <2>1. \A g \in others : g # h
    OBVIOUS
  <2>2. \A g \in Senders : g # h /\ g \notin others => senders[g] = Silent
    OBVIOUS
  <2> HIDE DEF others
  <2> QED BY <1>1, <2>1, <2>2
<1>6. ASSUME NEW g \in others
      PROVE  /\ senders'[g] \in Messages /\ senders'[g].kind = senders[g].kind
             /\ senders'[g].body = senders[g].body /\ senders'[g].to = senders[g].to
             /\ senders'[g].about = senders[g].about /\ senders'[g].alone = FALSE
  <2>1. senders[g] \in Messages
    BY <1>1, MessageFields
  <2>2. LET m == [senders[g] EXCEPT !.alone = FALSE]
        IN  /\ m \in Messages /\ m.kind = senders[g].kind /\ m.body = senders[g].body
            /\ m.to = senders[g].to /\ m.about = senders[g].about /\ m.alone = FALSE
    BY <2>1 DEF Messages
  <2> QED BY <1>5, <2>2
<1>7. senders' \in [Senders -> Messages]
  <2>1. \A g \in Senders : senders'[g] \in Messages
    BY <1>4, <1>5, <1>6, SilentIsAMessage
  <2>2. senders' = [g \in Senders |-> senders'[g]]
    BY <1>1
  <2> QED BY <2>1, <2>2
<1>8. OwnTokenTypeOK'
  BY <1>1, <1>7 DEF OwnTokenTypeOK
<1>9. \A x \in Pairs(informed') : KnowsWhatIsSo(x)'
  <2> SUFFICES ASSUME NEW x \in Pairs(informed') PROVE KnowsWhatIsSo(x)'
    OBVIOUS
  <2>1. informed \in SUBSET Tenants /\ informed' \in SUBSET Tenants
    BY <1>1 DEF OwnTokenTypeOK
  <2>2. x \in Pairs(Tenants) /\ x[1] \in informed' /\ x[1] \notin ts
    BY <1>1, <2>1, PairsIs
  <2>3. x \in Pairs(informed)
    BY <1>1, <2>1, <2>2, PairsIs
  <2> QED BY <2>2, <2>3 DEF OwnTokenIInv
<1>10. ASSUME NEW g \in Senders, senders'[g] # Silent PROVE SendsWhatIsSo(g)'
  <2>1. CASE g = h
    <3>1. senders'[g] = message /\ to = Pairs(ts) /\ to # {}
      BY <1>2, <1>5, <1>10, <2>1
    <3>2. ts \cap informed' = {}
      BY <1>1
    <3>3. alone => \A f \in Senders \ {h} : senders'[f] = Silent
      BY <1>5 DEF alone
    <3>4. IF kind = "invalidate" THEN ts \cap links' = {} ELSE ts = links' /\ body = auth'
      OBVIOUS
    <3> HIDE DEF others
    <3> QED BY <1>4, <2>1, <3>1, <3>2, <3>3, <3>4 DEF SendsWhatIsSo
  <2>2. CASE g # h
    <3>1. g \in others /\ senders[g] # Silent
      BY <1>5, <1>10, <2>2
    <3>2. SendsWhatIsSo(g) /\ informed' \subseteq informed
      BY <1>1 DEF OwnTokenIInv
    <3> HIDE DEF others
    <3> QED BY <1>6, <3>1, <3>2 DEF SendsWhatIsSo
  <2> QED BY <2>1, <2>2
<1>11. \A g \in Senders : SendsWhatIsSo(g)'
  <2> SUFFICES ASSUME NEW g \in Senders, senders'[g] = Silent PROVE SendsWhatIsSo(g)'
    BY <1>10
  <2> QED BY DEF SendsWhatIsSo, Silent
<1>12. \A x \in Pairs(Tenants) : knows'[x[1]][x[2]].version = 0 => ~knows'[x[1]][x[2]].valid
  BY <1>1 DEF OwnTokenIInv
<1> QED BY <1>8, <1>9, <1>11, <1>12 DEF OwnTokenIInv
LEMMA TokenRowSound ==
  ASSUME OwnTokenIInv,
         \/ CreateToken
         \/ \E h \in Senders : \/ UpdateToken(h) \/ DeleteToken(h)
                               \/ \E t \in Tenants : LinkTenant(h, t) \/ UnlinkTenant(h, t)
  PROVE  OwnTokenIInv'
<1>1. /\ OwnTokenTypeOK /\ auth \in Auths /\ auth.version \in Nat /\ links \in SUBSET Tenants
      /\ auth.version = 0 => links = {}
      /\ \A x \in Pairs(Tenants) : x[1] \in Tenants
  BY OwnTokenAssumption, PairsIs DEF OwnTokenIInv, OwnTokenTypeOK, Auths
<1>2. WritesToken => writes' \in 0..MaxWrites /\ writes' # 0 /\ writes' \in Nat
  BY <1>1, OwnTokenAssumption DEF WritesToken, OwnTokenTypeOK
<1>3. ASSUME WritesToken, NEW accepted \in BOOLEAN, NEW whole \in BOOLEAN,
             auth' = [version |-> writes', accepted |-> accepted, whole |-> whole]
      PROVE  auth' \in Auths /\ auth'.version # 0
  BY <1>2, <1>3 DEF Auths
<1>4. CASE CreateToken
  <2>1. /\ links = {} /\ auth' \in Auths /\ auth'.version # 0 /\ WritesToken
        /\ UNCHANGED <<links, senders, knows, informed>>
    BY <1>1, <1>3, <1>4 DEF CreateToken
  <2>2. OwnTokenTypeOK'
    BY <1>1, <1>2, <2>1 DEF OwnTokenTypeOK
  <2>3. \A x \in Pairs(Tenants) : KnowsWhatIsSo(x) => KnowsWhatIsSo(x)'
    BY <2>1 DEF KnowsWhatIsSo
  <2>4. ASSUME NEW h \in Senders PROVE SendsWhatIsSo(h)'
    <3>1. SendsWhatIsSo(h) /\ senders[h].about \in SUBSET Tenants
      BY <1>1, MessageFields DEF OwnTokenIInv
    <3>2. Pairs(senders[h].about) \in SUBSET Pairs(Tenants)
      BY <3>1, PairsIs
    <3>3. senders[h].about = {} => Pairs(senders[h].about) = {}
      BY DEF Pairs
    <3> QED BY <2>1, <2>3, <3>1, <3>2, <3>3 DEF SendsWhatIsSo
  <2>5. \A x \in Pairs(informed) : x \in Pairs(Tenants)
    BY <1>1, PairsIs DEF OwnTokenTypeOK
  <2> QED BY <2>1, <2>2, <2>3, <2>4, <2>5 DEF OwnTokenIInv
<1>5. ASSUME NEW h \in Senders, UpdateToken(h) PROVE OwnTokenIInv'
  <2>1. /\ WritesToken /\ auth' \in Auths /\ auth'.version # 0 /\ Notifies(h, "patch", auth', links)
        /\ links' = links /\ knows' = knows
    BY <1>3, <1>5 DEF UpdateToken, Notifies
  <2>2. \A x \in Pairs(Tenants) : x[1] \notin links /\ KnowsWhatIsSo(x) => KnowsWhatIsSo(x)'
    BY <2>1 DEF KnowsWhatIsSo
  <2> QED BY <1>1, <1>2, <2>1, <2>2, NotifySound
<1>6. ASSUME NEW h \in Senders, DeleteToken(h) PROVE OwnTokenIInv'
  <2>1. /\ WritesToken /\ auth.version # 0 /\ Notifies(h, "invalidate", auth, links)
        /\ auth' = NoAuth /\ links' = {} /\ knows' = knows
    BY <1>6 DEF DeleteToken, Notifies
  <2>2. \A x \in Pairs(Tenants) : x[1] \notin links /\ KnowsWhatIsSo(x) => KnowsWhatIsSo(x)'
    BY <2>1 DEF KnowsWhatIsSo
  <2> QED BY <1>1, <1>2, <2>1, <2>2, NotifySound, SilentIsAMessage
<1>7. ASSUME NEW h \in Senders, NEW t \in Tenants, LinkTenant(h, t) PROVE OwnTokenIInv'
  <2>1. /\ WritesToken /\ auth.version # 0 /\ links' = links \cup {t}
        /\ Notifies(h, "put", auth, links') /\ auth' = auth /\ knows' = knows
    BY <1>7 DEF LinkTenant, Notifies
  <2>2. \A x \in Pairs(Tenants) : x[1] \notin links' /\ KnowsWhatIsSo(x) => KnowsWhatIsSo(x)'
    BY <2>1 DEF KnowsWhatIsSo
  <2>3. links' \in SUBSET Tenants
    BY <1>1, <2>1
  <2> QED BY <1>1, <1>2, <2>1, <2>2, <2>3, NotifySound
<1>8. ASSUME NEW h \in Senders, NEW t \in Tenants, UnlinkTenant(h, t) PROVE OwnTokenIInv'
  <2>1. /\ WritesToken /\ auth.version # 0 /\ links' = links \ {t}
        /\ Notifies(h, "invalidate", auth, {t}) /\ auth' = auth /\ knows' = knows
    BY <1>8 DEF UnlinkTenant, Notifies
  <2>2. \A x \in Pairs(Tenants) : x[1] \notin {t} /\ KnowsWhatIsSo(x) => KnowsWhatIsSo(x)'
    BY <2>1 DEF KnowsWhatIsSo
  <2>3. links' \in SUBSET Tenants /\ {t} \in SUBSET Tenants /\ {t} \cap links' = {}
    BY <1>1, <2>1
  <2> QED BY <1>1, <1>2, <2>1, <2>2, <2>3, NotifySound
<1> QED BY <1>4, <1>5, <1>6, <1>7, <1>8

\* A handler that still has partners to send to.
IsLess(m, h, x, alone) ==
    \/ m = [senders[h] EXCEPT !.to = senders[h].to \ {x}, !.alone = alone]
    \/ m = [senders[h] EXCEPT !.to = senders[h].to \ {x}] /\ alone = senders[h].alone

LEMMA SentIs ==
  ASSUME OwnTokenTypeOK, NEW h \in Senders, NEW x \in senders[h].to,
         NEW alone \in BOOLEAN, NEW m, IsLess(m, h, x, alone)
  PROVE  /\ m \in Messages /\ m.kind = senders[h].kind /\ m.body = senders[h].body
         /\ m.to = senders[h].to \ {x} /\ m.about = senders[h].about /\ m.alone = alone
<1>1. senders[h] \in Messages /\ senders[h].to \in SUBSET Pairs(Tenants)
  BY MessageFields
<1> DEFINE rest == senders[h].to \ {x}
<1>2. rest \in SUBSET Pairs(Tenants)
  BY <1>1
<1>3. \/ m = [senders[h] EXCEPT !.to = rest, !.alone = alone]
      \/ m = [senders[h] EXCEPT !.to = rest] /\ alone = senders[h].alone
  BY DEF IsLess
<1> HIDE DEF rest
<1>4. /\ m \in Messages /\ m.kind = senders[h].kind /\ m.body = senders[h].body
      /\ m.to = rest /\ m.about = senders[h].about /\ m.alone = alone
  <2>1. CASE m = [senders[h] EXCEPT !.to = rest, !.alone = alone]
    BY <1>1, <1>2, <2>1 DEF Messages
  <2>2. CASE m = [senders[h] EXCEPT !.to = rest] /\ alone = senders[h].alone
    BY <1>1, <1>2, <2>2 DEF Messages
  <2> QED BY <1>3, <2>1, <2>2
<1> QED BY <1>4 DEF rest

\* A request of a handler that is left alone leaves with the partner what is so.
LEMMA Tells ==
  ASSUME OwnTokenIInv, NEW h \in Senders, NEW x \in senders[h].to, senders[h].alone,
         UNCHANGED <<auth, links>>,
         IF Understands(senders[h], x[1], x[2])
         THEN knows'[x[1]][x[2]] = Says(senders[h], knows[x[1]][x[2]])
         ELSE knows'[x[1]][x[2]] = knows[x[1]][x[2]]
  PROVE  KnowsWhatIsSo(x)'
<1>1. /\ senders[h] # Silent /\ SendsWhatIsSo(h)
      /\ senders[h].about \in SUBSET Tenants
  BY MessageFields DEF OwnTokenIInv
<1>2. x \in Pairs(senders[h].about)
  BY <1>1 DEF SendsWhatIsSo
<1>3. x[1] \in senders[h].about /\ x \in Pairs(Tenants)
  BY <1>1, <1>2, PairsIs
<1>4. knows[x[1]][x[2]].version = 0 => ~knows[x[1]][x[2]].valid
  BY <1>3 DEF OwnTokenIInv
<1>5. CASE Understands(senders[h], x[1], x[2])
  <2>1. knows'[x[1]][x[2]] = [version |-> senders[h].body.version,
                              valid |-> senders[h].kind # "invalidate" /\ senders[h].body.accepted]
    BY <1>5 DEF Says
  <2>2. CASE senders[h].kind = "invalidate"
    <3>1. x[1] \notin links
      BY <1>1, <1>3, <2>2 DEF SendsWhatIsSo
    <3>2. knows'[x[1]][x[2]].valid = FALSE
      <4> DEFINE accepted == senders[h].kind # "invalidate" /\ senders[h].body.accepted
      <4>1. accepted = FALSE
        BY <2>2
      <4>2. knows'[x[1]][x[2]] = [version |-> senders[h].body.version, valid |-> accepted]
        BY <2>1
      <4> HIDE DEF accepted
      <4> QED BY <4>1, <4>2
    <3> QED BY <3>1, <3>2 DEF KnowsWhatIsSo
  <2>3. CASE senders[h].kind # "invalidate"
    <3>1. x[1] \in links /\ senders[h].body = auth
      BY <1>1, <1>3, <2>3 DEF SendsWhatIsSo
    <3>2. auth.accepted \in BOOLEAN
      BY DEF OwnTokenIInv, OwnTokenTypeOK, Auths
    <3>3. knows'[x[1]][x[2]] = [version |-> auth.version, valid |-> auth.accepted]
      BY <2>1, <2>3, <3>1, <3>2
    <3> QED BY <3>1, <3>3 DEF KnowsWhatIsSo
  <2> QED BY <2>2, <2>3
<1>6. CASE ~Understands(senders[h], x[1], x[2])
  <2>1. knows[x[1]][x[2]].version = 0 /\ senders[h].kind # "put"
    BY <1>6 DEF Understands
  <2> QED BY <1>4, <1>6, <2>1 DEF KnowsWhatIsSo
<1> QED BY <1>5, <1>6
\* A request has gone to one partner, and is with it or not.
LEMMA RequestSound ==
  ASSUME OwnTokenIInv, NEW h \in Senders, NEW x \in senders[h].to, NEW m, NEW alone \in BOOLEAN,
         IsLess(m, h, x, alone),
         senders' = [senders EXCEPT ![h] = IF senders[h].to \ {x} = {} THEN Silent ELSE m],
         UNCHANGED <<auth, links, writes>>, informed' \subseteq Tenants,
         knows' \in [Tenants -> [AllPartners -> [version : 0..MaxWrites, valid : BOOLEAN]]],
         \A y \in Pairs(Tenants) : y # x => knows'[y[1]][y[2]] = knows[y[1]][y[2]],
         knows'[x[1]][x[2]].version = 0 => ~knows'[x[1]][x[2]].valid,
         alone => KnowsWhatIsSo(x)' /\ senders[h].alone,
         informed' = informed \/
           (senders[h].alone /\ KnowsWhatIsSo(x)' /\ senders[h].to = {x}
            /\ informed' = informed \cup senders[h].about)
  PROVE  OwnTokenIInv'
<1> DEFINE rest == senders[h].to \ {x}
           about == senders[h].about
<1>1. /\ OwnTokenTypeOK /\ SendsWhatIsSo(h) /\ senders[h] # Silent /\ x \in Pairs(Tenants)
      /\ about \in SUBSET Tenants /\ informed \in SUBSET Tenants
  BY MessageFields DEF OwnTokenIInv, OwnTokenTypeOK
<1>2. /\ m \in Messages /\ m.kind = senders[h].kind /\ m.body = senders[h].body
      /\ m.to = rest /\ m.about = about /\ m.alone = alone
  <2>2. /\ m \in Messages /\ m.kind = senders[h].kind /\ m.body = senders[h].body
        /\ m.to = senders[h].to \ {x} /\ m.about = senders[h].about /\ m.alone = alone
    BY <1>1, SentIs
  <2> QED BY <2>2
<1>3. /\ senders'[h] = IF rest = {} THEN Silent ELSE m
      /\ \A g \in Senders : g # h => senders'[g] = senders[g]
      /\ senders' \in [Senders -> Messages]
  BY <1>1, <1>2, SilentIsAMessage DEF OwnTokenTypeOK
<1>4. OwnTokenTypeOK'
  BY <1>1, <1>3 DEF OwnTokenTypeOK
<1>5. \A y \in Pairs(Tenants) : knows'[y[1]][y[2]].version = 0 => ~knows'[y[1]][y[2]].valid
  BY DEF OwnTokenIInv
<1>6. \A y \in Pairs(Tenants) : y # x /\ KnowsWhatIsSo(y) => KnowsWhatIsSo(y)'
  BY DEF KnowsWhatIsSo
<1>7. x[1] \in about /\ x \in Pairs(about)
  <2>1. x \in Pairs(about)
    BY <1>1 DEF SendsWhatIsSo
  <2> QED BY <1>1, <2>1, PairsIs
<1>8. about \cap informed = {}
  BY <1>1 DEF SendsWhatIsSo
<1>9. ASSUME NEW y \in Pairs(informed') PROVE KnowsWhatIsSo(y)'
  <2>1. y \in Pairs(Tenants) /\ y[1] \in informed'
    BY <1>1, PairsIs
  <2>2. CASE y[1] \in informed
    <3>1. y \in Pairs(informed) /\ y # x
      BY <1>1, <1>7, <1>8, <2>1, <2>2, PairsIs
    <3> QED BY <1>6, <2>1, <3>1 DEF OwnTokenIInv
  <2>3. CASE y[1] \notin informed
    <3>1. y[1] \in about /\ senders[h].alone /\ KnowsWhatIsSo(x)' /\ senders[h].to = {x}
      BY <2>1, <2>3
    <3>2. y \in Pairs(about)
      BY <1>1, <2>1, <3>1, PairsIs
    <3>3. y # x => KnowsWhatIsSo(y)
      BY <1>1, <3>1, <3>2 DEF SendsWhatIsSo
    <3> QED BY <1>6, <2>1, <3>1, <3>3
  <2> QED BY <2>2, <2>3
<1>10. ASSUME NEW g \in Senders, g # h PROVE SendsWhatIsSo(g)'
  <2>1. senders'[g] = senders[g] /\ SendsWhatIsSo(g)
    BY <1>3, <1>10 DEF OwnTokenIInv
  <2>2. CASE senders[g] = Silent
    BY <2>1, <2>2 DEF SendsWhatIsSo, Silent
  <2>3. CASE senders[g] # Silent
    <3>1. ~senders[g].alone
      BY <1>1, <1>10, <2>1, <2>3 DEF SendsWhatIsSo
    <3>2. informed' = informed
      BY <1>1, <1>10, <2>3 DEF SendsWhatIsSo
    <3> QED BY <2>1, <2>3, <3>1, <3>2 DEF SendsWhatIsSo
  <2> QED BY <2>2, <2>3
<1>11. SendsWhatIsSo(h)'
  <2>1. CASE rest = {}
    BY <1>3, <2>1 DEF SendsWhatIsSo, Silent
  <2>2. CASE rest # {}
    <3>1. senders'[h] = m /\ informed' = informed
      BY <1>3, <2>2
    <3>2. m.to # {} /\ m.to \subseteq Pairs(m.about) /\ m.kind # "none" /\ m.body.version # 0
          /\ m.about \cap informed' = {}
      BY <1>1, <1>2, <2>2, <3>1 DEF SendsWhatIsSo
    <3>3. ASSUME alone
          PROVE  /\ \A g \in Senders \ {h} : senders'[g] = Silent
                 /\ IF m.kind = "invalidate" THEN m.about \cap links = {} ELSE m.about = links /\ m.body = auth
                 /\ \A y \in Pairs(m.about) \ m.to : KnowsWhatIsSo(y)'
      <4>1. /\ \A g \in Senders \ {h} : senders[g] = Silent
            /\ IF m.kind = "invalidate" THEN m.about \cap links = {} ELSE m.about = links /\ m.body = auth
            /\ \A y \in Pairs(about) \ senders[h].to : KnowsWhatIsSo(y)
        BY <1>1, <1>2, <3>3 DEF SendsWhatIsSo
      <4>2. \A y \in Pairs(about) : y \in Pairs(Tenants)
        BY <1>1, PairsIs
      <4>3. \A y \in Pairs(m.about) \ m.to : KnowsWhatIsSo(y)'
        BY <1>2, <1>6, <3>3, <4>1, <4>2
      <4> QED BY <1>3, <4>1, <4>3
    <3> QED BY <1>2, <3>1, <3>2, <3>3 DEF SendsWhatIsSo
  <2> QED BY <2>1, <2>2
<1>12. auth'.version = 0 => links' = {}
  BY DEF OwnTokenIInv
<1> QED BY <1>4, <1>5, <1>9, <1>10, <1>11, <1>12 DEF OwnTokenIInv

LEMMA TokenRequestSound ==
  ASSUME OwnTokenIInv, NEW h \in Senders, NEW x \in Pairs(Tenants), Arrived(h, x) \/ Lost(h, x)
  PROVE  OwnTokenIInv'
<1>1. /\ OwnTokenTypeOK /\ x \in senders[h].to /\ UNCHANGED <<auth, links, writes>>
      /\ senders[h].alone \in BOOLEAN /\ senders[h].about \in SUBSET Tenants
      /\ senders[h] # Silent /\ SendsWhatIsSo(h) /\ informed \subseteq Tenants
  BY MessageFields DEF Arrived, Lost, OwnTokenIInv, OwnTokenTypeOK
<1>2. CASE Arrived(h, x)
  <2> DEFINE t == x[1]
             p == x[2]
             said == Says(senders[h], knows[t][p])
             m == [senders[h] EXCEPT !.to = senders[h].to \ {x}]
  <2>1. /\ knows' = (IF Understands(senders[h], t, p) THEN [knows EXCEPT ![t][p] = said] ELSE knows)
        /\ senders' = [senders EXCEPT ![h] = IF senders[h].to \ {x} = {} THEN Silent ELSE m]
        /\ informed' = IF senders[h].alone /\ senders[h].to = {x} THEN informed \cup senders[h].about ELSE informed
    BY <1>2 DEF Arrived, Sent, Says
  <2>2. /\ said \in [version : 0..MaxWrites, valid : BOOLEAN] /\ said.version # 0
    <3>1. senders[h].body \in Auths /\ senders[h].body.version # 0
      BY <1>1, MessageFields DEF SendsWhatIsSo
    <3>2. senders[h].body.version \in 0..MaxWrites /\ senders[h].body.accepted \in BOOLEAN
      BY <3>1 DEF Auths
    <3> QED BY <3>1, <3>2 DEF Says
  <2>3. /\ knows' \in [Tenants -> [AllPartners -> [version : 0..MaxWrites, valid : BOOLEAN]]]
        /\ \A y \in Pairs(Tenants) : y # x => knows'[y[1]][y[2]] = knows[y[1]][y[2]]
        /\ IF Understands(senders[h], t, p) THEN knows'[t][p] = said ELSE knows'[t][p] = knows[t][p]
    <3>1. CASE Understands(senders[h], t, p)
      <4>1. knows' = [knows EXCEPT ![x[1]][x[2]] = said]
        BY <2>1, <3>1
      <4> HIDE DEF said
      <4> QED BY <1>1, <2>2, <3>1, <4>1, OthersKnow
    <3>2. CASE ~Understands(senders[h], t, p)
      BY <1>1, <2>1, <3>2 DEF OwnTokenTypeOK
    <3> QED BY <3>1, <3>2
  <2>4. senders[h].alone => KnowsWhatIsSo(x)'
    BY <1>1, <2>3, Tells
  <2>5. knows'[t][p].version = 0 => ~knows'[t][p].valid
    <3> HIDE DEF said
    <3> QED BY <2>2, <2>3 DEF OwnTokenIInv
  <2>6. informed' \subseteq Tenants
    BY <1>1, <2>1
  <2>7. IsLess(m, h, x, senders[h].alone)
    BY DEF IsLess
  <2> HIDE DEF m
  <2>8. /\ senders[h].alone => KnowsWhatIsSo(x)' /\ senders[h].alone
        /\ \/ informed' = informed
           \/ /\ senders[h].alone /\ KnowsWhatIsSo(x)' /\ senders[h].to = {x}
              /\ informed' = informed \cup senders[h].about
    BY <2>1, <2>4
  <2>9. /\ knows' \in [Tenants -> [AllPartners -> [version : 0..MaxWrites, valid : BOOLEAN]]]
        /\ \A y \in Pairs(Tenants) : y # x => knows'[y[1]][y[2]] = knows[y[1]][y[2]]
        /\ knows'[x[1]][x[2]].version = 0 => ~knows'[x[1]][x[2]].valid
    BY <2>3, <2>5
  <2>10. /\ senders[h].alone \in BOOLEAN /\ x \in senders[h].to
         /\ UNCHANGED <<auth, links, writes>>
         /\ senders' = [senders EXCEPT ![h] = IF senders[h].to \ {x} = {} THEN Silent ELSE m]
    BY <1>1, <2>1
  <2> QED BY <2>6, <2>7, <2>8, <2>9, <2>10, RequestSound
<1>3. CASE Lost(h, x)
  <2> DEFINE m == [senders[h] EXCEPT !.to = senders[h].to \ {x}, !.alone = FALSE]
  <2>1. /\ senders' = [senders EXCEPT ![h] = IF senders[h].to \ {x} = {} THEN Silent ELSE m]
        /\ UNCHANGED <<knows, informed>>
    BY <1>3 DEF Lost
  <2>2. IsLess(m, h, x, FALSE)
    BY DEF IsLess
  <2>3. knows' \in [Tenants -> [AllPartners -> [version : 0..MaxWrites, valid : BOOLEAN]]]
    BY <1>1, <2>1 DEF OwnTokenTypeOK
  <2>4. knows'[x[1]][x[2]].version = 0 => ~knows'[x[1]][x[2]].valid
    BY <2>1 DEF OwnTokenIInv
  <2> HIDE DEF m
  <2> QED BY <1>1, <2>1, <2>2, <2>3, <2>4, RequestSound
<1> QED BY <1>2, <1>3

LEMMA OwnTokenInitSound == OwnTokenInit => OwnTokenIInv
<1> SUFFICES ASSUME OwnTokenInit PROVE OwnTokenIInv
  OBVIOUS
<1>1. /\ auth = NoAuth /\ links = {} /\ senders = [h \in Senders |-> Silent]
      /\ knows = [t \in Tenants |-> [p \in AllPartners |-> Unknown]] /\ informed = Tenants /\ writes = 0
  BY DEF OwnTokenInit
<1>2. /\ Unknown \in [version : 0..MaxWrites, valid : BOOLEAN] /\ Unknown.valid = FALSE
      /\ 0 \in 0..MaxWrites
  BY OwnTokenAssumption DEF Unknown
<1>3. OwnTokenTypeOK
  BY <1>1, <1>2, SilentIsAMessage DEF OwnTokenTypeOK
<1>4. \A x \in Pairs(Tenants) : x[1] \in Tenants /\ x[2] \in AllPartners
  BY PairsIs
<1>5. \A x \in Pairs(Tenants) : knows[x[1]][x[2]] = Unknown
  BY <1>1, <1>4
<1>6. \A x \in Pairs(Tenants) : ~knows[x[1]][x[2]].valid
  BY <1>2, <1>5
<1>7. \A h \in Senders : SendsWhatIsSo(h)
  BY <1>1 DEF SendsWhatIsSo
<1> QED BY <1>1, <1>3, <1>6, <1>7 DEF OwnTokenIInv, KnowsWhatIsSo

LEMMA OwnTokenStepSound == OwnTokenIInv /\ [OwnTokenNext]_ownTokenVars => OwnTokenIInv'
<1> SUFFICES ASSUME OwnTokenIInv, [OwnTokenNext]_ownTokenVars PROVE OwnTokenIInv'
  OBVIOUS
<1>1. CASE UNCHANGED ownTokenVars
  BY <1>1 DEF ownTokenVars, OwnTokenIInv, OwnTokenTypeOK, SendsWhatIsSo, KnowsWhatIsSo
<1>2. CASE \/ CreateToken
           \/ \E h \in Senders : \/ UpdateToken(h) \/ DeleteToken(h)
                                 \/ \E t \in Tenants : LinkTenant(h, t) \/ UnlinkTenant(h, t)
  BY <1>2, TokenRowSound
<1>3. ASSUME NEW h \in Senders, NEW x \in Pairs(Tenants), Arrived(h, x) \/ Lost(h, x)
      PROVE  OwnTokenIInv'
  BY <1>3, TokenRequestSound
<1> QED BY <1>1, <1>2, <1>3 DEF OwnTokenNext

LEMMA TokenTold == OwnTokenIInv => TokenIsTold
BY DEF OwnTokenIInv, TokenIsTold, KnowsWhatIsSo
-----------------------------------------------------------------------------
(* Sequences without repetition *)

LEMMA SubSeqIs ==
  ASSUME NEW S, NEW s \in Seq(S), NEW m \in 1..(Len(s) + 1), NEW n \in 0..Len(s)
  PROVE  /\ SubSeq(s, m, n) \in Seq(S)
         /\ Len(SubSeq(s, m, n)) = IF m <= n THEN n - m + 1 ELSE 0
         /\ \A i \in 1..Len(SubSeq(s, m, n)) : SubSeq(s, m, n)[i] = s[m + i - 1]
<1>1. m \in Int /\ n \in Int /\ \A i \in m..n : s[i] \in S
  OBVIOUS
<1>2. /\ SubSeq(s, m, n) \in Seq(S)
      /\ Len(SubSeq(s, m, n)) = IF m <= n THEN n - m + 1 ELSE 0
      /\ \A i \in 1..(n - m + 1) : SubSeq(s, m, n)[i] = s[m + i - 1]
  BY <1>1, SubSeqProperties
<1>3. \A i \in 1..Len(SubSeq(s, m, n)) : i \in 1..(n - m + 1)
  BY <1>1, <1>2
<1> QED BY <1>2, <1>3

LEMMA RemoveIs ==
  ASSUME NEW S, NEW s \in Seq(S), NEW k \in DOMAIN s
  PROVE  /\ RemoveAt(s, k) \in Seq(S) /\ Len(RemoveAt(s, k)) = Len(s) - 1
         /\ \A i \in 1..(Len(s) - 1) : RemoveAt(s, k)[i] = IF i < k THEN s[i] ELSE s[i + 1]
<1> DEFINE front == SubSeq(s, 1, k - 1)
           back == SubSeq(s, k + 1, Len(s))
<1>1. k \in 1..Len(s) /\ Len(s) \in Nat
  OBVIOUS
<1>2. /\ front \in Seq(S) /\ Len(front) = k - 1
      /\ \A i \in 1..(k - 1) : front[i] = s[i]
  <2>1. 1 \in 1..(Len(s) + 1) /\ k - 1 \in 0..Len(s)
    BY <1>1
  <2>2. /\ front \in Seq(S) /\ Len(front) = IF 1 <= k - 1 THEN k - 1 - 1 + 1 ELSE 0
        /\ \A i \in 1..Len(front) : front[i] = s[1 + i - 1]
    BY <2>1, SubSeqIs
  <2>3. Len(front) = k - 1
    BY <1>1, <2>2
  <2>4. \A i \in 1..(k - 1) : 1 + i - 1 = i
    BY <1>1
  <2> HIDE DEF front
  <2> QED BY <2>2, <2>3, <2>4
<1>3. /\ back \in Seq(S) /\ Len(back) = Len(s) - k
      /\ \A i \in 1..(Len(s) - k) : back[i] = s[k + i]
  <2>1. k + 1 \in 1..(Len(s) + 1) /\ Len(s) \in 0..Len(s)
    BY <1>1
  <2>2. /\ back \in Seq(S) /\ Len(back) = IF k + 1 <= Len(s) THEN Len(s) - (k + 1) + 1 ELSE 0
        /\ \A i \in 1..Len(back) : back[i] = s[k + 1 + i - 1]
    BY <2>1, SubSeqIs
  <2>3. Len(back) = Len(s) - k
    BY <1>1, <2>2
  <2>4. \A i \in 1..(Len(s) - k) : k + 1 + i - 1 = k + i
    BY <1>1
  <2> HIDE DEF back
  <2> QED BY <2>2, <2>3, <2>4
<1>4. RemoveAt(s, k) = front \o back
  BY DEF RemoveAt
<1> HIDE DEF front, back
<1>5. /\ front \o back \in Seq(S) /\ Len(front \o back) = Len(front) + Len(back)
      /\ \A i \in 1..Len(front) + Len(back) :
            (front \o back)[i] = IF i <= Len(front) THEN front[i] ELSE back[i - Len(front)]
  BY <1>2, <1>3, ConcatProperties
<1>6. ASSUME NEW i \in 1..(Len(s) - 1)
      PROVE  (front \o back)[i] = IF i < k THEN s[i] ELSE s[i + 1]
  <2>1. CASE i < k
    BY SMTT(30), <1>1, <1>2, <1>3, <1>5, <2>1
  <2>2. CASE ~(i < k)
    <3>1. i - (k - 1) \in 1..(Len(s) - k) /\ k + (i - (k - 1)) = i + 1
      BY <1>1, <2>2
    <3>2. i \in 1..Len(front) + Len(back) /\ ~(i <= Len(front)) /\ Len(front) = k - 1
      BY <1>1, <1>2, <1>3, <2>2
    <3>3. (front \o back)[i] = back[i - Len(front)]
      BY <1>5, <3>2
    <3> QED BY <1>3, <2>2, <3>1, <3>2, <3>3
  <2> QED BY <2>1, <2>2
<1>7. Len(front) + Len(back) = Len(s) - 1
  BY <1>1, <1>2, <1>3
<1> QED BY <1>4, <1>5, <1>6, <1>7

LEMMA InsertIs ==
  ASSUME NEW S, NEW s \in Seq(S), NEW k \in 1..(Len(s) + 1), NEW e \in S
  PROVE  /\ InsertAt(s, k, e) \in Seq(S) /\ Len(InsertAt(s, k, e)) = Len(s) + 1
         /\ \A i \in 1..(Len(s) + 1) :
               InsertAt(s, k, e)[i] = IF i < k THEN s[i] ELSE IF i = k THEN e ELSE s[i - 1]
<1> DEFINE front == SubSeq(s, 1, k - 1)
           back == SubSeq(s, k, Len(s))
           middle == <<e>>
<1>1. k \in Nat /\ k >= 1 /\ k <= Len(s) + 1 /\ Len(s) \in Nat
  OBVIOUS
<1>2. /\ front \in Seq(S) /\ Len(front) = k - 1
      /\ \A i \in 1..(k - 1) : front[i] = s[i]
  <2>1. 1 \in 1..(Len(s) + 1) /\ k - 1 \in 0..Len(s)
    BY <1>1
  <2>2. /\ front \in Seq(S) /\ Len(front) = IF 1 <= k - 1 THEN k - 1 - 1 + 1 ELSE 0
        /\ \A i \in 1..Len(front) : front[i] = s[1 + i - 1]
    BY <2>1, SubSeqIs
  <2>3. Len(front) = k - 1
    BY <1>1, <2>2
  <2>4. \A i \in 1..(k - 1) : 1 + i - 1 = i
    BY <1>1
  <2> HIDE DEF front
  <2> QED BY <2>2, <2>3, <2>4
<1>3. /\ back \in Seq(S) /\ Len(back) = Len(s) - k + 1
      /\ \A i \in 1..(Len(s) - k + 1) : back[i] = s[k + i - 1]
  <2>1. Len(s) \in 0..Len(s)
    BY <1>1
  <2>2. /\ back \in Seq(S) /\ Len(back) = IF k <= Len(s) THEN Len(s) - k + 1 ELSE 0
        /\ \A i \in 1..Len(back) : back[i] = s[k + i - 1]
    BY <2>1, SubSeqIs
  <2>3. Len(back) = Len(s) - k + 1
    BY <1>1, <2>2
  <2> HIDE DEF back
  <2> QED BY <2>2, <2>3
<1>4. middle \in Seq(S) /\ Len(middle) = 1 /\ middle[1] = e
  OBVIOUS
<1>5. InsertAt(s, k, e) = (front \o middle) \o back
  BY DEF InsertAt
<1> HIDE DEF front, back, middle
<1>6. /\ front \o middle \in Seq(S) /\ Len(front \o middle) = Len(front) + Len(middle)
      /\ \A i \in 1..Len(front) + Len(middle) :
            (front \o middle)[i] = IF i <= Len(front) THEN front[i] ELSE middle[i - Len(front)]
  BY <1>2, <1>4, ConcatProperties
<1> DEFINE begin == front \o middle
<1>7. begin \in Seq(S) /\ Len(begin) = k /\ begin[k] = e /\ \A i \in 1..(k - 1) : begin[i] = s[i]
  BY <1>1, <1>2, <1>4, <1>6
<1> HIDE DEF begin
<1>8. /\ begin \o back \in Seq(S) /\ Len(begin \o back) = Len(begin) + Len(back)
      /\ \A i \in 1..Len(begin) + Len(back) :
            (begin \o back)[i] = IF i <= Len(begin) THEN begin[i] ELSE back[i - Len(begin)]
  BY <1>3, <1>7, ConcatProperties
<1>9. Len(begin) + Len(back) = Len(s) + 1
  BY <1>1, <1>3, <1>7
<1>10. ASSUME NEW i \in 1..(Len(s) + 1)
       PROVE  (begin \o back)[i] = IF i < k THEN s[i] ELSE IF i = k THEN e ELSE s[i - 1]
  <2>1. CASE i <= k
    BY <1>1, <1>7, <1>8, <1>9, <2>1
  <2>2. CASE ~(i <= k)
    <3>1. i - k \in 1..(Len(s) - k + 1) /\ k + (i - k) - 1 = i - 1
      BY <1>1, <2>2
    <3>2. (begin \o back)[i] = back[i - k]
      BY <1>1, <1>7, <1>8, <1>9, <2>2
    <3> QED BY <1>1, <1>3, <2>2, <3>1, <3>2
  <2> QED BY <2>1, <2>2
<1> QED BY <1>5, <1>8, <1>9, <1>10 DEF begin

\* Taking a row out of a list without repetition leaves one, of the other rows.
LEMMA RemoveInjective ==
  ASSUME NEW S, NEW s \in Seq(S), IsInjective(s), NEW k \in DOMAIN s
  PROVE  /\ IsInjective(RemoveAt(s, k)) /\ Range(RemoveAt(s, k)) = Range(s) \ {s[k]}
<1> DEFINE t == RemoveAt(s, k)
<1>1. t \in Seq(S) /\ Len(t) = Len(s) - 1 /\ Len(s) \in Nat /\ k \in 1..Len(s)
  BY RemoveIs
<1>2. \A i \in 1..(Len(s) - 1) : t[i] = IF i < k THEN s[i] ELSE s[i + 1]
  BY RemoveIs
<1> HIDE DEF t
<1>3. DOMAIN t = 1..(Len(s) - 1) /\ DOMAIN s = 1..Len(s)
  BY <1>1
<1>4. \A i, j \in 1..Len(s) : s[i] = s[j] => i = j
  BY <1>3 DEF IsInjective
<1>5. ASSUME NEW i \in 1..(Len(s) - 1), NEW j \in 1..(Len(s) - 1), t[i] = t[j] PROVE i = j
  <2> DEFINE at(n) == IF n < k THEN n ELSE n + 1
  <2>1. at(i) \in 1..Len(s) /\ at(j) \in 1..Len(s) /\ t[i] = s[at(i)] /\ t[j] = s[at(j)]
    BY <1>1, <1>2
  <2>2. at(i) = at(j)
    BY <1>4, <1>5, <2>1
  <2> QED BY <1>1, <2>2
<1>6. Range(t) \subseteq Range(s) \ {s[k]}
  <2> SUFFICES ASSUME NEW i \in 1..(Len(s) - 1) PROVE t[i] \in Range(s) /\ t[i] # s[k]
    BY <1>3 DEF Range
  <2> DEFINE n == IF i < k THEN i ELSE i + 1
  <2>1. n \in 1..Len(s) /\ n # k /\ t[i] = s[n]
    BY <1>1, <1>2
  <2> HIDE DEF n
  <2> QED BY <1>1, <1>3, <1>4, <2>1 DEF Range
<1>7. Range(s) \ {s[k]} \subseteq Range(t)
  <2> SUFFICES ASSUME NEW i \in 1..Len(s), i # k PROVE s[i] \in Range(t)
    BY <1>3 DEF Range
  <2> DEFINE n == IF i < k THEN i ELSE i - 1
  <2>1. n \in 1..(Len(s) - 1) /\ t[n] = s[i]
    BY <1>1, <1>2
  <2> HIDE DEF n
  <2> QED BY <1>3, <2>1 DEF Range
<1>8. IsInjective(t)
  BY <1>3, <1>5 DEF IsInjective
<1> QED BY <1>6, <1>7, <1>8 DEF t

LEMMA InsertInjective ==
  ASSUME NEW S, NEW s \in Seq(S), IsInjective(s), NEW k \in 1..(Len(s) + 1), NEW e \in S,
         e \notin Range(s)
  PROVE  /\ IsInjective(InsertAt(s, k, e)) /\ Range(InsertAt(s, k, e)) = Range(s) \cup {e}
<1> DEFINE t == InsertAt(s, k, e)
<1>0. Len(s) \in Nat
  OBVIOUS
<1>1. t \in Seq(S) /\ Len(t) = Len(s) + 1 /\ Len(s) \in Nat
  <2>1. t \in Seq(S) /\ Len(t) = Len(s) + 1
    BY InsertIs
  <2> QED BY <1>0, <2>1
<1>2. \A i \in 1..(Len(s) + 1) : t[i] = IF i < k THEN s[i] ELSE IF i = k THEN e ELSE s[i - 1]
  BY InsertIs
<1> HIDE DEF t
<1>3. DOMAIN t = 1..(Len(s) + 1) /\ DOMAIN s = 1..Len(s)
  BY <1>1
<1>4. /\ \A i, j \in 1..Len(s) : s[i] = s[j] => i = j
      /\ \A i \in 1..Len(s) : s[i] # e /\ s[i] \in Range(s)
  BY <1>3 DEF IsInjective, Range
<1> DEFINE at(n) == IF n < k THEN n ELSE n - 1
<1>5. \A i \in 1..(Len(s) + 1) : i # k => at(i) \in 1..Len(s) /\ t[i] = s[at(i)]
  BY <1>1, <1>2
<1>6. \A i, j \in 1..(Len(s) + 1) : i # k /\ j # k /\ at(i) = at(j) => i = j
  BY <1>1
<1>7. t[k] = e
  BY <1>2
<1> HIDE DEF at
<1>8. ASSUME NEW i \in 1..(Len(s) + 1), NEW j \in 1..(Len(s) + 1), t[i] = t[j] PROVE i = j
  <2>1. CASE i # k /\ j # k
    BY <1>4, <1>5, <1>6, <1>8, <2>1
  <2>2. CASE i = k \/ j = k
    BY <1>4, <1>5, <1>7, <1>8, <2>2
  <2> QED BY <2>1, <2>2
<1>9. Range(t) \subseteq Range(s) \cup {e}
  <2> SUFFICES ASSUME NEW i \in 1..(Len(s) + 1) PROVE t[i] \in Range(s) \cup {e}
    BY <1>3 DEF Range
  <2> QED BY <1>4, <1>5, <1>7
<1>10. Range(s) \cup {e} \subseteq Range(t)
  <2>1. e \in Range(t)
    BY <1>3, <1>7 DEF Range
  <2>2. ASSUME NEW i \in 1..Len(s) PROVE s[i] \in Range(t)
    <3> DEFINE n == IF i < k THEN i ELSE i + 1
    <3>1. n \in 1..(Len(s) + 1) /\ t[n] = s[i]
      BY <1>1, <1>2
    <3> HIDE DEF n
    <3> QED BY <1>3, <3>1 DEF Range
  <2> QED BY <1>3, <2>1, <2>2 DEF Range
<1>11. IsInjective(t)
  BY <1>3, <1>8 DEF IsInjective
<1> QED BY <1>9, <1>10, <1>11 DEF t
-----------------------------------------------------------------------------
(* The push of all own tokens or tariffs *)

LEMMA MinTwo ==
  ASSUME NEW m \in Nat, NEW n \in Nat
  PROVE  Min({m, n}) = IF m <= n THEN m ELSE n
<1> DEFINE least == IF m <= n THEN m ELSE n
<1>1. least \in {m, n} /\ \A x \in {m, n} : least <= x
  OBVIOUS
<1>2. \A y \in {m, n} : (\A x \in {m, n} : y <= x) => y = least
  OBVIOUS
<1> HIDE DEF least
<1>3. Min({m, n}) = least
  BY <1>1, <1>2 DEF Min
<1> QED BY <1>3 DEF least

\* What a push record becomes, field by field.
LEMMA PushFields ==
  ASSUME NEW b \in Pushes
  PROVE  /\ b.at \in {"idle", "read", "send", "ended"} /\ b.limit \in PushLimits \cup {1}
         /\ b.offset \in Nat /\ b.batch \in Seq(Batched)
         /\ b.more \in BOOLEAN /\ b.steady \in BOOLEAN
         /\ b.succeeded \subseteq Pushable /\ b.failed \subseteq Pushable /\ b.skipped \subseteq Pushable
BY DEF Pushes

SameTally(b, c) == /\ c.succeeded = b.succeeded /\ c.failed = b.failed /\ c.skipped = b.skipped
SamePlace(b, c) == /\ c.at = b.at /\ c.limit = b.limit /\ c.offset = b.offset /\ c.more = b.more

LEMMA PushUnsteady ==
  ASSUME NEW b \in Pushes
  PROVE  LET c == [b EXCEPT !.steady = FALSE]
         IN  c \in Pushes /\ c.steady = FALSE /\ c.batch = b.batch /\ SamePlace(b, c) /\ SameTally(b, c)
BY DEF Pushes, SamePlace, SameTally

LEMMA PushStarts ==
  ASSUME NEW limit \in PushLimits
  PROVE  LET c == [NoPush EXCEPT !.at = "read", !.limit = limit]
         IN  /\ c \in Pushes /\ c.at = "read" /\ c.limit = limit /\ c.offset = 0 /\ c.batch = <<>>
             /\ c.more = TRUE /\ c.steady = TRUE
             /\ c.succeeded = {} /\ c.failed = {} /\ c.skipped = {}
<1>1. <<>> \in Seq(Batched)
  OBVIOUS
<1> QED BY <1>1 DEF Pushes, NoPush

LEMMA PushMoves ==
  ASSUME NEW b \in Pushes, NEW at \in {"read", "ended"}
  PROVE  LET c == [b EXCEPT !.at = at]
         IN  /\ c \in Pushes /\ c.at = at /\ c.limit = b.limit /\ c.offset = b.offset /\ c.batch = b.batch
             /\ c.more = b.more /\ c.steady = b.steady /\ SameTally(b, c)
BY DEF Pushes, SameTally

\* A batch is the page of the table at the offset, with the revisions of now.
LEMMA BatchIs ==
  ASSUME BulkTypeOK, NEW first \in Nat
  PROVE  /\ BatchFrom(first) \in Seq(Batched) /\ Len(BatchFrom(first)) \in Nat
         /\ Len(BatchFrom(first)) =
               IF first >= Len(table) THEN 0
               ELSE IF first + bulk.limit <= Len(table) THEN bulk.limit ELSE Len(table) - first
         /\ \A k \in 1..Len(BatchFrom(first)) :
               /\ first + k \in DOMAIN table
               /\ BatchFrom(first)[k].row = table[first + k]
               /\ BatchFrom(first)[k].revision = revision[table[first + k]]
<1> DEFINE last == Min({first + bulk.limit, Len(table)})
           page == SubSeq(table, first + 1, last)
           entry(r) == [row |-> r, revision |-> revision[r]]
           batch == [k \in DOMAIN page |-> entry(page[k])]
<1>1. /\ table \in Seq(Pushable) /\ Len(table) \in Nat /\ DOMAIN table = 1..Len(table)
      /\ \A k \in 1..Len(table) : table[k] \in Pushable
      /\ revision \in [Pushable -> Revisions]
  BY DEF BulkTypeOK
<1>2. bulk.limit \in Nat /\ bulk.limit >= 1
  <2>1. bulk \in Pushes
    BY DEF BulkTypeOK
  <2>2. bulk.limit \in PushLimits \cup {1}
    BY <2>1, PushFields
  <2>3. \A n \in PushLimits : n \in Nat /\ n >= 1
    BY BulkAssumption
  <2>4. CASE bulk.limit \in PushLimits
    BY <2>3, <2>4
  <2>5. CASE bulk.limit = 1
    BY <2>5
  <2> QED BY <2>2, <2>4, <2>5
<1>3. last = IF first + bulk.limit <= Len(table) THEN first + bulk.limit ELSE Len(table)
  <2>1. first + bulk.limit \in Nat
    BY <1>2
  <2> QED BY <1>1, <2>1, MinTwo
<1>4. last \in Nat /\ last <= Len(table)
  BY <1>1, <1>2, <1>3
<1> HIDE DEF last
<1>5. \A i \in (first + 1)..last : table[i] \in Pushable
  BY <1>1, <1>4
<1>6. first + 1 \in Int /\ last \in Int
  BY <1>4
<1>7. /\ page \in Seq(Pushable)
      /\ Len(page) = IF first + 1 <= last THEN last - (first + 1) + 1 ELSE 0
      /\ \A i \in 1..(last - (first + 1) + 1) : page[i] = table[first + 1 + i - 1]
  BY <1>5, <1>6, SubSeqProperties
<1> HIDE DEF page
<1>8. Len(page) = IF first >= Len(table) THEN 0
                  ELSE IF first + bulk.limit <= Len(table) THEN bulk.limit ELSE Len(table) - first
  <2>1. Len(page) = IF first < last THEN last - first ELSE 0
    BY <1>4, <1>7
  <2>2. Len(table) \in Nat
    BY <1>1
  <2>3. CASE first >= Len(table)
    BY <1>2, <1>3, <2>1, <2>2, <2>3
  <2>4. CASE ~(first >= Len(table)) /\ first + bulk.limit <= Len(table)
    <3>1. last = first + bulk.limit
      BY <1>3, <2>4
    <3>2. first < last /\ last - first = bulk.limit
      BY <1>2, <3>1
    <3> QED BY <2>1, <2>4, <3>2
  <2>5. CASE ~(first >= Len(table)) /\ ~(first + bulk.limit <= Len(table))
    BY <1>3, <2>1, <2>2, <2>5
  <2> QED BY <2>3, <2>4, <2>5
<1>9. /\ Len(page) \in Nat /\ DOMAIN page = 1..Len(page)
      /\ \A k \in 1..Len(page) : page[k] \in Pushable
  BY <1>7
<1>10. \A k \in 1..Len(page) : first + k \in DOMAIN table /\ page[k] = table[first + k]
  <2> SUFFICES ASSUME NEW k \in 1..Len(page)
               PROVE  first + k \in DOMAIN table /\ page[k] = table[first + k]
    OBVIOUS
  <2>1. k \in 1..(last - (first + 1) + 1) /\ first + 1 + k - 1 = first + k
    BY <1>4, <1>7
  <2>2. first + k \in 1..Len(table)
    BY <1>1, <1>4, <2>1
  <2> QED BY <1>1, <1>7, <2>1, <2>2
<1>11. \A r \in Pushable : entry(r) \in Batched
  BY <1>1 DEF Batched
<1>12. \A k \in 1..Len(page) : entry(page[k]).row = page[k] /\ entry(page[k]).revision = revision[page[k]]
  OBVIOUS
<1> HIDE DEF entry
<1>13. /\ batch \in Seq(Batched) /\ Len(batch) = Len(page)
       /\ \A k \in 1..Len(page) : batch[k] = entry(page[k])
  <2>1. batch = [k \in 1..Len(page) |-> entry(page[k])]
    BY <1>9
  <2>2. \A k \in 1..Len(page) : entry(page[k]) \in Batched
    BY <1>9, <1>11
  <2>3. batch \in [1..Len(page) -> Batched]
    BY <2>1, <2>2
  <2> HIDE DEF batch
  <2> QED BY <1>9, <2>1, <2>3
<1>14. BatchFrom(first) = batch
  BY DEF BatchFrom, batch, page, last, entry
<1> HIDE DEF batch
<1> QED BY <1>8, <1>9, <1>10, <1>12, <1>13, <1>14

LEMMA BulkFacts ==
  ASSUME BulkIInv
  PROVE  /\ table \in Seq(Pushable) /\ Len(table) \in Nat /\ DOMAIN table = 1..Len(table)
         /\ IsInjective(table) /\ \A k \in 1..Len(table) : table[k] \in Pushable
         /\ Range(table) = {table[k] : k \in 1..Len(table)}
         /\ touches \in Nat /\ MaxTouches \in Nat
         /\ \A r \in Pushable : revision[r] \in Nat /\ atStart[r] \in Nat /\ partnerHas[r] \in Nat
         /\ bulk \in Pushes
         /\ \A k \in DOMAIN bulk.batch : bulk.batch[k] \in Batched
         /\ \A k \in DOMAIN bulk.batch : bulk.batch[k].revision \in Revisions /\ bulk.batch[k].row \in Pushable
         /\ Len(bulk.batch) \in Nat /\ DOMAIN bulk.batch = 1..Len(bulk.batch)
<1>1. /\ table \in Seq(Pushable) /\ IsInjective(table) /\ bulk \in Pushes /\ touches \in 0..MaxTouches
      /\ revision \in [Pushable -> Revisions] /\ partnerHas \in [Pushable -> Revisions]
      /\ atStart \in [Pushable -> Revisions]
  BY DEF BulkIInv, BulkTypeOK
<1>2. Len(table) \in Nat /\ DOMAIN table = 1..Len(table) /\ \A k \in 1..Len(table) : table[k] \in Pushable
  BY <1>1
<1>3. Range(table) = {table[k] : k \in 1..Len(table)}
  BY <1>2 DEF Range
<1>4. touches \in Nat /\ MaxTouches \in Nat /\ Revisions \subseteq Nat
  BY <1>1, BulkAssumption DEF Revisions
<1>5. bulk.batch \in Seq(Batched)
  BY <1>1, PushFields
<1>6. /\ Len(bulk.batch) \in Nat /\ DOMAIN bulk.batch = 1..Len(bulk.batch)
      /\ \A k \in DOMAIN bulk.batch : bulk.batch[k] \in Batched
  BY <1>5
<1>7. \A e \in Batched : e.revision \in Revisions /\ e.row \in Pushable
  BY DEF Batched
<1> QED BY <1>1, <1>2, <1>3, <1>4, <1>6, <1>7

\* What a change of a row, of which the partner may be told, leaves of the invariant.
LEMMA BroadcastSound ==
  ASSUME BulkIInv, NEW r \in Pushable, NEW n \in Revisions,
         Touches, revision' = [revision EXCEPT ![r] = n], IsBroadcast(r),
         n >= revision[r], n # 0, n <= touches + 2,
         table' \in Seq(Pushable), IsInjective(table)', Range(table)' \subseteq Range(table) \cup {r},
         \A k \in DOMAIN table : k \in DOMAIN table' /\ table'[k] = table[k],
         UNCHANGED <<pushed, bulk, atStart>>
  PROVE  BulkIInv'
<1>1. /\ revision \in [Pushable -> Revisions] /\ partnerHas \in [Pushable -> Revisions]
      /\ \A q \in Pushable : Grows(q) /\ revision[q] \in Nat /\ atStart[q] \in Nat /\ partnerHas[q] \in Nat
      /\ touches \in Nat /\ touches' = touches + 1 /\ touches + 1 <= MaxTouches /\ MaxTouches \in Nat
  BY BulkFacts DEF BulkIInv, BulkTypeOK, Touches
<1>2. revision' \in [Pushable -> Revisions] /\ revision'[r] = n /\ \A q \in Pushable \ {r} : revision'[q] = revision[q]
  BY <1>1
<1>3. /\ partnerHas' \in [Pushable -> Revisions]
      /\ \A q \in Pushable \ {r} : partnerHas'[q] = partnerHas[q]
      /\ partnerHas'[r] \in {partnerHas[r], n}
  BY <1>1, <1>2 DEF IsBroadcast
<1>4. n \in Nat
  BY <1>1 DEF Revisions
<1>5. ASSUME NEW q \in Pushable PROVE Grows(q)'
  <2>1. /\ revision[q] <= touches + 1 /\ revision[q] >= atStart[q]
        /\ q \in Range(table) => revision[q] # 0
    BY <1>1 DEF Grows
  <2>2. CASE q = r
    BY <1>1, <1>2, <1>4, <2>1, <2>2 DEF Grows
  <2>3. CASE q # r
    BY <1>1, <1>2, <2>1, <2>3 DEF Grows
  <2> QED BY <2>2, <2>3
<1>6. BulkTypeOK'
  BY <1>1, <1>2, <1>3 DEF BulkIInv, BulkTypeOK
<1>7. SucceededArrived'
  <2> SUFFICES ASSUME pushed = "tokens", NEW q \in bulk.succeeded
               PROVE  partnerHas'[q] # 0 /\ partnerHas'[q] >= atStart[q]
    BY DEF SucceededArrived
  <2>1. partnerHas[q] # 0 /\ partnerHas[q] >= atStart[q] /\ q \in Pushable
    BY PushFields DEF BulkIInv, BulkTypeOK, SucceededArrived
  <2>2. n >= atStart[r]
    BY <1>1, <1>4 DEF Grows
  <2> QED BY <1>3, <2>1, <2>2
<1>8. \A q \in Pushable : IsAhead(q) => IsAhead(q)'
  BY DEF IsAhead
<1>9. /\ bulk.at = "idle" => bulk = [NoPush EXCEPT !.steady = bulk.steady] /\ \A q \in Pushable : atStart[q] = 0
      /\ bulk.at \in {"read", "ended"} => bulk.batch = <<>>
      /\ bulk.at \in {"read", "send"} => bulk.limit \in PushLimits
      /\ bulk.at = "read" => bulk.more
      /\ \A k \in DOMAIN bulk.batch : /\ bulk.batch[k].revision # 0
                                      /\ bulk.batch[k].revision >= atStart[bulk.batch[k].row]
  BY DEF BulkIInv
<1>10. bulk.steady /\ bulk.at # "idle" => \A q \in Pushable : atStart[q] # 0 =>
          \/ q \in Summary \/ InBatch(q)
          \/ IsAhead(q) /\ bulk.more /\ bulk.at # "ended"
  BY DEF BulkIInv
<1>11. Summary' = Summary /\ \A q \in Pushable : InBatch(q)' = InBatch(q)
  BY DEF Summary, InBatch
<1> QED BY <1>5, <1>6, <1>7, <1>8, <1>9, <1>10, <1>11 DEF BulkIInv

LEMMA PushableRowsSound ==
  ASSUME BulkIInv, NEW r \in Pushable, PushableAppears(r) \/ PushableChanges(r)
  PROVE  BulkIInv'
<1>1. /\ table \in Seq(Pushable) /\ Len(table) \in Nat /\ DOMAIN table = 1..Len(table)
      /\ IsInjective(table) /\ Range(table) = {table[k] : k \in 1..Len(table)}
      /\ touches \in Nat /\ MaxTouches \in Nat /\ revision[r] \in Nat /\ Grows(r)
  BY BulkFacts DEF BulkIInv
<1>2. CASE PushableAppears(r)
  <2>1. r \notin Range(table) /\ revision[r] = 0 /\ table' = Append(table, r) /\ Touches
    BY <1>1, <1>2 DEF Grows, PushableAppears
  <2>2. /\ table' \in Seq(Pushable) /\ Len(table') = Len(table) + 1
        /\ \A i \in 1..Len(table) : table'[i] = table[i]
        /\ table'[Len(table) + 1] = r
    BY <1>1, <2>1, AppendProperties
  <2>3. DOMAIN table' = 1..(Len(table) + 1)
    BY <1>1, <2>2
  <2>4. \A k \in DOMAIN table : k \in DOMAIN table' /\ table'[k] = table[k]
    BY <1>1, <2>2, <2>3
  <2>5. \A k \in 1..Len(table) : table[k] # r
    BY <1>1, <2>1
  <2>6. IsInjective(table)'
    <3> SUFFICES ASSUME NEW i \in 1..(Len(table) + 1), NEW j \in 1..(Len(table) + 1),
                        table'[i] = table'[j]
                 PROVE  i = j
      BY <2>3 DEF IsInjective
    <3>1. \A m, n \in 1..Len(table) : table[m] = table[n] => m = n
      BY <1>1 DEF IsInjective
    <3>2. CASE i \in 1..Len(table) /\ j \in 1..Len(table)
      BY <2>2, <3>1, <3>2
    <3>3. CASE i = Len(table) + 1 /\ j \in 1..Len(table)
      BY <2>2, <2>5, <3>3
    <3>4. CASE j = Len(table) + 1 /\ i \in 1..Len(table)
      BY <2>2, <2>5, <3>4
    <3> QED BY <1>1, <3>2, <3>3, <3>4
  <2>7. Range(table)' \subseteq Range(table) \cup {r}
    <3> SUFFICES ASSUME NEW i \in 1..(Len(table) + 1) PROVE table'[i] \in Range(table) \cup {r}
      BY <2>3 DEF Range
    <3>1. CASE i = Len(table) + 1
      BY <2>2, <3>1
    <3>2. CASE i \in 1..Len(table)
      BY <1>1, <2>2, <3>2
    <3> QED BY <1>1, <3>1, <3>2
  <2>8. 1 \in Revisions /\ 1 >= revision[r] /\ 1 # 0 /\ 1 <= touches + 2
    BY <1>1, <2>1 DEF Revisions
  <2>9. revision' = [revision EXCEPT ![r] = 1] /\ IsBroadcast(r) /\ UNCHANGED <<pushed, bulk, atStart>>
    BY <1>2 DEF PushableAppears
  <2> QED BY <2>1, <2>2, <2>4, <2>6, <2>7, <2>8, <2>9, BroadcastSound
<1>3. CASE PushableChanges(r)
  <2>1. /\ Touches /\ table' = table /\ revision' = [revision EXCEPT ![r] = revision[r] + 1]
        /\ IsBroadcast(r) /\ UNCHANGED <<pushed, bulk, atStart>>
    BY <1>3 DEF PushableChanges
  <2>2. revision[r] <= touches + 1 /\ touches < MaxTouches
    BY <1>3 DEF Grows, PushableChanges, Touches, BulkIInv
  <2>3. /\ revision[r] + 1 \in Revisions /\ revision[r] + 1 >= revision[r] /\ revision[r] + 1 # 0
        /\ revision[r] + 1 <= touches + 2
    BY <1>1, <2>2 DEF Revisions
  <2>4. /\ table' \in Seq(Pushable) /\ IsInjective(table)' /\ Range(table)' \subseteq Range(table) \cup {r}
        /\ \A k \in DOMAIN table : k \in DOMAIN table' /\ table'[k] = table[k]
    BY <1>1, <2>1
  <2> QED BY <2>1, <2>3, <2>4, BroadcastSound
<1> QED BY <1>2, <1>3

LEMMA PushableGoesSound ==
  ASSUME BulkIInv, NEW k \in DOMAIN table, PushableGoes(k)
  PROVE  BulkIInv'
<1>1. /\ table' = RemoveAt(table, k) /\ bulk' = [bulk EXCEPT !.steady = FALSE]
      /\ touches < MaxTouches /\ touches' = touches + 1
      /\ UNCHANGED <<pushed, revision, partnerHas, atStart>>
  BY DEF PushableGoes, Touches
<1>2. /\ table \in Seq(Pushable) /\ IsInjective(table) /\ bulk \in Pushes
      /\ touches \in Nat /\ MaxTouches \in Nat
  BY BulkFacts
<1>3. table' \in Seq(Pushable)
  BY <1>1, <1>2, RemoveIs
<1>4. IsInjective(table)' /\ Range(table)' \subseteq Range(table)
  BY <1>1, <1>2, RemoveInjective
<1>5. /\ bulk' \in Pushes /\ bulk'.steady = FALSE /\ bulk'.batch = bulk.batch
      /\ SamePlace(bulk, bulk') /\ SameTally(bulk, bulk')
  BY <1>1, <1>2, PushUnsteady
<1>6. BulkTypeOK'
  BY <1>1, <1>2, <1>3, <1>4, <1>5 DEF BulkIInv, BulkTypeOK
<1>7. \A r \in Pushable : Grows(r)'
  <2> SUFFICES ASSUME NEW r \in Pushable PROVE Grows(r)'
    OBVIOUS
  <2>1. Grows(r) /\ revision[r] \in Nat
    BY BulkFacts DEF BulkIInv
  <2> QED BY <1>1, <1>2, <1>4, <2>1 DEF Grows
<1>8. SucceededArrived'
  BY <1>1, <1>5 DEF SucceededArrived, BulkIInv, SameTally
<1>9. bulk'.at = "idle" =>
        bulk' = [NoPush EXCEPT !.steady = bulk'.steady] /\ \A r \in Pushable : atStart'[r] = 0
  <2> SUFFICES ASSUME bulk.at = "idle"
               PROVE  bulk' = [NoPush EXCEPT !.steady = FALSE] /\ \A r \in Pushable : atStart'[r] = 0
    BY <1>5 DEF SamePlace
  <2>1. bulk = [NoPush EXCEPT !.steady = bulk.steady] /\ \A r \in Pushable : atStart[r] = 0
    BY DEF BulkIInv
  <2>2. [[NoPush EXCEPT !.steady = bulk.steady] EXCEPT !.steady = FALSE] = [NoPush EXCEPT !.steady = FALSE]
    BY DEF NoPush
  <2> QED BY <1>1, <2>1, <2>2
<1>10. /\ bulk'.at \in {"read", "ended"} => bulk'.batch = <<>>
       /\ bulk'.at \in {"read", "send"} => bulk'.limit \in PushLimits
       /\ bulk'.at = "read" => bulk'.more
  BY <1>5 DEF BulkIInv, SamePlace
<1>11. \A i \in DOMAIN bulk'.batch : /\ bulk'.batch[i].revision # 0
                                     /\ bulk'.batch[i].revision >= atStart'[bulk'.batch[i].row]
  BY <1>1, <1>5 DEF BulkIInv
<1> QED BY <1>5, <1>6, <1>7, <1>8, <1>9, <1>10, <1>11 DEF BulkIInv

LEMMA StartPushSound ==
  ASSUME BulkIInv, NEW limit \in PushLimits, StartPush(limit)
  PROVE  BulkIInv'
<1>1. /\ bulk' = [NoPush EXCEPT !.at = "read", !.limit = limit]
      /\ atStart' = [r \in Pushable |-> IF r \in Range(table) THEN revision[r] ELSE 0]
      /\ UNCHANGED <<pushed, table, revision, partnerHas, touches>>
  BY DEF StartPush
<1>2. /\ bulk' \in Pushes /\ bulk'.at = "read" /\ bulk'.limit = limit /\ bulk'.offset = 0
      /\ bulk'.batch = <<>> /\ bulk'.more = TRUE /\ bulk'.steady = TRUE
      /\ bulk'.succeeded = {} /\ bulk'.failed = {} /\ bulk'.skipped = {}
  BY <1>1, PushStarts
<1>3. /\ revision \in [Pushable -> Revisions] /\ 0 \in Revisions
      /\ Range(table) = {table[k] : k \in 1..Len(table)} /\ DOMAIN table = 1..Len(table)
      /\ Len(table) \in Nat
  BY SMTT(30), BulkFacts DEF BulkIInv, BulkTypeOK, Revisions
<1>4. atStart' \in [Pushable -> Revisions]
  BY <1>1, <1>3
<1>5. BulkTypeOK'
  BY <1>1, <1>2, <1>4 DEF BulkIInv, BulkTypeOK
<1>6. \A r \in Pushable : Grows(r)'
  <2> SUFFICES ASSUME NEW r \in Pushable PROVE Grows(r)'
    OBVIOUS
  <2>1. Grows(r) /\ revision[r] \in Nat
    BY BulkFacts DEF BulkIInv
  <2>2. atStart'[r] = IF r \in Range(table) THEN revision[r] ELSE 0
    BY <1>1
  <2> QED BY <1>1, <2>1, <2>2 DEF Grows
<1>7. SucceededArrived'
  BY <1>2 DEF SucceededArrived
<1>8. ASSUME NEW r \in Pushable, atStart'[r] # 0 PROVE IsAhead(r)'
  <2>1. r \in Range(table)
    BY <1>1, <1>8
  <2>2. PICK k \in 1..Len(table) : table[k] = r
    BY <1>3, <2>1
  <2> QED BY <1>1, <1>2, <1>3, <2>2 DEF IsAhead
<1>9. DOMAIN bulk'.batch = {}
  BY <1>2
<1> QED BY <1>2, <1>5, <1>6, <1>7, <1>8, <1>9 DEF BulkIInv

LEMMA ReadBatchSound ==
  ASSUME BulkIInv, ReadBatch
  PROVE  BulkIInv'
<1> DEFINE batch == BatchFrom(bulk.offset)
           at == IF batch = <<>> THEN "ended" ELSE "send"
           more == ReadsOn(batch)
<1>1. /\ bulk.at = "read"
      /\ bulk' = [bulk EXCEPT !.at = at, !.offset = @ + Len(batch), !.batch = batch, !.more = more]
      /\ UNCHANGED <<pushed, table, revision, partnerHas, atStart, touches>>
  BY DEF ReadBatch, RowsStay
<1>2. BulkTypeOK /\ bulk \in Pushes /\ bulk.offset \in Nat
  BY BulkFacts, PushFields DEF BulkIInv
<1>3. /\ batch \in Seq(Batched) /\ Len(batch) \in Nat
      /\ Len(batch) = IF bulk.offset >= Len(table) THEN 0
                      ELSE IF bulk.offset + bulk.limit <= Len(table) THEN bulk.limit
                      ELSE Len(table) - bulk.offset
      /\ \A k \in 1..Len(batch) : /\ bulk.offset + k \in DOMAIN table
                                  /\ batch[k].row = table[bulk.offset + k]
                                  /\ batch[k].revision = revision[table[bulk.offset + k]]
  BY <1>2, BatchIs
<1>4. /\ bulk.batch = <<>> /\ bulk.limit \in PushLimits
      /\ DOMAIN table = 1..Len(table) /\ Len(table) \in Nat
      /\ \A k \in 1..Len(table) : table[k] \in Pushable
      /\ Range(table) = {table[k] : k \in 1..Len(table)}
  BY <1>1, BulkFacts DEF BulkIInv
<1>5. bulk.limit \in Nat /\ bulk.limit >= 1
  <2>1. \A n \in PushLimits : n \in Nat /\ n >= 1
    BY BulkAssumption
  <2> QED BY <1>4, <2>1
<1>6. at \in {"ended", "send"} /\ more \in BOOLEAN
  BY DEF ReadsOn
<1>7. (at = "ended") <=> (batch = <<>>)
  OBVIOUS
<1>8. Len(batch) = bulk.limit => more
  BY DEF ReadsOn
<1> HIDE DEF batch, at, more
<1>9. /\ bulk' \in Pushes /\ bulk'.at = at /\ bulk'.limit = bulk.limit
      /\ bulk'.offset = bulk.offset + Len(batch) /\ bulk'.batch = batch
      /\ bulk'.more = more /\ bulk'.steady = bulk.steady /\ SameTally(bulk, bulk')
  <2> DEFINE m == bulk.offset + Len(batch)
  <2>1. batch \in Seq(Batched) /\ m \in Nat
    BY <1>2, <1>3
  <2>2. bulk' = [bulk EXCEPT !.at = at, !.offset = m, !.batch = batch, !.more = more]
    BY <1>1
  <2> HIDE DEF m
  <2>3. /\ bulk' \in Pushes /\ bulk'.at = at /\ bulk'.limit = bulk.limit
        /\ bulk'.offset = m /\ bulk'.batch = batch
        /\ bulk'.more = more /\ bulk'.steady = bulk.steady /\ SameTally(bulk, bulk')
    BY <1>2, <1>6, <2>1, <2>2 DEF Pushes, SameTally
  <2> QED BY <2>3 DEF m
<1>10. BulkTypeOK'
  BY <1>1, <1>2, <1>9 DEF BulkTypeOK
<1>11. \A r \in Pushable : Grows(r)'
  BY <1>1 DEF BulkIInv, Grows
<1>12. SucceededArrived'
  BY <1>1, <1>9 DEF BulkIInv, SucceededArrived, SameTally
<1>13. ASSUME NEW k \in DOMAIN bulk'.batch
       PROVE  bulk'.batch[k].revision # 0 /\ bulk'.batch[k].revision >= atStart'[bulk'.batch[k].row]
  <2>1. k \in 1..Len(batch)
    BY <1>3, <1>9, <1>13
  <2>2. PICK r \in Pushable : r = table[bulk.offset + k] /\ r \in Range(table)
    BY <1>3, <1>4, <2>1
  <2>3. Grows(r)
    BY DEF BulkIInv
  <2>4. batch[k].revision = revision[r] /\ batch[k].row = r
    BY <1>3, <2>1, <2>2
  <2> QED BY <1>1, <1>9, <2>2, <2>3, <2>4 DEF Grows
<1>14. bulk.steady => \A r \in Pushable : atStart[r] # 0 => r \in Summary \/ InBatch(r) \/ IsAhead(r)
  BY <1>1 DEF BulkIInv
<1>15. \A r \in Pushable : ~InBatch(r)
  BY <1>4 DEF InBatch
<1>16. ASSUME NEW r \in Pushable, IsAhead(r)
       PROVE  InBatch(r)' \/ (IsAhead(r)' /\ bulk'.more /\ bulk'.at # "ended")
  <2>1. PICK k \in 1..Len(table) : k > bulk.offset /\ table[k] = r
    BY <1>4, <1>16 DEF IsAhead
  <2>2. CASE k <= bulk.offset + Len(batch)
    <3>1. k - bulk.offset \in 1..Len(batch) /\ bulk.offset + (k - bulk.offset) = k
      BY <1>2, <1>3, <2>1, <2>2
    <3>2. k - bulk.offset \in DOMAIN batch /\ batch[k - bulk.offset].row = r
      BY <1>3, <2>1, <3>1
    <3> QED BY <1>9, <3>2 DEF InBatch
  <2>3. CASE ~(k <= bulk.offset + Len(batch))
    <3>1. Len(batch) = bulk.limit
      BY <1>2, <1>3, <1>4, <1>5, <2>1, <2>3
    <3>2. batch # <<>>
      BY <1>5, <3>1
    <3>3. k > bulk'.offset
      BY <1>2, <1>3, <1>9, <2>1, <2>3
    <3>4. k \in DOMAIN table' /\ table'[k] = r
      BY <1>1, <1>4, <2>1
    <3>5. IsAhead(r)'
      BY <3>3, <3>4 DEF IsAhead
    <3> QED BY <1>7, <1>8, <1>9, <3>1, <3>2, <3>5
  <2> QED BY <2>2, <2>3
<1>17. Summary' = Summary
  BY <1>9 DEF Summary, SameTally
<1>18. bulk'.steady => \A r \in Pushable : atStart'[r] # 0 =>
          r \in Summary' \/ InBatch(r)' \/ (IsAhead(r)' /\ bulk'.more /\ bulk'.at # "ended")
  BY <1>1, <1>9, <1>14, <1>15, <1>16, <1>17
<1>19. /\ bulk'.at \in {"read", "ended"} => bulk'.batch = <<>>
       /\ bulk'.limit \in PushLimits /\ bulk'.at # "read" /\ bulk'.at # "idle"
  BY <1>4, <1>6, <1>7, <1>9
<1> QED BY <1>10, <1>11, <1>12, <1>13, <1>18, <1>19 DEF BulkIInv

\* The next row leaves the batch for the summary, whatever the partner answers.
LEMMA TakeSound ==
  ASSUME BulkIInv, HasNextRow, RowsStay,
         bulk' \in Pushes, bulk'.batch = Tail(bulk.batch), SamePlace(bulk, bulk'),
         bulk'.steady = bulk.steady, Summary' = Summary \cup {NextRow},
         partnerHas' \in [Pushable -> Revisions], SucceededArrived'
  PROVE  BulkIInv'
<1>1. /\ bulk.at = "send" /\ bulk.batch # <<>>
      /\ UNCHANGED <<pushed, table, revision, atStart, touches>>
  BY DEF HasNextRow, RowsStay
<1>2. bulk.batch \in Seq(Batched) /\ Len(bulk.batch) \in Nat /\ DOMAIN bulk.batch = 1..Len(bulk.batch)
  BY BulkFacts, PushFields
<1>3. /\ bulk'.batch \in Seq(Batched) /\ Len(bulk'.batch) = Len(bulk.batch) - 1
      /\ \A i \in 1..Len(bulk'.batch) : bulk'.batch[i] = bulk.batch[i + 1]
  BY <1>1, <1>2, HeadTailProperties
<1>4. DOMAIN bulk'.batch = 1..(Len(bulk.batch) - 1)
  BY <1>3
<1>5. BulkTypeOK'
  BY <1>1 DEF BulkIInv, BulkTypeOK
<1>6. \A r \in Pushable : Grows(r)'
  BY <1>1 DEF BulkIInv, Grows
<1>7. ASSUME NEW k \in DOMAIN bulk'.batch
      PROVE  bulk'.batch[k].revision # 0 /\ bulk'.batch[k].revision >= atStart'[bulk'.batch[k].row]
  <2>1. k + 1 \in DOMAIN bulk.batch /\ bulk'.batch[k] = bulk.batch[k + 1]
    BY <1>2, <1>3, <1>4, <1>7
  <2>2. bulk.batch[k + 1].revision # 0 /\ bulk.batch[k + 1].revision >= atStart[bulk.batch[k + 1].row]
    BY <2>1 DEF BulkIInv
  <2> QED BY <1>1, <2>1, <2>2
<1>8. bulk'.at = "send" /\ bulk'.limit \in PushLimits /\ bulk'.more = bulk.more /\ bulk'.offset = bulk.offset
  BY <1>1 DEF BulkIInv, SamePlace
<1>9. ASSUME NEW r \in Pushable, InBatch(r) PROVE r \in Summary' \/ InBatch(r)'
  <2>1. PICK k \in 1..Len(bulk.batch) : bulk.batch[k].row = r
    BY <1>2, <1>9 DEF InBatch
  <2>2. CASE k = 1
    <3>1. NextRow = r
      BY <2>1, <2>2 DEF NextRow
    <3> QED BY <3>1
  <2>3. CASE k # 1
    <3>1. k - 1 \in DOMAIN bulk'.batch /\ k - 1 \in 1..Len(bulk'.batch) /\ k - 1 + 1 = k
      BY <1>2, <1>3, <1>4, <2>1, <2>3
    <3>2. bulk'.batch[k - 1].row = r
      BY <1>3, <2>1, <3>1
    <3> QED BY <3>1, <3>2 DEF InBatch
  <2> QED BY <2>2, <2>3
<1>10. \A r \in Pushable : IsAhead(r)' <=> IsAhead(r)
  BY <1>1, <1>8 DEF IsAhead
<1>11. bulk.steady => \A r \in Pushable : atStart[r] # 0 =>
          r \in Summary \/ InBatch(r) \/ (IsAhead(r) /\ bulk.more)
  BY <1>1 DEF BulkIInv
<1>12. bulk'.steady => \A r \in Pushable : atStart'[r] # 0 =>
          r \in Summary' \/ InBatch(r)' \/ (IsAhead(r)' /\ bulk'.more /\ bulk'.at # "ended")
  BY <1>1, <1>8, <1>9, <1>10, <1>11
<1> QED BY <1>5, <1>6, <1>7, <1>8, <1>12 DEF BulkIInv

LEMMA NextRowIs ==
  ASSUME BulkIInv, HasNextRow
  PROVE  /\ NextRow \in Pushable /\ Tail(bulk.batch) \in Seq(Batched)
         /\ Head(bulk.batch).revision \in Revisions /\ Head(bulk.batch).revision # 0
         /\ Head(bulk.batch).revision >= atStart[NextRow]
<1>1. /\ bulk.batch # <<>> /\ bulk.batch \in Seq(Batched)
      /\ Len(bulk.batch) \in Nat /\ DOMAIN bulk.batch = 1..Len(bulk.batch)
  BY BulkFacts, PushFields DEF HasNextRow
<1>2. 1 \in DOMAIN bulk.batch /\ Head(bulk.batch) = bulk.batch[1]
  BY <1>1
<1>3. /\ bulk.batch[1].revision \in Revisions /\ bulk.batch[1].row \in Pushable
      /\ bulk.batch[1].revision # 0 /\ bulk.batch[1].revision >= atStart[bulk.batch[1].row]
  BY <1>2, BulkFacts DEF BulkIInv
<1>4. Tail(bulk.batch) \in Seq(Batched)
  BY <1>1, HeadTailProperties
<1> QED BY <1>2, <1>3, <1>4 DEF NextRow

LEMMA CannotMapSound == BulkIInv /\ CannotMap => BulkIInv'
<1> SUFFICES ASSUME BulkIInv, CannotMap PROVE BulkIInv'
  OBVIOUS
<1> DEFINE rest == Tail(bulk.batch)
           row == NextRow
<1>1. HasNextRow /\ RowsStay /\ UNCHANGED partnerHas
  BY DEF CannotMap
<1>2. \/ bulk' = [bulk EXCEPT !.batch = rest, !.skipped = @ \cup {row}]
      \/ bulk' = [bulk EXCEPT !.batch = rest, !.failed = @ \cup {row}]
  BY DEF CannotMap
<1>3. bulk \in Pushes /\ rest \in Seq(Batched) /\ row \in Pushable
  BY <1>1, BulkFacts, NextRowIs
<1> HIDE DEF rest, row
<1>4. /\ bulk' \in Pushes /\ SamePlace(bulk, bulk') /\ bulk'.steady = bulk.steady /\ bulk'.batch = rest
      /\ bulk'.succeeded = bulk.succeeded
      /\ \/ bulk'.failed = bulk.failed /\ bulk'.skipped = bulk.skipped \cup {row}
         \/ bulk'.failed = bulk.failed \cup {row} /\ bulk'.skipped = bulk.skipped
  <2>1. CASE bulk' = [bulk EXCEPT !.batch = rest, !.skipped = @ \cup {row}]
    BY <1>3, <2>1 DEF Pushes, SamePlace
  <2>2. CASE bulk' = [bulk EXCEPT !.batch = rest, !.failed = @ \cup {row}]
    BY <1>3, <2>2 DEF Pushes, SamePlace
  <2> QED BY <1>2, <2>1, <2>2
<1>5. Summary' = Summary \cup {row}
  BY <1>4 DEF Summary
<1>6. partnerHas' \in [Pushable -> Revisions] /\ SucceededArrived'
  BY <1>1, <1>4 DEF BulkIInv, BulkTypeOK, SucceededArrived, RowsStay
<1> QED BY <1>1, <1>4, <1>5, <1>6, TakeSound DEF rest, row

LEMMA PartnerTakesSound == BulkIInv /\ PartnerTakes => BulkIInv'
<1> SUFFICES ASSUME BulkIInv, PartnerTakes PROVE BulkIInv'
  OBVIOUS
<1> DEFINE rest == Tail(bulk.batch)
           row == NextRow
           n == Head(bulk.batch).revision
<1>1. /\ HasNextRow /\ RowsStay /\ partnerHas' = [partnerHas EXCEPT ![row] = n]
      /\ bulk' = [bulk EXCEPT !.batch = rest, !.succeeded = @ \cup {row}]
  BY DEF PartnerTakes
<1>2. /\ bulk \in Pushes /\ rest \in Seq(Batched) /\ row \in Pushable
      /\ n \in Revisions /\ n # 0 /\ n >= atStart[row]
  BY <1>1, BulkFacts, NextRowIs
<1> HIDE DEF rest, row, n
<1>3. /\ bulk' \in Pushes /\ SamePlace(bulk, bulk') /\ bulk'.steady = bulk.steady /\ bulk'.batch = rest
      /\ bulk'.succeeded = bulk.succeeded \cup {row} /\ bulk'.failed = bulk.failed
      /\ bulk'.skipped = bulk.skipped
  BY <1>1, <1>2 DEF Pushes, SamePlace
<1>4. Summary' = Summary \cup {row}
  BY <1>3 DEF Summary
<1>5. /\ partnerHas \in [Pushable -> Revisions] /\ bulk.succeeded \subseteq Pushable
      /\ pushed = "tokens" =>
            \A r \in bulk.succeeded : partnerHas[r] # 0 /\ partnerHas[r] >= atStart[r]
      /\ UNCHANGED <<pushed, atStart>>
  BY <1>1, <1>2, PushFields DEF BulkIInv, BulkTypeOK, SucceededArrived, RowsStay
<1>6. partnerHas' \in [Pushable -> Revisions]
  BY <1>1, <1>2, <1>5
<1>7. SucceededArrived'
  <2> SUFFICES ASSUME pushed = "tokens", NEW r \in bulk.succeeded \cup {row}
               PROVE  partnerHas'[r] # 0 /\ partnerHas'[r] >= atStart[r]
    BY <1>3, <1>5 DEF SucceededArrived
  <2>1. CASE r = row
    BY <1>1, <1>2, <1>5, <2>1
  <2>2. CASE r # row
    BY <1>1, <1>2, <1>5, <2>2
  <2> QED BY <2>1, <2>2
<1> QED BY <1>1, <1>3, <1>4, <1>6, <1>7, TakeSound DEF rest, row

LEMMA PartnerRefusesSound == BulkIInv /\ PartnerRefuses => BulkIInv'
<1> SUFFICES ASSUME BulkIInv, PartnerRefuses PROVE BulkIInv'
  OBVIOUS
<1> DEFINE rest == Tail(bulk.batch)
           row == NextRow
<1>1. HasNextRow /\ RowsStay /\ UNCHANGED partnerHas
  BY DEF PartnerRefuses
<1>2. \/ pushed = "tokens" /\ bulk' = [bulk EXCEPT !.batch = rest, !.failed = @ \cup {row}]
      \/ pushed # "tokens" /\ bulk' = [bulk EXCEPT !.batch = rest, !.succeeded = @ \cup {row}]
  BY DEF PartnerRefuses
<1>3. bulk \in Pushes /\ rest \in Seq(Batched) /\ row \in Pushable
  BY <1>1, BulkFacts, NextRowIs
<1> HIDE DEF rest, row
<1>4. /\ bulk' \in Pushes /\ SamePlace(bulk, bulk') /\ bulk'.steady = bulk.steady /\ bulk'.batch = rest
      /\ bulk'.skipped = bulk.skipped
      /\ \/ pushed = "tokens" /\ bulk'.failed = bulk.failed \cup {row} /\ bulk'.succeeded = bulk.succeeded
         \/ pushed # "tokens" /\ bulk'.failed = bulk.failed /\ bulk'.succeeded = bulk.succeeded \cup {row}
  <2>1. CASE pushed = "tokens" /\ bulk' = [bulk EXCEPT !.batch = rest, !.failed = @ \cup {row}]
    BY <1>3, <2>1 DEF Pushes, SamePlace
  <2>2. CASE pushed # "tokens" /\ bulk' = [bulk EXCEPT !.batch = rest, !.succeeded = @ \cup {row}]
    BY <1>3, <2>2 DEF Pushes, SamePlace
  <2> QED BY <1>2, <2>1, <2>2
<1>5. Summary' = Summary \cup {row}
  BY <1>4 DEF Summary
<1>6. partnerHas' \in [Pushable -> Revisions] /\ SucceededArrived'
  BY <1>1, <1>4 DEF BulkIInv, BulkTypeOK, SucceededArrived, RowsStay
<1> QED BY <1>1, <1>4, <1>5, <1>6, TakeSound DEF rest, row

LEMMA PushThrowsSound == BulkIInv /\ PushThrows => BulkIInv'
<1> SUFFICES ASSUME BulkIInv, PushThrows PROVE BulkIInv'
  OBVIOUS
<1> DEFINE rest == Tail(bulk.batch)
           row == NextRow
           n == Head(bulk.batch).revision
<1>1. /\ HasNextRow /\ RowsStay
      /\ partnerHas' = partnerHas \/ partnerHas' = [partnerHas EXCEPT ![row] = n]
      /\ bulk' = [bulk EXCEPT !.batch = rest, !.failed = @ \cup {row}]
  BY DEF PushThrows
<1>2. /\ bulk \in Pushes /\ rest \in Seq(Batched) /\ row \in Pushable
      /\ n \in Revisions /\ n # 0 /\ n >= atStart[row]
  BY <1>1, BulkFacts, NextRowIs
<1> HIDE DEF rest, row, n
<1>3. /\ bulk' \in Pushes /\ SamePlace(bulk, bulk') /\ bulk'.steady = bulk.steady /\ bulk'.batch = rest
      /\ bulk'.succeeded = bulk.succeeded /\ bulk'.failed = bulk.failed \cup {row}
      /\ bulk'.skipped = bulk.skipped
  BY <1>1, <1>2 DEF Pushes, SamePlace
<1>4. Summary' = Summary \cup {row}
  BY <1>3 DEF Summary
<1>5. /\ partnerHas \in [Pushable -> Revisions] /\ bulk.succeeded \subseteq Pushable
      /\ pushed = "tokens" =>
            \A r \in bulk.succeeded : partnerHas[r] # 0 /\ partnerHas[r] >= atStart[r]
      /\ UNCHANGED <<pushed, atStart>>
  BY <1>1, <1>2, PushFields DEF BulkIInv, BulkTypeOK, SucceededArrived, RowsStay
<1>6. partnerHas' \in [Pushable -> Revisions]
  BY <1>1, <1>2, <1>5
<1>7. SucceededArrived'
  <2> SUFFICES ASSUME pushed = "tokens", NEW r \in bulk.succeeded
               PROVE  partnerHas'[r] # 0 /\ partnerHas'[r] >= atStart[r]
    BY <1>3, <1>5 DEF SucceededArrived
  <2>1. CASE partnerHas' = partnerHas
    BY <1>5, <2>1
  <2>2. CASE partnerHas' # partnerHas /\ r = row
    BY <1>1, <1>2, <1>5, <2>2
  <2>3. CASE partnerHas' # partnerHas /\ r # row
    BY <1>1, <1>2, <1>5, <2>3
  <2> QED BY <2>1, <2>2, <2>3
<1> QED BY <1>1, <1>3, <1>4, <1>6, <1>7, TakeSound DEF rest, row

LEMMA BatchDoneSound == BulkIInv /\ BatchDone => BulkIInv'
<1> SUFFICES ASSUME BulkIInv, BatchDone PROVE BulkIInv'
  OBVIOUS
<1> DEFINE at == IF bulk.more THEN "read" ELSE "ended"
<1>1. /\ bulk.at = "send" /\ bulk.batch = <<>> /\ bulk' = [bulk EXCEPT !.at = at]
      /\ UNCHANGED <<pushed, table, revision, partnerHas, atStart, touches>>
  BY DEF BatchDone, RowsStay
<1>2. bulk \in Pushes /\ at \in {"read", "ended"} /\ (at = "read" <=> bulk.more)
  BY BulkFacts, PushFields
<1> HIDE DEF at
<1>3. /\ bulk' \in Pushes /\ bulk'.at = at /\ bulk'.limit = bulk.limit /\ bulk'.offset = bulk.offset
      /\ bulk'.batch = bulk.batch /\ bulk'.more = bulk.more /\ bulk'.steady = bulk.steady
      /\ SameTally(bulk, bulk')
  BY <1>1, <1>2, PushMoves
<1>4. BulkTypeOK'
  BY <1>1, <1>3 DEF BulkIInv, BulkTypeOK
<1>5. \A r \in Pushable : Grows(r)'
  BY <1>1 DEF BulkIInv, Grows
<1>6. SucceededArrived'
  BY <1>1, <1>3 DEF BulkIInv, SucceededArrived, SameTally
<1>7. /\ bulk'.batch = <<>> /\ bulk'.limit \in PushLimits /\ bulk'.at # "idle"
      /\ bulk'.at = "read" => bulk'.more
  BY <1>1, <1>2, <1>3 DEF BulkIInv
<1>8. bulk.steady => \A r \in Pushable : atStart[r] # 0 =>
          r \in Summary \/ InBatch(r) \/ (IsAhead(r) /\ bulk.more)
  BY <1>1 DEF BulkIInv
<1>9. \A r \in Pushable : ~InBatch(r)
  BY <1>1 DEF InBatch
<1>10. Summary' = Summary /\ \A r \in Pushable : IsAhead(r)' <=> IsAhead(r)
  BY <1>1, <1>3 DEF Summary, IsAhead, SameTally
<1>11. bulk'.steady => \A r \in Pushable : atStart'[r] # 0 =>
          r \in Summary' \/ (IsAhead(r)' /\ bulk'.more /\ bulk'.at # "ended")
  BY <1>1, <1>2, <1>3, <1>8, <1>9, <1>10
<1>12. DOMAIN bulk'.batch = {}
  BY <1>7
<1> QED BY <1>4, <1>5, <1>6, <1>7, <1>11, <1>12 DEF BulkIInv

LEMMA BulkStepSound == BulkIInv /\ [BulkNext]_bulkVars => BulkIInv'
<1> SUFFICES ASSUME BulkIInv, [BulkNext]_bulkVars PROVE BulkIInv'
  OBVIOUS
<1>1. CASE UNCHANGED bulkVars
  BY <1>1 DEF bulkVars, BulkIInv, BulkTypeOK, Grows, Summary, InBatch, IsAhead, SucceededArrived
<1>2. CASE ReadBatch
  BY <1>2, ReadBatchSound
<1>3. CASE CannotMap \/ PartnerTakes \/ PartnerRefuses \/ PushThrows
  BY <1>3, CannotMapSound, PartnerTakesSound, PartnerRefusesSound, PushThrowsSound
<1>4. CASE BatchDone
  BY <1>4, BatchDoneSound
<1>5. CASE \E limit \in PushLimits : StartPush(limit)
  BY <1>5, StartPushSound
<1>6. CASE \E r \in Pushable : PushableAppears(r) \/ PushableChanges(r)
  BY <1>6, PushableRowsSound
<1>7. CASE \E k \in DOMAIN table : PushableGoes(k)
  BY <1>7, PushableGoesSound
<1> QED BY <1>1, <1>2, <1>3, <1>4, <1>5, <1>6, <1>7 DEF BulkNext

LEMMA FrontIs ==
  ASSUME NEW S, NEW s \in Seq(S), IsInjective(s)
  PROVE  Front(s) \in Seq(S) /\ IsInjective(Front(s))
<1>1. Len(s) \in Nat /\ DOMAIN s = 1..Len(s) /\ \A i \in 1..Len(s) : s[i] \in S
  OBVIOUS
<1>2. \A i \in 1..(Len(s) - 1) : s[i] \in S
  BY <1>1
<1>3. 1 \in Int /\ Len(s) - 1 \in Int
  BY <1>1
<1> DEFINE f == SubSeq(s, 1, Len(s) - 1)
<1>4. /\ f \in Seq(S)
      /\ Len(f) = IF 1 <= Len(s) - 1 THEN Len(s) - 1 - 1 + 1 ELSE 0
      /\ \A i \in 1..(Len(s) - 1 - 1 + 1) : f[i] = s[1 + i - 1]
  BY <1>2, <1>3, SubSeqProperties
<1> HIDE DEF f
<1>5. \A i \in 1..Len(f) : i \in 1..Len(s) /\ i \in 1..(Len(s) - 1 - 1 + 1) /\ 1 + i - 1 = i
  <2>1. Len(s) \in Nat
    BY <1>1
  <2>2. Len(f) = IF 1 <= Len(s) - 1 THEN Len(s) - 1 - 1 + 1 ELSE 0
    BY <1>4
  <2>3. Len(f) \in Nat /\ Len(f) <= Len(s) /\ (Len(f) = 0 \/ Len(f) = Len(s) - 1)
    BY <2>1, <2>2
  <2> QED BY <2>1, <2>3
<1>6. \A i \in 1..Len(f) : i \in DOMAIN s /\ f[i] = s[i]
  BY <1>1, <1>4, <1>5
<1>7. DOMAIN f = 1..Len(f)
  BY <1>4
<1>8. IsInjective(f)
  BY <1>6, <1>7 DEF IsInjective
<1> QED BY <1>4, <1>8 DEF Front, f

LEMMA BulkInitSound == BulkInit => BulkIInv
<1> SUFFICES ASSUME BulkInit PROVE BulkIInv
  OBVIOUS
<1>1. /\ pushed \in Pushed /\ partnerHas \in {revision, [r \in Pushable |-> 0]} /\ bulk = NoPush
      /\ revision = [r \in Pushable |-> IF r \in Range(table) THEN 1 ELSE 0]
      /\ atStart = [r \in Pushable |-> 0] /\ touches = 0 /\ MaxTouches \in Nat
  BY BulkAssumption DEF BulkInit
<1>2. \A s \in SetToSeqs(Pushable) : s \in Seq(Pushable) /\ IsInjective(s)
  <2> SUFFICES ASSUME NEW s \in SetToSeqs(Pushable) PROVE s \in Seq(Pushable) /\ IsInjective(s)
    OBVIOUS
  <2> DEFINE D == 1..Cardinality(Pushable)
  <2>0. s \in [D -> Pushable] /\ \A i, j \in D : i # j => s[i] # s[j]
    BY DEF SetToSeqs
  <2> HIDE DEF D
  <2>1. s \in [D -> Pushable] /\ IsInjective(s)
    BY <2>0 DEF IsInjective
  <2>2. Cardinality(Pushable) \in Nat
    BY BulkAssumption, FS_CardinalityType
  <2> QED BY <2>1, <2>2 DEF D
<1>3. table \in Seq(Pushable) /\ IsInjective(table)
  BY <1>2, FrontIs DEF BulkInit
<1>4. 0 \in Revisions /\ 1 \in Revisions /\ 0 \in Nat
  BY <1>1 DEF Revisions
<1>5. /\ revision \in [Pushable -> Revisions] /\ partnerHas \in [Pushable -> Revisions]
      /\ atStart \in [Pushable -> Revisions] /\ touches \in 0..MaxTouches
  BY <1>1, <1>4
<1>6. <<>> \in Seq(Batched)
  OBVIOUS
<1>7. bulk \in Pushes /\ bulk.at = "idle" /\ bulk.batch = <<>> /\ bulk.succeeded = {}
  BY <1>1, <1>6 DEF NoPush, Pushes
<1>8. bulk = [NoPush EXCEPT !.steady = bulk.steady]
  BY <1>1 DEF NoPush
<1>9. \A r \in Pushable : Grows(r)
  BY <1>1 DEF Grows
<1>10. DOMAIN bulk.batch = {} /\ SucceededArrived
  BY <1>7 DEF SucceededArrived
<1>11. BulkTypeOK
  BY <1>1, <1>3, <1>5, <1>7 DEF BulkTypeOK
<1>12. \A r \in Pushable : atStart[r] = 0
  BY <1>1
<1> QED BY <1>7, <1>8, <1>9, <1>10, <1>11, <1>12 DEF BulkIInv

\* A push that ends has nothing ahead and nothing in its batch.
LEMMA BulkCovers == BulkIInv => SummaryCovers /\ SucceededArrived
<1> SUFFICES ASSUME BulkIInv PROVE SummaryCovers /\ SucceededArrived
  OBVIOUS
<1>1. ASSUME bulk.at = "ended", bulk.steady, NEW r \in Pushable, atStart[r] # 0 PROVE r \in Summary
  <2>1. r \in Summary \/ InBatch(r)
    BY <1>1 DEF BulkIInv
  <2>2. bulk.batch = <<>>
    BY <1>1 DEF BulkIInv
  <2>3. ~InBatch(r)
    BY <2>2 DEF InBatch
  <2> QED BY <2>1, <2>3
<1> QED BY <1>1 DEF SummaryCovers, Summary, BulkIInv
-----------------------------------------------------------------------------
(* The lists a partner pages through *)

\* Of two finite sets one of which holds at most one element more than the other.
LEMMA OneMore ==
  ASSUME NEW S, IsFiniteSet(S), NEW T, NEW x, T \subseteq S \cup {x}
  PROVE  /\ IsFiniteSet(T) /\ Cardinality(T) \in Nat /\ Cardinality(S) \in Nat
         /\ Cardinality(T) <= Cardinality(S) + 1
<1>1. /\ IsFiniteSet(S \cup {x})
      /\ Cardinality(S \cup {x}) = IF x \in S THEN Cardinality(S) ELSE Cardinality(S) + 1
  BY FS_AddElement
<1>2. IsFiniteSet(T) /\ Cardinality(T) <= Cardinality(S \cup {x})
  BY <1>1, FS_Subset
<1>3. Cardinality(S) \in Nat /\ Cardinality(T) \in Nat
  BY <1>2, FS_CardinalityType
<1> QED BY <1>1, <1>2, <1>3

LEMMA NoMore ==
  ASSUME NEW S, IsFiniteSet(S), NEW T, T \subseteq S
  PROVE  /\ IsFiniteSet(T) /\ Cardinality(T) \in Nat /\ Cardinality(S) \in Nat
         /\ Cardinality(T) <= Cardinality(S)
<1>1. IsFiniteSet(T) /\ Cardinality(T) <= Cardinality(S)
  BY FS_Subset
<1> QED BY <1>1, FS_CardinalityType

LEMMA ListingFacts ==
  ASSUME ListingsTypeOK
  PROVE  /\ entries \in Seq(Rows) /\ IsInjective(entries) /\ Len(entries) \in Nat
         /\ DOMAIN entries = 1..Len(entries) /\ \A k \in 1..Len(entries) : entries[k] \in Rows
         /\ \A j, k \in 1..Len(entries) : entries[j] = entries[k] => j = k
         /\ Range(entries) = {entries[k] : k \in 1..Len(entries)}
         /\ reader.at \in {"ask", "end"} /\ reader.limit \in Limits /\ reader.limit \in Nat
         /\ reader.offset \in Nat /\ reader.got \subseteq Rows /\ reader.again \in Nat
         /\ entered \in Nat /\ left \in Nat /\ MaxMoves \in Nat
         /\ IsFiniteSet(Rows) /\ Missed \subseteq Rows /\ Behind \subseteq Rows /\ AheadOf \subseteq Rows
         /\ Page \subseteq Rows
<1>1. /\ entries \in Seq(Rows) /\ IsInjective(entries) /\ entered \in Nat /\ left \in Nat
      /\ reader \in Readers /\ stayed \subseteq Range(entries)
  BY DEF ListingsTypeOK
<1>2. Len(entries) \in Nat /\ DOMAIN entries = 1..Len(entries) /\ \A k \in 1..Len(entries) : entries[k] \in Rows
  BY <1>1
<1>3. \A j, k \in 1..Len(entries) : entries[j] = entries[k] => j = k
  BY <1>1, <1>2 DEF IsInjective
<1>4. Range(entries) = {entries[k] : k \in 1..Len(entries)}
  BY <1>2 DEF Range
<1>5. /\ reader.at \in {"ask", "end"} /\ reader.limit \in Limits
      /\ reader.offset \in Nat /\ reader.got \subseteq Rows /\ reader.again \in Nat
  BY <1>1 DEF Readers
<1>6. \A n \in Limits : n \in Nat
  BY ListingsAssumption
<1>7. MaxMoves \in Nat /\ IsFiniteSet(Rows)
  BY ListingsAssumption
<1>8. Missed \subseteq Rows
  BY <1>1, <1>2, <1>4 DEF Missed
<1>9. Behind \subseteq Rows /\ AheadOf \subseteq Rows
  BY <1>2 DEF Behind, AheadOf
<1>10. Page \subseteq Rows
  BY <1>2 DEF Page, Selected
<1> QED BY <1>1, <1>2, <1>3, <1>4, <1>5, <1>6, <1>7, <1>8, <1>9, <1>10

LEMMA EntersSound ==
  ASSUME ListingsIInv, NEW r \in Rows, NEW i \in 1..Len(entries) + 1, Enters(r, i)
  PROVE  ListingsIInv'
<1>1. /\ r \notin Range(entries) /\ entered + left < MaxMoves /\ entered' = entered + 1
      /\ entries' = InsertAt(entries, i, r)
      /\ interface' = interface /\ unmapped' = unmapped /\ reader' = reader /\ stayed' = stayed /\ left' = left
  BY DEF Enters
<1>2. ListingsTypeOK
  BY DEF ListingsIInv
<1>3. /\ entries \in Seq(Rows) /\ IsInjective(entries) /\ Len(entries) \in Nat
      /\ DOMAIN entries = 1..Len(entries)
      /\ Range(entries) = {entries[k] : k \in 1..Len(entries)}
      /\ entered \in Nat /\ left \in Nat /\ MaxMoves \in Nat
      /\ reader.offset \in Nat /\ reader.again \in Nat /\ i \in 1..(Len(entries) + 1)
  BY <1>2, ListingFacts
<1>4. /\ entries' \in Seq(Rows) /\ Len(entries') = Len(entries) + 1
      /\ \A k \in 1..(Len(entries) + 1) :
            entries'[k] = IF k < i THEN entries[k] ELSE IF k = i THEN r ELSE entries[k - 1]
  <2>1. entries \in Seq(Rows) /\ i \in 1..(Len(entries) + 1) /\ r \in Rows
    BY <1>3
  <2>2. InsertAt(entries, i, r) \in Seq(Rows)
    BY <2>1, InsertIs
  <2>3. Len(InsertAt(entries, i, r)) = Len(entries) + 1
    BY <2>1, InsertIs
  <2>4. ASSUME NEW k \in 1..(Len(entries) + 1)
        PROVE  InsertAt(entries, i, r)[k] =
                  IF k < i THEN entries[k] ELSE IF k = i THEN r ELSE entries[k - 1]
    <3> DEFINE t == InsertAt(entries, i, r)
    <3>1. \A j \in 1..(Len(entries) + 1) :
             t[j] = IF j < i THEN entries[j] ELSE IF j = i THEN r ELSE entries[j - 1]
      BY <2>1, InsertIs
    <3> HIDE DEF t
    <3> QED BY <3>1 DEF t
  <2> QED BY <1>1, <2>2, <2>3, <2>4
<1>5. IsInjective(entries)' /\ Range(entries)' = Range(entries) \cup {r}
  BY <1>1, <1>3, InsertInjective
<1>6. DOMAIN entries' = 1..(Len(entries) + 1)
  BY <1>3, <1>4
<1>7. entered' \in Nat /\ entered' + left' <= MaxMoves
  BY <1>1, <1>3
<1>8. ListingsTypeOK'
  BY <1>1, <1>2, <1>4, <1>5, <1>7 DEF ListingsTypeOK
<1>9. Missed' = Missed
  BY <1>1 DEF Missed
<1>10. r \notin Missed
  BY <1>1, <1>2 DEF ListingsTypeOK, Missed
<1>11. Behind' \subseteq Behind \cup {r}
  <2> SUFFICES ASSUME NEW k \in 1..(Len(entries) + 1), k \in 1..reader.offset
               PROVE  entries'[k] \in Behind \cup {r}
    BY <1>1, <1>6 DEF Behind
  <2>1. CASE k < i
    <3>1. k \in DOMAIN entries \cap 1..reader.offset /\ entries'[k] = entries[k]
      BY <1>3, <1>4, <2>1
    <3> QED BY <3>1 DEF Behind
  <2>2. CASE k = i
    BY <1>4, <2>2
  <2>3. CASE k > i
    <3>1. k - 1 \in DOMAIN entries \cap 1..reader.offset /\ entries'[k] = entries[k - 1]
      BY <1>3, <1>4, <2>3
    <3> QED BY <3>1 DEF Behind
  <2> QED BY <1>3, <2>1, <2>2, <2>3
<1>12. PICK x : AheadOf' \subseteq AheadOf \cup {x}
  <2> DEFINE x == IF i > reader.offset THEN r ELSE entries[reader.offset]
  <2>1. ASSUME NEW k \in 1..(Len(entries) + 1), k \notin 1..reader.offset
        PROVE  entries'[k] \in AheadOf \cup {x}
    <3>1. k > reader.offset
      BY <1>3, <2>1
    <3>2. CASE k < i
      <4>1. k \in DOMAIN entries \ 1..reader.offset /\ entries'[k] = entries[k]
        BY <1>3, <1>4, <2>1, <3>2
      <4> QED BY <4>1 DEF AheadOf
    <3>3. CASE k = i
      BY <1>4, <3>1, <3>3
    <3>4. CASE k > i /\ k - 1 > reader.offset
      <4>1. k - 1 \in DOMAIN entries \ 1..reader.offset /\ entries'[k] = entries[k - 1]
        BY <1>3, <1>4, <3>4
      <4> QED BY <4>1 DEF AheadOf
    <3>5. CASE k > i /\ ~(k - 1 > reader.offset)
      <4>1. k - 1 = reader.offset /\ ~(i > reader.offset) /\ entries'[k] = entries[k - 1]
        BY <1>3, <1>4, <3>1, <3>5
      <4> QED BY <4>1
    <3> QED BY <1>3, <3>2, <3>3, <3>4, <3>5
  <2> HIDE DEF x
  <2>2. AheadOf' \subseteq AheadOf \cup {x}
    BY <1>1, <1>6, <2>1 DEF AheadOf
  <2> QED BY <2>2
<1>13. /\ IsFiniteSet(AheadOf \cap reader.got) /\ Missed' \cap Behind' \subseteq Missed \cap Behind
       /\ AheadOf' \cap reader.got \subseteq (AheadOf \cap reader.got) \cup {x}
       /\ IsFiniteSet(Missed \cap Behind)
  <2>1. IsFiniteSet(Rows) /\ AheadOf \cap reader.got \subseteq Rows /\ Missed \cap Behind \subseteq Rows
    BY <1>2, ListingFacts
  <2> QED BY <1>9, <1>10, <1>11, <1>12, <2>1, NoMore
<1>14. /\ Cardinality(AheadOf' \cap reader.got) \in Nat /\ Cardinality(AheadOf \cap reader.got) \in Nat
       /\ Cardinality(AheadOf' \cap reader.got) <= Cardinality(AheadOf \cap reader.got) + 1
  BY <1>13, OneMore
<1>15. /\ Cardinality(Missed' \cap Behind') \in Nat /\ Cardinality(Missed \cap Behind) \in Nat
       /\ Cardinality(Missed' \cap Behind') <= Cardinality(Missed \cap Behind)
  BY <1>13, NoMore
<1>16. ASSUME interface \in {"locations", "cdrs"}
       PROVE  /\ reader'.again <= entered' /\ (reader'.at = "end" => Cardinality(Missed') <= left')
              /\ reader'.at = "ask" => /\ Cardinality(Missed' \cap Behind') <= left'
                                       /\ reader'.again + Cardinality(AheadOf' \cap reader'.got) <= entered'
  <2>1. /\ reader.again <= entered /\ (reader.at = "end" => Cardinality(Missed) <= left)
        /\ reader.at = "ask" => /\ Cardinality(Missed \cap Behind) <= left
                                /\ reader.again + Cardinality(AheadOf \cap reader.got) <= entered
    BY <1>16 DEF ListingsIInv
  <2>2. reader.again <= entered + 1
    BY <1>3, <2>1
  <2>3. reader.at = "ask" => /\ Cardinality(Missed' \cap Behind') <= left
                             /\ reader.again + Cardinality(AheadOf' \cap reader.got) <= entered + 1
    BY SMTT(30), <1>3, <1>14, <1>15, <2>1
  <2> QED BY <1>1, <1>9, <2>1, <2>2, <2>3
<1> QED BY <1>1, <1>8, <1>16 DEF ListingsIInv

LEMMA LeavesSound ==
  ASSUME ListingsIInv, NEW i \in DOMAIN entries, Leaves(i)
  PROVE  ListingsIInv'
<1>1. /\ entered + left < MaxMoves /\ left' = left + 1 /\ stayed' = stayed \ {entries[i]}
      /\ entries' = RemoveAt(entries, i)
      /\ interface' = interface /\ unmapped' = unmapped /\ reader' = reader /\ entered' = entered
  BY DEF Leaves
<1>2. ListingsTypeOK
  BY DEF ListingsIInv
<1>3. /\ entries \in Seq(Rows) /\ IsInjective(entries) /\ Len(entries) \in Nat
      /\ DOMAIN entries = 1..Len(entries) /\ i \in 1..Len(entries)
      /\ entered \in Nat /\ left \in Nat /\ MaxMoves \in Nat
      /\ reader.offset \in Nat /\ reader.again \in Nat
  BY <1>2, ListingFacts
<1>4. /\ entries' \in Seq(Rows) /\ Len(entries') = Len(entries) - 1
      /\ \A k \in 1..(Len(entries) - 1) : entries'[k] = IF k < i THEN entries[k] ELSE entries[k + 1]
  BY <1>1, <1>3, RemoveIs
<1>5. IsInjective(entries)' /\ Range(entries)' = Range(entries) \ {entries[i]}
  BY <1>1, <1>3, RemoveInjective
<1>6. DOMAIN entries' = 1..(Len(entries) - 1)
  BY <1>3, <1>4
<1>7. left' \in Nat /\ entered' + left' <= MaxMoves
  BY <1>1, <1>3
<1>8. stayed' \subseteq Range(entries)'
  BY <1>1, <1>2, <1>5 DEF ListingsTypeOK
<1>9. ListingsTypeOK'
  BY <1>1, <1>2, <1>4, <1>5, <1>7, <1>8 DEF ListingsTypeOK
<1>10. Missed' \subseteq Missed
  BY <1>1 DEF Missed
<1>11. PICK y : Behind' \subseteq Behind \cup {y}
  <2> DEFINE y == entries[reader.offset + 1]
  <2>1. ASSUME NEW k \in 1..(Len(entries) - 1), k \in 1..reader.offset
        PROVE  entries'[k] \in Behind \cup {y}
    <3>1. CASE k < i
      <4>1. k \in DOMAIN entries \cap 1..reader.offset /\ entries'[k] = entries[k]
        BY <1>3, <1>4, <2>1, <3>1
      <4> QED BY <4>1 DEF Behind
    <3>2. CASE ~(k < i) /\ k < reader.offset
      <4>1. k + 1 \in DOMAIN entries \cap 1..reader.offset /\ entries'[k] = entries[k + 1]
        BY SMTT(30), <1>3, <1>4, <2>1, <3>2
      <4> QED BY <4>1 DEF Behind
    <3>3. CASE ~(k < i) /\ k = reader.offset
      BY <1>4, <3>3
    <3> QED BY <1>3, <2>1, <3>1, <3>2, <3>3
  <2> HIDE DEF y
  <2>2. Behind' \subseteq Behind \cup {y}
    BY <1>1, <1>6, <2>1 DEF Behind
  <2> QED BY <2>2
<1>12. AheadOf' \subseteq AheadOf
  <2> SUFFICES ASSUME NEW k \in 1..(Len(entries) - 1), k \notin 1..reader.offset
               PROVE  entries'[k] \in AheadOf
    BY <1>1, <1>6 DEF AheadOf
  <2>1. CASE k < i
    <3>1. k \in DOMAIN entries \ 1..reader.offset /\ entries'[k] = entries[k]
      BY <1>3, <1>4, <2>1
    <3> QED BY <3>1 DEF AheadOf
  <2>2. CASE ~(k < i)
    <3>1. k + 1 \in DOMAIN entries \ 1..reader.offset /\ entries'[k] = entries[k + 1]
      BY <1>3, <1>4, <2>2
    <3> QED BY <3>1 DEF AheadOf
  <2> QED BY <2>1, <2>2
<1>13. /\ IsFiniteSet(AheadOf \cap reader.got) /\ IsFiniteSet(Missed \cap Behind) /\ IsFiniteSet(Missed)
       /\ Missed' \cap Behind' \subseteq (Missed \cap Behind) \cup {y}
       /\ AheadOf' \cap reader.got \subseteq AheadOf \cap reader.got
  <2>1. /\ IsFiniteSet(Rows) /\ AheadOf \cap reader.got \subseteq Rows /\ Missed \cap Behind \subseteq Rows
        /\ Missed \subseteq Rows
    BY <1>2, ListingFacts
  <2> QED BY <1>10, <1>11, <1>12, <2>1, NoMore
<1>14. /\ Cardinality(AheadOf' \cap reader.got) \in Nat /\ Cardinality(AheadOf \cap reader.got) \in Nat
       /\ Cardinality(AheadOf' \cap reader.got) <= Cardinality(AheadOf \cap reader.got)
  BY <1>13, NoMore
<1>15. /\ Cardinality(Missed' \cap Behind') \in Nat /\ Cardinality(Missed \cap Behind) \in Nat
       /\ Cardinality(Missed' \cap Behind') <= Cardinality(Missed \cap Behind) + 1
  BY <1>13, OneMore
<1>16. Cardinality(Missed') \in Nat /\ Cardinality(Missed) \in Nat /\ Cardinality(Missed') <= Cardinality(Missed)
  BY <1>10, <1>13, NoMore
<1>17. ASSUME interface \in {"locations", "cdrs"}
       PROVE  /\ reader'.again <= entered' /\ (reader'.at = "end" => Cardinality(Missed') <= left')
              /\ reader'.at = "ask" => /\ Cardinality(Missed' \cap Behind') <= left'
                                       /\ reader'.again + Cardinality(AheadOf' \cap reader'.got) <= entered'
  <2>1. /\ reader.again <= entered /\ (reader.at = "end" => Cardinality(Missed) <= left)
        /\ reader.at = "ask" => /\ Cardinality(Missed \cap Behind) <= left
                                /\ reader.again + Cardinality(AheadOf \cap reader.got) <= entered
    BY <1>17 DEF ListingsIInv
  <2>2. reader.at = "end" => Cardinality(Missed') <= left + 1
    BY <1>3, <1>16, <2>1
  <2>3. reader.at = "ask" => /\ Cardinality(Missed' \cap Behind') <= left + 1
                             /\ reader.again + Cardinality(AheadOf' \cap reader.got) <= entered
    BY SMTT(30), <1>3, <1>14, <1>15, <2>1
  <2> QED BY <1>1, <2>1, <2>2, <2>3
<1> QED BY <1>1, <1>9, <1>17 DEF ListingsIInv

LEMMA GetPageSound ==
  ASSUME ListingsIInv, GetPage
  PROVE  ListingsIInv'
<1> DEFINE next == IF Link = {} THEN reader.offset ELSE CHOOSE n \in Link : TRUE
           at == IF Link = {} THEN "end" ELSE "ask"
           twice == Cardinality(Page \cap reader.got)
<1>1. /\ reader.at = "ask"
      /\ reader' = [reader EXCEPT !.got = @ \cup Page, !.again = @ + twice, !.at = at, !.offset = next]
      /\ interface' = interface /\ entries' = entries /\ unmapped' = unmapped /\ stayed' = stayed
      /\ entered' = entered /\ left' = left
  BY DEF GetPage
<1>2. ListingsTypeOK
  BY DEF ListingsIInv
<1>3. /\ Len(entries) \in Nat /\ DOMAIN entries = 1..Len(entries)
      /\ \A j, k \in 1..Len(entries) : entries[j] = entries[k] => j = k
      /\ Range(entries) = {entries[k] : k \in 1..Len(entries)}
      /\ reader.limit \in Nat /\ reader.offset \in Nat /\ reader.again \in Nat
      /\ reader.got \subseteq Rows /\ entered \in Nat /\ left \in Nat /\ IsFiniteSet(Rows)
      /\ Missed \subseteq Rows /\ Behind \subseteq Rows /\ AheadOf \subseteq Rows /\ Page \subseteq Rows
  BY <1>2, ListingFacts
<1>4. IsFiniteSet(Page \cap reader.got) /\ twice \in Nat
  <2>1. Page \cap reader.got \subseteq Rows
    BY <1>3
  <2> QED BY <1>3, <2>1, NoMore
<1>5. /\ Link = {} => next = reader.offset /\ at = "end"
      /\ Link # {} => /\ next = reader.offset + reader.limit /\ at = "ask"
                      /\ reader.offset + reader.limit < Total
  BY DEF Link
<1>6. next \in Nat /\ at \in {"ask", "end"} /\ (at = "end" <=> Link = {})
  <2>1. CASE Link = {}
    BY <1>3, <1>5, <2>1
  <2>2. CASE Link # {}
    BY <1>3, <1>5, <2>2
  <2> QED BY <2>1, <2>2
<1>7. interface \in {"locations", "cdrs"} => (Link = {} <=> ~(reader.offset + reader.limit < Len(entries)))
  BY DEF Link, Total
<1> HIDE DEF next, at
<1>8. reader \in Readers
  BY <1>2 DEF ListingsTypeOK
<1>9. /\ reader' \in Readers /\ reader'.at = at /\ reader'.limit = reader.limit /\ reader'.offset = next
      /\ reader'.got = reader.got \cup Page /\ reader'.again = reader.again + twice
  <2> DEFINE again == reader.again + twice
             got == reader.got \cup Page
  <2>1. again \in Nat /\ got \subseteq Rows
    BY <1>3, <1>4
  <2>2. reader' = [reader EXCEPT !.got = got, !.again = again, !.at = at, !.offset = next]
    BY <1>1
  <2> HIDE DEF again, got
  <2>3. /\ reader' \in Readers /\ reader'.at = at /\ reader'.limit = reader.limit /\ reader'.offset = next
        /\ reader'.got = got /\ reader'.again = again
    BY <1>6, <1>8, <2>1, <2>2 DEF Readers
  <2> QED BY <2>3 DEF again, got
<1>10. ListingsTypeOK'
  BY <1>1, <1>2, <1>9 DEF ListingsTypeOK, Page
<1>11. Missed' = Missed \ Page
  BY <1>1, <1>9 DEF Missed
<1>12. ASSUME interface \in {"locations", "cdrs"} PROVE Page = Selected /\ unmapped = {}
  BY <1>12 DEF ListingsIInv, Page
<1>13. /\ Selected \subseteq AheadOf
       /\ \A x \in Missed : x \in Behind \/ x \in AheadOf
  <2>1. ASSUME NEW k \in DOMAIN entries, k \in (reader.offset + 1)..(reader.offset + reader.limit)
        PROVE  entries[k] \in AheadOf
    <3>1. k \notin 1..reader.offset
      BY <1>3, <2>1
    <3> QED BY <3>1 DEF AheadOf
  <2>2. ASSUME NEW x \in Missed PROVE x \in Behind \/ x \in AheadOf
    <3>1. x \in Range(entries)
      BY <1>2 DEF ListingsTypeOK, Missed
    <3>2. PICK k \in DOMAIN entries : entries[k] = x
      BY <1>3, <3>1
    <3> QED BY <3>2 DEF Behind, AheadOf
  <2> QED BY <2>1, <2>2 DEF Selected
<1>14. ASSUME ~(reader.offset + reader.limit < Len(entries)) PROVE AheadOf \subseteq Selected
  <2> SUFFICES ASSUME NEW k \in DOMAIN entries \ 1..reader.offset PROVE entries[k] \in Selected
    BY DEF AheadOf
  <2>1. k \in (reader.offset + 1)..(reader.offset + reader.limit)
    BY <1>3, <1>14
  <2> QED BY <2>1 DEF Selected
<1>15. ASSUME next = reader.offset + reader.limit
       PROVE  /\ Behind' \subseteq Behind \cup Selected /\ AheadOf' \subseteq AheadOf
              /\ AheadOf' \cap Selected = {}
  <2>1. ASSUME NEW k \in DOMAIN entries, k \in 1..next PROVE entries[k] \in Behind \cup Selected
    <3>1. k \in 1..reader.offset \/ k \in (reader.offset + 1)..(reader.offset + reader.limit)
      BY <1>3, <1>15, <2>1
    <3> QED BY <3>1 DEF Behind, Selected
  <2>2. ASSUME NEW k \in DOMAIN entries, k \notin 1..next PROVE entries[k] \in AheadOf
    <3>1. k \notin 1..reader.offset
      BY <1>3, <1>15, <2>2
    <3> QED BY <3>1 DEF AheadOf
  <2>3. ASSUME NEW k \in DOMAIN entries, k \notin 1..next PROVE entries[k] \notin Selected
    <3>1. k \notin (reader.offset + 1)..(reader.offset + reader.limit)
      BY <1>3, <1>15, <2>3
    <3> QED BY <1>3, <3>1 DEF Selected
  <2>4. Behind' = {entries[k] : k \in DOMAIN entries \cap 1..next}
    BY <1>1, <1>9 DEF Behind
  <2>5. AheadOf' = {entries[k] : k \in DOMAIN entries \ 1..next}
    BY <1>1, <1>9 DEF AheadOf
  <2> QED BY <2>1, <2>2, <2>3, <2>4, <2>5
<1>16. ASSUME interface \in {"locations", "cdrs"}
       PROVE  /\ reader.again + Cardinality(AheadOf \cap reader.got) <= entered
              /\ Cardinality(Missed \cap Behind) <= left
  BY <1>1, <1>16 DEF ListingsIInv
<1>17. IsFiniteSet(AheadOf \cap reader.got) /\ IsFiniteSet(Missed \cap Behind)
  <2>1. AheadOf \cap reader.got \subseteq Rows /\ Missed \cap Behind \subseteq Rows
    BY <1>3
  <2> QED BY <1>3, <2>1, NoMore
<1>18. ASSUME interface \in {"locations", "cdrs"}, at = "end"
       PROVE  reader'.again <= entered /\ Cardinality(Missed') <= left
  <2>1. Missed' \subseteq Missed \cap Behind
    BY <1>6, <1>7, <1>11, <1>12, <1>13, <1>14, <1>18
  <2>2. /\ Cardinality(Missed') \in Nat /\ Cardinality(Missed \cap Behind) \in Nat
        /\ Cardinality(Missed') <= Cardinality(Missed \cap Behind)
    BY <1>17, <2>1, NoMore
  <2>3. Page \cap reader.got \subseteq AheadOf \cap reader.got
    BY <1>12, <1>13, <1>18
  <2>4. Cardinality(AheadOf \cap reader.got) \in Nat /\ twice <= Cardinality(AheadOf \cap reader.got)
    BY <1>17, <2>3, NoMore
  <2> HIDE DEF twice
  <2>5. Cardinality(Missed') <= left
    BY <1>3, <1>16, <1>18, <2>2
  <2>6. reader.again + twice <= entered
    BY <1>3, <1>4, <1>16, <1>18, <2>4
  <2> QED BY <1>9, <2>5, <2>6
<1>19. ASSUME interface \in {"locations", "cdrs"}, at = "ask"
       PROVE  /\ reader'.again <= entered /\ Cardinality(Missed' \cap Behind') <= left
              /\ reader'.again + Cardinality(AheadOf' \cap reader'.got) <= entered
  <2>1. next = reader.offset + reader.limit /\ Page = Selected
    BY <1>5, <1>6, <1>12, <1>19
  <2>2. Missed' \cap Behind' \subseteq Missed \cap Behind
    BY <1>11, <1>15, <2>1
  <2>3. /\ Cardinality(Missed' \cap Behind') \in Nat /\ Cardinality(Missed \cap Behind) \in Nat
        /\ Cardinality(Missed' \cap Behind') <= Cardinality(Missed \cap Behind)
    BY <1>17, <2>2, NoMore
  <2> DEFINE ahead == AheadOf' \cap reader'.got
             both == Page \cap reader.got
             all == AheadOf \cap reader.got
  <2>4. ahead \cup both \subseteq all /\ ahead \cap both = {}
    BY <1>9, <1>13, <1>15, <2>1
  <2>5. IsFiniteSet(all)
    BY <1>17
  <2> HIDE DEF ahead, both, all
  <2>6. IsFiniteSet(ahead) /\ Cardinality(ahead) \in Nat /\ IsFiniteSet(both) /\ Cardinality(both) \in Nat
    <3>1. ahead \subseteq all /\ both \subseteq all
      BY <2>4
    <3> QED BY <2>5, <3>1, NoMore
  <2>7. Cardinality(ahead \cup both) = Cardinality(ahead) + Cardinality(both)
    <3>1. Cardinality(ahead \cup both) = Cardinality(ahead) + Cardinality(both) - Cardinality(ahead \cap both)
      BY <2>6, FS_Union
    <3>2. Cardinality(ahead \cap both) = 0
      BY <2>4, FS_EmptySet
    <3> QED BY <2>6, <3>1, <3>2
  <2>8. Cardinality(ahead \cup both) <= Cardinality(all) /\ Cardinality(all) \in Nat
    BY <2>4, <2>5, NoMore
  <2>9. twice = Cardinality(both)
    BY DEF both
  <2> HIDE DEF twice
  <2>10. reader.again + Cardinality(all) <= entered
    BY <1>16, <1>19 DEF all
  <2>11. reader.again + twice + Cardinality(ahead) <= entered /\ reader.again + twice <= entered
    BY <1>3, <2>6, <2>7, <2>8, <2>9, <2>10
  <2>12. Cardinality(Missed' \cap Behind') <= left
    BY <1>3, <1>16, <1>19, <2>3
  <2> QED BY <1>9, <2>11, <2>12 DEF ahead
<1>20. interface' # "tokens" => unmapped' = {}
  BY <1>1 DEF ListingsIInv
<1>21. reader'.at = at /\ at \in {"ask", "end"}
  BY <1>6, <1>9
<1> QED BY <1>1, <1>10, <1>18, <1>19, <1>20, <1>21 DEF ListingsIInv

LEMMA ListingsStepSound == ListingsIInv /\ [ListingsNext]_listingVars => ListingsIInv'
<1> SUFFICES ASSUME ListingsIInv, [ListingsNext]_listingVars PROVE ListingsIInv'
  OBVIOUS
<1>1. CASE UNCHANGED listingVars
  BY <1>1 DEF listingVars, ListingsIInv, ListingsTypeOK, Missed, Behind, AheadOf
<1>2. CASE GetPage
  BY <1>2, GetPageSound
<1>3. CASE \E r \in Rows, i \in 1..Len(entries) + 1 : Enters(r, i)
  BY <1>3, EntersSound
<1>4. CASE \E i \in DOMAIN entries : Leaves(i)
  BY <1>4, LeavesSound
<1> QED BY <1>1, <1>2, <1>3, <1>4 DEF ListingsNext

LEMMA ListingsInitSound == ListingsInit => ListingsIInv
<1> SUFFICES ASSUME ListingsInit PROVE ListingsIInv
  OBVIOUS
<1>1. /\ interface \in Interfaces /\ stayed = Range(entries) /\ entered = 0 /\ left = 0
      /\ unmapped \in (IF interface = "tokens" THEN SUBSET Rows ELSE {{}})
      /\ MaxListed \in Nat /\ MaxMoves \in Nat
  BY ListingsAssumption DEF ListingsInit
<1>2. entries \in Seq(Rows) /\ IsInjective(entries)
  <2>1. entries \in SeqOf(Rows, MaxListed) /\ IsInjective(entries)
    BY DEF ListingsInit
  <2>2. PICK m \in 0..MaxListed : entries \in [1..m -> Rows]
    BY <2>1 DEF SeqOf
  <2>3. m \in Nat
    BY <1>1
  <2> QED BY <2>1, <2>2, <2>3
<1>3. PICK n \in Limits : reader = [at |-> "ask", limit |-> n, offset |-> 0, got |-> {}, again |-> 0]
  BY DEF ListingsInit
<1>4. /\ reader \in Readers /\ reader.at = "ask" /\ reader.offset = 0 /\ reader.got = {}
      /\ reader.again = 0
  BY <1>3 DEF Readers
<1>5. unmapped \subseteq Rows /\ (interface # "tokens" => unmapped = {})
  BY <1>1
<1>6. entered + left <= MaxMoves /\ entered \in Nat /\ left \in Nat
  BY <1>1
<1>7. ListingsTypeOK
  BY <1>1, <1>2, <1>4, <1>5, <1>6 DEF ListingsTypeOK
<1>8. Behind = {}
  BY <1>4 DEF Behind
<1>9. Missed \cap Behind = {} /\ AheadOf \cap reader.got = {}
  BY <1>4, <1>8
<1>10. Cardinality(Missed \cap Behind) = 0 /\ Cardinality(AheadOf \cap reader.got) = 0
  BY <1>9, FS_EmptySet
<1> QED BY <1>1, <1>4, <1>5, <1>7, <1>10 DEF ListingsIInv

LEMMA ListingsCover == ListingsIInv => PagesCover
BY DEF ListingsIInv, PagesCover
-----------------------------------------------------------------------------
(* A session's transaction and its readings *)

LEMMA MeterFacts == /\ \A t \in Instants : t \in Nat /\ Meter[t] \in Nat
                    /\ Starts \subseteq Instants
                    /\ \A t, u \in Instants : t <= u => Meter[t] <= Meter[u]
                    /\ \A kinds \in Reports : kinds \in SUBSET Kinds
BY MeterAssumption

LEMMA PeriodsInitSound == PeriodsInit => PeriodsTypeOK
<1> SUFFICES ASSUME PeriodsInit PROVE PeriodsTypeOK
  OBVIOUS
<1>1. now \in Starts /\ now \in Instants /\ now \in Nat /\ Meter[now] \in Nat /\ readings = <<>>
  BY MeterFacts DEF PeriodsInit
<1>2. PICK s \in MeterStarts(now) : tx = [start |-> now, meterStart |-> s, end |-> {}, total |-> {}]
  BY DEF PeriodsInit
<1>3. s \subseteq Nat
  <2>1. Meter[now] * 1000 \in Nat
    BY <1>1
  <2> QED BY <1>1, <2>1 DEF MeterStarts
<1>4. tx \in Transactions /\ tx.start = now /\ tx.meterStart = s /\ tx.end = {}
  BY <1>1, <1>2, <1>3 DEF Transactions
<1>5. readings \in Seq(Readings) /\ Len(readings) = 0 /\ DOMAIN readings = {}
  BY <1>1
<1>6. 0 <= MaxReadings /\ now <= now
  BY <1>1, MeterAssumption
<1> QED BY <1>1, <1>4, <1>5, <1>6 DEF PeriodsTypeOK

LEMMA StoreSound ==
  ASSUME PeriodsTypeOK, NEW t \in Instants, NEW kinds \in Reports, Store(t, kinds)
  PROVE  PeriodsTypeOK'
<1> DEFINE one == Sample(t, kinds)
<1>1. /\ Len(readings) < MaxReadings /\ t \in tx.start..now /\ readings' = Append(readings, one)
      /\ now' = now /\ tx' = tx
  BY DEF Store
<1>2. one \in Readings /\ one.at = t
  BY DEF Readings, Sample
<1>3. /\ readings \in Seq(Readings) /\ Len(readings) \in Nat /\ DOMAIN readings = 1..Len(readings)
      /\ MaxReadings \in Nat /\ \A i \in 1..Len(readings) : readings[i].at \in tx.start..now
  BY MeterAssumption DEF PeriodsTypeOK
<1> HIDE DEF one
<1>4. /\ readings' \in Seq(Readings) /\ Len(readings') = Len(readings) + 1
      /\ \A i \in 1..Len(readings) : readings'[i] = readings[i]
      /\ readings'[Len(readings) + 1] = one
  BY <1>1, <1>2, <1>3, AppendProperties
<1>5. DOMAIN readings' = 1..(Len(readings) + 1) /\ Len(readings') <= MaxReadings
  BY <1>1, <1>3, <1>4
<1>6. ASSUME NEW i \in DOMAIN readings' PROVE readings'[i].at \in tx.start..now
  <2>1. CASE i \in 1..Len(readings)
    BY <1>3, <1>4, <2>1
  <2>2. CASE i = Len(readings) + 1
    BY <1>1, <1>2, <1>4, <2>2
  <2> QED BY <1>3, <1>5, <2>1, <2>2
<1> QED BY <1>1, <1>4, <1>5, <1>6 DEF PeriodsTypeOK

LEMMA EndSound == PeriodsTypeOK /\ End => PeriodsTypeOK'
<1> SUFFICES ASSUME PeriodsTypeOK, End PROVE PeriodsTypeOK'
  OBVIOUS
<1>1. PICK total \in {{}, {Meter[now] - Meter[tx.start]}} : tx' = [tx EXCEPT !.end = {now}, !.total = total]
  BY DEF End
<1>2. now' = now /\ readings' = readings
  BY DEF End
<1>3. /\ now \in Instants /\ now \in Nat /\ tx \in Transactions /\ tx.start \in Starts /\ tx.start \in Instants
      /\ tx.start <= now
  BY MeterFacts DEF PeriodsTypeOK, Transactions
<1>4. total \subseteq Nat
  <2>1. Meter[now] \in Nat /\ Meter[tx.start] \in Nat /\ Meter[tx.start] <= Meter[now]
    BY <1>3, MeterFacts
  <2>2. Meter[now] - Meter[tx.start] \in Nat
    BY <2>1
  <2> QED BY <1>1, <2>2
<1>5. tx' \in Transactions /\ tx'.start = tx.start /\ tx'.meterStart = tx.meterStart /\ tx'.end = {now}
  BY <1>1, <1>3, <1>4 DEF Transactions
<1>6. \A t \in tx'.end : tx'.start <= t /\ t <= now
  BY <1>3, <1>5
<1> QED BY <1>2, <1>5, <1>6 DEF PeriodsTypeOK, MeterStarts

LEMMA LaterSound == PeriodsTypeOK /\ Later => PeriodsTypeOK'
<1> SUFFICES ASSUME PeriodsTypeOK, Later PROVE PeriodsTypeOK'
  OBVIOUS
<1>1. now' \in Instants /\ now < now' /\ tx' = tx /\ readings' = readings
  BY DEF Later
<1>2. now \in Nat /\ now' \in Nat /\ tx.start \in Nat /\ \A t \in tx.end : t \in Nat
  BY <1>1, MeterFacts DEF PeriodsTypeOK, Transactions
<1>3. /\ tx.start <= now' /\ \A t \in tx.end : tx.start <= t /\ t <= now'
      /\ \A i \in DOMAIN readings : readings[i].at \in tx.start..now'
  BY <1>1, <1>2 DEF PeriodsTypeOK
<1> QED BY <1>1, <1>3 DEF PeriodsTypeOK, MeterStarts

LEMMA PeriodsStepSound == PeriodsTypeOK /\ [PeriodsNext]_periodVars => PeriodsTypeOK'
<1> SUFFICES ASSUME PeriodsTypeOK, [PeriodsNext]_periodVars PROVE PeriodsTypeOK'
  OBVIOUS
<1>1. CASE UNCHANGED <<now, tx, readings>>
  BY <1>1 DEF PeriodsTypeOK, MeterStarts
<1>2. CASE \E t \in Instants, kinds \in Reports : Store(t, kinds)
  BY <1>2, StoreSound
<1>3. CASE PutSession \/ PatchSession \/ UNCHANGED periodVars
  BY <1>1, <1>3 DEF PutSession, PatchSession, periodVars
<1> QED BY <1>2, <1>3, EndSound, LaterSound DEF PeriodsNext
-----------------------------------------------------------------------------
(* All that partners are told *)

\* Each part of the specification keeps its own invariant, and what the others hold as well.
LEMMA OwnInitSound == OwnInit => OwnIInv
<1> SUFFICES ASSUME OwnInit PROVE OwnIInv
  OBVIOUS
<1>1. PeriodsInit /\ EvseInit /\ OwnTariffInit /\ OwnTokenInit /\ BulkInit /\ ListingsInit
  BY DEF OwnInit
<1> QED BY <1>1, PeriodsInitSound, EvseInitSound, OwnTariffInitSound, OwnTokenInitSound, BulkInitSound,
           ListingsInitSound, MutedStayUnpushed DEF OwnIInv

LEMMA OwnStepSound == OwnIInv /\ [OwnNext]_ownVars => OwnIInv'
<1> SUFFICES ASSUME OwnIInv, [OwnNext]_ownVars PROVE OwnIInv'
  OBVIOUS
<1>1. PeriodsTypeOK /\ EvseIInv /\ OwnTariffIInv /\ OwnTokenIInv /\ BulkIInv /\ ListingsIInv
  BY DEF OwnIInv
<1>2. [PeriodsNext]_periodVars
  BY DEF OwnNext, OfPeriods, OfEvse, OfTariff, OfToken, OfBulk, OfList, ownVars
<1>3. [EvseNext]_evseVars
  BY DEF OwnNext, OfPeriods, OfEvse, OfTariff, OfToken, OfBulk, OfList, ownVars
<1>4. [OwnTariffNext]_ownTariffVars
  BY DEF OwnNext, OfPeriods, OfEvse, OfTariff, OfToken, OfBulk, OfList, ownVars
<1>5. [OwnTokenNext]_ownTokenVars
  BY DEF OwnNext, OfPeriods, OfEvse, OfTariff, OfToken, OfBulk, OfList, ownVars
<1>6. [BulkNext]_bulkVars
  BY DEF OwnNext, OfPeriods, OfEvse, OfTariff, OfToken, OfBulk, OfList, ownVars
<1>7. [ListingsNext]_listingVars
  BY DEF OwnNext, OfPeriods, OfEvse, OfTariff, OfToken, OfBulk, OfList, ownVars
<1>8. PeriodsTypeOK' /\ EvseIInv' /\ OwnTariffIInv' /\ OwnTokenIInv' /\ BulkIInv' /\ ListingsIInv'
  BY <1>1, <1>2, <1>3, <1>4, <1>5, <1>6, <1>7, PeriodsStepSound, EvseStepSound, OwnTariffStepSound,
     OwnTokenStepSound, BulkStepSound, ListingsStepSound
<1>9. DisabledIsNotPushed'
  BY <1>8, MutedStayUnpushed, PTL
<1> QED BY <1>8, <1>9 DEF OwnIInv

\* The variables of all that partners are told keep their types and the inductive invariants of
\* their part, and what changes in a disabled location is not pushed, for any number of
\* connectors, partners, handlers, rows, revisions and pages.
THEOREM OwnSafe == OwnSpec => []OwnIInv
<1>1. OwnInit => OwnIInv
  BY OwnInitSound
<1>2. OwnIInv /\ [OwnNext]_ownVars => OwnIInv'
  BY OwnStepSound
<1> QED BY <1>1, <1>2, PTL DEF OwnSpec

\* What a partner was told last of an EVSE, a tariff or a token is what the row holds, once the
\* last change was handled alone and its requests reached the partner, whatever handlers
\* overlapped, requests were lost and retries came late before.
THEOREM OwnTold == OwnSpec => []ToldIsTrue
<1>1. OwnIInv => ToldIsTrue
  BY SettledTold, TariffTold, TokenTold DEF OwnIInv, ToldIsTrue
<1> QED BY <1>1, OwnSafe, PTL

\* A partner that pages through locations or CDRs misses no more rows than leave the list and
\* gets no more twice than enter it; a push of all rows ends with every row that was there
\* throughout in its summary, and the tokens it counts as pushed are with the partner, no
\* older than when it began: for any number of rows, page sizes and moves.
THEOREM OwnPaged == OwnSpec => []PagesReachAll
<1>1. OwnIInv => PagesReachAll
  BY BulkCovers, ListingsCover DEF OwnIInv, PagesReachAll
<1> QED BY <1>1, OwnSafe, PTL
==============================================================================
