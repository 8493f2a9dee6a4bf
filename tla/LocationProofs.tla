--------------------------- MODULE LocationProofs ---------------------------
(***************************************************************************)
(* Theorems about a location that a partner sends: the rows it becomes,    *)
(* their columns, and with ReceivedProofs' about all that the run of       *)
(* MCReceived checks.                                                      *)
(***************************************************************************)
EXTENDS ReceivedProofs

-----------------------------------------------------------------------------
(* A received location *)

LEMMA NoneOfNone == \A n \in Nat : \A i \in 1..n : n # 0
OBVIOUS

LEMMA BodiesAre ==
  ASSUME NEW body \in Bodies
  PROVE  /\ body \in Seq(EvseBodies) /\ Len(body) \in Nat /\ DOMAIN body = 1..Len(body)
         /\ body # <<>> <=> Len(body) # 0
         /\ \A j \in DOMAIN body : body[j] \in EvseBodies /\ body[j].uid \in Uids /\ body[j].tariffs \subseteq Tariffs
                                   /\ body[j].status \in {"AVAILABLE", "REMOVED"} /\ body[j].connector \in BOOLEAN
         /\ \A j, k \in DOMAIN body : body[j].uid = body[k].uid => j = k
<1>1. /\ body \in Seq(EvseBodies)
      /\ \A j, k \in DOMAIN body : body[j].uid = body[k].uid => j = k
  BY LocationAssumption
<1>2. Len(body) \in Nat /\ DOMAIN body = 1..Len(body)
  BY <1>1
<1>3. body # <<>> <=> Len(body) # 0
  BY <1>1, EmptySeq
<1>4. \A j \in DOMAIN body : body[j] \in EvseBodies
  BY <1>1
<1> QED BY <1>1, <1>2, <1>3, <1>4 DEF EvseBodies

LEMMA NoEvseIs == /\ NoEvse \in EvseType /\ NoEvse.status = "none" /\ NoEvse.connector = "none"
                  /\ NoEvse.links \in [Tariffs -> Nat] /\ \A t \in Tariffs : NoEvse.links[t] = 0
BY DEF NoEvse, EvseType

LEMMA NoCallIs == /\ NoCall \in CallType /\ NoCall.at = "idle" /\ NoCall.kind = "none" /\ ~NoCall.alone
                  /\ NoCall.i = 1
BY DEF NoCall, CallType, Places

LEMMA EvsesAre ==
  ASSUME LocationTypeOK, NEW s \in Stations, NEW u \in Uids
  PROVE  /\ evses[s][u] \in EvseType /\ evses[s][u].links \in [Tariffs -> Nat]
         /\ evses[s][u].status \in {"none", "AVAILABLE", "REMOVED"}
         /\ evses[s][u].connector \in {"none", "there", "deleted"}
BY DEF LocationTypeOK, EvseType

\* A call under way, and the EVSE and the row that it is at.
LEMMA LocationCallIs ==
  ASSUME StoredIInv, NEW c \in LocationCalls, ~LocationIdle(c)
  PROVE  /\ Call(c) \in CallType /\ CallIsPlaced(c) /\ CallIsGrounded(c)
         /\ Call(c).body \in Bodies /\ Len(Call(c).body) \in Nat /\ DOMAIN Call(c).body = 1..Len(Call(c).body)
         /\ Call(c).i \in Nat
         /\ Call(c).at \in Storing \cup {"patch", "patch fields"} => Call(c).body # <<>>
         /\ Call(c).body # <<>> =>
              /\ Call(c).i \in 1..Len(Call(c).body)
              /\ Now(c) \in EvseBodies /\ Now(c).uid \in Uids /\ Now(c).tariffs \subseteq Tariffs
              /\ Now(c).status \in {"AVAILABLE", "REMOVED"} /\ Now(c).connector \in BOOLEAN
<1>1. LocationTypeOK /\ CallIsPlaced(c) /\ CallIsGrounded(c)
  BY DEF StoredIInv, LocationCallsAreSound
<1>2. Call(c) \in CallType
  BY <1>1 DEF LocationTypeOK, Call
<1>3. /\ Call(c).body \in Bodies /\ Call(c).i \in DOMAIN Call(c).body \cup {1}
      /\ Call(c).at \in Storing \cup {"patch", "patch fields"} => Call(c).body # <<>>
  BY <1>1 DEF CallIsPlaced
<1>4. PICK body : body = Call(c).body
  OBVIOUS
<1>5. /\ Len(body) \in Nat /\ DOMAIN body = 1..Len(body) /\ (body # <<>> <=> Len(body) # 0)
      /\ \A j \in DOMAIN body : body[j] \in EvseBodies /\ body[j].uid \in Uids /\ body[j].tariffs \subseteq Tariffs
                                /\ body[j].status \in {"AVAILABLE", "REMOVED"} /\ body[j].connector \in BOOLEAN
  BY <1>3, <1>4, BodiesAre
<1>6. Call(c).i \in Nat /\ (body # <<>> => Call(c).i \in 1..Len(body))
  <2>1. PICK i, n : i = Call(c).i /\ n = Len(body)
    OBVIOUS
  <2>2. i \in 1..n \cup {1} /\ n \in Nat
    BY <1>3, <1>4, <1>5, <2>1
  <2>3. i \in Nat /\ (n # 0 => i \in 1..n)
    BY <2>2
  <2> QED BY <1>5, <2>1, <2>3
<1> QED BY <1>1, <1>2, <1>3, <1>4, <1>5, <1>6 DEF Now

LEMMA StoredStarts == LocationInit => StoredIInv
<1> SUFFICES ASSUME LocationInit PROVE StoredIInv
  OBVIOUS
<1>1. /\ locationRow = "absent" /\ stations = {} /\ knownTariffs \subseteq Tariffs
      /\ evses = [s \in Stations |-> [u \in Uids |-> NoEvse]]
      /\ locationCall = [c \in LocationCalls |-> NoCall]
      /\ starts = 0 /\ overlapped = FALSE /\ hidden = NothingHidden /\ done = NoCall
  BY DEF LocationInit
<1>2. /\ \A s \in Stations : \A u \in Uids : evses[s][u] = NoEvse
      /\ \A c \in LocationCalls : Call(c) = NoCall /\ LocationIdle(c)
  BY <1>1, NoCallIs DEF Call, LocationIdle
<1>3. LocationTypeOK
  <2>1. evses \in [Stations -> [Uids -> EvseType]]
    BY <1>1, NoEvseIs
  <2>2. starts \in 0..MaxStarts
    BY <1>1, LocationAssumption
  <2> QED BY <1>1, <2>1, <2>2, NoCallIs DEF LocationTypeOK, NothingHidden
<1>4. RowsAreWhole /\ LocationCallsAreSound
  BY <1>1, <1>2, NoEvseIs DEF RowsAreWhole, LocationCallsAreSound
<1>5. Cardinality(stations) = 0
  BY <1>1, FS_EmptySet
<1>6. StationsAreCounted
  <2>1. {c \in LocationCalls : MayMake(c)} = {}
    BY <1>2, NoCallIs DEF MayMake
  <2>2. Cardinality({c \in LocationCalls : MayMake(c)}) = 0
    BY <2>1, FS_EmptySet
  <2> QED BY <1>1, <1>5, <2>2 DEF StationsAreCounted
<1>7. AloneAreAlone
  BY <1>1, <1>2, NoCallIs DEF AloneAreAlone
<1>8. OnceAtATime
  BY <1>2, <1>5, NoCallIs, NoEvseIs DEF OnceAtATime
<1>9. CallsStore
  BY <1>2, NoCallIs DEF CallsStore, StoresAlone, MarksAreUnlisted, UnlistedAreMarked
<1>10. AloneHolds /\ FullPullMirrors
  BY <1>1, NoCallIs DEF AloneHolds, FullPullMirrors
<1> QED BY <1>3, <1>4, <1>6, <1>7, <1>8, <1>9, <1>10 DEF StoredIInv
-----------------------------------------------------------------------------
\* A step of one call: what it leaves alone, and what never shrinks.
OthersAreLeft(c) ==
    /\ locationCall' \in [LocationCalls -> CallType] /\ UNCHANGED <<starts, overlapped, hidden>>
    /\ \A d \in LocationCalls : d # c => locationCall'[d] = locationCall[d]
RowsAreTyped ==
    /\ locationRow' \in {"absent", "visible", "removed"}
    /\ stations' \subseteq Stations /\ knownTariffs' \subseteq Tariffs
    /\ evses' \in [Stations -> [Uids -> EvseType]]
RowsGrow ==
    /\ locationRow # "absent" => locationRow' # "absent"
    /\ stations \subseteq stations'
    /\ \A s \in Stations : \A u \in Uids :
         /\ evses[s][u].status # "none" => evses'[s][u].status # "none"
         /\ evses[s][u].connector # "none" => evses'[s][u].connector # "none"

LEMMA OthersAreSound ==
  ASSUME StoredIInv, NEW c \in LocationCalls, ~LocationIdle(c), OthersAreLeft(c), RowsAreTyped, RowsGrow
  PROVE  /\ \A d \in LocationCalls : d # c => /\ Call(d)' = Call(d) /\ (LocationIdle(d)' <=> LocationIdle(d))
                                              /\ (MayMake(d)' <=> MayMake(d))
         /\ \A d \in LocationCalls : d # c /\ ~LocationIdle(d) => overlapped
         /\ \A d \in LocationCalls : d # c => ~Call(d).alone
         /\ \A d \in LocationCalls : d # c /\ ~LocationIdle(d)' => CallIsPlaced(d)' /\ CallIsGrounded(d)'
         /\ ~done.alone
<1>1. /\ LocationTypeOK /\ AloneAreAlone /\ LocationCallsAreSound /\ stations \subseteq Stations
  BY DEF StoredIInv, LocationTypeOK
<1>2. \A d \in LocationCalls : d # c => /\ Call(d)' = Call(d) /\ (LocationIdle(d)' <=> LocationIdle(d))
                                        /\ (MayMake(d)' <=> MayMake(d))
  BY DEF OthersAreLeft, Call, LocationIdle, MayMake
<1>3. \A d \in LocationCalls : d # c /\ ~LocationIdle(d) => overlapped
  BY <1>1 DEF AloneAreAlone
<1>4. (\A d \in LocationCalls : d # c => ~Call(d).alone) /\ ~done.alone
  BY <1>1 DEF AloneAreAlone
<1>5. ASSUME NEW d \in LocationCalls, d # c, ~LocationIdle(d)'
      PROVE  CallIsPlaced(d)' /\ CallIsGrounded(d)'
  <2>1. /\ CallIsPlaced(d) /\ CallIsGrounded(d) /\ Call(d)' = Call(d) /\ Call(d) \in CallType
        /\ Call(d).at \in Storing \cup {"patch fields"} => Now(d).uid \in Uids
    BY <1>2, <1>5, LocationCallIs
  <2>2. Now(d)' = Now(d)
    BY <2>1 DEF Now
  <2>3. CallIsPlaced(d)'
    BY <2>1, <2>2 DEF CallIsPlaced
  <2>4. CallIsGrounded(d)'
    <3>1. Call(d).at \in {"update", "station", "create"} => locationRow' # "absent"
      BY <2>1 DEF CallIsGrounded, RowsGrow
    <3>2. Call(d).at \in Storing \cup {"patch", "patch fields"} \cup Ending =>
            Call(d).station \in stations /\ Call(d).station \in stations'
      BY <2>1 DEF CallIsGrounded, RowsGrow
    <3>3. Call(d).at \in {"connector", "unlink", "link", "patch fields"} => Call(d).station \in Stations
      BY <1>1, <3>2 DEF Storing
    <3>4. Call(d).at = "connector" => RowOf(d)'.status # "none"
      BY <2>1, <2>2, <3>3 DEF CallIsGrounded, RowsGrow, RowOf, Storing
    <3>5. Call(d).at \in {"unlink", "link", "patch fields"} => RowOf(d)'.connector # "none"
      BY <2>1, <2>2, <3>3 DEF CallIsGrounded, RowsGrow, RowOf, Storing
    <3>6. Call(d).at = "mark" => \A mark \in Call(d).marks :
            mark[2] \in stations' /\ evses'[mark[2]][mark[3]].status # "none"
      <4> SUFFICES ASSUME Call(d).at = "mark", NEW mark \in Call(d).marks
          PROVE  mark[2] \in stations' /\ evses'[mark[2]][mark[3]].status # "none"
        OBVIOUS
      <4>1. mark \in Marks
        BY <2>1 DEF CallType
      <4>2. mark[2] \in Stations /\ mark[3] \in Uids
        BY <4>1 DEF Marks
      <4>3. mark[2] \in stations /\ evses[mark[2]][mark[3]].status # "none"
        BY <2>1 DEF CallIsGrounded
      <4> QED BY <4>2, <4>3 DEF RowsGrow
    <3> QED BY <2>1, <3>1, <3>2, <3>4, <3>5, <3>6 DEF CallIsGrounded
  <2> QED BY <2>3, <2>4
<1> QED BY <1>2, <1>3, <1>4, <1>5

\* What must hold of the call itself after its step.
CallGoesOn(c) ==
    /\ ~LocationIdle(c)' /\ CallIsPlaced(c)' /\ CallIsGrounded(c)'
    /\ done' = done /\ (Call(c)'.alone => Call(c).alone)
    /\ StoresAlone(c)' /\ MarksAreUnlisted(c)' /\ UnlistedAreMarked(c)'
OnceForCall(c) ==
    ~overlapped => /\ Cardinality(stations') <= 1
                   /\ \A s \in Stations : \A u \in Uids : \A t \in Tariffs : evses'[s][u].links[t] <= 1
                   /\ Call(c)'.at = "create" => stations' = {}
                   /\ Call(c)'.at = "link" => \A t \in Call(c)'.left : RowOf(c)'.links[t] = 0

LEMMA LocationTypesStay ==
  ASSUME StoredIInv, NEW c \in LocationCalls, OthersAreLeft(c), RowsAreTyped, done' \in CallType
  PROVE  LocationTypeOK'
BY DEF StoredIInv, LocationTypeOK, OthersAreLeft, RowsAreTyped

LEMMA LocationOnce ==
  ASSUME StoredIInv, NEW c \in LocationCalls, ~LocationIdle(c), OthersAreLeft(c), RowsAreTyped, RowsGrow,
         OnceForCall(c)
  PROVE  OnceAtATime'
<1>1. overlapped' = overlapped
  BY DEF OthersAreLeft
<1>2. ASSUME ~overlapped, NEW d \in LocationCalls, d # c PROVE Call(d)'.at = "idle"
  BY <1>2, OthersAreSound DEF LocationIdle
<1>3. ASSUME ~overlapped, NEW d \in LocationCalls
      PROVE  /\ Call(d)'.at = "create" => stations' = {}
             /\ Call(d)'.at = "link" => \A t \in Call(d)'.left : RowOf(d)'.links[t] = 0
  <2>1. CASE d = c
    BY <1>3, <2>1 DEF OnceForCall
  <2>2. CASE d # c
    BY <1>2, <1>3, <2>2
  <2> QED BY <2>1, <2>2
<1>4. ~overlapped =>
        /\ Cardinality(stations') <= 1
        /\ \A s \in Stations : \A u \in Uids : \A t \in Tariffs : evses'[s][u].links[t] <= 1
  BY DEF OnceForCall
<1>5. ~overlapped' <=> ~overlapped
  BY <1>1
<1> QED BY <1>3, <1>4, <1>5 DEF OnceAtATime

LEMMA OthersStore ==
  ASSUME StoredIInv, NEW c \in LocationCalls, ~LocationIdle(c), OthersAreLeft(c), RowsAreTyped, RowsGrow,
         NEW d \in LocationCalls, d # c
  PROVE  StoresAlone(d)' /\ MarksAreUnlisted(d)' /\ UnlistedAreMarked(d)'
<1>1. Call(d)' = Call(d) /\ ~Call(d).alone
  BY OthersAreSound
<1>2. MarksAreUnlisted(d)
  BY DEF StoredIInv, CallsStore
<1>3. MarksAreUnlisted(d)'
  BY <1>1, <1>2 DEF MarksAreUnlisted, InBody, ConnectorInBody
<1> QED BY <1>1, <1>3 DEF StoresAlone, UnlistedAreMarked

LEMMA LocationGoesOn ==
  ASSUME StoredIInv, NEW c \in LocationCalls, ~LocationIdle(c), OthersAreLeft(c), RowsAreTyped, RowsGrow,
         RowsAreWhole', StationsAreCounted', OnceForCall(c), CallGoesOn(c)
  PROVE  StoredIInv'
<1>1. LocationTypeOK'
  BY LocationTypesStay DEF StoredIInv, LocationTypeOK, CallGoesOn
<1>2. LocationCallsAreSound'
  <2> SUFFICES ASSUME NEW d \in LocationCalls, ~LocationIdle(d)'
      PROVE  CallIsPlaced(d)' /\ CallIsGrounded(d)'
    BY DEF LocationCallsAreSound
  <2> QED BY OthersAreSound DEF CallGoesOn
<1>3. AloneAreAlone'
  <2>1. AloneAreAlone /\ overlapped' = overlapped /\ done' = done /\ ~done.alone
        /\ (Call(c)'.alone => Call(c).alone) /\ ~LocationIdle(c)'
    BY OthersAreSound DEF StoredIInv, OthersAreLeft, CallGoesOn
  <2>2. /\ \A d \in LocationCalls : d # c => Call(d)' = Call(d) /\ (LocationIdle(d)' <=> LocationIdle(d))
        /\ \A d \in LocationCalls : d # c => ~Call(d).alone
    BY OthersAreSound
  <2>3. Call(c)'.alone => \A d \in LocationCalls : d # c => LocationIdle(d)'
    BY <2>1, <2>2 DEF AloneAreAlone
  <2>4. ~overlapped' => \A d \in LocationCalls : \A e \in LocationCalls : ~LocationIdle(d)' /\ ~LocationIdle(e)' => d = e
    <3>1. ~overlapped' => ~overlapped
      BY <2>1
    <3>2. ~overlapped => \A d \in LocationCalls : d # c => LocationIdle(d)
      BY <2>1 DEF AloneAreAlone
    <3> QED BY <2>2, <3>1, <3>2
  <2>5. \A d \in LocationCalls : Call(d)'.alone =>
          ~LocationIdle(d)' /\ \A e \in LocationCalls : e # d => LocationIdle(e)'
    BY <2>1, <2>2, <2>3
  <2>6. ~done'.alone
    BY <2>1
  <2> QED BY <2>4, <2>5, <2>6 DEF AloneAreAlone
<1>4. OnceAtATime'
  BY LocationOnce
<1>5. CallsStore'
  <2> SUFFICES ASSUME NEW d \in LocationCalls
      PROVE  StoresAlone(d)' /\ MarksAreUnlisted(d)' /\ UnlistedAreMarked(d)'
    BY DEF CallsStore
  <2>1. CASE d = c
    BY <2>1 DEF CallGoesOn
  <2>2. CASE d # c
    BY <2>2, OthersStore
  <2> QED BY <2>1, <2>2
<1>6. ~done'.alone
  BY OthersAreSound DEF CallGoesOn
<1>7. AloneHolds' /\ FullPullMirrors'
  BY <1>6 DEF AloneHolds, FullPullMirrors
<1> QED BY <1>1, <1>2, <1>3, <1>4, <1>5, <1>7 DEF StoredIInv

\* The call has ended: given up, or with all its steps taken.
LEMMA LocationEnds ==
  ASSUME StoredIInv, NEW c \in LocationCalls, ~LocationIdle(c), OthersAreLeft(c), RowsAreTyped, RowsGrow,
         RowsAreWhole', StationsAreCounted', OnceForCall(c), locationCall'[c] = NoCall,
         done' = done \/ (done' = Call(c) /\ AloneHolds' /\ FullPullMirrors')
  PROVE  StoredIInv'
<1>0. Call(c)' = NoCall /\ LocationIdle(c)' /\ ~Call(c)'.alone
  BY NoCallIs DEF Call, LocationIdle
<1>1. LocationTypeOK'
  <2>1. done' \in CallType
    BY LocationCallIs DEF StoredIInv, LocationTypeOK
  <2> QED BY <2>1, LocationTypesStay
<1>2. LocationCallsAreSound'
  <2> SUFFICES ASSUME NEW d \in LocationCalls, ~LocationIdle(d)'
      PROVE  CallIsPlaced(d)' /\ CallIsGrounded(d)'
    BY DEF LocationCallsAreSound
  <2>1. d # c
    BY <1>0
  <2> QED BY <2>1, OthersAreSound
<1>3. AloneAreAlone'
  <2>1. AloneAreAlone /\ overlapped' = overlapped
    BY DEF StoredIInv, OthersAreLeft
  <2>2. /\ \A d \in LocationCalls : d # c => Call(d)' = Call(d) /\ (LocationIdle(d)' <=> LocationIdle(d))
        /\ \A d \in LocationCalls : d # c => ~Call(d).alone
        /\ ~done.alone
    BY OthersAreSound
  <2>3. ~overlapped' => \A d \in LocationCalls : \A e \in LocationCalls : ~LocationIdle(d)' /\ ~LocationIdle(e)' => d = e
    <3>1. ~overlapped' => ~overlapped
      BY <2>1
    <3>2. ~overlapped => \A d \in LocationCalls : d # c => LocationIdle(d)
      BY <2>1 DEF AloneAreAlone
    <3> QED BY <1>0, <2>2, <3>1, <3>2
  <2>4. \A d \in LocationCalls : ~Call(d)'.alone
    BY <1>0, <2>2
  <2>5. done'.alone => \A d \in LocationCalls : LocationIdle(d)'
    BY <1>0, <2>1, <2>2 DEF AloneAreAlone
  <2> QED BY <2>3, <2>4, <2>5 DEF AloneAreAlone
<1>4. OnceAtATime'
  BY LocationOnce
<1>5. CallsStore'
  <2> SUFFICES ASSUME NEW d \in LocationCalls
      PROVE  StoresAlone(d)' /\ MarksAreUnlisted(d)' /\ UnlistedAreMarked(d)'
    BY DEF CallsStore
  <2>1. CASE d = c
    BY <1>0, <2>1, NoCallIs DEF StoresAlone, MarksAreUnlisted, UnlistedAreMarked
  <2>2. CASE d # c
    BY <2>2, OthersStore
  <2> QED BY <2>1, <2>2
<1>6. AloneHolds' /\ FullPullMirrors'
  <2>1. ~done.alone
    BY OthersAreSound
  <2>2. CASE done' = done
    BY <2>1, <2>2 DEF AloneHolds, FullPullMirrors
  <2> QED BY <2>2
<1> QED BY <1>1, <1>2, <1>3, <1>4, <1>5, <1>6 DEF StoredIInv
-----------------------------------------------------------------------------
\* What a step writes.
LEMMA RowsMayStay ==
  ASSUME StoredIInv, UNCHANGED rowVars
  PROVE  RowsAreTyped /\ RowsGrow /\ RowsAreWhole'
BY DEF StoredIInv, LocationTypeOK, rowVars, RowsAreTyped, RowsGrow, RowsAreWhole

LEMMA CountStays ==
  ASSUME StoredIInv, NEW c \in LocationCalls, ~LocationIdle(c), OthersAreLeft(c), RowsAreTyped, RowsGrow,
         stations' = stations, MayMake(c)' => MayMake(c)
  PROVE  StationsAreCounted'
<1>1. StationsAreCounted /\ starts' = starts /\ starts \in 0..MaxStarts /\ IsFiniteSet(LocationCalls)
  BY LocationAssumption DEF StoredIInv, LocationTypeOK, OthersAreLeft
<1>2. PICK before, after : /\ before = {d \in LocationCalls : MayMake(d)}
                           /\ after = {d \in LocationCalls : MayMake(d)'}
  OBVIOUS
<1>3. \A d \in LocationCalls : MayMake(d)' => MayMake(d)
  BY OthersAreSound
<1>4. after \subseteq before /\ before \subseteq LocationCalls
  BY <1>2, <1>3
<1>5. IsFiniteSet(before) /\ IsFiniteSet(after)
  BY <1>1, <1>4, FS_Subset
<1>6. Cardinality(after) \in Nat /\ Cardinality(before) \in Nat /\ Cardinality(after) <= Cardinality(before)
  BY <1>4, <1>5, FS_Subset, FS_CardinalityType
<1>7. stations = 1..Cardinality(stations) /\ Cardinality(stations) + Cardinality(before) <= starts
  BY <1>1, <1>2 DEF StationsAreCounted
<1>8. Cardinality(stations) \in Nat /\ starts \in Nat
  <2>1. stations \subseteq 1..MaxStarts /\ MaxStarts \in Nat
    BY LocationAssumption DEF StoredIInv, LocationTypeOK, Stations
  <2>2. IsFiniteSet(stations)
    <3>1. IsFiniteSet(1..MaxStarts)
      BY <2>1, FS_Interval
    <3> QED BY <2>1, <3>1, FS_Subset
  <2> QED BY <1>1, <2>1, <2>2, FS_CardinalityType
<1>9. Cardinality(stations) + Cardinality(after) <= starts
  BY <1>6, <1>7, <1>8
<1>10. {d \in LocationCalls : MayMake(d)}' = after
  BY <1>2
<1>11. stations' = 1..Cardinality(stations') /\ Cardinality(stations') + Cardinality({d \in LocationCalls : MayMake(d)}') <= starts'
  BY <1>1, <1>7, <1>9, <1>10
<1> QED BY <1>11 DEF StationsAreCounted

\* One row is written, of a station there is.
RowIs(s, u, row) == /\ evses' = [evses EXCEPT ![s][u] = row]
                    /\ UNCHANGED <<locationRow, stations, knownTariffs>>
LEMMA RowMayBe ==
  ASSUME StoredIInv, NEW s \in stations, NEW u \in Uids, NEW row \in EvseType, RowIs(s, u, row),
         row.status # "none", evses[s][u].connector # "none" => row.connector # "none",
         row.links # NoEvse.links => row.connector # "none"
  PROVE  /\ RowsAreTyped /\ RowsGrow /\ RowsAreWhole' /\ evses'[s][u] = row
         /\ \A s2 \in Stations : \A u2 \in Uids : s2 # s \/ u2 # u => evses'[s2][u2] = evses[s2][u2]
<1>1. LocationTypeOK /\ RowsAreWhole /\ s \in Stations
  BY DEF StoredIInv, LocationTypeOK
<1>2. PICK atStation : atStation = [evses[s] EXCEPT ![u] = row]
  OBVIOUS
<1>3. atStation \in [Uids -> EvseType] /\ atStation[u] = row /\ \A u2 \in Uids : u2 # u => atStation[u2] = evses[s][u2]
  BY <1>1, <1>2 DEF LocationTypeOK
<1>4. evses' = [evses EXCEPT ![s] = atStation]
  BY <1>1, <1>2 DEF LocationTypeOK, RowIs
<1>5. /\ evses' \in [Stations -> [Uids -> EvseType]] /\ evses'[s][u] = row
      /\ \A s2 \in Stations : \A u2 \in Uids : s2 # s \/ u2 # u => evses'[s2][u2] = evses[s2][u2]
  BY <1>1, <1>3, <1>4 DEF LocationTypeOK
<1>6. UNCHANGED <<locationRow, stations, knownTariffs>>
  BY DEF RowIs
<1>7. RowsAreTyped
  BY <1>1, <1>5, <1>6 DEF LocationTypeOK, RowsAreTyped
<1>8. RowsGrow
  BY <1>5, <1>6 DEF RowsGrow
<1>9. RowsAreWhole'
  <2> SUFFICES ASSUME NEW s2 \in Stations, NEW u2 \in Uids
      PROVE  /\ evses'[s2][u2].status # "none" => s2 \in stations
             /\ evses'[s2][u2].connector # "none" => evses'[s2][u2].status # "none"
             /\ evses'[s2][u2].links # NoEvse.links => evses'[s2][u2].connector # "none"
    BY <1>1, <1>6 DEF RowsAreWhole, NoEvse
  <2>1. CASE s2 = s /\ u2 = u
    BY <1>5, <2>1
  <2>2. CASE s2 # s \/ u2 # u
    BY <1>1, <1>5, <2>2 DEF RowsAreWhole
  <2> QED BY <2>1, <2>2
<1> QED BY <1>5, <1>7, <1>8, <1>9

-----------------------------------------------------------------------------
\* What a step makes of the call.
CallKeeps(c) == /\ Call(c)'.kind = Call(c).kind /\ Call(c)'.body = Call(c).body
                /\ Call(c)'.alone = Call(c).alone /\ done' = done

LEMMA CallBecomes ==
  ASSUME LocationTypeOK, NEW c \in LocationCalls, NEW call \in CallType,
         locationCall' = [locationCall EXCEPT ![c] = call], UNCHANGED <<starts, overlapped, hidden>>
  PROVE  OthersAreLeft(c) /\ locationCall'[c] = call /\ Call(c)' = call
BY DEF LocationTypeOK, OthersAreLeft, Call

LEMMA GoesToIs ==
  ASSUME LocationTypeOK, NEW c \in LocationCalls, NEW at \in Places, GoesTo(c, at)
  PROVE  /\ OthersAreLeft(c) /\ CallKeeps(c) /\ Call(c)'.at = at /\ Call(c)'.i = Call(c).i
         /\ Call(c)'.station = Call(c).station /\ Call(c)'.left = Call(c).left
<1>1. PICK call : call = [Call(c) EXCEPT !.at = at]
  OBVIOUS
<1>2. Call(c) \in CallType /\ Call(c) = locationCall[c]
  BY DEF LocationTypeOK, Call
<1>3. /\ call \in CallType /\ call.at = at /\ call.kind = Call(c).kind /\ call.body = Call(c).body
      /\ call.alone = Call(c).alone /\ call.i = Call(c).i /\ call.station = Call(c).station
      /\ call.left = Call(c).left
  BY <1>1, <1>2 DEF CallType
<1>4. locationCall' = [locationCall EXCEPT ![c] = call]
  BY <1>1, <1>2 DEF GoesTo
<1>5. UNCHANGED <<starts, overlapped, hidden>> /\ done' = done
  BY DEF GoesTo
<1>6. OthersAreLeft(c) /\ Call(c)' = call
  BY <1>3, <1>4, <1>5, CallBecomes
<1> QED BY <1>3, <1>5, <1>6 DEF CallKeeps

LEMMA GoesToStationIs ==
  ASSUME LocationTypeOK, NEW c \in LocationCalls, NEW at \in Places, NEW s \in Stations, GoesToStation(c, s, at)
  PROVE  /\ OthersAreLeft(c) /\ CallKeeps(c) /\ Call(c)'.at = at /\ Call(c)'.i = Call(c).i
         /\ Call(c)'.station = s
<1>1. PICK call : call = [Call(c) EXCEPT !.at = at, !.station = s]
  OBVIOUS
<1>2. Call(c) \in CallType /\ Call(c) = locationCall[c]
  BY DEF LocationTypeOK, Call
<1>3. /\ call \in CallType /\ call.at = at /\ call.kind = Call(c).kind /\ call.body = Call(c).body
      /\ call.alone = Call(c).alone /\ call.i = Call(c).i /\ call.station = s
  BY <1>1, <1>2 DEF CallType
<1>4. locationCall' = [locationCall EXCEPT ![c] = call]
  BY <1>1, <1>2 DEF GoesToStation
<1>5. UNCHANGED <<starts, overlapped, hidden>> /\ done' = done
  BY DEF GoesToStation
<1>6. OthersAreLeft(c) /\ Call(c)' = call
  BY <1>3, <1>4, <1>5, CallBecomes
<1> QED BY <1>3, <1>5, <1>6 DEF CallKeeps

LEMMA HasLeftIs ==
  ASSUME LocationTypeOK, NEW c \in LocationCalls, NEW left \in SUBSET Tariffs, HasLeft(c, left, "link")
  PROVE  /\ OthersAreLeft(c) /\ CallKeeps(c) /\ Call(c)'.at = "link" /\ Call(c)'.i = Call(c).i
         /\ Call(c)'.station = Call(c).station /\ Call(c)'.left = left
<1>1. PICK call : call = [Call(c) EXCEPT !.at = "link", !.left = left]
  OBVIOUS
<1>2. Call(c) \in CallType /\ Call(c) = locationCall[c]
  BY DEF LocationTypeOK, Call
<1>3. /\ call \in CallType /\ call.at = "link" /\ call.kind = Call(c).kind /\ call.body = Call(c).body
      /\ call.alone = Call(c).alone /\ call.i = Call(c).i /\ call.station = Call(c).station /\ call.left = left
  BY <1>1, <1>2 DEF CallType, Places
<1>4. locationCall' = [locationCall EXCEPT ![c] = call]
  BY <1>1, <1>2 DEF HasLeft
<1>5. UNCHANGED <<starts, overlapped, hidden>> /\ done' = done
  BY DEF HasLeft
<1>6. OthersAreLeft(c) /\ Call(c)' = call
  BY <1>3, <1>4, <1>5, CallBecomes
<1> QED BY <1>3, <1>5, <1>6 DEF CallKeeps

LEMMA HasMarksIs ==
  ASSUME LocationTypeOK, NEW c \in LocationCalls, NEW marks \in SUBSET Marks, HasMarks(c, marks)
  PROVE  /\ OthersAreLeft(c) /\ CallKeeps(c) /\ Call(c)'.at = "mark" /\ Call(c)'.i = Call(c).i
         /\ Call(c)'.station = Call(c).station /\ Call(c)'.marks = marks
<1>1. PICK call : call = [Call(c) EXCEPT !.at = "mark", !.marks = marks]
  OBVIOUS
<1>2. Call(c) \in CallType /\ Call(c) = locationCall[c]
  BY DEF LocationTypeOK, Call
<1>3. /\ call \in CallType /\ call.at = "mark" /\ call.kind = Call(c).kind /\ call.body = Call(c).body
      /\ call.alone = Call(c).alone /\ call.i = Call(c).i /\ call.station = Call(c).station /\ call.marks = marks
  BY <1>1, <1>2 DEF CallType, Places
<1>4. locationCall' = [locationCall EXCEPT ![c] = call]
  BY <1>1, <1>2 DEF HasMarks
<1>5. UNCHANGED <<starts, overlapped, hidden>> /\ done' = done
  BY DEF HasMarks
<1>6. OthersAreLeft(c) /\ Call(c)' = call
  BY <1>3, <1>4, <1>5, CallBecomes
<1> QED BY <1>3, <1>5, <1>6 DEF CallKeeps

LEMMA GivesUpIs ==
  ASSUME LocationTypeOK, NEW c \in LocationCalls, GivesUp(c)
  PROVE  OthersAreLeft(c) /\ locationCall'[c] = NoCall /\ Call(c)' = NoCall /\ done' = done
BY NoCallIs, CallBecomes DEF GivesUp

LEMMA CompletesIs ==
  ASSUME LocationTypeOK, NEW c \in LocationCalls, Completes(c)
  PROVE  OthersAreLeft(c) /\ locationCall'[c] = NoCall /\ Call(c)' = NoCall /\ done' = Call(c)
BY NoCallIs, CallBecomes DEF Completes

\* A call that moves on and is not yet at an EVSE, or gives up, and writes no EVSE.
LEMMA CountNow ==
  ASSUME StoredIInv
  PROVE  IsFiniteSet(stations) /\ Cardinality(stations) \in Nat
<1>1. stations \subseteq 1..MaxStarts /\ MaxStarts \in Nat
  BY LocationAssumption DEF StoredIInv, LocationTypeOK, Stations
<1>2. IsFiniteSet(1..MaxStarts)
  BY <1>1, FS_Interval
<1>3. IsFiniteSet(stations)
  BY <1>1, <1>2, FS_Subset
<1> QED BY <1>3, FS_CardinalityType

LEMMA GivesUpKeeps ==
  ASSUME StoredIInv, NEW c \in LocationCalls, ~LocationIdle(c), GivesUp(c), UNCHANGED rowVars
  PROVE  StoredIInv'
<1>1. OthersAreLeft(c) /\ locationCall'[c] = NoCall /\ Call(c)' = NoCall /\ done' = done
  BY GivesUpIs DEF StoredIInv
<1>2. RowsAreTyped /\ RowsGrow /\ RowsAreWhole'
  BY RowsMayStay
<1>3. StationsAreCounted'
  <2>1. ~MayMake(c)'
    BY <1>1, NoCallIs DEF MayMake
  <2> QED BY <1>1, <1>2, <2>1, CountStays DEF rowVars
<1>4. OnceForCall(c)
  BY <1>1, NoCallIs DEF StoredIInv, OnceAtATime, OnceForCall, rowVars
<1> QED BY <1>1, <1>2, <1>3, <1>4, LocationEnds

LEMMA MovesEarly ==
  ASSUME StoredIInv, NEW c \in LocationCalls, ~LocationIdle(c), NEW at \in {"insert", "update", "station", "create"},
         GoesTo(c, at), MayMake(c), UNCHANGED <<stations, evses, knownTariffs>>,
         locationRow' = locationRow \/ locationRow' = "visible",
         at \in {"insert", "update", "station"} => Call(c).kind \in Whole,
         at = "create" => Call(c).kind \in Whole \cup {"evse"},
         at = "insert" \/ locationRow' # "absent", at = "create" => stations = {}
  PROVE  StoredIInv'
<1>0. at \in Places /\ at \notin Storing \cup {"patch", "patch fields"} \cup Ending /\ at # "idle"
  BY DEF Places, Storing, Ending
<1>1. /\ LocationTypeOK /\ OnceAtATime /\ RowsAreWhole /\ CallIsPlaced(c)
  BY LocationCallIs DEF StoredIInv
<1>2. /\ OthersAreLeft(c) /\ CallKeeps(c) /\ Call(c)'.at = at /\ Call(c)'.i = Call(c).i
  BY <1>0, <1>1, GoesToIs
<1>3. RowsAreTyped /\ RowsGrow /\ RowsAreWhole'
  BY <1>1 DEF LocationTypeOK, RowsAreTyped, RowsGrow, RowsAreWhole
<1>4. StationsAreCounted'
  BY <1>2, <1>3, CountStays
<1>5. OnceForCall(c)
  BY <1>0, <1>1, <1>2 DEF OnceAtATime, OnceForCall, Storing
<1>6. CallIsPlaced(c)'
  <2>1. Call(c).i = 1
    BY <1>1 DEF CallIsPlaced, MayMake
  <2> QED BY <1>0, <1>1, <1>2, <2>1 DEF CallIsPlaced, CallKeeps, Storing, Ending
<1>7. CallIsGrounded(c)'
  BY <1>0, <1>2 DEF CallIsGrounded, Storing, Ending
<1>8. StoresAlone(c)' /\ MarksAreUnlisted(c)' /\ UnlistedAreMarked(c)'
  BY <1>0, <1>2 DEF StoresAlone, MarksAreUnlisted, UnlistedAreMarked, Storing, Ending
<1>9. CallGoesOn(c)
  BY <1>0, <1>2, <1>6, <1>7, <1>8 DEF CallGoesOn, CallKeeps, LocationIdle
<1> QED BY <1>2, <1>3, <1>4, <1>5, <1>9, LocationGoesOn

LEMMA NothingEarlier ==
  ASSUME NEW n, n = 1
  PROVE  \A j \in 1..(n - 1) : FALSE
OBVIOUS

LEMMA MovesToStation ==
  ASSUME StoredIInv, NEW c \in LocationCalls, ~LocationIdle(c), MayMake(c), Call(c).body # <<>>,
         NEW at \in {"evse", "connector", "patch", "patch fields"}, NEW s \in stations', GoesToStation(c, s, at),
         UNCHANGED <<locationRow, evses, knownTariffs>>, stations \subseteq stations', stations' \subseteq Stations,
         locationRow # "absent", StationsAreCounted', ~overlapped => Cardinality(stations') <= 1,
         at = "evse" => Call(c).kind \in Whole \cup {"evse"},
         at = "connector" => Call(c).kind = "connector" /\ evses[s][Now(c).uid].status # "none",
         at = "patch" => Call(c).kind = "patch evse",
         at = "patch fields" => Call(c).kind = "patch connector" /\ evses[s][Now(c).uid].connector # "none"
  PROVE  StoredIInv'
<1>0. at \in Places /\ at \notin Ending /\ at # "idle" /\ s \in Stations
  BY DEF Places, Ending
<1>1. /\ LocationTypeOK /\ OnceAtATime /\ RowsAreWhole /\ CallIsPlaced(c) /\ Call(c).i = 1
  BY LocationCallIs DEF StoredIInv, CallIsPlaced, MayMake
<1>2. /\ OthersAreLeft(c) /\ CallKeeps(c) /\ Call(c)'.at = at /\ Call(c)'.i = Call(c).i /\ Call(c)'.station = s
  BY <1>0, <1>1, GoesToStationIs
<1>3. RowsAreTyped /\ RowsGrow /\ RowsAreWhole'
  BY <1>1 DEF LocationTypeOK, RowsAreTyped, RowsGrow, RowsAreWhole
<1>4. OnceForCall(c)
  BY <1>0, <1>1, <1>2 DEF OnceAtATime, OnceForCall
<1>5. Now(c)' = Now(c) /\ RowOf(c)' = evses[s][Now(c).uid]
  BY <1>2 DEF Now, RowOf, CallKeeps
<1>6. CallIsPlaced(c)'
  BY <1>0, <1>1, <1>2, <1>5 DEF CallIsPlaced, CallKeeps, Now, Ending
<1>7. CallIsGrounded(c)'
  BY <1>0, <1>2, <1>5 DEF CallIsGrounded
<1>8. StoresAlone(c)' /\ MarksAreUnlisted(c)' /\ UnlistedAreMarked(c)'
  <2>0. PICK n : n = Call(c)'.i
    OBVIOUS
  <2>1. n = 1
    BY <1>1, <1>2, <2>0
  <2>5. \A j \in 1..(n - 1) : FALSE
    BY <2>1, NothingEarlier
  <2>2. StoredUpTo(c, Call(c).i - 1)'
    BY <2>0, <2>5 DEF StoredUpTo
  <2>3. Call(c)'.at # "evse" => Call(c)'.kind \notin Whole \cup {"evse"}
    BY <1>0, <1>2 DEF CallKeeps, Whole
  <2>4. StoresAlone(c)'
    BY <1>0, <1>2, <2>2, <2>3 DEF StoresAlone, Ending
  <2> QED BY <1>0, <1>2, <2>4 DEF MarksAreUnlisted, UnlistedAreMarked
<1>9. CallGoesOn(c)
  BY <1>0, <1>2, <1>6, <1>7, <1>8 DEF CallGoesOn, CallKeeps, LocationIdle
<1> QED BY <1>2, <1>3, <1>4, <1>9, LocationGoesOn

\* The same at a station that was there.
LEMMA FindsStation ==
  ASSUME StoredIInv, NEW c \in LocationCalls, ~LocationIdle(c), MayMake(c), Call(c).body # <<>>,
         NEW at \in {"evse", "connector", "patch", "patch fields"}, NEW s \in stations, GoesToStation(c, s, at),
         UNCHANGED rowVars,
         at = "evse" => Call(c).kind \in Whole \cup {"evse"},
         at = "connector" => Call(c).kind = "connector" /\ evses[s][Now(c).uid].status # "none",
         at = "patch" => Call(c).kind = "patch evse",
         at = "patch fields" => Call(c).kind = "patch connector" /\ evses[s][Now(c).uid].connector # "none"
  PROVE  StoredIInv'
<1>1. LocationTypeOK /\ RowsAreWhole /\ OnceAtATime /\ stations' = stations /\ stations \subseteq Stations
  BY DEF StoredIInv, LocationTypeOK, rowVars
<1>2. at \in Places /\ s \in Stations
  BY <1>1 DEF Places
<1>3. OthersAreLeft(c)
  BY <1>1, <1>2, GoesToStationIs
<1>4. StationsAreCounted'
  BY <1>1, <1>3, RowsMayStay, CountStays
<1>5. locationRow # "absent"
  BY <1>1 DEF RowsAreWhole
<1>6. ~overlapped => Cardinality(stations') <= 1
  BY <1>1 DEF OnceAtATime
<1>7. UNCHANGED <<locationRow, evses, knownTariffs>>
  BY DEF rowVars
<1>8. s \in stations' /\ stations \subseteq stations' /\ stations' \subseteq Stations
  BY <1>1
<1> QED BY <1>4, <1>5, <1>6, <1>7, <1>8, MovesToStation

\* A call on one EVSE or connector carries one.
LEMMA OneIsThere ==
  ASSUME StoredIInv, NEW c \in LocationCalls, ~LocationIdle(c), Call(c).kind \notin Whole
  PROVE  Call(c).body # <<>> /\ Call(c).i \in 1..1
<1>1. CallIsPlaced(c) /\ Call(c).body \in Bodies
  BY LocationCallIs
<1>2. Len(Call(c).body) = 1
  BY <1>1 DEF CallIsPlaced
<1>3. Call(c).body # <<>>
  BY <1>1, <1>2, BodiesAre
<1>4. Call(c).i \in 1..Len(Call(c).body)
  BY <1>3, LocationCallIs
<1> QED BY <1>2, <1>3, <1>4

\* The body is written, or it had nothing to write.
LEMMA EndsBodyIs ==
  ASSUME LocationTypeOK, NEW c \in LocationCalls, NEW s \in Stations, EndsBody(c, s)
  PROVE  /\ OthersAreLeft(c) /\ ~MayMake(c)'
         /\ \/ /\ Call(c).kind \in {"full pull", "pull"} /\ CallKeeps(c)
               /\ Call(c)'.at = "mark location" => Call(c).kind = "pull"
               /\ Call(c)'.at \in {"read", "mark location"} /\ Call(c)'.i = Call(c).i /\ Call(c)'.station = s
            \/ /\ Call(c).kind \notin {"full pull", "pull"}
               /\ locationCall'[c] = NoCall /\ Call(c)' = NoCall /\ done' = Call(c)
<1>1. ASSUME NEW at \in {"read", "mark location"}, GoesToStation(c, s, at)
      PROVE  /\ OthersAreLeft(c) /\ ~MayMake(c)' /\ CallKeeps(c)
             /\ Call(c)'.at = at /\ Call(c)'.i = Call(c).i /\ Call(c)'.station = s
  <2>1. at \in Places
    BY DEF Places
  <2>2. OthersAreLeft(c) /\ CallKeeps(c) /\ Call(c)'.at = at /\ Call(c)'.i = Call(c).i /\ Call(c)'.station = s
    BY <1>1, <2>1, GoesToStationIs
  <2> QED BY <2>2 DEF MayMake
<1>2. ASSUME Completes(c)
      PROVE  /\ OthersAreLeft(c) /\ ~MayMake(c)'
             /\ locationCall'[c] = NoCall /\ Call(c)' = NoCall /\ done' = Call(c)
  BY <1>2, CompletesIs, NoCallIs DEF MayMake
<1>3. \/ Call(c).kind = "full pull" /\ GoesToStation(c, s, "read")
      \/ Call(c).kind = "pull" /\ GoesToStation(c, s, "mark location")
      \/ Call(c).kind \notin {"full pull", "pull"} /\ Completes(c)
  BY DEF EndsBody
<1> QED BY <1>1, <1>2, <1>3

LEMMA BodyEnds ==
  ASSUME StoredIInv, NEW c \in LocationCalls, ~LocationIdle(c), NEW s \in stations', EndsBody(c, s),
         RowsAreTyped, RowsGrow, RowsAreWhole', StationsAreCounted',
         ~overlapped => /\ Cardinality(stations') <= 1
                        /\ \A s2 \in Stations : \A u \in Uids : \A t \in Tariffs : evses'[s2][u].links[t] <= 1,
         \/ Call(c).body = <<>>
         \/ /\ s = Call(c).station
            /\ Call(c).alone /\ Call(c).kind \in Whole \cup {"evse"} =>
                 \A j \in 1..Len(Call(c).body) : HoldsEvse(evses'[s][Call(c).body[j].uid], Call(c).body[j])
  PROVE  StoredIInv'
<1>1. /\ LocationTypeOK /\ CallIsPlaced(c) /\ Call(c).body \in Bodies /\ DOMAIN Call(c).body = 1..Len(Call(c).body)
      /\ Call(c).body = <<>> => Len(Call(c).body) = 0
  BY LocationCallIs, BodiesAre DEF StoredIInv
<1>2. s \in Stations
  BY DEF RowsAreTyped
<1>3. /\ OthersAreLeft(c) /\ ~MayMake(c)'
      /\ \/ /\ Call(c).kind \in {"full pull", "pull"} /\ CallKeeps(c)
            /\ Call(c)'.at = "mark location" => Call(c).kind = "pull"
            /\ Call(c)'.at \in {"read", "mark location"} /\ Call(c)'.i = Call(c).i /\ Call(c)'.station = s
         \/ /\ Call(c).kind \notin {"full pull", "pull"}
            /\ locationCall'[c] = NoCall /\ Call(c)' = NoCall /\ done' = Call(c)
  BY <1>1, <1>2, EndsBodyIs
<1>4. ASSUME Call(c).alone, Call(c).kind \in Whole \cup {"evse"}, NEW j \in 1..Len(Call(c).body)
      PROVE  s = Call(c).station /\ HoldsEvse(evses'[s][Call(c).body[j].uid], Call(c).body[j])
  <2>1. Call(c).body # <<>>
    BY <1>1, <1>4
  <2> QED BY <1>4, <2>1
<1>5. CASE /\ Call(c).kind \in {"full pull", "pull"} /\ CallKeeps(c)
           /\ Call(c)'.at = "mark location" => Call(c).kind = "pull"
           /\ Call(c)'.at \in {"read", "mark location"} /\ Call(c)'.i = Call(c).i /\ Call(c)'.station = s
  <2>1. Call(c)'.at \in Ending /\ Call(c)'.at # "idle" /\ Call(c)'.at \notin Storing /\ Call(c)'.at # "mark"
    BY <1>5 DEF Ending, Storing
  <2>2. CallIsPlaced(c)'
    BY <1>1, <1>5, <2>1 DEF CallIsPlaced, CallKeeps, Whole
  <2>3. CallIsGrounded(c)'
    BY <1>5, <2>1 DEF CallIsGrounded
  <2>4. StoresAlone(c)'
    <3>1. ASSUME Call(c).alone, Call(c).kind \in Whole \cup {"evse"} PROVE StoredUpTo(c, Len(Call(c).body))'
      <4>1. \A j \in 1..Len(Call(c)'.body) :
              HoldsEvse(evses'[Call(c)'.station][Call(c)'.body[j].uid], Call(c)'.body[j])
        BY <1>4, <1>5, <3>1 DEF CallKeeps
      <4> QED BY <4>1 DEF StoredUpTo
    <3> QED BY <1>5, <2>1, <3>1 DEF StoresAlone, CallKeeps
  <2>5. CallGoesOn(c)
    BY <1>5, <2>1, <2>2, <2>3, <2>4 DEF CallGoesOn, CallKeeps, LocationIdle, MarksAreUnlisted, UnlistedAreMarked
  <2>6. OnceForCall(c)
    BY <1>5 DEF OnceForCall
  <2> QED BY <1>3, <2>5, <2>6, LocationGoesOn
<1>6. CASE /\ Call(c).kind \notin {"full pull", "pull"}
           /\ locationCall'[c] = NoCall /\ Call(c)' = NoCall /\ done' = Call(c)
  <2>1. FullPullMirrors'
    BY <1>6 DEF FullPullMirrors
  <2>2. AloneHolds'
    <3> SUFFICES ASSUME Call(c).alone, Call(c).kind \in Whole \cup {"evse"}, NEW j \in DOMAIN Call(c).body
        PROVE  HoldsEvse(evses'[Call(c).station][Call(c).body[j].uid], Call(c).body[j])
      BY <1>6 DEF AloneHolds
    <3> QED BY <1>1, <1>4
  <2>3. OnceForCall(c)
    BY <1>6, NoCallIs DEF OnceForCall
  <2> QED BY <1>3, <1>6, <2>1, <2>2, <2>3, LocationEnds
<1> QED BY <1>3, <1>5, <1>6

LEMMA FindLocationKeeps ==
  ASSUME StoredIInv, NEW c \in LocationCalls, FindLocation(c)
  PROVE  StoredIInv'
<1>1. /\ Call(c).at = "find" /\ Call(c).kind \in Whole /\ UNCHANGED rowVars
      /\ GoesTo(c, IF locationRow = "absent" THEN "insert" ELSE "update")
  BY DEF FindLocation, Whole
<1>2. ~LocationIdle(c) /\ MayMake(c) /\ UNCHANGED <<locationRow, stations, evses, knownTariffs>>
  BY <1>1 DEF LocationIdle, MayMake, rowVars
<1>3. CASE locationRow = "absent"
  BY <1>1, <1>2, <1>3, MovesEarly
<1>4. CASE locationRow # "absent"
  BY <1>1, <1>2, <1>4, MovesEarly
<1> QED BY <1>3, <1>4

LEMMA InsertLocationKeeps ==
  ASSUME StoredIInv, NEW c \in LocationCalls, InsertLocation(c)
  PROVE  StoredIInv'
<1>1. /\ Call(c).at = "insert" /\ UNCHANGED <<stations, evses, knownTariffs>>
      /\ IF locationRow = "absent" THEN locationRow' = "visible" /\ GoesTo(c, "station")
         ELSE GivesUp(c) /\ UNCHANGED locationRow
  BY DEF InsertLocation
<1>2. ~LocationIdle(c) /\ MayMake(c)
  BY <1>1 DEF LocationIdle, MayMake
<1>3. Call(c).kind \in Whole
  BY <1>1, <1>2, LocationCallIs DEF CallIsPlaced
<1>4. CASE locationRow = "absent"
  BY <1>1, <1>2, <1>3, <1>4, MovesEarly
<1>5. CASE locationRow # "absent"
  BY <1>1, <1>2, <1>5, GivesUpKeeps DEF rowVars
<1> QED BY <1>4, <1>5

LEMMA UpdateLocationKeeps ==
  ASSUME StoredIInv, NEW c \in LocationCalls, UpdateLocation(c)
  PROVE  StoredIInv'
<1>1. Call(c).at = "update" /\ GoesTo(c, "station") /\ UNCHANGED <<locationRow, stations, evses, knownTariffs>>
  BY DEF UpdateLocation, rowVars
<1>2. ~LocationIdle(c) /\ MayMake(c)
  BY <1>1 DEF LocationIdle, MayMake
<1>3. Call(c).kind \in Whole /\ locationRow # "absent"
  BY <1>1, <1>2, LocationCallIs DEF CallIsPlaced, CallIsGrounded
<1> QED BY <1>1, <1>2, <1>3, MovesEarly

LEMMA FindStationKeeps ==
  ASSUME StoredIInv, NEW c \in LocationCalls, FindStation(c)
  PROVE  StoredIInv'
<1>1. /\ Call(c).at = "station" /\ UNCHANGED rowVars
      /\ IF stations = {} THEN GoesTo(c, "create") ELSE \E s \in stations : FirstEvse(c, s)
  BY DEF FindStation
<1>2. ~LocationIdle(c) /\ MayMake(c) /\ UNCHANGED <<locationRow, stations, evses, knownTariffs>>
  BY <1>1 DEF LocationIdle, MayMake, rowVars
<1>3. Call(c).kind \in Whole /\ locationRow # "absent"
  BY <1>1, <1>2, LocationCallIs DEF CallIsPlaced, CallIsGrounded
<1>4. CASE stations = {}
  BY <1>1, <1>2, <1>3, <1>4, MovesEarly
<1>5. CASE stations # {}
  <2>1. PICK s \in stations : FirstEvse(c, s)
    BY <1>1, <1>5
  <2>2. CASE Call(c).body # <<>>
    BY <1>1, <1>2, <1>3, <2>1, <2>2, FindsStation DEF FirstEvse
  <2>3. CASE Call(c).body = <<>>
    <3>1. EndsBody(c, s) /\ RowsAreTyped /\ RowsGrow /\ RowsAreWhole' /\ OnceAtATime
      BY <1>1, <2>1, <2>3, RowsMayStay DEF FirstEvse, StoredIInv
    <3>2. OthersAreLeft(c) /\ ~MayMake(c)'
      BY <1>2, <2>1, <3>1, EndsBodyIs DEF StoredIInv, LocationTypeOK
    <3>3. StationsAreCounted'
      BY <1>2, <3>1, <3>2, CountStays
    <3> QED BY <1>2, <2>1, <2>3, <3>1, <3>3, BodyEnds DEF OnceAtATime
  <2> QED BY <2>2, <2>3
<1> QED BY <1>4, <1>5

LEMMA CreateStationKeeps ==
  ASSUME StoredIInv, NEW c \in LocationCalls, CreateStation(c)
  PROVE  StoredIInv'
<1>1. PICK s : s = Cardinality(stations) + 1
  OBVIOUS
<1>2. /\ Call(c).at = "create" /\ UNCHANGED <<locationRow, evses, knownTariffs>>
      /\ stations' = stations \cup {s} /\ FirstEvse(c, s)
  BY <1>1 DEF CreateStation
<1>3. ~LocationIdle(c) /\ MayMake(c)
  BY <1>2 DEF LocationIdle, MayMake
<1>4. /\ Call(c).kind \in Whole \cup {"evse"} /\ locationRow # "absent"
      /\ LocationTypeOK /\ StationsAreCounted /\ OnceAtATime /\ IsFiniteSet(LocationCalls) /\ MaxStarts \in Nat
  BY <1>2, <1>3, LocationCallIs, LocationAssumption DEF CallIsPlaced, CallIsGrounded, StoredIInv
<1>5. PICK before, n : before = {d \in LocationCalls : MayMake(d)} /\ n = Cardinality(stations)
  OBVIOUS
<1>6. /\ n \in Nat /\ IsFiniteSet(stations) /\ stations = 1..n /\ n + Cardinality(before) <= starts
      /\ starts \in 0..MaxStarts /\ s = n + 1
  BY <1>1, <1>4, <1>5, CountNow DEF StationsAreCounted, LocationTypeOK
<1>7. c \in before /\ IsFiniteSet(before) /\ Cardinality(before) \in Nat
  BY <1>3, <1>4, <1>5, FS_Subset, FS_CardinalityType
<1>8. IsFiniteSet(before \ {c}) /\ Cardinality(before \ {c}) = Cardinality(before) - 1
  BY <1>7, FS_RemoveElement
<1>9. Cardinality(before) >= 1
  <2>1. Cardinality(before \ {c}) \in Nat
    BY <1>8, FS_CardinalityType
  <2> QED BY <1>7, <1>8, <2>1
<1>10. s \in Stations /\ s \notin stations
  BY <1>4, <1>6, <1>7, <1>9 DEF Stations
<1>11. /\ Cardinality(stations') = n + 1 /\ stations' = 1..(n + 1)
  <2>1. Cardinality(stations \cup {s}) = n + 1
    BY <1>5, <1>6, <1>10, FS_AddElement
  <2>2. stations \cup {s} = 1..(n + 1)
    BY <1>6
  <2> QED BY <1>2, <2>1, <2>2
<1>12. "evse" \in Places
  BY DEF Places
<1>13. OthersAreLeft(c) /\ ~MayMake(c)'
  <2>1. CASE Call(c).body # <<>>
    BY <1>2, <1>4, <1>10, <1>12, <2>1, GoesToStationIs DEF FirstEvse, MayMake
  <2>2. CASE Call(c).body = <<>>
    BY <1>2, <1>3, <1>4, <1>10, <2>2, EndsBodyIs DEF FirstEvse
  <2> QED BY <2>1, <2>2
<1>14. StationsAreCounted'
  <2>1. ~MayMake(c)'
    BY <1>13
  <2>2. \A d \in LocationCalls : d # c => (MayMake(d)' <=> MayMake(d))
    BY <1>13 DEF OthersAreLeft, MayMake, Call
  <2>3. {d \in LocationCalls : MayMake(d)}' = before \ {c}
    BY <1>5, <2>1, <2>2
  <2>4. Cardinality(stations') + Cardinality(before \ {c}) <= starts
    BY <1>6, <1>7, <1>8, <1>11
  <2>5. starts' = starts
    BY <1>13 DEF OthersAreLeft
  <2> QED BY <1>11, <2>3, <2>4, <2>5 DEF StationsAreCounted
<1>15. ~overlapped => Cardinality(stations') <= 1
  <2>1. ~overlapped => stations = {}
    BY <1>2, <1>4 DEF OnceAtATime
  <2>2. stations = {} => n = 0
    BY <1>5, FS_EmptySet
  <2> QED BY <1>11, <2>1, <2>2
<1>16. s \in stations' /\ stations \subseteq stations' /\ stations' \subseteq Stations
  BY <1>2, <1>4, <1>10 DEF LocationTypeOK
<1>17. CASE Call(c).body # <<>>
  BY <1>2, <1>3, <1>4, <1>14, <1>15, <1>16, <1>17, MovesToStation DEF FirstEvse
<1>18. CASE Call(c).body = <<>>
  <2>1. EndsBody(c, s)
    BY <1>2, <1>18 DEF FirstEvse
  <2>2. RowsAreTyped /\ RowsGrow /\ RowsAreWhole'
    BY <1>2, <1>4, <1>16 DEF StoredIInv, LocationTypeOK, RowsAreTyped, RowsGrow, RowsAreWhole
  <2> QED BY <1>2, <1>3, <1>4, <1>14, <1>15, <1>16, <1>18, <2>1, <2>2, BodyEnds DEF OnceAtATime
<1> QED BY <1>17, <1>18

LEMMA FindForEvseKeeps ==
  ASSUME StoredIInv, NEW c \in LocationCalls, FindForEvse(c)
  PROVE  StoredIInv'
<1>1. /\ Call(c).at = "find" /\ Call(c).kind = "evse" /\ UNCHANGED rowVars
      /\ \/ locationRow = "absent" /\ GivesUp(c)
         \/ locationRow # "absent" /\ stations = {} /\ GoesTo(c, "create")
         \/ \E s \in stations : FirstEvse(c, s)
  BY DEF FindForEvse
<1>2. ~LocationIdle(c) /\ MayMake(c) /\ UNCHANGED <<locationRow, stations, evses, knownTariffs>>
  BY <1>1 DEF LocationIdle, MayMake, rowVars
<1>3. CASE locationRow = "absent" /\ GivesUp(c)
  BY <1>1, <1>2, <1>3, GivesUpKeeps
<1>4. CASE locationRow # "absent" /\ stations = {} /\ GoesTo(c, "create")
  BY <1>1, <1>2, <1>4, MovesEarly
<1>5. ASSUME NEW s \in stations, FirstEvse(c, s) PROVE StoredIInv'
  <2>1. Call(c).body # <<>>
    BY <1>1, <1>2, OneIsThere DEF Whole
  <2> QED BY <1>1, <1>2, <1>5, <2>1, FindsStation DEF FirstEvse
<1> QED BY <1>1, <1>3, <1>4, <1>5

LEMMA FindForConnectorKeeps ==
  ASSUME StoredIInv, NEW c \in LocationCalls, FindForConnector(c)
  PROVE  StoredIInv'
<1>1. PICK found : found = {s \in stations : evses[s][Now(c).uid].status # "none"}
  OBVIOUS
<1>2. /\ Call(c).at = "find" /\ Call(c).kind = "connector" /\ UNCHANGED rowVars
      /\ IF found = {} THEN GivesUp(c) ELSE \E s \in found : GoesToStation(c, s, "connector")
  BY <1>1 DEF FindForConnector
<1>3. ~LocationIdle(c) /\ MayMake(c)
  BY <1>2 DEF LocationIdle, MayMake
<1>4. ASSUME GivesUp(c) PROVE StoredIInv'
  BY <1>2, <1>3, <1>4, GivesUpKeeps
<1>5. ASSUME NEW s \in found, GoesToStation(c, s, "connector") PROVE StoredIInv'
  <2>1. s \in stations /\ evses[s][Now(c).uid].status # "none" /\ Call(c).body # <<>>
    BY <1>1, <1>2, <1>3, OneIsThere DEF Whole
  <2> QED BY <1>2, <1>3, <1>5, <2>1, FindsStation
<1> QED BY <1>2, <1>4, <1>5

LEMMA FindToPatchKeeps ==
  ASSUME StoredIInv, NEW c \in LocationCalls, FindToPatch(c)
  PROVE  StoredIInv'
<1>1. /\ Call(c).at = "find" /\ Call(c).kind \in {"patch evse", "patch connector"} /\ UNCHANGED rowVars
      /\ \/ GivesUp(c)
         \/ \E s \in stations :
              /\ ~(evses[s][Now(c).uid].status = "none"
                   \/ (Call(c).kind = "patch connector" /\ evses[s][Now(c).uid].connector = "none"))
              /\ GoesToStation(c, s, IF Call(c).kind = "patch evse" THEN "patch" ELSE "patch fields")
  BY DEF FindToPatch
<1>2. ~LocationIdle(c) /\ MayMake(c)
  BY <1>1 DEF LocationIdle, MayMake
<1>3. ASSUME GivesUp(c) PROVE StoredIInv'
  BY <1>1, <1>2, <1>3, GivesUpKeeps
<1>4. ASSUME NEW s \in stations, evses[s][Now(c).uid].status # "none",
             Call(c).kind = "patch connector" => evses[s][Now(c).uid].connector # "none",
             GoesToStation(c, s, IF Call(c).kind = "patch evse" THEN "patch" ELSE "patch fields")
      PROVE  StoredIInv'
  <2>0. Call(c).body # <<>>
    BY <1>1, <1>2, OneIsThere DEF Whole
  <2>1. CASE Call(c).kind = "patch evse"
    BY <1>1, <1>2, <1>4, <2>0, <2>1, FindsStation
  <2>2. CASE Call(c).kind = "patch connector"
    BY <1>1, <1>2, <1>4, <2>0, <2>2, FindsStation
  <2> QED BY <1>1, <2>1, <2>2
<1> QED BY <1>1, <1>3, <1>4

-----------------------------------------------------------------------------
\* The row of the EVSE that the call is at is written.
Written(c, row) ==
    /\ RowsAreTyped /\ RowsGrow /\ RowsAreWhole' /\ UNCHANGED <<locationRow, stations, knownTariffs>>
    /\ Call(c).station \in Stations /\ evses'[Call(c).station][Now(c).uid] = row
    /\ \A s \in Stations : \A u \in Uids : s # Call(c).station \/ u # Now(c).uid => evses'[s][u] = evses[s][u]
    /\ ~overlapped => /\ Cardinality(stations') <= 1
                      /\ \A s \in Stations : \A u \in Uids : \A t \in Tariffs : evses'[s][u].links[t] <= 1
StoringCall(c) == Call(c).alone /\ Call(c).kind \in Whole \cup {"evse"}

LEMMA RowIsWritten ==
  ASSUME StoredIInv, NEW c \in LocationCalls, ~LocationIdle(c), Call(c).station \in stations,
         Call(c).at \in Storing \cup {"patch"},
         NEW row \in EvseType, Writes(c, row), UNCHANGED <<locationRow, stations, knownTariffs>>,
         row.status # "none", RowOf(c).connector # "none" => row.connector # "none",
         row.links # NoEvse.links => row.connector # "none",
         ~overlapped => \A t \in Tariffs : row.links[t] <= 1
  PROVE  Written(c, row)
<1>1. LocationTypeOK /\ OnceAtATime /\ Call(c).station \in Stations /\ Now(c).uid \in Uids
  BY LocationCallIs DEF StoredIInv, LocationTypeOK
<1>2. PICK s, u : s = Call(c).station /\ u = Now(c).uid
  OBVIOUS
<1>3. s \in stations /\ u \in Uids /\ s \in Stations
  BY <1>1, <1>2
<1>4. RowIs(s, u, row)
  BY <1>2 DEF RowIs, Writes
<1>5. evses[s][u].connector # "none" => row.connector # "none"
  BY <1>2 DEF RowOf
<1>6. /\ RowsAreTyped /\ RowsGrow /\ RowsAreWhole' /\ evses'[s][u] = row
      /\ \A s2 \in Stations : \A u2 \in Uids : s2 # s \/ u2 # u => evses'[s2][u2] = evses[s2][u2]
  BY <1>3, <1>4, <1>5, RowMayBe
<1>7. ASSUME ~overlapped
      PROVE  /\ Cardinality(stations') <= 1
             /\ \A s2 \in Stations : \A u2 \in Uids : \A t \in Tariffs : evses'[s2][u2].links[t] <= 1
  <2>1. /\ Cardinality(stations) <= 1
        /\ \A s2 \in Stations : \A u2 \in Uids : \A t \in Tariffs : evses[s2][u2].links[t] <= 1
    BY <1>1, <1>7 DEF OnceAtATime
  <2>2. ASSUME NEW s2 \in Stations, NEW u2 \in Uids, NEW t \in Tariffs PROVE evses'[s2][u2].links[t] <= 1
    <3>1. CASE s2 = s /\ u2 = u
      BY <1>6, <1>7, <3>1
    <3>2. CASE s2 # s \/ u2 # u
      BY <1>6, <2>1, <3>2
    <3> QED BY <3>1, <3>2
  <2> QED BY <2>1, <2>2
<1> QED BY <1>1, <1>2, <1>6, <1>7 DEF Written

\* What was stored before of the body is left alone.
LEMMA EarlierStay ==
  ASSUME StoredIInv, NEW c \in LocationCalls, ~LocationIdle(c), NEW row, Written(c, row),
         StoredUpTo(c, Call(c).i - 1), Call(c).at \in Storing
  PROVE  \A j \in 1..(Call(c).i - 1) : HoldsEvse(evses'[Call(c).station][Call(c).body[j].uid], Call(c).body[j])
<1> SUFFICES ASSUME NEW j \in 1..(Call(c).i - 1)
    PROVE  HoldsEvse(evses'[Call(c).station][Call(c).body[j].uid], Call(c).body[j])
  OBVIOUS
<1>1. PICK body, i : body = Call(c).body /\ i = Call(c).i
  OBVIOUS
<1>2. body \in Bodies /\ i \in 1..Len(body) /\ Len(body) \in Nat /\ DOMAIN body = 1..Len(body)
  BY <1>1, LocationCallIs
<1>3. j \in DOMAIN body /\ i \in DOMAIN body /\ j # i
  BY <1>1, <1>2
<1>4. body[j].uid \in Uids /\ body[j].uid # body[i].uid
  BY <1>2, <1>3, BodiesAre
<1>5. Now(c).uid = body[i].uid
  BY <1>1 DEF Now
<1>6. evses'[Call(c).station][body[j].uid] = evses[Call(c).station][body[j].uid]
  BY <1>4, <1>5 DEF Written
<1>7. HoldsEvse(evses[Call(c).station][Call(c).body[j].uid], Call(c).body[j])
  BY DEF StoredUpTo
<1> QED BY <1>1, <1>6, <1>7

LEMMA StoringIs ==
  ASSUME StoredIInv, NEW c \in LocationCalls, ~LocationIdle(c)
  PROVE  /\ StoringCall(c) /\ Call(c).at \in Storing => StoredUpTo(c, Call(c).i - 1)
         /\ Call(c).at \in Storing \cup {"patch", "patch fields"} \cup Ending =>
              Call(c).station \in stations /\ Call(c).station \in Stations
         /\ StoringCall(c) /\ Call(c).at \in {"connector", "unlink", "link"} => RowOf(c).status = Now(c).status
<1>1. LocationTypeOK /\ CallIsGrounded(c) /\ StoresAlone(c)
  BY LocationCallIs DEF StoredIInv, CallsStore
<1> QED BY <1>1 DEF StoresAlone, StoringCall, CallIsGrounded, LocationTypeOK

\* The call writes on at the same EVSE.
LEMMA WritesOn ==
  ASSUME StoredIInv, NEW c \in LocationCalls, ~LocationIdle(c), Call(c).at \in Storing \cup {"patch fields"},
         NEW row, Written(c, row), OthersAreLeft(c), CallKeeps(c), Call(c)'.i = Call(c).i,
         Call(c)'.station = Call(c).station, Call(c)'.at \in {"connector", "unlink", "link"}, Now(c).connector,
         row.status # "none", Call(c)'.at # "connector" => row.connector # "none",
         Call(c)'.at = "link" => /\ Call(c)'.left \subseteq Now(c).tariffs /\ Call(c)'.left # {}
                                 /\ ~overlapped => \A t \in Call(c)'.left : row.links[t] = 0,
         StoringCall(c) =>
           /\ row.status = Now(c).status
           /\ Call(c)'.at = "link" =>
                \A t \in Tariffs : row.links[t] = IF t \in Now(c).tariffs \ Call(c)'.left THEN 1 ELSE 0
  PROVE  StoredIInv'
<1>0. Call(c)'.at \notin Ending /\ Call(c)'.at # "idle" /\ Call(c)'.at \in Storing
  BY DEF Storing, Ending
<1>1. CallIsPlaced(c) /\ CallIsGrounded(c)
  BY LocationCallIs
<1>2. Now(c)' = Now(c) /\ RowOf(c)' = row
  BY DEF Now, RowOf, CallKeeps, Written
<1>3. RowsAreTyped /\ RowsGrow /\ RowsAreWhole' /\ stations' = stations
  BY DEF Written
<1>4. StationsAreCounted'
  <2>1. ~MayMake(c)'
    BY DEF MayMake
  <2> QED BY <1>3, <2>1, CountStays
<1>5. OnceForCall(c)
  BY <1>2 DEF OnceForCall, Written
<1>6. CallIsPlaced(c)'
  BY <1>0, <1>1, <1>2 DEF CallIsPlaced, CallKeeps, Ending
<1>7. CallIsGrounded(c)'
  <2>1. Call(c).station \in stations
    BY StoringIs
  <2> QED BY <1>0, <1>2, <1>3, <2>1 DEF CallIsGrounded
<1>8. StoresAlone(c)' /\ MarksAreUnlisted(c)' /\ UnlistedAreMarked(c)'
  <2>1. ASSUME StoringCall(c) PROVE StoredUpTo(c, Call(c).i - 1)'
    <3>1. Call(c).at \in Storing
      BY <1>1, <2>1 DEF CallIsPlaced, StoringCall, Whole
    <3>2. \A j \in 1..(Call(c).i - 1) : HoldsEvse(evses'[Call(c).station][Call(c).body[j].uid], Call(c).body[j])
      BY <2>1, <3>1, StoringIs, EarlierStay
    <3>3. \A j \in 1..(Call(c)'.i - 1) :
            HoldsEvse(evses'[Call(c)'.station][Call(c)'.body[j].uid], Call(c)'.body[j])
      BY <3>2 DEF CallKeeps
    <3> QED BY <3>3 DEF StoredUpTo
  <2>2. Call(c)'.alone /\ Call(c)'.kind \in Whole \cup {"evse"} => StoringCall(c)
    BY DEF CallKeeps, StoringCall
  <2>3. StoresAlone(c)'
    BY <1>0, <1>2, <2>1, <2>2 DEF StoresAlone
  <2> QED BY <1>0, <2>3 DEF MarksAreUnlisted, UnlistedAreMarked
<1>9. CallGoesOn(c)
  BY <1>0, <1>6, <1>7, <1>8 DEF CallGoesOn, CallKeeps, LocationIdle
<1> QED BY <1>3, <1>4, <1>5, <1>9, LocationGoesOn

\* The EVSE is stored, and with the last one the body.
LEMMA EvseIsDone ==
  ASSUME StoredIInv, NEW c \in LocationCalls, ~LocationIdle(c), Call(c).at \in Storing,
         NEW row, Written(c, row), NextEvse(c), StoringCall(c) => HoldsEvse(row, Now(c))
  PROVE  StoredIInv'
<1>1. /\ LocationTypeOK /\ CallIsPlaced(c) /\ Call(c).body \in Bodies /\ Len(Call(c).body) \in Nat
      /\ DOMAIN Call(c).body = 1..Len(Call(c).body) /\ Call(c).i \in 1..Len(Call(c).body) /\ Call(c).i \in Nat
  BY LocationCallIs DEF StoredIInv
<1>2. RowsAreTyped /\ RowsGrow /\ RowsAreWhole' /\ stations' = stations
  BY DEF Written
<1>3. Call(c).station \in stations /\ Call(c).station \in Stations
  BY StoringIs
<1>4. ASSUME StoringCall(c)
      PROVE  \A j \in 1..Call(c).i : HoldsEvse(evses'[Call(c).station][Call(c).body[j].uid], Call(c).body[j])
  <2>1. \A j \in 1..(Call(c).i - 1) : HoldsEvse(evses'[Call(c).station][Call(c).body[j].uid], Call(c).body[j])
    BY <1>4, StoringIs, EarlierStay
  <2>2. HoldsEvse(evses'[Call(c).station][Call(c).body[Call(c).i].uid], Call(c).body[Call(c).i])
    BY <1>4 DEF Written, Now
  <2>3. \A j \in 1..Call(c).i : j = Call(c).i \/ j \in 1..(Call(c).i - 1)
    BY <1>1
  <2> QED BY <2>1, <2>2, <2>3
<1>5. ASSUME ~MayMake(c)', OthersAreLeft(c) PROVE StationsAreCounted'
  BY <1>2, <1>5, CountStays
<1>6. ASSUME Call(c)'.at \in {"evse", "read", "mark location", "idle"} PROVE OnceForCall(c)
  BY <1>6 DEF OnceForCall, Written
<1>7. CASE Call(c).i < Len(Call(c).body)
  <2>1. PICK call : call = [Call(c) EXCEPT !.i = Call(c).i + 1, !.at = "evse"]
    OBVIOUS
  <2>2. Call(c) \in CallType /\ Call(c) = locationCall[c]
    BY <1>1 DEF LocationTypeOK, Call
  <2>3. /\ call \in CallType /\ call.at = "evse" /\ call.kind = Call(c).kind /\ call.body = Call(c).body
        /\ call.alone = Call(c).alone /\ call.i = Call(c).i + 1 /\ call.station = Call(c).station
    <3>1. Call(c).i + 1 \in Nat /\ "evse" \in Places
      BY <1>1 DEF Places
    <3>2. PICK n : n = Call(c).i + 1
      OBVIOUS
    <3> QED BY <2>1, <2>2, <3>1, <3>2 DEF CallType
  <2>4. locationCall' = [locationCall EXCEPT ![c] = call] /\ UNCHANGED <<starts, overlapped, hidden>> /\ done' = done
    BY <1>1, <1>7, <2>1, <2>2 DEF NextEvse
  <2>5. OthersAreLeft(c) /\ Call(c)' = call
    BY <1>1, <2>3, <2>4, CallBecomes
  <2>6. Call(c)'.at = "evse" /\ Call(c)'.at \in Storing /\ Call(c)'.at \notin Ending /\ Call(c)'.at # "idle"
    BY <2>3, <2>5 DEF Storing, Ending
  <2>7. CallKeeps(c) /\ Call(c)'.i = Call(c).i + 1 /\ Call(c)'.station = Call(c).station
    BY <2>3, <2>4, <2>5 DEF CallKeeps
  <2>8. CallIsPlaced(c)'
    <3>0. Len(Call(c).body) # 1
      <4>1. PICK n, k : n = Len(Call(c).body) /\ k = Call(c).i
        OBVIOUS
      <4>2. n \in Nat /\ k \in 1..n /\ k < n
        BY <1>1, <1>7, <4>1
      <4>3. n # 1
        BY <4>2
      <4> QED BY <4>1, <4>3
    <3>1. Call(c).kind \in Whole
      BY <1>1, <3>0 DEF CallIsPlaced
    <3>2. Call(c).i + 1 \in DOMAIN Call(c).body
      BY <1>1, <1>7
    <3> QED BY <1>1, <2>6, <2>7, <3>1, <3>2 DEF CallIsPlaced, CallKeeps, Whole, Ending
  <2>9. CallIsGrounded(c)'
    BY <1>2, <1>3, <2>6, <2>7 DEF CallIsGrounded
  <2>10. StoresAlone(c)'
    <3>1. ASSUME StoringCall(c) PROVE StoredUpTo(c, Call(c).i - 1)'
      <4>1. 1..(Call(c)'.i - 1) = 1..Call(c).i
        BY <1>1, <2>7
      <4>2. \A j \in 1..(Call(c)'.i - 1) :
              HoldsEvse(evses'[Call(c)'.station][Call(c)'.body[j].uid], Call(c)'.body[j])
        BY <1>4, <2>7, <3>1, <4>1 DEF CallKeeps
      <4> QED BY <4>2 DEF StoredUpTo
    <3>2. Call(c)'.alone /\ Call(c)'.kind \in Whole \cup {"evse"} => StoringCall(c)
      BY <2>7 DEF CallKeeps, StoringCall
    <3> QED BY <2>6, <3>1, <3>2 DEF StoresAlone
  <2>11. CallGoesOn(c)
    BY <2>6, <2>7, <2>8, <2>9, <2>10 DEF CallGoesOn, CallKeeps, LocationIdle, MarksAreUnlisted, UnlistedAreMarked
  <2>12. StationsAreCounted' /\ OnceForCall(c)
    BY <1>5, <1>6, <2>5, <2>6 DEF MayMake
  <2> QED BY <1>2, <2>5, <2>11, <2>12, LocationGoesOn
<1>8. CASE ~(Call(c).i < Len(Call(c).body))
  <2>1. Call(c).i = Len(Call(c).body) /\ EndsBody(c, Call(c).station)
    BY <1>1, <1>8 DEF NextEvse
  <2>2. OthersAreLeft(c) /\ ~MayMake(c)'
    BY <1>1, <1>3, <2>1, EndsBodyIs
  <2>3. StationsAreCounted'
    BY <1>5, <2>2
  <2>4. Call(c).alone /\ Call(c).kind \in Whole \cup {"evse"} => \A j \in 1..Len(Call(c).body) :
          HoldsEvse(evses'[Call(c).station][Call(c).body[j].uid], Call(c).body[j])
    BY <1>4, <2>1 DEF StoringCall
  <2> QED BY <1>2, <1>3, <2>1, <2>3, <2>4, BodyEnds DEF Written
<1> QED BY <1>7, <1>8

LEMMA UpsertEvseKeeps ==
  ASSUME StoredIInv, NEW c \in LocationCalls, UpsertEvse(c)
  PROVE  StoredIInv'
<1>1. PICK row : row = [RowOf(c) EXCEPT !.status = Now(c).status]
  OBVIOUS
<1>2. /\ Call(c).at = "evse" /\ Writes(c, row) /\ UNCHANGED <<locationRow, stations, knownTariffs>>
      /\ IF Now(c).connector THEN GoesTo(c, "connector") ELSE NextEvse(c)
  BY <1>1 DEF UpsertEvse
<1>3. ~LocationIdle(c) /\ Call(c).at \in Storing /\ "connector" \in Places
  BY <1>2 DEF LocationIdle, Storing, Places
<1>4. /\ LocationTypeOK /\ RowsAreWhole /\ OnceAtATime /\ Now(c).status \in {"AVAILABLE", "REMOVED"} /\ Now(c).uid \in Uids
      /\ Call(c).station \in stations /\ Call(c).station \in Stations
  BY <1>3, LocationCallIs, StoringIs DEF StoredIInv
<1>5. RowOf(c) \in EvseType
  BY <1>4, EvsesAre DEF RowOf
<1>6. /\ row \in EvseType /\ row.status = Now(c).status /\ row.connector = RowOf(c).connector
      /\ row.links = RowOf(c).links
  BY <1>1, <1>4, <1>5 DEF EvseType
<1>7. /\ RowOf(c).links # NoEvse.links => RowOf(c).connector # "none"
      /\ ~overlapped => \A t \in Tariffs : RowOf(c).links[t] <= 1
  BY <1>4 DEF RowsAreWhole, OnceAtATime, RowOf
<1>8. Written(c, row)
  BY <1>2, <1>3, <1>4, <1>6, <1>7, RowIsWritten
<1>9. CASE Now(c).connector
  <2>1. /\ OthersAreLeft(c) /\ CallKeeps(c) /\ Call(c)'.at = "connector" /\ Call(c)'.i = Call(c).i
        /\ Call(c)'.station = Call(c).station
    BY <1>2, <1>3, <1>4, <1>9, GoesToIs
  <2> QED BY <1>3, <1>4, <1>6, <1>8, <1>9, <2>1, WritesOn
<1>10. CASE ~Now(c).connector
  BY <1>2, <1>3, <1>6, <1>8, <1>10, EvseIsDone DEF HoldsEvse
<1> QED BY <1>9, <1>10

LEMMA UpsertConnectorKeeps ==
  ASSUME StoredIInv, NEW c \in LocationCalls, UpsertConnector(c)
  PROVE  StoredIInv'
<1>1. PICK row : row = [RowOf(c) EXCEPT !.connector = IF RowOf(c).connector = "none" THEN "there" ELSE RowOf(c).connector]
  OBVIOUS
<1>2. /\ Call(c).at = "connector" /\ Writes(c, row) /\ UNCHANGED <<locationRow, stations, knownTariffs>>
      /\ GoesTo(c, "unlink")
  BY <1>1 DEF UpsertConnector
<1>3. ~LocationIdle(c) /\ Call(c).at \in Storing /\ "unlink" \in Places
  BY <1>2 DEF LocationIdle, Storing, Places
<1>4. /\ LocationTypeOK /\ RowsAreWhole /\ OnceAtATime /\ Now(c).uid \in Uids
      /\ Call(c).station \in stations /\ Call(c).station \in Stations
      /\ CallIsPlaced(c) /\ CallIsGrounded(c) /\ (StoringCall(c) => RowOf(c).status = Now(c).status)
  BY <1>2, <1>3, LocationCallIs, StoringIs DEF StoredIInv
<1>5. RowOf(c) \in EvseType
  BY <1>4, EvsesAre DEF RowOf
<1>6. /\ row \in EvseType /\ row.status = RowOf(c).status /\ row.connector # "none"
      /\ row.links = RowOf(c).links
  BY <1>1, <1>5 DEF EvseType
<1>7. /\ RowOf(c).status # "none" /\ Now(c).connector
      /\ ~overlapped => \A t \in Tariffs : RowOf(c).links[t] <= 1
  BY <1>2, <1>4 DEF CallIsPlaced, CallIsGrounded, OnceAtATime, RowOf
<1>8. Written(c, row)
  BY <1>2, <1>3, <1>4, <1>6, <1>7, RowIsWritten
<1>9. /\ OthersAreLeft(c) /\ CallKeeps(c) /\ Call(c)'.at = "unlink" /\ Call(c)'.i = Call(c).i
      /\ Call(c)'.station = Call(c).station
  BY <1>2, <1>3, <1>4, GoesToIs
<1> QED BY <1>3, <1>4, <1>6, <1>7, <1>8, <1>9, WritesOn

LEMMA UnlinkTariffsKeeps ==
  ASSUME StoredIInv, NEW c \in LocationCalls, UnlinkTariffs(c)
  PROVE  StoredIInv'
<1>1. PICK row : row = [RowOf(c) EXCEPT !.links = NoEvse.links]
  OBVIOUS
<1>2. /\ Call(c).at = "unlink" /\ Writes(c, row) /\ UNCHANGED <<locationRow, stations, knownTariffs>>
      /\ IF Now(c).tariffs = {} THEN NextEvse(c) ELSE HasLeft(c, Now(c).tariffs, "link")
  BY <1>1 DEF UnlinkTariffs
<1>3. ~LocationIdle(c) /\ Call(c).at \in Storing
  BY <1>2 DEF LocationIdle, Storing
<1>4. /\ LocationTypeOK /\ RowsAreWhole /\ Now(c).uid \in Uids /\ Now(c).tariffs \in SUBSET Tariffs
      /\ Call(c).station \in stations /\ Call(c).station \in Stations
      /\ CallIsPlaced(c) /\ CallIsGrounded(c) /\ (StoringCall(c) => RowOf(c).status = Now(c).status)
  BY <1>2, <1>3, LocationCallIs, StoringIs DEF StoredIInv
<1>5. RowOf(c) \in EvseType
  BY <1>4, EvsesAre DEF RowOf
<1>6. /\ row \in EvseType /\ row.status = RowOf(c).status /\ row.connector = RowOf(c).connector
      /\ row.links = NoEvse.links /\ \A t \in Tariffs : row.links[t] = 0
  BY <1>1, <1>5, NoEvseIs DEF EvseType
<1>7. /\ RowOf(c).connector # "none" /\ Now(c).connector
      /\ RowOf(c).status # "none"
  BY <1>2, <1>4 DEF CallIsPlaced, CallIsGrounded, RowOf, RowsAreWhole
<1>8. Written(c, row)
  <2>1. ~overlapped => \A t \in Tariffs : row.links[t] <= 1
    BY <1>6
  <2> QED BY <1>2, <1>3, <1>4, <1>6, <1>7, <2>1, RowIsWritten
<1>9. CASE Now(c).tariffs # {}
  <2>1. /\ OthersAreLeft(c) /\ CallKeeps(c) /\ Call(c)'.at = "link" /\ Call(c)'.i = Call(c).i
        /\ Call(c)'.station = Call(c).station /\ Call(c)'.left = Now(c).tariffs
    BY <1>2, <1>4, <1>9, HasLeftIs
  <2>2. /\ Call(c)'.left \subseteq Now(c).tariffs /\ Call(c)'.left # {}
        /\ \A t \in Call(c)'.left : row.links[t] = 0
        /\ \A t \in Tariffs : row.links[t] = IF t \in Now(c).tariffs \ Call(c)'.left THEN 1 ELSE 0
    BY <1>4, <1>6, <1>9, <2>1
  <2> QED BY <1>3, <1>4, <1>6, <1>7, <1>8, <2>1, <2>2, WritesOn
<1>10. CASE Now(c).tariffs = {}
  <2>1. StoringCall(c) => HoldsEvse(row, Now(c))
    BY <1>4, <1>6, <1>7, <1>10 DEF HoldsEvse
  <2> QED BY <1>2, <1>3, <1>8, <1>10, <2>1, EvseIsDone
<1> QED BY <1>9, <1>10

LEMMA LinkTariffKeeps ==
  ASSUME StoredIInv, NEW c \in LocationCalls, NEW t \in Tariffs, LinkTariff(c, t)
  PROVE  StoredIInv'
<1>1. PICK row : row = [RowOf(c) EXCEPT !.links[t] = RowOf(c).links[t] + 1]
  OBVIOUS
<1>2. /\ Call(c).at = "link" /\ Writes(c, row) /\ UNCHANGED <<locationRow, stations, knownTariffs>>
      /\ t \in Call(c).left
      /\ IF Call(c).left = {t} THEN NextEvse(c) ELSE HasLeft(c, Call(c).left \ {t}, "link")
  BY <1>1 DEF LinkTariff
<1>3. ~LocationIdle(c) /\ Call(c).at \in Storing
  BY <1>2 DEF LocationIdle, Storing
<1>4. /\ LocationTypeOK /\ RowsAreWhole /\ OnceAtATime /\ Now(c).uid \in Uids /\ Now(c).tariffs \subseteq Tariffs
      /\ Call(c).station \in stations /\ Call(c).station \in Stations
      /\ CallIsPlaced(c) /\ CallIsGrounded(c) /\ (StoringCall(c) => RowOf(c).status = Now(c).status)
  BY <1>2, <1>3, LocationCallIs, StoringIs DEF StoredIInv
<1>5. RowOf(c) \in EvseType /\ RowOf(c).links \in [Tariffs -> Nat]
  BY <1>4, EvsesAre DEF RowOf
<1>6. /\ row \in EvseType /\ row.status = RowOf(c).status /\ row.connector = RowOf(c).connector
      /\ row.links[t] = RowOf(c).links[t] + 1
      /\ \A t2 \in Tariffs : t2 # t => row.links[t2] = RowOf(c).links[t2]
  <2>1. PICK links2 : links2 = [RowOf(c).links EXCEPT ![t] = RowOf(c).links[t] + 1]
    OBVIOUS
  <2>2. /\ links2 \in [Tariffs -> Nat] /\ links2[t] = RowOf(c).links[t] + 1
        /\ \A t2 \in Tariffs : t2 # t => links2[t2] = RowOf(c).links[t2]
    BY <1>5, <2>1
  <2>3. row = [RowOf(c) EXCEPT !.links = links2]
    BY <1>1, <2>1
  <2> QED BY <1>5, <2>2, <2>3 DEF EvseType
<1>7. /\ RowOf(c).connector # "none" /\ Now(c).connector /\ RowOf(c).status # "none"
      /\ Call(c).left \subseteq Now(c).tariffs
  BY <1>2, <1>4 DEF CallIsPlaced, CallIsGrounded, RowOf, RowsAreWhole
<1>8. ~overlapped => (\A t2 \in Call(c).left : RowOf(c).links[t2] = 0) /\ (\A t2 \in Tariffs : RowOf(c).links[t2] <= 1)
  BY <1>2, <1>4 DEF OnceAtATime, RowOf
<1>9. Written(c, row)
  <2>1. ~overlapped => \A t2 \in Tariffs : row.links[t2] <= 1
    BY <1>2, <1>6, <1>8
  <2> QED BY <1>2, <1>3, <1>4, <1>6, <1>7, <2>1, RowIsWritten
<1>10. StoringCall(c) => \A t2 \in Tariffs : RowOf(c).links[t2] = IF t2 \in Now(c).tariffs \ Call(c).left THEN 1 ELSE 0
  BY <1>2 DEF StoredIInv, CallsStore, StoresAlone, StoringCall
<1>11. StoringCall(c) =>
         \A t2 \in Tariffs : row.links[t2] = IF t2 \in Now(c).tariffs \ (Call(c).left \ {t}) THEN 1 ELSE 0
  BY <1>2, <1>6, <1>7, <1>10
<1>12. CASE Call(c).left # {t}
  <2>1. PICK left : left = Call(c).left \ {t}
    OBVIOUS
  <2>2. left \subseteq Now(c).tariffs /\ left # {} /\ left \in SUBSET Tariffs /\ HasLeft(c, left, "link")
    BY <1>2, <1>4, <1>7, <1>12, <2>1
  <2>3. /\ OthersAreLeft(c) /\ CallKeeps(c) /\ Call(c)'.at = "link" /\ Call(c)'.i = Call(c).i
        /\ Call(c)'.station = Call(c).station /\ Call(c)'.left = left
    BY <1>4, <2>2, HasLeftIs
  <2>4. ~overlapped => \A t2 \in left : row.links[t2] = 0
    BY <1>4, <1>6, <1>7, <1>8, <2>1
  <2> QED BY <1>3, <1>4, <1>6, <1>7, <1>9, <1>11, <2>1, <2>2, <2>3, <2>4, WritesOn
<1>13. CASE Call(c).left = {t}
  <2>1. StoringCall(c) => HoldsEvse(row, Now(c))
    <3>1. Call(c).left \ {t} = {}
      BY <1>13
    <3> QED BY <1>4, <1>6, <1>7, <1>11, <3>1 DEF HoldsEvse
  <2> QED BY <1>2, <1>3, <1>9, <1>13, <2>1, EvseIsDone
<1> QED BY <1>12, <1>13

LEMMA PatchEvseKeeps ==
  ASSUME StoredIInv, NEW c \in LocationCalls, PatchEvse(c)
  PROVE  StoredIInv'
<1>1. PICK row : row = [RowOf(c) EXCEPT !.status = Now(c).status]
  OBVIOUS
<1>2. /\ Call(c).at = "patch" /\ Writes(c, row) /\ Completes(c) /\ UNCHANGED <<locationRow, stations, knownTariffs>>
  BY <1>1 DEF PatchEvse
<1>3. ~LocationIdle(c)
  BY <1>2 DEF LocationIdle
<1>4. /\ LocationTypeOK /\ RowsAreWhole /\ OnceAtATime /\ Now(c).status \in {"AVAILABLE", "REMOVED"} /\ Now(c).uid \in Uids
      /\ Call(c).station \in stations /\ Call(c).station \in Stations /\ Call(c).kind = "patch evse"
  BY <1>2, <1>3, LocationCallIs, StoringIs DEF StoredIInv, CallIsPlaced
<1>5. RowOf(c) \in EvseType
  BY <1>4, EvsesAre DEF RowOf
<1>6. /\ row \in EvseType /\ row.status = Now(c).status /\ row.connector = RowOf(c).connector
      /\ row.links = RowOf(c).links
  BY <1>1, <1>4, <1>5 DEF EvseType
<1>7. /\ RowOf(c).links # NoEvse.links => RowOf(c).connector # "none"
      /\ ~overlapped => \A t \in Tariffs : RowOf(c).links[t] <= 1
  BY <1>4 DEF RowsAreWhole, OnceAtATime, RowOf
<1>8. Written(c, row)
  BY <1>2, <1>3, <1>4, <1>6, <1>7, RowIsWritten
<1>9. OthersAreLeft(c) /\ locationCall'[c] = NoCall /\ Call(c)' = NoCall /\ done' = Call(c)
  BY <1>2, <1>4, CompletesIs
<1>10. AloneHolds' /\ FullPullMirrors'
  BY <1>4, <1>9 DEF AloneHolds, FullPullMirrors, Whole
<1>11. OnceForCall(c) /\ ~MayMake(c)'
  BY <1>8, <1>9, NoCallIs DEF OnceForCall, Written, MayMake
<1>12. RowsAreTyped /\ RowsGrow /\ RowsAreWhole' /\ stations' = stations
  BY <1>8 DEF Written
<1>13. StationsAreCounted'
  BY <1>3, <1>9, <1>11, <1>12, CountStays
<1> QED BY <1>3, <1>9, <1>10, <1>11, <1>12, <1>13, LocationEnds

LEMMA PatchConnectorKeeps ==
  ASSUME StoredIInv, NEW c \in LocationCalls, PatchConnector(c)
  PROVE  StoredIInv'
<1>1. /\ Call(c).at = "patch fields" /\ UNCHANGED rowVars
      /\ IF Now(c).tariffs = {} THEN Completes(c) ELSE GoesTo(c, "unlink")
  BY DEF PatchConnector
<1>2. ~LocationIdle(c) /\ "unlink" \in Places
  BY <1>1 DEF LocationIdle, Places
<1>3. /\ LocationTypeOK /\ RowsAreWhole /\ OnceAtATime /\ Now(c).uid \in Uids
      /\ Call(c).station \in stations /\ Call(c).station \in Stations /\ Call(c).kind = "patch connector"
      /\ CallIsPlaced(c) /\ CallIsGrounded(c)
  BY <1>1, <1>2, LocationCallIs, StoringIs DEF StoredIInv, CallIsPlaced
<1>4. RowsAreTyped /\ RowsGrow /\ RowsAreWhole' /\ UNCHANGED <<locationRow, stations, evses, knownTariffs>>
  BY <1>1, RowsMayStay DEF rowVars
<1>5. Written(c, RowOf(c))
  BY <1>3, <1>4 DEF Written, RowOf, OnceAtATime
<1>6. CASE Now(c).tariffs # {}
  <2>1. /\ OthersAreLeft(c) /\ CallKeeps(c) /\ Call(c)'.at = "unlink" /\ Call(c)'.i = Call(c).i
        /\ Call(c)'.station = Call(c).station
    BY <1>1, <1>2, <1>3, <1>6, GoesToIs
  <2>2. RowOf(c).connector # "none" /\ RowOf(c).status # "none"
    BY <1>1, <1>3 DEF CallIsGrounded, RowsAreWhole, RowOf
  <2>3. Now(c).connector
    <3>1. Call(c).i \in 1..1 /\ Call(c).body[1].connector
      BY <1>2, <1>3, OneIsThere DEF CallIsPlaced, Whole
    <3>2. Call(c).i = 1
      BY <3>1
    <3> QED BY <3>1, <3>2 DEF Now
  <2>4. ~StoringCall(c)
    BY <1>3 DEF StoringCall, Whole
  <2> QED BY <1>1, <1>2, <1>5, <2>1, <2>2, <2>3, <2>4, WritesOn
<1>7. CASE Now(c).tariffs = {}
  <2>1. OthersAreLeft(c) /\ locationCall'[c] = NoCall /\ Call(c)' = NoCall /\ done' = Call(c)
    BY <1>1, <1>3, <1>7, CompletesIs
  <2>2. AloneHolds' /\ FullPullMirrors'
    BY <1>3, <2>1 DEF AloneHolds, FullPullMirrors, Whole
  <2>3. OnceForCall(c) /\ ~MayMake(c)'
    BY <1>5, <2>1, NoCallIs DEF OnceForCall, Written, MayMake
  <2>4. StationsAreCounted'
    BY <1>2, <1>4, <2>1, <2>3, CountStays
  <2> QED BY <1>2, <1>4, <2>1, <2>2, <2>3, <2>4, LocationEnds
<1> QED BY <1>6, <1>7

-----------------------------------------------------------------------------
\* A step after the upsert: the call ends, or marks on.
LEMMA MarkLocationKeeps ==
  ASSUME StoredIInv, NEW c \in LocationCalls, MarkLocation(c)
  PROVE  StoredIInv'
<1>1. /\ Call(c).at = "mark location" /\ GoesTo(c, "read") /\ UNCHANGED <<stations, evses, knownTariffs>>
      /\ locationRow' = "removed" \/ locationRow' = locationRow
  BY DEF MarkLocation
<1>2. ~LocationIdle(c) /\ "read" \in Places /\ "read" \in Ending /\ Call(c).at \in Ending /\ "read" \notin Storing
  BY <1>1 DEF LocationIdle, Places, Ending, Storing
<1>3. /\ LocationTypeOK /\ RowsAreWhole /\ OnceAtATime /\ CallIsPlaced(c) /\ CallIsGrounded(c) /\ StoresAlone(c)
      /\ Call(c).station \in stations
  BY <1>2, LocationCallIs, StoringIs DEF StoredIInv, CallsStore
<1>4. RowsAreTyped /\ RowsGrow /\ RowsAreWhole'
  BY <1>1, <1>3 DEF LocationTypeOK, RowsAreTyped, RowsGrow, RowsAreWhole
<1>5. /\ OthersAreLeft(c) /\ CallKeeps(c) /\ Call(c)'.at = "read" /\ Call(c)'.i = Call(c).i
      /\ Call(c)'.station = Call(c).station
  BY <1>1, <1>2, <1>3, GoesToIs
<1>6. StationsAreCounted'
  <2>1. ~MayMake(c)'
    BY <1>5 DEF MayMake
  <2> QED BY <1>1, <1>2, <1>4, <1>5, <2>1, CountStays
<1>7. OnceForCall(c)
  BY <1>1, <1>3, <1>5 DEF OnceForCall, OnceAtATime
<1>8. CallIsPlaced(c)'
  BY <1>2, <1>3, <1>5 DEF CallIsPlaced, CallKeeps
<1>9. CallIsGrounded(c)'
  BY <1>1, <1>3, <1>5 DEF CallIsGrounded
<1>10. StoresAlone(c)'
  <2>1. ASSUME StoringCall(c) PROVE StoredUpTo(c, Len(Call(c).body))'
    <3>1. StoredUpTo(c, Len(Call(c).body))
      BY <1>2, <1>3, <2>1 DEF StoringCall, StoresAlone
    <3>2. \A j \in 1..Len(Call(c)'.body) :
            HoldsEvse(evses'[Call(c)'.station][Call(c)'.body[j].uid], Call(c)'.body[j])
      BY <1>1, <1>5, <3>1 DEF CallKeeps, StoredUpTo
    <3> QED BY <3>2 DEF StoredUpTo
  <2>2. Call(c)'.alone /\ Call(c)'.kind \in Whole \cup {"evse"} => StoringCall(c)
    BY <1>5 DEF CallKeeps, StoringCall
  <2> QED BY <1>2, <1>5, <2>1, <2>2 DEF StoresAlone
<1>11. CallGoesOn(c)
  BY <1>2, <1>5, <1>8, <1>9, <1>10 DEF CallGoesOn, CallKeeps, LocationIdle, MarksAreUnlisted, UnlistedAreMarked
<1> QED BY <1>2, <1>4, <1>5, <1>6, <1>7, <1>11, LocationGoesOn

LEMMA UnlistedIs ==
  ASSUME StoredIInv, NEW c \in LocationCalls, ~LocationIdle(c)
  PROVE  /\ Unlisted(c) \in SUBSET Marks
         /\ \A s \in Stations : \A u \in Uids :
              /\ <<"evse", s, u>> \in Unlisted(c) <=>
                   s \in stations /\ evses[s][u].status # "none" /\ Call(c).kind = "full pull" /\ ~InBody(c, u)
              /\ <<"connector", s, u>> \in Unlisted(c) <=>
                   /\ s \in stations /\ evses[s][u].status # "none" /\ evses[s][u].connector = "there"
                   /\ ~ConnectorInBody(c, u) /\ ~(Call(c).kind = "full pull" /\ ~InBody(c, u))
<1>1. stations \subseteq Stations
  BY DEF StoredIInv, LocationTypeOK
<1>2. PICK found : found = {r \in stations \X Uids : evses[r[1]][r[2]].status # "none"}
  OBVIOUS
<1>3. PICK gone : gone = {r \in found : Call(c).kind = "full pull" /\ ~InBody(c, r[2])}
  OBVIOUS
<1>4. PICK bare : bare = {r \in found \ gone : evses[r[1]][r[2]].connector = "there" /\ ~ConnectorInBody(c, r[2])}
  OBVIOUS
<1>5. Unlisted(c) = {<<"evse", r[1], r[2]>> : r \in gone} \cup {<<"connector", r[1], r[2]>> : r \in bare}
  BY <1>2, <1>3, <1>4 DEF Unlisted
<1>6. gone \subseteq found /\ bare \subseteq found /\ found \subseteq Stations \X Uids
  BY <1>1, <1>2, <1>3, <1>4
<1>7. Unlisted(c) \in SUBSET Marks
  BY <1>5, <1>6 DEF Marks
<1>8. ASSUME NEW s \in Stations, NEW u \in Uids
      PROVE  /\ <<"evse", s, u>> \in Unlisted(c) <=>
                   s \in stations /\ evses[s][u].status # "none" /\ Call(c).kind = "full pull" /\ ~InBody(c, u)
             /\ <<"connector", s, u>> \in Unlisted(c) <=>
                   /\ s \in stations /\ evses[s][u].status # "none" /\ evses[s][u].connector = "there"
                   /\ ~ConnectorInBody(c, u) /\ ~(Call(c).kind = "full pull" /\ ~InBody(c, u))
  <2>1. <<"evse", s, u>> \in Unlisted(c) <=> <<s, u>> \in gone
    BY <1>5, <1>6
  <2>2. <<"connector", s, u>> \in Unlisted(c) <=> <<s, u>> \in bare
    BY <1>5, <1>6
  <2>3. <<s, u>> \in found <=> s \in stations /\ evses[s][u].status # "none"
    BY <1>2
  <2>4. <<s, u>> \in gone <=> <<s, u>> \in found /\ Call(c).kind = "full pull" /\ ~InBody(c, u)
    BY <1>3
  <2>5. <<s, u>> \in bare <=> /\ <<s, u>> \in found /\ <<s, u>> \notin gone
                              /\ evses[s][u].connector = "there" /\ ~ConnectorInBody(c, u)
    BY <1>4
  <2> QED BY <2>1, <2>2, <2>3, <2>4, <2>5
<1> QED BY <1>7, <1>8

\* The call has nothing left to mark.
LEMMA PullMirrors ==
  ASSUME StoredIInv, NEW c \in LocationCalls, ~LocationIdle(c), Call(c).at \in Ending, done' = Call(c),
         stations' = stations,
         StoringCall(c) => \A j \in 1..Len(Call(c).body) :
           HoldsEvse(evses'[Call(c).station][Call(c).body[j].uid], Call(c).body[j]),
         Call(c).alone /\ Call(c).kind = "full pull" =>
           \A s \in stations : \A u \in Uids :
             /\ ~InBody(c, u) => evses'[s][u].status \in {"none", "REMOVED"}
             /\ InBody(c, u) /\ ~ConnectorInBody(c, u) => evses'[s][u].connector # "there"
  PROVE  AloneHolds' /\ FullPullMirrors'
<1>1. PICK body : body = Call(c).body
  OBVIOUS
<1>2. body \in Bodies /\ DOMAIN body = 1..Len(body)
  BY <1>1, LocationCallIs
<1>3. AloneHolds'
  <2> SUFFICES ASSUME Call(c).alone, Call(c).kind \in Whole \cup {"evse"}, NEW j \in DOMAIN Call(c).body
      PROVE  HoldsEvse(evses'[Call(c).station][Call(c).body[j].uid], Call(c).body[j])
    BY DEF AloneHolds
  <2>1. StoringCall(c)
    BY DEF StoringCall, Whole
  <2> QED BY <1>1, <1>2, <2>1
<1>4. ASSUME Call(c).alone, Call(c).kind = "full pull", NEW s \in stations, NEW u \in Uids
      PROVE  /\ {i \in DOMAIN body : body[i].uid = u} = {} => evses'[s][u].status \in {"none", "REMOVED"}
             /\ \A i \in {i \in DOMAIN body : body[i].uid = u} : evses'[s][u].connector = "there" => body[i].connector
  <2>1. CASE ~InBody(c, u)
    BY <1>1, <1>4, <2>1 DEF InBody
  <2>2. CASE InBody(c, u)
    <3>1. PICK j \in DOMAIN body : body[j].uid = u
      BY <1>1, <2>2 DEF InBody
    <3>2. \A i \in DOMAIN body : body[i].uid = u => i = j
      BY <1>2, <3>1, BodiesAre
    <3>3. evses'[s][u].connector = "there" => body[j].connector
      <4>1. evses'[s][u].connector = "there" => ConnectorInBody(c, u)
        BY <1>4, <2>2
      <4> QED BY <1>1, <3>2, <4>1 DEF ConnectorInBody
    <3> QED BY <3>1, <3>2, <3>3
  <2> QED BY <2>1, <2>2
<1>5. FullPullMirrors'
  <2>1. done' = Call(c) /\ done'.body = body /\ stations' = stations
    BY <1>1
  <2>2. done'.alone /\ done'.kind = "full pull" =>
          \A s \in stations', u \in Uids :
            /\ {i \in DOMAIN done'.body : done'.body[i].uid = u} = {} => evses'[s][u].status \in {"none", "REMOVED"}
            /\ \A i \in {i \in DOMAIN done'.body : done'.body[i].uid = u} :
                 evses'[s][u].connector = "there" => done'.body[i].connector
    BY <1>4, <2>1
  <2> QED BY <2>2 DEF FullPullMirrors
<1> QED BY <1>3, <1>5

LEMMA ReadRowsKeeps ==
  ASSUME StoredIInv, NEW c \in LocationCalls, ReadRows(c)
  PROVE  StoredIInv'
<1>1. /\ Call(c).at = "read" /\ UNCHANGED rowVars
      /\ IF Unlisted(c) = {} THEN Completes(c) ELSE HasMarks(c, Unlisted(c))
  BY DEF ReadRows
<1>2. ~LocationIdle(c) /\ Call(c).at \in Ending /\ "mark" \in Ending /\ "mark" \notin Storing
  BY <1>1 DEF LocationIdle, Ending, Storing
<1>3. /\ LocationTypeOK /\ RowsAreWhole /\ OnceAtATime /\ CallIsPlaced(c) /\ CallIsGrounded(c) /\ StoresAlone(c)
      /\ Call(c).station \in stations /\ stations \subseteq Stations
  BY <1>2, LocationCallIs, StoringIs DEF StoredIInv, CallsStore, LocationTypeOK
<1>4. RowsAreTyped /\ RowsGrow /\ RowsAreWhole' /\ UNCHANGED <<locationRow, stations, evses, knownTariffs>>
  BY <1>1, RowsMayStay DEF rowVars
<1>5. StoringCall(c) => \A j \in 1..Len(Call(c).body) :
        HoldsEvse(evses'[Call(c).station][Call(c).body[j].uid], Call(c).body[j])
  BY <1>2, <1>3, <1>4 DEF StoringCall, StoresAlone, StoredUpTo
<1>6. ASSUME Call(c)'.at \in {"mark", "idle"} PROVE OnceForCall(c) /\ ~MayMake(c)'
  BY <1>3, <1>4, <1>6 DEF OnceForCall, OnceAtATime, MayMake
<1>7. ASSUME NEW s \in stations, NEW u \in Uids, Call(c).kind = "full pull"
      PROVE  /\ ~InBody(c, u) => evses[s][u].status \in {"none", "REMOVED"} \/ <<"evse", s, u>> \in Unlisted(c)
             /\ InBody(c, u) /\ ~ConnectorInBody(c, u) =>
                  evses[s][u].connector # "there" \/ <<"connector", s, u>> \in Unlisted(c)
  <2>1. s \in Stations
    BY <1>3
  <2>2. evses[s][u].connector = "there" => evses[s][u].status # "none"
    BY <1>3, <2>1 DEF RowsAreWhole
  <2> QED BY <1>2, <1>7, <2>1, <2>2, UnlistedIs
<1>8. CASE Unlisted(c) = {}
  <2>1. OthersAreLeft(c) /\ locationCall'[c] = NoCall /\ Call(c)' = NoCall /\ done' = Call(c)
    BY <1>1, <1>3, <1>8, CompletesIs
  <2>2. AloneHolds' /\ FullPullMirrors'
    BY <1>2, <1>4, <1>5, <1>7, <1>8, <2>1, PullMirrors
  <2>3. OnceForCall(c) /\ ~MayMake(c)'
    BY <1>6, <2>1, NoCallIs
  <2>4. StationsAreCounted'
    BY <1>2, <1>4, <2>1, <2>3, CountStays
  <2> QED BY <1>2, <1>4, <2>1, <2>2, <2>3, <2>4, LocationEnds
<1>9. CASE Unlisted(c) # {}
  <2>1. /\ OthersAreLeft(c) /\ CallKeeps(c) /\ Call(c)'.at = "mark" /\ Call(c)'.i = Call(c).i
        /\ Call(c)'.station = Call(c).station /\ Call(c)'.marks = Unlisted(c)
    BY <1>1, <1>2, <1>3, <1>9, UnlistedIs, HasMarksIs
  <2>2. CallIsPlaced(c)'
    BY <1>2, <1>3, <2>1 DEF CallIsPlaced, CallKeeps
  <2>3. ASSUME NEW mark \in Unlisted(c)
        PROVE  /\ mark[2] \in stations /\ evses[mark[2]][mark[3]].status # "none"
               /\ IF mark[1] = "evse" THEN Call(c).kind = "full pull" /\ ~InBody(c, mark[3])
                  ELSE ~ConnectorInBody(c, mark[3])
    <3>1. mark \in Marks
      BY <1>2, <2>3, UnlistedIs
    <3>2. PICK s \in Stations, u \in Uids : mark = <<"evse", s, u>> \/ mark = <<"connector", s, u>>
      BY <3>1 DEF Marks
    <3>3. CASE mark = <<"evse", s, u>>
      BY <1>2, <2>3, <3>2, <3>3, UnlistedIs
    <3>4. CASE mark = <<"connector", s, u>>
      BY <1>2, <2>3, <3>2, <3>4, UnlistedIs
    <3> QED BY <3>2, <3>3, <3>4
  <2>4. CallIsGrounded(c)'
    BY <1>3, <1>4, <2>1, <2>3 DEF CallIsGrounded
  <2>5. MarksAreUnlisted(c)'
    BY <2>1, <2>3 DEF MarksAreUnlisted, InBody, ConnectorInBody, CallKeeps
  <2>6. UnlistedAreMarked(c)'
    <3>1. \A u \in Uids : (InBody(c, u)' <=> InBody(c, u)) /\ (ConnectorInBody(c, u)' <=> ConnectorInBody(c, u))
      BY <2>1 DEF InBody, ConnectorInBody, CallKeeps
    <3> QED BY <1>4, <1>7, <2>1, <3>1 DEF UnlistedAreMarked, CallKeeps
  <2>7. StoresAlone(c)'
    <3>1. ASSUME StoringCall(c) PROVE StoredUpTo(c, Len(Call(c).body))'
      <4>1. \A j \in 1..Len(Call(c)'.body) :
              HoldsEvse(evses'[Call(c)'.station][Call(c)'.body[j].uid], Call(c)'.body[j])
        BY <1>5, <2>1, <3>1 DEF CallKeeps
      <4> QED BY <4>1 DEF StoredUpTo
    <3>2. Call(c)'.alone /\ Call(c)'.kind \in Whole \cup {"evse"} => StoringCall(c)
      BY <2>1 DEF CallKeeps, StoringCall
    <3> QED BY <1>2, <2>1, <3>1, <3>2 DEF StoresAlone
  <2>8. CallGoesOn(c)
    BY <2>1, <2>2, <2>4, <2>5, <2>6, <2>7 DEF CallGoesOn, CallKeeps, LocationIdle
  <2>9. OnceForCall(c) /\ ~MayMake(c)'
    BY <1>6, <2>1
  <2>10. StationsAreCounted'
    BY <1>2, <1>4, <2>1, <2>9, CountStays
  <2> QED BY <1>2, <1>4, <2>1, <2>8, <2>9, <2>10, LocationGoesOn
<1> QED BY <1>8, <1>9

LEMMA MarkKeeps ==
  ASSUME StoredIInv, NEW c \in LocationCalls, NEW mark \in Call(c).marks, Mark(c, mark)
  PROVE  StoredIInv'
<1>1. PICK s, u : s = mark[2] /\ u = mark[3]
  OBVIOUS
<1>2. PICK row : row = IF mark[1] = "evse" THEN [evses[s][u] EXCEPT !.status = "REMOVED"]
                       ELSE [evses[s][u] EXCEPT !.connector = "deleted"]
  OBVIOUS
<1>3. /\ Call(c).at = "mark" /\ RowIs(s, u, row)
      /\ IF Call(c).marks = {mark} THEN Completes(c) ELSE HasMarks(c, Call(c).marks \ {mark})
  BY <1>1, <1>2 DEF Mark, RowIs
<1>4. ~LocationIdle(c) /\ Call(c).at \in Ending /\ Call(c).at \notin Storing
  BY <1>3 DEF LocationIdle, Ending, Storing
<1>5. /\ LocationTypeOK /\ RowsAreWhole /\ OnceAtATime /\ CallIsPlaced(c) /\ CallIsGrounded(c) /\ StoresAlone(c)
      /\ MarksAreUnlisted(c) /\ UnlistedAreMarked(c)
      /\ Call(c).station \in stations /\ stations \subseteq Stations /\ Call(c) \in CallType
  BY <1>4, LocationCallIs, StoringIs DEF StoredIInv, CallsStore, LocationTypeOK
<1>6. /\ Call(c).marks \in SUBSET Marks /\ mark \in Marks /\ u \in Uids /\ s \in stations /\ s \in Stations
      /\ evses[s][u].status # "none" /\ mark = <<mark[1], s, u>> /\ mark[1] \in {"evse", "connector"}
  BY <1>1, <1>3, <1>5 DEF CallType, Marks, CallIsGrounded
<1>7. evses[s][u] \in EvseType
  BY <1>5, <1>6, EvsesAre
<1>8. /\ row \in EvseType /\ row.status # "none" /\ (evses[s][u].connector # "none" => row.connector # "none")
      /\ row.links = evses[s][u].links
      /\ mark[1] = "evse" => row.status = "REMOVED" /\ row.connector = evses[s][u].connector
      /\ mark[1] = "connector" => row.connector = "deleted" /\ row.status = evses[s][u].status
  BY <1>2, <1>6, <1>7 DEF EvseType
<1>9. /\ RowsAreTyped /\ RowsGrow /\ RowsAreWhole' /\ evses'[s][u] = row
      /\ \A s2 \in Stations : \A u2 \in Uids : s2 # s \/ u2 # u => evses'[s2][u2] = evses[s2][u2]
  <2>1. row.links # NoEvse.links => row.connector # "none"
    BY <1>5, <1>6, <1>8 DEF RowsAreWhole
  <2> QED BY <1>3, <1>6, <1>8, <2>1, RowMayBe
<1>10. UNCHANGED <<locationRow, stations, knownTariffs>>
  BY <1>3 DEF RowIs
<1>11. ASSUME Call(c)'.at \in {"mark", "idle"} PROVE OnceForCall(c) /\ ~MayMake(c)'
  <2>1. \A s2 \in Stations : \A u2 \in Uids : evses'[s2][u2].links = evses[s2][u2].links
    BY <1>8, <1>9
  <2> QED BY <1>5, <1>10, <1>11, <2>1 DEF OnceForCall, OnceAtATime, MayMake
<1>12. /\ mark[1] = "evse" => ~InBody(c, u)
       /\ mark[1] = "connector" => ~ConnectorInBody(c, u)
  BY <1>1, <1>3, <1>5, <1>6 DEF MarksAreUnlisted
<1>13. StoringCall(c) => \A j \in 1..Len(Call(c).body) :
         HoldsEvse(evses'[Call(c).station][Call(c).body[j].uid], Call(c).body[j])
  <2> SUFFICES ASSUME StoringCall(c), NEW j \in 1..Len(Call(c).body)
      PROVE  HoldsEvse(evses'[Call(c).station][Call(c).body[j].uid], Call(c).body[j])
    OBVIOUS
  <2>1. HoldsEvse(evses[Call(c).station][Call(c).body[j].uid], Call(c).body[j])
    BY <1>4, <1>5 DEF StoringCall, StoresAlone, StoredUpTo
  <2>2. j \in DOMAIN Call(c).body /\ Call(c).body \in Bodies
    BY <1>4, LocationCallIs
  <2>3. Call(c).body[j].uid \in Uids /\ Call(c).station \in Stations
    BY <1>5, <2>2, BodiesAre
  <2>4. CASE Call(c).station # s \/ Call(c).body[j].uid # u
    BY <1>9, <2>1, <2>3, <2>4
  <2>5. CASE Call(c).station = s /\ Call(c).body[j].uid = u
    <3>1. InBody(c, u) /\ (Call(c).body[j].connector => ConnectorInBody(c, u))
      BY <2>2, <2>5 DEF InBody, ConnectorInBody
    <3>2. mark[1] = "connector" /\ ~Call(c).body[j].connector
      BY <1>6, <1>12, <3>1
    <3> QED BY <1>8, <1>9, <2>1, <2>5, <3>2 DEF HoldsEvse
  <2> QED BY <2>4, <2>5
<1>14. ASSUME Call(c).alone, Call(c).kind = "full pull", NEW s2 \in stations, NEW u2 \in Uids
       PROVE  /\ ~InBody(c, u2) => evses'[s2][u2].status \in {"none", "REMOVED"}
                                   \/ <<"evse", s2, u2>> \in Call(c).marks \ {mark}
              /\ InBody(c, u2) /\ ~ConnectorInBody(c, u2) =>
                   evses'[s2][u2].connector # "there" \/ <<"connector", s2, u2>> \in Call(c).marks \ {mark}
  <2>1. /\ ~InBody(c, u2) => evses[s2][u2].status \in {"none", "REMOVED"} \/ <<"evse", s2, u2>> \in Call(c).marks
        /\ InBody(c, u2) /\ ~ConnectorInBody(c, u2) =>
             evses[s2][u2].connector # "there" \/ <<"connector", s2, u2>> \in Call(c).marks
    BY <1>3, <1>5, <1>14 DEF UnlistedAreMarked
  <2>2. s2 \in Stations
    BY <1>5
  <2>3. CASE s2 # s \/ u2 # u
    <3>1. <<"evse", s2, u2>> # mark /\ <<"connector", s2, u2>> # mark
      BY <1>6, <2>3
    <3>2. evses'[s2][u2] = evses[s2][u2]
      BY <1>9, <2>2, <2>3
    <3> QED BY <2>1, <3>1, <3>2
  <2>4. CASE s2 = s /\ u2 = u
    <3>1. CASE mark[1] = "evse"
      BY <1>8, <1>9, <1>12, <2>4, <3>1
    <3>2. CASE mark[1] = "connector"
      <4>1. <<"evse", s2, u2>> # mark
        BY <1>6, <3>2
      <4> QED BY <1>8, <1>9, <2>1, <2>4, <3>2, <4>1
    <3> QED BY <1>6, <3>1, <3>2
  <2> QED BY <2>3, <2>4
<1>15. CASE Call(c).marks = {mark}
  <2>1. OthersAreLeft(c) /\ locationCall'[c] = NoCall /\ Call(c)' = NoCall /\ done' = Call(c)
    BY <1>3, <1>5, <1>15, CompletesIs
  <2>2. Call(c).alone /\ Call(c).kind = "full pull" =>
          \A s2 \in stations : \A u2 \in Uids :
             /\ ~InBody(c, u2) => evses'[s2][u2].status \in {"none", "REMOVED"}
             /\ InBody(c, u2) /\ ~ConnectorInBody(c, u2) => evses'[s2][u2].connector # "there"
    BY <1>14, <1>15
  <2>3. AloneHolds' /\ FullPullMirrors'
    BY <1>4, <1>10, <1>13, <2>1, <2>2, PullMirrors
  <2>4. OnceForCall(c) /\ ~MayMake(c)'
    BY <1>11, <2>1, NoCallIs
  <2>5. StationsAreCounted'
    BY <1>4, <1>9, <1>10, <2>1, <2>4, CountStays
  <2> QED BY <1>4, <1>9, <2>1, <2>3, <2>4, <2>5, LocationEnds
<1>16. CASE Call(c).marks # {mark}
  <2>0. PICK rest : rest = Call(c).marks \ {mark}
    OBVIOUS
  <2>1. /\ OthersAreLeft(c) /\ CallKeeps(c) /\ Call(c)'.at = "mark" /\ Call(c)'.i = Call(c).i
        /\ Call(c)'.station = Call(c).station /\ Call(c)'.marks = rest
    <3>1. rest \in SUBSET Marks /\ HasMarks(c, rest)
      BY <1>3, <1>6, <1>16, <2>0
    <3> QED BY <1>5, <3>1, HasMarksIs
  <2>2. CallIsPlaced(c)'
    BY <1>3, <1>5, <2>1 DEF CallIsPlaced, CallKeeps
  <2>3. ASSUME NEW other \in rest
        PROVE  /\ other[2] \in stations /\ evses'[other[2]][other[3]].status # "none"
               /\ IF other[1] = "evse" THEN Call(c).kind = "full pull" /\ ~InBody(c, other[3])
                  ELSE ~ConnectorInBody(c, other[3])
    <3>1. other \in Call(c).marks /\ other[2] \in Stations /\ other[3] \in Uids
      BY <1>6, <2>0, <2>3 DEF Marks
    <3>2. other[2] \in stations /\ evses[other[2]][other[3]].status # "none"
      BY <1>3, <1>5, <3>1 DEF CallIsGrounded
    <3>3. evses'[other[2]][other[3]].status # "none"
      BY <1>9, <3>1, <3>2 DEF RowsGrow
    <3>4. IF other[1] = "evse" THEN Call(c).kind = "full pull" /\ ~InBody(c, other[3]) ELSE ~ConnectorInBody(c, other[3])
      BY <1>3, <1>5, <3>1 DEF MarksAreUnlisted
    <3> QED BY <3>2, <3>3, <3>4
  <2>4. CallIsGrounded(c)'
    BY <1>5, <1>10, <2>1, <2>3 DEF CallIsGrounded
  <2>5. MarksAreUnlisted(c)'
    BY <2>1, <2>3 DEF MarksAreUnlisted, InBody, ConnectorInBody, CallKeeps
  <2>6. UnlistedAreMarked(c)'
    <3>1. \A u2 \in Uids : (InBody(c, u2)' <=> InBody(c, u2)) /\ (ConnectorInBody(c, u2)' <=> ConnectorInBody(c, u2))
      BY <2>1 DEF InBody, ConnectorInBody, CallKeeps
    <3> QED BY <1>10, <1>14, <2>0, <2>1, <3>1 DEF UnlistedAreMarked, CallKeeps
  <2>7. StoresAlone(c)'
    <3>1. ASSUME StoringCall(c) PROVE StoredUpTo(c, Len(Call(c).body))'
      <4>1. \A j \in 1..Len(Call(c)'.body) :
              HoldsEvse(evses'[Call(c)'.station][Call(c)'.body[j].uid], Call(c)'.body[j])
        BY <1>13, <2>1, <3>1 DEF CallKeeps
      <4> QED BY <4>1 DEF StoredUpTo
    <3>2. Call(c)'.alone /\ Call(c)'.kind \in Whole \cup {"evse"} => StoringCall(c)
      BY <2>1 DEF CallKeeps, StoringCall
    <3>3. Call(c)'.at \notin Storing /\ Call(c)'.at \notin {"connector", "unlink", "link"}
      BY <2>1 DEF Storing
    <3> QED BY <3>1, <3>2, <3>3 DEF StoresAlone
  <2>8. CallGoesOn(c)
    BY <1>10, <2>1, <2>2, <2>4, <2>5, <2>6, <2>7 DEF CallGoesOn, CallKeeps, LocationIdle
  <2>9. OnceForCall(c) /\ ~MayMake(c)'
    BY <1>11, <2>1
  <2>10. StationsAreCounted'
    BY <1>4, <1>9, <1>10, <2>1, <2>9, CountStays
  <2> QED BY <1>4, <1>9, <2>1, <2>8, <2>9, <2>10, LocationGoesOn
<1> QED BY <1>15, <1>16

-----------------------------------------------------------------------------
LEMMA BeginKeeps ==
  ASSUME StoredIInv, NEW c \in LocationCalls, NEW kind \in Kinds, NEW body \in Bodies, Begin(c, kind, body)
  PROVE  StoredIInv'
<1>1. PICK others : others = {d \in LocationCalls \ {c} : Call(d).at # "idle"}
  OBVIOUS
<1>2. PICK call : call = [NoCall EXCEPT !.kind = kind, !.at = "find", !.body = body, !.alone = others = {}]
  OBVIOUS
<1>3. /\ Call(c).at = "idle" /\ starts < MaxStarts
      /\ kind \notin Whole => Len(body) = 1
      /\ kind \in {"connector", "patch connector"} => body[1].connector
      /\ starts' = starts + 1 /\ overlapped' = (overlapped \/ others # {}) /\ done' = NoCall
      /\ locationCall' = [d \in LocationCalls |-> IF d = c THEN call ELSE [Call(d) EXCEPT !.alone = FALSE]]
      /\ hidden' = (IF others = {} THEN HiddenNow ELSE NothingHidden)
      /\ UNCHANGED <<locationRow, stations, evses, knownTariffs>>
  BY <1>1, <1>2 DEF Begin, rowVars, Whole
<1>4. /\ LocationTypeOK /\ RowsAreWhole /\ StationsAreCounted /\ OnceAtATime /\ starts \in Nat /\ MaxStarts \in Nat
      /\ IsFiniteSet(LocationCalls)
  BY LocationAssumption DEF StoredIInv, LocationTypeOK
<1>5. Len(body) \in Nat
  BY BodiesAre
<1>6. /\ call \in CallType /\ call.kind = kind /\ call.at = "find" /\ call.body = body /\ call.i = 1
      /\ (call.alone => others = {})
  <2>1. "find" \in Places /\ (others = {}) \in BOOLEAN
    BY DEF Places
  <2> QED BY <1>2, <2>1, NoCallIs DEF CallType
<1>7. Call(c)' = call /\ ~LocationIdle(c)'
  BY <1>3, <1>6 DEF Call, LocationIdle
<1>8. ASSUME NEW d \in LocationCalls, d # c
      PROVE  /\ Call(d)' \in CallType /\ Call(d)'.kind = Call(d).kind /\ Call(d)'.at = Call(d).at
             /\ Call(d)'.body = Call(d).body /\ Call(d)'.i = Call(d).i /\ Call(d)'.station = Call(d).station
             /\ Call(d)'.left = Call(d).left /\ Call(d)'.marks = Call(d).marks /\ ~Call(d)'.alone
  <2>1. Call(d)' = [Call(d) EXCEPT !.alone = FALSE]
    BY <1>3, <1>8 DEF Call
  <2>2. Call(d) \in CallType
    BY <1>4 DEF LocationTypeOK, Call
  <2> QED BY <2>1, <2>2 DEF CallType
<1>9. LocationTypeOK'
  <2>1. \A d \in LocationCalls : Call(d)' \in CallType
    BY <1>6, <1>7, <1>8
  <2>2. locationCall' \in [LocationCalls -> CallType]
    BY <1>3, <2>1 DEF Call
  <2>3. starts' \in 0..MaxStarts
    <3>1. PICK n, m : n = starts /\ m = MaxStarts
      OBVIOUS
    <3>2. n \in Nat /\ m \in Nat /\ n < m
      BY <1>3, <1>4, <3>1
    <3>3. n + 1 \in 0..m
      BY <3>2
    <3> QED BY <1>3, <3>1, <3>3
  <2>4. overlapped' \in BOOLEAN
    BY <1>3, <1>4 DEF LocationTypeOK
  <2>5. hidden' \in [location : BOOLEAN, connectors : SUBSET (Stations \X Uids)]
    BY <1>3 DEF HiddenNow, NothingHidden
  <2> QED BY <1>3, <1>4, <2>2, <2>3, <2>4, <2>5, NoCallIs DEF LocationTypeOK
<1>10. RowsAreWhole'
  BY <1>3, <1>4 DEF RowsAreWhole
<1>11. LocationCallsAreSound'
  <2>1. CallIsPlaced(c)' /\ CallIsGrounded(c)'
    BY <1>3, <1>5, <1>6, <1>7 DEF CallIsPlaced, CallIsGrounded, Storing, Ending
  <2>2. ASSUME NEW d \in LocationCalls, d # c, ~LocationIdle(d)' PROVE CallIsPlaced(d)' /\ CallIsGrounded(d)'
    <3>1. CallIsPlaced(d) /\ CallIsGrounded(d)
      BY <1>8, <2>2, LocationCallIs DEF LocationIdle
    <3>2. Now(d)' = Now(d) /\ RowOf(d)' = RowOf(d)
      BY <1>3, <1>8, <2>2 DEF Now, RowOf
    <3>3. CallIsPlaced(d)'
      BY <1>8, <2>2, <3>1, <3>2 DEF CallIsPlaced
    <3>4. CallIsGrounded(d)'
      BY <1>3, <1>8, <2>2, <3>1, <3>2 DEF CallIsGrounded
    <3> QED BY <3>3, <3>4
  <2> QED BY <2>1, <2>2 DEF LocationCallsAreSound
<1>12. StationsAreCounted'
  <2>1. PICK before : before = {d \in LocationCalls : MayMake(d)}
    OBVIOUS
  <2>2. c \notin before /\ IsFiniteSet(before) /\ Cardinality(before) \in Nat
    BY <1>3, <1>4, <2>1, FS_Subset, FS_CardinalityType DEF MayMake
  <2>3. Cardinality(before \cup {c}) = Cardinality(before) + 1
    BY <2>2, FS_AddElement
  <2>4. \A d \in LocationCalls : MayMake(d)' <=> d = c \/ MayMake(d)
    BY <1>6, <1>7, <1>8 DEF MayMake
  <2>5. {d \in LocationCalls : MayMake(d)}' = before \cup {c}
    BY <2>1, <2>4
  <2>6. Cardinality(stations) + Cardinality(before) <= starts /\ stations = 1..Cardinality(stations)
    BY <1>4, <2>1 DEF StationsAreCounted
  <2>7. Cardinality(stations) + Cardinality(before \cup {c}) <= starts'
    <3>1. PICK n, m, k : n = Cardinality(stations) /\ m = Cardinality(before) /\ k = starts
      OBVIOUS
    <3>2. n \in Nat /\ m \in Nat /\ k \in Nat /\ n + m <= k
      BY <1>4, <2>2, <2>6, <3>1, CountNow
    <3>3. n + (m + 1) <= k + 1
      BY <3>2
    <3> QED BY <1>3, <2>3, <3>1, <3>3
  <2> QED BY <1>3, <2>5, <2>6, <2>7 DEF StationsAreCounted
<1>13. \A d \in LocationCalls : d # c => (LocationIdle(d)' <=> LocationIdle(d))
  BY <1>8 DEF LocationIdle
<1>14. others = {} => \A d \in LocationCalls : d # c => LocationIdle(d)
  BY <1>1 DEF LocationIdle
<1>15. AloneAreAlone'
  <2>1. \A d \in LocationCalls : Call(d)'.alone =>
          ~LocationIdle(d)' /\ \A e \in LocationCalls : e # d => LocationIdle(e)'
    BY <1>6, <1>7, <1>8, <1>13, <1>14
  <2>2. ~overlapped' => \A d \in LocationCalls : \A e \in LocationCalls : ~LocationIdle(d)' /\ ~LocationIdle(e)' => d = e
    BY <1>3, <1>7, <1>13, <1>14
  <2>3. ~done'.alone
    BY <1>3, NoCallIs
  <2> QED BY <2>1, <2>2, <2>3 DEF AloneAreAlone
<1>16. OnceAtATime'
  <2>1. ~overlapped' => ~overlapped /\ others = {}
    BY <1>3
  <2>2. ASSUME ~overlapped', NEW d \in LocationCalls PROVE Call(d)'.at # "create" /\ Call(d)'.at # "link"
    BY <1>6, <1>7, <1>8, <1>14, <2>1, <2>2 DEF LocationIdle
  <2> QED BY <1>3, <1>4, <2>1, <2>2 DEF OnceAtATime
<1>17. CallsStore'
  <2>1. StoresAlone(c)' /\ MarksAreUnlisted(c)' /\ UnlistedAreMarked(c)'
    BY <1>6, <1>7 DEF StoresAlone, MarksAreUnlisted, UnlistedAreMarked, Storing, Ending
  <2>2. ASSUME NEW d \in LocationCalls, d # c PROVE StoresAlone(d)' /\ MarksAreUnlisted(d)' /\ UnlistedAreMarked(d)'
    <3>1. MarksAreUnlisted(d)
      BY DEF StoredIInv, CallsStore
    <3>2. MarksAreUnlisted(d)'
      BY <1>8, <2>2, <3>1 DEF MarksAreUnlisted, InBody, ConnectorInBody
    <3> QED BY <1>8, <2>2, <3>2 DEF StoresAlone, UnlistedAreMarked
  <2> QED BY <2>1, <2>2 DEF CallsStore
<1>18. AloneHolds' /\ FullPullMirrors'
  BY <1>3, NoCallIs DEF AloneHolds, FullPullMirrors
<1> QED BY <1>9, <1>10, <1>11, <1>12, <1>15, <1>16, <1>17, <1>18 DEF StoredIInv

\* Nothing but the tariffs that are known: the calls and the rows stay.
LEMMA CallsMayStay ==
  ASSUME StoredIInv, UNCHANGED <<locationRow, stations, evses, locationCall, starts, overlapped, hidden, done>>,
         knownTariffs' \subseteq Tariffs
  PROVE  StoredIInv'
<1>1. /\ LocationTypeOK /\ RowsAreWhole /\ LocationCallsAreSound /\ StationsAreCounted
      /\ AloneAreAlone /\ OnceAtATime /\ CallsStore /\ AloneHolds /\ FullPullMirrors
  BY DEF StoredIInv
<1>2. \A c \in LocationCalls : /\ Call(c)' = Call(c) /\ Now(c)' = Now(c) /\ RowOf(c)' = RowOf(c)
                               /\ (LocationIdle(c)' <=> LocationIdle(c)) /\ (MayMake(c)' <=> MayMake(c))
  BY DEF Call, Now, RowOf, LocationIdle, MayMake
<1>3. LocationTypeOK' /\ RowsAreWhole'
  <2>0. LocationTypeOK /\ RowsAreWhole
    BY <1>1
  <2>1. /\ locationRow' = locationRow /\ stations' = stations /\ evses' = evses /\ locationCall' = locationCall
        /\ starts' = starts /\ done' = done /\ hidden' = hidden
    OBVIOUS
  <2>2. overlapped' \in BOOLEAN
    BY <2>0 DEF LocationTypeOK
  <2>3. RowsAreWhole'
    BY <2>0, <2>1 DEF RowsAreWhole
  <2> QED BY <2>0, <2>1, <2>2, <2>3 DEF LocationTypeOK
<1>4. LocationCallsAreSound'
  <2> SUFFICES ASSUME NEW c \in LocationCalls, ~LocationIdle(c)'
               PROVE  CallIsPlaced(c)' /\ CallIsGrounded(c)'
    BY DEF LocationCallsAreSound
  <2>1. CallIsPlaced(c) /\ CallIsGrounded(c) /\ Call(c)' = Call(c) /\ Now(c)' = Now(c) /\ RowOf(c)' = RowOf(c)
    BY <1>1, <1>2 DEF LocationCallsAreSound
  <2>2. CallIsPlaced(c)'
    BY <2>1 DEF CallIsPlaced
  <2>3. CallIsGrounded(c)'
    BY <2>1 DEF CallIsGrounded
  <2> QED BY <2>2, <2>3
<1>5. StationsAreCounted'
  <2>1. {c \in LocationCalls : MayMake(c)}' = {c \in LocationCalls : MayMake(c)}
    BY <1>2
  <2> QED BY <1>1, <2>1 DEF StationsAreCounted
<1>6. AloneAreAlone' /\ OnceAtATime'
  <2>1. (overlapped' <=> overlapped) /\ done' = done /\ stations' = stations /\ evses' = evses
    OBVIOUS
  <2>2. AloneAreAlone'
    BY <1>1, <1>2, <2>1 DEF AloneAreAlone
  <2>3. OnceAtATime'
    BY <1>1, <1>2, <2>1 DEF OnceAtATime
  <2> QED BY <2>2, <2>3
<1>7. CallsStore'
  <2> SUFFICES ASSUME NEW c \in LocationCalls
      PROVE  StoresAlone(c)' /\ MarksAreUnlisted(c)' /\ UnlistedAreMarked(c)'
    BY DEF CallsStore
  <2>1. StoresAlone(c) /\ MarksAreUnlisted(c) /\ UnlistedAreMarked(c) /\ Call(c)' = Call(c)
    BY <1>1, <1>2 DEF CallsStore
  <2>2. StoresAlone(c)'
    BY <1>2, <2>1 DEF StoresAlone, StoredUpTo
  <2>3. MarksAreUnlisted(c)' /\ UnlistedAreMarked(c)'
    BY <2>1 DEF MarksAreUnlisted, UnlistedAreMarked, InBody, ConnectorInBody
  <2> QED BY <2>2, <2>3
<1>8. AloneHolds'
  BY <1>1 DEF AloneHolds
<1>9. FullPullMirrors'
  <2>1. stations' = stations /\ evses' = evses /\ done' = done
    OBVIOUS
  <2>2. done'.alone /\ done'.kind = "full pull" =>
          \A s \in stations', u \in Uids :
            /\ {i \in DOMAIN done'.body : done'.body[i].uid = u} = {} => evses'[s][u].status \in {"none", "REMOVED"}
            /\ \A i \in {i \in DOMAIN done'.body : done'.body[i].uid = u} :
                 evses'[s][u].connector = "there" => done'.body[i].connector
    BY <1>1, <2>1 DEF FullPullMirrors
  <2> QED BY <2>2 DEF FullPullMirrors
<1> QED BY <1>1, <1>9, <1>3, <1>4, <1>5, <1>6, <1>7, <1>8 DEF StoredIInv

LEMMA LocationStepKeeps ==
  ASSUME StoredIInv, NEW c \in LocationCalls, LocationStep(c)
  PROVE  StoredIInv'
<1>1. CASE FindLocation(c) \/ InsertLocation(c) \/ UpdateLocation(c) \/ FindStation(c) \/ CreateStation(c)
  BY <1>1, FindLocationKeeps, InsertLocationKeeps, UpdateLocationKeeps, FindStationKeeps, CreateStationKeeps
<1>2. CASE UpsertEvse(c) \/ UpsertConnector(c) \/ UnlinkTariffs(c) \/ \E t \in Tariffs : LinkTariff(c, t)
  BY <1>2, UpsertEvseKeeps, UpsertConnectorKeeps, UnlinkTariffsKeeps, LinkTariffKeeps
<1>3. CASE TariffUnknown(c)
  BY <1>3, GivesUpKeeps DEF TariffUnknown, LocationIdle
<1>4. CASE FindForEvse(c) \/ FindForConnector(c) \/ FindToPatch(c) \/ PatchEvse(c) \/ PatchConnector(c)
  BY <1>4, FindForEvseKeeps, FindForConnectorKeeps, FindToPatchKeeps, PatchEvseKeeps, PatchConnectorKeeps
<1>5. CASE MarkLocation(c) \/ ReadRows(c) \/ \E mark \in Call(c).marks : Mark(c, mark)
  BY <1>5, MarkLocationKeeps, ReadRowsKeeps, MarkKeeps
<1> QED BY <1>1, <1>2, <1>3, <1>4, <1>5 DEF LocationStep

LEMMA StoredKeeps == StoredIInv /\ [LocationNext]_locationVars => StoredIInv'
<1> SUFFICES ASSUME StoredIInv, [LocationNext]_locationVars PROVE StoredIInv'
  OBVIOUS
<1>1. ASSUME NEW c \in LocationCalls, LocationStep(c) PROVE StoredIInv'
  BY <1>1, LocationStepKeeps
<1>2. ASSUME NEW c \in LocationCalls, CallBreaks(c) PROVE StoredIInv'
  BY <1>2, GivesUpKeeps DEF CallBreaks, LocationIdle
<1>3. ASSUME NEW c \in LocationCalls, NEW kind \in Kinds, NEW body \in Bodies, Begin(c, kind, body) PROVE StoredIInv'
  BY <1>3, BeginKeeps
<1>4. ASSUME NEW t \in Tariffs, TariffArrives(t) PROVE StoredIInv'
  BY <1>4, CallsMayStay DEF TariffArrives, StoredIInv, LocationTypeOK
<1>5. CASE UNCHANGED locationVars
  BY <1>5, CallsMayStay DEF locationVars, StoredIInv, LocationTypeOK
<1> QED BY <1>1, <1>2, <1>3, <1>4, <1>5 DEF LocationNext

-----------------------------------------------------------------------------
\* What is hidden: a step marks no connector that its body has, and nothing else than a pull's
\* step marks the location.
DeletedGrow(c) == \A s \in Stations : \A u \in Uids :
    /\ evses[s][u].connector = "deleted" => evses'[s][u].connector = "deleted"
    /\ evses'[s][u].connector = "deleted" => evses[s][u].connector = "deleted" \/ ~ConnectorInBody(c, u)
RemovedStays == /\ locationRow' = "removed" <=> locationRow = "removed"
                /\ locationRow # "absent" => locationRow' # "absent"
IsPast(call) == call.at \in {"read", "mark"}
CallRuns(c) ==
    \/ CallKeeps(c) /\ (Call(c).kind = "pull" => (IsPast(Call(c)') <=> IsPast(Call(c))))
    \/ Call(c)' = NoCall /\ done' = done
    \/ /\ Call(c)' = NoCall /\ done' = Call(c) /\ locationRow # "absent"
       /\ Call(c).body # <<>> => Call(c).station \in Stations
       /\ Call(c).kind = "pull" => IsPast(Call(c))

LEMMA HiddenStays ==
  ASSUME LocationIInv, NEW c \in LocationCalls, ~LocationIdle(c), OthersAreLeft(c),
         DeletedGrow(c), RemovedStays, CallRuns(c)
  PROVE  HiddenIInv'
<1>1. /\ StoredIInv /\ HidesNoMore(Call(c)) /\ LocationTypeOK /\ AloneAreAlone /\ hidden' = hidden
  BY DEF LocationIInv, HiddenIInv, StoredIInv, OthersAreLeft
<1>2. /\ \A d \in LocationCalls : d # c => Call(d)' = Call(d) /\ ~Call(d).alone
      /\ ~done.alone
  BY <1>1 DEF AloneAreAlone, OthersAreLeft, Call
<1>3. ASSUME NEW d \in LocationCalls, d # c PROVE HidesNoMore(Call(d))'
  BY <1>2, <1>3 DEF HidesNoMore
<1>4. hidden.connectors \subseteq Stations \X Uids
  BY <1>1 DEF LocationTypeOK
<1>5. ASSUME Call(c).alone
      PROVE  /\ \A r \in hidden'.connectors : evses'[r[1]][r[2]].connector = "deleted"
             /\ \A s \in Stations : \A u \in Uids : evses'[s][u].connector = "deleted" =>
                  <<s, u>> \in hidden'.connectors \/ ~ConnectorInBody(c, u)
             /\ locationRow' = "removed" <=>
                  hidden'.location \/ (Call(c).kind = "pull" /\ AllRemoved(Call(c).body) /\ IsPast(Call(c)))
  <2>1. ASSUME NEW r \in hidden.connectors PROVE evses'[r[1]][r[2]].connector = "deleted"
    <3>1. r[1] \in Stations /\ r[2] \in Uids
      BY <1>4
    <3>2. evses[r[1]][r[2]].connector = "deleted"
      BY <1>1, <1>5 DEF HidesNoMore
    <3> QED BY <3>1, <3>2 DEF DeletedGrow
  <2>2. ASSUME NEW s \in Stations, NEW u \in Uids, evses'[s][u].connector = "deleted"
        PROVE  <<s, u>> \in hidden.connectors \/ ~ConnectorInBody(c, u)
    <3>1. evses[s][u].connector = "deleted" \/ ~ConnectorInBody(c, u)
      BY <2>2 DEF DeletedGrow
    <3> QED BY <1>1, <1>5, <3>1 DEF HidesNoMore, ConnectorInBody
  <2>3. locationRow = "removed" <=>
          hidden.location \/ (Call(c).kind = "pull" /\ AllRemoved(Call(c).body) /\ IsPast(Call(c)))
    BY <1>1, <1>5 DEF HidesNoMore, IsPast
  <2>4. \A r \in hidden'.connectors : evses'[r[1]][r[2]].connector = "deleted"
    BY <1>1, <2>1
  <2>5. \A s \in Stations : \A u \in Uids : evses'[s][u].connector = "deleted" =>
                  <<s, u>> \in hidden'.connectors \/ ~ConnectorInBody(c, u)
    BY <1>1, <2>2
  <2> QED BY <1>1, <2>3, <2>4, <2>5 DEF RemovedStays
<1>6. CASE CallKeeps(c) /\ (Call(c).kind = "pull" => (IsPast(Call(c)') <=> IsPast(Call(c))))
  <2>1. HidesNoMore(Call(c))'
    <3> SUFFICES ASSUME Call(c).alone PROVE HidesNoMore(Call(c))'
      BY <1>6 DEF HidesNoMore, CallKeeps
    <3>1. AllRemoved(Call(c)'.body) <=> AllRemoved(Call(c).body)
      BY <1>6 DEF CallKeeps
    <3> QED BY <1>5, <1>6, <3>1 DEF HidesNoMore, CallKeeps, ConnectorInBody, IsPast, AllRemoved
  <2>2. EndsPlaced(done)' /\ HidesNoMore(done)'
    BY <1>2, <1>6 DEF CallKeeps, EndsPlaced, HidesNoMore
  <2> QED BY <1>3, <2>1, <2>2 DEF HiddenIInv
<1>7. CASE Call(c)' = NoCall /\ done' = done
  <2>1. HidesNoMore(Call(c))'
    BY <1>7, NoCallIs DEF HidesNoMore
  <2>2. EndsPlaced(done)' /\ HidesNoMore(done)'
    BY <1>2, <1>7 DEF EndsPlaced, HidesNoMore
  <2> QED BY <1>3, <2>1, <2>2 DEF HiddenIInv
<1>8. CASE /\ Call(c)' = NoCall /\ done' = Call(c) /\ locationRow # "absent"
           /\ Call(c).body # <<>> => Call(c).station \in Stations
           /\ Call(c).kind = "pull" => IsPast(Call(c))
  <2>1. HidesNoMore(Call(c))'
    BY <1>8, NoCallIs DEF HidesNoMore
  <2>2. HidesNoMore(done)'
    BY <1>5, <1>8 DEF HidesNoMore, ConnectorInBody, IsPast, AllRemoved
  <2>3. EndsPlaced(done)'
    BY <1>1, <1>8, LocationCallIs DEF EndsPlaced, IsPast, RemovedStays
  <2> QED BY <1>3, <2>1, <2>2, <2>3 DEF HiddenIInv
<1> QED BY <1>6, <1>7, <1>8 DEF CallRuns

\* Where a call goes.
LEMMA GoesToRuns ==
  ASSUME LocationTypeOK, NEW c \in LocationCalls, NEW at \in Places, GoesTo(c, at),
         Call(c).kind = "pull" => (at \in {"read", "mark"} <=> IsPast(Call(c)))
  PROVE  OthersAreLeft(c) /\ CallRuns(c)
<1>1. OthersAreLeft(c) /\ CallKeeps(c) /\ Call(c)'.at = at
  BY GoesToIs
<1> QED BY <1>1 DEF CallRuns, IsPast

LEMMA GoesToStationRuns ==
  ASSUME LocationTypeOK, NEW c \in LocationCalls, NEW at \in Places, NEW s \in Stations, GoesToStation(c, s, at),
         Call(c).kind = "pull" => (at \in {"read", "mark"} <=> IsPast(Call(c)))
  PROVE  OthersAreLeft(c) /\ CallRuns(c)
<1>1. OthersAreLeft(c) /\ CallKeeps(c) /\ Call(c)'.at = at
  BY GoesToStationIs
<1> QED BY <1>1 DEF CallRuns, IsPast

LEMMA GivesUpRuns ==
  ASSUME LocationTypeOK, NEW c \in LocationCalls, GivesUp(c)
  PROVE  OthersAreLeft(c) /\ CallRuns(c)
BY GivesUpIs DEF CallRuns

LEMMA EndsBodyRuns ==
  ASSUME StoredIInv, NEW c \in LocationCalls, ~LocationIdle(c), NEW s \in Stations, EndsBody(c, s), ~IsPast(Call(c)),
         locationRow # "absent", Call(c).body # <<>> => Call(c).station \in Stations
  PROVE  OthersAreLeft(c) /\ CallRuns(c)
<1>1. LocationTypeOK /\ "read" \in Places /\ "mark location" \in Places
  BY DEF StoredIInv, Places
<1>2. CASE Call(c).kind = "full pull"
  BY <1>1, <1>2, GoesToStationRuns DEF EndsBody
<1>3. CASE Call(c).kind = "pull"
  BY <1>1, <1>3, GoesToStationRuns DEF EndsBody
<1>4. CASE Call(c).kind \notin {"full pull", "pull"}
  BY <1>1, <1>4, CompletesIs DEF EndsBody, CallRuns
<1> QED BY <1>2, <1>3, <1>4

LEMMA NextEvseRuns ==
  ASSUME StoredIInv, NEW c \in LocationCalls, Call(c).at \in Storing, NextEvse(c)
  PROVE  OthersAreLeft(c) /\ CallRuns(c)
<1>1. ~LocationIdle(c) /\ ~IsPast(Call(c))
  BY DEF LocationIdle, IsPast, Storing
<1>2. /\ LocationTypeOK /\ RowsAreWhole /\ Call(c).station \in stations /\ Call(c).station \in Stations
      /\ Call(c) \in CallType /\ Call(c).i \in Nat
  BY <1>1, LocationCallIs, StoringIs DEF StoredIInv
<1>3. locationRow # "absent"
  BY <1>2 DEF RowsAreWhole
<1>4. CASE Call(c).i < Len(Call(c).body)
  <2>1. PICK call : call = [Call(c) EXCEPT !.i = Call(c).i + 1, !.at = "evse"]
    OBVIOUS
  <2>2. /\ call \in CallType /\ call.at = "evse" /\ call.kind = Call(c).kind /\ call.body = Call(c).body
        /\ call.alone = Call(c).alone
    <3>1. Call(c).i + 1 \in Nat /\ "evse" \in Places
      BY <1>2 DEF Places
    <3>2. PICK n : n = Call(c).i + 1
      OBVIOUS
    <3> QED BY <1>2, <2>1, <3>1, <3>2 DEF CallType
  <2>3. locationCall' = [locationCall EXCEPT ![c] = call] /\ UNCHANGED <<starts, overlapped, hidden>> /\ done' = done
    BY <1>2, <1>4, <2>1 DEF NextEvse, LocationTypeOK, Call
  <2>4. OthersAreLeft(c) /\ Call(c)' = call
    BY <1>2, <2>2, <2>3, CallBecomes
  <2> QED BY <1>1, <2>2, <2>3, <2>4 DEF CallRuns, CallKeeps, IsPast
<1>5. CASE ~(Call(c).i < Len(Call(c).body))
  BY <1>1, <1>2, <1>3, <1>5, EndsBodyRuns DEF NextEvse
<1> QED BY <1>4, <1>5

LEMMA FirstEvseRuns ==
  ASSUME StoredIInv, NEW c \in LocationCalls, ~LocationIdle(c), NEW s \in Stations, FirstEvse(c, s),
         ~IsPast(Call(c)), locationRow # "absent"
  PROVE  OthersAreLeft(c) /\ CallRuns(c)
<1>1. LocationTypeOK /\ "evse" \in Places
  BY DEF StoredIInv, Places
<1>2. CASE Call(c).body = <<>>
  BY <1>2, EndsBodyRuns DEF FirstEvse
<1>3. CASE Call(c).body # <<>>
  BY <1>1, <1>3, GoesToStationRuns DEF FirstEvse
<1> QED BY <1>2, <1>3

\* What a step does to the rows.
LEMMA RowsHideAsBefore ==
  ASSUME NEW c \in LocationCalls, evses' = evses
  PROVE  DeletedGrow(c)
BY DEF DeletedGrow

LEMMA WritesHideAsBefore ==
  ASSUME StoredIInv, NEW c \in LocationCalls, Call(c).at \in Storing \cup {"patch"}, NEW row, Writes(c, row),
         row.connector = "deleted" <=> RowOf(c).connector = "deleted"
  PROVE  DeletedGrow(c)
<1>1. ~LocationIdle(c)
  BY DEF LocationIdle, Storing
<1>2. /\ LocationTypeOK /\ Call(c).station \in Stations /\ Now(c).uid \in Uids
  BY <1>1, LocationCallIs, StoringIs DEF StoredIInv
<1>3. PICK s, u : s = Call(c).station /\ u = Now(c).uid
  OBVIOUS
<1>4. /\ evses'[s][u] = row
      /\ \A s2 \in Stations : \A u2 \in Uids : s2 # s \/ u2 # u => evses'[s2][u2] = evses[s2][u2]
  BY <1>2, <1>3 DEF Writes, LocationTypeOK
<1>5. evses'[s][u].connector = "deleted" <=> evses[s][u].connector = "deleted"
  BY <1>3, <1>4 DEF RowOf
<1> QED BY <1>4, <1>5 DEF DeletedGrow

\* A pull hides the location if it has EVSEs and all of them are removed.
LEMMA MarkLocationHides ==
  ASSUME LocationIInv, NEW c \in LocationCalls, MarkLocation(c)
  PROVE  HiddenIInv'
<1>1. /\ Call(c).at = "mark location" /\ GoesTo(c, "read") /\ UNCHANGED <<stations, evses, knownTariffs>>
      /\ locationRow' = IF AllRemoved(Call(c).body) THEN "removed" ELSE locationRow
  BY DEF MarkLocation
<1>2. ~LocationIdle(c) /\ "read" \in Places /\ Call(c).at \in Ending
  BY <1>1 DEF LocationIdle, Places, Ending
<1>3. /\ StoredIInv /\ LocationTypeOK /\ AloneAreAlone /\ HidesNoMore(Call(c)) /\ Call(c).kind \in {"full pull", "pull"}
  BY <1>2, LocationCallIs DEF LocationIInv, HiddenIInv, StoredIInv, CallIsPlaced
<1>4. OthersAreLeft(c) /\ CallKeeps(c) /\ Call(c)'.at = "read"
  BY <1>1, <1>2, <1>3, GoesToIs
<1>5. /\ \A d \in LocationCalls : d # c => Call(d)' = Call(d) /\ ~Call(d).alone
      /\ ~done'.alone /\ hidden' = hidden
  BY <1>2, <1>3, <1>4 DEF AloneAreAlone, OthersAreLeft, CallKeeps, Call
<1>6. ASSUME Call(c).alone PROVE HidesNoMore(Call(c))'
  <2>1. /\ \A r \in hidden.connectors : evses[r[1]][r[2]].connector = "deleted"
        /\ \A s \in Stations : \A u \in Uids : evses[s][u].connector = "deleted" =>
             \/ <<s, u>> \in hidden.connectors
             \/ ~\E i \in DOMAIN Call(c).body : Call(c).body[i].uid = u /\ Call(c).body[i].connector
        /\ locationRow = "removed" <=> hidden.location
    BY <1>1, <1>3, <1>6 DEF HidesNoMore
  <2>2. Call(c).kind = "pull"
    BY <1>1, <1>2, <1>3, LocationCallIs DEF CallIsPlaced
  <2>3. locationRow' = "removed" <=> hidden.location \/ AllRemoved(Call(c).body)
    BY <1>1, <2>1
  <2>4. AllRemoved(Call(c)'.body) <=> AllRemoved(Call(c).body)
    BY <1>4 DEF CallKeeps
  <2> QED BY <1>1, <1>4, <1>5, <2>1, <2>2, <2>3, <2>4 DEF HidesNoMore, CallKeeps
<1>7. HidesNoMore(Call(c))'
  BY <1>4, <1>6 DEF HidesNoMore, CallKeeps
<1>8. ASSUME NEW d \in LocationCalls PROVE HidesNoMore(Call(d))'
  BY <1>5, <1>7 DEF HidesNoMore
<1>9. EndsPlaced(done)' /\ HidesNoMore(done)'
  BY <1>5 DEF EndsPlaced, HidesNoMore
<1> QED BY <1>8, <1>9 DEF HiddenIInv

LEMMA MarkHides ==
  ASSUME LocationIInv, NEW c \in LocationCalls, NEW mark \in Call(c).marks, Mark(c, mark)
  PROVE  HiddenIInv'
<1>1. /\ Call(c).at = "mark" /\ UNCHANGED <<locationRow, stations, knownTariffs>>
      /\ evses' = [evses EXCEPT ![mark[2]][mark[3]] =
                      IF mark[1] = "evse" THEN [evses[mark[2]][mark[3]] EXCEPT !.status = "REMOVED"]
                      ELSE [evses[mark[2]][mark[3]] EXCEPT !.connector = "deleted"]]
      /\ IF Call(c).marks = {mark} THEN Completes(c) ELSE HasMarks(c, Call(c).marks \ {mark})
  BY DEF Mark
<1>2. ~LocationIdle(c) /\ Call(c).at \in Ending /\ IsPast(Call(c))
  BY <1>1 DEF LocationIdle, Ending, IsPast
<1>3. /\ StoredIInv /\ LocationTypeOK /\ RowsAreWhole /\ MarksAreUnlisted(c)
      /\ Call(c) \in CallType /\ Call(c).station \in stations /\ Call(c).station \in Stations
  BY <1>2, LocationCallIs, StoringIs DEF LocationIInv, StoredIInv, CallsStore
<1>4. mark \in Marks /\ Call(c).marks \ {mark} \in SUBSET Marks /\ locationRow # "absent"
  BY <1>3 DEF CallType, RowsAreWhole
<1>5. PICK s \in Stations, u \in Uids : s = mark[2] /\ u = mark[3] /\ mark[1] \in {"evse", "connector"}
  BY <1>4 DEF Marks
<1>6. evses[s][u] \in EvseType
  BY <1>3, EvsesAre
<1>7. /\ \A s2 \in Stations : \A u2 \in Uids : s2 # s \/ u2 # u => evses'[s2][u2] = evses[s2][u2]
      /\ mark[1] = "evse" => evses'[s][u].connector = evses[s][u].connector
      /\ mark[1] = "connector" => evses'[s][u].connector = "deleted"
  BY <1>1, <1>3, <1>5, <1>6 DEF LocationTypeOK, EvseType
<1>8. mark[1] = "connector" => ~ConnectorInBody(c, u)
  BY <1>1, <1>3, <1>5 DEF MarksAreUnlisted
<1>9. DeletedGrow(c)
  BY <1>5, <1>7, <1>8 DEF DeletedGrow
<1>10. OthersAreLeft(c) /\ CallRuns(c)
  <2>1. CASE Call(c).marks = {mark}
    BY <1>1, <1>2, <1>3, <1>4, <2>1, CompletesIs DEF CallRuns
  <2>2. CASE Call(c).marks # {mark}
    <3>1. OthersAreLeft(c) /\ CallKeeps(c) /\ Call(c)'.at = "mark"
      BY <1>1, <1>3, <1>4, <2>2, HasMarksIs
    <3> QED BY <1>2, <3>1 DEF CallRuns, IsPast
  <2> QED BY <2>1, <2>2
<1> QED BY <1>1, <1>2, <1>9, <1>10, HiddenStays DEF RemovedStays

LEMMA ReadRowsHides ==
  ASSUME LocationIInv, NEW c \in LocationCalls, ReadRows(c)
  PROVE  HiddenIInv'
<1>1. /\ Call(c).at = "read" /\ UNCHANGED <<locationRow, stations, evses, knownTariffs>>
      /\ IF Unlisted(c) = {} THEN Completes(c) ELSE HasMarks(c, Unlisted(c))
  BY DEF ReadRows, rowVars
<1>2. ~LocationIdle(c) /\ Call(c).at \in Ending /\ IsPast(Call(c))
  BY <1>1 DEF LocationIdle, Ending, IsPast
<1>3. /\ StoredIInv /\ LocationTypeOK /\ RowsAreWhole
      /\ Call(c).station \in stations /\ Call(c).station \in Stations
  BY <1>2, StoringIs DEF LocationIInv, StoredIInv
<1>4. locationRow # "absent" /\ Unlisted(c) \in SUBSET Marks
  BY <1>2, <1>3, UnlistedIs DEF RowsAreWhole
<1>5. OthersAreLeft(c) /\ CallRuns(c)
  <2>1. CASE Unlisted(c) = {}
    BY <1>1, <1>2, <1>3, <1>4, <2>1, CompletesIs DEF CallRuns
  <2>2. CASE Unlisted(c) # {}
    <3>1. OthersAreLeft(c) /\ CallKeeps(c) /\ Call(c)'.at = "mark"
      BY <1>1, <1>3, <1>4, <2>2, HasMarksIs
    <3> QED BY <1>2, <3>1 DEF CallRuns, IsPast
  <2> QED BY <2>1, <2>2
<1> QED BY <1>1, <1>2, <1>5, RowsHideAsBefore, HiddenStays DEF RemovedStays

\* The steps to the station, which write no EVSE.
LEMMA FindsHide ==
  ASSUME LocationIInv, NEW c \in LocationCalls,
         \/ FindLocation(c) \/ InsertLocation(c) \/ UpdateLocation(c) \/ FindStation(c) \/ CreateStation(c)
         \/ FindForEvse(c) \/ FindForConnector(c) \/ FindToPatch(c) \/ TariffUnknown(c)
  PROVE  HiddenIInv'
<1>1. /\ MayMake(c) \/ Call(c).at = "link"
      /\ evses' = evses
      /\ InsertLocation(c) \/ locationRow' = locationRow
  BY DEF FindLocation, InsertLocation, UpdateLocation, FindStation, CreateStation, FindForEvse, FindForConnector,
         FindToPatch, TariffUnknown, MayMake, rowVars
<1>2. ~LocationIdle(c) /\ ~IsPast(Call(c))
  BY <1>1 DEF LocationIdle, IsPast, MayMake
<1>3. /\ StoredIInv /\ LocationTypeOK /\ RowsAreWhole /\ StationsAreCounted
      /\ stations \subseteq Stations /\ CallIsGrounded(c)
      /\ {"insert", "update", "station", "create", "evse", "connector", "patch", "patch fields"} \subseteq Places
  BY <1>2, LocationCallIs DEF LocationIInv, StoredIInv, LocationTypeOK, Places
<1>4. stations # {} => locationRow # "absent"
  BY <1>3 DEF RowsAreWhole
<1>5. RemovedStays
  BY <1>1 DEF RemovedStays, InsertLocation
<1>6. ASSUME NEW at \in {"insert", "update", "station", "create"}, GoesTo(c, at)
      PROVE  OthersAreLeft(c) /\ CallRuns(c)
  BY <1>2, <1>3, <1>6, GoesToRuns
<1>7. ASSUME NEW at \in {"connector", "patch", "patch fields"}, NEW s \in stations, GoesToStation(c, s, at)
      PROVE  OthersAreLeft(c) /\ CallRuns(c)
  BY <1>2, <1>3, <1>7, GoesToStationRuns
<1>8. ASSUME NEW s \in stations, FirstEvse(c, s) PROVE OthersAreLeft(c) /\ CallRuns(c)
  BY <1>2, <1>3, <1>4, <1>8, FirstEvseRuns
<1>9. ASSUME GivesUp(c) PROVE OthersAreLeft(c) /\ CallRuns(c)
  BY <1>3, <1>9, GivesUpRuns
<1>10. OthersAreLeft(c) /\ CallRuns(c)
  <2>1. CASE FindLocation(c) \/ InsertLocation(c) \/ UpdateLocation(c) \/ TariffUnknown(c)
    BY <1>6, <1>9, <2>1 DEF FindLocation, InsertLocation, UpdateLocation, TariffUnknown
  <2>2. CASE FindStation(c)
    BY <1>6, <1>8, <2>2 DEF FindStation
  <2>3. CASE FindForEvse(c)
    BY <1>6, <1>8, <1>9, <2>3 DEF FindForEvse
  <2>4. CASE FindForConnector(c)
    BY <1>7, <1>9, <2>4 DEF FindForConnector
  <2>5. CASE FindToPatch(c)
    BY <1>7, <1>9, <2>5 DEF FindToPatch
  <2>6. CASE CreateStation(c)
    <3>1. PICK s : s = Cardinality(stations) + 1
      OBVIOUS
    <3>2. Call(c).at = "create" /\ FirstEvse(c, s) /\ stations' = stations \cup {s}
      BY <2>6, <3>1 DEF CreateStation
    <3>3. locationRow # "absent"
      BY <1>3, <3>2 DEF CallIsGrounded
    <3>4. stations' \subseteq Stations
      BY <1>2, <1>3, <2>6, CreateStationKeeps DEF StoredIInv, LocationTypeOK
    <3>5. s \in Stations
      BY <3>2, <3>4
    <3> QED BY <1>2, <1>3, <3>2, <3>3, <3>5, FirstEvseRuns
  <2> QED BY <2>1, <2>2, <2>3, <2>4, <2>5, <2>6
<1> QED BY <1>1, <1>2, <1>5, <1>10, RowsHideAsBefore, HiddenStays

\* The steps that write an EVSE, its connector or its links.
LEMMA WritesHide ==
  ASSUME LocationIInv, NEW c \in LocationCalls,
         \/ UpsertEvse(c) \/ UpsertConnector(c) \/ UnlinkTariffs(c) \/ PatchEvse(c) \/ PatchConnector(c)
         \/ \E t \in Tariffs : LinkTariff(c, t)
  PROVE  HiddenIInv'
<1>1. /\ Call(c).at \in Storing \cup {"patch", "patch fields"}
      /\ locationRow' = locationRow
  BY DEF UpsertEvse, UpsertConnector, UnlinkTariffs, PatchEvse, PatchConnector, LinkTariff, Storing, rowVars
<1>2. ~LocationIdle(c) /\ ~IsPast(Call(c)) /\ RemovedStays
  BY <1>1 DEF LocationIdle, IsPast, Storing, RemovedStays
<1>3. /\ StoredIInv /\ LocationTypeOK /\ RowsAreWhole /\ CallIsPlaced(c) /\ Call(c) \in CallType
      /\ Call(c).station \in stations /\ Call(c).station \in Stations /\ Now(c).uid \in Uids
      /\ Now(c).tariffs \subseteq Tariffs /\ "connector" \in Places /\ "unlink" \in Places
  BY <1>1, <1>2, LocationCallIs, StoringIs DEF LocationIInv, StoredIInv, Places
<1>4. locationRow # "absent" /\ RowOf(c) \in EvseType
  BY <1>3, EvsesAre DEF RowsAreWhole, RowOf
<1>5. ASSUME NEW at \in {"connector", "unlink"}, GoesTo(c, at) PROVE OthersAreLeft(c) /\ CallRuns(c)
  BY <1>2, <1>3, <1>5, GoesToRuns
<1>6. ASSUME NEW left \in SUBSET Tariffs, HasLeft(c, left, "link") PROVE OthersAreLeft(c) /\ CallRuns(c)
  <2>1. OthersAreLeft(c) /\ CallKeeps(c) /\ Call(c)'.at = "link"
    BY <1>3, <1>6, HasLeftIs
  <2> QED BY <1>2, <2>1 DEF CallRuns, IsPast
<1>7. ASSUME Completes(c), Call(c).kind # "pull" PROVE OthersAreLeft(c) /\ CallRuns(c)
  BY <1>3, <1>4, <1>7, CompletesIs DEF CallRuns
<1>8. CASE UpsertEvse(c)
  <2>1. Call(c).at \in Storing /\ Writes(c, [RowOf(c) EXCEPT !.status = Now(c).status])
    BY <1>8 DEF UpsertEvse, Storing
  <2>2. [RowOf(c) EXCEPT !.status = Now(c).status].connector = RowOf(c).connector
    BY <1>4 DEF EvseType
  <2>3. DeletedGrow(c)
    BY <1>3, <2>1, <2>2, WritesHideAsBefore
  <2>4. OthersAreLeft(c) /\ CallRuns(c)
    BY <1>3, <1>5, <1>8, <2>1, NextEvseRuns DEF UpsertEvse
  <2> QED BY <1>2, <2>3, <2>4, HiddenStays
<1>9. CASE UpsertConnector(c)
  <2>1. PICK row : row = [RowOf(c) EXCEPT !.connector = IF RowOf(c).connector = "none" THEN "there" ELSE RowOf(c).connector]
    OBVIOUS
  <2>2. Call(c).at \in Storing /\ Writes(c, row) /\ GoesTo(c, "unlink")
    BY <1>9, <2>1 DEF UpsertConnector, Storing
  <2>3. row.connector = "deleted" <=> RowOf(c).connector = "deleted"
    BY <1>4, <2>1 DEF EvseType
  <2>4. DeletedGrow(c)
    BY <1>3, <2>2, <2>3, WritesHideAsBefore
  <2> QED BY <1>2, <1>5, <2>2, <2>4, HiddenStays
<1>10. CASE UnlinkTariffs(c)
  <2>1. Call(c).at \in Storing /\ Writes(c, [RowOf(c) EXCEPT !.links = NoEvse.links])
    BY <1>10 DEF UnlinkTariffs, Storing
  <2>2. [RowOf(c) EXCEPT !.links = NoEvse.links].connector = RowOf(c).connector
    BY <1>4 DEF EvseType
  <2>3. DeletedGrow(c)
    BY <1>3, <2>1, <2>2, WritesHideAsBefore
  <2>4. OthersAreLeft(c) /\ CallRuns(c)
    BY <1>3, <1>6, <1>10, <2>1, NextEvseRuns DEF UnlinkTariffs
  <2> QED BY <1>2, <2>3, <2>4, HiddenStays
<1>11. ASSUME NEW t \in Tariffs, LinkTariff(c, t) PROVE HiddenIInv'
  <2>1. Call(c).at \in Storing /\ Writes(c, [RowOf(c) EXCEPT !.links[t] = RowOf(c).links[t] + 1])
    BY <1>11 DEF LinkTariff, Storing
  <2>2. [RowOf(c) EXCEPT !.links[t] = RowOf(c).links[t] + 1].connector = RowOf(c).connector
    BY <1>4 DEF EvseType
  <2>3. DeletedGrow(c)
    BY <1>3, <2>1, <2>2, WritesHideAsBefore
  <2>4. Call(c).left \ {t} \in SUBSET Tariffs
    BY <1>3 DEF CallType
  <2>5. OthersAreLeft(c) /\ CallRuns(c)
    BY <1>3, <1>6, <1>11, <2>1, <2>4, NextEvseRuns DEF LinkTariff
  <2> QED BY <1>2, <2>3, <2>5, HiddenStays
<1>12. CASE PatchEvse(c)
  <2>1. Call(c).at = "patch" /\ Writes(c, [RowOf(c) EXCEPT !.status = Now(c).status]) /\ Completes(c)
    BY <1>12 DEF PatchEvse
  <2>2. [RowOf(c) EXCEPT !.status = Now(c).status].connector = RowOf(c).connector
    BY <1>4 DEF EvseType
  <2>3. DeletedGrow(c)
    BY <1>3, <2>1, <2>2, WritesHideAsBefore
  <2>4. Call(c).kind # "pull"
    BY <1>3, <2>1 DEF CallIsPlaced
  <2> QED BY <1>2, <1>7, <2>1, <2>3, <2>4, HiddenStays
<1>13. CASE PatchConnector(c)
  <2>1. /\ Call(c).at = "patch fields" /\ Call(c).kind # "pull" /\ evses' = evses
        /\ Completes(c) \/ GoesTo(c, "unlink")
    BY <1>3, <1>13 DEF PatchConnector, CallIsPlaced, rowVars
  <2>2. OthersAreLeft(c) /\ CallRuns(c)
    BY <1>5, <1>7, <2>1
  <2> QED BY <1>2, <2>1, <2>2, RowsHideAsBefore, HiddenStays
<1> QED BY <1>8, <1>9, <1>10, <1>11, <1>12, <1>13

LEMMA BeginHides ==
  ASSUME LocationIInv, NEW c \in LocationCalls, NEW kind \in Kinds, NEW body \in Bodies, Begin(c, kind, body)
  PROVE  HiddenIInv'
<1>1. PICK others : others = {d \in LocationCalls \ {c} : Call(d).at # "idle"}
  OBVIOUS
<1>2. PICK call : call = [NoCall EXCEPT !.kind = kind, !.at = "find", !.body = body, !.alone = others = {}]
  OBVIOUS
<1>3. /\ done' = NoCall /\ hidden' = (IF others = {} THEN HiddenNow ELSE NothingHidden)
      /\ locationCall' = [d \in LocationCalls |-> IF d = c THEN call ELSE [Call(d) EXCEPT !.alone = FALSE]]
      /\ UNCHANGED <<locationRow, evses>>
  BY <1>1, <1>2 DEF Begin, rowVars
<1>4. call.at = "find" /\ (call.alone => others = {})
  BY <1>2 DEF NoCall
<1>5. LocationTypeOK
  BY DEF LocationIInv, StoredIInv
<1>6. ASSUME NEW d \in LocationCalls, d # c PROVE ~Call(d)'.alone
  <2>1. Call(d)' = [Call(d) EXCEPT !.alone = FALSE] /\ Call(d) \in CallType
    BY <1>3, <1>5, <1>6 DEF LocationTypeOK, Call
  <2> QED BY <2>1 DEF CallType
<1>7. HidesNoMore(Call(c))'
  <2>1. Call(c)' = call
    BY <1>3 DEF Call
  <2>2. ASSUME call.alone PROVE HidesNoMore(Call(c))'
    <3>1. /\ hidden'.location <=> locationRow = "removed"
          /\ hidden'.connectors = {r \in Stations \X Uids : evses[r[1]][r[2]].connector = "deleted"}
      BY <1>3, <1>4, <2>2 DEF HiddenNow
    <3> QED BY <1>3, <1>4, <2>1, <3>1 DEF HidesNoMore
  <2> QED BY <2>1, <2>2 DEF HidesNoMore
<1>8. ASSUME NEW d \in LocationCalls PROVE HidesNoMore(Call(d))'
  BY <1>6, <1>7 DEF HidesNoMore
<1>9. EndsPlaced(done)' /\ HidesNoMore(done)'
  BY <1>3, NoCallIs DEF EndsPlaced, HidesNoMore
<1> QED BY <1>8, <1>9 DEF HiddenIInv

LEMMA HiddenStartsAs == LocationInit => HiddenIInv
BY NoCallIs DEF LocationInit, HiddenIInv, EndsPlaced, HidesNoMore, Call

LEMMA LocationStarts == LocationInit => LocationIInv
BY StoredStarts, HiddenStartsAs DEF LocationIInv

LEMMA HidesTheSame ==
  ASSUME LocationIInv, UNCHANGED <<locationRow, evses, locationCall, hidden, done>>
  PROVE  HiddenIInv'
<1>1. EndsPlaced(done) /\ HidesNoMore(done) /\ \A c \in LocationCalls : HidesNoMore(Call(c)) /\ Call(c)' = Call(c)
  BY DEF LocationIInv, HiddenIInv, Call
<1>2. EndsPlaced(done)' /\ HidesNoMore(done)'
  BY <1>1 DEF EndsPlaced, HidesNoMore
<1>3. \A c \in LocationCalls : HidesNoMore(Call(c))'
  BY <1>1 DEF HidesNoMore
<1> QED BY <1>2, <1>3 DEF HiddenIInv

LEMMA LocationKeeps == LocationIInv /\ [LocationNext]_locationVars => LocationIInv'
<1> SUFFICES ASSUME LocationIInv, [LocationNext]_locationVars PROVE LocationIInv'
  OBVIOUS
<1>1. StoredIInv'
  BY StoredKeeps DEF LocationIInv
<1>2. ASSUME NEW c \in LocationCalls, LocationStep(c) PROVE HiddenIInv'
  BY <1>2, FindsHide, WritesHide, MarkLocationHides, ReadRowsHides, MarkHides DEF LocationStep
<1>3. ASSUME NEW c \in LocationCalls, CallBreaks(c) PROVE HiddenIInv'
  <2>1. /\ ~LocationIdle(c) /\ GivesUp(c) /\ UNCHANGED <<locationRow, evses>> /\ LocationTypeOK
    BY <1>3 DEF CallBreaks, LocationIdle, rowVars, LocationIInv, StoredIInv
  <2> QED BY <2>1, GivesUpRuns, RowsHideAsBefore, HiddenStays DEF RemovedStays
<1>4. ASSUME NEW c \in LocationCalls, NEW kind \in Kinds, NEW body \in Bodies, Begin(c, kind, body) PROVE HiddenIInv'
  BY <1>4, BeginHides
<1>5. ASSUME NEW t \in Tariffs, TariffArrives(t) PROVE HiddenIInv'
  <2>1. UNCHANGED <<locationRow, evses, locationCall, hidden, done>>
    BY <1>5 DEF TariffArrives
  <2> QED BY <2>1, HidesTheSame
<1>6. ASSUME UNCHANGED locationVars PROVE HiddenIInv'
  <2>1. UNCHANGED <<locationRow, evses, locationCall, hidden, done>>
    BY <1>6 DEF locationVars
  <2> QED BY <2>1, HidesTheSame
<1> QED BY <1>1, <1>2, <1>3, <1>4, <1>5, <1>6 DEF LocationNext, LocationIInv

LEMMA StatusesAre ==
  ASSUME NEW body \in Bodies
  PROVE  AllRemoved(body) <=> StatusesOf(body) = {"REMOVED"}
<1>1. DOMAIN body = 1..Len(body) /\ Len(body) \in Nat /\ (body # <<>> <=> Len(body) # 0)
  BY BodiesAre
<1>2. body # <<>> <=> \E i \in DOMAIN body : TRUE
  BY <1>1
<1> QED BY <1>2 DEF AllRemoved, StatusesOf

\* What the invariant says of the call that has ended.
LEMMA AloneHasStored == LocationIInv => AloneStores
<1> SUFFICES ASSUME LocationIInv, done.alone, done.kind \in {"location", "evse", "full pull", "pull"}
    PROVE  /\ locationRow = IF hidden.location \/ (done.kind = "pull" /\ StatusesOf(done.body) = {"REMOVED"})
                             THEN "removed" ELSE "visible"
           /\ \A i \in DOMAIN done.body :
                LET evse == done.body[i]
                    row == evses[done.station][evse.uid]
                IN  /\ row.status = evse.status
                    /\ evse.connector =>
                         /\ row.connector = IF <<done.station, evse.uid>> \in hidden.connectors
                                            THEN "deleted" ELSE "there"
                         /\ \A t \in Tariffs : row.links[t] = IF t \in evse.tariffs THEN 1 ELSE 0
  BY DEF AloneStores
<1>1. /\ LocationTypeOK /\ AloneHolds /\ HidesNoMore(done) /\ EndsPlaced(done) /\ done \in CallType
  BY DEF LocationIInv, StoredIInv, HiddenIInv, LocationTypeOK
<1>2. locationRow = IF hidden.location \/ (done.kind = "pull" /\ StatusesOf(done.body) = {"REMOVED"})
                     THEN "removed" ELSE "visible"
  <2>1. locationRow = IF hidden.location \/ (done.kind = "pull" /\ AllRemoved(done.body)) THEN "removed" ELSE "visible"
    BY <1>1 DEF HidesNoMore, EndsPlaced, LocationTypeOK
  <2>2. AllRemoved(done.body) <=> StatusesOf(done.body) = {"REMOVED"}
    BY <1>1, StatusesAre DEF EndsPlaced
  <2> QED BY <2>1, <2>2
<1>3. ASSUME NEW i \in DOMAIN done.body
      PROVE  /\ HoldsEvse(evses[done.station][done.body[i].uid], done.body[i])
             /\ done.body[i].connector => evses[done.station][done.body[i].uid].connector =
                  IF <<done.station, done.body[i].uid>> \in hidden.connectors THEN "deleted" ELSE "there"
  <2>1. HoldsEvse(evses[done.station][done.body[i].uid], done.body[i])
    BY <1>1 DEF AloneHolds, Whole
  <2>2. done.body \in Bodies /\ done.body # <<>>
    <3>1. done.body \in Bodies
      BY <1>1 DEF EndsPlaced
    <3>2. DOMAIN done.body = 1..Len(done.body) /\ Len(done.body) \in Nat /\ (done.body # <<>> <=> Len(done.body) # 0)
      BY <3>1, BodiesAre
    <3>3. i \in 1..Len(done.body)
      BY <3>2, Zenon
    <3>4. Len(done.body) # 0
      BY <3>2, <3>3, NoneOfNone, Zenon
    <3> QED BY <3>1, <3>2, <3>4
  <2>3. done.station \in Stations /\ done.body[i].uid \in Uids
    BY <1>1, <2>2, BodiesAre DEF EndsPlaced
  <2>4. PICK s \in Stations, u \in Uids : s = done.station /\ u = done.body[i].uid
    BY <2>3
  <2>5. done.body[i].connector => evses[s][u].connector \in {"there", "deleted"}
    BY <1>1, <2>1, <2>4, EvsesAre DEF HoldsEvse
  <2>6. /\ <<s, u>> \in hidden.connectors => evses[s][u].connector = "deleted"
        /\ done.body[i].connector /\ evses[s][u].connector = "deleted" => <<s, u>> \in hidden.connectors
    BY <1>1, <2>4 DEF HidesNoMore
  <2> QED BY <2>1, <2>4, <2>5, <2>6
<1> QED BY <1>2, <1>3 DEF HoldsEvse

\* A received location is stored whole, once and as the partner sent it: the rows hang
\* together after every step, one station and one link per tariff without an overlap, and a
\* call that was alone has stored its body, and as a full pull nothing else.  What was marked
\* as deleted before it stays hidden, sent again or not, and nothing else is hidden but what a
\* pull removes (LocationReceiverService, LocationPullHandler).
THEOREM LocationStays ==
  LocationSpec => [](LocationIInv /\ RowsAreWhole /\ OneOfEach /\ AloneStores /\ FullPullMirrors)
<1>1. LocationIInv => RowsAreWhole /\ OneOfEach /\ AloneStores /\ FullPullMirrors
  BY AloneHasStored DEF LocationIInv, StoredIInv, OnceAtATime, OneOfEach
<1> QED BY <1>1, LocationStarts, LocationKeeps, PTL DEF LocationSpec

-----------------------------------------------------------------------------
(* The columns of a received location *)

LEMMA TuplesAre ==
  ASSUME NEW a, NEW b, NEW c
  PROVE  /\ Len(<<a>>) = 1 /\ Head(<<a>>) = a /\ Tail(<<a>>) = <<>> /\ DOMAIN <<a>> = {1}
         /\ Len(<<a, b>>) = 2 /\ Head(<<a, b>>) = a /\ Tail(<<a, b>>) = <<b>> /\ DOMAIN <<a, b>> = {1, 2}
         /\ Len(<<a, b, c>>) = 3 /\ Head(<<a, b, c>>) = a /\ Tail(<<a, b, c>>) = <<b, c>>
         /\ DOMAIN <<a, b, c>> = {1, 2, 3}
OBVIOUS

LEMMA ItemsAre ==
  ASSUME NEW a, NEW b, NEW c
  PROVE  /\ {<<a>>[i] : i \in DOMAIN <<a>>} = {a}
         /\ {<<a, b>>[i] : i \in DOMAIN <<a, b>>} = {a, b}
         /\ {<<a, b, c>>[i] : i \in DOMAIN <<a, b, c>>} = {a, b, c}
<1>1. {<<a>>[i] : i \in DOMAIN <<a>>} = {a}
  BY TuplesAre
<1>2. {<<a, b>>[i] : i \in DOMAIN <<a, b>>} = {a, b}
  <2>1. <<a, b>>[1] = a /\ <<a, b>>[2] = b /\ DOMAIN <<a, b>> = {1, 2}
    BY TuplesAre
  <2> QED BY <2>1
<1>3. {<<a, b, c>>[i] : i \in DOMAIN <<a, b, c>>} = {a, b, c}
  <2>1. <<a, b, c>>[1] = a /\ <<a, b, c>>[2] = b /\ <<a, b, c>>[3] = c /\ DOMAIN <<a, b, c>> = {1, 2, 3}
    BY TuplesAre
  <2> QED BY <2>1
<1> QED BY <1>1, <1>2, <1>3

LEMMA TodosAre ==
  ASSUME NEW method \in {"PUT", "PATCH"}, NEW level \in Levels
  PROVE  LeftTodo(method, level) =
           IF level = "location"
           THEN IF method = "PUT"
                THEN {<<"location", "evse", "connector">>, <<"insert", "evse", "connector">>,
                      <<"evse", "connector">>, <<"connector">>}
                ELSE {<<"location">>}
           ELSE IF level = "evse"
           THEN IF method = "PUT"
                THEN {<<"evse", "connector", "touch location">>, <<"connector", "touch location">>,
                      <<"touch location">>}
                ELSE {<<"evse", "touch location">>, <<"touch location">>}
           ELSE {<<"connector", "touch evse", "touch location">>, <<"touch evse", "touch location">>,
                 <<"touch location">>}
BY DEF LeftTodo, TodoOf, Inserting, Levels

ItemsOf(todo) == {todo[i] : i \in DOMAIN todo}

\* A todo is one of these, and what is left after its first request another.
TodoIs(method, level, todo, first, rest) ==
    /\ Head(todo) = first /\ first \notin rest /\ ItemsOf(todo) = {first} \cup rest
    /\ Len(todo) > 1 <=> rest # {}
    /\ rest # {} => Tail(todo) \in LeftTodo(method, level) /\ ItemsOf(Tail(todo)) = rest

LEMMA TodoCases ==
  ASSUME NEW method \in {"PUT", "PATCH"}, NEW level \in Levels, NEW todo \in LeftTodo(method, level)
  PROVE  \/ level = "location" /\ method = "PUT" /\ TodoIs(method, level, todo, "location", {"evse", "connector"})
         \/ level = "location" /\ method = "PUT" /\ TodoIs(method, level, todo, "insert", {"evse", "connector"})
         \/ level = "location" /\ method = "PUT" /\ TodoIs(method, level, todo, "evse", {"connector"})
         \/ level = "location" /\ method = "PUT" /\ TodoIs(method, level, todo, "connector", {})
         \/ level = "location" /\ method = "PATCH" /\ TodoIs(method, level, todo, "location", {})
         \/ level = "evse" /\ method = "PUT" /\ TodoIs(method, level, todo, "evse", {"connector", "touch location"})
         \/ level = "evse" /\ method = "PUT" /\ TodoIs(method, level, todo, "connector", {"touch location"})
         \/ level = "evse" /\ method = "PATCH" /\ TodoIs(method, level, todo, "evse", {"touch location"})
         \/ level = "connector" /\ TodoIs(method, level, todo, "connector", {"touch evse", "touch location"})
         \/ level = "connector" /\ TodoIs(method, level, todo, "touch evse", {"touch location"})
         \/ level # "location" /\ TodoIs(method, level, todo, "touch location", {})
<1>1. ASSUME NEW a PROVE /\ Head(<<a>>) = a /\ ItemsOf(<<a>>) = {a} /\ ~(Len(<<a>>) > 1)
  BY TuplesAre, ItemsAre DEF ItemsOf
<1>2. ASSUME NEW a, NEW b
      PROVE  /\ Head(<<a, b>>) = a /\ ItemsOf(<<a, b>>) = {a, b} /\ Len(<<a, b>>) > 1 /\ Tail(<<a, b>>) = <<b>>
  BY TuplesAre, ItemsAre DEF ItemsOf
<1>3. ASSUME NEW a, NEW b, NEW c
      PROVE  /\ Head(<<a, b, c>>) = a /\ ItemsOf(<<a, b, c>>) = {a, b, c} /\ Len(<<a, b, c>>) > 1
             /\ Tail(<<a, b, c>>) = <<b, c>>
  BY TuplesAre, ItemsAre DEF ItemsOf
<1>4. CASE level = "location" /\ method = "PUT"
  <2>1. LeftTodo(method, level) = {<<"location", "evse", "connector">>, <<"insert", "evse", "connector">>,
                                   <<"evse", "connector">>, <<"connector">>}
    BY <1>4, TodosAre
  <2>2. CASE todo = <<"location", "evse", "connector">>
    <3>1. Head(todo) = "location" /\ ItemsOf(todo) = {"location", "evse", "connector"} /\ Len(todo) > 1 /\ Tail(todo) = <<"evse", "connector">>
      BY <1>3, <2>2
    <3>2. ItemsOf(<<"evse", "connector">>) = {"evse", "connector"} /\ {"location", "evse", "connector"} = {"location"} \cup {"evse", "connector"} /\ "location" \notin {"evse", "connector"} /\ {"evse", "connector"} # {}
      BY <1>2
    <3>3. Tail(todo) \in LeftTodo(method, level)
      BY <2>1, <3>1
    <3>4. TodoIs(method, level, todo, "location", {"evse", "connector"})
      BY <3>1, <3>2, <3>3 DEF TodoIs
    <3> QED BY <1>4, <3>4
  <2>3. CASE todo = <<"insert", "evse", "connector">>
    <3>1. Head(todo) = "insert" /\ ItemsOf(todo) = {"insert", "evse", "connector"} /\ Len(todo) > 1 /\ Tail(todo) = <<"evse", "connector">>
      BY <1>3, <2>3
    <3>2. ItemsOf(<<"evse", "connector">>) = {"evse", "connector"} /\ {"insert", "evse", "connector"} = {"insert"} \cup {"evse", "connector"} /\ "insert" \notin {"evse", "connector"} /\ {"evse", "connector"} # {}
      BY <1>2
    <3>3. Tail(todo) \in LeftTodo(method, level)
      BY <2>1, <3>1
    <3>4. TodoIs(method, level, todo, "insert", {"evse", "connector"})
      BY <3>1, <3>2, <3>3 DEF TodoIs
    <3> QED BY <1>4, <3>4
  <2>4. CASE todo = <<"evse", "connector">>
    <3>1. Head(todo) = "evse" /\ ItemsOf(todo) = {"evse", "connector"} /\ Len(todo) > 1 /\ Tail(todo) = <<"connector">>
      BY <1>2, <2>4
    <3>2. ItemsOf(<<"connector">>) = {"connector"} /\ {"evse", "connector"} = {"evse"} \cup {"connector"} /\ "evse" \notin {"connector"} /\ {"connector"} # {}
      BY <1>1
    <3>3. Tail(todo) \in LeftTodo(method, level)
      BY <2>1, <3>1
    <3>4. TodoIs(method, level, todo, "evse", {"connector"})
      BY <3>1, <3>2, <3>3 DEF TodoIs
    <3> QED BY <1>4, <3>4
  <2>5. CASE todo = <<"connector">>
    BY <1>1, <1>4, <2>1, <2>5 DEF TodoIs
  <2> QED BY <2>1, <2>2, <2>3, <2>4, <2>5
<1>5. CASE level = "location" /\ method = "PATCH"
  <2>1. todo = <<"location">>
    BY <1>5, TodosAre
  <2> QED BY <1>1, <1>5, <2>1 DEF TodoIs
<1>6. CASE level = "evse" /\ method = "PUT"
  <2>1. LeftTodo(method, level) = {<<"evse", "connector", "touch location">>, <<"connector", "touch location">>,
                                   <<"touch location">>}
    BY <1>6, TodosAre
  <2>2. CASE todo = <<"evse", "connector", "touch location">>
    <3>1. Head(todo) = "evse" /\ ItemsOf(todo) = {"evse", "connector", "touch location"} /\ Len(todo) > 1 /\ Tail(todo) = <<"connector", "touch location">>
      <4>0. PICK a, b, c : a = "evse" /\ b = "connector" /\ c = "touch location"
        OBVIOUS
      <4>2. /\ Head(<<a, b, c>>) = a /\ ItemsOf(<<a, b, c>>) = {a, b, c} /\ Len(<<a, b, c>>) > 1
            /\ Tail(<<a, b, c>>) = <<b, c>>
        BY <1>3
      <4>1. todo = <<a, b, c>>
        BY <2>2, <4>0
      <4> QED BY <4>0, <4>1, <4>2
    <3>2. ItemsOf(<<"connector", "touch location">>) = {"connector", "touch location"} /\ {"evse", "connector", "touch location"} = {"evse"} \cup {"connector", "touch location"} /\ "evse" \notin {"connector", "touch location"} /\ {"connector", "touch location"} # {}
      BY <1>2
    <3>3. Tail(todo) \in LeftTodo(method, level)
      BY <2>1, <3>1
    <3>4. TodoIs(method, level, todo, "evse", {"connector", "touch location"})
      BY <3>1, <3>2, <3>3 DEF TodoIs
    <3> QED BY <1>6, <3>4
  <2>3. CASE todo = <<"connector", "touch location">>
    <3>1. Head(todo) = "connector" /\ ItemsOf(todo) = {"connector", "touch location"} /\ Len(todo) > 1 /\ Tail(todo) = <<"touch location">>
      BY <1>2, <2>3
    <3>2. ItemsOf(<<"touch location">>) = {"touch location"} /\ {"connector", "touch location"} = {"connector"} \cup {"touch location"} /\ "connector" \notin {"touch location"} /\ {"touch location"} # {}
      BY <1>1
    <3>3. Tail(todo) \in LeftTodo(method, level)
      BY <2>1, <3>1
    <3>4. TodoIs(method, level, todo, "connector", {"touch location"})
      BY <3>1, <3>2, <3>3 DEF TodoIs
    <3> QED BY <1>6, <3>4
  <2>4. CASE todo = <<"touch location">>
    BY <1>1, <1>6, <2>4 DEF TodoIs
  <2> QED BY <2>1, <2>2, <2>3, <2>4
<1>7. CASE level = "evse" /\ method = "PATCH"
  <2>1. LeftTodo(method, level) = {<<"evse", "touch location">>, <<"touch location">>}
    BY <1>7, TodosAre
  <2>2. CASE todo = <<"evse", "touch location">>
    <3>1. Head(todo) = "evse" /\ ItemsOf(todo) = {"evse", "touch location"} /\ Len(todo) > 1 /\ Tail(todo) = <<"touch location">>
      BY <1>2, <2>2
    <3>2. ItemsOf(<<"touch location">>) = {"touch location"} /\ {"evse", "touch location"} = {"evse"} \cup {"touch location"} /\ "evse" \notin {"touch location"} /\ {"touch location"} # {}
      BY <1>1
    <3>3. Tail(todo) \in LeftTodo(method, level)
      BY <2>1, <3>1
    <3>4. TodoIs(method, level, todo, "evse", {"touch location"})
      BY <3>1, <3>2, <3>3 DEF TodoIs
    <3> QED BY <1>7, <3>4
  <2>3. CASE todo = <<"touch location">>
    BY <1>1, <1>7, <2>3 DEF TodoIs
  <2> QED BY <2>1, <2>2, <2>3
<1>8. CASE level = "connector"
  <2>1. LeftTodo(method, level) = {<<"connector", "touch evse", "touch location">>,
                                   <<"touch evse", "touch location">>, <<"touch location">>}
    BY <1>8, TodosAre
  <2>2. CASE todo = <<"connector", "touch evse", "touch location">>
    <3>1. Head(todo) = "connector" /\ ItemsOf(todo) = {"connector", "touch evse", "touch location"} /\ Len(todo) > 1 /\ Tail(todo) = <<"touch evse", "touch location">>
      <4>0. PICK a, b, c : a = "connector" /\ b = "touch evse" /\ c = "touch location"
        OBVIOUS
      <4>2. /\ Head(<<a, b, c>>) = a /\ ItemsOf(<<a, b, c>>) = {a, b, c} /\ Len(<<a, b, c>>) > 1
            /\ Tail(<<a, b, c>>) = <<b, c>>
        BY <1>3
      <4>1. todo = <<a, b, c>>
        BY <2>2, <4>0
      <4> QED BY <4>0, <4>1, <4>2
    <3>2. ItemsOf(<<"touch evse", "touch location">>) = {"touch evse", "touch location"} /\ {"connector", "touch evse", "touch location"} = {"connector"} \cup {"touch evse", "touch location"} /\ "connector" \notin {"touch evse", "touch location"} /\ {"touch evse", "touch location"} # {}
      BY <1>2
    <3>3. Tail(todo) \in LeftTodo(method, level)
      BY <2>1, <3>1
    <3>4. TodoIs(method, level, todo, "connector", {"touch evse", "touch location"})
      BY <3>1, <3>2, <3>3 DEF TodoIs
    <3> QED BY <1>8, <3>4
  <2>3. CASE todo = <<"touch evse", "touch location">>
    <3>1. Head(todo) = "touch evse" /\ ItemsOf(todo) = {"touch evse", "touch location"} /\ Len(todo) > 1 /\ Tail(todo) = <<"touch location">>
      BY <1>2, <2>3
    <3>2. ItemsOf(<<"touch location">>) = {"touch location"} /\ {"touch evse", "touch location"} = {"touch evse"} \cup {"touch location"} /\ "touch evse" \notin {"touch location"} /\ {"touch location"} # {}
      BY <1>1
    <3>3. Tail(todo) \in LeftTodo(method, level)
      BY <2>1, <3>1
    <3>4. TodoIs(method, level, todo, "touch evse", {"touch location"})
      BY <3>1, <3>2, <3>3 DEF TodoIs
    <3> QED BY <1>8, <3>4
  <2>4. CASE todo = <<"touch location">>
    BY <1>1, <1>8, <2>4 DEF TodoIs
  <2> QED BY <2>1, <2>2, <2>3, <2>4
<1> QED BY <1>4, <1>5, <1>6, <1>7, <1>8 DEF Levels

LEMMA LeftIsTodo ==
  ASSUME NEW method \in {"PUT", "PATCH"}, NEW level \in Levels
  PROVE  /\ LeftTodo(method, level) \subseteq Todos /\ <<>> \notin LeftTodo(method, level)
         /\ TodoOf(method, level) \in LeftTodo(method, level)
         /\ Inserting \in LeftTodo("PUT", "location")
<1>1. LeftTodo(method, level) \subseteq Todos
  BY DEF Todos
<1>2. <<>> \notin LeftTodo(method, level)
  <2>1. ItemsOf(<<>>) = {}
    BY DEF ItemsOf
  <2>2. \A todo \in LeftTodo(method, level) : ItemsOf(todo) # {}
    BY TodoCases DEF TodoIs
  <2> QED BY <2>1, <2>2
<1>3. TodoOf(method, level) \in LeftTodo(method, level) /\ Inserting \in LeftTodo("PUT", "location")
  BY DEF LeftTodo, TodoOf, Levels
<1> QED BY <1>1, <1>2, <1>3

LEMMA LevelsOfColumns ==
  /\ \A col \in LocationColumns : LevelOf(col) = "location"
  /\ LevelOf("status") = "evse" /\ LevelOf("format") = "connector"
  /\ Columns = LocationColumns \cup {"status", "format"} /\ Hours \subseteq LocationColumns
  /\ "status" \notin LocationColumns /\ "format" \notin LocationColumns /\ "name" \in LocationColumns
  /\ \A col \in Columns : LevelOf(col) \in Levels
BY DEF LevelOf, Columns, LocationColumns, Hours, Levels

LEMMA PartiesAre == /\ Parties = {"direct", "roaming"} /\ "none" \notin Parties
                    /\ "location" \in Levels /\ "evse" \in Levels /\ "connector" \in Levels
BY DEF Parties, Levels

LEMMA CellsAre ==
  /\ Unwritten \in Cells /\ \A n \in 0..MaxFieldCalls, set \in BOOLEAN : [set |-> set, by |-> n] \in Cells
  /\ \A cell \in Cells : cell.by \in 0..MaxFieldCalls
BY FieldAssumption DEF Cells, Unwritten

LEMMA NoFieldCallIs == NoFieldCall \in FieldCallType /\ NoFieldCall.method = "none" /\ NoFieldCall.todo = <<>>
                       /\ NoFieldCall.row = "none"
<1>1. <<>> \in Todos
  BY DEF Todos
<1> QED BY <1>1, FieldAssumption DEF NoFieldCall, FieldCallType, Levels, Parties

LEMMA NoAnswerIs == /\ NoAnswer \in [to : Parties \cup {"none"}, of : Parties \cup {"none"}]
                    /\ NoAnswer.to # "roaming"
BY DEF NoAnswer, Parties

LEMMA UpdatedIsNat ==
  ASSUME FieldTypeOK, NEW p \in Parties, NEW level \in Levels
  PROVE  fieldRows[p].updatedAt[level] \in 0..MaxFieldCalls /\ fieldRows[p].updatedAt[level] \in Nat
<1>1. fieldRows[p] \in FieldRowType
  BY DEF FieldTypeOK
<1>2. fieldRows[p].updatedAt \in [Levels -> 0..MaxFieldCalls]
  BY <1>1 DEF FieldRowType
<1> QED BY <1>2, FieldAssumption

LEMMA FieldStarts == FieldInit => FieldsAreSound
<1> SUFFICES ASSUME FieldInit PROVE FieldsAreSound
  OBVIOUS
<1>1. /\ fieldRows \in [Parties -> {NothingReceived, [NothingReceived EXCEPT !.there = Levels]}]
      /\ fieldCall = [c \in FieldCalls |-> NoFieldCall]
      /\ records = <<>> /\ fieldOverlap = FALSE /\ fieldBroken = FALSE /\ answer = NoAnswer
  BY DEF FieldInit
<1>2. \A p \in Parties : /\ fieldRows[p] \in FieldRowType /\ RowsHang(fieldRows[p].there)
                         /\ \A col \in Columns : fieldRows[p].columns[col].by = 0
                         /\ \A level \in Levels : fieldRows[p].updatedAt[level] = 0
  <2> TAKE p \in Parties
  <2>1. fieldRows[p] = NothingReceived \/ fieldRows[p] = [NothingReceived EXCEPT !.there = Levels]
    BY <1>1
  <2>2. NothingReceived.columns \in [Columns -> Cells] /\ \A col \in Columns : NothingReceived.columns[col].by = 0
    BY CellsAre DEF NothingReceived, Unwritten
  <2>3. NothingReceived.updatedAt \in [Levels -> 0..MaxFieldCalls]
        /\ \A level \in Levels : NothingReceived.updatedAt[level] = 0
    BY FieldAssumption DEF NothingReceived
  <2>4. NothingReceived.there = {} /\ NothingReceived \in FieldRowType
    BY <2>2, <2>3 DEF NothingReceived, FieldRowType
  <2>5. [NothingReceived EXCEPT !.there = Levels] \in FieldRowType
    BY <2>4 DEF FieldRowType
  <2> QED BY <2>1, <2>2, <2>3, <2>4, <2>5, PartiesAre DEF RowsHang, FieldRowType
<1>3. FieldTypeOK
  <2>1. fieldRows \in [Parties -> FieldRowType]
    BY <1>1, <1>2
  <2>2. fieldCall \in [FieldCalls -> FieldCallType]
    BY <1>1, NoFieldCallIs
  <2>3. records \in Seq(RecordType) /\ Len(records) <= MaxFieldCalls
    <3>1. <<>> \in Seq(RecordType) /\ Len(<<>>) = 0
      OBVIOUS
    <3> QED BY <1>1, <3>1, FieldAssumption
  <2> QED BY <1>1, <1>2, <2>1, <2>2, <2>3, NoAnswerIs DEF FieldTypeOK
<1>4. \A c \in FieldCalls : FieldIdle(c)
  BY <1>1, NoFieldCallIs DEF FieldIdle, Doing
<1>5. ColumnsHold /\ ShownIsOwn /\ FieldsKept
  BY <1>1, <1>2, NoAnswerIs DEF ColumnsHold, MayHold, ShownIsOwn, FieldsKept
<1>6. FieldCallsAreSound /\ RequestsAreSound
  BY <1>1, <1>4 DEF FieldCallsAreSound, RequestsAreSound, Requests
<1>7. ParentsWillFollow
  <2>1. Len(records) = 0
    BY <1>1
  <2>2. \A p \in Parties, level \in Levels : fieldRows[p].updatedAt[level] <= Len(records)
    BY <1>2, <2>1
  <2>3. \A p \in Parties : IsOlder(p, "evse", "location") /\ IsOlder(p, "connector", "evse")
    BY <1>2, PartiesAre DEF IsOlder
  <2> QED BY <1>4, <2>2, <2>3 DEF ParentsWillFollow, Requests
<1> QED BY <1>3, <1>5, <1>6, <1>7 DEF FieldsAreSound

\* A call in its middle.
LEMMA InTheMiddle ==
  ASSUME FieldsAreSound, NEW c \in FieldCalls, ~FieldIdle(c)
  PROVE  /\ Doing(c) \in FieldCallType /\ Doing(c).method \in {"PUT", "PATCH"} /\ Doing(c).level \in Levels
         /\ Doing(c).party \in Parties /\ Doing(c).carried \subseteq LocationColumns
         /\ Doing(c).n \in DOMAIN records /\ Doing(c).n \in 1..Len(records) /\ Len(records) \in 0..MaxFieldCalls
         /\ records \in Seq(RecordType) /\ records[Doing(c).n] \in RecordType
         /\ records[Doing(c).n].method = Doing(c).method /\ records[Doing(c).n].party = Doing(c).party
         /\ records[Doing(c).n].wrote = {}
<1>1. FieldTypeOK /\ FieldCallsAreSound
  BY DEF FieldsAreSound
<1>2. Doing(c) \in FieldCallType
  BY <1>1 DEF FieldTypeOK, Doing
<1>3. Doing(c).n \in DOMAIN records /\ Doing(c).n \in 1..Len(records) /\ Len(records) \in 0..MaxFieldCalls
      /\ records \in Seq(RecordType) /\ records[Doing(c).n] \in RecordType
  BY <1>1, FieldAssumption DEF FieldTypeOK, FieldCallsAreSound
<1>4. /\ records[Doing(c).n].method = Doing(c).method /\ records[Doing(c).n].party = Doing(c).party
      /\ records[Doing(c).n].wrote = {}
  BY <1>1 DEF FieldCallsAreSound
<1> QED BY <1>2, <1>3, <1>4 DEF FieldCallType, FieldIdle

\* A call that has requests left.
LEMMA Requesting ==
  ASSUME FieldsAreSound, NEW c \in FieldCalls, Requests(c)
  PROVE  /\ ~FieldIdle(c) /\ RequestIsSound(c) /\ Doing(c).row \in Parties
         /\ Doing(c).todo \in LeftTodo(Doing(c).method, Doing(c).level)
         /\ Pending(c) = ItemsOf(Doing(c).todo)
<1>1. ~FieldIdle(c) /\ RequestIsSound(c)
  BY DEF FieldsAreSound, RequestsAreSound, Requests
<1>2. Doing(c).row \in Parties
  BY <1>1, InTheMiddle DEF RequestIsSound, Parties
<1> QED BY <1>1, <1>2 DEF RequestIsSound, Pending, ItemsOf

\* What a call settles is of the columns, and its levels are those of its requests.
LEMMA SettlesIs ==
  ASSUME FieldsAreSound, NEW c \in FieldCalls, ~FieldIdle(c)
  PROVE  /\ Settles(c) \subseteq Columns
         /\ Doing(c).level = "location" /\ Doing(c).method = "PATCH" => Settles(c) = Doing(c).carried
         /\ Doing(c).level = "location" /\ Doing(c).method = "PUT" =>
              Settles(c) = (Columns \ {"name"}) \cup Doing(c).carried
         /\ Doing(c).level = "evse" /\ Doing(c).method = "PATCH" => Settles(c) = {"status"}
         /\ Doing(c).level = "evse" /\ Doing(c).method = "PUT" => Settles(c) = {"status", "format"}
         /\ Doing(c).level = "connector" => Settles(c) = {"format"}
<1>1. Doing(c).level \in Levels /\ Doing(c).method \in {"PUT", "PATCH"} /\ Doing(c).carried \subseteq LocationColumns
  BY InTheMiddle
<1>2. /\ Doing(c).level = "location" /\ Doing(c).method = "PATCH" => Settles(c) = Doing(c).carried
      /\ Doing(c).level = "location" /\ Doing(c).method = "PUT" =>
           Settles(c) = (Columns \ {"name"}) \cup Doing(c).carried
      /\ Doing(c).level = "evse" /\ Doing(c).method = "PATCH" => Settles(c) = {"status"}
      /\ Doing(c).level = "evse" /\ Doing(c).method = "PUT" => Settles(c) = {"status", "format"}
      /\ Doing(c).level = "connector" => Settles(c) = {"format"}
  BY DEF Settles
<1> QED BY <1>1, <1>2, LevelsOfColumns DEF Levels

LEMMA EndsFieldsIs ==
  ASSUME FieldTypeOK, NEW c \in FieldCalls, EndsFields(c)
  PROVE  /\ fieldCall' \in [FieldCalls -> FieldCallType] /\ FieldIdle(c)' /\ fieldCall'[c] = NoFieldCall
         /\ \A d \in FieldCalls : d # c => fieldCall'[d] = fieldCall[d]
BY NoFieldCallIs DEF EndsFields, FieldTypeOK, FieldIdle, Doing

LEMMA GoesOnWithIs ==
  ASSUME FieldsAreSound, NEW c \in FieldCalls, ~FieldIdle(c), NEW row \in Parties, NEW todo \in Todos,
         GoesOnWith(c, row, todo)
  PROVE  /\ fieldCall' \in [FieldCalls -> FieldCallType]
         /\ fieldCall'[c].n = Doing(c).n /\ fieldCall'[c].method = Doing(c).method
         /\ fieldCall'[c].level = Doing(c).level /\ fieldCall'[c].party = Doing(c).party
         /\ fieldCall'[c].carried = Doing(c).carried
         /\ fieldCall'[c].row = row /\ fieldCall'[c].todo = todo
         /\ fieldCall'[c].hours \in [Hours -> Cells]
         /\ \A h \in Hours : fieldCall'[c].hours[h] = fieldRows[row].columns[h]
         /\ \A d \in FieldCalls : d # c => fieldCall'[d] = fieldCall[d]
<1>1. FieldTypeOK /\ fieldCall[c] \in FieldCallType /\ Doing(c) = fieldCall[c]
  BY InTheMiddle DEF FieldsAreSound, Doing
<1>2. PICK read : read = [h \in Hours |-> fieldRows[row].columns[h]]
  OBVIOUS
<1>3. fieldRows[row].columns \in [Columns -> Cells] /\ Hours \subseteq Columns
  BY <1>1, LevelsOfColumns DEF FieldTypeOK, FieldRowType
<1>4. read \in [Hours -> Cells] /\ \A h \in Hours : read[h] = fieldRows[row].columns[h]
  BY <1>2, <1>3
<1>5. PICK goes : goes = [fieldCall[c] EXCEPT !.row = row, !.todo = todo, !.hours = read]
  OBVIOUS
<1>6. fieldCall' = [fieldCall EXCEPT ![c] = goes]
  BY <1>1, <1>2, <1>5 DEF GoesOnWith, FieldTypeOK
<1>7. /\ goes \in FieldCallType /\ goes.row = row /\ goes.todo = todo /\ goes.hours = read
      /\ goes.n = Doing(c).n /\ goes.method = Doing(c).method /\ goes.level = Doing(c).level
      /\ goes.party = Doing(c).party /\ goes.carried = Doing(c).carried
  BY <1>1, <1>4, <1>5 DEF FieldCallType
<1> QED BY <1>1, <1>4, <1>6, <1>7 DEF FieldTypeOK

\* A step of one call that writes nothing.
LEMMA FieldMoves ==
  ASSUME FieldsAreSound, NEW c \in FieldCalls, ~FieldIdle(c), UNCHANGED <<fieldRows, records, fieldOverlap>>,
         answer' = NoAnswer, fieldBroken' \in BOOLEAN, fieldBroken => fieldBroken',
         Doing(c).todo = <<>> \/ fieldBroken',
         fieldCall' \in [FieldCalls -> FieldCallType],
         \A d \in FieldCalls : d # c => fieldCall'[d] = fieldCall[d],
         \/ FieldIdle(c)'
         \/ /\ fieldCall'[c].n = Doing(c).n /\ fieldCall'[c].method = Doing(c).method
            /\ fieldCall'[c].party = Doing(c).party
            /\ RequestIsSound(c)' /\ ParentsAreWritten(c)'
  PROVE  FieldsAreSound'
<1>1. /\ FieldTypeOK /\ ColumnsHold /\ FieldsKept /\ FieldCallsAreSound /\ RequestsAreSound /\ ParentsWillFollow
  BY DEF FieldsAreSound
<1>2. fieldRows' = fieldRows /\ records' = records /\ (fieldOverlap' <=> fieldOverlap)
  OBVIOUS
<1>3. FieldTypeOK'
  BY <1>1, <1>2, NoAnswerIs DEF FieldTypeOK
<1>4. ColumnsHold' /\ ShownIsOwn' /\ FieldsKept'
  BY <1>1, <1>2, NoAnswerIs DEF ColumnsHold, MayHold, ShownIsOwn, FieldsKept
<1>5. \A d \in FieldCalls : ~FieldIdle(d)' => /\ ~FieldIdle(d) /\ Doing(d)'.n = Doing(d).n
                                              /\ Doing(d)'.method = Doing(d).method
                                              /\ Doing(d)'.party = Doing(d).party
  BY DEF FieldIdle, Doing
<1>6. FieldCallsAreSound'
  BY <1>1, <1>2, <1>5 DEF FieldCallsAreSound
<1>7. \A d \in FieldCalls : d # c => Doing(d)' = Doing(d)
  BY DEF Doing
<1>8. \A d \in FieldCalls : d # c => /\ Pending(d)' = Pending(d) /\ Settles(d)' = Settles(d)
                                     /\ Requests(d)' = Requests(d)
  BY <1>7 DEF Pending, Settles, Requests, FieldIdle
<1>9. RequestsAreSound'
  <2> SUFFICES ASSUME NEW d \in FieldCalls, Requests(d)'
      PROVE  RequestIsSound(d)'
    BY DEF RequestsAreSound
  <2>1. CASE d = c
    BY <2>1 DEF Requests
  <2>2. CASE d # c
    <3>1. RequestIsSound(d)
      BY <1>1, <1>8, <2>2 DEF RequestsAreSound
    <3>2. /\ \A p, by : MayHold(p, by)' <=> MayHold(p, by)
          /\ \A n, p, col : IsKept(n, p, col)' <=> IsKept(n, p, col)
          /\ \A col : IsWritten(d, col)' <=> IsWritten(d, col)
      BY <1>2, <1>8, <2>2 DEF MayHold, IsKept, IsWritten
    <3> QED BY <1>2, <1>7, <1>8, <2>2, <3>1, <3>2 DEF RequestIsSound
  <2> QED BY <2>1, <2>2
<1>10. ParentsWillFollow'
  <2>1. \A p \in Parties, level \in Levels : fieldRows'[p].updatedAt[level] <= Len(records')
    BY <1>1, <1>2 DEF ParentsWillFollow
  <2> SUFFICES ASSUME ~fieldOverlap, ~fieldBroken'
      PROVE  /\ \A p \in Parties : /\ IsOlder(p, "evse", "location")' \/ WillTouch(p, "touch location")'
                                   /\ IsOlder(p, "connector", "evse")' \/ WillTouch(p, "touch evse")'
             /\ \A d \in FieldCalls : Requests(d)' => ParentsAreWritten(d)'
    BY <1>2, <2>1 DEF ParentsWillFollow
  <2>2. ~Requests(c)
    BY DEF Requests
  <2>3. \A p \in Parties : \A touch : WillTouch(p, touch) => WillTouch(p, touch)'
    BY <1>7, <1>8, <2>2 DEF WillTouch
  <2>4. \A p, level, parent : IsOlder(p, level, parent)' = IsOlder(p, level, parent)
    BY <1>2 DEF IsOlder
  <2>5. ASSUME NEW d \in FieldCalls, Requests(d)'
        PROVE  ParentsAreWritten(d)'
    <3>1. CASE d = c
      BY <2>5, <3>1 DEF Requests
    <3>2. CASE d # c
      <4>1. ParentsAreWritten(d)
        BY <1>1, <1>8, <2>5, <3>2 DEF ParentsWillFollow
      <4> QED BY <1>2, <1>7, <1>8, <3>2, <4>1 DEF ParentsAreWritten
    <3> QED BY <3>1, <3>2
  <2> QED BY <1>1, <2>3, <2>4, <2>5 DEF ParentsWillFollow
<1> QED BY <1>3, <1>4, <1>6, <1>9, <1>10 DEF FieldsAreSound

LEMMA FieldEndsKeeps ==
  ASSUME FieldsAreSound, NEW c \in FieldCalls, ~FieldIdle(c), EndsFields(c), RowsStay,
         fieldBroken' \in BOOLEAN, fieldBroken => fieldBroken', Doing(c).todo = <<>> \/ fieldBroken'
  PROVE  FieldsAreSound'
<1>1. FieldTypeOK
  BY DEF FieldsAreSound
<1> QED BY <1>1, EndsFieldsIs, FieldMoves DEF RowsStay

LEMMA FieldsBreakKeeps ==
  ASSUME FieldsAreSound, NEW c \in FieldCalls, FieldsBreak(c)
  PROVE  FieldsAreSound'
BY FieldEndsKeeps DEF FieldsBreak

\* What a call has found, or is to insert.
LEMMA FieldFoundKeeps ==
  ASSUME FieldsAreSound, NEW c \in FieldCalls, ~FieldIdle(c), Doing(c).todo = <<>>, RowsStay, UNCHANGED fieldBroken,
         NEW row \in Parties, NEW todo \in LeftTodo(Doing(c).method, Doing(c).level),
         todo = TodoOf(Doing(c).method, Doing(c).level)
           \/ (todo = Inserting /\ Doing(c).level = "location" /\ Doing(c).method = "PUT"),
         GoesOnWith(c, row, todo),
         row = Doing(c).party \/ (row = "roaming" /\ Doing(c).method = "PUT"),
         Doing(c).level = "evse" => "location" \in fieldRows[row].there,
         Doing(c).level = "connector" => "evse" \in fieldRows[row].there
  PROVE  FieldsAreSound'
<1>1. FieldTypeOK /\ ColumnsHold
  BY DEF FieldsAreSound
<1>2. /\ Doing(c).method \in {"PUT", "PATCH"} /\ Doing(c).level \in Levels
  BY InTheMiddle
<1>3. todo \in Todos
  BY <1>2, LeftIsTodo
<1>4. /\ fieldCall' \in [FieldCalls -> FieldCallType]
      /\ fieldCall'[c].n = Doing(c).n /\ fieldCall'[c].method = Doing(c).method
      /\ fieldCall'[c].level = Doing(c).level /\ fieldCall'[c].party = Doing(c).party
      /\ fieldCall'[c].carried = Doing(c).carried
      /\ fieldCall'[c].row = row /\ fieldCall'[c].todo = todo
      /\ fieldCall'[c].hours \in [Hours -> Cells]
      /\ \A h \in Hours : fieldCall'[c].hours[h] = fieldRows[row].columns[h]
      /\ \A d \in FieldCalls : d # c => fieldCall'[d] = fieldCall[d]
  BY <1>3, GoesOnWithIs
<1>5. /\ fieldRows' = fieldRows /\ records' = records /\ fieldOverlap' = fieldOverlap /\ answer' = NoAnswer
      /\ fieldBroken' = fieldBroken
  BY DEF RowsStay
<1>6. /\ Doing(c).level = "location" => {"location", "insert"} \cap ItemsOf(todo) # {}
      /\ Doing(c).level = "location" /\ Doing(c).method = "PUT" => {"evse", "connector"} \subseteq ItemsOf(todo)
      /\ Doing(c).level = "location" /\ Doing(c).method = "PATCH" => ItemsOf(todo) = {"location"}
      /\ Doing(c).level = "evse" => {"evse", "touch location"} \subseteq ItemsOf(todo)
      /\ Doing(c).level = "evse" /\ Doing(c).method = "PUT" => "connector" \in ItemsOf(todo)
      /\ Doing(c).level = "evse" /\ Doing(c).method = "PATCH" => "connector" \notin ItemsOf(todo)
      /\ Doing(c).level = "connector" => {"connector", "touch evse"} \subseteq ItemsOf(todo) /\ "evse" \notin ItemsOf(todo)
  <2>1. CASE Doing(c).level = "location" /\ Doing(c).method = "PUT"
    <3>1. todo = <<"location", "evse", "connector">> \/ todo = <<"insert", "evse", "connector">>
      BY <2>1 DEF TodoOf, Inserting
    <3> QED BY <2>1, <3>1, ItemsAre DEF ItemsOf
  <2>2. CASE Doing(c).level = "location" /\ Doing(c).method = "PATCH"
    <3>1. todo = <<"location">>
      BY <2>2 DEF TodoOf
    <3> QED BY <2>2, <3>1, ItemsAre DEF ItemsOf
  <2>3. CASE Doing(c).level = "evse"
    <3>0. PICK a, b, d : a = "evse" /\ b = "connector" /\ d = "touch location"
      OBVIOUS
    <3>1. todo = IF Doing(c).method = "PUT" THEN <<a, b, d>> ELSE <<a, d>>
      BY <2>3, <3>0 DEF TodoOf
    <3>2. ItemsOf(<<a, b, d>>) = {a, b, d} /\ ItemsOf(<<a, d>>) = {a, d}
      BY ItemsAre DEF ItemsOf
    <3> QED BY <1>2, <2>3, <3>0, <3>1, <3>2
  <2>4. CASE Doing(c).level = "connector"
    <3>0. PICK a, b, d : a = "connector" /\ b = "touch evse" /\ d = "touch location"
      OBVIOUS
    <3>1. todo = <<a, b, d>>
      BY <2>4, <3>0 DEF TodoOf
    <3>2. ItemsOf(<<a, b, d>>) = {a, b, d}
      BY ItemsAre DEF ItemsOf
    <3> QED BY <2>4, <3>0, <3>1, <3>2
  <2> QED BY <1>2, <2>1, <2>2, <2>3, <2>4 DEF Levels
<1>7. Pending(c)' = ItemsOf(todo) /\ Doing(c)' = fieldCall'[c]
  BY <1>4 DEF Pending, ItemsOf, Doing
<1>8. RequestIsSound(c)'
  <2>1. \A h \in Hours : MayHold(row, fieldRows[row].columns[h].by)
    BY <1>1, LevelsOfColumns DEF ColumnsHold
  <2>2. \A h \in Hours : MayHold(Doing(c).row, Doing(c).hours[h].by)'
    BY <1>4, <1>5, <1>7, <2>1 DEF MayHold
  <2>3. /\ "evse" \in ItemsOf(todo) /\ "location" \notin ItemsOf(todo) /\ "insert" \notin ItemsOf(todo) =>
             "location" \in fieldRows[row].there
        /\ "connector" \in ItemsOf(todo) /\ "evse" \notin ItemsOf(todo) => "evse" \in fieldRows[row].there
    BY <1>2, <1>6 DEF Levels
  <2>4. \A col \in Settles(c) : \/ LevelOf(col) \in ItemsOf(todo)
                                \/ LevelOf(col) = "location" /\ "insert" \in ItemsOf(todo)
    <3> TAKE col \in Settles(c)
    <3>1. Doing(c).carried \subseteq LocationColumns
      BY InTheMiddle
    <3>2. CASE Doing(c).level = "location" /\ Doing(c).method = "PUT"
      <4>1. col \in Columns
        BY SettlesIs
      <4> QED BY <1>6, <3>2, <4>1, LevelsOfColumns
    <3>3. CASE Doing(c).level = "location" /\ Doing(c).method = "PATCH"
      <4>1. LevelOf(col) = "location"
        BY <3>1, <3>3, SettlesIs, LevelsOfColumns
      <4> QED BY <1>6, <3>3, <4>1
    <3>4. CASE Doing(c).level = "evse" /\ Doing(c).method = "PUT"
      BY <1>6, <3>4, SettlesIs, LevelsOfColumns
    <3>5. CASE Doing(c).level = "evse" /\ Doing(c).method = "PATCH"
      BY <1>6, <3>5, SettlesIs, LevelsOfColumns
    <3>6. CASE Doing(c).level = "connector"
      BY <1>6, <3>6, SettlesIs, LevelsOfColumns
    <3> QED BY <1>2, <3>2, <3>3, <3>4, <3>5, <3>6 DEF Levels
  <2>5. Settles(c)' = Settles(c)
    BY <1>4, <1>7 DEF Settles, Doing
  <2>6. \A col \in Settles(c)' : ~IsWritten(c, col)'
    BY <1>7, <2>4, <2>5 DEF IsWritten
  <2> QED BY <1>4, <1>5, <1>7, <2>2, <2>3, <2>6 DEF RequestIsSound
<1>9. ParentsAreWritten(c)'
  <2>1. "evse" \in ItemsOf(todo) => ItemsOf(todo) \cap {"location", "insert", "touch location"} # {}
    BY <1>2, <1>6 DEF Levels
  <2>2. "connector" \in ItemsOf(todo) => ItemsOf(todo) \cap {"evse", "touch evse"} # {}
    BY <1>2, <1>6 DEF Levels
  <2> QED BY <1>7, <2>1, <2>2 DEF ParentsAreWritten
<1>10. fieldBroken' \in BOOLEAN
  BY <1>1, <1>5 DEF FieldTypeOK
<1> QED BY <1>4, <1>5, <1>8, <1>9, <1>10, FieldMoves

LEMMA FindFieldsToPutKeeps ==
  ASSUME FieldsAreSound, NEW c \in FieldCalls, FindFieldsToPut(c)
  PROVE  FieldsAreSound'
<1>0. PICK asked : asked = IF Doing(c).level = "connector" THEN "evse" ELSE "location"
  OBVIOUS
<1>00. PICK found : found = FoundRows(Doing(c).party, asked)
  OBVIOUS
<1>1. /\ Doing(c).method = "PUT" /\ Doing(c).todo = <<>> /\ RowsStay /\ UNCHANGED fieldBroken
      /\ IF found # {}
         THEN \E row \in found : GoesOnWith(c, row, TodoOf("PUT", Doing(c).level))
         ELSE IF Doing(c).level = "location" THEN GoesOnWith(c, Doing(c).party, Inserting)
         ELSE EndsFields(c)
  BY <1>0, <1>00 DEF FindFieldsToPut
<1>2. ~FieldIdle(c) /\ FieldTypeOK
  BY <1>1 DEF FieldIdle, FieldsAreSound
<1>3. Doing(c).level \in Levels /\ Doing(c).party \in Parties
  BY <1>2, InTheMiddle
<1>4. \A row \in found : row \in Parties /\ asked \in fieldRows[row].there
                         /\ (row = Doing(c).party \/ row = "roaming")
  BY <1>0, <1>00, <1>3 DEF FoundRows, DirectLocations, DirectEvses, RoamingLocations, RoamingEvses, Parties
<1>5. ASSUME NEW row \in found, GoesOnWith(c, row, TodoOf("PUT", Doing(c).level))
      PROVE  FieldsAreSound'
  <2>1. PICK todo : todo = TodoOf(Doing(c).method, Doing(c).level)
    OBVIOUS
  <2>3. todo \in LeftTodo(Doing(c).method, Doing(c).level) /\ GoesOnWith(c, row, todo)
    BY <1>1, <1>3, <1>5, <2>1, LeftIsTodo
  <2>2. /\ Doing(c).level = "evse" => "location" \in fieldRows[row].there
        /\ Doing(c).level = "connector" => "evse" \in fieldRows[row].there
    BY <1>0, <1>4
  <2> QED BY <1>1, <1>2, <1>4, <2>1, <2>2, <2>3, FieldFoundKeeps
<1>6. ASSUME Doing(c).level = "location", GoesOnWith(c, Doing(c).party, Inserting)
      PROVE  FieldsAreSound'
  <2>1. Inserting \in LeftTodo("PUT", "location")
    BY <1>3, <1>6, LeftIsTodo
  <2> QED BY <1>1, <1>2, <1>3, <1>6, <2>1, FieldFoundKeeps
<1>7. ASSUME EndsFields(c) PROVE FieldsAreSound'
  BY <1>1, <1>2, <1>7, FieldEndsKeeps DEF FieldTypeOK
<1> QED BY <1>1, <1>5, <1>6, <1>7

LEMMA FindFieldsToPatchKeeps ==
  ASSUME FieldsAreSound, NEW c \in FieldCalls, FindFieldsToPatch(c)
  PROVE  FieldsAreSound'
<1>0. PICK found : found = FoundRowsToPatch(Doing(c).party, Doing(c).level)
  OBVIOUS
<1>1. /\ Doing(c).method = "PATCH" /\ Doing(c).todo = <<>> /\ RowsStay /\ UNCHANGED fieldBroken
      /\ IF found = {} THEN EndsFields(c)
         ELSE \E row \in found : GoesOnWith(c, row, TodoOf("PATCH", Doing(c).level))
  BY <1>0 DEF FindFieldsToPatch
<1>2. ~FieldIdle(c) /\ FieldTypeOK
  BY <1>1 DEF FieldIdle, FieldsAreSound
<1>3. Doing(c).level \in Levels /\ Doing(c).party \in Parties
  BY <1>2, InTheMiddle
<1>4. \A row \in found : row = Doing(c).party /\ Doing(c).level \in fieldRows[row].there
  BY <1>0, <1>3 DEF FoundRowsToPatch, FoundRows, DirectLocations, DirectEvses, DirectConnectors,
     RoamingLocations, RoamingEvses, RoamingConnectors, Parties, Levels
<1>5. ASSUME NEW row \in found, GoesOnWith(c, row, TodoOf("PATCH", Doing(c).level))
      PROVE  FieldsAreSound'
  <2>1. PICK todo : todo = TodoOf(Doing(c).method, Doing(c).level)
    OBVIOUS
  <2>3. todo \in LeftTodo(Doing(c).method, Doing(c).level) /\ GoesOnWith(c, row, todo)
    BY <1>1, <1>3, <1>5, <2>1, LeftIsTodo
  <2>2. /\ Doing(c).level = "evse" => "location" \in fieldRows[row].there
        /\ Doing(c).level = "connector" => "evse" \in fieldRows[row].there
    BY <1>2, <1>3, <1>4 DEF FieldTypeOK, RowsHang
  <2> QED BY <1>1, <1>2, <1>3, <1>4, <2>1, <2>2, <2>3, FieldFoundKeeps
<1>7. ASSUME EndsFields(c) PROVE FieldsAreSound'
  BY <1>1, <1>2, <1>7, FieldEndsKeeps DEF FieldTypeOK
<1> QED BY <1>1, <1>5, <1>7

LEMMA BeginFieldsKeeps ==
  ASSUME FieldsAreSound, NEW c \in FieldCalls, NEW method \in {"PUT", "PATCH"}, NEW level \in Levels,
         NEW p \in Parties, NEW carried \in FieldBodies \cup {{}}, BeginFields(c, method, level, p, carried)
  PROVE  FieldsAreSound'
<1>0. PICK n : n = Len(records) + 1
  OBVIOUS
<1>1. PICK record : record = [method |-> method, party |-> p, wrote |-> {},
                              before |-> {m \in 1..(n - 1) : records[m].wrote # {}}]
  OBVIOUS
<1>2. PICK call : call = [NoFieldCall EXCEPT !.n = n, !.method = method, !.level = level, !.party = p,
                                             !.carried = carried]
  OBVIOUS
<1>3. /\ FieldIdle(c) /\ n <= MaxFieldCalls
      /\ fieldCall' = [fieldCall EXCEPT ![c] = call] /\ records' = Append(records, record)
      /\ (fieldOverlap' <=> (fieldOverlap \/ \E d \in FieldCalls : ~FieldIdle(d)))
      /\ answer' = NoAnswer /\ fieldRows' = fieldRows /\ (fieldBroken' <=> fieldBroken)
  BY <1>0, <1>1, <1>2 DEF BeginFields
<1>4. fieldOverlap' \in BOOLEAN /\ fieldBroken' \in BOOLEAN
  BY DEF BeginFields, FieldsAreSound, FieldTypeOK
<1>5. /\ FieldTypeOK /\ ColumnsHold /\ FieldsKept /\ FieldCallsAreSound /\ RequestsAreSound /\ ParentsWillFollow
  BY DEF FieldsAreSound
<1>6. records \in Seq(RecordType) /\ Len(records) \in Nat /\ MaxFieldCalls \in Nat /\ DOMAIN records = 1..Len(records)
      /\ n \in 1..MaxFieldCalls /\ n - 1 = Len(records)
  BY <1>0, <1>3, <1>5, FieldAssumption DEF FieldTypeOK
<1>7. /\ record \in RecordType /\ record.method = method /\ record.party = p /\ record.wrote = {}
      /\ \A m \in record.before : m \in DOMAIN records /\ records[m].wrote # {}
  <2>1. {m \in 1..(n - 1) : records[m].wrote # {}} \in SUBSET (1..MaxFieldCalls)
    BY <1>3, <1>6
  <2> QED BY <1>1, <1>6, <2>1 DEF RecordType
<1>8. /\ call \in FieldCallType /\ call.n = n /\ call.method = method /\ call.party = p /\ call.todo = <<>>
  <2>1. carried \in SUBSET LocationColumns /\ n \in 0..MaxFieldCalls
    BY <1>6, FieldAssumption
  <2> QED BY <1>2, <2>1, NoFieldCallIs DEF FieldCallType
<1>9. /\ records' \in Seq(RecordType) /\ Len(records') = n /\ DOMAIN records' = (DOMAIN records) \cup {n}
      /\ n \notin DOMAIN records /\ records'[n] = record /\ \A m \in DOMAIN records : records'[m] = records[m]
  BY <1>3, <1>6, <1>7
<1>10. /\ fieldCall' \in [FieldCalls -> FieldCallType] /\ fieldCall'[c] = call
       /\ \A d \in FieldCalls : d # c => fieldCall'[d] = fieldCall[d]
  BY <1>3, <1>5, <1>8 DEF FieldTypeOK
<1>11. FieldTypeOK'
  <2>1. fieldRows' \in [Parties -> FieldRowType] /\ \A q \in Parties : RowsHang(fieldRows'[q].there)
    BY <1>3, <1>5 DEF FieldTypeOK
  <2>2. Len(records') <= MaxFieldCalls
    BY <1>3, <1>9
  <2> QED BY <1>3, <1>4, <1>9, <1>10, <2>1, <2>2, NoAnswerIs DEF FieldTypeOK
<1>12. \A q, by : MayHold(q, by) => MayHold(q, by)'
  BY <1>9 DEF MayHold
<1>13. ColumnsHold' /\ ShownIsOwn'
  BY <1>3, <1>5, <1>12, NoAnswerIs DEF ColumnsHold, ShownIsOwn
<1>14. \A m \in DOMAIN records : \A q, col : IsKept(m, q, col) => IsKept(m, q, col)'
  BY <1>3, <1>9 DEF IsKept
<1>15. FieldsKept'
  <2> SUFFICES ASSUME NEW m \in DOMAIN records', NEW cell \in records'[m].wrote
      PROVE  IsKept(m, cell[1], cell[2])'
    BY DEF FieldsKept, IsKept
  <2>1. m \in DOMAIN records /\ cell \in records[m].wrote
    BY <1>7, <1>9
  <2>2. IsKept(m, cell[1], cell[2])
    BY <1>5, <2>1 DEF FieldsKept, IsKept
  <2> QED BY <1>14, <2>1, <2>2
<1>16. \A d \in FieldCalls : d # c => Doing(d)' = Doing(d) /\ (FieldIdle(d)' <=> FieldIdle(d))
  BY <1>10 DEF Doing, FieldIdle
<1>17. \A d \in FieldCalls : ~FieldIdle(d) => d # c /\ Doing(d).n \in DOMAIN records
  BY <1>3, <1>5 DEF FieldCallsAreSound
<1>18. Doing(c)' = call /\ ~FieldIdle(c)' /\ ~Requests(c)'
  BY <1>8, <1>10 DEF Doing, FieldIdle, Requests
<1>19. FieldCallsAreSound'
  <2>1. \A d \in FieldCalls : ~FieldIdle(d)' =>
          /\ Doing(d)'.n \in DOMAIN records'
          /\ records'[Doing(d)'.n].method = Doing(d)'.method /\ records'[Doing(d)'.n].party = Doing(d)'.party
          /\ records'[Doing(d)'.n].wrote = {}
          /\ \A e \in FieldCalls : ~FieldIdle(e)' /\ Doing(e)'.n = Doing(d)'.n => e = d
    <3> SUFFICES ASSUME NEW d \in FieldCalls, ~FieldIdle(d)'
        PROVE  /\ Doing(d)'.n \in DOMAIN records'
               /\ records'[Doing(d)'.n].method = Doing(d)'.method /\ records'[Doing(d)'.n].party = Doing(d)'.party
               /\ records'[Doing(d)'.n].wrote = {}
               /\ \A e \in FieldCalls : ~FieldIdle(e)' /\ Doing(e)'.n = Doing(d)'.n => e = d
      OBVIOUS
    <3>1. CASE d = c
      <4>1. \A e \in FieldCalls : e # c /\ ~FieldIdle(e)' => Doing(e)'.n # n
        BY <1>9, <1>16, <1>17
      <4> QED BY <1>7, <1>8, <1>9, <1>18, <3>1, <4>1
    <3>2. CASE d # c
      <4>1. ~FieldIdle(d) /\ Doing(d)' = Doing(d) /\ Doing(d).n \in DOMAIN records
        BY <1>16, <1>17, <3>2
      <4>2. \A e \in FieldCalls : ~FieldIdle(e)' /\ Doing(e)'.n = Doing(d)'.n => e = d
        BY <1>5, <1>8, <1>9, <1>16, <1>18, <4>1 DEF FieldCallsAreSound
      <4> QED BY <1>5, <1>9, <4>1, <4>2 DEF FieldCallsAreSound
    <3> QED BY <3>1, <3>2
  <2>2. \A m \in DOMAIN records' : \A k \in records'[m].before : k \in DOMAIN records' /\ records'[k].wrote # {}
    BY <1>5, <1>7, <1>9 DEF FieldCallsAreSound
  <2>3. ~fieldOverlap' => \A d \in FieldCalls : ~FieldIdle(d)' => d = c /\ Doing(d)'.n = Len(records')
    BY <1>3, <1>8, <1>9, <1>16, <1>18
  <2> QED BY <2>1, <2>2, <2>3 DEF FieldCallsAreSound
<1>20. \A d \in FieldCalls : Requests(d)' => d # c /\ Requests(d)
  BY <1>16, <1>18 DEF Requests
<1>21. RequestsAreSound'
  <2> SUFFICES ASSUME NEW d \in FieldCalls, Requests(d)'
      PROVE  RequestIsSound(d)'
    BY DEF RequestsAreSound
  <2>1. d # c /\ Requests(d) /\ RequestIsSound(d) /\ Doing(d)' = Doing(d) /\ Doing(d).n \in DOMAIN records
    BY <1>5, <1>16, <1>17, <1>20 DEF RequestsAreSound, Requests
  <2>2. Pending(d)' = Pending(d) /\ Settles(d)' = Settles(d)
    BY <2>1 DEF Pending, Settles
  <2>3. \A col : IsWritten(d, col)' <=> IsWritten(d, col)
    BY <2>2 DEF IsWritten
  <2>4. ~fieldOverlap' => ~fieldOverlap
    BY <1>3
  <2> QED BY <1>3, <1>12, <1>14, <2>1, <2>2, <2>3, <2>4 DEF RequestIsSound
<1>22. ParentsWillFollow'
  <2>1. \A q \in Parties, l \in Levels : fieldRows'[q].updatedAt[l] <= Len(records')
    <3> SUFFICES ASSUME NEW q \in Parties, NEW l \in Levels
        PROVE  fieldRows'[q].updatedAt[l] <= Len(records')
      OBVIOUS
    <3>1. fieldRows[q].updatedAt[l] <= Len(records) /\ fieldRows[q].updatedAt[l] \in Nat
      BY <1>5, UpdatedIsNat DEF ParentsWillFollow
    <3> QED BY <1>0, <1>3, <1>6, <1>9, <3>1
  <2>2. ~fieldOverlap' => ~fieldOverlap /\ \A d \in FieldCalls : FieldIdle(d)
    BY <1>3
  <2>3. ~fieldOverlap' => \A d \in FieldCalls : ~Requests(d)' /\ ~Requests(d)
    BY <1>20, <2>2 DEF Requests
  <2>4. \A q, l, parent : IsOlder(q, l, parent)' <=> IsOlder(q, l, parent)
    BY <1>3 DEF IsOlder
  <2>5. ~fieldOverlap' /\ ~fieldBroken' =>
          \A q \in Parties : IsOlder(q, "evse", "location") /\ IsOlder(q, "connector", "evse")
    BY <1>3, <1>5, <2>2, <2>3 DEF ParentsWillFollow, WillTouch
  <2> QED BY <2>1, <2>3, <2>4, <2>5 DEF ParentsWillFollow
<1> QED BY <1>11, <1>13, <1>15, <1>19, <1>21, <1>22 DEF FieldsAreSound
-----------------------------------------------------------------------------
LEMMA NextRequestIs ==
  ASSUME FieldsAreSound, NEW c \in FieldCalls, Requests(c), NEW first, NEW rest,
         TodoIs(Doing(c).method, Doing(c).level, Doing(c).todo, first, rest), NextRequest(c, Settles(c))
  PROVE  /\ fieldCall' \in [FieldCalls -> FieldCallType]
         /\ \A d \in FieldCalls : d # c => fieldCall'[d] = fieldCall[d]
         /\ rest = {} => FieldIdle(c)'
         /\ rest # {} => /\ Doing(c)'.n = Doing(c).n /\ Doing(c)'.method = Doing(c).method
                         /\ Doing(c)'.level = Doing(c).level /\ Doing(c)'.party = Doing(c).party
                         /\ Doing(c)'.carried = Doing(c).carried /\ Doing(c)'.row = Doing(c).row
                         /\ Doing(c)'.hours = Doing(c).hours
                         /\ Doing(c)'.todo \in LeftTodo(Doing(c).method, Doing(c).level)
                         /\ Pending(c)' = rest /\ ~FieldIdle(c)'
         /\ records' \in Seq(RecordType) /\ Len(records') = Len(records) /\ DOMAIN records' = DOMAIN records
         /\ \A m \in DOMAIN records : /\ records'[m].method = records[m].method
                                      /\ records'[m].party = records[m].party
                                      /\ records'[m].before = records[m].before
                                      /\ m # Doing(c).n => records'[m].wrote = records[m].wrote
         /\ rest # {} => records'[Doing(c).n].wrote = {}
         /\ rest = {} => records'[Doing(c).n].wrote = {Doing(c).row} \X Settles(c)
<1>1. /\ ~FieldIdle(c) /\ Doing(c) \in FieldCallType /\ fieldCall[c] = Doing(c) /\ FieldTypeOK
      /\ Doing(c).method \in {"PUT", "PATCH"} /\ Doing(c).level \in Levels
      /\ Doing(c).n \in DOMAIN records /\ records \in Seq(RecordType) /\ records[Doing(c).n] \in RecordType
      /\ records[Doing(c).n].wrote = {} /\ Doing(c).row \in Parties
  BY Requesting, InTheMiddle DEF FieldsAreSound, Doing
<1>2. Settles(c) \subseteq Columns
  BY <1>1, SettlesIs
<1>3. CASE rest = {}
  <2>1. ~(Len(Doing(c).todo) > 1)
    BY <1>3 DEF TodoIs
  <2>2. /\ EndsFields(c)
        /\ records' = [records EXCEPT ![Doing(c).n].wrote = {Doing(c).row} \X Settles(c)]
    BY <2>1 DEF NextRequest
  <2>3. /\ fieldCall' \in [FieldCalls -> FieldCallType] /\ FieldIdle(c)'
        /\ \A d \in FieldCalls : d # c => fieldCall'[d] = fieldCall[d]
    BY <1>1, <2>2, EndsFieldsIs
  <2>4. PICK n : n = Doing(c).n
    OBVIOUS
  <2>5. PICK record : record = [records[n] EXCEPT !.wrote = {Doing(c).row} \X Settles(c)]
    OBVIOUS
  <2>6. {Doing(c).row} \X Settles(c) \in SUBSET (Parties \X Columns)
    BY <1>1, <1>2
  <2>7. /\ record \in RecordType /\ record.wrote = {Doing(c).row} \X Settles(c)
        /\ record.method = records[n].method /\ record.party = records[n].party
        /\ record.before = records[n].before
    BY <1>1, <2>4, <2>5, <2>6 DEF RecordType
  <2>8. records' = [records EXCEPT ![n] = record]
    BY <2>2, <2>4, <2>5, <1>1
  <2>9. /\ records' \in Seq(RecordType) /\ Len(records') = Len(records) /\ DOMAIN records' = DOMAIN records
        /\ records'[n] = record /\ \A m \in DOMAIN records : m # n => records'[m] = records[m]
    BY <1>1, <2>4, <2>7, <2>8, ExceptSeq
  <2> QED BY <1>3, <2>3, <2>4, <2>7, <2>9
<1>4. CASE rest # {}
  <2>1. Len(Doing(c).todo) > 1 /\ Tail(Doing(c).todo) \in LeftTodo(Doing(c).method, Doing(c).level)
        /\ ItemsOf(Tail(Doing(c).todo)) = rest
    BY <1>4 DEF TodoIs
  <2>2. fieldCall' = [fieldCall EXCEPT ![c].todo = Tail(Doing(c).todo)] /\ records' = records
    BY <2>1 DEF NextRequest, Doing
  <2>3. PICK call : call = [Doing(c) EXCEPT !.todo = Tail(Doing(c).todo)]
    OBVIOUS
  <2>4. /\ call \in FieldCallType /\ call.todo = Tail(Doing(c).todo)
        /\ call.n = Doing(c).n /\ call.method = Doing(c).method /\ call.level = Doing(c).level
        /\ call.party = Doing(c).party /\ call.carried = Doing(c).carried /\ call.row = Doing(c).row
        /\ call.hours = Doing(c).hours
    <3>1. Tail(Doing(c).todo) \in Todos
      BY <1>1, <2>1, LeftIsTodo
    <3> QED BY <1>1, <2>3, <3>1 DEF FieldCallType
  <2>5. fieldCall' = [fieldCall EXCEPT ![c] = call]
    BY <1>1, <2>2, <2>3 DEF FieldTypeOK
  <2>6. /\ fieldCall' \in [FieldCalls -> FieldCallType] /\ Doing(c)' = call
        /\ \A d \in FieldCalls : d # c => fieldCall'[d] = fieldCall[d]
    BY <1>1, <2>4, <2>5 DEF FieldTypeOK, Doing
  <2>7. Pending(c)' = rest /\ ~FieldIdle(c)'
    BY <1>1, <2>1, <2>4, <2>6 DEF Pending, ItemsOf, FieldIdle
  <2> QED BY <1>1, <1>4, <2>1, <2>2, <2>4, <2>6, <2>7
<1> QED BY <1>3, <1>4

\* The requests that a call may be at, and those left after it.
TodoShape(method, level, first, rest) ==
    \/ level = "location" /\ method = "PUT" /\ first \in {"location", "insert"} /\ rest = {"evse", "connector"}
    \/ level = "location" /\ method = "PUT" /\ first = "evse" /\ rest = {"connector"}
    \/ level = "location" /\ method = "PUT" /\ first = "connector" /\ rest = {}
    \/ level = "location" /\ method = "PATCH" /\ first = "location" /\ rest = {}
    \/ level = "evse" /\ method = "PUT" /\ first = "evse" /\ rest = {"connector", "touch location"}
    \/ level = "evse" /\ method = "PUT" /\ first = "connector" /\ rest = {"touch location"}
    \/ level = "evse" /\ method = "PATCH" /\ first = "evse" /\ rest = {"touch location"}
    \/ level = "connector" /\ first = "connector" /\ rest = {"touch evse", "touch location"}
    \/ level = "connector" /\ first = "touch evse" /\ rest = {"touch location"}
    \/ level # "location" /\ first = "touch location" /\ rest = {}

LEMMA TodoShapes ==
  ASSUME NEW method \in {"PUT", "PATCH"}, NEW level \in Levels, NEW todo \in LeftTodo(method, level),
         NEW first, NEW rest, TodoIs(method, level, todo, first, rest)
  PROVE  ItemsOf(todo) = {first} \cup rest /\ TodoShape(method, level, first, rest)
<1>1. ItemsOf(todo) = {first} \cup rest /\ first \notin rest /\ Head(todo) = first
  BY DEF TodoIs
<1>2. \A f, q : TodoIs(method, level, todo, f, q) => f = first /\ q = rest
  BY <1>1 DEF TodoIs
<1> QED BY <1>1, <1>2, TodoCases DEF TodoShape

LEMMA ShapeFacts ==
  ASSUME NEW method, NEW level, NEW first, NEW rest, TodoShape(method, level, first, rest)
  PROVE  /\ "insert" \notin rest
         /\ "evse" \in rest => first \in {"location", "insert"}
         /\ "connector" \in rest /\ "evse" \notin rest => first = "evse"
<1>1. \/ first \in {"location", "insert"} /\ rest = {"evse", "connector"}
      \/ first = "evse" /\ (rest = {"connector"} \/ rest = {"connector", "touch location"} \/ rest = {"touch location"})
      \/ rest = {} \/ rest = {"touch location"} \/ rest = {"touch evse", "touch location"}
  BY DEF TodoShape
<1> QED BY <1>1

\* Where a call stands after a request, and what the request has written of its row.
HandsOver(c, rest, r, n) ==
    /\ fieldCall' \in [FieldCalls -> FieldCallType]
    /\ \A d \in FieldCalls : d # c => fieldCall'[d] = fieldCall[d]
    /\ rest = {} => FieldIdle(c)'
    /\ rest # {} => /\ Doing(c)'.n = n /\ Doing(c)'.method = Doing(c).method
                    /\ Doing(c)'.level = Doing(c).level /\ Doing(c)'.party = Doing(c).party
                    /\ Doing(c)'.carried = Doing(c).carried /\ Doing(c)'.row = r
                    /\ Doing(c)'.hours = Doing(c).hours
                    /\ Doing(c)'.todo \in LeftTodo(Doing(c).method, Doing(c).level)
                    /\ Pending(c)' = rest /\ ~FieldIdle(c)'
    /\ records' \in Seq(RecordType) /\ Len(records') = Len(records) /\ DOMAIN records' = DOMAIN records
    /\ \A m \in DOMAIN records : /\ records'[m].method = records[m].method
                                 /\ records'[m].party = records[m].party
                                 /\ records'[m].before = records[m].before
                                 /\ m # n => records'[m].wrote = records[m].wrote
    /\ rest # {} => records'[n].wrote = {}
    /\ rest = {} => records'[n].wrote = {r} \X Settles(c)
WritesLevels(rest, r) ==
    /\ fieldRows' \in [Parties -> FieldRowType] /\ RowsHang(fieldRows'[r].there)
    /\ \A p \in Parties : p # r => fieldRows'[p] = fieldRows[p]
    /\ fieldRows[r].there \subseteq fieldRows'[r].there
    /\ "evse" \in rest => "location" \in fieldRows'[r].there
    /\ "connector" \in rest /\ "evse" \notin rest => "evse" \in fieldRows'[r].there
WritesColumns(c, rest, r, n) ==
    /\ \A col \in Columns :
         \/ fieldRows'[r].columns[col] = fieldRows[r].columns[col] \/ fieldRows'[r].columns[col].by = n
         \/ /\ Doing(c).method = "PATCH" /\ "location" \in Pending(c) /\ col \in Hours
            /\ fieldRows'[r].columns[col] = Doing(c).hours[col]
    /\ \A col \in Settles(c) :
         LevelOf(col) \notin rest => IsWritten(c, col) \/ fieldRows'[r].columns[col].by = n
WritesUpdatedAt(first, r, n) ==
    /\ fieldRows'[r].updatedAt["location"] =
         IF first \in {"location", "insert", "touch location"} THEN n ELSE fieldRows[r].updatedAt["location"]
    /\ fieldRows'[r].updatedAt["evse"] =
         IF first \in {"evse", "touch evse"} THEN n ELSE fieldRows[r].updatedAt["evse"]
    /\ fieldRows'[r].updatedAt["connector"] =
         IF first = "connector" THEN n ELSE fieldRows[r].updatedAt["connector"]

RequestIsDone(c, first, rest, r, n) ==
    /\ FieldsAreSound /\ Requests(c) /\ r = Doing(c).row /\ n = Doing(c).n
    /\ TodoIs(Doing(c).method, Doing(c).level, Doing(c).todo, first, rest)
    /\ HandsOver(c, rest, r, n)
    /\ WritesLevels(rest, r) /\ WritesColumns(c, rest, r, n) /\ WritesUpdatedAt(first, r, n)
    /\ answer' = NoAnswer /\ UNCHANGED <<fieldOverlap, fieldBroken>>

LEMMA RequestFacts ==
  ASSUME NEW c \in FieldCalls, NEW first, NEW rest, NEW r, NEW n, RequestIsDone(c, first, rest, r, n)
  PROVE  /\ ~FieldIdle(c) /\ RequestIsSound(c) /\ r \in Parties /\ r = Doing(c).row /\ n = Doing(c).n
         /\ Doing(c).todo \in LeftTodo(Doing(c).method, Doing(c).level)
         /\ Pending(c) = ItemsOf(Doing(c).todo)
         /\ Doing(c).method \in {"PUT", "PATCH"} /\ Doing(c).level \in Levels
         /\ n \in DOMAIN records /\ n \in 1..Len(records) /\ Len(records) \in 0..MaxFieldCalls
         /\ records[n].method = Doing(c).method /\ records[n].party = Doing(c).party
         /\ records[n].wrote = {}
         /\ FieldTypeOK /\ ColumnsHold /\ FieldsKept /\ FieldCallsAreSound /\ RequestsAreSound /\ ParentsWillFollow
         /\ FieldsAreSound /\ (fieldOverlap' <=> fieldOverlap) /\ (fieldBroken' <=> fieldBroken)
<1>0. (fieldOverlap' <=> fieldOverlap) /\ (fieldBroken' <=> fieldBroken)
  BY DEF RequestIsDone
<1>1. FieldsAreSound /\ Requests(c) /\ r = Doing(c).row /\ n = Doing(c).n
  BY DEF RequestIsDone
<1>2. /\ FieldTypeOK /\ ColumnsHold /\ FieldsKept /\ FieldCallsAreSound /\ RequestsAreSound /\ ParentsWillFollow
  BY <1>1 DEF FieldsAreSound
<1>3. /\ ~FieldIdle(c) /\ RequestIsSound(c) /\ r \in Parties
      /\ Doing(c).todo \in LeftTodo(Doing(c).method, Doing(c).level)
      /\ Pending(c) = ItemsOf(Doing(c).todo)
  BY <1>1, Requesting
<1>4. /\ Doing(c).method \in {"PUT", "PATCH"} /\ Doing(c).level \in Levels
      /\ n \in DOMAIN records /\ n \in 1..Len(records) /\ Len(records) \in 0..MaxFieldCalls
      /\ records[n].method = Doing(c).method /\ records[n].party = Doing(c).party
      /\ records[n].wrote = {}
  BY <1>1, <1>3, InTheMiddle
<1> QED BY <1>0, <1>1, <1>2, <1>3, <1>4

LEMMA RequestTypes ==
  ASSUME NEW c \in FieldCalls, NEW first, NEW rest, NEW r, NEW n, RequestIsDone(c, first, rest, r, n)
  PROVE  FieldTypeOK' /\ \A p, by : MayHold(p, by)' <=> MayHold(p, by)
<1>1. FieldTypeOK /\ r \in Parties /\ Len(records) \in 0..MaxFieldCalls
  BY RequestFacts
<1>2. HandsOver(c, rest, r, n) /\ WritesLevels(rest, r)
  BY DEF RequestIsDone
<1>3. fieldRows' \in [Parties -> FieldRowType] /\ \A p \in Parties : RowsHang(fieldRows'[p].there)
  BY <1>1, <1>2 DEF FieldTypeOK, WritesLevels
<1>4. fieldCall' \in [FieldCalls -> FieldCallType]
  BY <1>2 DEF HandsOver
<1>5. records' \in Seq(RecordType) /\ Len(records') = Len(records) /\ DOMAIN records' = DOMAIN records
  BY <1>2 DEF HandsOver
<1>51. Len(records') <= MaxFieldCalls
  BY <1>1, <1>5 DEF FieldTypeOK
<1>6. fieldOverlap' \in BOOLEAN /\ fieldBroken' \in BOOLEAN
  BY <1>1 DEF RequestIsDone, FieldTypeOK
<1>7. answer' \in [to : Parties \cup {"none"}, of : Parties \cup {"none"}]
  BY NoAnswerIs DEF RequestIsDone
<1>8. \A m \in DOMAIN records : records'[m].method = records[m].method /\ records'[m].party = records[m].party
  BY <1>2 DEF HandsOver
<1>9. \A p, by : MayHold(p, by)' <=> MayHold(p, by)
  BY <1>5, <1>8 DEF MayHold
<1>10. FieldTypeOK'
  BY <1>3, <1>4, <1>5, <1>51, <1>6, <1>7 DEF FieldTypeOK
<1> QED BY <1>9, <1>10

LEMMA RequestColumns ==
  ASSUME NEW c \in FieldCalls, NEW first, NEW rest, NEW r, NEW n, RequestIsDone(c, first, rest, r, n)
  PROVE  ColumnsHold' /\ ShownIsOwn'
<1>1. /\ r \in Parties /\ RequestIsSound(c) /\ r = Doing(c).row /\ n = Doing(c).n /\ ColumnsHold
      /\ n \in DOMAIN records /\ records[n].method = Doing(c).method /\ records[n].party = Doing(c).party
  BY RequestFacts
<1>2. WritesLevels(rest, r) /\ WritesColumns(c, rest, r, n) /\ answer' = NoAnswer
  BY DEF RequestIsDone
<1>3. MayHold(r, n)
  BY <1>1 DEF MayHold, RequestIsSound
<1>4. ASSUME NEW p \in Parties, NEW col \in Columns
      PROVE  MayHold(p, fieldRows'[p].columns[col].by)
  <2>1. MayHold(p, fieldRows[p].columns[col].by)
    BY <1>1 DEF ColumnsHold
  <2>2. CASE p # r
    <3>1. fieldRows'[p] = fieldRows[p]
      BY <1>2, <2>2 DEF WritesLevels
    <3> QED BY <2>1, <3>1
  <2>3. CASE p = r
    <3>1. col \in Hours => MayHold(r, Doing(c).hours[col].by)
      BY <1>1 DEF RequestIsSound
    <3>2. \/ fieldRows'[r].columns[col] = fieldRows[r].columns[col] \/ fieldRows'[r].columns[col].by = n
          \/ col \in Hours /\ fieldRows'[r].columns[col] = Doing(c).hours[col]
      BY <1>2 DEF WritesColumns
    <3> QED BY <1>3, <2>1, <2>3, <3>1, <3>2
  <2> QED BY <2>2, <2>3
<1>5. \A p, by : MayHold(p, by)' <=> MayHold(p, by)
  BY RequestTypes
<1>6. ColumnsHold'
  BY <1>4, <1>5 DEF ColumnsHold
<1>7. ShownIsOwn'
  BY <1>2, NoAnswerIs DEF ShownIsOwn
<1> QED BY <1>6, <1>7

\* No cell becomes older for a call than it was.
LEMMA RequestKeepsCells ==
  ASSUME NEW c \in FieldCalls, NEW first, NEW rest, NEW r, NEW n, RequestIsDone(c, first, rest, r, n),
         NEW m \in DOMAIN records, NEW p \in Parties, NEW col \in Columns,
         IsKept(m, p, col) \/ (p = r /\ fieldRows'[r].columns[col].by = n)
  PROVE  IsKept(m, p, col)'
<1>1. /\ r \in Parties /\ RequestIsSound(c) /\ r = Doing(c).row /\ n = Doing(c).n /\ FieldCallsAreSound
      /\ n \in DOMAIN records /\ n \in 1..Len(records) /\ records[n].wrote = {}
  BY RequestFacts
<1>2. HandsOver(c, rest, r, n) /\ WritesLevels(rest, r) /\ WritesColumns(c, rest, r, n)
      /\ (fieldOverlap' <=> fieldOverlap)
  BY RequestFacts DEF RequestIsDone
<1>3. n \notin records[m].before \cup {0}
  <2>1. n # 0
    BY <1>1
  <2>2. n \notin records[m].before
    BY <1>1 DEF FieldCallsAreSound
  <2> QED BY <2>1, <2>2
<1>4. records'[m].before = records[m].before
  BY <1>2 DEF HandsOver
<1>5. CASE p # r
  <2>1. fieldRows'[p] = fieldRows[p]
    BY <1>2, <1>5 DEF WritesLevels
  <2>2. IsKept(m, p, col)
    BY <1>5
  <2> QED BY <1>2, <1>4, <2>1, <2>2 DEF IsKept
<1>6. CASE p = r /\ fieldRows'[r].columns[col].by = n
  BY <1>3, <1>4, <1>6 DEF IsKept
<1>7. CASE p = r /\ fieldRows'[r].columns[col].by # n
  <2>0. IsKept(m, r, col)
    BY <1>7
  <2>1. CASE fieldRows'[r].columns[col] = fieldRows[r].columns[col]
    BY <1>2, <1>4, <1>7, <2>0, <2>1 DEF IsKept
  <2>2. CASE fieldRows'[r].columns[col] # fieldRows[r].columns[col]
    <3>1. col \in Hours /\ Doing(c).method = "PATCH" /\ "location" \in Pending(c)
          /\ fieldRows'[r].columns[col] = Doing(c).hours[col]
      BY <1>2, <1>7, <2>2 DEF WritesColumns
    <3>2. fieldOverlap
      BY <1>1, <2>2, <3>1 DEF RequestIsSound
    <3> QED BY <1>2, <1>7, <3>1, <3>2 DEF IsKept
  <2> QED BY <2>1, <2>2
<1> QED BY <1>5, <1>6, <1>7

LEMMA RequestKeepsFields ==
  ASSUME NEW c \in FieldCalls, NEW first, NEW rest, NEW r, NEW n, RequestIsDone(c, first, rest, r, n)
  PROVE  /\ \A col \in Settles(c) : LevelOf(col) \notin rest => IsKept(n, r, col)'
         /\ FieldsKept'
<1>1. /\ r \in Parties /\ RequestIsSound(c) /\ r = Doing(c).row /\ n = Doing(c).n /\ FieldsKept /\ FieldTypeOK
      /\ n \in DOMAIN records /\ ~FieldIdle(c) /\ records \in Seq(RecordType) /\ FieldsAreSound
  BY RequestFacts DEF FieldTypeOK
<1>2. HandsOver(c, rest, r, n) /\ WritesColumns(c, rest, r, n)
  BY DEF RequestIsDone
<1>3. Settles(c) \subseteq Columns
  BY <1>1, SettlesIs
<1>4. ASSUME NEW col \in Settles(c), LevelOf(col) \notin rest
      PROVE  IsKept(n, r, col)'
  <2>1. IsWritten(c, col) \/ fieldRows'[r].columns[col].by = n
    BY <1>2, <1>4 DEF WritesColumns
  <2>2. IsWritten(c, col) => IsKept(n, r, col)
    BY <1>1, <1>4 DEF RequestIsSound
  <2> QED BY <1>1, <1>3, <2>1, <2>2, RequestKeepsCells
<1>5. FieldsKept'
  <2> SUFFICES ASSUME NEW m \in DOMAIN records', NEW cell \in records'[m].wrote
      PROVE  IsKept(m, cell[1], cell[2])'
    BY DEF FieldsKept, IsKept
  <2>1. m \in DOMAIN records /\ (m # n => records'[m].wrote = records[m].wrote)
    BY <1>2 DEF HandsOver
  <2>2. CASE cell \in records[m].wrote
    <3>1. IsKept(m, cell[1], cell[2])
      BY <1>1, <2>1, <2>2 DEF FieldsKept, IsKept
    <3>2. records[m] \in RecordType
      BY <1>1, <2>1
    <3>3. cell \in Parties \X Columns
      BY <2>2, <3>2 DEF RecordType
    <3>4. cell[1] \in Parties /\ cell[2] \in Columns
      BY <3>3
    <3> QED BY <2>1, <3>1, <3>4, RequestKeepsCells
  <2>3. CASE cell \notin records[m].wrote
    <3>1. m = n /\ cell \in records'[n].wrote
      BY <2>1, <2>3
    <3>2. (rest # {} => records'[n].wrote = {}) /\ (rest = {} => records'[n].wrote = {r} \X Settles(c))
      BY <1>2 DEF HandsOver
    <3>3. rest = {} /\ cell \in {r} \X Settles(c)
      BY <3>1, <3>2
    <3>4. cell[1] = r /\ cell[2] \in Settles(c)
      BY <3>3
    <3> QED BY <1>4, <3>1, <3>3, <3>4
  <2> QED BY <2>2, <2>3
<1> QED BY <1>4, <1>5

LEMMA RequestOthersStay ==
  ASSUME NEW c \in FieldCalls, NEW first, NEW rest, NEW r, NEW n, RequestIsDone(c, first, rest, r, n)
  PROVE  /\ \A d \in FieldCalls : d # c => /\ Doing(d)' = Doing(d) /\ (FieldIdle(d)' <=> FieldIdle(d))
                                           /\ (Requests(d)' <=> Requests(d)) /\ Pending(d)' = Pending(d)
         /\ \A d \in FieldCalls : ~FieldIdle(d)' =>
              /\ ~FieldIdle(d) /\ Doing(d)'.n = Doing(d).n /\ Doing(d)'.method = Doing(d).method
              /\ Doing(d)'.party = Doing(d).party
         /\ FieldIdle(c)' <=> rest = {}
         /\ Requests(c)' <=> rest # {}
<1>1. HandsOver(c, rest, r, n)
  BY DEF RequestIsDone
<1>2. ~FieldIdle(c) /\ n = Doing(c).n /\ Doing(c).method \in {"PUT", "PATCH"} /\ Doing(c).level \in Levels
  BY RequestFacts
<1>3. \A d \in FieldCalls : d # c => fieldCall'[d] = fieldCall[d]
  BY <1>1 DEF HandsOver
<1>4. \A d \in FieldCalls : d # c => /\ Doing(d)' = Doing(d) /\ (FieldIdle(d)' <=> FieldIdle(d))
                                     /\ (Requests(d)' <=> Requests(d)) /\ Pending(d)' = Pending(d)
  BY <1>3 DEF Doing, FieldIdle, Requests, Pending
<1>5. FieldIdle(c)' <=> rest = {}
  BY <1>1 DEF HandsOver
<1>6. rest # {} => /\ Doing(c)'.n = Doing(c).n /\ Doing(c)'.method = Doing(c).method
                   /\ Doing(c)'.party = Doing(c).party
                   /\ Doing(c)'.todo \in LeftTodo(Doing(c).method, Doing(c).level)
  BY <1>1, <1>2 DEF HandsOver
<1>7. rest # {} => Doing(c)'.todo # <<>>
  BY <1>2, <1>6, LeftIsTodo
<1>8. Requests(c)' <=> rest # {}
  BY <1>5, <1>7 DEF Requests
<1>9. ASSUME NEW d \in FieldCalls, ~FieldIdle(d)'
      PROVE  /\ ~FieldIdle(d) /\ Doing(d)'.n = Doing(d).n /\ Doing(d)'.method = Doing(d).method
             /\ Doing(d)'.party = Doing(d).party
  <2>1. CASE d = c
    BY <1>2, <1>5, <1>6, <1>9, <2>1
  <2>2. CASE d # c
    BY <1>4, <1>9, <2>2
  <2> QED BY <2>1, <2>2
<1> QED BY <1>4, <1>5, <1>8, <1>9

LEMMA RequestCalls ==
  ASSUME NEW c \in FieldCalls, NEW first, NEW rest, NEW r, NEW n, RequestIsDone(c, first, rest, r, n)
  PROVE  FieldCallsAreSound'
<1>1. HandsOver(c, rest, r, n)
  BY DEF RequestIsDone
<1>2. /\ ~FieldIdle(c) /\ n = Doing(c).n /\ FieldCallsAreSound /\ n \in DOMAIN records /\ records[n].wrote = {}
      /\ (fieldOverlap' <=> fieldOverlap)
  BY RequestFacts
<1>3. /\ Len(records') = Len(records) /\ DOMAIN records' = DOMAIN records
      /\ \A m \in DOMAIN records : /\ records'[m].method = records[m].method
                                   /\ records'[m].party = records[m].party
                                   /\ records'[m].before = records[m].before
                                   /\ m # n => records'[m].wrote = records[m].wrote
      /\ rest # {} => records'[n].wrote = {}
  BY <1>1 DEF HandsOver
<1>4. \A d \in FieldCalls : ~FieldIdle(d)' =>
        /\ ~FieldIdle(d) /\ Doing(d)'.n = Doing(d).n /\ Doing(d)'.method = Doing(d).method
        /\ Doing(d)'.party = Doing(d).party
  BY RequestOthersStay
<1>5. FieldIdle(c)' <=> rest = {}
  BY RequestOthersStay
<1>6. \A d \in FieldCalls : ~FieldIdle(d) => /\ Doing(d).n \in DOMAIN records
        /\ records[Doing(d).n].method = Doing(d).method /\ records[Doing(d).n].party = Doing(d).party
        /\ records[Doing(d).n].wrote = {}
        /\ \A e \in FieldCalls : ~FieldIdle(e) /\ Doing(e).n = Doing(d).n => e = d
  BY <1>2 DEF FieldCallsAreSound
<1>7. ASSUME NEW d \in FieldCalls, ~FieldIdle(d)'
      PROVE  /\ Doing(d)'.n \in DOMAIN records'
             /\ records'[Doing(d)'.n].method = Doing(d)'.method /\ records'[Doing(d)'.n].party = Doing(d)'.party
             /\ records'[Doing(d)'.n].wrote = {}
             /\ \A e \in FieldCalls : ~FieldIdle(e)' /\ Doing(e)'.n = Doing(d)'.n => e = d
  <2>1. ~FieldIdle(d) /\ Doing(d)'.n = Doing(d).n /\ Doing(d)'.method = Doing(d).method
        /\ Doing(d)'.party = Doing(d).party
    BY <1>4, <1>7
  <2>2. Doing(d).n \in DOMAIN records /\ records[Doing(d).n].wrote = {}
        /\ records[Doing(d).n].method = Doing(d).method /\ records[Doing(d).n].party = Doing(d).party
    BY <1>6, <2>1
  <2>3. records'[Doing(d)'.n].method = Doing(d)'.method /\ records'[Doing(d)'.n].party = Doing(d)'.party
    BY <1>3, <2>1, <2>2
  <2>4. records'[Doing(d)'.n].wrote = {}
    <3>1. CASE d = c
      BY <1>2, <1>3, <1>5, <1>7, <2>1, <3>1
    <3>2. CASE d # c
      <4>1. Doing(d).n # n
        BY <1>2, <1>6, <2>1, <3>2
      <4> QED BY <1>3, <2>1, <2>2, <4>1
    <3> QED BY <3>1, <3>2
  <2>5. \A e \in FieldCalls : ~FieldIdle(e)' /\ Doing(e)'.n = Doing(d)'.n => e = d
    BY <1>4, <1>6, <2>1
  <2> QED BY <1>3, <2>1, <2>2, <2>3, <2>4, <2>5
<1>8. \A m \in DOMAIN records' : \A k \in records'[m].before : k \in DOMAIN records' /\ records'[k].wrote # {}
  <2>1. \A m \in DOMAIN records : \A k \in records[m].before : k \in DOMAIN records /\ records[k].wrote # {}
    BY <1>2 DEF FieldCallsAreSound
  <2>2. \A k \in DOMAIN records : records[k].wrote # {} => k # n
    BY <1>2
  <2> QED BY <1>3, <2>1, <2>2
<1>9. ~fieldOverlap' => \A d, e \in FieldCalls : ~FieldIdle(d)' /\ ~FieldIdle(e)' => d = e
  <2>1. ~fieldOverlap => \A d, e \in FieldCalls : ~FieldIdle(d) /\ ~FieldIdle(e) => d = e
    BY <1>2 DEF FieldCallsAreSound
  <2> QED BY <1>2, <1>4, <2>1
<1>10. ~fieldOverlap' => \A d \in FieldCalls : ~FieldIdle(d)' => Doing(d)'.n = Len(records')
  <2>1. ~fieldOverlap => \A d \in FieldCalls : ~FieldIdle(d) => Doing(d).n = Len(records)
    BY <1>2 DEF FieldCallsAreSound
  <2> QED BY <1>2, <1>3, <1>4, <2>1
<1> QED BY <1>7, <1>8, <1>9, <1>10 DEF FieldCallsAreSound

LEMMA RequestRequests ==
  ASSUME NEW c \in FieldCalls, NEW first, NEW rest, NEW r, NEW n, RequestIsDone(c, first, rest, r, n)
  PROVE  RequestsAreSound'
<1>1. HandsOver(c, rest, r, n) /\ WritesLevels(rest, r)
  BY DEF RequestIsDone
<1>2. /\ ~FieldIdle(c) /\ n = Doing(c).n /\ r = Doing(c).row /\ FieldCallsAreSound /\ RequestsAreSound
      /\ RequestIsSound(c) /\ FieldsAreSound
      /\ (fieldOverlap' <=> fieldOverlap) /\ Doing(c).method \in {"PUT", "PATCH"} /\ Doing(c).level \in Levels
      /\ Doing(c).todo \in LeftTodo(Doing(c).method, Doing(c).level) /\ r \in Parties
  BY RequestFacts
<1>3. \A p, by : MayHold(p, by)' <=> MayHold(p, by)
  BY RequestTypes
<1> SUFFICES ASSUME NEW d \in FieldCalls, Requests(d)'
    PROVE  RequestIsSound(d)'
  BY DEF RequestsAreSound
<1>4. CASE d = c
  <2>1. rest # {}
    BY <1>4, RequestOthersStay
  <2>2. /\ Doing(c)'.n = n /\ Doing(c)'.method = Doing(c).method
        /\ Doing(c)'.level = Doing(c).level /\ Doing(c)'.party = Doing(c).party
        /\ Doing(c)'.carried = Doing(c).carried /\ Doing(c)'.row = r
        /\ Doing(c)'.hours = Doing(c).hours
        /\ Doing(c)'.todo \in LeftTodo(Doing(c).method, Doing(c).level)
        /\ Pending(c)' = rest
    BY <1>1, <2>1 DEF HandsOver
  <2>3. "location" \notin rest
    <3>1. TodoIs(Doing(c).method, Doing(c).level, Doing(c).todo, first, rest)
      BY DEF RequestIsDone
    <3>2. \A f, q : TodoIs(Doing(c).method, Doing(c).level, Doing(c).todo, f, q) => q = rest
      BY <3>1 DEF TodoIs
    <3> QED BY <1>2, <3>2, TodoCases
  <2>4. Settles(c)' = Settles(c)
    BY <2>2 DEF Settles
  <2>5. \A h \in Hours : MayHold(r, Doing(c).hours[h].by)
    BY <1>2 DEF RequestIsSound
  <2>6. \A col \in Settles(c) : IsWritten(c, col)' => IsKept(n, r, col)'
    <3>1. \A col \in Settles(c) : LevelOf(col) \notin rest => IsKept(n, r, col)'
      BY RequestKeepsFields
    <3> QED BY <2>2, <3>1 DEF IsWritten
  <2>7. Doing(c)'.hours \in [Hours -> Cells] /\ (Doing(c)'.row = Doing(c)'.party
          \/ (Doing(c)'.row = "roaming" /\ Doing(c)'.method = "PUT"))
    BY <1>2, <2>2 DEF RequestIsSound
  <2>8. /\ "evse" \in rest => "location" \in fieldRows'[r].there
        /\ "connector" \in rest /\ "evse" \notin rest => "evse" \in fieldRows'[r].there
    BY <1>1 DEF WritesLevels
  <2>9. \A h \in Hours : MayHold(Doing(c).row, Doing(c).hours[h].by)'
    BY <1>3, <2>2, <2>5
  <2>10. \A col \in Settles(c)' : IsWritten(c, col)' => IsKept(Doing(c).n, Doing(c).row, col)'
    BY <2>2, <2>4, <2>6
  <2>11. Doing(c)'.todo \in LeftTodo(Doing(c)'.method, Doing(c)'.level)
    BY <2>2
  <2> QED BY <1>4, <2>2, <2>3, <2>7, <2>8, <2>9, <2>10, <2>11 DEF RequestIsSound
<1>5. CASE d # c
  <2>1. Doing(d)' = Doing(d) /\ (FieldIdle(d)' <=> FieldIdle(d)) /\ Requests(d) /\ Pending(d)' = Pending(d)
    BY <1>5, RequestOthersStay
  <2>2. RequestIsSound(d) /\ ~FieldIdle(d) /\ Doing(d).row \in Parties
    BY <1>2, <2>1, Requesting
  <2>3. Settles(d)' = Settles(d) /\ Settles(d) \subseteq Columns
    BY <1>2, <2>1, <2>2, SettlesIs DEF Settles
  <2>4. \A col : IsWritten(d, col)' <=> IsWritten(d, col)
    BY <2>1 DEF IsWritten
  <2>5. fieldOverlap
    BY <1>2, <1>5, <2>2 DEF FieldCallsAreSound
  <2>6. Doing(d).n \in DOMAIN records
    BY <1>2, <2>2 DEF FieldCallsAreSound
  <2>7. \A col \in Settles(d) : IsWritten(d, col) => IsKept(Doing(d).n, Doing(d).row, col)
    BY <2>2 DEF RequestIsSound
  <2>8. PICK m, p : m = Doing(d).n /\ p = Doing(d).row
    OBVIOUS
  <2>9. \A col \in Settles(d) : IsWritten(d, col) => IsKept(m, p, col)'
    BY <2>2, <2>3, <2>6, <2>7, <2>8, RequestKeepsCells
  <2>10. /\ Doing(d).todo \in LeftTodo(Doing(d).method, Doing(d).level) /\ Doing(d).hours \in [Hours -> Cells]
         /\ Doing(d).row = Doing(d).party \/ (Doing(d).row = "roaming" /\ Doing(d).method = "PUT")
         /\ \A h \in Hours : MayHold(p, Doing(d).hours[h].by)
         /\ "evse" \in Pending(d) /\ "location" \notin Pending(d) /\ "insert" \notin Pending(d) =>
              "location" \in fieldRows[p].there
         /\ "connector" \in Pending(d) /\ "evse" \notin Pending(d) => "evse" \in fieldRows[p].there
    BY <2>2, <2>8 DEF RequestIsSound
  <2>11. fieldRows[p].there \subseteq fieldRows'[p].there
    BY <1>1, <2>2, <2>8 DEF WritesLevels
  <2>12. \A h \in Hours : MayHold(Doing(d).row, Doing(d).hours[h].by)'
    BY <1>3, <2>1, <2>8, <2>10
  <2>13. Doing(d)'.n = m /\ Doing(d)'.row = p
    BY <2>1, <2>8
  <2>14. \A col \in Settles(d)' : IsWritten(d, col)' => IsKept(m, p, col)'
    BY <2>3, <2>4, <2>9
  <2> QED BY <1>2, <2>1, <2>5, <2>10, <2>11, <2>12, <2>13, <2>14 DEF RequestIsSound
<1> QED BY <1>4, <1>5

LEMMA RequestParents ==
  ASSUME NEW c \in FieldCalls, NEW first, NEW rest, NEW r, NEW n, RequestIsDone(c, first, rest, r, n)
  PROVE  ParentsWillFollow'
<1>1. HandsOver(c, rest, r, n) /\ WritesLevels(rest, r) /\ WritesUpdatedAt(first, r, n)
      /\ TodoIs(Doing(c).method, Doing(c).level, Doing(c).todo, first, rest)
  BY DEF RequestIsDone
<1>2. /\ ~FieldIdle(c) /\ n = Doing(c).n /\ r = Doing(c).row /\ FieldCallsAreSound /\ ParentsWillFollow
      /\ FieldTypeOK /\ (fieldOverlap' <=> fieldOverlap) /\ (fieldBroken' <=> fieldBroken)
      /\ Doing(c).method \in {"PUT", "PATCH"} /\ Doing(c).level \in Levels
      /\ Doing(c).todo \in LeftTodo(Doing(c).method, Doing(c).level) /\ r \in Parties
      /\ Pending(c) = ItemsOf(Doing(c).todo) /\ n \in 1..Len(records) /\ Len(records) \in 0..MaxFieldCalls
  BY RequestFacts
<1>3. Len(records') = Len(records)
  BY <1>1 DEF HandsOver
<1>4. \A p \in Parties : p # r => fieldRows'[p] = fieldRows[p]
  BY <1>1 DEF WritesLevels
<1>5. /\ fieldRows'[r].updatedAt["location"] =
           IF first \in {"location", "insert", "touch location"} THEN n ELSE fieldRows[r].updatedAt["location"]
      /\ fieldRows'[r].updatedAt["evse"] =
           IF first \in {"evse", "touch evse"} THEN n ELSE fieldRows[r].updatedAt["evse"]
      /\ fieldRows'[r].updatedAt["connector"] =
           IF first = "connector" THEN n ELSE fieldRows[r].updatedAt["connector"]
  BY <1>1 DEF WritesUpdatedAt
<1>6. \A p \in Parties : \A level \in Levels : fieldRows[p].updatedAt[level] <= Len(records)
  BY <1>2 DEF ParentsWillFollow
<1>7. \A p \in Parties : \A level \in Levels : fieldRows'[p].updatedAt[level] <= Len(records')
  <2> SUFFICES ASSUME NEW p \in Parties, NEW level \in Levels
      PROVE  fieldRows'[p].updatedAt[level] <= Len(records)
    BY <1>3
  <2>1. fieldRows'[p].updatedAt[level] = fieldRows[p].updatedAt[level] \/ fieldRows'[p].updatedAt[level] = n
    BY <1>4, <1>5 DEF Levels
  <2>2. n <= Len(records)
    BY <1>2
  <2> QED BY <1>6, <2>1, <2>2
<1>8. ASSUME ~fieldOverlap, ~fieldBroken
      PROVE  /\ \A p \in Parties : /\ IsOlder(p, "evse", "location")' \/ WillTouch(p, "touch location")'
                                   /\ IsOlder(p, "connector", "evse")' \/ WillTouch(p, "touch evse")'
             /\ \A d \in FieldCalls : Requests(d)' => ParentsAreWritten(d)'
  <2>1. /\ \A p \in Parties : /\ IsOlder(p, "evse", "location") \/ WillTouch(p, "touch location")
                              /\ IsOlder(p, "connector", "evse") \/ WillTouch(p, "touch evse")
        /\ Requests(c) => ParentsAreWritten(c)
    BY <1>2, <1>8 DEF ParentsWillFollow
  <2>2. n = Len(records) /\ \A d \in FieldCalls : ~FieldIdle(d) => d = c
    BY <1>2, <1>8 DEF FieldCallsAreSound
  <2>3. \A d \in FieldCalls : Requests(d) => d = c
    BY <2>2 DEF Requests
  <2>4. \A d \in FieldCalls : Requests(d)' => d = c
    BY <2>3, RequestOthersStay
  <2>5. Requests(c)
    BY DEF RequestIsDone
  <2>6. \A p \in Parties : \A touch : WillTouch(p, touch) => p = r /\ touch \in ItemsOf(Doing(c).todo)
    BY <1>2, <2>3 DEF WillTouch
  <2>7. rest # {} => Requests(c)' /\ Doing(c)'.row = r /\ Pending(c)' = rest /\ Doing(c)'.n = n
    <3>1. rest # {} => Requests(c)'
      BY RequestOthersStay
    <3>2. rest # {} => Doing(c)'.row = r /\ Pending(c)' = rest /\ Doing(c)'.n = n
      BY <1>1 DEF HandsOver
    <3> QED BY <3>1, <3>2
  <2>8. \A touch \in rest : WillTouch(r, touch)'
    BY <2>7 DEF WillTouch
  <2>9. ASSUME NEW p \in Parties, p # r
        PROVE  IsOlder(p, "evse", "location")' /\ IsOlder(p, "connector", "evse")'
    <3>1. IsOlder(p, "evse", "location") /\ IsOlder(p, "connector", "evse")
      BY <2>1, <2>6, <2>9
    <3>2. fieldRows'[p] = fieldRows[p]
      BY <1>4, <2>9
    <3> QED BY <3>1, <3>2 DEF IsOlder
  <2>10. PICK loc, evse, con : /\ loc = fieldRows[r].updatedAt["location"] /\ evse = fieldRows[r].updatedAt["evse"]
                               /\ con = fieldRows[r].updatedAt["connector"]
    OBVIOUS
  <2>11. /\ loc \in Nat /\ evse \in Nat /\ con \in Nat /\ n \in Nat
         /\ loc <= n /\ evse <= n /\ con <= n
    <3>1. loc \in Nat /\ evse \in Nat /\ con \in Nat
      BY <1>2, <2>10, UpdatedIsNat, PartiesAre
    <3>2. loc <= Len(records) /\ evse <= Len(records) /\ con <= Len(records)
      BY <1>2, <1>6, <2>10, PartiesAre
    <3>3. n \in Nat
      BY <1>2
    <3> QED BY <2>2, <3>1, <3>2, <3>3
  <2>12. /\ evse <= loc \/ "touch location" \in ItemsOf(Doing(c).todo)
         /\ con <= evse \/ "touch evse" \in ItemsOf(Doing(c).todo)
    BY <1>2, <2>1, <2>6, <2>10 DEF IsOlder
  <2>13. /\ "evse" \in ItemsOf(Doing(c).todo)
              /\ ItemsOf(Doing(c).todo) \cap {"location", "insert", "touch location"} = {} => loc = n
         /\ "connector" \in ItemsOf(Doing(c).todo)
              /\ ItemsOf(Doing(c).todo) \cap {"evse", "touch evse"} = {} => evse = n
    BY <1>2, <2>1, <2>5, <2>10 DEF ParentsAreWritten
  <2>14. PICK loc2, evse2, con2 :
           /\ loc2 = IF first \in {"location", "insert", "touch location"} THEN n ELSE loc
           /\ evse2 = IF first \in {"evse", "touch evse"} THEN n ELSE evse
           /\ con2 = IF first = "connector" THEN n ELSE con
    OBVIOUS
  <2>15. /\ fieldRows'[r].updatedAt["location"] = loc2 /\ fieldRows'[r].updatedAt["evse"] = evse2
         /\ fieldRows'[r].updatedAt["connector"] = con2
    BY <1>5, <2>10, <2>14
  <2>16. PICK items : items = ItemsOf(Doing(c).todo)
    OBVIOUS
  <2>160. items = {first} \cup rest /\ TodoShape(Doing(c).method, Doing(c).level, first, rest)
    BY <1>1, <1>2, <2>16, TodoShapes
  <2>17. /\ items = {first} \cup rest
         /\ \/ first \in {"location", "insert"} /\ rest = {"evse", "connector"}
            \/ first = "evse" /\ rest = {"connector"}
            \/ first = "connector" /\ rest = {}
            \/ first = "location" /\ rest = {}
            \/ first = "evse" /\ rest = {"connector", "touch location"}
            \/ first = "connector" /\ rest = {"touch location"}
            \/ first = "evse" /\ rest = {"touch location"}
            \/ first = "connector" /\ rest = {"touch evse", "touch location"}
            \/ first = "touch evse" /\ rest = {"touch location"}
            \/ first = "touch location" /\ rest = {}
    BY <2>160 DEF TodoShape
  <2>18. /\ evse <= loc \/ "touch location" \in items
         /\ con <= evse \/ "touch evse" \in items
         /\ "evse" \in items /\ items \cap {"location", "insert", "touch location"} = {} => loc = n
         /\ "connector" \in items /\ items \cap {"evse", "touch evse"} = {} => evse = n
    BY <2>12, <2>13, <2>16
  <2>19. /\ evse2 <= loc2 \/ "touch location" \in rest
         /\ con2 <= evse2 \/ "touch evse" \in rest
         /\ "evse" \in rest /\ rest \cap {"location", "insert", "touch location"} = {} => loc2 = n
         /\ "connector" \in rest /\ rest \cap {"evse", "touch evse"} = {} => evse2 = n
    BY <2>11, <2>14, <2>17, <2>18
  <2>20. Requests(c)' => ParentsAreWritten(c)'
    <3>1. Requests(c)' => rest # {}
      BY RequestOthersStay
    <3> QED BY <2>7, <2>15, <2>19, <3>1 DEF ParentsAreWritten
  <2>21. /\ IsOlder(r, "evse", "location")' \/ WillTouch(r, "touch location")'
         /\ IsOlder(r, "connector", "evse")' \/ WillTouch(r, "touch evse")'
    BY <2>8, <2>15, <2>19 DEF IsOlder
  <2> QED BY <2>4, <2>9, <2>20, <2>21
<1> QED BY <1>2, <1>7, <1>8 DEF ParentsWillFollow

\* What a request writes of its row leaves all as it should be.
LEMMA RequestStep ==
  ASSUME FieldsAreSound, NEW c \in FieldCalls, Requests(c), NEW first, NEW rest,
         TodoIs(Doing(c).method, Doing(c).level, Doing(c).todo, first, rest), NextRequest(c, Settles(c)),
         answer' = NoAnswer, UNCHANGED <<fieldOverlap, fieldBroken>>,
         NEW r, r = Doing(c).row, NEW n, n = Doing(c).n,
         WritesLevels(rest, r), WritesColumns(c, rest, r, n), WritesUpdatedAt(first, r, n)
  PROVE  FieldsAreSound'
<1>1. HandsOver(c, rest, r, n)
  BY NextRequestIs DEF HandsOver
<1>2. RequestIsDone(c, first, rest, r, n)
  BY <1>1 DEF RequestIsDone
<1>3. FieldTypeOK' /\ ColumnsHold' /\ ShownIsOwn' /\ FieldsKept'
  BY <1>2, RequestTypes, RequestColumns, RequestKeepsFields
<1>4. FieldCallsAreSound' /\ RequestsAreSound' /\ ParentsWillFollow'
  BY <1>2, RequestCalls, RequestRequests, RequestParents
<1> QED BY <1>3, <1>4 DEF FieldsAreSound

\* The columns that a request sets are those of its level.
LEMMA PutColumnsAre ==
  ASSUME FieldsAreSound, NEW c \in FieldCalls, Requests(c), NEW level \in Levels, Doing(c).method = "PUT",
         NEW r, r = Doing(c).row, NEW n, n = Doing(c).n, NEW cols, cols = PutColumns(c, level)
  PROVE  /\ cols \in [Columns -> Cells]
         /\ \A col \in Columns : cols[col] = fieldRows[r].columns[col] \/ cols[col].by = n
         /\ \A col \in Columns :
              LevelOf(col) = level /\ (level # "location" \/ col \in Doing(c).carried \/ col # "name") => cols[col].by = n
<1>1. /\ FieldTypeOK /\ r \in Parties /\ n \in 0..MaxFieldCalls
  BY Requesting, InTheMiddle DEF FieldsAreSound, FieldCallType
<1>2. fieldRows[r].columns \in [Columns -> Cells]
  BY <1>1 DEF FieldTypeOK, FieldRowType
<1>3. \A old : /\ Sets(old, c) = [set |-> TRUE, by |-> n] /\ Nulls(old, c) = [set |-> FALSE, by |-> n]
               /\ Sets(old, c).by = n /\ Nulls(old, c).by = n
  BY DEF Sets, Nulls
<1>4. \A old : Sets(old, c) \in Cells /\ Nulls(old, c) \in Cells
  BY <1>1, <1>3, CellsAre
<1>5. cols = [col \in Columns |->
                IF LevelOf(col) # level THEN fieldRows[r].columns[col]
                ELSE IF level # "location" \/ col \in Doing(c).carried THEN Sets(fieldRows[r].columns[col], c)
                ELSE IF col = "name" THEN fieldRows[r].columns[col] ELSE Nulls(fieldRows[r].columns[col], c)]
  BY DEF PutColumns
<1>6. cols \in [Columns -> Cells]
  BY <1>2, <1>4, <1>5
<1>7. ASSUME NEW col \in Columns
      PROVE  /\ cols[col] = fieldRows[r].columns[col] \/ cols[col].by = n
             /\ LevelOf(col) = level /\ (level # "location" \/ col \in Doing(c).carried \/ col # "name") => cols[col].by = n
  <2>1. cols[col] = IF LevelOf(col) # level THEN fieldRows[r].columns[col]
                ELSE IF level # "location" \/ col \in Doing(c).carried THEN Sets(fieldRows[r].columns[col], c)
                ELSE IF col = "name" THEN fieldRows[r].columns[col] ELSE Nulls(fieldRows[r].columns[col], c)
    BY <1>5
  <2> QED BY <1>3, <2>1
<1> QED BY <1>6, <1>7

LEMMA PatchColumnsAre ==
  ASSUME FieldsAreSound, NEW c \in FieldCalls, Requests(c), NEW level \in Levels,
         NEW r, r = Doing(c).row, NEW n, n = Doing(c).n, NEW cols, cols = PatchColumns(c, level)
  PROVE  /\ cols \in [Columns -> Cells]
         /\ \A col \in Columns : \/ cols[col] = fieldRows[r].columns[col] \/ cols[col].by = n
                                 \/ level = "location" /\ col \in Hours /\ cols[col] = Doing(c).hours[col]
         /\ level = "location" => \A col \in Columns : col \in Doing(c).carried => cols[col].by = n
         /\ level = "evse" => cols["status"].by = n
         /\ level = "connector" => cols["format"].by = n
<1>1. /\ FieldTypeOK /\ r \in Parties /\ n \in 0..MaxFieldCalls /\ Doing(c).hours \in [Hours -> Cells]
  BY Requesting, InTheMiddle DEF FieldsAreSound, FieldCallType, RequestIsSound
<1>2. fieldRows[r].columns \in [Columns -> Cells] /\ "status" \in Columns /\ "format" \in Columns
  BY <1>1, LevelsOfColumns DEF FieldTypeOK, FieldRowType
<1>3. \A old : Sets(old, c) \in Cells /\ Sets(old, c).by = n
  BY <1>1, CellsAre DEF Sets
<1>4. CASE level = "location"
  <2>1. cols = [col \in Columns |->
                  IF col \in Doing(c).carried THEN Sets(fieldRows[r].columns[col], c)
                  ELSE IF col \in Hours /\ Doing(c).carried \cap Hours # {} THEN Doing(c).hours[col]
                  ELSE fieldRows[r].columns[col]]
    BY <1>4 DEF PatchColumns, MapLocationPatch
  <2>2. cols \in [Columns -> Cells]
    BY <1>1, <1>2, <1>3, <2>1
  <2>3. \A col \in Columns :
          cols[col] = IF col \in Doing(c).carried THEN Sets(fieldRows[r].columns[col], c)
                  ELSE IF col \in Hours /\ Doing(c).carried \cap Hours # {} THEN Doing(c).hours[col]
                  ELSE fieldRows[r].columns[col]
    BY <2>1
  <2> QED BY <1>3, <1>4, <2>2, <2>3
<1>5. CASE level = "evse"
  <2>1. cols = [fieldRows[r].columns EXCEPT !["status"] = Sets(fieldRows[r].columns["status"], c)]
    BY <1>5 DEF PatchColumns, MapEvsePatch
  <2> QED BY <1>2, <1>3, <1>5, <2>1
<1>6. CASE level = "connector"
  <2>1. cols = [fieldRows[r].columns EXCEPT !["format"] = Sets(fieldRows[r].columns["format"], c)]
    BY <1>6 DEF PatchColumns, MapConnectorPatch
  <2> QED BY <1>2, <1>3, <1>6, <2>1
<1> QED BY <1>4, <1>5, <1>6 DEF Levels

\* A request at hand, and those after it.
LEMMA RequestAtHand ==
  ASSUME FieldsAreSound, NEW c \in FieldCalls, Requests(c), NEW first, At(c, first)
  PROVE  \E rest : /\ TodoIs(Doing(c).method, Doing(c).level, Doing(c).todo, first, rest)
                   /\ TodoShape(Doing(c).method, Doing(c).level, first, rest)
                   /\ Pending(c) = {first} \cup rest
<1>1. PICK method, level, todo :
        method = Doing(c).method /\ level = Doing(c).level /\ todo = Doing(c).todo
  OBVIOUS
<1>2. /\ method \in {"PUT", "PATCH"} /\ level \in Levels /\ todo \in LeftTodo(method, level)
      /\ Head(todo) = first /\ Pending(c) = ItemsOf(todo)
  BY <1>1, Requesting, InTheMiddle DEF At
<1>3. \A f, q : TodoIs(method, level, todo, f, q) => f = first
  BY <1>2 DEF TodoIs
<1>4. \E f, q : TodoIs(method, level, todo, f, q)
  BY <1>2, TodoCases
<1>5. PICK rest : TodoIs(method, level, todo, first, rest)
  BY <1>3, <1>4
<1>6. ItemsOf(todo) = {first} \cup rest /\ TodoShape(method, level, first, rest)
  BY <1>2, <1>5, TodoShapes
<1> QED BY <1>1, <1>2, <1>5, <1>6

LEMMA SettledAreWritten ==
  ASSUME FieldsAreSound, NEW c \in FieldCalls, Requests(c), NEW first, NEW rest,
         TodoShape(Doing(c).method, Doing(c).level, first, rest), Pending(c) = {first} \cup rest,
         NEW col \in Columns, LevelOf(col) \notin rest, LevelOf(col) # first,
         first = "insert" => LevelOf(col) # "location"
  PROVE  IsWritten(c, col)
<1>1. "insert" \notin rest
  BY ShapeFacts
<1> QED BY <1>1 DEF IsWritten

\* The columns a row has after a request.
ColumnsBecome(c, level, r, n, cols) ==
    /\ cols \in [Columns -> Cells]
    /\ \A col \in Columns : \/ cols[col] = fieldRows[r].columns[col] \/ cols[col].by = n
                            \/ /\ Doing(c).method = "PATCH" /\ "location" \in Pending(c)
                               /\ col \in Hours /\ cols[col] = Doing(c).hours[col]
    /\ \A col \in Settles(c) : LevelOf(col) = level => cols[col].by = n

\* A row is inserted or updated.
LEMMA FillsRowKeeps ==
  ASSUME FieldsAreSound, NEW c \in FieldCalls, Requests(c), NEW level \in Levels, NEW first, At(c, first),
         first = level \/ (first = "insert" /\ level = "location"), FillsRow(c, level)
  PROVE  FieldsAreSound'
<1>1. PICK rest : /\ TodoIs(Doing(c).method, Doing(c).level, Doing(c).todo, first, rest)
                  /\ TodoShape(Doing(c).method, Doing(c).level, first, rest)
                  /\ Pending(c) = {first} \cup rest
  BY RequestAtHand
<1>2. PICK r, n : r = Doing(c).row /\ n = Doing(c).n
  OBVIOUS
<1>3. PICK cols : cols = IF Doing(c).method = "PUT" THEN PutColumns(c, level) ELSE PatchColumns(c, level)
  OBVIOUS
<1>4. PICK row : row = [there |-> fieldRows[r].there \cup {level}, columns |-> cols,
                        updatedAt |-> [fieldRows[r].updatedAt EXCEPT ![level] = n]]
  OBVIOUS
<1>5. /\ FieldTypeOK /\ r \in Parties /\ n \in 0..MaxFieldCalls /\ RequestIsSound(c) /\ ~FieldIdle(c)
      /\ Doing(c).method \in {"PUT", "PATCH"} /\ Doing(c).level \in Levels
  BY <1>2, Requesting, InTheMiddle DEF FieldsAreSound, FieldCallType
<1>6. /\ NextRequest(c, Settles(c)) /\ answer' = NoAnswer /\ UNCHANGED <<fieldOverlap, fieldBroken>>
      /\ fieldRows' = [fieldRows EXCEPT ![r] = row]
  <2>1. fieldRows' = [fieldRows EXCEPT ![r] =
          [there |-> fieldRows[r].there \cup {level},
           columns |-> IF Doing(c).method = "PUT" THEN PutColumns(c, level) ELSE PatchColumns(c, level),
           updatedAt |-> [fieldRows[r].updatedAt EXCEPT ![level] = n]]]
    BY <1>2 DEF FillsRow
  <2>2. NextRequest(c, Settles(c)) /\ answer' = NoAnswer /\ UNCHANGED <<fieldOverlap, fieldBroken>>
    BY DEF FillsRow
  <2> QED BY <1>3, <1>4, <2>1, <2>2
<1>7. ASSUME Doing(c).method = "PUT" PROVE ColumnsBecome(c, level, r, n, cols)
  <2>1. cols = PutColumns(c, level)
    BY <1>3, <1>7
  <2>2. /\ cols \in [Columns -> Cells]
        /\ \A col \in Columns : cols[col] = fieldRows[r].columns[col] \/ cols[col].by = n
        /\ \A col \in Columns :
             LevelOf(col) = level /\ (level # "location" \/ col \in Doing(c).carried \/ col # "name") => cols[col].by = n
    BY <1>2, <1>7, <2>1, PutColumnsAre
  <2>3. \A col \in Settles(c) : LevelOf(col) = level => cols[col].by = n
    <3> SUFFICES ASSUME NEW col \in Settles(c), LevelOf(col) = level PROVE cols[col].by = n
      OBVIOUS
    <3>1. col \in Columns
      BY <1>5, SettlesIs
    <3>2. level = "location" => Doing(c).level = "location"
      BY <1>1 DEF TodoShape
    <3>3. level = "location" => col \in Doing(c).carried \/ col # "name"
      BY <1>5, <1>7, <3>2, SettlesIs
    <3> QED BY <2>2, <3>1, <3>3
  <2> QED BY <2>2, <2>3 DEF ColumnsBecome
<1>8. ASSUME Doing(c).method = "PATCH" PROVE ColumnsBecome(c, level, r, n, cols)
  <2>1. cols = PatchColumns(c, level)
    BY <1>3, <1>8
  <2>2. /\ cols \in [Columns -> Cells]
        /\ \A col \in Columns : \/ cols[col] = fieldRows[r].columns[col] \/ cols[col].by = n
                                \/ level = "location" /\ col \in Hours /\ cols[col] = Doing(c).hours[col]
        /\ level = "location" => \A col \in Columns : col \in Doing(c).carried => cols[col].by = n
        /\ level = "evse" => cols["status"].by = n
        /\ level = "connector" => cols["format"].by = n
    BY <1>2, <2>1, PatchColumnsAre
  <2>3. \A col \in Settles(c) : LevelOf(col) = level => cols[col].by = n
    <3> SUFFICES ASSUME NEW col \in Settles(c), LevelOf(col) = level PROVE cols[col].by = n
      OBVIOUS
    <3>1. col \in Columns
      BY <1>5, SettlesIs
    <3>2. level = Doing(c).level
      BY <1>1, <1>8 DEF TodoShape, Levels
    <3>3. CASE level = "location"
      BY <1>5, <1>8, <2>2, <3>1, <3>2, <3>3, SettlesIs
    <3>4. CASE level = "evse"
      BY <1>5, <1>8, <2>2, <3>2, <3>4, SettlesIs
    <3>5. CASE level = "connector"
      BY <1>5, <1>8, <2>2, <3>2, <3>5, SettlesIs
    <3> QED BY <3>3, <3>4, <3>5 DEF Levels
  <2>4. level = "location" => "location" \in Pending(c)
    BY <1>1, <1>8 DEF TodoShape
  <2> QED BY <1>8, <2>2, <2>3, <2>4 DEF ColumnsBecome
<1>9. /\ cols \in [Columns -> Cells]
      /\ \A col \in Columns : \/ cols[col] = fieldRows[r].columns[col] \/ cols[col].by = n
                              \/ /\ Doing(c).method = "PATCH" /\ "location" \in Pending(c)
                                 /\ col \in Hours /\ cols[col] = Doing(c).hours[col]
      /\ \A col \in Settles(c) : LevelOf(col) = level => cols[col].by = n
  BY <1>5, <1>7, <1>8 DEF ColumnsBecome
<1>10. /\ fieldRows[r] \in FieldRowType /\ fieldRows[r].there \subseteq Levels
       /\ fieldRows[r].updatedAt \in [Levels -> 0..MaxFieldCalls]
       /\ RowsHang(fieldRows[r].there)
  BY <1>5 DEF FieldTypeOK, FieldRowType
<1>11. /\ row.there = fieldRows[r].there \cup {level} /\ row.columns = cols
       /\ row.updatedAt = [fieldRows[r].updatedAt EXCEPT ![level] = n]
       /\ row \in FieldRowType
  BY <1>4, <1>5, <1>9, <1>10 DEF FieldRowType
<1>12. /\ fieldRows' \in [Parties -> FieldRowType] /\ fieldRows'[r] = row
       /\ \A p \in Parties : p # r => fieldRows'[p] = fieldRows[p]
  BY <1>5, <1>6, <1>11 DEF FieldTypeOK
<1>13. RowsHang(row.there)
  <2>1. level = "connector" => "evse" \in fieldRows[r].there
    BY <1>1, <1>2, <1>5 DEF RequestIsSound, TodoShape
  <2>2. level = "evse" => "location" \in fieldRows[r].there
    BY <1>1, <1>2, <1>5 DEF RequestIsSound, TodoShape
  <2> QED BY <1>10, <1>11, <2>1, <2>2 DEF RowsHang
<1>14. WritesLevels(rest, r)
  <2>0. "evse" \in rest => first \in {"location", "insert"}
    BY <1>1, ShapeFacts
  <2>1. "evse" \in rest => level = "location"
    BY <2>0 DEF Levels
  <2>2. "connector" \in rest /\ "evse" \notin rest => level = "evse"
    BY <1>1, ShapeFacts
  <2> QED BY <1>11, <1>12, <1>13, <2>1, <2>2 DEF WritesLevels
<1>15. WritesColumns(c, rest, r, n)
  <2>1. ASSUME NEW col \in Settles(c), LevelOf(col) \notin rest
        PROVE  IsWritten(c, col) \/ cols[col].by = n
    <3>1. CASE LevelOf(col) = level
      BY <1>9, <3>1
    <3>2. CASE LevelOf(col) # level
      <4>1. col \in Columns /\ LevelOf(col) \in Levels
        BY <1>5, SettlesIs, LevelsOfColumns
      <4>2. LevelOf(col) # first /\ (first = "insert" => LevelOf(col) # "location")
        BY <3>2, <4>1 DEF Levels
      <4> QED BY <1>1, <2>1, <4>1, <4>2, SettledAreWritten
    <3> QED BY <3>1, <3>2
  <2> QED BY <1>9, <1>11, <1>12, <2>1 DEF WritesColumns
<1>16. WritesUpdatedAt(first, r, n)
  <2>1. /\ row.updatedAt["location"] = IF level = "location" THEN n ELSE fieldRows[r].updatedAt["location"]
        /\ row.updatedAt["evse"] = IF level = "evse" THEN n ELSE fieldRows[r].updatedAt["evse"]
        /\ row.updatedAt["connector"] = IF level = "connector" THEN n ELSE fieldRows[r].updatedAt["connector"]
    BY <1>10, <1>11, PartiesAre
  <2>2. /\ level = "location" <=> first \in {"location", "insert", "touch location"}
        /\ level = "evse" <=> first \in {"evse", "touch evse"}
        /\ level = "connector" <=> first = "connector"
    BY DEF Levels
  <2> QED BY <1>12, <2>1, <2>2 DEF WritesUpdatedAt
<1> QED BY <1>1, <1>2, <1>6, <1>14, <1>15, <1>16, RequestStep

\* Only updatedAt is set.
LEMMA TouchesKeeps ==
  ASSUME FieldsAreSound, NEW c \in FieldCalls, Requests(c), NEW level \in Levels, NEW first, At(c, first),
         (first = "touch location" /\ level = "location") \/ (first = "touch evse" /\ level = "evse"),
         Touches(c, level)
  PROVE  FieldsAreSound'
<1>1. PICK rest : /\ TodoIs(Doing(c).method, Doing(c).level, Doing(c).todo, first, rest)
                  /\ TodoShape(Doing(c).method, Doing(c).level, first, rest)
                  /\ Pending(c) = {first} \cup rest
  BY RequestAtHand
<1>2. PICK r, n : r = Doing(c).row /\ n = Doing(c).n
  OBVIOUS
<1>3. PICK row : row = [fieldRows[r] EXCEPT !.updatedAt = [fieldRows[r].updatedAt EXCEPT ![level] = n]]
  OBVIOUS
<1>4. /\ FieldTypeOK /\ r \in Parties /\ n \in 0..MaxFieldCalls /\ ~FieldIdle(c)
  BY <1>2, Requesting, InTheMiddle DEF FieldsAreSound, FieldCallType
<1>5. /\ fieldRows[r] \in FieldRowType /\ fieldRows[r].updatedAt \in [Levels -> 0..MaxFieldCalls]
      /\ RowsHang(fieldRows[r].there)
  BY <1>4 DEF FieldTypeOK, FieldRowType
<1>6. /\ row.there = fieldRows[r].there /\ row.columns = fieldRows[r].columns
      /\ row.updatedAt = [fieldRows[r].updatedAt EXCEPT ![level] = n]
      /\ row \in FieldRowType
  BY <1>3, <1>4, <1>5 DEF FieldRowType
<1>7. /\ NextRequest(c, Settles(c)) /\ answer' = NoAnswer /\ UNCHANGED <<fieldOverlap, fieldBroken>>
      /\ fieldRows' = [fieldRows EXCEPT ![r].updatedAt[level] = n]
  BY <1>2 DEF Touches
<1>8. /\ fieldRows' \in [Parties -> FieldRowType] /\ fieldRows'[r] = row
      /\ \A p \in Parties : p # r => fieldRows'[p] = fieldRows[p]
  <2>1. fieldRows' = [fieldRows EXCEPT ![r] = row]
    BY <1>3, <1>4, <1>7 DEF FieldTypeOK
  <2> QED BY <1>4, <1>6, <2>1 DEF FieldTypeOK
<1>9. WritesLevels(rest, r)
  <2>1. "evse" \notin rest /\ "connector" \notin rest
    BY <1>1 DEF TodoShape
  <2> QED BY <1>5, <1>6, <1>8, <2>1 DEF WritesLevels
<1>10. WritesColumns(c, rest, r, n)
  <2>1. ASSUME NEW col \in Settles(c), LevelOf(col) \notin rest
        PROVE  IsWritten(c, col)
    <3>1. col \in Columns /\ LevelOf(col) \in Levels
      BY <1>4, SettlesIs, LevelsOfColumns
    <3>2. LevelOf(col) # first
      BY <3>1 DEF Levels
    <3> QED BY <1>1, <2>1, <3>1, <3>2, SettledAreWritten
  <2> QED BY <1>6, <1>8, <2>1 DEF WritesColumns
<1>11. WritesUpdatedAt(first, r, n)
  <2>1. /\ row.updatedAt["location"] = IF level = "location" THEN n ELSE fieldRows[r].updatedAt["location"]
        /\ row.updatedAt["evse"] = IF level = "evse" THEN n ELSE fieldRows[r].updatedAt["evse"]
        /\ row.updatedAt["connector"] = fieldRows[r].updatedAt["connector"]
    BY <1>5, <1>6, PartiesAre
  <2>2. /\ level = "location" <=> first \in {"location", "insert", "touch location"}
        /\ level = "evse" <=> first \in {"evse", "touch evse"}
        /\ first # "connector"
    OBVIOUS
  <2> QED BY <1>8, <2>1, <2>2 DEF WritesUpdatedAt
<1> QED BY <1>1, <1>2, <1>7, <1>9, <1>10, <1>11, RequestStep

\* Of a call that is idle nothing is left.
LEMMA AtIsRequest ==
  ASSUME FieldIInv, NEW c \in FieldCalls, NEW first, At(c, first)
  PROVE  Requests(c) /\ FieldsAreSound
BY DEF FieldIInv, IdleRequestNothing, At, Requests

LEMMA WriteRowKeeps ==
  ASSUME FieldIInv, NEW c \in FieldCalls, NEW level \in Levels, WriteRow(c, level)
  PROVE  FieldsAreSound'
<1>1. At(c, level) /\ FillsRow(c, level)
  BY DEF WriteRow
<1>2. Requests(c) /\ FieldsAreSound
  BY <1>1, AtIsRequest
<1> QED BY <1>1, <1>2, FillsRowKeeps

LEMMA InsertRowKeeps ==
  ASSUME FieldIInv, NEW c \in FieldCalls, InsertRow(c)
  PROVE  FieldsAreSound'
<1>1. At(c, "insert")
  BY DEF InsertRow
<1>2. Requests(c) /\ FieldsAreSound /\ ~FieldIdle(c)
  BY <1>1, AtIsRequest DEF Requests
<1>3. ASSUME FillsRow(c, "location") PROVE FieldsAreSound'
  BY <1>1, <1>2, <1>3, FillsRowKeeps, PartiesAre
<1>4. ASSUME EndsFields(c), fieldBroken' = TRUE, RowsStay PROVE FieldsAreSound'
  BY <1>2, <1>4, FieldEndsKeeps
<1> QED BY <1>3, <1>4 DEF InsertRow

LEMMA TouchRowKeeps ==
  ASSUME FieldIInv, NEW c \in FieldCalls, TouchEvse(c) \/ TouchLocation(c)
  PROVE  FieldsAreSound'
<1>1. CASE TouchEvse(c)
  <2>1. At(c, "touch evse") /\ Touches(c, "evse")
    BY <1>1 DEF TouchEvse
  <2>2. Requests(c) /\ FieldsAreSound
    BY <2>1, AtIsRequest
  <2> QED BY <2>1, <2>2, TouchesKeeps, PartiesAre
<1>2. CASE TouchLocation(c)
  <2>1. At(c, "touch location") /\ Touches(c, "location")
    BY <1>2 DEF TouchLocation
  <2>2. Requests(c) /\ FieldsAreSound
    BY <2>1, AtIsRequest
  <2> QED BY <2>1, <2>2, TouchesKeeps, PartiesAre
<1> QED BY <1>1, <1>2

\* What is unprimed of the rows and the calls is all but what was answered.
LEMMA FieldsStayKeeps ==
  ASSUME FieldsAreSound, UNCHANGED <<fieldRows, fieldCall, records, fieldOverlap, fieldBroken>>,
         answer' \in [to : Parties \cup {"none"}, of : Parties \cup {"none"}], ShownIsOwn'
  PROVE  FieldsAreSound'
<1>1. /\ FieldTypeOK /\ ColumnsHold /\ FieldsKept /\ FieldCallsAreSound /\ RequestsAreSound /\ ParentsWillFollow
  BY DEF FieldsAreSound
<1>2. /\ fieldRows' = fieldRows /\ fieldCall' = fieldCall /\ records' = records
      /\ fieldOverlap' = fieldOverlap /\ fieldBroken' = fieldBroken
  OBVIOUS
<1>3. FieldTypeOK'
  BY <1>1, <1>2 DEF FieldTypeOK
<1>4. ColumnsHold' /\ FieldsKept'
  BY <1>1, <1>2 DEF ColumnsHold, FieldsKept, MayHold
<1>5. \A c : Doing(c)' = Doing(c) /\ (FieldIdle(c)' <=> FieldIdle(c))
  BY <1>2 DEF Doing, FieldIdle
<1>6. FieldCallsAreSound'
  BY <1>1, <1>2, <1>5 DEF FieldCallsAreSound
<1>7. RequestsAreSound'
  <2>1. \A c : /\ (Requests(c)' <=> Requests(c)) /\ Pending(c)' = Pending(c) /\ Settles(c)' = Settles(c)
    BY <1>5 DEF Requests, Pending, Settles
  <2>2. \A c, col : IsWritten(c, col)' <=> IsWritten(c, col)
    BY <2>1 DEF IsWritten
  <2>3. \A n, p, col : IsKept(n, p, col)' <=> IsKept(n, p, col)
    BY <1>2 DEF IsKept
  <2>4. \A p, by : MayHold(p, by)' <=> MayHold(p, by)
    BY <1>2 DEF MayHold
  <2>5. ASSUME NEW c \in FieldCalls, RequestIsSound(c) PROVE RequestIsSound(c)'
    BY <1>2, <1>5, <2>1, <2>2, <2>3, <2>4, <2>5 DEF RequestIsSound
  <2> QED BY <1>1, <2>1, <2>5 DEF RequestsAreSound
<1>8. ParentsWillFollow'
  <2>1. \A c : /\ (Requests(c)' <=> Requests(c)) /\ Pending(c)' = Pending(c)
    BY <1>5 DEF Requests, Pending
  <2>2. \A p, touch : WillTouch(p, touch)' <=> WillTouch(p, touch)
    BY <1>5, <2>1 DEF WillTouch
  <2>3. \A p, level, parent : IsOlder(p, level, parent)' <=> IsOlder(p, level, parent)
    BY <1>2 DEF IsOlder
  <2>4. \A c : ParentsAreWritten(c)' <=> ParentsAreWritten(c)
    BY <1>2, <1>5, <2>1 DEF ParentsAreWritten
  <2>5. \A p \in Parties, level \in Levels : fieldRows'[p].updatedAt[level] <= Len(records')
    BY <1>1, <1>2 DEF ParentsWillFollow
  <2>6. ~fieldOverlap' /\ ~fieldBroken' =>
          /\ \A p \in Parties : /\ IsOlder(p, "evse", "location") \/ WillTouch(p, "touch location")
                                /\ IsOlder(p, "connector", "evse") \/ WillTouch(p, "touch evse")
          /\ \A c \in FieldCalls : Requests(c) => ParentsAreWritten(c)
    <3>1. (fieldOverlap' <=> fieldOverlap) /\ (fieldBroken' <=> fieldBroken)
      BY <1>2
    <3> QED BY <1>1, <3>1 DEF ParentsWillFollow
  <2>7. ~fieldOverlap' /\ ~fieldBroken' =>
          /\ \A p \in Parties : /\ IsOlder(p, "evse", "location")' \/ WillTouch(p, "touch location")'
                                /\ IsOlder(p, "connector", "evse")' \/ WillTouch(p, "touch evse")'
          /\ \A c \in FieldCalls : Requests(c)' => ParentsAreWritten(c)'
    BY <2>1, <2>2, <2>3, <2>4, <2>6
  <2> QED BY <2>5, <2>7 DEF ParentsWillFollow
<1> QED BY <1>3, <1>4, <1>6, <1>7, <1>8 DEF FieldsAreSound

LEMMA ShowsKeeps ==
  ASSUME FieldsAreSound, NEW p \in Parties, NEW level \in Levels, Shows(p, FoundRows(p, level))
  PROVE  FieldsAreSound'
<1>1. PICK found : found = FoundRows(p, level)
  OBVIOUS
<1>2. \A q \in found : q \in Parties /\ (p = "roaming" => q = "roaming")
  BY <1>1 DEF FoundRows, DirectLocations, DirectEvses, DirectConnectors,
     RoamingLocations, RoamingEvses, RoamingConnectors, Parties, Levels
<1>3. /\ found = {} /\ answer' = [to |-> p, of |-> "none"]
      \/ \E q \in found : answer' = [to |-> p, of |-> q]
  BY <1>1 DEF Shows
<1>4. answer' \in [to : Parties \cup {"none"}, of : Parties \cup {"none"}]
      /\ (answer'.to = "roaming" => answer'.of \in {"roaming", "none"})
  BY <1>2, <1>3
<1>5. UNCHANGED <<fieldRows, fieldCall, records, fieldOverlap, fieldBroken>>
  BY DEF Shows
<1> QED BY <1>4, <1>5, FieldsStayKeeps DEF ShownIsOwn

LEMMA IdleStaysIdle ==
  ASSUME FieldIInv, [FieldNext]_fieldVars
  PROVE  IdleRequestNothing'
<1>1. fieldCall \in [FieldCalls -> FieldCallType] /\ \A c \in FieldCalls : FieldIdle(c) => Doing(c).todo = <<>>
  BY DEF FieldIInv, FieldsAreSound, FieldTypeOK, IdleRequestNothing
<1>2. ASSUME NEW c \in FieldCalls, NEW call, fieldCall' = [fieldCall EXCEPT ![c] = call],
             call.method = "none" => call.todo = <<>>
      PROVE  IdleRequestNothing'
  BY <1>1, <1>2 DEF IdleRequestNothing, FieldIdle, Doing
<1>3. ASSUME NEW c \in FieldCalls, EndsFields(c) PROVE IdleRequestNothing'
  BY <1>2, <1>3, NoFieldCallIs DEF EndsFields
<1>4. ASSUME fieldCall' = fieldCall PROVE IdleRequestNothing'
  BY <1>1, <1>4 DEF IdleRequestNothing, FieldIdle, Doing
<1>5. ASSUME NEW c \in FieldCalls, ~FieldIdle(c), NEW row, NEW todo, GoesOnWith(c, row, todo)
      PROVE  IdleRequestNothing'
  <2>1. PICK call : call = [fieldCall[c] EXCEPT !.row = row, !.todo = todo,
                                                !.hours = [h \in Hours |-> fieldRows[row].columns[h]]]
    OBVIOUS
  <2>2. fieldCall' = [fieldCall EXCEPT ![c] = call]
    BY <1>1, <1>5, <2>1 DEF GoesOnWith
  <2>3. call.method # "none"
    BY <1>1, <1>5, <2>1 DEF FieldIdle, Doing, FieldCallType
  <2> QED BY <1>2, <2>2, <2>3
<1>6. ASSUME NEW c \in FieldCalls, ~FieldIdle(c), NextRequest(c, Settles(c)) PROVE IdleRequestNothing'
  <2>1. PICK call : call = [fieldCall[c] EXCEPT !.todo = Tail(fieldCall[c].todo)]
    OBVIOUS
  <2>2. call.method # "none"
    BY <1>1, <1>6, <2>1 DEF FieldIdle, Doing, FieldCallType
  <2>3. \/ fieldCall' = [fieldCall EXCEPT ![c] = call] \/ EndsFields(c)
    BY <1>1, <2>1, <1>6 DEF NextRequest
  <2> QED BY <1>2, <1>3, <2>2, <2>3
<1>7. ASSUME NEW c \in FieldCalls, FindFieldsToPut(c) \/ FindFieldsToPatch(c) PROVE IdleRequestNothing'
  <2>1. ~FieldIdle(c)
    BY <1>7 DEF FindFieldsToPut, FindFieldsToPatch, FieldIdle
  <2>2. (\E row, todo : GoesOnWith(c, row, todo)) \/ EndsFields(c)
    BY <1>7 DEF FindFieldsToPut, FindFieldsToPatch
  <2> QED BY <1>3, <1>5, <2>1, <2>2
<1>8. ASSUME NEW c \in FieldCalls, NEW first, At(c, first) PROVE ~FieldIdle(c)
  BY <1>8, AtIsRequest DEF Requests
<1>9. ASSUME NEW c \in FieldCalls, NEW level \in Levels, WriteRow(c, level) PROVE IdleRequestNothing'
  <2>1. NextRequest(c, Settles(c)) /\ At(c, level)
    BY <1>9 DEF WriteRow, FillsRow
  <2> QED BY <1>6, <1>8, <2>1
<1>10. ASSUME NEW c \in FieldCalls, InsertRow(c) PROVE IdleRequestNothing'
  <2>1. At(c, "insert") /\ (EndsFields(c) \/ NextRequest(c, Settles(c)))
    BY <1>10 DEF InsertRow, FillsRow
  <2> QED BY <1>3, <1>6, <1>8, <2>1
<1>11. ASSUME NEW c \in FieldCalls, TouchEvse(c) \/ TouchLocation(c) PROVE IdleRequestNothing'
  <2>1. NextRequest(c, Settles(c)) /\ \E first : At(c, first)
    BY <1>11 DEF TouchEvse, TouchLocation, Touches
  <2> QED BY <1>6, <1>8, <2>1
<1>12. ASSUME NEW c \in FieldCalls, FieldsBreak(c) PROVE IdleRequestNothing'
  BY <1>3, <1>12 DEF FieldsBreak
<1>13. ASSUME NEW c \in FieldCalls, NEW method \in {"PUT", "PATCH"}, NEW level \in Levels, NEW p \in Parties,
              NEW carried \in FieldBodies \cup {{}}, BeginFields(c, method, level, p, carried)
       PROVE  IdleRequestNothing'
  <2>1. PICK call : call = [NoFieldCall EXCEPT !.n = Len(records) + 1, !.method = method, !.level = level, !.party = p,
                                               !.carried = carried]
    OBVIOUS
  <2>2. fieldCall' = [fieldCall EXCEPT ![c] = call]
    BY <1>13, <2>1 DEF BeginFields
  <2>3. call.todo = <<>>
    BY <2>1 DEF NoFieldCall
  <2> QED BY <1>2, <2>2, <2>3
<1>14. ASSUME NEW p \in Parties, GetLocation(p) \/ GetEvse(p) \/ GetConnector(p) PROVE IdleRequestNothing'
  BY <1>4, <1>14 DEF GetLocation, GetEvse, GetConnector, Shows
<1>15. ASSUME UNCHANGED fieldVars PROVE IdleRequestNothing'
  BY <1>4, <1>15 DEF fieldVars
<1> QED BY <1>7, <1>9, <1>10, <1>11, <1>12, <1>13, <1>14, <1>15 DEF FieldNext, FieldStep

LEMMA FieldsStep == FieldIInv /\ [FieldNext]_fieldVars => FieldIInv'
<1> SUFFICES ASSUME FieldIInv, [FieldNext]_fieldVars PROVE FieldIInv'
  OBVIOUS
<1>1. IdleRequestNothing'
  BY IdleStaysIdle
<1>2. FieldsAreSound /\ ShownIsOwn /\ FieldTypeOK
  BY DEF FieldIInv, FieldsAreSound
<1>3. ASSUME NEW c \in FieldCalls, FieldStep(c) PROVE FieldsAreSound'
  <2>1. CASE FindFieldsToPut(c)
    BY <1>2, <2>1, FindFieldsToPutKeeps
  <2>2. CASE FindFieldsToPatch(c)
    BY <1>2, <2>2, FindFieldsToPatchKeeps
  <2>3. CASE InsertRow(c)
    BY <2>3, InsertRowKeeps
  <2>4. ASSUME NEW level \in Levels, WriteRow(c, level) PROVE FieldsAreSound'
    BY <2>4, WriteRowKeeps
  <2>5. CASE TouchEvse(c) \/ TouchLocation(c)
    BY <2>5, TouchRowKeeps
  <2>6. CASE FieldsBreak(c)
    BY <1>2, <2>6, FieldsBreakKeeps
  <2> QED BY <1>3, <2>1, <2>2, <2>3, <2>4, <2>5, <2>6 DEF FieldStep
<1>4. ASSUME NEW c \in FieldCalls, NEW method \in {"PUT", "PATCH"}, NEW level \in Levels, NEW p \in Parties,
             NEW carried \in FieldBodies \cup {{}}, BeginFields(c, method, level, p, carried)
      PROVE  FieldsAreSound'
  BY <1>2, <1>4, BeginFieldsKeeps
<1>5. ASSUME NEW p \in Parties, GetLocation(p) \/ GetEvse(p) \/ GetConnector(p) PROVE FieldsAreSound'
  BY <1>2, <1>5, ShowsKeeps, PartiesAre DEF GetLocation, GetEvse, GetConnector
<1>6. ASSUME UNCHANGED fieldVars PROVE FieldsAreSound'
  <2>1. UNCHANGED <<fieldRows, fieldCall, records, fieldOverlap, fieldBroken>> /\ answer' = answer
    BY <1>6 DEF fieldVars
  <2>2. answer' \in [to : Parties \cup {"none"}, of : Parties \cup {"none"}] /\ ShownIsOwn'
    BY <1>2, <2>1 DEF FieldTypeOK, ShownIsOwn
  <2> QED BY <1>2, <2>1, <2>2, FieldsStayKeeps
<1>7. FieldsAreSound'
  BY <1>3, <1>4, <1>5, <1>6 DEF FieldNext
<1> QED BY <1>1, <1>7 DEF FieldIInv

LEMMA FieldsHold == FieldIInv => RowsOfOwnParty /\ ParentsFollow /\ FieldsKept
<1> SUFFICES ASSUME FieldIInv PROVE RowsOfOwnParty /\ ParentsFollow /\ FieldsKept
  OBVIOUS
<1>1. /\ FieldTypeOK /\ ColumnsHold /\ ShownIsOwn /\ FieldsKept /\ ParentsWillFollow
  BY DEF FieldIInv, FieldsAreSound
<1>2. RowsOfOwnParty
  BY <1>1 DEF RowsOfOwnParty, ColumnsHold, MayHold, ShownIsOwn
<1>3. ParentsFollow
  <2> SUFFICES ASSUME ~fieldOverlap, ~fieldBroken, \A c \in FieldCalls : FieldIdle(c), NEW p \in Parties
      PROVE  /\ fieldRows[p].updatedAt["location"] >= fieldRows[p].updatedAt["evse"]
             /\ fieldRows[p].updatedAt["evse"] >= fieldRows[p].updatedAt["connector"]
    BY DEF ParentsFollow
  <2>1. \A touch : ~WillTouch(p, touch)
    BY DEF WillTouch, Requests
  <2>2. IsOlder(p, "evse", "location") /\ IsOlder(p, "connector", "evse")
    BY <1>1, <2>1 DEF ParentsWillFollow
  <2>3. \A level \in Levels : fieldRows[p].updatedAt[level] \in Nat
    BY <1>1, UpdatedIsNat
  <2> QED BY <2>2, <2>3, PartiesAre DEF IsOlder
<1> QED BY <1>1, <1>2, <1>3

\* A received location, its EVSE and its connector hold what their own party has sent, or the
\* direct party's PUT of the same id; no column goes back to what an earlier call sent but the
\* opening times; and of calls one after the other that do not break off, the last change
\* shows in the last_updated of what it belongs to.
THEOREM FieldsStay == FieldSpec => [](FieldIInv /\ RowsOfOwnParty /\ ParentsFollow /\ FieldsKept)
<1>1. FieldInit => FieldIInv
  <2>1. FieldInit => IdleRequestNothing
    BY NoFieldCallIs DEF FieldInit, IdleRequestNothing, Doing
  <2> QED BY <2>1, FieldStarts DEF FieldIInv
<1> QED BY <1>1, FieldsStep, FieldsHold, PTL DEF FieldSpec

-----------------------------------------------------------------------------
(* The parts side by side *)

LEMMA LocationPartsStep ==
  [ReceivedNext]_receivedVars =>
    [LocationNext]_locationVars /\ [FieldNext]_fieldVars
<1>1. CASE Location
  BY <1>1 DEF Location
<1>2. CASE Fields
  BY <1>2 DEF Fields
<1>3. CASE Session
  BY <1>3 DEF Session
<1>4. CASE Tariff
  BY <1>4 DEF Tariff
<1>5. CASE OfItems
  BY <1>5 DEF OfItems
<1>6. CASE OfCredentials
  BY <1>6 DEF OfCredentials
<1>7. CASE OfParties
  BY <1>7 DEF OfParties
<1>8. CASE OfOnboarding
  BY <1>8 DEF OfOnboarding
<1>9. CASE OfCleanup
  BY <1>9 DEF OfCleanup
<1>10. CASE UNCHANGED receivedVars
  BY <1>10 DEF receivedVars
<1> QED BY <1>1, <1>2, <1>3, <1>4, <1>5, <1>6, <1>7, <1>8, <1>9, <1>10 DEF ReceivedNext

LEMMA ReceivedIsOfLocations == ReceivedSpec => LocationSpec /\ FieldSpec
<1>1. ReceivedInit => LocationInit /\ FieldInit
  BY DEF ReceivedInit
<1> QED BY <1>1, LocationPartsStep, PTL DEF ReceivedSpec, LocationSpec, FieldSpec

LEMMA ConjunctsOfReceived ==
  /\ OneOfEach /\ OneTariff /\ OneRowEach /\ OneRowPerParty /\ OneRoamingPartner => NoDuplicates
  /\ FullPullMirrors /\ PulledIsStored => PullsMirror
  /\ (/\ AloneStores /\ AlonePutStores /\ NeverLeftEmpty /\ FieldsKept /\ ParentsFollow
      /\ RowsAreKept /\ OnboardedAsTold /\ SweptIsGone /\ OthersStay /\ CountedOnce) => StoredAlone
  /\ (/\ LocationIInv /\ FieldIInv /\ RowsOfOwnParty /\ SessionIInv /\ TariffIInv /\ PartnerPullIInv
      /\ CredentialsIInv /\ PartyIInv /\ OnboardingIInv /\ CleanupIInv) => ReceivedIInv
BY DEF NoDuplicates, PullsMirror, StoredAlone, ReceivedIInv

\* All that the run of MCReceived checks of the parts besides periods and connections, for any
\* calls, bodies, items, parties and tables: the nine inductive invariants and what follows.
LEMMA ReceivedIsStored ==
  ReceivedSpec => []ReceivedIInv /\ []NoDuplicates /\ []StoredAlone /\ []PullsMirror
<1>1. TariffIInv => AlonePutStores /\ NeverLeftEmpty
  BY DEF TariffIInv
<1>2. PartyIInv => OneRowPerParty
  BY DEF PartyIInv
<1>3. ReceivedSpec => [](LocationIInv /\ OneOfEach /\ AloneStores /\ FullPullMirrors)
  BY ReceivedIsOfLocations, LocationStays, PTL
<1>4. ReceivedSpec => [](FieldIInv /\ RowsOfOwnParty /\ ParentsFollow /\ FieldsKept)
  BY ReceivedIsOfLocations, FieldsStay, PTL
<1>5. ReceivedSpec => [](PartnerPullIInv /\ PulledIsStored /\ OneRowEach)
  BY ReceivedIsItsParts, ListsArePulled, PTL
<1>6. ReceivedSpec => [](OnboardingIInv /\ OneRoamingPartner /\ OnboardedAsTold)
  BY ReceivedIsItsParts, PartnersAreOnboarded, PTL
<1>7. ReceivedSpec => [](CleanupIInv /\ SweptIsGone /\ OthersStay /\ CountedOnce)
  BY ReceivedIsItsParts, ScriptsSweep, PTL
<1>8. ReceivedSpec => [](SessionIInv /\ TariffIInv /\ OneTariff /\ CredentialsIInv)
  BY ReceivedIsItsParts, SessionPeriodsStay, TariffsAreStored, CredentialsSurvive, PTL
<1>9. ReceivedSpec => [](PartyIInv /\ RowsAreKept)
  BY ReceivedIsItsParts, PartiesKeepTheirRows, PTL
<1> QED BY <1>1, <1>2, <1>3, <1>4, <1>5, <1>6, <1>7, <1>8, <1>9, ConjunctsOfReceived, PTL

\* Rows have their parents, a call in its middle has found or made the rows it writes to, and what
\* is refused as known is there under the party it is of, whatever overlaps, fails or is repeated.
THEOREM ReceivedInvariant == ReceivedSpec => []ReceivedIInv
BY ReceivedIsStored, PTL

\* findThenUpsert and its like leave one row for each station, EVSE, tariff, session, CDR, party
\* and roaming partner, as far as calls do not overlap or a unique key keeps their rows apart.
THEOREM NothingIsDoubled == ReceivedSpec => []NoDuplicates
BY ReceivedIsStored, PTL

\* What a call stored alone, or a party was told is stored, is there as it was sent, and stays
\* there beside the calls of other parties and the scripts that remove a partner's rows.
THEOREM WhatIsToldIsStored == ReceivedSpec => []StoredAlone
BY ReceivedIsStored, PTL

\* A pull without failures, its pages turned while the partner's list changes, leaves the item of
\* the locations as it was listed, and stores every tariff, session or CDR listed throughout.
THEOREM PullsLeaveTheList == ReceivedSpec => []PullsMirror
BY ReceivedIsStored, PTL
=============================================================================
