--------------------------- MODULE ReceivedLocation ---------------------------
(***************************************************************************)
(* One location of a partner as LocationReceiverService stores it: a row,  *)
(* the virtual charging station that is made for it, one row per EVSE and  *)
(* station, one connector per EVSE and its links to tariffs.  PUTs, the    *)
(* PATCHes of EVSE and connector and the items of a pull interleave, every *)
(* request to the database is a step, and any step may be the last.        *)
(***************************************************************************)
EXTENDS Naturals, Sequences, FiniteSets

CONSTANTS Uids, Tariffs,
          LocationCalls,  \* bound: calls under way at a time
          MaxStarts,      \* bound: calls that ever begin
          Bodies          \* sequences of EVSEs, what a call may carry; a location need not have any

Stations == 1..MaxStarts   \* known by the order of their creation
Kinds == {"location", "evse", "connector", "patch evse", "patch connector", "full pull", "pull"}

\* An EVSE of a body, with its connector or without.
EvseBodies == [uid : Uids, status : {"AVAILABLE", "REMOVED"}, connector : BOOLEAN,
               tariffs : SUBSET Tariffs]

ASSUME LocationAssumption ==
    /\ MaxStarts \in Nat /\ IsFiniteSet(LocationCalls)
    /\ \A body \in Bodies : /\ body \in Seq(EvseBodies)
                            /\ \A i, j \in DOMAIN body : body[i].uid = body[j].uid => i = j

VARIABLES locationRow,   \* removed: its deletedAt is set
          stations,      \* the stations of the location
          evses,         \* evses[s][u]: the row of EVSE u at station s
          knownTariffs,  \* the partner's tariffs that are stored
          locationCall,  \* a call's position and local variables
          starts,        \* calls begun so far
          overlapped,    \* history: two calls have been under way together
          hidden,        \* history: what was marked when the call began that is alone
          done           \* history: the call that has just ended, all its steps taken

rowVars == <<locationRow, stations, evses, knownTariffs>>
locationVars == <<locationRow, stations, evses, knownTariffs, locationCall, starts, overlapped, hidden, done>>

Places == {"idle", "find", "insert", "update", "station", "create", "evse", "connector", "unlink",
           "link", "patch", "patch fields", "mark location", "read", "mark"}

NoEvse == [status |-> "none", connector |-> "none", links |-> [t \in Tariffs |-> 0]]
NoCall == [kind |-> "none", at |-> "idle", body |-> <<>>, i |-> 1, station |-> 0,
           left |-> {}, marks |-> {}, alone |-> FALSE]

EvseType == [status : {"none", "AVAILABLE", "REMOVED"}, connector : {"none", "there", "deleted"},
             links : [Tariffs -> Nat]]
Marks == {"evse", "connector"} \X Stations \X Uids   \* a row that is to be marked
CallType == [kind : Kinds \cup {"none"}, at : Places, body : Bodies \cup {<<>>}, i : Nat,
             station : Stations \cup {0}, left : SUBSET Tariffs, marks : SUBSET Marks, alone : BOOLEAN]

NothingHidden == [location |-> FALSE, connectors |-> {}]
HiddenNow == [location |-> locationRow = "removed",
              connectors |-> {r \in Stations \X Uids : evses[r[1]][r[2]].connector = "deleted"}]

LocationTypeOK ==
    /\ locationRow \in {"absent", "visible", "removed"}
    /\ stations \subseteq Stations /\ knownTariffs \subseteq Tariffs
    /\ evses \in [Stations -> [Uids -> EvseType]]
    /\ locationCall \in [LocationCalls -> CallType] /\ done \in CallType
    /\ starts \in 0..MaxStarts /\ overlapped \in BOOLEAN
    /\ hidden \in [location : BOOLEAN, connectors : SUBSET (Stations \X Uids)]

LocationInit ==
    /\ locationRow = "absent" /\ stations = {} /\ knownTariffs \in SUBSET Tariffs
    /\ evses = [s \in Stations |-> [u \in Uids |-> NoEvse]]
    /\ locationCall = [c \in LocationCalls |-> NoCall]
    /\ starts = 0 /\ overlapped = FALSE /\ hidden = NothingHidden /\ done = NoCall
-----------------------------------------------------------------------------
(* Calls *)

Call(c) == locationCall[c]
Now(c) == Call(c).body[Call(c).i]            \* the EVSE that the call is at
RowOf(c) == evses[Call(c).station][Now(c).uid]
Writes(c, row) == evses' = [evses EXCEPT ![Call(c).station][Now(c).uid] = row]

GoesTo(c, at) == /\ locationCall' = [locationCall EXCEPT ![c].at = at]
                 /\ UNCHANGED <<starts, overlapped, hidden, done>>
GoesToStation(c, s, at) == /\ locationCall' = [locationCall EXCEPT ![c].at = at, ![c].station = s]
                           /\ UNCHANGED <<starts, overlapped, hidden, done>>
HasLeft(c, left, at) == /\ locationCall' = [locationCall EXCEPT ![c].at = at, ![c].left = left]
                        /\ UNCHANGED <<starts, overlapped, hidden, done>>
HasMarks(c, marks) == /\ locationCall' = [locationCall EXCEPT ![c].at = "mark", ![c].marks = marks]
                      /\ UNCHANGED <<starts, overlapped, hidden, done>>
GivesUp(c) == /\ locationCall' = [locationCall EXCEPT ![c] = NoCall]
              /\ UNCHANGED <<starts, overlapped, hidden, done>>
Completes(c) == /\ locationCall' = [locationCall EXCEPT ![c] = NoCall]
                /\ done' = Call(c)
                /\ UNCHANGED <<starts, overlapped, hidden>>

\* The body is written, at this station.
EndsBody(c, s) == CASE Call(c).kind = "full pull" -> GoesToStation(c, s, "read")
                    [] Call(c).kind = "pull" -> GoesToStation(c, s, "mark location")
                    [] OTHER -> Completes(c)

\* The EVSE is written: the next of the body, or the end of it.
NextEvse(c) ==
    IF Call(c).i < Len(Call(c).body)
    THEN /\ locationCall' = [locationCall EXCEPT ![c].i = @ + 1, ![c].at = "evse"]
         /\ UNCHANGED <<starts, overlapped, hidden, done>>
    ELSE EndsBody(c, Call(c).station)

\* The first EVSE of the body, if it has any.
FirstEvse(c, s) == IF Call(c).body = <<>> THEN EndsBody(c, s) ELSE GoesToStation(c, s, "evse")

Begin(c, kind, body) ==
    LET others == {d \in LocationCalls \ {c} : Call(d).at # "idle"}
    IN  /\ Call(c).at = "idle" /\ starts < MaxStarts
        /\ kind \notin {"location", "full pull", "pull"} => Len(body) = 1
        /\ kind \in {"connector", "patch connector"} => body[1].connector
        /\ starts' = starts + 1 /\ overlapped' = (overlapped \/ others # {}) /\ done' = NoCall
        /\ locationCall' = [d \in LocationCalls |->
             IF d = c
             THEN [NoCall EXCEPT !.kind = kind, !.at = "find", !.body = body, !.alone = others = {}]
             ELSE [Call(d) EXCEPT !.alone = FALSE]]
        /\ hidden' = IF others = {} THEN HiddenNow ELSE NothingHidden
        /\ UNCHANGED rowVars

\* A request fails, an exception ends the call, or the process does.
CallBreaks(c) == Call(c).at # "idle" /\ GivesUp(c) /\ UNCHANGED rowVars

TariffArrives(t) ==
    /\ t \notin knownTariffs
    /\ knownTariffs' = knownTariffs \cup {t}
    /\ UNCHANGED <<locationRow, stations, evses, locationCall, starts, overlapped, hidden, done>>
-----------------------------------------------------------------------------
(* upsertLocationForPartner *)

\* Mutant: a location that is not stored is not inserted.
FindLocationOnly(c) ==
    /\ Call(c).at = "find" /\ Call(c).kind \in {"location", "full pull", "pull"}
    /\ GoesTo(c, IF locationRow = "absent" THEN "station" ELSE "update")
    /\ UNCHANGED rowVars

FindLocation(c) ==
    /\ Call(c).at = "find" /\ Call(c).kind \in {"location", "full pull", "pull"}
    /\ GoesTo(c, IF locationRow = "absent" THEN "insert" ELSE "update")
    /\ UNCHANGED rowVars

\* The location is unique per partner: a second insert is refused.
InsertLocation(c) ==
    /\ Call(c).at = "insert"
    /\ IF locationRow = "absent"
       THEN locationRow' = "visible" /\ GoesTo(c, "station")
       ELSE GivesUp(c) /\ UNCHANGED locationRow
    /\ UNCHANGED <<stations, evses, knownTariffs>>

\* The update sets every column but deletedAt.
UpdateLocation(c) == Call(c).at = "update" /\ GoesTo(c, "station") /\ UNCHANGED rowVars

\* Mutant: a station is made whenever the location is stored.
FindStationNever(c) == Call(c).at = "station" /\ GoesTo(c, "create") /\ UNCHANGED rowVars

\* The query has no order: any station may be the first.
FindStation(c) ==
    /\ Call(c).at = "station"
    /\ IF stations = {} THEN GoesTo(c, "create") ELSE \E s \in stations : FirstEvse(c, s)
    /\ UNCHANGED rowVars

\* A virtual station, under a random id.
CreateStation(c) ==
    /\ Call(c).at = "create"
    /\ LET s == Cardinality(stations) + 1
       IN  stations' = stations \cup {s} /\ FirstEvse(c, s)
    /\ UNCHANGED <<locationRow, evses, knownTariffs>>

\* On the conflict of uid and station the row is updated.
UpsertEvse(c) ==
    /\ Call(c).at = "evse"
    /\ Writes(c, [RowOf(c) EXCEPT !.status = Now(c).status])
    /\ IF Now(c).connector THEN GoesTo(c, "connector") ELSE NextEvse(c)
    /\ UNCHANGED <<locationRow, stations, knownTariffs>>

\* The columns that are updated do not include deletedAt either.
UpsertConnector(c) ==
    /\ Call(c).at = "connector"
    /\ Writes(c, [RowOf(c) EXCEPT !.connector = IF @ = "none" THEN "there" ELSE @])
    /\ GoesTo(c, "unlink")
    /\ UNCHANGED <<locationRow, stations, knownTariffs>>

\* Mutant: the links to the tariffs are only added to.
UnlinkNothing(c) ==
    /\ Call(c).at = "unlink"
    /\ IF Now(c).tariffs = {} THEN NextEvse(c) ELSE HasLeft(c, Now(c).tariffs, "link")
    /\ UNCHANGED rowVars

UnlinkTariffs(c) ==
    /\ Call(c).at = "unlink"
    /\ Writes(c, [RowOf(c) EXCEPT !.links = NoEvse.links])
    /\ IF Now(c).tariffs = {} THEN NextEvse(c) ELSE HasLeft(c, Now(c).tariffs, "link")
    /\ UNCHANGED <<locationRow, stations, knownTariffs>>

\* One by one, in the order of the body; nothing prevents a second link to a tariff.
LinkTariff(c, t) ==
    /\ Call(c).at = "link" /\ t \in Call(c).left \cap knownTariffs
    /\ Writes(c, [RowOf(c) EXCEPT !.links[t] = @ + 1])
    /\ IF Call(c).left = {t} THEN NextEvse(c) ELSE HasLeft(c, Call(c).left \ {t}, "link")
    /\ UNCHANGED <<locationRow, stations, knownTariffs>>

\* "Tariff not found": the call throws, and writes none of what is left.
TariffUnknown(c) == /\ Call(c).at = "link" /\ ~(Call(c).left \subseteq knownTariffs)
                    /\ GivesUp(c) /\ UNCHANGED rowVars
-----------------------------------------------------------------------------
(* The calls on one EVSE or connector *)

\* The location is read with its stations, and the first of them is taken.
FindForEvse(c) ==
    /\ Call(c).at = "find" /\ Call(c).kind = "evse"
    /\ CASE locationRow = "absent" -> GivesUp(c)
         [] locationRow # "absent" /\ stations = {} -> GoesTo(c, "create")
         [] OTHER -> \E s \in stations : FirstEvse(c, s)
    /\ UNCHANGED rowVars

\* The EVSE is looked for at all stations.
FindForConnector(c) ==
    /\ Call(c).at = "find" /\ Call(c).kind = "connector"
    /\ LET found == {s \in stations : evses[s][Now(c).uid].status # "none"}
       IN  IF found = {} THEN GivesUp(c) ELSE \E s \in found : GoesToStation(c, s, "connector")
    /\ UNCHANGED rowVars

\* The PATCHes look at the first station only.
FindToPatch(c) ==
    /\ Call(c).at = "find" /\ Call(c).kind \in {"patch evse", "patch connector"}
    /\ \/ stations = {} /\ GivesUp(c)
       \/ \E s \in stations :
            LET row == evses[s][Now(c).uid]
            IN  IF row.status = "none" \/ (Call(c).kind = "patch connector" /\ row.connector = "none")
                THEN GivesUp(c)
                ELSE GoesToStation(c, s, IF Call(c).kind = "patch evse" THEN "patch" ELSE "patch fields")
    /\ UNCHANGED rowVars

PatchEvse(c) ==
    /\ Call(c).at = "patch"
    /\ Writes(c, [RowOf(c) EXCEPT !.status = Now(c).status])
    /\ Completes(c)
    /\ UNCHANGED <<locationRow, stations, knownTariffs>>

\* The links are replaced only by a list that is not empty.
PatchConnector(c) ==
    /\ Call(c).at = "patch fields"
    /\ IF Now(c).tariffs = {} THEN Completes(c) ELSE GoesTo(c, "unlink")
    /\ UNCHANGED rowVars
-----------------------------------------------------------------------------
(* What a pull does after the upsert *)

\* Mutant: a location without EVSEs is taken for one of which every EVSE is removed.
NoneIsLeft(body) == \A i \in DOMAIN body : body[i].status = "REMOVED"
AllRemoved(body) == body # <<>> /\ \A i \in DOMAIN body : body[i].status = "REMOVED"

\* Outside full mode a location that has EVSEs, every one of them removed, is marked.
MarkLocation(c) ==
    /\ Call(c).at = "mark location"
    /\ locationRow' = IF AllRemoved(Call(c).body) THEN "removed" ELSE locationRow
    /\ GoesTo(c, "read")
    /\ UNCHANGED <<stations, evses, knownTariffs>>

InBody(c, u) == \E i \in DOMAIN Call(c).body : Call(c).body[i].uid = u
ConnectorInBody(c, u) == \E i \in DOMAIN Call(c).body : Call(c).body[i].uid = u /\ Call(c).body[i].connector

\* Mutant: only the station that was written is reconciled.
UnlistedAtStation(c) ==
    LET stored == {r \in {Call(c).station} \X Uids : evses[r[1]][r[2]].status # "none"}
        gone == {r \in stored : Call(c).kind = "full pull" /\ ~InBody(c, r[2])}
    IN  {<<"evse", r[1], r[2]>> : r \in gone} \cup
        {<<"connector", r[1], r[2]>> : r \in
            {r \in stored \ gone : evses[r[1]][r[2]].connector = "there" /\ ~ConnectorInBody(c, r[2])}}

Unlisted(c) ==
    LET stored == {r \in stations \X Uids : evses[r[1]][r[2]].status # "none"}
        gone == {r \in stored : Call(c).kind = "full pull" /\ ~InBody(c, r[2])}
    IN  {<<"evse", r[1], r[2]>> : r \in gone} \cup
        {<<"connector", r[1], r[2]>> : r \in
            {r \in stored \ gone : evses[r[1]][r[2]].connector = "there" /\ ~ConnectorInBody(c, r[2])}}

\* reconcileEvsesForLocation reads all rows and then marks one after the other.
ReadRows(c) ==
    /\ Call(c).at = "read"
    /\ IF Unlisted(c) = {} THEN Completes(c) ELSE HasMarks(c, Unlisted(c))
    /\ UNCHANGED rowVars

Mark(c, mark) ==
    /\ Call(c).at = "mark" /\ mark \in Call(c).marks
    /\ LET row == evses[mark[2]][mark[3]]
       IN  evses' = [evses EXCEPT ![mark[2]][mark[3]] =
                       IF mark[1] = "evse" THEN [row EXCEPT !.status = "REMOVED"]
                       ELSE [row EXCEPT !.connector = "deleted"]]
    /\ IF Call(c).marks = {mark} THEN Completes(c) ELSE HasMarks(c, Call(c).marks \ {mark})
    /\ UNCHANGED <<locationRow, stations, knownTariffs>>
-----------------------------------------------------------------------------
LocationStep(c) ==
    \/ FindLocation(c) \/ InsertLocation(c) \/ UpdateLocation(c)
    \/ FindStation(c) \/ CreateStation(c) \/ UpsertEvse(c) \/ UpsertConnector(c)
    \/ UnlinkTariffs(c) \/ TariffUnknown(c) \/ \E t \in Tariffs : LinkTariff(c, t)
    \/ FindForEvse(c) \/ FindForConnector(c) \/ FindToPatch(c) \/ PatchEvse(c) \/ PatchConnector(c)
    \/ MarkLocation(c) \/ ReadRows(c) \/ \E mark \in Call(c).marks : Mark(c, mark)

LocationNext ==
    \/ \E c \in LocationCalls : \/ LocationStep(c) \/ CallBreaks(c)
                                \/ \E kind \in Kinds, body \in Bodies : Begin(c, kind, body)
    \/ \E t \in Tariffs : TariffArrives(t)

LocationSpec == LocationInit /\ [][LocationNext]_locationVars
-----------------------------------------------------------------------------
(* Properties *)

\* A location has one virtual station, an EVSE therefore one row, and a connector one link
\* per tariff, however many calls were broken off and repeated, as long as no two overlap.
OneOfEach == ~overlapped => /\ Cardinality(stations) <= 1
                            /\ \A s \in Stations, u \in Uids, t \in Tariffs : evses[s][u].links[t] <= 1

StatusesOf(body) == {body[i].status : i \in DOMAIN body}

\* A PUT, or the item of a pull, that ends and was alone has stored its body, whatever calls
\* that broke off or overlapped had left: status, connector and exactly the tariffs named.  It is
\* shown unless it was marked before: no upsert clears deletedAt, so a connector and a location
\* once marked stay hidden when they are sent again.  A location is marked now only by a pull, of
\* one that has EVSEs and all of them removed.
AloneStores ==
    done.alone /\ done.kind \in {"location", "evse", "full pull", "pull"} =>
      /\ locationRow = IF hidden.location \/ (done.kind = "pull" /\ StatusesOf(done.body) = {"REMOVED"})
                       THEN "removed" ELSE "visible"
      /\ \A i \in DOMAIN done.body :
           LET evse == done.body[i]
               row == evses[done.station][evse.uid]
           IN  /\ row.status = evse.status
               /\ evse.connector =>
                    /\ row.connector = IF <<done.station, evse.uid>> \in hidden.connectors
                                       THEN "deleted" ELSE "there"
                    /\ \A t \in Tariffs : row.links[t] = IF t \in evse.tariffs THEN 1 ELSE 0

\* After a full pull's item that was alone no EVSE is shown that the partner did not list,
\* at any of the stations that overlapping calls have made, and no connector either.
FullPullMirrors ==
    done.alone /\ done.kind = "full pull" =>
      \A s \in stations, u \in Uids :
        LET listed == {i \in DOMAIN done.body : done.body[i].uid = u}
        IN  /\ listed = {} => evses[s][u].status \in {"none", "REMOVED"}
            /\ \A i \in listed : evses[s][u].connector = "there" => done.body[i].connector
-----------------------------------------------------------------------------
\* The inductive invariant of the properties

LocationIdle(c) == Call(c).at = "idle"
Whole == {"location", "full pull", "pull"}   \* calls that carry a location
Storing == {"evse", "connector", "unlink", "link"}
Ending == {"mark location", "read", "mark"}

\* The rows hang together after every step, so that a call may break off at any: no station
\* without its location, no EVSE without a station, no connector without an EVSE, no link
\* without a connector.
RowsAreWhole ==
    /\ stations # {} => locationRow # "absent"
    /\ \A s \in Stations : \A u \in Uids :
         /\ evses[s][u].status # "none" => s \in stations
         /\ evses[s][u].connector # "none" => evses[s][u].status # "none"
         /\ evses[s][u].links # NoEvse.links => evses[s][u].connector # "none"

\* A call is where its kind gets to, and knows the rows that it writes to.
CallIsPlaced(c) ==
    /\ Call(c).kind \in Kinds /\ Call(c).body \in Bodies /\ Call(c).i \in DOMAIN Call(c).body \cup {1}
    /\ Call(c).at \in Storing \cup {"patch", "patch fields"} => Call(c).body # <<>>
    /\ Call(c).kind \notin Whole => Len(Call(c).body) = 1
    /\ Call(c).kind \in {"connector", "patch connector"} => Call(c).body[1].connector
    /\ Call(c).at \in {"insert", "update", "station"} => Call(c).kind \in Whole
    /\ Call(c).at \in {"create", "evse"} => Call(c).kind \in Whole \cup {"evse"}
    /\ Call(c).at \in Ending => Call(c).kind \in {"full pull", "pull"}
    /\ Call(c).at = "mark location" => Call(c).kind = "pull"
    /\ Call(c).at = "patch" => Call(c).kind = "patch evse"
    /\ Call(c).at = "patch fields" => Call(c).kind = "patch connector"
    /\ Call(c).at \in {"find", "insert", "update", "station", "create"} => Call(c).i = 1
    /\ Call(c).at \in {"connector", "unlink", "link"} => Now(c).connector
    /\ Call(c).at = "link" => Call(c).left \subseteq Now(c).tariffs /\ Call(c).left # {}
CallIsGrounded(c) ==
    /\ Call(c).at \in {"update", "station", "create"} => locationRow # "absent"
    /\ Call(c).at \in Storing \cup {"patch", "patch fields"} \cup Ending => Call(c).station \in stations
    /\ Call(c).at = "connector" => RowOf(c).status # "none"
    /\ Call(c).at \in {"unlink", "link", "patch fields"} => RowOf(c).connector # "none"
    /\ Call(c).at = "mark" => \A mark \in Call(c).marks :
         mark[2] \in stations /\ evses[mark[2]][mark[3]].status # "none"
LocationCallsAreSound == \A c \in LocationCalls : ~LocationIdle(c) => CallIsPlaced(c) /\ CallIsGrounded(c)

\* Each call makes at most one station.
MayMake(c) == Call(c).at \in {"find", "insert", "update", "station", "create"}
StationsAreCounted ==
    /\ stations = 1..Cardinality(stations)
    /\ Cardinality(stations) + Cardinality({c \in LocationCalls : MayMake(c)}) <= starts

\* A call that began alone is alone, and without an overlap there is one at most.
AloneAreAlone ==
    /\ \A c \in LocationCalls : Call(c).alone => ~LocationIdle(c) /\ \A d \in LocationCalls : d # c => LocationIdle(d)
    /\ ~overlapped => \A c \in LocationCalls : \A d \in LocationCalls : ~LocationIdle(c) /\ ~LocationIdle(d) => c = d
    /\ done.alone => \A c \in LocationCalls : LocationIdle(c)

\* Without an overlap a station is made when there is none, and a link when there is none.
OnceAtATime ==
    ~overlapped =>
      /\ Cardinality(stations) <= 1
      /\ \A s \in Stations : \A u \in Uids : \A t \in Tariffs : evses[s][u].links[t] <= 1
      /\ \A c \in LocationCalls :
           /\ Call(c).at = "create" => stations = {}
           /\ Call(c).at = "link" => \A t \in Call(c).left : RowOf(c).links[t] = 0

\* A row is as an EVSE of a body has it.
HoldsEvse(row, evse) ==
    /\ row.status = evse.status
    /\ evse.connector => /\ row.connector # "none"
                          /\ \A t \in Tariffs : row.links[t] = IF t \in evse.tariffs THEN 1 ELSE 0
StoredUpTo(c, n) == \A j \in 1..n : HoldsEvse(evses[Call(c).station][Call(c).body[j].uid], Call(c).body[j])
StoresAlone(c) ==
    Call(c).alone /\ Call(c).kind \in Whole \cup {"evse"} =>
      /\ Call(c).at \in Storing => StoredUpTo(c, Call(c).i - 1)
      /\ Call(c).at \in Ending => StoredUpTo(c, Len(Call(c).body))
      /\ Call(c).at \in {"connector", "unlink", "link"} => RowOf(c).status = Now(c).status
      /\ Call(c).at = "link" =>
           \A t \in Tariffs : RowOf(c).links[t] = IF t \in Now(c).tariffs \ Call(c).left THEN 1 ELSE 0

\* What is to be marked is not of the body; what is not marked yet will be.
MarksAreUnlisted(c) ==
    Call(c).at = "mark" => \A mark \in Call(c).marks :
      IF mark[1] = "evse" THEN Call(c).kind = "full pull" /\ ~InBody(c, mark[3])
      ELSE ~ConnectorInBody(c, mark[3])
UnlistedAreMarked(c) ==
    Call(c).alone /\ Call(c).kind = "full pull" /\ Call(c).at = "mark" =>
      \A s \in stations : \A u \in Uids :
        /\ ~InBody(c, u) => evses[s][u].status \in {"none", "REMOVED"} \/ <<"evse", s, u>> \in Call(c).marks
        /\ InBody(c, u) /\ ~ConnectorInBody(c, u) =>
             evses[s][u].connector # "there" \/ <<"connector", s, u>> \in Call(c).marks
CallsStore == \A c \in LocationCalls : StoresAlone(c) /\ MarksAreUnlisted(c) /\ UnlistedAreMarked(c)

\* What a call that was alone has stored, hidden or not.
AloneHolds == done.alone /\ done.kind \in Whole \cup {"evse"} =>
    \A i \in DOMAIN done.body : HoldsEvse(evses[done.station][done.body[i].uid], done.body[i])
StoredIInv == /\ LocationTypeOK /\ RowsAreWhole /\ LocationCallsAreSound /\ StationsAreCounted
              /\ AloneAreAlone /\ OnceAtATime /\ CallsStore /\ AloneHolds /\ FullPullMirrors

\* What is marked now was marked when the call that is alone began, or that call has marked it.
HidesNoMore(call) ==
    call.alone =>
      /\ \A r \in hidden.connectors : evses[r[1]][r[2]].connector = "deleted"
      /\ \A s \in Stations : \A u \in Uids : evses[s][u].connector = "deleted" =>
           \/ <<s, u>> \in hidden.connectors
           \/ ~\E i \in DOMAIN call.body : call.body[i].uid = u /\ call.body[i].connector
      /\ locationRow = "removed" <=>
           \/ hidden.location
           \/ call.kind = "pull" /\ AllRemoved(call.body) /\ call.at \in {"read", "mark"}

\* A call that ends has its location and station, and a pull that ends is past the marking.
EndsPlaced(call) == call.alone => /\ locationRow # "absent" /\ call.body \in Bodies
                                  /\ call.body # <<>> => call.station \in Stations
                                  /\ call.kind = "pull" => call.at \in {"read", "mark"}

HiddenIInv == EndsPlaced(done) /\ HidesNoMore(done) /\ \A c \in LocationCalls : HidesNoMore(Call(c))
LocationIInv == StoredIInv /\ HiddenIInv
=============================================================================
