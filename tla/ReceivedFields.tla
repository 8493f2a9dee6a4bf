---------------------------- MODULE ReceivedFields ----------------------------
(***************************************************************************)
(* The columns of a received location, its EVSE and its connector: what    *)
(* PUT, PATCH and GET make of the fields of a body, under two parties of   *)
(* one partner, the direct one and a roaming one, that use the same ids.   *)
(* ReceivedLocation has the rows themselves and the links to tariffs.      *)
(***************************************************************************)
EXTENDS Naturals, Sequences

CONSTANTS FieldCalls,      \* bound: calls under way at a time
          MaxFieldCalls,   \* bound: calls that ever begin, known by their order
          FieldBodies      \* the location columns that a body may carry

Parties == {"direct", "roaming"}
Levels == {"location", "evse", "connector"}
LocationColumns == {"name", "state", "regular hours", "exceptional hours"}
Hours == {"regular hours", "exceptional hours"}   \* keys of the one column openingHours
Columns == LocationColumns \cup {"status", "format"}
LevelOf(col) == CASE col = "status" -> "evse"
                  [] col = "format" -> "connector"
                  [] OTHER -> "location"

ASSUME FieldAssumption == /\ MaxFieldCalls \in Nat
                          /\ FieldBodies \subseteq (SUBSET LocationColumns)

VARIABLES fieldRows,   \* per party: which levels have a row, their columns and updatedAt
          fieldCall,   \* a call's position and local variables
          records,     \* history: of the calls begun, in order
          fieldOverlap, fieldBroken,  \* history: calls have overlapped, one has broken off
          answer       \* the GET just answered: the party asking and that of the row shown

fieldVars == <<fieldRows, fieldCall, records, fieldOverlap, fieldBroken, answer>>

\* A column holds a value, known by the call that sent it, or null (set is FALSE); "by" is
\* the call that wrote it, 0 an earlier one.
Unwritten == [set |-> FALSE, by |-> 0]
NothingReceived == [there |-> {}, columns |-> [col \in Columns |-> Unwritten],
          updatedAt |-> [level \in Levels |-> 0]]
NoFieldCall == [n |-> 0, method |-> "none", level |-> "location", party |-> "direct",
                carried |-> {}, row |-> "none", hours |-> <<>>, todo |-> <<>>]
NoAnswer == [to |-> "none", of |-> "none"]

\* Of either party the three rows are there from earlier calls, or none.
FieldInit == /\ fieldRows \in [Parties -> {NothingReceived, [NothingReceived EXCEPT !.there = Levels]}]
             /\ fieldCall = [c \in FieldCalls |-> NoFieldCall]
             /\ records = <<>> /\ fieldOverlap = FALSE /\ fieldBroken = FALSE
             /\ answer = NoAnswer
-----------------------------------------------------------------------------
(* The queries *)

\* The location by its OCPI id and the partner, as GET and PUT look it up for the direct
\* party: nothing is asked of roamingPartnerId, so the roaming party's row is found too.
DirectLocations == {p \in Parties : "location" \in fieldRows[p].there}
DirectEvses == {p \in Parties : "evse" \in fieldRows[p].there}
DirectConnectors == {p \in Parties : "connector" \in fieldRows[p].there}

\* Mutant: a roaming party's query does without the id.
RoamingLocationsOfAll == DirectLocations

\* With the roaming partner's id only its own are.
RoamingLocations == DirectLocations \ {"direct"}
RoamingEvses == DirectEvses \ {"direct"}
RoamingConnectors == DirectConnectors \ {"direct"}

\* What GET and PUT find of a party, and the direct party's queries for a PATCH, which ask for
\* a null roamingPartnerId.
FoundRows(p, level) ==
    CASE level = "location" -> IF p = "direct" THEN DirectLocations ELSE RoamingLocations
      [] level = "evse" -> IF p = "direct" THEN DirectEvses ELSE RoamingEvses
      [] level = "connector" -> IF p = "direct" THEN DirectConnectors ELSE RoamingConnectors
FoundRowsToPatch(p, level) == FoundRows(p, level) \cap {p}
-----------------------------------------------------------------------------
(* The columns that a request writes *)

Doing(c) == fieldCall[c]
Sets(old, c) == [set |-> TRUE, by |-> Doing(c).n]
Nulls(old, c) == [set |-> FALSE, by |-> Doing(c).n]

\* A PUT sets each column of the level, to null what the body does not carry (`?? null`),
\* except the name: as undefined it is left out of the request.
PutColumns(c, level) ==
    [col \in Columns |->
       LET old == fieldRows[Doing(c).row].columns[col]
       IN  IF LevelOf(col) # level THEN old
           ELSE IF level # "location" \/ col \in Doing(c).carried THEN Sets(old, c)
           ELSE IF col = "name" THEN old ELSE Nulls(old, c)]

\* Mutant: what a PATCH leaves out becomes null.
MapLocationPatchRest(c) ==
    [col \in Columns |->
       LET old == fieldRows[Doing(c).row].columns[col]
       IN  IF col \in Doing(c).carried THEN Sets(old, c)
           ELSE IF col \in Hours /\ Doing(c).carried \cap Hours # {} THEN Doing(c).hours[col]
           ELSE IF col \in LocationColumns THEN Unwritten ELSE old]

\* A PATCH sets what it carries.  The opening times are one column: theirs are merged, key by
\* key, into what was read before.
MapLocationPatch(c) ==
    [col \in Columns |->
       LET old == fieldRows[Doing(c).row].columns[col]
       IN  IF col \in Doing(c).carried THEN Sets(old, c)
           ELSE IF col \in Hours /\ Doing(c).carried \cap Hours # {} THEN Doing(c).hours[col]
           ELSE old]
MapEvsePatch(c) == [fieldRows[Doing(c).row].columns EXCEPT !["status"] = Sets(@, c)]
MapConnectorPatch(c) == [fieldRows[Doing(c).row].columns EXCEPT !["format"] = Sets(@, c)]

PatchColumns(c, level) == CASE level = "location" -> MapLocationPatch(c)
                            [] level = "evse" -> MapEvsePatch(c)
                            [] level = "connector" -> MapConnectorPatch(c)
-----------------------------------------------------------------------------
(* Calls *)

FieldIdle(c) == Doing(c).method = "none"

\* The requests of a call that write, in their order: the body's rows, then updatedAt of what
\* the row belongs to.
TodoOf(method, level) ==
    CASE level = "location" -> IF method = "PUT" THEN <<"location", "evse", "connector">>
                               ELSE <<"location">>
      [] level = "evse" -> IF method = "PUT" THEN <<"evse", "connector", "touch location">>
                           ELSE <<"evse", "touch location">>
      [] level = "connector" -> <<"connector", "touch evse", "touch location">>

BeginFields(c, method, level, p, carried) ==
    LET n == Len(records) + 1
    IN  /\ FieldIdle(c) /\ n <= MaxFieldCalls
        /\ (level = "location") = (carried # {})
        /\ fieldCall' = [fieldCall EXCEPT ![c] =
             [NoFieldCall EXCEPT !.n = n, !.method = method, !.level = level, !.party = p,
                                 !.carried = carried]]
        /\ records' = Append(records, [method |-> method, party |-> p, wrote |-> {},
                                       before |-> {m \in 1..(n - 1) : records[m].wrote # {}}])
        /\ fieldOverlap' = (fieldOverlap \/ \E d \in FieldCalls : ~FieldIdle(d))
        /\ answer' = NoAnswer /\ UNCHANGED <<fieldRows, fieldBroken>>

EndsFields(c) == fieldCall' = [fieldCall EXCEPT ![c] = NoFieldCall]
RowsStay == UNCHANGED <<fieldRows, records, fieldOverlap>> /\ answer' = NoAnswer

GoesOnWith(c, row, todo) ==
    fieldCall' = [fieldCall EXCEPT ![c].row = row, ![c].todo = todo,
                                   ![c].hours = [h \in Hours |-> fieldRows[row].columns[h]]]
Inserting == <<"insert", "evse", "connector">>

\* A PUT of a location that is not found is an insert.  A PUT of an EVSE asks for the location,
\* one of a connector for the EVSE.
FindFieldsToPut(c) ==
    /\ Doing(c).method = "PUT" /\ Doing(c).todo = <<>>
    /\ LET asked == IF Doing(c).level = "connector" THEN "evse" ELSE "location"
           found == FoundRows(Doing(c).party, asked)
       IN  IF found # {}
           THEN \E row \in found : GoesOnWith(c, row, TodoOf("PUT", Doing(c).level))
           ELSE IF Doing(c).level = "location" THEN GoesOnWith(c, Doing(c).party, Inserting)
           ELSE EndsFields(c)
    /\ RowsStay /\ UNCHANGED fieldBroken

FindFieldsToPatch(c) ==
    /\ Doing(c).method = "PATCH" /\ Doing(c).todo = <<>>
    /\ LET found == FoundRowsToPatch(Doing(c).party, Doing(c).level)
       IN  IF found = {} THEN EndsFields(c)
           ELSE \E row \in found : GoesOnWith(c, row, TodoOf("PATCH", Doing(c).level))
    /\ RowsStay /\ UNCHANGED fieldBroken

\* The request at hand was the last, or it was not.
NextRequest(c, columns) ==
    IF Len(Doing(c).todo) > 1
    THEN /\ fieldCall' = [fieldCall EXCEPT ![c].todo = Tail(@)] /\ UNCHANGED records
    ELSE /\ EndsFields(c)
         /\ records' = [records EXCEPT ![Doing(c).n].wrote = {Doing(c).row} \X columns]

\* The columns that a call has settled when it ends.
Settles(c) ==
    CASE Doing(c).level = "location" -> IF Doing(c).method = "PATCH" THEN Doing(c).carried
                                     ELSE (Columns \ {"name"}) \cup Doing(c).carried
      [] Doing(c).level = "evse" -> IF Doing(c).method = "PATCH" THEN {"status"}
                                    ELSE {"status", "format"}
      [] Doing(c).level = "connector" -> {"format"}

At(c, request) == Doing(c).todo # <<>> /\ Head(Doing(c).todo) = request

\* A row is inserted or updated, with updatedAt from the body's last_updated, which is taken to
\* be that of each EVSE and connector in it.
FillsRow(c, level) ==
    /\ fieldRows' = [fieldRows EXCEPT ![Doing(c).row] =
         [there |-> @.there \cup {level},
          columns |-> IF Doing(c).method = "PUT" THEN PutColumns(c, level) ELSE PatchColumns(c, level),
          updatedAt |-> [@.updatedAt EXCEPT ![level] = Doing(c).n]]]
    /\ NextRequest(c, Settles(c))
    /\ answer' = NoAnswer /\ UNCHANGED <<fieldOverlap, fieldBroken>>

WriteRow(c, level) == At(c, level) /\ FillsRow(c, level)

\* A row that has come meanwhile is in the way.  One of the other party under the same id may
\* be too: then the call breaks off (FieldsBreak).
InsertRow(c) ==
    /\ At(c, "insert")
    /\ IF "location" \in fieldRows[Doing(c).row].there
       THEN EndsFields(c) /\ fieldBroken' = TRUE /\ RowsStay
       ELSE FillsRow(c, "location")

Touches(c, level) ==
    /\ fieldRows' = [fieldRows EXCEPT ![Doing(c).row].updatedAt[level] = Doing(c).n]
    /\ NextRequest(c, Settles(c))
    /\ answer' = NoAnswer /\ UNCHANGED <<fieldOverlap, fieldBroken>>

\* Mutant: the location keeps its updatedAt.
TouchNoLocation(c) ==
    /\ At(c, "touch location")
    /\ NextRequest(c, Settles(c))
    /\ answer' = NoAnswer /\ UNCHANGED <<fieldRows, fieldOverlap, fieldBroken>>

TouchEvse(c) == At(c, "touch evse") /\ Touches(c, "evse")
TouchLocation(c) == At(c, "touch location") /\ Touches(c, "location")

\* A request fails, and an exception ends the call.
FieldsBreak(c) == /\ ~FieldIdle(c) /\ EndsFields(c) /\ fieldBroken' = TRUE /\ RowsStay

\* A GET is one query, and of several rows the first is shown.  (Those between two calls do.)
Shows(p, found) ==
    /\ \A c \in FieldCalls : FieldIdle(c)
    /\ \/ found = {} /\ answer' = [to |-> p, of |-> "none"]
       \/ \E q \in found : answer' = [to |-> p, of |-> q]
    /\ UNCHANGED <<fieldRows, fieldCall, records, fieldOverlap, fieldBroken>>
GetLocation(p) == Shows(p, FoundRows(p, "location"))
GetEvse(p) == Shows(p, FoundRows(p, "evse"))
GetConnector(p) == Shows(p, FoundRows(p, "connector"))
-----------------------------------------------------------------------------
FieldStep(c) ==
    \/ FindFieldsToPut(c) \/ FindFieldsToPatch(c)
    \/ InsertRow(c) \/ \E level \in Levels : WriteRow(c, level)
    \/ TouchEvse(c) \/ TouchLocation(c) \/ FieldsBreak(c)

FieldNext ==
    \/ \E c \in FieldCalls :
         \/ FieldStep(c)
         \/ \E method \in {"PUT", "PATCH"}, level \in Levels, p \in Parties,
               carried \in FieldBodies \cup {{}} : BeginFields(c, method, level, p, carried)
    \/ \E p \in Parties : GetLocation(p) \/ GetEvse(p) \/ GetConnector(p)

FieldSpec == FieldInit /\ [][FieldNext]_fieldVars
-----------------------------------------------------------------------------
(* Properties *)

\* No update of a column is lost: what is shown is not of a call that had ended, nor null from
\* the beginning, when a later one set the column and ended.  PATCHes of different columns may
\* overlap; only those of the opening times, merged into what was read, may not.
FieldsKept ==
    \A n \in DOMAIN records :
      \A cell \in records[n].wrote :
        LET by == fieldRows[cell[1]].columns[cell[2]].by
        IN  by \in records[n].before \cup {0} => cell[2] \in Hours /\ fieldOverlap

\* While nothing is under way, an EVSE's or connector's last change shows in the last_updated
\* of what it belongs to, unless calls have overlapped or one broke off in between.
ParentsFollow ==
    ~fieldOverlap /\ ~fieldBroken /\ (\A c \in FieldCalls : FieldIdle(c)) =>
      \A p \in Parties :
        /\ fieldRows[p].updatedAt["location"] >= fieldRows[p].updatedAt["evse"]
        /\ fieldRows[p].updatedAt["evse"] >= fieldRows[p].updatedAt["connector"]

\* The rows of the direct party are its own, also those of columns it never named.  Those of a
\* roaming party are written by it and by one other kind of call: the direct party's PUT of the
\* same id, whose query has no condition on the roaming partner, so that it takes the location
\* over.  No PATCH of it does, and what a roaming party GETs is its own.
RowsOfOwnParty ==
    /\ \A p \in Parties, col \in Columns :
         LET by == fieldRows[p].columns[col].by
         IN  by # 0 => \/ records[by].party = p
                       \/ p = "roaming" /\ records[by].method = "PUT"
    /\ answer.to = "roaming" => answer.of \in {"roaming", "none"}

-----------------------------------------------------------------------------
\* The inductive invariant of the properties

Cells == [set : BOOLEAN, by : 0..MaxFieldCalls]
FieldRowType == [there : SUBSET Levels, columns : [Columns -> Cells],
                 updatedAt : [Levels -> 0..MaxFieldCalls]]

\* What may be left of a call's requests.
LeftTodo(method, level) ==
    CASE level = "location" -> IF method = "PUT"
                               THEN {TodoOf("PUT", "location"), Inserting, <<"evse", "connector">>, <<"connector">>}
                               ELSE {TodoOf("PATCH", "location")}
      [] level = "evse" -> IF method = "PUT"
                           THEN {TodoOf("PUT", "evse"), <<"connector", "touch location">>, <<"touch location">>}
                           ELSE {TodoOf("PATCH", "evse"), <<"touch location">>}
      [] level = "connector" -> {TodoOf("PUT", "connector"), <<"touch evse", "touch location">>, <<"touch location">>}
Todos == {<<>>} \cup UNION {LeftTodo(method, level) : method \in {"PUT", "PATCH"}, level \in Levels}

FieldCallType == [n : 0..MaxFieldCalls, method : {"none", "PUT", "PATCH"}, level : Levels,
                  party : Parties, carried : SUBSET LocationColumns, row : Parties \cup {"none"},
                  hours : {<<>>} \cup [Hours -> Cells], todo : Todos]
RecordType == [method : {"PUT", "PATCH"}, party : Parties, wrote : SUBSET (Parties \X Columns),
               before : SUBSET (1..MaxFieldCalls)]

\* An EVSE has its location and a connector its EVSE.
RowsHang(there) == /\ "connector" \in there => "evse" \in there
                   /\ "evse" \in there => "location" \in there

FieldTypeOK ==
    /\ fieldRows \in [Parties -> FieldRowType] /\ \A p \in Parties : RowsHang(fieldRows[p].there)
    /\ fieldCall \in [FieldCalls -> FieldCallType]
    /\ records \in Seq(RecordType) /\ Len(records) <= MaxFieldCalls
    /\ fieldOverlap \in BOOLEAN /\ fieldBroken \in BOOLEAN
    /\ answer \in [to : Parties \cup {"none"}, of : Parties \cup {"none"}]

\* A call's requests, and what of its columns they have written.
Pending(c) == {Doing(c).todo[i] : i \in DOMAIN Doing(c).todo}
Requests(c) == ~FieldIdle(c) /\ Doing(c).todo # <<>>
IsWritten(c, col) == /\ LevelOf(col) \notin Pending(c)
                     /\ LevelOf(col) = "location" => "insert" \notin Pending(c)

\* A row may hold what the call by wrote.
MayHold(p, by) == by # 0 => /\ by \in DOMAIN records
                            /\ \/ records[by].party = p
                               \/ p = "roaming" /\ records[by].method = "PUT"

\* A cell is not older than call n.
IsKept(n, p, col) ==
    fieldRows[p].columns[col].by \in records[n].before \cup {0} => col \in Hours /\ fieldOverlap

FieldCallsAreSound ==
    /\ \A c \in FieldCalls : ~FieldIdle(c) =>
         /\ Doing(c).n \in DOMAIN records
         /\ records[Doing(c).n].method = Doing(c).method /\ records[Doing(c).n].party = Doing(c).party
         /\ records[Doing(c).n].wrote = {}
         /\ \A d \in FieldCalls : ~FieldIdle(d) /\ Doing(d).n = Doing(c).n => d = c
    /\ \A n \in DOMAIN records : \A m \in records[n].before : m \in DOMAIN records /\ records[m].wrote # {}
    /\ ~fieldOverlap => \A c, d \in FieldCalls : ~FieldIdle(c) /\ ~FieldIdle(d) => c = d
    /\ ~fieldOverlap => \A c \in FieldCalls : ~FieldIdle(c) => Doing(c).n = Len(records)

\* A request goes to a row that its party may write to, and that has what the row belongs to;
\* what it has written since is there.
RequestIsSound(c) ==
    /\ Doing(c).todo \in LeftTodo(Doing(c).method, Doing(c).level) /\ Doing(c).hours \in [Hours -> Cells]
    /\ Doing(c).row = Doing(c).party \/ (Doing(c).row = "roaming" /\ Doing(c).method = "PUT")
    /\ \A h \in Hours : MayHold(Doing(c).row, Doing(c).hours[h].by)
    /\ "evse" \in Pending(c) /\ "location" \notin Pending(c) /\ "insert" \notin Pending(c) =>
         "location" \in fieldRows[Doing(c).row].there
    /\ "connector" \in Pending(c) /\ "evse" \notin Pending(c) => "evse" \in fieldRows[Doing(c).row].there
    /\ ~fieldOverlap /\ Doing(c).method = "PATCH" /\ "location" \in Pending(c) =>
         \A h \in Hours : Doing(c).hours[h] = fieldRows[Doing(c).row].columns[h]
    /\ \A col \in Settles(c) : IsWritten(c, col) => IsKept(Doing(c).n, Doing(c).row, col)
RequestsAreSound == \A c \in FieldCalls : Requests(c) => RequestIsSound(c)

\* updatedAt is of a call that has begun; while none overlaps or breaks off, that of a row follows,
\* or will be touched.
IsOlder(p, level, parent) == fieldRows[p].updatedAt[level] <= fieldRows[p].updatedAt[parent]
WillTouch(p, touch) == \E c \in FieldCalls : Requests(c) /\ Doing(c).row = p /\ touch \in Pending(c)
ParentsAreWritten(c) ==
    /\ "evse" \in Pending(c) /\ Pending(c) \cap {"location", "insert", "touch location"} = {} =>
         fieldRows[Doing(c).row].updatedAt["location"] = Doing(c).n
    /\ "connector" \in Pending(c) /\ Pending(c) \cap {"evse", "touch evse"} = {} =>
         fieldRows[Doing(c).row].updatedAt["evse"] = Doing(c).n
ParentsWillFollow ==
    /\ \A p \in Parties, level \in Levels : fieldRows[p].updatedAt[level] <= Len(records)
    /\ ~fieldOverlap /\ ~fieldBroken =>
         /\ \A p \in Parties : /\ IsOlder(p, "evse", "location") \/ WillTouch(p, "touch location")
                               /\ IsOlder(p, "connector", "evse") \/ WillTouch(p, "touch evse")
         /\ \A c \in FieldCalls : Requests(c) => ParentsAreWritten(c)

ColumnsHold == \A p \in Parties, col \in Columns : MayHold(p, fieldRows[p].columns[col].by)
ShownIsOwn == answer.to = "roaming" => answer.of \in {"roaming", "none"}

FieldsAreSound == /\ FieldTypeOK /\ ColumnsHold /\ ShownIsOwn /\ FieldsKept
                  /\ FieldCallsAreSound /\ RequestsAreSound /\ ParentsWillFollow
IdleRequestNothing == \A c \in FieldCalls : FieldIdle(c) => Doing(c).todo = <<>>

FieldIInv == FieldsAreSound /\ IdleRequestNothing
=============================================================================
