----------------------------- MODULE OwnLocation ------------------------------
(***************************************************************************)
(* An own location from inside OCPI: its EVSEs, the statuses of theirs a   *)
(* partner is pushed, and how the administration takes the location out of *)
(* OCPI, deleteLocationOCPI, while EVSEs come and go.  An EVSE has one     *)
(* connector here, whose status stands for what                            *)
(* mapEvseStatusFromConnectors makes of several.                           *)
(***************************************************************************)
EXTENDS Naturals

CONSTANTS EvseRows,   \* the rows there may be
          FirstRows,  \* the sets of rows there may be first
          Peers,      \* the partners with a locations receiver
          MaxEdits    \* bound: changes of rows, and deletions that begin

ASSUME OwnLocationAssumption == FirstRows \subseteq SUBSET EvseRows /\ MaxEdits \in Nat

VARIABLES there,    \* the EVSE rows
          born,     \* those there have ever been: no id is used again
          late,     \* history: those that appeared after the lookup of a deletion under way
          marked,   \* those whose ocpiStatus is REMOVED
          report,   \* what their connectors' status means
          hidden,   \* the location's disableOCPI
          told,     \* told[p][e]: the status partner p was sent last
          pusher,   \* the handler of a connector's change
          removal,  \* the call of deleteLocationOCPI
          refused,  \* history: PATCHes of this call answered with an OCPI error
          edits     \* changes so far

ownLocationVars == <<there, born, late, marked, report, hidden, told, pusher, removal, refused, edits>>

Reports == {"AVAILABLE", "CHARGING"}
NoPusher == [at |-> "idle"]
NoRemoval == [at |-> "idle", ids |-> {}, peers |-> {}, pending |-> {}, failed |-> {}, quiet |-> FALSE, status |-> "none"]
RemovalSteps == {"idle", "lookup", "disable", "mark", "evses", "patch"}
Pairs == Peers \X EvseRows

Pushers == {NoPusher} \cup [at : {"called"}, evse : EvseRows]
             \cup [at : {"pushing"}, evse : EvseRows, to : SUBSET Peers, says : Reports]
Removals == [at : RemovalSteps, ids : SUBSET EvseRows, peers : SUBSET Peers, pending : SUBSET Pairs,
             failed : SUBSET Pairs, quiet : BOOLEAN, status : {"none", "ok", "failed"}]

OwnLocationTypeOK ==
    /\ there \subseteq born /\ born \subseteq EvseRows /\ hidden \in BOOLEAN /\ edits \in 0..MaxEdits
    /\ late \subseteq born /\ marked \subseteq there /\ report \in [EvseRows -> Reports]
    /\ told \in [Peers -> [EvseRows -> Reports \cup {"nothing", "REMOVED"}]]
    /\ pusher \in Pushers /\ removal \in Removals /\ refused \subseteq Pairs
-----------------------------------------------------------------------------
OwnLocationInit ==
    /\ there \in FirstRows /\ born = there
    /\ late = {} /\ marked = {}
    /\ report = [e \in EvseRows |-> "AVAILABLE"]
    /\ hidden = FALSE
    /\ told = [p \in Peers |-> [e \in EvseRows |-> IF e \in there THEN "AVAILABLE" ELSE "nothing"]]
    /\ pusher = NoPusher /\ removal = NoRemoval /\ refused = {} /\ edits = 0
-----------------------------------------------------------------------------
(* The core's rows, and the pushes of a status *)

Edits == edits < MaxEdits /\ edits' = edits + 1

EvseAppears == /\ Edits
               /\ \E e \in EvseRows \ born : /\ there' = there \cup {e} /\ born' = born \cup {e}
                                            /\ late' = IF removal.at \in {"idle", "lookup"} THEN late ELSE late \cup {e}
               /\ UNCHANGED <<marked, report, hidden, told, pusher, removal, refused>>

EvseGoes == /\ Edits
            /\ \E e \in there : there' = there \ {e} /\ marked' = marked \ {e}
            /\ UNCHANGED <<born, late, report, hidden, told, pusher, removal, refused>>

\* The location is enabled again; no EVSE's ocpiStatus is reset.
Reopens == /\ Edits /\ hidden /\ removal.at = "idle" /\ hidden' = FALSE
           /\ removal' = NoRemoval
           /\ UNCHANGED <<there, born, late, marked, report, told, pusher, refused>>

\* handleConnectorUpdate is called with the disableOCPI the change was made under.
ConnectorChanges(e) ==
    /\ Edits /\ e \in there /\ pusher = NoPusher
    /\ \E s \in Reports \ {report[e]} : report' = [report EXCEPT ![e] = s]
    /\ pusher' = IF hidden THEN pusher ELSE [at |-> "called", evse |-> e]
    /\ UNCHANGED <<there, born, late, marked, hidden, told, removal, refused>>

\* The status is the connectors', the EVSE's ocpiStatus is not looked at.  A read that fails, or
\* finds no EVSE, ends the handler.
PusherReads ==
    /\ pusher.at = "called"
    /\ \/ pusher' = NoPusher
       \/ /\ pusher.evse \in there
          /\ pusher' = [at |-> "pushing", evse |-> pusher.evse, to |-> Peers, says |-> report[pusher.evse]]
    /\ UNCHANGED <<there, born, late, marked, report, hidden, told, removal, refused, edits>>

PusherSends(p, arrives) ==
    /\ pusher.at = "pushing" /\ p \in pusher.to
    /\ told' = IF arrives THEN [told EXCEPT ![p][pusher.evse] = pusher.says] ELSE told
    /\ pusher' = IF pusher.to = {p} THEN NoPusher ELSE [pusher EXCEPT !.to = @ \ {p}]
    /\ UNCHANGED <<there, born, late, marked, report, hidden, removal, refused, edits>>
-----------------------------------------------------------------------------
(* deleteLocationOCPI *)

RemovalKeeps == UNCHANGED <<there, born, late, report, pusher, edits>>
Stands(status) == [removal EXCEPT !.at = "idle", !.pending = {}, !.status = status]

\* The partners are listed.
BeginRemoval == /\ removal.at = "idle" /\ Edits
                /\ removal' = [NoRemoval EXCEPT !.at = "lookup", !.peers = Peers] /\ refused' = {}
                /\ UNCHANGED <<there, born, late, report, pusher, marked, hidden, told>>

LookUpEvses == /\ removal.at = "lookup"
               /\ removal' = [removal EXCEPT !.at = "disable", !.ids = there]
               /\ RemovalKeeps /\ UNCHANGED <<marked, hidden, told, refused>>

\* History: whether a status may still be pushed by a change made before.
DisableLocation == /\ removal.at = "disable"
                   /\ hidden' = TRUE
                   /\ removal' = [removal EXCEPT !.at = "mark", !.quiet = pusher = NoPusher]
                   /\ RemovalKeeps /\ UNCHANGED <<marked, told, refused>>

\* One mutation marks the EVSEs found; should one be gone by now, the others stay marked, and
\* the call ends without a PATCH.
MarkEvses ==
    /\ removal.at = "mark"
    /\ marked' = marked \cup (removal.ids \cap there)
    /\ removal' = IF removal.ids \subseteq there THEN [removal EXCEPT !.at = "evses"] ELSE Stands("failed")
    /\ RemovalKeeps /\ UNCHANGED <<hidden, told, refused>>

\* A request to the database fails, before or after its commit.
RemovalRequestFails ==
    /\ removal.at \in {"lookup", "disable", "mark"}
    /\ hidden' \in IF removal.at = "disable" THEN {hidden, TRUE} ELSE {hidden}
    /\ marked' \in IF removal.at = "mark" THEN {marked, marked \cup (removal.ids \cap there)} ELSE {marked}
    /\ removal' = Stands("failed")
    /\ RemovalKeeps /\ UNCHANGED <<told, refused>>

\* patchLocationEVSEStatus, for one partner after the other: the EVSEs are read again, and are
\* PATCHed all at once.
ReadEvses(p) ==
    /\ removal.at = "evses" /\ p \in removal.peers
    /\ removal' = [removal EXCEPT !.at = "patch", !.peers = @ \ {p}, !.pending = {p} \X there]
    /\ RemovalKeeps /\ UNCHANGED <<marked, hidden, told, refused>>

ReadEvsesFails(p) ==
    /\ removal.at = "evses" /\ p \in removal.peers
    /\ removal' = [removal EXCEPT !.peers = @ \ {p}, !.failed = @ \cup ({p} \X EvseRows)]
    /\ RemovalKeeps /\ UNCHANGED <<marked, hidden, told, refused>>

\* Mutant: a PATCH that fails is left out of the summary.
PatchForgotten(p, e, answer) ==
    /\ removal.at = "patch" /\ <<p, e>> \in removal.pending
    /\ told' = IF answer \in {"taken", "lost"} THEN [told EXCEPT ![p][e] = "REMOVED"] ELSE told
    /\ removal' = [removal EXCEPT !.pending = @ \ {<<p, e>>}]
    /\ refused' = IF answer = "refused" THEN refused \cup {<<p, e>>} ELSE refused
    /\ RemovalKeeps /\ UNCHANGED <<marked, hidden>>

\* "lost": the partner takes it, and its answer does not come.  An OCPI error in an answer is
\* not looked at.
Patch(p, e, answer) ==
    /\ removal.at = "patch" /\ <<p, e>> \in removal.pending
    /\ told' = IF answer \in {"taken", "lost"} THEN [told EXCEPT ![p][e] = "REMOVED"] ELSE told
    /\ removal' = [removal EXCEPT !.pending = @ \ {<<p, e>>},
                                  !.failed = IF answer \in {"lost", "failed"} THEN @ \cup {<<p, e>>} ELSE @]
    /\ refused' = IF answer = "refused" THEN refused \cup {<<p, e>>} ELSE refused
    /\ RemovalKeeps /\ UNCHANGED <<marked, hidden>>

\* allSettled: the next partner's turn.
PartnerSettled == /\ removal.at = "patch" /\ removal.pending = {}
                  /\ removal' = [removal EXCEPT !.at = "evses"]
                  /\ RemovalKeeps /\ UNCHANGED <<marked, hidden, told, refused>>

RemovalEnds == /\ removal.at = "evses" /\ removal.peers = {}
               /\ removal' = Stands("ok")
               /\ RemovalKeeps /\ UNCHANGED <<marked, hidden, told, refused>>

\* The process ends.
RemovalDies == /\ removal.at # "idle" /\ removal' = NoRemoval
               /\ RemovalKeeps /\ UNCHANGED <<marked, hidden, told, refused>>

Remove == \/ BeginRemoval \/ LookUpEvses \/ DisableLocation \/ MarkEvses \/ RemovalRequestFails
          \/ \E p \in Peers : ReadEvses(p) \/ ReadEvsesFails(p)
          \/ \E p \in Peers, e \in EvseRows, answer \in {"taken", "refused", "lost", "failed"} : Patch(p, e, answer)
          \/ PartnerSettled \/ RemovalEnds \/ RemovalDies

OwnLocationNext ==
    \/ EvseAppears \/ EvseGoes \/ Reopens \/ PusherReads
    \/ \E e \in EvseRows : ConnectorChanges(e)
    \/ \E p \in Peers, arrives \in BOOLEAN : PusherSends(p, arrives)
    \/ Remove

OwnLocationSpec == OwnLocationInit /\ [][OwnLocationNext]_ownLocationVars
-----------------------------------------------------------------------------
(* Properties *)

\* A deletion that ends well has told each partner that each EVSE it found is REMOVED, or names
\* the PATCH in its summary, unless the partner refused it in a well-formed answer; a status
\* that was being pushed when the location was disabled may come after it.
RemovalIsTold ==
    removal.status = "ok" /\ removal.quiet =>
       \A p \in Peers, e \in removal.ids :
          e \in there /\ <<p, e>> \notin removal.failed \cup refused => told[p][e] = "REMOVED"

\* "Partners are only PATCHed once our DB reflects REMOVED, so the two sides cannot diverge": an
\* EVSE a partner was told is REMOVED is REMOVED here, or gone.  It does not hold: the EVSEs are
\* looked up once to be marked and again for each partner's PATCHes, and one that appears between
\* is PATCHed and not marked.
RemovedHereToo == \A p \in Peers, e \in there : told[p][e] = "REMOVED" => e \in marked

\* What holds of it: only an EVSE that appeared after the lookup of a deletion under way may be
\* REMOVED for a partner and not be so here.
OnlyLateDiverge == \A p \in Peers, e \in there : told[p][e] = "REMOVED" => e \in marked \cup late

\* The inductive invariant: once PATCHes are under way each EVSE found is REMOVED here, or gone,
\* and one not found is late; what was told or found does not come back once it is gone; no
\* status is under way after a quiet disabling; and of the partners whose turn has come, each
\* EVSE is still to be PATCHed, told, refused or named in the summary.
FoundIsMarked == /\ removal.at \in {"evses", "patch"} => removal.ids \cap there \subseteq marked
                 /\ removal.at \notin {"idle", "lookup"} => there \subseteq removal.ids \cup late
FoundIsBorn == /\ removal.ids \subseteq born
               /\ \A p \in Peers, e \in EvseRows :
                     told[p][e] = "REMOVED" \/ <<p, e>> \in removal.pending => e \in born
QuietStays == removal.quiet => hidden /\ pusher = NoPusher
StepsAreDone == /\ removal.pending # {} => removal.at = "patch"
                /\ removal.at \in {"lookup", "disable", "mark"} => removal.status = "none" /\ removal.peers = Peers
                /\ removal.status = "ok" => removal.at = "idle" /\ removal.peers = {}
TurnsAreTold ==
    removal.quiet /\ (removal.at \in {"evses", "patch"} \/ removal.status = "ok") =>
       \A p \in Peers \ removal.peers, e \in removal.ids \cap there :
          <<p, e>> \notin removal.pending \cup removal.failed \cup refused => told[p][e] = "REMOVED"
RemovalIInv == /\ OwnLocationTypeOK /\ FoundIsBorn /\ QuietStays /\ StepsAreDone
               /\ TurnsAreTold /\ FoundIsMarked /\ OnlyLateDiverge
=============================================================================
