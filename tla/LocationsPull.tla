---------------------------- MODULE LocationsPull ----------------------------
(***************************************************************************)
(* The pull of a partner's locations, page by page, while the partner      *)
(* changes its list and PUTs locations.  After a full pull what was not    *)
(* seen is marked as removed.  What is stored of one location is           *)
(* ReceivedLocation; here it is absent, visible or removed.                *)
(***************************************************************************)
EXTENDS Naturals, Sequences, SequencesExt

CONSTANTS Locations,
          Listed,     \* the partner's list to begin with
          Limit,      \* the size of a page
          Starts,     \* the offsets at which the administrator lets pulls start
          MaxPulls,   \* bound: pulls that ever begin
          MaxChanges  \* bound: changes of the partner's list

ASSUME PullAssumption == Listed \in Seq(Locations) /\ IsInjective(Listed)
                       /\ Limit \in Nat \ {0} /\ Starts \subseteq Nat
                       /\ MaxPulls \in Nat /\ MaxChanges \in Nat

VARIABLES listed,   \* the partner's list, in its order
          shown,    \* shown[l]: what is stored of a location
          pull,     \* the pull's position and local variables
          kept,     \* history: what has been listed since the pull began
          gone,     \* history: what was stored then, and has not been listed since
          pulls, changes

pullVars == <<listed, shown, pull, kept, gone, pulls, changes>>

Idle == [at |-> "idle", full |-> TRUE, start |-> 0, offset |-> 0, page |-> <<>>, next |-> {}, seen |-> {}, missing |-> {},
         steady |-> TRUE, marked |-> TRUE, restarted |-> FALSE]
Resting == {"idle", "ended", "failed"}
Positions == Resting \cup {"ask", "store", "known", "mark"}

PullRecords == [at : Positions, full : BOOLEAN, start : Starts \cup {0}, offset : Nat,
                page : Seq(Locations), next : SUBSET Nat, seen : SUBSET Locations,
                missing : SUBSET Locations, steady : BOOLEAN, marked : BOOLEAN, restarted : BOOLEAN]

PullTypeOK ==
    /\ listed \in Seq(Locations) /\ IsInjective(listed)
    /\ shown \in [Locations -> {"absent", "visible", "removed"}]
    /\ pull \in PullRecords
    /\ kept \subseteq Range(listed) /\ gone \subseteq Locations \ Range(listed)

\* Some locations are stored from before.
PullInit == /\ listed = Listed /\ shown \in [Locations -> {"absent", "visible"}]
            /\ pull = Idle
            /\ kept = {} /\ gone = {} /\ pulls = 0 /\ changes = 0
-----------------------------------------------------------------------------
(* The partner *)

Adds(l, i) ==
    /\ changes < MaxChanges /\ l \notin Range(listed)
    /\ changes' = changes + 1
    /\ listed' = InsertAt(listed, i, l)
    /\ gone' = gone \ {l}
    /\ UNCHANGED <<shown, pull, kept, pulls>>

\* What follows on the list moves one place to the front.
TakesOff(i) ==
    /\ changes < MaxChanges
    /\ changes' = changes + 1
    /\ listed' = RemoveAt(listed, i)
    /\ kept' = kept \ {listed[i]}
    /\ pull' = [pull EXCEPT !.steady = FALSE]
    /\ UNCHANGED <<shown, gone, pulls>>

\* A location that is marked as removed stays marked when it is stored again.
Stored(l) == [shown EXCEPT ![l] = IF @ = "absent" THEN "visible" ELSE @]

Puts(l) == /\ l \in Range(listed)
           /\ shown' = Stored(l)
           /\ UNCHANGED <<listed, pull, kept, gone, pulls, changes>>
-----------------------------------------------------------------------------
(* PullPartnerLocations *)

PullMoves(at) == pull' = [pull EXCEPT !.at = at]

\* Without dates the pull is full; with dates the partner answers what has changed since.
BeginPull(full, start) ==
    /\ pull.at \in Resting /\ pulls < MaxPulls
    /\ pulls' = pulls + 1
    /\ pull' = [Idle EXCEPT !.at = "ask", !.full = full, !.start = start, !.offset = start]
    /\ kept' = Range(listed)
    /\ gone' = {l \in Locations : shown[l] # "absent"} \ Range(listed)
    /\ UNCHANGED <<listed, shown, changes>>

\* A page of what has changed, which is at most all of the list, may hold any of it.
End == Min({pull.offset + Limit, Len(listed)})
PageContents == IF pull.full THEN {SubSeq(listed, pull.offset + 1, End)}
         ELSE {page \in SeqOf(Range(listed), Limit) : IsInjective(page)}

\* The offset that follows, if there is one; of what has changed no more may follow.
Links == IF End = Len(listed) THEN {{}} ELSE {{End}} \cup (IF pull.full THEN {} ELSE {{}})

\* A page, and the offset of the next if the partner sent a Link header.
PageAnswered ==
    /\ pull.at = "ask"
    /\ \E page \in PageContents, link \in Links :
         pull' = [pull EXCEPT !.at = "store", !.page = page, !.next = link]
    /\ UNCHANGED <<listed, shown, kept, gone, pulls, changes>>

\* getOffsetFromLink takes a link that names no offset for the first page.
PageLinksWithoutOffset ==
    /\ pull.at = "ask" /\ {End} \in Links
    /\ \E page \in PageContents :
         pull' = [pull EXCEPT !.at = "store", !.page = page, !.next = {0}, !.restarted = TRUE]
    /\ UNCHANGED <<listed, shown, kept, gone, pulls, changes>>

\* Mutant: a page that fails is taken for the end of the list.
PageFailsQuietly ==
    /\ pull.at = "ask"
    /\ PullMoves(IF pull.full THEN "known" ELSE "ended")
    /\ UNCHANGED <<listed, shown, kept, gone, pulls, changes>>

\* The request fails, and the pull with it.
PageFails == /\ pull.at = "ask" /\ PullMoves("failed")
             /\ UNCHANGED <<listed, shown, kept, gone, pulls, changes>>

Item == Head(pull.page)
Passes(l) == pull' = [pull EXCEPT !.page = Tail(@), !.seen = @ \cup {l}]

\* Outside full mode a location of which all EVSEs are removed is marked.
ItemStored ==
    /\ pull.at = "store" /\ pull.page # <<>>
    /\ \/ shown' = Stored(Item)
       \/ ~pull.full /\ shown' = [shown EXCEPT ![Item] = "removed"]
    /\ Passes(Item)
    /\ UNCHANGED <<listed, kept, gone, pulls, changes>>

\* Mutant: an item that cannot be stored is not seen.
ItemFailsUnseen ==
    /\ pull.at = "store" /\ pull.page # <<>>
    /\ shown' \in {shown, Stored(Item)}
    /\ pull' = [pull EXCEPT !.page = Tail(@)]
    /\ UNCHANGED <<listed, kept, gone, pulls, changes>>

\* Seen is what the page holds, stored or not.
ItemFails ==
    /\ pull.at = "store" /\ pull.page # <<>>
    /\ shown' \in {shown, Stored(Item)}
    /\ Passes(Item)
    /\ UNCHANGED <<listed, kept, gone, pulls, changes>>

\* An item without an id is skipped.
ItemInvalid ==
    /\ pull.at = "store" /\ pull.page # <<>>
    /\ pull' = [pull EXCEPT !.page = Tail(@), !.steady = FALSE]
    /\ UNCHANGED <<listed, shown, kept, gone, pulls, changes>>

\* Mutant: the next page is asked for from where the last one began.
PageRepeats ==
    /\ pull.at = "store" /\ pull.page = <<>>
    /\ IF pull.next = {} THEN PullMoves(IF pull.full THEN "known" ELSE "ended") ELSE PullMoves("ask")
    /\ UNCHANGED <<listed, shown, kept, gone, pulls, changes>>

PageDone ==
    /\ pull.at = "store" /\ pull.page = <<>>
    /\ IF pull.next = {} THEN PullMoves(IF pull.full THEN "known" ELSE "ended")
       ELSE \E offset \in pull.next : pull' = [pull EXCEPT !.at = "ask", !.offset = offset]
    /\ UNCHANGED <<listed, shown, kept, gone, pulls, changes>>

\* Mutant: what has been seen without being stored is missing, not the converse.
ReadKnownSwapped ==
    /\ pull.at = "known"
    /\ pull' = [pull EXCEPT !.at = "mark", !.missing = pull.seen \ {l \in Locations : shown[l] # "absent"}]
    /\ UNCHANGED <<listed, shown, kept, gone, pulls, changes>>

\* syncDeletedLocations reads what is stored now.
ReadKnown ==
    /\ pull.at = "known"
    /\ pull' = [pull EXCEPT !.at = "mark", !.missing = {l \in Locations : shown[l] # "absent"} \ pull.seen]
    /\ UNCHANGED <<listed, shown, kept, gone, pulls, changes>>

MarkRemoved(l) ==
    /\ pull.at = "mark" /\ l \in pull.missing
    /\ shown' = [shown EXCEPT ![l] = "removed"]
    /\ pull' = [pull EXCEPT !.missing = @ \ {l}]
    /\ UNCHANGED <<listed, kept, gone, pulls, changes>>

\* Counted, and passed over.
MarkFails(l) ==
    /\ pull.at = "mark" /\ l \in pull.missing
    /\ pull' = [pull EXCEPT !.missing = @ \ {l}, !.marked = FALSE]
    /\ UNCHANGED <<listed, shown, kept, gone, pulls, changes>>

MarkingDone == /\ pull.at = "mark" /\ pull.missing = {} /\ PullMoves("ended")
               /\ UNCHANGED <<listed, shown, kept, gone, pulls, changes>>

PullCrashes == /\ pull.at \notin Resting /\ PullMoves("failed")
               /\ UNCHANGED <<listed, shown, kept, gone, pulls, changes>>
-----------------------------------------------------------------------------
PullStep == \/ PageAnswered \/ PageLinksWithoutOffset \/ PageFails
            \/ ItemStored \/ ItemFails \/ ItemInvalid \/ PageDone
            \/ ReadKnown \/ MarkingDone
            \/ \E l \in Locations : MarkRemoved(l) \/ MarkFails(l)

PullNext == \/ PullStep \/ PullCrashes
            \/ \E full \in BOOLEAN, start \in Starts : BeginPull(full, start)
            \/ \E l \in Locations : Puts(l) \/ \E i \in 1..Len(listed) + 1 : Adds(l, i)
            \/ \E i \in DOMAIN listed : TakesOff(i)

\* A request is answered or fails; the database answers.
PullFairness == WF_pullVars(PullStep)
FairPullSpec == PullInit /\ [][PullNext]_pullVars /\ PullFairness
-----------------------------------------------------------------------------
(* Properties *)

\* A pull from the first offset hides no location that has been listed since it began,
\* whatever pages and items fail and whatever is added to the list or PUT meanwhile; only a
\* partner that takes locations off, or sends one without an id, breaks this.
KeptStaysVisible ==
    [][pull.at = "mark" /\ pull.steady /\ pull.start = 0 => \A l \in kept : shown'[l] = shown[l] \/ shown[l] = "absent"]_pullVars

\* After a full pull of which no write failed, what was stored when it began and has not
\* been listed since is hidden.
GoneIsHidden ==
    pull.at = "ended" /\ pull.full /\ pull.marked => \A l \in gone : shown[l] = "removed"
-----------------------------------------------------------------------------
\* While such a pull goes on, each of those locations is seen, on the page, or still ahead.
Ahead(l, offset) == \E i \in DOMAIN listed : listed[i] = l /\ i > offset
AheadOrSeen(l) ==
    CASE pull.at = "ask" -> l \in pull.seen \/ Ahead(l, pull.offset)
      [] pull.at = "store" -> \/ l \in pull.seen \cup Range(pull.page)
                              \/ \E offset \in pull.next : Ahead(l, offset)
      [] pull.at \in {"known", "mark"} -> l \in pull.seen
      [] OTHER -> TRUE

\* What has gone was stored and is on no page; it is found missing, and then marked.
Hides(l) == /\ shown[l] # "absent"
            /\ pull.at = "mark" => l \in pull.missing \/ shown[l] = "removed"
            /\ pull.at = "ended" => shown[l] = "removed"

KeptIsAhead == pull.full /\ pull.steady /\ pull.start = 0 => \A l \in kept : AheadOrSeen(l)
MarksTheUnseen == /\ pull.at \in {"known", "mark"} => pull.full
                  /\ pull.at = "mark" => pull.missing \cap pull.seen = {}
GoneIsUnseen == gone \cap (pull.seen \cup Range(pull.page)) = {}
GoneIsMarked == pull.full /\ pull.marked => \A l \in gone : Hides(l)

PullIInv == /\ PullTypeOK /\ \A m, n \in pull.next : m = n
            /\ KeptIsAhead /\ MarksTheUnseen /\ GoneIsUnseen /\ GoneIsMarked
=============================================================================
