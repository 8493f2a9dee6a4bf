--------------------------- MODULE CommandResults ---------------------------
(***************************************************************************)
(* The results a partner is sent for one command it gave: the reply of     *)
(* CommandsService, the OCPP call of the CommandExecutor, the answers that *)
(* the OCPP core posts to the callback endpoint, and the timer that gives  *)
(* up on them.  They share one entry of the cache, under the command's id: *)
(* the callback context while no result is known, then "resolved".         *)
(*                                                                         *)
(* Commands share nothing with each other, so one of them is modelled.     *)
(* The cache outlives the process; timers and requests do not.             *)
(***************************************************************************)

CONSTANT Answers     \* bound: callbacks the core may post, repeated ones included

ASSUME AnswersAssumption == {"executor", "timer"} \cap Answers = {}

\* Those who may post a result to the partner.
Posters == Answers \cup {"executor", "timer"}

VARIABLES kind,       \* the command's type
          hub,        \* it came through a hub, from one of its roaming partners
          stage,      \* the call that the command is at
          delivered,  \* the core has received the OCPP call
          entry,      \* the command's entry in the cache
          elapsed,    \* config.commands.timeout has passed since the entry was set
          watch,      \* cache.onChange: armed, or the value its promise has
          step,       \* step[p]: where p is with its result
          to,         \* to[p]: the party that p's result is addressed to
          posted,     \* history: the posters whose result may have reached a party
          marked,     \* history: some poster has marked the command as resolved
          late,       \* history: the posters who had their occasion after that
          lost        \* history: a process died, or a cache or result request failed

vars == <<kind, hub, stage, delivered, entry, elapsed, watch, step, to, posted, marked, late, lost>>
command == <<kind, hub>>
outcome == <<to, posted, marked, lost>>

Supported == {"START_SESSION", "STOP_SESSION", "UNLOCK_CONNECTOR"}
Kinds == Supported \cup {"CANCEL_RESERVATION", "RESERVE_NOW"}
Stages == {"postCommand", "generateCommandId", "getCommandHandler", "sendOCPPMessage", "ended"}
Entries == {"none", "context", "resolved"}
Steps == {"idle", "looked", "routing", "marking", "posting", "done"}

TypeOK == /\ kind \in Kinds /\ hub \in BOOLEAN
          /\ stage \in Stages /\ delivered \in BOOLEAN
          /\ entry \in Entries /\ elapsed \in BOOLEAN
          /\ watch \in Entries \cup {"off", "armed", "closed"}
          /\ step \in [Posters -> Steps]
          /\ to \in [Posters -> {"nobody", "partner", "roamingPartner"}]
          /\ posted \in SUBSET Posters /\ late \in SUBSET Posters
          /\ marked \in BOOLEAN /\ lost \in BOOLEAN

Init == /\ kind \in Kinds /\ hub \in BOOLEAN
        /\ stage = "postCommand" /\ delivered = FALSE
        /\ entry = "none" /\ elapsed = FALSE /\ watch = "off"
        /\ step = [p \in Posters |-> "idle"] /\ to = [p \in Posters |-> "nobody"]
        /\ posted = {} /\ marked = FALSE /\ late = {} /\ lost = FALSE

\* The occasion on which p decides whether there is a result to post.
Decides(p, next) == /\ step' = [step EXCEPT ![p] = next]
                    /\ late' = IF marked THEN late \cup {p} ELSE late
-----------------------------------------------------------------------------
(* CommandsService.postCommand: the reply to the partner *)

\* Either a refusal (or an error) is returned, or the command is executed in
\* the background and ACCEPTED is returned.
Replied(k) == /\ stage = "postCommand" /\ kind = k
              /\ stage' \in {"ended", "generateCommandId"}
              /\ UNCHANGED <<command, delivered, entry, elapsed, watch, step, outcome, late>>

HandleStartSession == Replied("START_SESSION")
HandleStopSession == Replied("STOP_SESSION")
HandleUnlockConnector == Replied("UNLOCK_CONNECTOR")

NotSupported == /\ stage = "postCommand" /\ kind \notin Supported
                /\ stage' = "ended"
                /\ UNCHANGED <<command, delivered, entry, elapsed, watch, step, outcome, late>>
-----------------------------------------------------------------------------
(* CommandExecutor: the OCPP call *)

\* The callback context is cached and its change watched.  When cache.set
\* throws, the command was ACCEPTED and nobody will ever hear of it.
GenerateCommandId ==
    /\ stage = "generateCommandId"
    /\ \/ /\ stage' = "getCommandHandler" /\ entry' = "context" /\ watch' = "armed"
          /\ UNCHANGED lost
       \/ /\ stage' = "ended" /\ lost' = TRUE
          /\ UNCHANGED <<entry, watch>>
    /\ UNCHANGED <<command, delivered, elapsed, step, to, posted, marked, late>>

\* FAILED is to be posted: the station's OCPP version has no handler, ...
UnsupportedVersion ==
    /\ stage = "getCommandHandler"
    /\ stage' = "ended" /\ Decides("executor", "routing")
    /\ UNCHANGED <<command, delivered, entry, elapsed, watch, outcome>>

\* ... or the connector to unlock is not one of the station's.
UnknownConnector ==
    /\ stage = "getCommandHandler" /\ kind = "UNLOCK_CONNECTOR"
    /\ stage' = "ended" /\ Decides("executor", "routing")
    /\ UNCHANGED <<command, delivered, entry, elapsed, watch, outcome>>

\* Reading the sequence of remote start ids, or fetching the core's access
\* token, throws: nothing is sent and nothing is posted but, later, TIMEOUT.
PreparationThrows ==
    /\ stage = "getCommandHandler"
    /\ stage' = "ended"
    /\ UNCHANGED <<command, delivered, entry, elapsed, watch, step, outcome, late>>

\* The request for the core is posted, with a callback address for the answer.
CallCore(k) ==
    /\ stage = "getCommandHandler" /\ kind = k
    /\ stage' = "sendOCPPMessage" /\ delivered' \in BOOLEAN
    /\ UNCHANGED <<command, entry, elapsed, watch, step, outcome, late>>

SendStartSessionCommand == CallCore("START_SESSION")
SendStopSessionCommand == CallCore("STOP_SESSION")
SendUnlockConnectorCommand == CallCore("UNLOCK_CONNECTOR")

CallConfirmed ==
    /\ stage = "sendOCPPMessage" /\ delivered
    /\ stage' = "ended"
    /\ UNCHANGED <<command, delivered, entry, elapsed, watch, step, outcome, late>>

\* The core refuses, cannot be reached, or its confirmation is lost: FAILED is
\* to be posted, whatever the cache says by now.
CallFails ==
    /\ stage = "sendOCPPMessage"
    /\ stage' = "ended" /\ Decides("executor", "routing")
    /\ UNCHANGED <<command, delivered, entry, elapsed, watch, outcome>>
-----------------------------------------------------------------------------
(* The callback endpoint: CommandExecutor.handleAsyncCommandResponse *)

\* Mutant: only a missing entry makes an answer unexpected.
AnswerWhileCached(a) ==
    /\ delivered /\ step[a] = "idle"
    /\ Decides(a, IF entry # "none" THEN "looked" ELSE "done")
    /\ UNCHANGED <<command, stage, delivered, entry, elapsed, watch, outcome>>

Answer(a) ==
    /\ delivered /\ step[a] = "idle"
    /\ Decides(a, IF entry = "context" THEN "looked" ELSE "done")
    /\ UNCHANGED <<command, stage, delivered, entry, elapsed, watch, outcome>>

\* The partner is read; if it is gone, or the answer is not a valid one, the
\* answer is dropped.  The cache is not looked at again.
AnswerChecked(a, k) ==
    /\ step[a] = "looked" /\ kind = k
    /\ \E next \in {"routing", "done"} : step' = [step EXCEPT ![a] = next]
    /\ UNCHANGED <<command, stage, delivered, entry, elapsed, watch, outcome, late>>

HandleStartAnswer(a) == AnswerChecked(a, "START_SESSION")
HandleStopAnswer(a) == AnswerChecked(a, "STOP_SESSION")
HandleUnlockAnswer(a) == AnswerChecked(a, "UNLOCK_CONNECTOR")
-----------------------------------------------------------------------------
(* CommandsClientApi.postCommandResult *)

\* The result goes back to where the command came from as long as the cache
\* tells; later, to the partner itself.
ResolveRouting(p) ==
    /\ step[p] = "routing"
    /\ step' = [step EXCEPT ![p] = "marking"]
    /\ to' = [to EXCEPT ![p] = IF hub /\ entry = "context" THEN "roamingPartner" ELSE "partner"]
    /\ UNCHANGED <<command, stage, delivered, entry, elapsed, watch, posted, marked, late, lost>>

\* Setting the entry settles the watcher's promise, if it is still pending.
MarkResolved(p) ==
    /\ step[p] = "marking"
    /\ step' = [step EXCEPT ![p] = "posting"]
    /\ entry' = "resolved" /\ marked' = TRUE
    /\ IF watch = "armed" THEN watch' = "resolved" /\ late' = late \cup {"timer"}
                          ELSE UNCHANGED <<watch, late>>
    /\ UNCHANGED <<command, stage, delivered, elapsed, to, posted, lost>>

\* The cache fails, before or in that write: the result is not posted.
MarkFails(p) ==
    /\ step[p] \in {"routing", "marking"}
    /\ step' = [step EXCEPT ![p] = "done"] /\ lost' = TRUE
    /\ UNCHANGED <<command, stage, delivered, entry, elapsed, watch, to, posted, marked, late>>

Post(p) ==
    /\ step[p] = "posting"
    /\ step' = [step EXCEPT ![p] = "done"] /\ posted' = posted \cup {p}
    /\ UNCHANGED <<command, stage, delivered, entry, elapsed, watch, to, marked, late, lost>>

\* The request fails, received or not, and is not repeated.
PostFails(p) ==
    /\ step[p] = "posting"
    /\ step' = [step EXCEPT ![p] = "done"] /\ lost' = TRUE
    /\ posted' \in {posted, posted \cup {p}}
    /\ UNCHANGED <<command, stage, delivered, entry, elapsed, watch, to, marked, late>>
-----------------------------------------------------------------------------
(* The cache and its timers *)

\* Both the context and its watch last for config.commands.timeout.
Elapse ==
    /\ ~elapsed /\ elapsed' = TRUE
    /\ entry = "context" \/ watch = "armed"
    /\ UNCHANGED <<command, stage, delivered, entry, watch, step, outcome, late>>

\* The context goes when that has passed, "resolved" after five seconds.
Expire ==
    /\ entry # "none" /\ (entry = "context" => elapsed)
    /\ entry' = "none"
    /\ UNCHANGED <<command, stage, delivered, elapsed, watch, step, outcome, late>>

\* The watch ends with whatever is in the cache then.
Deadline ==
    /\ watch = "armed" /\ elapsed
    /\ watch' = entry
    /\ UNCHANGED <<command, stage, delivered, entry, elapsed, step, outcome, late>>

\* Mutant: an entry that has expired is taken for one that was resolved.
WatchEndsOnContext ==
    /\ watch \in Entries /\ watch' = "closed"
    /\ step' = IF watch = "context" THEN [step EXCEPT !["timer"] = "routing"] ELSE step
    /\ UNCHANGED <<command, stage, delivered, entry, elapsed, outcome, late>>

\* TIMEOUT is to be posted unless the change that was seen is the resolution.
WatchEnds ==
    /\ watch \in Entries /\ watch' = "closed"
    /\ step' = IF watch # "resolved" THEN [step EXCEPT !["timer"] = "routing"] ELSE step
    /\ UNCHANGED <<command, stage, delivered, entry, elapsed, outcome, late>>

\* The server dies and starts again: what it was doing is gone.
Die ==
    /\ \/ stage \notin {"postCommand", "ended"}
       \/ watch \notin {"off", "closed"}
       \/ \E p \in Posters : step[p] \notin {"idle", "done"}
    /\ stage' = IF stage = "postCommand" THEN stage ELSE "ended"
    /\ watch' = IF watch = "off" THEN "off" ELSE "closed"
    /\ step' = [p \in Posters |-> IF step[p] = "idle" THEN "idle" ELSE "done"]
    /\ lost' = TRUE
    /\ UNCHANGED <<command, delivered, entry, elapsed, to, posted, marked, late>>
-----------------------------------------------------------------------------
Executing == \/ HandleStartSession \/ HandleStopSession \/ HandleUnlockConnector
             \/ NotSupported \/ GenerateCommandId
             \/ UnsupportedVersion \/ UnknownConnector \/ PreparationThrows
             \/ SendStartSessionCommand \/ SendStopSessionCommand \/ SendUnlockConnectorCommand
             \/ CallConfirmed \/ CallFails

Answering(a) == \/ Answer(a)
                \/ HandleStartAnswer(a) \/ HandleStopAnswer(a) \/ HandleUnlockAnswer(a)

Posting(p) == \/ ResolveRouting(p) \/ MarkResolved(p) \/ MarkFails(p)
              \/ Post(p) \/ PostFails(p)

Next == \/ Executing
        \/ \E a \in Answers : Answering(a)
        \/ \E p \in Posters : Posting(p)
        \/ Elapse \/ Expire \/ Deadline \/ WatchEnds
        \/ Die

Spec == Init /\ [][Next]_vars

\* Timers fire, and a result that was begun is posted or fails.  No answer has
\* to come and no OCPP call has to end.
Fairness == /\ WF_vars(Elapse) /\ WF_vars(Deadline) /\ WF_vars(WatchEnds)
            /\ \A p \in Posters : WF_vars(Posting(p))

FairSpec == Spec /\ Fairness
-----------------------------------------------------------------------------
(* Properties *)

\* Nothing is begun for a command before its context is cached.
BeforeTheCache == stage \in {"postCommand", "generateCommandId"} =>
                     /\ entry = "none" /\ watch = "off" /\ ~delivered /\ ~marked
                     /\ \A p \in Posters : step[p] = "idle"

\* Once some result is marked, neither is the context cached any more nor does
\* the watcher still wait for a change.
ContextMeansUnresolved == entry = "context" \/ watch = "armed" => ~marked

\* Only a watch that ended without the resolution posts TIMEOUT.
TimeoutAfterWatch == /\ step["timer"] # "idle" => watch = "closed"
                     /\ "timer" \in late => watch \in {"resolved", "closed"}

\* Who came late has nothing under way.
LateIsIdle == /\ late = {} \/ marked
              /\ \A p \in late \ {"executor"} : p \notin posted /\ step[p] \in {"idle", "done"}

IdleHasPostedNothing == \A p \in Posters : step[p] = "idle" => p \notin posted

\* The inductive invariant: all of the above hold together.
IInv == /\ TypeOK
        /\ BeforeTheCache
        /\ ContextMeansUnresolved
        /\ entry = "resolved" => marked
        /\ TimeoutAfterWatch
        /\ LateIsIdle
        /\ IdleHasPostedNothing

\* Once a result of the command is marked, no answer that comes in after it and
\* no timeout that falls due after it is posted as another result, not even
\* when the mark has left the cache again; only the failure of the OCPP call,
\* which does not look at the cache, may still contradict it.  It is about the
\* checks of CommandExecutor.handleAsyncCommandResponse and generateCommandId.
LateResultsAreFailures == late \cap posted \subseteq {"executor"}

\* Every command whose callback is awaited gets a result in the end (TIMEOUT if
\* nothing better), unless the process dies or a request of it fails.  It is
\* about the cache.onChange of CommandExecutor.generateCommandId.
Settles == watch = "armed" ~> posted # {} \/ lost

\* What the comment on swapRoutingForCallback says: the callback of a command is
\* routed by the swapped headers of the command, back to the roaming partner who
\* sent it.  Stated of the TIMEOUT.
\* It does not hold (README, section 6), and no configuration lists it.
TimeoutGoesBack == hub /\ "timer" \in posted => to["timer"] = "roamingPartner"
=============================================================================
