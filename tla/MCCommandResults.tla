-------------------------- MODULE MCCommandResults --------------------------
(* Small instances for TLC of a command's results and of what it contains, one of them in a    *)
(* behaviour: the variable part says which.                                                     *)
EXTENDS CommandResults, CommandDispatch, TLC

\* One partner speaks for another party too.
MCDirectOf == ("hub" :> "hub") @@ ("roaming" :> "hub")

\* Of the first two EVSEs, and of the second connector, the id of the row is not the number that the
\* station, or the partner, has for it; of the third EVSE and the first connector it is.
MCEvseRows == {[id |-> 1, evseTypeId |-> 2], [id |-> 2, evseTypeId |-> 1], [id |-> 3, evseTypeId |-> 3]}
MCConnectorRows == {[id |-> 1, evseId |-> 1, connectorId |-> 1, evseTypeConnectorId |-> 1],
                    [id |-> 2, evseId |-> 2, connectorId |-> 3, evseTypeConnectorId |-> 1]}

MCAt(what, e, k) == [kind |-> what, evse |-> e, connector |-> k, session |-> "none"]
MCStop(t) == [kind |-> "STOP", evse |-> 0, connector |-> 0, session |-> t]

\* A command of any kind and one that may meet it: an other start, or a stop of its session.
MCGiven == (1 :> {MCAt("START", 1, 0), MCAt("START", 2, 1), MCAt("UNLOCK", 2, 1),
                  MCAt("UNLOCK", 1, 0), MCAt("UNLOCK", 3, 2)})
        @@ (2 :> {MCAt("START", 1, 2), MCStop("t1"), MCStop("t2")})

VARIABLE part
commandVars == <<vars, dispatchVars, part>>

\* The other part stays at one of its initial states.
CommandInit == /\ Init /\ DispatchInit /\ part \in {"results", "content"}
               /\ part = "content" \/ (protocol = "other" /\ tokenOf = "hub" /\
                                       authorization.tenantPartner = Nobody)
               /\ part = "results" \/ (kind = "RESERVE_NOW" /\ hub)

Results == part = "results" /\ Next /\ UNCHANGED <<part, dispatchVars>>
Content == part = "content" /\ DispatchNext /\ UNCHANGED <<part, vars>>

CommandNext == Results \/ Content
CommandSpec == CommandInit /\ [][CommandNext]_commandVars /\ Fairness
-----------------------------------------------------------------------------
\* A command is asked of the station for the party that may give it, and of what it names but for
\* the two that confuse ids (a start of 1.6, an unlock of 2.0.1); and ACCEPTED is told of it only
\* if the station accepted what it was asked.
DoneAsGiven == /\ DispatchIInv /\ StarterMayStop /\ StopsOwnSessions
               /\ ReachesTheNamed /\ AcceptedWasDone
=============================================================================
