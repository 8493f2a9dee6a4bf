------------------------------ MODULE MCPushed -------------------------------
(***************************************************************************)
(* What is pushed to partners, for TLC: the session of a transaction and,  *)
(* once it has ended, its CDR, what the two say, and what an own           *)
(* location's partners are told.  They share no row in these models, so an *)
(* execution is one of one of them.                                        *)
(***************************************************************************)
EXTENDS CdrDelivery, SessionBroadcast, OwnLocation, TransactionMessages

VARIABLE part
pushedVars == <<vars, sessionVars, ownLocationVars, messageVars, part>>

\* The other parts stay at one of their initial states.
PushedInit == /\ Init /\ SessionInit /\ OwnLocationInit /\ MessagesInit
              /\ part \in {"cdr", "session", "location", "messages"}
              /\ part = "cdr" \/ id = [h \in Handlers |-> CHOOSE f \in Formats : TRUE]
              /\ part = "location" \/ there = CHOOSE f \in FirstRows : TRUE
              /\ price = {MaxPrice}
              /\ part = "messages" \/ ofHub

OfCdr == part = "cdr" /\ Next /\ UNCHANGED <<part, sessionVars, ownLocationVars, messageVars>>
OfSession ==
    part = "session" /\ SessionNext /\ UNCHANGED <<part, vars, ownLocationVars, messageVars>>
OfLocation ==
    part = "location" /\ OwnLocationNext /\ UNCHANGED <<part, vars, sessionVars, messageVars>>
OfMessages ==
    part = "messages" /\ MessagesNext /\ UNCHANGED <<part, vars, sessionVars, ownLocationVars>>

PushedSpec == PushedInit /\ [][OfCdr \/ OfSession \/ OfLocation \/ OfMessages]_pushedVars
-----------------------------------------------------------------------------
\* What deleteLocationOCPI reports as told was told; and an EVSE that a partner was told is
\* REMOVED is marked so here, unless it appeared after the lookup: then the two sides differ.
RemovalTellsAll == RemovalIInv /\ RemovalIsTold /\ OnlyLateDiverge

\* Session messages and CDRs agree with each other, with the tariff they list and with the energy
\* at the end.
CdrIsTrue == /\ MessagesIInv /\ CdrAgreesWithSession /\ CdrAgreesWithTariff
             /\ CdrHasAllEnergy /\ CdrStaysTheSame
=============================================================================
