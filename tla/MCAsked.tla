------------------------------ MODULE MCAsked ------------------------------
(***************************************************************************)
(* What the server asks its partners for and awaits, for TLC: the answer   *)
(* to a real-time authorization and the pages of a pull.  The two share no *)
(* row, so an execution is one of either.                                  *)
(***************************************************************************)
EXTENDS ReceivedTokens, LocationsPull

MCPutContents == {{"contract", "valid"}, {"contract", "visual", "group", "valid"}}
MCPatchContents == {{"visual"}, {"contract", "invalid"}}
MCVerdicts == {"ALLOWED", "BLOCKED"}
MCListed == <<"l1", "l2">>

VARIABLE asked
askedVars == <<tokenVars, pullVars, asked>>

\* The other part stays at one of its initial states.
AskedInit == /\ TokensInit /\ PullInit
             /\ asked \in {"token", "pages"}
             /\ asked = "pages" \/ shown = [l \in Locations |-> "absent"]

Token == asked = "token" /\ TokensNext /\ UNCHANGED <<asked, pullVars>>
Pages == asked = "pages" /\ PullNext /\ UNCHANGED <<asked, tokenVars>>

AskedSpec == /\ AskedInit /\ [][Token \/ Pages]_askedVars
             /\ TokensFairness /\ PullFairness
-----------------------------------------------------------------------------
\* Tokens hold what their owners said, and a call carries only its own partner's words; of a
\* full pull, each location that is listed throughout is seen or still ahead.
AskedIInv == TokensIInv /\ PullIInv

\* A request to all partners ends, however slow or silent they are, and so does a pull,
\* unless the link of a page has sent it back to the beginning.
AskingEnds == /\ \A c \in Calls : tokenCall[c].all ~> ~tokenCall[c].all
              /\ (pull.at \notin Resting) ~> (pull.at \in Resting \/ pull.restarted)
=============================================================================
