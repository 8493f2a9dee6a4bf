-------------------------- MODULE RetryObligation --------------------------
(***************************************************************************)
(* What the Gireve retry outbox promises, without rows, locks or runs.  A  *)
(* failed push whose payload was stored is an obligation: it is owed until *)
(* the partner has answered that very payload, unless a later failure of   *)
(* the same resource takes its place ("latest wins").                      *)
(***************************************************************************)
EXTENDS Naturals

CONSTANTS Resources,   \* dedupe keys: (module, partner, resource type, id)
          Versions     \* successive payloads of one resource

VARIABLES owed,        \* owed[r]: the payloads still to deliver, at most one
          answered     \* answered[r]: the payloads the partner has answered

vars == <<owed, answered>>

Init == /\ owed = [r \in Resources |-> {}]
        /\ answered = [r \in Resources |-> {}]

\* The partner answers a push of v, whether it was owed or not.
Answer(r, v) == /\ answered' = [answered EXCEPT ![r] = @ \cup {v}]
                /\ UNCHANGED owed

\* A push of v failed and its payload is stored in place of any other.
Owe(r, v) == /\ owed' = [owed EXCEPT ![r] = {v}]
             /\ UNCHANGED answered

\* Only an answered payload stops being owed.
Discharge(r) == /\ owed[r] \subseteq answered[r]
                /\ owed' = [owed EXCEPT ![r] = {}]
                /\ UNCHANGED answered

Next == \E r \in Resources :
           \/ \E v \in Versions : Answer(r, v) \/ Owe(r, v)
           \/ Discharge(r)

Spec == Init /\ [][Next]_vars
=============================================================================
