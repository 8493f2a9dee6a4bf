------------------------------- MODULE OwnToken -------------------------------
(***************************************************************************)
(* What partners know of one own token: it belongs to tenants, and each    *)
(* tenant has partners.  A link to a tenant makes a PUT to the partners of *)
(* all its tenants, an update a PATCH, the end of a link or of the token   *)
(* one that makes it invalid.  A handler sends what its notification held, *)
(* and a push that fails is not repeated.                                  *)
(***************************************************************************)
EXTENDS Naturals, FiniteSetsExt

CONSTANTS Tenants,
          PartnersOf,   \* PartnersOf[t]: those of tenant t that have a tokens receiver
          PutOnly,      \* Gireve, which is sent a PUT in place of a PATCH
          Senders,      \* bound: handlers at a time
          MaxWrites     \* bound: writes of the token

ASSUME OwnTokenAssumption == MaxWrites \in Nat

VARIABLES auth,      \* the row: its version, 0 when there is none, its status, and whether its
                     \* additionalInfo has what a whole token needs
          links,     \* the tenants it is linked to
          senders,   \* what each handler is about to send
          knows,     \* knows[t][p]: what p knows of it as tenant t's
          informed,  \* history: tenants whose partners were reached by the last change, sent alone
          writes

ownTokenVars == <<auth, links, senders, knows, informed, writes>>

NoAuth == [version |-> 0, accepted |-> FALSE, whole |-> FALSE]
Auths == [version : 0..MaxWrites, accepted : BOOLEAN, whole : BOOLEAN]
Unknown == [version |-> 0, valid |-> FALSE]
AllPartners == UNION {PartnersOf[t] : t \in Tenants}
Pairs(ts) == {x \in ts \X AllPartners : x[2] \in PartnersOf[x[1]]}
Messages == [kind : {"none", "put", "patch", "invalidate"}, body : Auths,
             to : SUBSET Pairs(Tenants), about : SUBSET Tenants, alone : BOOLEAN]
Silent == [kind |-> "none", body |-> NoAuth, to |-> {}, about |-> {}, alone |-> FALSE]

OwnTokenTypeOK ==
    /\ auth \in Auths /\ links \subseteq Tenants
    /\ senders \in [Senders -> Messages]
    /\ knows \in [Tenants -> [AllPartners -> [version : 0..MaxWrites, valid : BOOLEAN]]]
    /\ informed \subseteq Tenants /\ writes \in 0..MaxWrites

OwnTokenInit ==
    /\ auth = NoAuth /\ links = {}
    /\ senders = [h \in Senders |-> Silent]
    /\ knows = [t \in Tenants |-> [p \in AllPartners |-> Unknown]]
    /\ informed = Tenants /\ writes = 0
-----------------------------------------------------------------------------
(* The row and its links, and what AuthorizationNotify calls *)

WritesToken == writes < MaxWrites /\ writes' = writes + 1

\* The handler ends at once if the notification names no tenant; its body is the row it holds.
\* toDto throws for a token without its contract or issuer.
Notifies(h, kind, body, ts) ==
    LET others == {g \in Senders \ {h} : senders[g] # Silent}
        to == IF kind = "put" /\ ~body.whole THEN {} ELSE Pairs(ts)
    IN  /\ senders[h] = Silent
        /\ senders' = [g \in Senders |->
             CASE g = h -> IF to = {} THEN Silent
                           ELSE [kind |-> kind, body |-> body, to |-> to, about |-> ts, alone |-> others = {}]
               [] g \in others -> [senders[g] EXCEPT !.alone = FALSE]
               [] OTHER -> Silent]
        /\ informed' = informed \ ts
        /\ UNCHANGED knows

\* The row's own insert has no trigger.
CreateToken == /\ WritesToken /\ auth.version = 0
               /\ \E accepted, whole \in BOOLEAN :
                    auth' = [version |-> writes', accepted |-> accepted, whole |-> whole]
               /\ UNCHANGED <<links, senders, knows, informed>>

LinkTenant(h, t) == /\ WritesToken /\ auth.version # 0 /\ t \notin links
                    /\ links' = links \cup {t}
                    /\ Notifies(h, "put", auth, links')
                    /\ UNCHANGED auth

\* Mutant: the tenants that are left are told, as of an update.
UnlinkTellingAll(h, t) == /\ WritesToken /\ auth.version # 0 /\ t \in links
                          /\ links' = links \ {t}
                          /\ Notifies(h, "invalidate", auth, links)
                          /\ UNCHANGED auth

\* Only the tenant that is unlinked is told.
UnlinkTenant(h, t) == /\ WritesToken /\ auth.version # 0 /\ t \in links
                      /\ links' = links \ {t}
                      /\ Notifies(h, "invalidate", auth, {t})
                      /\ UNCHANGED auth

UpdateToken(h) == /\ WritesToken /\ auth.version # 0
                  /\ \E accepted, whole \in BOOLEAN :
                       auth' = [version |-> writes', accepted |-> accepted, whole |-> whole]
                  /\ Notifies(h, "patch", auth', links)
                  /\ UNCHANGED links

\* Mutant: the notification is made after the delete, when the links have gone.
DeleteTokenAfter(h) == /\ WritesToken /\ auth.version # 0
                       /\ auth' = NoAuth /\ links' = {}
                       /\ Notifies(h, "invalidate", auth, {})

\* Before the delete the links are there; those that go with the row notify without its data,
\* and toPartialDto throws.
DeleteToken(h) == /\ WritesToken /\ auth.version # 0
                  /\ auth' = NoAuth /\ links' = {}
                  /\ Notifies(h, "invalidate", auth, links)
-----------------------------------------------------------------------------
(* The handlers *)

\* Mutant: broadcastDeleteToken sends the token's status.
SaysStatus(sender, k) ==
    [version |-> sender.body.version, valid |-> sender.body.accepted]

\* What a partner that accepts the request knows then.
Says(sender, k) ==
    [version |-> sender.body.version, valid |-> sender.kind # "invalidate" /\ sender.body.accepted]

\* A PATCH of a token that the partner does not know changes nothing.
Understands(sender, t, p) == sender.kind = "put" \/ p \in PutOnly \/ knows[t][p].version # 0

Sent(h, x) == LET rest == senders[h].to \ {x}
              IN  senders' = [senders EXCEPT ![h] = IF rest = {} THEN Silent ELSE [@ EXCEPT !.to = rest]]

\* One request of broadcastToClients; the last one that is left ends the handler.
Arrived(h, x) ==
    LET t == x[1]
        p == x[2]
    IN  /\ x \in senders[h].to
        /\ knows' = IF Understands(senders[h], t, p)
                    THEN [knows EXCEPT ![t][p] = Says(senders[h], @)] ELSE knows
        /\ Sent(h, x)
        /\ informed' = IF senders[h].alone /\ senders[h].to = {x} THEN informed \cup senders[h].about ELSE informed
        /\ UNCHANGED <<auth, links, writes>>

\* Logged, and passed over.
Lost(h, x) == /\ x \in senders[h].to
              /\ LET rest == senders[h].to \ {x}
                 IN  senders' = [senders EXCEPT ![h] =
                        IF rest = {} THEN Silent ELSE [@ EXCEPT !.to = rest, !.alone = FALSE]]
              /\ UNCHANGED <<auth, links, knows, informed, writes>>

OwnTokenNext ==
    \/ CreateToken
    \/ \E h \in Senders :
          \/ UpdateToken(h) \/ DeleteToken(h)
          \/ \E t \in Tenants : LinkTenant(h, t) \/ UnlinkTenant(h, t)
          \/ \E x \in Pairs(Tenants) : Arrived(h, x) \/ Lost(h, x)

OwnTokenSpec == OwnTokenInit /\ [][OwnTokenNext]_ownTokenVars
-----------------------------------------------------------------------------
(* Properties *)

\* When no handler is under way, and the last change of what a tenant's partners are told was
\* told alone and arrived: a partner that has ever been told of the token knows its row, and
\* a tenant that is no longer linked has no partner for which the token is valid.  What a PUT
\* to all tenants, a PATCH of the whole row, and the notification before the delete agree on.
TokenIsTold ==
    (\A h \in Senders : senders[h] = Silent) =>
        \A x \in Pairs(informed) :
            LET known == knows[x[1]][x[2]]
            IN  IF x[1] \in links
                THEN known.version # 0 => known = [version |-> auth.version, valid |-> auth.accepted]
                ELSE ~known.valid

\* The inductive invariant: the partners of the tenants that are informed know what is so, and
\* one sender alone leaves what is so with each partner it has reached.
KnowsWhatIsSo(x) == IF x[1] \in links
                    THEN knows[x[1]][x[2]].version # 0 =>
                           knows[x[1]][x[2]] = [version |-> auth.version, valid |-> auth.accepted]
                    ELSE ~knows[x[1]][x[2]].valid
SendsWhatIsSo(h) ==
    senders[h] # Silent =>
      /\ senders[h].kind # "none" /\ senders[h].body.version # 0
      /\ senders[h].to # {} /\ senders[h].to \subseteq Pairs(senders[h].about)
      /\ senders[h].about \cap informed = {}
      /\ senders[h].alone =>
           /\ \A g \in Senders \ {h} : senders[g] = Silent
           /\ IF senders[h].kind = "invalidate" THEN senders[h].about \cap links = {}
              ELSE senders[h].about = links /\ senders[h].body = auth
           /\ \A x \in Pairs(senders[h].about) \ senders[h].to : KnowsWhatIsSo(x)
OwnTokenIInv ==
    /\ OwnTokenTypeOK
    /\ auth.version = 0 => links = {}
    /\ \A x \in Pairs(Tenants) : knows[x[1]][x[2]].version = 0 => ~knows[x[1]][x[2]].valid
    /\ \A h \in Senders : SendsWhatIsSo(h)
    /\ \A x \in Pairs(informed) : KnowsWhatIsSo(x)
=============================================================================
