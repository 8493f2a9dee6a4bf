------------------------ MODULE CredentialsHandshake ------------------------
(***************************************************************************)
(* How this server and one partner exchange the tokens with which each     *)
(* authenticates at the other: CredentialsService, its endpoints, and the  *)
(* token lookup of AuthMiddleware.                                         *)
(*                                                                         *)
(* Every operation reads the partner's profile once, waits for the partner *)
(* and writes the WHOLE profile back.  Nothing locks the row between.      *)
(* The partner is external: it does what OCPI asks of the other side.      *)
(***************************************************************************)
EXTENDS Naturals, FiniteSets

CONSTANTS Ops,        \* bound: operations under way at a time
          MaxOps,     \* bound: operations in all
          MaxFaults   \* bound: requests lost or failed, and crashes

ASSUME BoundsAssumption == MaxOps \in Nat /\ MaxFaults \in Nat

VARIABLES profile,  \* the row's partnerProfileOCPI
          op,       \* op[o]: an operation's kind, position and local variables
          partner,  \* what the partner holds: its token for us, its own tokens it accepts
          started,  \* how many operations have begun
          minted,   \* the last token this server generated
          issued,   \* the last token the partner generated
          faults,
          stored,   \* history: the server tokens the row has held
          strained  \* history: an operation began beside another or after a fault

credentialsVars == <<profile, op, partner, started, minted, issued, faults, stored, strained>>

None == 0
PartnerKinds == {"post", "put", "delete"}
AdminKinds == {"generate", "register", "regenerate", "unregister"}
Steps == {"idle", "authenticate", "read", "versions", "store", "answer", "ask", "replace",
          "erase", "withdraw", "remove"}

\* "unset": the column is null; "erased": {inactive: true}; "deleted": there is no row.
Profiles == [state : {"unset", "set", "erased", "deleted"}, server : Nat, cred : Nat]
Blank(state) == [state |-> state, server |-> None, cred |-> None]

OpType == [kind : PartnerKinds \cup AdminKinds \cup {"none"}, at : Steps,
           with : Nat, given : Nat, copy : Profiles]
PartnerType == [knows : Nat, accepts : SUBSET Nat]

Idle == [kind |-> "none", at |-> "idle", with |-> None, given |-> None, copy |-> Blank("unset")]
Running == {o \in Ops : op[o].at # "idle"}

CredentialsTypeOK ==
          /\ profile \in Profiles
          /\ op \in [Ops -> OpType]
          /\ partner \in PartnerType
          /\ started \in Nat /\ minted \in Nat /\ issued \in Nat /\ faults \in Nat
          /\ stored \in SUBSET Nat /\ strained \in BOOLEAN

\* A partner the core has just created, or one that was registered by hand.
CredentialsInit ==
        /\ \/ /\ profile = Blank("unset")
              /\ partner = [knows |-> None, accepts |-> {}]
              /\ minted = 0 /\ issued = 0
           \/ /\ profile = [state |-> "set", server |-> 1, cred |-> 1]
              /\ partner = [knows |-> 1, accepts |-> {1}]
              /\ minted = 1 /\ issued = 1
        /\ op = [o \in Ops |-> Idle]
        /\ started = 0 /\ faults = 0 /\ strained = FALSE
        /\ stored = {profile.server}
-----------------------------------------------------------------------------
(* Steps that all operations share *)

Goes(o, at) == op' = [op EXCEPT ![o].at = at]
OpEnds(o) == op' = [op EXCEPT ![o] = Idle]
NoFault == UNCHANGED faults
Fault == faults < MaxFaults /\ faults' = faults + 1

Starts(o, kind, at, with, given) ==
    /\ op[o].at = "idle" /\ started < MaxOps
    /\ started' = started + 1
    /\ strained' = (strained \/ Running # {} \/ faults > 0)
    /\ op' = [op EXCEPT ![o] = [Idle EXCEPT !.kind = kind, !.at = at, !.with = with, !.given = given]]

\* UPDATE_TENANT_PARTNER_PROFILE replaces the column; without a row it changes nothing.
WritesProfile(value) ==
    /\ profile' = IF profile.state = "deleted" THEN profile ELSE value
    /\ stored' = stored \cup {profile'.server}

\* Mutant: a PUT is answered before, or without, the write.
VersionsThenAnswer(o) ==
    /\ op[o].at = "versions" /\ op[o].copy.cred \in partner.accepts
    /\ minted' = minted + 1
    /\ op' = [op EXCEPT ![o].at = IF op[o].kind = "put" THEN "answer" ELSE "store",
                        ![o].copy.server = minted']
    /\ UNCHANGED <<profile, partner, started, issued, faults, stored, strained>>

\* getVersionDetails asks the partner with the token the operation holds, twice; the first
\* answer changes nothing, so the two requests are one step.  A new token is generated next.
Versions(o) ==
    /\ op[o].at = "versions" /\ op[o].copy.cred \in partner.accepts
    /\ minted' = minted + 1
    /\ op' = [op EXCEPT ![o].at = "store", ![o].copy.server = minted']
    /\ UNCHANGED <<profile, partner, started, issued, faults, stored, strained>>

VersionsFail(o) ==
    /\ op[o].at = "versions"
    /\ \/ op[o].copy.cred \notin partner.accepts /\ NoFault
       \/ Fault
    /\ OpEnds(o)
    /\ UNCHANGED <<profile, partner, started, minted, issued, stored, strained>>

\* Mutant: the partner's new token is not part of what is stored.
StoreServerTokenOnly(o) ==
    /\ op[o].at = "store"
    /\ WritesProfile([op[o].copy EXCEPT !.cred = profile.cred])
    /\ Goes(o, IF op[o].kind \in {"register", "regenerate"} THEN "ask" ELSE "answer")
    /\ UNCHANGED <<partner, started, minted, issued, faults, strained>>

\* post, put and generate answer once the profile is stored; register and regenerate ask the partner.
Store(o) ==
    /\ op[o].at = "store"
    /\ WritesProfile(op[o].copy)
    /\ Goes(o, IF op[o].kind \in {"register", "regenerate"} THEN "ask" ELSE "answer")
    /\ UNCHANGED <<partner, started, minted, issued, faults, strained>>

\* A request to the database fails before or after its commit.
ProfileWriteFails(o) ==
    /\ op[o].at \in {"store", "replace"} /\ Fault
    /\ \/ WritesProfile(op[o].copy)
       \/ UNCHANGED <<profile, stored>>
    /\ OpEnds(o)
    /\ UNCHANGED <<partner, started, minted, issued, strained>>

\* The process stops; what it had sent may have arrived, which the failing steps cover.
Crash ==
    /\ Running # {} /\ Fault
    /\ op' = [o \in Ops |-> Idle]
    /\ UNCHANGED <<profile, partner, started, minted, issued, stored, strained>>
-----------------------------------------------------------------------------
(* Requests of the partner: postCredentials, putCredentials, deleteCredentials *)

PartnerSends(o, kind) ==
    /\ partner.knows # None
    /\ IF kind = "delete"
       THEN /\ Starts(o, kind, "authenticate", partner.knows, None)
            /\ UNCHANGED <<partner, issued>>
       ELSE /\ issued' = issued + 1
            /\ partner' = [partner EXCEPT !.accepts = @ \cup {issued'}]
            /\ Starts(o, kind, "authenticate", partner.knows, issued')
    /\ UNCHANGED <<profile, minted, faults, stored>>

\* GET_TENANT_PARTNER_BY_SERVER_TOKEN finds the profile that contains the token.
Authentic(o) == profile.state = "set" /\ profile.server = op[o].with

Adopts(o) == op' = [op EXCEPT ![o].at = "versions", ![o].copy = [profile EXCEPT !.cred = op[o].given]]

PostAdmitted(o) ==
    /\ op[o].at = "authenticate" /\ op[o].kind = "post" /\ Authentic(o)
    /\ profile.cred = None
    /\ Adopts(o)
    /\ UNCHANGED <<profile, partner, started, minted, issued, faults, stored, strained>>

PutAdmitted(o) ==
    /\ op[o].at = "authenticate" /\ op[o].kind = "put" /\ Authentic(o)
    /\ profile.cred # None
    /\ Adopts(o)
    /\ UNCHANGED <<profile, partner, started, minted, issued, faults, stored, strained>>

DeleteAdmitted(o) ==
    /\ op[o].at = "authenticate" /\ op[o].kind = "delete" /\ Authentic(o)
    /\ Goes(o, "erase")
    /\ UNCHANGED <<profile, partner, started, minted, issued, faults, stored, strained>>

\* An unknown token, AlreadyRegistered, NotRegistered; or the lookup fails, the version or a role does not match.
NotAdmitted(o) ==
    /\ op[o].at = "authenticate"
    /\ \/ /\ \/ ~Authentic(o)
             \/ op[o].kind = "post" /\ profile.cred # None
             \/ op[o].kind = "put" /\ profile.cred = None
          /\ NoFault
       \/ Fault
    /\ OpEnds(o)
    /\ UNCHANGED <<profile, partner, started, minted, issued, stored, strained>>

\* deleteCredentials passes {inactive: true} as the new profile.
Erase(o) ==
    /\ op[o].at = "erase"
    /\ IF profile.state = "deleted" THEN OpEnds(o) ELSE Goes(o, "answer")
    /\ WritesProfile(Blank("erased"))
    /\ UNCHANGED <<partner, started, minted, issued, faults, strained>>

EraseFails(o) ==
    /\ op[o].at = "erase" /\ Fault
    /\ \/ WritesProfile(Blank("erased"))
       \/ UNCHANGED <<profile, stored>>
    /\ OpEnds(o)
    /\ UNCHANGED <<partner, started, minted, issued, strained>>

\* The answer arrives: the partner uses the new token and accepts only its own newest one.
\* generate's answer goes to an administrator, who hands token A to the partner.
Answer(o) ==
    /\ op[o].at = "answer"
    /\ partner' = CASE op[o].kind = "delete" -> [knows |-> None, accepts |-> {}]
                    [] op[o].kind = "generate" -> [partner EXCEPT !.knows = op[o].copy.server]
                    [] OTHER -> [knows |-> op[o].copy.server, accepts |-> {op[o].given}]
    /\ OpEnds(o)
    /\ UNCHANGED <<profile, started, minted, issued, faults, stored, strained>>

\* The answer is lost: the partner goes on with its old token and accepts both of its own.
AnswerLost(o) ==
    /\ op[o].at = "answer" /\ Fault /\ OpEnds(o)
    /\ UNCHANGED <<profile, partner, started, minted, issued, stored, strained>>
-----------------------------------------------------------------------------
(* Requests of an administrator *)

\* For register the partner has made a token A of its own and given it to the administrator.
AdminCalls(o, kind) ==
    /\ IF kind = "register"
       THEN /\ issued' = issued + 1
            /\ partner' = [partner EXCEPT !.accepts = @ \cup {issued'}]
            /\ Starts(o, kind, "read", None, issued')
       ELSE /\ Starts(o, kind, "read", None, None)
            /\ UNCHANGED <<partner, issued>>
    /\ UNCHANGED <<profile, minted, faults, stored>>

ReadToGenerate(o) ==
    /\ op[o].at = "read" /\ op[o].kind = "generate" /\ profile.state = "unset"
    /\ minted' = minted + 1
    /\ op' = [op EXCEPT ![o].at = "store",
                        ![o].copy = [state |-> "set", server |-> minted', cred |-> None]]
    /\ UNCHANGED <<profile, partner, started, issued, faults, stored, strained>>

\* The profile must exist for its version; it must not have credentials.
ReadToRegister(o) ==
    /\ op[o].at = "read" /\ op[o].kind = "register"
    /\ profile.state = "set" /\ profile.cred = None
    /\ Adopts(o)
    /\ UNCHANGED <<profile, partner, started, minted, issued, faults, stored, strained>>

\* Without credentials the requests to the partner that follow cannot be made.
ReadToRenewOrLeave(o) ==
    /\ op[o].at = "read" /\ op[o].kind \in {"regenerate", "unregister"}
    /\ profile.state = "set" /\ profile.cred # None
    /\ op' = [op EXCEPT ![o].at = IF op[o].kind = "regenerate" THEN "versions" ELSE "withdraw",
                        ![o].copy = profile]
    /\ UNCHANGED <<profile, partner, started, minted, issued, faults, stored, strained>>

ReadRefused(o) ==
    /\ op[o].at = "read"
    /\ \/ /\ ~ \/ op[o].kind = "generate" /\ profile.state = "unset"
               \/ op[o].kind = "register" /\ profile.state = "set" /\ profile.cred = None
               \/ op[o].kind \in {"regenerate", "unregister"} /\ profile.state = "set" /\ profile.cred # None
          /\ NoFault
       \/ Fault
    /\ OpEnds(o)
    /\ UNCHANGED <<profile, partner, started, minted, issued, stored, strained>>

\* The partner takes a POST or PUT whose token it accepts, once it has reached this server's
\* version endpoint with the token it is sent.
Takes(o) == /\ op[o].copy.cred \in partner.accepts
            /\ profile.state = "set" /\ profile.server = op[o].copy.server

\* The partner answers with its token C, which replaces token A or the token in use.
Ask(o) ==
    /\ op[o].at = "ask" /\ Takes(o)
    /\ issued' = issued + 1
    /\ partner' = [knows |-> op[o].copy.server, accepts |-> {issued'}]
    /\ op' = [op EXCEPT ![o].at = "replace", ![o].copy.cred = issued']
    /\ UNCHANGED <<profile, started, minted, faults, stored, strained>>

\* The partner refuses, the request is lost, or its answer is.
AskFails(o) ==
    /\ op[o].at = "ask"
    /\ \/ ~Takes(o) /\ NoFault /\ UNCHANGED <<partner, issued>>
       \/ Fault /\ UNCHANGED <<partner, issued>>
       \/ /\ Takes(o) /\ Fault
          /\ issued' = issued + 1
          /\ partner' = [knows |-> op[o].copy.server, accepts |-> {issued'}]
    /\ OpEnds(o)
    /\ UNCHANGED <<profile, started, minted, stored, strained>>

\* Mutant: token A stays the token to use at the partner.
ReplaceForgotten(o) ==
    /\ op[o].at = "replace"
    /\ OpEnds(o)
    /\ UNCHANGED <<profile, partner, started, minted, issued, faults, stored, strained>>

Replace(o) ==
    /\ op[o].at = "replace"
    /\ WritesProfile(op[o].copy)
    /\ OpEnds(o)
    /\ UNCHANGED <<partner, started, minted, issued, faults, strained>>

Withdraw(o) ==
    /\ op[o].at = "withdraw" /\ op[o].copy.cred \in partner.accepts
    /\ partner' = [knows |-> None, accepts |-> {}]
    /\ Goes(o, "remove")
    /\ UNCHANGED <<profile, started, minted, issued, faults, stored, strained>>

WithdrawFails(o) ==
    /\ op[o].at = "withdraw"
    /\ \/ op[o].copy.cred \notin partner.accepts /\ NoFault /\ UNCHANGED partner
       \/ Fault /\ partner' \in {partner, [knows |-> None, accepts |-> {}]}
    /\ OpEnds(o)
    /\ UNCHANGED <<profile, started, minted, issued, stored, strained>>

\* DELETE_TENANT_PARTNER_BY_ID
RemovePartner(o) ==
    /\ op[o].at = "remove"
    /\ profile' = Blank("deleted")
    /\ OpEnds(o)
    /\ UNCHANGED <<partner, started, minted, issued, faults, stored, strained>>

RemoveFails(o) ==
    /\ op[o].at = "remove" /\ Fault
    /\ profile' \in {profile, Blank("deleted")}
    /\ OpEnds(o)
    /\ UNCHANGED <<partner, started, minted, issued, stored, strained>>
-----------------------------------------------------------------------------
Step(o) == \/ \E kind \in PartnerKinds : PartnerSends(o, kind)
           \/ \E kind \in AdminKinds : AdminCalls(o, kind)
           \/ PostAdmitted(o) \/ PutAdmitted(o) \/ DeleteAdmitted(o) \/ NotAdmitted(o)
           \/ ReadToGenerate(o) \/ ReadToRegister(o) \/ ReadToRenewOrLeave(o) \/ ReadRefused(o)
           \/ Versions(o) \/ VersionsFail(o)
           \/ Store(o) \/ ProfileWriteFails(o) \/ Answer(o) \/ AnswerLost(o)
           \/ Ask(o) \/ AskFails(o) \/ Replace(o)
           \/ Erase(o) \/ EraseFails(o)
           \/ Withdraw(o) \/ WithdrawFails(o) \/ RemovePartner(o) \/ RemoveFails(o)

CredentialsNext == Crash \/ \E o \in Ops : Step(o)
CredentialsSpec == CredentialsInit /\ [][CredentialsNext]_credentialsVars
-----------------------------------------------------------------------------
(* Properties *)

IsRegistered == profile.state = "set" /\ profile.cred # None
PartnerReachesUs == profile.state = "set" /\ partner.knows = profile.server
WeReachPartner == IsRegistered /\ profile.cred \in partner.accepts

\* A token is stored before the partner is told of it: whatever overlaps, fails or crashes,
\* the partner never holds a server token that the row has not held (postCredentials,
\* registerCredentialsTokenA and regenerateCredentialsToken all update before they send).
ToldWasStored == profile.state # "deleted" => partner.knows \in stored \cup {None}

\* The inductive form: whoever is about to tell the partner has stored what it tells.
Announces(o) == \/ op[o].at \in {"ask", "replace"}
                \/ op[o].at = "answer" /\ op[o].kind # "delete"
AnnouncedWasStored ==
    \A o \in Ops : /\ op[o].at = "erase" => op[o].kind = "delete"
                   /\ profile.state # "deleted" /\ Announces(o) => op[o].copy.server \in stored

\* When no operation overlapped another and nothing failed, an operation that leaves the
\* partner registered leaves both sides with each other's newest token.
AgreeWhenDone ==
    IsRegistered /\ Running = {} /\ ~strained /\ faults = 0 => PartnerReachesUs /\ WeReachPartner

\* One lost request, failed write or crash in an operation of its own leaves at least one side
\* able to authenticate at the other, so that it can renew the tokens (putCredentials,
\* regenerateCredentialsToken), unless the partner has forgotten the registration.
OneSideStillConnects ==
    /\ IsRegistered /\ Running = {} /\ ~strained
    /\ partner.knows # None
    => PartnerReachesUs \/ WeReachPartner

Agreed == IsRegistered => PartnerReachesUs /\ WeReachPartner
Alike(held) == profile.state = "deleted" \/ profile = held

\* Where an operation stands that began with both sides agreed and has met neither another
\* operation nor a fault: what each side has of the other's tokens.
OnCourse(w) ==
    /\ w.at \in {"authenticate", "read", "versions", "store", "erase", "withdraw"} => Agreed
    /\ w.at = "authenticate" => w.kind \in PartnerKinds
    /\ w.at = "versions" => w.kind \in {"post", "put", "register", "regenerate"}
    /\ w.at = "store" => w.kind \in {"post", "put", "generate", "register", "regenerate"}
    /\ w.at \in {"ask", "replace"} => w.kind \in {"register", "regenerate"}
    /\ w.at = "answer" => w.kind \in {"post", "put", "delete", "generate"}
    /\ w.at \in {"authenticate", "read"} /\ w.kind \in {"post", "put", "register"} =>
           w.given \in partner.accepts
    /\ w.at \in {"versions", "store", "answer"} /\ w.kind \in {"post", "put"} => w.copy.cred = w.given
    /\ w.at \in {"versions", "store", "ask", "replace"} => w.copy.state = "set"
    /\ w.at \in {"versions", "store", "ask", "replace", "answer"} =>
           CASE w.kind = "generate" -> w.copy.cred = None
             [] w.kind = "delete" -> ~IsRegistered
             [] OTHER -> w.copy.cred \in partner.accepts
    /\ w.at \in {"ask", "answer"} /\ w.kind # "delete" => Alike(w.copy)
    /\ w.at = "replace" => partner.knows = w.copy.server /\ Alike([w.copy EXCEPT !.cred = profile.cred])
    /\ w.at = "remove" => partner.knows = None

\* As long as no operation begins beside another or after a fault, one is under way at a time,
\* and after a fault none.
OneByOne ==
    ~strained => /\ \A o, p \in Running : o = p
                 /\ faults = 0 => \A o \in Ops : OnCourse(op[o])
                 /\ faults = 0 /\ Running = {} => Agreed
                 /\ faults > 0 => Running = {} /\ OneSideStillConnects

CredentialsIInv == CredentialsTypeOK /\ AnnouncedWasStored /\ ToldWasStored /\ OneByOne
=============================================================================
