------------------------------ MODULE PartyRows ------------------------------
(***************************************************************************)
(* Whose rows a partner's request reads and writes.  A request names its   *)
(* party up to four times: by its token, in the routing headers, in the    *)
(* path and in the body.  AuthMiddleware compares some of them, and every  *)
(* interface takes its rows' key from others.                              *)
(*                                                                         *)
(* All parties use one OCPI id.  Requests follow each other: what they do  *)
(* when they overlap is in ReceivedSession, ReceivedTariff, ReceivedTokens *)
(* and PartnerPull.                                                        *)
(***************************************************************************)
EXTENDS Naturals

CONSTANTS Partners,   \* the TenantPartners rows, named for their own party
          Behind,     \* Behind[p]: the parties that are roaming partners of p
          Strangers   \* parties that are in no table

Roaming == UNION {Behind[p] : p \in Partners}

ASSUME PartyAssumption == /\ Behind \in [Partners -> SUBSET Roaming]
                          /\ Partners \cap Roaming = {}
                          /\ Strangers \cap (Partners \cup Roaming) = {}
                          /\ "no headers" \notin Partners \cup Roaming \cup Strangers

AnyParty == Partners \cup Roaming \cup Strangers
NoHeaders == "no headers"
Resources == {"sessions", "tariffs", "cdrs", "tokens"}
Contents == {1, 2}   \* bound: what a body may say

VARIABLES resource,   \* the module the requests are for
          partyRows,  \* its rows with the id
          kept,       \* history: what a party has last been told is stored, 0 if nothing
          astray,     \* history: a PATCH under a party not of the partner's was carried out
          shown       \* the answer to the last request: to whom, and the row in it

partyVars == <<resource, partyRows, kept, astray, shown>>

\* A row is its partner's, under its own party or under that of a roaming partner.
PartyRow == [partner : Partners, party : Partners \cup Roaming, says : Contents]
Keys == {k \in Partners \X (Partners \cup Roaming) : k[2] = k[1] \/ k[2] \in Behind[k[1]]}
Silence == [partner |-> "none", party |-> "none", rows |-> {}]

PartyTypeOK == /\ resource \in Resources
               /\ partyRows \subseteq PartyRow
               /\ \A r \in partyRows : <<r.partner, r.party>> \in Keys
               /\ kept \in [Keys -> Contents \cup {0}] /\ astray \in BOOLEAN
               /\ shown = Silence \/ (shown.partner \in Partners /\ shown.rows \subseteq PartyRow)

PartyInit == /\ resource \in Resources
             /\ partyRows = {} /\ kept = [k \in Keys |-> 0] /\ astray = FALSE
             /\ shown = Silence
-----------------------------------------------------------------------------
(* Who is let in *)

RoamingOf(p, q) == {q} \cap Behind[p]

\* The token gave the partner.  With all four headers, from must be the partner or one behind
\* it and to the tenant; without, the party in the path must be the partner itself.
LetInByPath(p, from, toUs, path) ==
    IF from # NoHeaders THEN (from = p \/ RoamingOf(p, from) # {}) /\ toUs
    ELSE path = p

\* A POST's path has no party: the body is compared instead.
LetInByBody(p, from, toUs, body) == LetInByPath(p, from, toUs, body)

\* A GET of a CDR has neither, and skips the comparison.
LetInByToken(p, from, toUs) == from = NoHeaders \/ LetInByPath(p, from, toUs, p)

\* upsertSession, createOrUpdateTariff and insertCdr throw for other parties.
Represents(p, q) == q = p \/ RoamingOf(p, q) # {}

Told(p, q, rows) == [partner |-> p, party |-> q, rows |-> rows]
AnswersWith(p, q, rows) ==
    shown' = Told(p, q, rows) /\ UNCHANGED <<resource, partyRows, kept, astray>>
Refuses(p, q) == AnswersWith(p, q, {})
Stores(p, q, rows, says) ==
    /\ partyRows' = (partyRows \ rows) \cup {[partner |-> p, party |-> q, says |-> says]}
    /\ kept' = [kept EXCEPT ![<<p, q>>] = says]
    /\ shown' = Told(p, q, {})
    /\ UNCHANGED <<resource, astray>>

RowsOf(p) == {r \in partyRows : r.partner = p}
-----------------------------------------------------------------------------
(* Sessions *)

\* Mutant: the direct party's query asks for any roamingPartnerId.
DirectSessionOfAll(p) == RowsOf(p)

DirectSession(p) == {r \in RowsOf(p) : r.party = p}
RoamingSession(p, q) == {r \in RowsOf(p) : r.party = q}

\* A party that is no roaming partner's counts as the direct one.
SessionFound(p, q) == IF RoamingOf(p, q) # {} THEN RoamingSession(p, q) ELSE DirectSession(p)

\* The path's party and id replace the body's.
PutSession(p, q, says) ==
    IF Represents(p, q) THEN Stores(p, q, SessionFound(p, q), says) ELSE Refuses(p, q)

\* Only patchSession does not look whether the party is the partner's.
PatchSession(p, q, says) ==
    IF SessionFound(p, q) = {} THEN Refuses(p, q)
    ELSE \E r \in SessionFound(p, q) :
            /\ partyRows' = (partyRows \ {r}) \cup {[r EXCEPT !.says = says]}
            /\ astray' = (astray \/ ~Represents(p, q))
            /\ kept' = IF Represents(p, q) THEN [kept EXCEPT ![<<p, q>>] = says] ELSE kept
            /\ shown' = Told(p, q, {}) /\ UNCHANGED resource

GetSession(p, q) == AnswersWith(p, q, SessionFound(p, q))

SessionRequest(p, from, toUs, q) ==
    /\ resource = "sessions"
    /\ IF LetInByPath(p, from, toUs, q)
       THEN \/ GetSession(p, q)
            \/ \E says \in Contents : PutSession(p, q, says) \/ PatchSession(p, q, says)
       ELSE Refuses(p, q)
-----------------------------------------------------------------------------
(* Tariffs *)

DirectTariffToPut(p) == {r \in RowsOf(p) : r.party = p}
RoamingTariff(p, q) == {r \in RowsOf(p) : r.party = q}

\* Of the direct party, GET and DELETE ask for the id and the partner alone.
DirectTariffToGet(p) == RowsOf(p)
DirectTariffToDelete(p) == RowsOf(p)
RoamingTariffToDelete(p, q) == {r \in RowsOf(p) : r.party = q}

PutTariff(p, q, says) ==
    IF Represents(p, q)
    THEN LET rows == IF RoamingOf(p, q) # {} THEN RoamingTariff(p, q) ELSE DirectTariffToPut(p)
         IN  Stores(p, q, rows, says)
    ELSE Refuses(p, q)

TariffFound(p, q) == IF RoamingOf(p, q) # {} THEN RoamingTariff(p, q) ELSE DirectTariffToGet(p)

\* Tariffs[0], whichever comes first.
GetTariff(p, q) == \/ \E r \in TariffFound(p, q) : AnswersWith(p, q, {r})
                   \/ TariffFound(p, q) = {} /\ Refuses(p, q)

RemoveTariff(p, q) ==
    LET gone == IF RoamingOf(p, q) # {} THEN RoamingTariffToDelete(p, q)
                ELSE DirectTariffToDelete(p)
    IN  IF gone = {} THEN Refuses(p, q)
        ELSE /\ partyRows' = partyRows \ gone
             /\ kept' = [k \in Keys |->
                            IF \E r \in gone : k = <<r.partner, r.party>> THEN 0 ELSE kept[k]]
             /\ shown' = Told(p, q, {}) /\ UNCHANGED <<resource, astray>>

TariffRequest(p, from, toUs, q) ==
    /\ resource = "tariffs"
    /\ IF LetInByPath(p, from, toUs, q)
       THEN GetTariff(p, q) \/ RemoveTariff(p, q) \/ \E says \in Contents : PutTariff(p, q, says)
       ELSE Refuses(p, q)
-----------------------------------------------------------------------------
(* CDRs *)

DirectCdr(p) == {r \in RowsOf(p) : r.party = p}
RoamingCdr(p, q) == {r \in RowsOf(p) : r.party = q}

\* One that is known by the id is refused.
PostCdr(p, from, toUs, q, says) ==
    /\ resource = "cdrs"
    /\ IF /\ LetInByBody(p, from, toUs, q) /\ Represents(p, q)
          /\ (IF RoamingOf(p, q) # {} THEN RoamingCdr(p, q) ELSE DirectCdr(p)) = {}
       THEN Stores(p, q, {}, says)
       ELSE Refuses(p, q)

\* Asked for by the database id of the answer's Location, with the party of the headers.
DirectCdrShown(p, r) == r.partner = p /\ r.party = p
RoamingCdrShown(p, q, r) == r.partner = p /\ r.party = q
CdrFound(p, from, r) ==
    IF from # NoHeaders /\ RoamingOf(p, from) # {} THEN RoamingCdrShown(p, from, r)
    ELSE DirectCdrShown(p, r)

GetCdr(p, from, toUs, r) ==
    /\ resource = "cdrs"
    /\ IF LetInByToken(p, from, toUs) /\ CdrFound(p, from, r)
       THEN AnswersWith(p, r.party, {r}) ELSE Refuses(p, r.party)
-----------------------------------------------------------------------------
(* Tokens, which are their partner's whatever party the path and the body name *)

TokenOfPartner(p) == RowsOf(p)

\* An id and type that another partner has taken are refused by the table.
PutToken(p, says) ==
    IF TokenOfPartner(p) # {} \/ partyRows = {} THEN Stores(p, p, TokenOfPartner(p), says)
    ELSE Refuses(p, p)

\* Of the requests on tokens only PATCH compares the headers with the path.
PatchToken(p, from, q, says) ==
    IF from = q /\ TokenOfPartner(p) # {} THEN Stores(p, p, TokenOfPartner(p), says)
    ELSE Refuses(p, q)

\* Looked up by the party in the path.
GetToken(p, q) == AnswersWith(p, q, {r \in partyRows : r.partner = q})

\* The authorization of a token looks among the tokens of the partner that asks.
AuthorizeToken(p) == AnswersWith(p, p, TokenOfPartner(p))

TokenRequest(p, from, toUs, q) ==
    /\ resource = "tokens"
    /\ IF LetInByPath(p, from, toUs, q)
       THEN \/ GetToken(p, q)
            \/ \E says \in Contents : PutToken(p, says) \/ PatchToken(p, from, q, says)
       ELSE Refuses(p, q)

TokenAuthorization(p, from, toUs) ==
    /\ resource = "tokens"
    /\ IF LetInByBody(p, from, toUs, "nobody") THEN AuthorizeToken(p) ELSE Refuses(p, p)

PartyNext ==
    \E p \in Partners, from \in AnyParty \cup {NoHeaders}, toUs \in BOOLEAN :
        \/ \E q \in AnyParty : \/ SessionRequest(p, from, toUs, q)
                               \/ TariffRequest(p, from, toUs, q)
                               \/ \E says \in Contents : PostCdr(p, from, toUs, q, says)
                               \/ TokenRequest(p, from, toUs, q)
        \/ \E r \in partyRows : GetCdr(p, from, toUs, r)
        \/ TokenAuthorization(p, from, toUs)

PartySpec == PartyInit /\ [][PartyNext]_partyVars
-----------------------------------------------------------------------------
(* Properties *)

FoundBack(p, q) == CASE resource = "sessions" -> SessionFound(p, q)
                     [] resource = "tariffs" -> TariffFound(p, q)
                     [] resource = "cdrs" -> {r \in partyRows : CdrFound(p, q, r)}
                     [] resource = "tokens" -> TokenOfPartner(p)

\* What a party was told is stored stays and is found again when it asks for it, whatever the
\* other parties of the same partner, and other partners, put, patch and delete under the same
\* id; unless a PATCH went astray, and but for a tariff, which the direct party's DELETE takes
\* with its own.
RowsAreKept ==
    ~astray => \A k \in Keys : kept[k] # 0 => \E r \in FoundBack(k[1], k[2]) :
                                                 r.party = k[2] /\ r.says = kept[k]

\* One row per party and id, and none that its party was not told of.
OneRowPerParty ==
    /\ \A r, s \in partyRows : r.partner = s.partner /\ r.party = s.party => r = s
    /\ ~astray => \A r \in partyRows : kept[<<r.partner, r.party>>] = r.says
-----------------------------------------------------------------------------
(* The inductive invariant *)

\* What a party was told is in a row of its own, and a token is its partner's.
KeptIsThere ==
    ~astray => \A k \in Keys : kept[k] # 0 => \E r \in partyRows :
                  r.partner = k[1] /\ r.party = k[2] /\ r.says = kept[k]
TokensAreThePartners == resource = "tokens" => \A r \in partyRows : r.party = r.partner

PartyIInv == PartyTypeOK /\ OneRowPerParty /\ KeptIsThere /\ TokensAreThePartners
=============================================================================
