------------------------------- MODULE Consent --------------------------------
(***************************************************************************)
(* A farmer's consent and who reads her data: the tables consents and      *)
(* consent_access_log (consent_pg.go, consent_handler.go) and the gate     *)
(* GET /parcels/:cadastral/profile puts before a profile                   *)
(* (credit_handler.go).  Requests are under way from `pending`, a bag that *)
(* the pages share; how a score is computed is CreditProfile's subject.    *)
(***************************************************************************)
EXTENDS Naturals, Sequences, FiniteSets, Bags

CONSTANTS
    Parcels,
    Wallets,
    Lenders,        \* holders of an API key
    APP,            \* the lender whose key the web application is built with
    SeededRows,     \* the rows of parcels the migrations insert: parcel -> owner
    DEMO_WALLET,    \* "demo-wallet", the owner of parcels registered without a wallet
    LOG_LIMIT,      \* LIMIT 100: older entries are never read again
    Scenes,         \* bounds: the pages, paths of the wizard, lenders, wallets and parcels
                    \* of a behaviour, and whether liens come and go in it -> [requests:
                    \* how many may be under way for anybody to start another, changes:
                    \* of the browser's wallet]
    None

ASSUME ConsentAssumption ==
    /\ APP \in Lenders /\ LOG_LIMIT \in Nat \ {0}
    /\ \A s \in DOMAIN Scenes : Scenes[s].requests \in Nat /\ Scenes[s].changes \in Nat
    /\ DEMO_WALLET \notin Wallets /\ None \notin Parcels \cup Wallets \cup Lenders
    /\ None \notin {DEMO_WALLET, "granted", "revoked", "full", "masked"}
    /\ Lenders \cap {"wizard", "dashboard", "detail"} = {}
    /\ \A p \in DOMAIN SeededRows : SeededRows[p] # None

VARIABLES
    parcels,            \* owner_wallet of each parcel's row, or None
    consents,           \* status of each wallet's row, or None
    consent_access_log, \* per wallet: the lenders who asked, newest first
    certified,          \* parcels with certificates, whose profile has a score
    liens,              \* parcels with an active row in liens
    pending,            \* the requests that are under way
    scene               \* who and what takes part in this behaviour

tableVars == <<parcels, consents, consent_access_log, certified, liens>>

ConsentInit ==
    /\ parcels = [p \in Parcels |-> IF p \in DOMAIN SeededRows THEN SeededRows[p] ELSE None]
    /\ consents = [w \in Wallets |-> None]
    /\ consent_access_log = [w \in Wallets |-> <<>>]
    /\ certified = {} /\ liens = {}
    /\ pending = EmptyBag
    /\ scene \in DOMAIN Scenes

-----------------------------------------------------------------------------
(* Requests *)

Requests == BagToSet(pending)
Only(r) == SetToBag({r})
Free == BagCardinality(pending) < Scenes[scene].requests
IsRequest(r, tab, op) == r.tab = tab /\ r.op = op

\* live: the component that sent it is still mounted.  answer: what its handler
\* has found so far.  The rest is history: known, the owner had a row when it was
\* sent; allowed, consent was not revoked at some time since; failed, a query of
\* its handler failed.
Request(tab, op, parcel, wallet) ==
    [tab |-> tab, op |-> op, parcel |-> parcel, wallet |-> wallet, stage |-> "sent",
     live |-> TRUE, answer |-> None,
     known |-> FALSE, allowed |-> FALSE, failed |-> FALSE]

\* The requests under way are changed one kind at a time.
Restricted(bag, kind) == [r \in kind |-> bag[r]]

\* What the requests under way become when the components of a tab change.
Orphaned(bag, tab) ==
    LET mine == {r \in BagToSet(bag) : r.tab = tab}
        Left(r) == [r EXCEPT !.live = FALSE]
    IN  Restricted(bag, BagToSet(bag) \ mine) (+) BagOfAll(Left, Restricted(bag, mine))

-----------------------------------------------------------------------------
(* consents *)

Permits(w) == consents[w] # "revoked"

\* An upsert: it does not matter whether there is a row, and of which status.
Grant(w) == consents' = [consents EXCEPT ![w] = "granted"]

\* The requests a grant allows.
Permitted(w, bag) ==
    LET asking == {r \in BagToSet(bag) : r.op = "profile" /\ parcels[r.parcel] = w}
        Now(r) == [r EXCEPT !.allowed = TRUE]
    IN  Restricted(bag, BagToSet(bag) \ asking) (+) BagOfAll(Now, Restricted(bag, asking))

\* Without a row: 404.
Revoke(w) == consents' = [consents EXCEPT ![w] = IF @ = None THEN None ELSE "revoked"]

ListAccessLog(w) == consent_access_log[w]

-----------------------------------------------------------------------------
(* GetProfile *)

\* The rows of parcels are never deleted; without one: 404.
AskProfile(tab, p) ==
    LET owner == parcels[p] IN
    [Request(tab, "profile", p, None) EXCEPT
        !.known = owner \in Wallets /\ consents[owner] # None,
        !.allowed = owner \notin Wallets \/ Permits(owner)]

\* Mutant: a row is taken for consent, whatever its status.
AnyRowConsents(r, failed) == TRUE

\* Any error counts as "not found", and so does no row: consent.
CheckConsent(r, failed) ==
    LET owner == parcels[r.parcel]
    IN  owner \notin Wallets \/ failed \/ consents[owner] \in {None, "granted"}

\* The handler's first step: the row of the parcel and the consent are read.
ConsentChecked(r) ==
    /\ r.op = "profile" /\ r.stage = "sent" /\ parcels[r.parcel] # None
    /\ \E failed \in BOOLEAN :
         pending' = (pending (-) Only(r)) (+)
            Only([r EXCEPT !.stage = "checked", !.failed = failed,
                           !.answer = IF CheckConsent(r, failed) THEN "full" ELSE "masked"])
    /\ UNCHANGED tableVars

KeyOf(tab) == IF tab \in Lenders THEN tab ELSE APP

Newest(log) == SubSeq(log, 1, IF Len(log) < LOG_LIMIT THEN Len(log) ELSE LOG_LIMIT)

\* Mutant: a request that is answered with a masked profile leaves no entry.
LogFullAccess(r, failed) ==
    LET owner == parcels[r.parcel] IN
    IF owner \in Wallets /\ ~failed /\ r.answer = "full" /\ consents[owner] # None
    THEN [consent_access_log EXCEPT ![owner] = Newest(<<KeyOf(r.tab)>> \o @)]
    ELSE consent_access_log

\* The consent is read a second time, for its id: without a row, or when the
\* query or the insert fails, nothing is logged.
LogAccess(r, failed) ==
    LET owner == parcels[r.parcel] IN
    IF owner \in Wallets /\ ~failed /\ consents[owner] # None
    THEN [consent_access_log EXCEPT ![owner] = Newest(<<KeyOf(r.tab)>> \o @)]
    ELSE consent_access_log

\* Its second step.
AccessLogged(r) ==
    /\ r.op = "profile" /\ r.stage = "checked"
    /\ \E failed \in BOOLEAN :
         /\ consent_access_log' = LogAccess(r, failed)
         /\ pending' = (pending (-) Only(r)) (+)
              Only([r EXCEPT !.stage = "logged", !.failed = @ \/ failed])
    /\ UNCHANGED <<parcels, consents, certified, liens>>

MaskedProfile(p) ==
    [parcel |-> p, masked |-> TRUE, unread |-> FALSE, liens |-> FALSE, credit |-> FALSE]

\* Mutant: while the score is computed the profile has no liens.
ProfileWithoutLiens(p) ==
    {[parcel |-> p, masked |-> FALSE, unread |-> FALSE, liens |-> p \in liens /\ p \in certified,
      credit |-> credit] : credit \in IF p \in certified THEN BOOLEAN ELSE {FALSE}}

Perhaps(possible) == IF possible THEN BOOLEAN ELSE {FALSE}

FullProfile(p, unread, credit) ==
    [parcel |-> p, masked |-> FALSE, unread |-> unread, liens |-> p \in liens /\ ~unread,
     credit |-> credit]

\* Without certificates the score is computed in the background; with them it
\* is there unless the scorer fails and none is cached.  The error of the query
\* for the liens is dropped: they are unread, and none are listed.
FullProfiles(p) ==
    {FullProfile(p, unread, credit) :
        unread \in Perhaps(p \in liens), credit \in Perhaps(p \in certified)}

\* What the handler may answer in the end.
Profiles(r) == IF r.answer = "full" THEN FullProfiles(r.parcel) ELSE {MaskedProfile(r.parcel)}

\* The end of a background computation: an earlier request's, or the keeper's.
SeriesStored(p) ==
    /\ p \in scene /\ parcels[p] # None /\ p \notin certified
    /\ certified' = certified \cup {p}
    /\ UNCHANGED <<parcels, consents, consent_access_log, liens, pending>>

-----------------------------------------------------------------------------
(* The other requests of the pages *)

\* POST /parcels: a row that exists already keeps its owner.
CreateParcel(p, owner) ==
    parcels' = [parcels EXCEPT ![p] = IF @ = None THEN owner ELSE @]

\* POST /liens (see BackendLiens).
CreateLien(p) == liens' = IF parcels[p] # None THEN liens \cup {p} ELSE liens

\* POST /liens/:id/release, or the event of the release on chain.
EndLien(p) == liens' = liens \ {p}
=============================================================================
