--------------------------- MODULE ConsentDashboard ---------------------------
(***************************************************************************)
(* The page on which a farmer grants and revokes her consent               *)
(* (pages/ConsentDashboard).  It shows the consent it has read last,       *)
(* whichever wallet that was read for.  The access log it shows beside it  *)
(* is read and shown together with the consent, and left out.              *)
(***************************************************************************)
EXTENDS WalletButton

VARIABLES
    dashboard,      \* [consent, loading, actionLoading]
    outdated        \* history: the page cannot know what it should show

NoConsent == [wallet |-> None, status |-> None]

DashboardInit ==
    /\ dashboard = [consent |-> NoConsent, loading |-> FALSE, actionLoading |-> FALSE]
    /\ outdated = FALSE

connected == browser.extension # None
OfDashboard(bag) == {r \in BagToSet(bag) : r.tab = "dashboard"}
isGranted == dashboard.consent.status = "granted"

\* A fetchConsentData begins, by itself or behind a post; it starts from a clean
\* sheet unless it is for a wallet no longer there or something else of the page is
\* under way.
Fetch(op, w, gone, bag) ==
    /\ pending' = bag (+) Only(Request("dashboard", op, None, w))
    /\ outdated' = (gone \/ OfDashboard(bag) # {})

\* The effect, when a wallet is connected.
WalletShown(w) ==
    /\ Fetch("read", w, FALSE, pending)
    /\ dashboard' = [dashboard EXCEPT !.loading = TRUE]

\* Both requests of it are answered before either is shown; what fails is null.
DashboardRead(r) ==
    /\ r.tab = "dashboard" /\ r.op \in {"read", "refetch"} /\ r.stage = "sent"
    /\ \E failed \in BOOLEAN :
         /\ pending' = (pending (-) Only(r)) (+)
              Only([r EXCEPT !.stage = "read",
                             !.answer = IF failed THEN None ELSE consents[r.wallet]])
         /\ outdated' = (outdated \/ failed)
    /\ UNCHANGED <<tableVars, browser, dashboard>>

\* Nothing tells the answer to an older call from the answer to the latest.
DashboardShown(r) ==
    /\ r.tab = "dashboard" /\ r.stage = "read"
    /\ dashboard' = [dashboard EXCEPT
         !.consent = IF r.answer = None THEN NoConsent
                     ELSE [wallet |-> r.wallet, status |-> r.answer],
         !.loading = FALSE,
         !.actionLoading = IF r.op = "refetch" THEN FALSE ELSE @]
    /\ pending' = pending (-) Only(r)
    /\ UNCHANGED <<tableVars, browser, outdated>>

Post(op) ==
    /\ connected /\ ~dashboard.actionLoading
    /\ dashboard' = [dashboard EXCEPT !.actionLoading = TRUE]
    /\ pending' = pending (+) Only(Request("dashboard", op, None, browser.extension))
    /\ outdated' = (outdated \/ OfDashboard(pending) # {})
    /\ UNCHANGED <<tableVars, browser>>

handleGrant == ~isGranted /\ Post("grant")
handleRevoke == isGranted /\ Post("revoke")

\* Mutant: the page does not read the consent again.
NoFetch(r, bag) ==
    /\ pending' = bag
    /\ outdated' = FALSE
    /\ dashboard' = [dashboard EXCEPT !.actionLoading = FALSE]

\* For the wallet of the click, even if it is no longer the one connected.
FetchAfter(r, bag) ==
    /\ Fetch("refetch", r.wallet, browser.extension # r.wallet, bag)
    /\ dashboard' = [dashboard EXCEPT !.loading = TRUE]

PostDone(r) ==
    LET rest == pending (-) Only(r) IN
    /\ r.tab = "dashboard" /\ r.op \in {"grant", "revoke"}
    /\ IF r.op = "grant" THEN Grant(r.wallet) ELSE Revoke(r.wallet)
    /\ FetchAfter(r, IF r.op = "grant" THEN Permitted(r.wallet, rest) ELSE rest)
    /\ UNCHANGED <<parcels, consent_access_log, certified, liens, browser>>

\* The handler rejects, there is no row to revoke, or the answer is lost after
\* the row was written: the error leaves handleGrant, and nothing is read again.
PostFailed(r) ==
    LET rest == pending (-) Only(r) IN
    /\ r.tab = "dashboard" /\ r.op \in {"grant", "revoke"}
    /\ \/ /\ IF r.op = "grant" THEN Grant(r.wallet) ELSE Revoke(r.wallet)
          /\ pending' = IF r.op = "grant" THEN Permitted(r.wallet, rest) ELSE rest
          /\ outdated' = TRUE
       \/ pending' = rest /\ UNCHANGED <<consents, outdated>>
    /\ dashboard' = [dashboard EXCEPT !.actionLoading = FALSE]
    /\ UNCHANGED <<parcels, consent_access_log, certified, liens, browser>>

DashboardStep ==
    \/ handleGrant \/ handleRevoke
    \/ \E r \in Requests : DashboardRead(r) \/ DashboardShown(r) \/ PostDone(r) \/ PostFailed(r)
=============================================================================
