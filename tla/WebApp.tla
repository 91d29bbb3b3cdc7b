-------------------------------- MODULE WebApp ---------------------------------
(***************************************************************************)
(* The web application at work: the wizard, the page of a parcel and the   *)
(* consent dashboard in tabs of one browser, lenders who use the REST API  *)
(* with keys of their own, and the backend's handling of a profile between *)
(* them.  The lien pages are LienSync's subject: here a lien is a row that *)
(* comes and goes.                                                         *)
(***************************************************************************)
EXTENDS Wizard, ConsentDashboard, ParcelDetail

wizardVars == <<wizard, page, strayed>>
dashboardVars == <<dashboard, outdated>>
detailVars == <<detail, hopped, indexed, underLien>>
pageVars == <<wizardVars, dashboardVars, detailVars, scene>>
webVars == <<tableVars, pending, browser, pageVars>>

WebInit ==
    ConsentInit /\ WalletInit /\ WizardInit /\ DashboardInit /\ DetailInit

-----------------------------------------------------------------------------
(* A lender's own program *)

Ask(l, p) ==
    /\ l \in scene /\ Free
    /\ pending' = pending (+) Only(AskProfile(l, p))
    /\ UNCHANGED <<tableVars, browser, pageVars>>

\* Answered, refused or lost: what the lender does with it is not followed.
Told(r) ==
    /\ r.tab \in Lenders /\ r.stage \in {"sent", "logged"}
    /\ pending' = pending (-) Only(r)
    /\ UNCHANGED <<tableVars, browser, pageVars>>

-----------------------------------------------------------------------------
(* The lien pages, or a lender's own program *)

LienElsewhere(p) ==
    /\ "liens" \in scene
    /\ CreateLien(p)
    /\ UNCHANGED <<parcels, consents, consent_access_log, certified, pending, browser,
                   pageVars>>

\* The pages are not told, but their parcel is no longer one that has had a lien
\* all the time.
LienEnds(p) ==
    /\ "liens" \in scene
    /\ EndLien(p)
    /\ page' = [page EXCEPT !.encumbered = @ /\ wizard.cadastral # p]
    /\ underLien' = (underLien /\ detail.cadastral # p)
    /\ UNCHANGED <<parcels, consents, consent_access_log, certified, pending, browser, scene,
                   wizard, strayed, dashboardVars, detail, hopped, indexed>>

-----------------------------------------------------------------------------

Backend ==
    \/ \E r \in Requests : ConsentChecked(r) \/ AccessLogged(r)
    \/ \E p \in Parcels : SeriesStored(p)

WalletStep ==
    \/ \E w \in Wallets :
         /\ Connect(w)
         /\ IF "dashboard" \in scene THEN WalletShown(w) ELSE UNCHANGED <<pending, dashboardVars>>
    \/ Disconnect /\ UNCHANGED <<pending, dashboardVars>>
    \/ DeeplinkDisconnect /\ UNCHANGED <<pending, dashboardVars>>

InWizard ==
    /\ {"farmer", "lender"} \cap scene # {}
    /\ WizardStep
    /\ outdated' = (outdated \/ consents' # consents)
    /\ UNCHANGED <<dashboard, detailVars, scene>>

InDashboard == "dashboard" \in scene /\ DashboardStep /\ UNCHANGED <<wizardVars, detailVars, scene>>

InDetail == "detail" \in scene /\ DetailStep /\ UNCHANGED <<wizardVars, dashboardVars, scene>>

WebNext ==
    \/ Backend /\ UNCHANGED <<browser, pageVars>>
    \/ WalletStep /\ UNCHANGED <<tableVars, wizardVars, detailVars, scene>>
    \/ InWizard \/ InDashboard \/ InDetail
    \/ \E l \in Lenders, p \in Parcels \cap scene : Ask(l, p)
    \/ \E r \in Requests : Told(r)
    \/ \E p \in Parcels \cap scene : LienElsewhere(p) \/ LienEnds(p)

\* What a mounted step of the wizard waits for.
OfWizard == {r \in Requests : r.tab = "wizard" /\ r.live}

\* signAndSend waits, without a limit, for somebody to approve or to refuse.
AtWallet(r) == r.stage = "tx"

\* A request to the backend ends some time, with an answer or an error: the browser
\* gives up a dead connection, a handler that has begun goes on.  The effects of
\* the wizard run.  Nobody has to click, on the page or in the wallet, and no
\* lender's request and no series has to come.
WebFairness ==
    /\ WF_webVars(InWizard /\ \E r \in OfWizard : ~AtWallet(r) /\ Answer(r))
    /\ WF_webVars(Backend /\ (\E r \in OfWizard : AccessLogged(r)) /\ UNCHANGED <<browser, pageVars>>)
    /\ WF_webVars(InWizard /\ Retry)

WebSpec == WebInit /\ [][WebNext]_webVars /\ WebFairness

-----------------------------------------------------------------------------
(* Consent *)

\* Whoever reads the profile of a farmer who had a consent row when the request
\* came is in her access log, masked or not, unless a query of the handler
\* failed or LOG_LIMIT newer entries hide it: the check and the log are two reads
\* of a row that the dashboard changes between them (credit_handler.go:64-68).
EveryReadAppears ==
    \A r \in Requests :
        LET log == consent_access_log[parcels[r.parcel]] IN
        (r.op = "profile" /\ r.stage = "logged" /\ r.known /\ ~r.failed)
            => \/ \E i \in DOMAIN log : log[i] = KeyOf(r.tab)
               \/ Len(log) = LOG_LIMIT

\* The full profile is decided on only if the farmer's consent was not revoked
\* at some time since the request came, or its read failed: a revocation that is
\* stored is honoured by every later request, as the dashboard promises, "You can
\* revoke consent at any time" (ConsentDashboard.tsx:155), except that an error
\* of the query counts as consent (credit_handler.go:77-88).
MaskedUnlessReadFailed ==
    \A r \in Requests : r.answer = "full" => (r.allowed \/ r.failed)

\* The dashboard shows the status of the connected wallet once it is idle,
\* unless a read failed, requests of the page overlapped, the wallet changed
\* behind one, or the answer to a post was lost (ConsentDashboard.tsx:69-110).
DashboardTells ==
    ("dashboard" \in scene /\ connected /\ OfDashboard(pending) = {} /\ ~outdated)
        => /\ ~dashboard.loading /\ ~dashboard.actionLoading
           /\ dashboard.consent.status = consents[browser.extension]

-----------------------------------------------------------------------------
(* The pages *)

About(cadastral, x) == x \in {cadastral, ESTIMATED, None}

\* As long as no answer to a step that was left reaches the reducer, the wizard
\* is at one of the steps of its path, shows data of the parcel under assessment
\* only, and a lender assesses a parcel that is registered (WizardFlow.tsx:64-81).
AssessmentCoherent ==
    ~strayed =>
        /\ wizard.path # "none" => Step # "none"
        /\ page.profile # None => page.profile.parcel = wizard.cadastral
        /\ page.ndvi # None => About(wizard.cadastral, page.ndvi)
        /\ Step \in {"Score", "Profile"} => About(wizard.cadastral, wizard.ndviScore)
        /\ (wizard.path = "lender" /\ wizard.step > 0) => parcels[wizard.cadastral] # None

\* A parcel that has had a lien since before a page about it appeared is "Clean"
\* there only from a masked profile or when the liens could not be read, and in the
\* summary only if GET /liens told nothing either: its absence of consent and its
\* failures look like a clean parcel (ParcelDetail.tsx:69-76, SummaryStep.tsx:60).
CleanBadge ==
    /\ (Step = "Profile" /\ SummaryScreen = "profile" /\ page.encumbered /\ SummaryClean
            /\ page.profile.parcel = wizard.cadastral)
        => page.profile.masked \/ page.profile.unread
    /\ (DetailScreen = "profile" /\ underLien /\ DetailClean /\ ~hopped)
        => detail.profile.masked \/ detail.profile.unread

\* If the answers for one parcel had come when the next was opened, the page
\* shows the profile of the parcel in the URL, and its index as soon as that has
\* come (ParcelDetail.tsx:21-66); until then, or when the request fails, the
\* index of the last parcel stays (useSatelliteIndices.ts:27).
DetailCoherent ==
    ~hopped =>
        /\ DetailScreen = "profile" => detail.profile.parcel = detail.cadastral
        /\ indexed => detail.ahi \in {detail.cadastral, None}

Waiting ==
    \/ Step \in {"Parcel", "Lien"} /\ page.busy /\ \A r \in OfWizard : ~AtWallet(r)
    \/ Step = "NDVI" /\ page.ndvi = None
    \/ Step = "Score" /\ ScoreScreen = "spinner" /\ page.profile # None
    \/ Step = "Profile" /\ page.loading

\* What the wizard's user waits for ends.  Not in this: the answer in the wallet,
\* which is the user's own to give, if she ever does (transaction.ts:196-236); and
\* the score of a parcel whose first request failed, which stays a spinner, since
\* the retries need an answer to begin with (CreditScoreStep.tsx:29-33).
WaitsEnd == Waiting ~> ~Waiting
=============================================================================
