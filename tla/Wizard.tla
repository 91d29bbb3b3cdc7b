-------------------------------- MODULE Wizard --------------------------------
(***************************************************************************)
(* The wizard (pages/WizardFlow): its reducer, the steps of the farmer and *)
(* of the lender, and the answers they wait for.  A step that is left is   *)
(* unmounted, but what it asked for comes back all the same and still      *)
(* reaches the reducer.                                                    *)
(***************************************************************************)
EXTENDS WalletButton

CONSTANTS
    ESTIMATED,      \* 0.72, shown when the satellite does not answer
    MAX_RETRIES     \* of CreditScoreStep

ASSUME WizardAssumption ==
    /\ MAX_RETRIES \in Nat \ {0}
    /\ ESTIMATED \notin Parcels \cup {None}

VARIABLES
    wizard,         \* the reducer's State; of data: cadastral, ndviScore, walletAddress
    page,           \* the state of the step that is mounted
    strayed         \* history: an answer to a step left has reached the reducer

initialState == [path |-> "none", step |-> 0, cadastral |-> None, ndviScore |-> None,
                 walletAddress |-> None]

FARMER_STEPS == <<"Wallet", "Parcel", "NDVI", "Score", "Profile">>
LENDER_STEPS == <<"Search", "Profile", "Lien">>
StepsOf(path) == IF path = "farmer" THEN FARMER_STEPS ELSE LENDER_STEPS

\* Nothing is rendered beyond the last step.
StepOf(w) ==
    IF w.path = "none" \/ w.step \notin 0 .. Len(StepsOf(w.path)) - 1 THEN "none"
    ELSE StepsOf(w.path)[w.step + 1]

Step == StepOf(wizard)

\* What a step asks for when it is mounted; without a parcel the satellite's
\* answer is made up and the others ask nothing.
Sent(w) ==
    CASE StepOf(w) = "NDVI" -> {Request("wizard", "ndvi", w.cadastral, None)}
      [] StepOf(w) = "Score" /\ w.cadastral # None -> {AskProfile("wizard", w.cadastral)}
      [] StepOf(w) = "Profile" /\ w.cadastral # None ->
            {AskProfile("wizard", w.cadastral),
             Request("wizard", "liens", w.cadastral, None)}
      [] OTHER -> {}

\* encumbered is history: the parcel has had a lien since before the step appeared.
NewPage(w) ==
    [ busy         |-> FALSE,
      success      |-> FALSE,
      ndvi         |-> None,
      profile      |-> None,
      loading      |-> \E r \in Sent(w) : r.op = "profile",
      error        |-> FALSE,
      retryCount   |-> 0,
      liens        |-> FALSE,
      deeplink     |-> IF StepOf(w) \in {"Wallet", "Lien"} THEN browser.stored ELSE None,
      wasConnected |-> StepOf(w) = "Wallet" /\ browser.extension # None,
      encumbered   |-> StepOf(w) = "Profile" /\ w.cadastral \in liens ]

WizardInit ==
    /\ wizard = initialState
    /\ page = NewPage(initialState)
    /\ strayed = FALSE

\* Mutant: the next step is shown in place of the last and keeps its answers.
PageKept(w) == [page EXCEPT !.loading = FALSE]

MountedPage(w) == NewPage(w)

\* Every action of the reducer that moves the step: the old one is unmounted.
Go(w, bag) ==
    /\ wizard' = w
    /\ page' = MountedPage(w)
    /\ pending' = Orphaned(bag, "wizard") (+) SetToBag(Sent(w))

NEXT(w) == [w EXCEPT !.step = @ + 1]
BACK(w) == [w EXCEPT !.step = IF @ = 0 THEN 0 ELSE @ - 1]

\* A click of the user.
Click == UNCHANGED <<tableVars, browser>>

Moves(w) ==
    /\ Click /\ (Sent(w) = {} \/ Free)
    /\ Go(w, pending)
    /\ UNCHANGED strayed

RESTART == Click /\ Go(initialState, pending) /\ strayed' = FALSE

SelectPath(path) ==
    /\ path \in scene /\ wizard.path = "none"
    /\ Moves([wizard EXCEPT !.path = path, !.step = 0])

-----------------------------------------------------------------------------
(* WalletSetupStep *)

\* As soon as a wallet is there, unless one was there when the step appeared.
\* The deeplink's address counts as there from the start.
AutoAdvance ==
    LET w == IF browser.extension # None THEN browser.extension ELSE page.deeplink IN
    /\ Step = "Wallet" /\ ~page.wasConnected /\ w # None
    /\ Go(NEXT([wizard EXCEPT !.walletAddress = w]), pending)
    /\ UNCHANGED <<tableVars, browser, strayed>>

ContinueWithWallet ==
    /\ Step = "Wallet" /\ page.wasConnected /\ browser.extension # None
    /\ Moves(NEXT([wizard EXCEPT !.walletAddress = browser.extension]))

\* The hook of the mounted step gets the address, and leaves it in the storage.
ApprovedByDeeplink(w) ==
    /\ Step \in {"Wallet", "Lien"} /\ page.deeplink = None
    /\ DeeplinkApproved(w)
    /\ page' = [page EXCEPT !.deeplink = w]
    /\ UNCHANGED <<tableVars, pending, wizard, strayed>>

-----------------------------------------------------------------------------
(* RegisterParcelStep.  A parcel that is on chain already is an error like  *)
(* any other: the text its test looks for is not in parseTransactionError's *)
(* messages, so GO_TO_STEP is never dispatched (see TransactionErrors).     *)

SubmitParcel(p) ==
    LET w == IF browser.extension # None THEN browser.extension ELSE wizard.walletAddress
        r == [Request("wizard", "register", p, w) EXCEPT
                 !.stage = IF browser.extension # None THEN "tx" ELSE "post"]
    IN  /\ Step = "Parcel" /\ ~page.busy /\ Free
        /\ Click
        /\ wizard' = [wizard EXCEPT !.cadastral = p]
        /\ page' = [page EXCEPT !.busy = TRUE]
        /\ pending' = pending (+) Only(r)
        /\ UNCHANGED strayed

\* Back is not disabled while the registration is under way.
BackFromParcel == Step = "Parcel" /\ Moves(BACK(wizard))

TxRefused(r) ==
    /\ r.op \in {"register", "lien"} /\ r.stage = "tx"
    /\ pending' = pending (-) Only(r)
    /\ page' = IF r.live THEN [page EXCEPT !.busy = FALSE] ELSE page
    /\ UNCHANGED <<tableVars, browser, wizard, strayed>>

TxConfirmed(r) ==
    /\ r.op \in {"register", "lien"} /\ r.stage = "tx"
    /\ pending' = (pending (-) Only(r)) (+) Only([r EXCEPT !.stage = "post"])
    /\ UNCHANGED <<tableVars, browser, wizard, page, strayed>>

\* Whatever POST /parcels answers, consent is granted for the wallet, without
\* waiting for it, and the wizard moves on.
ParcelPosted(r) ==
    LET grant == IF r.wallet = None THEN EmptyBag
                 ELSE Only(Request("wizard", "grant", None, r.wallet))
    IN  /\ r.op = "register" /\ r.stage = "post"
        /\ \/ CreateParcel(r.parcel, IF r.wallet = None THEN DEMO_WALLET ELSE r.wallet)
           \/ UNCHANGED parcels
        /\ Go(NEXT(wizard), (pending (-) Only(r)) (+) grant)
        /\ strayed' = (strayed \/ ~r.live)
        /\ UNCHANGED <<consents, consent_access_log, certified, liens, browser>>

\* The grant arrives some time, or never.
GrantArrives(r) ==
    /\ IsRequest(r, "wizard", "grant")
    /\ \/ Grant(r.wallet) /\ pending' = Permitted(r.wallet, pending (-) Only(r))
       \/ pending' = pending (-) Only(r) /\ UNCHANGED consents
    /\ UNCHANGED <<parcels, consent_access_log, certified, liens, browser, wizard, page,
                   strayed>>

-----------------------------------------------------------------------------
(* SatelliteStep *)

\* The answer, after the eight seconds the step takes at least: the timer is
\* not cleared when the step is left.
NdviShown(r) ==
    /\ IsRequest(r, "wizard", "ndvi")
    /\ \E score \in {r.parcel, ESTIMATED} \ {None} :
         /\ wizard' = [wizard EXCEPT !.ndviScore = score]
         /\ page' = IF r.live THEN [page EXCEPT !.ndvi = score] ELSE page
    /\ pending' = pending (-) Only(r)
    /\ strayed' = (strayed \/ ~r.live)
    /\ UNCHANGED <<tableVars, browser>>

SatelliteContinue == Step = "NDVI" /\ page.ndvi # None /\ Moves(NEXT(wizard))

-----------------------------------------------------------------------------
(* CreditScoreStep and SummaryStep: useCreditProfile *)

WithProfile(r, profile, error) ==
    page' = IF r.live
            THEN [page EXCEPT !.loading = FALSE, !.error = error,
                              !.profile = IF error THEN @ ELSE profile]
            ELSE page

\* The request or its answer is lost, or there is no such parcel.
ProfileFailed(r) ==
    /\ IsRequest(r, "wizard", "profile") /\ r.stage \in {"sent", "logged"}
    /\ WithProfile(r, None, TRUE)
    /\ pending' = pending (-) Only(r)
    /\ UNCHANGED <<tableVars, browser, wizard, strayed>>

ProfileAnswered(r) ==
    /\ IsRequest(r, "wizard", "profile") /\ r.stage = "logged"
    /\ \E profile \in Profiles(r) : WithProfile(r, profile, FALSE)
    /\ pending' = pending (-) Only(r)
    /\ UNCHANGED <<tableVars, browser, wizard, strayed>>

HasScore == page.profile # None /\ page.profile.credit

\* Mutant: an error is not tried again.
RetryUnlessError ==
    /\ Step = "Score" /\ ~page.loading /\ page.profile # None /\ ~HasScore
    /\ page.retryCount < MAX_RETRIES /\ ~page.error

RetryDue ==
    /\ Step = "Score" /\ ~page.loading /\ page.profile # None /\ ~HasScore
    /\ page.retryCount < MAX_RETRIES

FetchAgain(count) ==
    /\ page' = [page EXCEPT !.retryCount = count, !.loading = TRUE, !.error = FALSE]
    /\ pending' = pending (+) Only(AskProfile("wizard", wizard.cadastral))
    /\ UNCHANGED <<tableVars, browser, wizard, strayed>>

Retry == RetryDue /\ FetchAgain(page.retryCount + 1)

ScoreScreen ==
    IF page.loading \/ (~HasScore /\ page.retryCount < MAX_RETRIES) THEN "spinner"
    ELSE IF page.error /\ ~HasScore THEN "error" ELSE "gauge"

RetryAll ==
    /\ Step = "Score" /\ ScoreScreen = "error" /\ Free
    /\ FetchAgain(0)

\* "Continue" of the gauge, whether or not it shows a score; "Skip" of the error.
ScoreContinue ==
    Step = "Score" /\ ScoreScreen \in {"error", "gauge"} /\ Moves(NEXT(wizard))

SummaryScreen ==
    IF page.loading \/ (page.profile = None /\ ~page.error) THEN "spinner"
    ELSE IF page.profile = None THEN "blank" ELSE "profile"

LiensAnswered(r) ==
    /\ IsRequest(r, "wizard", "liens")
    /\ page' \in {page, IF r.live THEN [page EXCEPT !.liens = r.parcel \in liens] ELSE page}
    /\ pending' = pending (-) Only(r)
    /\ UNCHANGED <<tableVars, browser, wizard, strayed>>

\* The list of liens is looked at as it is, loaded or not.
SummaryClean == ~page.profile.liens /\ ~page.liens

StartNewAssessment == Step = "Profile" /\ SummaryScreen = "profile" /\ RESTART

OpenRegisterLien ==
    /\ Step = "Profile" /\ SummaryScreen = "profile" /\ wizard.path = "lender"
    /\ Moves(NEXT(wizard))

-----------------------------------------------------------------------------
(* SearchParcelStep *)

\* Enter also starts a search while another is under way.
Search(p) ==
    /\ Step = "Search" /\ Free /\ Click
    /\ pending' = pending (+) Only(Request("wizard", "search", p, None))
    /\ UNCHANGED <<wizard, page, strayed>>

SearchAnswered(r) ==
    /\ IsRequest(r, "wizard", "search")
    /\ \/ /\ parcels[r.parcel] # None
          /\ Go(NEXT([wizard EXCEPT !.cadastral = r.parcel]), pending (-) Only(r))
          /\ strayed' = (strayed \/ ~r.live)
       \/ pending' = pending (-) Only(r) /\ UNCHANGED <<wizard, page, strayed>>
    /\ UNCHANGED <<tableVars, browser>>

-----------------------------------------------------------------------------
(* RegisterLienStep; LienSync follows what becomes of the lien *)

HasWallet == browser.extension # None \/ page.deeplink # None \/ browser.stored # None

SubmitLien ==
    /\ Step = "Lien" /\ HasWallet /\ ~page.busy /\ ~page.success /\ Free
    /\ Click
    /\ page' = [page EXCEPT !.busy = TRUE]
    /\ pending' = pending (+) Only(
         [Request("wizard", "lien", wizard.cadastral, None) EXCEPT
             !.stage = IF browser.extension # None THEN "tx" ELSE "post"])
    /\ UNCHANGED <<wizard, strayed>>

\* registerLien returns null when POST /liens fails, and nobody looks.
LienPosted(r) ==
    /\ r.op = "lien" /\ r.stage = "post"
    /\ \/ r.parcel # None /\ CreateLien(r.parcel)
       \/ UNCHANGED liens
    /\ page' = IF r.live THEN [page EXCEPT !.busy = FALSE, !.success = TRUE] ELSE page
    /\ pending' = pending (-) Only(r)
    /\ UNCHANGED <<parcels, consents, consent_access_log, certified, browser, wizard,
                   strayed>>

BackFromLien == Step = "Lien" /\ Moves(BACK(wizard))
SearchAnother == Step = "Lien" /\ HasWallet /\ page.success /\ RESTART

-----------------------------------------------------------------------------

WizardClick ==
    \/ \E path \in {"farmer", "lender"} : SelectPath(path)
    \/ ContinueWithWallet \/ \E w \in Wallets : ApprovedByDeeplink(w)
    \/ \E p \in Parcels \cap scene : SubmitParcel(p) \/ Search(p)
    \/ BackFromParcel \/ SatelliteContinue \/ RetryAll \/ ScoreContinue
    \/ StartNewAssessment \/ OpenRegisterLien
    \/ SubmitLien \/ BackFromLien \/ SearchAnother

Answer(r) ==
    \/ TxRefused(r) \/ TxConfirmed(r) \/ ParcelPosted(r) \/ GrantArrives(r)
    \/ NdviShown(r) \/ ProfileFailed(r) \/ ProfileAnswered(r) \/ LiensAnswered(r)
    \/ SearchAnswered(r) \/ LienPosted(r)

WizardStep ==
    \/ WizardClick
    \/ AutoAdvance \/ Retry
    \/ \E r \in Requests : Answer(r)
=============================================================================
