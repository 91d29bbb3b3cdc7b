----------------------------- MODULE WebApp_proofs ------------------------------
(***************************************************************************)
(* Proofs about the pages of the web application and the consent they      *)
(* depend on, for any sets of parcels, wallets and lenders, any bounds of  *)
(* a behaviour and any number of requests under way.                       *)
(***************************************************************************)
EXTENDS WebApp, Consent_proofs

-----------------------------------------------------------------------------
(* The steps of the wizard *)

Paths == {"none", "farmer", "lender"}

\* A state of the reducer.
WizardOK(w) ==
    /\ w = [path |-> w.path, step |-> w.step, cadastral |-> w.cadastral,
            ndviScore |-> w.ndviScore, walletAddress |-> w.walletAddress]
    /\ w.path \in Paths /\ w.step \in Nat
    /\ w.cadastral \in Parcels \cup {None}

\* Which step is shown.
LEMMA StepTable ==
    ASSUME NEW w, WizardOK(w)
    PROVE  /\ StepOf(w) = "Wallet" <=> (w.path = "farmer" /\ w.step = 0)
           /\ StepOf(w) = "Parcel" <=> (w.path = "farmer" /\ w.step = 1)
           /\ StepOf(w) = "NDVI" <=> (w.path = "farmer" /\ w.step = 2)
           /\ StepOf(w) = "Score" <=> (w.path = "farmer" /\ w.step = 3)
           /\ StepOf(w) = "Profile" <=> \/ w.path = "farmer" /\ w.step = 4
                                        \/ w.path = "lender" /\ w.step = 1
           /\ StepOf(w) = "Search" <=> (w.path = "lender" /\ w.step = 0)
           /\ StepOf(w) = "Lien" <=> (w.path = "lender" /\ w.step = 2)
           /\ StepOf(w) = "none" <=> \/ w.path = "none"
                                     \/ w.path = "farmer" /\ w.step > 4
                                     \/ w.path = "lender" /\ w.step > 2
<1>1. w.path \in Paths /\ w.step \in Nat
  BY DEF WizardOK
<1>2. CASE w.path = "none"
  BY <1>2 DEF StepOf
<1>3. CASE w.path = "farmer"
  <2>1. StepOf(w) = IF w.step > 4 THEN "none" ELSE FARMER_STEPS[w.step + 1]
    BY <1>1, <1>3 DEF StepOf, StepsOf, FARMER_STEPS
  <2>2. CASE w.step = 0
    BY <2>1, <2>2, <1>3 DEF FARMER_STEPS
  <2>3. CASE w.step = 1
    BY <2>1, <2>3, <1>3 DEF FARMER_STEPS
  <2>4. CASE w.step = 2
    BY <2>1, <2>4, <1>3 DEF FARMER_STEPS
  <2>5. CASE w.step = 3
    BY <2>1, <2>5, <1>3 DEF FARMER_STEPS
  <2>6. CASE w.step = 4
    BY <2>1, <2>6, <1>3 DEF FARMER_STEPS
  <2>7. CASE w.step > 4
    BY <2>1, <2>7, <1>1, <1>3
  <2>8. QED
    BY <1>1, <2>2, <2>3, <2>4, <2>5, <2>6, <2>7
<1>4. CASE w.path = "lender"
  <2>1. StepOf(w) = IF w.step > 2 THEN "none" ELSE LENDER_STEPS[w.step + 1]
    BY <1>1, <1>4 DEF StepOf, StepsOf, LENDER_STEPS
  <2>2. CASE w.step = 0
    BY <2>1, <2>2, <1>4 DEF LENDER_STEPS
  <2>3. CASE w.step = 1
    BY <2>1, <2>3, <1>4 DEF LENDER_STEPS
  <2>4. CASE w.step = 2
    BY <2>1, <2>4, <1>4 DEF LENDER_STEPS
  <2>5. CASE w.step > 2
    BY <2>1, <2>5, <1>1, <1>4
  <2>6. QED
    BY <1>1, <2>2, <2>3, <2>4, <2>5
<1>5. QED
  BY <1>1, <1>2, <1>3, <1>4 DEF Paths

\* The requests a mounted step waits for are about what it shows.
OnScreen(w, r) ==
    (r.tab = "wizard" /\ r.live) =>
        /\ r.op = "profile" => StepOf(w) \in {"Score", "Profile"} /\ r.parcel = w.cadastral
        /\ r.op = "ndvi" => StepOf(w) = "NDVI" /\ r.parcel = w.cadastral
        /\ r.op = "register" => StepOf(w) = "Parcel"
        /\ r.op = "search" => StepOf(w) = "Search"

\* So are those a step sends when it is mounted.
LEMMA SentSound ==
    ASSUME TablesOK, NEW w, WizardOK(w), NEW x \in Sent(w)
    PROVE  Sound(x) /\ OnScreen(w, x)
<1>1. w.cadastral \in Parcels \cup {None}
  BY DEF WizardOK
<1>2. ASSUME x = Request("wizard", "ndvi", w.cadastral, None), StepOf(w) = "NDVI"
      PROVE  Sound(x) /\ OnScreen(w, x)
  <2>1. /\ WellFormed(x) /\ x.tab = "wizard" /\ x.op = "ndvi" /\ x.parcel = w.cadastral
        /\ x.answer = None
    BY <1>2, FreshRequest
  <2>2. QED
    BY <1>1, <1>2, <2>1, OtherSound, ConsentAssumption DEF OnScreen
<1>3. ASSUME x = Request("wizard", "liens", w.cadastral, None)
      PROVE  Sound(x) /\ OnScreen(w, x)
  <2>1. /\ WellFormed(x) /\ x.tab = "wizard" /\ x.op = "liens" /\ x.parcel = w.cadastral
        /\ x.answer = None
    BY <1>3, FreshRequest
  <2>2. QED
    BY <1>1, <2>1, OtherSound, ConsentAssumption DEF OnScreen
<1>4. ASSUME x = AskProfile("wizard", w.cadastral), w.cadastral # None,
             StepOf(w) \in {"Score", "Profile"}
      PROVE  Sound(x) /\ OnScreen(w, x)
  <2>1. x.op = "profile" /\ x.parcel = w.cadastral
    BY <1>4, FreshProfile
  <2>2. QED
    BY <1>1, <1>4, <2>1, AskedSound DEF OnScreen
<1>5. QED
  BY <1>2, <1>3, <1>4 DEF Sent

-----------------------------------------------------------------------------
(* The page of a step *)

PageFields(pg) ==
    pg = [busy |-> pg.busy, success |-> pg.success, ndvi |-> pg.ndvi,
          profile |-> pg.profile, loading |-> pg.loading, error |-> pg.error,
          retryCount |-> pg.retryCount, liens |-> pg.liens, deeplink |-> pg.deeplink,
          wasConnected |-> pg.wasConnected, encumbered |-> pg.encumbered]

\* A profile that shows the lien of a parcel that has one, or cannot.
Tells(profile) == profile.liens \/ profile.masked \/ profile.unread

\* What a mounted step holds is about the parcel under assessment, and a profile
\* that came after a lien tells of it.
PageOK(w, pg) ==
    /\ PageFields(pg)
    /\ pg.profile # None =>
         StepOf(w) \in {"Score", "Profile"} /\ pg.profile.parcel = w.cadastral
    /\ (pg.profile # None \/ pg.error) => w.cadastral \in Parcels
    /\ pg.ndvi # None => StepOf(w) = "NDVI" /\ pg.ndvi \in {w.cadastral, ESTIMATED}
    /\ pg.encumbered => StepOf(w) = "Profile" /\ w.cadastral \in liens
    /\ (pg.encumbered /\ pg.profile # None) => Tells(pg.profile)

\* A step that has just been mounted holds nothing.
LEMMA NewPageOK ==
    ASSUME NEW w, NEW pg, pg = NewPage(w)
    PROVE  PageOK(w, pg)
<1>1. /\ PageFields(pg)
      /\ pg.profile = None /\ pg.ndvi = None /\ pg.error = FALSE
  BY DEF NewPage, PageFields
<1>2. pg.encumbered <=> (StepOf(w) = "Profile" /\ w.cadastral \in liens)
  BY DEF NewPage
<1>3. QED
  BY <1>1, <1>2 DEF PageOK

\* A page stays so while liens are added.
LEMMA PageOKLater ==
    ASSUME NEW w, NEW pg, PageOK(w, pg), liens \subseteq liens'
    PROVE  PageOK(w, pg)'
BY DEF PageOK, Tells, PageFields

\* As long as no answer to a step that was left has reached the reducer, a path
\* is at one of its steps, the satellite's score is of the parcel under
\* assessment, and a lender assesses a parcel with a row.
PathOK(w) ==
    /\ w.path # "none" => StepOf(w) # "none"
    /\ w.ndviScore # None =>
         /\ StepOf(w) \in {"NDVI", "Score", "Profile"} /\ w.path = "farmer"
         /\ w.ndviScore \in {w.cadastral, ESTIMATED}
    /\ (w.path = "lender" /\ w.step > 0) =>
         w.cadastral \in Parcels /\ parcels[w.cadastral] # None

WizardInv ==
    /\ WizardOK(wizard)
    /\ \A r \in Requests : OnScreen(wizard, r)
    /\ PageOK(wizard, page)
    /\ ~strayed => PathOK(wizard)

\* A request of another tab was under way before.
Foreign(x) == x.tab = "wizard" \/ \E r \in Requests : Later(x, r)

\* The requests after a step of the wizard come from sound ones that its page may
\* have, and it sends only its own.
Flows(w) ==
    \A x \in Requests' :
        Foreign(x) /\ \E r : Sound(r) /\ OnScreen(w, r) /\ Later(x, r)

\* What becomes of a request still fits the screen.
LEMMA OnScreenLater ==
    ASSUME NEW w, NEW r, OnScreen(w, r), NEW x, Later(x, r)
    PROVE  OnScreen(w, x)
BY DEF OnScreen, Later

\* When requests are answered or sent, the others stay as they are.
LEMMA SentFlows ==
    ASSUME ConsentInv, WizardInv,
           \A x \in Requests' :
             x \in Requests \/ (Sound(x) /\ OnScreen(wizard, x) /\ x.tab = "wizard")
    PROVE  Flows(wizard)
<1>1. \A x \in Requests' : Sound(x) /\ OnScreen(wizard, x) /\ Later(x, x)
  BY LaterReflexive DEF ConsentInv, WizardInv, Sound, RequestOK
<1>2. QED
  BY <1>1 DEF Flows, Foreign

\* The requests after an answer are those before it but for one.
LEMMA AnsweredFlows ==
    ASSUME ConsentInv, WizardInv, NEW r, pending' = pending (-) Only(r)
    PROVE  Flows(wizard)
BY SentFlows, RequestsOfBags DEF Requests

\* A step that moves the wizard leaves none of the requests of the old one with
\* a page, and sends those of the new one.
LEMMA GoFlows ==
    ASSUME TablesOK, NEW w, WizardOK(w), NEW bag,
           \A r \in BagToSet(bag) : Sound(r) /\ (r \in Requests \/ r.tab = "wizard"),
           Go(w, bag)
    PROVE  /\ wizard' = w /\ page' = NewPage(w)
           /\ Flows(w)
<1>1. wizard' = w /\ page' = NewPage(w)
  BY DEF Go, MountedPage
<1>2. ASSUME NEW x \in Requests'
      PROVE  \E r : Sound(r) /\ OnScreen(w, r) /\ Later(x, r)
  <2>1. x \in BagToSet(Orphaned(bag, "wizard")) \/ x \in Sent(w)
    BY RequestsOfBags DEF Go, Requests
  <2>2. CASE x \in Sent(w)
    <3>1. Sound(x) /\ OnScreen(w, x)
      BY <2>2, SentSound
    <3>2. QED
      BY <3>1, LaterReflexive DEF Sound, RequestOK
  <2>3. CASE x \in BagToSet(Orphaned(bag, "wizard"))
    <3>1. \A r \in BagToSet(bag) : WellFormed(r)
      BY DEF Sound, RequestOK
    <3>2. /\ \E r \in BagToSet(bag) : Later(x, r)
          /\ x.tab = "wizard" => ~x.live
      BY <2>3, <3>1, OrphanedRequests
    <3>3. PICK r \in BagToSet(bag) : Later(x, r)
      BY <3>2
    <3>4. PICK y : y = [r EXCEPT !.live = x.live]
      OBVIOUS
    <3>5. WellFormed(r) /\ Sound(r)
      BY <3>1
    <3>6. /\ WellFormed(y)
          /\ y.tab = r.tab /\ y.op = r.op /\ y.parcel = r.parcel /\ y.wallet = r.wallet
          /\ y.stage = r.stage /\ y.answer = r.answer /\ y.known = r.known
          /\ y.failed = r.failed /\ y.allowed = r.allowed /\ y.live = x.live
      BY <3>4, <3>5 DEF WellFormed
    <3>7. Sound(y)
      BY <3>5, <3>6 DEF Sound, RequestOK, ProfileOK, HasRow, IsRevoked, Entered
    <3>8. OnScreen(w, y)
      BY <3>2, <3>3, <3>6 DEF OnScreen, Later
    <3>9. Later(x, y)
      BY <3>3, <3>6 DEF Later
    <3>10. QED
      BY <3>7, <3>8, <3>9
  <2>4. QED
    BY <2>1, <2>2, <2>3
<1>3. ASSUME NEW x \in Requests' PROVE Foreign(x)
  <2>1. x \in BagToSet(Orphaned(bag, "wizard")) \/ x \in Sent(w)
    BY RequestsOfBags DEF Go, Requests
  <2>2. CASE x \in Sent(w)
    BY <2>2, FreshRequest, FreshProfile DEF Sent, Foreign
  <2>3. CASE x \in BagToSet(Orphaned(bag, "wizard"))
    <3>1. \A r \in BagToSet(bag) : WellFormed(r)
      BY DEF Sound, RequestOK
    <3>2. PICK r \in BagToSet(bag) : Later(x, r)
      BY <2>3, <3>1, OrphanedRequests
    <3>3. QED
      BY <3>2 DEF Foreign, Later
  <2>4. QED
    BY <2>1, <2>2, <2>3
<1>4. QED
  BY <1>1, <1>2, <1>3 DEF Flows

\* A step of a page that leaves the consents alone, or revokes, keeps what is
\* said of the requests.
LEMMA FlowsKeepConsent ==
    ASSUME ConsentInv, TablesEvolve,
           \A x \in Requests' : \E r : Sound(r) /\ Later(x, r),
           \A v \in Wallets : consents[v] = "revoked" => consents'[v] = "revoked"
    PROVE  ConsentInv'
<1>1. TablesOK /\ TablesOK'
  BY DEF ConsentInv, TablesOK, TablesEvolve
<1>2. ASSUME NEW x \in Requests' PROVE Sound(x)'
  <2>1. PICK r : Sound(r) /\ Later(x, r)
    BY <1>2
  <2>2. IsRevoked(x) => consents'[parcels[x.parcel]] = "revoked"
    BY DEF IsRevoked
  <2>3. QED
    BY <1>1, <2>1, <2>2, SoundLater
<1>3. QED
  BY <1>1, <1>2 DEF ConsentInv

-----------------------------------------------------------------------------
(* Steps that move the wizard *)

\* What the wizard does to the tables.
TablesKept ==
    /\ TablesEvolve
    /\ \A v \in Wallets : consents[v] = "revoked" => consents'[v] = "revoked"
    /\ liens \subseteq liens'

\* What it does to the other tabs: it sends nothing for them, and takes no lien
\* away.
OthersLeft == liens \subseteq liens' /\ \A x \in Requests' : Foreign(x)

\* Tables that a step leaves alone are kept.
LEMMA TablesAlone == TablesOK /\ UNCHANGED tableVars => TablesKept
BY SameTables DEF TablesKept, tableVars

\* The wizard and its page after a step.
LEMMA WizardStays ==
    ASSUME TablesEvolve, liens \subseteq liens',
           NEW w, NEW pg, wizard' = w, page' = pg,
           WizardOK(w), PageOK(w, pg), ~strayed' => PathOK(w), Flows(w)
    PROVE  WizardInv'
<1>1. \A x \in Requests' : OnScreen(w, x)
  BY OnScreenLater DEF Flows
<1>2. PageOK(w, pg)'
  BY PageOKLater
<1>3. ~strayed' => PathOK(w)'
  BY DEF PathOK, TablesEvolve
<1>4. QED
  BY <1>1, <1>2, <1>3 DEF WizardInv, WizardOK, OnScreen, PageOK, PathOK

\* And what is said of the requests.
LEMMA WizardKeeps ==
    ASSUME ConsentInv, TablesKept, NEW w, NEW pg, wizard' = w, page' = pg,
           WizardOK(w), PageOK(w, pg), ~strayed' => PathOK(w), Flows(w)
    PROVE  ConsentInv' /\ WizardInv' /\ OthersLeft
<1>1. ConsentInv'
  BY FlowsKeepConsent DEF TablesKept, Flows
<1>2. WizardInv'
  BY WizardStays DEF TablesKept
<1>3. OthersLeft
  BY DEF TablesKept, Flows, OthersLeft
<1>4. QED
  BY <1>1, <1>2, <1>3

\* A step that moves the wizard to a sound state with a sound bag of requests.
LEMMA GoKeeps ==
    ASSUME ConsentInv, TablesKept, NEW w, WizardOK(w), ~strayed' => PathOK(w),
           NEW bag, Go(w, bag),
           \A r \in BagToSet(bag) : Sound(r) /\ (r \in Requests \/ r.tab = "wizard")
    PROVE  ConsentInv' /\ WizardInv' /\ OthersLeft
<1>1. PICK pg : pg = NewPage(w)
  OBVIOUS
<1>2. wizard' = w /\ page' = pg /\ Flows(w)
  BY <1>1, GoFlows DEF ConsentInv
<1>3. QED
  BY <1>1, <1>2, NewPageOK, WizardKeeps

\* A click that moves the wizard.
LEMMA MovesKeep ==
    ASSUME ConsentInv, WizardInv, NEW w, WizardOK(w), ~strayed => PathOK(w), Moves(w)
    PROVE  ConsentInv' /\ WizardInv' /\ OthersLeft
<1>1. TablesKept
  BY TablesAlone DEF ConsentInv, Moves, Click
<1>2. /\ \A r \in BagToSet(pending) : Sound(r) /\ r \in Requests
      /\ Go(w, pending) /\ strayed' = strayed
  BY DEF ConsentInv, Requests, Moves
<1>3. QED
  BY <1>1, <1>2, GoKeeps

\* "New assessment" and "Search another" start from nothing.
LEMMA RestartKeeps ==
    ASSUME ConsentInv, WizardInv, RESTART
    PROVE  ConsentInv' /\ WizardInv' /\ OthersLeft
<1>1. TablesKept
  BY TablesAlone DEF ConsentInv, RESTART, Click
<1>2. PICK w : w = initialState
  OBVIOUS
<1>3. WizardOK(w) /\ w.path = "none" /\ w.ndviScore = None
  BY <1>2 DEF initialState, WizardOK, Paths
<1>4. PathOK(w)
  BY <1>3 DEF PathOK
<1>5. /\ \A r \in BagToSet(pending) : Sound(r) /\ r \in Requests
      /\ Go(w, pending)
  BY <1>2 DEF ConsentInv, Requests, RESTART
<1>6. QED
  BY <1>1, <1>3, <1>4, <1>5, GoKeeps

\* The step after the one that is shown.
LEMMA NextStep ==
    ASSUME WizardInv, NEW w, w = NEXT(wizard)
    PROVE  /\ WizardOK(w)
           /\ w.path = wizard.path /\ w.step = wizard.step + 1
           /\ w.cadastral = wizard.cadastral /\ w.ndviScore = wizard.ndviScore
BY DEF WizardInv, WizardOK, NEXT

\* The one before.
LEMMA LastStep ==
    ASSUME WizardInv, NEW w, w = BACK(wizard)
    PROVE  /\ WizardOK(w)
           /\ w.path = wizard.path
           /\ w.step = IF wizard.step = 0 THEN 0 ELSE wizard.step - 1
           /\ w.cadastral = wizard.cadastral /\ w.ndviScore = wizard.ndviScore
BY DEF WizardInv, WizardOK, BACK

\* The first screen: a path is chosen, and nothing is held yet.
LEMMA SelectPathKeeps ==
    ASSUME ConsentInv, WizardInv, NEW path \in {"farmer", "lender"}, SelectPath(path)
    PROVE  ConsentInv' /\ WizardInv' /\ OthersLeft
<1>1. PICK w : w = [wizard EXCEPT !.path = path, !.step = 0]
  OBVIOUS
<1>2. /\ WizardOK(w) /\ w.path = path /\ w.step = 0 /\ w.ndviScore = wizard.ndviScore
  BY <1>1 DEF WizardInv, WizardOK, Paths
<1>3. ~strayed => wizard.ndviScore = None
  BY DEF WizardInv, PathOK, SelectPath
<1>4. ~strayed => PathOK(w)
  BY <1>2, <1>3, StepTable DEF PathOK
<1>5. QED
  BY <1>1, <1>2, <1>4, MovesKeep DEF SelectPath

\* From the wallet to the parcel, on a click.
LEMMA ContinueWithWalletKeeps ==
    ASSUME ConsentInv, WizardInv, ContinueWithWallet
    PROVE  ConsentInv' /\ WizardInv' /\ OthersLeft
<1>1. PICK v : v = [wizard EXCEPT !.walletAddress = browser.extension]
  OBVIOUS
<1>2. PICK w : w = NEXT(v)
  OBVIOUS
<1>3. /\ WizardOK(w) /\ w.path = wizard.path /\ w.step = wizard.step + 1
      /\ w.ndviScore = wizard.ndviScore
  <2>1. /\ WizardOK(v) /\ v.path = wizard.path /\ v.step = wizard.step
        /\ v.ndviScore = wizard.ndviScore
    BY <1>1 DEF WizardInv, WizardOK
  <2>2. QED
    BY <1>2, <2>1 DEF WizardOK, NEXT
<1>4. wizard.path = "farmer" /\ wizard.step = 0
  BY StepTable DEF WizardInv, ContinueWithWallet, Step
<1>5. ~strayed => wizard.ndviScore = None
  BY <1>4, StepTable DEF WizardInv, PathOK
<1>6. ~strayed => PathOK(w)
  BY <1>3, <1>4, <1>5, StepTable DEF PathOK
<1>7. Moves(w)
  BY <1>1, <1>2 DEF ContinueWithWallet
<1>8. QED
  BY <1>3, <1>6, <1>7, MovesKeep

\* From the wallet to the parcel, as soon as there is a wallet.
LEMMA AutoAdvanceKeeps ==
    ASSUME ConsentInv, WizardInv, AutoAdvance
    PROVE  ConsentInv' /\ WizardInv' /\ OthersLeft
<1>1. PICK a : a = IF browser.extension # None THEN browser.extension ELSE page.deeplink
  OBVIOUS
<1>2. PICK v : v = [wizard EXCEPT !.walletAddress = a]
  OBVIOUS
<1>3. PICK w : w = NEXT(v)
  OBVIOUS
<1>4. /\ WizardOK(w) /\ w.path = wizard.path /\ w.step = wizard.step + 1
      /\ w.ndviScore = wizard.ndviScore
  <2>1. /\ WizardOK(v) /\ v.path = wizard.path /\ v.step = wizard.step
        /\ v.ndviScore = wizard.ndviScore
    BY <1>2 DEF WizardInv, WizardOK
  <2>2. QED
    BY <1>3, <2>1 DEF WizardOK, NEXT
<1>5. wizard.path = "farmer" /\ wizard.step = 0
  BY StepTable DEF WizardInv, AutoAdvance, Step
<1>6. ~strayed => wizard.ndviScore = None
  BY <1>5, StepTable DEF WizardInv, PathOK
<1>7. ~strayed => PathOK(w)
  BY <1>4, <1>5, <1>6, StepTable DEF PathOK
<1>8. /\ Go(w, pending) /\ UNCHANGED tableVars /\ strayed' = strayed
      /\ \A r \in BagToSet(pending) : Sound(r) /\ r \in Requests
  BY <1>1, <1>2, <1>3 DEF AutoAdvance, ConsentInv, Requests
<1>9. TablesKept
  BY <1>8, TablesAlone DEF ConsentInv
<1>10. QED
  BY <1>4, <1>7, <1>8, <1>9, GoKeeps

\* The buttons to the step before and to the next.
LEMMA ButtonsKeep ==
    ASSUME ConsentInv, WizardInv,
           \/ BackFromParcel \/ SatelliteContinue \/ ScoreContinue
           \/ OpenRegisterLien \/ BackFromLien
    PROVE  ConsentInv' /\ WizardInv' /\ OthersLeft
<1>1. PICK next : next = NEXT(wizard)
  OBVIOUS
<1>2. PICK last : last = BACK(wizard)
  OBVIOUS
<1>3. /\ WizardOK(next) /\ WizardOK(last)
      /\ next.path = wizard.path /\ next.step = wizard.step + 1
      /\ next.cadastral = wizard.cadastral /\ next.ndviScore = wizard.ndviScore
      /\ last.path = wizard.path
      /\ last.step = IF wizard.step = 0 THEN 0 ELSE wizard.step - 1
      /\ last.cadastral = wizard.cadastral /\ last.ndviScore = wizard.ndviScore
  BY <1>1, <1>2, NextStep, LastStep
<1>4. WizardOK(wizard) /\ (~strayed => PathOK(wizard))
  BY DEF WizardInv
<1>5. CASE BackFromParcel
  <2>1. wizard.path = "farmer" /\ wizard.step = 1
    BY <1>4, <1>5, StepTable DEF BackFromParcel, Step
  <2>2. ~strayed => PathOK(last)
    BY <1>3, <1>4, <2>1, StepTable DEF PathOK
  <2>3. QED
    BY <1>2, <1>3, <1>5, <2>2, MovesKeep DEF BackFromParcel
<1>6. CASE SatelliteContinue
  <2>1. wizard.path = "farmer" /\ wizard.step = 2
    BY <1>4, <1>6, StepTable DEF SatelliteContinue, Step
  <2>2. ~strayed => PathOK(next)
    BY <1>3, <1>4, <2>1, StepTable DEF PathOK
  <2>3. QED
    BY <1>1, <1>3, <1>6, <2>2, MovesKeep DEF SatelliteContinue
<1>7. CASE ScoreContinue
  <2>1. wizard.path = "farmer" /\ wizard.step = 3
    BY <1>4, <1>7, StepTable DEF ScoreContinue, Step
  <2>2. ~strayed => PathOK(next)
    BY <1>3, <1>4, <2>1, StepTable DEF PathOK
  <2>3. QED
    BY <1>1, <1>3, <1>7, <2>2, MovesKeep DEF ScoreContinue
<1>8. CASE OpenRegisterLien
  <2>1. wizard.path = "lender" /\ wizard.step = 1
    BY <1>4, <1>8, StepTable DEF OpenRegisterLien, Step
  <2>2. ~strayed => PathOK(next)
    BY <1>3, <1>4, <2>1, StepTable DEF PathOK
  <2>3. QED
    BY <1>1, <1>3, <1>8, <2>2, MovesKeep DEF OpenRegisterLien
<1>9. CASE BackFromLien
  <2>1. wizard.path = "lender" /\ wizard.step = 2
    BY <1>4, <1>9, StepTable DEF BackFromLien, Step
  <2>2. ~strayed => PathOK(last)
    BY <1>3, <1>4, <2>1, StepTable DEF PathOK
  <2>3. QED
    BY <1>2, <1>3, <1>9, <2>2, MovesKeep DEF BackFromLien
<1>10. QED
  BY <1>5, <1>6, <1>7, <1>8, <1>9

\* The answer to a registration moves the wizard, and if it reaches the step that
\* asked, to the satellite.
LEMMA ParcelPostedKeeps ==
    ASSUME ConsentInv, WizardInv, NEW r \in Requests, ParcelPosted(r)
    PROVE  ConsentInv' /\ WizardInv' /\ OthersLeft
<1>1. Sound(r) /\ r.parcel \in Parcels /\ r.tab = "wizard" /\ r.op = "register"
  BY DEF ConsentInv, Sound, RequestOK, ParcelPosted
<1>2. PICK grant : grant = IF r.wallet = None THEN EmptyBag
                           ELSE Only(Request("wizard", "grant", None, r.wallet))
  OBVIOUS
<1>3. PICK bag : bag = (pending (-) Only(r)) (+) grant
  OBVIOUS
<1>4. PICK w : w = NEXT(wizard)
  OBVIOUS
<1>5. Go(w, bag) /\ strayed' = (strayed \/ ~r.live)
  BY <1>2, <1>3, <1>4 DEF ParcelPosted
<1>6. ASSUME NEW x \in BagToSet(bag)
      PROVE  Sound(x) /\ (x \in Requests \/ x.tab = "wizard")
  <2>1. x \in Requests \/ x \in BagToSet(grant)
    BY <1>3, RequestsOfBags DEF Requests
  <2>2. x \in BagToSet(grant) => x = Request("wizard", "grant", None, r.wallet)
    BY <1>2, RequestsOfBags
  <2>3. CASE x = Request("wizard", "grant", None, r.wallet)
    <3>1. /\ WellFormed(x) /\ x.tab = "wizard" /\ x.op = "grant" /\ x.parcel = None
          /\ x.answer = None
      BY <2>3, FreshRequest
    <3>2. QED
      BY <3>1, OtherSound, ConsentAssumption
  <2>4. QED
    BY <2>1, <2>2, <2>3 DEF ConsentInv
<1>7. TablesKept
  <2>1. \/ UNCHANGED parcels
        \/ \E owner : parcels' = [parcels EXCEPT ![r.parcel] = IF @ = None THEN owner ELSE @]
    BY DEF ParcelPosted, CreateParcel
  <2>2. /\ DOMAIN parcels' = Parcels
        /\ \A p \in Parcels : parcels[p] # None => parcels'[p] = parcels[p]
    BY <1>1, <2>1 DEF ConsentInv, TablesOK
  <2>3. UNCHANGED <<consents, consent_access_log, liens>>
    BY DEF ParcelPosted
  <2>4. QED
    BY <2>2, <2>3 DEF TablesKept, TablesEvolve, ConsentInv, TablesOK
<1>8. /\ WizardOK(w) /\ w.path = wizard.path /\ w.step = wizard.step + 1
      /\ w.cadastral = wizard.cadastral /\ w.ndviScore = wizard.ndviScore
  BY <1>4, NextStep
<1>9. ~strayed' => PathOK(w)
  <2>1. SUFFICES ASSUME ~strayed' PROVE PathOK(w)
    OBVIOUS
  <2>2. ~strayed /\ r.live
    BY <1>5, <2>1
  <2>3. wizard.path = "farmer" /\ wizard.step = 1
    BY <1>1, <2>2, StepTable DEF WizardInv, OnScreen
  <2>4. wizard.ndviScore = None
    BY <2>2, <2>3, StepTable DEF WizardInv, PathOK
  <2>5. QED
    BY <1>8, <2>3, <2>4, StepTable DEF PathOK
<1>10. QED
  BY <1>5, <1>6, <1>7, <1>8, <1>9, GoKeeps

\* So does the answer to a search.
LEMMA SearchAnsweredKeeps ==
    ASSUME ConsentInv, WizardInv, NEW r \in Requests, SearchAnswered(r)
    PROVE  ConsentInv' /\ WizardInv' /\ OthersLeft
<1>1. Sound(r) /\ r.parcel \in Parcels /\ r.tab = "wizard" /\ r.op = "search"
  BY DEF ConsentInv, Sound, RequestOK, SearchAnswered, IsRequest
<1>2. TablesKept
  BY TablesAlone DEF ConsentInv, SearchAnswered
<1>3. CASE parcels[r.parcel] # None
           /\ Go(NEXT([wizard EXCEPT !.cadastral = r.parcel]), pending (-) Only(r))
           /\ strayed' = (strayed \/ ~r.live)
  <2>1. PICK v : v = [wizard EXCEPT !.cadastral = r.parcel]
    OBVIOUS
  <2>2. PICK w : w = NEXT(v)
    OBVIOUS
  <2>3. PICK bag : bag = pending (-) Only(r)
    OBVIOUS
  <2>4. /\ WizardOK(v) /\ v.path = wizard.path /\ v.step = wizard.step
        /\ v.cadastral = r.parcel /\ v.ndviScore = wizard.ndviScore
    BY <1>1, <2>1 DEF WizardInv, WizardOK
  <2>5. /\ WizardOK(w) /\ w.path = wizard.path /\ w.step = wizard.step + 1
        /\ w.cadastral = r.parcel /\ w.ndviScore = wizard.ndviScore
    BY <2>2, <2>4 DEF WizardOK, NEXT
  <2>6. ~strayed' => PathOK(w)
    <3>1. SUFFICES ASSUME ~strayed' PROVE PathOK(w)
      OBVIOUS
    <3>2. ~strayed /\ r.live
      BY <1>3, <3>1
    <3>3. wizard.path = "lender" /\ wizard.step = 0
      BY <1>1, <3>2, StepTable DEF WizardInv, OnScreen
    <3>4. wizard.ndviScore = None
      BY <3>2, <3>3, StepTable DEF WizardInv, PathOK
    <3>5. QED
      BY <1>1, <1>3, <2>5, <3>3, <3>4, StepTable DEF PathOK
  <2>7. \A x \in BagToSet(bag) : Sound(x) /\ x \in Requests
    BY <2>3, RequestsOfBags DEF ConsentInv, Requests
  <2>8. Go(w, bag)
    BY <1>3, <2>1, <2>2, <2>3
  <2>9. QED
    BY <1>2, <2>5, <2>6, <2>7, <2>8, GoKeeps
<1>4. CASE pending' = pending (-) Only(r) /\ UNCHANGED <<wizard, page, strayed>>
  <2>1. Flows(wizard)
    BY <1>4, AnsweredFlows
  <2>2. QED
    BY <1>2, <1>4, <2>1, WizardKeeps DEF WizardInv
<1>5. QED
  BY <1>3, <1>4 DEF SearchAnswered

-----------------------------------------------------------------------------
(* Steps on the page that is shown *)

\* A page of which only what the invariant does not mention is changed.
LEMMA PageTouched ==
    ASSUME WizardInv, NEW pg, PageFields(pg), pg.profile = page.profile,
           pg.ndvi = page.ndvi, pg.encumbered = page.encumbered,
           pg.error => page.error
    PROVE  PageOK(wizard, pg)
BY DEF WizardInv, PageOK

\* A step of the wizard that leaves the reducer's state alone.
LEMMA InPlaceKeeps ==
    ASSUME ConsentInv, WizardInv, TablesKept, UNCHANGED <<wizard, strayed>>,
           NEW pg, page' = pg, PageOK(wizard, pg), Flows(wizard)
    PROVE  ConsentInv' /\ WizardInv' /\ OthersLeft
<1>1. PICK w : w = wizard
  OBVIOUS
<1>2. /\ wizard' = w /\ WizardOK(w) /\ PageOK(w, pg) /\ (~strayed' => PathOK(w))
      /\ Flows(w)
  BY <1>1 DEF WizardInv
<1>3. QED
  BY <1>2, WizardKeeps

\* The deeplink's address changes nothing that the pages show of a parcel.
LEMMA ApprovedByDeeplinkKeeps ==
    ASSUME ConsentInv, WizardInv, NEW a \in Wallets, ApprovedByDeeplink(a)
    PROVE  ConsentInv' /\ WizardInv' /\ OthersLeft
<1>1. PICK pg : pg = [page EXCEPT !.deeplink = a]
  OBVIOUS
<1>2. PageOK(wizard, pg)
  BY <1>1, PageTouched DEF WizardInv, PageOK, PageFields
<1>3. Flows(wizard)
  BY SentFlows DEF ApprovedByDeeplink, Requests
<1>4. TablesKept
  BY TablesAlone DEF ConsentInv, ApprovedByDeeplink
<1>5. QED
  BY <1>1, <1>2, <1>3, <1>4, InPlaceKeeps DEF ApprovedByDeeplink

\* The parcel under assessment changes before any page about it was shown.
LEMMA SubmitParcelKeeps ==
    ASSUME ConsentInv, WizardInv, NEW p \in Parcels, SubmitParcel(p)
    PROVE  ConsentInv' /\ WizardInv' /\ OthersLeft
<1>1. PICK w : w = [wizard EXCEPT !.cadastral = p]
  OBVIOUS
<1>2. PICK pg : pg = [page EXCEPT !.busy = TRUE]
  OBVIOUS
<1>3. PICK a : a = IF browser.extension # None THEN browser.extension ELSE wizard.walletAddress
  OBVIOUS
<1>4. PICK q : q = Request("wizard", "register", p, a)
  OBVIOUS
<1>5. PICK r : r = [q EXCEPT !.stage = IF browser.extension # None THEN "tx" ELSE "post"]
  OBVIOUS
<1>6. /\ wizard' = w /\ page' = pg /\ pending' = pending (+) Only(r)
      /\ Step = "Parcel" /\ UNCHANGED tableVars /\ strayed' = strayed
  BY <1>1, <1>2, <1>3, <1>4, <1>5 DEF SubmitParcel, Click
<1>7. /\ WizardOK(w) /\ w.path = wizard.path /\ w.step = wizard.step /\ w.cadastral = p
      /\ w.ndviScore = wizard.ndviScore
  BY <1>1 DEF WizardInv, WizardOK
<1>8. /\ wizard.path = "farmer" /\ wizard.step = 1 /\ WizardOK(wizard)
      /\ StepOf(wizard) = "Parcel"
  BY <1>6, StepTable DEF WizardInv, Step
<1>9. StepOf(w) = "Parcel"
  BY <1>7, <1>8, StepTable
<1>10. PageOK(w, pg)
  <2>1. /\ PageFields(pg) /\ pg.profile = page.profile /\ pg.ndvi = page.ndvi
        /\ pg.error = page.error /\ pg.encumbered = page.encumbered
    BY <1>2 DEF WizardInv, PageOK, PageFields
  <2>2. page.profile = None /\ page.ndvi = None /\ ~page.encumbered
    BY <1>8 DEF WizardInv, PageOK
  <2>3. QED
    BY <1>7, <2>1, <2>2 DEF PageOK
<1>11. ~strayed' => PathOK(w)
  <2>1. ~strayed => wizard.ndviScore = None
    BY <1>8 DEF WizardInv, PathOK
  <2>2. QED
    BY <1>6, <1>7, <1>8, <1>9, <2>1 DEF PathOK
<1>12. Flows(w)
  <2>1. /\ WellFormed(r) /\ r.tab = "wizard" /\ r.op = "register" /\ r.parcel = p
        /\ r.answer = None
    <3>1. /\ WellFormed(q) /\ q.tab = "wizard" /\ q.op = "register" /\ q.parcel = p
          /\ q.answer = None
      BY <1>4, FreshRequest
    <3>2. QED
      BY <1>5, <3>1 DEF WellFormed
  <2>2. Sound(r) /\ OnScreen(w, r) /\ Later(r, r)
    BY <1>9, <2>1, OtherSound, LaterReflexive, ConsentAssumption DEF OnScreen
  <2>3. ASSUME NEW x \in Requests PROVE Sound(x) /\ OnScreen(w, x) /\ Later(x, x)
    <3>1. Sound(x) /\ OnScreen(wizard, x)
      BY <2>3 DEF ConsentInv, WizardInv
    <3>2. OnScreen(w, x)
      BY <1>8, <1>9, <3>1 DEF OnScreen
    <3>3. QED
      BY <3>1, <3>2, LaterReflexive DEF Sound, RequestOK
  <2>4. \A x \in Requests' : x \in Requests \/ x = r
    BY <1>6, RequestsOfBags DEF Requests
  <2>5. QED
    BY <2>1, <2>2, <2>3, <2>4 DEF Flows, Foreign
<1>13. TablesKept
  BY <1>6, TablesAlone DEF ConsentInv
<1>14. QED
  BY <1>6, <1>7, <1>10, <1>11, <1>12, <1>13, WizardKeeps

\* A search is under way while its step is there.
LEMMA SearchKeeps ==
    ASSUME ConsentInv, WizardInv, NEW p \in Parcels, Search(p)
    PROVE  ConsentInv' /\ WizardInv' /\ OthersLeft
<1>1. PICK r : r = Request("wizard", "search", p, None)
  OBVIOUS
<1>2. /\ WellFormed(r) /\ r.tab = "wizard" /\ r.op = "search" /\ r.parcel = p
      /\ r.answer = None
  BY <1>1, FreshRequest
<1>3. Sound(r) /\ OnScreen(wizard, r)
  BY <1>2, OtherSound, ConsentAssumption DEF OnScreen, Search, Step
<1>4. \A x \in Requests' : x \in Requests \/ x = r
  BY <1>1, RequestsOfBags DEF Requests, Search
<1>5. Flows(wizard)
  BY <1>2, <1>3, <1>4, SentFlows
<1>6. TablesKept
  BY TablesAlone DEF ConsentInv, Search, Click
<1>7. PageOK(wizard, page)
  BY DEF WizardInv
<1>8. QED
  BY <1>5, <1>6, <1>7, InPlaceKeeps DEF Search

\* A parcel whose profile is asked for again has come, or its error has.
LEMMA FetchAgainKeeps ==
    ASSUME ConsentInv, WizardInv, NEW n, FetchAgain(n),
           StepOf(wizard) \in {"Score", "Profile"}, wizard.cadastral \in Parcels
    PROVE  ConsentInv' /\ WizardInv' /\ OthersLeft
<1>1. PICK r : r = AskProfile("wizard", wizard.cadastral)
  OBVIOUS
<1>2. r.op = "profile" /\ r.parcel = wizard.cadastral /\ r.tab = "wizard"
  BY <1>1, FreshProfile
<1>3. Sound(r) /\ OnScreen(wizard, r)
  BY <1>1, <1>2, AskedSound DEF OnScreen, ConsentInv
<1>4. \A x \in Requests' : x \in Requests \/ x = r
  BY <1>1, RequestsOfBags DEF Requests, FetchAgain
<1>5. Flows(wizard)
  BY <1>2, <1>3, <1>4, SentFlows
<1>6. TablesKept
  BY TablesAlone DEF ConsentInv, FetchAgain
<1>7. PICK pg : pg = [page EXCEPT !.retryCount = n, !.loading = TRUE, !.error = FALSE]
  OBVIOUS
<1>8. PageOK(wizard, pg)
  BY <1>7, PageTouched DEF WizardInv, PageOK, PageFields
<1>9. QED
  BY <1>5, <1>6, <1>7, <1>8, InPlaceKeeps DEF FetchAgain

\* A score is asked for again for the parcel under assessment.
LEMMA RetriesKeep ==
    ASSUME ConsentInv, WizardInv, Retry \/ RetryAll
    PROVE  ConsentInv' /\ WizardInv' /\ OthersLeft
<1>1. \E n : FetchAgain(n)
  BY DEF Retry, RetryAll
<1>2. StepOf(wizard) = "Score"
  BY DEF Retry, RetryDue, RetryAll, Step
<1>3. page.profile # None \/ page.error
  BY DEF Retry, RetryDue, RetryAll, ScoreScreen
<1>4. wizard.cadastral \in Parcels
  BY <1>3 DEF WizardInv, PageOK
<1>5. QED
  BY <1>1, <1>2, <1>4, FetchAgainKeeps

\* A lien is submitted; the page keeps what it shows.
LEMMA SubmitLienKeeps ==
    ASSUME ConsentInv, WizardInv, SubmitLien
    PROVE  ConsentInv' /\ WizardInv' /\ OthersLeft
<1>1. PICK q : q = Request("wizard", "lien", wizard.cadastral, None)
  OBVIOUS
<1>2. PICK r : r = [q EXCEPT !.stage = IF browser.extension # None THEN "tx" ELSE "post"]
  OBVIOUS
<1>3. /\ WellFormed(q) /\ q.tab = "wizard" /\ q.op = "lien" /\ q.parcel = wizard.cadastral
      /\ q.answer = None
  BY <1>1, FreshRequest
<1>4. /\ WellFormed(r) /\ r.tab = "wizard" /\ r.op = "lien" /\ r.parcel = wizard.cadastral
      /\ r.answer = None
  BY <1>2, <1>3 DEF WellFormed
<1>5. Sound(r) /\ OnScreen(wizard, r)
  BY <1>4, OtherSound, ConsentAssumption DEF OnScreen, WizardInv, WizardOK
<1>6. \A x \in Requests' : x \in Requests \/ x = r
  BY <1>1, <1>2, RequestsOfBags DEF Requests, SubmitLien
<1>7. Flows(wizard)
  BY <1>4, <1>5, <1>6, SentFlows
<1>8. TablesKept
  BY TablesAlone DEF ConsentInv, SubmitLien, Click
<1>9. PICK pg : pg = [page EXCEPT !.busy = TRUE]
  OBVIOUS
<1>10. PageOK(wizard, pg)
  BY <1>9, PageTouched DEF WizardInv, PageOK, PageFields
<1>11. QED
  BY <1>7, <1>8, <1>9, <1>10, InPlaceKeeps DEF SubmitLien

-----------------------------------------------------------------------------
(* Answers *)

\* A transaction is refused or confirmed, and nothing is stored yet.
LEMMA TransactionKeeps ==
    ASSUME ConsentInv, WizardInv, NEW r \in Requests, TxRefused(r) \/ TxConfirmed(r)
    PROVE  ConsentInv' /\ WizardInv' /\ OthersLeft
<1>1. TablesKept
  BY TablesAlone DEF ConsentInv, TxRefused, TxConfirmed
<1>2. Sound(r) /\ OnScreen(wizard, r) /\ r.op \in {"register", "lien"}
  BY DEF ConsentInv, WizardInv, TxRefused, TxConfirmed
<1>3. CASE TxRefused(r)
  <2>1. PICK pg : pg = IF r.live THEN [page EXCEPT !.busy = FALSE] ELSE page
    OBVIOUS
  <2>2. PageOK(wizard, pg)
    BY <2>1, PageTouched DEF WizardInv, PageOK, PageFields
  <2>3. Flows(wizard)
    BY <1>3, AnsweredFlows DEF TxRefused
  <2>4. QED
    BY <1>1, <1>3, <2>1, <2>2, <2>3, InPlaceKeeps DEF TxRefused
<1>4. CASE TxConfirmed(r)
  <2>1. PICK y : y = [r EXCEPT !.stage = "post"]
    OBVIOUS
  <2>2. WellFormed(r)
    BY <1>2 DEF Sound, RequestOK
  <2>3. /\ WellFormed(y) /\ y.tab = r.tab /\ y.op = r.op /\ y.parcel = r.parcel
        /\ y.wallet = r.wallet /\ y.answer = r.answer /\ y.live = r.live
    BY <2>1, <2>2 DEF WellFormed
  <2>4. Sound(y)
    BY <1>2, <2>3 DEF Sound, RequestOK, ProfileOK
  <2>5. OnScreen(wizard, y)
    BY <1>2, <2>3 DEF OnScreen
  <2>6. Flows(wizard)
    <3>1. y.tab = "wizard"
      BY <1>2, <2>3 DEF Sound, RequestOK
    <3>2. \A x \in Requests' : x \in Requests \/ x = y
      BY <1>4, <2>1, Stepped DEF TxConfirmed
    <3>3. QED
      BY <2>4, <2>5, <3>1, <3>2, SentFlows
  <2>7. PageOK(wizard, page)
    BY DEF WizardInv
  <2>8. QED
    BY <1>1, <1>4, <2>6, <2>7, InPlaceKeeps DEF TxConfirmed
<1>5. QED
  BY <1>3, <1>4

\* A grant leaves no request that it allows without leave, and lifts nobody
\* else's revocation.
LEMMA GrantKeepsConsent ==
    ASSUME ConsentInv, NEW a, Grant(a), UNCHANGED <<parcels, consent_access_log>>,
           NEW bag, BagToSet(bag) \subseteq Requests,
           \A x \in Requests' :
             x \in BagToSet(Permitted(a, bag)) \/ (Sound(x) /\ x.op # "profile")
    PROVE  ConsentInv' /\ TablesEvolve
<1>1. TablesEvolve
  BY ConsentAssumption DEF ConsentInv, TablesOK, TablesEvolve, Grant, Statuses
<1>2. ASSUME NEW x \in Requests' PROVE Sound(x)'
  <2>1. CASE x \in BagToSet(Permitted(a, bag))
    <3>1. \A r \in BagToSet(bag) : Sound(r) /\ WellFormed(r)
      BY DEF ConsentInv, Sound, RequestOK
    <3>2. /\ \E r \in BagToSet(bag) : Later(x, r)
          /\ (x.op = "profile" /\ parcels[x.parcel] = a) => x.allowed
      BY <2>1, <3>1, PermittedRequests
    <3>3. PICK r \in BagToSet(bag) : Later(x, r)
      BY <3>2
    <3>4. (x.op = "profile" /\ ~x.allowed /\ IsRevoked(x))
            => consents'[parcels[x.parcel]] = "revoked"
      BY <3>2 DEF IsRevoked, Grant, ConsentInv, TablesOK
    <3>5. QED
      BY <1>1, <3>1, <3>3, <3>4, SoundLater DEF ConsentInv
  <2>2. CASE Sound(x) /\ x.op # "profile"
    <3>1. Later(x, x)
      BY <2>2, LaterReflexive DEF Sound, RequestOK
    <3>2. QED
      BY <1>1, <2>2, <3>1, SoundLater DEF ConsentInv
  <2>3. QED
    BY <1>2, <2>1, <2>2
<1>3. QED
  BY <1>1, <1>2 DEF ConsentInv, TablesOK, TablesEvolve

\* The requests after a grant come from those before it.
LEMMA PermittedFlows ==
    ASSUME ConsentInv, WizardInv, NEW a, NEW bag, BagToSet(bag) \subseteq Requests,
           \A x \in Requests' :
             x \in BagToSet(Permitted(a, bag))
    PROVE  Flows(wizard)
<1>1. \A r \in BagToSet(bag) : Sound(r) /\ WellFormed(r) /\ OnScreen(wizard, r)
  BY DEF ConsentInv, WizardInv, Sound, RequestOK
<1>2. ASSUME NEW x \in Requests'
      PROVE  \E r \in BagToSet(bag) : Later(x, r)
  BY <1>1, <1>2, PermittedRequests
<1>3. QED
  BY <1>1, <1>2 DEF Flows, Foreign

\* The consent the wizard grants is stored some time, or lost.
LEMMA GrantArrivesKeeps ==
    ASSUME ConsentInv, WizardInv, NEW r \in Requests, GrantArrives(r)
    PROVE  ConsentInv' /\ WizardInv' /\ OthersLeft
<1>1. PICK bag : bag = pending (-) Only(r)
  OBVIOUS
<1>2. BagToSet(bag) \subseteq Requests
  BY <1>1, RequestsOfBags DEF Requests
<1>3. PageOK(wizard, page)
  BY DEF WizardInv
<1>4. CASE Grant(r.wallet) /\ pending' = Permitted(r.wallet, pending (-) Only(r))
  <2> PICK a : a = r.wallet
    OBVIOUS
  <2>1. \A x \in Requests' : x \in BagToSet(Permitted(a, bag))
    BY <1>1, <1>4 DEF Requests
  <2>2. ConsentInv' /\ TablesEvolve
    BY <1>2, <1>4, <2>1, GrantKeepsConsent DEF GrantArrives
  <2>3. Flows(wizard)
    BY <1>2, <2>1, PermittedFlows
  <2>4. PICK w, pg : w = wizard /\ pg = page
    OBVIOUS
  <2>5. /\ wizard' = w /\ page' = pg /\ WizardOK(w) /\ PageOK(w, pg)
        /\ (~strayed' => PathOK(w)) /\ Flows(w)
    BY <2>3, <2>4 DEF GrantArrives, WizardInv
  <2>6. WizardInv'
    BY <2>2, <2>5, WizardStays DEF GrantArrives
  <2>7. OthersLeft
    BY <2>3 DEF Flows, OthersLeft, GrantArrives
  <2>8. QED
    BY <2>2, <2>6, <2>7
<1>5. CASE pending' = pending (-) Only(r) /\ UNCHANGED consents
  <2>1. TablesKept
    BY <1>5, TablesAlone DEF ConsentInv, GrantArrives, tableVars
  <2>2. Flows(wizard)
    BY <1>5, AnsweredFlows
  <2>3. QED
    BY <1>3, <2>1, <2>2, InPlaceKeeps DEF GrantArrives
<1>6. QED
  BY <1>4, <1>5 DEF GrantArrives

\* The satellite's answer is the score of the parcel it was asked for; it is the
\* one under assessment while the step is there.
LEMMA NdviShownKeeps ==
    ASSUME ConsentInv, WizardInv, NEW r \in Requests, NdviShown(r)
    PROVE  ConsentInv' /\ WizardInv' /\ OthersLeft
<1>1. PICK score \in {r.parcel, ESTIMATED} \ {None} :
        /\ wizard' = [wizard EXCEPT !.ndviScore = score]
        /\ page' = IF r.live THEN [page EXCEPT !.ndvi = score] ELSE page
  BY DEF NdviShown
<1>2. PICK w : w = [wizard EXCEPT !.ndviScore = score]
  OBVIOUS
<1>3. PICK pg : pg = IF r.live THEN [page EXCEPT !.ndvi = score] ELSE page
  OBVIOUS
<1>4. /\ WizardOK(w) /\ w.path = wizard.path /\ w.step = wizard.step
      /\ w.cadastral = wizard.cadastral /\ w.ndviScore = score
  BY <1>2 DEF WizardInv, WizardOK
<1>5. StepOf(w) = StepOf(wizard)
  BY <1>4 DEF StepOf
<1>6. r.live => StepOf(wizard) = "NDVI" /\ r.parcel = wizard.cadastral
  BY DEF WizardInv, OnScreen, NdviShown, IsRequest
<1>7. PageOK(w, pg)
  <2>1. /\ PageFields(pg) /\ pg.profile = page.profile /\ pg.error = page.error
        /\ pg.encumbered = page.encumbered
        /\ pg.ndvi = IF r.live THEN score ELSE page.ndvi
    BY <1>3 DEF WizardInv, PageOK, PageFields
  <2>2. PageOK(wizard, page)
    BY DEF WizardInv
  <2>3. pg.ndvi # None => StepOf(w) = "NDVI" /\ pg.ndvi \in {w.cadastral, ESTIMATED}
    BY <1>1, <1>4, <1>5, <1>6, <2>1, <2>2 DEF PageOK
  <2>4. QED
    BY <1>4, <1>5, <2>1, <2>2, <2>3 DEF PageOK
<1>8. strayed' = (strayed \/ ~r.live)
  BY DEF NdviShown
<1>9. ~strayed' => PathOK(w)
  <2>1. SUFFICES ASSUME ~strayed' PROVE PathOK(w)
    OBVIOUS
  <2>2. ~strayed /\ r.live
    BY <1>8, <2>1
  <2>3. wizard.path = "farmer" /\ wizard.step = 2
    BY <1>6, <2>2, StepTable DEF WizardInv
  <2>4. QED
    BY <1>1, <1>4, <1>5, <1>6, <2>2, <2>3 DEF PathOK
<1>10. Flows(w)
  <2>1. Flows(wizard)
    BY AnsweredFlows DEF NdviShown
  <2>2. QED
    BY <1>4, <1>5, <2>1 DEF Flows, OnScreen
<1>11. TablesKept
  BY TablesAlone DEF ConsentInv, NdviShown
<1>12. wizard' = w /\ page' = pg
  BY <1>1, <1>2, <1>3
<1>13. QED
  BY <1>4, <1>7, <1>9, <1>10, <1>11, <1>12, WizardKeeps

\* What the handler answers is about the parcel that was asked for, and tells of
\* its lien or that it does not.
LEMMA ProfileTells ==
    ASSUME NEW r, NEW profile \in Profiles(r)
    PROVE  /\ profile.parcel = r.parcel
           /\ r.parcel \in liens => Tells(profile)
<1>1. CASE r.answer = "full"
  <2>1. PICK unread, credit : profile = FullProfile(r.parcel, unread, credit)
    <3>1. PICK p : p = r.parcel
      OBVIOUS
    <3>2. profile \in FullProfiles(p)
      BY <1>1, <3>1 DEF Profiles
    <3>3. QED
      BY <3>1, <3>2 DEF FullProfiles
  <2>2. QED
    BY <2>1 DEF FullProfile, Tells
<1>2. CASE r.answer # "full"
  BY <1>2 DEF Profiles, MaskedProfile, Tells
<1>3. QED
  BY <1>1, <1>2

\* A profile that reaches a mounted step is about the parcel under assessment.
LEMMA ProfileKeeps ==
    ASSUME ConsentInv, WizardInv, NEW r \in Requests,
           ProfileFailed(r) \/ ProfileAnswered(r)
    PROVE  ConsentInv' /\ WizardInv' /\ OthersLeft
<1>1. TablesKept
  BY TablesAlone DEF ConsentInv, ProfileFailed, ProfileAnswered
<1>2. Flows(wizard)
  BY AnsweredFlows DEF ProfileFailed, ProfileAnswered
<1>3. /\ r.live => /\ StepOf(wizard) \in {"Score", "Profile"}
                   /\ r.parcel = wizard.cadastral
      /\ r.parcel \in Parcels
  BY DEF ConsentInv, WizardInv, OnScreen, Sound, RequestOK, ProfileFailed,
         ProfileAnswered, IsRequest
<1>4. PageOK(wizard, page) /\ PageFields(page)
  BY DEF WizardInv, PageOK
<1>5. CASE ProfileFailed(r)
  <2>1. PICK pg : pg = IF r.live
                       THEN [page EXCEPT !.loading = FALSE, !.error = TRUE,
                                         !.profile = IF TRUE THEN @ ELSE None]
                       ELSE page
    OBVIOUS
  <2>2. /\ PageFields(pg) /\ pg.profile = page.profile /\ pg.ndvi = page.ndvi
        /\ pg.encumbered = page.encumbered /\ (~r.live => pg = page)
    BY <1>4, <2>1 DEF PageFields
  <2>3. PageOK(wizard, pg)
    BY <1>3, <1>4, <2>2 DEF PageOK
  <2>4. page' = pg
    BY <1>5, <2>1 DEF ProfileFailed, WithProfile
  <2>5. QED
    BY <1>1, <1>2, <1>5, <2>3, <2>4, InPlaceKeeps DEF ProfileFailed
<1>6. CASE ProfileAnswered(r)
  <2>1. PICK profile \in Profiles(r) : WithProfile(r, profile, FALSE)
    BY <1>6 DEF ProfileAnswered
  <2>2. PICK pg : pg = IF r.live
                       THEN [page EXCEPT !.loading = FALSE, !.error = FALSE,
                                         !.profile = IF FALSE THEN @ ELSE profile]
                       ELSE page
    OBVIOUS
  <2>3. /\ PageFields(pg) /\ pg.ndvi = page.ndvi /\ pg.encumbered = page.encumbered
        /\ (r.live => pg.profile = profile) /\ (~r.live => pg = page)
    BY <1>4, <2>2 DEF PageFields
  <2>4. /\ profile.parcel = r.parcel
        /\ r.parcel \in liens => Tells(profile)
    BY <2>1, ProfileTells
  <2>5. PageOK(wizard, pg)
    BY <1>3, <1>4, <2>3, <2>4 DEF PageOK
  <2>6. page' = pg
    BY <2>1, <2>2 DEF WithProfile
  <2>7. QED
    BY <1>1, <1>2, <1>6, <2>5, <2>6, InPlaceKeeps DEF ProfileAnswered
<1>7. QED
  BY <1>5, <1>6

\* The list of liens beside the profile.
LEMMA LiensAnsweredKeeps ==
    ASSUME ConsentInv, WizardInv, NEW r \in Requests, LiensAnswered(r)
    PROVE  ConsentInv' /\ WizardInv' /\ OthersLeft
<1>1. PICK pg : page' = pg
  OBVIOUS
<1>2. pg = page \/ pg = [page EXCEPT !.liens = r.parcel \in liens]
  BY <1>1 DEF LiensAnswered
<1>3. PageOK(wizard, pg)
  BY <1>2, PageTouched DEF WizardInv, PageOK, PageFields
<1>4. Flows(wizard)
  BY AnsweredFlows DEF LiensAnswered
<1>5. TablesKept
  BY TablesAlone DEF ConsentInv, LiensAnswered
<1>6. QED
  BY <1>1, <1>3, <1>4, <1>5, InPlaceKeeps DEF LiensAnswered

\* The lien is stored, which takes none away, or is not.
LEMMA LienPostedKeeps ==
    ASSUME ConsentInv, WizardInv, NEW r \in Requests, LienPosted(r)
    PROVE  ConsentInv' /\ WizardInv' /\ OthersLeft
<1>1. PICK pg : pg = IF r.live THEN [page EXCEPT !.busy = FALSE, !.success = TRUE] ELSE page
  OBVIOUS
<1>2. PageOK(wizard, pg)
  BY <1>1, PageTouched DEF WizardInv, PageOK, PageFields
<1>3. Flows(wizard)
  BY AnsweredFlows DEF LienPosted
<1>4. TablesKept
  <2>1. liens \subseteq liens' /\ UNCHANGED <<parcels, consents, consent_access_log>>
    BY DEF LienPosted, CreateLien
  <2>2. QED
    BY <2>1, SameTables DEF TablesKept, ConsentInv
<1>5. QED
  BY <1>1, <1>2, <1>3, <1>4, InPlaceKeeps DEF LienPosted

\* Every step of the wizard keeps its pages coherent and the requests sound.
LEMMA WizardStepKeeps ==
    ASSUME ConsentInv, WizardInv, WizardStep
    PROVE  ConsentInv' /\ WizardInv' /\ OthersLeft
<1>1. CASE WizardClick
  <2>1. CASE \E path \in {"farmer", "lender"} : SelectPath(path)
    BY <2>1, SelectPathKeeps
  <2>2. CASE ContinueWithWallet
    BY <2>2, ContinueWithWalletKeeps
  <2>3. CASE \E w \in Wallets : ApprovedByDeeplink(w)
    BY <2>3, ApprovedByDeeplinkKeeps
  <2>4. CASE \E p \in Parcels \cap scene : SubmitParcel(p) \/ Search(p)
    BY <2>4, SubmitParcelKeeps, SearchKeeps
  <2>5. CASE BackFromParcel \/ SatelliteContinue \/ ScoreContinue \/ OpenRegisterLien
             \/ BackFromLien
    BY <2>5, ButtonsKeep
  <2>6. CASE RetryAll
    BY <2>6, RetriesKeep
  <2>7. CASE StartNewAssessment \/ SearchAnother
    BY <2>7, RestartKeeps DEF StartNewAssessment, SearchAnother
  <2>8. CASE SubmitLien
    BY <2>8, SubmitLienKeeps
  <2>9. QED
    BY <1>1, <2>1, <2>2, <2>3, <2>4, <2>5, <2>6, <2>7, <2>8 DEF WizardClick
<1>2. CASE AutoAdvance
  BY <1>2, AutoAdvanceKeeps
<1>3. CASE Retry
  BY <1>3, RetriesKeep
<1>4. ASSUME NEW r \in Requests, Answer(r)
      PROVE  ConsentInv' /\ WizardInv' /\ OthersLeft
  BY <1>4, TransactionKeeps, ParcelPostedKeeps, GrantArrivesKeeps, NdviShownKeeps,
     ProfileKeeps, LiensAnsweredKeeps, SearchAnsweredKeeps, LienPostedKeeps DEF Answer
<1>5. QED
  BY <1>1, <1>2, <1>3, <1>4 DEF WizardStep

-----------------------------------------------------------------------------
(* The other tabs *)

\* x is the request r at a later stage.
SameRequest(x, r) ==
    x.tab = r.tab /\ x.op = r.op /\ x.parcel = r.parcel /\ (x.live => r.live)

\* What the wizard shows is not disturbed by the steps of other tabs.
LEMMA WizardUndisturbed ==
    ASSUME WizardInv, UNCHANGED wizardVars, liens \subseteq liens',
           \A p \in Parcels : parcels[p] # None => parcels'[p] = parcels[p],
           \A x \in Requests' : x.tab = "wizard" => \E r \in Requests : SameRequest(x, r)
    PROVE  WizardInv'
<1>1. PICK w, pg : w = wizard /\ pg = page
  OBVIOUS
<1>2. /\ wizard' = w /\ page' = pg /\ strayed' = strayed
      /\ WizardOK(w) /\ PageOK(w, pg) /\ (~strayed => PathOK(w))
      /\ \A r \in Requests : OnScreen(w, r)
  BY <1>1 DEF wizardVars, WizardInv
<1>3. \A x \in Requests' : OnScreen(w, x)
  BY <1>2 DEF OnScreen, SameRequest
<1>4. PageOK(w, pg)'
  BY <1>2, PageOKLater
<1>5. ~strayed' => PathOK(w)'
  BY <1>2 DEF PathOK
<1>6. QED
  BY <1>2, <1>3, <1>4, <1>5 DEF WizardInv, WizardOK, OnScreen, PageOK, PathOK

\* What the page of a parcel shows and waits for, as long as no answer was
\* awaited when the parcel in the URL changed.
DetailInv ==
    /\ detail = [cadastral |-> detail.cadastral, profile |-> detail.profile,
                 loading |-> detail.loading, error |-> detail.error, ahi |-> detail.ahi]
    /\ underLien => detail.cadastral \in liens
    /\ ~hopped =>
         /\ \A r \in Requests : r.tab = "detail" => r.parcel = detail.cadastral
         /\ indexed => detail.ahi \in {detail.cadastral, None}
         /\ DetailScreen = "profile" =>
              /\ detail.profile.parcel = detail.cadastral
              /\ underLien => Tells(detail.profile)

\* What the page of a parcel shows is not disturbed by the steps of other tabs.
LEMMA DetailUndisturbed ==
    ASSUME DetailInv, UNCHANGED detailVars, liens \subseteq liens',
           \A x \in Requests' : x.tab = "detail" => \E r \in Requests : SameRequest(x, r)
    PROVE  DetailInv'
BY DEF DetailInv, detailVars, SameRequest, DetailScreen, Tells

\* Opening a parcel asks for its profile and its indices.
LEMMA OpenKeeps ==
    ASSUME ConsentInv, WizardInv, DetailInv, NEW p \in Parcels, Open(p),
           UNCHANGED wizardVars
    PROVE  ConsentInv' /\ WizardInv' /\ DetailInv'
<1>1. PICK a : a = AskProfile("detail", p)
  OBVIOUS
<1>2. PICK b : b = Request("detail", "indices", p, None)
  OBVIOUS
<1>3. Sound(a) /\ a.tab = "detail" /\ a.parcel = p
  BY <1>1, AskedSound, FreshProfile DEF ConsentInv
<1>4. /\ WellFormed(b) /\ b.tab = "detail" /\ b.op = "indices" /\ b.parcel = p
      /\ b.answer = None
  BY <1>2, FreshRequest
<1>5. Sound(b)
  BY <1>4, OtherSound, ConsentAssumption
<1>6. \A x \in Requests' : x \in Requests \/ x = a \/ x = b
  BY <1>1, <1>2, RequestsOfBags DEF Open, Requests
<1>7. \A x \in Requests' : Sound(x) /\ Later(x, x)
  BY <1>3, <1>5, <1>6, LaterReflexive DEF ConsentInv, Sound, RequestOK
<1>8. TablesKept
  BY TablesAlone DEF ConsentInv, Open
<1>9. ConsentInv'
  BY <1>7, <1>8, FlowsKeepConsent DEF TablesKept
<1>10. WizardInv'
  <2>1. \A x \in Requests' : x.tab = "wizard" => \E r \in Requests : SameRequest(x, r)
    BY <1>3, <1>4, <1>6 DEF SameRequest
  <2>2. QED
    BY <1>8, <2>1, WizardUndisturbed DEF TablesKept, TablesEvolve
<1>11. DetailInv'
  <2>1. /\ detail' = [detail EXCEPT !.cadastral = p, !.loading = TRUE, !.error = FALSE]
        /\ ~hopped' => \A r \in Requests : r.tab # "detail"
        /\ indexed' = FALSE /\ underLien' = (p \in liens) /\ liens' = liens
    BY DEF Open, Refetched, OfDetail, tableVars
  <2>2. /\ detail' = [cadastral |-> p, profile |-> detail.profile, loading |-> TRUE,
                      error |-> FALSE, ahi |-> detail.ahi]
    BY <2>1 DEF DetailInv
  <2>3. ~hopped' => \A x \in Requests' : x.tab = "detail" => x.parcel = p
    BY <1>3, <1>4, <1>6, <2>1
  <2>4. QED
    BY <2>1, <2>2, <2>3 DEF DetailInv, DetailScreen
<1>12. QED
  BY <1>9, <1>10, <1>11

\* When requests are answered, what is said of the others stays.
LEMMA FewerRequests ==
    ASSUME ConsentInv, Requests' \subseteq Requests, UNCHANGED tableVars
    PROVE  /\ ConsentInv'
           /\ WizardInv /\ UNCHANGED wizardVars => WizardInv'
           /\ DetailInv /\ UNCHANGED detailVars => DetailInv'
<1>1. TablesKept
  BY TablesAlone DEF ConsentInv
<1>2. \A x \in Requests' : Sound(x) /\ Later(x, x)
  BY LaterReflexive DEF ConsentInv, Sound, RequestOK
<1>3. ConsentInv'
  BY <1>1, <1>2, FlowsKeepConsent DEF TablesKept
<1>4. \A x \in Requests' : \E r \in Requests : SameRequest(x, r)
  BY DEF SameRequest
<1>5. WizardInv /\ UNCHANGED wizardVars => WizardInv'
  BY <1>1, <1>4, WizardUndisturbed DEF TablesKept, TablesEvolve
<1>6. DetailInv /\ UNCHANGED detailVars => DetailInv'
  BY <1>1, <1>4, DetailUndisturbed DEF TablesKept
<1>7. QED
  BY <1>3, <1>5, <1>6

\* The answers to the page of a parcel are about the parcel in its URL unless it
\* was changed while they were awaited.
LEMMA DetailAnswersKeep ==
    ASSUME ConsentInv, WizardInv, DetailInv, NEW r \in Requests,
           DetailFailed(r) \/ DetailAnswered(r) \/ IndicesAnswered(r), UNCHANGED wizardVars
    PROVE  ConsentInv' /\ WizardInv' /\ DetailInv'
<1>1. Requests' \subseteq Requests
  BY RequestsOfBags DEF DetailFailed, DetailAnswered, IndicesAnswered, Requests
<1>2. UNCHANGED tableVars /\ UNCHANGED <<hopped, underLien>>
  BY DEF DetailFailed, DetailAnswered, IndicesAnswered
<1>3. ConsentInv' /\ WizardInv'
  BY <1>1, <1>2, FewerRequests
<1>4. /\ ~hopped => r.parcel = detail.cadastral
      /\ liens' = liens /\ hopped' = hopped /\ underLien' = underLien
      /\ underLien => detail.cadastral \in liens
      /\ ~hopped' => \A x \in Requests' : x.tab = "detail" => x.parcel = detail.cadastral
      /\ ~hopped => (indexed => detail.ahi \in {detail.cadastral, None})
      /\ (~hopped /\ DetailScreen = "profile") =>
           /\ detail.profile.parcel = detail.cadastral
           /\ underLien => Tells(detail.profile)
  BY <1>1, <1>2
     DEF DetailInv, DetailFailed, DetailAnswered, IndicesAnswered, IsRequest, tableVars
<1>5. ASSUME DetailFailed(r) PROVE DetailInv'
  <2>1. /\ detail' = [cadastral |-> detail.cadastral, profile |-> detail.profile,
                      loading |-> FALSE, error |-> TRUE, ahi |-> detail.ahi]
        /\ indexed' = indexed
    BY <1>5 DEF DetailFailed, DetailInv
  <2>2. DetailScreen' # "profile"
    BY <2>1 DEF DetailScreen
  <2>3. QED
    BY <1>4, <2>1, <2>2 DEF DetailInv
<1>6. ASSUME DetailAnswered(r) PROVE DetailInv'
  <2>1. PICK profile \in Profiles(r) :
          detail' = [detail EXCEPT !.loading = FALSE, !.profile = profile]
    BY <1>6 DEF DetailAnswered
  <2>2. /\ detail' = [cadastral |-> detail.cadastral, profile |-> profile,
                      loading |-> FALSE, error |-> detail.error, ahi |-> detail.ahi]
        /\ indexed' = indexed
    BY <1>6, <2>1 DEF DetailInv, DetailAnswered
  <2>3. profile.parcel = r.parcel /\ (r.parcel \in liens => Tells(profile))
    BY <2>1, ProfileTells
  <2>4. ~hopped' =>
           /\ detail'.profile.parcel = detail'.cadastral
           /\ underLien' => Tells(detail'.profile)
    BY <1>4, <2>2, <2>3
  <2>5. QED
    BY <1>4, <2>2, <2>4 DEF DetailInv, Tells
<1>7. ASSUME IndicesAnswered(r) PROVE DetailInv'
  <2>1. ASSUME UNCHANGED <<detail, indexed>> PROVE DetailInv'
    BY <1>1, <1>2, <2>1, FewerRequests DEF detailVars
  <2>2. ASSUME /\ \E ahi \in {None, r.parcel} : detail' = [detail EXCEPT !.ahi = ahi]
               /\ indexed' = (indexed \/ r.parcel = detail.cadastral)
        PROVE  DetailInv'
    <3>1. PICK ahi \in {None, r.parcel} : detail' = [detail EXCEPT !.ahi = ahi]
      BY <2>2
    <3>2. detail' = [cadastral |-> detail.cadastral, profile |-> detail.profile,
                     loading |-> detail.loading, error |-> detail.error, ahi |-> ahi]
      BY <3>1 DEF DetailInv
    <3>3. ~hopped' => detail'.ahi \in {detail'.cadastral, None}
      BY <1>4, <3>2
    <3>4. DetailScreen' = DetailScreen
      BY <3>2 DEF DetailScreen
    <3>5. ~hopped' => (DetailScreen' = "profile" =>
              /\ detail'.profile.parcel = detail'.cadastral
              /\ underLien' => Tells(detail'.profile))
      BY <1>4, <3>2, <3>4
    <3>6. QED
      BY <1>4, <3>2, <3>3, <3>5 DEF DetailInv, Tells
  <2>3. QED
    BY <1>7, <2>1, <2>2 DEF IndicesAnswered
<1>8. QED
  BY <1>3, <1>5, <1>6, <1>7

-----------------------------------------------------------------------------
(* The wallet of the browser *)

\* The extension is connected to a wallet or to none.
BrowserOK ==
    /\ browser = [hasExtension |-> browser.hasExtension, extension |-> browser.extension,
                  stored |-> browser.stored, changes |-> browser.changes]
    /\ browser.extension \in Wallets \cup {None}

\* The connection and the deeplink's address change one at a time.
LEMMA WalletKeeps ==
    ASSUME BrowserOK,
           \/ \E w \in Wallets : Connect(w) \/ DeeplinkApproved(w)
           \/ Disconnect \/ DeeplinkDisconnect
    PROVE  BrowserOK'
<1>1. CASE \E w \in Wallets : Connect(w)
  <2>1. PICK w \in Wallets : Connect(w)
    BY <1>1
  <2>2. browser' = [hasExtension |-> browser.hasExtension, extension |-> w,
                    stored |-> browser.stored, changes |-> browser.changes + 1]
    BY <2>1 DEF BrowserOK, Connect, Change
  <2>3. QED
    BY <2>2 DEF BrowserOK
<1>2. CASE \E w \in Wallets : DeeplinkApproved(w)
  <2>1. PICK w \in Wallets : DeeplinkApproved(w)
    BY <1>2
  <2>2. browser' = [hasExtension |-> browser.hasExtension, extension |-> browser.extension,
                    stored |-> w, changes |-> browser.changes + 1]
    BY <2>1 DEF BrowserOK, DeeplinkApproved, Change
  <2>3. QED
    BY <2>2 DEF BrowserOK
<1>3. CASE Disconnect
  <2>1. browser' = [hasExtension |-> browser.hasExtension, extension |-> None,
                    stored |-> browser.stored, changes |-> browser.changes + 1]
    BY <1>3 DEF BrowserOK, Disconnect, Change
  <2>2. QED
    BY <2>1 DEF BrowserOK
<1>4. CASE DeeplinkDisconnect
  <2>1. browser' = [hasExtension |-> browser.hasExtension, extension |-> browser.extension,
                    stored |-> None, changes |-> browser.changes + 1]
    BY <1>4 DEF BrowserOK, DeeplinkDisconnect, Change
  <2>2. QED
    BY <2>1 DEF BrowserOK
<1>5. QED
  BY <1>1, <1>2, <1>3, <1>4

\* Of the wizard's steps, the deeplink alone touches the browser.
LEMMA WizardBrowser ==
    ASSUME WizardStep
    PROVE  UNCHANGED browser \/ \E w \in Wallets : DeeplinkApproved(w)
<1>1. CASE WizardClick
  <2>1. CASE \E path \in {"farmer", "lender"} : SelectPath(path)
    BY <2>1 DEF SelectPath, Moves, Click
  <2>2. CASE ContinueWithWallet
    BY <2>2 DEF ContinueWithWallet, Moves, Click
  <2>3. CASE \E w \in Wallets : ApprovedByDeeplink(w)
    BY <2>3 DEF ApprovedByDeeplink
  <2>4. CASE \E p \in Parcels \cap scene : SubmitParcel(p) \/ Search(p)
    BY <2>4 DEF SubmitParcel, Search, Click
  <2>5. CASE BackFromParcel \/ SatelliteContinue \/ ScoreContinue \/ OpenRegisterLien
             \/ BackFromLien
    BY <2>5 DEF BackFromParcel, SatelliteContinue, ScoreContinue, OpenRegisterLien,
                BackFromLien, Moves, Click
  <2>6. CASE RetryAll
    BY <2>6 DEF RetryAll, FetchAgain
  <2>7. CASE StartNewAssessment \/ SearchAnother
    BY <2>7 DEF StartNewAssessment, SearchAnother, RESTART, Click
  <2>8. CASE SubmitLien
    BY <2>8 DEF SubmitLien, Click
  <2>9. QED
    BY <1>1, <2>1, <2>2, <2>3, <2>4, <2>5, <2>6, <2>7, <2>8 DEF WizardClick
<1>2. CASE AutoAdvance
  BY <1>2 DEF AutoAdvance
<1>3. CASE Retry
  BY <1>3 DEF Retry, FetchAgain
<1>4. ASSUME NEW r \in Requests, Answer(r) PROVE UNCHANGED browser
  BY <1>4 DEF Answer, TxRefused, TxConfirmed, ParcelPosted, GrantArrives, NdviShown,
              ProfileFailed, ProfileAnswered, LiensAnswered, SearchAnswered, LienPosted
<1>5. QED
  BY <1>1, <1>2, <1>3, <1>4 DEF WizardStep

-----------------------------------------------------------------------------
(* The dashboard's requests and the lenders' *)

\* When one request is sent that is not of the wizard or of a parcel's page, or
\* one is taken further, the pages of the others are not disturbed.
LEMMA OneMore ==
    ASSUME ConsentInv, UNCHANGED tableVars, NEW y, Sound(y),
           y.tab \notin {"wizard", "detail"} \/ \E r \in Requests : SameRequest(y, r),
           \A x \in Requests' : x \in Requests \/ x = y
    PROVE  /\ ConsentInv'
           /\ WizardInv /\ UNCHANGED wizardVars => WizardInv'
           /\ DetailInv /\ UNCHANGED detailVars => DetailInv'
<1>1. TablesKept
  BY TablesAlone DEF ConsentInv
<1>2. \A x \in Requests' : Sound(x) /\ Later(x, x)
  BY LaterReflexive DEF ConsentInv, Sound, RequestOK
<1>3. ConsentInv'
  BY <1>1, <1>2, FlowsKeepConsent DEF TablesKept
<1>4. \A x \in Requests' :
        x.tab \in {"wizard", "detail"} => \E r \in Requests : SameRequest(x, r)
  BY DEF SameRequest
<1>5. WizardInv /\ UNCHANGED wizardVars => WizardInv'
  BY <1>1, <1>4, WizardUndisturbed DEF TablesKept, TablesEvolve
<1>6. DetailInv /\ UNCHANGED detailVars => DetailInv'
  BY <1>1, <1>4, DetailUndisturbed DEF TablesKept
<1>7. QED
  BY <1>3, <1>5, <1>6

\* A request of the dashboard, of any kind but for a profile.
LEMMA DashboardAsks ==
    ASSUME NEW op \in {"read", "refetch", "grant", "revoke"}, NEW w \in Wallets,
           NEW y, y = Request("dashboard", op, None, w)
    PROVE  Sound(y) /\ y.tab = "dashboard"
<1>1. /\ WellFormed(y) /\ y.tab = "dashboard" /\ y.op = op /\ y.parcel = None
      /\ y.wallet = w /\ y.answer = None
  BY FreshRequest
<1>2. QED
  BY <1>1, OtherSound, ConsentAssumption

\* A lender's own program asks.
LEMMA AskKeeps ==
    ASSUME ConsentInv, WizardInv, DetailInv, NEW l \in Lenders, NEW p \in Parcels, Ask(l, p)
    PROVE  ConsentInv' /\ WizardInv' /\ DetailInv'
<1>1. PICK y : y = AskProfile(l, p)
  OBVIOUS
<1>2. l \notin {"wizard", "dashboard", "detail"}
  BY ConsentAssumption
<1>3. Sound(y) /\ y.tab = l
  BY <1>1, <1>2, AskedSound, FreshProfile DEF ConsentInv
<1>4. \A x \in Requests' : x \in Requests \/ x = y
  BY <1>1, RequestsOfBags DEF Ask, Requests
<1>5. UNCHANGED tableVars /\ UNCHANGED wizardVars /\ UNCHANGED detailVars
  BY DEF Ask, pageVars
<1>6. QED
  BY <1>2, <1>3, <1>4, <1>5, OneMore

\* The effect when a wallet is connected, and a click on the dashboard.
LEMMA DashboardSendsKeeps ==
    ASSUME ConsentInv, WizardInv, DetailInv, UNCHANGED tableVars,
           UNCHANGED wizardVars, UNCHANGED detailVars,
           NEW op \in {"read", "refetch", "grant", "revoke"}, NEW w \in Wallets,
           pending' = pending (+) Only(Request("dashboard", op, None, w))
    PROVE  ConsentInv' /\ WizardInv' /\ DetailInv'
<1>1. PICK y : y = Request("dashboard", op, None, w)
  OBVIOUS
<1>2. Sound(y) /\ y.tab = "dashboard"
  BY <1>1, DashboardAsks
<1>3. \A x \in Requests' : x \in Requests \/ x = y
  BY <1>1, RequestsOfBags DEF Requests
<1>4. QED
  BY <1>2, <1>3, OneMore

\* The consent is read, and shown.
LEMMA DashboardAnswersKeep ==
    ASSUME ConsentInv, WizardInv, DetailInv, UNCHANGED wizardVars, UNCHANGED detailVars,
           NEW r \in Requests, DashboardRead(r) \/ DashboardShown(r)
    PROVE  ConsentInv' /\ WizardInv' /\ DetailInv'
<1>1. UNCHANGED tableVars
  BY DEF DashboardRead, DashboardShown
<1>2. CASE DashboardRead(r)
  <2>1. PICK failed \in BOOLEAN :
          pending' = (pending (-) Only(r)) (+)
              Only([r EXCEPT !.stage = "read",
                             !.answer = IF failed THEN None ELSE consents[r.wallet]])
    BY <1>2 DEF DashboardRead
  <2>2. PICK y : y = [r EXCEPT !.stage = "read",
                               !.answer = IF failed THEN None ELSE consents[r.wallet]]
    OBVIOUS
  <2>3. /\ RequestOK(r) /\ WellFormed(r) /\ r.tab = "dashboard" /\ r.op # "profile"
        /\ r.wallet \in Wallets /\ r.op \in {"read", "refetch"}
        /\ r.parcel \in Parcels \cup {None}
    BY <1>2 DEF DashboardRead, ConsentInv, Sound, RequestOK
  <2>4. consents[r.wallet] \in Statuses /\ "full" \notin Statuses
    BY <2>3, ConsentAssumption DEF ConsentInv, TablesOK, Statuses
  <2>5. /\ WellFormed(y) /\ y.tab = "dashboard" /\ y.op = r.op /\ y.parcel = r.parcel
        /\ y.wallet = r.wallet
        /\ y.answer = IF failed THEN None ELSE consents[r.wallet]
    BY <2>2, <2>3 DEF WellFormed
  <2>6. y.answer # "full"
    BY <2>4, <2>5, ConsentAssumption
  <2>7. Sound(y)
    BY <2>3, <2>5, <2>6, OtherSound
  <2>8. \A x \in Requests' : x \in Requests \/ x = y
    BY <2>1, <2>2, Stepped
  <2>9. QED
    BY <1>1, <2>5, <2>7, <2>8, OneMore
<1>3. CASE DashboardShown(r)
  <2>1. Requests' \subseteq Requests
    BY <1>3, RequestsOfBags DEF DashboardShown, Requests
  <2>2. QED
    BY <1>1, <2>1, FewerRequests
<1>4. QED
  BY <1>2, <1>3

\* A consent that is granted or revoked on the dashboard, whether or not it is
\* read again.
LEMMA PostKeeps ==
    ASSUME ConsentInv, WizardInv, DetailInv, UNCHANGED wizardVars, UNCHANGED detailVars,
           NEW r \in Requests, PostDone(r) \/ PostFailed(r)
    PROVE  ConsentInv' /\ WizardInv' /\ DetailInv'
<1>1. PICK rest : rest = pending (-) Only(r)
  OBVIOUS
<1>2. PICK a : a = r.wallet
  OBVIOUS
<1>3. BagToSet(rest) \subseteq Requests /\ a \in Wallets /\ r.op \in {"grant", "revoke"}
  BY <1>1, <1>2, RequestsOfBags
     DEF Requests, ConsentInv, Sound, RequestOK, PostDone, PostFailed
<1>4. PICK y : y = Request("dashboard", "refetch", None, a)
  OBVIOUS
<1>5. Sound(y) /\ y.tab = "dashboard" /\ y.op = "refetch"
  BY <1>3, <1>4, DashboardAsks, FreshRequest
<1>6. UNCHANGED <<parcels, consent_access_log, certified, liens>>
  BY DEF PostDone, PostFailed
<1>7. \/ /\ Revoke(a) \/ UNCHANGED consents
         /\ \A x \in Requests' : x \in Requests \/ x = y
      \/ /\ Grant(a)
         /\ \A x \in Requests' : x \in BagToSet(Permitted(a, rest)) \/ x = y
  <2>1. CASE PostDone(r)
    <3>1. PICK bag : bag = IF r.op = "grant" THEN Permitted(a, rest) ELSE rest
      OBVIOUS
    <3>2. pending' = bag (+) Only(y)
      BY <1>1, <1>2, <1>4, <2>1, <3>1 DEF PostDone, FetchAfter, Fetch
    <3>3. \A x \in Requests' : x \in BagToSet(bag) \/ x = y
      BY <3>2, RequestsOfBags DEF Requests
    <3>4. QED
      BY <1>2, <1>3, <2>1, <3>1, <3>3 DEF PostDone
  <2>2. CASE PostFailed(r)
    BY <1>1, <1>2, <1>3, <2>2 DEF PostFailed, Requests
  <2>3. QED
    BY <2>1, <2>2
<1>8. ASSUME Revoke(a) \/ UNCHANGED consents,
             \A x \in Requests' : x \in Requests \/ x = y
      PROVE  ConsentInv' /\ TablesEvolve
  <2>1. TablesEvolve
    BY <1>6, <1>8, ConsentAssumption
       DEF ConsentInv, TablesOK, TablesEvolve, Revoke, Statuses
  <2>2. \A v \in Wallets : consents[v] = "revoked" => consents'[v] = "revoked"
    BY <1>8, ConsentAssumption DEF ConsentInv, TablesOK, Revoke, Statuses
  <2>3. \A x \in Requests' : Sound(x) /\ Later(x, x)
    BY <1>5, <1>8, LaterReflexive DEF ConsentInv, Sound, RequestOK
  <2>4. QED
    BY <2>1, <2>2, <2>3, FlowsKeepConsent
<1>9. ASSUME Grant(a),
             \A x \in Requests' : x \in BagToSet(Permitted(a, rest)) \/ x = y
      PROVE  ConsentInv' /\ TablesEvolve
  BY <1>3, <1>5, <1>6, <1>9, GrantKeepsConsent
<1>10. ConsentInv' /\ TablesEvolve
  BY <1>7, <1>8, <1>9
<1>11. \A x \in Requests' :
         x.tab \in {"wizard", "detail"} => \E q \in Requests : SameRequest(x, q)
  <2>1. ASSUME NEW x \in BagToSet(Permitted(a, rest))
        PROVE  \E q \in Requests : SameRequest(x, q)
    <3>1. \A q \in BagToSet(rest) : WellFormed(q)
      BY <1>3 DEF ConsentInv, Sound, RequestOK
    <3>2. PICK q \in BagToSet(rest) : Later(x, q)
      BY <3>1, PermittedRequests
    <3>3. QED
      BY <1>3, <3>2 DEF Later, SameRequest
  <2>2. QED
    BY <1>5, <1>7, <2>1 DEF SameRequest
<1>12. WizardInv'
  BY <1>6, <1>10, <1>11, WizardUndisturbed DEF TablesEvolve
<1>13. DetailInv'
  BY <1>6, <1>11, DetailUndisturbed
<1>14. QED
  BY <1>10, <1>12, <1>13

-----------------------------------------------------------------------------
(* The whole *)

\* What is always so: of the tables and every request, of the wizard and its
\* page, of the browser, and of the page of a parcel.
WebInv == ConsentInv /\ WizardInv /\ BrowserOK /\ DetailInv

\* It is so at the start, when nothing is under way and no page shows anything.
LEMMA WebInitOK == WebInit => WebInv
<1> SUFFICES ASSUME WebInit PROVE WebInv
  OBVIOUS
<1>1. Requests = {}
  BY RequestsOfBags DEF WebInit, ConsentInit, Requests
<1>2. ConsentInv
  <2>1. <<>> \in AccessLog
    BY ConsentAssumption DEF AccessLog
  <2>2. TablesOK
    BY <2>1 DEF WebInit, ConsentInit, TablesOK, Statuses
  <2>3. QED
    BY <1>1, <2>2 DEF ConsentInv
<1>3. WizardInv
  <2>1. PICK w : w = initialState
    OBVIOUS
  <2>2. PICK pg : pg = NewPage(w)
    OBVIOUS
  <2>3. WizardOK(w) /\ w.path = "none" /\ w.ndviScore = None
    BY <2>1 DEF initialState, WizardOK, Paths
  <2>4. PageOK(w, pg) /\ PathOK(w)
    BY <2>2, <2>3, NewPageOK DEF PathOK
  <2>5. wizard = w /\ page = pg
    BY <2>1, <2>2 DEF WebInit, WizardInit
  <2>6. QED
    BY <1>1, <2>3, <2>4, <2>5 DEF WizardInv
<1>4. BrowserOK
  BY DEF WebInit, WalletInit, BrowserOK
<1>5. DetailInv
  BY <1>1 DEF WebInit, DetailInit, DetailInv, DetailScreen
<1>6. QED
  BY <1>2, <1>3, <1>4, <1>5 DEF WebInv

\* The handler's steps and the end of a background computation.
LEMMA BackendKeeps ==
    ASSUME WebInv, Backend, UNCHANGED <<browser, pageVars>>
    PROVE  WebInv'
<1>1. UNCHANGED wizardVars /\ UNCHANGED detailVars /\ UNCHANGED browser
  BY DEF pageVars
<1>2. BrowserOK'
  BY <1>1 DEF WebInv, BrowserOK
<1>3. ASSUME NEW r \in Requests, ConsentChecked(r) \/ AccessLogged(r)
      PROVE  ConsentInv' /\ WizardInv' /\ DetailInv'
  <2>1. ConsentInv'
    BY <1>3, ConsentCheckedSound, AccessLoggedSound DEF WebInv
  <2>2. UNCHANGED <<parcels, liens>>
    BY <1>3 DEF ConsentChecked, AccessLogged, tableVars
  <2>3. PICK y : /\ pending' = (pending (-) Only(r)) (+) Only(y)
                 /\ SameRequest(y, r)
    <3>1. WellFormed(r)
      BY DEF WebInv, ConsentInv, Sound, RequestOK
    <3>2. CASE ConsentChecked(r)
      <4>1. PICK failed \in BOOLEAN :
              pending' = (pending (-) Only(r)) (+)
                Only([r EXCEPT !.stage = "checked", !.failed = failed,
                               !.answer = IF CheckConsent(r, failed) THEN "full" ELSE "masked"])
        BY <3>2 DEF ConsentChecked
      <4>2. PICK y : y = [r EXCEPT !.stage = "checked", !.failed = failed,
                               !.answer = IF CheckConsent(r, failed) THEN "full" ELSE "masked"]
        OBVIOUS
      <4>3. SameRequest(y, r)
        BY <3>1, <4>2 DEF SameRequest, WellFormed
      <4>4. QED
        BY <4>1, <4>2, <4>3
    <3>3. CASE AccessLogged(r)
      <4>1. PICK failed \in BOOLEAN :
              pending' = (pending (-) Only(r)) (+)
                Only([r EXCEPT !.stage = "logged", !.failed = @ \/ failed])
        BY <3>3 DEF AccessLogged
      <4>2. PICK y : y = [r EXCEPT !.stage = "logged", !.failed = @ \/ failed]
        OBVIOUS
      <4>3. SameRequest(y, r)
        BY <3>1, <4>2 DEF SameRequest, WellFormed
      <4>4. QED
        BY <4>1, <4>2, <4>3
    <3>4. QED
      BY <1>3, <3>2, <3>3
  <2>4. \A x \in Requests' : \E q \in Requests : SameRequest(x, q)
    BY <2>3, Stepped DEF SameRequest
  <2>5. WizardInv'
    BY <1>1, <2>2, <2>4, WizardUndisturbed DEF WebInv
  <2>6. DetailInv'
    BY <1>1, <2>2, <2>4, DetailUndisturbed DEF WebInv
  <2>7. QED
    BY <2>1, <2>5, <2>6
<1>4. ASSUME NEW p \in Parcels, SeriesStored(p)
      PROVE  ConsentInv' /\ WizardInv' /\ DetailInv'
  <2>1. /\ UNCHANGED <<parcels, consents, consent_access_log>> /\ liens' = liens
        /\ Requests' = Requests
    BY <1>4 DEF SeriesStored, Requests
  <2>2. TablesEvolve
    BY <2>1, SameTables DEF WebInv, ConsentInv
  <2>3. \A x \in Requests' : Sound(x) /\ Later(x, x) /\ SameRequest(x, x)
    BY <2>1, LaterReflexive DEF WebInv, ConsentInv, Sound, RequestOK, SameRequest
  <2>4. ConsentInv'
    BY <2>1, <2>2, <2>3, FlowsKeepConsent DEF WebInv
  <2>5. WizardInv'
    BY <1>1, <2>1, <2>3, WizardUndisturbed DEF WebInv
  <2>6. DetailInv'
    BY <1>1, <2>1, <2>3, DetailUndisturbed DEF WebInv
  <2>7. QED
    BY <2>4, <2>5, <2>6
<1>5. QED
  BY <1>2, <1>3, <1>4 DEF Backend, WebInv

\* The wallet's changes; the dashboard, when it is open, reads the consent of the
\* wallet that is connected.
LEMMA WalletStepKeeps ==
    ASSUME WebInv, WalletStep, UNCHANGED <<tableVars, wizardVars, detailVars, scene>>
    PROVE  WebInv'
<1>1. BrowserOK'
  BY WalletKeeps DEF WebInv, WalletStep
<1>2. ASSUME Requests' \subseteq Requests
      PROVE  ConsentInv' /\ WizardInv' /\ DetailInv'
  BY <1>2, FewerRequests DEF WebInv
<1>3. ASSUME NEW w \in Wallets, WalletShown(w)
      PROVE  ConsentInv' /\ WizardInv' /\ DetailInv'
  <2>1. PICK op \in {"read", "refetch", "grant", "revoke"} : op = "read"
    OBVIOUS
  <2>2. pending' = pending (+) Only(Request("dashboard", op, None, w))
    BY <1>3, <2>1 DEF WalletShown, Fetch
  <2>3. QED
    BY <2>2, DashboardSendsKeeps DEF WebInv
<1>4. Requests' \subseteq Requests \/ \E w \in Wallets : WalletShown(w)
  BY DEF WalletStep, Requests
<1>5. QED
  BY <1>1, <1>2, <1>3, <1>4 DEF WebInv

\* The dashboard's steps.
LEMMA DashboardStepKeeps ==
    ASSUME WebInv, DashboardStep, UNCHANGED <<wizardVars, detailVars, scene>>
    PROVE  WebInv'
<1>1. UNCHANGED browser
  BY DEF DashboardStep, handleGrant, handleRevoke, Post, DashboardRead, DashboardShown,
         PostDone, PostFailed
<1>2. BrowserOK'
  BY <1>1 DEF WebInv, BrowserOK
<1>3. ASSUME NEW op \in {"grant", "revoke"}, Post(op)
      PROVE  ConsentInv' /\ WizardInv' /\ DetailInv'
  <2>1. PICK w \in Wallets : w = browser.extension
    BY <1>3 DEF Post, connected, WebInv, BrowserOK
  <2>2. pending' = pending (+) Only(Request("dashboard", op, None, w))
        /\ UNCHANGED tableVars
    BY <1>3, <2>1 DEF Post
  <2>3. QED
    BY <2>2, DashboardSendsKeeps DEF WebInv
<1>4. ASSUME NEW r \in Requests, DashboardRead(r) \/ DashboardShown(r)
      PROVE  ConsentInv' /\ WizardInv' /\ DetailInv'
  BY <1>4, DashboardAnswersKeep DEF WebInv
<1>5. ASSUME NEW r \in Requests, PostDone(r) \/ PostFailed(r)
      PROVE  ConsentInv' /\ WizardInv' /\ DetailInv'
  BY <1>5, PostKeeps DEF WebInv
<1>6. QED
  BY <1>2, <1>3, <1>4, <1>5, SMTT(20) DEF DashboardStep, handleGrant, handleRevoke, WebInv

\* The wizard beside the other tabs.
LEMMA InWizardKeeps ==
    ASSUME WebInv, InWizard
    PROVE  WebInv'
<1>1. ConsentInv' /\ WizardInv' /\ OthersLeft
  BY WizardStepKeeps DEF WebInv, InWizard
<1>2. BrowserOK'
  <2>1. UNCHANGED browser \/ \E w \in Wallets : DeeplinkApproved(w)
    BY WizardBrowser DEF InWizard
  <2>2. CASE UNCHANGED browser
    BY <2>2 DEF WebInv, BrowserOK
  <2>3. CASE \E w \in Wallets : DeeplinkApproved(w)
    BY <2>3, WalletKeeps DEF WebInv
  <2>4. QED
    BY <2>1, <2>2, <2>3
<1>3. DetailInv'
  <2>1. \A x \in Requests' : x.tab = "detail" => \E r \in Requests : SameRequest(x, r)
    BY <1>1 DEF OthersLeft, Foreign, Later, SameRequest
  <2>2. QED
    BY <1>1, <2>1, DetailUndisturbed DEF WebInv, InWizard, OthersLeft
<1>4. QED
  BY <1>1, <1>2, <1>3 DEF WebInv

\* The page of a parcel beside the other tabs.
LEMMA InDetailKeeps ==
    ASSUME WebInv, InDetail
    PROVE  WebInv'
<1>1. BrowserOK'
  BY DEF InDetail, DetailStep, Open, DetailFailed, DetailAnswered, IndicesAnswered,
         WebInv, BrowserOK
<1>2. ConsentInv' /\ WizardInv' /\ DetailInv'
  BY OpenKeeps, DetailAnswersKeep DEF InDetail, DetailStep, WebInv
<1>3. QED
  BY <1>1, <1>2 DEF WebInv

\* A lien comes, which leaves the tables and pages otherwise as they are.
LEMMA LienElsewhereKeeps ==
    ASSUME WebInv, NEW p \in Parcels, LienElsewhere(p)
    PROVE  WebInv'
<1>1. /\ UNCHANGED <<parcels, consents, consent_access_log>> /\ liens \subseteq liens'
      /\ UNCHANGED wizardVars /\ UNCHANGED detailVars /\ UNCHANGED browser
      /\ Requests' = Requests
  BY DEF LienElsewhere, CreateLien, pageVars, Requests
<1>2. TablesEvolve
  BY <1>1, SameTables DEF WebInv, ConsentInv
<1>3. \A x \in Requests' : Sound(x) /\ Later(x, x) /\ SameRequest(x, x)
  BY <1>1, LaterReflexive DEF WebInv, ConsentInv, Sound, RequestOK, SameRequest
<1>4. ConsentInv'
  BY <1>1, <1>2, <1>3, FlowsKeepConsent DEF WebInv
<1>5. WizardInv'
  BY <1>1, <1>3, WizardUndisturbed DEF WebInv
<1>6. DetailInv'
  BY <1>1, <1>3, DetailUndisturbed DEF WebInv
<1>7. BrowserOK'
  BY <1>1 DEF WebInv, BrowserOK
<1>8. QED
  BY <1>4, <1>5, <1>6, <1>7 DEF WebInv

\* A lien ends: no page is about a parcel that has had it all the time any more.
LEMMA LienEndsKeeps ==
    ASSUME WebInv, NEW p \in Parcels, LienEnds(p)
    PROVE  WebInv'
<1>1. /\ UNCHANGED <<parcels, consents, consent_access_log>> /\ liens' = liens \ {p}
      /\ UNCHANGED <<wizard, strayed, browser, detail, hopped, indexed>>
      /\ underLien' = (underLien /\ detail.cadastral # p)
      /\ Requests' = Requests
  BY DEF LienEnds, EndLien, Requests
<1>2. TablesEvolve
  BY <1>1, SameTables DEF WebInv, ConsentInv
<1>3. \A x \in Requests' : Sound(x) /\ Later(x, x)
  BY <1>1, LaterReflexive DEF WebInv, ConsentInv, Sound, RequestOK
<1>4. ConsentInv'
  BY <1>1, <1>2, <1>3, FlowsKeepConsent DEF WebInv
<1>5. WizardInv'
  <2>1. PICK w, pg, e : w = wizard /\ pg = page /\ e = (page.encumbered /\ wizard.cadastral # p)
    OBVIOUS
  <2>2. WizardOK(w) /\ PageOK(w, pg) /\ PageFields(pg) /\ (~strayed => PathOK(w))
    BY <2>1 DEF WizardInv, WebInv, PageOK
  <2>3. PICK after : after = [pg EXCEPT !.encumbered = e]
    OBVIOUS
  <2>4. /\ PageFields(after) /\ after.profile = pg.profile /\ after.ndvi = pg.ndvi
        /\ after.error = pg.error /\ after.encumbered = e
    BY <2>2, <2>3 DEF PageFields
  <2>5. e => pg.encumbered /\ w.cadastral # p
    BY <2>1
  <2>6. PageOK(w, after)'
    BY <1>1, <2>2, <2>4, <2>5 DEF PageOK, Tells, PageFields
  <2>7. wizard' = w /\ page' = after
    BY <1>1, <2>1, <2>3 DEF LienEnds
  <2>8. PathOK(w) => PathOK(w)'
    BY <1>1 DEF PathOK
  <2>9. \A r \in Requests' : OnScreen(w, r)
    BY <1>1, <2>1 DEF WebInv, WizardInv
  <2>10. QED
    BY <1>1, <2>2, <2>6, <2>7, <2>8, <2>9 DEF WizardInv, WizardOK, OnScreen, PageOK, PathOK
<1>6. DetailInv'
  <2>1. DetailScreen' = DetailScreen
    BY <1>1 DEF DetailScreen
  <2>2. QED
    BY <1>1, <2>1 DEF WebInv, DetailInv, Tells
<1>7. BrowserOK'
  BY <1>1 DEF WebInv, BrowserOK
<1>8. QED
  BY <1>4, <1>5, <1>6, <1>7 DEF WebInv

\* Whatever the application, a lender or the backend does keeps the invariant.
LEMMA WebNextKeeps == WebInv /\ [WebNext]_webVars => WebInv'
<1> SUFFICES ASSUME WebInv, [WebNext]_webVars PROVE WebInv'
  OBVIOUS
<1>1. CASE Backend /\ UNCHANGED <<browser, pageVars>>
  BY <1>1, BackendKeeps
<1>2. CASE WalletStep /\ UNCHANGED <<tableVars, wizardVars, detailVars, scene>>
  BY <1>2, WalletStepKeeps
<1>3. CASE InWizard
  BY <1>3, InWizardKeeps
<1>4. CASE InDashboard
  BY <1>4, DashboardStepKeeps DEF InDashboard
<1>5. CASE InDetail
  BY <1>5, InDetailKeeps
<1>6. ASSUME NEW l \in Lenders, NEW p \in Parcels, Ask(l, p) PROVE WebInv'
  <2>1. BrowserOK'
    BY <1>6 DEF WebInv, BrowserOK, Ask
  <2>2. QED
    BY <1>6, <2>1, AskKeeps DEF WebInv
<1>7. ASSUME NEW r \in Requests, Told(r) PROVE WebInv'
  <2>1. Requests' \subseteq Requests
    BY <1>7, RequestsOfBags DEF Told, Requests
  <2>2. /\ UNCHANGED tableVars /\ UNCHANGED wizardVars /\ UNCHANGED detailVars
        /\ UNCHANGED browser
    BY <1>7 DEF Told, pageVars
  <2>3. BrowserOK'
    BY <2>2 DEF WebInv, BrowserOK
  <2>4. QED
    BY <2>1, <2>2, <2>3, FewerRequests DEF WebInv
<1>8. ASSUME NEW p \in Parcels, LienElsewhere(p) \/ LienEnds(p) PROVE WebInv'
  BY <1>8, LienElsewhereKeeps, LienEndsKeeps
<1>9. CASE UNCHANGED webVars
  <2>1. /\ UNCHANGED tableVars /\ UNCHANGED wizardVars /\ UNCHANGED detailVars
        /\ UNCHANGED browser /\ Requests' \subseteq Requests
    BY <1>9 DEF webVars, pageVars, Requests
  <2>2. BrowserOK'
    BY <2>1 DEF WebInv, BrowserOK
  <2>3. QED
    BY <2>1, <2>2, FewerRequests DEF WebInv
<1>10. QED
  BY <1>1, <1>2, <1>3, <1>4, <1>5, <1>6, <1>7, <1>8, <1>9 DEF WebNext

\* The invariant behind what is said of the pages and of consent.
THEOREM WebInvariant == WebSpec => []WebInv
<1>1. WebInit => WebInv
  BY WebInitOK
<1>2. WebInv /\ [WebNext]_webVars => WebInv'
  BY WebNextKeeps
<1>3. QED
  BY <1>1, <1>2, PTL DEF WebSpec

\* A revocation is honoured: a profile is decided on in full only for a request
\* that was allowed at some time since it came, or whose query failed, whatever
\* grants and revocations come between the check and the answer.
THEOREM MaskedUnlessReadFailedProved == WebSpec => []MaskedUnlessReadFailed
<1>1. WebInv => MaskedUnlessReadFailed
  BY DEF WebInv, ConsentInv, Sound, RequestOK, MaskedUnlessReadFailed
<1>2. QED
  BY <1>1, WebInvariant, PTL

\* Whoever reads the profile of a farmer with a consent row is in her access log,
\* unless a query failed or LOG_LIMIT newer entries hide it.
THEOREM EveryReadAppearsProved == WebSpec => []EveryReadAppears
<1>1. WebInv => EveryReadAppears
  BY DEF WebInv, ConsentInv, Sound, ProfileOK, Entered, EveryReadAppears
<1>2. QED
  BY <1>1, WebInvariant, PTL

\* As long as no answer to a step that was left reaches the reducer, the wizard
\* is at a step of its path and shows data of the parcel under assessment only.
THEOREM AssessmentCoherentProved == WebSpec => []AssessmentCoherent
<1>1. WebInv => AssessmentCoherent
  <2> SUFFICES ASSUME WebInv, ~strayed
               PROVE  /\ wizard.path # "none" => Step # "none"
                      /\ page.profile # None => page.profile.parcel = wizard.cadastral
                      /\ page.ndvi # None => About(wizard.cadastral, page.ndvi)
                      /\ Step \in {"Score", "Profile"}
                           => About(wizard.cadastral, wizard.ndviScore)
                      /\ (wizard.path = "lender" /\ wizard.step > 0)
                           => parcels[wizard.cadastral] # None
    BY DEF AssessmentCoherent
  <2>1. PageOK(wizard, page) /\ PathOK(wizard)
    BY DEF WebInv, WizardInv
  <2>2. QED
    BY <2>1 DEF PageOK, PathOK, About, Step
<1>2. QED
  BY <1>1, WebInvariant, PTL

\* A parcel that has had a lien since before its page appeared is clean only from
\* a profile that is masked or whose liens could not be read.
THEOREM CleanBadgeProved == WebSpec => []CleanBadge
<1>1. WebInv => CleanBadge
  <2> SUFFICES ASSUME WebInv PROVE CleanBadge
    OBVIOUS
  <2>1. (SummaryScreen = "profile" /\ page.encumbered) => Tells(page.profile)
    BY DEF WebInv, WizardInv, PageOK, SummaryScreen
  <2>2. (DetailScreen = "profile" /\ underLien /\ ~hopped) => Tells(detail.profile)
    BY DEF WebInv, DetailInv
  <2>3. QED
    BY <2>1, <2>2 DEF CleanBadge, SummaryClean, DetailClean, Tells
<1>2. QED
  BY <1>1, WebInvariant, PTL

\* The page of a parcel shows the profile and the index of the parcel in its URL,
\* if no answer was awaited when that changed.
THEOREM DetailCoherentProved == WebSpec => []DetailCoherent
<1>1. WebInv => DetailCoherent
  BY DEF WebInv, DetailInv, DetailCoherent
<1>2. QED
  BY <1>1, WebInvariant, PTL

-----------------------------------------------------------------------------
(* The requests of the dashboard, counted *)

\* There is a number of each request of the dashboard.
Counted(bag) == \A r \in OfDashboard(bag) : bag[r] \in Nat \ {0}

\* Two bags have the same requests of the dashboard.
SameDash(A, B) ==
    OfDashboard(A) = OfDashboard(B) /\ \A r \in OfDashboard(B) : A[r] = B[r]

\* What is sent for other tabs leaves them alone.
LEMMA OthersSent ==
    ASSUME NEW A, NEW B, Counted(A), OfDashboard(B) = {}
    PROVE  SameDash(A (+) B, A)
<1>1. OfDashboard(A (+) B) = OfDashboard(A)
  BY RequestsOfBags DEF OfDashboard
<1>2. ASSUME NEW r \in OfDashboard(A) PROVE (A (+) B)[r] = A[r]
  <2>1. r \in DOMAIN A /\ r \notin DOMAIN B /\ A[r] \in Nat
    BY DEF OfDashboard, BagToSet, Counted
  <2>2. (A (+) B)[r] = A[r] + 0
    BY <2>1 DEF (+)
  <2>3. QED
    BY <2>1, <2>2
<1>3. QED
  BY <1>1, <1>2 DEF SameDash

\* So does an answer to another tab.
LEMMA OthersAnswered ==
    ASSUME NEW A, NEW q, Counted(A), q.tab # "dashboard"
    PROVE  SameDash(A (-) Only(q), A)
<1>1. ASSUME NEW r \in OfDashboard(A)
      PROVE  r \in OfDashboard(A (-) Only(q)) /\ (A (-) Only(q))[r] = A[r]
  <2>1. r \in DOMAIN A /\ r # q /\ A[r] \in Nat /\ A[r] > 0 /\ r.tab = "dashboard"
    BY DEF OfDashboard, BagToSet, Counted
  <2>2. DOMAIN Only(q) = {q}
    BY DEF Only, SetToBag
  <2>3. r \in DOMAIN (A (-) Only(q))
    BY <2>1, <2>2 DEF (-)
  <2>4. (A (-) Only(q))[r] = A[r]
    BY <2>1, <2>2, <2>3 DEF (-)
  <2>5. QED
    BY <2>1, <2>3, <2>4 DEF OfDashboard, BagToSet
<1>2. OfDashboard(A (-) Only(q)) \subseteq OfDashboard(A)
  BY RequestsOfBags DEF OfDashboard
<1>3. QED
  BY <1>1, <1>2 DEF SameDash

\* The kinds of requests that are changed are not the dashboard's.
LEMMA KindsChanged ==
    ASSUME NEW A, NEW kind, NEW B, Counted(A),
           OfDashboard(A) \subseteq kind, kind \subseteq BagToSet(A), OfDashboard(B) = {}
    PROVE  SameDash(Restricted(A, kind) (+) B, A)
<1>1. DOMAIN Restricted(A, kind) = kind /\ \A r \in kind : Restricted(A, kind)[r] = A[r]
  BY DEF Restricted
<1>2. OfDashboard(Restricted(A, kind)) = OfDashboard(A)
  BY <1>1 DEF OfDashboard, BagToSet
<1>3. Counted(Restricted(A, kind))
  BY <1>1, <1>2 DEF Counted
<1>4. SameDash(Restricted(A, kind) (+) B, Restricted(A, kind))
  BY <1>3, OthersSent
<1>5. QED
  BY <1>1, <1>2, <1>4 DEF SameDash

\* The wizard's components leave.
LEMMA OrphanedDash ==
    ASSUME NEW bag, Counted(bag), \A r \in BagToSet(bag) : WellFormed(r)
    PROVE  SameDash(Orphaned(bag, "wizard"), bag)
<1> DEFINE mine == {r \in BagToSet(bag) : r.tab = "wizard"}
           kind == BagToSet(bag) \ mine
           Left(r) == [r EXCEPT !.live = FALSE]
<1>1. PICK B : B = BagOfAll(Left, Restricted(bag, mine))
  OBVIOUS
<1>2. BagToSet(B) = {Left(r) : r \in mine}
  BY <1>1, Zenon DEF Restricted, BagToSet, BagOfAll
<1>3. ASSUME NEW r \in mine PROVE Left(r).tab = "wizard"
  BY <1>3 DEF WellFormed
<1>4. OfDashboard(B) = {}
  BY <1>2, <1>3 DEF OfDashboard
<1>5. OfDashboard(bag) \subseteq kind /\ kind \subseteq BagToSet(bag)
  BY DEF OfDashboard
<1>6. Orphaned(bag, "wizard") = Restricted(bag, kind) (+) B
  BY <1>1, Zenon DEF Orphaned
<1> HIDE DEF kind
<1>7. QED
  BY <1>4, <1>5, <1>6, KindsChanged

\* A grant allows what is asked for, and the dashboard asks for no profile.
LEMMA PermittedDash ==
    ASSUME NEW bag, NEW w, Counted(bag),
           \A r \in BagToSet(bag) : WellFormed(r) /\ (r.tab = "dashboard" => r.op # "profile")
    PROVE  SameDash(Permitted(w, bag), bag)
<1> DEFINE asking == {r \in BagToSet(bag) : r.op = "profile" /\ parcels[r.parcel] = w}
           kind == BagToSet(bag) \ asking
           Now(r) == [r EXCEPT !.allowed = TRUE]
<1>1. PICK B : B = BagOfAll(Now, Restricted(bag, asking))
  OBVIOUS
<1>2. BagToSet(B) = {Now(r) : r \in asking}
  BY <1>1, Zenon DEF Restricted, BagToSet, BagOfAll
<1>3. ASSUME NEW r \in asking PROVE Now(r).tab # "dashboard"
  BY <1>3 DEF WellFormed
<1>4. OfDashboard(B) = {}
  BY <1>2, <1>3 DEF OfDashboard
<1>5. OfDashboard(bag) \subseteq kind /\ kind \subseteq BagToSet(bag)
  BY DEF OfDashboard
<1>6. Permitted(w, bag) = Restricted(bag, kind) (+) B
  BY <1>1, Zenon DEF Permitted
<1> HIDE DEF kind
<1>7. QED
  BY <1>4, <1>5, <1>6, KindsChanged

\* A request of the dashboard is added.
LEMMA OneSent ==
    ASSUME NEW A, Counted(A), NEW y, y.tab = "dashboard"
    PROVE  /\ Counted(A (+) Only(y))
           /\ OfDashboard(A (+) Only(y)) = OfDashboard(A) \cup {y}
           /\ OfDashboard(A) = {} => (A (+) Only(y))[y] = 1
<1>1. OfDashboard(A (+) Only(y)) = OfDashboard(A) \cup {y}
  BY RequestsOfBags DEF OfDashboard
<1>2. DOMAIN Only(y) = {y} /\ Only(y)[y] = 1
  BY DEF Only, SetToBag
<1>3. ASSUME NEW r \in OfDashboard(A) \cup {y}
      PROVE  (A (+) Only(y))[r] = (IF r \in OfDashboard(A) THEN A[r] ELSE 0)
                                  + (IF r = y THEN 1 ELSE 0)
  BY <1>2 DEF (+), OfDashboard, BagToSet
<1>4. Counted(A (+) Only(y))
  <2>1. ASSUME NEW r \in OfDashboard(A) \cup {y} PROVE (A (+) Only(y))[r] \in Nat \ {0}
    <3>1. r \in OfDashboard(A) => A[r] \in Nat \ {0}
      BY DEF Counted
    <3>2. QED
      BY <1>3, <3>1
  <2>2. QED
    BY <1>1, <2>1 DEF Counted
<1>5. QED
  BY <1>1, <1>3, <1>4

\* A request of the dashboard is answered.
LEMMA OneAnswered ==
    ASSUME NEW A, Counted(A), NEW r \in OfDashboard(A)
    PROVE  /\ Counted(A (-) Only(r))
           /\ OfDashboard(A (-) Only(r)) \subseteq OfDashboard(A)
           /\ OfDashboard(A) \ {r} \subseteq OfDashboard(A (-) Only(r))
           /\ (OfDashboard(A) = {r} /\ A[r] = 1) => OfDashboard(A (-) Only(r)) = {}
<1>1. OfDashboard(A (-) Only(r)) \subseteq OfDashboard(A)
  BY RequestsOfBags DEF OfDashboard
<1>2. DOMAIN Only(r) = {r} /\ Only(r)[r] = 1
  BY DEF Only, SetToBag
<1>3. ASSUME NEW x \in OfDashboard(A)
      PROVE  /\ x \in OfDashboard(A (-) Only(r)) <=> (x # r \/ A[x] - 1 > 0)
             /\ x \in OfDashboard(A (-) Only(r)) =>
                  (A (-) Only(r))[x] = IF x = r THEN A[x] - 1 ELSE A[x]
  <2>1. x \in DOMAIN A /\ A[x] \in Nat /\ A[x] > 0 /\ x.tab = "dashboard"
    BY DEF OfDashboard, BagToSet, Counted
  <2>2. x \in DOMAIN (A (-) Only(r)) <=> (x # r \/ A[x] - 1 > 0)
    BY <1>2, <2>1 DEF (-)
  <2>3. x \in DOMAIN (A (-) Only(r)) =>
          (A (-) Only(r))[x] = IF x = r THEN A[x] - 1 ELSE A[x]
    BY <1>2, <2>1 DEF (-)
  <2>4. QED
    BY <2>1, <2>2, <2>3 DEF OfDashboard, BagToSet
<1>4. Counted(A (-) Only(r))
  BY <1>1, <1>3 DEF Counted
<1>5. QED
  BY <1>1, <1>3, <1>4

-----------------------------------------------------------------------------
(* What the dashboard shows and waits for *)

\* The status of the wallet that is connected is shown.
ShownRight == connected => dashboard.consent.status = consents[browser.extension]

\* The one request the page waits for finds the status right or will set it right.
Settling(r) ==
    \/ r.op \in {"grant", "revoke"} /\ ShownRight
    \/ /\ r.op \in {"read", "refetch"}
       /\ connected => r.wallet = browser.extension
       /\ r.stage = "read" => r.answer = consents[r.wallet]

DashInv ==
    /\ Counted(pending)
    /\ \A r \in OfDashboard(pending) :
         \/ r.op \in {"read", "refetch"}
         \/ r.op \in {"grant", "revoke"} /\ r.stage = "sent"
    /\ dashboard = [consent |-> dashboard.consent, loading |-> dashboard.loading,
                    actionLoading |-> dashboard.actionLoading]
    /\ dashboard.loading =>
         \E r \in OfDashboard(pending) : r.op \in {"read", "refetch"}
    /\ dashboard.actionLoading =>
         \E r \in OfDashboard(pending) : r.op \in {"refetch", "grant", "revoke"}
    /\ ("dashboard" \in scene /\ ~outdated) =>
         \/ OfDashboard(pending) = {} /\ ShownRight
         \/ \E r \in OfDashboard(pending) :
              OfDashboard(pending) = {r} /\ pending[r] = 1 /\ Settling(r)

\* What other tabs do leaves it alone, and when they change the consents behind
\* its back it is outdated.
LEMMA DashUndisturbed ==
    ASSUME DashInv, SameDash(pending', pending), UNCHANGED <<dashboard, scene>>,
           browser'.extension = browser.extension,
           ~outdated' => (~outdated /\ consents' = consents)
    PROVE  DashInv'
<1>1. PICK D, S : D = OfDashboard(pending) /\ S = OfDashboard(pending')
  OBVIOUS
<1>2. S = D /\ \A r \in D : pending'[r] = pending[r]
  BY <1>1 DEF SameDash
<1>3. Counted(pending')
  BY <1>1, <1>2 DEF Counted, DashInv
<1>4. ~outdated' => (ShownRight' <=> ShownRight) /\ \A r : Settling(r)' <=> Settling(r)
  BY DEF ShownRight, Settling, connected
<1>5. ("dashboard" \in scene' /\ ~outdated') =>
         \/ S = {} /\ ShownRight'
         \/ \E r \in S : S = {r} /\ pending'[r] = 1 /\ Settling(r)'
  BY <1>1, <1>2, <1>4 DEF DashInv
<1>6. QED
  BY <1>1, <1>2, <1>3, <1>5 DEF DashInv

\* The requests of the dashboard name wallets and ask for no profile.
LEMMA DashRequests ==
    ASSUME ConsentInv, NEW bag, BagToSet(bag) \subseteq Requests
    PROVE  /\ \A r \in BagToSet(bag) :
                WellFormed(r) /\ (r.tab = "dashboard" => r.op # "profile")
           /\ \A r \in OfDashboard(bag) : WellFormed(r) /\ r.wallet \in Wallets
BY DEF ConsentInv, Sound, RequestOK, OfDashboard

\* The dashboard sends a request after one of its requests, or none, was answered.
LEMMA DashSends ==
    ASSUME DashInv, NEW bag, Counted(bag),
           NEW y, y.tab = "dashboard",
           \/ y.op \in {"read", "refetch"}
           \/ y.op \in {"grant", "revoke"} /\ y.stage = "sent",
           pending' = bag (+) Only(y), OfDashboard(bag) \subseteq OfDashboard(pending),
           dashboard' = [consent |-> dashboard'.consent, loading |-> dashboard'.loading,
                         actionLoading |-> dashboard'.actionLoading],
           dashboard'.loading =>
             \E r \in OfDashboard(bag) \cup {y} : r.op \in {"read", "refetch"},
           dashboard'.actionLoading =>
             \E r \in OfDashboard(bag) \cup {y} : r.op \in {"refetch", "grant", "revoke"},
           ("dashboard" \in scene' /\ ~outdated') => OfDashboard(bag) = {} /\ Settling(y)'
    PROVE  DashInv'
<1>1. /\ Counted(pending')
      /\ OfDashboard(pending') = OfDashboard(bag) \cup {y}
      /\ OfDashboard(bag) = {} => pending'[y] = 1
  BY OneSent
<1>2. \A r \in OfDashboard(pending') :
         \/ r.op \in {"read", "refetch"}
         \/ r.op \in {"grant", "revoke"} /\ r.stage = "sent"
  BY <1>1 DEF DashInv
<1>3. ("dashboard" \in scene' /\ ~outdated') =>
         OfDashboard(pending') = {y} /\ pending'[y] = 1 /\ Settling(y)'
  BY <1>1
<1>4. QED
  BY <1>1, <1>2, <1>3 DEF DashInv

\* The wallet comes and goes.
LEMMA WalletDash ==
    ASSUME DashInv, BrowserOK, WalletStep, UNCHANGED scene, UNCHANGED consents
    PROVE  DashInv'
<1>1. ASSUME NEW w \in Wallets, Connect(w), WalletShown(w) PROVE DashInv'
  <2>1. PICK y : y = Request("dashboard", "read", None, w)
    OBVIOUS
  <2>2. y.tab = "dashboard" /\ y.op = "read" /\ y.wallet = w /\ y.stage = "sent"
    BY <2>1, FreshRequest
  <2>3. browser'.extension = w
    BY <1>1 DEF BrowserOK, Connect, Change
  <2>4. dashboard' = [consent |-> dashboard.consent, loading |-> TRUE,
                      actionLoading |-> dashboard.actionLoading]
    BY <1>1 DEF WalletShown, DashInv
  <2>5. pending' = pending (+) Only(y) /\ outdated' = (OfDashboard(pending) # {})
    BY <1>1, <2>1 DEF WalletShown, Fetch
  <2>6. Settling(y)'
    BY <2>2, <2>3 DEF Settling
  <2>7. Counted(pending)
    BY DEF DashInv
  <2>8. dashboard'.actionLoading =>
          \E r \in OfDashboard(pending) : r.op \in {"refetch", "grant", "revoke"}
    BY <2>4 DEF DashInv
  <2>9. QED
    BY <2>2, <2>4, <2>5, <2>6, <2>7, <2>8, DashSends
<1>2. ASSUME "dashboard" \notin scene, UNCHANGED <<pending, dashboardVars>> PROVE DashInv'
  BY <1>2 DEF DashInv, dashboardVars
<1>3. ASSUME Disconnect, UNCHANGED <<pending, dashboardVars>> PROVE DashInv'
  <2>1. browser'.extension = None
    BY <1>3 DEF BrowserOK, Disconnect, Change
  <2>2. ShownRight' /\ \A r \in OfDashboard(pending) : Settling(r) => Settling(r)'
    BY <2>1 DEF ShownRight, Settling, connected
  <2>3. QED
    BY <1>3, <2>2 DEF DashInv, dashboardVars
<1>4. ASSUME DeeplinkDisconnect, UNCHANGED <<pending, dashboardVars>> PROVE DashInv'
  <2>1. browser'.extension = browser.extension
    BY <1>4 DEF BrowserOK, DeeplinkDisconnect, Change
  <2>2. SameDash(pending', pending)
    BY <1>4 DEF SameDash
  <2>3. ~outdated' => (~outdated /\ consents' = consents)
    BY <1>4 DEF dashboardVars
  <2>4. QED
    BY <1>4, <2>1, <2>2, <2>3, DashUndisturbed DEF dashboardVars
<1>5. QED
  BY <1>1, <1>2, <1>3, <1>4 DEF WalletStep

\* A click on the dashboard.
LEMMA PostDash ==
    ASSUME DashInv, NEW op \in {"grant", "revoke"}, Post(op), UNCHANGED scene
    PROVE  DashInv'
<1>1. PICK y : y = Request("dashboard", op, None, browser.extension)
  OBVIOUS
<1>2. y.tab = "dashboard" /\ y.op = op /\ y.stage = "sent"
  BY <1>1, FreshRequest
<1>3. dashboard' = [consent |-> dashboard.consent, loading |-> dashboard.loading,
                    actionLoading |-> TRUE]
  BY DEF Post, DashInv
<1>4. /\ pending' = pending (+) Only(y)
      /\ ~outdated' => ~outdated /\ OfDashboard(pending) = {}
      /\ UNCHANGED <<consents, browser>>
  BY <1>1 DEF Post, tableVars
<1>5. ("dashboard" \in scene' /\ ~outdated') => OfDashboard(pending) = {} /\ Settling(y)'
  BY <1>2, <1>3, <1>4 DEF DashInv, Settling, ShownRight, connected
<1>6. Counted(pending)
  BY DEF DashInv
<1>7. dashboard'.loading => \E r \in OfDashboard(pending) : r.op \in {"read", "refetch"}
  BY <1>3 DEF DashInv
<1>8. dashboard'.actionLoading =>
        \E r \in OfDashboard(pending) \cup {y} : r.op \in {"refetch", "grant", "revoke"}
  BY <1>2
<1>9. QED
  BY <1>2, <1>3, <1>4, <1>5, <1>6, <1>7, <1>8, DashSends

\* The consent of the wallet is read.
LEMMA ReadDash ==
    ASSUME ConsentInv, DashInv, NEW r \in Requests, DashboardRead(r), UNCHANGED scene
    PROVE  DashInv'
<1>1. PICK failed \in BOOLEAN :
        /\ pending' = (pending (-) Only(r)) (+)
              Only([r EXCEPT !.stage = "read",
                             !.answer = IF failed THEN None ELSE consents[r.wallet]])
        /\ outdated' = (outdated \/ failed)
  BY DEF DashboardRead
<1>2. PICK y : y = [r EXCEPT !.stage = "read",
                             !.answer = IF failed THEN None ELSE consents[r.wallet]]
  OBVIOUS
<1>3. PICK bag : bag = pending (-) Only(r)
  OBVIOUS
<1>4. /\ r \in OfDashboard(pending) /\ WellFormed(r) /\ r.op \in {"read", "refetch"}
      /\ r.tab = "dashboard"
  BY DEF DashboardRead, OfDashboard, Requests, ConsentInv, Sound, RequestOK
<1>5. /\ y.tab = "dashboard" /\ y.op = r.op /\ y.wallet = r.wallet /\ y.stage = "read"
      /\ y.answer = IF failed THEN None ELSE consents[r.wallet]
  BY <1>2, <1>4 DEF WellFormed
<1>6. /\ Counted(bag) /\ OfDashboard(bag) \subseteq OfDashboard(pending)
      /\ OfDashboard(pending) \ {r} \subseteq OfDashboard(bag)
      /\ (OfDashboard(pending) = {r} /\ pending[r] = 1) => OfDashboard(bag) = {}
  BY <1>3, <1>4, OneAnswered DEF DashInv
<1>7. dashboard' = dashboard /\ browser' = browser /\ consents' = consents
  BY DEF DashboardRead, tableVars
<1>8. dashboard' = [consent |-> dashboard'.consent, loading |-> dashboard'.loading,
                    actionLoading |-> dashboard'.actionLoading]
  BY <1>7 DEF DashInv
<1>9. dashboard'.loading => \E q \in OfDashboard(bag) \cup {y} : q.op \in {"read", "refetch"}
  BY <1>4, <1>5
<1>10. dashboard'.actionLoading =>
         \E q \in OfDashboard(bag) \cup {y} : q.op \in {"refetch", "grant", "revoke"}
  <2>1. dashboard.actionLoading =>
          \E q \in OfDashboard(pending) : q.op \in {"refetch", "grant", "revoke"}
    BY DEF DashInv
  <2>2. QED
    BY <1>5, <1>6, <1>7, <2>1
<1>11. ("dashboard" \in scene' /\ ~outdated') => OfDashboard(bag) = {} /\ Settling(y)'
  <2>1. SUFFICES ASSUME "dashboard" \in scene', ~outdated'
                 PROVE  OfDashboard(bag) = {} /\ Settling(y)'
    OBVIOUS
  <2>2. ~outdated /\ ~failed /\ "dashboard" \in scene
    BY <1>1, <2>1
  <2>3. OfDashboard(pending) = {r} /\ pending[r] = 1 /\ Settling(r)
    BY <1>4, <2>2 DEF DashInv
  <2>4. connected => r.wallet = browser.extension
    BY <1>4, <2>3 DEF Settling
  <2>5. Settling(y)'
    BY <1>4, <1>5, <1>7, <2>2, <2>4 DEF Settling, connected
  <2>6. QED
    BY <1>6, <2>3, <2>5
<1>12. pending' = bag (+) Only(y)
  BY <1>1, <1>2, <1>3
<1>13. QED
  BY <1>4, <1>5, <1>6, <1>8, <1>9, <1>10, <1>11, <1>12, DashSends

\* The consent that was read is shown.
LEMMA ShownDash ==
    ASSUME ConsentInv, DashInv, NEW r \in Requests, DashboardShown(r), UNCHANGED scene
    PROVE  DashInv'
<1>1. /\ r \in OfDashboard(pending) /\ r.op \in {"read", "refetch"} /\ r.stage = "read"
  BY DEF DashboardShown, OfDashboard, Requests, DashInv
<1>2. PICK shown : shown = IF r.answer = None THEN NoConsent
                           ELSE [wallet |-> r.wallet, status |-> r.answer]
  OBVIOUS
<1>3. shown.status = r.answer
  BY <1>2 DEF NoConsent
<1>4. PICK acting : acting = IF r.op = "refetch" THEN FALSE ELSE dashboard.actionLoading
  OBVIOUS
<1>5. dashboard' = [consent |-> shown, loading |-> FALSE, actionLoading |-> acting]
  BY <1>2, <1>4 DEF DashboardShown, DashInv
<1>6. pending' = pending (-) Only(r) /\ UNCHANGED <<consents, browser, outdated>>
  BY DEF DashboardShown, tableVars
<1>7. /\ Counted(pending') /\ OfDashboard(pending') \subseteq OfDashboard(pending)
      /\ OfDashboard(pending) \ {r} \subseteq OfDashboard(pending')
      /\ (OfDashboard(pending) = {r} /\ pending[r] = 1) => OfDashboard(pending') = {}
  BY <1>1, <1>6, OneAnswered DEF DashInv
<1>8. acting => \E q \in OfDashboard(pending') : q.op \in {"refetch", "grant", "revoke"}
  <2>1. dashboard.actionLoading =>
          \E q \in OfDashboard(pending) : q.op \in {"refetch", "grant", "revoke"}
    BY DEF DashInv
  <2>2. acting => r.op # "refetch" /\ dashboard.actionLoading
    BY <1>4
  <2>3. QED
    BY <1>1, <1>7, <2>1, <2>2
<1>9. ("dashboard" \in scene' /\ ~outdated') => OfDashboard(pending') = {} /\ ShownRight'
  <2>1. SUFFICES ASSUME "dashboard" \in scene, ~outdated
                 PROVE  OfDashboard(pending') = {} /\ ShownRight'
    BY <1>6
  <2>2. OfDashboard(pending) = {r} /\ pending[r] = 1 /\ Settling(r)
    BY <1>1, <2>1 DEF DashInv
  <2>3. (connected => r.wallet = browser.extension) /\ r.answer = consents[r.wallet]
    BY <1>1, <2>2 DEF Settling
  <2>4. ShownRight'
    BY <1>3, <1>5, <1>6, <2>3 DEF ShownRight, connected
  <2>5. QED
    BY <1>7, <2>2, <2>4
<1>10. \A q \in OfDashboard(pending') :
         \/ q.op \in {"read", "refetch"}
         \/ q.op \in {"grant", "revoke"} /\ q.stage = "sent"
  BY <1>7 DEF DashInv
<1>11. QED
  BY <1>5, <1>7, <1>8, <1>9, <1>10 DEF DashInv

\* A post that is done is followed by another read, one that fails by nothing.
LEMMA PostedDash ==
    ASSUME ConsentInv, DashInv, NEW r \in Requests, PostDone(r) \/ PostFailed(r),
           UNCHANGED scene
    PROVE  DashInv'
<1>1. r \in OfDashboard(pending) /\ r.op \in {"grant", "revoke"} /\ r.tab = "dashboard"
  BY DEF PostDone, PostFailed, OfDashboard, Requests
<1>2. PICK rest : rest = pending (-) Only(r)
  OBVIOUS
<1>3. /\ Counted(rest) /\ OfDashboard(rest) \subseteq OfDashboard(pending)
      /\ OfDashboard(pending) \ {r} \subseteq OfDashboard(rest)
      /\ (OfDashboard(pending) = {r} /\ pending[r] = 1) => OfDashboard(rest) = {}
  BY <1>1, <1>2, OneAnswered DEF DashInv
<1>4. PICK a : a = r.wallet
  OBVIOUS
<1>5. PICK bag : bag = IF r.op = "grant" THEN Permitted(a, rest) ELSE rest
  OBVIOUS
<1>6. SameDash(bag, rest)
  <2>1. BagToSet(rest) \subseteq Requests
    BY <1>2, RequestsOfBags DEF Requests
  <2>2. \A q \in BagToSet(rest) :
          WellFormed(q) /\ (q.tab = "dashboard" => q.op # "profile")
    BY <2>1, DashRequests
  <2>3. SameDash(Permitted(a, rest), rest)
    BY <1>3, <2>2, PermittedDash
  <2>4. QED
    BY <1>5, <2>3 DEF SameDash
<1>7. Counted(bag) /\ OfDashboard(bag) = OfDashboard(rest)
  BY <1>3, <1>6 DEF SameDash, Counted
<1>8. dashboard.loading =>
        \E q \in OfDashboard(rest) : q.op \in {"read", "refetch"}
  BY <1>1, <1>3 DEF DashInv
<1>9. ASSUME PostDone(r) PROVE DashInv'
  <2>1. PICK y : y = Request("dashboard", "refetch", None, a)
    OBVIOUS
  <2>2. y.tab = "dashboard" /\ y.op = "refetch" /\ y.stage = "sent" /\ y.wallet = a
    BY <2>1, FreshRequest
  <2>3. /\ pending' = bag (+) Only(y) /\ UNCHANGED browser
        /\ outdated' = (browser.extension # a \/ OfDashboard(bag) # {})
        /\ dashboard' = [dashboard EXCEPT !.loading = TRUE]
    BY <1>2, <1>4, <1>5, <1>9, <2>1 DEF PostDone, FetchAfter, Fetch
  <2>4. dashboard' = [consent |-> dashboard.consent, loading |-> TRUE,
                      actionLoading |-> dashboard.actionLoading]
    BY <2>3 DEF DashInv
  <2>5. ~outdated' => OfDashboard(bag) = {} /\ Settling(y)'
    BY <2>2, <2>3 DEF Settling, connected
  <2>6. /\ \E q \in OfDashboard(bag) \cup {y} : q.op \in {"read", "refetch"}
        /\ \E q \in OfDashboard(bag) \cup {y} : q.op \in {"refetch", "grant", "revoke"}
    BY <2>2
  <2>7. QED
    BY <1>3, <1>7, <2>2, <2>3, <2>4, <2>5, <2>6, DashSends
<1>10. ASSUME PostFailed(r) PROVE DashInv'
  <2>1. dashboard' = [consent |-> dashboard.consent, loading |-> dashboard.loading,
                      actionLoading |-> FALSE]
    BY <1>10 DEF PostFailed, DashInv
  <2>2. \/ pending' = bag /\ outdated' = TRUE
        \/ pending' = rest /\ UNCHANGED <<consents, outdated>>
    BY <1>2, <1>4, <1>5, <1>10 DEF PostFailed
  <2>3. Counted(pending') /\ OfDashboard(pending') = OfDashboard(rest)
    BY <1>3, <1>7, <2>2
  <2>4. ("dashboard" \in scene' /\ ~outdated') => OfDashboard(rest) = {} /\ ShownRight'
    <3>1. SUFFICES ASSUME "dashboard" \in scene, ~outdated, UNCHANGED consents
                   PROVE  OfDashboard(rest) = {} /\ ShownRight'
      BY <2>2
    <3>2. OfDashboard(pending) = {r} /\ pending[r] = 1 /\ Settling(r)
      BY <1>1, <3>1 DEF DashInv
    <3>3. ShownRight
      BY <1>1, <3>2 DEF Settling
    <3>4. UNCHANGED browser
      BY <1>10 DEF PostFailed
    <3>5. ShownRight'
      BY <2>1, <3>1, <3>3, <3>4 DEF ShownRight, connected
    <3>6. QED
      BY <1>3, <3>2, <3>5
  <2>5. \A q \in OfDashboard(pending') :
          \/ q.op \in {"read", "refetch"}
          \/ q.op \in {"grant", "revoke"} /\ q.stage = "sent"
    BY <1>3, <2>3 DEF DashInv
  <2>6. QED
    BY <1>8, <2>1, <2>3, <2>4, <2>5 DEF DashInv
<1>11. QED
  BY <1>9, <1>10

-----------------------------------------------------------------------------
(* The requests of the other tabs *)

\* One request after another that is not the dashboard's.
LEMMA SameDashTransitive ==
    ASSUME NEW A, NEW B, NEW C, SameDash(A, B), SameDash(B, C), Counted(C)
    PROVE  SameDash(A, C) /\ Counted(A)
BY DEF SameDash, Counted

\* What is sent for another tab.
LEMMA OtherSent ==
    ASSUME NEW A, Counted(A), NEW y, y.tab # "dashboard"
    PROVE  SameDash(A (+) Only(y), A)
<1>1. PICK B : B = Only(y)
  OBVIOUS
<1>2. OfDashboard(B) = {}
  BY <1>1, RequestsOfBags DEF OfDashboard
<1>3. SameDash(A (+) B, A)
  BY <1>2, OthersSent
<1>4. QED
  BY <1>1, <1>3

\* A request of another tab that goes on.
LEMMA OtherStepped ==
    ASSUME Counted(pending), NEW r, r.tab # "dashboard", NEW y, y.tab # "dashboard",
           pending' = (pending (-) Only(r)) (+) Only(y)
    PROVE  SameDash(pending', pending)
<1>1. PICK A : A = pending (-) Only(r)
  OBVIOUS
<1>2. SameDash(A, pending)
  BY <1>1, OthersAnswered
<1>3. Counted(A)
  BY <1>2 DEF SameDash, Counted
<1>4. SameDash(pending', A)
  BY <1>1, <1>3, OtherSent
<1>5. QED
  BY <1>2, <1>4, SameDashTransitive

\* A step of the wizard that is mounted and the one that is left.
LEMMA GoDash ==
    ASSUME NEW bag, Counted(bag), \A r \in BagToSet(bag) : WellFormed(r),
           NEW w, Go(w, bag)
    PROVE  SameDash(pending', bag)
<1>1. PICK A : A = Orphaned(bag, "wizard")
  OBVIOUS
<1>2. PICK B : B = SetToBag(Sent(w))
  OBVIOUS
<1>3. SameDash(A, bag)
  BY <1>1, OrphanedDash
<1>4. Counted(A)
  BY <1>3 DEF SameDash, Counted
<1>5. \A x \in Sent(w) : x.tab = "wizard"
  BY FreshRequest, FreshProfile DEF Sent
<1>6. OfDashboard(B) = {}
  BY <1>2, <1>5, RequestsOfBags DEF OfDashboard
<1>7. pending' = A (+) B
  BY <1>1, <1>2 DEF Go
<1>8. SameDash(pending', A)
  BY <1>4, <1>6, <1>7, OthersSent
<1>9. QED
  BY <1>3, <1>8, SameDashTransitive

\* The wizard sends and answers requests of its own only.
LEMMA AnswersOfWizard ==
    ASSUME ConsentInv, Counted(pending), NEW r \in Requests, Answer(r)
    PROVE  SameDash(pending', pending)
<1>1. r.tab = "wizard" /\ WellFormed(r)
  BY DEF ConsentInv, Sound, RequestOK, Answer, TxRefused, TxConfirmed, ParcelPosted,
         GrantArrives, NdviShown, ProfileFailed, ProfileAnswered, LiensAnswered,
         SearchAnswered, LienPosted, IsRequest
<1>2. PICK rest : rest = pending (-) Only(r)
  OBVIOUS
<1>3. SameDash(rest, pending)
  BY <1>1, <1>2, OthersAnswered
<1>4. Counted(rest)
  BY <1>3 DEF SameDash, Counted
<1>5. BagToSet(rest) \subseteq Requests
  BY <1>2, RequestsOfBags DEF Requests
<1>6. CASE pending' = rest
  BY <1>3, <1>6
<1>7. CASE TxConfirmed(r)
  <2>1. PICK y : y = [r EXCEPT !.stage = "post"]
    OBVIOUS
  <2>2. y.tab = "wizard"
    BY <1>1, <2>1 DEF WellFormed
  <2>3. pending' = (pending (-) Only(r)) (+) Only(y)
    BY <1>7, <2>1 DEF TxConfirmed
  <2>4. QED
    BY <1>1, <2>2, <2>3, OtherStepped
<1>8. CASE ParcelPosted(r)
  <2>1. PICK grant : grant = IF r.wallet = None THEN EmptyBag
                             ELSE Only(Request("wizard", "grant", None, r.wallet))
    OBVIOUS
  <2>2. PICK w, bag : w = NEXT(wizard) /\ bag = rest (+) grant
    OBVIOUS
  <2>3. Go(w, bag)
    BY <1>2, <1>8, <2>1, <2>2 DEF ParcelPosted
  <2>4. \A x \in BagToSet(grant) : WellFormed(x) /\ x.tab = "wizard"
    <3>1. PICK g : g = Request("wizard", "grant", None, r.wallet)
      OBVIOUS
    <3>2. \A x \in BagToSet(grant) : x = g
      BY <2>1, <3>1, RequestsOfBags
    <3>3. QED
      BY <3>1, <3>2, FreshRequest
  <2>5. OfDashboard(grant) = {}
    BY <2>4 DEF OfDashboard
  <2>6. SameDash(bag, rest)
    BY <1>4, <2>2, <2>5, OthersSent
  <2>7. Counted(bag)
    BY <1>4, <2>6 DEF SameDash, Counted
  <2>8. \A x \in BagToSet(bag) : WellFormed(x)
    BY <1>5, <2>2, <2>4, RequestsOfBags DEF ConsentInv, Sound, RequestOK
  <2>9. SameDash(pending', bag)
    BY <2>3, <2>7, <2>8, GoDash
  <2>10. SameDash(pending', rest)
    BY <1>4, <2>6, <2>9, SameDashTransitive
  <2>11. QED
    BY <1>3, <2>10, SameDashTransitive
<1>9. CASE pending' = Permitted(r.wallet, rest)
  <2>1. PICK a : a = r.wallet
    OBVIOUS
  <2>2. \A q \in BagToSet(rest) :
          WellFormed(q) /\ (q.tab = "dashboard" => q.op # "profile")
    BY <1>5, DashRequests
  <2>3. SameDash(pending', rest)
    BY <1>4, <1>9, <2>1, <2>2, PermittedDash
  <2>4. QED
    BY <1>3, <2>3, SameDashTransitive
<1>10. ASSUME NEW w, Go(w, rest) PROVE SameDash(pending', pending)
  <2>1. \A x \in BagToSet(rest) : WellFormed(x)
    BY <1>5 DEF ConsentInv, Sound, RequestOK
  <2>2. SameDash(pending', rest)
    BY <1>4, <1>10, <2>1, GoDash
  <2>3. QED
    BY <1>3, <2>2, SameDashTransitive
<1>11. \/ pending' = rest \/ TxConfirmed(r) \/ ParcelPosted(r)
       \/ pending' = Permitted(r.wallet, rest) \/ \E w : Go(w, rest)
  BY <1>2 DEF Answer, TxRefused, GrantArrives, NdviShown, ProfileFailed, ProfileAnswered,
              LiensAnswered, SearchAnswered, LienPosted
<1>12. QED
  BY <1>6, <1>7, <1>8, <1>9, <1>10, <1>11

\* So do its clicks and effects.
LEMMA ClicksOfWizard ==
    ASSUME ConsentInv, Counted(pending), WizardClick \/ AutoAdvance \/ Retry
    PROVE  SameDash(pending', pending)
<1>1. \A x \in BagToSet(pending) : WellFormed(x)
  BY DEF ConsentInv, Requests, Sound, RequestOK
<1>2. ASSUME NEW w, Go(w, pending) PROVE SameDash(pending', pending)
  BY <1>1, <1>2, GoDash
<1>3. ASSUME NEW y, y.tab = "wizard", pending' = pending (+) Only(y)
      PROVE  SameDash(pending', pending)
  BY <1>3, OtherSent
<1>4. ASSUME UNCHANGED pending PROVE SameDash(pending', pending)
  BY <1>4 DEF SameDash
<1>5. ASSUME NEW p, SubmitParcel(p)
      PROVE  \E y : y.tab = "wizard" /\ pending' = pending (+) Only(y)
  <2>1. PICK a : a = IF browser.extension # None THEN browser.extension
                     ELSE wizard.walletAddress
    OBVIOUS
  <2>2. PICK q : q = Request("wizard", "register", p, a)
    OBVIOUS
  <2>3. PICK y : y = [q EXCEPT !.stage = IF browser.extension # None THEN "tx" ELSE "post"]
    OBVIOUS
  <2>4. WellFormed(q) /\ q.tab = "wizard"
    BY <2>2, FreshRequest
  <2>5. y.tab = "wizard"
    BY <2>3, <2>4 DEF WellFormed
  <2>6. pending' = pending (+) Only(y)
    BY <1>5, <2>1, <2>2, <2>3 DEF SubmitParcel
  <2>7. QED
    BY <2>5, <2>6
<1>6. ASSUME SubmitLien
      PROVE  \E y : y.tab = "wizard" /\ pending' = pending (+) Only(y)
  <2>1. PICK q : q = Request("wizard", "lien", wizard.cadastral, None)
    OBVIOUS
  <2>2. PICK y : y = [q EXCEPT !.stage = IF browser.extension # None THEN "tx" ELSE "post"]
    OBVIOUS
  <2>3. WellFormed(q) /\ q.tab = "wizard"
    BY <2>1, FreshRequest
  <2>4. y.tab = "wizard"
    BY <2>2, <2>3 DEF WellFormed
  <2>5. pending' = pending (+) Only(y)
    BY <1>6, <2>1, <2>2 DEF SubmitLien
  <2>6. QED
    BY <2>4, <2>5
<1>7. ASSUME NEW p, Search(p)
      PROVE  \E y : y.tab = "wizard" /\ pending' = pending (+) Only(y)
  BY <1>7, FreshRequest DEF Search
<1>8. ASSUME NEW n, FetchAgain(n)
      PROVE  \E y : y.tab = "wizard" /\ pending' = pending (+) Only(y)
  BY <1>8, FreshProfile DEF FetchAgain
<1>9. ASSUME NEW w, Moves(w) PROVE SameDash(pending', pending)
  BY <1>2, <1>9 DEF Moves
<1>10. ASSUME RESTART PROVE SameDash(pending', pending)
  BY <1>2, <1>10 DEF RESTART
<1>11. CASE WizardClick
  <2>1. ASSUME NEW path, SelectPath(path) PROVE SameDash(pending', pending)
    BY <1>9, <2>1 DEF SelectPath
  <2>2. ASSUME ContinueWithWallet PROVE SameDash(pending', pending)
    BY <1>9, <2>2 DEF ContinueWithWallet
  <2>3. ASSUME NEW w, ApprovedByDeeplink(w) PROVE SameDash(pending', pending)
    BY <1>4, <2>3 DEF ApprovedByDeeplink
  <2>4. ASSUME NEW p, SubmitParcel(p) \/ Search(p) PROVE SameDash(pending', pending)
    BY <1>3, <1>5, <1>7, <2>4
  <2>5. ASSUME BackFromParcel \/ SatelliteContinue \/ ScoreContinue \/ OpenRegisterLien
               \/ BackFromLien
        PROVE  SameDash(pending', pending)
    BY <1>9, <2>5 DEF BackFromParcel, SatelliteContinue, ScoreContinue,
                      OpenRegisterLien, BackFromLien
  <2>6. ASSUME RetryAll PROVE SameDash(pending', pending)
    BY <1>3, <1>8, <2>6 DEF RetryAll
  <2>7. ASSUME StartNewAssessment \/ SearchAnother PROVE SameDash(pending', pending)
    BY <1>10, <2>7 DEF StartNewAssessment, SearchAnother
  <2>8. ASSUME SubmitLien PROVE SameDash(pending', pending)
    BY <1>3, <1>6, <2>8
  <2>9. QED
    BY <1>11, <2>1, <2>2, <2>3, <2>4, <2>5, <2>6, <2>7, <2>8 DEF WizardClick
<1>12. CASE AutoAdvance
  BY <1>2, <1>12 DEF AutoAdvance
<1>13. CASE Retry
  BY <1>3, <1>8, <1>13 DEF Retry
<1>14. QED
  BY <1>11, <1>12, <1>13

-----------------------------------------------------------------------------
(* The dashboard beside the other tabs *)

\* The handler serves profiles, which the dashboard does not ask for.
LEMMA BackendDash ==
    ASSUME ConsentInv, DashInv, Backend, UNCHANGED <<browser, pageVars>>
    PROVE  DashInv'
<1>1. ASSUME NEW r \in Requests, ConsentChecked(r) \/ AccessLogged(r)
      PROVE  SameDash(pending', pending)
  <2>1. WellFormed(r) /\ r.tab # "dashboard"
    BY <1>1 DEF ConsentInv, Sound, RequestOK, ConsentChecked, AccessLogged
  <2>2. PICK y : pending' = (pending (-) Only(r)) (+) Only(y) /\ y.tab = r.tab
    <3>1. CASE ConsentChecked(r)
      <4>1. PICK failed \in BOOLEAN :
              pending' = (pending (-) Only(r)) (+)
                Only([r EXCEPT !.stage = "checked", !.failed = failed,
                               !.answer = IF CheckConsent(r, failed) THEN "full" ELSE "masked"])
        BY <3>1 DEF ConsentChecked
      <4>2. PICK y : y = [r EXCEPT !.stage = "checked", !.failed = failed,
                               !.answer = IF CheckConsent(r, failed) THEN "full" ELSE "masked"]
        OBVIOUS
      <4>3. y.tab = r.tab
        BY <2>1, <4>2 DEF WellFormed
      <4>4. QED
        BY <4>1, <4>2, <4>3
    <3>2. CASE AccessLogged(r)
      <4>1. PICK failed \in BOOLEAN :
              pending' = (pending (-) Only(r)) (+)
                Only([r EXCEPT !.stage = "logged", !.failed = @ \/ failed])
        BY <3>2 DEF AccessLogged
      <4>2. PICK y : y = [r EXCEPT !.stage = "logged", !.failed = @ \/ failed]
        OBVIOUS
      <4>3. y.tab = r.tab
        BY <2>1, <4>2 DEF WellFormed
      <4>4. QED
        BY <4>1, <4>2, <4>3
    <3>3. QED
      BY <1>1, <3>1, <3>2
  <2>3. QED
    BY <2>1, <2>2, OtherStepped DEF DashInv
<1>2. ASSUME NEW p, SeriesStored(p) PROVE SameDash(pending', pending)
  BY <1>2 DEF SeriesStored, SameDash
<1>3. UNCHANGED consents
  BY DEF Backend, ConsentChecked, AccessLogged, SeriesStored, tableVars
<1>4. QED
  BY <1>1, <1>2, <1>3, DashUndisturbed DEF Backend, pageVars, dashboardVars

\* The page of a parcel, the lenders' programs and the liens.
LEMMA OthersDash ==
    ASSUME ConsentInv, DashInv,
           \/ InDetail
           \/ \E l \in Lenders, p \in Parcels : Ask(l, p)
           \/ \E r \in Requests : Told(r)
           \/ \E p \in Parcels : LienElsewhere(p) \/ LienEnds(p)
           \/ UNCHANGED webVars
    PROVE  DashInv'
<1>1. Counted(pending)
  BY DEF DashInv
<1>2. UNCHANGED <<dashboardVars, scene, browser, consents>>
  BY DEF InDetail, DetailStep, Open, DetailFailed, DetailAnswered, IndicesAnswered, Ask,
         Told, LienElsewhere, LienEnds, webVars, pageVars, tableVars
<1>3. ASSUME NEW p, Open(p) PROVE SameDash(pending', pending)
  <2>1. PICK a, b, A : /\ a = AskProfile("detail", p)
                       /\ b = Request("detail", "indices", p, None)
                       /\ A = pending (+) Only(a)
    OBVIOUS
  <2>2. a.tab = "detail" /\ b.tab = "detail"
    BY <2>1, FreshProfile, FreshRequest
  <2>3. pending' = A (+) Only(b)
    BY <1>3, <2>1 DEF Open
  <2>4. SameDash(A, pending)
    BY <1>1, <2>1, <2>2, OtherSent
  <2>5. Counted(A)
    BY <1>1, <2>4 DEF SameDash, Counted
  <2>6. SameDash(pending', A)
    BY <2>2, <2>3, <2>5, OtherSent
  <2>7. QED
    BY <1>1, <2>4, <2>6, SameDashTransitive
<1>4. ASSUME NEW r, DetailFailed(r) \/ DetailAnswered(r) \/ IndicesAnswered(r)
      PROVE  SameDash(pending', pending)
  BY <1>1, <1>4, OthersAnswered DEF DetailFailed, DetailAnswered, IndicesAnswered, IsRequest
<1>5. ASSUME NEW l \in Lenders, NEW p, Ask(l, p) PROVE SameDash(pending', pending)
  <2>1. PICK y : y = AskProfile(l, p)
    OBVIOUS
  <2>2. y.tab # "dashboard"
    BY <2>1, FreshProfile, ConsentAssumption
  <2>3. QED
    BY <1>1, <1>5, <2>1, <2>2, OtherSent DEF Ask
<1>6. ASSUME NEW r, Told(r) PROVE SameDash(pending', pending)
  BY <1>1, <1>6, OthersAnswered, ConsentAssumption DEF Told
<1>7. ASSUME UNCHANGED webVars PROVE SameDash(pending', pending)
  BY <1>7 DEF SameDash, webVars
<1>8. ASSUME NEW p, LienElsewhere(p) \/ LienEnds(p) PROVE SameDash(pending', pending)
  BY <1>8 DEF SameDash, LienElsewhere, LienEnds
<1>9. SameDash(pending', pending)
  BY <1>3, <1>4, <1>5, <1>6, <1>7, <1>8 DEF InDetail, DetailStep
<1>10. QED
  BY <1>2, <1>9, DashUndisturbed DEF dashboardVars

\* The wizard.
LEMMA WizardDash ==
    ASSUME ConsentInv, DashInv, BrowserOK, InWizard
    PROVE  DashInv'
<1>1. SameDash(pending', pending)
  BY AnswersOfWizard, ClicksOfWizard DEF InWizard, WizardStep, DashInv
<1>2. browser'.extension = browser.extension
  <2>1. ASSUME NEW w, DeeplinkApproved(w) PROVE browser'.extension = browser.extension
    BY <2>1 DEF DeeplinkApproved, Change, BrowserOK
  <2>2. QED
    BY <2>1, WizardBrowser DEF InWizard
<1>3. ~outdated' => (~outdated /\ consents' = consents)
  BY DEF InWizard
<1>4. QED
  BY <1>1, <1>2, <1>3, DashUndisturbed DEF InWizard

\* With what is said of the requests and the browser, what is said of the
\* dashboard is kept by every step.
LEMMA DashNextKeeps == WebInv /\ DashInv /\ [WebNext]_webVars => DashInv'
<1> SUFFICES ASSUME WebInv, DashInv, [WebNext]_webVars PROVE DashInv'
  OBVIOUS
<1>1. ConsentInv /\ BrowserOK
  BY DEF WebInv
<1>2. CASE Backend /\ UNCHANGED <<browser, pageVars>>
  BY <1>1, <1>2, BackendDash
<1>3. CASE WalletStep /\ UNCHANGED <<tableVars, wizardVars, detailVars, scene>>
  BY <1>1, <1>3, WalletDash DEF tableVars
<1>4. CASE InWizard
  BY <1>1, <1>4, WizardDash
<1>5. CASE InDashboard
  BY <1>1, <1>5, PostDash, ReadDash, ShownDash, PostedDash
     DEF InDashboard, DashboardStep, handleGrant, handleRevoke
<1>6. CASE \/ InDetail
           \/ \E l \in Lenders, p \in Parcels : Ask(l, p)
           \/ \E r \in Requests : Told(r)
           \/ \E p \in Parcels : LienElsewhere(p) \/ LienEnds(p)
           \/ UNCHANGED webVars
  BY <1>1, <1>6, OthersDash
<1>7. QED
  BY <1>2, <1>3, <1>4, <1>5, <1>6 DEF WebNext

\* The dashboard shows the status of the connected wallet once it is idle, unless
\* a read failed, requests of the page overlapped, the wallet changed behind one,
\* or the answer to a post was lost.
THEOREM DashboardTellsProved == WebSpec => []DashboardTells
<1>1. WebInit => DashInv
  BY RequestsOfBags
     DEF WebInit, ConsentInit, WalletInit, DashboardInit, DashInv, OfDashboard, Counted,
         ShownRight, connected
<1>2. WebInv /\ DashInv /\ [WebNext]_webVars => DashInv'
  BY DashNextKeeps
<1>3. DashInv => DashboardTells
  BY DEF DashInv, ShownRight, DashboardTells
<1>4. QED
  BY <1>1, <1>2, <1>3, WebInvariant, PTL DEF WebSpec

=============================================================================
