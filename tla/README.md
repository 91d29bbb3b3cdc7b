# TerraLedger: TLA+ verification project

TerraLedger is a registry of farm land as collateral.  Three Solana programs
hold parcels, productivity certificates, a credit score and liens; a Go backend
indexes them in PostgreSQL, measures fields by satellite and scores them; a
keeper in the backend writes scores back to the chain; a web client and an SDK
drive both sides.  This directory models the parts whose correctness depends
on the order in which independent actors act.

## Inventory

| Component | State it keeps | Operations | Interacts with | What makes it hard | What makes it correct |
|---|---|---|---|---|---|
| `terra_token` program | one `ParcelConfig` account per parcel | register_parcel, mint_certificate, seasonal_check, verify_parcel, update_risk_assessment | CPI-called and read by `lien_registry`, read by `transfer_hook`, written by the keeper | long sequences of permissionless calls; saturating and checked counters; hysteresis of the risk flag | the flag follows the score history; the transfer guard moves only by a score or a check, and no check moves it within a season of a certificate |
| `lien_registry` program | one `EncumbranceAccount` per (parcel, lender), one `LienIndex` per parcel | register_encumbrance, release_encumbrance | CPI into `terra_token` | the guard reads a counter kept apart from the accounts; accounts are closed and recreated | no double pledge; counter = open accounts; a released parcel can be pledged again |
| `transfer_hook` program | none | execute | reads `ParcelConfig` | flags that moved since | the transfer guard |
| Lien index (REST, PostgreSQL) | tables `parcels`, `liens` | POST /parcels, POST /liens, POST /liens/:id/release, reads | web client, webhook | check, then insert; two writers | one active row per parcel; a row is released by its lender; every active row is explained by the chain |
| Helius webhook indexer | none of its own | POST /webhooks/helius | writes the lien index | late, repeated, reordered events; errors answered 200 | the index follows the chain |
| Web lien flows | one flow per tab | register (two variants), release | wallet, chain, REST | chain and REST are two calls; tabs close; confirmations time out | nothing is recorded that is not on chain |
| Phantom relay | in-memory sessions | createSession, Callback, Poll, cleanup | phone wallet, web client | no locks on a session; pooled request buffers | sessions are answered, and reclaimed |
| Phantom deeplink hook | status, interval, start time | connect, poll, time out | relay | intervals and answers that outlive their flow | a flow ends; connected means approved |
| Keeper bot | position in a tick, `agent_decisions` | tick: series, seasonal check, score, assessment, decision | chain (RPC), `certificates`, `credit_scores` | each call may fail or lie; the row it compares with has other writers | every parcel is reached; decisions match the chain |
| Credit profile | `inflight` map, cached scores | GET /parcels/:cadastral/profile, background computation | `certificates`, `credit_scores`, scorer | check-then-act on a shared row; goroutines; retries | one computation at a time; scores in range |
| Scorer | none | ComputeScore | language model | numbers of unknown range | scores the table and the program accept |
| Satellite series | `certificates` | FetchAndStoreSeries | Copernicus, keeper, profile | the provider fails or has nothing | stored series are what was returned |
| Consent and access log | `consents`, `consent_access_log` | grant, revoke, get, list; check and log of a profile | credit profile, dashboard, wizard | three reads of one row around an answer; queries that fail | no full profile after a revocation, no read unlogged |
| Consent dashboard | consent shown, loading flags | grant, revoke, reads | consent | reads that overlap, wallets that change | shows the status of the connected wallet |
| Wizard | reducer state, state of the mounted step | select, next, back, restart; the steps' requests and retries | REST, wallet, chain | answers to steps that were left; retries driven by answers | one assessment is about one parcel; waits end |
| Parcel page | what its two hooks hold | open, answers | REST | the parcel changes under the requests | shows the parcel in the URL; "Clean" means clean |
| Wallet button | extension's connection, localStorage | connect, switch, disconnect | every page | two sources of an address | |
| Account readers (SDK, and a copy in `web/`) | none | fetch one account, list a program's | RPC node | offsets computed by hand, filters by offset | they return what the programs stored |
| Instruction builders (SDK, and a copy in `web/`) | none | one per instruction, serialisation for the deeplink | programs | accounts by position and role | carried out unless the program refuses (two are not: see below) |
| Transaction errors | none | parseTransactionError | wallet, programs | numbers without their program, texts instead of numbers | the reason shown is the reason |
| Seeding script | the keys of one run | register, mint, pledge, each in a try | chain | repeated and killed runs, lost confirmations | a run without [ERR] has seeded |
| Reconciler | `processed_signatures` | tick | chain (RPC) | a window of 20 signatures | acts on nothing |
| API keys, certificates and decisions over REST | `lenders` | look-ups | | | read-only |
| Start-up, migrations, mocks, CI; other pages | | | | | wiring, presentation |

App.tsx routes the landing page, the wizard and the parcel page.
ConsentDashboard and LienManagement are in the repository but not routed; they
are modelled because only they revoke a consent and release a lien.

The hazards of this code, each at its line and with the properties that watch
it, are listed in `PROJECT.json`.

## Modules

```
TerraToken <- LienRegistry <- TerraLedger
                   |              (PledgeLock is what TerraLedger implements)
                   +- LienSync (BackendLiens as an instance; LienMirror is what
                                LienSync implements, over PledgeLock)
TerraToken <- ScoreStore <- Keeper, CreditProfile <- ScorePipeline
PhantomRelay <- PhantomConnect
TerraLedger <- AccountReaders <- WebReaders <- ClientInstructions
     <- TransactionErrors <- SeedScript <- ClientLedger
Consent <- WalletButton <- Wizard, ConsentDashboard, ParcelDetail <- WebApp
```

Each composed module `X` has its proofs in `X_proofs`; lemmas about what it
shares with others are in modules below it: `TerraToken_proofs` (the parcel
account under each instruction) is extended by `TerraLedger_proofs` and
`ScorePipeline_proofs`, `Consent_proofs` (requests as a bag, the tables, the
profile's handler) by `WebApp_proofs`, and `TerraLedger_proofs` by
`ClientLedger_proofs`; `LienSync_proofs` and `ScorePipeline_proofs` have it as an
instance, to cite what is proved of the ledger.

**On-chain ledger.**  `TerraToken` and `LienRegistry` have one action per
instruction.  A transaction is atomic, so each `require!`, account constraint
and checked operation of a handler is a conjunct, and a failing one is the
action not happening.  Accounts are functions whose domain is the set of PDAs
that exist.  `TerraLedger` lets every wallet send every instruction in any order
and `Tick` moves the clock.  `PledgeLock` is the abstract specification: a set
of (parcel, lender) pairs with at most one lender for each parcel;
`PledgeLockImplemented` maps it to the accounts whose status is active.

**Lien index.**  `BackendLiens` holds the statements the backend executes on
`parcels` and `liens`, with the foreign key of migration 003 and the unique
index of migration 015.  `LienSync` runs the browser flows, SDK users and
webhook deliveries against the same chain.  POST /liens is two actions, because
its check and its insert are two statements.  `deliveries` is a set: events
arrive in any order, and `Redeliver` processes one without removing it.
`LienMirror` is the abstract specification of an index beside a chain: pledges
under `PledgeLock`, a list of pairs that takes only pledges in force, one a
parcel, and announcements of ended pledges that are carried out at least once.
`IndexMirrorsChain` maps it to the accounts, the active rows and the release
events on their way.

**Phantom relay.**  `PhantomRelay` has the handlers of `phantom_handler.go`,
cut where another goroutine can get in between (`Callback`: load, fill, flag,
store; `Poll`: load, delete, respond).  `Reordered` lets the flag become
visible before the fields, `BuffersReused` lets a later request overwrite the
strings an earlier one left in a session.  `PhantomConnect` adds the tab of
`usePhantomDeeplink.ts` with its intervals and overlapping polls.

**Score pipeline.**  `ScoreStore` has what the keeper and the credit profile
share: the tables `certificates` and `credit_scores`, and the scorer.  `Keeper`
is the tick of `keeper.go`, one action per call that leaves the process;
`Faulty` lets the RPC node misreport what becomes of a transaction and the
insert of a decision fail.  `CreditProfile` has the requests and the background
goroutines.  The `inflight` map is the set of goroutine slots whose entry is
`stored`: its key is a string over a pooled buffer, so an entry is filed under
`parcel` and found only while it still reads so (`key`).  `ScorePipeline`
composes both with the chain and the farmers.

**Clients of the ledger.**  `AccountReaders` turns each account into the cells
Borsh writes (`ParcelConfigCells`), each at the offset where those before it
end, the string with its length in front, and reads it back at the offsets
`accounts.ts` computes, the filters of `getProgramAccounts` included;
`WebReaders` is the web application's copy.  `ClientInstructions` has the
builders, an instruction being its program, its accounts with their roles, and
its arguments; `Process` is what Anchor makes of one (positions, roles,
signatures, then the handler of `TerraToken` or `LienRegistry`).
`TransactionErrors` gives the first error a handler raises and the message
`parseTransactionError` shows for it.  `SeedScript` is `seed.ts`, run again and
again, each transaction confirmed, refused, lost or landing without an answer.
`ClientLedger` puts visitors beside it.

**Web application.**  `Consent` has the two tables, the requests under way
(`pending`, a bag shared by all pages: nothing else than a request's record says
how far its handler is) and the two steps of the profile's handler that read
`consents`.  `WalletButton` is the browser's wallet.  `Wizard` has the reducer,
and one `page` for the step that is mounted; a step that is left loses its page
(`MountedPage`) and its requests become `live = FALSE`, but their answers still
reach the reducer, as closures over `dispatch` do.  `ConsentDashboard` and
`ParcelDetail` are the two pages; `WebApp` composes all of it with lenders who
use the REST API themselves, and with liens that others register (`LienElsewhere`)
and release (`LienEnds`).  History variables (`strayed`, `outdated`,
`hopped`, `indexed`, `underLien`, and the last three fields of a request) are
read by properties only.

Mutants, the plausible bugs each property is confronted with, are defined just
before the definitions they replace and commented as such.

## Runs

| Run | Module, configuration | Shows |
|---|---|---|
| chain | MCTerraLedger, Chain | type invariant, risk flag, transfer guard, pledges, index and the refinement of `PledgeLock`, on one parcel (and one with too long a number, which is rejected) over two seasons, two wallets, every accepted and rejected argument |
| chain_flagged_pledge | MCTerraLedger, ChainFlaggedPledge | violation: a flagged parcel is pledged |
| sync_liens | MCLienSync, SyncLiens | two lenders, two liens one after the other, tabs closed anywhere, events late or repeated: rows are explained by the chain, entered only while their lien is held, and vanish after its release; accounts, rows and events implement `LienMirror`; a parcel's row gets its address if it is there when the event is processed |
| sync_anything | MCLienSync, SyncAnything | failing webhooks, SDK users, tabs that skip the chain: still one active row, released only by its lender; a parcel's address, once there, is its owner's for good |
| sync_late_release | MCLienSync, SyncLateRelease | violation: the late release event of one lien takes the row of the next |
| chain_dormancy | MCTerraLedger, ChainDormancy | violation: a parcel is counted dormant for a season that has not passed |
| phantom_safety | MCPhantomConnect, PhantomSafety | connected only after an approval; intervals and references agree; data races and reused buffers included |
| phantom_liveness | MCPhantomConnect, PhantomLiveness | with reused buffers: flows end, and in the end no session that can be found is left, nor one under an overwritten key unless a callback has answered it |
| score_audit | MCScorePipeline, ScoreAudit | decisions match the chain while others rewrite the same rows; scores in range whatever the model answers |
| keeper_reaches | MCScorePipeline, KeeperReaches | every addressed parcel is taken up again, whatever fails |
| clients | MCClientLedger, Clients | the readers return what is stored; lists agree with the index; listing by parcel works only before a parcel's first lien; a refused instruction's message names the reason, an instruction is refused only for one, and what is not refused is done, except by the builders of the mint and, without `MissingOptionals`, of the seasonal check; a clean run of the script has seeded; a seeded lien is never released |
| web | MCWebApp, Web | every known reader of a profile is in the log; no full profile without consent unless its query failed; dashboard, wizard and parcel page show what they should as long as answers do not cross; "Clean" is not shown on a parcel's page or summary for one that has been pledged since before, unless its liens were hidden or unread; what the wizard waits for, the wallet apart, ends |

### Bounds, and why they are enough

- *Chain*: both lenders' accounts of a parcel, and a u16 of 4, let an index be
  created, counted up to its limit and outlive every account.  MaxU8 = 3 is above
  the 2 dormant seasons the hook tolerates and lets the counter saturate.
  Parcels share no account, so one that can be registered is enough for TLC;
  the theorems cover any number.  Scores are taken on both sides of the
  thresholds 20 and 40.
- *Lien index*: a parcel can have one active lien at a time, so two lenders and
  MaxU16 = 2 give an old and a current lien, which is what a late event can
  confuse.  MaxRows bounds only the rows made without a transaction.
- *Phantom*: two flows of one tab are what a late answer can confuse; ages
  count up to one past the limit.  The safety run has two callbacks and one poll at
  a time (the theorems have any number), the liveness run one callback, two polls
  and `Lifetime = 0`: a session expires with the tick after the one that made it.
- *Score pipeline*: one parcel with a request and a goroutine that race the
  keeper; two parcels for the order of a tick; a season of 1 or 2 slots.  Readings
  and model answers are one that lowers the formula's score and one out of range
  in every number.

- *Clients*: two runs of the script, so that one meets what another left, over
  two parcels; a visitor who sends every instruction in anybody's name about one
  of them; two amounts and assessments on both sides of what the programs accept;
  two slots, so that a parcel's dates differ; MaxU8 = MaxU16 = 2, so that the
  counters fill up.  The last event is left out of the view: no instruction reads
  it and no property of the run is about it.

`MissingOptionals` is whether the Anchor build takes an optional account that is
left off the end as None (the feature `allow-missing-optionals`).  No Cargo.toml of
the repository enables it, so its build refuses every `seasonal_check` with two
accounts, which is what the SDK, the web application and the keeper send.  The
runs have it TRUE, so that the check may be carried out or refused: a superset of
what the repository's build does.  Every property of `clients` also holds with
FALSE, and the theorems are for either value.

- *Web application*: a behaviour plays one scene of `MCScenes`, so that pages
  which share nothing do not multiply.  The farmer's and the lender's path with a
  parcel that is registered and one that is not; the farmer's path or a lender's
  API key beside the dashboard; two wallets on the dashboard; two parcels on the
  parcel page, and a lender's path, while liens come and go. `requests` is the
  number of requests under way above which nobody starts another by a click
  (effects and what follows an answer are not held back), `changes` how often the
  wallet changes. One or two are enough for an answer to cross a click or another
  answer. LOG_LIMIT = 2 fills the log, MAX_RETRIES = 1 is a retry and its end.

### Fairness, and why the code justifies it

- `StaleRowsVanish`: weak fairness of processing one of the release events that
  wait for a parcel and a lender (Helius retries until answered).  No tab has to
  go on.
- `AddressArrives`: weak fairness of processing the registration event of a
  parcel, for the same reason.  Nobody has to post a row.
- `FlowEnds`, `SessionsReclaimed`: weak fairness of the clock, of the cleanup
  goroutine's ticker and of each browser interval while it lives.  Nobody has to
  scan or approve, and no poll has to be answered.  Buffers are reused, as Fiber
  does without `Immutable` (app.go:111).  A session put back under a key that is
  overwritten later is an orphan: no poll finds it and the cleanup, which asks the
  map to delete the key it has just read there, may miss it.  `SessionsReclaimed`
  therefore excepts orphans, and says that there are none but sessions that a
  callback has answered.  The run is without the data race (`Reordered = FALSE`):
  with it `FlowEnds` fails, since a poll that sees `Received` before the fields gets
  "connected" with nothing in it, for which the hook stops polling and sets no
  status.
- `KeeperReaches`: weak fairness of the keeper's step (a ticker, and HTTP calls
  that time out).  It needs `LIMIT` to cover the addressed parcels: the query has
  no ORDER BY and its condition never becomes false, so beyond 50 parcels nothing
  says which are taken.

- `WaitsEnd`: weak fairness of the backend's answer to some request of the mounted
  step (the browser gives up a dead connection, so an error is an answer), of the
  handler's step after its check, and of the retry effect.  Nobody has to click,
  on the page or in the wallet: `signAndSend` waits for the wallet without a limit
  (transaction.ts:196-236), so a registration of a parcel or a lien that is at the
  wallet (`AtWallet`) need not end and is not in `Waiting`; once it is confirmed,
  its POST is.  No lender's request or background computation has to come.

`AuditTrail` is checked with `Faulty = FALSE`, i.e. a signature means that the
transaction lands and the decision's insert succeeds.  Neither is confirmed by
the code, and without it the property fails.  In the repository's build the
keeper never gets as far as a score: its seasonal check is refused
(`MissingOptionals` above) and processParcel returns (keeper.go:114-116), so the
trail is of interest for a build that lets the check land.

## Where the code and its documentation part

- *A flagged parcel can be pledged*: register_encumbrance never reads
  `risk_flag`; README.md says of the CPI "not fraud-flagged".
- *A late release event releases the next lien's row*: the handler looks for
  the active lien of wallet and parcel, not for the lien.
- *Dormant without a season*: seasonal_check does not move its own timing guard,
  and registration sets it to 0, so checks repeated in one slot count as seasons
  and close the transfer hook at the third; seasonal_check.rs:23-25 says that
  "timing constraints prevent abuse", transaction.ts:14 "must wait 90 days".
  `TransferGuardMoves` is what the guard does give.

These three are shown by runs.  The following were met while modelling; the
models have them, and the properties are stated around them.

- Lien index: the webhook inserts liens without a `parcel_id`
  (webhook_handler.go:226), so a lien registered outside the web client never
  gets a row.  A ParcelRegistered event that overtakes POST /parcels is lost.  What
  the event brings as `on_chain_address` is the owner's wallet
  (webhook_handler.go:154), while parcel_handler.go:108 fetches the account at that
  address as the parcel's.
  An on-chain release that fails is ignored and the row released
  (LienManagement.tsx:141), and the message shown after it is about an earlier request (148).
- Phantom relay: the map's keys are strings over reused buffers
  (phantom_handler.go:109), so a session may stay for ever although the comment at
  39 says that expired ones are removed.
- Credit profile: the key of `inflight` is a string over a buffer of a request
  that is over (credit_handler.go:258), so the same computation may run twice
  although 256 says it does not.  A profile without certificates stays
  "computing" when the satellite returns nothing.  The keeper and the API score
  the same parcel from different inputs.  A score may be an hour old.
- Consent: any error of the query counts as consent (credit_handler.go:83).  A
  wallet without a row is never logged, though ConsentDashboard.tsx:220 says
  that "each request will appear here", and such a wallet cannot revoke (404).  The web
  application's own requests are logged as its API key's lender.
  Lines 141 and 157 drop the error of the query for the liens, and a masked
  profile lists none: both show as "Clean".  A masked owner shorter than 8
  characters is a panic of the handler.  The comment at router.go:71 says that no lender key is
  needed where the group's middleware asks for one.  The dashboard calls consent
  "stored on-chain" (124); it is a row.
- Dashboard: overlapping reads end with the answer that came last, for whichever
  wallet, and Revoke is offered for it; a failed read shows "Pending".
- Wizard: an error of the first profile request leaves CreditScoreStep on its
  spinner for ever, one of SummaryStep's leaves an empty page; three answers
  without a score lead to a gauge of 0.  Back is not disabled during a registration, whose end then
  moves a wizard that is elsewhere; so do a second search and the satellite's
  timer.  The automatic grant may arrive after a revocation.  "Already registered" is
  looked for in texts that parseTransactionError has replaced, so the way to the
  summary is never taken.  A stored deeplink wallet advances the first step at
  once, so Back bounces.  SatelliteStep shows 0.72 when the satellite does not answer and
  announces a certificate nobody minted.  RegisterLienStep announces a lien whose
  POST /liens failed, and without the extension sends no transaction at all.
- Parcel page: the last parcel's index stays when the request for the next fails.
- Clients: `fetchEncumbrancesByParcel` throws from a parcel's first lien on, since
  its filter also matches the lien index; an RPC error reads as an empty list. The
  mint builders give two of eight accounts and are always refused; the seasonal-
  check builders, and the keeper, leave out the optional lien index and are
  refused by a build without allow-missing-optionals, such as the repository's.
  Errors of terra_token are read as the lien registry's when only a number
  arrives. The script never stores its lender's key, so its lien cannot be
  released, and it prints fixed counts whatever happened.
- Keeper and relay: the keeper stores a score before it sends it and compares the
  next with the stored one (keeper.go:118-167), so a score that the chain has refused
  counts as sent.  The relay signs as mint_authority, which is the owner's key;
  the assessment waits for a seasonal check that a fresh certificate forbids.
  An approval on a second scan after a denial is reported as the denial.

## Proofs

`TerraLedger_proofs` proves, for any sets of parcels, wallets and arguments, any
season length and any counter widths (assumptions `TerraTokenAssumption` and
`LienRegistryAssumption`):

- `TypeCorrect`: `TypeOK`, by one lemma per instruction.
- `LienInvariant`: the inductive invariant `LienInv`.  Neither `NoDoublePledge`
  nor the cardinality form `IndexCountsEncumbrances` is inductive: a step from a
  state with two open accounts and a counter of 1 may lead anywhere.  `LienInv`
  says that per parcel the counter is 0 and no account is open, or it is 1 and
  exactly one is.  Registration needs 0 and leads to 1; release needs an account,
  hence 1, and leads to 0.  It needs `TypeOK` for the counters.
- `DoublePledgePrevented`, `IndexIsExact`: consequences of `LienInv`.
- `RegistryImplementsLock`: initial states map to the empty lock, and each step
  to a pledge, a release or a stutter, with `LienInv` supplying that a parcel
  whose counter is 0 is free.
- `FreeParcelIsFree`: `FreeParcelCanBePledged`.  Whether a lender may register is
  the conjunction `RegisterAllowed`, the guard of the action, so no ENABLED is
  needed.  `LienInv` gives that a parcel without an open lien has no account of
  any lender, hence `init` succeeds, and a counter of 0; `ParcelsVerified`, that no
  instruction takes back what registration verified.
- `FlagConsistent`: `FlagFollowsScore`, inductive together with `TypeOK`.
- `HistoryNeverForgotten`: `HistoryKept`.  Needs `LienInv`: the release subtracts
  with saturation, and only because the counter is 1 whenever an account is open
  does it fall by exactly the one account that closes.
- `TransferGuardHolds`: `TransferGuardMoves`, one case per instruction that writes
  the parcel account.  That a reopening check is a season after the latest
  certificate needs an invariant beside `TypeOK`: certificates of the season are
  counted among all (`CertsCounted`, kept by `CertsCountedStep`), so that a parcel
  with any has had one and its timing guard is armed.

In `LienSync_proofs`, about `LienSync!Spec`, from `LienSyncAssumption` (each
client has a wallet and a name) and the ledger's assumptions:

- `SyncInvariant`: the inductive invariant `SyncInv`.  That a parcel has one active
  row is kept by the unique index alone, whatever the check of POST /liens saw;
  what must be added is that rows are rows, that a tab about to insert knows its
  parcel, and that every event on its way names a parcel and a lender, else the
  insert of the webhook would be of anything.
- `OneActiveRowProved`: `OneActiveRowPerParcel`, the cardinality form of it.
- `ReleasedByItsLenderProved`: `ReleasedByItsLender`, from what the two statements
  that write the table do to each row (`CreateKeeps`, `ReleaseKeeps`).
- `IndexInvariant`, `ActiveRowExplainedProved`, `RowsBackedProved`:
  `ActiveRowExplained` and `RowsBackedWhenInserted`, under the hypothesis
  `TabOwnsWallet`.  Neither is inductive: while a tab is between its transaction
  and its insert, nothing in the table says that its wallet holds the parcel.
  `TabHolds` adds it, and it stays true because only the tab's own wallet could
  release, and the tab is busy.  The hypothesis is what that needs: one tab per
  wallet, a wallet that is not also used through the SDK, no tab that skips the
  transaction, and events that are carried out.  It is the instance
  `sync_liens` checks; the code guarantees none of it, and without it the two
  properties are false (`sync_anything` therefore checks only the two above).
- `IndexIsAMirror`: `IndexMirrorsChain`, under the same hypothesis, with both
  invariants of the index and `LienInv`.  An insert is a listing because the tab
  still holds the parcel and the unique index has refused a second active row;
  POST release is its lender's unlisting; the release event is the announcement,
  made in the transaction that ends the pledge and carried out by each delivery,
  whatever row the wallet has by then.  All else, checks and closed tabs
  included, leaves the three sets alone (`ShownFrame`, `FlyingFrame`).
- `AddressSettledProved`: `AddressSettled`, for any tabs and failures, without the
  hypothesis.  `AddressInv` adds to it that every registration event in flight
  names the owner of the account; a step lets accounts and events only grow
  (`Grows`) and gives a row at most what such an event brings (`Brings`).
- `SyncUsesTheLedger`, `SyncNeverDoublePledges`: every step of the two records
  together is a step of `TerraLedger` or leaves the chain alone, so all that is
  proved of the ledger holds under the index too, however far it has drifted.

In `PhantomConnect_proofs`, about the relay with its tab, for any sessions:

- `PhantomInvariant`: the inductive invariant `PhantomInv`, which is `TypeOK`
  (already relational: whose code was on the screen, which interval the tab's
  reference may name) and what links a poll's answer to the stored session and
  that to the callbacks of Phantom.
- `PhantomTypeCorrect`, `ConnectedIsApprovedProved`: `TypeOK` and
  `ConnectedIsApproved`, from it.

In `ScorePipeline_proofs`, for any series, any answers of the language model, any
requests and goroutines:

- `ScoreTypesInvariant`, `ScoreTypeCorrect`: `TypeOK`.  The lemmas that carry it
  are about the scorer: the formula's points and the model's numbers are clamped
  (`ComputeScoreType`), and what the keeper holds when it sends is a score.
- `AuditTrailProved`: `~Faulty /\ Spec => []AuditTrail`.  The invariant `AuditInv`
  says where the keeper is: as long as it is to record, what it holds is what
  the chain has, and for all other parcels the newest decision is.  It is false
  when the node misreports a transaction or an insert fails, which the code does
  not rule out: the hypothesis is that neither happens.
- `ScoresUseTheLedger`, `FlagFollowsEveryScore`: everything that reaches the chain
  is a step of `TerraLedger` under any assessment of the argument types, `Faulty`
  or not, so the risk flag follows the score in the whole pipeline.

In `ClientLedger_proofs`, for any visitors, any parcels of the script and any number
of its runs:

- `ClientsUseTheLedger`: `ClientSpec => Spec`.  One lemma per builder says that the
  instruction it builds, wrong accounts included, is taken by `Process` for one
  instruction of the programs or none; Phantom's serialisation changes no
  argument and no signer.  So every theorem about the ledger holds of the ledger
  the clients use; `ClientsNeverDoublePledge` is `NoDoublePledge` among them.
- `ScriptTypeCorrect`: the script knows where it is in its data.
- `LostKeyLocksParcelProved`: `LostKeyLocksParcel`.  The key of a seeded lien is not
  among those that can sign any more, and only it may release.
- `CleanRunSeedsProved`: `CleanRunSeeds`, with the invariant `CleanSoFar`: a run
  without an error so far has got done all that lies behind it, for no
  instruction of anybody undoes it.  Both use that each run draws lender keys of its
  own (the assumptions on `LenderKeys`; `seed.ts` generates them).
- `ReadersSeeTheLedgerProved`: `ReadersSeeTheLedger`.  Where cells begin and where
  fields are read are two recursive functions, one over what the program writes
  and one over what the decoder expects.  The library's induction rules cannot be
  used, so induction over positions is derived from the least element of a set of
  numbers (`LeastElement`, `InductionUpTo`); with it, the ends of the cells exist,
  are unique and grow (`EndsExist`, `BytesAre`, `EndsGrow`), so a cell is found by
  who asks at its begin for its width (`CellRead`).  `LaidOut` says when a layout
  fits an account, the length prefix of the cadastral number included, and
  `ReadAsWritten` that it then reads every field as written; the three layouts fit
  (`ParcelLaidOut`, `EncumbranceLaidOut`, `LienIndexLaidOut`), and the web
  application's are equal to the SDK's (`WebDecodersSame`).  One more invariant of
  the ledger is needed: an encumbrance carries the lender of its seeds.
- `ListedAsIndexedProved`: `ListedAsIndexed`, from what the filters find (`Found`)
  and `LienInv`.
- `ByParcelOnlyBeforeFirstLienProved`: `ByParcelOnlyBeforeFirstLien`.  The filter on
  the parcel finds its index too, which ends before the lender of an encumbrance
  would (`IndexTooShort`); before the first lien there is no index and, by
  `LienInv`, no encumbrance.
  The last three rest on `AccountReadersAssumption`: the answers that are no account
  (`null`, an exception) are not mistaken for one.
- `RefusalsExplainedProved`: `RefusalsExplained`.  That an error is one the table
  knows, under its number or its text, is `NamedRefusal` and `NumberedRefusal`,
  for any ledger.  That there is an error exactly when a condition fails needs the
  ledger to be one the clients can reach: the program has no error for a counter
  past its limit or for an account without an index, and none is needed because
  of `TypeOK`, `LienInv` and the lender of the seeds.
- `BuildersReachTheHandlers`: for any wallet, parcel and arguments, what a builder
  makes, signed by its wallet, is carried out exactly when the handler may be,
  with those arguments; the deeplink's serialisation is the identity on it
  (`SerializedSame`); the seasonal check only with `MissingOptionals`, and the mint
  that both copies build never.

In `WebApp_proofs`, for any wallets, parcels, lenders, log limit and any number of
requests under way:

- `WebInvariant`: the inductive invariant `WebInv`.  Of consent it says what each
  request under way may have found, given what has happened since it was sent
  (`RequestOK`, `ProfileOK`), of the wizard which requests and which page a step
  may have (`OnScreen`, `PageOK`) and, as long as no late answer has strayed, that
  all of it is about one parcel (`PathOK`), of the parcel page the same with
  `hopped` for `strayed`.
- `MaskedUnlessReadFailedProved`, `EveryReadAppearsProved`,
  `AssessmentCoherentProved`, `CleanBadgeProved`, `DetailCoherentProved`: the five
  properties that follow from it.
- `DashboardTellsProved`: `DashboardTells`, with the invariant `DashInv`: each of
  the dashboard's two spinners has a request under way, and unless requests have
  overlapped there is one at most, whose answer will show what the table holds.
  `pending` is a bag, so it needs the counts of the elements too (`Counted`).

The assumptions are those of the modules, each checked by TLC on the runs'
constants.  `ConsentAssumption` asks that the values used as marks (`None`, the
statuses, the names of the three tabs) are not wallets, parcels or lenders.

Only model-checked: liveness (`StaleRowsVanish`, `AddressArrives`, `KeeperReaches`, `FlowEnds`,
`SessionsReclaimed`, `WaitsEnd`), for which TLAPS has no rules here, and
`DoneUnlessRefused`, which is about ENABLED: `RefusalsExplained` and
`BuildersReachTheHandlers` are the parts of it that can be proved.

## Not modelled

Token-2022 calls of mint_certificate beyond success or abort; the bytes of
numbers and keys, base58 and base64; wording, charts, maps and form validation;
the landing page, FarmerPortal, LenderDashboard and MapView; leaving or reloading the wizard's page,
and StrictMode's second effects; PDA derivation (a seed names its account); the
Copernicus client and the arithmetic of the indices; API-key look-ups; the
reconciler, which acts on nothing; how a row in `liens` comes about inside `WebApp`,
where it just comes and goes (`LienSync` has it); an exception of `fetch` itself in
the functions that list accounts; a keeper without a relay key, which ends in a nil
dereference (`k.relayKey.PublicKey()`); the wording of a panic's message and which
of the two texts error 0 gets.

## Plan

1. Done: on-chain ledger with its proofs; lien index; Phantom relay; score
   pipeline; the clients' readers, builders, errors and script; consent, the
   wizard and the pages.
2. Next: leaving and reloading the wizard's page; the decryption and signing half
   of the deeplink hook.
3. Abstract specifications: `PledgeLock` and `LienMirror` are stated and
   implemented.  Worth stating: a consent register in which check and log are one
   step, implemented by `Consent` for owners who have a row.
4. Theorems next: the refinement of 3, step by step, and the invariants of what 2
   adds.
