---------------------------- MODULE LienSync_proofs ----------------------------
(***************************************************************************)
(* Proofs about the lien index, for any tabs, wallets, lenders and         *)
(* parcels, any deliveries and failures.                                   *)
(***************************************************************************)
EXTENDS LienSync, FiniteSetTheorems, TLAPS

\* An event of the registry names a parcel and a wallet.
WellFormed(e) ==
    e.type \in {"EncumbranceRegistered", "EncumbranceReleased"} =>
        e.parcel \in Parcels /\ e.lender \in Wallets

\* Rows are typed, a tab that is about to insert knows its parcel, and events
\* name what the webhook looks for.
SyncTypeOK ==
    /\ liens \in Seq(DB!LienRow)
    /\ client \in [Clients -> Client]
    /\ \A c \in Clients :
         client[c].pc \in {"check", "insert"} => client[c].parcel \in Parcels
    /\ \A d \in deliveries : WellFormed(d.event)

\* Two active rows of one parcel are the same row.
OneActiveRow ==
    \A i, j \in DOMAIN liens :
        /\ liens[i].status = "active"
        /\ liens[j].status = "active"
        /\ liens[i].cadastral_number = liens[j].cadastral_number
        => i = j

\* ReleasedByItsLender of one row: who may release it.
RowReleased(i) ==
    \/ \E c \in Clients : /\ client[c].pc = "release"
                          /\ client[c].row = i
                          /\ NameOf[c] = liens[i].lender_name
    \/ ReleaseInFlight(liens[i].cadastral_number, liens[i].lender_wallet)

\* What a step does to the rows: every row stays, is only ever released, and by
\* someone entitled to it.
Released ==
    \A i \in DOMAIN liens :
        liens[i].status = "active" /\ liens'[i].status = "released" => RowReleased(i)

\* The part of the invariant that only the writes of the table disturb.
RowsOK == liens \in Seq(DB!LienRow) /\ OneActiveRow

-----------------------------------------------------------------------------
(* The two statements that write the table *)

\* The unique index refuses a second active row.
LEMMA CreateKeeps ==
    ASSUME RowsOK, NEW row \in DB!LienRow, row.status = "active", DB!Create(row)
    PROVE  RowsOK' /\ \A i \in DOMAIN liens : liens'[i] = liens[i]
<1>1. /\ liens' = Append(liens, row)
      /\ liens' \in Seq(DB!LienRow)
      /\ DOMAIN liens = 1 .. Len(liens)
      /\ DOMAIN liens' = 1 .. Len(liens) + 1
      /\ Len(liens) \in Nat
  BY DEF DB!Create, RowsOK
<1>2. /\ \A i \in DOMAIN liens : liens'[i] = liens[i]
      /\ liens'[Len(liens) + 1] = row
  BY <1>1 DEF RowsOK
<1>3. \A i \in DOMAIN liens :
        liens[i].status = "active" => liens[i].cadastral_number # row.cadastral_number
  BY DEF DB!Create, DB!Insertable, DB!GetActive
<1>4. OneActiveRow'
  <2> SUFFICES ASSUME NEW i \in DOMAIN liens', NEW j \in DOMAIN liens',
                      liens'[i].status = "active", liens'[j].status = "active",
                      liens'[i].cadastral_number = liens'[j].cadastral_number
               PROVE  i = j
    BY DEF OneActiveRow
  <2>1. \A k \in DOMAIN liens' : k \in DOMAIN liens \/ k = Len(liens) + 1
    BY <1>1
  <2>2. CASE i \in DOMAIN liens /\ j \in DOMAIN liens
    BY <1>2, <2>2 DEF RowsOK, OneActiveRow
  <2>3. CASE i = Len(liens) + 1 /\ j \in DOMAIN liens
    BY <1>2, <1>3, <2>3
  <2>4. CASE j = Len(liens) + 1 /\ i \in DOMAIN liens
    BY <1>2, <1>3, <2>4
  <2>5. QED
    BY <2>1, <2>2, <2>3, <2>4
<1>5. QED
  BY <1>1, <1>2, <1>4 DEF RowsOK

\* A release ends one row and leaves the others.
LEMMA ReleaseKeeps ==
    ASSUME RowsOK, NEW i, DB!Release(i)
    PROVE  /\ RowsOK'
           /\ i \in DOMAIN liens
           /\ \A j \in DOMAIN liens : j # i => liens'[j] = liens[j]
<1>1. /\ i \in DOMAIN liens
      /\ liens' = [liens EXCEPT ![i].status = "released"]
      /\ liens[i] \in DB!LienRow
  BY DEF DB!Release, RowsOK
<1>2. [liens[i] EXCEPT !.status = "released"] \in DB!LienRow
  BY <1>1 DEF DB!LienRow
<1>3. liens' \in Seq(DB!LienRow)
  BY <1>1, <1>2 DEF RowsOK
<1>4. /\ DOMAIN liens' = DOMAIN liens
      /\ \A j \in DOMAIN liens : j # i => liens'[j] = liens[j]
      /\ liens'[i].status = "released"
  BY <1>1 DEF DB!LienRow
<1>5. OneActiveRow'
  BY <1>4 DEF RowsOK, OneActiveRow
<1>6. QED
  BY <1>1, <1>3, <1>4, <1>5 DEF RowsOK

-----------------------------------------------------------------------------
(* The actions *)

\* A step that leaves the table alone releases nothing.
LEMMA RowsFrame ==
    ASSUME RowsOK, UNCHANGED liens
    PROVE  RowsOK' /\ Released
<1>1. RowsOK'
  BY DEF RowsOK, OneActiveRow
<1>2. Released
  BY DEF Released
<1>3. QED
  BY <1>1, <1>2

\* The insert of POST /liens, which may be refused.
LEMMA InsertRows ==
    ASSUME SyncTypeOK, RowsOK, NEW c \in Clients, InsertLien(c)
    PROVE  RowsOK' /\ Released
<1> DEFINE p == client[c].parcel
           row == DB!NewRow(p, p, WalletOf[c], NameOf[c])
<1>1. CASE DB!Create(row)
  <2>1. row \in DB!LienRow /\ row.status = "active"
    BY LienSyncAssumption DEF SyncTypeOK, InsertLien, DB!NewRow, DB!LienRow
  <2>2. RowsOK' /\ \A i \in DOMAIN liens : liens'[i] = liens[i]
    BY <1>1, <2>1, CreateKeeps
  <2>3. QED
    BY <2>2 DEF Released
<1>2. CASE UNCHANGED storeVars
  BY <1>2, RowsFrame DEF storeVars
<1>3. QED
  BY <1>1, <1>2 DEF InsertLien

\* POST /liens/:id/release, which looks at the lender's name.
LEMMA PostReleaseRows ==
    ASSUME SyncTypeOK, RowsOK, NEW c \in Clients, PostRelease(c)
    PROVE  RowsOK' /\ Released
<1>1. CASE DB!ReleaseLien(client[c].row, NameOf[c])
  <2> DEFINE i == client[c].row
  <2>1. /\ RowsOK' /\ i \in DOMAIN liens
        /\ \A j \in DOMAIN liens : j # i => liens'[j] = liens[j]
    BY <1>1, ReleaseKeeps DEF DB!ReleaseLien
  <2>2. RowReleased(i)
    BY <1>1 DEF RowReleased, PostRelease, DB!ReleaseLien
  <2>3. QED
    BY <2>1, <2>2 DEF Released
<1>2. CASE UNCHANGED storeVars
  BY <1>2, RowsFrame DEF storeVars
<1>3. QED
  BY <1>1, <1>2 DEF PostRelease

\* The webhook, whose handlers may fail at any statement.
LEMMA EventRows ==
    ASSUME SyncTypeOK, RowsOK, NEW d \in deliveries, RouteEvent(d.event)
    PROVE  RowsOK' /\ Released
<1> DEFINE e == d.event
<1>1. CASE DB!UpdateOnChainAddress(e.parcel, e.owner)
  BY <1>1, RowsFrame DEF DB!UpdateOnChainAddress
<1>2. CASE e.type = "EncumbranceRegistered" /\ DB!HandleEncumbranceRegistered(e.parcel, e.lender)
  <2> DEFINE row == DB!NewRow(Nil, e.parcel, e.lender, Nil)
  <2>1. CASE DB!Create(row)
    <3>1. row \in DB!LienRow /\ row.status = "active"
      BY <1>2 DEF SyncTypeOK, WellFormed, DB!NewRow, DB!LienRow
    <3>2. RowsOK' /\ \A i \in DOMAIN liens : liens'[i] = liens[i]
      BY <2>1, <3>1, CreateKeeps
    <3>3. QED
      BY <3>2 DEF Released
  <2>2. CASE UNCHANGED liens
    BY <2>2, RowsFrame
  <2>3. QED
    BY <1>2, <2>1, <2>2 DEF DB!HandleEncumbranceRegistered
<1>3. CASE e.type = "EncumbranceReleased" /\ DB!HandleEncumbranceReleased(e.parcel, e.lender)
  <2>1. ASSUME NEW i \in DB!FindByWalletAndCadastral(e.lender, e.parcel), DB!Release(i)
        PROVE  RowsOK' /\ Released
    <3>1. /\ RowsOK' /\ i \in DOMAIN liens
          /\ \A j \in DOMAIN liens : j # i => liens'[j] = liens[j]
      BY <2>1, ReleaseKeeps
    <3>2. /\ liens[i].cadastral_number = e.parcel
          /\ liens[i].lender_wallet = e.lender
      BY DEF DB!FindByWalletAndCadastral, DB!GetActive
    <3>3. RowReleased(i)
      BY <1>3, <3>2 DEF RowReleased, ReleaseInFlight
    <3>4. QED
      BY <3>1, <3>3 DEF Released
  <2>2. CASE UNCHANGED liens
    BY <2>2, RowsFrame
  <2>3. QED
    BY <1>3, <2>1, <2>2 DEF DB!HandleEncumbranceReleased
<1>4. QED
  BY <1>1, <1>2, <1>3 DEF RouteEvent

\* Every step keeps the rows, and ends a row only where it may.
LEMMA RowsStep ==
    SyncTypeOK /\ RowsOK /\ [Next]_vars => RowsOK' /\ [Released]_vars
<1> SUFFICES ASSUME SyncTypeOK, RowsOK, [Next]_vars PROVE RowsOK' /\ Released
  OBVIOUS
<1>1. CASE \E c \in Clients : InsertLien(c)
  BY <1>1, InsertRows
<1>2. CASE \E c \in Clients : PostRelease(c)
  BY <1>2, PostReleaseRows
<1>3. CASE Webhook
  <2>1. PICK d \in deliveries : RouteEvent(d.event) \/ UNCHANGED storeVars
    BY <1>3 DEF Webhook, Deliver, Redeliver
  <2>2. QED
    BY <2>1, EventRows, RowsFrame DEF storeVars
<1>4. CASE UNCHANGED liens
  BY <1>4, RowsFrame
<1>5. QED
  BY <1>1, <1>2, <1>3, <1>4
     DEF Next, RegisterOnChain, DirectLien, PostParcel, DB!RegisterParcelRow, ClientStep,
         Submit, SubmitByDeeplink, CheckLien, SendRelease, vars, storeVars

-----------------------------------------------------------------------------
(* Types *)

\* What joins the deliveries is the event of the transaction.
LEMMA EmitType ==
    ASSUME SyncTypeOK, Emit, WellFormed(event')
    PROVE  \A d \in deliveries' : WellFormed(d.event)
BY DEF SyncTypeOK, Emit

\* The event of a registration names the parcel and the lender.
LEMMA RegistrationEvent ==
    ASSUME NEW l \in Wallets, NEW p \in Parcels, NEW amount,
           RegisterEncumbrance(l, p, amount)
    PROVE  WellFormed(event')
BY DEF RegisterEncumbrance, RegisterAllowed, WellFormed

\* So does the event of a release.
LEMMA ReleaseEvent ==
    ASSUME NEW l \in Wallets, NEW p \in Parcels, ReleaseEncumbrance(l, p)
    PROVE  WellFormed(event')
BY DEF ReleaseEncumbrance, ReleaseAllowed, WellFormed

\* The event of a parcel is none of the lien events.
LEMMA ParcelEvent ==
    ASSUME NEW w, NEW p, NEW survey, RegisterParcel(w, p, survey)
    PROVE  WellFormed(event')
BY DEF RegisterParcel, WellFormed

\* What a tab may become.
Tab(f) ==
    /\ f \in [Clients -> Client]
    /\ \A c \in Clients : f[c].pc \in {"check", "insert"} => f[c].parcel \in Parcels

\* Each assignment to a tab keeps it one.
LEMMA TabType ==
    ASSUME Tab(client), NEW c \in Clients
    PROVE  /\ Tab([client EXCEPT ![c] = Idle])
           /\ \A p \in Parcels :
                Tab([client EXCEPT ![c] = [Idle EXCEPT !.pc = "check", !.parcel = p]])
           /\ client[c].pc = "check" => Tab([client EXCEPT ![c].pc = "insert"])
           /\ \A i \in Nat :
                Tab([client EXCEPT ![c] = [Idle EXCEPT !.pc = "release", !.row = i]])
<1>1. Idle = [pc |-> "idle", parcel |-> Nil, row |-> 0]
  BY DEF Idle
<1>2. Idle \in Client
  BY DEF Idle, Client
<1>3. Tab([client EXCEPT ![c] = Idle])
  BY <1>1, <1>2 DEF Tab
<1>4. \A p \in Parcels :
        Tab([client EXCEPT ![c] = [Idle EXCEPT !.pc = "check", !.parcel = p]])
  BY <1>1 DEF Tab, Client
<1>5. client[c].pc = "check" => Tab([client EXCEPT ![c].pc = "insert"])
  BY DEF Tab, Client
<1>6. \A i \in Nat : Tab([client EXCEPT ![c] = [Idle EXCEPT !.pc = "release", !.row = i]])
  BY <1>1 DEF Tab, Client
<1>7. QED
  BY <1>3, <1>4, <1>5, <1>6

\* Every step leaves every tab one that its next statement can use.
LEMMA TabStep ==
    ASSUME SyncTypeOK, [Next]_vars
    PROVE  Tab(client)'
<1>0. Tab(client)
  BY DEF SyncTypeOK, Tab
<1>1. ASSUME NEW c \in Clients, NEW p \in Parcels, Submit(c, p) \/ SubmitByDeeplink(c, p)
      PROVE  Tab(client)'
  BY <1>0, <1>1, TabType DEF Submit, SendRegistration, SubmitByDeeplink
<1>2. ASSUME NEW c \in Clients, CheckLien(c)
      PROVE  Tab(client)'
  BY <1>0, <1>2, TabType DEF CheckLien, FlowOver
<1>3. ASSUME NEW c \in Clients, InsertLien(c) \/ PostRelease(c)
      PROVE  Tab(client)'
  BY <1>0, <1>3, TabType DEF InsertLien, PostRelease, FlowOver
<1>4. ASSUME NEW c \in Clients, NEW i \in {0} \cup DOMAIN liens, SendRelease(c, i)
      PROVE  Tab(client)'
  <2>1. i \in Nat
    BY DEF SyncTypeOK
  <2>2. QED
    BY <1>0, <1>4, <2>1, TabType DEF SendRelease
<1>5. CASE UNCHANGED client
  BY <1>0, <1>5 DEF Tab
<1>6. QED
  BY <1>1, <1>2, <1>3, <1>4, <1>5
     DEF Next, RegisterOnChain, DirectLien, PostParcel, ClientStep, Webhook, Deliver,
         Redeliver, vars

\* Whatever is delivered, or delivered again, names its parcel and its lender.
LEMMA DeliveriesStep ==
    ASSUME SyncTypeOK, [Next]_vars
    PROVE  \A d \in deliveries' : WellFormed(d.event)
<1>1. ASSUME NEW p \in Parcels, NEW w \in Wallets, RegisterOnChain(w, p)
      PROVE  \A d \in deliveries' : WellFormed(d.event)
  BY <1>1, EmitType, ParcelEvent DEF RegisterOnChain
<1>2. ASSUME NEW p \in Parcels, NEW w \in Wallets, DirectLien(w, p)
      PROVE  \A d \in deliveries' : WellFormed(d.event)
  BY <1>2, EmitType, RegistrationEvent, ReleaseEvent DEF DirectLien
<1>3. ASSUME NEW c \in Clients, NEW p \in Parcels, Submit(c, p)
      PROVE  \A d \in deliveries' : WellFormed(d.event)
  <2>1. WalletOf[c] \in Wallets
    BY LienSyncAssumption
  <2>2. QED
    BY <1>3, <2>1, EmitType, RegistrationEvent DEF Submit, SendRegistration
<1>4. ASSUME NEW c \in Clients, NEW i, SendRelease(c, i)
      PROVE  \A d \in deliveries' : WellFormed(d.event)
  <2>1. WalletOf[c] \in Wallets
    BY LienSyncAssumption
  <2>2. CASE UNCHANGED <<chainVars, deliveries>>
    BY <2>2 DEF SyncTypeOK
  <2>3. ASSUME NEW q \in Parcels, ReleaseEncumbrance(WalletOf[c], q), Emit
        PROVE  \A d \in deliveries' : WellFormed(d.event)
    BY <2>1, <2>3, EmitType, ReleaseEvent
  <2>4. QED
    BY <1>4, <2>2, <2>3 DEF SendRelease
<1>5. CASE deliveries' \subseteq deliveries
  BY <1>5 DEF SyncTypeOK
<1>6. QED
  BY <1>1, <1>2, <1>3, <1>4, <1>5
     DEF Next, PostParcel, ClientStep, SubmitByDeeplink, CheckLien, InsertLien,
         PostRelease, Webhook, Deliver, Redeliver, vars

-----------------------------------------------------------------------------
(* The theorems *)

\* The inductive invariant.
SyncInv == SyncTypeOK /\ RowsOK

\* The invariant is inductive.
LEMMA SyncStep == SyncInv /\ [Next]_vars => SyncInv' /\ [Released]_vars
<1> SUFFICES ASSUME SyncInv, [Next]_vars PROVE SyncInv' /\ [Released]_vars
  OBVIOUS
<1>1. RowsOK' /\ [Released]_vars
  BY RowsStep DEF SyncInv
<1>2. SyncTypeOK'
  BY <1>1, TabStep, DeliveriesStep DEF SyncInv, SyncTypeOK, RowsOK, Tab
<1>3. QED
  BY <1>1, <1>2 DEF SyncInv

\* It holds of the empty table.
LEMMA SyncInit == Init => SyncInv
<1> SUFFICES ASSUME Init PROVE SyncInv
  OBVIOUS
<1>1. liens = <<>> /\ liens \in Seq(DB!LienRow) /\ DOMAIN liens = {}
  BY DEF Init, DB!StoreInit
<1>2. client \in [Clients -> Client] /\ \A c \in Clients : client[c].pc = "idle"
  BY DEF Init, Idle, Client
<1>3. QED
  BY <1>1, <1>2 DEF Init, SyncInv, SyncTypeOK, RowsOK, OneActiveRow

\* The rows, the tabs and the events in flight are as the handlers expect them.
THEOREM SyncInvariant == Spec => []SyncInv
  BY SyncInit, SyncStep, PTL DEF Spec

\* A parcel never has two active rows, however many tabs pass the check of
\* POST /liens together and whatever the webhook does.
THEOREM OneActiveRowProved == Spec => []OneActiveRowPerParcel
<1>1. SyncInv => OneActiveRowPerParcel
  <2> SUFFICES ASSUME SyncInv, NEW p \in Parcels
               PROVE  Cardinality(DB!GetActive(p)) <= 1
    BY DEF OneActiveRowPerParcel
  <2>1. \A i, j \in DB!GetActive(p) : i = j
    BY DEF SyncInv, RowsOK, OneActiveRow, DB!GetActive
  <2>2. CASE DB!GetActive(p) = {}
    <3>1. Cardinality(DB!GetActive(p)) = 0
      BY <2>2, FS_EmptySet
    <3>2. QED
      BY <3>1
  <2>3. CASE DB!GetActive(p) # {}
    <3>1. PICK i : DB!GetActive(p) = {i}
      BY <2>1, <2>3
    <3>2. Cardinality(DB!GetActive(p)) = 1
      BY <3>1, FS_Singleton
    <3>3. QED
      BY <3>2
  <2>4. QED
    BY <2>2, <2>3
<1>2. QED
  BY <1>1, SyncInvariant, PTL

\* Only its lender's tab or a release of its lender on chain ends a row.
THEOREM ReleasedByItsLenderProved == Spec => ReleasedByItsLender
<1>1. SyncInv /\ [Next]_vars => [Released]_vars
  BY SyncStep
<1>2. Spec => [][Released]_vars
  BY <1>1, SyncInvariant, PTL DEF Spec
<1>3. QED
  BY <1>2 DEF Released, RowReleased, ReleasedByItsLender

-----------------------------------------------------------------------------
(* The index follows the chain *)

\* The circumstances in which the index follows the chain: every wallet has one
\* tab and is not used besides, no tab skips the transaction, and the webhook
\* carries out what it is given.
TabOwnsWallet ==
    /\ \A c1, c2 \in Clients : WalletOf[c1] = WalletOf[c2] => c1 = c2
    /\ \A c \in Clients : WalletOf[c] \notin DirectWallets
    /\ DeeplinkTabs = {}
    /\ ~Lossy

\* A tab between its transaction and its row holds the lien.
TabHolds ==
    \A c \in Clients :
        client[c].pc \in {"check", "insert"} => Held(client[c].parcel, WalletOf[c])

RowExplained(i) ==
    liens[i].status = "active" =>
        \/ Held(liens[i].cadastral_number, liens[i].lender_wallet)
        \/ ReleaseInFlight(liens[i].cadastral_number, liens[i].lender_wallet)

\* Where a lien of the index comes from: it is held, or its end is on the way;
\* a row the webhook makes has no parcel to belong to.
IndexInv ==
    /\ DOMAIN parcels \subseteq Parcels
    /\ TabHolds
    /\ \A i \in DOMAIN liens : RowExplained(i)

-----------------------------------------------------------------------------

\* What a transaction emits is in flight after it.
LEMMA Emitted ==
    ASSUME Emit
    PROVE  \E d \in deliveries' : d.event = event'
<1> DEFINE n == IF event'.parcel \in DOMAIN lien_index'
                THEN lien_index'[event'.parcel].total_lien_count
                ELSE 0
<1>1. [event |-> event', lien |-> n] \in deliveries'
  BY DEF Emit
<1>2. [event |-> event', lien |-> n].event = event'
  OBVIOUS
<1>3. QED
  BY <1>1, <1>2

\* Whatever else is in flight was so before.
LEMMA EmittedOnly ==
    ASSUME Emit
    PROVE  \A d \in deliveries' : d \in deliveries \/ d.event = event'
<1> DEFINE n == IF event'.parcel \in DOMAIN lien_index'
                THEN lien_index'[event'.parcel].total_lien_count
                ELSE 0
<1>1. deliveries' = deliveries \cup {[event |-> event', lien |-> n]}
  BY DEF Emit
<1>2. [event |-> event', lien |-> n].event = event'
  OBVIOUS
<1> HIDE DEF n
<1>3. QED
  BY <1>1, <1>2

\* The chain forgets a lien only by its lender's release, whose event stays.
LEMMA LienEnds ==
    ASSUME SyncTypeOK, [Next]_vars, NEW p \in Parcels, NEW w \in Wallets,
           Held(p, w), ~Held(p, w)'
    PROVE  /\ ReleaseInFlight(p, w)'
           /\ \/ w \in DirectWallets
              \/ \E c \in Clients : WalletOf[c] = w /\ client[c].pc = "idle"
<1>1. ASSUME NEW l \in Wallets, NEW q \in Parcels, NEW amount, RegisterEncumbrance(l, q, amount)
      PROVE  FALSE
  BY <1>1 DEF RegisterEncumbrance, RegisterAllowed, Held
<1>2. ASSUME NEW l \in Wallets, NEW q \in Parcels, ReleaseEncumbrance(l, q), Emit
      PROVE  l = w /\ ReleaseInFlight(p, w)'
  <2>1. DOMAIN encumbrance' = DOMAIN encumbrance \ {<<q, l>>}
    BY <1>2 DEF ReleaseEncumbrance, ReleaseAllowed, Closed
  <2>2. q = p /\ l = w
    BY <2>1 DEF Held
  <2>3. event' = [type |-> "EncumbranceReleased", parcel |-> p, lender |-> w]
    BY <1>2, <2>2 DEF ReleaseEncumbrance, ReleaseAllowed
  <2>4. PICK d \in deliveries' : d.event = event'
    BY <1>2, Emitted
  <2>5. QED
    BY <2>2, <2>3, <2>4 DEF ReleaseInFlight
<1>3. ASSUME NEW l \in Wallets, NEW q \in Parcels, DirectLien(l, q)
      PROVE  ReleaseInFlight(p, w)' /\ w \in DirectWallets
  BY <1>1, <1>2, <1>3 DEF DirectLien
<1>4. ASSUME NEW c \in Clients, NEW q \in Parcels, Submit(c, q)
      PROVE  FALSE
  BY <1>1, <1>4, LienSyncAssumption DEF Submit, SendRegistration
<1>5. ASSUME NEW c \in Clients, NEW i, SendRelease(c, i)
      PROVE  ReleaseInFlight(p, w)' /\ WalletOf[c] = w /\ client[c].pc = "idle"
  <2>1. CASE UNCHANGED <<chainVars, deliveries>>
    BY <2>1 DEF chainVars, Held
  <2>2. ASSUME NEW q \in Parcels, ReleaseEncumbrance(WalletOf[c], q), Emit
        PROVE  ReleaseInFlight(p, w)' /\ WalletOf[c] = w
    BY <1>2, <2>2, LienSyncAssumption
  <2>3. QED
    BY <1>5, <2>1, <2>2 DEF SendRelease
<1>6. CASE UNCHANGED encumbrance
  BY <1>6 DEF Held
<1>7. QED
  BY <1>3, <1>4, <1>5, <1>6
     DEF Next, RegisterOnChain, PostParcel, ClientStep, SubmitByDeeplink, CheckLien, InsertLien,
         PostRelease, Webhook, Deliver, Redeliver, vars, chainVars, RegisterParcel, lienVars

\* A release event goes when the webhook has carried it out, and then nobody is
\* listed for it.
LEMMA FlightEnds ==
    ASSUME SyncTypeOK, RowsOK, ~Lossy, [Next]_vars, NEW p \in Parcels, NEW w \in Wallets,
           ReleaseInFlight(p, w), ~ReleaseInFlight(p, w)'
    PROVE  /\ UNCHANGED <<chainVars, client>>
           /\ DOMAIN liens' = DOMAIN liens
           /\ \A i \in DOMAIN liens :
                \/ liens'[i] = liens[i] /\ i \notin DB!FindByWalletAndCadastral(w, p)
                \/ liens'[i].status = "released"
<1>1. PICK d \in deliveries : /\ d \notin deliveries'
                              /\ d.event.type = "EncumbranceReleased"
                              /\ d.event.parcel = p
                              /\ d.event.lender = w
  BY DEF ReleaseInFlight
<1>2. ASSUME Emit PROVE FALSE
  BY <1>1, <1>2, SMTT(20) DEF Emit
<1>3. PICK e \in deliveries : Deliver(e)
  BY <1>1, <1>2
     DEF Next, RegisterOnChain, PostParcel, DirectLien, ClientStep, Submit, SendRegistration,
         SubmitByDeeplink, CheckLien, InsertLien, SendRelease, PostRelease, Webhook,
         Redeliver, vars
<1>4. e = d
  BY <1>1, <1>3 DEF Deliver
<1>5. DB!HandleEncumbranceReleased(p, w) /\ UNCHANGED <<chainVars, client>>
  BY <1>1, <1>3, <1>4 DEF Deliver, RouteEvent
<1>6. ASSUME NEW i \in DB!FindByWalletAndCadastral(w, p), DB!Release(i)
      PROVE  /\ DOMAIN liens' = DOMAIN liens
             /\ \A j \in DOMAIN liens :
                  \/ liens'[j] = liens[j] /\ j \notin DB!FindByWalletAndCadastral(w, p)
                  \/ liens'[j].status = "released"
  <2>1. /\ i \in DOMAIN liens
        /\ liens' = [liens EXCEPT ![i].status = "released"]
        /\ liens[i] \in DB!LienRow
    BY <1>6 DEF DB!Release, RowsOK
  <2>2. DOMAIN liens' = DOMAIN liens /\ liens'[i].status = "released"
    BY <2>1 DEF DB!LienRow
  <2>3. \A j \in DOMAIN liens : j # i => liens'[j] = liens[j]
    BY <2>1
  <2>4. \A j \in DB!FindByWalletAndCadastral(w, p) : j = i
    BY <1>6 DEF DB!FindByWalletAndCadastral, DB!GetActive, RowsOK, OneActiveRow
  <2>5. QED
    BY <2>2, <2>3, <2>4
<1>7. CASE DB!FindByWalletAndCadastral(w, p) = {} /\ UNCHANGED liens
  BY <1>5, <1>7, SMTT(20)
<1>8. QED
  BY <1>5, <1>6, <1>7 DEF DB!HandleEncumbranceReleased

\* What a step makes of the rows: a new one is the insert of a tab.
LEMMA RowsGrow ==
    ASSUME SyncTypeOK, RowsOK, DOMAIN parcels \subseteq Parcels, [Next]_vars,
           NEW i \in DOMAIN liens', liens'[i].status = "active"
    PROVE  \/ i \in DOMAIN liens /\ liens'[i] = liens[i]
           \/ \E c \in Clients : /\ client[c].pc = "insert"
                                 /\ liens'[i].cadastral_number = client[c].parcel
                                 /\ liens'[i].lender_wallet = WalletOf[c]
                                 /\ UNCHANGED chainVars
<1>1. ASSUME NEW j, DB!Release(j)
      PROVE  i \in DOMAIN liens /\ liens'[i] = liens[i]
  <2>1. /\ j \in DOMAIN liens
        /\ liens' = [liens EXCEPT ![j].status = "released"]
        /\ liens[j] \in DB!LienRow
    BY <1>1 DEF DB!Release, RowsOK
  <2>2. DOMAIN liens' = DOMAIN liens /\ liens'[j].status = "released"
    BY <2>1 DEF DB!LienRow
  <2>3. QED
    BY <2>1, <2>2
<1>2. ASSUME NEW row, DB!Create(row)
      PROVE  \/ i \in DOMAIN liens /\ liens'[i] = liens[i]
             \/ liens'[i] = row
  BY <1>2 DEF DB!Create, RowsOK
<1>3. ASSUME NEW c \in Clients, InsertLien(c)
      PROVE  \/ i \in DOMAIN liens /\ liens'[i] = liens[i]
             \/ /\ client[c].pc = "insert"
                /\ liens'[i].cadastral_number = client[c].parcel
                /\ liens'[i].lender_wallet = WalletOf[c]
                /\ UNCHANGED chainVars
  BY <1>2, <1>3 DEF InsertLien, DB!NewRow, storeVars
<1>4. ASSUME NEW c \in Clients, PostRelease(c)
      PROVE  i \in DOMAIN liens /\ liens'[i] = liens[i]
  BY <1>1, <1>4 DEF PostRelease, DB!ReleaseLien, storeVars
<1>5. ASSUME NEW d \in deliveries, RouteEvent(d.event)
      PROVE  i \in DOMAIN liens /\ liens'[i] = liens[i]
  <2>1. ASSUME NEW p, NEW w, DB!HandleEncumbranceRegistered(p, w)
        PROVE  UNCHANGED liens
    <3>1. Nil \notin DOMAIN parcels
      BY LienSyncAssumption
    <3>2. QED
      BY <2>1, <3>1 DEF DB!HandleEncumbranceRegistered, DB!Create, DB!Insertable, DB!NewRow
  <2>2. QED
    BY <1>1, <1>5, <2>1
       DEF RouteEvent, DB!HandleEncumbranceReleased, DB!UpdateOnChainAddress
<1>6. CASE UNCHANGED liens
  BY <1>6
<1>7. QED
  BY <1>3, <1>4, <1>5, <1>6
     DEF Next, RegisterOnChain, DirectLien, PostParcel, DB!RegisterParcelRow, ClientStep,
         Submit, SubmitByDeeplink, CheckLien, SendRelease, Webhook, Deliver, Redeliver,
         vars, storeVars

\* The rows of parcels are those of known parcels.
LEMMA ParcelsStep ==
    ASSUME DOMAIN parcels \subseteq Parcels, [Next]_vars
    PROVE  DOMAIN parcels' \subseteq Parcels
<1>1. ASSUME NEW e, RouteEvent(e)
      PROVE  DOMAIN parcels' = DOMAIN parcels
  BY <1>1 DEF RouteEvent, DB!UpdateOnChainAddress, DB!HandleEncumbranceRegistered,
              DB!HandleEncumbranceReleased, DB!Create, DB!Release
<1>2. ASSUME NEW p \in Parcels, PostParcel(p)
      PROVE  DOMAIN parcels' \subseteq Parcels
  BY <1>2 DEF PostParcel, DB!RegisterParcelRow
<1>3. ASSUME NEW c \in Clients, InsertLien(c) \/ PostRelease(c)
      PROVE  DOMAIN parcels' \subseteq Parcels
  BY <1>3 DEF InsertLien, PostRelease, DB!ReleaseLien, DB!Create, DB!Release, storeVars
<1>4. CASE UNCHANGED parcels
  BY <1>4
<1>5. QED
  BY <1>1, <1>2, <1>3, <1>4
     DEF Next, RegisterOnChain, DirectLien, ClientStep, Submit, SubmitByDeeplink, CheckLien,
         SendRelease, Webhook, Deliver, Redeliver, vars, storeVars

\* What a tab is set to.
LEMMA TabFields ==
    /\ Idle.pc = "idle"
    /\ \A p : [Idle EXCEPT !.pc = "check", !.parcel = p].parcel = p
    /\ \A i : [Idle EXCEPT !.pc = "release", !.row = i].pc = "release"
<1>1. Idle = [pc |-> "idle", parcel |-> Nil, row |-> 0]
  BY DEF Idle
<1>2. Idle.pc = "idle"
  BY <1>1
<1>3. \A p : [Idle EXCEPT !.pc = "check", !.parcel = p].parcel = p
  BY <1>1
<1>4. \A i : [Idle EXCEPT !.pc = "release", !.row = i].pc = "release"
  BY <1>1
<1>5. QED
  BY <1>2, <1>3, <1>4

\* A tab keeps what it holds until its row is written: it does nothing else.
LEMMA TabHoldsStep ==
    ASSUME TabOwnsWallet, SyncTypeOK, TabHolds, [Next]_vars
    PROVE  TabHolds'
<1> SUFFICES ASSUME NEW c \in Clients, client'[c].pc \in {"check", "insert"}
             PROVE  <<client'[c].parcel, WalletOf[c]>> \in DOMAIN encumbrance'
  BY DEF TabHolds, Held
<1>0. client \in [Clients -> Client]
  BY DEF SyncTypeOK
<1>1. \/ \E p \in Parcels : Submit(c, p) /\ client'[c].parcel = p
      \/ /\ client[c].pc \in {"check", "insert"}
         /\ client'[c].parcel = client[c].parcel
  <2>1. ASSUME NEW t \in Clients, NEW p \in Parcels, Submit(t, p)
        PROVE  \/ t = c /\ client'[c].parcel = p
               \/ client'[c] = client[c]
    BY <1>0, <2>1, TabFields DEF Submit, SendRegistration
  <2>2. ASSUME NEW t \in Clients, CheckLien(t)
        PROVE  \/ client'[c] = client[c]
               \/ client[c].pc = "check" /\ client'[c].parcel = client[c].parcel
    <3>1. CASE client' = [client EXCEPT ![t].pc = "insert"]
      BY <1>0, <2>2, <3>1 DEF CheckLien, Client
    <3>2. CASE client' = [client EXCEPT ![t] = Idle]
      BY <1>0, <3>2, TabFields
    <3>3. QED
      BY <2>2, <3>1, <3>2 DEF CheckLien, FlowOver
  <2>3. ASSUME NEW t \in Clients, InsertLien(t) \/ PostRelease(t)
        PROVE  client'[c] = client[c]
    BY <1>0, <2>3, TabFields DEF InsertLien, PostRelease, FlowOver
  <2>4. ASSUME NEW t \in Clients, NEW i, SendRelease(t, i)
        PROVE  client'[c] = client[c]
    BY <1>0, <2>4, TabFields DEF SendRelease
  <2>5. CASE UNCHANGED client
    BY <2>5
  <2>6. QED
    <3>1. ASSUME NEW t \in Clients, NEW p \in Parcels, SubmitByDeeplink(t, p)
          PROVE  FALSE
      BY <3>1 DEF SubmitByDeeplink, TabOwnsWallet
    <3>2. CASE ClientStep
      BY <2>1, <2>2, <2>3, <2>4, <3>1, <3>2 DEF ClientStep
    <3>3. CASE ~ClientStep
      BY <2>5, <3>3
         DEF Next, RegisterOnChain, DirectLien, PostParcel, Webhook, Deliver, Redeliver, vars
    <3>4. QED
      BY <3>2, <3>3
<1>2. ASSUME NEW p \in Parcels, Submit(c, p), client'[c].parcel = p
      PROVE  <<p, WalletOf[c]>> \in DOMAIN encumbrance'
  BY <1>2 DEF Submit, SendRegistration, RegisterEncumbrance, RegisterAllowed
<1>3. CASE /\ client[c].pc \in {"check", "insert"}
           /\ client'[c].parcel = client[c].parcel
  <2>1. PICK p \in Parcels, w \in Wallets : p = client[c].parcel /\ w = WalletOf[c]
    BY <1>3, LienSyncAssumption DEF SyncTypeOK
  <2>2. Held(p, w)
    BY <1>3, <2>1 DEF TabHolds
  <2>3. ASSUME ~Held(p, w)' PROVE FALSE
    <3>1. \/ w \in DirectWallets
          \/ \E t \in Clients : WalletOf[t] = w /\ client[t].pc = "idle"
      BY <2>2, <2>3, LienEnds
    <3>2. QED
      BY <1>3, <2>1, <3>1 DEF TabOwnsWallet
  <2>4. QED
    BY <1>3, <2>1, <2>3 DEF Held
<1>4. QED
  BY <1>1, <1>2, <1>3

\* A row stays explained: a lien that ends leaves its release in flight, and a
\* release that arrives takes the row it explains.
LEMMA ExplainedStep ==
    ASSUME TabOwnsWallet, SyncTypeOK, RowsOK, RowsOK', IndexInv, [Next]_vars,
           NEW i \in DOMAIN liens'
    PROVE  RowExplained(i)'
<1> SUFFICES ASSUME liens'[i].status = "active" PROVE RowExplained(i)'
  BY DEF RowExplained
<1>1. PICK p \in Parcels, w \in Wallets : /\ p = liens'[i].cadastral_number
                                         /\ w = liens'[i].lender_wallet
  <2>1. liens'[i] \in DB!LienRow
    BY DEF RowsOK
  <2>2. QED
    BY <2>1 DEF DB!LienRow
<1> SUFFICES Held(p, w)' \/ ReleaseInFlight(p, w)'
  BY <1>1 DEF RowExplained, Held, ReleaseInFlight
<1>2. ASSUME NEW c \in Clients, client[c].pc = "insert", UNCHANGED chainVars,
             p = client[c].parcel, w = WalletOf[c]
      PROVE  Held(p, w)'
  BY <1>2 DEF IndexInv, TabHolds, Held, chainVars
<1>3. CASE i \in DOMAIN liens /\ liens'[i] = liens[i]
  <2>1. Held(p, w) \/ ReleaseInFlight(p, w)
    BY <1>1, <1>3 DEF IndexInv, RowExplained
  <2>2. CASE Held(p, w)
    BY <2>2, LienEnds
  <2>3. CASE ReleaseInFlight(p, w)
    <3>1. i \in DB!FindByWalletAndCadastral(w, p)
      BY <1>1, <1>3 DEF DB!FindByWalletAndCadastral, DB!GetActive
    <3>2. ASSUME ~ReleaseInFlight(p, w)' PROVE FALSE
      BY <1>3, <2>3, <3>1, <3>2, FlightEnds DEF TabOwnsWallet
    <3>3. QED
      BY <3>2
  <2>4. QED
    BY <2>1, <2>2, <2>3
<1>4. QED
  BY <1>1, <1>2, <1>3, RowsGrow DEF IndexInv

\* An empty table and idle tabs.
LEMMA IndexInit == Init => IndexInv
<1> SUFFICES ASSUME Init PROVE IndexInv
  OBVIOUS
<1>1. \A c \in Clients : client[c].pc = "idle"
  BY TabFields DEF Init
<1>2. DOMAIN parcels = {} /\ DOMAIN liens = {}
  BY DEF Init, DB!StoreInit
<1>3. QED
  BY <1>1, <1>2 DEF IndexInv, TabHolds

\* The invariant is inductive where each tab has its wallet to itself.
LEMMA IndexStep ==
    ASSUME TabOwnsWallet, SyncInv, SyncInv', IndexInv, [Next]_vars
    PROVE  IndexInv'
<1>1. /\ SyncTypeOK /\ SyncTypeOK' /\ RowsOK /\ RowsOK'
      /\ DOMAIN parcels \subseteq Parcels /\ TabHolds
  BY DEF SyncInv, IndexInv
<1>2. \A i \in DOMAIN liens' : RowExplained(i)'
  BY <1>1, ExplainedStep
<1>3. QED
  BY <1>1, <1>2, ParcelsStep, TabHoldsStep DEF IndexInv

\* The index follows the chain.
THEOREM IndexInvariant == TabOwnsWallet => (Spec => []IndexInv)
<1> SUFFICES ASSUME TabOwnsWallet PROVE Spec => []IndexInv
  OBVIOUS
<1>1. SyncInv /\ SyncInv' /\ IndexInv /\ [Next]_vars => IndexInv'
  BY IndexStep
<1>2. QED
  BY <1>1, IndexInit, SyncInvariant, PTL DEF Spec

\* Nobody is listed who neither holds the parcel nor has its release in flight.
THEOREM ActiveRowExplainedProved == TabOwnsWallet => (Spec => []ActiveRowExplained)
<1> SUFFICES ASSUME TabOwnsWallet PROVE Spec => []ActiveRowExplained
  OBVIOUS
<1>1. IndexInv => ActiveRowExplained
  BY DEF IndexInv, RowExplained, ActiveRowExplained, Indexed, DB!GetActive
<1>2. QED
  BY <1>1, IndexInvariant, PTL

\* A row is entered only while its lender holds the parcel.
THEOREM RowsBackedProved == TabOwnsWallet => (Spec => RowsBackedWhenInserted)
<1> SUFFICES ASSUME TabOwnsWallet PROVE Spec => RowsBackedWhenInserted
  OBVIOUS
<1> DEFINE Backed == \A p \in Parcels, w \in Wallets :
                       ~Indexed(p, w) /\ Indexed(p, w)' => Held(p, w)
<1>1. SyncInv /\ IndexInv /\ [Next]_vars => [Backed]_vars
  <2> SUFFICES ASSUME SyncInv, IndexInv, [Next]_vars, NEW p \in Parcels, NEW w \in Wallets,
                      ~Indexed(p, w), Indexed(p, w)'
               PROVE  Held(p, w)
    OBVIOUS
  <2>1. PICK i \in DOMAIN liens' : /\ liens'[i].status = "active"
                                   /\ liens'[i].cadastral_number = p
                                   /\ liens'[i].lender_wallet = w
    BY DEF Indexed, DB!GetActive
  <2>2. ~(i \in DOMAIN liens /\ liens'[i] = liens[i])
    BY <2>1 DEF Indexed, DB!GetActive
  <2>3. PICK c \in Clients : client[c].pc = "insert" /\ p = client[c].parcel /\ w = WalletOf[c]
    BY <2>1, <2>2, RowsGrow DEF SyncInv, IndexInv
  <2>4. QED
    BY <2>3 DEF IndexInv, TabHolds
<1>2. Spec => [][Backed]_vars
  BY <1>1, SyncInvariant, IndexInvariant, PTL DEF Spec
<1>3. QED
  BY <1>2 DEF RowsBackedWhenInserted
-----------------------------------------------------------------------------
(* The address of a parcel *)

\* An address and an event that may bring one name the owner of the account.
AddressInv ==
    /\ \A p \in DOMAIN parcels :
         parcels[p] # Nil => Registered(p) /\ parcels[p] = parcel_config[p].owner
    /\ \A d \in deliveries : \A p :
         IsParcelEvent(d, p) => Registered(p) /\ d.event.owner = parcel_config[p].owner

\* What no step does to an address.
Settled ==
    \A p \in DOMAIN parcels :
        parcels[p] # Nil => /\ parcels'[p] = parcels[p]
                            /\ Registered(p)'
                            /\ parcels'[p] = parcel_config'[p].owner

\* The tables of a step, where accounts and events stay as they are or grow: each
\* row keeps its address, or gets the one that an event in flight brings.
Grows ==
    /\ \A p : Registered(p) =>
         Registered(p)' /\ parcel_config'[p].owner = parcel_config[p].owner
    /\ \A d \in deliveries' : \A p : IsParcelEvent(d, p) =>
         \/ d \in deliveries
         \/ Registered(p)' /\ d.event.owner = parcel_config'[p].owner

Brings ==
    /\ DOMAIN parcels \subseteq DOMAIN parcels'
    /\ \A p \in DOMAIN parcels' :
         \/ p \notin DOMAIN parcels /\ parcels'[p] = Nil
         \/ p \in DOMAIN parcels /\ parcels'[p] = parcels[p]
         \/ \E d \in deliveries : IsParcelEvent(d, p) /\ parcels'[p] = d.event.owner

\* Such a step keeps the invariant and every address.
LEMMA AddressKept ==
    ASSUME AddressInv, Grows, Brings
    PROVE  AddressInv' /\ Settled
<1>1. ASSUME NEW p \in DOMAIN parcels', parcels'[p] # Nil
      PROVE  Registered(p)' /\ parcels'[p] = parcel_config'[p].owner
  BY <1>1 DEF AddressInv, Grows, Brings
<1>2. ASSUME NEW d \in deliveries', NEW p, IsParcelEvent(d, p)
      PROVE  Registered(p)' /\ d.event.owner = parcel_config'[p].owner
  BY <1>2 DEF AddressInv, Grows
<1>3. AddressInv'
  BY <1>1, <1>2 DEF AddressInv, IsParcelEvent
<1>4. ASSUME NEW p \in DOMAIN parcels, parcels[p] # Nil
      PROVE  parcels'[p] = parcels[p]
  BY <1>4 DEF AddressInv, Brings
<1>5. Settled
  BY <1>1, <1>4 DEF Settled, Brings
<1>6. QED
  BY <1>3, <1>5

\* The transaction of a farmer's parcel: its event names its owner.
LEMMA RegistrationGrows ==
    ASSUME NEW w, NEW p, RegisterOnChain(w, p)
    PROVE  Grows
<1>1. PICK survey : RegisterParcel(w, p, survey)
  BY DEF RegisterOnChain
<1>2. Emit
  BY DEF RegisterOnChain
<1>3. /\ ~Registered(p)
      /\ parcel_config' = [q \in DOMAIN parcel_config \cup {p} |->
                             IF q = p THEN NewParcel(w) ELSE parcel_config[q]]
      /\ event' = [type |-> "ParcelRegistered", parcel |-> p, owner |-> w]
  BY <1>1 DEF RegisterParcel
<1>4. \A q : Registered(q) => Registered(q)' /\ parcel_config'[q] = parcel_config[q]
  BY <1>3 DEF Registered
<1>5. Registered(p)' /\ parcel_config'[p].owner = w
  BY <1>3 DEF Registered, NewParcel
<1>6. \A d \in deliveries' : d \in deliveries \/ d.event = event'
  BY <1>2, EmittedOnly
<1>7. QED
  BY <1>3, <1>4, <1>5, <1>6 DEF Grows, IsParcelEvent

\* A transaction of the lien registry leaves the parcels' accounts alone, and its
\* event is no parcel's.
LEMMA LienGrows ==
    ASSUME NEW w, NEW p, NEW amount,
           RegisterEncumbrance(w, p, amount) \/ ReleaseEncumbrance(w, p), Emit
    PROVE  Grows
<1>1. parcel_config' = parcel_config /\ event'.type # "ParcelRegistered"
  BY DEF RegisterEncumbrance, ReleaseEncumbrance
<1>2. \A d \in deliveries' : d \in deliveries \/ d.event = event'
  BY EmittedOnly
<1>3. QED
  BY <1>1, <1>2 DEF Grows, IsParcelEvent, Registered

\* An event that is processed gives a row the owner it names, if it is a parcel's,
\* and touches no other row of the table.
LEMMA EventBrings ==
    ASSUME NEW d \in deliveries, RouteEvent(d.event)
    PROVE  Brings
<1>1. CASE d.event.type = "ParcelRegistered" /\
           DB!UpdateOnChainAddress(d.event.parcel, d.event.owner)
  BY <1>1 DEF DB!UpdateOnChainAddress, Brings, IsParcelEvent
<1>2. CASE UNCHANGED parcels
  BY <1>2 DEF Brings
<1>3. QED
  BY <1>1, <1>2
     DEF RouteEvent, DB!HandleEncumbranceRegistered, DB!HandleEncumbranceReleased,
         DB!Create, DB!Release

\* Every step is such a step.
LEMMA AddressStep ==
    AddressInv /\ [Next]_vars => AddressInv' /\ Settled
<1> SUFFICES ASSUME AddressInv, [Next]_vars PROVE AddressInv' /\ Settled
  OBVIOUS
<1>1. UNCHANGED parcel_config /\ deliveries' \subseteq deliveries => Grows
  BY DEF Grows, Registered
<1>2. UNCHANGED parcels => Brings
  BY DEF Brings
<1>3. ASSUME NEW w, NEW p, RegisterOnChain(w, p) \/ DirectLien(w, p)
      PROVE  Grows /\ Brings
  BY <1>2, <1>3, RegistrationGrows, LienGrows DEF RegisterOnChain, DirectLien, storeVars
<1>4. ASSUME NEW p, PostParcel(p)
      PROVE  Grows /\ Brings
  BY <1>1, <1>4 DEF PostParcel, DB!RegisterParcelRow, Brings, chainVars
<1>5. ASSUME NEW c, NEW p, Submit(c, p)
      PROVE  Grows /\ Brings
  BY <1>2, <1>5, LienGrows DEF Submit, SendRegistration, storeVars
<1>6. ASSUME NEW c, NEW i, SendRelease(c, i)
      PROVE  Grows /\ Brings
  BY <1>1, <1>2, <1>6, LienGrows DEF SendRelease, storeVars, chainVars
<1>7. ASSUME NEW c, InsertLien(c) \/ PostRelease(c)
      PROVE  Grows /\ Brings
  <2>1. UNCHANGED <<parcels, parcel_config, deliveries>>
    BY <1>7 DEF InsertLien, PostRelease, DB!ReleaseLien, DB!Create, DB!Release,
                storeVars, chainVars
  <2>2. QED
    BY <1>1, <1>2, <2>1
<1>8. CASE Webhook
  <2>1. PICK d \in deliveries : RouteEvent(d.event) \/ UNCHANGED storeVars
    BY <1>8 DEF Webhook, Deliver, Redeliver
  <2>2. UNCHANGED parcel_config /\ deliveries' \subseteq deliveries
    BY <1>8 DEF Webhook, Deliver, Redeliver, chainVars
  <2>3. QED
    BY <1>1, <1>2, <2>1, <2>2, EventBrings, AddressKept DEF storeVars
<1>9. CASE UNCHANGED <<parcels, parcel_config, deliveries>>
  BY <1>1, <1>2, <1>9, AddressKept
<1>10. QED
  BY <1>3, <1>4, <1>5, <1>6, <1>7, <1>8, <1>9, AddressKept
     DEF Next, ClientStep, SubmitByDeeplink, CheckLien, vars, storeVars, chainVars

\* The address of a parcel, once there, is its owner's for ever, for any deliveries
\* late, repeated or failing and any rows posted in between.
THEOREM AddressSettledProved == Spec => AddressSettled
<1>1. Init => AddressInv
  BY DEF Init, DB!StoreInit, AddressInv
<1>2. AddressInv /\ [Next]_vars => AddressInv'
  BY AddressStep
<1>3. AddressInv /\ [Next]_vars => [Settled]_vars
  BY AddressStep
<1>4. Spec => [][Settled]_vars
  BY <1>1, <1>2, <1>3, PTL DEF Spec
<1>5. QED
  BY <1>4 DEF AddressSettled, Settled
-----------------------------------------------------------------------------
(* The programs underneath are the ledger's, with everything proved of it *)

Ledger == INSTANCE TerraLedger_proofs

\* What farmers, tabs and SDK users send is what any wallet may send; REST
\* requests and the webhook leave the chain alone.
LEMMA LedgerStep ==
    ASSUME [Next]_vars
    PROVE  [Ledger!Next]_(Ledger!vars)
<1>1. ASSUME NEW w \in Farmers, NEW p \in Parcels, RegisterOnChain(w, p)
      PROVE  Ledger!Next
  <2>1. PICK survey \in Surveys : RegisterParcel(w, p, survey)
    BY <1>1 DEF RegisterOnChain
  <2>2. Ledger!RegisterParcel(w, p, survey)
    BY <2>1 DEF RegisterParcel, Ledger!RegisterParcel, Registered, Ledger!Registered,
         ValidRegistration, Ledger!ValidRegistration, NewParcel, Ledger!NewParcel
  <2>3. QED
    BY <1>1, <2>2, LienSyncAssumption
       DEF RegisterOnChain, lienVars, Ledger!lienVars, Ledger!Next, Ledger!TerraTokenStep
<1>2. ASSUME NEW w \in Wallets, NEW p \in Parcels, NEW amount \in Amounts,
             RegisterEncumbrance(w, p, amount)
      PROVE  Ledger!Next
  <2>1. Ledger!RegisterEncumbrance(w, p, amount)
    BY <1>2 DEF RegisterEncumbrance, RegisterAllowed, Ledger!RegisterEncumbrance,
       Ledger!RegisterAllowed, VerifyParcel, Ledger!VerifyParcel, Registered,
       Ledger!Registered, NoActiveLien, Ledger!NoActiveLien, IndexOrZero,
       Ledger!IndexOrZero, STATUS_ACTIVE, Ledger!STATUS_ACTIVE
  <2>2. QED
    BY <2>1 DEF Ledger!Next, Ledger!LienRegistryStep
<1>3. ASSUME NEW w \in Wallets, NEW p \in Parcels, ReleaseEncumbrance(w, p)
      PROVE  Ledger!Next
  <2>1. Ledger!ReleaseEncumbrance(w, p)
    BY <1>3 DEF ReleaseEncumbrance, ReleaseAllowed, Ledger!ReleaseEncumbrance,
       Ledger!ReleaseAllowed, Closed, Ledger!Closed, SaturatingDec, Ledger!SaturatingDec,
       STATUS_ACTIVE, Ledger!STATUS_ACTIVE
  <2>2. QED
    BY <2>1 DEF Ledger!Next, Ledger!LienRegistryStep
<1>4. ASSUME UNCHANGED chainVars
      PROVE  UNCHANGED Ledger!vars
  BY <1>4 DEF chainVars, Ledger!vars
<1>5. ASSUME NEW w \in Wallets, NEW p \in Parcels, DirectLien(w, p)
      PROVE  Ledger!Next
  BY <1>2, <1>3, <1>5 DEF DirectLien
<1>6. ASSUME NEW c \in Clients, NEW p \in Parcels, Submit(c, p)
      PROVE  Ledger!Next
  <2>1. WalletOf[c] \in Wallets
    BY LienSyncAssumption
  <2>2. QED
    BY <1>2, <1>6, <2>1 DEF Submit, SendRegistration
<1>7. ASSUME NEW c \in Clients, NEW i \in {0} \cup DOMAIN liens, SendRelease(c, i)
      PROVE  Ledger!Next \/ UNCHANGED chainVars
  <2>1. WalletOf[c] \in Wallets
    BY LienSyncAssumption
  <2>2. QED
    BY <1>3, <1>7, <2>1 DEF SendRelease
<1>8. ASSUME ClientStep
      PROVE  Ledger!Next \/ UNCHANGED chainVars
  BY <1>6, <1>7, <1>8 DEF ClientStep, SubmitByDeeplink, CheckLien, InsertLien, PostRelease
<1>9. ASSUME Webhook
      PROVE  UNCHANGED chainVars
  BY <1>9 DEF Webhook, Deliver, Redeliver
<1>10. QED
  <2>1. Next \/ UNCHANGED vars
    OBVIOUS
  <2>2. CASE UNCHANGED vars
    BY <1>4, <2>2 DEF vars
  <2>3. CASE Next
    BY <1>1, <1>4, <1>5, <1>8, <1>9, <2>3 DEF Next, RegisterOnChain, PostParcel
  <2>4. QED
    BY <2>1, <2>2, <2>3

\* The two records together implement the ledger: no order of REST requests,
\* deliveries and transactions makes the chain do what the programs would not.
THEOREM SyncUsesTheLedger == Spec => Ledger!Spec
<1>1. Init => Ledger!Init
  BY DEF Init, Ledger!Init, TokenInit, Ledger!TokenInit, LienInit, Ledger!LienInit
<1>2. [Next]_vars => [Ledger!Next]_(Ledger!vars)
  BY LedgerStep
<1>3. QED
  BY <1>1, <1>2, PTL DEF Spec, Ledger!Spec

\* So no parcel is pledged twice on chain, however far the index has drifted.
THEOREM SyncNeverDoublePledges == Spec => []Ledger!NoDoublePledge
<1>1. Ledger!Spec => []Ledger!NoDoublePledge
  BY Ledger!DoublePledgePrevented, TerraTokenAssumption, LienRegistryAssumption
<1>2. QED
  BY <1>1, SyncUsesTheLedger, PTL
-----------------------------------------------------------------------------
(* The index is one mirror of one lock *)

\* The two sets the mirror is made of beside the accounts.
Flying == {e \in Parcels \X Wallets : ReleaseInFlight(e[1], e[2])}
Shown == {e \in Parcels \X Wallets : Indexed(e[1], e[2])}

\* The rows the mirror shows.
ShownBy(f, p, w) ==
    \E i \in DOMAIN f : /\ f[i].cadastral_number = p
                        /\ f[i].status = "active"
                        /\ f[i].lender_wallet = w

\* Membership of the two sets, pair by pair.
LEMMA PairOf ==
    ASSUME NEW p \in Parcels, NEW w \in Wallets
    PROVE  /\ <<p, w>> \in Flying <=> ReleaseInFlight(p, w)
           /\ <<p, w>> \in Shown <=> ShownBy(liens, p, w)
           /\ <<p, w>> \in Flying' <=> ReleaseInFlight(p, w)'
           /\ <<p, w>> \in Shown' <=> ShownBy(liens', p, w)
<1>1. Indexed(p, w) <=> ShownBy(liens, p, w)
  BY DEF Indexed, DB!GetActive, ShownBy
<1>2. Indexed(p, w)' <=> ShownBy(liens', p, w)
  BY DEF Indexed, DB!GetActive, ShownBy
<1>3. QED
  BY <1>1, <1>2 DEF Flying, Shown

\* Equal sets of pairs.
LEMMA SamePairs ==
    ASSUME NEW A, NEW B, A \subseteq Parcels \X Wallets, B \subseteq Parcels \X Wallets,
           \A p \in Parcels, w \in Wallets : <<p, w>> \in A <=> <<p, w>> \in B
    PROVE  A = B
OBVIOUS

\* The sets are sets of pairs.
LEMMA ArePairs ==
    /\ Flying \subseteq Parcels \X Wallets /\ Flying' \subseteq Parcels \X Wallets
    /\ Shown \subseteq Parcels \X Wallets /\ Shown' \subseteq Parcels \X Wallets
BY DEF Flying, Shown

\* Where the table stays the same pairs are shown.
LEMMA ShownFrame ==
    ASSUME UNCHANGED liens
    PROVE  Shown' = Shown
BY DEF Shown, Indexed, DB!GetActive

\* A transaction that releases nothing announces nothing.
LEMMA FlyingFrame ==
    ASSUME Emit, event'.type # "EncumbranceReleased"
    PROVE  Flying' = Flying
<1> DEFINE n == IF event'.parcel \in DOMAIN lien_index'
                THEN lien_index'[event'.parcel].total_lien_count
                ELSE 0
           d0 == [event |-> event', lien |-> n]
<1>1. deliveries' = deliveries \cup {d0} /\ d0.event = event'
  BY DEF Emit
<1> HIDE DEF d0
<1>2. \A p \in Parcels, w \in Wallets : ReleaseInFlight(p, w)' <=> ReleaseInFlight(p, w)
  BY <1>1 DEF ReleaseInFlight
<1>3. QED
  BY <1>2 DEF Flying

\* A release announces its own pair.
LEMMA FlyingGrows ==
    ASSUME NEW q \in Parcels, NEW l \in Wallets, Emit,
           event' = [type |-> "EncumbranceReleased", parcel |-> q, lender |-> l]
    PROVE  Flying' = Flying \cup {<<q, l>>}
<1> DEFINE n == IF event'.parcel \in DOMAIN lien_index'
                THEN lien_index'[event'.parcel].total_lien_count
                ELSE 0
           d0 == [event |-> event', lien |-> n]
<1>1. deliveries' = deliveries \cup {d0} /\ d0.event = event'
  BY DEF Emit
<1>2. /\ event'.type = "EncumbranceReleased"
      /\ event'.parcel = q
      /\ event'.lender = l
  OBVIOUS
<1> HIDE DEF d0
<1>3. ASSUME NEW p \in Parcels, NEW w \in Wallets
      PROVE  ReleaseInFlight(p, w)' <=> ReleaseInFlight(p, w) \/ (p = q /\ w = l)
  BY <1>1, <1>2 DEF ReleaseInFlight
<1>4. \A p \in Parcels, w \in Wallets :
        <<p, w>> \in Flying' <=> <<p, w>> \in Flying \cup {<<q, l>>}
  BY <1>3, PairOf
<1>5. QED
  BY <1>4, ArePairs, SamePairs

\* An insert lists its lender, where nobody was.
LEMMA ShownGrows ==
    ASSUME RowsOK, NEW row \in DB!LienRow, row.status = "active", DB!Create(row)
    PROVE  LET p == row.cadastral_number
               w == row.lender_wallet
           IN  /\ \A l \in Wallets : <<p, l>> \notin Shown
               /\ Shown' = Shown \cup {<<p, w>>}
<1>1. PICK q \in Parcels, l \in Wallets : /\ q = row.cadastral_number
                                         /\ l = row.lender_wallet
  BY DEF DB!LienRow
<1>2. /\ DOMAIN liens = 1 .. Len(liens)
      /\ DOMAIN liens' = 1 .. Len(liens) + 1
      /\ Len(liens) \in Nat
      /\ \A i \in DOMAIN liens : liens'[i] = liens[i]
      /\ liens'[Len(liens) + 1] = row
  BY DEF DB!Create, RowsOK
<1>3. \A i \in DOMAIN liens' : i \in DOMAIN liens \/ i = Len(liens) + 1
  BY <1>2
<1>4. \A w \in Wallets : <<q, w>> \notin Shown
  <2>1. \A w \in Wallets : ~ShownBy(liens, q, w)
    BY <1>1 DEF ShownBy, DB!Create, DB!Insertable, DB!GetActive
  <2>2. QED
    BY <2>1, PairOf
<1>5. ASSUME NEW p \in Parcels, NEW w \in Wallets
      PROVE  ShownBy(liens', p, w) <=> ShownBy(liens, p, w) \/ (p = q /\ w = l)
  <2>1. ASSUME ShownBy(liens', p, w) PROVE ShownBy(liens, p, w) \/ (p = q /\ w = l)
    BY <1>1, <1>2, <1>3, <2>1 DEF ShownBy
  <2>2. ASSUME ShownBy(liens, p, w) PROVE ShownBy(liens', p, w)
    BY <1>2, <2>2 DEF ShownBy
  <2>3. ASSUME p = q, w = l PROVE ShownBy(liens', p, w)
    BY <1>1, <1>2, <2>3 DEF ShownBy
  <2>4. QED
    BY <2>1, <2>2, <2>3
<1>6. Shown' = Shown \cup {<<q, l>>}
  <2>1. <<q, l>> \in Parcels \X Wallets
    OBVIOUS
  <2>2. \A p \in Parcels, w \in Wallets :
          <<p, w>> \in Shown' <=> <<p, w>> \in Shown \cup {<<q, l>>}
    BY <1>5, PairOf
  <2>3. QED
    BY <2>1, <2>2, ArePairs, SamePairs
<1>7. QED
  BY <1>1, <1>4, <1>6

\* A release takes off the list whom the row named, if it named somebody still.
LEMMA ShownShrinks ==
    ASSUME RowsOK, NEW i, DB!Release(i)
    PROVE  LET p == liens[i].cadastral_number
               w == liens[i].lender_wallet
           IN  \/ /\ liens[i].status = "active"
                  /\ p \in Parcels /\ w \in Wallets
                  /\ <<p, w>> \in Shown
                  /\ Shown' = Shown \ {<<p, w>>}
               \/ liens[i].status # "active" /\ Shown' = Shown
<1>1. /\ i \in DOMAIN liens
      /\ liens' = [liens EXCEPT ![i].status = "released"]
      /\ liens[i] \in DB!LienRow
  BY DEF DB!Release, RowsOK
<1>2. /\ DOMAIN liens' = DOMAIN liens
      /\ \A j \in DOMAIN liens : j # i => liens'[j] = liens[j]
      /\ liens'[i].status = "released"
  BY <1>1 DEF DB!LienRow
<1>3. PICK q \in Parcels, l \in Wallets : /\ q = liens[i].cadastral_number
                                         /\ l = liens[i].lender_wallet
  BY <1>1 DEF DB!LienRow
<1>4. CASE liens[i].status = "active"
  <2>1. <<q, l>> \in Shown
    BY <1>1, <1>3, <1>4, PairOf DEF ShownBy
  <2>2. ASSUME NEW p \in Parcels, NEW w \in Wallets
        PROVE  ShownBy(liens', p, w) <=> ShownBy(liens, p, w) /\ ~(p = q /\ w = l)
    <3>1. ASSUME ShownBy(liens', p, w) PROVE ShownBy(liens, p, w) /\ ~(p = q /\ w = l)
      <4>1. PICK j \in DOMAIN liens' : /\ liens'[j].cadastral_number = p
                                       /\ liens'[j].status = "active"
                                       /\ liens'[j].lender_wallet = w
        BY <3>1 DEF ShownBy
      <4>2. j # i /\ liens'[j] = liens[j] /\ j \in DOMAIN liens
        BY <1>2, <4>1
      <4>3. p # q
        BY <1>1, <1>3, <1>4, <4>1, <4>2 DEF RowsOK, OneActiveRow
      <4>4. QED
        BY <4>1, <4>2, <4>3 DEF ShownBy
    <3>2. ASSUME ShownBy(liens, p, w), ~(p = q /\ w = l) PROVE ShownBy(liens', p, w)
      BY <1>2, <1>3, <3>2 DEF ShownBy
    <3>3. QED
      BY <3>1, <3>2
  <2>3. Shown' = Shown \ {<<q, l>>}
    <3>1. \A p \in Parcels, w \in Wallets :
            <<p, w>> \in Shown' <=> <<p, w>> \in Shown \ {<<q, l>>}
      BY <2>2, PairOf
    <3>2. QED
      BY <3>1, ArePairs, SamePairs
  <2>4. QED
    BY <1>3, <1>4, <2>1, <2>3
<1>5. CASE liens[i].status # "active"
  <2>1. ASSUME NEW p \in Parcels, NEW w \in Wallets
        PROVE  ShownBy(liens', p, w) <=> ShownBy(liens, p, w)
    BY <1>2, <1>5 DEF ShownBy
  <2>2. \A p \in Parcels, w \in Wallets : <<p, w>> \in Shown' <=> <<p, w>> \in Shown
    BY <2>1, PairOf
  <2>3. Shown' = Shown
    BY <2>2, ArePairs, SamePairs
  <2>4. QED
    BY <1>5, <2>3
<1>6. QED
  BY <1>4, <1>5

\* A registration pledges a parcel that the chain knows to be free.
LEMMA MirrorPledge ==
    ASSUME Ledger!TypeOK, Ledger!LienInv, NEW l \in Wallets, NEW p \in Parcels,
           NEW amount, RegisterEncumbrance(l, p, amount), Emit, UNCHANGED liens
    PROVE  Mirror!Pledge(p, l)
<1>1. Shown' = Shown
  BY ShownFrame
<1>2. Flying' = Flying
  <2>1. event'.type = "EncumbranceRegistered"
    BY DEF RegisterEncumbrance, RegisterAllowed
  <2>2. QED
    BY <2>1, FlyingFrame
<1>3. \A w \in Wallets : <<p, w>> \notin DOMAIN encumbrance
  <2>1. Ledger!IndexOrZero(p).active_lien_count = 0
    BY DEF RegisterEncumbrance, RegisterAllowed, NoActiveLien, IndexOrZero, Ledger!IndexOrZero
  <2>2. Ledger!OpenLiens(p) = {}
    BY <2>1 DEF Ledger!LienInv, Ledger!OneLenderOrNone
  <2>3. QED
    BY <2>2 DEF Ledger!OpenLiens, Ledger!Active, Ledger!TypeOK, Ledger!EncumbranceTypeOK,
       Ledger!EncumbranceAccount
<1>4. DOMAIN encumbrance' = DOMAIN encumbrance \cup {<<p, l>>}
  BY DEF RegisterEncumbrance, RegisterAllowed
<1>5. QED
  BY <1>1, <1>2, <1>3, <1>4
     DEF Mirror!Pledge, Mirror!Lock!Pledge, Mirror!Lock!Free, Flying, Shown

\* A release on chain redeems and announces.
LEMMA MirrorRedeem ==
    ASSUME NEW l \in Wallets, NEW p \in Parcels, ReleaseEncumbrance(l, p), Emit,
           UNCHANGED liens
    PROVE  Mirror!Redeem(p, l)
<1>1. Shown' = Shown
  BY ShownFrame
<1>2. event' = [type |-> "EncumbranceReleased", parcel |-> p, lender |-> l]
  BY DEF ReleaseEncumbrance, ReleaseAllowed
<1>3. Flying' = Flying \cup {<<p, l>>}
  BY <1>2, FlyingGrows
<1>4. /\ DOMAIN encumbrance' = DOMAIN encumbrance \ {<<p, l>>}
      /\ <<p, l>> \in DOMAIN encumbrance
  BY DEF ReleaseEncumbrance, ReleaseAllowed, Closed
<1>5. QED
  BY <1>1, <1>3, <1>4 DEF Mirror!Redeem, Mirror!Lock!Redeem, Flying, Shown

\* An insert lists a lender who holds the parcel alone.
LEMMA MirrorList ==
    ASSUME SyncTypeOK, RowsOK, IndexInv, NEW c \in Clients,
           DB!Create(DB!NewRow(client[c].parcel, client[c].parcel, WalletOf[c], NameOf[c])),
           client[c].pc = "insert", UNCHANGED <<chainVars, deliveries>>
    PROVE  \E p \in Parcels, l \in Wallets : Mirror!List(p, l)
<1>1. PICK p \in Parcels, l \in Wallets : p = client[c].parcel /\ l = WalletOf[c]
  BY LienSyncAssumption DEF SyncTypeOK
<1> DEFINE row == DB!NewRow(p, p, l, NameOf[c])
<1>2. /\ row \in DB!LienRow
      /\ row.status = "active"
      /\ row.cadastral_number = p
      /\ row.lender_wallet = l
  BY LienSyncAssumption DEF DB!NewRow, DB!LienRow
<1>3. DB!Create(row)
  BY <1>1
<1> HIDE DEF row
<1>4. /\ \A w \in Wallets : <<p, w>> \notin Shown
      /\ Shown' = Shown \cup {<<p, l>>}
  BY <1>2, <1>3, ShownGrows
<1>5. <<p, l>> \in DOMAIN encumbrance
  BY <1>1 DEF IndexInv, TabHolds, Held
<1>6. Flying' = Flying
  BY DEF Flying, ReleaseInFlight
<1>7. UNCHANGED encumbrance
  BY DEF chainVars
<1>8. Mirror!List(p, l)
  BY <1>4, <1>5, <1>6, <1>7 DEF Mirror!List, Mirror!Unlisted, Flying, Shown
<1>9. QED
  BY <1>8

\* A release over REST takes one lender off the list, or finds the row ended.
LEMMA MirrorUnlist ==
    ASSUME RowsOK, NEW i, DB!Release(i), UNCHANGED <<chainVars, deliveries>>
    PROVE  \/ \E p \in Parcels, l \in Wallets : Mirror!Unlist(p, l)
           \/ UNCHANGED Mirror!mirrorVars
<1>1. Flying' = Flying /\ UNCHANGED encumbrance
  BY DEF Flying, ReleaseInFlight, chainVars
<1>2. CASE Shown' = Shown
  BY <1>1, <1>2 DEF Mirror!mirrorVars, Flying, Shown
<1>3. ASSUME NEW p \in Parcels, NEW l \in Wallets,
             <<p, l>> \in Shown, Shown' = Shown \ {<<p, l>>}
      PROVE  Mirror!Unlist(p, l)
  BY <1>1, <1>3 DEF Mirror!Unlist, Flying, Shown
<1>4. QED
  BY <1>2, <1>3, ShownShrinks

\* Which pairs remain announced when an event is done with, or sent again.
LEMMA FlyingAfter ==
    ASSUME NEW d \in deliveries, deliveries' \in {deliveries, deliveries \ {d}}
    PROVE  /\ d.event.type # "EncumbranceReleased" => Flying' = Flying
           /\ \A p \in Parcels, l \in Wallets :
                d.event.parcel = p /\ d.event.lender = l
                    => Flying' \in {Flying, Flying \ {<<p, l>>}}
<1>1. deliveries' \subseteq deliveries /\ \A e \in deliveries : e # d => e \in deliveries'
  OBVIOUS
<1>2. Flying' \subseteq Flying
  BY <1>1 DEF Flying, ReleaseInFlight
<1>3. ASSUME NEW p \in Parcels, NEW l \in Wallets, ReleaseInFlight(p, l),
             ~ReleaseInFlight(p, l)'
      PROVE  /\ d.event.type = "EncumbranceReleased"
             /\ d.event.parcel = p
             /\ d.event.lender = l
  BY <1>1, <1>3 DEF ReleaseInFlight
<1>4. ASSUME d.event.type # "EncumbranceReleased" PROVE Flying' = Flying
  BY <1>2, <1>3, <1>4 DEF Flying
<1>5. ASSUME NEW p \in Parcels, NEW l \in Wallets, d.event.parcel = p, d.event.lender = l
      PROVE  Flying' \in {Flying, Flying \ {<<p, l>>}}
  <2>1. \A q \in Parcels, w \in Wallets :
          <<q, w>> \in Flying /\ <<q, w>> \notin Flying' => q = p /\ w = l
    BY <1>3, <1>5, PairOf
  <2>2. \A x \in Flying \ Flying' : x = <<p, l>>
    BY <2>1, ArePairs
  <2>3. QED
    BY <1>2, <2>2
<1>6. QED
  BY <1>4, <1>5

\* Only a release event touches a lien: the row of a registered one has no parcel.
LEMMA OtherEvents ==
    ASSUME IndexInv, NEW e, RouteEvent(e)
    PROVE  \/ UNCHANGED liens /\ e.type # "EncumbranceReleased"
           \/ /\ e.type = "EncumbranceReleased"
              /\ DB!HandleEncumbranceReleased(e.parcel, e.lender)
<1>1. Nil \notin DOMAIN parcels
  BY LienSyncAssumption DEF IndexInv
<1>2. ASSUME DB!HandleEncumbranceRegistered(e.parcel, e.lender) PROVE UNCHANGED liens
  BY <1>1, <1>2 DEF DB!HandleEncumbranceRegistered, DB!Create, DB!Insertable, DB!NewRow
<1>3. QED
  BY <1>2 DEF RouteEvent, DB!UpdateOnChainAddress

\* An event of the webhook, however late or often it comes, takes off the list
\* whose end it announces, and nobody else.
LEMMA MirrorEvent ==
    ASSUME SyncTypeOK, RowsOK, IndexInv, NEW d \in deliveries, RouteEvent(d.event),
           deliveries' \in {deliveries, deliveries \ {d}}, UNCHANGED chainVars
    PROVE  \/ \E p \in Parcels, l \in Wallets : Mirror!CarryOut(p, l)
           \/ UNCHANGED Mirror!mirrorVars
<1>0. UNCHANGED encumbrance
  BY DEF chainVars
<1>1. CASE UNCHANGED liens /\ d.event.type # "EncumbranceReleased"
  <2>1. Flying' = Flying /\ Shown' = Shown
    BY <1>1, FlyingAfter, ShownFrame
  <2>2. QED
    BY <1>0, <2>1 DEF Mirror!mirrorVars, Flying, Shown
<1>2. CASE /\ d.event.type = "EncumbranceReleased"
           /\ DB!HandleEncumbranceReleased(d.event.parcel, d.event.lender)
  <2>1. PICK p \in Parcels, l \in Wallets : p = d.event.parcel /\ l = d.event.lender
    BY <1>2 DEF SyncTypeOK, WellFormed
  <2>2. Flying' \in {Flying, Flying \ {<<p, l>>}}
    BY <2>1, FlyingAfter
  <2>3. <<p, l>> \in Flying
    <3>1. ReleaseInFlight(p, l)
      BY <1>2, <2>1 DEF ReleaseInFlight
    <3>2. QED
      BY <3>1, PairOf
  <2>4. Shown' = Shown \ {<<p, l>>}
    <3>1. ASSUME NEW i \in DB!FindByWalletAndCadastral(l, p), DB!Release(i)
          PROVE  Shown' = Shown \ {<<p, l>>}
      <4>1. /\ liens[i].status = "active"
            /\ liens[i].cadastral_number = p
            /\ liens[i].lender_wallet = l
        BY <3>1 DEF DB!FindByWalletAndCadastral, DB!GetActive
      <4>2. QED
        BY <3>1, <4>1, ShownShrinks
    <3>2. ASSUME DB!FindByWalletAndCadastral(l, p) = {}, UNCHANGED liens
          PROVE  Shown' = Shown \ {<<p, l>>}
      <4>1. ~ShownBy(liens, p, l)
        BY <3>2 DEF ShownBy, DB!FindByWalletAndCadastral, DB!GetActive
      <4>2. <<p, l>> \notin Shown
        BY <4>1, PairOf
      <4>3. QED
        BY <3>2, <4>2, ShownFrame
    <3>3. QED
      BY <1>2, <2>1, <3>1, <3>2 DEF DB!HandleEncumbranceReleased
  <2>5. Mirror!CarryOut(p, l)
    BY <1>0, <2>2, <2>3, <2>4 DEF Mirror!CarryOut, Flying, Shown
  <2>6. QED
    BY <2>5
<1>3. QED
  BY <1>1, <1>2, OtherEvents

\* Every step of chain, tabs and webhook is one step of the mirror, or none.
LEMMA MirrorStep ==
    ASSUME TabOwnsWallet, SyncInv, IndexInv, Ledger!TypeOK, Ledger!LienInv, [Next]_vars
    PROVE  [Mirror!Next]_(Mirror!mirrorVars)
<1>0. SyncTypeOK /\ RowsOK /\ ~Lossy /\ \A c \in Clients : WalletOf[c] \in Wallets
  BY LienSyncAssumption DEF SyncInv, TabOwnsWallet
<1>1. ASSUME NEW l \in Wallets, NEW p \in Parcels, NEW amount,
             RegisterEncumbrance(l, p, amount), Emit, UNCHANGED liens
      PROVE  Mirror!Next
  BY <1>1, MirrorPledge DEF Mirror!Next
<1>2. ASSUME NEW l \in Wallets, NEW p \in Parcels, ReleaseEncumbrance(l, p), Emit,
             UNCHANGED liens
      PROVE  Mirror!Next
  BY <1>2, MirrorRedeem DEF Mirror!Next
<1>3. ASSUME UNCHANGED <<liens, deliveries, encumbrance>>
      PROVE  UNCHANGED Mirror!mirrorVars
  BY <1>3 DEF Mirror!mirrorVars, ReleaseInFlight, Indexed, DB!GetActive
<1>4. ASSUME NEW p \in Parcels, NEW w \in Wallets, RegisterOnChain(w, p)
      PROVE  UNCHANGED Mirror!mirrorVars
  <2>1. event'.type # "EncumbranceReleased" /\ Emit /\ UNCHANGED <<encumbrance, liens>>
    BY <1>4 DEF RegisterOnChain, RegisterParcel, lienVars, storeVars
  <2>2. Flying' = Flying /\ Shown' = Shown
    BY <2>1, FlyingFrame, ShownFrame
  <2>3. QED
    BY <2>1, <2>2 DEF Mirror!mirrorVars, Flying, Shown
<1>5. ASSUME NEW p \in Parcels, NEW w \in Wallets, DirectLien(w, p)
      PROVE  Mirror!Next
  BY <1>1, <1>2, <1>5 DEF DirectLien, storeVars
<1>6. ASSUME NEW c \in Clients, NEW p \in Parcels, Submit(c, p)
      PROVE  Mirror!Next
  BY <1>0, <1>1, <1>6 DEF Submit, SendRegistration, storeVars
<1>7. ASSUME NEW c \in Clients, NEW i, SendRelease(c, i)
      PROVE  Mirror!Next \/ UNCHANGED Mirror!mirrorVars
  <2>1. CASE UNCHANGED <<chainVars, deliveries>>
    BY <1>3, <1>7, <2>1 DEF SendRelease, storeVars, chainVars
  <2>2. CASE \E q \in Parcels : ReleaseEncumbrance(WalletOf[c], q) /\ Emit
    BY <1>0, <1>2, <1>7, <2>2 DEF SendRelease, storeVars
  <2>3. QED
    BY <1>7, <2>1, <2>2 DEF SendRelease
<1>8. ASSUME NEW c \in Clients, InsertLien(c)
      PROVE  Mirror!Next \/ UNCHANGED Mirror!mirrorVars
  <2> DEFINE row == DB!NewRow(client[c].parcel, client[c].parcel, WalletOf[c], NameOf[c])
  <2>1. CASE DB!Create(row)
    BY <1>0, <1>8, <2>1, MirrorList DEF InsertLien, Mirror!Next
  <2>2. CASE UNCHANGED storeVars
    BY <1>3, <1>8, <2>2 DEF InsertLien, storeVars, chainVars
  <2>3. QED
    BY <1>8, <2>1, <2>2 DEF InsertLien
<1>9. ASSUME NEW c \in Clients, PostRelease(c)
      PROVE  Mirror!Next \/ UNCHANGED Mirror!mirrorVars
  <2>1. CASE DB!ReleaseLien(client[c].row, NameOf[c])
    BY <1>0, <1>9, <2>1, MirrorUnlist DEF PostRelease, DB!ReleaseLien, Mirror!Next
  <2>2. CASE UNCHANGED storeVars
    BY <1>3, <1>9, <2>2 DEF PostRelease, storeVars, chainVars
  <2>3. QED
    BY <1>9, <2>1, <2>2 DEF PostRelease
<1>10. CASE Webhook
  <2>1. PICK d \in deliveries : /\ RouteEvent(d.event)
                                /\ deliveries' \in {deliveries, deliveries \ {d}}
                                /\ UNCHANGED chainVars
    BY <1>0, <1>10 DEF Webhook, Deliver, Redeliver
  <2>2. QED
    BY <1>0, <2>1, MirrorEvent DEF Mirror!Next
<1>11. CASE ClientStep
  <2>1. ASSUME NEW c \in Clients, NEW p \in Parcels, SubmitByDeeplink(c, p)
        PROVE  UNCHANGED Mirror!mirrorVars
    BY <1>3, <2>1 DEF SubmitByDeeplink, storeVars, chainVars
  <2>2. ASSUME NEW c \in Clients, CheckLien(c)
        PROVE  UNCHANGED Mirror!mirrorVars
    BY <1>3, <2>2 DEF CheckLien, storeVars, chainVars
  <2>3. QED
    BY <1>6, <1>7, <1>8, <1>9, <1>11, <2>1, <2>2 DEF ClientStep
<1>12. CASE \E p \in Parcels : PostParcel(p)
  BY <1>3, <1>12 DEF PostParcel, DB!RegisterParcelRow, chainVars
<1>13. CASE UNCHANGED vars
  BY <1>3, <1>13 DEF vars, storeVars, chainVars
<1>14. QED
  BY <1>4, <1>5, <1>10, <1>11, <1>12, <1>13 DEF Next

\* Chain, tables and webhook implement the mirror of a lock per parcel: whoever
\* the index lists was pledged when entered, alone, and stays listed at most
\* until the end of that pledge has been carried out.
THEOREM IndexIsAMirror == TabOwnsWallet => (Spec => IndexMirrorsChain)
<1> SUFFICES ASSUME TabOwnsWallet PROVE Spec => IndexMirrorsChain
  OBVIOUS
<1>1. Init => Mirror!Init
  <2> SUFFICES ASSUME Init PROVE Mirror!Init
    OBVIOUS
  <2>1. DOMAIN encumbrance = {} /\ DOMAIN liens = {} /\ deliveries = {}
    BY DEF Init, LienInit, DB!StoreInit
  <2>2. QED
    BY <2>1 DEF Mirror!Init, Mirror!Lock!Init, ReleaseInFlight, Indexed, DB!GetActive
<1>2. SyncInv /\ IndexInv /\ Ledger!TypeOK /\ Ledger!LienInv /\ [Next]_vars
        => [Mirror!Next]_(Mirror!mirrorVars)
  BY MirrorStep
<1>3. Spec => []Ledger!TypeOK /\ []Ledger!LienInv
  <2>1. Ledger!Spec => []Ledger!TypeOK
    BY Ledger!TypeCorrect, TerraTokenAssumption, LienRegistryAssumption
  <2>2. Ledger!Spec => []Ledger!LienInv
    BY Ledger!LienInvariant, TerraTokenAssumption, LienRegistryAssumption
  <2>3. QED
    BY <2>1, <2>2, SyncUsesTheLedger, PTL
<1>4. QED
  BY <1>1, <1>2, <1>3, SyncInvariant, IndexInvariant, PTL
     DEF Spec, IndexMirrorsChain, Mirror!Spec
=============================================================================
