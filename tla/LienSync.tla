------------------------------- MODULE LienSync -------------------------------
(***************************************************************************)
(* Two records of the same liens: the accounts on chain and the rows in    *)
(* the backend's index.  The web client writes both, chain first, then     *)
(* REST; the Helius webhook delivers what the chain emitted, late, in any  *)
(* order and possibly twice.  SDK users act on the chain alone.            *)
(***************************************************************************)
EXTENDS LienRegistry, FiniteSets, Sequences

CONSTANTS
    LenderNames,
    Nil,
    Clients,        \* browser tabs, one lien flow at a time in each
    WalletOf,       \* WalletOf[c]: the wallet connected in tab c
    NameOf,         \* NameOf[c]: the lender whose API key tab c sends
    DeeplinkTabs,   \* tabs on the wizard's RegisterLienStep with a wallet but
                    \* without the extension
    Farmers,        \* wallets that register parcels
    DirectWallets,  \* wallets used through the SDK, without the REST API
    MaxRows,        \* bound on the rows a deeplink tab adds
    Lossy           \* whether the processing of an event may fail

ASSUME LienSyncAssumption ==
    /\ Nil \notin Parcels \cup Wallets \cup LenderNames
    /\ WalletOf \in [Clients -> Wallets]
    /\ NameOf \in [Clients -> LenderNames]
    /\ DeeplinkTabs \subseteq Clients
    /\ Farmers \subseteq Wallets
    /\ DirectWallets \subseteq Wallets
    /\ MaxRows \in Nat
    /\ Lossy \in BOOLEAN

VARIABLES
    parcels, liens,     \* the tables
    client,             \* what each tab is doing
    deliveries          \* events emitted and not yet acknowledged

DB == INSTANCE BackendLiens

chainVars == <<slot, parcel_config, event, encumbrance, lien_index>>
storeVars == <<parcels, liens>>
vars == <<chainVars, storeVars, client, deliveries>>

\* pc: idle; check and insert are the two statements of POST /liens; release
\* is the request POST /liens/:id/release.
Client ==
    [ pc     : {"idle", "check", "insert", "release"},
      parcel : Parcels \cup {Nil},
      row    : Nat ]

Idle == [pc |-> "idle", parcel |-> Nil, row |-> 0]

Init ==
    /\ TokenInit
    /\ LienInit
    /\ DB!StoreInit
    /\ client = [c \in Clients |-> Idle]
    /\ deliveries = {}

\* The transaction's event is queued for the webhook.  The count of the parcel's
\* liens tells one lien's events from the next one's.
Emit ==
    deliveries' = deliveries \cup
        {[event |-> event', lien |-> IF event'.parcel \in DOMAIN lien_index'
                                     THEN lien_index'[event'.parcel].total_lien_count
                                     ELSE 0]}

-----------------------------------------------------------------------------
(* Farmers and SDK users *)

\* RegisterParcelStep sends the transaction and then POSTs the parcel, or POSTs
\* alone without an extension wallet; either call may fail unnoticed.  So both
\* happen, in any order, or do not.
RegisterOnChain(w, p) ==
    /\ w \in Farmers
    /\ \E survey \in Surveys : RegisterParcel(w, p, survey)
    /\ UNCHANGED lienVars
    /\ Emit
    /\ UNCHANGED <<storeVars, client>>

PostParcel(p) ==
    /\ DB!RegisterParcelRow(p)
    /\ UNCHANGED <<chainVars, client, deliveries>>

DirectLien(w, p) ==
    /\ w \in DirectWallets
    /\ \/ \E amount \in Amounts : RegisterEncumbrance(w, p, amount)
       \/ ReleaseEncumbrance(w, p)
    /\ Emit
    /\ UNCHANGED <<storeVars, client>>

-----------------------------------------------------------------------------
(* Registering a lien in the browser *)

\* Mutant: the REST request is sent whatever became of the transaction.
SendAnyhow(c, p) ==
    /\ client' = [client EXCEPT ![c] = [Idle EXCEPT !.pc = "check", !.parcel = p]]
    /\ UNCHANGED <<chainVars, deliveries>>

\* handleRegister / handleSubmit up to signAndSend.  A confirmation that is
\* late or lost throws although the transaction landed; a failed transaction
\* ends the flow, with no change but the message shown.
SendRegistration(c, p) ==
    /\ \E amount \in Amounts : RegisterEncumbrance(WalletOf[c], p, amount)
    /\ Emit
    /\ \/ client' = [client EXCEPT ![c] = [Idle EXCEPT !.pc = "check", !.parcel = p]]
       \/ UNCHANGED client

Submit(c, p) ==
    /\ client[c].pc = "idle"
    /\ c \notin DeeplinkTabs
    /\ SendRegistration(c, p)
    /\ UNCHANGED storeVars

\* Without the extension the step skips the transaction.
SubmitByDeeplink(c, p) ==
    /\ client[c].pc = "idle"
    /\ c \in DeeplinkTabs
    /\ Len(liens) < MaxRows
    /\ client' = [client EXCEPT ![c] = [Idle EXCEPT !.pc = "check", !.parcel = p]]
    /\ UNCHANGED <<chainVars, storeVars, deliveries>>

\* registerLien returns null on any error: the flow is over, whatever is shown.
FlowOver(c) == client' = [client EXCEPT ![c] = Idle]

\* POST /liens, first statement: GetActive and GetByCadastral; or the request
\* never arrives.
CheckLien(c) ==
    /\ client[c].pc = "check"
    /\ \/ DB!LienAllowed(client[c].parcel) /\ client' = [client EXCEPT ![c].pc = "insert"]
       \/ FlowOver(c)
    /\ UNCHANGED <<chainVars, storeVars, deliveries>>

\* POST /liens, second statement: the insert, which the database may refuse.
InsertLien(c) ==
    LET p == client[c].parcel
        row == DB!NewRow(p, p, WalletOf[c], NameOf[c])
    IN  /\ client[c].pc = "insert"
        /\ \/ DB!Create(row)
           \/ ~DB!Insertable(row) /\ UNCHANGED storeVars
        /\ FlowOver(c)
        /\ UNCHANGED <<chainVars, deliveries>>

-----------------------------------------------------------------------------
(* Releasing a lien in the browser *)

\* handleRelease: the id comes from the list or is typed in (0: one the backend
\* does not know); the on-chain release is for the parcel in the search field,
\* which need not be the row's, and whatever it throws is swallowed.
SendRelease(c, i) ==
    /\ client[c].pc = "idle"
    /\ \/ \E q \in Parcels : ReleaseEncumbrance(WalletOf[c], q) /\ Emit
       \/ UNCHANGED <<chainVars, deliveries>>
    /\ client' = [client EXCEPT ![c] = [Idle EXCEPT !.pc = "release", !.row = i]]
    /\ UNCHANGED storeVars

\* POST /liens/:id/release, or its failure.
PostRelease(c) ==
    /\ client[c].pc = "release"
    /\ DB!ReleaseLien(client[c].row, NameOf[c]) \/ UNCHANGED storeVars
    /\ FlowOver(c)
    /\ UNCHANGED <<chainVars, deliveries>>

-----------------------------------------------------------------------------
(* The webhook *)

\* Mutant: the switch has no case for parcels.
RouteLiensOnly(e) ==
    \/ /\ e.type = "ParcelRegistered"
       /\ UNCHANGED storeVars
    \/ /\ e.type = "EncumbranceRegistered"
       /\ DB!HandleEncumbranceRegistered(e.parcel, e.lender)
    \/ /\ e.type = "EncumbranceReleased"
       /\ DB!HandleEncumbranceReleased(e.parcel, e.lender)

RouteEvent(e) ==
    \/ /\ e.type = "ParcelRegistered"
       /\ DB!UpdateOnChainAddress(e.parcel, e.owner)
    \/ /\ e.type = "EncumbranceRegistered"
       /\ DB!HandleEncumbranceRegistered(e.parcel, e.lender)
    \/ /\ e.type = "EncumbranceReleased"
       /\ DB!HandleEncumbranceReleased(e.parcel, e.lender)

\* The answer is 200 whatever the handler met, so the event is not sent again,
\* unless the answer came too late for the sender (Redeliver).
Deliver(d) ==
    /\ d \in deliveries
    /\ \/ RouteEvent(d.event)
       \/ Lossy /\ UNCHANGED storeVars
    /\ deliveries' = deliveries \ {d}
    /\ UNCHANGED <<chainVars, client>>

Redeliver(d) ==
    /\ d \in deliveries
    /\ RouteEvent(d.event)
    /\ UNCHANGED <<chainVars, client, deliveries>>

-----------------------------------------------------------------------------

ClientStep ==
    \E c \in Clients :
        \/ \E p \in Parcels : Submit(c, p) \/ SubmitByDeeplink(c, p)
        \/ CheckLien(c) \/ InsertLien(c)
        \/ \E i \in {0} \cup DOMAIN liens : SendRelease(c, i)
        \/ PostRelease(c)

Webhook == \E d \in deliveries : Deliver(d) \/ Redeliver(d)

Next ==
    \/ \E p \in Parcels, w \in Wallets : RegisterOnChain(w, p) \/ DirectLien(w, p)
    \/ \E p \in Parcels : PostParcel(p)
    \/ ClientStep
    \/ Webhook

Spec == Init /\ [][Next]_vars

\* Helius retries an event until it is answered, so one of the releases that
\* wait for a parcel and a lender is eventually processed, and the registration
\* of a parcel is.  Nothing obliges a tab to go on: it can be closed at any point.
DeliverRelease(p, w) ==
    \E d \in deliveries : /\ d.event.type = "EncumbranceReleased"
                          /\ d.event.parcel = p
                          /\ d.event.lender = w
                          /\ Deliver(d)

IsParcelEvent(d, p) == d.event.type = "ParcelRegistered" /\ d.event.parcel = p

DeliverParcel(p) == \E d \in deliveries : IsParcelEvent(d, p) /\ Deliver(d)

Fairness ==
    /\ \A p \in Parcels, w \in Wallets : WF_vars(DeliverRelease(p, w))
    /\ \A p \in Parcels : WF_vars(DeliverParcel(p))

FairSpec == Spec /\ Fairness

-----------------------------------------------------------------------------
(* What keeps the index usable *)

Held(p, w) == <<p, w>> \in DOMAIN encumbrance

Indexed(p, w) == \E i \in DB!GetActive(p) : liens[i].lender_wallet = w

ReleaseInFlight(p, w) ==
    \E d \in deliveries : /\ d.event.type = "EncumbranceReleased"
                          /\ d.event.parcel = p
                          /\ d.event.lender = w

\* Two requests that both passed the check cannot both become active liens of
\* a parcel: a credit profile never shows two lenders.
OneActiveRowPerParcel ==
    \A p \in Parcels : Cardinality(DB!GetActive(p)) <= 1

\* A row is released by the tab of a lender of its name (lien_handler.go: "only
\* the lien owner can release") or because the lender's wallet released a lien
\* on that parcel on chain; nobody else's release reaches it.
ReleasedByItsLender ==
    [][\A i \in DOMAIN liens :
         liens[i].status = "active" /\ liens'[i].status = "released" =>
             \/ \E c \in Clients : /\ client[c].pc = "release"
                                   /\ client[c].row = i
                                   /\ NameOf[c] = liens[i].lender_name
             \/ ReleaseInFlight(liens[i].cadastral_number, liens[i].lender_wallet)]_vars

\* A lien the index shows as active is held on chain, or its release is known
\* to be on the way: no interleaving of two lenders' flows, releases, late and
\* repeated events leaves a lender listed who holds nothing.
ActiveRowExplained ==
    \A p \in Parcels, w \in Wallets :
        Indexed(p, w) => Held(p, w) \/ ReleaseInFlight(p, w)

\* A row is entered only while its lender holds the parcel: the client's order,
\* chain first, survives everything the others do in between.
RowsBackedWhenInserted ==
    [][\A p \in Parcels, w \in Wallets :
         ~Indexed(p, w) /\ Indexed(p, w)' => Held(p, w)]_vars

Mirror == INSTANCE LienMirror WITH
              Lenders <- Wallets,
              pledged <- DOMAIN encumbrance,
              ending  <- {e \in Parcels \X Wallets : ReleaseInFlight(e[1], e[2])},
              listed  <- {e \in Parcels \X Wallets : Indexed(e[1], e[2])}

\* Chain, tables and deliveries together are one index that mirrors one lock per
\* parcel: every request, transaction and event is one step of the mirror or
\* none, so whoever is listed was pledged, alone, and is taken off by an end.
IndexMirrorsChain == Mirror!Spec

\* A row whose lien was released on chain does not stay active, even if the
\* tab that released it was closed before it told the backend.
StaleRowsVanish ==
    \A p \in Parcels, w \in Wallets :
        Indexed(p, w) /\ ~Held(p, w) ~> ~Indexed(p, w) \/ Held(p, w)

\* The address of a parcel's row is the wallet that owns it on chain, as soon as
\* there is one and for ever: whether the row is posted before, between or after
\* the deliveries, and posted again, none of them clears or changes it.
AddressSettled ==
    [][\A p \in DOMAIN parcels :
         parcels[p] # Nil => /\ parcels'[p] = parcels[p]
                             /\ Registered(p)'
                             /\ parcels'[p] = parcel_config'[p].owner]_vars

\* It is too late for POST /parcels only when the event has been processed: a row
\* that is there before gets its address.
AddressArrives ==
    \A p \in Parcels :
        p \in DOMAIN parcels /\ (\E d \in deliveries : IsParcelEvent(d, p))
            ~> p \in DOMAIN parcels /\ parcels[p] # Nil

-----------------------------------------------------------------------------
(* What the documentation says and the code does not do *)

\* README: "Helius webhooks keep the PostgreSQL index in sync with on-chain
\* events".  When each lien of a parcel has got its row, processing an event
\* never takes the row of the lien that is held.
EachLienHasItsRow(p) ==
    Cardinality({i \in DOMAIN liens : liens[i].cadastral_number = p})
        = IndexOrZero(p).total_lien_count

WebhookReleasesOnlyEnded ==
    [][\A p \in Parcels, w \in Wallets :
         /\ UNCHANGED <<chainVars, client>>
         /\ EachLienHasItsRow(p)
         /\ Held(p, w)
         /\ Indexed(p, w)
         => Indexed(p, w)']_vars
=============================================================================
