----------------------------- MODULE BackendLiens -----------------------------
(***************************************************************************)
(* The backend's PostgreSQL index of parcels and liens, and the two kinds  *)
(* of handlers that write it: the REST API (parcel_handler, lien_handler)  *)
(* and the Helius webhook (webhook_handler).  A statement is atomic; a     *)
(* handler that issues two statements is two actions of LienSync.          *)
(***************************************************************************)
EXTENDS Naturals, Sequences

CONSTANTS
    Parcels,        \* cadastral numbers
    Wallets,        \* wallet addresses
    LenderNames,    \* names of the lenders that own the API keys
    Nil             \* the zero uuid, a NULL column, an empty string; none of the above

VARIABLES
    parcels,    \* rows of table parcels: cadastral_number -> on_chain_address
    liens       \* rows of table liens, in the order of insertion

LienRow ==
    [ parcel_id        : Parcels \cup {Nil},
      cadastral_number : Parcels,
      lender_wallet    : Wallets,
      lender_name      : LenderNames \cup {Nil},
      status           : {"active", "released"} ]

StoreTypeOK ==
    /\ DOMAIN parcels \subseteq Parcels
    /\ parcels \in [DOMAIN parcels -> Wallets \cup {Nil}]
    /\ liens \in Seq(LienRow)

StoreInit ==
    /\ parcels = [p \in {} |-> Nil]
    /\ liens = <<>>

-----------------------------------------------------------------------------
(* Statements on liens *)

GetActive(p) ==
    {i \in DOMAIN liens : /\ liens[i].cadastral_number = p
                          /\ liens[i].status = "active"}

\* Mutants: a condition is left out of the WHERE clause.
FindAnyStatus(w, p) ==
    {i \in DOMAIN liens : /\ liens[i].cadastral_number = p
                          /\ liens[i].lender_wallet = w}

FindAnyWallet(w, p) == GetActive(p)

FindByWalletAndCadastral(w, p) ==
    {i \in GetActive(p) : liens[i].lender_wallet = w}

\* Mutant: the database as it was before migration 015.
NoUniqueIndex(row) == row.parcel_id \in DOMAIN parcels

\* The foreign key of migration 003 and the partial unique index of 015.  Every
\* row is inserted with status 'active'.
Insertable(row) ==
    /\ row.parcel_id \in DOMAIN parcels
    /\ GetActive(row.cadastral_number) = {}

Create(row) ==
    /\ Insertable(row)
    /\ liens' = Append(liens, row)
    /\ UNCHANGED parcels

\* No condition on the status the row has.
Release(i) ==
    /\ i \in DOMAIN liens
    /\ liens' = [liens EXCEPT ![i].status = "released"]
    /\ UNCHANGED parcels

NewRow(parcel_id, p, w, name) ==
    [parcel_id |-> parcel_id, cadastral_number |-> p, lender_wallet |-> w,
     lender_name |-> name, status |-> "active"]

-----------------------------------------------------------------------------
(* REST *)

\* Mutant: an upsert, which writes the row of a parcel that has one anew.
UpsertParcelRow(p) ==
    /\ parcels' = [q \in DOMAIN parcels \cup {p} |->
                     IF q = p THEN Nil ELSE parcels[q]]
    /\ UNCHANGED liens

\* POST /parcels: one row per cadastral number, on_chain_address left NULL.
RegisterParcelRow(p) ==
    /\ p \notin DOMAIN parcels
    /\ parcels' = [q \in DOMAIN parcels \cup {p} |->
                     IF q = p THEN Nil ELSE parcels[q]]
    /\ UNCHANGED liens

\* POST /liens reads before it inserts: 409 when the parcel has an active lien,
\* 404 when it has no row.
LienAllowed(p) == GetActive(p) = {} /\ p \in DOMAIN parcels

\* POST /liens/:id/release: only for the lender whose name is on the lien.
ReleaseLien(i, name) ==
    /\ i \in DOMAIN liens
    /\ liens[i].lender_name = name
    /\ Release(i)

-----------------------------------------------------------------------------
(* Webhook: an error of the repository is logged and the event is over *)

UpdateOnChainAddress(p, owner) ==
    /\ parcels' = [q \in DOMAIN parcels |-> IF q = p THEN owner ELSE parcels[q]]
    /\ UNCHANGED liens

\* The row carries no parcel_id, so the insert is refused for every parcel.
HandleEncumbranceRegistered(p, w) ==
    LET row == NewRow(Nil, p, w, Nil)
    IN  \/ Create(row)
        \/ ~Insertable(row) /\ UNCHANGED <<parcels, liens>>

\* LIMIT 1 without ORDER BY: any of the rows found.
HandleEncumbranceReleased(p, w) ==
    \/ \E i \in FindByWalletAndCadastral(w, p) : Release(i)
    \/ FindByWalletAndCadastral(w, p) = {} /\ UNCHANGED <<parcels, liens>>
=============================================================================
