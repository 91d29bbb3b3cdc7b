----------------------------- MODULE LienRegistry -----------------------------
(***************************************************************************)
(* The lien_registry program: one EncumbranceAccount per (parcel, lender)  *)
(* and one LienIndex per parcel.  Double pledges are prevented by the      *)
(* index's counter, not by the encumbrance accounts, so the two have to    *)
(* agree.  lien_registry depends on terra_token (a CPI and a direct read   *)
(* of the ParcelConfig account), hence the EXTENDS.                        *)
(***************************************************************************)
EXTENDS TerraToken

CONSTANT Amounts    \* amounts tried in register_encumbrance

ASSUME LienRegistryAssumption == Amounts \subseteq Nat

VARIABLES
    encumbrance,    \* EncumbranceAccounts, by <<parcel, lender>>
    lien_index      \* LienIndex accounts, by parcel

lienVars == <<encumbrance, lien_index>>

STATUS_ACTIVE == 0

EncumbranceAccount ==
    [lender : Wallets, amount : Nat \ {0}, status : {STATUS_ACTIVE}]

LienIndex == [active_lien_count : U8, total_lien_count : U16]

LienInit ==
    /\ encumbrance = [e \in {} |-> {}]
    /\ lien_index = [p \in {} |-> {}]

\* Mutant: the index is created anew by every registration.
IndexAlwaysZero(p) == [active_lien_count |-> 0, total_lien_count |-> 0]

\* init_if_needed: an index that does not exist yet is created zeroed.
IndexOrZero(p) ==
    IF p \in DOMAIN lien_index THEN lien_index[p]
    ELSE [active_lien_count |-> 0, total_lien_count |-> 0]

\* Mutant: a release leaves the counter.
NoDec(n) == n

SaturatingDec(n) == IF n > 0 THEN n - 1 ELSE 0

\* Mutant: the parcel's liens are not looked at.
AnyLienCount(p) == TRUE

NoActiveLien(p) == IndexOrZero(p).active_lien_count = 0

RegisterAllowed(lender, p, amount) ==
    /\ VerifyParcel(p)
    /\ <<p, lender>> \notin DOMAIN encumbrance          \* `init`
    /\ amount > 0
    /\ parcel_config[p].kyc_verified
    /\ NoActiveLien(p)
    /\ IndexOrZero(p).total_lien_count < MaxU16         \* checked_add

RegisterEncumbrance(lender, p, amount) ==
    /\ RegisterAllowed(lender, p, amount)
    /\ encumbrance' =
         [e \in DOMAIN encumbrance \cup {<<p, lender>>} |->
            IF e = <<p, lender>>
            THEN [lender |-> lender, amount |-> amount, status |-> STATUS_ACTIVE]
            ELSE encumbrance[e]]
    /\ lien_index' =
         [q \in DOMAIN lien_index \cup {p} |->
            IF q = p
            THEN [active_lien_count |-> IndexOrZero(p).active_lien_count + 1,
                  total_lien_count  |-> IndexOrZero(p).total_lien_count + 1]
            ELSE lien_index[q]]
    /\ event' = [type |-> "EncumbranceRegistered", parcel |-> p,
                 lender |-> lender, amount |-> amount]
    /\ UNCHANGED <<slot, parcel_config>>

\* Mutant: the released account is kept, with its status changed.
KeptReleased(e) == [encumbrance EXCEPT ![e].status = 1]

\* `close = lender`: the account is gone after the instruction.
Closed(e) == [x \in DOMAIN encumbrance \ {e} |-> encumbrance[x]]

ReleaseAllowed(lender, p) ==
    /\ <<p, lender>> \in DOMAIN encumbrance
    /\ encumbrance[<<p, lender>>].lender = lender       \* has_one
    /\ encumbrance[<<p, lender>>].status = STATUS_ACTIVE
    /\ p \in DOMAIN lien_index

ReleaseEncumbrance(lender, p) ==
    /\ ReleaseAllowed(lender, p)
    /\ encumbrance' = Closed(<<p, lender>>)
    /\ lien_index' = [lien_index EXCEPT ![p].active_lien_count = SaturatingDec(@)]
    /\ event' = [type |-> "EncumbranceReleased", parcel |-> p, lender |-> lender]
    /\ UNCHANGED <<slot, parcel_config>>

\* What seasonal_check learns from the optional lien index account it is given:
\* any parcel's index is accepted, because only the account's owner is checked,
\* and leaving the account out (here: naming an index that does not exist)
\* reads as no lien.
ResolveActiveLien(q) ==
    q \in DOMAIN lien_index /\ lien_index[q].active_lien_count > 0
=============================================================================
