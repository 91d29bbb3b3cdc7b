----------------------------- MODULE ParcelDetail -----------------------------
(***************************************************************************)
(* The page of one parcel (pages/ParcelDetail) with its two hooks,         *)
(* useCreditProfile and useSatelliteIndices.  Going to another parcel's    *)
(* page changes the URL; the page stays mounted and keeps what its hooks   *)
(* hold.                                                                   *)
(***************************************************************************)
EXTENDS WalletButton

VARIABLES
    detail,         \* [cadastral, profile, loading, error, ahi]
    hopped,         \* history: the URL changed while an answer was awaited
    indexed,        \* history: the indices of the parcel in the URL have come
    underLien       \* history: it has had a lien since before its page was opened

DetailInit ==
    /\ detail = [cadastral |-> None, profile |-> None, loading |-> FALSE, error |-> FALSE,
                 ahi |-> None]
    /\ hopped = FALSE /\ indexed = FALSE /\ underLien = FALSE

OfDetail == {r \in Requests : r.tab = "detail"}

\* Mutant: the last parcel is shown until the next has come.
StillShown(p) == [detail EXCEPT !.cadastral = p]

Refetched(p) == [detail EXCEPT !.cadastral = p, !.loading = TRUE, !.error = FALSE]

Open(p) ==
    /\ p # detail.cadastral /\ Free
    /\ detail' = Refetched(p)
    /\ pending' = pending (+) Only(AskProfile("detail", p))
                          (+) Only(Request("detail", "indices", p, None))
    /\ hopped' = (OfDetail # {})
    /\ indexed' = FALSE
    /\ underLien' = (p \in liens)
    /\ UNCHANGED <<tableVars, browser>>

DetailFailed(r) ==
    /\ IsRequest(r, "detail", "profile") /\ r.stage \in {"sent", "logged"}
    /\ detail' = [detail EXCEPT !.loading = FALSE, !.error = TRUE]
    /\ pending' = pending (-) Only(r)
    /\ UNCHANGED <<tableVars, browser, hopped, indexed, underLien>>

\* An answer does not clear an error that came after its own request.
DetailAnswered(r) ==
    /\ IsRequest(r, "detail", "profile") /\ r.stage = "logged"
    /\ \E profile \in Profiles(r) :
         detail' = [detail EXCEPT !.loading = FALSE, !.profile = profile]
    /\ pending' = pending (-) Only(r)
    /\ UNCHANGED <<tableVars, browser, hopped, indexed, underLien>>

\* A parcel whose series is not there yet has no index; an answer other than OK
\* leaves what the page has.
IndicesAnswered(r) ==
    /\ IsRequest(r, "detail", "indices")
    /\ \/ /\ \E ahi \in {None, r.parcel} : detail' = [detail EXCEPT !.ahi = ahi]
          /\ indexed' = (indexed \/ r.parcel = detail.cadastral)
       \/ UNCHANGED <<detail, indexed>>
    /\ pending' = pending (-) Only(r)
    /\ UNCHANGED <<tableVars, browser, hopped, underLien>>

DetailScreen ==
    IF detail.loading THEN "skeleton"
    ELSE IF detail.error THEN "error"
    ELSE IF detail.profile = None THEN "no data" ELSE "profile"

DetailClean == ~detail.profile.liens

DetailStep ==
    \/ \E p \in Parcels \cap scene : Open(p)
    \/ \E r \in Requests : DetailFailed(r) \/ DetailAnswered(r) \/ IndicesAnswered(r)
=============================================================================
