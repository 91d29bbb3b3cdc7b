----------------------------- MODULE CreditProfile ----------------------------
(***************************************************************************)
(* GET /parcels/:cadastral/profile for a parcel whose owner consents:      *)
(* cached scores, and the background computation that is started when the  *)
(* parcel has no satellite data yet (credit_handler.go).  Requests and     *)
(* background computations are goroutines.                                 *)
(***************************************************************************)
EXTENDS ScoreStore

CONSTANTS
    Requests,       \* profile requests that can be under way at the same time
    Workers,        \* background goroutines that can run at the same time
    MaxLiens        \* bound on the active liens of a parcel that are tried

ASSUME CreditProfileAssumption == MaxLiens \in Nat

VARIABLES
    request,        \* what each request has read so far
    worker          \* background goroutines, and the entries of the sync.Map
                    \* `inflight` they made

profileVars == <<request, worker>>

\* ListByParcel orders by minted_at, newest first, and rows of one batch are
\* equally new; ComputeIndexTrend takes the list to be in order of time.
AsListed(reading) ==
    {reading, [reading EXCEPT !.trend =
                 CASE @ = "improving" -> "declining"
                   [] @ = "declining" -> "improving"
                   [] OTHER -> @]}

Listings == UNION {AsListed(reading) : reading \in Readings}

\* answer: the Credit field of the response (None: "computing").
Request ==
    [ pc      : {"idle", "certs", "cached", "compute", "answered"},
      parcel  : Parcels \cup {None},
      reading : Listings \cup {None},
      answer  : CreditScore \cup {None} ]

\* parcel: what the goroutine computes, and the hash its entry is filed under.
\* key: what its `cadastral` reads as.  The string is part of a buffer of the
\* request's context, which the next request in that context overwrites.
\* stored: its entry is in the map, under that same string.
Worker ==
    [ pc      : {"idle", "fetch", "score", "delete"},
      parcel  : Parcels \cup {None},
      key     : Parcels \cup {None},
      stored  : BOOLEAN,
      reading : Readings \cup {None} ]

NoRequest == [pc |-> "idle", parcel |-> None, reading |-> None, answer |-> None]
NoWork == [pc |-> "idle", parcel |-> None, key |-> None, stored |-> FALSE, reading |-> None]

ProfileTypeOK ==
    /\ request \in [Requests -> Request]
    /\ worker \in [Workers -> Worker]

ProfileInit ==
    /\ request = [r \in Requests |-> NoRequest]
    /\ worker = [g \in Workers |-> NoWork]

-----------------------------------------------------------------------------
(* backgroundComputeScore *)

\* Entries that a lookup of p finds: filed under its hash and still equal to it.
Entries(p) == {g \in Workers : worker[g].stored /\ worker[g].parcel = p /\ worker[g].key = p}

\* LoadOrStore, and the goroutine if the key was not there.
BackgroundComputeScore(p) ==
    IF Entries(p) = {}
    THEN \E g \in Workers :
           /\ worker[g].pc = "idle" /\ ~worker[g].stored
           /\ worker' = [worker EXCEPT ![g] =
                [pc |-> "fetch", parcel |-> p, key |-> p, stored |-> TRUE, reading |-> None]]
    ELSE UNCHANGED worker

\* A later request is given the context: the string now reads differently.
Overwrite(g) ==
    /\ worker[g].pc # "idle" \/ worker[g].stored
    /\ \E key \in Parcels \cup {None} : worker' = [worker EXCEPT ![g].key = key]
    /\ UNCHANGED <<storeVars, request>>

WorkerFetch(g) ==
    /\ worker[g].pc = "fetch"
    /\ \E reading \in Readings \cup {None} :
         /\ FetchAndStoreSeries(worker[g].parcel, reading)
         /\ worker' = [worker EXCEPT ![g].pc = "score", ![g].reading = reading]
    /\ UNCHANGED <<credit_scores, request>>

\* An upsert that fails is not even logged.
WorkerScore(g) ==
    LET p == worker[g].parcel IN
    /\ worker[g].pc = "score"
    /\ \E n \in 0 .. MaxLiens :
         \E score \in ComputeScore(p, worker[g].reading, n) :
            Upsert(p, score) \/ UNCHANGED credit_scores
    /\ worker' = [worker EXCEPT ![g].pc = "delete", ![g].reading = None]
    /\ UNCHANGED <<certificates, request>>

\* The deferred Delete: of the entry found under what the string is by now,
\* which may be another goroutine's, or none.
WorkerDone(g) ==
    LET found == IF worker[g].key = None THEN {} ELSE Entries(worker[g].key)
        after(removed) ==
          [h \in Workers |->
             LET pc == IF h = g THEN "idle" ELSE worker[h].pc
                 stored == worker[h].stored /\ h \notin removed
             IN  IF pc = "idle" /\ ~stored THEN NoWork
                 ELSE [worker[h] EXCEPT !.pc = pc, !.stored = stored]]
    IN  /\ worker[g].pc = "delete"
        /\ \/ found = {} /\ worker' = after({})
           \/ \E h \in found : worker' = after({h})
        /\ UNCHANGED <<storeVars, request>>

-----------------------------------------------------------------------------
(* GetProfile *)

GetProfile(r, p) ==
    /\ request[r].pc = "idle"
    /\ request' = [request EXCEPT ![r] = [NoRequest EXCEPT !.pc = "certs", !.parcel = p]]
    /\ UNCHANGED <<storeVars, worker>>

\* No certificates, or an error of the query, which reads the same: a partial
\* profile.
ListCerts(r) ==
    LET p == request[r].parcel IN
    /\ request[r].pc = "certs"
    /\ \/ /\ certificates[p] # None
          /\ \E listed \in AsListed(certificates[p]) :
               request' = [request EXCEPT ![r].pc = "cached", ![r].reading = listed]
          /\ UNCHANGED worker
       \/ /\ BackgroundComputeScore(p)
          /\ request' = [request EXCEPT ![r].pc = "answered"]
    /\ UNCHANGED storeVars

FreshRow(p) == p \in DOMAIN credit_scores /\ credit_scores[p].fresh

ReadCached(r) ==
    LET p == request[r].parcel IN
    /\ request[r].pc = "cached"
    /\ request' = IF FreshRow(p)
                  THEN [request EXCEPT ![r].pc = "answered", ![r].answer = GetScore(p)]
                  ELSE [request EXCEPT ![r].pc = "compute"]
    /\ UNCHANGED <<storeVars, worker>>

\* The score is served even if it could not be cached.
ResolveScore(r) ==
    LET p == request[r].parcel IN
    /\ request[r].pc = "compute"
    /\ \E n \in 0 .. MaxLiens :
         \E score \in ComputeScore(p, request[r].reading, n) :
            /\ Upsert(p, score) \/ UNCHANGED credit_scores
            /\ request' = [request EXCEPT ![r].pc = "answered", ![r].answer = score]
    /\ UNCHANGED <<certificates, worker>>

Receive(r) ==
    /\ request[r].pc = "answered"
    /\ request' = [request EXCEPT ![r] = NoRequest]
    /\ UNCHANGED <<storeVars, worker>>

WorkerStep(g) == WorkerFetch(g) \/ WorkerScore(g) \/ WorkerDone(g)

RequestStep(r) ==
    \/ \E p \in Parcels : GetProfile(r, p)
    \/ ListCerts(r) \/ ReadCached(r) \/ ResolveScore(r) \/ Receive(r)
=============================================================================
