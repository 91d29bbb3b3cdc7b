-------------------------- MODULE ScorePipeline_proofs -------------------------
(***************************************************************************)
(* Proofs about the scores, for any series the satellite yields, any       *)
(* answers of the language model, any number of parcels, requests and      *)
(* background goroutines.                                                  *)
(***************************************************************************)
EXTENDS ScorePipeline, TerraToken_proofs

-----------------------------------------------------------------------------
(* The scorer *)

\* A series, or its reversal.
Series ==
    [ ndvi : Int, ndwi : Int, evi : Int, trend : {"improving", "stable", "declining"} ]

\* Clamping a number leaves it in range.
LEMMA ClampedScore == \A n \in Int : Within(0, 100, n) \in Scores
BY DEF Within, Scores

\* The same of a ratio.
LEMMA ClampedRatio == \A n \in Int : Within(0, 10000, n) \in Ratios
BY SMTT(30) DEF Within, Ratios

\* The formula's points are a number whatever the series.
LEMMA FallbackPointsType ==
    ASSUME NEW p \in Parcels, NEW reading \in Series \cup {None}, NEW n \in Nat
    PROVE  FallbackPoints(p, reading, n) \in Int
<1>2. If(n = 0, 15) \in Int /\ If(LandClass[p] <= 3, 10) \in Int
  BY DEF If
<1>3. CASE reading = None
  BY <1>2, <1>3 DEF FallbackPoints
<1>4. CASE reading # None
  <2>2. /\ If(reading.ndvi > 6, 20) \in Int /\ If(reading.ndwi < -3, 10) \in Int
        /\ If(reading.evi > 4, 5) \in Int
        /\ If(reading.trend = "improving", 5) \in Int
        /\ If(reading.trend = "declining", 5) \in Int
    BY DEF If
  <2>3. QED
    BY <1>2, <1>4, <2>2 DEF FallbackPoints
<1>5. QED
  BY <1>3, <1>4

\* Whatever the model answers, or if it does not, the score, the grade and the
\* ratio are what the table's columns and the program's checks accept.
LEMMA ComputeScoreType ==
    ASSUME NEW p \in Parcels, NEW reading \in Series \cup {None}, NEW n \in Nat
    PROVE  ComputeScore(p, reading, n) \subseteq CreditScore
<1>1. FallbackScore(p, reading, n) \in CreditScore
  <2> DEFINE m == Within(0, 100, FallbackPoints(p, reading, n))
  <2>1. m \in 0 .. 100
    <3>1. FallbackPoints(p, reading, n) \in Int
      BY FallbackPointsType
    <3>2. QED
      BY <3>1, ClampedScore DEF Scores
  <2>2. GradeFromScore(m) \in [grade : Grades, ltv : Ratios]
    <3> HIDE DEF m
    <3>1. CASE m >= 80
      BY <2>1, <3>1 DEF GradeFromScore, Grades, Ratios
    <3>2. CASE m \in 60 .. 79
      BY <2>1, <3>2 DEF GradeFromScore, Grades, Ratios
    <3>3. CASE m \in 40 .. 59
      BY <2>1, <3>3 DEF GradeFromScore, Grades, Ratios
    <3>4. CASE m < 40
      BY <2>1, <3>4 DEF GradeFromScore, Grades, Ratios
    <3>5. QED
      BY <2>1, <3>1, <3>2, <3>3, <3>4
  <2>3. QED
    BY <2>1, <2>2 DEF FallbackScore, CreditScore, Scores
<1>2. ASSUME NEW a \in ModelAnswers
      PROVE  Clamped(a) \in CreditScore
  <2>1. PICK i \in Int, j \in Int : i = a.ai_score /\ j = a.recommended_ltv
    BY ScoreStoreAssumption
  <2>2. Within(0, 100, i) \in Scores
    BY ClampedScore
  <2>3. Within(0, 10000, j) \in Ratios
    BY ClampedRatio
  <2>4. (IF a.grade \in Grades THEN a.grade ELSE 3) \in Grades
    BY DEF Grades
  <2>5. QED
    BY <2>1, <2>2, <2>3, <2>4 DEF Clamped, CreditScore
<1>3. QED
  BY <1>1, <1>2 DEF ComputeScore

\* What can be fetched is a series, and so is what can be listed of it.
LEMMA SeriesListed == Readings \subseteq Series /\ Listings \subseteq Series
<1>1. Readings \subseteq Series
  BY ScoreStoreAssumption DEF Series
<1>2. ASSUME NEW reading \in Series
      PROVE  AsListed(reading) \subseteq Series
  BY DEF AsListed, Series
<1>3. QED
  BY <1>1, <1>2 DEF Listings

-----------------------------------------------------------------------------
(* The tables *)

\* An upsert of a score in range.
LEMMA UpsertType ==
    ASSUME StoreTypeOK, NEW p \in Parcels, NEW score \in CreditScore,
           Upsert(p, score) \/ UNCHANGED credit_scores, UNCHANGED certificates
    PROVE  StoreTypeOK'
<1>1. CASE Upsert(p, score)
  <2>1. [score |-> score, fresh |-> TRUE] \in [score : CreditScore, fresh : BOOLEAN]
    OBVIOUS
  <2>2. QED
    BY <1>1, <2>1 DEF StoreTypeOK, Upsert
<1>2. CASE UNCHANGED credit_scores
  BY <1>2 DEF StoreTypeOK
<1>3. QED
  BY <1>1, <1>2

\* A series that is stored, or is not.
LEMMA FetchType ==
    ASSUME StoreTypeOK, NEW p, NEW reading, FetchAndStoreSeries(p, reading),
           UNCHANGED credit_scores
    PROVE  StoreTypeOK'
BY DEF StoreTypeOK, FetchAndStoreSeries

\* A row that ages.
LEMMA AgeType ==
    ASSUME StoreTypeOK, NEW p, RowAges(p)
    PROVE  StoreTypeOK'
<1>1. /\ p \in DOMAIN credit_scores
      /\ credit_scores[p] \in [score : CreditScore, fresh : BOOLEAN]
  BY DEF RowAges, StoreTypeOK
<1>2. [credit_scores[p] EXCEPT !.fresh = FALSE] \in [score : CreditScore, fresh : BOOLEAN]
  BY <1>1
<1>3. QED
  BY <1>1, <1>2 DEF RowAges, StoreTypeOK

-----------------------------------------------------------------------------
(* The goroutines *)

\* Requests and background computations are typed, and one that is at work
\* knows its parcel.
ProfileOK ==
    /\ ProfileTypeOK
    /\ \A r \in Requests : request[r].pc # "idle" => request[r].parcel \in Parcels
    /\ \A g \in Workers : worker[g].pc # "idle" => worker[g].parcel \in Parcels

\* Each assignment to a request keeps it one.
LEMMA RequestType ==
    ASSUME ProfileOK, NEW r \in Requests, NEW q \in Request,
           q.pc # "idle" => q.parcel \in Parcels,
           request' = [request EXCEPT ![r] = q]
    PROVE  /\ request' \in [Requests -> Request]
           /\ \A s \in Requests : request'[s].pc # "idle" => request'[s].parcel \in Parcels
<1>1. request \in [Requests -> Request]
  BY DEF ProfileOK, ProfileTypeOK
<1>2. QED
  BY <1>1 DEF ProfileOK

\* The same of a background goroutine.
LEMMA WorkerType ==
    ASSUME ProfileOK, NEW g \in Workers, NEW k \in Worker,
           k.pc # "idle" => k.parcel \in Parcels,
           worker' = [worker EXCEPT ![g] = k]
    PROVE  /\ worker' \in [Workers -> Worker]
           /\ \A h \in Workers : worker'[h].pc # "idle" => worker'[h].parcel \in Parcels
<1>1. worker \in [Workers -> Worker]
  BY DEF ProfileOK, ProfileTypeOK
<1>2. QED
  BY <1>1 DEF ProfileOK

\* A profile request.
LEMMA RequestStepType ==
    ASSUME StoreTypeOK, ProfileOK, NEW r \in Requests, RequestStep(r)
    PROVE  StoreTypeOK' /\ ProfileOK'
<1>0. /\ request[r] \in Request
      /\ request[r].pc # "idle" => request[r].parcel \in Parcels
      /\ worker \in [Workers -> Worker]
  BY DEF ProfileOK, ProfileTypeOK
<1>1. ASSUME UNCHANGED worker, NEW q \in Request, q.pc # "idle" => q.parcel \in Parcels,
             request' = [request EXCEPT ![r] = q]
      PROVE  ProfileOK'
  BY <1>0, <1>1, RequestType DEF ProfileOK, ProfileTypeOK
<1>2. NoRequest \in Request /\ NoRequest.pc = "idle"
  BY DEF NoRequest, Request
<1>3. ASSUME NEW p \in Parcels, GetProfile(r, p)
      PROVE  StoreTypeOK' /\ ProfileOK'
  <2>1. [NoRequest EXCEPT !.pc = "certs", !.parcel = p] \in Request
    <3>1. NoRequest = [pc |-> "idle", parcel |-> None, reading |-> None, answer |-> None]
      BY DEF NoRequest
    <3>2. QED
      BY <3>1 DEF Request
  <2>2. [NoRequest EXCEPT !.pc = "certs", !.parcel = p].parcel = p
    <3>1. NoRequest = [pc |-> "idle", parcel |-> None, reading |-> None, answer |-> None]
      BY DEF NoRequest
    <3>2. QED
      BY <3>1
  <2>3. QED
    BY <1>1, <1>3, <2>1, <2>2 DEF GetProfile, storeVars, StoreTypeOK
<1>4. CASE ListCerts(r)
  <2> DEFINE p == request[r].parcel
  <2>1. p \in Parcels
    BY <1>0, <1>4 DEF ListCerts
  <2>2. CASE /\ certificates[p] # None
             /\ \E listed \in AsListed(certificates[p]) :
                  request' = [request EXCEPT ![r].pc = "cached", ![r].reading = listed]
             /\ UNCHANGED worker
    <3>1. certificates[p] \in Readings
      BY <2>1, <2>2 DEF StoreTypeOK
    <3>2. PICK listed \in AsListed(certificates[p]) :
            request' = [request EXCEPT ![r].pc = "cached", ![r].reading = listed]
      BY <2>2
    <3>3. listed \in Listings
      BY <3>1, <3>2 DEF Listings
    <3>4. request' = [request EXCEPT ![r] =
                        [request[r] EXCEPT !.pc = "cached", !.reading = listed]]
      BY <1>0, <3>2 DEF ProfileOK, ProfileTypeOK
    <3>5. /\ [request[r] EXCEPT !.pc = "cached", !.reading = listed] \in Request
          /\ [request[r] EXCEPT !.pc = "cached", !.reading = listed].parcel = p
      BY <1>0, <3>3 DEF Request
    <3>6. QED
      BY <1>1, <1>4, <2>1, <2>2, <3>4, <3>5 DEF ListCerts, storeVars, StoreTypeOK
  <2>3. CASE /\ BackgroundComputeScore(p)
             /\ request' = [request EXCEPT ![r].pc = "answered"]
    <3>1. /\ request' \in [Requests -> Request]
          /\ \A s \in Requests : request'[s].pc # "idle" => request'[s].parcel \in Parcels
      <4>1. /\ [request[r] EXCEPT !.pc = "answered"] \in Request
            /\ [request[r] EXCEPT !.pc = "answered"].parcel = p
        BY <1>0 DEF Request
      <4>2. request' = [request EXCEPT ![r] = [request[r] EXCEPT !.pc = "answered"]]
        BY <2>3
      <4>3. QED
        BY <2>1, <4>1, <4>2, RequestType
    <3>2. /\ worker' \in [Workers -> Worker]
          /\ \A h \in Workers : worker'[h].pc # "idle" => worker'[h].parcel \in Parcels
      <4>1. CASE UNCHANGED worker
        BY <4>1 DEF ProfileOK, ProfileTypeOK
      <4>2. [pc |-> "fetch", parcel |-> p, key |-> p, stored |-> TRUE, reading |-> None]
              \in Worker
        BY <2>1 DEF Worker
      <4>3. QED
        BY <2>1, <2>3, <4>1, <4>2, WorkerType DEF BackgroundComputeScore
    <3>3. QED
      BY <1>4, <3>1, <3>2 DEF ListCerts, storeVars, StoreTypeOK, ProfileOK, ProfileTypeOK
  <2>4. QED
    BY <1>4, <2>2, <2>3 DEF ListCerts
<1>5. CASE ReadCached(r)
  <2> DEFINE p == request[r].parcel
  <2>1. p \in Parcels
    BY <1>0, <1>5 DEF ReadCached
  <2>2. CASE FreshRow(p)
    <3>1. GetScore(p) \in CreditScore
      BY <2>2 DEF FreshRow, GetScore, StoreTypeOK
    <3>2. /\ [request[r] EXCEPT !.pc = "answered", !.answer = GetScore(p)] \in Request
          /\ [request[r] EXCEPT !.pc = "answered", !.answer = GetScore(p)].parcel = p
      BY <1>0, <3>1 DEF Request
    <3>3. request' = [request EXCEPT ![r] =
                        [request[r] EXCEPT !.pc = "answered", !.answer = GetScore(p)]]
      BY <1>5, <2>2 DEF ReadCached, ProfileOK, ProfileTypeOK
    <3>4. QED
      BY <1>1, <1>5, <2>1, <3>2, <3>3 DEF ReadCached, storeVars, StoreTypeOK
  <2>3. CASE ~FreshRow(p)
    <3>1. /\ [request[r] EXCEPT !.pc = "compute"] \in Request
          /\ [request[r] EXCEPT !.pc = "compute"].parcel = p
      BY <1>0 DEF Request
    <3>2. request' = [request EXCEPT ![r] = [request[r] EXCEPT !.pc = "compute"]]
      BY <1>5, <2>3 DEF ReadCached
    <3>3. QED
      BY <1>1, <1>5, <2>1, <3>1, <3>2 DEF ReadCached, storeVars, StoreTypeOK
  <2>4. QED
    BY <2>2, <2>3
<1>6. CASE ResolveScore(r)
  <2> DEFINE p == request[r].parcel
  <2>1. p \in Parcels /\ request[r].reading \in Series \cup {None}
    BY <1>0, <1>6, SeriesListed DEF ResolveScore, Request
  <2>2. PICK n \in 0 .. MaxLiens :
          \E score \in ComputeScore(p, request[r].reading, n) :
            /\ Upsert(p, score) \/ UNCHANGED credit_scores
            /\ request' = [request EXCEPT ![r].pc = "answered", ![r].answer = score]
    BY <1>6 DEF ResolveScore
  <2>3. PICK score \in ComputeScore(p, request[r].reading, n) :
          /\ Upsert(p, score) \/ UNCHANGED credit_scores
          /\ request' = [request EXCEPT ![r].pc = "answered", ![r].answer = score]
    BY <2>2
  <2>4. score \in CreditScore
    BY <2>1, CreditProfileAssumption, ComputeScoreType
  <2>5. /\ [request[r] EXCEPT !.pc = "answered", !.answer = score] \in Request
        /\ [request[r] EXCEPT !.pc = "answered", !.answer = score].parcel = p
    BY <1>0, <2>4 DEF Request
  <2>6. request' = [request EXCEPT ![r] =
                      [request[r] EXCEPT !.pc = "answered", !.answer = score]]
    BY <2>3 DEF ProfileOK, ProfileTypeOK
  <2>7. StoreTypeOK'
    BY <1>6, <2>1, <2>3, <2>4, UpsertType DEF ResolveScore
  <2>8. QED
    BY <1>1, <1>6, <2>1, <2>5, <2>6, <2>7 DEF ResolveScore
<1>7. CASE Receive(r)
  BY <1>1, <1>2, <1>7 DEF Receive, storeVars, StoreTypeOK
<1>8. QED
  BY <1>3, <1>4, <1>5, <1>6, <1>7 DEF RequestStep

\* A background computation, which rewrites its entry when it ends.
LEMMA WorkerStepType ==
    ASSUME StoreTypeOK, ProfileOK, NEW g \in Workers, WorkerStep(g) \/ Overwrite(g)
    PROVE  StoreTypeOK' /\ ProfileOK'
<1>0. /\ worker[g] \in Worker
      /\ worker \in [Workers -> Worker]
      /\ worker[g].pc # "idle" => worker[g].parcel \in Parcels
      /\ request \in [Requests -> Request]
  BY DEF ProfileOK, ProfileTypeOK
<1>1. ASSUME UNCHANGED request, NEW k \in Worker, k.pc # "idle" => k.parcel \in Parcels,
             worker' = [worker EXCEPT ![g] = k]
      PROVE  ProfileOK'
  BY <1>0, <1>1, WorkerType DEF ProfileOK, ProfileTypeOK
<1>2. CASE Overwrite(g)
  <2>1. PICK key \in Parcels \cup {None} : worker' = [worker EXCEPT ![g].key = key]
    BY <1>2 DEF Overwrite
  <2>2. /\ [worker[g] EXCEPT !.key = key] \in Worker
        /\ [worker[g] EXCEPT !.key = key].pc = worker[g].pc
        /\ [worker[g] EXCEPT !.key = key].parcel = worker[g].parcel
    BY <1>0, <2>1 DEF Worker
  <2>3. worker' = [worker EXCEPT ![g] = [worker[g] EXCEPT !.key = key]]
    BY <2>1
  <2>4. QED
    BY <1>0, <1>1, <1>2, <2>2, <2>3 DEF Overwrite, storeVars, StoreTypeOK
<1>3. CASE WorkerFetch(g)
  <2>1. PICK reading \in Readings \cup {None} :
          /\ FetchAndStoreSeries(worker[g].parcel, reading)
          /\ worker' = [worker EXCEPT ![g].pc = "score", ![g].reading = reading]
    BY <1>3 DEF WorkerFetch
  <2>2. /\ [worker[g] EXCEPT !.pc = "score", !.reading = reading] \in Worker
        /\ [worker[g] EXCEPT !.pc = "score", !.reading = reading].parcel = worker[g].parcel
    BY <1>0, <2>1 DEF Worker
  <2>3. worker' = [worker EXCEPT ![g] =
                     [worker[g] EXCEPT !.pc = "score", !.reading = reading]]
    BY <1>0, <2>1
  <2>4. StoreTypeOK' /\ UNCHANGED request /\ worker[g].pc = "fetch"
    BY <1>3, <2>1, FetchType DEF WorkerFetch
  <2>5. QED
    BY <1>0, <1>1, <2>2, <2>3, <2>4
<1>4. CASE WorkerScore(g)
  <2> DEFINE p == worker[g].parcel
  <2>1. p \in Parcels /\ worker[g].reading \in Series \cup {None}
    BY <1>0, <1>4, SeriesListed DEF WorkerScore, Worker
  <2>2. PICK n \in 0 .. MaxLiens :
          \E score \in ComputeScore(p, worker[g].reading, n) :
            Upsert(p, score) \/ UNCHANGED credit_scores
    BY <1>4 DEF WorkerScore
  <2>3. PICK score \in ComputeScore(p, worker[g].reading, n) :
          Upsert(p, score) \/ UNCHANGED credit_scores
    BY <2>2
  <2>4. score \in CreditScore
    BY <2>1, CreditProfileAssumption, ComputeScoreType
  <2>5. StoreTypeOK'
    BY <1>4, <2>1, <2>3, <2>4, UpsertType DEF WorkerScore
  <2>6. /\ [worker[g] EXCEPT !.pc = "delete", !.reading = None] \in Worker
        /\ [worker[g] EXCEPT !.pc = "delete", !.reading = None].parcel = p
    BY <1>0 DEF Worker
  <2>7. worker' = [worker EXCEPT ![g] = [worker[g] EXCEPT !.pc = "delete", !.reading = None]]
    BY <1>0, <1>4 DEF WorkerScore
  <2>8. QED
    BY <1>1, <1>4, <2>1, <2>5, <2>6, <2>7 DEF WorkerScore
<1>5. CASE WorkerDone(g)
  <2> DEFINE pc(h) == IF h = g THEN "idle" ELSE worker[h].pc
  <2>1. /\ worker' = [h \in Workers |-> worker'[h]]
        /\ \A h \in Workers :
             \/ worker'[h] = NoWork
             \/ \E stored \in BOOLEAN :
                  worker'[h] = [worker[h] EXCEPT !.pc = pc(h), !.stored = stored]
    BY <1>5 DEF WorkerDone
  <2>2. NoWork \in Worker /\ NoWork.pc = "idle"
    BY DEF NoWork, Worker
  <2>3. ASSUME NEW h \in Workers
        PROVE  worker'[h] \in Worker /\ (worker'[h].pc # "idle" => worker'[h].parcel \in Parcels)
    <3>1. /\ worker[h] \in Worker /\ pc(h) \in {"idle", "fetch", "score", "delete"}
          /\ pc(h) # "idle" => worker[h].parcel \in Parcels
      BY <1>0 DEF ProfileOK, ProfileTypeOK, Worker
    <3>2. ASSUME NEW stored \in BOOLEAN
          PROVE  /\ [worker[h] EXCEPT !.pc = pc(h), !.stored = stored] \in Worker
                 /\ [worker[h] EXCEPT !.pc = pc(h), !.stored = stored].pc = pc(h)
                 /\ [worker[h] EXCEPT !.pc = pc(h), !.stored = stored].parcel
                       = worker[h].parcel
      BY <3>1 DEF Worker
    <3>3. QED
      BY <2>1, <2>2, <3>1, <3>2
  <2>4. QED
    BY <1>5, <2>1, <2>3 DEF WorkerDone, storeVars, StoreTypeOK, ProfileOK, ProfileTypeOK
<1>6. QED
  BY <1>2, <1>3, <1>4, <1>5 DEF WorkerStep

-----------------------------------------------------------------------------
(* The keeper *)

\* What the keeper may be: at work it knows its parcel, and what it sends and
\* records is a score in range.
KeeperFine(k) ==
    /\ k \in KeeperState
    /\ k.pc \in {"check", "read", "score", "assess", "record"} => k.parcel \in Parcels
    /\ k.pc \in {"assess", "record"} => k.score \in CreditScore

KeeperOK == KeeperTypeOK /\ KeeperFine(keeper)

\* It rests between two parcels.
LEMMA RestingFine ==
    ASSUME NEW todo \in SUBSET Parcels
    PROVE  KeeperFine(Resting(todo)) /\ Resting(todo).pc \in {"waiting", "next"}
<1>1. /\ Resting(todo) = [ pc |-> Resting(todo).pc, todo |-> todo, parcel |-> None,
                           reading |-> None, prev |-> None, score |-> None ]
      /\ Resting(todo).pc \in {"waiting", "next"}
  BY DEF Resting
<1>2. Resting(todo) \in KeeperState
  BY <1>1 DEF KeeperState, Step
<1>3. QED
  BY <1>1, <1>2 DEF KeeperFine

\* A decision that is recorded is one the keeper holds.
LEMMA DecisionType ==
    ASSUME KeeperTypeOK, NEW p \in Parcels, NEW score \in CreditScore, CreateDecision(p, score)
    PROVE  /\ DOMAIN agent_decisions' \subseteq Parcels
           /\ agent_decisions' \in [DOMAIN agent_decisions' -> CreditScore]
BY DEF KeeperTypeOK, CreateDecision

\* A step of the keeper.
LEMMA KeeperStepType ==
    ASSUME TokenTypeOK, StoreTypeOK, KeeperOK, KeeperStep
    PROVE  TokenTypeOK' /\ StoreTypeOK' /\ KeeperOK'
<1>0. /\ keeper \in KeeperState /\ addressed \subseteq Parcels
      /\ DOMAIN agent_decisions \subseteq Parcels
      /\ agent_decisions \in [DOMAIN agent_decisions -> CreditScore]
      /\ KeeperFine(keeper)
  BY DEF KeeperOK, KeeperTypeOK
<1>1. ASSUME UNCHANGED <<addressed, agent_decisions>>, KeeperFine(keeper')
      PROVE  KeeperOK'
  BY <1>0, <1>1 DEF KeeperOK, KeeperTypeOK, KeeperFine
<1>2. ASSUME EndParcel
      PROVE  KeeperFine(keeper')
  <2>1. keeper.todo \ {keeper.parcel} \in SUBSET Parcels
    BY <1>0 DEF KeeperState
  <2>2. QED
    BY <1>2, <2>1, RestingFine DEF EndParcel
<1>3. UNCHANGED tokenVars => TokenTypeOK'
  BY DEF tokenVars, TokenTypeOK, ParcelTypeOK
<1>4. UNCHANGED storeVars => StoreTypeOK'
  BY DEF storeVars, StoreTypeOK
<1>5. CASE ListParcels
  <2>1. PICK todo \in SUBSET addressed : keeper' = Resting(todo)
    BY <1>5 DEF ListParcels
  <2>2. KeeperFine(keeper')
    BY <1>0, <2>1, RestingFine
  <2>3. QED
    BY <1>1, <1>3, <1>4, <1>5, <2>2 DEF ListParcels
<1>6. ASSUME NEW p \in Parcels, FetchSeries(p)
      PROVE  TokenTypeOK' /\ StoreTypeOK' /\ KeeperOK'
  <2>1. PICK reading \in Readings \cup {None} :
          /\ FetchAndStoreSeries(p, reading)
          /\ keeper' = [keeper EXCEPT !.pc = "check", !.parcel = p, !.reading = reading]
    BY <1>6 DEF FetchSeries
  <2>2. KeeperFine(keeper')
    BY <1>0, <2>1 DEF KeeperFine, KeeperState, Step
  <2>3. StoreTypeOK'
    BY <1>6, <2>1, FetchType DEF FetchSeries
  <2>4. QED
    BY <1>1, <1>3, <1>6, <2>2, <2>3 DEF FetchSeries
<1>7. CASE SendSeasonalCheck
  <2>1. SeasonalCheck(keeper.parcel, FALSE) \/ UNCHANGED tokenVars
    BY <1>7 DEF SendSeasonalCheck, Refused
  <2>2. /\ keeper.pc = "check"
        /\ keeper' = [keeper EXCEPT !.pc = "read"] \/ EndParcel
    BY <1>7 DEF SendSeasonalCheck, SkipParcel
  <2>3. KeeperFine(keeper')
    <3>1. CASE keeper' = [keeper EXCEPT !.pc = "read"]
      <4>1. [keeper EXCEPT !.pc = "read"] \in KeeperState
        BY <1>0 DEF KeeperState, Step
      <4>2. /\ [keeper EXCEPT !.pc = "read"].pc = "read"
            /\ [keeper EXCEPT !.pc = "read"].parcel = keeper.parcel
        BY <1>0 DEF KeeperState
      <4>3. QED
        BY <1>0, <2>2, <3>1, <4>1, <4>2 DEF KeeperFine
    <3>2. QED
      BY <1>2, <2>2, <3>1
  <2>4. TokenTypeOK'
    BY <1>3, <2>1, SeasonalCheckType
  <2>5. QED
    BY <1>1, <1>4, <1>7, <2>3, <2>4 DEF SendSeasonalCheck
<1>8. CASE ReadScore
  <2>1. keeper.parcel \in Parcels
    BY <1>0, <1>8 DEF ReadScore, KeeperFine
  <2>2. GetScore(keeper.parcel) \in CreditScore \cup {None}
    BY DEF GetScore, StoreTypeOK
  <2>3. KeeperFine(keeper')
    BY <1>0, <1>8, <2>1, <2>2 DEF ReadScore, KeeperFine, KeeperState, Step
  <2>4. QED
    BY <1>1, <1>3, <1>4, <1>8, <2>3 DEF ReadScore
<1>9. CASE Recalculate
  <2> DEFINE p == keeper.parcel
  <2>1. p \in Parcels /\ keeper.reading \in Series \cup {None}
    BY <1>0, <1>9, SeriesListed DEF Recalculate, KeeperFine, KeeperState
  <2>2. PICK score \in ComputeScore(p, keeper.reading, 0) :
          /\ Upsert(p, score) \/ UNCHANGED credit_scores
          /\ keeper' = [keeper EXCEPT !.pc = "assess", !.score = score, !.reading = None]
    BY <1>9 DEF Recalculate
  <2>3. score \in CreditScore
    BY <2>1, ComputeScoreType
  <2>4. KeeperFine(keeper')
    BY <1>0, <2>1, <2>2, <2>3 DEF KeeperFine, KeeperState, Step
  <2>5. StoreTypeOK'
    BY <1>9, <2>1, <2>2, <2>3, UpsertType DEF Recalculate
  <2>6. QED
    BY <1>1, <1>3, <1>9, <2>4, <2>5 DEF Recalculate
<1>10. CASE SendRiskAssessment
  <2>1. UpdateRiskAssessment(Relay, keeper.parcel, keeper.score) \/ UNCHANGED tokenVars
    BY <1>10 DEF SendRiskAssessment, Refused
  <2>2. /\ keeper.pc = "assess"
        /\ keeper' = [keeper EXCEPT !.pc = "record"] \/ EndParcel
    BY <1>10 DEF SendRiskAssessment, GiveUp
  <2>3. KeeperFine(keeper')
    <3>1. CASE keeper' = [keeper EXCEPT !.pc = "record"]
      <4>1. [keeper EXCEPT !.pc = "record"] \in KeeperState
        BY <1>0 DEF KeeperState, Step
      <4>2. /\ [keeper EXCEPT !.pc = "record"].pc = "record"
            /\ [keeper EXCEPT !.pc = "record"].parcel = keeper.parcel
            /\ [keeper EXCEPT !.pc = "record"].score = keeper.score
        BY <1>0 DEF KeeperState
      <4>3. QED
        BY <1>0, <2>2, <3>1, <4>1, <4>2 DEF KeeperFine
    <3>2. QED
      BY <1>2, <2>2, <3>1
  <2>4. TokenTypeOK'
    BY <1>3, <2>1, UpdateRiskAssessmentType
  <2>5. QED
    BY <1>1, <1>4, <1>10, <2>3, <2>4 DEF SendRiskAssessment
<1>11. CASE RecordDecision
  <2>1. KeeperFine(keeper')
    BY <1>2, <1>11 DEF RecordDecision
  <2>2. CASE UNCHANGED agent_decisions
    BY <1>1, <1>3, <1>4, <1>11, <2>1, <2>2 DEF RecordDecision
  <2>3. CASE CreateDecision(keeper.parcel, keeper.score)
    <3>1. keeper.parcel \in Parcels /\ keeper.score \in CreditScore
      BY <1>0, <1>11 DEF RecordDecision, KeeperFine
    <3>2. /\ DOMAIN agent_decisions' \subseteq Parcels
          /\ agent_decisions' \in [DOMAIN agent_decisions' -> CreditScore]
      BY <2>3, <3>1, DecisionType DEF KeeperOK
    <3>3. QED
      BY <1>0, <1>3, <1>4, <1>11, <2>1, <3>2
         DEF RecordDecision, KeeperOK, KeeperTypeOK, KeeperFine
  <2>4. QED
    BY <1>11, <2>2, <2>3 DEF RecordDecision
<1>12. QED
  BY <1>5, <1>6, <1>7, <1>8, <1>9, <1>10, <1>11 DEF KeeperStep

-----------------------------------------------------------------------------
(* Types *)

\* The inductive invariant behind the types.
ScoreTypes == TokenTypeOK /\ StoreTypeOK /\ KeeperOK /\ ProfileOK

\* It holds of the empty tables.
LEMMA ScoreTypesInit == Init => ScoreTypes
<1> SUFFICES ASSUME Init PROVE ScoreTypes
  OBVIOUS
<1>1. TokenTypeOK
  BY DEF Init, TokenInit, TokenTypeOK, ParcelTypeOK
<1>2. StoreTypeOK
  BY DEF Init, StoreInit, StoreTypeOK
<1>3. KeeperFine(keeper)
  BY RestingFine DEF Init, KeeperInit
<1>4. KeeperOK
  BY <1>3 DEF Init, KeeperInit, KeeperOK, KeeperTypeOK, KeeperFine
<1>5. ProfileOK
  <2>1. NoRequest \in Request /\ NoRequest.pc = "idle"
    BY DEF NoRequest, Request
  <2>2. NoWork \in Worker /\ NoWork.pc = "idle"
    BY DEF NoWork, Worker
  <2>3. QED
    BY <2>1, <2>2 DEF Init, ProfileInit, ProfileOK, ProfileTypeOK
<1>6. QED
  BY <1>1, <1>2, <1>4, <1>5 DEF ScoreTypes

\* It is inductive.
LEMMA ScoreTypesStep == ScoreTypes /\ [Next]_vars => ScoreTypes'
<1> SUFFICES ASSUME ScoreTypes, [Next]_vars PROVE ScoreTypes'
  OBVIOUS
<1>0. TokenTypeOK /\ StoreTypeOK /\ KeeperOK /\ ProfileOK
  BY DEF ScoreTypes
<1>1. UNCHANGED storeVars => StoreTypeOK'
  BY <1>0 DEF storeVars, StoreTypeOK
<1>2. UNCHANGED keeperVars => KeeperOK'
  BY <1>0 DEF keeperVars, KeeperOK, KeeperTypeOK, KeeperFine
<1>3. UNCHANGED profileVars => ProfileOK'
  BY <1>0 DEF profileVars, ProfileOK, ProfileTypeOK
<1>4. UNCHANGED tokenVars => TokenTypeOK'
  BY <1>0 DEF tokenVars, TokenTypeOK, ParcelTypeOK
<1>5. CASE FarmerStep
  <2>1. PICK w \in Farmers, p \in Parcels :
          \/ \E survey \in Surveys : RegisterParcel(w, p, survey)
          \/ MintCertificate(w, p, w)
    BY <1>5 DEF FarmerStep
  <2>2. TokenTypeOK'
    BY <1>0, <2>1, FarmersAssumption, RegisterParcelType, MintCertificateType
  <2>3. QED
    BY <1>1, <1>2, <1>3, <1>5, <2>2 DEF FarmerStep, ScoreTypes
<1>6. ASSUME NEW p \in Parcels, IndexAddress(p)
      PROVE  ScoreTypes'
  <2>1. KeeperOK'
    BY <1>0, <1>6 DEF IndexAddress, KeeperOK, KeeperTypeOK, KeeperFine
  <2>2. QED
    BY <1>1, <1>3, <1>4, <1>6, <2>1 DEF IndexAddress, ScoreTypes
<1>7. CASE TimePasses
  <2>1. TokenTypeOK' /\ StoreTypeOK'
    BY <1>0, <1>1, <1>4, <1>7, TickType, AgeType DEF TimePasses
  <2>2. QED
    BY <1>2, <1>3, <1>7, <2>1 DEF TimePasses, ScoreTypes
<1>8. CASE ProfileStep
  <2>1. StoreTypeOK' /\ ProfileOK'
    BY <1>0, <1>8, RequestStepType, WorkerStepType DEF ProfileStep
  <2>2. QED
    BY <1>2, <1>4, <1>8, <2>1 DEF ProfileStep, ScoreTypes
<1>9. CASE KeeperStep /\ UNCHANGED profileVars
  BY <1>0, <1>3, <1>9, KeeperStepType DEF ScoreTypes
<1>10. CASE UNCHANGED vars
  BY <1>1, <1>2, <1>3, <1>4, <1>10 DEF vars, ScoreTypes
<1>11. QED
  BY <1>5, <1>6, <1>7, <1>8, <1>9, <1>10 DEF Next

\* Every goroutine that is at work knows what it works on.
THEOREM ScoreTypesInvariant == Spec => []ScoreTypes
  BY ScoreTypesInit, ScoreTypesStep, PTL DEF Spec

\* Whatever the satellite shows and the language model says, what reaches the
\* table and the chain is in range.
THEOREM ScoreTypeCorrect == Spec => []TypeOK
<1>1. ScoreTypes => TypeOK
  BY DEF ScoreTypes, TypeOK, TokenTypeOK, KeeperOK, ProfileOK
<1>2. QED
  BY <1>1, ScoreTypesInvariant, PTL
-----------------------------------------------------------------------------
(* The audit trail, when the node's answers are right and inserts succeed *)

\* What the decisions say of one parcel: the newest is what the chain holds.
Audited(p) ==
    IF p \in DOMAIN agent_decisions
    THEN OnChain(p) = agent_decisions[p]
    ELSE OnChain(p) = Unassessed

\* The keeper is about to record a decision about this parcel.
Recording(p) == keeper.pc = "record" /\ keeper.parcel = p

\* What the keeper is about to record is what it has sent.
RecordsChain ==
    keeper.pc = "record" =>
        /\ Registered(keeper.parcel)
        /\ OnChain(keeper.parcel) = keeper.score

\* The inductive invariant behind AuditTrail: a parcel without an account has
\* no decision, and what is about to be recorded is what the chain holds.
AuditInv ==
    /\ DOMAIN agent_decisions \subseteq DOMAIN parcel_config
    /\ RecordsChain
    /\ \A p \in DOMAIN parcel_config : Recording(p) \/ Audited(p)

\* An assessment is its three fields.
LEMMA ScoreFields ==
    ASSUME NEW a \in CreditScore
    PROVE  a = [ ai_score         |-> a.ai_score,
                 collateral_grade |-> a.collateral_grade,
                 recommended_ltv  |-> a.recommended_ltv ]
BY DEF CreditScore

\* A registration adds an account that nobody has assessed; minting, the
\* seasonal check and the clock leave every assessment alone.
LEMMA AssessmentsKept ==
    ASSUME TokenTypeOK,
           \/ \E w \in Wallets, p \in Parcels, survey \in Surveys :
                RegisterParcel(w, p, survey)
           \/ \E w \in Wallets, p \in Parcels : MintCertificate(w, p, w)
           \/ \E p \in Parcels : SeasonalCheck(p, FALSE)
           \/ UNCHANGED parcel_config
    PROVE  /\ DOMAIN parcel_config \subseteq DOMAIN parcel_config'
           /\ \A q \in DOMAIN parcel_config : OnChain(q)' = OnChain(q)
           /\ \A q \in DOMAIN parcel_config' \ DOMAIN parcel_config : OnChain(q)' = Unassessed
<1>0. \A q \in DOMAIN parcel_config : parcel_config[q] \in ParcelConfig
  BY DEF TokenTypeOK, ParcelTypeOK
<1>1. ASSUME NEW w \in Wallets, NEW p \in Parcels, NEW survey, RegisterParcel(w, p, survey)
      PROVE  /\ DOMAIN parcel_config' = DOMAIN parcel_config \cup {p}
             /\ \A q \in DOMAIN parcel_config : OnChain(q)' = OnChain(q)
             /\ \A q \in DOMAIN parcel_config' \ DOMAIN parcel_config :
                  OnChain(q)' = Unassessed
  BY <1>1 DEF RegisterParcel, Registered, NewParcel, OnChain, Unassessed
<1>2. ASSUME NEW w \in Wallets, NEW p \in Parcels, MintCertificate(w, p, w)
      PROVE  /\ DOMAIN parcel_config' = DOMAIN parcel_config
             /\ \A q \in DOMAIN parcel_config : OnChain(q)' = OnChain(q)
  BY <1>0, <1>2 DEF MintCertificate, OnChain, ParcelConfig
<1>3. ASSUME NEW p \in Parcels, SeasonalCheck(p, FALSE)
      PROVE  /\ DOMAIN parcel_config' = DOMAIN parcel_config
             /\ \A q \in DOMAIN parcel_config : OnChain(q)' = OnChain(q)
  <2>1. PICK d :
          parcel_config' = [parcel_config EXCEPT ![p].dormant_seasons = d,
                                                 ![p].ndvi_submissions_this_season = 0]
    BY <1>3 DEF SeasonalCheck
  <2>2. QED
    BY <1>0, <2>1 DEF OnChain, ParcelConfig
<1>4. CASE UNCHANGED parcel_config
  BY <1>4 DEF OnChain
<1>5. QED
  BY <1>1, <1>2, <1>3, <1>4

\* The assessment of one parcel is what the transaction carries, and no other
\* parcel's assessment changes.
LEMMA AssessmentWritten ==
    ASSUME TokenTypeOK, NEW w, NEW p, NEW a \in CreditScore, UpdateRiskAssessment(w, p, a)
    PROVE  /\ Registered(p)
           /\ DOMAIN parcel_config' = DOMAIN parcel_config
           /\ OnChain(p)' = a
           /\ \A q \in DOMAIN parcel_config \ {p} : OnChain(q)' = OnChain(q)
<1>1. /\ Registered(p)
      /\ parcel_config[p] \in ParcelConfig
      /\ DOMAIN parcel_config' = DOMAIN parcel_config
      /\ \A q \in DOMAIN parcel_config \ {p} : parcel_config'[q] = parcel_config[q]
  BY DEF UpdateRiskAssessment, TokenTypeOK, ParcelTypeOK, Registered
<1>2. parcel_config'[p] = [parcel_config[p] EXCEPT
                             !.ai_score = a.ai_score,
                             !.collateral_grade = a.collateral_grade,
                             !.recommended_ltv = a.recommended_ltv,
                             !.risk_flag = NextRiskFlag(a.ai_score, @)]
  BY <1>1 DEF UpdateRiskAssessment, Registered
<1>3. /\ parcel_config'[p].ai_score = a.ai_score
      /\ parcel_config'[p].collateral_grade = a.collateral_grade
      /\ parcel_config'[p].recommended_ltv = a.recommended_ltv
  BY <1>1, <1>2 DEF ParcelConfig
<1>4. OnChain(p)' = a
  BY <1>3, ScoreFields DEF OnChain
<1>5. QED
  BY <1>1, <1>4 DEF OnChain

\* The invariant only looks at the assessments, the decisions and the keeper,
\* so it survives whatever keeps the assessments and leaves it no newer than
\* the decisions.
LEMMA AuditKept ==
    ASSUME AuditInv, UNCHANGED agent_decisions,
           keeper' = keeper \/ (keeper.pc # "record" /\ keeper'.pc # "record"),
           DOMAIN parcel_config \subseteq DOMAIN parcel_config',
           \A q \in DOMAIN parcel_config : OnChain(q)' = OnChain(q),
           \A q \in DOMAIN parcel_config' \ DOMAIN parcel_config : OnChain(q)' = Unassessed
    PROVE  AuditInv'
<1>1. /\ DOMAIN agent_decisions \subseteq DOMAIN parcel_config
      /\ \A p \in DOMAIN parcel_config : Recording(p) \/ Audited(p)
  BY DEF AuditInv
<1>2. RecordsChain'
  <2>1. CASE keeper' = keeper /\ keeper.pc = "record"
    <3> DEFINE p == keeper.parcel
    <3>1. p \in DOMAIN parcel_config /\ OnChain(p) = keeper.score
      BY <2>1 DEF AuditInv, RecordsChain, Registered
    <3>2. OnChain(p)' = OnChain(p) /\ keeper'.parcel = p /\ keeper'.score = keeper.score
      BY <2>1, <3>1
    <3>3. QED
      BY <2>1, <3>1, <3>2 DEF RecordsChain, Registered, OnChain
  <2>2. QED
    BY <2>1 DEF RecordsChain
<1>3. ASSUME NEW q \in DOMAIN parcel_config'
      PROVE  Recording(q)' \/ Audited(q)'
  <2>1. CASE q \in DOMAIN parcel_config
    <3>1. OnChain(q)' = OnChain(q)
      BY <2>1
    <3>2. Recording(q) => Recording(q)' \/ keeper' # keeper
      BY DEF Recording
    <3>3. Recording(q) => keeper.pc = "record"
      BY DEF Recording
    <3>4. Audited(q) => Audited(q)'
      BY <3>1 DEF Audited
    <3>5. QED
      BY <1>1, <2>1, <3>2, <3>3, <3>4
  <2>2. CASE q \notin DOMAIN parcel_config
    BY <1>1, <1>3, <2>2 DEF Audited, Unassessed
  <2>3. QED
    BY <2>1, <2>2
<1>4. QED
  BY <1>1, <1>2, <1>3 DEF AuditInv
\* It holds of the empty tables.
LEMMA AuditInit == Init => AuditInv
BY DEF Init, TokenInit, KeeperInit, Resting, AuditInv, RecordsChain

\* A step of the keeper.
LEMMA KeeperStepAudit ==
    ASSUME ~Faulty, TokenTypeOK, KeeperOK, AuditInv, KeeperStep
    PROVE  AuditInv'
<1>0. keeper \in KeeperState /\ KeeperFine(keeper)
  BY DEF KeeperOK, KeeperTypeOK
<1>1. ASSUME keeper.pc # "record", keeper'.pc # "record", UNCHANGED agent_decisions,
             UNCHANGED parcel_config \/ \E p \in Parcels : SeasonalCheck(p, FALSE)
      PROVE  AuditInv'
  BY <1>1, AssessmentsKept, AuditKept
<1>2. EndParcel => keeper'.pc \in {"waiting", "next"}
  <2>1. keeper.todo \ {keeper.parcel} \in SUBSET Parcels
    BY <1>0 DEF KeeperState
  <2>2. QED
    BY <2>1, RestingFine DEF EndParcel
<1>3. CASE ListParcels
  <2>1. PICK todo \in SUBSET addressed : keeper' = Resting(todo)
    BY <1>3 DEF ListParcels
  <2>2. keeper'.pc # "record"
    BY <2>1, RestingFine DEF KeeperOK, KeeperTypeOK
  <2>3. QED
    BY <1>1, <1>3, <2>2 DEF ListParcels, tokenVars
<1>4. ASSUME NEW p \in Parcels, FetchSeries(p)
      PROVE  AuditInv'
  <2>1. keeper'.pc # "record"
    BY <1>0, <1>4 DEF FetchSeries, KeeperState
  <2>2. QED
    BY <1>1, <1>4, <2>1 DEF FetchSeries, tokenVars
<1>5. CASE SendSeasonalCheck
  <2>1. /\ keeper.pc = "check"
        /\ SeasonalCheck(keeper.parcel, FALSE) \/ UNCHANGED parcel_config
        /\ keeper' = [keeper EXCEPT !.pc = "read"] \/ EndParcel
        /\ UNCHANGED agent_decisions
    BY <1>5 DEF SendSeasonalCheck, SkipParcel, Refused, tokenVars
  <2>2. keeper.parcel \in Parcels
    BY <1>0, <2>1 DEF KeeperFine
  <2>3. keeper'.pc # "record"
    BY <1>0, <1>2, <2>1 DEF KeeperState
  <2>4. QED
    BY <1>1, <2>1, <2>2, <2>3
<1>6. CASE ReadScore \/ Recalculate
  <2>1. /\ keeper.pc # "record"
        /\ \/ keeper'.pc = "score"
           \/ keeper'.pc = "assess"
    BY <1>0, <1>6 DEF ReadScore, Recalculate, KeeperState
  <2>2. QED
    BY <1>1, <1>6, <2>1 DEF ReadScore, Recalculate, tokenVars
<1>7. CASE SendRiskAssessment
  <2> DEFINE p == keeper.parcel
  <2>1. /\ keeper.pc = "assess"
        /\ UNCHANGED agent_decisions
        /\ \/ UNCHANGED tokenVars /\ EndParcel
           \/ /\ UpdateRiskAssessment(Relay, p, keeper.score)
              /\ keeper' = [keeper EXCEPT !.pc = "record"]
    BY <1>7 DEF SendRiskAssessment, GiveUp, Refused
  <2>2. CASE UNCHANGED tokenVars /\ EndParcel
    BY <1>1, <1>2, <2>1, <2>2 DEF tokenVars
  <2>3. CASE /\ UpdateRiskAssessment(Relay, p, keeper.score)
             /\ keeper' = [keeper EXCEPT !.pc = "record"]
    <3>1. PICK q, a : q = keeper.parcel /\ a = keeper.score
      OBVIOUS
    <3>2. a \in CreditScore /\ UpdateRiskAssessment(Relay, q, a)
      BY <1>0, <2>1, <2>3, <3>1 DEF KeeperFine
    <3>3. /\ Registered(q)
          /\ DOMAIN parcel_config' = DOMAIN parcel_config
          /\ OnChain(q)' = a
          /\ \A r \in DOMAIN parcel_config \ {q} : OnChain(r)' = OnChain(r)
      BY <3>2, AssessmentWritten
    <3>4. keeper'.pc = "record" /\ keeper'.parcel = q /\ keeper'.score = a
      BY <1>0, <2>3, <3>1 DEF KeeperState
    <3>5. RecordsChain'
      BY <3>3, <3>4 DEF RecordsChain, Registered, OnChain
    <3>6. ASSUME NEW r \in DOMAIN parcel_config'
          PROVE  Recording(r)' \/ Audited(r)'
      <4>1. CASE r = q
        BY <3>4, <4>1 DEF Recording
      <4>2. CASE r # q
        <5>1. r \in DOMAIN parcel_config /\ OnChain(r)' = OnChain(r)
          BY <3>3, <3>6, <4>2
        <5>2. Audited(r)
          BY <2>1, <5>1 DEF AuditInv, Recording
        <5>3. QED
          BY <2>1, <5>1, <5>2 DEF Audited
      <4>3. QED
        BY <4>1, <4>2
    <3>7. QED
      BY <2>1, <3>3, <3>5, <3>6 DEF AuditInv
  <2>4. QED
    BY <2>1, <2>2, <2>3
<1>8. CASE RecordDecision
  <2>1. PICK q, a : q = keeper.parcel /\ a = keeper.score
    OBVIOUS
  <2>2. /\ keeper.pc = "record"
        /\ CreateDecision(q, a)
        /\ keeper'.pc # "record"
        /\ UNCHANGED parcel_config
    BY <1>2, <1>8, <2>1 DEF RecordDecision, tokenVars
  <2>3. /\ q \in DOMAIN parcel_config
        /\ OnChain(q) = a
    BY <2>1, <2>2 DEF AuditInv, RecordsChain, Registered
  <2>4. /\ DOMAIN agent_decisions' = DOMAIN agent_decisions \cup {q}
        /\ agent_decisions'[q] = a
        /\ \A r \in DOMAIN agent_decisions \ {q} : agent_decisions'[r] = agent_decisions[r]
    BY <2>2 DEF CreateDecision
  <2>5. RecordsChain'
    BY <2>2 DEF RecordsChain
  <2>6. ASSUME NEW r \in DOMAIN parcel_config'
        PROVE  Audited(r)'
    <3>1. OnChain(r)' = OnChain(r) /\ r \in DOMAIN parcel_config
      BY <2>2, <2>6 DEF OnChain
    <3>2. CASE r = q
      BY <2>3, <2>4, <3>1, <3>2 DEF Audited
    <3>3. CASE r # q
      <4>1. Audited(r)
        BY <2>1, <3>1, <3>3 DEF AuditInv, Recording
      <4>2. QED
        BY <2>4, <3>1, <3>3, <4>1 DEF Audited
    <3>4. QED
      BY <3>2, <3>3
  <2>7. DOMAIN agent_decisions' \subseteq DOMAIN parcel_config'
    BY <2>2, <2>3, <2>4 DEF AuditInv
  <2>8. QED
    BY <2>5, <2>6, <2>7 DEF AuditInv
<1>9. QED
  BY <1>3, <1>4, <1>5, <1>6, <1>7, <1>8 DEF KeeperStep

\* It is inductive.
LEMMA AuditStep == ~Faulty /\ ScoreTypes /\ AuditInv /\ [Next]_vars => AuditInv'
<1> SUFFICES ASSUME ~Faulty, ScoreTypes, AuditInv, [Next]_vars PROVE AuditInv'
  OBVIOUS
<1>0. TokenTypeOK /\ KeeperOK
  BY DEF ScoreTypes
<1>1. ASSUME UNCHANGED <<parcel_config, keeper, agent_decisions>>
      PROVE  AuditInv'
  BY <1>0, <1>1, AssessmentsKept, AuditKept
<1>2. CASE FarmerStep
  <2>1. /\ UNCHANGED <<keeper, agent_decisions>>
        /\ \/ \E w \in Wallets, p \in Parcels, survey \in Surveys : RegisterParcel(w, p, survey)
           \/ \E w \in Wallets, p \in Parcels : MintCertificate(w, p, w)
    BY <1>2, FarmersAssumption DEF FarmerStep, keeperVars
  <2>2. QED
    BY <1>0, <2>1, AssessmentsKept, AuditKept
<1>3. CASE \/ \E p \in Parcels : IndexAddress(p)
           \/ TimePasses \/ ProfileStep
           \/ UNCHANGED vars
  BY <1>1, <1>3 DEF IndexAddress, TimePasses, Tick, ProfileStep, vars, tokenVars, keeperVars
<1>4. CASE KeeperStep
  BY <1>0, <1>4, KeeperStepAudit
<1>5. QED
  BY <1>2, <1>3, <1>4 DEF Next

\* The newest decision about a parcel is what the chain holds, unless the
\* keeper is between the transaction and the insert, in every run in which the
\* node's answers are right and the inserts succeed.
THEOREM AuditTrailProved == ~Faulty /\ Spec => []AuditTrail
<1>1. AuditInv => AuditTrail
  BY DEF AuditInv, AuditTrail, Recording, Audited
<1>2. ASSUME ~Faulty PROVE Spec => []AuditInv
  <2>1. ScoreTypes /\ AuditInv /\ [Next]_vars => AuditInv'
    BY <1>2, AuditStep
  <2>2. QED
    BY <2>1, AuditInit, ScoreTypesInvariant, PTL DEF Spec
<1>3. ~Faulty => (Spec => []AuditInv)
  BY <1>2
<1>4. QED
  BY <1>1, <1>3, PTL
-----------------------------------------------------------------------------
(* The program underneath is the ledger's, with everything proved of it *)

\* The ledger before anybody pledges, under any assessment in the program's
\* argument types.
Ledger == INSTANCE TerraLedger_proofs WITH
              Assessments <- [ai_score : Nat, collateral_grade : Nat, recommended_ltv : Nat],
              Amounts     <- {},
              encumbrance <- [e \in {} |-> {}],
              lien_index  <- [p \in {} |-> {}]

\* What farmers and the keeper send is an instruction any wallet may send.
LEMMA TokenInstructions ==
    ASSUME NEW w \in Wallets, NEW p \in Parcels,
           \/ \E survey \in Surveys : RegisterParcel(w, p, survey)
           \/ MintCertificate(w, p, w)
           \/ SeasonalCheck(p, FALSE)
           \/ \E a \in CreditScore : UpdateRiskAssessment(w, p, a)
    PROVE  Ledger!Next
<1>1. ASSUME NEW survey \in Surveys, RegisterParcel(w, p, survey)
      PROVE  Ledger!RegisterParcel(w, p, survey)
  BY <1>1 DEF RegisterParcel, Ledger!RegisterParcel, Registered, Ledger!Registered,
       ValidRegistration, Ledger!ValidRegistration, NewParcel, Ledger!NewParcel
<1>2. ASSUME MintCertificate(w, p, w)
      PROVE  Ledger!MintCertificate(w, p, w)
  BY <1>2 DEF MintCertificate, Ledger!MintCertificate, MayMint, Ledger!MayMint,
       Registered, Ledger!Registered
<1>3. ASSUME SeasonalCheck(p, FALSE)
      PROVE  Ledger!SeasonalCheck(p, FALSE)
  BY <1>3 DEF SeasonalCheck, Ledger!SeasonalCheck, SeasonOver, Ledger!SeasonOver,
       Registered, Ledger!Registered, SaturatingIncU8, Ledger!SaturatingIncU8
<1>4. ASSUME NEW a \in CreditScore, UpdateRiskAssessment(w, p, a)
      PROVE  Ledger!UpdateRiskAssessment(w, p, a)
  <2>1. \A score, flag : NextRiskFlag(score, flag) = Ledger!NextRiskFlag(score, flag)
    BY DEF NextRiskFlag, Ledger!NextRiskFlag
  <2>2. ValidAssessment(a) => Ledger!ValidAssessment(a)
    <3>1. Scores = Ledger!Scores /\ Grades = Ledger!Grades /\ Ratios = Ledger!Ratios
      BY SMT DEF Scores, Ledger!Scores, Grades, Ledger!Grades, Ratios, Ledger!Ratios
    <3>2. QED
      BY <3>1, Zenon DEF ValidAssessment, Ledger!ValidAssessment
  <2>3. QED
    BY <1>4, <2>1, <2>2, Zenon DEF UpdateRiskAssessment, Ledger!UpdateRiskAssessment,
         Registered, Ledger!Registered
<1>5. CreditScore \subseteq [ai_score : Nat, collateral_grade : Nat, recommended_ltv : Nat]
  <2>1. Scores \subseteq Nat /\ Grades \subseteq Nat /\ Ratios \subseteq Nat
    BY DEF Scores, Grades, Ratios
  <2>2. ASSUME NEW a \in CreditScore
        PROVE  a \in [ai_score : Nat, collateral_grade : Nat, recommended_ltv : Nat]
    BY <2>1 DEF CreditScore
  <2>3. QED
    BY <2>2
<1>6. Ledger!TerraTokenStep
  <2>1. UNCHANGED Ledger!lienVars
    BY DEF Ledger!lienVars
  <2>2. QED
    BY <1>1, <1>2, <1>3, <1>4, <1>5, <2>1 DEF Ledger!TerraTokenStep
<1>7. QED
  BY <1>6 DEF Ledger!Next

\* Nothing else touches the chain.  That the assessment sent is one needs the
\* invariant: the keeper holds a score by then.
LEMMA LedgerStep ==
    ASSUME ScoreTypes, [Next]_vars
    PROVE  [Ledger!Next]_(Ledger!vars)
<1>0. KeeperFine(keeper)
  BY DEF ScoreTypes, KeeperOK
<1>1. ASSUME UNCHANGED tokenVars
      PROVE  UNCHANGED Ledger!vars
  BY <1>1 DEF tokenVars, Ledger!vars
<1>2. ASSUME FarmerStep
      PROVE  Ledger!Next
  BY <1>2, TokenInstructions, FarmersAssumption DEF FarmerStep
<1>3. ASSUME Tick
      PROVE  Ledger!Next
  BY <1>3 DEF Tick, Ledger!Tick, Ledger!Next, Ledger!lienVars
<1>4. ASSUME SendSeasonalCheck
      PROVE  Ledger!Next \/ UNCHANGED tokenVars
  <2>1. keeper.parcel \in Parcels /\ Relay \in Wallets
    BY <1>0, <1>4, KeeperAssumption DEF SendSeasonalCheck, KeeperFine
  <2>2. QED
    BY <1>4, <2>1, TokenInstructions DEF SendSeasonalCheck, Refused
<1>5. ASSUME SendRiskAssessment
      PROVE  Ledger!Next \/ UNCHANGED tokenVars
  <2>1. keeper.parcel \in Parcels /\ keeper.score \in CreditScore /\ Relay \in Wallets
    BY <1>0, <1>5, KeeperAssumption DEF SendRiskAssessment, KeeperFine
  <2>2. QED
    BY <1>5, <2>1, TokenInstructions DEF SendRiskAssessment, Refused
<1>6. ASSUME KeeperStep
      PROVE  Ledger!Next \/ UNCHANGED tokenVars
  BY <1>4, <1>5, <1>6
     DEF KeeperStep, ListParcels, FetchSeries, ReadScore, Recalculate, RecordDecision
<1>7. Next \/ UNCHANGED vars
  OBVIOUS
<1>8. CASE UNCHANGED vars
  BY <1>1, <1>8 DEF vars
<1>9. CASE Next
  BY <1>1, <1>2, <1>3, <1>6, <1>9 DEF Next, IndexAddress, TimePasses, ProfileStep
<1>10. QED
  BY <1>7, <1>8, <1>9

\* Keeper, scorer, API and farmers together implement the ledger, whatever the
\* RPC node answers.
THEOREM ScoresUseTheLedger == Spec => Ledger!Spec
<1>1. Init => Ledger!Init
  BY DEF Init, Ledger!Init, TokenInit, Ledger!TokenInit, Ledger!LienInit
<1>2. ScoreTypes /\ [Next]_vars => [Ledger!Next]_(Ledger!vars)
  BY LedgerStep
<1>3. QED
  BY <1>1, <1>2, ScoreTypesInvariant, PTL DEF Spec, Ledger!Spec

\* So the risk flag never contradicts the score, whatever the language model
\* answers and however often the keeper and the API overwrite each other.
THEOREM FlagFollowsEveryScore == Spec => []Ledger!FlagFollowsScore
<1>1. Ledger!Spec => []Ledger!FlagFollowsScore
  BY Ledger!FlagConsistent, TerraTokenAssumption
<1>2. QED
  BY <1>1, ScoresUseTheLedger, PTL
================================================================================
