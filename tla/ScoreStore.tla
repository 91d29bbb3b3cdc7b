------------------------------ MODULE ScoreStore ------------------------------
(***************************************************************************)
(* What the keeper and the credit profile share: the tables certificates   *)
(* and credit_scores, and the scorer (claude_scorer.go), which asks a      *)
(* language model and falls back to a formula when that fails.  Satellite  *)
(* indices are integers in tenths, loan-to-value is in basis points.       *)
(***************************************************************************)
EXTENDS TerraToken

CONSTANTS
    Readings,       \* satellite series that can be fetched for a parcel
    ModelAnswers,   \* answers of the language model, before they are clamped
    LandClass,      \* LandClass[p]: land_class of the row of p
    Faulty,         \* whether the RPC node's answer may be wrong about what
                    \* becomes of a transaction, and a decision's insert fail
    None            \* no series, no score

ASSUME ScoreStoreAssumption ==
    /\ Readings \subseteq
         [ ndvi : Int, ndwi : Int, evi : Int,
           trend : {"improving", "stable", "declining"} ]
    /\ ModelAnswers \subseteq [ai_score : Int, recommended_ltv : Int, grade : Int]
    /\ LandClass \in [Parcels -> 1 .. 8]
    /\ Faulty \in BOOLEAN

VARIABLES
    certificates,   \* the series stored for each parcel, or None
    credit_scores   \* rows: parcel -> [score, fresh]; fresh is computed_at
                    \* less than scoreMaxAge ago

storeVars == <<certificates, credit_scores>>

\* collateral_grade is what gradeToU8 makes of the letter.
CreditScore ==
    [ai_score : Scores, collateral_grade : Grades, recommended_ltv : Ratios]

StoreTypeOK ==
    /\ certificates \in [Parcels -> Readings \cup {None}]
    /\ DOMAIN credit_scores \subseteq Parcels
    /\ credit_scores \in
         [DOMAIN credit_scores -> [score : CreditScore, fresh : BOOLEAN]]

StoreInit ==
    /\ certificates = [p \in Parcels |-> None]
    /\ credit_scores = [p \in {} |-> {}]

-----------------------------------------------------------------------------
(* The scorer *)

Within(low, high, n) == IF n < low THEN low ELSE IF n > high THEN high ELSE n

GradeFromScore(n) ==
    CASE n >= 80 -> [grade |-> 0, ltv |-> 7000]
      [] n \in 60 .. 79 -> [grade |-> 1, ltv |-> 5000]
      [] n \in 40 .. 59 -> [grade |-> 2, ltv |-> 3000]
      [] OTHER -> [grade |-> 3, ltv |-> 1000]

If(condition, points) == IF condition THEN points ELSE 0

\* No caller fills DormantSeasons or Disputes, so dormancy costs nothing here.
FallbackPoints(p, reading, active_liens) ==
    50 + If(active_liens = 0, 15) + If(LandClass[p] <= 3, 10)
       + (IF reading = None THEN 0
          ELSE If(reading.ndvi > 6, 20) - If(reading.ndwi < -3, 10)
                 + If(reading.evi > 4, 5)
                 + If(reading.trend = "improving", 5)
                 - If(reading.trend = "declining", 5))

FallbackScore(p, reading, active_liens) ==
    LET n == Within(0, 100, FallbackPoints(p, reading, active_liens))
        g == GradeFromScore(n)
    IN  [ai_score |-> n, collateral_grade |-> g.grade, recommended_ltv |-> g.ltv]

\* Mutant: the model's numbers are taken as they come.
Unclamped(answer) ==
    [ ai_score         |-> answer.ai_score,
      collateral_grade |-> IF answer.grade \in Grades THEN answer.grade ELSE 3,
      recommended_ltv  |-> answer.recommended_ltv ]

\* A grade that is none of the letters becomes D.
Clamped(answer) ==
    [ ai_score         |-> Within(0, 100, answer.ai_score),
      collateral_grade |-> IF answer.grade \in Grades THEN answer.grade ELSE 3,
      recommended_ltv  |-> Within(0, 10000, answer.recommended_ltv) ]

\* It never fails: an error of the API is the fallback.
ComputeScore(p, reading, active_liens) ==
    {FallbackScore(p, reading, active_liens)} \cup {Clamped(a) : a \in ModelAnswers}

-----------------------------------------------------------------------------
(* Statements *)

\* FetchAndStoreSeries: the series is stored and returned, or, when the
\* provider or the insert fails or nothing was observed, neither.  Intervals
\* seen before are updated; what a window of twelve months no longer covers
\* stays in the table and is abstracted from here.
FetchAndStoreSeries(p, reading) ==
    /\ reading \in Readings \cup {None}
    /\ certificates' = IF reading = None THEN certificates
                       ELSE [certificates EXCEPT ![p] = reading]

GetScore(p) == IF p \in DOMAIN credit_scores THEN credit_scores[p].score ELSE None

\* One row per parcel, computed_at = NOW().
Upsert(p, score) ==
    credit_scores' = [q \in DOMAIN credit_scores \cup {p} |->
        IF q = p THEN [score |-> score, fresh |-> TRUE] ELSE credit_scores[q]]

\* The row of p becomes older than scoreMaxAge.
RowAges(p) ==
    /\ p \in DOMAIN credit_scores
    /\ credit_scores[p].fresh
    /\ credit_scores' = [credit_scores EXCEPT ![p].fresh = FALSE]
    /\ UNCHANGED certificates
=============================================================================
