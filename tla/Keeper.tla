-------------------------------- MODULE Keeper --------------------------------
(***************************************************************************)
(* The keeper (keeper.go): one goroutine that wakes up at every interval,  *)
(* takes the parcels that have an address on chain and, parcel by parcel,  *)
(* fetches satellite data, cranks the seasonal check, recomputes the score *)
(* and sends it to the chain.                                              *)
(*                                                                         *)
(* A transaction takes effect before the keeper's next step or never:      *)
(* a blockhash expires within minutes, the interval is six hours, and the  *)
(* check and the assessment of one pass touch different fields.            *)
(***************************************************************************)
EXTENDS ScoreStore, FiniteSets

CONSTANTS
    Relay,      \* the wallet of relayKey
    LIMIT,      \* of the query, 50 in the code
    MissingOptionals    \* whether the Anchor build accepts an instruction without
                        \* its trailing optional account: `allow-missing-optionals`,
                        \* a feature no Cargo.toml of the repository enables

ASSUME KeeperAssumption ==
    /\ Relay \in Wallets
    /\ LIMIT \in Nat \ {0}
    /\ MissingOptionals \in BOOLEAN

VARIABLES
    addressed,          \* parcels whose row has an on_chain_address
    keeper,             \* where the keeper is and what it holds
    agent_decisions     \* the newest row for each parcel that has one

keeperVars == <<addressed, keeper, agent_decisions>>

Step == {"waiting", "next", "check", "read", "score", "assess", "record"}

KeeperState ==
    [ pc      : Step,
      todo    : SUBSET Parcels,
      parcel  : Parcels \cup {None},
      reading : Readings \cup {None},
      prev    : CreditScore \cup {None},
      score   : CreditScore \cup {None} ]

Resting(todo) ==
    [ pc |-> IF todo = {} THEN "waiting" ELSE "next", todo |-> todo,
      parcel |-> None, reading |-> None, prev |-> None, score |-> None ]

KeeperTypeOK ==
    /\ addressed \subseteq Parcels
    /\ keeper \in KeeperState
    /\ DOMAIN agent_decisions \subseteq Parcels
    /\ agent_decisions \in [DOMAIN agent_decisions -> CreditScore]

KeeperInit ==
    /\ addressed = {}
    /\ keeper = Resting({})
    /\ agent_decisions = [p \in {} |-> {}]

-----------------------------------------------------------------------------

\* SendTransaction answers with a signature or an error.  The node simulates
\* the transaction first, so a signature means that it was acceptable then.
\* A faulty answer: an error for a transaction that lands, or a signature for
\* one that is dropped.
Refused == UNCHANGED tokenVars

\* ListNeedingSeasonalCheck: no order, and last_seasonal_check is never
\* written, so every parcel with an address qualifies at every tick.
ListParcels ==
    /\ keeper.pc = "waiting"
    /\ \E todo \in SUBSET addressed :
         /\ todo # {}
         /\ \/ Cardinality(todo) = LIMIT
            \/ Cardinality(todo) < LIMIT /\ todo = addressed
         /\ keeper' = Resting(todo)
    /\ UNCHANGED <<tokenVars, storeVars, addressed, agent_decisions>>

\* Mutant: an error of one parcel ends the tick.
EndTick == keeper' = Resting({})

\* On to the next parcel.
EndParcel == keeper' = Resting(keeper.todo \ {keeper.parcel})

FetchSeries(p) ==
    /\ keeper.pc = "next"
    /\ p \in keeper.todo
    /\ \E reading \in Readings \cup {None} :
         /\ FetchAndStoreSeries(p, reading)
         /\ keeper' = [keeper EXCEPT !.pc = "check", !.parcel = p, !.reading = reading]
    /\ UNCHANGED <<tokenVars, credit_scores, addressed, agent_decisions>>

\* Without a signature the parcel is given up for this tick.
SkipParcel == EndParcel

\* The keeper passes the parcel and itself, and never the third account, the
\* optional lien index: in the build as it is Anchor refuses every check with
\* AccountNotEnoughKeys, and no pass of a parcel gets beyond this step.
SendSeasonalCheck ==
    LET p == keeper.parcel
        lands == MissingOptionals /\ SeasonalCheck(p, FALSE)
        acceptable == MissingOptionals /\ Registered(p) /\ SeasonOver(p)
        signed == keeper' = [keeper EXCEPT !.pc = "read"]
    IN  /\ keeper.pc = "check"
        /\ \/ lands /\ signed
           \/ Refused /\ SkipParcel
           \/ Faulty /\ lands /\ SkipParcel
           \/ Faulty /\ acceptable /\ Refused /\ signed
        /\ UNCHANGED <<storeVars, addressed, agent_decisions>>

\* An error of the query reads as no previous score.
ReadScore ==
    /\ keeper.pc = "read"
    /\ \/ keeper' = [keeper EXCEPT !.pc = "score", !.prev = GetScore(keeper.parcel)]
       \/ keeper' = [keeper EXCEPT !.pc = "score", !.prev = None]
    /\ UNCHANGED <<tokenVars, storeVars, addressed, agent_decisions>>

\* The input of the keeper has no liens.  A failed upsert is logged.
Recalculate ==
    LET p == keeper.parcel IN
    /\ keeper.pc = "score"
    /\ \E score \in ComputeScore(p, keeper.reading, 0) :
         /\ Upsert(p, score) \/ UNCHANGED credit_scores
         /\ keeper' = [keeper EXCEPT !.pc = "assess", !.score = score, !.reading = None]
    /\ UNCHANGED <<tokenVars, certificates, addressed, agent_decisions>>

IsScoreChanged(score, prev) ==
    \/ score.ai_score - prev.ai_score \notin -4 .. 4
    \/ score.collateral_grade # prev.collateral_grade

ToSend == IF keeper.prev = None THEN TRUE ELSE IsScoreChanged(keeper.score, keeper.prev)

\* Mutant: a decision is recorded although the transaction was refused.
RecordAnyway == keeper' = [keeper EXCEPT !.pc = "record"]

\* Without a signature nothing is recorded, and nothing undone: the row of the
\* score stays, and is the next tick's previous score.
GiveUp == EndParcel

SendRiskAssessment ==
    LET p == keeper.parcel
        lands == UpdateRiskAssessment(Relay, p, keeper.score)
        acceptable == /\ Registered(p)
                      /\ parcel_config[p].mint_authority = Relay
                      /\ ValidAssessment(keeper.score)
        signed == keeper' = [keeper EXCEPT !.pc = "record"]
    IN  /\ keeper.pc = "assess"
        /\ \/ ~ToSend /\ UNCHANGED tokenVars /\ EndParcel
           \/ ToSend /\ lands /\ signed
           \/ ToSend /\ Refused /\ GiveUp
           \/ Faulty /\ ToSend /\ lands /\ GiveUp
           \/ Faulty /\ ToSend /\ acceptable /\ Refused /\ signed
        /\ UNCHANGED <<storeVars, addressed, agent_decisions>>

CreateDecision(p, score) ==
    agent_decisions' = [q \in DOMAIN agent_decisions \cup {p} |->
        IF q = p THEN score ELSE agent_decisions[q]]

RecordDecision ==
    /\ keeper.pc = "record"
    /\ \/ CreateDecision(keeper.parcel, keeper.score)
       \/ Faulty /\ UNCHANGED agent_decisions
    /\ EndParcel
    /\ UNCHANGED <<tokenVars, storeVars, addressed>>

KeeperStep ==
    \/ ListParcels
    \/ \E p \in Parcels : FetchSeries(p)
    \/ SendSeasonalCheck \/ ReadScore \/ Recalculate
    \/ SendRiskAssessment \/ RecordDecision
=============================================================================
