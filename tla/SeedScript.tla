------------------------------ MODULE SeedScript -------------------------------
(***************************************************************************)
(* contracts/scripts/seed.ts: registers the test parcels, mints their      *)
(* certificates and registers a lien on the first, one transaction after   *)
(* the other.  It may be killed between any two steps and run again; only  *)
(* the ledger survives, and each run has a lender's key of its own, which  *)
(* it keeps nowhere.  A refused transaction is logged and passed over, and *)
(* so is one whose confirmation did not arrive although it landed.         *)
(***************************************************************************)
EXTENDS TransactionErrors

CONSTANTS
    Farmer,         \* the wallet of the environment
    LenderKeys,     \* Keypair.generate() of each run, in order
    PARCELS,        \* the parcels of the test data, in order
    Certificates,   \* Certificates[i]: how many PARCELS[i] is to get
    AREA            \* the arguments it registers a parcel with

ASSUME SeedScriptAssumption ==
    /\ Farmer \in Wallets
    /\ LenderKeys \in Seq(Wallets)
    /\ PARCELS \in Seq(Parcels) /\ PARCELS # <<>>
    /\ Certificates \in [DOMAIN PARCELS -> Nat \ {0}]
    /\ AREA \in Surveys
    /\ 1 \in Amounts       \* the script's amount

VARIABLE script     \* [pc, run, item, cert, errs]: the process, and whether it logged [ERR]

seedVars == <<parcel_config, slot, event, encumbrance, lien_index>>

Lender == LenderKeys[script.run]

SeedInit == script = [pc |-> "exited", run |-> 0, item |-> 1, cert |-> 1, errs |-> FALSE]

StartRun ==
    /\ script.pc \in {"exited", "done"}
    /\ script.run < Len(LenderKeys)
    /\ script' = [pc |-> "fund", run |-> script.run + 1, item |-> 1, cert |-> 1,
                  errs |-> FALSE]
    /\ UNCHANGED seedVars

\* Killed, or ended by the exception that is not caught: the funding's.
Exit ==
    /\ script.pc \notin {"exited", "done"}
    /\ script' = [script EXCEPT !.pc = "exited"]
    /\ UNCHANGED seedVars

FundLender ==
    /\ script.pc = "fund"
    /\ script' = [script EXCEPT !.pc = "register"]
    /\ UNCHANGED seedVars

\* Mutant: every error is taken for a parcel of an earlier run.
SkipEveryError(tx, skip, next) ==
    \/ tx /\ script' = next
    \/ script' = next /\ UNCHANGED seedVars

\* One transaction and its try/catch.  `skip`: the refusal says "already in use".
Try(tx, skip, next) ==
    \/ tx /\ script' = next
    \/ tx /\ script' = [next EXCEPT !.errs = TRUE]
    \/ skip /\ script' = next /\ UNCHANGED seedVars
    \/ script' = [next EXCEPT !.errs = TRUE] /\ UNCHANGED seedVars

NextParcel(pc) ==
    IF script.item < Len(PARCELS)
    THEN [script EXCEPT !.item = @ + 1, !.cert = 1]
    ELSE [script EXCEPT !.pc = pc, !.item = 1, !.cert = 1]

SeedRegister ==
    LET p == PARCELS[script.item] IN
    /\ script.pc = "register"
    /\ Try(Process(buildRegisterParcelInstruction(Farmer, p, AREA), {Farmer}),
           RegisterParcelError(p, AREA) = ALREADY_IN_USE, NextParcel("mint"))

\* The instruction of the generated client, with its eight accounts.
MintInstruction(p, mint) ==
    Instruction(TERRA_TOKEN_PROGRAM_ID,
        << <<getParcelPda(p), WRITABLE>>, <<mint, WRITABLE_SIGNER>>,
           << <<"ata", mint>>, WRITABLE>>, <<Farmer, READONLY>>,
           <<Farmer, WRITABLE_SIGNER>>, << <<"program", "token_2022">>, READONLY>>,
           << <<"program", "associated_token">>, READONLY>>,
           <<SYSTEM_PROGRAM, READONLY>> >>,
        <<"mint_certificate", p, "season", "ndvi_score", "winter_wheat">>)

SeedMint ==
    LET p == PARCELS[script.item]
        certMint == <<"mint", script.run, script.item, script.cert>>
        next == IF script.cert < Certificates[script.item]
                THEN [script EXCEPT !.cert = @ + 1] ELSE NextParcel("lien")
    IN  /\ script.pc = "mint"
        /\ Try(Process(MintInstruction(p, certMint), {Farmer, certMint}), FALSE, next)

SeedLien ==
    LET p == PARCELS[1] IN
    /\ script.pc = "lien"
    /\ Try(Process(buildRegisterEncumbranceInstruction(Lender, getParcelPda(p), p, 1),
                   {Lender}),
           RegisterEncumbranceError(Lender, p, 1) = ALREADY_IN_USE,
           [script EXCEPT !.pc = "done"])

SeedStep ==
    \/ StartRun \/ Exit \/ FundLender
    \/ SeedRegister \/ SeedMint \/ SeedLien
=============================================================================
