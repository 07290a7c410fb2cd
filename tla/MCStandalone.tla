---------------------------- MODULE MCStandalone ----------------------------
(***************************************************************************)
(* The programs of the repository that share nothing with the services or  *)
(* with each other: a behaviour is one of the token contract, of the       *)
(* reference core, or of the logic guard, and the others do not move.      *)
(***************************************************************************)
EXTENDS Integers, Sequences

CONSTANTS Accounts, References, MaxUint, Processes, CoreNodes, Amounts, Threshold, MaxVolume,
          Files, OutDir, MaxScans

VARIABLES
  program,
  owner, balances, totalSupply, usedReferences, booked, burnedByHolder,
  captured, verdicts, coin, pool, fees, volume, assigned, weighted, active, signals,
  repo, stage, todo, errors, hardFail, markers, exits

Contract == INSTANCE ReserveManager
Core == INSTANCE ReferenceCore WITH Nodes <- CoreNodes
Guard == INSTANCE LogicGuard

contractVars == <<owner, balances, totalSupply, usedReferences, booked, burnedByHolder>>
coreVars == <<captured, verdicts, coin, pool, fees, volume, assigned, weighted, active, signals>>
guardVars == <<repo, stage, todo, errors, hardFail, markers, exits>>
vars == <<program, contractVars, coreVars, guardVars>>

Init ==
  /\ program \in {"contract", "core", "guard"}
  /\ Contract!Init /\ Core!Init /\ Guard!Init
  /\ program = "contract" \/ owner = CHOOSE a \in Accounts : TRUE
  /\ program = "guard" \/ repo = {}

Next ==
  /\ \/ /\ program = "contract"
        /\ Contract!Next
        /\ UNCHANGED <<coreVars, guardVars>>
     \/ /\ program = "core"
        /\ Core!Next
        /\ UNCHANGED <<contractVars, guardVars>>
     \/ /\ program = "guard"
        /\ Guard!Next
        /\ UNCHANGED <<contractVars, coreVars>>
  /\ UNCHANGED program

Spec == Init /\ [][Next]_vars

\* Files with an error of each kind, and with none.
MCFiles ==
  {{".md", "pot", "tx_journal_writer.md"}, {".md", "kyc", "jurisdiction"},
   {".md", "kyc", "jurisdiction", "kyc_aml_interface_bridge.md"}, {".md", "forbidden term"},
   {".json", "malformed"}, {".md", "no rollback", "audit"}, {".md", "no title", "signature"},
   {".md", "staking rewards"}, {".md", "ttl over limit"}, {".md", "pot", "tx_audit_log_format.md"}}

\* SupplyByReference of the token contract.
ContractSupplyByReference == Contract!SupplyByReference

\* ShareReachesNodes of the reference core.
CoreShareReachesNodes == Core!ShareReachesNodes

\* VerdictOfFiles of the logic guard.
GuardVerdictOfFiles == Guard!VerdictOfFiles
=============================================================================
