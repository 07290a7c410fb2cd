----------------------------- MODULE LogicGuard -----------------------------
(***************************************************************************)
(* tools/ast_logic_guard.py: a scan of the repository's markdown and JSON  *)
(* files, in whatever order the file system lists them, that ends in an    *)
(* exit code and leaves a report which the next scan may meet.             *)
(*                                                                         *)
(* A file is the set of what the checks look for in it.  Warnings, line    *)
(* numbers and wording do not bear on the verdict and are left out.        *)
(***************************************************************************)
EXTENDS Naturals, Sequences, FiniteSetsExt

CONSTANTS
  Files,     \* the files that repositories are made of
  OutDir,    \* the directory of the argument --out
  MaxScans   \* bound on the number of scans

Markers == {"audit", "kyc", "pot"}

Rules ==
  {"TERM-FORBID", "NON-SPEC", "AUD-ROLLBACK", "KYC-LINK", "TIME-SYNC", "CRYPTO-LINK",
   "DOC-STYLE", "JSON-VALID", "POT-LOGIC", "XREF"}

\* spec_rules.json: the weight of each category, by the rules that are its members.
Weight ==
  [r \in {{"TERM-FORBID"}, {"POT-LOGIC"}, {"AUD-ROLLBACK"}, {"KYC-LINK"}, {"TIME-SYNC"},
          {"CRYPTO-LINK"}, {"NON-SPEC"}, {"XREF"}, {"DOC-STYLE", "JSON-VALID"}} |->
     CASE r = {"POT-LOGIC"} -> 3
       [] r = {"DOC-STYLE", "JSON-VALID"} -> 1
       [] OTHER -> 2]

OverallThreshold == 75

VARIABLES
  repo,      \* the files
  stage,     \* "idle" or "scan"
  todo,      \* the files still to be processed
  errors,    \* the rules with errors in summary
  hardFail,  \* hard_fail
  markers,   \* the global_markers that are not 0
  exits      \* the exit codes of the scans

guardVars == <<repo, stage, todo, errors, hardFail, markers, exits>>

Init ==
  /\ repo \in SUBSET Files
  /\ stage = "idle"
  /\ todo = {}
  /\ errors = {}
  /\ hardFail = FALSE
  /\ markers = {}
  /\ exits = << >>

SKIP_DIRS == {".git/", "node_modules/", "reports/"}

iter_files(files) == {f \in files : f \cap SKIP_DIRS = {}}

\* The errors of the checks of one file; "no rollback" holds the word rollback, and
\* "staking rewards" the forbidden term reward.
FileErrors(f) ==
  {r \in Rules :
     \/ r = "TERM-FORBID" /\ f \cap {"forbidden term", "staking rewards"} # {}
     \/ r = "NON-SPEC" /\ "staking rewards" \in f
     \/ r = "AUD-ROLLBACK" /\ "no rollback" \in f
     \/ r = "KYC-LINK" /\ "kyc" \in f /\ "jurisdiction" \notin f
     \/ r = "TIME-SYNC" /\ "ttl over limit" \in f
     \/ r = "CRYPTO-LINK" /\ "signature" \in f /\ "nonce, hash, quorum" \notin f
     \/ r = "DOC-STYLE" /\ ".md" \in f /\ f \cap {"no title", "TODO"} # {}
     \/ r = "JSON-VALID" /\ ".json" \in f /\ "malformed" \in f}

HardRules == {"TERM-FORBID", "AUD-ROLLBACK", "JSON-VALID"}

\* cross_refs: the markers "pot" and "kyc" each ask for one of the named files that has
\* them too; no marker is ever counted under the third name, "rollback".
CrossRefs ==
  {<<"pot", {"tx_journal_writer.md", "tx_audit_log_format.md"}>>,
   <<"kyc", {"kyc_aml_interface_bridge.md"}>>}

\* The file f satisfies the cross reference x.
Cites(f, x) == x[1] \in f /\ f \cap x[2] # {}

\* Mutation: hard_fail is assigned for each file.
process_fileLast(f) ==
  /\ stage = "scan" /\ f \in todo
  /\ todo' = todo \ {f}
  /\ errors' = errors \cup FileErrors(f)
  /\ hardFail' = (FileErrors(f) \cap HardRules # {})
  /\ markers' = markers \cup (f \cap Markers)
  /\ UNCHANGED <<repo, stage, exits>>

process_file(f) ==
  /\ stage = "scan" /\ f \in todo
  /\ todo' = todo \ {f}
  /\ errors' = errors \cup FileErrors(f)
  /\ hardFail' = (hardFail \/ FileErrors(f) \cap HardRules # {})
  /\ markers' = markers \cup (f \cap Markers)
  /\ UNCHANGED <<repo, stage, exits>>

FinalErrors(found) ==
  {r \in Rules :
     \/ r = "POT-LOGIC" /\ "pot" \notin found
     \/ r = "XREF" /\ \E x \in CrossRefs : x[1] \in found /\ ~\E f \in repo : Cites(f, x)}

TotalWeight(categories) == MapThenSumSet(LAMBDA c : Weight[c], categories)

\* In percent.  The threshold is a whole number, so the fraction may be dropped.
compute_score(failed) ==
  (100 * TotalWeight({c \in DOMAIN Weight : c \cap failed = {}})) \div TotalWeight(DOMAIN Weight)

\* What ast_report.json and ast_summary.md hold: the names of all rules, since
\* compute_score makes a row of each, and the messages and excerpts of the findings.
Report(failed) ==
  {OutDir, ".md", "kyc", "audit", "pot"}
    \cup (IF "TERM-FORBID" \in failed THEN {"forbidden term"} ELSE {})
    \cup (IF "AUD-ROLLBACK" \in failed THEN {"no rollback"} ELSE {})
    \cup (IF "NON-SPEC" \in failed THEN {"staking rewards"} ELSE {})
    \cup (IF "KYC-LINK" \in failed THEN {"jurisdiction"} ELSE {})
    \cup (IF "TIME-SYNC" \in failed THEN {"ttl over limit"} ELSE {})
    \cup (IF "CRYPTO-LINK" \in failed THEN {"signature", "nonce, hash, quorum"} ELSE {})

\* main(): a new guard each time.
Scan ==
  /\ stage = "idle"
  /\ Len(exits) < MaxScans
  /\ stage' = "scan"
  /\ todo' = iter_files(repo)
  /\ errors' = {}
  /\ hardFail' = FALSE
  /\ markers' = {}
  /\ UNCHANGED <<repo, exits>>

\* final_checks, compute_score, save_reports and the exit code.  The reports replace
\* those of the scan before.
Finish ==
  LET failed == errors \cup FinalErrors(markers)
      passes == ~hardFail /\ compute_score(failed) >= OverallThreshold
  IN  /\ stage = "scan" /\ todo = {}
      /\ errors' = failed
      /\ repo' = {f \in repo : OutDir \notin f} \cup {Report(failed)}
      /\ exits' = Append(exits, IF passes THEN 0 ELSE 1)
      /\ stage' = "idle"
      /\ UNCHANGED <<todo, hardFail, markers>>

Next == Scan \/ Finish \/ \E f \in todo : process_file(f)

-----------------------------------------------------------------------------
\* The exit code by definition: 1 when some file has an error of a hard rule, or
\* when the categories without an error anywhere weigh less than the threshold.
ExpectedExit(files) ==
  LET failed == (UNION {FileErrors(f) : f \in files}) \cup FinalErrors(Markers \cap UNION files)
  IN  IF failed \cap HardRules = {} /\ compute_score(failed) >= OverallThreshold THEN 0 ELSE 1

\* Every scan exits with the verdict of the repository's own files, in whatever
\* order they are listed, and whatever the scans before it reported.  This needs
\* reports in a directory that scans skip, which the code leaves to the caller.
VerdictOfFiles ==
  \A i \in DOMAIN exits : exits[i] = ExpectedExit(iter_files(repo))
=============================================================================
