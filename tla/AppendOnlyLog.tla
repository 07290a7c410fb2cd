--------------------------- MODULE AppendOnlyLog ---------------------------
(***************************************************************************)
(* What the NodeChain promises its callers: a log of events to which one   *)
(* event at a time is added at the end, and from which nothing is removed  *)
(* or changed (docs/specs/AST_NodeChain_AGENT_EN.md, I-NC-1, and project   *)
(* invariant I8).  NodeChain.tla implements this specification as long as  *)
(* appends do not overlap.                                                 *)
(***************************************************************************)
EXTENDS Naturals, Sequences

CONSTANT Events   \* what can be recorded

VARIABLE log      \* the recorded events, oldest first

LogTypeOK == log \in Seq(Events)

LogInit == log = << >>

Record(e) == log' = Append(log, e)

LogNext == \E e \in Events : Record(e)

LogSpec == LogInit /\ [][LogNext]_log
=============================================================================
