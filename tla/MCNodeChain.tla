---------------------------- MODULE MCNodeChain ----------------------------
(* NodeChain.tla on a small instance; see the configurations *)
(* NodeChainOverlap.cfg, NodeChainSerial.cfg and NodeChainAppendOnly.cfg.  *)
EXTENDS NodeChain, TLC

Symmetry == Permutations(Appenders)
=============================================================================
