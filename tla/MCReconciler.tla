---------------------------- MODULE MCReconciler ----------------------------
(* Instances of Reconciler for TLC: which runtimes an instance may have.   *)
EXTENDS Reconciler

CONSTANTS ContainerInst, ComposeInst  \* subsets of Inst, possibly overlapping

MCRuntimesOf ==
    LET member == [container |-> ContainerInst, compose |-> ComposeInst]
    IN  [i \in Inst |-> {rt \in Runtime : i \in member[rt]}]
=============================================================================
