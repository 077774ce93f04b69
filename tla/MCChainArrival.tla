---------------------------- MODULE MCChainArrival ----------------------------
(***************************************************************************)
(* ChainArrival over the block tree of MCChainNode.                        *)
(***************************************************************************)
EXTENDS ChainArrival, MCChainNode
==============================================================================
