------------------------------- MODULE MCImap ------------------------------
(***************************************************************************)
(* Imap on a small instance.  Between calls the tree holds at most MaxAddr *)
(* intervals, so MaxAddr nodes and one that a call has deleted but still   *)
(* refers to are all a behaviour can use: the bound on Node cuts nothing   *)
(* (NewNode and Split would find no fresh node, and TLC would say so).     *)
(***************************************************************************)
EXTENDS Imap, TLC
=============================================================================
