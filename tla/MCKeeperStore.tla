---------------------------- MODULE MCKeeperStore ----------------------------
(***************************************************************************)
(* Two round ids in the discovery window; one or two contracts.            *)
(***************************************************************************)
EXTENDS KeeperStore

CONSTANTS c1, c2
=============================================================================
