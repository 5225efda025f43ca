------------------------------ MODULE MCPilots ------------------------------
(***************************************************************************)
(* Two rounds and two wallets, one of them the user's, for each page.      *)
(***************************************************************************)
EXTENDS Pilots

CONSTANTS a, b

MCWallet == {a, b}
=============================================================================
