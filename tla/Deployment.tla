----------------------------- MODULE Deployment -----------------------------
(***************************************************************************)
(* The deployed contract and the programs around it.  Each program keeps   *)
(* state of its own, so instead of their product one program at a time is  *)
(* explored: `focus` says which, and the state of the others stays         *)
(* initial.                                                                *)
(***************************************************************************)
EXTENDS ReceiptExport

VARIABLES focus

Program == {"contract", "export"}

deploymentVars == <<contractVars, export, focus>>

InitDeployment ==
    /\ InitContract /\ ExportInit
    /\ focus \in Program

\* Two rounds of any family share the contract.
NextRounds ==
    /\ focus = "contract"
    /\ NextContract
    /\ UNCHANGED <<export>>

\* An export of one round while the contract is called.
NextExport ==
    /\ focus = "export" /\ ~ Reading("done")
    /\ \/ NextContract /\ UNCHANGED export
       \/ ExportStep /\ UNCHANGED contractVars
    /\ roundCounter' <= 1

NextDeployment ==
    /\ NextRounds \/ NextExport
    /\ UNCHANGED focus

SpecDeployment == InitDeployment /\ [][NextDeployment]_deploymentVars
=============================================================================
