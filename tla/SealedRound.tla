---------------------------- MODULE SealedRound ----------------------------
(***************************************************************************)
(* What the contract promises of a round, whatever its version: stakes are *)
(* taken only while the round collects; nobody is awarded anything before  *)
(* the seals are opened; at most one party pays, once, and no more than it *)
(* staked; a round closes by releasing every stake at once, and then for   *)
(* good.                                                                   *)
(***************************************************************************)
EXTENDS Naturals

CONSTANTS Round, Party

VARIABLES
    phase,    \* phase[r]: how far round r has come
    stake,    \* stake[r][p]: what round r holds of party p
    price     \* price[r][p]: what round r decided that p pays

vars == <<phase, stake, price>>

Phase == {"unborn", "collecting", "opened", "decided", "closed"}
Nothing == [p \in Party |-> 0]

TypeOK ==
    /\ phase \in [Round -> Phase]
    /\ stake \in [Round -> [Party -> Nat]]
    /\ price \in [Round -> [Party -> Nat]]

Init ==
    /\ phase = [r \in Round |-> "unborn"]
    /\ stake = [r \in Round |-> Nothing]
    /\ price = [r \in Round |-> Nothing]

Announce(r) ==
    /\ phase[r] = "unborn"
    /\ phase' = [phase EXCEPT ![r] = "collecting"]
    /\ UNCHANGED <<stake, price>>

Stake(r, p) ==
    /\ phase[r] = "collecting"
    /\ stake'[r][p] \in Nat
    /\ stake' = [stake EXCEPT ![r][p] = stake'[r][p]]
    /\ UNCHANGED <<phase, price>>

Open(r) ==
    /\ phase[r] = "collecting"
    /\ phase' = [phase EXCEPT ![r] = "opened"]
    /\ UNCHANGED <<stake, price>>

Decide(r, p) ==
    /\ phase[r] = "opened"
    /\ phase' = [phase EXCEPT ![r] = "decided"]
    /\ price'[r][p] \in 1 .. stake[r][p]
    /\ price' = [price EXCEPT ![r][p] = price'[r][p]]
    /\ UNCHANGED stake

Close(r) ==
    /\ phase[r] \in {"collecting", "opened", "decided"}
    /\ phase' = [phase EXCEPT ![r] = "closed"]
    /\ stake' = [stake EXCEPT ![r] = Nothing]
    /\ UNCHANGED price

Next ==
    \E r \in Round :
        \/ Announce(r) \/ Open(r) \/ Close(r)
        \/ \E p \in Party : Stake(r, p) \/ Decide(r, p)

Spec == Init /\ [][Next]_vars
=============================================================================
