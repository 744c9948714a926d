------------------------------ MODULE MCShown --------------------------------
(* A small instance of Shown: two of everything that overlaps, one loan.     *)
EXTENDS Shown, TLC

\* Requests, checks and callers differ in their names only.
\* The three have the same members, as no behaviour has more than one of them.
Symmetry == Permutations(Request \cup Check \cup Caller)

MCBalance == [treasury |-> {0, 1, 3}, rewards |-> {0, 1}]
MCCritical == [treasury |-> 1, rewards |-> 1]
MCLow == [treasury |-> 3, rewards |-> 1]
MCOwner == "l1" :> "w1"

(* The two wallets are alike to the staking page: it is opened with the first *)
(* connected, or none.                                                       *)
MCInit == Init /\ (which = "stakes" => v4 # "w2")
MCSpec == MCInit /\ [][Next]_vars
=============================================================================
