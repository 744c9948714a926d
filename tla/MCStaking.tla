----------------------------- MODULE MCStaking -----------------------------
(***************************************************************************)
(* Small instances of Staking: two stakers, a few lamports of rewards, a    *)
(* rent-exempt minimum of 1 and a smallest distribution of 2.               *)
(***************************************************************************)
EXTENDS Staking, TLC

Symmetry == Permutations(Staker)
=============================================================================
