------------------------------ MODULE MCLending ------------------------------
(***************************************************************************)
(* Small instances of Lending.  Amounts are scaled so that a loan is about *)
(* 350 lamports: the 2% fee is then 7 lamports, which the three-way split   *)
(* leaves 2 lamports of dust of.                                           *)
(* Durations are counted in units of 12 hours (1, 4 and 14 for 12 h, 48 h  *)
(* and 7 days).                                                            *)
(***************************************************************************)
EXTENDS Lending, TLC

GoldTerms == [ltv_bps |-> 5000, pool_type |-> "Raydium",
              min_loan_amount |-> 10, max_loan_amount |-> 1000]
PumpfunTerms == [GoldTerms EXCEPT !.pool_type = "Pumpfun"]

MCTerms == {GoldTerms}
MCTermsBoth == {GoldTerms, PumpfunTerms}

Symmetry == Permutations(Token) \cup Permutations(Borrower)
=============================================================================
