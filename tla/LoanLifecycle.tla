---------------------------- MODULE LoanLifecycle ----------------------------
(***************************************************************************)
(* What the program promises about every loan, told without prices, fees,  *)
(* counters or administrators: loans are numbered in the order they are    *)
(* made; a loan is closed once, by its borrower or by the protocol; and    *)
(* the collateral is in the loan's vault while the loan is open, goes back *)
(* to the borrower when it is redeemed, and is sold when it is seized.     *)
(* Lending is shown to implement this specification.                       *)
(***************************************************************************)
EXTENDS Integers

CONSTANT MaxLoans       \* a natural number
VARIABLES phase, custody

vars == <<phase, custody>>

LoanId == 0 .. (MaxLoans - 1)

Init ==
  /\ phase = [l \in LoanId |-> "None"]
  /\ custody = [l \in LoanId |-> "borrower"]

Open(l) ==
  /\ phase[l] = "None"
  /\ \A k \in LoanId : k < l => phase[k] # "None"
  /\ phase' = [phase EXCEPT ![l] = "Open"]
  /\ custody' = [custody EXCEPT ![l] = "vault"]

Redeem(l) ==
  /\ phase[l] = "Open"
  /\ phase' = [phase EXCEPT ![l] = "Redeemed"]
  /\ custody' = [custody EXCEPT ![l] = "borrower"]

Seize(l) ==
  /\ phase[l] = "Open"
  /\ phase' = [phase EXCEPT ![l] = "Seized"]
  /\ custody' = [custody EXCEPT ![l] = "market"]

Next == \E l \in LoanId : Open(l) \/ Redeem(l) \/ Seize(l)

Spec == Init /\ [][Next]_vars
=============================================================================
