---------------------------- MODULE MCLoanKeeper ----------------------------
(***************************************************************************)
(* Small instances of LoanKeeper: which activity runs on which server.      *)
(***************************************************************************)
EXTENDS LoanKeeper

CONSTANTS a, b, jobA, jobB, alertA, requestA

TwoServers == [x \in {jobA, jobB, alertA, requestA} |-> IF x = jobB THEN b ELSE a]
=============================================================================
