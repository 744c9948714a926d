----------------------------- MODULE MCServices ------------------------------
(* A small instance of Services.  The routes are those of api/loans.ts: by   *)
(* IP only, and by IP and then by wallet.                                    *)
EXTENDS Services, TLC

MCRoute == {<<"ip">>, <<"ip", "wallet">>}

\* A run with --staking-token, the default without it, and a run with it,
\* --skip-init and --no-fund.
MCOptions == {{"protocol", "staking", "feeReceiver", "treasury"},
              {"protocol", "feeReceiver", "treasury"}, {"staking", "feeReceiver"}}

\* Requests, sockets and reviewers differ in their names only.  The three have the
\* same members, as no behaviour has more than one of them.
Symmetry == Permutations(Request \cup Socket \cup Reviewer)
=============================================================================
