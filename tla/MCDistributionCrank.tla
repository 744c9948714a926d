------------------------ MODULE MCDistributionCrank ------------------------
(***************************************************************************)
(* Small instances of DistributionCrank: the job and one request, two       *)
(* stakers, batches of one, two attempts.                                   *)
(***************************************************************************)
EXTENDS DistributionCrank
=============================================================================
