-------------------------------- MODULE Shown --------------------------------
(***************************************************************************)
(* What users and operators are told: prices (PriceDesk), the alerts of     *)
(* the treasury and of the liquidator (TreasuryWatch, LiquidatorHealth),    *)
(* the answers of the SDK (SdkCalls), the messages of failed transactions   *)
(* (ErrorMessages), and the pages on which stakes (StakingPage) and loans   *)
(* (LoanPages) are made and seen.                                           *)
(*                                                                         *)
(* They share no state.  A behaviour is one of them, which says which, and  *)
(* v1 to v14 are its variables; checking them together is checking each     *)
(* alone.                                                                  *)
(***************************************************************************)
EXTENDS Integers, FiniteSets

CONSTANTS
  Mint, Sol, Request, ServerTtl, SdkTtl, SdkTimeout, RedisWait, Cap,
  Check, Balance, Critical, Low, Large, Pattern, MaxFaults,
  Threshold, ALERT_COOLDOWN, RATE_LIMIT, MaxFailures, MaxMishaps,
  Caller, Wallet, Made, Constant, Base, Depth, Scale, LiquidationPrice, DueAt,
  MaxTime, MaxCalls, MaxChanges,
  Nobody, Amount, MaxEpoch, MaxPresses, MaxElsewhere,
  Loan, Owner, MaxSwitches, MaxReads

ASSUME PriceAssumption ==
  /\ IsFiniteSet(Mint) /\ Sol \in Mint
  /\ ServerTtl \in Nat \ {0} /\ SdkTtl \in Nat \ {0}
  /\ SdkTimeout \in Nat /\ RedisWait \in Nat /\ Cap \in Nat

\* The thresholds of an account are in order (treasury-monitor.service.ts).
ASSUME WatchAssumption ==
  \A a \in {"treasury", "rewards"} :
    /\ Balance[a] \subseteq Nat
    /\ Critical[a] \in Nat /\ Low[a] \in Nat /\ Critical[a] <= Low[a]

ASSUME HealthAssumption ==
  /\ Threshold \in Nat \ {0}
  /\ ALERT_COOLDOWN \in Nat \ {0} /\ RATE_LIMIT \in Nat

\* What is typed to be staked or taken back is positive.
ASSUME StakeAssumption == Amount \subseteq Nat \ {0}

\* A pool's balances, prices and times are whole numbers.
ASSUME SdkAssumption ==
  /\ Base \subseteq Nat \ {0} /\ Depth \subseteq Nat
  /\ Constant \in Nat /\ Scale \in Nat
  /\ LiquidationPrice \in Nat /\ DueAt \in Nat

VARIABLES which, v1, v2, v3, v4, v5, v6, v7, v8, v9, v10, v11, v12, v13, v14

Desk == INSTANCE PriceDesk WITH
  cache <- v1, req <- v2, sdkCache <- v3, sdk <- v4

Treasury == INSTANCE TreasuryWatch WITH
  balance <- v1, monitor <- v2, last <- v3, withdrawals <- v4, limited <- v5,
  check <- v6, told <- v7, faults <- v8

Health == INSTANCE LiquidatorHealth WITH
  metrics <- v1, heartbeat <- v2, run <- v3, attempt <- v4, alerted <- v5, sent <- v6,
  streak <- v7, lost <- v8, revived <- v9, heard <- v10, mishaps <- v11

Messages == INSTANCE ErrorMessages WITH
  page <- v1, failure <- v2, told <- v3

Sdk == INSTANCE SdkCalls WITH
  loan <- v1, paused <- v2, wallet <- v3, base <- v4, depth <- v5, now <- v6,
  call <- v7, window <- v8, calls <- v9, changes <- v10

Stakes == INSTANCE StakingPage WITH
  epoch <- v1, paused <- v2, position <- v3, wallet <- v4, stats <- v5,
  asked <- v6, shown <- v7, press <- v8, fresh <- v9, presses <- v10,
  elsewhere <- v11, faults <- v12

Loans == INSTANCE LoanPages WITH
  chain <- v1, db <- v2, borrower <- v3, wallet <- v4, list <- v5,
  cache <- v6, hook <- v7, hasSynced <- v8, borrow <- v9, repay <- v10,
  excused <- v11, switches <- v12, reads <- v13, faults <- v14

(* The variables after the n-th are not in use. *)
Unused(n) ==
  /\ n < 4 => v4 = "-"
  /\ n < 5 => v5 = "-"
  /\ n < 6 => v6 = "-"
  /\ n < 7 => v7 = "-"
  /\ n < 8 => v8 = "-"
  /\ n < 9 => v9 = "-"
  /\ n < 10 => v10 = "-"
  /\ n < 11 => v11 = "-"
  /\ n < 12 => v12 = "-"
  /\ n < 13 => v13 = "-"
  /\ n < 14 => v14 = "-"

Init ==
  \/ which = "desk" /\ Desk!Init /\ Unused(4)
  \/ which = "treasury" /\ Treasury!Init /\ Unused(8)
  \/ which = "health" /\ Health!Init /\ Unused(11)
  \/ which = "messages" /\ Messages!Init /\ Unused(3)
  \/ which = "sdk" /\ Sdk!Init /\ Unused(10)
  \/ which = "stakes" /\ Stakes!Init /\ Unused(12)
  \/ which = "loans" /\ Loans!Init /\ Unused(14)

Next ==
  \/ /\ which = "desk" /\ Desk!Next
     /\ UNCHANGED <<which, v5, v6, v7, v8, v9, v10, v11, v12, v13, v14>>
  \/ /\ which = "treasury" /\ Treasury!Next
     /\ UNCHANGED <<which, v9, v10, v11, v12, v13, v14>>
  \/ which = "health" /\ Health!Next /\ UNCHANGED <<which, v12, v13, v14>>
  \/ /\ which = "messages" /\ Messages!Next
     /\ UNCHANGED <<which, v4, v5, v6, v7, v8, v9, v10, v11, v12, v13, v14>>
  \/ which = "sdk" /\ Sdk!Next /\ UNCHANGED <<which, v11, v12, v13, v14>>
  \/ which = "stakes" /\ Stakes!Next /\ UNCHANGED <<which, v13, v14>>
  \/ which = "loans" /\ Loans!Next /\ UNCHANGED <<which>>

vars == <<which, v1, v2, v3, v4, v5, v6, v7, v8, v9, v10, v11, v12, v13, v14>>

Spec == Init /\ [][Next]_vars
-----------------------------------------------------------------------------
(* Properties.                                                              *)

\* PriceDesk!PricesAreRecent: what the SDK answers is no older than it may be.
PricesAreRecent == which = "desk" => Desk!PricesAreRecent

\* TreasuryWatch!FallsAreTold and LiquidatorHealth!FailuresShow: an account that
\* fell below its threshold is alerted about; a liquidator that keeps failing is shown
\* and alerted, but for the failures that a heartbeat took off its record.
WarningsAreSent ==
  /\ which = "treasury" => Treasury!FallsAreTold
  /\ which = "health" => Health!FailuresShow

\* ErrorMessages!ErrorsAreTold, SdkCalls!AnswersFit, StakingPage!PositionIsTold and
\* LoanPages!LoansAreTold: what a caller or user is told of a failure, a price, a
\* position or a loan was so, whatever came in between.
TellsTheTruth ==
  /\ which = "messages" => Messages!ErrorsAreTold
  /\ which = "sdk" => Sdk!AnswersFit
  /\ which = "stakes" => Stakes!PositionIsTold
  /\ which = "loans" => Loans!LoansAreTold
=============================================================================
