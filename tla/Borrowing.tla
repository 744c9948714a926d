------------------------------ MODULE Borrowing ------------------------------
(***************************************************************************)
(* What comes before a loan: whether a token may be collateral             *)
(* (TokenVerification), and whether the server prepares the loan and        *)
(* counts it (LoanDesk).  The two share no state.  A behaviour is one of    *)
(* them, which says which, and the other stands still; checking them        *)
(* together is checking each alone.                                         *)
(***************************************************************************)
EXTENDS Integers, FiniteSets

CONSTANTS
  Wallet, Request, Tracker, Borrower, MAX_LOANS_PER_HOUR, LIQUIDATION_COUNT_THRESHOLD_1H, MaxLoans,
  Token, Caller, PumpFun, AdminReady,
  MaxFaults

\* A process runs finitely many handlers.
ASSUME DeskAssumption == Wallet # {} /\ Borrower \subseteq Wallet /\ IsFiniteSet(Tracker)

\* A lock that nobody holds is held by no call.
ASSUME VerificationAssumption == "nobody" \notin Caller \cup Token /\ AdminReady \in BOOLEAN

VARIABLES
  which,
  loans, rows, rate, expiring, liquidations, tripped, req, trk, faults, forgot, timeless,
  dex, sound, listed, config, row, cache, fresh, lock, call, failed, unsynced

Desk == INSTANCE LoanDesk
Verification == INSTANCE TokenVerification WITH faults <- failed

desk == <<loans, rows, rate, expiring, liquidations, tripped, req, trk, faults, forgot, timeless>>
verification == <<dex, sound, listed, config, row, cache, fresh, lock, call, failed, unsynced>>
vars == <<which, desk, verification>>

Init ==
  /\ which \in {"desk", "verification"}
  /\ Desk!Init /\ Verification!Init

Next ==
  \/ which = "desk" /\ Desk!Next /\ UNCHANGED <<which, verification>>
  \/ which = "verification" /\ Verification!Next /\ UNCHANGED <<which, desk>>

Spec == Init /\ [][Next]_vars

\* The fairness of each for the behaviours that are its own.
LiveSpec ==
  /\ Spec
  /\ \A t \in Tracker : WF_desk(which = "desk" /\ (Desk!Count(t) \/ Desk!Expire(t)))
  /\ \A w \in Wallet : WF_desk(which = "desk" /\ Desk!HourEnds(w))
  /\ \A t \in Token : WF_verification(which = "verification" /\ Verification!CacheAges(t))
-----------------------------------------------------------------------------
(* Properties.                                                              *)

\* LoanDesk!CountsAddUp: each row is counted once, against the wallet it names.
CountsAddUp == which = "desk" => Desk!CountsAddUp

\* LoanDesk!LimitIsLifted: a wallet is not refused for ever.
LimitIsLifted == which = "desk" => Desk!LimitIsLifted

\* LoanDesk!TrippedAdmitsNobody: nobody gets past the tripped breaker.
TrippedAdmitsNobody == Desk!TrippedAdmitsNobody

\* TokenVerification!ValidIsOnChain: what is called valid has its config, and row.
ValidIsOnChain == which = "verification" => Verification!ValidIsOnChain

\* TokenVerification!CacheFollowsWhitelist: no cached answer outlives its cause.
CacheFollowsWhitelist == which = "verification" => Verification!CacheFollowsWhitelist
=============================================================================
