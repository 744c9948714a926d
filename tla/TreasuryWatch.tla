----------------------------- MODULE TreasuryWatch -----------------------------
(* The monitor of the treasury and the reward vault                             *)
(* (apps/server/src/services/treasury-monitor.service.ts), with what decides    *)
(* whether an event becomes an alert (security-monitor.service.ts) and sends it  *)
(* (alerts/telegram-alert.service.ts).                                          *)
(*                                                                              *)
(* A check compares the balance it asked for with the last one recorded, awaits  *)
(* the alerts that come of it one by one, and then records its own.  The timer   *)
(* starts a check whether or not the one before has ended.                      *)
(*                                                                              *)
(* Events below the least severity (funding) are left out, as are the list of   *)
(* events and the database of them, which alerts do not depend on.              *)
EXTENDS Integers

CONSTANTS Check,            \* checks that overlap at most
          Balance,          \* per account: the balances it may have
          Critical, Low,    \* per account: the two thresholds
          Large,            \* LARGE_WITHDRAWAL_THRESHOLD
          Pattern,          \* DRAIN_PATTERN_THRESHOLD
          MaxFaults         \* bound on failed calls and restarts

Account == {"treasury", "rewards"}

VARIABLES balance,          \* the accounts on chain
          monitor,          \* "off", "starting", "on"
          last,             \* lastTreasuryBalance, lastRewardVaultBalance
          withdrawals,      \* how many recentWithdrawals are in the window
          limited,          \* event types alerted within rateLimitMinutes
          check,
          told,             \* history: accounts below Critical that were alerted
                            \*   since more was recorded, or are excused: below
                            \*   from the start, or held back by the limit
          faults

vars == <<balance, monitor, last, withdrawals, limited, check, told, faults>>

Idle == [phase |-> "idle", account |-> "treasury", seen |-> 0, drop |-> "none",
         at |-> 0, alarm |-> "none"]

Mishap == faults < MaxFaults /\ faults' = faults + 1

Init ==
  /\ balance \in [Account -> UNION {Balance[a] : a \in Account}]
  /\ \A a \in Account : balance[a] \in Balance[a]
  /\ monitor = "off"
  /\ last = [a \in Account |-> 0]
  /\ withdrawals = 0 /\ limited = {}
  /\ check = [c \in Check |-> Idle]
  /\ told = {} /\ faults = 0

Move(a, amount) ==
  /\ balance' = [balance EXCEPT ![a] = amount]
  /\ UNCHANGED <<monitor, last, withdrawals, limited, check, told, faults>>
--------------------------------------------------------------------------------
(* initialize: the first balances are recorded without an alert.  If it fails   *)
(* there is no monitor until the process starts again.                          *)
ReadTreasury ==
  /\ monitor = "off"
  /\ monitor' = "starting"
  /\ last' = [last EXCEPT !["treasury"] = balance["treasury"]]
  /\ UNCHANGED <<balance, withdrawals, limited, check, told, faults>>

ReadRewards ==
  /\ monitor = "starting"
  /\ monitor' = "on"
  /\ last' = [last EXCEPT !["rewards"] = balance["rewards"]]
  /\ told' = {a \in Account : last'[a] < Critical[a]}
  /\ UNCHANGED <<balance, withdrawals, limited, check, faults>>

Restart ==
  /\ monitor # "off" /\ Mishap
  /\ monitor' = "off"
  /\ withdrawals' = 0 /\ limited' = {}
  /\ check' = [c \in Check |-> Idle]
  /\ told' = {}
  /\ UNCHANGED <<balance, last>>

(* The interval, or startMonitoring itself. *)
StartCheck(c) ==
  /\ monitor = "on" /\ check[c].phase = "idle"
  /\ check' = [check EXCEPT ![c].phase = "asking"]
  /\ UNCHANGED <<balance, monitor, last, withdrawals, limited, told, faults>>

(* The RPC node reads the balance; its answer may come later, or an error that   *)
(* ends the check.                                                              *)
Observe(c) ==
  /\ check[c].phase = "asking"
  /\ \/ /\ check' = [check EXCEPT ![c].phase = "answered",
                                  ![c].seen = balance[check[c].account]]
        /\ UNCHANGED faults
     \/ check' = [check EXCEPT ![c] = Idle] /\ Mishap
  /\ UNCHANGED <<balance, monitor, last, withdrawals, limited, told>>
--------------------------------------------------------------------------------
(* evaluateTreasuryBalance, trackWithdrawal, evaluateRewardVaultBalance: the     *)
(* events in order are 1 the withdrawal, 2 the pattern of withdrawals, 3 the      *)
(* threshold.  What is compared is read when its turn comes.                     *)
ThresholdAbove(q) ==              \* fault: a balance at the threshold is below it
  LET a == q.account IN
  IF q.seen < Critical[a] /\ last[a] > Critical[a] THEN "critical"
  ELSE IF q.seen < Low[a] /\ last[a] > Low[a] THEN "low" ELSE "none"

ThresholdEvent(q) ==
  LET a == q.account IN
  IF q.seen < Critical[a] /\ last[a] >= Critical[a] THEN "critical"
  ELSE IF q.seen < Low[a] /\ last[a] >= Low[a] THEN "low" ELSE "none"

Event(q, n) ==
  IF n = 3 THEN ThresholdEvent(q)
  ELSE IF q.drop = "none" THEN "none"
  ELSE IF n = 2 THEN (IF withdrawals' >= Pattern THEN "pattern" ELSE "none")
  ELSE IF q.drop = "large" THEN "large" ELSE "withdrawal"

(* Severity CRITICAL: not rate-limited.  An empty reward vault is only HIGH.     *)
AlwaysAlerts(a, event) == event \in {"pattern", "large"} \/ (event = "critical" /\ a = "treasury")

(* shouldAlert *)
Alerts(q, n) ==
  /\ Event(q, n) # "none"
  /\ AlwaysAlerts(q.account, Event(q, n)) \/ <<q.account, Event(q, n)>> \notin limited

(* The end of one account in a check: its balance is recorded. *)
Record(c, q) ==
  LET a == q.account
      fell == q.seen < Critical[a] /\ last[a] >= Critical[a]
      heldBack == ~AlwaysAlerts(a, "critical") /\ <<a, "critical">> \in limited
  IN
  /\ last' = [last EXCEPT ![a] = q.seen]
  /\ told' = IF q.seen >= Critical[a] THEN told \ {a}
             ELSE IF fell /\ (q.alarm = "critical" \/ heldBack) THEN told \cup {a} ELSE told
  /\ check' = [check EXCEPT ![c] = IF a = "rewards" THEN Idle
                                  ELSE [Idle EXCEPT !.phase = "asking", !.account = "rewards"]]

(* On to the next event that is alerted, which is awaited, or to the end. *)
Proceed(c, q, from) ==
  LET alerting == {n \in from .. 3 : Alerts(q, n)}
      next == CHOOSE n \in alerting : \A m \in alerting : n <= m
  IN
  IF alerting = {} THEN Record(c, q)
  ELSE /\ check' = [check EXCEPT ![c] = [q EXCEPT !.phase = "sending", !.at = next,
                                                  !.alarm = Event(q, next)]]
       /\ UNCHANGED <<last, told>>

Resume(c) ==
  LET q == check[c]
      fell == q.account = "treasury" /\ q.seen < last["treasury"]
  IN
  /\ q.phase = "answered"
  /\ withdrawals' = IF fell /\ withdrawals < Pattern THEN withdrawals + 1 ELSE withdrawals
  /\ Proceed(c, [q EXCEPT !.drop = IF ~fell THEN "none" ELSE
                              IF last["treasury"] - q.seen >= Large THEN "large" ELSE "some"], 1)
  /\ UNCHANGED <<balance, monitor, limited, faults>>

(* sendAlert ends; whether Telegram took it is only logged, and the type is      *)
(* limited from now on.                                                         *)
AlertEnds(c) ==
  LET q == check[c] IN
  /\ q.phase = "sending"
  /\ UNCHANGED withdrawals
  /\ limited' = IF AlwaysAlerts(q.account, q.alarm) THEN limited
                ELSE limited \cup {<<q.account, q.alarm>>}
  /\ Proceed(c, q, q.at + 1)
  /\ UNCHANGED <<balance, monitor, faults>>

(* rateLimitMinutes pass. *)
LimitEnds(t) ==
  /\ t \in limited
  /\ limited' = limited \ {t}
  /\ UNCHANGED <<balance, monitor, last, withdrawals, check, told, faults>>

(* The oldest withdrawal leaves the window. *)
WindowMoves ==
  /\ withdrawals > 0
  /\ withdrawals' = withdrawals - 1
  /\ UNCHANGED <<balance, monitor, last, limited, check, told, faults>>

Next ==
  \/ \E a \in Account : \E amount \in Balance[a] : Move(a, amount)
  \/ ReadTreasury \/ ReadRewards \/ Restart \/ WindowMoves
  \/ \E c \in Check : StartCheck(c) \/ Observe(c) \/ Resume(c) \/ AlertEnds(c)
  \/ \E t \in limited : LimitEnds(t)

Spec == Init /\ [][Next]_vars
--------------------------------------------------------------------------------
(* An account that the monitor knows to be below its critical threshold has been *)
(* alerted about since it was last known to be above, whatever alerts were being *)
(* sent and whichever checks overlapped or came late, but for the excused         *)
(* (treasury-monitor.service.ts:105-141).                                       *)
FallsAreTold ==
  \A a \in Account : monitor = "on" /\ last[a] < Critical[a] => a \in told
================================================================================
