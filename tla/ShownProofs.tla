----------------------------- MODULE ShownProofs -----------------------------
(***************************************************************************)
(* What Shown promises, for any number of checks, requests, tokens, calls,  *)
(* wallets and loans, and any thresholds and times.  Each part names the     *)
(* variables of its component, and ends in what a step of it keeps.          *)
(***************************************************************************)
EXTENDS Shown, Sequences, FiniteSetTheorems, TLAPS

desk == <<v1, v2, v3, v4>>
treasury == <<v1, v2, v3, v4, v5, v6, v7, v8>>
health == <<v1, v2, v3, v4, v5, v6, v7, v8, v9, v10, v11>>
messages == <<v1, v2, v3>>
sdk == <<v1, v2, v3, v4, v5, v6, v7, v8, v9, v10>>
stakes == <<v1, v2, v3, v4, v5, v6, v7, v8, v9, v10, v11, v12>>
pages == <<v1, v2, v3, v4, v5, v6, v7, v8, v9, v10, v11, v12, v13, v14>>

\* A behaviour stays one of its component.
LEMMA OnePart ==
  [Next]_vars =>
    /\ which' = which
    /\ which = "desk" => [Desk!Next]_desk
    /\ which = "treasury" => [Treasury!Next]_treasury
    /\ which = "health" => [Health!Next]_health
    /\ which = "messages" => [Messages!Next]_messages
    /\ which = "sdk" => [Sdk!Next]_sdk
    /\ which = "stakes" => [Stakes!Next]_stakes
    /\ which = "loans" => [Loans!Next]_pages
BY DEF Next, vars, desk, treasury, health, messages, sdk, stakes, pages
-----------------------------------------------------------------------------
(* LiquidatorHealth: metrics, heartbeat and run are v1, v2 and v3, attempt,  *)
(* alerted and sent v4 to v6, streak, lost, revived and heard v7 to v10.     *)

Metrics == [failures : Nat, ran : {"never", "recently", "longAgo"}]
Heartbeats == [phase : {"idle", "writing"}, got : Metrics]
Runs == [phase : {"idle", "succeeding", "failing"}, got : Metrics]

HealthTypes ==
  /\ v1 \in Metrics /\ v2 \in Heartbeats /\ v3 \in Runs
  /\ v4 \in Nat /\ v5 \in Nat /\ v6 \in Nat
  /\ v7 \in Nat /\ v8 \in Nat /\ v9 \in Nat /\ v10 \in BOOLEAN

\* What a record lacks of the failed runs was taken off, what it has more was put back.
Counts(failures) == failures + v8 >= v7 /\ failures <= v7 + v9
RecordCounts == Counts(v1.failures) /\ (v3.phase = "failing" => Counts(v3.got.failures))

\* While a limit holds back alerts, one was sent not long before.
LimitsHold ==
  /\ v5 < RATE_LIMIT => v6 <= v5
  /\ v4 < ALERT_COOLDOWN => v6 <= v4 + RATE_LIMIT

AlertHeard == v7 - v8 >= Threshold => v10

HealthInv == HealthTypes /\ RecordCounts /\ LimitsHold /\ AlertHeard

\* The record of a process that has not run, and a call that is not made.
LEMMA HealthNone ==
  /\ Health!None \in Metrics /\ Health!None.failures = 0
  /\ Health!Idle \in Heartbeats /\ Health!Idle \in Runs /\ Health!Idle.phase = "idle"
<1>1. Health!None \in Metrics /\ Health!None.failures = 0
  BY DEF Health!None, Metrics
<1>2. Health!Idle = [phase |-> "idle", got |-> Health!None]
  BY DEF Health!Idle
<1> QED
  BY <1>1, <1>2 DEF Heartbeats, Runs

LEMMA HealthInit == Health!Init => HealthInv
<1> SUFFICES ASSUME Health!Init PROVE HealthInv
  OBVIOUS
<1>1. v1 = Health!None /\ v2 = Health!Idle /\ v3 = Health!Idle
  BY DEF Health!Init
<1>2. /\ v4 = ALERT_COOLDOWN /\ v5 = RATE_LIMIT /\ v6 = ALERT_COOLDOWN + RATE_LIMIT
      /\ v7 = 0 /\ v8 = 0 /\ v9 = 0 /\ v10 = FALSE
  BY DEF Health!Init
<1>3. HealthTypes
  <2>1. v4 \in Nat /\ v5 \in Nat /\ v6 \in Nat /\ v7 \in Nat /\ v8 \in Nat /\ v9 \in Nat
    BY <1>2, HealthAssumption
  <2>2. v10 \in BOOLEAN
    BY <1>2
  <2> QED
    BY <1>1, <2>1, <2>2, HealthNone DEF HealthTypes
<1>4. RecordCounts
  BY <1>1, <1>2, HealthNone DEF RecordCounts, Counts
<1>5. LimitsHold /\ AlertHeard
  BY <1>2, HealthAssumption DEF LimitsHold, AlertHeard
<1> QED
  BY <1>3, <1>4, <1>5 DEF HealthInv

\* Logging a failed liquidation keeps the limits, and leaves a recent alert.
LEMMA LogKeepsLimits ==
  HealthTypes /\ LimitsHold /\ Health!Log =>
    /\ v5' \in Nat /\ v6' \in Nat /\ v6' <= v6 /\ v6' <= RATE_LIMIT
    /\ v5' < RATE_LIMIT => v6' <= v5'
BY HealthAssumption DEF HealthTypes, LimitsHold, Health!Log

\* So does an alert that is triggered, whichever of the limits stops it.
LEMMA TriggerIsHeard ==
  HealthTypes /\ LimitsHold /\ Health!Trigger =>
    /\ v4' \in Nat /\ v5' \in Nat /\ v6' \in Nat
    /\ LimitsHold' /\ v6' < ALERT_COOLDOWN + RATE_LIMIT
<1> SUFFICES ASSUME HealthTypes, LimitsHold, Health!Trigger
             PROVE  /\ v4' \in Nat /\ v5' \in Nat /\ v6' \in Nat
                    /\ LimitsHold' /\ v6' < ALERT_COOLDOWN + RATE_LIMIT
  OBVIOUS
<1>1. CASE v4 < ALERT_COOLDOWN
  <2>1. UNCHANGED <<v4, v5, v6>>
    BY <1>1 DEF Health!Trigger, Health!alerts
  <2> QED
    BY <1>1, <2>1, HealthAssumption DEF HealthTypes, LimitsHold
<1>2. CASE ~(v4 < ALERT_COOLDOWN) /\ Health!Log
  <2>1. v4' = 0
    BY <1>2 DEF Health!Trigger
  <2> QED
    BY <1>2, <2>1, LogKeepsLimits, HealthAssumption DEF LimitsHold
<1>3. CASE ~(v4 < ALERT_COOLDOWN) /\ ~Health!Log
  <2>1. v4' = 0 /\ v6' = 0 /\ v5' = v5
    BY <1>3 DEF Health!Trigger
  <2> QED
    BY <2>1, HealthAssumption DEF HealthTypes, LimitsHold
<1> QED
  BY <1>1, <1>2, <1>3

LEMMA HealthStep == HealthInv /\ [Health!Next]_health => HealthInv'
<1> SUFFICES ASSUME HealthInv, [Health!Next]_health
             PROVE  HealthInv'
  OBVIOUS
<1>1. HealthTypes /\ RecordCounts /\ LimitsHold /\ AlertHeard
  BY DEF HealthInv
<1>2. CASE UNCHANGED health
  BY <1>1, <1>2 DEF HealthInv, HealthTypes, RecordCounts, Counts, LimitsHold, AlertHeard, health
<1>3. CASE Health!HeartbeatReads
  <2>1. v2' = [phase |-> "writing", got |-> v1] /\ UNCHANGED <<v1, v3, v4, v5, v6, v7, v8, v9, v10>>
    BY <1>3 DEF Health!HeartbeatReads, Health!alerts, Health!account
  <2>2. v2' \in Heartbeats
    BY <1>1, <2>1 DEF HealthTypes, Heartbeats
  <2> QED
    BY <1>1, <2>1, <2>2 DEF HealthInv, HealthTypes, RecordCounts, Counts, LimitsHold, AlertHeard
<1>4. CASE Health!HeartbeatWrites
  <2>1. v1' = v2.got /\ v2' = Health!Idle /\ UNCHANGED <<v3, v4, v5, v6, v7, v10>>
    BY <1>4 DEF Health!HeartbeatWrites, Health!alerts
  <2>2. PICK n \in Nat : n = v2.got.failures
    BY <1>1 DEF HealthTypes, Heartbeats, Metrics
  <2>3. PICK m \in Nat : m = v1.failures
    BY <1>1 DEF HealthTypes, Metrics
  <2>4. /\ v8' = IF n - m < 0 THEN v8 - (n - m) ELSE v8
        /\ v9' = IF n - m > 0 THEN v9 + (n - m) ELSE v9
    BY <1>4, <2>2, <2>3 DEF Health!HeartbeatWrites
  <2>5. v8' \in Nat /\ v9' \in Nat /\ v8' >= v8 /\ v9' >= v9
    BY <1>1, <2>4 DEF HealthTypes
  <2>6. v1' \in Metrics
    BY <1>1, <2>1 DEF HealthTypes, Heartbeats
  <2>7. HealthTypes'
    BY <1>1, <2>1, <2>5, <2>6, HealthNone DEF HealthTypes
  <2>8. m + v8 >= v7 /\ m <= v7 + v9
    BY <1>1, <2>3 DEF RecordCounts, Counts
  <2>9. Counts(v1.failures)'
    BY <1>1, <2>1, <2>2, <2>4, <2>8 DEF HealthTypes, Counts
  <2>10. (v3.phase = "failing" => Counts(v3.got.failures))'
    <3> SUFFICES ASSUME v3.phase = "failing" PROVE Counts(v3.got.failures)'
      BY <2>1
    <3>1. PICK k \in Nat : k = v3.got.failures
      BY <1>1 DEF HealthTypes, Runs, Metrics
    <3>2. k + v8 >= v7 /\ k <= v7 + v9
      BY <1>1, <3>1 DEF RecordCounts, Counts
    <3> QED
      BY <1>1, <2>1, <2>5, <3>1, <3>2 DEF HealthTypes, Counts
  <2>11. LimitsHold'
    BY <1>1, <2>1 DEF LimitsHold
  <2>12. AlertHeard'
    <3>1. \A a, b, c, t \in Nat : c >= b /\ a - c >= t => a - b >= t
      OBVIOUS
    <3>2. v7 \in Nat /\ v8 \in Nat /\ v8' \in Nat /\ v8' >= v8 /\ Threshold \in Nat
      BY <1>1, <2>5, HealthAssumption DEF HealthTypes
    <3>3. v7 - v8' >= Threshold => v7 - v8 >= Threshold
      BY ONLY <3>1, <3>2
    <3>4. v7' = v7 /\ v10' = v10
      BY <2>1
    <3> QED
      BY <1>1, <3>3, <3>4 DEF AlertHeard
  <2> QED
    BY <2>7, <2>9, <2>10, <2>11, <2>12 DEF HealthInv, RecordCounts
<1>5. ASSUME NEW phase \in {"succeeding", "failing"}, Health!RunEnds(phase) PROVE HealthInv'
  <2>1. v3' = [phase |-> phase, got |-> v1] /\ UNCHANGED <<v1, v2, v4, v7, v8, v9, v10>>
    BY <1>5 DEF Health!RunEnds, Health!account
  <2>2. v3' \in Runs /\ v3'.got = v1
    BY <1>1, <2>1 DEF HealthTypes, Runs
  <2>3. Health!Log \/ UNCHANGED <<v5, v6>>
    BY <1>5 DEF Health!RunEnds
  <2>4. /\ v5' \in Nat /\ v6' \in Nat /\ v6' <= v6
        /\ v5' < RATE_LIMIT => v6' <= v5'
    BY <1>1, <2>3, LogKeepsLimits DEF HealthTypes, LimitsHold
  <2>5. HealthTypes'
    BY <1>1, <2>1, <2>2, <2>4 DEF HealthTypes
  <2>6. RecordCounts'
    BY <1>1, <2>1, <2>2 DEF RecordCounts, Counts
  <2>7. LimitsHold'
    BY <1>1, <2>1, <2>4, HealthAssumption DEF HealthTypes, LimitsHold
  <2>8. AlertHeard'
    BY <1>1, <2>1 DEF AlertHeard
  <2> QED
    BY <2>5, <2>6, <2>7, <2>8 DEF HealthInv
<1>6. CASE Health!RecordJobSuccess
  <2>1. /\ v1' = [failures |-> 0, ran |-> "recently"] /\ v3' = Health!Idle
        /\ UNCHANGED <<v2, v4, v5, v6>>
    BY <1>6 DEF Health!RecordJobSuccess, Health!alerts
  <2>2. v7' = 0 /\ v8' = 0 /\ v9' = 0 /\ v10' = FALSE
    BY <1>6 DEF Health!RecordJobSuccess
  <2>3. v1' \in Metrics /\ v1'.failures = 0
    BY <2>1 DEF Metrics
  <2>4. HealthTypes'
    BY <1>1, <2>1, <2>2, <2>3, HealthNone DEF HealthTypes
  <2>5. RecordCounts'
    BY <2>1, <2>2, <2>3, HealthNone DEF RecordCounts, Counts
  <2>6. LimitsHold' /\ AlertHeard'
    BY <1>1, <2>1, <2>2, HealthAssumption DEF LimitsHold, AlertHeard
  <2> QED
    BY <2>4, <2>5, <2>6 DEF HealthInv
<1>7. CASE Health!RecordJobFailure
  <2>1. PICK old \in Metrics : old = v3.got
    BY <1>1 DEF HealthTypes, Runs
  <2>2. PICK n \in Nat : n = old.failures
    BY DEF Metrics
  <2>3. /\ v1' = [old EXCEPT !.failures = n + 1] /\ v7' = v7 + 1 /\ v3' = Health!Idle
        /\ UNCHANGED <<v2, v8, v9>>
    BY <1>7, <2>1, <2>2 DEF Health!RecordJobFailure
  <2>4. v1' \in Metrics /\ v1'.failures = n + 1
    BY <2>2, <2>3 DEF Metrics
  <2>5. n + v8 >= v7 /\ n <= v7 + v9
    BY <1>1, <1>7, <2>1, <2>2 DEF RecordCounts, Counts, Health!RecordJobFailure
  <2>6. IF n + 1 >= Threshold THEN Health!Trigger ELSE UNCHANGED <<v4, v5, v6>>
    BY <1>7, <2>1, <2>2 DEF Health!RecordJobFailure, Health!Triggers, Health!alerts
  <2>7. v10' = (v6' < ALERT_COOLDOWN + RATE_LIMIT)
    BY <1>7 DEF Health!RecordJobFailure
  <2>8. /\ v4' \in Nat /\ v5' \in Nat /\ v6' \in Nat /\ LimitsHold'
        /\ n + 1 >= Threshold => v10'
    <3>1. CASE n + 1 >= Threshold
      BY <1>1, <2>6, <2>7, <3>1, TriggerIsHeard
    <3>2. CASE ~(n + 1 >= Threshold)
      BY <1>1, <2>6, <3>2 DEF HealthTypes, LimitsHold
    <3> QED
      BY <3>1, <3>2
  <2>9. HealthTypes'
    BY <1>1, <2>3, <2>4, <2>7, <2>8, HealthNone DEF HealthTypes
  <2>10. RecordCounts'
    BY <1>1, <2>3, <2>4, <2>5, HealthNone DEF HealthTypes, RecordCounts, Counts
  <2>11. AlertHeard'
    BY <1>1, <2>3, <2>5, <2>8, HealthAssumption DEF HealthTypes, AlertHeard
  <2> QED
    BY <2>8, <2>9, <2>10, <2>11 DEF HealthInv
<1>8. CASE Health!RunIsNotRecorded
  <2>1. v3' = Health!Idle /\ UNCHANGED <<v1, v2, v4, v5, v6, v9, v10>>
    BY <1>8 DEF Health!RunIsNotRecorded, Health!alerts
  <2>2. (v7' = v7 + 1 /\ v8' = v8 + 1) \/ UNCHANGED <<v7, v8>>
    BY <1>8 DEF Health!RunIsNotRecorded
  <2>3. HealthTypes'
    BY <1>1, <2>1, <2>2, HealthNone DEF HealthTypes
  <2>4. PICK m \in Nat : m = v1.failures
    BY <1>1 DEF HealthTypes, Metrics
  <2>5. RecordCounts'
    BY <1>1, <2>1, <2>2, <2>4, HealthNone DEF HealthTypes, RecordCounts, Counts
  <2>6. LimitsHold' /\ AlertHeard'
    BY <1>1, <2>1, <2>2 DEF HealthTypes, LimitsHold, AlertHeard
  <2> QED
    BY <2>3, <2>5, <2>6 DEF HealthInv
<1>9. CASE Health!AskHealth
  <2>1. Health!Trigger /\ UNCHANGED <<v1, v2, v3, v7, v8, v9, v10>>
    BY <1>9 DEF Health!AskHealth, Health!account
  <2> QED
    BY <1>1, <2>1, TriggerIsHeard DEF HealthInv, HealthTypes, RecordCounts, Counts, AlertHeard
<1>10. CASE Health!FiveMinutesWithoutRun
  <2>1. UNCHANGED <<v4, v5, v6, v7, v8, v9, v10>>
    BY <1>10 DEF Health!FiveMinutesWithoutRun, Health!alerts, Health!account
  <2>2. v1' \in Metrics /\ v1'.failures = v1.failures
    BY <1>1, <1>10 DEF Health!FiveMinutesWithoutRun, HealthTypes, Metrics
  <2>3. v2' \in Heartbeats
    <3>1. v2.got \in Metrics
      BY <1>1 DEF HealthTypes, Heartbeats
    <3>2. [v2.got EXCEPT !.ran = "longAgo"] \in Metrics
      BY <3>1 DEF Metrics
    <3>3. v2' = v2 \/ v2' = [v2 EXCEPT !.got = [v2.got EXCEPT !.ran = "longAgo"]]
      BY <1>10 DEF Health!FiveMinutesWithoutRun
    <3> QED
      BY <1>1, <3>2, <3>3 DEF HealthTypes, Heartbeats
  <2>4. v3' \in Runs /\ v3'.phase = v3.phase /\ v3'.got.failures = v3.got.failures
    <3>1. PICK old \in Metrics : old = v3.got
      BY <1>1 DEF HealthTypes, Runs
    <3>2. PICK new \in Metrics : new = [old EXCEPT !.ran = "longAgo"]
      BY DEF Metrics
    <3>3. new.failures = old.failures
      BY <3>1, <3>2 DEF Metrics
    <3>4. v3' = v3 \/ v3' = [v3 EXCEPT !.got = new]
      BY <1>10, <3>1, <3>2 DEF Health!FiveMinutesWithoutRun
    <3> QED
      BY <1>1, <3>1, <3>3, <3>4 DEF HealthTypes, Runs
  <2> QED
    BY <1>1, <2>1, <2>2, <2>3, <2>4
    DEF HealthInv, HealthTypes, RecordCounts, Counts, LimitsHold, AlertHeard
<1>11. CASE Health!TimePasses
  <2>1. UNCHANGED <<v1, v2, v3, v7, v8, v9, v10>>
    BY <1>11 DEF Health!TimePasses, Health!account
  <2>2. v4' \in Nat /\ v5' \in Nat /\ v6' \in Nat /\ LimitsHold'
    BY <1>1, <1>11, HealthAssumption DEF Health!TimePasses, HealthTypes, LimitsHold
  <2> QED
    BY <1>1, <2>1, <2>2 DEF HealthInv, HealthTypes, RecordCounts, Counts, AlertHeard
<1>12. CASE Health!Restart
  <2>1. v2' = Health!Idle /\ v3' = Health!Idle /\ v4' = ALERT_COOLDOWN /\ v5' = RATE_LIMIT /\ v6' = v6
    BY <1>12 DEF Health!Restart
  <2>2. \/ UNCHANGED <<v1, v7, v8, v9, v10>>
        \/ v1' = Health!None /\ v7' = 0 /\ v8' = 0 /\ v9' = 0 /\ v10' = FALSE
    BY <1>12 DEF Health!Restart, Health!account
  <2>3. HealthTypes'
    <3>1. v4' \in Nat /\ v5' \in Nat /\ v6' \in Nat /\ v7' \in Nat /\ v8' \in Nat /\ v9' \in Nat
      BY <1>1, <2>1, <2>2, HealthAssumption DEF HealthTypes
    <3>2. v10' \in BOOLEAN
      BY <1>1, <2>2 DEF HealthTypes
    <3>3. v1' \in Metrics
      BY <1>1, <2>2, HealthNone DEF HealthTypes
    <3> QED
      BY <2>1, <3>1, <3>2, <3>3, HealthNone DEF HealthTypes
  <2>4. RecordCounts'
    BY <1>1, <2>1, <2>2, HealthNone DEF RecordCounts, Counts
  <2>5. LimitsHold' /\ AlertHeard'
    BY <1>1, <2>1, <2>2, HealthAssumption DEF LimitsHold, AlertHeard
  <2> QED
    BY <2>3, <2>4, <2>5 DEF HealthInv
<1> QED
  BY <1>2, <1>3, <1>4, <1>5, <1>6, <1>7, <1>8, <1>9, <1>10, <1>11, <1>12 DEF Health!Next

LEMMA FailuresAreShown == HealthInv => Health!FailuresShow
<1> SUFFICES ASSUME HealthInv PROVE Health!FailuresShow
  OBVIOUS
<1>1. PICK m \in Nat : m = v1.failures
  BY DEF HealthInv, HealthTypes, Metrics
<1>2. m + v8 >= v7 /\ m <= v7 + v9
  BY <1>1 DEF HealthInv, RecordCounts, Counts
<1>3. v7 - v8 >= Threshold => ~Health!IsHealthy /\ v10
  BY <1>1, <1>2, HealthAssumption DEF HealthInv, HealthTypes, AlertHeard, Health!IsHealthy
<1>4. m >= Threshold => v7 + v9 >= Threshold
  BY <1>2, HealthAssumption DEF HealthInv, HealthTypes
<1> QED
  BY <1>1, <1>3, <1>4 DEF Health!FailuresShow
-----------------------------------------------------------------------------
(* TreasuryWatch: balance, monitor and last are v1, v2 and v3, check v6 and   *)
(* told v7.                                                                  *)

CheckRecord ==
  [phase : {"idle", "asking", "answered", "sending"}, account : Treasury!Account, seen : Nat,
   drop : {"none", "some", "large"}, at : {0, 1, 2, 3},
   alarm : {"none", "critical", "low", "large", "withdrawal", "pattern"}]

TreasuryTypes ==
  /\ v1 \in [Treasury!Account -> Nat] /\ v3 \in [Treasury!Account -> Nat]
  /\ v6 \in [Check -> CheckRecord]

\* While the monitor is not on no check is under way.
ChecksNeedMonitor == \A c \in Check : v6[c].phase # "idle" => v2 = "on"

\* Whether the last alert sent of a fall is that of the fall.
Fits(q) == q.at = 3 /\ q.seen < Critical[q.account] => q.alarm = "critical"
AlarmsFit == \A c \in Check : v6[c].phase = "sending" => v6[c].at # 0 /\ Fits(v6[c])

TreasuryInv == TreasuryTypes /\ ChecksNeedMonitor /\ AlarmsFit /\ Treasury!FallsAreTold

LEMMA TreasuryInit == Treasury!Init => TreasuryInv
<1> SUFFICES ASSUME Treasury!Init PROVE TreasuryInv
  OBVIOUS
<1>1. v1 \in [Treasury!Account -> Nat]
  BY WatchAssumption DEF Treasury!Init, Treasury!Account
<1> QED
  BY <1>1 DEF Treasury!Init, Treasury!Idle, TreasuryInv, TreasuryTypes, CheckRecord, ChecksNeedMonitor,
              AlarmsFit, Fits, Treasury!FallsAreTold, Treasury!Account

\* Record and the alerts before it: q is the check as it stands, from the first
\* event still to be considered.
LEMMA ProceedKeeps ==
  ASSUME TreasuryInv, NEW c \in Check, NEW q \in CheckRecord, NEW from \in {1, 2, 3, 4},
         Treasury!Proceed(c, q, from), UNCHANGED <<v1, v2>>, v2 = "on",
         from = 4 => (q.seen < Critical[q.account] => q.alarm = "critical")
  PROVE  TreasuryInv'
<1>1. TreasuryTypes /\ ChecksNeedMonitor /\ AlarmsFit /\ Treasury!FallsAreTold
  BY DEF TreasuryInv
<1>2. PICK alerting : alerting = {n \in from .. 3 : Treasury!Alerts(q, n)}
  OBVIOUS
<1>3. CASE alerting = {}
  <2>1. Treasury!Record(c, q)
    BY <1>2, <1>3 DEF Treasury!Proceed
  <2>2. PICK a \in Treasury!Account : a = q.account
    BY DEF CheckRecord
  <2>3. PICK d : d = IF a = "rewards" THEN Treasury!Idle
                     ELSE [Treasury!Idle EXCEPT !.phase = "asking", !.account = "rewards"]
    OBVIOUS
  <2>4. d \in CheckRecord /\ d.phase # "sending"
    BY <2>3 DEF CheckRecord, Treasury!Idle, Treasury!Account
  <2>5. v6' = [v6 EXCEPT ![c] = d] /\ v3' = [v3 EXCEPT ![a] = q.seen]
    BY <2>1, <2>2, <2>3 DEF Treasury!Record
  <2>6. TreasuryTypes' /\ ChecksNeedMonitor' /\ AlarmsFit'
    BY <1>1, <2>4, <2>5 DEF TreasuryTypes, ChecksNeedMonitor, AlarmsFit, Fits, CheckRecord
  <2>7. ASSUME q.seen < Critical[a], v3[a] >= Critical[a]
        PROVE  \/ q.alarm = "critical"
               \/ ~Treasury!AlwaysAlerts(a, "critical") /\ <<a, "critical">> \in v5
    <3>1. CASE from = 4
      BY <2>2, <2>7, <3>1
    <3>2. CASE from # 4
      <4>1. ~Treasury!Alerts(q, 3)
        BY <1>2, <1>3, <3>2
      <4>2. Treasury!Event(q, 3) = "critical"
        BY <2>2, <2>7 DEF Treasury!Event, Treasury!ThresholdEvent
      <4> QED
        BY <2>2, <4>1, <4>2 DEF Treasury!Alerts
    <3> QED
      BY <3>1, <3>2
  <2>8. v7' = IF q.seen >= Critical[a] THEN v7 \ {a}
              ELSE IF /\ q.seen < Critical[a] /\ v3[a] >= Critical[a]
                      /\ \/ q.alarm = "critical"
                         \/ ~Treasury!AlwaysAlerts(a, "critical") /\ <<a, "critical">> \in v5
                   THEN v7 \cup {a} ELSE v7
    BY <2>1, <2>2 DEF Treasury!Record
  <2>9. Treasury!FallsAreTold'
    <3> SUFFICES ASSUME NEW x \in Treasury!Account, v3'[x] < Critical[x]
                 PROVE  x \in v7'
      BY DEF Treasury!FallsAreTold
    <3>1. CASE x # a
      <4>1. v3'[x] = v3[x]
        BY <1>1, <2>5, <3>1 DEF TreasuryTypes
      <4>2. x \in v7
        BY <1>1, <4>1 DEF Treasury!FallsAreTold
      <4> QED
        BY <2>8, <3>1, <4>2
    <3>2. CASE x = a
      <4>1. q.seen < Critical[a] /\ q.seen \in Nat /\ v3[a] \in Nat /\ Critical[a] \in Nat
        BY <1>1, <2>5, <3>2, WatchAssumption DEF TreasuryTypes, CheckRecord, Treasury!Account
      <4>2. CASE v3[a] < Critical[a]
        <5>1. a \in v7
          BY <1>1, <4>2 DEF Treasury!FallsAreTold
        <5> QED
          BY <2>8, <3>2, <4>1, <5>1
      <4>3. CASE v3[a] >= Critical[a]
        BY <2>7, <2>8, <3>2, <4>1, <4>3
      <4> QED
        BY <4>1, <4>2, <4>3
    <3> QED
      BY <3>1, <3>2
  <2> QED
    BY <2>6, <2>9 DEF TreasuryInv
<1>4. CASE alerting # {}
  <2>1. PICK next : next = CHOOSE n \in alerting : \A m \in alerting : n <= m
    OBVIOUS
  <2>2. alerting \subseteq {1, 2, 3}
    BY <1>2
  <2>3. \E n \in alerting : \A m \in alerting : n <= m
    <3>1. CASE 1 \in alerting
      <4>1. \A m \in alerting : 1 <= m
        BY <2>2
      <4> QED
        BY <3>1, <4>1
    <3>2. CASE 1 \notin alerting /\ 2 \in alerting
      <4>1. \A m \in alerting : 2 <= m
        BY <2>2, <3>2
      <4> QED
        BY <3>2, <4>1
    <3>3. CASE 1 \notin alerting /\ 2 \notin alerting
      <4>1. alerting = {3}
        BY <1>4, <2>2, <3>3
      <4> QED
        BY <4>1
    <3> QED
      BY <3>1, <3>2, <3>3
  <2>4. next \in alerting
    BY <2>1, <2>3
  <2>5. next \in {1, 2, 3}
    BY <2>2, <2>4
  <2>6. PICK e : e = Treasury!Event(q, next)
    OBVIOUS
  <2>7. e \in {"none", "critical", "low", "large", "withdrawal", "pattern"}
    BY <2>6 DEF Treasury!Event, Treasury!ThresholdEvent
  <2>8. PICK d : d = [q EXCEPT !.phase = "sending", !.at = next, !.alarm = e]
    OBVIOUS
  <2>9. /\ d \in CheckRecord /\ d.phase = "sending" /\ d.at = next /\ d.alarm = e
        /\ d.seen = q.seen /\ d.account = q.account
    BY <2>5, <2>7, <2>8 DEF CheckRecord
  <2>10. v6' = [v6 EXCEPT ![c] = d] /\ UNCHANGED <<v3, v7>>
    BY <1>2, <1>4, <2>1, <2>6, <2>8 DEF Treasury!Proceed
  <2>11. Fits(d)
    <3> SUFFICES ASSUME next = 3, q.seen < Critical[q.account] PROVE e = "critical"
      BY <2>9 DEF Fits
    <3>1. e = Treasury!ThresholdEvent(q) /\ e # "none"
      BY <1>2, <2>4, <2>6 DEF Treasury!Event, Treasury!Alerts
    <3>2. PICK a \in Treasury!Account : a = q.account
      BY DEF CheckRecord
    <3>3. v3[a] \in Nat /\ Critical[a] \in Nat /\ Low[a] \in Nat /\ Critical[a] <= Low[a]
      BY <1>1, WatchAssumption DEF TreasuryTypes, Treasury!Account
    <3> QED
      BY <3>1, <3>2, <3>3 DEF Treasury!ThresholdEvent
  <2>12. TreasuryTypes' /\ ChecksNeedMonitor' /\ AlarmsFit'
    BY <1>1, <2>5, <2>9, <2>10, <2>11 DEF TreasuryTypes, ChecksNeedMonitor, AlarmsFit, Fits
  <2>13. Treasury!FallsAreTold'
    BY <1>1, <2>10 DEF Treasury!FallsAreTold
  <2> QED
    BY <2>12, <2>13 DEF TreasuryInv
<1> QED
  BY <1>3, <1>4

LEMMA TreasuryStep == TreasuryInv /\ [Treasury!Next]_treasury => TreasuryInv'
<1> SUFFICES ASSUME TreasuryInv, [Treasury!Next]_treasury
             PROVE  TreasuryInv'
  OBVIOUS
<1>1. TreasuryTypes /\ ChecksNeedMonitor /\ AlarmsFit /\ Treasury!FallsAreTold
  BY DEF TreasuryInv
<1> USE DEF TreasuryInv, TreasuryTypes, ChecksNeedMonitor, AlarmsFit, Fits, Treasury!FallsAreTold
<1>2. CASE UNCHANGED treasury
  BY <1>1, <1>2 DEF treasury
<1>3. ASSUME NEW a \in Treasury!Account, NEW amount \in Balance[a], Treasury!Move(a, amount)
      PROVE  TreasuryInv'
  <2>1. amount \in Nat
    BY <1>3, WatchAssumption DEF Treasury!Account
  <2> QED
    BY <1>1, <1>3, <2>1 DEF Treasury!Move
<1>4. CASE Treasury!ReadTreasury
  BY <1>1, <1>4 DEF Treasury!ReadTreasury, Treasury!Account
<1>5. CASE Treasury!ReadRewards
  BY <1>1, <1>5 DEF Treasury!ReadRewards, Treasury!Account
<1>6. CASE Treasury!Restart
  BY <1>1, <1>6 DEF Treasury!Restart, Treasury!Idle, Treasury!Account, CheckRecord
<1>7. CASE Treasury!WindowMoves
  BY <1>1, <1>7 DEF Treasury!WindowMoves
<1>8. ASSUME NEW t \in v5, Treasury!LimitEnds(t) PROVE TreasuryInv'
  BY <1>1, <1>8 DEF Treasury!LimitEnds
<1>9. ASSUME NEW c \in Check, Treasury!StartCheck(c) \/ Treasury!Observe(c) PROVE TreasuryInv'
  <2>1. PICK d : v6' = [v6 EXCEPT ![c] = d] /\ d \in CheckRecord /\ d.phase # "sending"
    <3>1. v6[c] \in CheckRecord
      BY <1>1
    <3>2. CASE Treasury!StartCheck(c)
      <4>1. [v6[c] EXCEPT !.phase = "asking"] \in CheckRecord
        BY <3>1 DEF CheckRecord
      <4>2. v6' = [v6 EXCEPT ![c] = [v6[c] EXCEPT !.phase = "asking"]]
        BY <3>2 DEF Treasury!StartCheck
      <4>3. [v6[c] EXCEPT !.phase = "asking"].phase = "asking"
        BY <3>1 DEF CheckRecord
      <4> QED
        BY <4>1, <4>2, <4>3
    <3>3. CASE Treasury!Observe(c)
      <4>1. PICK s \in Nat : s = v1[v6[c].account]
        BY <1>1, <3>1 DEF CheckRecord
      <4>2. PICK d : d = [v6[c] EXCEPT !.phase = "answered", !.seen = s]
        OBVIOUS
      <4>3. d \in CheckRecord /\ d.phase = "answered"
        BY <3>1, <4>2 DEF CheckRecord
      <4>4. Treasury!Idle \in CheckRecord /\ Treasury!Idle.phase = "idle"
        BY DEF Treasury!Idle, CheckRecord, Treasury!Account
      <4>5. v6' = [v6 EXCEPT ![c] = d] \/ v6' = [v6 EXCEPT ![c] = Treasury!Idle]
        BY <3>3, <4>1, <4>2 DEF Treasury!Observe
      <4> QED
        BY <4>3, <4>4, <4>5
    <3> QED
      BY <1>9, <3>2, <3>3
  <2>2. UNCHANGED <<v1, v2, v3, v7>> /\ v2 = "on"
    BY <1>1, <1>9 DEF Treasury!StartCheck, Treasury!Observe
  <2> QED
    BY <1>1, <2>1, <2>2
<1>10. ASSUME NEW c \in Check, Treasury!Resume(c) PROVE TreasuryInv'
  <2>1. PICK q \in CheckRecord : q = v6[c]
    BY <1>1
  <2>2. PICK drop \in {"none", "some", "large"} :
          Treasury!Proceed(c, [q EXCEPT !.drop = drop], 1)
    BY <1>10, <2>1 DEF Treasury!Resume
  <2>3. [q EXCEPT !.drop = drop] \in CheckRecord
    BY DEF CheckRecord
  <2>4. UNCHANGED <<v1, v2>> /\ v2 = "on"
    BY <1>1, <1>10 DEF Treasury!Resume
  <2> QED
    BY <2>2, <2>3, <2>4, ProceedKeeps
<1>11. ASSUME NEW c \in Check, Treasury!AlertEnds(c) PROVE TreasuryInv'
  <2>1. PICK q \in CheckRecord : q = v6[c]
    BY <1>1
  <2>2. Treasury!Proceed(c, q, q.at + 1) /\ UNCHANGED <<v1, v2>> /\ q.phase = "sending"
    BY <1>11, <2>1 DEF Treasury!AlertEnds
  <2>3. v2 = "on" /\ q.at \in {1, 2, 3} /\ Fits(q)
    BY <1>1, <2>1, <2>2 DEF CheckRecord
  <2>4. PICK from \in {1, 2, 3, 4} : from = q.at + 1
    BY <2>3
  <2> QED
    BY <2>2, <2>3, <2>4, ProceedKeeps
<1> QED
  BY <1>2, <1>3, <1>4, <1>5, <1>6, <1>7, <1>8, <1>9, <1>10, <1>11 DEF Treasury!Next

WarningsInv ==
  /\ which = "treasury" => TreasuryInv
  /\ which = "health" => HealthInv

\* TreasuryWatch!FallsAreTold and LiquidatorHealth!FailuresShow, for any thresholds
\* and limits, any number of overlapping checks, heartbeats that write over the runs'
\* records, and any balances.
THEOREM WarningsCorrect == Spec => []WarningsAreSent
<1>1. Init => WarningsInv
  BY TreasuryInit, HealthInit DEF Init, WarningsInv
<1>2. WarningsInv /\ [Next]_vars => WarningsInv'
  BY OnePart, TreasuryStep, HealthStep DEF WarningsInv
<1>3. WarningsInv => WarningsAreSent
  BY FailuresAreShown DEF WarningsInv, WarningsAreSent, TreasuryInv
<1> QED
  BY <1>1, <1>2, <1>3, PTL DEF Spec
-----------------------------------------------------------------------------
(* PriceDesk: cache, req, sdkCache and sdk are v1, v2, v3 and v4.             *)

Ages == Nat \cup {-1}
Entry == [age : Ages, since : Nat]
RequestRecord ==
  [phase : {"idle", "jupiter", "dex", "storing", "done"}, left : SUBSET Mint,
   missing : SUBSET Mint, storing : SUBSET Mint, batch : Nat, wait : Nat]

\* How old a price may be when the server stores it, and when the SDK does.
Stored == RedisWait * (Cardinality(Mint) - 1)
SdkStored == Stored + (ServerTtl - 1) + SdkTimeout

\* How long redis may have taken when only those of S are left to store.
Room(S) == RedisWait * (Cardinality(Mint) - Cardinality(S))

Fresh(e, limit, ttl) == e.age <= limit + e.since /\ e.since < ttl

CacheFresh == v1 \in [Mint -> Entry] /\ \A m \in Mint : Fresh(v1[m], Stored, ServerTtl)
SdkCacheFresh == v3 \in [Mint -> Entry] /\ \A m \in Mint : Fresh(v3[m], SdkStored, SdkTtl)

\* A batch is no older than redis took to store what it has stored.
InTime(q) ==
  q.phase = "storing" => /\ q.storing # {} /\ q.wait <= RedisWait
                         /\ q.batch + RedisWait <= Room(q.storing) + q.wait
BatchesInTime == v2 \in [Request -> RequestRecord] /\ \A r \in Request : InTime(v2[r])

\* What the SDK asked for came from the server, the rest from its own cache.
GotFresh(call) ==
  /\ call.waited <= SdkTimeout
  /\ \A m \in Mint : call.got[m] <= call.waited +
       (IF m \in call.asked THEN Stored + (ServerTtl - 1) ELSE SdkStored + (SdkTtl - 1))
SdkFresh ==
  /\ v4.asked \in SUBSET Mint /\ v4.got \in [Mint -> Ages] /\ v4.waited \in Nat
  /\ GotFresh(v4)

DeskInv == CacheFresh /\ SdkCacheFresh /\ BatchesInTime /\ SdkFresh

LEMMA SameCardinality == \A S : Desk!Cardinality(S) = Cardinality(S)
BY DEF Desk!Cardinality, Cardinality, Desk!IsFiniteSet, IsFiniteSet

LEMMA StoredNat == Stored \in Nat /\ SdkStored \in Nat /\ Stored <= SdkStored
<1>1. Cardinality(Mint) \in Nat /\ Cardinality(Mint) > 0
  BY PriceAssumption, FS_CardinalityType, FS_EmptySet
<1>2. PICK k \in Nat : k = Cardinality(Mint) - 1
  BY <1>1
<1>3. Stored \in Nat
  BY <1>2, PriceAssumption DEF Stored
<1> QED
  BY <1>3, PriceAssumption DEF SdkStored

LEMMA RoomIs ==
  ASSUME NEW S \in SUBSET Mint
  PROVE  /\ Room(S) \in Nat
         /\ S # {} => Room(S) <= Stored
         /\ \A m \in S : Room(S \ {m}) = Room(S) + RedisWait
<1>1. IsFiniteSet(S) /\ Cardinality(S) \in Nat /\ Cardinality(Mint) \in Nat
      /\ Cardinality(S) <= Cardinality(Mint)
  BY PriceAssumption, FS_Subset, FS_CardinalityType
<1>2. PICK s \in Nat, n \in Nat : s = Cardinality(S) /\ n = Cardinality(Mint)
  BY <1>1
<1>3. RedisWait \in Nat /\ s <= n
  BY <1>1, <1>2, PriceAssumption
<1>4. Room(S) \in Nat
  <2>1. PICK d \in Nat : d = n - s
    BY <1>2, <1>3
  <2> QED
    BY <1>2, <1>3, <2>1 DEF Room
<1>5. ASSUME S # {} PROVE Room(S) <= Stored
  <2>1. s >= 1
    BY <1>1, <1>2, <1>5, FS_EmptySet
  <2>2. PICK d \in Nat : d = s - 1
    BY <2>1
  <2>3. RedisWait * (n - 1) = RedisWait * (n - s) + RedisWait * d /\ RedisWait * d \in Nat
    BY <1>3, <2>2
  <2>4. PICK x \in Nat, y \in Int : x = RedisWait * d /\ y = RedisWait * (n - s)
    BY <1>3, <2>3
  <2> QED
    BY <1>2, <2>3, <2>4 DEF Room, Stored
<1>6. ASSUME NEW m \in S PROVE Room(S \ {m}) = Room(S) + RedisWait
  <2>1. Cardinality(S \ {m}) = s - 1
    BY <1>1, <1>2, FS_RemoveElement
  <2> QED
    BY <1>2, <1>3, <2>1 DEF Room
<1> QED
  BY <1>4, <1>5, <1>6

\* A price just stored, and none.
LEMMA KeptFresh ==
  ASSUME NEW limit \in Nat, NEW ttl \in Nat \ {0}
  PROVE  /\ \A age \in Ages : age <= limit =>
              Desk!Kept(age) \in Entry /\ Fresh(Desk!Kept(age), limit, ttl)
         /\ Desk!NoEntry \in Entry /\ Fresh(Desk!NoEntry, limit, ttl)
BY DEF Desk!Kept, Desk!NoEntry, Desk!NoPrice, Entry, Ages, Fresh

LEMMA OlderFresh ==
  /\ \A age \in Ages : Desk!Older(age) \in Ages /\ Desk!Older(age) <= age + 1
  /\ \A e \in Entry, limit \in Nat, ttl \in Nat \ {0} : Fresh(e, limit, ttl) =>
       Desk!OlderEntry(e, ttl) \in Entry /\ Fresh(Desk!OlderEntry(e, ttl), limit, ttl)
<1>1. ASSUME NEW age \in Ages PROVE Desk!Older(age) \in Ages /\ Desk!Older(age) <= age + 1
  BY PriceAssumption DEF Ages, Desk!Older, Desk!NoPrice
<1>2. ASSUME NEW e \in Entry, NEW limit \in Nat, NEW ttl \in Nat \ {0}, Fresh(e, limit, ttl)
      PROVE  Desk!OlderEntry(e, ttl) \in Entry /\ Fresh(Desk!OlderEntry(e, ttl), limit, ttl)
  <2>1. CASE e = Desk!NoEntry \/ e.since + 1 >= ttl
    BY <2>1, KeptFresh DEF Desk!OlderEntry
  <2>2. CASE ~(e = Desk!NoEntry \/ e.since + 1 >= ttl)
    <3>1. PICK a \in Ages, b \in Ages, s \in Nat :
            a = e.age /\ b = Desk!Older(e.age) /\ s = e.since /\ b <= a + 1
      BY <1>1 DEF Entry
    <3>2. Desk!OlderEntry(e, ttl) = [age |-> b, since |-> s + 1]
      BY <2>2, <3>1 DEF Desk!OlderEntry
    <3>3. a <= limit + s /\ s + 1 < ttl
      BY <1>2, <2>2, <3>1 DEF Fresh
    <3>4. b <= limit + (s + 1)
      BY <3>1, <3>3 DEF Ages
    <3> QED
      BY <3>1, <3>2, <3>3, <3>4 DEF Entry, Fresh
  <2> QED
    BY <2>1, <2>2
<1> QED
  BY <1>1, <1>2

\* What a cache answers is no older than what it has in time.
LEMMA FoundFresh ==
  ASSUME NEW entries \in [Mint -> Entry], NEW limit \in Nat, NEW ttl \in Nat \ {0}, NEW S,
         \A m \in Mint : Fresh(entries[m], limit, ttl)
  PROVE  /\ Desk!Found(entries, S, ttl) \in [Mint -> Ages]
         /\ \A m \in Mint : Desk!Found(entries, S, ttl)[m] <= limit + (ttl - 1)
<1>1. ASSUME NEW m \in Mint
      PROVE  /\ Desk!Found(entries, S, ttl)[m] \in Ages
             /\ Desk!Found(entries, S, ttl)[m] <= limit + (ttl - 1)
  <2>1. PICK a \in Ages, s \in Nat : a = entries[m].age /\ s = entries[m].since
    BY DEF Entry
  <2>2. a <= limit + s /\ s < ttl
    BY <2>1 DEF Fresh
  <2>3. Desk!Found(entries, S, ttl)[m] = a \/ Desk!Found(entries, S, ttl)[m] = -1
    BY <2>1 DEF Desk!Found, Desk!NoPrice
  <2> QED
    BY <2>2, <2>3 DEF Ages
<1>2. Desk!Found(entries, S, ttl) = [m \in Mint |-> Desk!Found(entries, S, ttl)[m]]
  BY DEF Desk!Found
<1> QED
  BY <1>1, <1>2

LEMMA DeskIdle ==
  /\ Desk!Idle \in RequestRecord /\ Desk!Idle.phase = "idle"
  /\ [Desk!Idle EXCEPT !.phase = "done"] \in RequestRecord
  /\ [Desk!Idle EXCEPT !.phase = "done"].phase = "done"
  /\ \A S \in SUBSET Mint : Desk!Asked(S) \in RequestRecord /\ Desk!Asked(S).phase = "jupiter"
  /\ \A S \in SUBSET Mint : Desk!ToDex(S) \in RequestRecord /\ Desk!ToDex(S).phase = "dex"
BY DEF Desk!Idle, Desk!Asked, Desk!ToDex, RequestRecord

LEMMA DeskInit == Desk!Init => DeskInv
<1> SUFFICES ASSUME Desk!Init PROVE DeskInv
  OBVIOUS
<1>1. CacheFresh /\ SdkCacheFresh
  BY KeptFresh, StoredNat, PriceAssumption DEF Desk!Init, CacheFresh, SdkCacheFresh
<1>2. BatchesInTime
  BY DeskIdle DEF Desk!Init, BatchesInTime, InTime
<1>3. SdkFresh
  <2>1. v4.asked = {} /\ v4.got = [m \in Mint |-> -1] /\ v4.waited = 0
    BY DEF Desk!Init, Desk!NoCall, Desk!Nothing, Desk!NoPrice
  <2> QED
    BY <2>1, StoredNat, PriceAssumption DEF SdkFresh, GotFresh, Ages
<1> QED
  BY <1>1, <1>2, <1>3 DEF DeskInv

\* A step that changes one request.
LEMMA OneRequest ==
  ASSUME BatchesInTime, NEW r \in Request, NEW d \in RequestRecord, InTime(d),
         v2' = [v2 EXCEPT ![r] = d]
  PROVE  BatchesInTime'
BY DEF BatchesInTime, InTime, Room

\* A step by which the SDK learns one price, or none.
LEMMA OnePrice ==
  ASSUME SdkFresh, NEW r, NEW m \in Mint, NEW age \in Ages, age <= Stored,
         v4' = Desk!Answer(r, m, age)
  PROVE  SdkFresh'
<1>1. CASE v4' = v4
  BY <1>1 DEF SdkFresh, GotFresh
<1>2. CASE v4' = [v4 EXCEPT !.got = [v4.got EXCEPT ![m] = age]]
  <2>1. v4'.asked = v4.asked /\ v4'.waited = v4.waited /\ v4'.got = [v4.got EXCEPT ![m] = age]
    BY <1>2 DEF SdkFresh
  <2>2. v4'.got \in [Mint -> Ages]
    BY <2>1 DEF SdkFresh
  <2>3. ASSUME NEW x \in Mint
        PROVE  v4'.got[x] <= v4'.waited +
                 (IF x \in v4'.asked THEN Stored + (ServerTtl - 1) ELSE SdkStored + (SdkTtl - 1))
    <3>1. CASE x # m
      BY <2>1, <3>1 DEF SdkFresh, GotFresh
    <3>2. CASE x = m
      <4>1. v4'.got[x] = age /\ v4'.waited \in Nat
        BY <2>1, <3>2 DEF SdkFresh
      <4> QED
        BY <4>1, StoredNat, PriceAssumption DEF Ages
    <3> QED
      BY <3>1, <3>2
  <2> QED
    BY <2>1, <2>2, <2>3 DEF SdkFresh, GotFresh
<1> QED
  BY <1>1, <1>2 DEF Desk!Answer

\* A step by which the server stores one price.
LEMMA OneStored ==
  ASSUME CacheFresh, NEW m \in Mint, NEW age \in Ages, age <= Stored,
         v1' = [v1 EXCEPT ![m] = Desk!Kept(age)]
  PROVE  CacheFresh'
<1>1. Desk!Kept(age) \in Entry /\ Fresh(Desk!Kept(age), Stored, ServerTtl)
  BY KeptFresh, StoredNat, PriceAssumption
<1>2. v1' \in [Mint -> Entry]
  BY <1>1 DEF CacheFresh
<1>3. ASSUME NEW x \in Mint PROVE Fresh(v1'[x], Stored, ServerTtl)
  BY <1>1 DEF CacheFresh
<1> QED
  BY <1>2, <1>3 DEF CacheFresh, Fresh, Stored

\* A step by which the server forgets some prices.
LEMMA SomeForgotten ==
  ASSUME CacheFresh, NEW S, v1' = [m \in Mint |-> IF m \in S THEN Desk!NoEntry ELSE v1[m]]
  PROVE  CacheFresh'
<1>1. Desk!NoEntry \in Entry /\ Fresh(Desk!NoEntry, Stored, ServerTtl)
  BY KeptFresh, StoredNat, PriceAssumption
<1>2. v1' \in [Mint -> Entry]
  BY <1>1 DEF CacheFresh
<1>3. ASSUME NEW x \in Mint PROVE Fresh(v1'[x], Stored, ServerTtl)
  BY <1>1 DEF CacheFresh
<1> QED
  BY <1>2, <1>3 DEF CacheFresh, Fresh, Stored

LEMMA AfterGood ==
  ASSUME NEW r, NEW S \in SUBSET Mint
  PROVE  Desk!After(r, Desk!ToDex(S)) \in RequestRecord /\ InTime(Desk!After(r, Desk!ToDex(S)))
BY DeskIdle DEF Desk!After, InTime

\* What the SDK has from its own cache, and from the server at once.
LEMMA SdkAskKeeps ==
  ASSUME DeskInv, NEW r \in Request, NEW S \in SUBSET Mint, NEW own \in [Mint -> Ages],
         \A m \in Mint : own[m] <= SdkStored + (SdkTtl - 1), Desk!SdkAsk(r, S, own)
  PROVE  DeskInv'
<1>1. CacheFresh /\ SdkCacheFresh /\ BatchesInTime /\ SdkFresh
  BY DEF DeskInv
<1>2. PICK wanted \in SUBSET Mint : wanted = S \ Desk!Priced(own)
  OBVIOUS
<1>3. PICK served \in [Mint -> Ages] :
        /\ served = Desk!Found(v1, wanted, ServerTtl)
        /\ \A m \in Mint : served[m] <= Stored + (ServerTtl - 1)
  BY <1>1, FoundFresh, StoredNat, PriceAssumption DEF CacheFresh
<1>4. PICK uncached \in SUBSET Mint : uncached = wanted \ Desk!Priced(served)
  OBVIOUS
<1>5. /\ v2' = [v2 EXCEPT ![r] = IF uncached = {} THEN [Desk!Idle EXCEPT !.phase = "done"]
                                 ELSE Desk!Asked(uncached)]
      /\ v4' = [request |-> r, asked |-> wanted, waited |-> 0,
                got |-> [m \in Mint |-> IF m \in wanted THEN served[m] ELSE own[m]]]
      /\ UNCHANGED <<v1, v3>>
  BY <1>2, <1>3, <1>4 DEF Desk!SdkAsk
<1>6. BatchesInTime'
  <2>1. PICK d : d = IF uncached = {} THEN [Desk!Idle EXCEPT !.phase = "done"]
                     ELSE Desk!Asked(uncached)
    OBVIOUS
  <2>2. d \in RequestRecord /\ InTime(d)
    BY <2>1, DeskIdle DEF InTime
  <2> QED
    BY <1>1, <1>5, <2>1, <2>2, OneRequest
<1>7. SdkFresh'
  <2>1. /\ v4'.asked = wanted /\ v4'.waited = 0
        /\ v4'.got = [m \in Mint |-> IF m \in wanted THEN served[m] ELSE own[m]]
    BY <1>5
  <2>2. v4'.got \in [Mint -> Ages]
    BY <2>1
  <2>3. ASSUME NEW m \in Mint
        PROVE  v4'.got[m] <= v4'.waited +
                 (IF m \in v4'.asked THEN Stored + (ServerTtl - 1) ELSE SdkStored + (SdkTtl - 1))
    <3>1. served[m] <= Stored + (ServerTtl - 1) /\ own[m] <= SdkStored + (SdkTtl - 1)
      BY <1>3
    <3> QED
      BY <2>1, <3>1, StoredNat, PriceAssumption DEF Ages
  <2>4. v4'.waited <= SdkTimeout
    BY <2>1, PriceAssumption
  <2> QED
    BY <2>1, <2>2, <2>3, <2>4 DEF SdkFresh, GotFresh, Stored, SdkStored
<1>8. CacheFresh' /\ SdkCacheFresh'
  BY <1>1, <1>5 DEF CacheFresh, SdkCacheFresh, Fresh, Stored, SdkStored
<1> QED
  BY <1>6, <1>7, <1>8 DEF DeskInv

\* A step that leaves a part alone.
LEMMA SameParts ==
  /\ CacheFresh /\ UNCHANGED v1 => CacheFresh'
  /\ SdkCacheFresh /\ UNCHANGED v3 => SdkCacheFresh'
  /\ BatchesInTime /\ UNCHANGED v2 => BatchesInTime'
  /\ SdkFresh /\ UNCHANGED v4 => SdkFresh'
BY DEF CacheFresh, SdkCacheFresh, BatchesInTime, SdkFresh, Fresh, InTime, GotFresh,
       Stored, SdkStored, Room

LEMMA StoreKeeps ==
  ASSUME DeskInv, NEW r \in Request, NEW m \in Mint, Desk!Store(r, m)
  PROVE  DeskInv'
<1>1. CacheFresh /\ SdkCacheFresh /\ BatchesInTime /\ SdkFresh
  BY DEF DeskInv
<1>2. PICK q \in RequestRecord : q = v2[r]
  BY <1>1 DEF BatchesInTime
<1>3. PICK S \in SUBSET Mint, b \in Nat, w \in Nat : S = q.storing /\ b = q.batch /\ w = q.wait
  BY DEF RequestRecord
<1>4. q.phase = "storing" /\ m \in S /\ InTime(q)
  BY <1>1, <1>2, <1>3 DEF Desk!Store, BatchesInTime
<1>5. w <= RedisWait /\ b + RedisWait <= Room(S) + w
  BY <1>3, <1>4 DEF InTime
<1>6. b <= Room(S) /\ b <= Stored
  <2>1. Room(S) \in Nat /\ Room(S) <= Stored
    BY <1>4, RoomIs
  <2> QED
    BY <1>5, <2>1, StoredNat, PriceAssumption
<1>7. CacheFresh' /\ SdkFresh' /\ UNCHANGED v3
  <2>1. /\ v1' = [v1 EXCEPT ![m] = Desk!Kept(b)] /\ v4' = Desk!Answer(r, m, b)
        /\ UNCHANGED v3
    BY <1>2, <1>3 DEF Desk!Store
  <2>2. b \in Ages
    BY DEF Ages
  <2> QED
    BY <1>1, <1>6, <2>1, <2>2, OneStored, OnePrice
<1>8. BatchesInTime'
  <2>1. CASE v2' = [v2 EXCEPT ![r] = Desk!ToDex(q.left)]
    <3>1. q.left \in SUBSET Mint
      BY DEF RequestRecord
    <3>2. Desk!ToDex(q.left) \in RequestRecord /\ InTime(Desk!ToDex(q.left))
      BY <3>1, DeskIdle DEF InTime
    <3> QED
      BY <1>1, <2>1, <3>2, OneRequest
  <2>2. CASE S \ {m} = {} /\ v2' = [v2 EXCEPT ![r] = Desk!After(r, Desk!ToDex(q.missing))]
    <3>1. q.missing \in SUBSET Mint
      BY DEF RequestRecord
    <3> QED
      BY <1>1, <2>2, <3>1, AfterGood, OneRequest
  <2>3. CASE /\ S \ {m} # {}
             /\ v2' = [v2 EXCEPT ![r] = [q EXCEPT !.storing = S \ {m}, !.wait = 0]]
    <3>1. PICK d : d = [q EXCEPT !.storing = S \ {m}, !.wait = 0]
      OBVIOUS
    <3>2. d \in RequestRecord /\ d.storing = S \ {m} /\ d.wait = 0 /\ d.batch = b
      BY <1>3, <3>1 DEF RequestRecord
    <3>3. Room(S \ {m}) = Room(S) + RedisWait /\ Room(S) \in Nat
      BY <1>4, RoomIs
    <3>4. InTime(d)
      BY <1>6, <2>3, <3>2, <3>3, PriceAssumption DEF InTime
    <3> QED
      BY <1>1, <2>3, <3>1, <3>2, <3>4, OneRequest
  <2> QED
    <3>1. \/ v2' = [v2 EXCEPT ![r] = Desk!ToDex(q.left)]
          \/ v2' = [v2 EXCEPT ![r] = IF S \ {m} # {} THEN [q EXCEPT !.storing = S \ {m}, !.wait = 0]
                                     ELSE Desk!After(r, Desk!ToDex(q.missing))]
      BY <1>1, <1>2, <1>3 DEF Desk!Store, BatchesInTime
    <3> QED
      BY <2>1, <2>2, <2>3, <3>1
<1> QED
  BY <1>1, <1>7, <1>8, SameParts DEF DeskInv

LEMMA DexKeeps ==
  ASSUME DeskInv, NEW r \in Request, NEW m \in Mint, Desk!DexAnswers(r, m) \/ Desk!DexHasNone(r, m)
  PROVE  DeskInv'
<1>1. CacheFresh /\ SdkCacheFresh /\ BatchesInTime /\ SdkFresh
  BY DEF DeskInv
<1>2. BatchesInTime'
  <2>1. PICK S \in SUBSET Mint : S = v2[r].left \ {m}
    BY <1>1 DEF BatchesInTime, RequestRecord
  <2>2. v2' = [v2 EXCEPT ![r] = Desk!After(r, Desk!ToDex(S))]
    BY <2>1 DEF Desk!DexAnswers, Desk!DexHasNone
  <2> QED
    BY <1>1, <2>2, AfterGood, OneRequest
<1>3. CacheFresh' /\ SdkFresh'
  <2>1. CASE Desk!DexAnswers(r, m)
    <3>1. v1' = [v1 EXCEPT ![m] = Desk!Kept(0)] /\ v4' = Desk!Answer(r, m, 0)
      BY <2>1 DEF Desk!DexAnswers
    <3>2. 0 \in Ages /\ 0 <= Stored
      BY StoredNat DEF Ages
    <3> QED
      BY <1>1, <3>1, <3>2, OneStored, OnePrice
  <2>2. CASE Desk!DexHasNone(r, m)
    BY <1>1, <2>2, SameParts DEF Desk!DexHasNone
  <2> QED
    BY <2>1, <2>2
<1>4. UNCHANGED v3
  BY DEF Desk!DexAnswers, Desk!DexHasNone
<1> QED
  BY <1>1, <1>2, <1>3, <1>4, SameParts DEF DeskInv

LEMMA JupiterKeeps ==
  ASSUME DeskInv, NEW r \in Request,
         (\E S \in SUBSET v2[r].left : Desk!JupiterAnswers(r, S)) \/ Desk!JupiterFails(r)
  PROVE  DeskInv'
<1>1. CacheFresh /\ SdkCacheFresh /\ BatchesInTime /\ SdkFresh
  BY DEF DeskInv
<1>2. PICK q \in RequestRecord : q = v2[r]
  BY <1>1 DEF BatchesInTime
<1>3. UNCHANGED <<v1, v3, v4>>
  BY DEF Desk!JupiterAnswers, Desk!JupiterFails
<1>4. PICK d : d \in RequestRecord /\ InTime(d) /\ v2' = [v2 EXCEPT ![r] = d]
  <2>1. CASE v2' = [v2 EXCEPT ![r] = [q EXCEPT !.phase = "dex"]]
    <3>1. PICK e : e = [q EXCEPT !.phase = "dex"]
      OBVIOUS
    <3>2. e \in RequestRecord /\ e.phase = "dex"
      BY <3>1 DEF RequestRecord
    <3> QED
      BY <2>1, <3>1, <3>2 DEF InTime
  <2>2. ASSUME NEW S \in SUBSET v2[r].left, S # {},
               v2' = [v2 EXCEPT ![r] = [q EXCEPT !.phase = "storing", !.storing = S,
                        !.missing = v2[r].left \ S, !.batch = 0, !.wait = RedisWait]]
        PROVE  \E e : e \in RequestRecord /\ InTime(e) /\ v2' = [v2 EXCEPT ![r] = e]
    <3>1. PICK rest \in SUBSET Mint : rest = v2[r].left \ S
      BY <1>2 DEF RequestRecord
    <3>2. S \in SUBSET Mint
      BY <1>2 DEF RequestRecord
    <3>3. PICK e : e = [q EXCEPT !.phase = "storing", !.storing = S, !.missing = rest,
                                 !.batch = 0, !.wait = RedisWait]
      OBVIOUS
    <3>4. e \in RequestRecord /\ e.storing = S /\ e.batch = 0 /\ e.wait = RedisWait
      BY <3>2, <3>3, PriceAssumption DEF RequestRecord
    <3>5. Room(S) \in Nat
      BY <3>2, RoomIs
    <3>6. InTime(e)
      BY <2>2, <3>4, <3>5, PriceAssumption DEF InTime
    <3>7. v2' = [v2 EXCEPT ![r] = e]
      BY <2>2, <3>1, <3>3
    <3> QED
      BY <3>4, <3>6, <3>7
  <2>3. CASE Desk!JupiterFails(r)
    <3>1. v2' = [v2 EXCEPT ![r] = [q EXCEPT !.phase = "dex"]]
      BY <1>2, <2>3 DEF Desk!JupiterFails
    <3> QED
      BY <2>1, <3>1
  <2>4. ASSUME NEW S \in SUBSET v2[r].left, Desk!JupiterAnswers(r, S)
        PROVE  \E e : e \in RequestRecord /\ InTime(e) /\ v2' = [v2 EXCEPT ![r] = e]
    <3>1. v2' = [v2 EXCEPT ![r] =
                   IF S = {} THEN [q EXCEPT !.phase = "dex"]
                   ELSE [q EXCEPT !.phase = "storing", !.storing = S,
                                  !.missing = v2[r].left \ S, !.batch = 0, !.wait = RedisWait]]
      BY <1>1, <1>2, <2>4 DEF Desk!JupiterAnswers, BatchesInTime
    <3>2. CASE S = {}
      BY <2>1, <3>1, <3>2
    <3>3. CASE S # {}
      BY <2>2, <3>1, <3>3
    <3> QED
      BY <3>2, <3>3
  <2> QED
    BY <2>3, <2>4
<1>5. BatchesInTime'
  BY <1>1, <1>4, OneRequest
<1> QED
  BY <1>1, <1>3, <1>5, SameParts DEF DeskInv

LEMMA ReceiveKeeps == DeskInv /\ (Desk!SdkReceives \/ Desk!SdkGivesUp) => DeskInv'
<1> SUFFICES ASSUME DeskInv, Desk!SdkReceives \/ Desk!SdkGivesUp PROVE DeskInv'
  OBVIOUS
<1>1. CacheFresh /\ SdkCacheFresh /\ BatchesInTime /\ SdkFresh
  BY DEF DeskInv
<1>2. UNCHANGED v1 /\ v4' = Desk!NoCall
  BY DEF Desk!SdkReceives, Desk!SdkGivesUp
<1>3. SdkFresh'
  <2>1. v4'.asked = {} /\ v4'.got = [m \in Mint |-> -1] /\ v4'.waited = 0
    BY <1>2 DEF Desk!NoCall, Desk!Nothing, Desk!NoPrice
  <2> QED
    BY <2>1, StoredNat, PriceAssumption DEF SdkFresh, GotFresh, Ages, Stored, SdkStored
<1>4. BatchesInTime'
  <2>1. PICK r : r = v4.request
    OBVIOUS
  <2>2. v2' = [v2 EXCEPT ![r] = Desk!Idle] \/ UNCHANGED v2
        \/ v2' = [v2 EXCEPT ![r] = v2[r]]
    BY <2>1 DEF Desk!SdkReceives, Desk!SdkGivesUp
  <2>3. InTime(Desk!Idle) /\ Desk!Idle \in RequestRecord
    BY DeskIdle DEF InTime
  <2>4. CASE r \in Request
    <3>1. InTime(v2[r]) /\ v2[r] \in RequestRecord
      BY <1>1, <2>4 DEF BatchesInTime
    <3> QED
      BY <1>1, <2>2, <2>3, <2>4, <3>1, OneRequest, SameParts
  <2>5. CASE r \notin Request
    <3>1. UNCHANGED v2
      BY <1>1, <2>2, <2>5 DEF BatchesInTime
    <3> QED
      BY <1>1, <3>1, SameParts
  <2> QED
    BY <2>4, <2>5
<1>5. SdkCacheFresh'
  <2>1. CASE UNCHANGED v3
    BY <1>1, <2>1, SameParts
  <2>2. CASE Desk!SdkReceives
    <3>1. PICK new \in SUBSET Mint : new = Desk!Learnt(v4.got, v4.asked)
      BY <1>1 DEF Desk!Learnt, SdkFresh
    <3>2. v3' = [m \in Mint |-> IF m \in new THEN Desk!Kept(v4.got[m]) ELSE v3[m]]
      BY <2>2, <3>1 DEF Desk!SdkReceives
    <3>3. ASSUME NEW m \in Mint PROVE v3'[m] \in Entry /\ Fresh(v3'[m], SdkStored, SdkTtl)
      <4>1. CASE m \notin new
        BY <1>1, <3>2, <4>1 DEF SdkCacheFresh
      <4>2. CASE m \in new
        <5>1. PICK age \in Ages, w \in Nat : age = v4.got[m] /\ w = v4.waited
          BY <1>1 DEF SdkFresh
        <5>2. m \in v4.asked
          BY <3>1, <4>2 DEF Desk!Learnt
        <5>3. age <= w + (Stored + (ServerTtl - 1)) /\ w <= SdkTimeout
          BY <1>1, <5>1, <5>2 DEF SdkFresh, GotFresh
        <5>4. Stored \in Nat /\ SdkStored \in Nat /\ SdkStored = Stored + (ServerTtl - 1) + SdkTimeout
          BY StoredNat DEF SdkStored
        <5>5. age <= SdkStored
          BY <5>3, <5>4, PriceAssumption DEF Ages
        <5> QED
          BY <3>2, <4>2, <5>1, <5>4, <5>5, KeptFresh, PriceAssumption
      <4> QED
        BY <4>1, <4>2
    <3> QED
      BY <3>2, <3>3 DEF SdkCacheFresh, Fresh, SdkStored, Stored
  <2> QED
    BY <2>1, <2>2 DEF Desk!SdkGivesUp
<1> QED
  BY <1>1, <1>2, <1>3, <1>4, <1>5, SameParts DEF DeskInv

LEMMA TickKeeps == DeskInv /\ Desk!Tick => DeskInv'
<1> SUFFICES ASSUME DeskInv, Desk!Tick PROVE DeskInv'
  OBVIOUS
<1>1. CacheFresh /\ SdkCacheFresh /\ BatchesInTime /\ SdkFresh
  BY DEF DeskInv
<1>2. CacheFresh'
  <2>1. v1' = [m \in Mint |-> Desk!OlderEntry(v1[m], ServerTtl)]
    BY DEF Desk!Tick
  <2>2. ASSUME NEW m \in Mint PROVE v1'[m] \in Entry /\ Fresh(v1'[m], Stored, ServerTtl)
    BY <1>1, <2>1, OlderFresh, StoredNat, PriceAssumption DEF CacheFresh
  <2> QED
    BY <2>1, <2>2 DEF CacheFresh, Fresh, Stored
<1>3. SdkCacheFresh'
  <2>1. v3' = [m \in Mint |-> Desk!OlderEntry(v3[m], SdkTtl)]
    BY DEF Desk!Tick
  <2>2. ASSUME NEW m \in Mint PROVE v3'[m] \in Entry /\ Fresh(v3'[m], SdkStored, SdkTtl)
    BY <1>1, <2>1, OlderFresh, StoredNat, PriceAssumption DEF SdkCacheFresh
  <2> QED
    BY <2>1, <2>2 DEF SdkCacheFresh, Fresh, Stored, SdkStored
<1>4. BatchesInTime'
  <2>1. v2' = [r \in Request |-> IF v2[r].phase = "storing"
                 THEN [v2[r] EXCEPT !.batch = v2[r].batch + 1, !.wait = v2[r].wait + 1] ELSE v2[r]]
    BY DEF Desk!Tick
  <2>2. ASSUME NEW r \in Request PROVE v2'[r] \in RequestRecord /\ InTime(v2'[r])
    <3>1. PICK q \in RequestRecord : q = v2[r] /\ InTime(q)
      BY <1>1 DEF BatchesInTime
    <3>2. CASE q.phase # "storing"
      BY <2>1, <3>1, <3>2
    <3>3. CASE q.phase = "storing"
      <4>1. PICK b \in Nat, w \in Nat, S \in SUBSET Mint :
              b = q.batch /\ w = q.wait /\ S = q.storing
        BY DEF RequestRecord
      <4>2. w < RedisWait
        BY <3>1, <3>3, <4>1 DEF Desk!Tick
      <4>3. PICK d : d = [q EXCEPT !.batch = b + 1, !.wait = w + 1]
        OBVIOUS
      <4>4. d \in RequestRecord /\ d.batch = b + 1 /\ d.wait = w + 1 /\ d.storing = S
        <5>1. b + 1 \in Nat /\ w + 1 \in Nat
          OBVIOUS
        <5> QED
          BY <4>1, <4>3, <5>1 DEF RequestRecord
      <4>5. S # {} /\ b + RedisWait <= Room(S) + w /\ Room(S) \in Nat
        BY <3>1, <3>3, <4>1, RoomIs DEF InTime
      <4>6. InTime(d)
        BY <4>2, <4>4, <4>5, PriceAssumption DEF InTime
      <4> QED
        BY <2>1, <3>1, <3>3, <4>1, <4>3, <4>4, <4>6
    <3> QED
      BY <3>2, <3>3
  <2> QED
    BY <2>1, <2>2 DEF BatchesInTime, InTime, Room
<1>5. SdkFresh'
  <2>1. CASE v4' = v4
    BY <1>1, <2>1, SameParts
  <2>2. CASE v4 # Desk!NoCall
    <3>1. PICK w \in Nat : w = v4.waited /\ w < SdkTimeout
      BY <1>1, <2>2 DEF Desk!Tick, SdkFresh
    <3>2. v4' = [v4 EXCEPT !.waited = w + 1, !.got = [m \in Mint |-> Desk!Older(v4.got[m])]]
      BY <2>2, <3>1 DEF Desk!Tick
    <3>3. ASSUME NEW m \in Mint
          PROVE  /\ Desk!Older(v4.got[m]) \in Ages
                 /\ Desk!Older(v4.got[m]) <= w + 1 +
                     (IF m \in v4.asked THEN Stored + (ServerTtl - 1) ELSE SdkStored + (SdkTtl - 1))
      <4>1. PICK a \in Ages, b \in Ages : a = v4.got[m] /\ b = Desk!Older(a) /\ b <= a + 1
        BY <1>1, OlderFresh DEF SdkFresh
      <4>2. a <= w + (IF m \in v4.asked THEN Stored + (ServerTtl - 1) ELSE SdkStored + (SdkTtl - 1))
        BY <1>1, <3>1, <4>1 DEF SdkFresh, GotFresh
      <4> QED
        BY <4>1, <4>2, StoredNat, PriceAssumption DEF Ages
    <3>4. /\ v4'.waited = w + 1 /\ v4'.got = [m \in Mint |-> Desk!Older(v4.got[m])]
          /\ v4'.asked = v4.asked
      BY <1>1, <3>2 DEF SdkFresh
    <3>5. v4'.got \in [Mint -> Ages] /\ w + 1 <= SdkTimeout
      BY <3>1, <3>3, <3>4, PriceAssumption
    <3>6. ASSUME NEW m \in Mint
          PROVE  v4'.got[m] <= v4'.waited +
                   (IF m \in v4'.asked THEN Stored + (ServerTtl - 1) ELSE SdkStored + (SdkTtl - 1))
      BY <3>3, <3>4
    <3> QED
      BY <1>1, <3>4, <3>5, <3>6 DEF SdkFresh, GotFresh, Stored, SdkStored
  <2> QED
    BY <2>1, <2>2 DEF Desk!Tick
<1> QED
  BY <1>2, <1>3, <1>4, <1>5 DEF DeskInv

LEMMA DeskStep == DeskInv /\ [Desk!Next]_desk => DeskInv'
<1> SUFFICES ASSUME DeskInv, [Desk!Next]_desk PROVE DeskInv'
  OBVIOUS
<1>1. CacheFresh /\ SdkCacheFresh /\ BatchesInTime /\ SdkFresh
  BY DEF DeskInv
<1>2. CASE UNCHANGED desk
  BY <1>1, <1>2, SameParts DEF DeskInv, desk
<1>3. ASSUME NEW r \in Request, NEW S \in SUBSET Mint \ {{}}, Desk!Ask(r, S) PROVE DeskInv'
  <2>1. PICK A \in SUBSET Mint : A = S \ Desk!Priced(Desk!Found(v1, S, ServerTtl))
    OBVIOUS
  <2>2. v2' = [v2 EXCEPT ![r] = Desk!Asked(A)] /\ UNCHANGED <<v1, v3, v4>>
    BY <1>3, <2>1 DEF Desk!Ask
  <2>3. Desk!Asked(A) \in RequestRecord /\ InTime(Desk!Asked(A))
    BY DeskIdle DEF InTime
  <2>4. BatchesInTime'
    BY <1>1, <2>2, <2>3, OneRequest
  <2> QED
    BY <1>1, <2>2, <2>4, SameParts DEF DeskInv
<1>4. ASSUME NEW r \in Request, NEW S \in SUBSET Mint \ {{}}, Desk!Refresh(r, S) PROVE DeskInv'
  <2>1. v2' = [v2 EXCEPT ![r] = Desk!Asked(S)] /\ UNCHANGED <<v3, v4>>
    BY <1>4 DEF Desk!Refresh
  <2>2. Desk!Asked(S) \in RequestRecord /\ InTime(Desk!Asked(S))
    BY DeskIdle DEF InTime
  <2>3. BatchesInTime'
    BY <1>1, <2>1, <2>2, OneRequest
  <2>4. CacheFresh'
    BY <1>1, <1>4, SomeForgotten DEF Desk!Refresh
  <2> QED
    BY <1>1, <2>1, <2>3, <2>4, SameParts DEF DeskInv
<1>5. ASSUME NEW r \in Request, NEW S \in SUBSET Mint \ {{}}, Desk!SdkPrices(r, S) PROVE DeskInv'
  <2>1. PICK own \in [Mint -> Ages] :
          /\ own = Desk!Found(v3, S, SdkTtl)
          /\ \A m \in Mint : own[m] <= SdkStored + (SdkTtl - 1)
    BY <1>1, FoundFresh, StoredNat, PriceAssumption DEF SdkCacheFresh
  <2> QED
    BY <1>5, <2>1, SdkAskKeeps DEF Desk!SdkPrices
<1>6. ASSUME NEW r \in Request, Desk!SdkAllPrices(r) PROVE DeskInv'
  <2>1. PICK own \in [Mint -> Ages] : own = Desk!Nothing /\ \A m \in Mint : own[m] = -1
    <3>1. Desk!Nothing = [m \in Mint |-> -1] /\ -1 \in Ages
      BY DEF Desk!Nothing, Desk!NoPrice, Ages
    <3> QED
      BY <3>1
  <2>2. \A m \in Mint : own[m] <= SdkStored + (SdkTtl - 1)
    BY <2>1, StoredNat, PriceAssumption
  <2> QED
    BY <1>6, <2>1, <2>2, SdkAskKeeps DEF Desk!SdkAllPrices
<1>7. ASSUME NEW r \in Request, Desk!Serve(r) PROVE DeskInv'
  BY <1>7, JupiterKeeps, StoreKeeps, DexKeeps DEF Desk!Serve
<1>8. ASSUME NEW S \in SUBSET Mint \ {{}}, Desk!ClearCache(S) PROVE DeskInv'
  BY <1>1, <1>8, SomeForgotten, SameParts DEF Desk!ClearCache, DeskInv
<1>9. CASE Desk!SolPrice
  <2>1. v1' = [v1 EXCEPT ![Sol] = Desk!Kept(0)] /\ UNCHANGED <<v2, v3, v4>>
    BY <1>9 DEF Desk!SolPrice
  <2>2. 0 \in Ages /\ 0 <= Stored /\ Sol \in Mint
    BY StoredNat, PriceAssumption DEF Ages
  <2> QED
    BY <1>1, <2>1, <2>2, OneStored, SameParts DEF DeskInv
<1> QED
  BY <1>2, <1>3, <1>4, <1>5, <1>6, <1>7, <1>8, <1>9, ReceiveKeeps, TickKeeps DEF Desk!Next

LEMMA DeskGood == DeskInv => Desk!PricesAreRecent
<1> SUFFICES ASSUME DeskInv, NEW m \in Mint
             PROVE  /\ v3[m].age <= Desk!OldestStored + SdkTtl - 1
                    /\ v4.got[m] <= Desk!OldestStored + SdkTtl - 1 + SdkTimeout
  BY DEF Desk!PricesAreRecent
<1>1. Desk!OldestStored = SdkStored
  BY SameCardinality DEF Desk!OldestStored, SdkStored, Stored
<1>2. SdkStored \in Nat /\ Stored \in Nat /\ SdkStored = Stored + (ServerTtl - 1) + SdkTimeout
  BY StoredNat DEF SdkStored
<1>3. PICK a \in Ages, s \in Nat, g \in Ages, w \in Nat :
        a = v3[m].age /\ s = v3[m].since /\ g = v4.got[m] /\ w = v4.waited
  BY DEF DeskInv, SdkCacheFresh, Entry, SdkFresh
<1>4. a <= SdkStored + s /\ s < SdkTtl
  BY <1>3 DEF DeskInv, SdkCacheFresh, Fresh
<1>5. w <= SdkTimeout /\ g <= w + (IF m \in v4.asked THEN Stored + (ServerTtl - 1)
                                   ELSE SdkStored + (SdkTtl - 1))
  BY <1>3 DEF DeskInv, SdkFresh, GotFresh
<1>6. a <= SdkStored + SdkTtl - 1
  BY <1>2, <1>4, PriceAssumption DEF Ages
<1>7. g <= SdkStored + SdkTtl - 1 + SdkTimeout
  BY <1>2, <1>5, PriceAssumption DEF Ages
<1> QED
  BY <1>1, <1>3, <1>6, <1>7

PricesInv == which = "desk" => DeskInv

\* PriceDesk!PricesAreRecent, for any tokens, requests and times.
THEOREM PricesCorrect == Spec => []PricesAreRecent
<1>1. Init => PricesInv
  BY DeskInit DEF Init, PricesInv
<1>2. PricesInv /\ [Next]_vars => PricesInv'
  BY OnePart, DeskStep DEF PricesInv
<1>3. PricesInv => PricesAreRecent
  BY DeskGood DEF PricesInv, PricesAreRecent
<1> QED
  BY <1>1, <1>2, <1>3, PTL DEF Spec
-----------------------------------------------------------------------------
(* ErrorMessages: page, failure and told are v1, v2 and v3.                   *)

\* What matters of a table of errors: 6008 alone is the loan already repaid.
Tabled(f) ==
  \A c \in DOMAIN f :
    /\ c \in 6000 .. 6100
    /\ f[c] \notin {"-", "AlreadyRepaid"}
    /\ f[c] = "LoanAlreadyRepaid" <=> c = 6008

LEMMA JoinedTabled ==
  ASSUME NEW f, NEW g, Tabled(f), Tabled(g)
  PROVE  Tabled(Messages!Joined(f, g))
BY DEF Tabled, Messages!Joined

LEMMA RenamedTabled ==
  ASSUME NEW D, NEW f, Tabled(f), f = [c \in D |-> f[c]]
  PROVE  Tabled([f EXCEPT ![6056] = "InvalidExchangeData"])
BY DEF Tabled

LEMMA Tables == Tabled(Messages!ERROR_MAP) /\ Tabled(Messages!LendingError)
<1>1. Tabled(Messages!CoreErrors)
  BY DEF Tabled, Messages!CoreErrors, Messages!Numbered
<1>2. Tabled(Messages!PoolErrors)
  BY DEF Tabled, Messages!PoolErrors, Messages!Numbered
<1>3. Tabled(Messages!RiskErrors)
  BY DEF Tabled, Messages!RiskErrors, Messages!Numbered
<1>4. Tabled(Messages!StakingErrors)
  BY DEF Tabled, Messages!StakingErrors, Messages!Numbered
<1>5. Tabled(Messages!AccountErrors)
  BY DEF Tabled, Messages!AccountErrors, Messages!Numbered
<1>6. Tabled(Messages!NewErrors)
  BY DEF Tabled, Messages!NewErrors, Messages!Numbered
<1>7. Tabled(Messages!ERROR_MAP)
  BY <1>1, <1>2, <1>3, <1>4, <1>5, JoinedTabled DEF Messages!ERROR_MAP
<1>9. Tabled([Messages!ERROR_MAP EXCEPT ![6056] = "InvalidExchangeData"])
  <2>1. Messages!ERROR_MAP = [c \in DOMAIN Messages!ERROR_MAP |-> Messages!ERROR_MAP[c]]
    BY DEF Messages!ERROR_MAP, Messages!Joined
  <2> QED
    BY <1>7, <2>1, RenamedTabled
<1>10. Tabled(Messages!LendingError)
  BY <1>6, <1>9, JoinedTabled DEF Messages!LendingError
<1> QED
  BY <1>7, <1>10

\* A message quotes the code of the program, or that of Anchor; never one of the table.
LEMMA Codes ==
  ASSUME NEW f \in Messages!Failure, f.how # "own"
  PROVE  /\ f.code # 0 /\ f.code \notin DOMAIN Messages!ERROR_MAP
         /\ Messages!NameOf(f.code) = "LoanAlreadyRepaid" <=> f.code = 12008
         /\ Messages!NameOf(f.code) # "AlreadyRepaid"
<1>1. CASE f.code \in DOMAIN Messages!Foreign
  BY <1>1, Tables DEF Tabled, Messages!Foreign, Messages!NameOf
<1>2. CASE f.code \notin DOMAIN Messages!Foreign
  <2>1. PICK d \in DOMAIN Messages!LendingError : f.code = d + 6000
    BY <1>2 DEF Messages!Failure, Messages!Emitted
  <2>2. /\ d \in Int /\ d >= 6000 /\ Messages!LendingError[d] # "AlreadyRepaid"
        /\ Messages!LendingError[d] = "LoanAlreadyRepaid" <=> d = 6008
    BY <2>1, Tables DEF Tabled
  <2>3. Messages!NameOf(f.code) = Messages!LendingError[d]
    <3>1. f.code - 6000 = d
      BY <2>1, <2>2
    <3> QED
      BY <1>2, <3>1 DEF Messages!NameOf
  <2>4. f.code \notin DOMAIN Messages!ERROR_MAP
    BY <2>1, <2>2, Tables DEF Tabled
  <2> QED
    BY <2>1, <2>2, <2>3, <2>4
<1> QED
  BY <1>1, <1>2

\* What is told is what the page made of the failure.
MessagesInv ==
  /\ v1 \in {"borrow", "repay"} /\ v2 \in Messages!Failure
  /\ \/ v3 = "-"
     \/ Messages!Synced /\ v3 \in {"AlreadyRepaid", "UnknownError"}
     \/ ~Messages!Synced /\ v3 = Messages!parseError(Messages!Message(v2))

LEMMA MessagesInit == Messages!Init => MessagesInv
BY DEF Messages!Init, MessagesInv

LEMMA MessagesStep == MessagesInv /\ [Messages!Next]_messages => MessagesInv'
BY DEF MessagesInv, messages, Messages!Next, Messages!TakeForRepaid, Messages!ShowError, Messages!Synced
\* The first of the phrases that occur is one of them.
LEMMA FirstOccurs ==
  ASSUME NEW m, NEW list, DOMAIN list \in {1 .. 7, 1 .. 6}, Messages!Occurring(list, m) # {}
  PROVE  \E i \in DOMAIN list : list[i] \in m.phrases /\ Messages!First(list, m) = list[i]
<1>1. PICK S : S = Messages!Occurring(list, m)
  OBVIOUS
<1>2. S # {} /\ \A j \in S : j \in {1, 2, 3, 4, 5, 6, 7}
  BY <1>1 DEF Messages!Occurring
<1>3. \E i \in S : \A j \in S : i <= j
  <2>1. PICK k : k \in S
    BY <1>2
  <2>2. CASE 1 \in S \/ 2 \in S \/ 3 \in S \/ 4 \in S
    BY <1>2, <2>2
  <2>3. CASE ~(1 \in S \/ 2 \in S \/ 3 \in S \/ 4 \in S)
    BY <1>2, <2>1, <2>3
  <2> QED
    BY <2>2, <2>3
<1>4. (CHOOSE i \in S : \A j \in S : i <= j) \in S
  BY <1>3
<1> QED
  BY <1>1, <1>4 DEF Messages!First, Messages!Occurring

LEMMA Lists ==
  /\ DOMAIN Messages!Before = 1 .. 7 /\ DOMAIN Messages!After = 1 .. 6
  /\ \A i \in 1 .. 7 : Messages!Before[i] \notin {"AlreadyRepaid", "Simulation"}
  /\ \A i \in 1 .. 6 : Messages!After[i] # "AlreadyRepaid"
  /\ \A p \in Messages!Own : (\E i \in 1 .. 7 : Messages!Before[i] = p) \/ (\E i \in 1 .. 6 : Messages!After[i] = p)
BY DEF Messages!Before, Messages!After, Messages!Own

\* A failure is never parsed as a loan that is already repaid.
LEMMA NeverAlreadyRepaid ==
  ASSUME NEW m
  PROVE  Messages!parseError(m) # "AlreadyRepaid"
<1>1. CASE Messages!Occurring(Messages!Before, m) # {}
  BY <1>1, FirstOccurs, Lists DEF Messages!parseError
<1>2. CASE Messages!Occurring(Messages!Before, m) = {}
  <2>1. \A c \in DOMAIN Messages!ERROR_MAP : Messages!ERROR_MAP[c] # "AlreadyRepaid"
    BY Tables DEF Tabled
  <2>2. "AlreadyRepaid" \notin Messages!Named
    BY <2>1 DEF Messages!Named
  <2>3. CASE Messages!Occurring(Messages!After, m) = {}
    BY <1>2, <2>1, <2>2, <2>3 DEF Messages!parseError
  <2>4. CASE Messages!Occurring(Messages!After, m) # {}
    <3>1. Messages!First(Messages!After, m) # "AlreadyRepaid"
      BY <2>4, FirstOccurs, Lists
    <3> QED
      BY <1>2, <2>1, <2>2, <2>4, <3>1 DEF Messages!parseError, Messages!Simulation
  <2> QED
    BY <2>3, <2>4
<1> QED
  BY <1>1, <1>2

\* With the log, and no stray digits, the name is found.
LEMMA SimulatedIsNamed ==
  ASSUME NEW f \in Messages!Failure, f.how = "simulated", ~f.stray,
         Messages!NameOf(f.code) \in Messages!Named
  PROVE  Messages!parseError(Messages!Message(f)) = Messages!NameOf(f.code)
<1>1. PICK m : m = Messages!Message(f)
  OBVIOUS
<1>2. /\ m.phrases = {"Simulation"} /\ m.hex = f.code /\ m.number = f.code
      /\ m.name = Messages!NameOf(f.code)
  BY <1>1 DEF Messages!Message
<1>3. Messages!Occurring(Messages!Before, m) = {}
  BY <1>2, Lists DEF Messages!Occurring
<1>4. f.code \notin DOMAIN Messages!ERROR_MAP
  BY Codes
<1> QED
  BY <1>1, <1>2, <1>3, <1>4 DEF Messages!parseError

\* Without stray digits, a failure of the page's own is told as what it is.
LEMMA OwnIsTold ==
  ASSUME NEW f \in Messages!Failure, f.how = "own", ~f.stray
  PROVE  Messages!parseError(Messages!Message(f)) = f.own
<1>1. PICK m : m = Messages!Message(f)
  OBVIOUS
<1>2. m.phrases = {f.own} /\ m.hex = 0 /\ m.number = 0 /\ m.name = "-"
  BY <1>1 DEF Messages!Message
<1>3. f.own \in Messages!Own /\ f.own # "Simulation"
  BY DEF Messages!Failure, Messages!Own
<1>4. CASE Messages!Occurring(Messages!Before, m) # {}
  <2>1. Messages!First(Messages!Before, m) = f.own
    BY <1>2, <1>4, FirstOccurs, Lists
  <2> QED
    BY <1>1, <1>4, <2>1 DEF Messages!parseError
<1>5. CASE Messages!Occurring(Messages!Before, m) = {}
  <2>1. Messages!Occurring(Messages!After, m) # {}
    BY <1>2, <1>3, <1>5, Lists DEF Messages!Occurring
  <2>2. Messages!First(Messages!After, m) = f.own
    BY <1>2, <2>1, FirstOccurs, Lists
  <2>3. 0 \notin DOMAIN Messages!ERROR_MAP /\ "-" \notin Messages!Named
    BY Tables DEF Tabled, Messages!Named
  <2> QED
    BY <1>1, <1>2, <1>3, <1>5, <2>1, <2>2, <2>3 DEF Messages!parseError
<1> QED
  BY <1>4, <1>5

LEMMA MessagesGood == MessagesInv => Messages!ErrorsAreTold
<1> SUFFICES ASSUME MessagesInv PROVE Messages!ErrorsAreTold
  OBVIOUS
<1>1. PICK f \in Messages!Failure : f = v2
  BY DEF MessagesInv
<1>2. Messages!Message(f).digits = f.code
  BY DEF Messages!Message
<1>3. Messages!Synced <=> v1 = "repay" /\ f.how # "own" /\ f.code = 12008
  BY <1>1, <1>2 DEF Messages!Synced, Messages!IsAlreadyRepaid
<1>4. f.how # "own" => (Messages!NameOf(f.code) = "LoanAlreadyRepaid" <=> f.code = 12008)
  BY Codes
<1>5. CASE v3 = "-"
  BY <1>5 DEF Messages!ErrorsAreTold, Messages!Shown
<1>6. CASE v3 # "-" /\ Messages!Synced
  <2>1. v3 \in {"AlreadyRepaid", "UnknownError"} \/ v3 = "-"
    BY <1>6 DEF MessagesInv
  <2>2. Messages!NameOf(f.code) = "LoanAlreadyRepaid" /\ v1 = "repay" /\ f.how # "own" /\ f.code = Messages!Emitted(6008)
    BY <1>3, <1>4, <1>6 DEF Messages!Emitted
  <2> QED
    BY <1>1, <1>6, <2>1, <2>2 DEF Messages!ErrorsAreTold, Messages!Shown
<1>7. CASE v3 # "-" /\ ~Messages!Synced
  <2>1. v3 = Messages!parseError(Messages!Message(f))
    BY <1>1, <1>7 DEF MessagesInv
  <2>2. v3 # "AlreadyRepaid"
    BY <2>1, NeverAlreadyRepaid
  <2>3. v1 = "repay" /\ f.how # "own" => Messages!NameOf(f.code) # "LoanAlreadyRepaid"
    BY <1>3, <1>4, <1>7
  <2>4. ~f.stray /\ f.how = "own" => v3 = f.own
    BY <2>1, OwnIsTold
  <2>5. ~f.stray /\ f.how = "simulated" /\ Messages!NameOf(f.code) \in Messages!Named
          => v3 = Messages!NameOf(f.code)
    BY <2>1, SimulatedIsNamed
  <2> QED
    BY <1>1, <2>2, <2>3, <2>4, <2>5 DEF Messages!ErrorsAreTold, Messages!Shown
<1> QED
  BY <1>5, <1>6, <1>7
-----------------------------------------------------------------------------
(* SdkCalls: the loan, paused and the wallet are v1, v2 and v3, the pool v4    *)
(* and v5, the clock v6, the calls v7 and their windows v8.                   *)

CallRecord == [kind : Sdk!Kind \cup {"none"},
               at : {"idle", "reading", "pool", "vaults", "jupiter", "throws", "sent", "done"},
               n : Nat, wallet : Wallet \cup {"none"}, base : Int, quote : Int, failed : BOOLEAN,
               answer : {"none", "no", "time", "price", "throws", "done", "refused"},
               price : Int, source : {"none", "pool", "jupiter"}]
WindowRecord == [low : Int, high : Int, events : SUBSET {"paused", "ended", "wallet", "liquidity"}]

\* The price of the pool with token balance b, at depth d; and that a window spans it.
PoolPriceAt(b, d) == Sdk!PriceOf(Sdk!BaseIn(b, d), Sdk!QuoteIn(b, d))
Spans(w, b, d) == d # 0 => w.low <= PoolPriceAt(b, d) /\ PoolPriceAt(b, d) <= w.high

UnderWay(q) == q.at \notin {"idle", "done"}

\* A price is asked of the pool by one call only; while its liquidity stays, the
\* window spans the pool's price and those at which the vaults were read.
PriceFits(q, w) ==
  /\ q.at = "reading" => q.kind # "getPriceWithFallback"
  /\ q.at \in {"pool", "vaults"} => q.kind = "getPriceWithFallback"
  /\ q.at = "pool" => q.base = -1 /\ q.quote = -1
  /\ q.source = "pool" => q.at = "done"
  /\ "liquidity" \notin w.events =>
       /\ UnderWay(q) /\ q.kind = "getPriceWithFallback" => Spans(w, v4, v5)
       /\ q.at = "vaults" =>
            /\ q.base # -1 => \E b \in Base : q.base = Sdk!BaseIn(b, v5) /\ Spans(w, b, v5)
            /\ q.quote # -1 => \E b \in Base : q.quote = Sdk!QuoteIn(b, v5) /\ Spans(w, b, v5)
       /\ q.source = "pool" => w.low <= q.price /\ q.price <= w.high

\* What would have a repayment refused is in its window.
RepayFits(q, w) ==
  q.kind = "repayLoan" =>
    /\ UnderWay(q) => /\ v2 => "paused" \in w.events
                      /\ v1 # "active" => "ended" \in w.events
    /\ q.at = "sent" => q.wallet = v3 \/ "wallet" \in w.events
    /\ q.answer = "refused" => w.events \cap {"paused", "ended", "wallet"} # {}

AnswerFits(q) ==
  /\ q.answer # "none" => q.at = "done"
  /\ q.answer = "time" => v6 > DueAt

CallFits(q, w) == PriceFits(q, w) /\ RepayFits(q, w) /\ AnswerFits(q)

SdkTypes ==
  /\ v2 \in BOOLEAN /\ v3 \in Wallet /\ v4 \in Base /\ v5 \in Nat /\ v6 \in Nat
  /\ v7 \in [Caller -> CallRecord] /\ v8 \in [Caller -> WindowRecord]
SdkInv == SdkTypes /\ \A c \in Caller : CallFits(v7[c], v8[c])

-----------------------------------------------------------------------------
(* Arithmetic of the pool's price.                                          *)

LEMMA ProductOrder ==
  ASSUME NEW a \in Nat, NEW b \in Nat, NEW c \in Nat, a <= b
  PROVE  a * c <= b * c
<1>1. PICK d \in Nat : b = a + d
  <2>1. b - a \in Nat /\ b = a + (b - a)
    OBVIOUS
  <2> QED
    BY <2>1
<1>2. b * c = a * c + d * c
  BY <1>1
<1>3. a * c \in Nat /\ d * c \in Nat
  OBVIOUS
<1> QED
  BY <1>2, <1>3

\* A quotient, by what it is.
LEMMA Quotient ==
  ASSUME NEW n \in Nat, NEW m \in Nat \ {0}
  PROVE  \E q \in Nat : n \div m = q /\ q * m <= n /\ n < (q + 1) * m
<1>1. /\ n \div m \in Nat
      /\ m * (n \div m) <= n
      /\ n < m * (n \div m) + m
  OBVIOUS
<1>2. PICK q \in Nat : q = n \div m
  BY <1>1
<1>3. q * m <= n /\ n < (q + 1) * m
  BY <1>1, <1>2
<1> QED
  BY <1>2, <1>3

LEMMA QuotientOrder ==
  ASSUME NEW n \in Nat, NEW k \in Nat, NEW m \in Nat \ {0}, NEW l \in Nat \ {0}, n <= k, l <= m
  PROVE  n \div m <= k \div l
<1>1. PICK q \in Nat : n \div m = q /\ q * m <= n
  BY Quotient
<1>2. PICK r \in Nat : k \div l = r /\ k < (r + 1) * l
  BY Quotient
<1>3. q * l <= q * m
  <2>1. l * q <= m * q
    BY ProductOrder
  <2> QED
    BY <2>1
<1>4. q * l \in Nat /\ q * m \in Nat /\ (r + 1) * l \in Nat
  OBVIOUS
<1>5. q * l < (r + 1) * l
  BY <1>1, <1>2, <1>3, <1>4
<1>6. q <= r
  <2>1. SUFFICES ASSUME r + 1 <= q PROVE FALSE
    OBVIOUS
  <2>2. (r + 1) * l <= q * l
    BY <2>1, ProductOrder
  <2> QED
    BY <1>4, <1>5, <2>2
<1> QED
  BY <1>1, <1>2, <1>6

LEMMA Balances ==
  ASSUME NEW b \in Base, NEW d \in Nat
  PROVE  /\ b \in Nat \ {0} /\ Sdk!BaseIn(b, d) \in Nat /\ Sdk!QuoteIn(b, d) \in Nat
         /\ d # 0 => Sdk!BaseIn(b, d) # 0 /\ PoolPriceAt(b, d) \in Nat
         /\ d = 0 => Sdk!BaseIn(b, d) = 0
<1>1. b \in Nat \ {0} /\ Constant \in Nat /\ Scale \in Nat
  BY SdkAssumption
<1>2. PICK t \in Nat : t = Constant \div b
  BY <1>1, Quotient
<1>3. PICK x \in Nat, y \in Nat : x = d * b /\ y = d * t
  BY <1>1
<1>4. Sdk!BaseIn(b, d) = x /\ Sdk!QuoteIn(b, d) = y
  BY <1>2, <1>3 DEF Sdk!BaseIn, Sdk!QuoteIn
<1>5. d # 0 => x # 0
  BY <1>1, <1>3
<1>6. d = 0 => x = 0
  BY <1>1, <1>3
<1>7. ASSUME d # 0 PROVE PoolPriceAt(b, d) \in Nat
  <2>1. PICK z \in Nat : z = y * Scale
    BY <1>1
  <2>2. z \div x \in Nat
    BY <1>5, <1>7, Quotient
  <2> QED
    BY <1>4, <2>1, <2>2 DEF PoolPriceAt, Sdk!PriceOf
<1> QED
  BY <1>1, <1>4, <1>5, <1>6, <1>7

\* The price made of balances read at two times lies between the prices then.
LEMMA BetweenPrices ==
  ASSUME NEW b \in Base, NEW c \in Base, NEW d \in Nat \ {0}
  PROVE  LET p == Sdk!PriceOf(Sdk!BaseIn(b, d), Sdk!QuoteIn(c, d)) IN
         /\ p \in Int
         /\ \/ PoolPriceAt(b, d) <= p /\ p <= PoolPriceAt(c, d)
            \/ PoolPriceAt(c, d) <= p /\ p <= PoolPriceAt(b, d)
<1>1. b \in Nat \ {0} /\ c \in Nat \ {0} /\ Constant \in Nat /\ Scale \in Nat
  BY SdkAssumption
<1>2. PICK t \in Nat, u \in Nat : t = Constant \div b /\ u = Constant \div c
  BY <1>1, Quotient
<1>3. PICK x \in Nat \ {0}, y \in Nat \ {0} : x = d * b /\ y = d * c
  BY <1>1
<1>4. PICK m \in Nat, n \in Nat : m = d * t * Scale /\ n = d * u * Scale
  BY <1>1
<1>5. /\ PoolPriceAt(b, d) = m \div x /\ PoolPriceAt(c, d) = n \div y
      /\ Sdk!PriceOf(Sdk!BaseIn(b, d), Sdk!QuoteIn(c, d)) = n \div x
  BY <1>2, <1>3, <1>4 DEF PoolPriceAt, Sdk!PriceOf, Sdk!BaseIn, Sdk!QuoteIn
<1>6. ASSUME NEW i \in Nat, NEW j \in Nat, i <= j PROVE d * i * Scale <= d * j * Scale
  <2>1. i * d <= j * d
    BY <1>6, ProductOrder
  <2>2. i * d \in Nat /\ j * d \in Nat
    OBVIOUS
  <2>3. (i * d) * Scale <= (j * d) * Scale
    BY <1>1, <2>1, <2>2, ProductOrder
  <2> QED
    BY <2>3
<1>7. CASE b <= c
  <2>1. u <= t
    <3>1. Constant <= Constant
      BY <1>1
    <3>2. Constant \div c <= Constant \div b
      BY <1>1, <1>7, <3>1, QuotientOrder
    <3> QED
      BY <1>2, <3>2
  <2>2. n <= m
    BY <1>4, <1>6, <2>1
  <2>3. x <= y
    <3>1. b * d <= c * d
      BY <1>1, <1>7, ProductOrder
    <3>2. b * d = d * b /\ c * d = d * c
      BY <1>1
    <3> QED
      BY <1>3, <3>1, <3>2
  <2>4. n \div x <= m \div x
    <3>1. x <= x
      OBVIOUS
    <3> QED
      BY <2>2, <3>1, QuotientOrder
  <2>5. n \div y <= n \div x
    <3>1. n <= n
      OBVIOUS
    <3> QED
      BY <2>3, <3>1, QuotientOrder
  <2>6. n \div x \in Nat
    BY Quotient
  <2> QED
    BY <1>5, <2>4, <2>5, <2>6
<1>8. CASE c <= b
  <2>1. t <= u
    <3>1. Constant <= Constant
      BY <1>1
    <3>2. Constant \div b <= Constant \div c
      BY <1>1, <1>8, <3>1, QuotientOrder
    <3> QED
      BY <1>2, <3>2
  <2>2. m <= n
    BY <1>4, <1>6, <2>1
  <2>3. y <= x
    <3>1. c * d <= b * d
      BY <1>1, <1>8, ProductOrder
    <3>2. b * d = d * b /\ c * d = d * c
      BY <1>1
    <3> QED
      BY <1>3, <3>1, <3>2
  <2>4. m \div x <= n \div x
    <3>1. x <= x
      OBVIOUS
    <3> QED
      BY <2>2, <3>1, QuotientOrder
  <2>5. n \div x <= n \div y
    <3>1. n <= n
      OBVIOUS
    <3> QED
      BY <2>3, <3>1, QuotientOrder
  <2>6. n \div x \in Nat
    BY Quotient
  <2> QED
    BY <1>5, <2>4, <2>5, <2>6
<1> QED
  BY <1>1, <1>7, <1>8

-----------------------------------------------------------------------------
(* The steps.                                                               *)

LEMMA IdleRecord ==
  /\ Sdk!Idle \in CallRecord /\ Sdk!Idle.kind = "none" /\ Sdk!Idle.at = "idle" /\ Sdk!Idle.n = 0
  /\ Sdk!Idle.base = -1 /\ Sdk!Idle.quote = -1 /\ Sdk!Idle.answer = "none"
  /\ Sdk!Idle.source = "none"
BY DEF Sdk!Idle, CallRecord

LEMMA SdkInit == Sdk!Init => SdkInv
<1> SUFFICES ASSUME Sdk!Init PROVE SdkInv
  OBVIOUS
<1>1. PICK w : w = [low |-> 0, high |-> 0, events |-> {}]
  OBVIOUS
<1>2. w \in WindowRecord
  BY <1>1 DEF WindowRecord
<1>3. v7 = [c \in Caller |-> Sdk!Idle] /\ v8 = [c \in Caller |-> w]
  BY <1>1 DEF Sdk!Init
<1>4. SdkTypes
  BY <1>2, <1>3, IdleRecord DEF SdkTypes, Sdk!Init
<1>5. CallFits(Sdk!Idle, w)
  BY IdleRecord DEF CallFits, PriceFits, RepayFits, AnswerFits, UnderWay
<1> QED
  BY <1>3, <1>4, <1>5 DEF SdkInv

\* The call of one caller, the rest standing.
LEMMA OneCall ==
  ASSUME SdkInv, NEW c \in Caller, NEW q \in CallRecord, NEW w \in WindowRecord, CallFits(q, w),
         v7' = [v7 EXCEPT ![c] = q], v8' = [v8 EXCEPT ![c] = w], UNCHANGED <<v1, v2, v3, v4, v5, v6>>
  PROVE  SdkInv'
<1>1. SdkTypes'
  BY DEF SdkInv, SdkTypes
<1>2. \A x \in Caller : v7'[x] = (IF x = c THEN q ELSE v7[x]) /\ v8'[x] = (IF x = c THEN w ELSE v8[x])
  BY DEF SdkInv, SdkTypes
<1>3. \A x \in Caller : CallFits(v7'[x], v8'[x])
  BY <1>2 DEF SdkInv
<1>4. ASSUME NEW x \in Caller PROVE CallFits(v7[x], v8[x])'
  BY <1>3 DEF CallFits, PriceFits, RepayFits, AnswerFits, Spans
<1> QED
  BY <1>1, <1>4 DEF SdkInv

LEMMA SetKeeps ==
  ASSUME SdkInv, NEW c \in Caller, NEW q \in CallRecord, CallFits(q, v8[c]), Sdk!Set(c, q)
  PROVE  SdkInv'
<1> USE DEF Sdk!chain, Sdk!pool
<1>1. PICK w \in WindowRecord : w = v8[c]
  BY DEF SdkInv, SdkTypes
<1>2. v7' = [v7 EXCEPT ![c] = q] /\ v8' = [v8 EXCEPT ![c] = w] /\ UNCHANGED <<v1, v2, v3, v4, v5, v6>>
  BY <1>1 DEF Sdk!Set, SdkInv, SdkTypes
<1> QED
  BY <1>1, <1>2, OneCall

\* A call that is over, as it is but for a price.
Over(k, a) == [Sdk!Idle EXCEPT !.kind = k, !.at = "done", !.answer = a]

LEMMA OverFits ==
  ASSUME NEW k \in Sdk!Kind \cup {"none"}, NEW a \in {"no", "time", "throws", "done", "refused"}, NEW w \in WindowRecord,
         a = "time" => v6 > DueAt,
         k = "repayLoan" /\ a = "refused" => w.events \cap {"paused", "ended", "wallet"} # {}
  PROVE  Over(k, a) \in CallRecord /\ CallFits(Over(k, a), w)
<1>1. PICK q : q = Over(k, a)
  OBVIOUS
<1>2. q \in CallRecord
  BY <1>1, IdleRecord DEF Over, CallRecord
<1>3. q.kind = k /\ q.at = "done" /\ q.answer = a /\ q.source = "none"
  BY <1>1, IdleRecord DEF Over, CallRecord
<1>4. CallFits(q, w)
  BY <1>3 DEF CallFits, PriceFits, RepayFits, AnswerFits, UnderWay
<1> QED
  BY <1>1, <1>2, <1>4

LEMMA AnswerKeeps ==
  ASSUME SdkInv, NEW c \in Caller, NEW a \in {"no", "time", "throws", "done", "refused"}, Sdk!Answer(c, a),
         a = "time" => v6 > DueAt,
         v7[c].kind = "repayLoan" /\ a = "refused" => v8[c].events \cap {"paused", "ended", "wallet"} # {}
  PROVE  SdkInv'
<1>1. PICK w \in WindowRecord, k \in Sdk!Kind \cup {"none"} : w = v8[c] /\ k = v7[c].kind
  BY DEF SdkInv, SdkTypes, CallRecord
<1>2. PICK q : q = Over(k, a)
  OBVIOUS
<1>3. q \in CallRecord /\ CallFits(q, w)
  BY <1>1, <1>2, OverFits
<1>4. Sdk!Set(c, q)
  BY <1>1, <1>2 DEF Sdk!Answer, Over
<1> QED
  BY <1>1, <1>3, <1>4, SetKeeps

LEMMA WhatIsRead ==
  /\ Sdk!Reads("getPriceWithFallback") = <<>>
  /\ Sdk!Reads("repayLoan") = <<"loan", "mint", "protocol">>
  /\ \A k : /\ Sdk!AtAfterReads(k) \in {"pool", "jupiter", "throws", "sent"}
            /\ Sdk!AtAfterReads(k) = "pool" => k = "getPriceWithFallback"
<1>1. Sdk!Reads("getPriceWithFallback") = <<>>
  BY DEF Sdk!Reads, Sdk!SentReads, Sdk!PreparedReads, Sdk!LiquidateReads, Sdk!StakingCalls
<1>2. Sdk!Reads("repayLoan") = <<"loan", "mint", "protocol">>
  BY DEF Sdk!Reads, Sdk!SentReads, Sdk!PreparedReads, Sdk!LiquidateReads, Sdk!StakingCalls
<1>3. ASSUME NEW k
      PROVE  /\ Sdk!AtAfterReads(k) \in {"pool", "jupiter", "throws", "sent"}
             /\ Sdk!AtAfterReads(k) = "pool" => k = "getPriceWithFallback"
  BY DEF Sdk!AtAfterReads, Sdk!ReadsPool, Sdk!PoolTypeGiven, Sdk!TooFewArguments
<1> QED
  BY <1>1, <1>2, <1>3

LEMMA BeginKeeps ==
  ASSUME SdkInv, NEW c \in Caller, NEW k \in Sdk!Kind, Sdk!Begin(c, k)
  PROVE  SdkInv'
<1> USE DEF Sdk!chain, Sdk!pool
<1>1. SdkTypes /\ UNCHANGED <<v1, v2, v3, v4, v5, v6>>
  BY DEF SdkInv, Sdk!Begin
<1>2. PICK p : p = IF k # "getPriceWithFallback" \/ v5 = 0 THEN 0 ELSE PoolPriceAt(v4, v5)
  OBVIOUS
<1>3. p \in Int
  BY <1>1, <1>2, Balances DEF SdkTypes
<1>4. PICK e : e = Sdk!Events
  OBVIOUS
<1>5. e \in SUBSET {"paused", "ended", "wallet", "liquidity"}
  BY <1>4 DEF Sdk!Events
<1>6. PICK w : w = [low |-> p, high |-> p, events |-> e]
  OBVIOUS
<1>7. w \in WindowRecord /\ w.low = p /\ w.high = p /\ w.events = e
  BY <1>3, <1>5, <1>6 DEF WindowRecord
<1>8. v8' = [v8 EXCEPT ![c] = w]
  BY <1>2, <1>4, <1>6 DEF Sdk!Begin, PoolPriceAt
<1>9. PICK a \in {"reading", "pool", "jupiter", "throws", "sent"} :
        a = IF Sdk!Reads(k) = <<>> THEN Sdk!AtAfterReads(k) ELSE "reading"
  BY WhatIsRead
<1>10. /\ a = "reading" => k # "getPriceWithFallback"
       /\ a = "pool" => k = "getPriceWithFallback"
       /\ k = "repayLoan" => a # "sent"
  <2>1. Sdk!Reads("repayLoan") # <<>>
    <3>1. <<"loan", "mint", "protocol">> # <<>>
      OBVIOUS
    <3> QED
      BY <3>1, WhatIsRead
  <2>2. a = "reading" => k # "getPriceWithFallback"
    BY <1>9, WhatIsRead
  <2>3. a = "pool" => k = "getPriceWithFallback"
    BY <1>9, WhatIsRead
  <2>4. k = "repayLoan" => a # "sent"
    BY <1>9, <2>1
  <2> QED
    BY <2>2, <2>3, <2>4
<1>11. PICK q : q = [Sdk!Idle EXCEPT !.kind = k, !.at = a]
  OBVIOUS
<1>12. q \in CallRecord
  BY <1>11, IdleRecord DEF CallRecord
<1>13. /\ q.kind = k /\ q.at = a /\ q.base = -1 /\ q.quote = -1 /\ q.answer = "none"
       /\ q.source = "none"
  BY <1>11, IdleRecord DEF CallRecord
<1>14. v7' = [v7 EXCEPT ![c] = q]
  BY <1>9, <1>11 DEF Sdk!Begin, Sdk!Started
<1>15. PriceFits(q, w)
  <2>1. k = "getPriceWithFallback" => Spans(w, v4, v5)
    <3>1. p <= p
      BY <1>3
    <3> QED
      BY <1>2, <1>7, <3>1 DEF Spans
  <2>2. q.at # "vaults" /\ q.source # "pool"
    BY <1>9, <1>13
  <2> QED
    BY <1>10, <1>13, <2>1, <2>2 DEF PriceFits
<1>16. RepayFits(q, w)
  BY <1>4, <1>7, <1>10, <1>13 DEF RepayFits, Sdk!Events
<1>17. AnswerFits(q)
  BY <1>13 DEF AnswerFits
<1> QED
  BY <1>1, <1>7, <1>8, <1>12, <1>14, <1>15, <1>16, <1>17, OneCall DEF CallFits

LEMMA ReadKeeps ==
  ASSUME SdkInv, NEW c \in Caller, Sdk!Read(c)
  PROVE  SdkInv'
<1>1. PICK p \in CallRecord, w \in WindowRecord : p = v7[c] /\ w = v8[c] /\ CallFits(p, w)
  BY DEF SdkInv, SdkTypes
<1>2. p.at = "reading"
  BY <1>1 DEF Sdk!Read
<1>3. PICK k \in Sdk!Kind \cup {"none"}, i \in Nat : k = p.kind /\ i = p.n
  BY DEF CallRecord
<1>4. PICK j \in Nat : j = i + 1
  OBVIOUS
<1>5. PICK account : account = Sdk!Reads(k)[j]
  OBVIOUS
<1>6. PICK x : x = IF account = "protocol" THEN v3 ELSE p.wallet
  OBVIOUS
<1>7. x \in Wallet \cup {"none"}
  BY <1>6 DEF CallRecord, SdkInv, SdkTypes
<1>8. PICK a \in {"reading", "pool", "jupiter", "throws", "sent"} :
        a = IF j = Len(Sdk!Reads(k)) THEN Sdk!AtAfterReads(k) ELSE p.at
  BY <1>2, WhatIsRead
<1>9. PICK q : q = [p EXCEPT !.n = j, !.wallet = x, !.at = a]
  OBVIOUS
<1>10. q \in CallRecord
  BY <1>7, <1>9 DEF CallRecord
<1>11. /\ q.kind = k /\ q.at = a /\ q.answer = p.answer /\ q.source = p.source /\ q.wallet = x
  BY <1>3, <1>9 DEF CallRecord
<1>12. k # "getPriceWithFallback" /\ p.answer = "none" /\ p.source # "pool"
  BY <1>1, <1>2, <1>3 DEF CallFits, PriceFits, AnswerFits
<1>13. a # "pool"
  BY <1>2, <1>8, <1>12, WhatIsRead
<1>14. PriceFits(q, w)
  BY <1>8, <1>11, <1>12, <1>13 DEF PriceFits
<1>15. k = "repayLoan" /\ a = "sent" => x = v3
  <2>1. SUFFICES ASSUME k = "repayLoan", a = "sent" PROVE x = v3
    OBVIOUS
  <2>2. Len(<<"loan", "mint", "protocol">>) = 3 /\ <<"loan", "mint", "protocol">>[3] = "protocol"
    OBVIOUS
  <2>3. j = 3
    BY <1>2, <1>8, <2>1, <2>2, WhatIsRead
  <2>4. account = "protocol"
    BY <1>5, <2>1, <2>2, <2>3, WhatIsRead
  <2> QED
    BY <1>6, <2>4
<1>16. RepayFits(q, w)
  BY <1>1, <1>2, <1>3, <1>11, <1>12, <1>15 DEF CallFits, RepayFits, UnderWay
<1>17. AnswerFits(q)
  BY <1>11, <1>12 DEF AnswerFits
<1>18. CASE Sdk!Set(c, q)
  BY <1>1, <1>10, <1>14, <1>16, <1>17, <1>18, SetKeeps DEF CallFits
<1>19. CASE Sdk!Answer(c, "no")
  BY <1>19, AnswerKeeps
<1>20. CASE Sdk!Answer(c, "time") /\ v6 > DueAt
  BY <1>20, AnswerKeeps
<1>21. Sdk!Set(c, q) \/ Sdk!Answer(c, "no") \/ (Sdk!Answer(c, "time") /\ v6 > DueAt)
  <2>1. q = [p EXCEPT !.n = p.n + 1, !.wallet = IF account = "protocol" THEN v3 ELSE p.wallet,
                      !.at = IF p.n + 1 = Len(Sdk!Reads(k)) THEN Sdk!AtAfterReads(k) ELSE p.at]
    BY <1>3, <1>4, <1>6, <1>8, <1>9
  <2>2. account = Sdk!Reads(k)[p.n + 1]
    BY <1>3, <1>4, <1>5
  <2> QED
    BY <1>1, <1>3, <2>1, <2>2 DEF Sdk!Read
<1> QED
  BY <1>18, <1>19, <1>20, <1>21

\* What a call leaves to Jupiter.
LEMMA LeftToJupiter ==
  ASSUME SdkInv, NEW c \in Caller, v7[c].at \in {"reading", "pool", "vaults"},
         Sdk!Set(c, [v7[c] EXCEPT !.at = "jupiter", !.failed = TRUE])
  PROVE  SdkInv'
<1>1. PICK p \in CallRecord, w \in WindowRecord : p = v7[c] /\ w = v8[c] /\ CallFits(p, w)
  BY DEF SdkInv, SdkTypes
<1>2. PICK q : q = [p EXCEPT !.at = "jupiter", !.failed = TRUE]
  OBVIOUS
<1>3. q \in CallRecord
  BY <1>2 DEF CallRecord
<1>4. q.kind = p.kind /\ q.at = "jupiter" /\ q.answer = p.answer /\ q.source = p.source
  BY <1>2 DEF CallRecord
<1>5. p.answer = "none" /\ p.source # "pool"
  BY <1>1 DEF CallFits, PriceFits, AnswerFits
<1>6. CallFits(q, w)
  BY <1>1, <1>4, <1>5 DEF CallFits, PriceFits, RepayFits, AnswerFits, UnderWay
<1> QED
  BY <1>1, <1>2, <1>3, <1>6, SetKeeps

LEMMA ReadFailsKeeps ==
  ASSUME SdkInv, NEW c \in Caller, Sdk!ReadFails(c)
  PROVE  SdkInv'
<1>1. v7[c].at = "reading"
  BY DEF Sdk!ReadFails
<1>2. \/ Sdk!Answer(c, "no") \/ Sdk!Answer(c, "throws")
      \/ Sdk!Set(c, [v7[c] EXCEPT !.at = "jupiter", !.failed = TRUE])
  BY DEF Sdk!ReadFails
<1> QED
  BY <1>1, <1>2, AnswerKeeps, LeftToJupiter

LEMMA PoolFailsKeeps ==
  ASSUME SdkInv, NEW c \in Caller, Sdk!PoolFails(c)
  PROVE  SdkInv'
BY LeftToJupiter DEF Sdk!PoolFails

LEMMA ReadPoolKeeps ==
  ASSUME SdkInv, NEW c \in Caller, Sdk!ReadPool(c)
  PROVE  SdkInv'
<1>1. PICK p \in CallRecord, w \in WindowRecord : p = v7[c] /\ w = v8[c] /\ CallFits(p, w)
  BY DEF SdkInv, SdkTypes
<1>2. p.at = "pool" /\ Sdk!Set(c, [p EXCEPT !.at = "vaults"])
  BY <1>1 DEF Sdk!ReadPool
<1>3. PICK q : q = [p EXCEPT !.at = "vaults"]
  OBVIOUS
<1>4. q \in CallRecord
  BY <1>3 DEF CallRecord
<1>5. /\ q.kind = p.kind /\ q.at = "vaults" /\ q.answer = p.answer /\ q.source = p.source
      /\ q.base = p.base /\ q.quote = p.quote
  BY <1>3 DEF CallRecord
<1>6. /\ p.answer = "none" /\ p.source # "pool" /\ p.kind = "getPriceWithFallback"
      /\ p.base = -1 /\ p.quote = -1
  BY <1>1, <1>2 DEF CallFits, PriceFits, AnswerFits
<1>7. PriceFits(q, w)
  BY <1>1, <1>2, <1>5, <1>6 DEF CallFits, PriceFits, UnderWay
<1>8. RepayFits(q, w) /\ AnswerFits(q)
  BY <1>5, <1>6 DEF RepayFits, AnswerFits
<1> QED
  BY <1>1, <1>2, <1>3, <1>4, <1>7, <1>8, SetKeeps DEF CallFits

LEMMA ReadBaseKeeps ==
  ASSUME SdkInv, NEW c \in Caller, Sdk!ReadBase(c)
  PROVE  SdkInv'
<1>0. v4 \in Base /\ v5 \in Nat
  BY DEF SdkInv, SdkTypes
<1>1. PICK p \in CallRecord, w \in WindowRecord : p = v7[c] /\ w = v8[c] /\ CallFits(p, w)
  BY DEF SdkInv, SdkTypes
<1>2. p.at = "vaults" /\ Sdk!Set(c, [p EXCEPT !.base = Sdk!BaseIn(v4, v5)])
  BY <1>1 DEF Sdk!ReadBase
<1>3. PICK x \in Int : x = Sdk!BaseIn(v4, v5)
  BY <1>0, Balances
<1>4. PICK q : q = [p EXCEPT !.base = x]
  OBVIOUS
<1>5. q \in CallRecord
  BY <1>4 DEF CallRecord
<1>6. /\ q.kind = p.kind /\ q.at = p.at /\ q.answer = p.answer /\ q.source = p.source
      /\ q.base = x /\ q.quote = p.quote
  BY <1>4 DEF CallRecord
<1>7. p.answer = "none" /\ p.source # "pool" /\ p.kind = "getPriceWithFallback"
  BY <1>1, <1>2 DEF CallFits, PriceFits, AnswerFits
<1>8. PriceFits(q, w)
  BY <1>0, <1>1, <1>2, <1>3, <1>6, <1>7 DEF CallFits, PriceFits, UnderWay
<1>9. RepayFits(q, w) /\ AnswerFits(q)
  BY <1>6, <1>7 DEF RepayFits, AnswerFits
<1> QED
  BY <1>1, <1>2, <1>3, <1>4, <1>5, <1>8, <1>9, SetKeeps DEF CallFits

LEMMA ReadQuoteKeeps ==
  ASSUME SdkInv, NEW c \in Caller, Sdk!ReadQuote(c)
  PROVE  SdkInv'
<1>0. v4 \in Base /\ v5 \in Nat
  BY DEF SdkInv, SdkTypes
<1>1. PICK p \in CallRecord, w \in WindowRecord : p = v7[c] /\ w = v8[c] /\ CallFits(p, w)
  BY DEF SdkInv, SdkTypes
<1>2. p.at = "vaults" /\ Sdk!Set(c, [p EXCEPT !.quote = Sdk!QuoteIn(v4, v5)])
  BY <1>1 DEF Sdk!ReadQuote
<1>3. PICK x \in Int : x = Sdk!QuoteIn(v4, v5)
  BY <1>0, Balances
<1>4. PICK q : q = [p EXCEPT !.quote = x]
  OBVIOUS
<1>5. q \in CallRecord
  BY <1>4 DEF CallRecord
<1>6. /\ q.kind = p.kind /\ q.at = p.at /\ q.answer = p.answer /\ q.source = p.source
      /\ q.base = p.base /\ q.quote = x
  BY <1>4 DEF CallRecord
<1>7. p.answer = "none" /\ p.source # "pool" /\ p.kind = "getPriceWithFallback"
  BY <1>1, <1>2 DEF CallFits, PriceFits, AnswerFits
<1>8. PriceFits(q, w)
  BY <1>0, <1>1, <1>2, <1>3, <1>6, <1>7 DEF CallFits, PriceFits, UnderWay
<1>9. RepayFits(q, w) /\ AnswerFits(q)
  BY <1>6, <1>7 DEF RepayFits, AnswerFits
<1> QED
  BY <1>1, <1>2, <1>3, <1>4, <1>5, <1>8, <1>9, SetKeeps DEF CallFits

\* A price is an answer.
LEMMA PricedKeeps ==
  ASSUME SdkInv, NEW c \in Caller, NEW x \in Int, NEW source \in {"pool", "jupiter"},
         Sdk!Priced(c, x, source),
         source = "pool" /\ "liquidity" \notin v8[c].events => v8[c].low <= x /\ x <= v8[c].high
  PROVE  SdkInv'
<1>1. PICK p \in CallRecord, w \in WindowRecord : p = v7[c] /\ w = v8[c]
  BY DEF SdkInv, SdkTypes
<1>2. PICK a \in {"price", "no"} :
        a = IF p.kind = "getPriceWithFallback" THEN "price"
            ELSE IF x <= LiquidationPrice THEN "price" ELSE "no"
  OBVIOUS
<1>3. PICK k \in Sdk!Kind \cup {"none"}, f \in BOOLEAN : k = p.kind /\ f = p.failed
  BY DEF CallRecord
<1>4. PICK q : q = [Sdk!Idle EXCEPT !.kind = k, !.at = "done", !.price = x, !.source = source,
                                    !.failed = f, !.answer = a]
  OBVIOUS
<1>5. q \in CallRecord
  <2>1. PICK over : over = [Sdk!Idle EXCEPT !.kind = k, !.at = "done", !.answer = a]
    OBVIOUS
  <2>2. over \in CallRecord
    BY <2>1, IdleRecord DEF CallRecord
  <2>3. q = [over EXCEPT !.price = x, !.source = source, !.failed = f]
    BY <1>4, <2>1, IdleRecord DEF CallRecord
  <2> QED
    BY <2>2, <2>3 DEF CallRecord
<1>6. q.kind = k /\ q.at = "done" /\ q.price = x /\ q.source = source /\ q.answer = a
  BY <1>4, IdleRecord DEF CallRecord
<1>7. Sdk!Set(c, q)
  BY <1>1, <1>2, <1>3, <1>4 DEF Sdk!Priced
<1>8. CallFits(q, w)
  BY <1>1, <1>6 DEF CallFits, PriceFits, RepayFits, AnswerFits, UnderWay
<1> QED
  BY <1>1, <1>5, <1>7, <1>8, SetKeeps

LEMMA PoolPriceKeeps ==
  ASSUME SdkInv, NEW c \in Caller, Sdk!PoolPrice(c)
  PROVE  SdkInv'
<1>1. PICK p \in CallRecord, w \in WindowRecord : p = v7[c] /\ w = v8[c] /\ CallFits(p, w)
  BY DEF SdkInv, SdkTypes
<1>2. p.at = "vaults" /\ p.base # -1 /\ p.quote # -1
  BY <1>1 DEF Sdk!PoolPrice
<1>3. CASE p.base = 0 \/ p.quote = 0
  BY <1>1, <1>2, <1>3, LeftToJupiter DEF Sdk!PoolPrice
<1>4. CASE ~(p.base = 0 \/ p.quote = 0)
  <2>1. PICK b \in Int, q \in Int : b = p.base /\ q = p.quote
    BY DEF CallRecord
  <2>2. PICK x : x = Sdk!PriceOf(b, q)
    OBVIOUS
  <2>3. Sdk!Priced(c, x, "pool")
    BY <1>1, <1>4, <2>1, <2>2 DEF Sdk!PoolPrice
  <2>4. x \in Int
    BY <1>4, <2>1, <2>2, SdkAssumption DEF Sdk!PriceOf
  <2>5. ASSUME "liquidity" \notin w.events PROVE w.low <= x /\ x <= w.high
    <3>1. PICK y \in Base, z \in Base :
            /\ b = Sdk!BaseIn(y, v5) /\ Spans(w, y, v5)
            /\ q = Sdk!QuoteIn(z, v5) /\ Spans(w, z, v5)
      BY <1>1, <1>2, <2>1, <2>5 DEF CallFits, PriceFits
    <3>2. v5 \in Nat \ {0}
      <4>1. v5 \in Nat
        BY DEF SdkInv, SdkTypes
      <4>2. v5 # 0
        BY <1>4, <2>1, <3>1, <4>1, Balances
      <4> QED
        BY <4>1, <4>2
    <3>3. PICK i \in Int, k \in Int : i = PoolPriceAt(y, v5) /\ k = PoolPriceAt(z, v5)
      BY <3>2, Balances
    <3>4. (i <= x /\ x <= k) \/ (k <= x /\ x <= i)
      BY <2>2, <3>1, <3>2, <3>3, BetweenPrices
    <3>5. w.low <= i /\ i <= w.high /\ w.low <= k /\ k <= w.high
      BY <3>1, <3>2, <3>3 DEF Spans
    <3>6. PICK low \in Int, high \in Int : low = w.low /\ high = w.high
      BY DEF WindowRecord
    <3> QED
      BY <2>4, <3>4, <3>5, <3>6
  <2> QED
    BY <1>1, <2>3, <2>4, <2>5, PricedKeeps
<1> QED
  BY <1>3, <1>4

LEMMA AnotherPriceKeeps ==
  ASSUME SdkInv, NEW c \in Caller, Sdk!Jupiter(c)
  PROVE  SdkInv'
<1>1. \/ \E x \in {LiquidationPrice, LiquidationPrice + 1} : Sdk!Priced(c, x, "jupiter")
      \/ Sdk!Answer(c, "no") \/ Sdk!Answer(c, "throws")
  BY DEF Sdk!Jupiter
<1>2. \A x \in {LiquidationPrice, LiquidationPrice + 1} : x \in Int
  BY SdkAssumption
<1> QED
  BY <1>1, <1>2, PricedKeeps, AnswerKeeps

LEMMA RefuseKeeps ==
  ASSUME SdkInv, NEW c \in Caller, Sdk!Refuse(c)
  PROVE  SdkInv'
<1>1. PICK p \in CallRecord, w \in WindowRecord : p = v7[c] /\ w = v8[c] /\ RepayFits(p, w)
  BY DEF SdkInv, SdkTypes, CallFits
<1>2. p.at = "sent" /\ Sdk!Answer(c, "refused") /\ ~Sdk!Accepts(c)
  BY <1>1 DEF Sdk!Refuse
<1>3. ASSUME p.kind = "repayLoan" PROVE w.events \cap {"paused", "ended", "wallet"} # {}
  <2>1. "repayLoan" \notin Sdk!NeverAccepted
    BY DEF Sdk!NeverAccepted, Sdk!LiquidateReads
  <2>2. v1 # "active" \/ v2 \/ p.wallet # v3
    BY <1>1, <1>2, <1>3, <2>1 DEF Sdk!Accepts
  <2>3. "paused" \in w.events \/ "ended" \in w.events \/ "wallet" \in w.events
    BY <1>1, <1>2, <1>3, <2>2 DEF RepayFits, UnderWay
  <2> QED
    BY <2>3
<1> QED
  BY <1>1, <1>2, <1>3, AnswerKeeps

\* What a change of the chain or of the pool leaves of a call, once it is noted.
LEMMA NotedFits ==
  ASSUME SdkInv, NEW events \in SUBSET {"paused", "ended", "wallet", "liquidity"},
         NEW b \in Base, NEW d \in Nat, v4' = b, v5' = d, Sdk!Note(events, b, d), v6' = v6,
         v2' \in BOOLEAN,
         v2' => v2 \/ "paused" \in events,
         v1' # "active" => v1 # "active" \/ "ended" \in events,
         v3' # v3 => "wallet" \in events,
         v5' # v5 => "liquidity" \in events,
         NEW c \in Caller, NEW p \in CallRecord, p = v7[c]
  PROVE  v8'[c] \in WindowRecord /\ CallFits(p, v8[c])'
<1>1. PICK w \in WindowRecord : w = v8[c] /\ CallFits(p, w)
  BY DEF SdkInv, SdkTypes
<1>2. PICK u : u = v8'[c]
  OBVIOUS
<1>3. v2 \in BOOLEAN /\ v4 \in Base /\ v5 \in Nat
  BY DEF SdkInv, SdkTypes
<1>4. Sdk!InCall(c) <=> UnderWay(p)
  BY DEF Sdk!InCall, UnderWay
<1>5. SUFFICES u \in WindowRecord /\ CallFits(p, u)'
  BY <1>2 DEF CallFits, PriceFits, RepayFits, AnswerFits, Spans
<1>6. PICK low \in Int, high \in Int, e \in SUBSET {"paused", "ended", "wallet", "liquidity"} :
        low = w.low /\ high = w.high /\ e = w.events
  BY DEF WindowRecord
<1>7. CASE ~UnderWay(p)
  <2>1. u = w
    BY <1>1, <1>2, <1>4, <1>7 DEF Sdk!Note
  <2> QED
    BY <1>1, <1>7, <2>1 DEF CallFits, PriceFits, RepayFits, AnswerFits, UnderWay
<1>8. ASSUME UnderWay(p), u \in WindowRecord, u.events = e \cup events
      PROVE  RepayFits(p, u)' /\ AnswerFits(p)'
  <2>1. CASE p.kind = "repayLoan"
    <3>1. v2' => "paused" \in u.events
      BY <1>1, <1>6, <1>8, <2>1 DEF CallFits, RepayFits
    <3>2. v1' # "active" => "ended" \in u.events
      BY <1>1, <1>6, <1>8, <2>1 DEF CallFits, RepayFits
    <3>3. p.at = "sent" => p.wallet = v3' \/ "wallet" \in u.events
      BY <1>1, <1>6, <1>8, <2>1 DEF CallFits, RepayFits
    <3>4. p.answer # "refused"
      BY <1>1, <1>8 DEF CallFits, AnswerFits, UnderWay
    <3> QED
      BY <1>1, <3>1, <3>2, <3>3, <3>4 DEF CallFits, RepayFits, AnswerFits
  <2>2. CASE p.kind # "repayLoan"
    BY <1>1, <2>2 DEF CallFits, RepayFits, AnswerFits
  <2> QED
    BY <2>1, <2>2
<1>9. CASE UnderWay(p) /\ p.kind # "getPriceWithFallback"
  <2>1. u = [w EXCEPT !.events = e \cup events]
    BY <1>1, <1>2, <1>4, <1>6, <1>9 DEF Sdk!Note
  <2>2. u \in WindowRecord /\ u.events = e \cup events
    BY <1>6, <2>1 DEF WindowRecord
  <2>3. PriceFits(p, u)'
    BY <1>1, <1>9 DEF CallFits, PriceFits, UnderWay
  <2> QED
    BY <1>8, <1>9, <2>2, <2>3 DEF CallFits
<1>10. CASE UnderWay(p) /\ p.kind = "getPriceWithFallback"
  <2>1. PICK x : x = IF d = 0 THEN low ELSE PoolPriceAt(b, d)
    OBVIOUS
  <2>2. x \in Int
    BY <2>1, Balances
  <2>3. PICK low2 \in Int, high2 \in Int :
          low2 = (IF x < low THEN x ELSE low) /\ high2 = (IF x > high THEN x ELSE high)
    BY <2>2
  <2>4. u = [low |-> low2, high |-> high2, events |-> e \cup events]
    <3>1. v8'[c] = [low |-> IF x < w.low THEN x ELSE w.low,
                    high |-> IF x > w.high THEN x ELSE w.high,
                    events |-> w.events \cup events]
      BY <1>1, <1>4, <1>6, <1>10, <2>1 DEF Sdk!Note, PoolPriceAt
    <3> QED
      BY <1>2, <1>6, <2>3, <3>1
  <2>5. u \in WindowRecord /\ u.low = low2 /\ u.high = high2 /\ u.events = e \cup events
    BY <1>6, <2>4 DEF WindowRecord
  <2>6. low2 <= low /\ high <= high2 /\ low2 <= x /\ x <= high2
    BY <2>2, <2>3
  <2>7. ASSUME NEW y \in Base, NEW z \in Nat, Spans(w, y, z) PROVE Spans(u, y, z)
    <3>1. SUFFICES ASSUME z # 0 PROVE u.low <= PoolPriceAt(y, z) /\ PoolPriceAt(y, z) <= u.high
      BY DEF Spans
    <3>2. PICK i \in Int : i = PoolPriceAt(y, z)
      BY <3>1, Balances
    <3>3. low <= i /\ i <= high
      BY <1>6, <2>7, <3>1, <3>2 DEF Spans
    <3> QED
      BY <2>5, <2>6, <3>2, <3>3
  <2>8. Spans(u, b, d)
    BY <2>1, <2>5, <2>6 DEF Spans
  <2>9. PriceFits(p, u)'
    <3>1. p.source # "pool" /\ p.at # "reading"
      BY <1>1, <1>10 DEF CallFits, PriceFits, UnderWay
    <3>2. p.at = "pool" => p.base = -1 /\ p.quote = -1
      BY <1>1 DEF CallFits, PriceFits
    <3>3. ASSUME "liquidity" \notin u.events, p.at = "vaults"
          PROVE  /\ p.base # -1 => \E y \in Base : p.base = Sdk!BaseIn(y, d) /\ Spans(u, y, d)
                 /\ p.quote # -1 => \E y \in Base : p.quote = Sdk!QuoteIn(y, d) /\ Spans(u, y, d)
      <4>1. "liquidity" \notin w.events /\ d = v5
        BY <1>6, <2>5, <3>3
      <4>2. p.base # -1 => \E y \in Base : p.base = Sdk!BaseIn(y, d) /\ Spans(w, y, d)
        BY <1>1, <3>3, <4>1 DEF CallFits, PriceFits
      <4>3. p.quote # -1 => \E y \in Base : p.quote = Sdk!QuoteIn(y, d) /\ Spans(w, y, d)
        BY <1>1, <3>3, <4>1 DEF CallFits, PriceFits
      <4> QED
        BY <2>7, <4>2, <4>3
    <3> QED
      BY <1>10, <2>8, <3>1, <3>2, <3>3 DEF PriceFits
  <2> QED
    BY <1>8, <1>10, <2>5, <2>9 DEF CallFits
<1> QED
  BY <1>7, <1>9, <1>10

LEMMA NoteKeeps ==
  ASSUME SdkInv, NEW events \in SUBSET {"paused", "ended", "wallet", "liquidity"},
         NEW b \in Base, NEW d \in Nat, v4' = b, v5' = d, Sdk!Note(events, b, d), v6' = v6,
         v2' \in BOOLEAN, v3' \in Wallet, v7' = v7,
         v2' => v2 \/ "paused" \in events,
         v1' # "active" => v1 # "active" \/ "ended" \in events,
         v3' # v3 => "wallet" \in events,
         v5' # v5 => "liquidity" \in events
  PROVE  SdkInv'
<1>1. ASSUME NEW c \in Caller PROVE v8'[c] \in WindowRecord /\ CallFits(v7[c], v8[c])'
  <2>1. PICK p \in CallRecord : p = v7[c] /\ p = v7'[c]
    BY DEF SdkInv, SdkTypes
  <2>2. v8'[c] \in WindowRecord /\ CallFits(p, v8[c])'
    BY <2>1, NotedFits
  <2> QED
    BY <2>1, <2>2 DEF CallFits, PriceFits, RepayFits, AnswerFits
<1>2. v8' \in [Caller -> WindowRecord]
  <2>1. v8' = [c \in Caller |-> v8'[c]]
    BY DEF Sdk!Note
  <2> QED
    BY <1>1, <2>1
<1>3. SdkTypes'
  BY <1>2 DEF SdkInv, SdkTypes
<1> QED
  BY <1>1, <1>3 DEF SdkInv

LEMMA TransactionKeeps ==
  ASSUME SdkInv, NEW c \in Caller, Sdk!Land(c)
  PROVE  SdkInv'
<1> USE DEF Sdk!chain, Sdk!pool
<1>1. SdkTypes
  BY DEF SdkInv
<1>2. PICK events : events = (IF v2' THEN {"paused"} ELSE {}) \cup (IF v1' # "active" THEN {"ended"} ELSE {})
                               \cup (IF v3' # v3 THEN {"wallet"} ELSE {})
  OBVIOUS
<1>3. /\ events \in SUBSET {"paused", "ended", "wallet", "liquidity"}
      /\ v2' => "paused" \in events
      /\ v1' # "active" => "ended" \in events
      /\ v3' # v3 => "wallet" \in events
  BY <1>2
<1>4. v2' \in BOOLEAN /\ v3' \in Wallet
  BY <1>1 DEF SdkTypes, Sdk!Land
<1>5. PICK b \in Base, d \in Nat : b = v4 /\ d = v5
  BY <1>1 DEF SdkTypes
<1>6. v4' = b /\ v5' = d /\ v6' = v6 /\ Sdk!Note(events, b, d)
  BY <1>2, <1>5 DEF Sdk!Land
<1>7. PICK a \in {"done", "throws"} :
        v7' = [v7 EXCEPT ![c] = [Sdk!Idle EXCEPT !.kind = v7[c].kind, !.at = "done", !.answer = a]]
  BY DEF Sdk!Land
<1>8. PICK k \in Sdk!Kind \cup {"none"} : k = v7[c].kind
  BY <1>1 DEF SdkTypes, CallRecord
<1>9. PICK q : q = Over(k, a)
  OBVIOUS
<1>10. v7' = [v7 EXCEPT ![c] = q]
  BY <1>7, <1>8, <1>9 DEF Over
<1>11. ASSUME NEW x \in Caller, NEW p \in CallRecord, p = v7[x]
       PROVE  v8'[x] \in WindowRecord /\ CallFits(p, v8[x])'
  BY <1>3, <1>4, <1>5, <1>6, <1>11, NotedFits
<1>12. v8' \in [Caller -> WindowRecord]
  <2>1. v8' = [x \in Caller |-> v8'[x]]
    BY <1>6 DEF Sdk!Note
  <2>2. \A x \in Caller : v8'[x] \in WindowRecord
    BY <1>1, <1>11 DEF SdkTypes
  <2> QED
    BY <2>1, <2>2
<1>13. q \in CallRecord
  <2>1. PICK w \in WindowRecord : w = v8[c]
    BY <1>1 DEF SdkTypes
  <2> QED
    BY <1>9, OverFits
<1>14. SdkTypes'
  BY <1>1, <1>4, <1>5, <1>6, <1>10, <1>12, <1>13 DEF SdkTypes
<1>15. CallFits(v7[c], v8[c])'
  <2>1. v7'[c] = q
    BY <1>1, <1>10 DEF SdkTypes
  <2>2. q.kind = k /\ q.at = "done" /\ q.answer = a /\ q.source = "none"
    BY <1>9, IdleRecord DEF Over, CallRecord
  <2> QED
    BY <2>1, <2>2 DEF CallFits, PriceFits, RepayFits, AnswerFits, UnderWay
<1>16. ASSUME NEW x \in Caller, x # c PROVE CallFits(v7[x], v8[x])'
  <2>1. PICK p \in CallRecord : p = v7[x] /\ p = v7'[x]
    BY <1>1, <1>10, <1>16 DEF SdkTypes
  <2>2. CallFits(p, v8[x])'
    BY <1>11, <2>1
  <2> QED
    BY <2>1, <2>2 DEF CallFits, PriceFits, RepayFits, AnswerFits
<1> QED
  BY <1>14, <1>15, <1>16 DEF SdkInv

CallerAction(c) ==
  \/ \E k \in Sdk!Kind : Sdk!Begin(c, k)
  \/ Sdk!Read(c) \/ Sdk!ReadFails(c) \/ Sdk!Throw(c)
  \/ Sdk!ReadPool(c) \/ Sdk!ReadBase(c) \/ Sdk!ReadQuote(c) \/ Sdk!PoolFails(c)
  \/ Sdk!PoolPrice(c) \/ Sdk!Jupiter(c)
  \/ Sdk!Land(c) \/ Sdk!Refuse(c) \/ Sdk!Lose(c)

LEMMA SdkStep == SdkInv /\ [Sdk!Next]_sdk => SdkInv'
<1> SUFFICES ASSUME SdkInv, [Sdk!Next]_sdk PROVE SdkInv'
  OBVIOUS
<1> USE DEF Sdk!chain, Sdk!pool
<1>1. SdkTypes
  BY DEF SdkInv
<1>2. CASE UNCHANGED sdk
  BY <1>2 DEF sdk, SdkInv, SdkTypes, CallFits, PriceFits, RepayFits, AnswerFits, Spans
<1>3. ASSUME NEW c \in Caller, CallerAction(c) PROVE SdkInv'
  <2>1. CASE Sdk!Throw(c) \/ Sdk!Lose(c)
    BY <2>1, AnswerKeeps DEF Sdk!Throw, Sdk!Lose
  <2> QED
    BY <1>3, <2>1, BeginKeeps, ReadKeeps, ReadFailsKeeps, ReadPoolKeeps, ReadBaseKeeps,
       ReadQuoteKeeps, PoolFailsKeeps, PoolPriceKeeps, AnotherPriceKeeps, TransactionKeeps, RefuseKeeps
       DEF CallerAction
<1>4. ASSUME NEW b \in Base, Sdk!Trade(b) PROVE SdkInv'
  <2>1. PICK d \in Nat : d = v5
    BY <1>1 DEF SdkTypes
  <2>2. v4' = b /\ v5' = d /\ Sdk!Note({}, b, d) /\ UNCHANGED <<v1, v2, v3, v6, v7>>
    BY <1>4, <2>1 DEF Sdk!Trade
  <2> QED
    BY <1>1, <2>1, <2>2, NoteKeeps DEF SdkTypes
<1>5. ASSUME NEW d \in Depth, Sdk!Liquidity(d) PROVE SdkInv'
  <2>1. PICK b \in Base, e \in Nat : b = v4 /\ e = d
    BY <1>1, SdkAssumption DEF SdkTypes
  <2>2. v4' = b /\ v5' = e /\ Sdk!Note({"liquidity"}, b, e) /\ UNCHANGED <<v1, v2, v3, v6, v7>>
    BY <1>5, <2>1 DEF Sdk!Liquidity
  <2> QED
    BY <1>1, <2>1, <2>2, NoteKeeps DEF SdkTypes
<1>6. CASE Sdk!LoanEnds
  <2>1. PICK b \in Base, d \in Nat : b = v4 /\ d = v5
    BY <1>1 DEF SdkTypes
  <2>2. v4' = b /\ v5' = d /\ Sdk!Note({"ended"}, b, d) /\ UNCHANGED <<v2, v3, v6, v7>>
    BY <1>6, <2>1 DEF Sdk!LoanEnds
  <2> QED
    BY <1>1, <2>1, <2>2, NoteKeeps DEF SdkTypes
<1>7. CASE Sdk!Tick
  <2>1. v6' = v6 + 1 /\ UNCHANGED <<v1, v2, v3, v4, v5, v7, v8>>
    BY <1>7 DEF Sdk!Tick
  <2>2. SdkTypes'
    BY <1>1, <2>1 DEF SdkTypes
  <2>3. v6 > DueAt => v6' > DueAt
    BY <1>1, <2>1, SdkAssumption DEF SdkTypes
  <2> QED
    BY <2>1, <2>2, <2>3 DEF SdkInv, CallFits, PriceFits, RepayFits, AnswerFits, Spans
<1> QED
  BY <1>2, <1>3, <1>4, <1>5, <1>6, <1>7 DEF Sdk!Next, CallerAction

LEMMA SdkGood == SdkInv => Sdk!AnswersFit
BY DEF SdkInv, CallFits, PriceFits, RepayFits, AnswerFits, Sdk!AnswersFit
-----------------------------------------------------------------------------
(* StakingPage: epoch, position, wallet and stats are v1, v3, v4 and v5,      *)
(* asked v6, shown v7, press v8 and fresh v9.                                *)

PositionRecord == [amount : Int, start : Nat, changes : Nat, restarts : Nat]
AnswerRecord == [ok : BOOLEAN, failed : BOOLEAN, amount : Int, start : Nat, changes : Nat, restarts : Nat]
AskRecord == [at : {"none", "sent", "read"}, answer : AnswerRecord]
PressRecord == [at : {"idle", "built", "simulated", "signed", "polling", "done"},
                user : Wallet \cup {Nobody}, amount : Nat,
                tx : {"none", "sent", "landed", "failed", "expired"},
                cause : {"none", "success", "simulation", "network", "rejected", "signature",
                         "preflight", "unanswered", "status", "timeout"},
                changes : Nat]

\* The epoch shown of the pool is not ahead of it.
PoolGood ==
  /\ v1 \in Nat \ {0} /\ v3 \in [Wallet -> PositionRecord]
  /\ v4 \in Wallet \cup {Nobody}
  /\ v5.epoch \in Nat /\ v5.epoch <= v1

\* An answer is of a position that was, before its changes and restarts since.
Seen(a, p) ==
  a.ok => /\ a.changes <= p.changes /\ a.restarts <= p.restarts
          /\ a.restarts = p.restarts => a.start = p.start

\* What was asked for since a change was told of has the change.
Answers(q, a, n) ==
  /\ q.at = "read" /\ q.answer.ok => q.answer.changes >= n
  /\ q.at = "none" /\ a.ok /\ ~a.failed => a.changes >= n

AnswersGood ==
  /\ v6 \in [Wallet -> AskRecord] /\ v7 \in [Wallet -> AnswerRecord] /\ v9 \in [Wallet -> Nat]
  /\ \A w \in Wallet :
       /\ Seen(v6[w].answer, v3[w]) /\ Seen(v7[w], v3[w])
       /\ v9[w] <= v3[w].changes
       /\ Answers(v6[w], v7[w], v9[w])

\* What a button has said of its transaction fits it.
Told(q) ==
  /\ q.at \in {"idle", "built", "simulated", "signed"} => q.tx = "none"
  /\ q.cause # "none" => q.at = "done"
  /\ q.cause = "success" => q.tx = "landed"
  /\ q.at = "done" /\ q.cause \notin {"success", "timeout", "unanswered"} => q.tx \in {"none", "failed"}
  /\ q.at # "idle" => q.user \in Wallet
Presses(q) == Told(q) /\ (q.user \in Wallet => q.changes <= v3[q.user].changes)
PressGood == v8 \in [Stakes!Button -> PressRecord] /\ \A b \in Stakes!Button : Presses(v8[b])

StakesInv == PoolGood /\ AnswersGood /\ PressGood

LEMMA EmptyAnswer == Stakes!Empty \in AnswerRecord /\ ~Stakes!Empty.ok
BY DEF Stakes!Empty, AnswerRecord

LEMMA StakesInit == Stakes!Init => StakesInv
<1> SUFFICES ASSUME Stakes!Init PROVE StakesInv
  OBVIOUS
<1>1. PoolGood
  BY DEF Stakes!Init, PoolGood, PositionRecord
<1>2. AnswersGood
  <2>1. PICK q : q = [at |-> "none", answer |-> Stakes!Empty]
    OBVIOUS
  <2>2. q \in AskRecord /\ q.at = "none" /\ q.answer = Stakes!Empty
    BY <2>1, EmptyAnswer DEF AskRecord
  <2>3. /\ v6 = [w \in Wallet |-> q] /\ v7 = [w \in Wallet |-> Stakes!Empty]
        /\ v9 = [w \in Wallet |-> 0] /\ \A w \in Wallet : v3[w].changes = 0
    BY <2>1 DEF Stakes!Init
  <2> QED
    BY <2>2, <2>3, EmptyAnswer DEF AnswersGood, Seen, Answers
<1>3. PressGood
  <2>1. /\ Stakes!Unpressed \in PressRecord /\ Stakes!Unpressed.at = "idle" /\ Stakes!Unpressed.tx = "none"
        /\ Stakes!Unpressed.cause = "none" /\ Stakes!Unpressed.changes = 0
    BY DEF Stakes!Unpressed, PressRecord
  <2>2. v8 = [b \in Stakes!Button |-> Stakes!Unpressed] /\ \A w \in Wallet : v3[w].changes = 0
    BY DEF Stakes!Init
  <2> QED
    BY <2>1, <2>2 DEF PressGood, Presses, Told
<1> QED
  BY <1>1, <1>2, <1>3 DEF StakesInv

\* Positions change and start again.
Grows(p, q) ==
  /\ p.changes <= q.changes /\ p.restarts <= q.restarts
  /\ p.restarts = q.restarts => p.start = q.start
PositionsGrow == v3' \in [Wallet -> PositionRecord] /\ \A w \in Wallet : Grows(v3[w], v3'[w])

LEMMA AfterGrows ==
  ASSUME NEW p \in PositionRecord, NEW b \in Stakes!Button, NEW n \in Nat, PoolGood
  PROVE  /\ Stakes!After(p, b, n) \in PositionRecord /\ Grows(p, Stakes!After(p, b, n))
         /\ Stakes!After(p, b, n).changes = p.changes + 1
<1>0. v1 \in Nat
  BY DEF PoolGood
<1>1. PICK a \in Int, s \in Nat, c \in Nat, r \in Nat :
        a = p.amount /\ s = p.start /\ c = p.changes /\ r = p.restarts
  BY DEF PositionRecord
<1>5. PICK sum \in Int, left \in Int, c1 \in Nat, r1 \in Nat :
        sum = a + n /\ left = a - n /\ c1 = c + 1 /\ r1 = r + 1
  OBVIOUS
<1>2. PICK q : q = Stakes!After(p, b, n)
  OBVIOUS
<1>3. CASE b = "stake"
  <2>1. q = [p EXCEPT !.amount = a + n, !.start = IF a = 0 THEN v1 ELSE s,
                      !.changes = c + 1, !.restarts = IF a = 0 THEN r + 1 ELSE r]
    BY <1>1, <1>2, <1>3 DEF Stakes!After, PositionRecord
  <2>2. CASE a = 0
    <3>1. q = [p EXCEPT !.amount = sum, !.start = v1, !.changes = c1, !.restarts = r1]
      BY <1>5, <2>1, <2>2
    <3>2. q \in PositionRecord /\ q.changes = c1 /\ q.restarts = r1
      BY <1>0, <3>1 DEF PositionRecord
    <3> QED
      BY <1>1, <1>2, <1>5, <3>2 DEF Grows
  <2>3. CASE a # 0
    <3>1. q = [p EXCEPT !.amount = sum, !.start = s, !.changes = c1, !.restarts = r]
      BY <1>5, <2>1, <2>3
    <3>2. q \in PositionRecord /\ q.changes = c1 /\ q.restarts = r /\ q.start = s
      BY <1>0, <3>1 DEF PositionRecord
    <3> QED
      BY <1>1, <1>2, <1>5, <3>2 DEF Grows
  <2> QED
    BY <2>2, <2>3
<1>4. CASE b # "stake"
  <2>1. q = [p EXCEPT !.amount = a - n, !.start = IF a - n = 0 THEN v1 ELSE s,
                      !.changes = c + 1, !.restarts = IF a - n = 0 THEN r + 1 ELSE r]
    BY <1>1, <1>2, <1>4 DEF Stakes!After, PositionRecord
  <2>2. CASE a - n = 0
    <3>1. q = [p EXCEPT !.amount = left, !.start = v1, !.changes = c1, !.restarts = r1]
      BY <1>5, <2>1, <2>2
    <3>2. q \in PositionRecord /\ q.changes = c1 /\ q.restarts = r1
      BY <1>0, <3>1 DEF PositionRecord
    <3> QED
      BY <1>1, <1>2, <1>5, <3>2 DEF Grows
  <2>3. CASE a - n # 0
    <3>1. q = [p EXCEPT !.amount = left, !.start = s, !.changes = c1, !.restarts = r]
      BY <1>5, <2>1, <2>3
    <3>2. q \in PositionRecord /\ q.changes = c1 /\ q.restarts = r /\ q.start = s
      BY <1>0, <3>1 DEF PositionRecord
    <3> QED
      BY <1>1, <1>2, <1>5, <3>2 DEF Grows
  <2> QED
    BY <2>2, <2>3
<1> QED
  BY <1>3, <1>4

LEMMA OneGrows ==
  ASSUME PoolGood, NEW w \in Wallet, NEW b \in Stakes!Button, NEW n \in Nat,
         v3' = [v3 EXCEPT ![w] = Stakes!After(v3[w], b, n)]
  PROVE  PositionsGrow /\ v3'[w].changes = v3[w].changes + 1
<1>1. PICK p \in PositionRecord, q \in PositionRecord :
        /\ p = v3[w] /\ q = Stakes!After(v3[w], b, n)
        /\ Grows(p, q) /\ q.changes = p.changes + 1
  BY AfterGrows DEF PoolGood
<1>2. v3' = [v3 EXCEPT ![w] = q]
  BY <1>1
<1>3. v3'[w] = q /\ \A x \in Wallet : x # w => v3'[x] = v3[x]
  BY <1>2 DEF PoolGood
<1>4. v3' \in [Wallet -> PositionRecord]
  BY <1>2 DEF PoolGood
<1>5. \A x \in Wallet : Grows(v3[x], v3'[x])
  BY <1>1, <1>3 DEF PoolGood, PositionRecord, Grows
<1> QED
  BY <1>1, <1>3, <1>4, <1>5 DEF PositionsGrow

LEMMA NoneGrow == PoolGood /\ UNCHANGED v3 => PositionsGrow
BY DEF PoolGood, PositionsGrow, PositionRecord, Grows

LEMMA PoolStays ==
  ASSUME PoolGood, PositionsGrow, UNCHANGED <<v1, v5>>, v4' \in Wallet \cup {Nobody}
  PROVE  PoolGood'
BY DEF PoolGood, PositionsGrow

LEMMA AnswersStay ==
  ASSUME PoolGood, AnswersGood, PositionsGrow, UNCHANGED <<v6, v7, v9>>
  PROVE  AnswersGood'
<1>1. ASSUME NEW w \in Wallet, NEW a \in AnswerRecord, Seen(a, v3[w]) PROVE Seen(a, v3'[w])
  <2>1. v3[w] \in PositionRecord /\ v3'[w] \in PositionRecord /\ Grows(v3[w], v3'[w])
    BY DEF PoolGood, PositionsGrow
  <2> QED
    BY <1>1, <2>1 DEF Seen, Grows, AnswerRecord, PositionRecord
<1>2. \A w \in Wallet : v9[w] <= v3'[w].changes
  BY DEF PoolGood, AnswersGood, PositionsGrow, Grows, PositionRecord
<1>3. \A w \in Wallet : Seen(v6[w].answer, v3'[w]) /\ Seen(v7[w], v3'[w])
  BY <1>1 DEF AnswersGood, AskRecord
<1> QED
  BY <1>2, <1>3 DEF AnswersGood, Answers

LEMMA PressStays ==
  ASSUME PoolGood, PressGood, PositionsGrow, UNCHANGED v8
  PROVE  PressGood'
<1>1. ASSUME NEW b \in Stakes!Button PROVE Told(v8[b]) /\ v8[b] \in PressRecord
                                           /\ (v8[b].user \in Wallet => v8[b].changes <= v3[v8[b].user].changes)
  BY DEF PressGood, Presses
<1>2. ASSUME NEW w \in Wallet, NEW n \in Nat, n <= v3[w].changes PROVE n <= v3'[w].changes
  BY <1>2 DEF PoolGood, PositionsGrow, Grows, PositionRecord
<1>3. ASSUME NEW b \in Stakes!Button, v8[b].user \in Wallet PROVE v8[b].changes <= v3'[v8[b].user].changes
  BY <1>1, <1>2, <1>3 DEF PressRecord
<1> QED
  BY <1>1, <1>3 DEF PressGood, Presses, Told

LEMMA OnePress ==
  ASSUME PoolGood, PressGood, NEW b \in Stakes!Button, NEW q \in PressRecord, Told(q),
         v8' = [v8 EXCEPT ![b] = q], PositionsGrow,
         q.user \in Wallet => q.changes <= v3'[q.user].changes
  PROVE  PressGood'
<1>1. v8'[b] = q /\ \A x \in Stakes!Button : x # b => v8'[x] = v8[x]
  BY DEF PressGood
<1>2. v8' \in [Stakes!Button -> PressRecord]
  BY DEF PressGood
<1>3. ASSUME NEW w \in Wallet, NEW n \in Nat, n <= v3[w].changes PROVE n <= v3'[w].changes
  BY <1>3 DEF PoolGood, PositionsGrow, Grows, PositionRecord
<1>4. ASSUME NEW x \in Stakes!Button, x # b
      PROVE  Told(v8'[x]) /\ (v8'[x].user \in Wallet => v8'[x].changes <= v3'[v8'[x].user].changes)
  <2>1. PICK p \in PressRecord : p = v8[x] /\ p = v8'[x]
    BY <1>1, <1>4 DEF PressGood
  <2>2. Told(p) /\ (p.user \in Wallet => p.changes <= v3[p.user].changes)
    BY <2>1 DEF PressGood, Presses
  <2> QED
    BY <1>3, <2>1, <2>2 DEF PressRecord
<1>5. ASSUME NEW x \in Stakes!Button PROVE (Presses(v8[x]))'
  BY <1>1, <1>4 DEF Presses, Told
<1> QED
  BY <1>2, <1>5 DEF PressGood

\* A button's own steps before and after its transaction lands.
LEMMA PressMoves ==
  ASSUME PoolGood, PressGood, NEW b \in Stakes!Button, NEW q \in PressRecord, Told(q),
         v8' = [v8 EXCEPT ![b] = q], UNCHANGED v3, q.user = v8[b].user, q.changes = v8[b].changes
  PROVE  PressGood'
<1>1. PositionsGrow
  BY NoneGrow
<1>2. q.user \in Wallet => q.changes <= v3'[q.user].changes
  BY DEF PressGood, Presses
<1> QED
  BY <1>1, <1>2, OnePress

PressAction(b) ==
  \/ Stakes!Simulate(b) \/ Stakes!CallFails(b) \/ Stakes!Sign(b) \/ Stakes!Send(b)
  \/ Stakes!SendUnanswered(b) \/ Stakes!Expire(b) \/ Stakes!Timeout(b)

LEMMA PressKeeps ==
  ASSUME PoolGood, PressGood, NEW b \in Stakes!Button, PressAction(b)
  PROVE  PressGood' /\ UNCHANGED <<v1, v3, v4, v5, v6, v7, v9>>
<1> USE DEF Stakes!chain, Stakes!shows, Stakes!bounds
<1>1. PICK p \in PressRecord : p = v8[b] /\ Told(p)
  BY DEF PressGood, Presses
<1>2. UNCHANGED <<v1, v3, v4, v5, v6, v7, v9>>
  BY DEF PressAction, Stakes!Simulate, Stakes!CallFails, Stakes!Sign, Stakes!Send,
         Stakes!SendUnanswered, Stakes!Expire, Stakes!Timeout, Stakes!Throw
<1>3. ASSUME NEW q, v8' = [v8 EXCEPT ![b] = q], q \in PressRecord, Told(q),
             q.user = p.user, q.changes = p.changes
      PROVE  PressGood'
  BY <1>1, <1>2, <1>3, PressMoves
<1>4. ASSUME p.at \in {"built", "simulated", "signed"},
             NEW c \in {"simulation", "network", "rejected", "signature", "preflight"},
             Stakes!Throw(b, c)
      PROVE  PressGood'
  <2>1. PICK q : q = [p EXCEPT !.at = "done", !.cause = c]
    OBVIOUS
  <2>2. v8' = [v8 EXCEPT ![b] = q]
    BY <1>1, <1>4, <2>1 DEF Stakes!Throw, PressGood
  <2>3. q \in PressRecord /\ Told(q) /\ q.user = p.user /\ q.changes = p.changes
    BY <1>1, <1>4, <2>1 DEF PressRecord, Told
  <2> QED
    BY <1>3, <2>2, <2>3
<1>5. ASSUME Stakes!Simulate(b) PROVE PressGood'
  <2>1. p.at = "built" /\ (Stakes!Throw(b, "simulation") \/ v8' = [v8 EXCEPT ![b].at = "simulated"])
    BY <1>1, <1>5 DEF Stakes!Simulate
  <2>2. PICK q : q = [p EXCEPT !.at = "simulated"]
    OBVIOUS
  <2>3. q \in PressRecord /\ Told(q) /\ q.user = p.user /\ q.changes = p.changes
    BY <1>1, <2>1, <2>2 DEF PressRecord, Told
  <2>4. CASE v8' = [v8 EXCEPT ![b].at = "simulated"]
    <3>1. v8' = [v8 EXCEPT ![b] = q]
      BY <1>1, <2>2, <2>4 DEF PressGood
    <3> QED
      BY <1>3, <2>3, <3>1
  <2> QED
    BY <1>4, <2>1, <2>4, <1>2
<1>6. ASSUME Stakes!CallFails(b) PROVE PressGood'
  BY <1>1, <1>2, <1>4, <1>6 DEF Stakes!CallFails
<1>7. ASSUME Stakes!Sign(b) PROVE PressGood'
  <2>1. /\ p.at = "simulated"
        /\ \/ Stakes!Throw(b, "rejected") \/ Stakes!Throw(b, "signature")
           \/ v8' = [v8 EXCEPT ![b].at = "signed"]
    BY <1>1, <1>7 DEF Stakes!Sign
  <2>2. PICK q : q = [p EXCEPT !.at = "signed"]
    OBVIOUS
  <2>3. q \in PressRecord /\ Told(q) /\ q.user = p.user /\ q.changes = p.changes
    BY <1>1, <2>1, <2>2 DEF PressRecord, Told
  <2>4. CASE v8' = [v8 EXCEPT ![b].at = "signed"]
    <3>1. v8' = [v8 EXCEPT ![b] = q]
      BY <1>1, <2>2, <2>4 DEF PressGood
    <3> QED
      BY <1>3, <2>3, <3>1
  <2> QED
    BY <1>2, <1>4, <2>1, <2>4
<1>8. ASSUME Stakes!Send(b) PROVE PressGood'
  <2>1. /\ p.at = "signed"
        /\ \/ Stakes!Throw(b, "preflight")
           \/ v8' = [v8 EXCEPT ![b].at = "polling", ![b].tx = "sent"]
    BY <1>1, <1>8 DEF Stakes!Send
  <2>2. PICK q : q = [p EXCEPT !.at = "polling", !.tx = "sent"]
    OBVIOUS
  <2>3. q \in PressRecord /\ Told(q) /\ q.user = p.user /\ q.changes = p.changes
    BY <1>1, <2>1, <2>2 DEF PressRecord, Told
  <2>4. CASE v8' = [v8 EXCEPT ![b].at = "polling", ![b].tx = "sent"]
    <3>1. v8' = [v8 EXCEPT ![b] = q]
      BY <1>1, <2>2, <2>4 DEF PressGood
    <3> QED
      BY <1>3, <2>3, <3>1
  <2> QED
    BY <1>2, <1>4, <2>1, <2>4
<1>9. ASSUME Stakes!SendUnanswered(b) PROVE PressGood'
  <2>1. p.at = "signed" /\ v8' = [v8 EXCEPT ![b].at = "done", ![b].cause = "unanswered", ![b].tx = "sent"]
    BY <1>1, <1>9 DEF Stakes!SendUnanswered
  <2>2. PICK q : q = [p EXCEPT !.at = "done", !.cause = "unanswered", !.tx = "sent"]
    OBVIOUS
  <2>3. q \in PressRecord /\ Told(q) /\ q.user = p.user /\ q.changes = p.changes
    BY <1>1, <2>1, <2>2 DEF PressRecord, Told
  <2>4. v8' = [v8 EXCEPT ![b] = q]
    BY <1>1, <2>1, <2>2 DEF PressGood
  <2> QED
    BY <1>2, <1>3, <2>3, <2>4
<1>10. ASSUME Stakes!Expire(b) PROVE PressGood'
  <2>1. p.tx = "sent" /\ v8' = [v8 EXCEPT ![b].tx = "expired"]
    BY <1>1, <1>10 DEF Stakes!Expire
  <2>2. PICK q : q = [p EXCEPT !.tx = "expired"]
    OBVIOUS
  <2>3. q \in PressRecord /\ Told(q) /\ q.user = p.user /\ q.changes = p.changes
    BY <1>1, <2>1, <2>2 DEF PressRecord, Told
  <2>4. v8' = [v8 EXCEPT ![b] = q]
    BY <1>1, <2>1, <2>2 DEF PressGood
  <2> QED
    BY <1>2, <1>3, <2>3, <2>4
<1>11. ASSUME Stakes!Timeout(b) PROVE PressGood'
  <2>1. p.at = "polling" /\ v8' = [v8 EXCEPT ![b].at = "done", ![b].cause = "timeout"]
    BY <1>1, <1>11 DEF Stakes!Timeout, Stakes!Throw
  <2>2. PICK q : q = [p EXCEPT !.at = "done", !.cause = "timeout"]
    OBVIOUS
  <2>3. q \in PressRecord /\ Told(q) /\ q.user = p.user /\ q.changes = p.changes
    BY <1>1, <2>1, <2>2 DEF PressRecord, Told
  <2>4. v8' = [v8 EXCEPT ![b] = q]
    BY <1>1, <2>1, <2>2 DEF PressGood
  <2> QED
    BY <1>2, <1>3, <2>3, <2>4
<1> QED
  BY <1>2, <1>5, <1>6, <1>7, <1>8, <1>9, <1>10, <1>11 DEF PressAction

LEMMA PressIs ==
  ASSUME PoolGood, PressGood, NEW b \in Stakes!Button, NEW n \in Amount, Stakes!Press(b, n)
  PROVE  PressGood' /\ UNCHANGED <<v1, v3, v4, v5, v6, v7, v9>>
<1> USE DEF Stakes!chain, Stakes!shows, Stakes!bounds
<1>1. UNCHANGED <<v1, v3, v4, v5, v6, v7, v9>> /\ v4 # Nobody
  BY DEF Stakes!Press
<1>2. PICK w \in Wallet, m \in Nat : w = v4 /\ m = n
  BY <1>1, StakeAssumption DEF PoolGood
<1>3. PICK q : q = [Stakes!Unpressed EXCEPT !.at = "built", !.user = w, !.amount = m]
  OBVIOUS
<1>4. v8' = [v8 EXCEPT ![b] = q]
  BY <1>2, <1>3 DEF Stakes!Press
<1>5. /\ q \in PressRecord /\ q.at = "built" /\ q.tx = "none" /\ q.cause = "none"
      /\ q.user = w /\ q.changes = 0
  BY <1>3 DEF PressRecord, Stakes!Unpressed
<1>6. Told(q)
  BY <1>5 DEF Told
<1>7. q.user \in Wallet => q.changes <= v3'[q.user].changes
  BY <1>1, <1>5 DEF PoolGood, PositionRecord
<1>8. PressGood'
  BY <1>1, <1>4, <1>5, <1>6, <1>7, NoneGrow, OnePress
<1> QED
  BY <1>1, <1>8

LEMMA LandKeeps ==
  ASSUME StakesInv, NEW b \in Stakes!Button, Stakes!Land(b)
  PROVE  StakesInv'
<1> USE DEF Stakes!chain, Stakes!shows, Stakes!bounds
<1>1. PoolGood /\ AnswersGood /\ PressGood
  BY DEF StakesInv
<1>2. PICK p \in PressRecord : p = v8[b] /\ Told(p) /\ p.tx = "sent"
                               /\ (p.user \in Wallet => p.changes <= v3[p.user].changes)
  BY <1>1 DEF PressGood, Presses, Stakes!Land
<1>3. PICK w \in Wallet : w = p.user
  BY <1>2 DEF Told, PressRecord
<1>4. UNCHANGED <<v1, v4, v5, v6, v7, v9>>
  BY DEF Stakes!Land
<1>5. CASE Stakes!May(p.user, b, p.amount)
  <2>1. /\ v3' = [v3 EXCEPT ![w] = Stakes!After(v3[w], b, p.amount)]
        /\ v8' = [v8 EXCEPT ![b].tx = "landed", ![b].changes = v3[w].changes + 1]
    BY <1>2, <1>3, <1>5 DEF Stakes!Land
  <2>2. PICK n \in Nat : n = p.amount
    BY DEF PressRecord
  <2>3. PositionsGrow /\ v3'[w].changes = v3[w].changes + 1
    BY <1>1, <2>1, <2>2, OneGrows
  <2>4. PICK c \in Nat : c = v3'[w].changes /\ c = v3[w].changes + 1
    BY <2>3 DEF PositionsGrow, PositionRecord
  <2>5. PICK q : q = [p EXCEPT !.tx = "landed", !.changes = c]
    OBVIOUS
  <2>6. q \in PressRecord /\ Told(q) /\ q.user = w /\ q.changes = c
    BY <1>2, <1>3, <2>5 DEF PressRecord, Told
  <2>7. v8' = [v8 EXCEPT ![b] = q]
    BY <1>1, <1>2, <2>1, <2>4, <2>5 DEF PressGood, PressRecord
  <2>8. PressGood'
    <3>1. q.user \in Wallet => q.changes <= v3'[q.user].changes
      <4>1. v3'[q.user].changes = c /\ q.changes = c
        BY <2>4, <2>6
      <4>2. c <= c
        OBVIOUS
      <4> QED
        BY <4>1, <4>2
    <3> QED
      BY <1>1, <2>3, <2>6, <2>7, <3>1, OnePress
  <2> QED
    BY <1>1, <1>4, <2>3, <2>8, PoolStays, AnswersStay DEF StakesInv, PoolGood
<1>6. CASE ~Stakes!May(p.user, b, p.amount)
  <2>1. v3' = v3 /\ v8' = [v8 EXCEPT ![b].tx = "failed"]
    BY <1>2, <1>6 DEF Stakes!Land
  <2>2. PICK q : q = [p EXCEPT !.tx = "failed"]
    OBVIOUS
  <2>3. q \in PressRecord /\ Told(q) /\ q.user = p.user /\ q.changes = p.changes
    BY <1>2, <2>2 DEF PressRecord, Told
  <2>4. v8' = [v8 EXCEPT ![b] = q]
    BY <1>1, <1>2, <2>1, <2>2 DEF PressGood
  <2>5. PressGood'
    BY <1>1, <1>2, <2>1, <2>3, <2>4, PressMoves
  <2> QED
    BY <1>1, <1>4, <2>1, <2>5, NoneGrow, PoolStays, AnswersStay DEF StakesInv, PoolGood
<1> QED
  BY <1>5, <1>6

\* The request and the answer of one wallet.
LEMMA OneAnswer ==
  ASSUME AnswersGood, PoolGood, NEW w \in Wallet, NEW q \in AskRecord, NEW a \in AnswerRecord, NEW n \in Nat,
         v6' = [v6 EXCEPT ![w] = q], v7' = [v7 EXCEPT ![w] = a], v9' = [v9 EXCEPT ![w] = n],
         UNCHANGED v3, Seen(q.answer, v3[w]), Seen(a, v3[w]), n <= v3[w].changes, Answers(q, a, n)
  PROVE  AnswersGood'
<1>1. v6' \in [Wallet -> AskRecord] /\ v7' \in [Wallet -> AnswerRecord] /\ v9' \in [Wallet -> Nat]
  BY DEF AnswersGood
<1>2. v6'[w] = q /\ v7'[w] = a /\ v9'[w] = n
  BY DEF AnswersGood
<1>3. \A x \in Wallet : x # w => v6'[x] = v6[x] /\ v7'[x] = v7[x] /\ v9'[x] = v9[x]
  BY DEF AnswersGood
<1>4. \A x \in Wallet :
        /\ Seen(v6'[x].answer, v3'[x]) /\ Seen(v7'[x], v3'[x])
        /\ v9'[x] <= v3'[x].changes
        /\ Answers(v6'[x], v7'[x], v9'[x])
  BY <1>2, <1>3 DEF AnswersGood
<1> QED
  BY <1>1, <1>4 DEF AnswersGood, Seen, Answers

LEMMA SameAnswers ==
  AnswersGood => \A w \in Wallet : /\ v6 = [v6 EXCEPT ![w] = v6[w]]
                                   /\ v7 = [v7 EXCEPT ![w] = v7[w]]
                                   /\ v9 = [v9 EXCEPT ![w] = v9[w]]
BY DEF AnswersGood

AnswerAction(w) ==
  \/ Stakes!ServerReads(w) \/ Stakes!ServerFails(w) \/ Stakes!Arrive(w) \/ Stakes!AnswerLost(w)
  \/ w = v4 /\ Stakes!Interval

LEMMA AnswersKeep ==
  ASSUME AnswersGood, PoolGood, NEW w \in Wallet, AnswerAction(w)
  PROVE  AnswersGood' /\ UNCHANGED <<v1, v3, v4, v5, v8>>
<1> USE DEF Stakes!chain, Stakes!shows, Stakes!bounds
<1>1. UNCHANGED <<v1, v3, v4, v5, v8, v9>>
  BY DEF AnswerAction, Stakes!ServerReads, Stakes!ServerFails, Stakes!Arrive, Stakes!AnswerLost, Stakes!Interval
<1>2. PICK o \in AskRecord, a \in AnswerRecord, n \in Nat, p \in PositionRecord :
        /\ o = v6[w] /\ a = v7[w] /\ n = v9[w] /\ p = v3[w]
        /\ Seen(o.answer, p) /\ Seen(a, p) /\ n <= p.changes /\ Answers(o, a, n)
  BY DEF AnswersGood, PoolGood
<1>3. v9' = [v9 EXCEPT ![w] = n]
  BY <1>1, <1>2, SameAnswers
<1>4. ASSUME Stakes!ServerReads(w) PROVE AnswersGood'
  <2>1. PICK e : e = [ok |-> TRUE, failed |-> FALSE, amount |-> p.amount, start |-> p.start,
                      changes |-> p.changes, restarts |-> p.restarts]
    OBVIOUS
  <2>2. e \in AnswerRecord /\ e.changes = p.changes /\ e.restarts = p.restarts /\ e.start = p.start
    BY <2>1 DEF AnswerRecord, PositionRecord
  <2>3. PICK q : q = [at |-> "read", answer |-> e]
    OBVIOUS
  <2>4. q \in AskRecord /\ q.at = "read" /\ q.answer = e
    BY <2>2, <2>3 DEF AskRecord
  <2>5. v6' = [v6 EXCEPT ![w] = q] /\ v7' = [v7 EXCEPT ![w] = a]
    BY <1>2, <1>4, <2>1, <2>3, SameAnswers DEF Stakes!ServerReads
  <2>6. Seen(e, p) /\ Answers(q, a, n)
    BY <1>2, <2>2, <2>4 DEF Seen, Answers, PositionRecord
  <2> QED
    BY <1>1, <1>2, <1>3, <2>4, <2>5, <2>6, OneAnswer
<1>5. ASSUME Stakes!ServerFails(w) PROVE AnswersGood'
  <2>1. PICK q : q = [at |-> "read", answer |-> Stakes!Empty]
    OBVIOUS
  <2>2. q \in AskRecord /\ q.at = "read" /\ q.answer = Stakes!Empty
    BY <2>1, EmptyAnswer DEF AskRecord
  <2>3. v6' = [v6 EXCEPT ![w] = q] /\ v7' = [v7 EXCEPT ![w] = a]
    BY <1>2, <1>5, <2>1, SameAnswers DEF Stakes!ServerFails
  <2>4. Seen(q.answer, p) /\ Answers(q, a, n)
    BY <2>2, EmptyAnswer DEF Seen, Answers
  <2> QED
    BY <1>1, <1>2, <1>3, <2>2, <2>3, <2>4, OneAnswer
<1>6. PICK none : none = [at |-> "none", answer |-> Stakes!Empty]
  OBVIOUS
<1>7. none \in AskRecord /\ none.at = "none" /\ none.answer = Stakes!Empty /\ Seen(none.answer, p)
  BY <1>6, EmptyAnswer DEF AskRecord, Seen
<1>8. ASSUME Stakes!Arrive(w) PROVE AnswersGood'
  <2>1. PICK e \in AnswerRecord : e = o.answer
    BY DEF AskRecord
  <2>2. o.at = "read" /\ v6' = [v6 EXCEPT ![w] = none] /\ v7' = [v7 EXCEPT ![w] = e]
    BY <1>2, <1>6, <1>8, <2>1 DEF Stakes!Arrive
  <2>3. Answers(none, e, n) /\ Seen(e, p)
    BY <1>2, <1>7, <2>1, <2>2 DEF Answers
  <2> QED
    BY <1>1, <1>2, <1>3, <1>7, <2>2, <2>3, OneAnswer
<1>9. ASSUME Stakes!AnswerLost(w) PROVE AnswersGood'
  <2>1. PICK e : e = [a EXCEPT !.failed = TRUE]
    OBVIOUS
  <2>2. /\ e \in AnswerRecord /\ e.failed = TRUE /\ e.ok = a.ok /\ e.changes = a.changes
        /\ e.restarts = a.restarts /\ e.start = a.start
    BY <2>1 DEF AnswerRecord
  <2>3. v6' = [v6 EXCEPT ![w] = none] /\ v7' = [v7 EXCEPT ![w] = e]
    BY <1>2, <1>6, <1>9, <2>1 DEF Stakes!AnswerLost, AnswersGood
  <2>4. Answers(none, e, n) /\ Seen(e, p)
    BY <1>2, <1>7, <2>2 DEF Answers, Seen
  <2> QED
    BY <1>1, <1>2, <1>3, <1>7, <2>2, <2>3, <2>4, OneAnswer
<1>10. ASSUME w = v4, Stakes!Interval PROVE AnswersGood'
  <2>1. PICK q : q = [o EXCEPT !.at = "sent"]
    OBVIOUS
  <2>2. q \in AskRecord /\ q.at = "sent" /\ q.answer = o.answer
    BY <2>1 DEF AskRecord
  <2>3. v6' = [v6 EXCEPT ![w] = q] /\ v7' = [v7 EXCEPT ![w] = a]
    BY <1>2, <1>10, <2>1, SameAnswers DEF Stakes!Interval, AnswersGood
  <2>4. Answers(q, a, n)
    BY <2>2 DEF Answers
  <2> QED
    BY <1>1, <1>2, <1>3, <2>2, <2>3, <2>4, OneAnswer
<1> QED
  BY <1>1, <1>4, <1>5, <1>8, <1>9, <1>10 DEF AnswerAction

LEMMA PollKeeps ==
  ASSUME StakesInv, NEW b \in Stakes!Button, Stakes!Poll(b)
  PROVE  StakesInv'
<1> USE DEF Stakes!chain, Stakes!shows, Stakes!bounds
<1>1. PoolGood /\ AnswersGood /\ PressGood
  BY DEF StakesInv
<1>2. PICK p \in PressRecord : /\ p = v8[b] /\ Told(p) /\ p.at = "polling" /\ p.tx \in {"landed", "failed"}
                               /\ (p.user \in Wallet => p.changes <= v3[p.user].changes)
  BY <1>1 DEF PressGood, Presses, Stakes!Poll
<1>3. UNCHANGED <<v1, v3, v4>> /\ PositionsGrow
  BY <1>1, NoneGrow DEF Stakes!Poll
<1>4. CASE p.tx = "failed"
  <2>1. UNCHANGED <<v5, v6, v7, v9>> /\ v8' = [v8 EXCEPT ![b].at = "done", ![b].cause = "status"]
    BY <1>2, <1>4 DEF Stakes!Poll, Stakes!Throw
  <2>2. PICK q : q = [p EXCEPT !.at = "done", !.cause = "status"]
    OBVIOUS
  <2>3. q \in PressRecord /\ Told(q) /\ q.user = p.user /\ q.changes = p.changes
    BY <1>2, <1>4, <2>2 DEF PressRecord, Told
  <2>4. v8' = [v8 EXCEPT ![b] = q]
    BY <1>1, <1>2, <2>1, <2>2 DEF PressGood
  <2>5. PressGood'
    BY <1>1, <1>2, <1>3, <2>3, <2>4, PressMoves
  <2> QED
    BY <1>1, <1>3, <2>1, <2>5, PoolStays, AnswersStay DEF StakesInv, PoolGood
<1>5. CASE p.tx = "landed"
  <2>1. v8' = [v8 EXCEPT ![b].at = "done", ![b].cause = "success"]
    BY <1>2, <1>5 DEF Stakes!Poll
  <2>2. PICK q : q = [p EXCEPT !.at = "done", !.cause = "success"]
    OBVIOUS
  <2>3. q \in PressRecord /\ Told(q) /\ q.user = p.user /\ q.changes = p.changes
    BY <1>2, <1>5, <2>2 DEF PressRecord, Told
  <2>4. v8' = [v8 EXCEPT ![b] = q]
    BY <1>1, <1>2, <2>1, <2>2 DEF PressGood
  <2>5. PressGood'
    BY <1>1, <1>2, <1>3, <2>3, <2>4, PressMoves
  <2>6. CASE v4 = Nobody
    <3>1. UNCHANGED <<v5, v6, v7, v9>>
      BY <1>2, <1>5, <2>6 DEF Stakes!Poll
    <3> QED
      BY <1>1, <1>3, <2>5, <3>1, PoolStays, AnswersStay DEF StakesInv, PoolGood
  <2>7. CASE v4 # Nobody
    <3>1. PICK w \in Wallet : w = v4
      BY <1>1, <2>7 DEF PoolGood
    <3>2. /\ v6' = [v6 EXCEPT ![w].at = "sent"] /\ v7' = [v7 EXCEPT ![w].failed = FALSE]
          /\ v5' \in {v5, [epoch |-> v1, paused |-> v2]}
          /\ v9' = IF w # p.user THEN v9 ELSE [v9 EXCEPT ![w] = p.changes]
      BY <1>2, <1>5, <2>7, <3>1 DEF Stakes!Poll, Stakes!Refetch
    <3>3. PoolGood'
      BY <1>1, <1>3, <3>2 DEF PoolGood
    <3>4. PICK o \in AskRecord, a \in AnswerRecord, n \in Nat, r \in PositionRecord :
            /\ o = v6[w] /\ a = v7[w] /\ n = v9[w] /\ r = v3[w]
            /\ Seen(o.answer, r) /\ Seen(a, r) /\ n <= r.changes
      BY <1>1 DEF AnswersGood, PoolGood
    <3>5. PICK m \in Nat : m = (IF w # p.user THEN n ELSE p.changes) /\ m <= r.changes
      BY <1>2, <3>4 DEF PressRecord
    <3>6. v9' = [v9 EXCEPT ![w] = m]
      BY <1>1, <3>2, <3>4, <3>5, SameAnswers
    <3>7. PICK d : d = [o EXCEPT !.at = "sent"]
      OBVIOUS
    <3>8. d \in AskRecord /\ d.at = "sent" /\ d.answer = o.answer
      BY <3>7 DEF AskRecord
    <3>9. PICK e : e = [a EXCEPT !.failed = FALSE]
      OBVIOUS
    <3>10. /\ e \in AnswerRecord /\ e.ok = a.ok /\ e.changes = a.changes
           /\ e.restarts = a.restarts /\ e.start = a.start
      BY <3>9 DEF AnswerRecord
    <3>11. v6' = [v6 EXCEPT ![w] = d] /\ v7' = [v7 EXCEPT ![w] = e]
      BY <1>1, <3>2, <3>4, <3>7, <3>9 DEF AnswersGood
    <3>12. Seen(d.answer, r) /\ Seen(e, r) /\ Answers(d, e, m)
      BY <3>4, <3>8, <3>10 DEF Seen, Answers
    <3>13. AnswersGood'
      BY <1>1, <1>3, <3>4, <3>5, <3>6, <3>8, <3>10, <3>11, <3>12, OneAnswer
    <3> QED
      BY <2>5, <3>3, <3>13 DEF StakesInv
  <2> QED
    BY <2>6, <2>7
<1> QED
  BY <1>2, <1>4, <1>5

LEMMA StakesStep == StakesInv /\ [Stakes!Next]_stakes => StakesInv'
<1> SUFFICES ASSUME StakesInv, [Stakes!Next]_stakes PROVE StakesInv'
  OBVIOUS
<1> USE DEF Stakes!chain, Stakes!shows, Stakes!bounds
<1>1. PoolGood /\ AnswersGood /\ PressGood
  BY DEF StakesInv
<1>2. ASSUME UNCHANGED <<v3, v6, v7, v8, v9>>, PoolGood' PROVE StakesInv'
  BY <1>1, <1>2, NoneGrow, AnswersStay, PressStays DEF StakesInv
<1>3. CASE UNCHANGED stakes
  BY <1>1, <1>2, <1>3 DEF stakes, PoolGood
<1>4. CASE Stakes!AdvanceEpoch
  BY <1>1, <1>2, <1>4 DEF Stakes!AdvanceEpoch, PoolGood
<1>5. CASE Stakes!SetPaused
  BY <1>1, <1>2, <1>5 DEF Stakes!SetPaused, PoolGood
<1>6. ASSUME NEW w \in Wallet, NEW b \in Stakes!Button, NEW amount \in Amount, Stakes!Elsewhere(w, b, amount)
      PROVE  StakesInv'
  <2>1. PICK n \in Nat : n = amount
    BY StakeAssumption
  <2>2. v3' = [v3 EXCEPT ![w] = Stakes!After(v3[w], b, n)] /\ UNCHANGED <<v1, v4, v5, v6, v7, v8, v9>>
    BY <1>6, <2>1 DEF Stakes!Elsewhere
  <2>3. PositionsGrow
    BY <1>1, <2>2, OneGrows
  <2> QED
    BY <1>1, <2>2, <2>3, PoolStays, AnswersStay, PressStays DEF StakesInv, PoolGood
<1>7. CASE Stakes!ShowStats
  BY <1>1, <1>2, <1>7 DEF Stakes!ShowStats, PoolGood
<1>8. CASE Stakes!StatsFail
  BY <1>1, <1>2, <1>8 DEF Stakes!StatsFail, PoolGood
<1>9. ASSUME NEW w \in Wallet, AnswerAction(w) PROVE StakesInv'
  BY <1>1, <1>9, AnswersKeep, NoneGrow, PoolStays, PressStays DEF StakesInv, PoolGood
<1>10. CASE Stakes!Interval
  <2>1. v4 \in Wallet
    BY <1>1, <1>10 DEF Stakes!Interval, PoolGood
  <2> QED
    BY <1>9, <1>10, <2>1 DEF AnswerAction
<1>11. ASSUME NEW w \in Wallet \cup {Nobody}, Stakes!SwitchWallet(w) PROVE StakesInv'
  BY <1>1, <1>2, <1>11 DEF Stakes!SwitchWallet, PoolGood
<1>12. ASSUME NEW b \in Stakes!Button, NEW amount \in Amount, Stakes!Press(b, amount) PROVE StakesInv'
  BY <1>1, <1>12, PressIs, NoneGrow, PoolStays, AnswersStay DEF StakesInv, PoolGood
<1>13. ASSUME NEW b \in Stakes!Button, PressAction(b) PROVE StakesInv'
  BY <1>1, <1>13, PressKeeps, NoneGrow, PoolStays, AnswersStay DEF StakesInv, PoolGood
<1> QED
  BY <1>3, <1>4, <1>5, <1>6, <1>7, <1>8, <1>9, <1>10, <1>11, <1>12, <1>13, LandKeeps, PollKeeps
     DEF Stakes!Next, PressAction, AnswerAction

LEMMA StakesGood == StakesInv => Stakes!PositionIsTold
<1> SUFFICES ASSUME StakesInv PROVE Stakes!PositionIsTold
  OBVIOUS
<1>1. PoolGood /\ AnswersGood /\ PressGood
  BY DEF StakesInv
<1>2. Stakes!OutcomeIsTold
  BY <1>1 DEF PressGood, Presses, Told, Stakes!OutcomeIsTold
<1>3. Stakes!DoneIsShown
  BY <1>1 DEF AnswersGood, Answers, Stakes!DoneIsShown
<1>4. ASSUME NEW w \in Wallet, v7[w].ok, v5.epoch # 0, ~Stakes!Warned(w)
      PROVE  v3[w].start < v1 \/ v3[w].restarts > v7[w].restarts
  <2>1. PICK a \in AnswerRecord, p \in PositionRecord : a = v7[w] /\ p = v3[w] /\ Seen(a, p)
    BY <1>1 DEF AnswersGood, PoolGood
  <2>2. PICK e \in Nat : e = v5.epoch /\ e <= v1 /\ e # 0
    BY <1>1, <1>4 DEF PoolGood
  <2>3. a.start = 0 \/ a.start < e
    BY <1>4, <2>1, <2>2 DEF Stakes!Warned, AnswerRecord
  <2>4. v1 \in Nat \ {0}
    BY <1>1 DEF PoolGood
  <2> QED
    BY <1>4, <2>1, <2>2, <2>3, <2>4 DEF Seen, AnswerRecord, PositionRecord
<1> QED
  BY <1>2, <1>3, <1>4 DEF Stakes!PositionIsTold, Stakes!UnwarnedIsEligible
-----------------------------------------------------------------------------
(* LoanPages: chain, db, borrower and wallet are v1 to v4, cache v6, hook v7,  *)
(* borrow v9, repay v10, excused v11.                                        *)

LoanStatus == {"none", "active", "repaid", "liquidated"}
FetchRecord == [at : {"none", "chain", "tracking"}, user : Wallet \cup {Nobody}, sync : BOOLEAN,
                known : SUBSET Loan, todo : SUBSET Loan]
ListRecord == [known : BOOLEAN, at : {"none", "asked"}, rows : SUBSET Loan, answer : SUBSET Loan]
BorrowRecord == [at : {"idle", "sent", "confirmed", "tracked", "done", "failed"},
                 loan : Loan \cup {Nobody}, user : Wallet \cup {Nobody}, missed : BOOLEAN]
RepayRecord == [at : {"idle", "built", "polling", "confirming", "closed", "done"},
                loan : Loan \cup {Nobody}, user : Wallet \cup {Nobody},
                tx : {"none", "sent", "landed", "failed"},
                told : {"none", "failed", "repaid", "already"}]

RowTypes ==
  /\ v1 \in [Loan -> LoanStatus] /\ v2 \in [Loan -> LoanStatus]
  /\ v3 \in [Loan -> Wallet \cup {Nobody}] /\ v11 \in SUBSET Loan
HookTypes ==
  /\ v4 \in Wallet \cup {Nobody} /\ v5 \in [Wallet -> ListRecord]
  /\ v6 \in [Wallet -> [age : {"none", "fresh", "old"}, loans : SUBSET Loan]]
  /\ v7 \in [fetch : FetchRecord, last : Wallet \cup {Nobody}, timer : BOOLEAN]

\* A row is that of a loan on chain, and names its borrower.
RowsGood == RowTypes /\ Loans!RowsNameTheBorrower /\ \A l \in Loan : v2[l] # "none" => v1[l] # "none"

\* What a wallet's loans are taken for are its own.
OwnedBy(w) == {l \in Loan : Owner[l] = w}
FetchFits(f) ==
  /\ f.at # "none" => f.user \in Wallet
  /\ f.at = "tracking" => f.todo \subseteq OwnedBy(f.user)
HookGood ==
  /\ HookTypes
  /\ \A w \in Wallet : v6[w].loans \subseteq OwnedBy(w)
  /\ FetchFits(v7.fetch)

\* Who borrows is the owner; a tracking that was not lost has made the row.
Borrows(b) ==
  /\ b.at # "idle" => b.loan \in Loan /\ b.user = Owner[b.loan]
  /\ b.at \in {"confirmed", "tracked"} => v1[b.loan] # "none"
  /\ b.at = "tracked" /\ ~b.missed => v2[b.loan] # "none"
BorrowGood == v9 \in BorrowRecord /\ Borrows(v9)

\* What a repayment has seen of the chain is so.
Repays(r) ==
  /\ r.at = "idle" => r.tx = "none" /\ r.told = "none"
  /\ r.told # "none" => r.at = "done"
  /\ r.at # "idle" => r.loan \in Loan /\ v2[r.loan] # "none"
  /\ r.at = "confirming" \/ r.tx = "landed" => v1[r.loan] = "repaid"
  /\ r.at = "closed" \/ r.tx = "failed" => v1[r.loan] \in Loans!Closed
  /\ r.told = "repaid" => v1[r.loan] = "repaid" /\ v2[r.loan] = "repaid"
  /\ r.told = "already" => v1[r.loan] \in Loans!Closed /\ v2[r.loan] \in Loans!Closed
RepayGood == v10 \in RepayRecord /\ Repays(v10)

PagesInv == RowsGood /\ HookGood /\ BorrowGood /\ RepayGood

LEMMA PagesInit == Loans!Init => PagesInv
<1> SUFFICES ASSUME Loans!Init PROVE PagesInv
  OBVIOUS
<1>1. RowsGood
  BY DEF Loans!Init, RowsGood, RowTypes, LoanStatus, Loans!RowsNameTheBorrower
<1>2. HookGood
  <2>1. v7 = [fetch |-> Loans!NoFetch, last |-> Nobody, timer |-> FALSE]
    BY DEF Loans!Init
  <2>2. Loans!NoFetch \in FetchRecord /\ Loans!NoFetch.at = "none"
    BY DEF Loans!NoFetch, FetchRecord
  <2>3. Loans!Unknown \in ListRecord
    BY DEF Loans!Unknown, ListRecord
  <2>4. /\ Loans!Uncached \in [age : {"none", "fresh", "old"}, loans : SUBSET Loan]
        /\ Loans!Uncached.loans = {}
    BY DEF Loans!Uncached
  <2>5. v7 \in [fetch : FetchRecord, last : Wallet \cup {Nobody}, timer : BOOLEAN]
        /\ v7.fetch.at = "none"
    BY <2>1, <2>2
  <2> QED
    BY <2>3, <2>4, <2>5 DEF Loans!Init, HookGood, HookTypes, FetchFits
<1>3. BorrowGood
  BY DEF Loans!Init, Loans!NoBorrow, BorrowGood, BorrowRecord, Borrows
<1>4. RepayGood
  BY DEF Loans!Init, Loans!NoRepay, RepayGood, RepayRecord, Repays
<1> QED
  BY <1>1, <1>2, <1>3, <1>4 DEF PagesInv

\* What is closed stays closed, and what is recorded stays so.
Kept(before, after) ==
  \A l \in Loan :
    /\ before[l] # "none" => after[l] # "none"
    /\ before[l] = "repaid" => after[l] = "repaid"
    /\ before[l] \in Loans!Closed => after[l] \in Loans!Closed
RowsKept == Kept(v1, v1') /\ Kept(v2, v2')

LEMMA BorrowKept == BorrowGood /\ RowsKept /\ UNCHANGED v9 => BorrowGood'
BY DEF BorrowGood, Borrows, RowsKept, Kept

LEMMA RepayKept == RepayGood /\ RowsKept /\ UNCHANGED v10 => RepayGood'
BY DEF RepayGood, Repays, RowsKept, Kept, Loans!Closed

LEMMA HookKept == HookGood /\ UNCHANGED <<v4, v5, v6, v7>> => HookGood'
BY DEF HookGood, HookTypes, OwnedBy, FetchFits

LEMMA RowsStay == RowsGood /\ UNCHANGED <<v1, v2, v3, v11>> => RowsGood' /\ RowsKept
BY DEF RowsGood, RowTypes, RowsKept, Kept, Loans!RowsNameTheBorrower

\* trackCreatedLoan: for the owner, or a row that is excused.
LEMMA TrackKeeps ==
  ASSUME RowsGood, NEW l \in Loan, NEW w \in Wallet \cup {Nobody}, Loans!Track(l, w),
         v1' = v1, v11' \in SUBSET Loan, v11 \subseteq v11',
         v2[l] # "none" \/ w = Owner[l] \/ l \in v11'
  PROVE  RowsGood' /\ RowsKept /\ (v1[l] # "none" => v2'[l] # "none")
<1>1. CASE UNCHANGED <<v2, v3>>
  <2>1. v2[l] # "none" \/ v1[l] = "none"
    <3>1. CASE v2[l] # "none" \/ v1[l] = "none"
      BY <3>1
    <3>2. CASE ~(v2[l] # "none" \/ v1[l] = "none")
      <4>1. v2' = [v2 EXCEPT ![l] = "active"]
        BY <3>2 DEF Loans!Track
      <4> QED
        BY <1>1, <3>2, <4>1 DEF RowsGood, RowTypes
    <3> QED
      BY <3>1, <3>2
  <2> QED
    BY <1>1, <2>1 DEF RowsGood, RowTypes, RowsKept, Kept, Loans!RowsNameTheBorrower
<1>2. CASE /\ v2[l] = "none" /\ v1[l] # "none"
           /\ v2' = [v2 EXCEPT ![l] = "active"] /\ v3' = [v3 EXCEPT ![l] = w]
  <2>1. RowTypes /\ Loans!RowsNameTheBorrower /\ \A x \in Loan : v2[x] # "none" => v1[x] # "none"
    BY DEF RowsGood
  <2>2. v2'[l] = "active" /\ v3'[l] = w
    BY <1>2, <2>1 DEF RowTypes
  <2>3. ASSUME NEW x \in Loan, x # l PROVE v2'[x] = v2[x] /\ v3'[x] = v3[x]
    BY <1>2, <2>1, <2>3 DEF RowTypes
  <2>4. RowTypes'
    BY <1>2, <2>1 DEF RowTypes, LoanStatus
  <2>5. Loans!RowsNameTheBorrower'
    BY <1>2, <2>1, <2>2, <2>3 DEF Loans!RowsNameTheBorrower
  <2>6. \A x \in Loan : v2'[x] # "none" => v1'[x] # "none"
    BY <1>2, <2>1, <2>2, <2>3
  <2>7. RowsKept
    BY <1>2, <2>2, <2>3 DEF RowsKept, Kept, Loans!Closed
  <2> QED
    BY <2>2, <2>4, <2>5, <2>6, <2>7 DEF RowsGood
<1> QED
  BY <1>1, <1>2 DEF Loans!Track, Loans!rows

LEMMA ChainKeeps ==
  ASSUME RowsGood, NEW l \in Loan, NEW s \in LoanStatus \ {"none"}, v1' = [v1 EXCEPT ![l] = s],
         v1[l] = "none" \/ (v1[l] = "active" /\ s \in Loans!Closed), UNCHANGED <<v2, v3, v11>>
  PROVE  RowsGood' /\ RowsKept
<1>1. RowTypes /\ Loans!RowsNameTheBorrower /\ \A x \in Loan : v2[x] # "none" => v1[x] # "none"
  BY DEF RowsGood
<1>2. v1'[l] = s /\ \A x \in Loan : x # l => v1'[x] = v1[x]
  BY <1>1 DEF RowTypes
<1>3. RowTypes'
  BY <1>1 DEF RowTypes
<1>4. Loans!RowsNameTheBorrower' /\ \A x \in Loan : v2'[x] # "none" => v1'[x] # "none"
  BY <1>1, <1>2 DEF Loans!RowsNameTheBorrower
<1>5. RowsKept
  BY <1>2 DEF RowsKept, Kept, Loans!Closed
<1> QED
  BY <1>3, <1>4, <1>5 DEF RowsGood

LEMMA RecordKeeps ==
  ASSUME RowsGood, NEW l \in Loan, NEW s \in Loans!Closed, v2' = [v2 EXCEPT ![l] = s],
         v2[l] = "active", UNCHANGED <<v1, v3, v11>>
  PROVE  RowsGood' /\ RowsKept
<1>1. RowTypes /\ Loans!RowsNameTheBorrower /\ \A x \in Loan : v2[x] # "none" => v1[x] # "none"
  BY DEF RowsGood
<1>2. v2'[l] = s /\ s \in LoanStatus
  BY <1>1 DEF RowTypes, Loans!Closed, LoanStatus
<1>3. ASSUME NEW x \in Loan, x # l PROVE v2'[x] = v2[x]
  BY <1>1, <1>3 DEF RowTypes
<1>4. RowTypes'
  BY <1>1, <1>2 DEF RowTypes
<1>5. Loans!RowsNameTheBorrower'
  BY <1>1, <1>3 DEF Loans!RowsNameTheBorrower
<1>6. \A x \in Loan : v2'[x] # "none" => v1'[x] # "none"
  BY <1>1, <1>3
<1>7. RowsKept
  BY <1>2, <1>3 DEF RowsKept, Kept, Loans!Closed
<1> QED
  BY <1>4, <1>5, <1>6, <1>7 DEF RowsGood

HookRecord == [fetch : FetchRecord, last : Wallet \cup {Nobody}, timer : BOOLEAN]

\* One step of the hook: what it has fetched is the wallet's own.
LEMMA HookMoves ==
  ASSUME HookGood, NEW h \in HookRecord, FetchFits(h.fetch), v7' = h, UNCHANGED <<v4, v5, v6>>
  PROVE  HookGood'
<1>1. HookTypes'
  BY DEF HookGood, HookTypes, HookRecord
<1>2. FetchFits(v7'.fetch)
  OBVIOUS
<1> QED
  BY <1>1, <1>2 DEF HookGood, OwnedBy, FetchFits

LEMMA NoFetchFits == Loans!NoFetch \in FetchRecord /\ FetchFits(Loans!NoFetch)
BY DEF Loans!NoFetch, FetchRecord, FetchFits

LEMMA FetchedFits ==
  ASSUME HookGood, v7.fetch.at = "chain", NEW S, S \subseteq OwnedBy(v7.fetch.user)
  PROVE  Loans!Fetched(S) \in HookRecord /\ FetchFits(Loans!Fetched(S).fetch)
<1>1. PICK h \in HookRecord : h = v7
  BY DEF HookGood, HookTypes, HookRecord
<1>2. PICK f \in FetchRecord : f = h.fetch /\ f.user \in Wallet
  BY <1>1 DEF HookGood, FetchFits, HookRecord
<1>3. PICK due \in BOOLEAN : due = (h.timer \/ Loans!Due(v4, f.user))
  BY DEF Loans!Due
<1>4. CASE ~(f.sync /\ S \ f.known # {})
  <2>1. Loans!Fetched(S) = [h EXCEPT !.last = f.user, !.timer = due, !.fetch = Loans!NoFetch]
    BY <1>1, <1>2, <1>3, <1>4 DEF Loans!Fetched
  <2> QED
    BY <1>2, <2>1, NoFetchFits DEF HookRecord
<1>5. CASE f.sync /\ S \ f.known # {}
  <2>1. PICK T : T = S \ f.known
    OBVIOUS
  <2>2. T \in SUBSET Loan /\ T \subseteq OwnedBy(f.user)
    BY <1>1, <1>2, <2>1 DEF OwnedBy
  <2>3. PICK g : g = [f EXCEPT !.at = "tracking", !.todo = T]
    OBVIOUS
  <2>4. g \in FetchRecord /\ FetchFits(g)
    BY <1>2, <2>2, <2>3 DEF FetchRecord, FetchFits
  <2>5. Loans!Fetched(S) = [h EXCEPT !.last = f.user, !.timer = due, !.fetch = g]
    BY <1>1, <1>2, <1>3, <1>5, <2>1, <2>3 DEF Loans!Fetched
  <2> QED
    BY <1>2, <2>4, <2>5 DEF HookRecord
<1> QED
  BY <1>4, <1>5

LEMMA TrackedFits ==
  ASSUME HookGood, v7.fetch.at = "tracking", NEW l \in Loan
  PROVE  Loans!Tracked(l) \in HookRecord /\ FetchFits(Loans!Tracked(l).fetch)
<1>1. PICK h \in HookRecord : h = v7
  BY DEF HookGood, HookTypes, HookRecord
<1>2. PICK f \in FetchRecord : f = h.fetch /\ FetchFits(f)
  BY <1>1 DEF HookGood, HookRecord
<1>3. PICK g : g = IF f.todo = {l} THEN Loans!NoFetch ELSE [f EXCEPT !.todo = f.todo \ {l}]
  OBVIOUS
<1>4. Loans!Tracked(l) = [h EXCEPT !.fetch = g]
  <2>1. Loans!Tracked(l) = [v7 EXCEPT !.fetch = IF v7.fetch.todo = {l} THEN Loans!NoFetch
                                                ELSE [v7.fetch EXCEPT !.todo = v7.fetch.todo \ {l}]]
    BY DEF Loans!Tracked
  <2> QED
    BY <1>1, <1>2, <1>3, <2>1
<1>5. g \in FetchRecord /\ FetchFits(g)
  BY <1>2, <1>3, NoFetchFits DEF FetchRecord, FetchFits
<1> QED
  BY <1>4, <1>5 DEF HookRecord

\* The list, the cache, the hook's fetches, and switches of the wallet.
HookAction ==
  \/ \E w \in Wallet \cup {Nobody} : Loans!SwitchWallet(w)
  \/ \E w \in Wallet : Loans!ListArrives(w) \/ Loans!CacheAges(w)
  \/ Loans!AskList \/ Loans!FetchLoans \/ Loans!StartSync \/ Loans!ReadChain \/ Loans!ReadFails

LEMMA HookKeeps ==
  ASSUME HookGood, HookAction
  PROVE  HookGood' /\ UNCHANGED <<v1, v2, v3, v11>> /\ UNCHANGED v9 /\ UNCHANGED v10
<1> USE DEF Loans!rows, Loans!bounds
<1>0. UNCHANGED <<v1, v2, v3, v11>> /\ UNCHANGED v9 /\ UNCHANGED v10
  BY DEF HookAction, Loans!SwitchWallet, Loans!ListArrives, Loans!CacheAges, Loans!AskList,
         Loans!FetchLoans, Loans!StartSync, Loans!ReadChain, Loans!ReadFails
<1>1. PICK h \in HookRecord : h = v7 /\ h.fetch \in FetchRecord /\ FetchFits(h.fetch)
  BY DEF HookGood, HookTypes, HookRecord
<1>2. ASSUME NEW w \in Wallet \cup {Nobody}, Loans!SwitchWallet(w) PROVE HookGood'
  <2>1. v4' = w /\ UNCHANGED <<v5, v6>>
    BY <1>2 DEF Loans!SwitchWallet
  <2>2. PICK due \in BOOLEAN : due = (h.timer \/ Loans!Due(w, h.last))
    BY DEF Loans!Due
  <2>3. v7' = [h EXCEPT !.last = Nobody] \/ v7' = [h EXCEPT !.timer = due]
    BY <1>1, <1>2, <2>2 DEF Loans!SwitchWallet
  <2>4. v7' \in HookRecord /\ v7'.fetch = h.fetch
    BY <2>3 DEF HookRecord
  <2>5. HookTypes'
    BY <2>1, <2>4 DEF HookGood, HookTypes, HookRecord
  <2>6. FetchFits(v7'.fetch)
    BY <1>1, <2>4
  <2> QED
    BY <2>1, <2>5, <2>6 DEF HookGood, OwnedBy, FetchFits
<1>3. ASSUME NEW w \in Wallet, Loans!ListArrives(w) PROVE HookGood'
  <2>1. UNCHANGED <<v4, v6, v7>>
    BY <1>3 DEF Loans!ListArrives
  <2>2. PICK r \in ListRecord : r = v5[w]
    BY DEF HookGood, HookTypes
  <2>3. PICK q : q = [Loans!Unknown EXCEPT !.known = TRUE, !.rows = r.answer]
    OBVIOUS
  <2>4. q \in ListRecord
    BY <2>2, <2>3 DEF Loans!Unknown, ListRecord
  <2>5. v5' = [v5 EXCEPT ![w] = q]
    BY <1>3, <2>2, <2>3 DEF Loans!ListArrives
  <2>6. HookTypes'
    BY <2>1, <2>4, <2>5 DEF HookGood, HookTypes
  <2> QED
    BY <2>1, <2>6 DEF HookGood, OwnedBy, FetchFits
<1>4. ASSUME NEW w \in Wallet, Loans!CacheAges(w) PROVE HookGood'
  <2>1. UNCHANGED <<v4, v5, v7>>
    BY <1>4 DEF Loans!CacheAges
  <2>2. PICK r \in [age : {"none", "fresh", "old"}, loans : SUBSET Loan] :
          r = v6[w] /\ r.loans \subseteq OwnedBy(w)
    BY DEF HookGood, HookTypes
  <2>3. PICK q : q = [r EXCEPT !.age = "old"]
    OBVIOUS
  <2>4. q \in [age : {"none", "fresh", "old"}, loans : SUBSET Loan] /\ q.loans = r.loans
    BY <2>3
  <2>5. v6' = [v6 EXCEPT ![w] = q]
    BY <1>4, <2>2, <2>3 DEF Loans!CacheAges
  <2>6. HookTypes'
    BY <2>1, <2>4, <2>5 DEF HookGood, HookTypes
  <2>7. \A x \in Wallet : v6'[x].loans \subseteq OwnedBy(x)
    BY <2>2, <2>4, <2>5 DEF HookGood, HookTypes
  <2> QED
    BY <2>1, <2>6, <2>7 DEF HookGood, OwnedBy, FetchFits
<1>5. ASSUME Loans!AskList PROVE HookGood'
  <2>1. UNCHANGED <<v4, v6, v7>> /\ v4 # Nobody
    BY <1>5 DEF Loans!AskList
  <2>2. PICK w \in Wallet : w = v4
    BY <2>1 DEF HookGood, HookTypes
  <2>3. PICK r \in ListRecord : r = v5[w]
    BY DEF HookGood, HookTypes
  <2>4. PICK S \in SUBSET Loan : S = {l \in Loan : v2[l] # "none" /\ v3[l] = w}
    OBVIOUS
  <2>5. PICK q : q = [r EXCEPT !.at = "asked", !.answer = S]
    OBVIOUS
  <2>6. q \in ListRecord
    BY <2>5 DEF ListRecord
  <2>7. v5' = [v5 EXCEPT ![w] = q]
    <3>1. v5' = [v5 EXCEPT ![w].at = "asked", ![w].answer = S]
      BY <1>5, <2>2, <2>4 DEF Loans!AskList
    <3> QED
      BY <2>3, <2>5, <3>1 DEF HookGood, HookTypes, ListRecord
  <2>8. HookTypes'
    BY <2>1, <2>6, <2>7 DEF HookGood, HookTypes
  <2> QED
    BY <2>1, <2>8 DEF HookGood, OwnedBy, FetchFits
<1>6. ASSUME Loans!FetchLoans PROVE HookGood'
  <2>1. UNCHANGED <<v4, v5, v6>>
    BY <1>6 DEF Loans!FetchLoans
  <2>2. PICK d : d = [h EXCEPT !.timer = FALSE]
    OBVIOUS
  <2>3. CASE v4 = Nobody \/ v7.fetch.at # "none"
    <3>1. v7' = d
      BY <1>1, <1>6, <2>2, <2>3 DEF Loans!FetchLoans
    <3>2. d \in HookRecord /\ d.fetch = h.fetch
      BY <2>2 DEF HookRecord
    <3> QED
      BY <1>1, <2>1, <2>2, <3>1, <3>2, HookMoves
  <2>4. CASE ~(v4 = Nobody \/ v7.fetch.at # "none")
    <3>1. PICK w \in Wallet : w = v4
      BY <2>4 DEF HookGood, HookTypes
    <3>2. PICK g : g = [Loans!NoFetch EXCEPT !.at = "chain", !.user = w]
      OBVIOUS
    <3>3. g \in FetchRecord /\ FetchFits(g)
      BY <3>2 DEF Loans!NoFetch, FetchRecord, FetchFits
    <3>4. v7' = [h EXCEPT !.timer = FALSE, !.fetch = g]
      BY <1>1, <1>6, <2>4, <3>1, <3>2 DEF Loans!FetchLoans
    <3>5. v7' \in HookRecord /\ v7'.fetch = g
      BY <3>3, <3>4 DEF HookRecord
    <3> QED
      BY <2>1, <3>3, <3>5, HookMoves
  <2> QED
    BY <2>3, <2>4
<1>7. ASSUME Loans!StartSync PROVE HookGood'
  <2>1. UNCHANGED <<v4, v5, v6>> /\ v4 # Nobody
    BY <1>7 DEF Loans!StartSync
  <2>2. PICK w \in Wallet : w = v4
    BY <2>1 DEF HookGood, HookTypes
  <2>3. PICK S \in SUBSET Loan : S = v5[w].rows
    BY DEF HookGood, HookTypes, ListRecord
  <2>4. PICK g : g = [Loans!NoFetch EXCEPT !.at = "chain", !.user = w, !.sync = TRUE, !.known = S]
    OBVIOUS
  <2>5. g \in FetchRecord /\ FetchFits(g)
    BY <2>4 DEF Loans!NoFetch, FetchRecord, FetchFits
  <2>6. v7' = [h EXCEPT !.fetch = g]
    BY <1>1, <1>7, <2>2, <2>3, <2>4 DEF Loans!StartSync
  <2>7. v7' \in HookRecord /\ v7'.fetch = g
    BY <2>5, <2>6 DEF HookRecord
  <2> QED
    BY <2>1, <2>5, <2>7, HookMoves
<1>8. ASSUME Loans!ReadChain PROVE HookGood'
  <2>1. UNCHANGED <<v4, v5>> /\ v7.fetch.at = "chain"
    BY <1>8 DEF Loans!ReadChain
  <2>2. PICK w \in Wallet : w = v7.fetch.user
    BY <2>1 DEF HookGood, FetchFits
  <2>3. PICK S \in SUBSET Loan : S = {l \in Loan : Owner[l] = w /\ v1[l] = "active"}
    OBVIOUS
  <2>4. CASE v6[w].age = "fresh"
    <3>1. v7' = Loans!Fetched(v6[w].loans) /\ UNCHANGED v6
      BY <1>8, <2>2, <2>4 DEF Loans!ReadChain
    <3>2. v6[w].loans \subseteq OwnedBy(w)
      BY DEF HookGood
    <3> QED
      BY <2>1, <2>2, <3>1, <3>2, FetchedFits, HookMoves
  <2>5. CASE v6[w].age # "fresh"
    <3>1. v7' = Loans!Fetched(S) /\ v6' = [v6 EXCEPT ![w] = [age |-> "fresh", loans |-> S]]
      BY <1>8, <2>2, <2>3, <2>5 DEF Loans!ReadChain
    <3>2. S \subseteq OwnedBy(w)
      BY <2>3 DEF OwnedBy
    <3>3. v7' \in HookRecord /\ FetchFits(v7'.fetch)
      BY <2>1, <2>2, <3>1, <3>2, FetchedFits
    <3>4. \A x \in Wallet : v6'[x].loans \subseteq OwnedBy(x)
      BY <3>1, <3>2 DEF HookGood, HookTypes
    <3>5. HookTypes'
      BY <2>1, <3>1, <3>3 DEF HookGood, HookTypes, HookRecord
    <3> QED
      BY <3>3, <3>4, <3>5 DEF HookGood, OwnedBy, FetchFits
  <2> QED
    BY <2>4, <2>5
<1>9. ASSUME Loans!ReadFails PROVE HookGood'
  <2>1. UNCHANGED <<v4, v5, v6>> /\ v7.fetch.at = "chain"
    BY <1>9 DEF Loans!ReadFails
  <2>2. PICK w \in Wallet : w = v7.fetch.user
    BY <2>1 DEF HookGood, FetchFits
  <2>3. v7' = Loans!Fetched(v6[w].loans)
    BY <1>9, <2>2 DEF Loans!ReadFails
  <2>4. v6[w].loans \subseteq OwnedBy(w)
    BY DEF HookGood
  <2> QED
    BY <2>1, <2>2, <2>3, <2>4, FetchedFits, HookMoves
<1> QED
  BY <1>0, <1>2, <1>3, <1>4, <1>5, <1>6, <1>7, <1>8, <1>9 DEF HookAction

LEMMA PagesStep == PagesInv /\ [Loans!Next]_pages => PagesInv'
<1> SUFFICES ASSUME PagesInv, [Loans!Next]_pages PROVE PagesInv'
  OBVIOUS
<1>1. RowsGood /\ HookGood /\ BorrowGood /\ RepayGood
  BY DEF PagesInv
<1> USE DEF Loans!rows, Loans!bounds
<1>2. CASE UNCHANGED pages
  BY <1>1, <1>2, RowsStay, HookKept, BorrowKept, RepayKept DEF PagesInv, pages
<1>3. ASSUME NEW l \in Loan, Loans!Liquidate(l) PROVE PagesInv'
  <2>1. /\ v1[l] = "active" /\ v1' = [v1 EXCEPT ![l] = "liquidated"]
        /\ UNCHANGED <<v2, v3, v11>> /\ UNCHANGED <<v4, v5, v6, v7>> /\ UNCHANGED v9 /\ UNCHANGED v10
    BY <1>3 DEF Loans!Liquidate
  <2>2. RowsGood' /\ RowsKept
    BY <1>1, <2>1, ChainKeeps DEF LoanStatus, Loans!Closed
  <2> QED
    BY <1>1, <2>1, <2>2, HookKept, BorrowKept, RepayKept DEF PagesInv
<1>4. ASSUME NEW l \in Loan, Loans!RecordLiquidation(l) PROVE PagesInv'
  <2>1. /\ v2[l] = "active" /\ v2' = [v2 EXCEPT ![l] = "liquidated"]
        /\ UNCHANGED <<v1, v3, v11>> /\ UNCHANGED <<v4, v5, v6, v7>> /\ UNCHANGED v9 /\ UNCHANGED v10
    BY <1>4 DEF Loans!RecordLiquidation
  <2>2. RowsGood' /\ RowsKept
    BY <1>1, <2>1, RecordKeeps DEF Loans!Closed
  <2> QED
    BY <1>1, <2>1, <2>2, HookKept, BorrowKept, RepayKept DEF PagesInv
<1>5. ASSUME HookGood', UNCHANGED <<v1, v2, v3, v11>>, UNCHANGED v9, UNCHANGED v10 PROVE PagesInv'
  BY <1>1, <1>5, RowsStay, BorrowKept, RepayKept DEF PagesInv
<1>6. ASSUME NEW l \in Loan, Loans!Borrow(l) PROVE PagesInv'
  <2>1. /\ v4 = Owner[l] /\ v9' = [Loans!NoBorrow EXCEPT !.at = "sent", !.loan = l, !.user = v4]
        /\ UNCHANGED <<v1, v2, v3, v11>> /\ UNCHANGED <<v4, v5, v6, v7>> /\ UNCHANGED v10
    BY <1>6 DEF Loans!Borrow
  <2>2. v9' = [at |-> "sent", loan |-> l, user |-> v4, missed |-> FALSE]
    BY <2>1 DEF Loans!NoBorrow
  <2>3. v9' \in BorrowRecord /\ v9'.at = "sent" /\ v9'.loan = l /\ v9'.user = Owner[l]
    <3>1. PICK w \in Wallet \cup {Nobody} : w = v4
      BY <1>1 DEF HookGood, HookTypes
    <3>2. v9' = [at |-> "sent", loan |-> l, user |-> w, missed |-> FALSE]
      BY <2>2, <3>1
    <3>3. v9' \in BorrowRecord
      BY <3>2 DEF BorrowRecord
    <3> QED
      BY <2>1, <3>1, <3>2, <3>3
  <2>4. BorrowGood'
    BY <2>3 DEF BorrowGood, Borrows
  <2> QED
    BY <1>1, <2>1, <2>4, RowsStay, HookKept, RepayKept DEF PagesInv
<1>7. CASE Loans!Lands
  <2>1. v9.loan \in Loan
    BY <1>1, <1>7 DEF BorrowGood, BorrowRecord, Loans!Lands
  <2>2. PICK l \in Loan : l = v9.loan
    BY <2>1
  <2>3. /\ v1[l] = "none" /\ v1' = [v1 EXCEPT ![l] = "active"]
        /\ UNCHANGED <<v2, v3, v11>> /\ UNCHANGED <<v4, v5, v6, v7>> /\ UNCHANGED v9 /\ UNCHANGED v10
    BY <1>7, <2>2 DEF Loans!Lands
  <2>4. RowsGood' /\ RowsKept
    BY <1>1, <2>3, ChainKeeps DEF LoanStatus
  <2> QED
    BY <1>1, <2>3, <2>4, HookKept, BorrowKept, RepayKept DEF PagesInv
<1>8. CASE Loans!Confirmed
  <2>1. /\ v9.at = "sent"
        /\ \/ v1[v9.loan] # "none" /\ v9' = [v9 EXCEPT !.at = "confirmed"]
           \/ v9' = [v9 EXCEPT !.at = "failed"]
        /\ UNCHANGED <<v1, v2, v3, v11>> /\ UNCHANGED <<v4, v5, v6, v7>> /\ UNCHANGED v10
    BY <1>8 DEF Loans!Confirmed
  <2>2. BorrowGood'
    BY <1>1, <2>1 DEF BorrowGood, BorrowRecord, Borrows
  <2> QED
    BY <1>1, <2>1, <2>2, RowsStay, HookKept, RepayKept DEF PagesInv
<1>9. CASE Loans!TrackSigner
  <2>1. PICK l \in Loan, w \in Wallet \cup {Nobody} :
          l = v9.loan /\ w = v9.user /\ w = Owner[l] /\ v1[l] # "none"
    BY <1>1, <1>9 DEF BorrowGood, BorrowRecord, Borrows, Loans!TrackSigner
  <2>2. /\ Loans!Track(l, w) /\ v9' = [v9 EXCEPT !.at = "tracked"]
        /\ v1' = v1 /\ v11' = v11 /\ UNCHANGED <<v4, v5, v6, v7>> /\ UNCHANGED v10
    BY <1>9, <2>1 DEF Loans!TrackSigner
  <2>3. RowsGood' /\ RowsKept /\ v2'[l] # "none"
    BY <1>1, <2>1, <2>2, TrackKeeps DEF RowsGood, RowTypes
  <2>4. BorrowGood'
    BY <1>1, <2>1, <2>2, <2>3 DEF BorrowGood, BorrowRecord, Borrows
  <2> QED
    BY <1>1, <2>2, <2>3, <2>4, HookKept, RepayKept DEF PagesInv
<1>10. CASE Loans!TrackSignerFails
  <2>1. /\ v9.at = "confirmed" /\ v9' = [v9 EXCEPT !.at = "tracked", !.missed = TRUE]
        /\ UNCHANGED <<v1, v2, v3, v11>> /\ UNCHANGED <<v4, v5, v6, v7>> /\ UNCHANGED v10
    BY <1>10 DEF Loans!TrackSignerFails
  <2>2. BorrowGood'
    BY <1>1, <2>1 DEF BorrowGood, BorrowRecord, Borrows
  <2> QED
    BY <1>1, <2>1, <2>2, RowsStay, HookKept, RepayKept DEF PagesInv
<1>11. CASE Loans!TrackCurrent
  <2>1. PICK l \in Loan :
          /\ l = v9.loan /\ v9.user = Owner[l] /\ v9.at = "tracked"
          /\ v9.missed \/ v2[l] # "none"
    BY <1>1, <1>11 DEF BorrowGood, BorrowRecord, Borrows, Loans!TrackCurrent
  <2>2. /\ v1' = v1 /\ UNCHANGED <<v4, v5, v6, v7>> /\ UNCHANGED v10
        /\ v4 \in Wallet \cup {Nobody}
    BY <1>1, <1>11 DEF Loans!TrackCurrent, HookGood, HookTypes
  <2>3. CASE v4 = Nobody
    <3>1. v9' = [v9 EXCEPT !.at = "failed"] /\ UNCHANGED <<v1, v2, v3, v11>>
      BY <1>11, <2>2, <2>3 DEF Loans!TrackCurrent
    <3>2. BorrowGood'
      BY <1>1, <2>1, <3>1 DEF BorrowGood, BorrowRecord, Borrows
    <3> QED
      BY <1>1, <2>2, <3>1, <3>2, RowsStay, HookKept, RepayKept DEF PagesInv
  <2>4. CASE v4 # Nobody
    <3>1. /\ Loans!Track(l, v4) /\ v9' = [v9 EXCEPT !.at = "done"]
          /\ v11' = IF v9.missed /\ v4 # v9.user THEN v11 \cup {l} ELSE v11
      BY <1>11, <2>1, <2>4 DEF Loans!TrackCurrent
    <3>2. v11' \in SUBSET Loan /\ v11 \subseteq v11'
      BY <1>1, <3>1 DEF RowsGood, RowTypes
    <3>3. v2[l] # "none" \/ v4 = Owner[l] \/ l \in v11'
      BY <2>1, <3>1
    <3>4. RowsGood' /\ RowsKept
      BY <1>1, <2>2, <3>1, <3>2, <3>3, TrackKeeps
    <3>5. BorrowGood'
      BY <1>1, <2>1, <3>1 DEF BorrowGood, BorrowRecord, Borrows
    <3> QED
      BY <1>1, <2>2, <3>4, <3>5, HookKept, RepayKept DEF PagesInv
  <2> QED
    BY <2>3, <2>4
<1>12. ASSUME NEW l \in Loan, Loans!Repay(l) PROVE PagesInv'
  <2>1. /\ v2[l] = "active" /\ v10' = [Loans!NoRepay EXCEPT !.at = "built", !.loan = l, !.user = v4]
        /\ UNCHANGED <<v1, v2, v3, v11>> /\ UNCHANGED <<v4, v5, v6, v7>> /\ UNCHANGED v9
    BY <1>12 DEF Loans!Repay
  <2>2. v10' = [at |-> "built", loan |-> l, user |-> v4, tx |-> "none", told |-> "none"]
    BY <2>1 DEF Loans!NoRepay
  <2>3. v4 \in Wallet \cup {Nobody}
    BY <1>1 DEF HookGood, HookTypes
  <2>4. v10' \in RepayRecord
    BY <2>2, <2>3 DEF RepayRecord
  <2>5. /\ v10'.at = "built" /\ v10'.loan = l /\ v10'.tx = "none" /\ v10'.told = "none"
    BY <2>2
  <2>6. RepayGood'
    BY <2>1, <2>4, <2>5 DEF RepayGood, Repays
  <2> QED
    BY <1>1, <2>1, <2>6, RowsStay, HookKept, BorrowKept DEF PagesInv
<1>13. CASE Loans!SendRepay
  <2>1. PICK l \in Loan : l = v10.loan /\ v1[l] # "none" /\ v10.at = "built" /\ v1[l] \in LoanStatus
    BY <1>1, <1>13 DEF RepayGood, RepayRecord, Repays, RowsGood, RowTypes, Loans!SendRepay
  <2>2. /\ \/ v10' = [v10 EXCEPT !.at = "done", !.told = "failed"]
           \/ v1[l] = "active" /\ v10' = [v10 EXCEPT !.at = "polling", !.tx = "sent"]
           \/ v1[l] # "active" /\ v10' = [v10 EXCEPT !.at = "closed"]
        /\ UNCHANGED <<v1, v2, v3, v11>> /\ UNCHANGED <<v4, v5, v6, v7>> /\ UNCHANGED v9
    BY <1>13, <2>1 DEF Loans!SendRepay, Loans!Tell
  <2>3. RepayGood'
    BY <1>1, <2>1, <2>2 DEF RepayGood, RepayRecord, Repays, Loans!Closed, LoanStatus
  <2> QED
    BY <1>1, <2>2, <2>3, RowsStay, HookKept, BorrowKept DEF PagesInv
<1>14. CASE Loans!RepayLands
  <2>1. PICK l \in Loan : l = v10.loan /\ v1[l] # "none" /\ v10.tx = "sent" /\ v1[l] \in LoanStatus
    BY <1>1, <1>14 DEF RepayGood, RepayRecord, Repays, RowsGood, RowTypes, Loans!RepayLands
  <2>2. UNCHANGED <<v2, v3, v11>> /\ UNCHANGED <<v4, v5, v6, v7>> /\ UNCHANGED v9
    BY <1>14 DEF Loans!RepayLands
  <2>3. CASE v1[l] = "active"
    <3>1. v1' = [v1 EXCEPT ![l] = "repaid"] /\ v10' = [v10 EXCEPT !.tx = "landed"]
      BY <1>14, <2>1, <2>3 DEF Loans!RepayLands
    <3>2. RowsGood' /\ RowsKept
      BY <1>1, <2>2, <2>3, <3>1, ChainKeeps DEF LoanStatus, Loans!Closed
    <3>3. v1'[l] = "repaid"
      BY <1>1, <3>1 DEF RowsGood, RowTypes
    <3>4. RepayGood'
      BY <1>1, <2>1, <2>2, <3>1, <3>2, <3>3 DEF RepayGood, RepayRecord, Repays, RowsKept, Kept, Loans!Closed
    <3> QED
      BY <1>1, <2>2, <3>2, <3>4, HookKept, BorrowKept DEF PagesInv
  <2>4. CASE v1[l] # "active"
    <3>1. v1' = v1 /\ v10' = [v10 EXCEPT !.tx = "failed"]
      BY <1>14, <2>1, <2>4 DEF Loans!RepayLands
    <3>2. RepayGood'
      BY <1>1, <2>1, <2>2, <2>4, <3>1 DEF RepayGood, RepayRecord, Repays, Loans!Closed, LoanStatus
    <3> QED
      BY <1>1, <2>2, <3>1, <3>2, RowsStay, HookKept, BorrowKept DEF PagesInv
  <2> QED
    BY <2>3, <2>4
<1>15. CASE Loans!Poll
  <2>1. /\ v10.at = "polling"
        /\ \/ v10.tx = "landed" /\ v10' = [v10 EXCEPT !.at = "confirming"]
           \/ v10.tx = "failed" /\ v10' = [v10 EXCEPT !.at = "closed"]
           \/ v10' = [v10 EXCEPT !.at = "done", !.told = "failed"]
        /\ UNCHANGED <<v1, v2, v3, v11>> /\ UNCHANGED <<v4, v5, v6, v7>> /\ UNCHANGED v9
    BY <1>15 DEF Loans!Poll, Loans!Tell
  <2>2. RepayGood'
    BY <1>1, <2>1 DEF RepayGood, RepayRecord, Repays, Loans!Closed
  <2> QED
    BY <1>1, <2>1, <2>2, RowsStay, HookKept, BorrowKept DEF PagesInv
<1>16. CASE Loans!ConfirmRepayment
  <2>1. PICK l \in Loan : l = v10.loan /\ v1[l] = "repaid" /\ v10.at = "confirming"
    BY <1>1, <1>16 DEF RepayGood, RepayRecord, Repays, Loans!ConfirmRepayment
  <2>2. UNCHANGED <<v1, v3, v11>> /\ UNCHANGED <<v4, v5, v6, v7>> /\ UNCHANGED v9
    BY <1>16 DEF Loans!ConfirmRepayment
  <2>3. CASE v2[l] = "active"
    <3>1. v2' = [v2 EXCEPT ![l] = "repaid"] /\ v10' = [v10 EXCEPT !.at = "done", !.told = "repaid"]
      BY <1>16, <2>1, <2>3 DEF Loans!ConfirmRepayment, Loans!Tell
    <3>2. RowsGood' /\ RowsKept
      BY <1>1, <2>2, <2>3, <3>1, RecordKeeps DEF Loans!Closed
    <3>3. v2'[l] = "repaid"
      BY <1>1, <3>1 DEF RowsGood, RowTypes
    <3>4. RepayGood'
      BY <1>1, <2>1, <2>2, <3>1, <3>3 DEF RepayGood, RepayRecord, Repays, Loans!Closed
    <3> QED
      BY <1>1, <2>2, <3>2, <3>4, HookKept, BorrowKept DEF PagesInv
  <2>4. CASE v2[l] # "active"
    <3>1. v2' = v2 /\ v10' = [v10 EXCEPT !.at = "done", !.told = "failed"]
      BY <1>16, <2>1, <2>4 DEF Loans!ConfirmRepayment, Loans!Tell
    <3>2. RepayGood'
      BY <1>1, <2>1, <2>2, <3>1 DEF RepayGood, RepayRecord, Repays
    <3> QED
      BY <1>1, <2>2, <3>1, <3>2, RowsStay, HookKept, BorrowKept DEF PagesInv
  <2> QED
    BY <2>3, <2>4
<1>17. CASE Loans!SyncLoanStatus
  <2>1. PICK l \in Loan : /\ l = v10.loan /\ v1[l] \in Loans!Closed /\ v10.at = "closed"
                          /\ v2[l] # "none" /\ v2[l] \in LoanStatus
    BY <1>1, <1>17 DEF RepayGood, RepayRecord, Repays, RowsGood, RowTypes, Loans!SyncLoanStatus
  <2>2. /\ UNCHANGED <<v1, v3, v11>> /\ UNCHANGED <<v4, v5, v6, v7>> /\ UNCHANGED v9
        /\ v10' = [v10 EXCEPT !.at = "done", !.told = "already"]
    BY <1>17 DEF Loans!SyncLoanStatus, Loans!Tell
  <2>3. RowsGood' /\ RowsKept /\ v2'[l] \in Loans!Closed
    <3>1. CASE v2[l] = "active"
      <4>1. v2' = [v2 EXCEPT ![l] = v1[l]]
        BY <1>17, <2>1, <3>1 DEF Loans!SyncLoanStatus
      <4>2. RowsGood' /\ RowsKept
        BY <1>1, <2>1, <2>2, <3>1, <4>1, RecordKeeps
      <4> QED
        BY <1>1, <2>1, <4>1, <4>2 DEF RowsGood, RowTypes
    <3>2. CASE v2[l] # "active"
      <4>1. v2' = v2
        BY <1>17, <2>1, <3>2 DEF Loans!SyncLoanStatus
      <4> QED
        BY <1>1, <2>1, <2>2, <3>2, <4>1, RowsStay DEF LoanStatus, Loans!Closed
    <3> QED
      BY <3>1, <3>2
  <2>4. RepayGood'
    BY <1>1, <2>1, <2>2, <2>3 DEF RepayGood, RepayRecord, Repays, Loans!Closed
  <2> QED
    BY <1>1, <2>2, <2>3, <2>4, HookKept, BorrowKept DEF PagesInv
<1>18. CASE Loans!CallFails
  <2>1. /\ v10.at \in {"confirming", "closed"} /\ v10' = [v10 EXCEPT !.at = "done", !.told = "failed"]
        /\ UNCHANGED <<v1, v2, v3, v11>> /\ UNCHANGED <<v4, v5, v6, v7>> /\ UNCHANGED v9
    BY <1>18 DEF Loans!CallFails, Loans!Tell
  <2>2. RepayGood'
    BY <1>1, <2>1 DEF RepayGood, RepayRecord, Repays
  <2> QED
    BY <1>1, <2>1, <2>2, RowsStay, HookKept, BorrowKept DEF PagesInv
<1>19. CASE HookAction
  BY <1>1, <1>5, <1>19, HookKeeps
<1>20. ASSUME NEW l \in Loan, Loans!SyncOne(l) PROVE PagesInv'
  <2>1. /\ v7.fetch.at = "tracking" /\ l \in v7.fetch.todo /\ v7' = Loans!Tracked(l)
        /\ UNCHANGED <<v1, v11>> /\ UNCHANGED <<v4, v5, v6>> /\ UNCHANGED v9 /\ UNCHANGED v10
    BY <1>20 DEF Loans!SyncOne
  <2>2. PICK w \in Wallet : w = v7.fetch.user /\ w = Owner[l]
    BY <1>1, <2>1 DEF HookGood, FetchFits, OwnedBy
  <2>3. Loans!Track(l, w)
    BY <1>20, <2>2 DEF Loans!SyncOne, Loans!SyncedFor
  <2>4. RowsGood' /\ RowsKept
    BY <1>1, <2>1, <2>2, <2>3, TrackKeeps DEF RowsGood, RowTypes
  <2>5. HookGood'
    BY <1>1, <2>1, TrackedFits, HookMoves
  <2> QED
    BY <1>1, <2>1, <2>4, <2>5, BorrowKept, RepayKept DEF PagesInv
<1>21. ASSUME NEW l \in Loan, Loans!SyncOneFails(l) PROVE PagesInv'
  <2>1. /\ v7.fetch.at = "tracking" /\ v7' = Loans!Tracked(l)
        /\ UNCHANGED <<v1, v2, v3, v11>> /\ UNCHANGED <<v4, v5, v6>> /\ UNCHANGED v9 /\ UNCHANGED v10
    BY <1>21 DEF Loans!SyncOneFails
  <2>2. HookGood'
    BY <1>1, <2>1, TrackedFits, HookMoves
  <2> QED
    BY <1>5, <2>1, <2>2
<1> QED
  BY <1>2, <1>3, <1>4, <1>6, <1>7, <1>8, <1>9, <1>10, <1>11, <1>12, <1>13, <1>14, <1>15, <1>16,
     <1>17, <1>18, <1>19, <1>20, <1>21 DEF Loans!Next, HookAction

LEMMA PagesGood == PagesInv => Loans!LoansAreTold
BY DEF PagesInv, RowsGood, RepayGood, Repays, Loans!LoansAreTold, Loans!RepaidIsClosed
-----------------------------------------------------------------------------
TruthInv ==
  /\ which = "messages" => MessagesInv
  /\ which = "sdk" => SdkInv
  /\ which = "stakes" => StakesInv
  /\ which = "loans" => PagesInv

\* ErrorsAreTold, AnswersFit, PositionIsTold and LoansAreTold: what is said of a failed
\* transaction, a price, a repayment, a stake or a loan was so, for any tables of
\* calls, wallets and loans and in any order of reads, changes and failures.
THEOREM TruthTold == Spec => []TellsTheTruth
<1>1. Init => TruthInv
  BY MessagesInit, SdkInit, StakesInit, PagesInit DEF Init, TruthInv
<1>2. TruthInv /\ [Next]_vars => TruthInv'
  BY OnePart, MessagesStep, SdkStep, StakesStep, PagesStep DEF TruthInv
<1>3. TruthInv => TellsTheTruth
  BY MessagesGood, SdkGood, StakesGood, PagesGood DEF TruthInv, TellsTheTruth
<1> QED
  BY <1>1, <1>2, <1>3, PTL DEF Spec
=============================================================================
