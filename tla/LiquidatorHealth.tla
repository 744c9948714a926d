--------------------------- MODULE LiquidatorHealth ---------------------------
(* How the server knows whether its liquidator works                            *)
(* (apps/server/src/services/liquidator-metrics.service.ts, with the runs of    *)
(* jobs/liquidation.job.ts and the limit of security-monitor.service.ts): a     *)
(* record per instance in redis that every run of the job and a heartbeat each  *)
(* read, and then write as a whole; and two limits that an alert has to pass.   *)
(*                                                                              *)
(* This is one instance and its own record, the currentInstance of the health   *)
(* page.  The page's overall status is left out: it also counts the records of  *)
(* other servers, and of processes that ended, which stay healthy for 90 s, so  *)
(* it may say healthy whatever this instance does.  So are processing times and *)
(* the counters of the day, which nothing but the page reads.                   *)
EXTENDS Integers

CONSTANTS Threshold,        \* CONSECUTIVE_FAILURE_THRESHOLD
          ALERT_COOLDOWN,   \* in units of time
          RATE_LIMIT,       \* rateLimitMinutes of the security monitor
          MaxFailures,      \* bound on failures, those of a record included
          MaxMishaps        \* bound on failed calls to redis and restarts

VARIABLES metrics,          \* the record of the instance, or None
          heartbeat, run,   \* what each awaits, with the record it has read
          attempt,          \* the age of lastAlertTime, at most ALERT_COOLDOWN
          alerted,          \* the age of the monitor's last LIQUIDATION_FAILED,
                            \*   at most RATE_LIMIT
          sent,             \* history: the age of the last alert sent, or stopped
                            \*   by a failed call
          streak,           \* history: the failed runs since the last good one
          lost, revived,    \* history: how many of them heartbeats and failed calls
                            \*   took off the record, and earlier ones put back
          heard,            \* history: whether the last alert was recent at the
                            \*   last failed run
          mishaps

alerts == <<attempt, alerted, sent>>
account == <<streak, lost, revived, heard>>
vars == <<metrics, heartbeat, run, alerts, account, mishaps>>

None == [failures |-> 0, ran |-> "never"]
Idle == [phase |-> "idle", got |-> None]

Mishap == mishaps < MaxMishaps /\ mishaps' = mishaps + 1

Init ==
  /\ metrics = None /\ heartbeat = Idle /\ run = Idle
  /\ attempt = ALERT_COOLDOWN /\ alerted = RATE_LIMIT /\ sent = ALERT_COOLDOWN + RATE_LIMIT
  /\ streak = 0 /\ lost = 0 /\ revived = 0 /\ heard = FALSE /\ mishaps = 0
--------------------------------------------------------------------------------
(* updateHeartbeat, every 30 s: what it writes is what it has read. *)
HeartbeatReads ==
  /\ heartbeat.phase = "idle"
  /\ heartbeat' = [phase |-> "writing", got |-> metrics]
  /\ UNCHANGED <<metrics, run, alerts, account, mishaps>>

HeartbeatWrites ==
  LET change == heartbeat.got.failures - metrics.failures IN
  /\ heartbeat.phase = "writing"
  /\ metrics' = heartbeat.got
  /\ lost' = IF change < 0 THEN lost - change ELSE lost
  /\ revived' = IF change > 0 THEN revived + change ELSE revived
  /\ heartbeat' = Idle
  /\ UNCHANGED <<run, alerts, streak, heard, mishaps>>

(* SecurityMonitor.log of a LIQUIDATION_FAILED *)
Log ==
  IF alerted < RATE_LIMIT THEN UNCHANGED <<alerted, sent>> ELSE alerted' = 0 /\ sent' = 0

(* The worker runs one job at a time.  Loans that could not be liquidated do not *)
(* make a run a failure, but each is logged.  The record is read then, so what   *)
(* throws after a success was saved makes a failed run that follows it.          *)
RunEnds(phase) ==
  /\ run.phase = "idle"
  /\ phase = "failing" => streak < MaxFailures /\ metrics.failures < MaxFailures
  /\ run' = [phase |-> phase, got |-> metrics]
  /\ Log \/ UNCHANGED <<alerted, sent>>
  /\ UNCHANGED <<metrics, heartbeat, attempt, account, mishaps>>

(* recordJobSuccess *)
RecordJobSuccess ==
  /\ run.phase = "succeeding"
  /\ metrics' = [failures |-> 0, ran |-> "recently"]
  /\ streak' = 0 /\ lost' = 0 /\ revived' = 0 /\ heard' = FALSE
  /\ run' = Idle
  /\ UNCHANGED <<heartbeat, alerts, mishaps>>

(* triggerFailureAlert, triggerNoRunAlert: the time is noted before the record is *)
(* read once more and the event logged, which may not become an alert.           *)
Trigger ==
  IF attempt < ALERT_COOLDOWN THEN UNCHANGED <<alerts, mishaps>>
  ELSE /\ attempt' = 0
       /\ \/ Log /\ UNCHANGED mishaps
          \/ Mishap /\ sent' = 0 /\ UNCHANGED alerted

TriggersLate(failures) == failures > Threshold    \* fault: one run too late
Triggers(failures) == failures >= Threshold

(* recordJobFailure *)
RecordJobFailure ==
  LET failures == run.got.failures + 1 IN
  /\ run.phase = "failing"
  /\ metrics' = [run.got EXCEPT !.failures = failures]
  /\ streak' = streak + 1
  /\ IF Triggers(failures) THEN Trigger ELSE UNCHANGED <<alerts, mishaps>>
  /\ heard' = (sent' < ALERT_COOLDOWN + RATE_LIMIT)
  /\ run' = Idle
  /\ UNCHANGED <<heartbeat, lost, revived>>

(* Redis does not take the record. *)
RunIsNotRecorded ==
  /\ run.phase # "idle"
  /\ Mishap
  /\ IF run.phase = "failing" THEN streak' = streak + 1 /\ lost' = lost + 1
                              ELSE UNCHANGED <<streak, lost>>
  /\ run' = Idle
  /\ UNCHANGED <<metrics, heartbeat, alerts, revived, heard>>

(* checkHealthStatus and getInstanceHealth, which the health page asks for; the   *)
(* heartbeat of a process that answers is never old.                             *)
IsHealthy == metrics.failures < Threshold /\ metrics.ran # "longAgo"

AskHealth ==
  /\ metrics.ran = "longAgo"
  /\ Trigger
  /\ UNCHANGED <<metrics, heartbeat, run, account>>

FiveMinutesWithoutRun ==
  /\ metrics.ran = "recently"
  /\ metrics' = [metrics EXCEPT !.ran = "longAgo"]
  /\ heartbeat' = IF heartbeat.got.ran = "recently"
                  THEN [heartbeat EXCEPT !.got.ran = "longAgo"] ELSE heartbeat
  /\ run' = IF run.got.ran = "recently" THEN [run EXCEPT !.got.ran = "longAgo"] ELSE run
  /\ UNCHANGED <<alerts, account, mishaps>>

TimePasses ==
  /\ attempt' = IF attempt < ALERT_COOLDOWN THEN attempt + 1 ELSE attempt
  /\ alerted' = IF alerted < RATE_LIMIT THEN alerted + 1 ELSE alerted
  /\ sent' = IF sent < ALERT_COOLDOWN + RATE_LIMIT THEN sent + 1 ELSE sent
  /\ UNCHANGED <<metrics, heartbeat, run, account, mishaps>>

(* A new process has a new name and no record, or, with INSTANCE_ID set, the one  *)
(* that is there; both limits are in memory.                                    *)
Restart ==
  /\ Mishap
  /\ heartbeat' = Idle /\ run' = Idle
  /\ attempt' = ALERT_COOLDOWN /\ alerted' = RATE_LIMIT
  /\ \/ UNCHANGED <<metrics, account>>
     \/ metrics' = None /\ streak' = 0 /\ lost' = 0 /\ revived' = 0 /\ heard' = FALSE
  /\ UNCHANGED sent

Next ==
  \/ HeartbeatReads \/ HeartbeatWrites
  \/ \E phase \in {"succeeding", "failing"} : RunEnds(phase)
  \/ RecordJobSuccess \/ RecordJobFailure \/ RunIsNotRecorded \/ AskHealth
  \/ FiveMinutesWithoutRun \/ TimePasses \/ Restart

Spec == Init /\ [][Next]_vars
--------------------------------------------------------------------------------
(* A heartbeat that writes an older record over a newer one costs no more failed *)
(* runs than it took off, and counts no more than it put back: after Threshold    *)
(* failed runs in a row, not counting those taken off, the instance is shown as   *)
(* unhealthy, and at the last of them an alert was less than the two limits       *)
(* together old, whatever other alerts used them up; and the record reaches the   *)
(* Threshold only with failed runs or ones put back                              *)
(* (liquidator-metrics.service.ts:67-81, :120-135, :271-277,                     *)
(* security-monitor.service.ts:171-179).                                         *)
FailuresShow ==
  /\ streak - lost >= Threshold => ~IsHealthy /\ heard
  /\ metrics.failures >= Threshold => streak + revived >= Threshold
================================================================================
