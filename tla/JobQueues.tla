------------------------------- MODULE JobQueues -------------------------------
(* The background jobs of the server (apps/server/src/jobs/index.ts and the job  *)
(* modules it gives its workers), as several processes share them in redis.      *)
(*                                                                              *)
(* Every process that starts removes the repeatable jobs it finds in a queue and *)
(* adds its own, one call to redis at a time, while the workers of the others    *)
(* and its own take jobs.  A call may fail, and a process may end at any point.  *)
(*                                                                              *)
(* What a job does is in LoanKeeper (check-liquidations), DistributionCrank      *)
(* (distribution-tick); here a job runs until it ends.                           *)
EXTENDS Integers, Sequences

CONSTANTS Server,           \* processes, API servers and liquidators alike
          Queue,            \* the queues looked at, of those in Schedule
          MaxFaults         \* bound on failed calls and crashes

(* What initializeJobs registers, queue by queue.  The last is scheduled by      *)
(* scheduleLPMonitoring, which removes nothing.                                 *)
Schedule == <<
  <<"check-liquidations", "cleanup-metrics">>,
  <<"update-prices", "check-price-alerts">>,
  <<"sync-protocol-state", "sync-loans">>,
  <<"check-due-notifications", "daily-summary">>,
  <<"distribution-tick">>,
  <<"monitor-lp-limits">> >>

LpMonitor == 6

(* A repeatable job is its queue and its name; an earlier version may have left   *)
(* others, of names or intervals that are no longer used.                       *)
Job == UNION {{<<q, Schedule[q][i]>> : i \in DOMAIN Schedule[q]} : q \in Queue}
Outdated == (Queue \ {LpMonitor}) \X {"outdated"}

VARIABLES registered,       \* repeatable jobs in redis
          server,           \* per process: how far it has come in initializeJobs
          waiting,          \* per queue: jobs that are due, in order
          running,          \* per process and queue: the job its worker has, or {}
          stalled,          \* jobs whose worker ended
          dropped,          \* history: jobs missing since the setup of a process
                            \*   failed for good
          faults

vars == <<registered, server, waiting, running, stalled, dropped, faults>>

Mishap == faults < MaxFaults /\ faults' = faults + 1

Down == [phase |-> "down", queue |-> 0, found |-> {}, added |-> 0]

Init ==
  /\ registered \in {{}, Outdated}
  /\ server = [s \in Server |-> Down]
  /\ waiting = [q \in Queue |-> <<>>]
  /\ running = [s \in Server |-> [q \in Queue |-> {}]]
  /\ stalled = {} /\ dropped = {} /\ faults = 0

NextQueue(n) == IF \E q \in Queue : q > n
                THEN CHOOSE q \in Queue : q > n /\ \A r \in Queue : r > n => q <= r
                ELSE 0
--------------------------------------------------------------------------------
(* The callback of serve starts initializeJobs without waiting for it; the       *)
(* workers exist since the module was loaded.                                   *)
ToQueue(s, q) ==
  server' = [server EXCEPT ![s] =
    IF q = 0 THEN [Down EXCEPT !.phase = "up"]
    ELSE [phase |-> IF q = LpMonitor THEN "adding" ELSE "reading",
          queue |-> q, found |-> {}, added |-> 0]]

Start(s) ==
  /\ server[s].phase = "down"
  /\ ToQueue(s, NextQueue(0))
  /\ UNCHANGED <<registered, waiting, running, stalled, dropped, faults>>

(* setupRepeatableJobs: getRepeatableJobs *)
ReadRepeatables(s) ==
  LET q == server[s].queue IN
  /\ server[s].phase = "reading"
  /\ server' = [server EXCEPT ![s].phase = "adding",
                              ![s].found = {j \in registered : j[1] = q}]
  /\ UNCHANGED <<registered, waiting, running, stalled, dropped, faults>>

(* removeRepeatableByKey; that it failed is only logged. *)
Remove(s, j) ==
  /\ server[s].phase = "adding" /\ j \in server[s].found
  /\ server' = [server EXCEPT ![s].found = @ \ {j}]
  /\ \/ registered' = registered \ {j} /\ UNCHANGED faults
     \/ Mishap /\ UNCHANGED registered
  /\ UNCHANGED <<waiting, running, stalled, dropped>>

MayAddBefore(s) == TRUE           \* fault: the old ones are removed last
MayAdd(s) == server[s].found = {}

Add(s) ==
  LET q == server[s].queue
      n == server[s].added + 1
  IN
  /\ server[s].phase = "adding" /\ MayAdd(s) /\ n <= Len(Schedule[q])
  /\ registered' = registered \cup {<<q, Schedule[q][n]>>}
  /\ dropped' = dropped \ {<<q, Schedule[q][n]>>}
  /\ server' = [server EXCEPT ![s].added = n]
  /\ UNCHANGED <<waiting, running, stalled, faults>>

QueueDone(s) ==
  /\ server[s].phase = "adding" /\ server[s].found = {}
  /\ server[s].added = Len(Schedule[server[s].queue])
  /\ ToQueue(s, NextQueue(server[s].queue))
  /\ UNCHANGED <<registered, waiting, running, stalled, dropped, faults>>

(* Any other failure ends initializeJobs; the process goes on without the rest.  *)
SetupFails(s) ==
  /\ server[s].phase \in {"reading", "adding"}
  /\ Mishap
  /\ server' = [server EXCEPT ![s] = [Down EXCEPT !.phase = "up"]]
  /\ dropped' = dropped \cup (Job \ registered)
  /\ UNCHANGED <<registered, waiting, running, stalled>>

(* A process crashes or is stopped: gracefulShutdown closes no worker and no      *)
(* queue.  PM2 starts it again.                                                 *)
Crash(s) ==
  /\ server[s].phase # "down"
  /\ Mishap
  /\ server' = [server EXCEPT ![s] = Down]
  /\ running' = [running EXCEPT ![s] = [q \in Queue |-> {}]]
  /\ stalled' = stalled \cup UNION {running[s][q] : q \in Queue}
  /\ UNCHANGED <<registered, waiting, dropped>>
--------------------------------------------------------------------------------
(* The queues of BullMQ.  The next run of a repeatable job is delayed until its  *)
(* time comes, and is there once.                                               *)
Pending(j) ==
  \/ \E i \in DOMAIN waiting[j[1]] : waiting[j[1]][i] = j
  \/ \E s \in Server : j \in running[s][j[1]]
  \/ j \in stalled

BecomesDue(j) ==
  /\ j \in registered /\ ~Pending(j)
  /\ waiting' = [waiting EXCEPT ![j[1]] = Append(@, j)]
  /\ UNCHANGED <<registered, server, running, stalled, dropped, faults>>

(* concurrency: 1 in all but the notifications, whose jobs are long apart. *)
Take(s, q) ==
  /\ server[s].phase # "down"
  /\ running[s][q] = {} /\ waiting[q] # <<>>
  /\ running' = [running EXCEPT ![s][q] = {Head(waiting[q])}]
  /\ waiting' = [waiting EXCEPT ![q] = Tail(@)]
  /\ UNCHANGED <<registered, server, stalled, dropped, faults>>

(* The job returns or throws, which the handlers of `failed` report. *)
Finish(s, q) ==
  /\ running[s][q] # {}
  /\ running' = [running EXCEPT ![s][q] = {}]
  /\ UNCHANGED <<registered, server, waiting, stalled, dropped, faults>>

(* Another worker finds a job whose lock expired: it is tried again, or given up. *)
FindStalled(s, j) ==
  /\ server[s].phase # "down" /\ j \in stalled
  /\ stalled' = stalled \ {j}
  /\ \/ waiting' = [waiting EXCEPT ![j[1]] = <<j>> \o @]
     \/ UNCHANGED waiting
  /\ UNCHANGED <<registered, server, running, dropped, faults>>

(* What each does next, of which there is only one thing: *)
Run(s) ==
  Start(s) \/ ReadRepeatables(s) \/ (\E j \in server[s].found : Remove(s, j)) \/ Add(s) \/ QueueDone(s)
Work(s, q) == Take(s, q) \/ Finish(s, q)
Return(j) == BecomesDue(j) \/ \E s \in Server : FindStalled(s, j)

Next ==
  \/ \E s \in Server : Run(s) \/ SetupFails(s) \/ Crash(s)
  \/ \E s \in Server, q \in Queue : Work(s, q)
  \/ \E j \in Job \cup stalled : Return(j)

Spec == Init /\ [][Next]_vars

(* PM2 starts processes again, redis answers, time passes and every job ends     *)
(* (its calls have timeouts); workers look for stalled jobs every 30 s.          *)
Fairness ==
  /\ \A s \in Server : WF_vars(Run(s))
  /\ \A s \in Server, q \in Queue : WF_vars(Work(s, q))
  /\ \A j \in Job : WF_vars(Return(j))

LiveSpec == Spec /\ Fairness
--------------------------------------------------------------------------------
(* However the processes start, end and start again in each other's setup, every *)
(* job of the schedule runs again and again, unless the setup of a process        *)
(* failed while the job was missing (jobs/index.ts:56-90).                        *)
JobsKeepRunning ==
  \A j \in Job : ([]<>(\E s \in Server : j \in running[s][j[1]])) \/ <>[](j \in dropped)
================================================================================
