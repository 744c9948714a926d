----------------------------- MODULE LoanKeeper -----------------------------
(***************************************************************************)
(* How the server keeps its copy of the loan book and closes loans in time *)
(* (apps/server/src/services/loan.service.ts, jobs/liquidation.job.ts,     *)
(* utils/redlock.ts and the triggers of services/fast-price-monitor.ts),   *)
(* with the web client that tells it of new and repaid loans               *)
(* (apps/web/src/lib/loan-transactions.ts, routes/repay/[id].tsx).         *)
(*                                                                         *)
(* The chain knows the truth about a loan, the database follows it, and    *)
(* each server process watches the price of the loans it has registered.   *)
(* Liquidations are started by the queue's job, which takes a lock, by a   *)
(* price alert and by a request, which take none.  Every activity awaits   *)
(* an answer between two of its steps, and the others go on meanwhile.     *)
(***************************************************************************)
EXTENDS Integers, FiniteSets

CONSTANTS
  Loan, Server,
  Job, Alert, Request,          \* activities: the queue's worker, a triggered
                                \* liquidation, a request being served
  Home,                         \* the server an activity runs on
  MAX_ATTEMPTS,                 \* maxRetries of liquidateLoan
  MaxFaults                     \* bound on lost answers, errors, restarts and
                                \* repayments reported that were not

Activity == Job \cup Alert \cup Request

ASSUME KeeperAssumption ==
  /\ MAX_ATTEMPTS \in Nat \ {0} /\ MaxFaults \in Nat
  /\ Home \in [Activity -> Server]

Nobody == "nobody"
Closed == {"repaid", "liquidated"}

VARIABLES
  chain,        \* the status of each loan on chain
  due, low,     \* the loans past due; those whose token's price is low enough
  told,         \* the loans whose borrower's browser saw them confirmed in time
  db,           \* the status of each loan in the database
  recorded,     \* rows of liquidationResult for each loan
  monitored,    \* each server's thresholds
  running,      \* the servers whose price monitor polls
  lock,         \* who holds the lock of each loan
  act,          \* what each activity is doing
  adrift,       \* loans with a liquidation sent whose fate nobody knows
  faults,
  excused,      \* history: loans whose liquidation the database may miss
  misled,       \* history: loans the server was told were repaid when they were not
  unwatched     \* history: active loans whose tracking broke off after the row

world == <<chain, due, low, told>>
doubts == <<misled, unwatched>>
vars == <<world, db, recorded, monitored, running, lock, act, adrift, faults, excused, doubts>>

Idle == [phase |-> "idle", loan |-> Nobody, attempt |-> 0, outcome |-> "none", todo |-> {}]

Phase(a) == act[a].phase
LoanOf(a) == act[a].loan
Become(a, phase) == act' = [act EXCEPT ![a].phase = phase]
Finish(a) == act' = [act EXCEPT ![a] = Idle]
Start(a, l, phase, outcome) ==
  /\ Phase(a) = "idle"
  /\ act' = [act EXCEPT ![a] = [Idle EXCEPT !.phase = phase, !.loan = l, !.outcome = outcome]]

Mishap == faults < MaxFaults /\ faults' = faults + 1

Init ==
  /\ chain = [l \in Loan |-> "none"] /\ db = [l \in Loan |-> "none"]
  /\ due = {} /\ low = {} /\ told = {}
  /\ recorded = [l \in Loan |-> 0]
  /\ monitored = [s \in Server |-> {}] /\ running = Server
  /\ lock = [l \in Loan |-> Nobody]
  /\ act = [a \in Activity |-> Idle]
  /\ adrift = {} /\ faults = 0 /\ excused = {} /\ misled = {} /\ unwatched = {}

-----------------------------------------------------------------------------
(* The chain, the market and the borrower's browser.                        *)

Seizable(l) == chain[l] = "active" /\ l \in due \cup low

\* The signed transaction of createLoan lands at some time, or never.
LoanLands(l) ==
  /\ chain[l] = "none"
  /\ chain' = [chain EXCEPT ![l] = "active"]

\* After 30 s, or an error, createLoan throws and the loan is not tracked.
ClientSeesLoan(l) ==
  /\ chain[l] # "none" /\ l \notin told
  /\ told' = told \cup {l}

BorrowerRepays(l) ==
  /\ chain[l] = "active"
  /\ chain' = [chain EXCEPT ![l] = "repaid"]

PriceMoves(l) ==
  low' = IF l \in low THEN low \ {l} ELSE low \cup {l}

BecomesDue(l) == l \notin due /\ chain[l] # "none" /\ due' = due \cup {l}

\* A transaction given up for lost lands after all.
LandsLate(l) ==
  /\ l \in adrift /\ Seizable(l)
  /\ chain' = [chain EXCEPT ![l] = "liquidated"]
  /\ adrift' = adrift \ {l}
  /\ excused' = excused \cup {l}

World ==
  /\ \E l \in Loan :
       \/ ClientSeesLoan(l) /\ UNCHANGED <<chain, due, low, adrift, excused>>
       \/ (LoanLands(l) \/ BorrowerRepays(l)) /\ UNCHANGED <<due, low, told, adrift, excused>>
       \/ LandsLate(l) /\ UNCHANGED <<due, low, told>>
       \/ PriceMoves(l) /\ UNCHANGED <<chain, due, told, adrift, excused>>
       \/ BecomesDue(l) /\ UNCHANGED <<chain, low, told, adrift, excused>>
  /\ UNCHANGED <<db, recorded, monitored, running, lock, act, faults, doubts>>

-----------------------------------------------------------------------------
(* trackCreatedLoan, for the browser that saw the loan confirmed, and for   *)
(* the loans page and POST /sync, which look for active loans on chain.     *)

BeginTrack(r, l) ==
  /\ l \in told \/ chain[l] = "active"
  /\ db[l] = "none"
  /\ Start(r, l, "creating", "none")
  /\ UNCHANGED <<db, monitored, faults, excused, unwatched>>

\* The row is created active whatever has become of the loan by now; of two
\* requests the second meets the unique id and fails.
Create(r) ==
  LET l == LoanOf(r) IN
  /\ Phase(r) = "creating"
  /\ IF db[l] = "none"
       THEN /\ db' = [db EXCEPT ![l] = "active"]
            /\ excused' = IF chain[l] = "active" THEN excused ELSE excused \cup {l}
            /\ Become(r, "registering")
       ELSE Finish(r) /\ UNCHANGED <<db, excused>>
  /\ UNCHANGED <<monitored, faults, unwatched>>

\* Fault: a row without a threshold goes unmentioned.
RegisterOrNot(r) ==
  /\ Phase(r) = "registering"
  /\ \/ /\ monitored' = [monitored EXCEPT ![Home[r]] = @ \cup {LoanOf(r)}]
        /\ UNCHANGED faults
     \/ Mishap /\ UNCHANGED monitored
  /\ Finish(r)
  /\ UNCHANGED <<db, excused, unwatched>>

\* The security log and the query of recent loans come between row and threshold;
\* if one throws, a later call finds the row and leaves it at that.
Register(r) ==
  /\ Phase(r) = "registering"
  /\ \/ /\ monitored' = [monitored EXCEPT ![Home[r]] = @ \cup {LoanOf(r)}]
        /\ UNCHANGED <<faults, unwatched>>
     \/ Mishap /\ unwatched' = unwatched \cup {LoanOf(r)} /\ UNCHANGED monitored
  /\ Finish(r)
  /\ UNCHANGED <<db, excused>>

-----------------------------------------------------------------------------
(* confirmRepayment, syncLoanStatusFromChain and repayLoan: each looks at   *)
(* the database first and writes to it later, without looking again.        *)

\* What is said of a loan is taken for true.
Believe(l) ==
  \/ chain[l] = "repaid" /\ UNCHANGED <<faults, misled>>
  \/ chain[l] # "repaid" /\ Mishap /\ misled' = misled \cup {l}

\* The caller, in the web client the repay page that has seen the repayment
\* confirmed, is not asked for more than its word.
BeginConfirm(r, l) ==
  /\ db[l] = "active"
  /\ Start(r, l, "closing", "repaid")
  /\ Believe(l)

\* Fault: whatever has closed the loan, it is taken to be repaid.
BeginSyncAsRepaid(r, l) ==
  /\ chain[l] \in Closed /\ db[l] = "active"
  /\ Start(r, l, "closing", "repaid")
  /\ UNCHANGED <<faults, misled>>

\* The account's status, or a node's answer that there is no such account, which
\* the program never makes true: it is taken for a repayment.
BeginSync(r, l) ==
  /\ db[l] = "active"
  /\ \/ /\ chain[l] \in Closed
        /\ Start(r, l, "closing", chain[l])
        /\ UNCHANGED <<faults, misled>>
     \/ Start(r, l, "closing", "repaid") /\ Believe(l)

BeginRepay(r, l) ==
  db[l] = "active" /\ Start(r, l, "repaying", "repaid") /\ UNCHANGED <<faults, misled>>

RepayAnswered(r) ==
  /\ Phase(r) = "repaying"
  /\ IF chain[LoanOf(r)] = "active"
       THEN /\ chain' = [chain EXCEPT ![LoanOf(r)] = "repaid"]
            /\ \/ Become(r, "closing") /\ UNCHANGED faults
               \/ Finish(r) /\ Mishap
       ELSE Finish(r) /\ UNCHANGED <<chain, faults>>
  /\ UNCHANGED <<due, low, told, db, recorded, monitored, running, lock, adrift, excused, doubts>>

-----------------------------------------------------------------------------
(* liquidateLoan: up to MAX_ATTEMPTS transactions, then the database.       *)

BeginLiquidation(a, l) ==
  /\ db[l] # "none"
  /\ Phase(a) = "idle"
  /\ act' = [act EXCEPT ![a] = [Idle EXCEPT !.phase = "sending", !.loan = l, !.attempt = 1,
                                            !.outcome = "liquidated"]]

\* A job releases the lock, if it still has it, and goes on with the next loan.
End(a) ==
  /\ lock' = [l \in Loan |-> IF lock[l] = a THEN Nobody ELSE lock[l]]
  /\ act' = [act EXCEPT ![a] =
       IF act[a].todo = {} THEN Idle ELSE [Idle EXCEPT !.phase = "locking", !.todo = act[a].todo]]

TryAgain(a) ==
  act' = [act EXCEPT ![a].phase = "sending", ![a].attempt = @ + 1] /\ UNCHANGED lock

\* Fault: the last failed attempt is followed by the code after the loop.
RetryThenGoOn(a) ==
  IF act[a].attempt < MAX_ATTEMPTS THEN TryAgain(a) ELSE Become(a, "closing") /\ UNCHANGED lock

Retry(a) == IF act[a].attempt < MAX_ATTEMPTS THEN TryAgain(a) ELSE End(a)

\* Fault: the last attempt counts as failed whatever its answer.
LandedUnlessLast(a) ==
  IF act[a].attempt < MAX_ATTEMPTS THEN Become(a, "closing") /\ UNCHANGED lock ELSE End(a)

Landed(a) == Become(a, "closing") /\ UNCHANGED lock

\* The transaction lands and is confirmed, or nothing is heard of it for a
\* minute, which counts as much; or the program refuses it; or a lost call or a
\* failing poll makes the attempt fail with the transaction, if its simulation
\* let it out, on its way.  The look at the loan afterwards changes nothing: what
\* it throws is caught.
Send(a) ==
  LET l == LoanOf(a) IN
  /\ Phase(a) = "sending"
  /\ \/ /\ Seizable(l)
        /\ chain' = [chain EXCEPT ![l] = "liquidated"]
        /\ Landed(a)
        /\ UNCHANGED <<adrift, faults>>
     \/ /\ ~Seizable(l)
        /\ Retry(a)
        /\ UNCHANGED <<chain, adrift, faults>>
     \/ /\ Retry(a) /\ Mishap
        /\ adrift' = IF Seizable(l) THEN adrift \cup {l} ELSE adrift
        /\ UNCHANGED chain
  /\ UNCHANGED <<due, low, told, db, recorded, monitored, running, excused, doubts>>

\* The update asks neither the chain nor the database what became of the loan.
Close(a) ==
  LET l == LoanOf(a) IN
  /\ Phase(a) = "closing"
  /\ \/ /\ db' = [db EXCEPT ![l] = act[a].outcome]
        /\ Become(a, "cleaning")
        /\ UNCHANGED <<lock, faults, excused>>
     \/ End(a) /\ Mishap /\ excused' = excused \cup {l} /\ UNCHANGED db
  /\ UNCHANGED <<world, recorded, monitored, running, adrift, doubts>>

\* The threshold goes, and a liquidation is recorded (its failure is only
\* logged).
CleanUp(a) ==
  LET l == LoanOf(a) IN
  /\ Phase(a) = "cleaning"
  /\ monitored' = [monitored EXCEPT ![Home[a]] = @ \ {l}]
  /\ IF act[a].attempt > 0
       THEN \/ recorded' = [recorded EXCEPT ![l] = @ + 1] /\ UNCHANGED faults
            \/ Mishap /\ UNCHANGED recorded
       ELSE UNCHANGED <<recorded, faults>>
  /\ End(a)
  /\ UNCHANGED <<world, db, running, adrift, excused, doubts>>

-----------------------------------------------------------------------------
(* The liquidation job: scan, and for every loan found lock, look again,    *)
(* liquidate, release.                                                      *)

\* A price that cannot be had leaves a loan that is not due for the next scan.
Scan(j) ==
  \E priced \in SUBSET low :
    /\ Phase(j) = "idle"
    /\ act' = [act EXCEPT ![j] =
         [Idle EXCEPT !.phase = "locking", !.todo = {l \in due \cup priced : db[l] = "active"}]]
    /\ act'[j].todo # {}
    /\ \/ priced = low /\ UNCHANGED faults
       \/ priced # low /\ Mishap
    /\ UNCHANGED lock

Skip(j, l) ==
  /\ act' = [act EXCEPT ![j] =
       IF act[j].todo = {l} THEN Idle ELSE [act[j] EXCEPT !.todo = @ \ {l}]]
  /\ UNCHANGED lock

\* tryWithLock: a lock that is taken means the next loan.  Under the lock the
\* chain is asked again; an error, and a missing key, count as a no.
NextLoan(j) ==
  /\ Phase(j) = "locking"
  /\ \E l \in act[j].todo :
       IF lock[l] = Nobody /\ Seizable(l)
       THEN \/ /\ lock' = [lock EXCEPT ![l] = j]
               /\ act' = [act EXCEPT ![j].phase = "sending", ![j].loan = l, ![j].attempt = 1,
                                     ![j].outcome = "liquidated", ![j].todo = @ \ {l}]
               /\ UNCHANGED faults
            \/ Skip(j, l) /\ Mishap
       ELSE Skip(j, l) /\ UNCHANGED faults

JobStep(j) ==
  /\ Scan(j) \/ NextLoan(j)
  /\ UNCHANGED <<world, db, recorded, monitored, running, adrift, excused, doubts>>

\* Fault: the lock has no time to live.
LockStays(l) == FALSE

\* The 15 s pass, whether or not the holder is still at work.
LockExpires(l) ==
  /\ lock[l] # Nobody
  /\ lock' = [lock EXCEPT ![l] = Nobody]
  /\ UNCHANGED <<world, db, recorded, monitored, running, act, adrift, faults, excused, doubts>>

-----------------------------------------------------------------------------
(* The price monitor's triggers, and the process it lives in.               *)

Trigger(a, l) ==
  /\ Home[a] \in running
  /\ l \in monitored[Home[a]] \cap low
  /\ BeginLiquidation(a, l)

\* Fault: the active loans are looked for by another spelling of the status.
ActiveInDbMisspelt == {l \in Loan : db[l] = "Active"}

ActiveInDb == {l \in Loan : db[l] = "active"}

\* The process ends: stopped, or by the 'error' nobody listens to that the price
\* monitor emits after ten failed polls; PM2 starts it again.  What it was doing
\* is lost, transactions it had sent may still land, its locks stay, and the
\* monitor loads the active loans; if that fails the server does without one.
Restart(s) ==
  LET here == {a \in Activity : Home[a] = s} IN
  /\ Mishap
  /\ act' = [a \in Activity |-> IF a \in here THEN Idle ELSE act[a]]
  /\ adrift' = adrift \cup {LoanOf(a) : a \in {b \in here : Phase(b) = "sending" /\ Seizable(LoanOf(b))}}
  /\ excused' = excused \cup {LoanOf(a) : a \in {b \in here : Phase(b) = "closing"}}
  /\ \/ /\ monitored' = [monitored EXCEPT ![s] = ActiveInDb]
        /\ running' = running \cup {s}
        /\ unwatched' = unwatched \ ActiveInDb
     \/ /\ monitored' = [monitored EXCEPT ![s] = {}]
        /\ running' = running \ {s}
        /\ UNCHANGED unwatched

LiquidationStep(a) == Send(a) \/ Close(a) \/ CleanUp(a)

RequestStep(r) ==
  \/ /\ \/ \E l \in Loan : BeginTrack(r, l)
        \/ Create(r)
        \/ Register(r)
     /\ UNCHANGED <<world, recorded, running, lock, adrift, misled>>
  \/ /\ \E l \in Loan :
          \/ BeginConfirm(r, l)
          \/ BeginSync(r, l)
          \/ BeginRepay(r, l)
          \/ BeginLiquidation(r, l) /\ UNCHANGED <<faults, misled>>
     /\ UNCHANGED <<world, db, recorded, monitored, running, lock, adrift, excused, unwatched>>
  \/ RepayAnswered(r)

Next ==
  \/ World
  \/ \E r \in Request : RequestStep(r)
  \/ \E j \in Job : JobStep(j)
  \/ \E a \in Alert, l \in Loan :
       /\ Trigger(a, l)
       /\ UNCHANGED <<world, db, recorded, monitored, running, lock, adrift, faults, excused, doubts>>
  \/ \E a \in Activity : LiquidationStep(a)
  \/ \E l \in Loan : LockExpires(l)
  \/ \E s \in Server : Restart(s) /\ UNCHANGED <<world, db, recorded, lock, misled>>

Spec == Init /\ [][Next]_vars

\* The queue runs the job every five seconds, its calls are answered in the
\* end, and locks expire; nothing is asked of alerts, requests and borrowers.
LiveSpec ==
  /\ Spec
  /\ \A j \in Job : WF_vars(JobStep(j) \/ LiquidationStep(j))
  /\ \A l \in Loan : WF_vars(LockExpires(l))
-----------------------------------------------------------------------------
(* Properties.                                                              *)

\* A loan the database shows closed is closed on chain, and in the same way:
\* neither the unconditional updates of liquidateLoan (loan.service.ts:680) and
\* confirmRepayment (:502), nor two liquidations, a repayment and a sync racing,
\* show a repaid loan liquidated or an active one closed.  Only a caller or a
\* node that tells of a repayment that was not can have it wrong, and then the
\* row says repaid: no row says liquidated that is not.
ClosedAsOnChain ==
  \A l \in Loan : db[l] \in Closed => chain[l] = db[l] \/ (l \in misled /\ db[l] = "repaid")

\* A liquidation is recorded at most once, and no loan is recorded that was not
\* liquidated, however many of the job, alerts and requests are at it: the
\* circuit breaker counts these rows (circuit-breaker.service.ts:55-79).
RecordedOnce ==
  \A l \in Loan : recorded[l] <= 1 /\ (recorded[l] = 1 => chain[l] = "liquidated")

\* A loan liquidated on chain is active in the database only while somebody is
\* about to close it there; excused are loans for which an answer, an update or
\* the process was lost, and those tracked when they were closed already.
LiquidationIsBooked ==
  \A l \in Loan : chain[l] = "liquidated" /\ db[l] = "active" =>
    \/ l \in excused
    \/ \E a \in Activity : LoanOf(a) = l /\ Phase(a) = "closing"

\* While every server's price monitor runs, each loan active in the database has
\* its threshold on one of them, through restarts between the row's creation
\* and its registration (loan.service.ts:811-922, fast-price-monitor.ts:732-755);
\* unless a call threw between the two, and then until a monitor starts again.
MonitoredWhileActive ==
  running = Server => \A l \in Loan : db[l] = "active" =>
    \/ l \in unwatched
    \/ \E s \in Server : l \in monitored[s]
    \/ \E r \in Request : LoanOf(r) = l /\ Phase(r) = "registering"

\* A tracked loan that is past due is closed in the end, through failed and
\* half-done liquidations, missing monitors, and jobs that died with the lock:
\* index.ts:401, "Liquidation job will still run as backup".  The job asks the
\* database which loans are active, so a loan wrongly shown repaid is left alone.
DueLoanIsClosed ==
  \A l \in Loan : (db[l] = "active" /\ l \in due) ~> (chain[l] # "active" \/ l \in misled)
=============================================================================
