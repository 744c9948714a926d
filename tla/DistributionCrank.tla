------------------------- MODULE DistributionCrank -------------------------
(***************************************************************************)
(* The server's distribution crank                                         *)
(* (apps/server/src/services/distribution-crank.service.ts) working on the *)
(* staking program of module Staking: a tick that finds the epoch ended    *)
(* advances it, reads the stakers and pays them in batches.                *)
(*                                                                         *)
(* A tick is several actions because the code awaits an answer between     *)
(* them, and meanwhile stakers, other callers of the permissionless        *)
(* instructions and a second tick (the job's worker runs one at a time,    *)
(* but a request to POST /crank/tick runs another) go on.  A transaction   *)
(* may be lost, its answer may be lost, and the process may restart.       *)
(***************************************************************************)
EXTENDS Staking

CONSTANTS
  Ticker,                               \* who calls tick: the job, the request
  BATCH_SIZE,                           \* stakers per transaction
  MAX_RETRIES,                          \* attempts at a transaction
  MIN_INTERVAL_BETWEEN_DISTRIBUTIONS,
  MAX_DISTRIBUTIONS_PER_HOUR,
  HOUR,
  MaxFaults                             \* bound on lost calls and restarts

ASSUME CrankAssumption ==
  /\ BATCH_SIZE \in Nat \ {0} /\ MAX_RETRIES \in Nat \ {0}
  /\ MIN_INTERVAL_BETWEEN_DISTRIBUTIONS \in Nat
  /\ MAX_DISTRIBUTIONS_PER_HOUR \in Nat /\ HOUR \in Nat /\ MaxFaults \in Nat

VARIABLES
  crank,                  \* the tick each ticker is in
  last_distribution,      \* lastDistributionTime, in memory
  distributions,          \* distributionsThisHour, in memory
  faults,                 \* how often a call was lost or the process restarted
  cause                   \* history: why a staker may go unpaid

limits == <<last_distribution, distributions>>
crankVars == <<vars, crank, limits, faults, cause>>

Idle == [phase |-> "idle", for_epoch |-> 0, attempt |-> 0, todo |-> <<>>,
         paid_a_batch |-> FALSE]

Phase(c) == crank[c].phase

Batch(c) == Range(Head(crank[c].todo))

(***************************************************************************)
(* cause says of the epoch being paid out (the one before current_epoch):  *)
(* unpaid, the stakers known to go without, because a call for them was    *)
(* given up, a limit stopped the tick, or the program had nothing for them; *)
(* stale, whether the tick that closed the epoch had read an earlier one.  *)
(***************************************************************************)
CrankInit ==
  /\ Init
  /\ crank = [c \in Ticker |-> Idle]
  /\ last_distribution = 0 - MIN_INTERVAL_BETWEEN_DISTRIBUTIONS
  /\ distributions = <<>>
  /\ faults = 0
  /\ cause = [unpaid |-> {}, stale |-> FALSE]

IsForThisEpoch(c) == crank[c].for_epoch = DistributableEpoch

\* The stakers a tick for the epoch being paid out still has to come to.
Pending(c) ==
  IF ~IsForThisEpoch(c) THEN {}
  ELSE CASE Phase(c) \in {"idle", "advancing"} -> {}
         [] Phase(c) \in {"checking", "reading"} -> Staker
         [] OTHER -> UNION {Range(crank[c].todo[i]) : i \in DOMAIN crank[c].todo}

GoUnpaid(c, S) ==
  cause' = IF IsForThisEpoch(c) THEN [cause EXCEPT !.unpaid = @ \cup S] ELSE cause

Finish(c) == crank' = [crank EXCEPT ![c] = Idle]

Proceed(c, phase) == crank' = [crank EXCEPT ![c].phase = phase]

Mishap ==
  /\ faults < MaxFaults
  /\ faults' = faults + 1

-----------------------------------------------------------------------------
(* tick: a paused pool or an epoch still running end it at once.            *)

EpochEnded == ~pool.paused /\ now >= EpochEndTime

\* Fault: the last epoch must be paid out to the last lamport first.
FindsEpochPaidOut ==
  EpochEnded /\ pool.last_epoch_distributed >= pool.last_epoch_rewards

FindsEpochEnded == EpochEnded

BeginTick(c) ==
  /\ Phase(c) = "idle"
  /\ FindsEpochEnded
  /\ crank' = [crank EXCEPT ![c] = [Idle EXCEPT !.phase = "advancing", !.attempt = 1,
                                                !.for_epoch = pool.current_epoch]]
  /\ UNCHANGED <<vars, limits, faults, cause>>

-----------------------------------------------------------------------------
(* advanceEpoch: up to MAX_RETRIES attempts.                                *)

RetryAdvance(c) ==
  IF crank[c].attempt < MAX_RETRIES
    THEN crank' = [crank EXCEPT ![c].attempt = @ + 1]
    ELSE Finish(c)

AdvanceLands(c) ==
  /\ Phase(c) = "advancing"
  /\ AdvanceEpoch
  /\ Proceed(c, "checking")
  /\ cause' = [unpaid |-> {}, stale |-> crank[c].for_epoch # pool.current_epoch]
  /\ UNCHANGED <<limits, faults>>

\* EpochNotEnded: another caller was first.
AdvanceRefused(c) ==
  /\ Phase(c) = "advancing"
  /\ now < EpochEndTime
  /\ Finish(c)
  /\ UNCHANGED <<vars, limits, faults, cause>>

\* The epoch is advanced and this process will not distribute it.
AdvancedElsewhere ==
  /\ AdvanceEpoch
  /\ cause' = [unpaid |-> Staker, stale |-> FALSE]

\* The transaction, or the answer to it, is lost.
AdvanceLost(c) ==
  /\ Phase(c) = "advancing"
  /\ Mishap
  /\ \/ UNCHANGED <<vars, cause>>
     \/ AdvancedElsewhere
  /\ RetryAdvance(c)
  /\ UNCHANGED limits

-----------------------------------------------------------------------------
(* distributeRewards: the limits, the stakers, the batches.                 *)

TooSoon == now - last_distribution < MIN_INTERVAL_BETWEEN_DISTRIBUTIONS

ThisHour == SelectSeq(distributions, LAMBDA t : t > now - HOUR)

\* The epoch has been advanced by now; a limit means it is not paid out.
StoppedByLimit(c) ==
  /\ Phase(c) = "checking"
  /\ TooSoon \/ Len(ThisHour) >= MAX_DISTRIBUTIONS_PER_HOUR
  /\ distributions' = IF TooSoon THEN distributions ELSE ThisHour
  /\ Finish(c)
  /\ GoUnpaid(c, Staker)
  /\ UNCHANGED <<vars, last_distribution, faults>>

WithinLimits(c) ==
  /\ Phase(c) = "checking"
  /\ ~TooSoon
  /\ Len(ThisHour) < MAX_DISTRIBUTIONS_PER_HOUR
  /\ distributions' = ThisHour
  /\ Proceed(c, "reading")
  /\ UNCHANGED <<vars, last_distribution, faults, cause>>

\* Fault: a newcomer waits one epoch more than the program asks.
IsListedLate(u, epoch) ==
  /\ user_stake[u].staked_amount > 0
  /\ user_stake[u].stake_start_epoch < epoch - 1
  /\ user_stake[u].last_rewarded_epoch < epoch

IsListed(u, epoch) ==
  /\ user_stake[u].staked_amount > 0
  /\ user_stake[u].stake_start_epoch < epoch
  /\ user_stake[u].last_rewarded_epoch < epoch

Chunk(list) ==
  [i \in 1 .. (Len(list) + BATCH_SIZE - 1) \div BATCH_SIZE |->
     SubSeq(list, (i - 1) * BATCH_SIZE + 1, Min({i * BATCH_SIZE, Len(list)}))]

\* getEligibleStakers: the accounts come in any order.
ReadStakers(c) ==
  /\ Phase(c) = "reading"
  /\ \E list \in SetToSeqs({u \in Staker : IsListed(u, crank[c].for_epoch)}) :
       IF list = <<>>
         THEN Finish(c)
         ELSE crank' = [crank EXCEPT ![c].phase = "paying", ![c].attempt = 1,
                                     ![c].todo = Chunk(list)]
  /\ UNCHANGED <<vars, limits, faults, cause>>

\* An error is answered with an empty list, and the tick is a success.
ReadStakersFails(c) ==
  /\ Phase(c) = "reading"
  /\ Mishap
  /\ Finish(c)
  /\ GoUnpaid(c, Staker)
  /\ UNCHANGED <<vars, limits>>

\* The limits are told of a tick that paid at least one batch.
NextBatch(c, paid) ==
  LET paid_a_batch == crank[c].paid_a_batch \/ paid
  IN  IF Len(crank[c].todo) > 1
      THEN /\ crank' = [crank EXCEPT ![c].phase = "paying", ![c].attempt = 1,
                                     ![c].todo = Tail(@),
                                     ![c].paid_a_batch = paid_a_batch]
           /\ UNCHANGED limits
      ELSE /\ Finish(c)
           /\ last_distribution' = IF paid_a_batch THEN now ELSE last_distribution
           /\ distributions' = IF paid_a_batch THEN Append(distributions, now)
                                               ELSE distributions

RetryBatch(c) ==
  IF crank[c].attempt < MAX_RETRIES
    THEN /\ crank' = [crank EXCEPT ![c].phase = "paying", ![c].attempt = @ + 1]
         /\ UNCHANGED <<limits, cause>>
    ELSE /\ NextBatch(c, FALSE)
         /\ GoUnpaid(c, Batch(c))

\* What the program makes of the batch: it pays some of it, answers Ok to an
\* all but empty vault (distribute_rewards.rs:61-64), or fails.
PaysNothing == HasRewards /\ RewardsPool < MIN_DISTRIBUTION

Refuses(batch) ==
  \/ ~HasRewards
  \/ RewardsPool >= MIN_DISTRIBUTION /\ ~RentExempt(PaymentRun(batch).vault)

Simulate(c) ==
  /\ Phase(c) = "paying"
  /\ IF Refuses(Head(crank[c].todo))
       THEN RetryBatch(c)
       ELSE Proceed(c, "sending") /\ UNCHANGED <<limits, cause>>
  /\ UNCHANGED <<vars, faults>>

\* Passed over are those with nothing coming, or more than the vault holds.
BatchPays(c) ==
  /\ Phase(c) = "sending"
  /\ DistributeRewards(Head(crank[c].todo))
  /\ NextBatch(c, TRUE)
  /\ GoUnpaid(c, {u \in Batch(c) : Rewardable(user_stake'[u])})
  /\ UNCHANGED faults

\* confirmTransaction does not throw when the transaction, fine in simulation,
\* fails on chain: the batch counts as paid.
BatchPaysNobody(c) ==
  /\ Phase(c) = "sending"
  /\ PaysNothing \/ Refuses(Head(crank[c].todo))
  /\ NextBatch(c, TRUE)
  /\ GoUnpaid(c, Batch(c))
  /\ UNCHANGED <<vars, faults>>

\* A call, the transaction, or the confirmation of it, is lost.
BatchLost(c) ==
  /\ Phase(c) \in {"paying", "sending"}
  /\ Mishap
  /\ \/ UNCHANGED vars
     \/ Phase(c) = "sending" /\ DistributeRewards(Head(crank[c].todo))
  /\ RetryBatch(c)

-----------------------------------------------------------------------------
(* The rest of the world.                                                   *)

\* The process forgets its ticks and its limits.
Restart ==
  /\ Mishap
  /\ crank' = [c \in Ticker |-> Idle]
  /\ last_distribution' = 0 - MIN_INTERVAL_BETWEEN_DISTRIBUTIONS
  /\ distributions' = <<>>
  /\ cause' = [cause EXCEPT !.unpaid = @ \cup UNION {Pending(c) : c \in Ticker}]
  /\ UNCHANGED vars

World ==
  /\ \/ Tick
     \/ StakerSteps
     \/ Income
     \/ \E value \in BOOLEAN : SetPaused(value)
     \/ \E duration \in EpochDurations : UpdateEpochDuration(duration)
     \/ Distribute
  /\ UNCHANGED cause

TickStep(c) ==
  \/ BeginTick(c)
  \/ AdvanceLands(c)
  \/ AdvanceRefused(c)
  \/ AdvanceLost(c)
  \/ StoppedByLimit(c)
  \/ WithinLimits(c)
  \/ ReadStakers(c)
  \/ ReadStakersFails(c)
  \/ Simulate(c)
  \/ BatchPays(c)
  \/ BatchPaysNobody(c)
  \/ BatchLost(c)

CrankNext ==
  \/ \E c \in Ticker : TickStep(c)
  \/ Restart
  \/ (World \/ AdvancedElsewhere) /\ UNCHANGED <<crank, limits, faults>>

CrankSpec == CrankInit /\ [][CrankNext]_crankVars

\* Time passes, and the queue keeps running the job (jobs/index.ts:128-130),
\* whose calls are answered in the end.
CrankLiveSpec ==
  /\ CrankSpec
  /\ WF_crankVars(Tick /\ UNCHANGED <<crank, limits, faults, cause>>)
  /\ \A c \in Ticker : WF_crankVars(TickStep(c))

-----------------------------------------------------------------------------
(* Properties.                                                              *)

\* Who has a reward of the epoch being paid out coming.
Owed == {u \in Staker : HasRewards /\ Rewardable(user_stake[u])}

\* When an epoch's payments end (the next one is closed), a staker still owed
\* is one a tick gave up on, or one whose batch the program answered without
\* paying them, or a tick is still at work on them: getEligibleStakers, the
\* batches and the retries leave nobody out, whatever is lost or lands twice.
\* Excepted is an epoch closed by a tick that had read an earlier one.
MissedOnlyWithCause ==
  [][pool'.current_epoch # pool.current_epoch
       => \/ cause.stale
          \/ Owed \subseteq cause.unpaid \cup UNION {Pending(c) : c \in Ticker}]_crankVars

\* The crank catches up with the clock, unless the pool is paused, through lost
\* transactions, lost answers and restarts: no failure leaves a tick waiting
\* or an epoch unadvanced (service.ts:144-223, :291-327).
CrankCatchesUp ==
  EpochEnded ~> (~EpochEnded \/ pool.current_epoch = MaxEpoch)
=============================================================================
