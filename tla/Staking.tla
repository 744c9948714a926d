------------------------------ MODULE Staking ------------------------------
(***************************************************************************)
(* The staking half of the on-chain program                                *)
(* (programs/memecoin-lending/src/instructions/staking): the staking pool  *)
(* and its epochs, the stakers' positions, and the reward vault from which *)
(* a finished epoch's rewards are paid out in batches.                     *)
(*                                                                         *)
(* One action is one instruction, as in Lending; anyone may advance an     *)
(* epoch that has ended and distribute to any batch of stakers, so the     *)
(* interleavings of stakers, depositors, administrators and distributors   *)
(* are all there.                                                          *)
(***************************************************************************)
EXTENDS Integers, FiniteSets, FiniteSetsExt, SequencesExt

CONSTANTS
  Staker,
  StakeAmounts,         \* amounts stake may be called with
  UnstakeAmounts,       \* amounts unstake may be called with
  DepositAmounts,       \* amounts deposit_rewards may be called with
  FeeAmounts,           \* lamports the vault receives outside this module
  EpochDurations,       \* durations the authority may set
  MayForceAdvance,      \* whether the authority uses force_advance_epoch
  InitialTokens,        \* governance tokens of each staker
  MIN_STAKE_AMOUNT,     \* utils.rs:64
  MIN_DISTRIBUTION,     \* distribute_rewards.rs:62, 1000 lamports
  RENT_EXEMPT_MINIMUM,  \* Rent::minimum_balance(0)
  MaxBatch,             \* bound on the pairs passed to distribute_rewards
  MaxNow,               \* bound on the clock
  MaxEpoch,             \* bound on current_epoch
  MaxReceived           \* bound on what the reward vault is ever sent

ASSUME StakingAssumption ==
  /\ IsFiniteSet(Staker)
  /\ StakeAmounts \subseteq Nat /\ UnstakeAmounts \subseteq Nat
  /\ DepositAmounts \subseteq Nat /\ FeeAmounts \subseteq Nat
  /\ EpochDurations \subseteq Nat \ {0} /\ EpochDurations # {}
  /\ MayForceAdvance \in BOOLEAN
  /\ InitialTokens \in Nat /\ MIN_STAKE_AMOUNT \in Nat \ {0}
  /\ MIN_DISTRIBUTION \in Nat \ {0} /\ RENT_EXEMPT_MINIMUM \in Nat
  /\ MaxBatch \in Nat /\ MaxNow \in Nat /\ MaxEpoch \in Nat \ {0}
  /\ MaxReceived \in Nat

VARIABLES
  now,                  \* Clock::unix_timestamp
  pool,                 \* the StakingPool PDA
  user_stake,           \* UserStake PDAs
  tokens,               \* governance tokens in the stakers' wallets
  staking_vault,        \* governance tokens staked
  reward_vault,         \* lamports of the reward vault PDA
  audit                 \* history: what the accounts no longer say

vars == <<now, pool, user_stake, tokens, staking_vault, reward_vault, audit>>
stakeVars == <<user_stake, tokens, staking_vault>>

NoStake == [exists |-> FALSE, staked_amount |-> 0, stake_start_epoch |-> 0,
            last_rewarded_epoch |-> 0, total_rewards_received |-> 0]

Staked(S) == SumFunctionOnSet([u \in Staker |-> user_stake[u].staked_amount], S)
WithStake == {u \in Staker : user_stake[u].staked_amount > 0}

(***************************************************************************)
(* audit: fees, the lamports that reached the vault without deposit_rewards*)
(* (repay_loan, distribute_creator_fees); drained, what the authority took; *)
(* forfeited, rewards force_advance_epoch dropped; overpaid, payments of    *)
(* an epoch beyond its rewards; topped_up and forced, whether an eligible   *)
(* stake grew, or force_advance_epoch ran, since advance_epoch last did;    *)
(* held[e], who has had stake ever since the start of epoch e, kept for the *)
(* current epoch and the one before; paid, who was paid since the last      *)
(* epoch ended.                                                            *)
(***************************************************************************)
Init ==
  /\ now = 0
  /\ \E duration \in EpochDurations :
       pool = [current_epoch |-> 1, epoch_duration |-> duration,
               epoch_start_time |-> 0, total_staked |-> 0,
               current_epoch_eligible_stake |-> 0, current_epoch_rewards |-> 0,
               last_epoch_rewards |-> 0, last_epoch_eligible_stake |-> 0,
               last_epoch_distributed |-> 0, total_rewards_distributed |-> 0,
               total_rewards_deposited |-> 0, paused |-> FALSE]
  /\ user_stake = [u \in Staker |-> NoStake]
  /\ tokens = [u \in Staker |-> InitialTokens]
  /\ staking_vault = 0
  /\ reward_vault = 0
  /\ audit = [fees |-> 0, drained |-> 0, forfeited |-> 0, overpaid |-> 0,
              topped_up |-> FALSE, forced |-> FALSE,
              held_current |-> {}, held_last |-> {}, paid |-> {}]

Tick ==
  /\ now < MaxNow
  /\ now' = now + 1
  /\ UNCHANGED <<pool, stakeVars, reward_vault, audit>>

-----------------------------------------------------------------------------
(* Stakers.                                                                 *)

\* Staking from nothing, for the first time or again, starts a new position in
\* the current epoch; adding to a position keeps its start.
StartEpoch(u) == IF user_stake[u].staked_amount = 0
                 THEN pool.current_epoch ELSE user_stake[u].stake_start_epoch
RewardedEpoch(u) == IF user_stake[u].staked_amount = 0
                    THEN pool.current_epoch ELSE user_stake[u].last_rewarded_epoch

\* Fault: eligibility read before a new position gets its start.
StaleEligibility(u) == user_stake[u].stake_start_epoch < pool.current_epoch

IsEligible(u) == StartEpoch(u) < pool.current_epoch

Stake(u, amount) ==
  /\ ~pool.paused
  /\ amount >= MIN_STAKE_AMOUNT
  /\ tokens[u] >= amount
  /\ user_stake' = [user_stake EXCEPT
       ![u].exists = TRUE, ![u].staked_amount = @ + amount,
       ![u].stake_start_epoch = StartEpoch(u),
       ![u].last_rewarded_epoch = RewardedEpoch(u)]
  /\ pool' = [pool EXCEPT
       !.total_staked = @ + amount,
       !.current_epoch_eligible_stake = IF IsEligible(u) THEN @ + amount ELSE @]
  /\ tokens' = [tokens EXCEPT ![u] = @ - amount]
  /\ staking_vault' = staking_vault + amount
  /\ audit' = [audit EXCEPT !.topped_up = @ \/ IsEligible(u)]
  /\ UNCHANGED <<now, reward_vault>>

\* Fault: only the vault is asked whether it holds the amount.
VaultCovers(u, amount) == staking_vault >= amount

Unstakeable(u, amount) == user_stake[u].staked_amount >= amount

\* Fault: a remainder too small to stake is written off.
RemainderAboveMinimum(u, amount) ==
  LET remainder == user_stake[u].staked_amount - amount
  IN  IF remainder <= MIN_STAKE_AMOUNT THEN 0 ELSE remainder

Remainder(u, amount) == user_stake[u].staked_amount - amount

\* Not stopped by a pause.  Unstaking everything resets the position.
Unstake(u, amount) ==
  LET left == Remainder(u, amount)
      was_eligible == user_stake[u].stake_start_epoch < pool.current_epoch
  IN
  /\ amount > 0
  /\ Unstakeable(u, amount)
  /\ pool.total_staked >= amount
  /\ staking_vault >= amount
  /\ user_stake' = [user_stake EXCEPT
       ![u].staked_amount = left,
       ![u].stake_start_epoch = IF left = 0 THEN pool.current_epoch ELSE @,
       ![u].last_rewarded_epoch = IF left = 0 THEN pool.current_epoch ELSE @]
  /\ pool' = [pool EXCEPT
       !.total_staked = @ - amount,
       !.current_epoch_eligible_stake =
          IF ~was_eligible THEN @ ELSE IF @ >= amount THEN @ - amount ELSE 0]
  /\ tokens' = [tokens EXCEPT ![u] = @ + amount]
  /\ staking_vault' = staking_vault - amount
  /\ audit' = IF left > 0 THEN audit
              ELSE [audit EXCEPT !.held_current = @ \ {u}, !.held_last = @ \ {u}]
  /\ UNCHANGED <<now, reward_vault>>

-----------------------------------------------------------------------------
(* Rewards coming in.                                                       *)

\* The runtime refuses a transaction that leaves an account between zero and
\* the rent-exempt minimum.
RentExempt(balance) == balance = 0 \/ balance >= RENT_EXEMPT_MINIMUM

Received == pool.total_rewards_deposited + audit.fees

DepositRewards(amount) ==
  /\ amount > 0
  /\ RentExempt(reward_vault + amount)
  /\ Received + amount <= MaxReceived
  /\ reward_vault' = reward_vault + amount
  /\ pool' = [pool EXCEPT !.current_epoch_rewards = @ + amount,
                          !.total_rewards_deposited = @ + amount]
  /\ UNCHANGED <<now, stakeVars, audit>>

\* The staking share of a loan fee (repay_loan.rs:177-187) or of creator fees
\* (fee_distribution.rs:138-140): lamports, and no field of the pool.
ReceiveFee(amount) ==
  /\ RentExempt(reward_vault + amount)
  /\ Received + amount <= MaxReceived
  /\ reward_vault' = reward_vault + amount
  /\ audit' = [audit EXCEPT !.fees = @ + amount]
  /\ UNCHANGED <<now, pool, stakeVars>>

-----------------------------------------------------------------------------
(* Epochs.                                                                  *)

EpochEndTime == pool.epoch_start_time + pool.epoch_duration

\* Fault: nothing rolls over.
NoRollover == 0

\* saturating_sub: what the last epoch did not pay out rolls over.
Undistributed ==
  IF pool.last_epoch_rewards >= pool.last_epoch_distributed
  THEN pool.last_epoch_rewards - pool.last_epoch_distributed ELSE 0

Overpaid ==
  IF pool.last_epoch_distributed > pool.last_epoch_rewards
  THEN pool.last_epoch_distributed - pool.last_epoch_rewards ELSE 0

AdvanceEpoch ==
  /\ now >= EpochEndTime
  /\ pool.current_epoch < MaxEpoch
  /\ pool' = [pool EXCEPT
       !.last_epoch_rewards = pool.current_epoch_rewards,
       !.last_epoch_eligible_stake = pool.current_epoch_eligible_stake,
       !.last_epoch_distributed = 0,
       !.current_epoch = @ + 1,
       !.epoch_start_time = EpochEndTime,
       !.current_epoch_rewards = Undistributed,
       !.current_epoch_eligible_stake = pool.total_staked]
  /\ audit' = [audit EXCEPT !.overpaid = @ + Overpaid,
                            !.topped_up = FALSE, !.forced = FALSE,
                            !.held_last = audit.held_current,
                            !.held_current = WithStake, !.paid = {}]
  /\ UNCHANGED <<now, stakeVars, reward_vault>>

\* force_advance_epoch: drops the current rewards and leaves last_epoch_* alone.
ForceAdvanceEpoch ==
  /\ MayForceAdvance
  /\ pool.current_epoch < MaxEpoch
  /\ pool' = [pool EXCEPT
       !.current_epoch = @ + 1,
       !.epoch_start_time = now,
       !.current_epoch_eligible_stake = pool.total_staked,
       !.current_epoch_rewards = 0]
  /\ audit' = [audit EXCEPT !.forfeited = @ + pool.current_epoch_rewards,
                            !.forced = TRUE,
                            !.held_last = audit.held_current,
                            !.held_current = WithStake, !.paid = {}]
  /\ UNCHANGED <<now, stakeVars, reward_vault>>

-----------------------------------------------------------------------------
(* distribute_rewards: one transaction pays a batch of stakers in order.    *)

DistributableEpoch == pool.current_epoch - 1

\* Fixed for the whole batch before the first payment.
RewardsPool == IF pool.last_epoch_rewards < reward_vault
               THEN pool.last_epoch_rewards ELSE reward_vault

\* Whether a position has a reward of the finished epoch coming.
RewardableAgain(s) ==       \* fault: no check of last_rewarded_epoch
  /\ s.staked_amount > 0
  /\ s.stake_start_epoch < DistributableEpoch

Rewardable(s) ==
  /\ s.staked_amount > 0
  /\ s.stake_start_epoch < DistributableEpoch
  /\ s.last_rewarded_epoch < DistributableEpoch

\* Fault: shares of what is staked now, which shrinks between batches.
ShareOfStakedNow(s) == (s.staked_amount * RewardsPool) \div pool.total_staked

Share(s) == (s.staked_amount * RewardsPool) \div pool.last_epoch_eligible_stake

\* One iteration of the loop over the pairs; run.open is FALSE after the break.
PayOne(run, u) ==
  LET s == run.stakes[u]
      share == Share(s)
  IN  IF ~run.open \/ ~Rewardable(s) \/ share = 0 THEN run
      ELSE IF run.vault < share THEN [run EXCEPT !.open = FALSE]
      ELSE [run EXCEPT !.vault = @ - share,
                       !.paid = @ \cup {u},
                       !.stakes[u].last_rewarded_epoch = DistributableEpoch,
                       !.stakes[u].total_rewards_received = @ + share]

PaymentRun(batch) ==
  FoldLeft(PayOne, [open |-> TRUE, vault |-> reward_vault, paid |-> {},
                    stakes |-> user_stake], batch)

HasRewards == pool.last_epoch_rewards > 0 /\ pool.last_epoch_eligible_stake > 0

DistributeRewards(batch) ==
  LET run == PaymentRun(batch)
      distributed == reward_vault - run.vault
  IN
  /\ HasRewards
  /\ \A i \in DOMAIN batch : user_stake[batch[i]].exists
  /\ RewardsPool >= MIN_DISTRIBUTION
  /\ RentExempt(run.vault)
  /\ user_stake' = run.stakes
  /\ reward_vault' = run.vault
  /\ pool' = [pool EXCEPT !.last_epoch_distributed = @ + distributed,
                          !.total_rewards_distributed = @ + distributed]
  /\ audit' = [audit EXCEPT !.paid = @ \cup run.paid]
  /\ UNCHANGED <<now, tokens, staking_vault>>

-----------------------------------------------------------------------------
(* The staking authority.                                                   *)

SetPaused(value) ==
  /\ pool' = [pool EXCEPT !.paused = value]
  /\ UNCHANGED <<now, stakeVars, reward_vault, audit>>

UpdateEpochDuration(new_duration) ==
  /\ pool' = [pool EXCEPT !.epoch_duration = new_duration]
  /\ UNCHANGED <<now, stakeVars, reward_vault, audit>>

\* emergency_drain_rewards: everything above the rent-exempt minimum, and no
\* field of the pool.
EmergencyDrainRewards ==
  /\ pool.paused
  /\ reward_vault > RENT_EXEMPT_MINIMUM
  /\ reward_vault' = RENT_EXEMPT_MINIMUM
  /\ audit' = [audit EXCEPT !.drained = @ + (reward_vault - RENT_EXEMPT_MINIMUM)]
  /\ UNCHANGED <<now, pool, stakeVars>>

\* emergency_withdraw debits a vault the System program owns, which the runtime
\* refuses: only the early return, with nothing above rent to take, succeeds.
EmergencyWithdraw ==
  /\ reward_vault > 0
  /\ reward_vault <= RENT_EXEMPT_MINIMUM
  /\ pool' = [pool EXCEPT !.paused = TRUE]
  /\ UNCHANGED <<now, stakeVars, reward_vault, audit>>

-----------------------------------------------------------------------------
StakerSteps ==
  \E u \in Staker :
    \/ \E amount \in StakeAmounts : Stake(u, amount)
    \/ \E amount \in UnstakeAmounts : Unstake(u, amount)

Income ==
  \/ \E amount \in DepositAmounts : DepositRewards(amount)
  \/ \E amount \in FeeAmounts : ReceiveFee(amount)

Distribute ==
  \E n \in 1 .. MaxBatch : \E batch \in [1 .. n -> Staker] : DistributeRewards(batch)

Authority ==
  \/ ForceAdvanceEpoch
  \/ \E value \in BOOLEAN : SetPaused(value)
  \/ \E duration \in EpochDurations : UpdateEpochDuration(duration)
  \/ EmergencyDrainRewards
  \/ EmergencyWithdraw

Next ==
  \/ Tick
  \/ StakerSteps
  \/ Income
  \/ AdvanceEpoch
  \/ Distribute
  \/ Authority

Spec == Init /\ [][Next]_vars

-----------------------------------------------------------------------------
(* Properties.                                                              *)

PoolRecord ==
  [current_epoch: 1 .. MaxEpoch, epoch_duration: EpochDurations,
   epoch_start_time: Nat, total_staked: Nat, current_epoch_eligible_stake: Nat,
   current_epoch_rewards: Nat, last_epoch_rewards: Nat,
   last_epoch_eligible_stake: Nat, last_epoch_distributed: Nat,
   total_rewards_distributed: Nat, total_rewards_deposited: Nat, paused: BOOLEAN]

UserStakeRecord ==
  [exists: BOOLEAN, staked_amount: Nat, stake_start_epoch: Nat,
   last_rewarded_epoch: Nat, total_rewards_received: Nat]

\* Every amount is an unsigned integer, and the reward vault never goes below
\* zero whatever batches are distributed.
TypeOK ==
  /\ now \in Nat
  /\ pool \in PoolRecord
  /\ user_stake \in [Staker -> UserStakeRecord]
  /\ tokens \in [Staker -> Nat]
  /\ staking_vault \in Nat
  /\ reward_vault \in Nat

\* The tokens in the vault are the pool's total_staked and the sum of the
\* stakers' positions, so that unstake never runs short for anyone
\* (stake.rs:81-87 and unstake.rs:61-67 update the two separately).
StakeAccounted ==
  /\ pool.total_staked = Staked(Staker)
  /\ staking_vault = Staked(Staker)

\* current_epoch_eligible_stake is the stake of those who were in before the
\* current epoch began: the incremental updates of stake, unstake and the two
\* ways of advancing agree with its definition (state.rs:355-357).
EligibleStakeExact ==
  pool.current_epoch_eligible_stake
    = Staked({u \in Staker : user_stake[u].stake_start_epoch < pool.current_epoch})

\* Both: tokens, positions, the pool's total and its eligible part agree
\* whatever is staked, unstaked, advanced or forced in between.
StakeAddsUp == StakeAccounted /\ EligibleStakeExact

\* Every lamport sent to the reward vault is accounted for: it was paid out,
\* drained, is scheduled for the current or the last epoch, or is one of the
\* kinds the pool does not track.  Rollover loses and invents nothing.
RewardsAccounted ==
  /\ pool.total_rewards_deposited + audit.overpaid
       = pool.total_rewards_distributed + audit.forfeited
         + pool.current_epoch_rewards
         + (pool.last_epoch_rewards - pool.last_epoch_distributed)
  /\ reward_vault + audit.drained + pool.total_rewards_distributed
       = pool.total_rewards_deposited + audit.fees

\* Unless an eligible stake grew or the epoch was forced since it was closed,
\* the payments of an epoch, in whatever batches and order, stay within its
\* rewards, whoever unstakes between batches.
DistributionWithinRewards ==
  audit.topped_up \/ audit.forced
    \/ pool.last_epoch_distributed <= pool.last_epoch_rewards

\* Both: rewards go nowhere but to stakers, and no further than they reach.
RewardsAddUp == RewardsAccounted /\ DistributionWithinRewards

\* A staker is paid for an epoch at most once, and only after holding stake,
\* without ever going down to zero, since before that epoch began.
PaidOnceForWholeEpoch ==
  [][\A u \in Staker :
       user_stake'[u].total_rewards_received # user_stake[u].total_rewards_received
         => u \in audit.held_last /\ u \notin audit.paid]_vars

=============================================================================
