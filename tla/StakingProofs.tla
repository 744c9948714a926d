--------------------------- MODULE StakingProofs ---------------------------
(***************************************************************************)
(* Theorems about Staking: the positions, the pool's totals and the         *)
(* eligible stake agree, rewards are accounted for and an epoch's payments  *)
(* stay within its rewards, and a staker is paid for an epoch once; and     *)
(* about DistributionCrank: an epoch's payments end with nobody forgotten.  *)
(*                                                                         *)
(* distribute_rewards is a fold over the batch.  The community module       *)
(* defines FoldLeft by a recursive function on the sets of positions, which *)
(* takes out the last position first; the first part of this module shows   *)
(* that this function exists and what every payment run keeps.              *)
(***************************************************************************)
EXTENDS DistributionCrank, ArithmeticProofs

-----------------------------------------------------------------------------
(* The payments of a batch.                                                 *)

FirstPayment == [open |-> TRUE, vault |-> reward_vault, paid |-> {},
                 stakes |-> user_stake]

\* h[s] is the run that pays the positions s of the batch, for the sets s of D.
RunsOn(h, batch, D) ==
  h = [s \in D |-> IF s = {} THEN FirstPayment
                   ELSE PayOne(h[s \ {Max(s)}], batch[Max(s)])]

\* Max of a set of positions is one of them.
LEMMA MaxMember ==
  ASSUME NEW S, IsFiniteSet(S), S \subseteq Nat
  PROVE  \A s \in SUBSET S : s # {} => Max(s) \in s
<1> DEFINE T == {U \in SUBSET S : U # {} /\ ~ \E m \in U : \A y \in U : m >= y}
<1>1. T = {}
  <2> SUFFICES ASSUME T # {} PROVE FALSE
    OBVIOUS
  <2>0. IsFiniteSet(S) /\ T \subseteq SUBSET S /\ T # {}
    OBVIOUS
  <2> HIDE DEF T
  <2>1. PICK U \in T : \A V \in T : V \subseteq U => V = U
    BY ONLY <2>0, LeastSubset
  <2> USE DEF T
  <2>2. U \in SUBSET S /\ U # {} /\ ~ \E m \in U : \A y \in U : m >= y
    OBVIOUS
  <2>3. PICK x \in U : TRUE
    BY <2>2
  <2>4. U \ {x} \notin T /\ U \ {x} \in SUBSET S
    BY <2>1, <2>2, <2>3
  <2>5. CASE U \ {x} = {}
    BY <2>2, <2>3, <2>5
  <2>6. CASE U \ {x} # {}
    <3>1. PICK m \in U \ {x} : \A y \in U \ {x} : m >= y
      BY <2>4, <2>6
    <3>2. x \in Nat /\ m \in Nat /\ \A y \in U : y \in Nat
      BY <2>2, <2>3, <3>1
    <3>3. CASE m >= x
      BY <2>2, <3>1, <3>3
    <3>4. CASE ~ (m >= x)
      <4>1. \A y \in U : x >= y
        BY <3>1, <3>2, <3>4
      <4> QED
        BY <2>2, <4>1
    <3> QED
      BY <3>3, <3>4
  <2> QED
    BY <2>5, <2>6
<1> QED
  BY <1>1 DEF Max

\* A table of runs for at most n positions extends to one for n + 1.
LEMMA OneMorePayment ==
  ASSUME NEW S, IsFiniteSet(S), S \subseteq Nat, NEW batch, NEW n \in Nat, NEW h,
         RunsOn(h, batch, UpTo(S, n))
  PROVE  \E g : RunsOn(g, batch, UpTo(S, n + 1))
<1> DEFINE g == [s \in UpTo(S, n + 1) |->
                   IF s = {} THEN FirstPayment
                   ELSE PayOne(h[s \ {Max(s)}], batch[Max(s)])]
<1>1. UpTo(S, n) \subseteq UpTo(S, n + 1)
  <2> SUFFICES ASSUME NEW s \in UpTo(S, n) PROVE s \in UpTo(S, n + 1)
    OBVIOUS
  <2>1. s \in SUBSET S /\ Cardinality(s) <= n
    BY DEF UpTo
  <2>2. Cardinality(s) \in Nat
    BY <2>1, FS_Subset, FS_CardinalityType
  <2> QED
    BY <2>1, <2>2 DEF UpTo
<1>2. ASSUME NEW w \in UpTo(S, n)
      PROVE  g[w] = h[w]
  <2>1. g[w] = IF w = {} THEN FirstPayment
               ELSE PayOne(h[w \ {Max(w)}], batch[Max(w)])
    BY <1>1
  <2>2. h[w] = IF w = {} THEN FirstPayment
               ELSE PayOne(h[w \ {Max(w)}], batch[Max(w)])
    BY DEF RunsOn
  <2> QED
    BY <2>1, <2>2
<1>3. ASSUME NEW s \in UpTo(S, n + 1), s # {}
      PROVE  s \ {Max(s)} \in UpTo(S, n)
  <2>1. s \in SUBSET S /\ Cardinality(s) <= n + 1 /\ Max(s) \in s
    BY <1>3, MaxMember DEF UpTo
  <2>2. IsFiniteSet(s)
    BY <2>1, FS_Subset
  <2>3. Cardinality(s \ {Max(s)}) = Cardinality(s) - 1 /\ Cardinality(s) \in Nat
    BY <2>1, <2>2, FS_RemoveElement, FS_CardinalityType
  <2>4. Cardinality(s \ {Max(s)}) <= n
    BY <2>1, <2>3
  <2> QED
    BY <2>1, <2>4 DEF UpTo
<1>4. \A s \in UpTo(S, n + 1) :
        g[s] = IF s = {} THEN FirstPayment
               ELSE PayOne(g[s \ {Max(s)}], batch[Max(s)])
  BY <1>2, <1>3
<1>5. g = [s \in UpTo(S, n + 1) |->
             IF s = {} THEN FirstPayment
             ELSE PayOne(g[s \ {Max(s)}], batch[Max(s)])]
  BY <1>4
<1> QED
  BY <1>5 DEF RunsOn

\* There is a table of runs for every set of positions.
LEMMA PaymentsExist ==
  ASSUME NEW S, IsFiniteSet(S), S \subseteq Nat, NEW batch
  PROVE  \E h : RunsOn(h, batch, SUBSET S)
<1> DEFINE T == {U \in SUBSET S : ~ \E h : RunsOn(h, batch, UpTo(S, Cardinality(U)))}
<1>1. T = {}
  <2> SUFFICES ASSUME T # {} PROVE FALSE
    OBVIOUS
  <2>0. IsFiniteSet(S) /\ T \subseteq SUBSET S /\ T # {}
    OBVIOUS
  <2> HIDE DEF T
  <2>1. PICK U \in T : \A V \in T : V \subseteq U => V = U
    BY ONLY <2>0, LeastSubset
  <2> USE DEF T
  <2>2. /\ U \in SUBSET S /\ IsFiniteSet(U)
        /\ ~ \E h : RunsOn(h, batch, UpTo(S, Cardinality(U)))
    BY FS_Subset
  <2>3. CASE U = {}
    <3>1. UpTo(S, 0) = {{}}
      <4>1. ASSUME NEW s \in SUBSET S, Cardinality(s) <= 0 PROVE s = {}
        <5>1. IsFiniteSet(s)
          BY <2>0, FS_Subset
        <5>2. Cardinality(s) = 0
          BY <4>1, <5>1, FS_CardinalityType
        <5> QED
          BY <5>1, <5>2, FS_EmptySet
      <4>2. Cardinality({}) = 0
        BY FS_EmptySet
      <4>3. {} \in SUBSET S
        OBVIOUS
      <4> HIDE DEF T
      <4> QED
        BY ONLY <4>1, <4>2, <4>3 DEF UpTo
    <3> DEFINE h == [s \in UpTo(S, 0) |-> FirstPayment]
    <3>2. h = [s \in UpTo(S, 0) |->
                 IF s = {} THEN FirstPayment
                 ELSE PayOne(h[s \ {Max(s)}], batch[Max(s)])]
      BY <3>1
    <3>3. RunsOn(h, batch, UpTo(S, Cardinality(U)))
      BY <2>3, <3>2, FS_EmptySet DEF RunsOn
    <3> QED
      BY <2>2, <3>3
  <2>4. CASE U # {}
    <3>1. PICK x : x \in U
      BY <2>4
    <3> DEFINE V == U \ {x}
    <3>2. V \notin T /\ V \in SUBSET S
      BY <2>1, <2>2, <3>1
    <3>3. PICK h : RunsOn(h, batch, UpTo(S, Cardinality(V)))
      BY <3>2
    <3>4. /\ IsFiniteSet(V) /\ Cardinality(V) = Cardinality(U) - 1
          /\ Cardinality(V) \in Nat /\ Cardinality(U) \in Nat
      BY <2>2, <3>1, FS_RemoveElement, FS_CardinalityType
    <3> HIDE DEF V
    <3>5. \E g : RunsOn(g, batch, UpTo(S, Cardinality(V) + 1))
      BY <3>3, <3>4, OneMorePayment
    <3>6. Cardinality(V) + 1 = Cardinality(U)
      BY <3>4
    <3> QED
      BY <2>2, <3>5, <3>6
  <2> QED
    BY <2>3, <2>4
<1>2. PICK h : RunsOn(h, batch, UpTo(S, Cardinality(S)))
  BY <1>1
<1>3. UpTo(S, Cardinality(S)) = SUBSET S
  BY FS_Subset DEF UpTo
<1> QED
  BY <1>2, <1>3

\* A payment run is the entry for all positions of such a table.
LEMMA RunIsInTable ==
  ASSUME NEW batch, IsFiniteSet(DOMAIN batch), DOMAIN batch \subseteq Nat
  PROVE  \E h : /\ RunsOn(h, batch, SUBSET DOMAIN batch)
                /\ PaymentRun(batch) = h[DOMAIN batch]
<1>1. PaymentRun(batch) = (CHOOSE h : RunsOn(h, batch, SUBSET DOMAIN batch))[DOMAIN batch]
  BY DEF PaymentRun, FoldLeft, MapThenFoldSet, RunsOn, FirstPayment
<1>2. \E h : RunsOn(h, batch, SUBSET DOMAIN batch)
  BY PaymentsExist
<1> QED
  BY <1>1, <1>2

-----------------------------------------------------------------------------
(* What every payment run keeps.                                            *)

StakeOf == [u \in Staker |-> user_stake[u].staked_amount]
Unpaid == {u \in Staker : Rewardable(user_stake[u])}

RunRecord == [open: BOOLEAN, vault: Nat, paid: SUBSET Staker,
              stakes: [Staker -> UserStakeRecord]]

\* A run takes from the vault no more than it holds, leaves those it did not
\* pay alone, pays only those with a reward coming, and of a position writes
\* only when it was last rewarded and how much it received.
PositionsKept(run) ==
  \A u \in Staker :
    /\ run.stakes[u].exists = user_stake[u].exists
    /\ run.stakes[u].staked_amount = user_stake[u].staked_amount
    /\ run.stakes[u].stake_start_epoch = user_stake[u].stake_start_epoch
    /\ IF u \in run.paid
       THEN /\ Rewardable(user_stake[u])
            /\ run.stakes[u].last_rewarded_epoch = DistributableEpoch
       ELSE run.stakes[u] = user_stake[u]

\* What a run took from the vault is at most the shares of those it paid.
SharesCover(run) ==
  pool.last_epoch_eligible_stake * (reward_vault - run.vault)
    + pool.last_epoch_rewards * Staked(Unpaid \ run.paid)
  <= pool.last_epoch_rewards * Staked(Unpaid)

RunOK(run) ==
  /\ run \in RunRecord
  /\ run.vault <= reward_vault
  /\ PositionsKept(run)
  /\ SharesCover(run)

\* The stakes of any stakers add up to a natural.
LEMMA StakedType ==
  ASSUME StakingAssumption, TypeOK, NEW S \in SUBSET Staker
  PROVE  IsFiniteSet(S) /\ Staked(S) \in Nat /\ Staked(S) = SumFunctionOnSet(StakeOf, S)
<1>1. IsFiniteSet(S)
  BY FS_Subset DEF StakingAssumption
<1>2. \A u \in S : StakeOf[u] \in Nat
  BY DEF TypeOK, StakeOf, UserStakeRecord
<1>3. SumFunctionOnSet(StakeOf, S) \in Nat
  BY <1>1, <1>2, SumType
<1> QED
  BY <1>1, <1>3 DEF Staked, StakeOf

\* A share times what it is a share of is no more than the stake times the rewards.
LEMMA ShareBound ==
  ASSUME NEW s \in Nat, NEW p \in Nat, NEW r \in Nat, p <= r, NEW e \in Nat, e > 0
  PROVE  (s * p) \div e \in Nat /\ e * ((s * p) \div e) <= r * s
<1>1. PICK x \in Nat : x = s * p
  OBVIOUS
<1>2. x \div e \in Nat /\ e * (x \div e) <= x
  BY <1>1
<1>3. s * p <= r * s
  <2>1. PICK d \in Nat : r = p + d
    <3>1. r - p \in Nat /\ r = p + (r - p)
      OBVIOUS
    <3> QED
      BY <3>1
  <2>2. r * s = p * s + d * s /\ d * s \in Nat /\ p * s = s * p /\ s * p \in Nat
    BY <2>1
  <2> QED
    BY <2>2
<1>4. r * s \in Nat
  OBVIOUS
<1> QED
  BY <1>1, <1>2, <1>3, <1>4


\* The run after paying u its share.
Paying(run, u, share) ==
  [run EXCEPT !.vault = @ - share,
              !.paid = @ \cup {u},
              !.stakes[u].last_rewarded_epoch = DistributableEpoch,
              !.stakes[u].total_rewards_received = @ + share]

\* Which fields a payment writes.
LEMMA PayingWrites ==
  ASSUME NEW run \in RunRecord, NEW u \in Staker, NEW share \in Nat,
         run.vault >= share, DistributableEpoch \in Nat
  PROVE  /\ Paying(run, u, share) \in RunRecord
         /\ Paying(run, u, share).vault = run.vault - share
         /\ Paying(run, u, share).paid = run.paid \cup {u}
         /\ \A v \in Staker : v # u =>
              Paying(run, u, share).stakes[v] = run.stakes[v]
         /\ LET s == Paying(run, u, share).stakes[u] IN
            /\ s.exists = run.stakes[u].exists
            /\ s.staked_amount = run.stakes[u].staked_amount
            /\ s.stake_start_epoch = run.stakes[u].stake_start_epoch
            /\ s.last_rewarded_epoch = DistributableEpoch
<1>1. PICK old, d, sum, rest : old = run.stakes[u] /\ d = DistributableEpoch
                              /\ sum = old.total_rewards_received + share
                              /\ rest = run.vault - share
  OBVIOUS
<1> DEFINE w == [exists |-> old.exists, staked_amount |-> old.staked_amount,
                 stake_start_epoch |-> old.stake_start_epoch,
                 last_rewarded_epoch |-> d, total_rewards_received |-> sum]
           st == [run.stakes EXCEPT ![u] = w]
<1>2. old \in UserStakeRecord /\ d \in Nat /\ sum \in Nat /\ w \in UserStakeRecord
  BY <1>1 DEF RunRecord, UserStakeRecord
<1>3. st \in [Staker -> UserStakeRecord] /\ st[u] = w
      /\ \A v \in Staker : v # u => st[v] = run.stakes[v]
  BY <1>2 DEF RunRecord
<1>4. Paying(run, u, share)
        = [open |-> run.open, vault |-> run.vault - share,
           paid |-> run.paid \cup {u}, stakes |-> st]
  <2>1. PICK q : q = run.paid \cup {u}
    OBVIOUS
  <2>2. PICK mid : mid = [old EXCEPT !.last_rewarded_epoch = d]
    OBVIOUS
  <2>3. mid \in UserStakeRecord
        /\ mid = [exists |-> old.exists, staked_amount |-> old.staked_amount,
                  stake_start_epoch |-> old.stake_start_epoch,
                  last_rewarded_epoch |-> d,
                  total_rewards_received |-> old.total_rewards_received]
    BY <1>2, <2>2 DEF UserStakeRecord
  <2>4. [mid EXCEPT !.total_rewards_received = sum] = w
    BY <1>2, <2>3 DEF UserStakeRecord
  <2>5. PICK half : half = [run.stakes EXCEPT ![u].last_rewarded_epoch = d]
    OBVIOUS
  <2>6. half \in [Staker -> UserStakeRecord] /\ half = [run.stakes EXCEPT ![u] = mid]
    BY <1>1, <2>2, <2>3, <2>5 DEF RunRecord
  <2>7. [half EXCEPT ![u].total_rewards_received = sum] = st
    BY <2>3, <2>4, <2>6 DEF RunRecord
  <2>8. PICK r1 : r1 = [run EXCEPT !.vault = rest, !.paid = q]
    OBVIOUS
  <2>9. r1 = [open |-> run.open, vault |-> rest, paid |-> q, stakes |-> run.stakes]
    BY <2>8 DEF RunRecord
  <2>10. PICK r2 : r2 = [r1 EXCEPT !.stakes[u].last_rewarded_epoch = d]
    OBVIOUS
  <2>11. r2 = [open |-> run.open, vault |-> rest, paid |-> q, stakes |-> half]
    BY <2>5, <2>9, <2>10
  <2>12. [r2 EXCEPT !.stakes[u].total_rewards_received = sum]
           = [open |-> run.open, vault |-> rest, paid |-> q, stakes |-> st]
    BY <2>7, <2>11
  <2>13. Paying(run, u, share) = [run EXCEPT !.vault = rest, !.paid = q,
          !.stakes[u].last_rewarded_epoch = d,
          !.stakes[u].total_rewards_received = sum]
    BY <1>1, <2>1 DEF Paying
  <2>14. @ = [r2 EXCEPT !.stakes[u].total_rewards_received = sum]
    BY <2>8, <2>10
  <2> QED
    BY <1>1, <2>1, <2>12, <2>13, <2>14
<1>5. run.vault - share \in Nat
  BY DEF RunRecord
<1> HIDE DEF st
<1>6. Paying(run, u, share) \in RunRecord
  BY <1>3, <1>4, <1>5 DEF RunRecord
<1> QED
  BY <1>1, <1>3, <1>4, <1>6

\* Paying one more staker of a batch keeps a run right.
LEMMA PayOneKeeps ==
  ASSUME StakingAssumption, TypeOK, HasRewards, NEW run, RunOK(run), NEW u \in Staker
  PROVE  RunOK(PayOne(run, u))
<1> DEFINE s == run.stakes[u]
           share == Share(s)
<1>1. CASE ~run.open \/ ~Rewardable(s) \/ share = 0
  <2>1. PayOne(run, u) = run
    BY <1>1 DEF PayOne
  <2> QED
    BY <2>1
<1>2. CASE ~(~run.open \/ ~Rewardable(s) \/ share = 0) /\ run.vault < share
  <2>1. PayOne(run, u) = [run EXCEPT !.open = FALSE]
    BY <1>2 DEF PayOne
  <2>2. /\ [run EXCEPT !.open = FALSE] \in RunRecord
        /\ [run EXCEPT !.open = FALSE].vault = run.vault
        /\ [run EXCEPT !.open = FALSE].paid = run.paid
        /\ [run EXCEPT !.open = FALSE].stakes = run.stakes
    BY DEF RunOK, RunRecord
  <2> QED
    BY <2>1, <2>2 DEF RunOK, PositionsKept, SharesCover
<1>3. CASE ~(~run.open \/ ~Rewardable(s) \/ share = 0) /\ ~(run.vault < share)
  <2>1. PayOne(run, u) = Paying(run, u, share)
    BY <1>3 DEF PayOne, Paying
  <2>2. Rewardable(s) /\ run \in RunRecord /\ PositionsKept(run) /\ SharesCover(run)
        /\ run.vault <= reward_vault /\ run.vault \in Nat
    BY <1>3 DEF RunOK, RunRecord
  <2>3. DistributableEpoch \in Nat
    BY DEF TypeOK, PoolRecord, DistributableEpoch, StakingAssumption
  <2>4. u \notin run.paid /\ s = user_stake[u]
    BY <2>2, <2>3 DEF PositionsKept, Rewardable
  <2>5. u \in Unpaid /\ u \in Unpaid \ run.paid
    BY <2>2, <2>4 DEF Unpaid
  <2>6. PICK a, p, r, e :
          /\ a = user_stake[u].staked_amount /\ p = RewardsPool
          /\ r = pool.last_epoch_rewards /\ e = pool.last_epoch_eligible_stake
    OBVIOUS
  <2>7. a \in Nat /\ p \in Nat /\ r \in Nat /\ p <= r /\ e \in Nat /\ e > 0
        /\ reward_vault \in Nat
    BY <2>6 DEF TypeOK, PoolRecord, UserStakeRecord, RewardsPool, HasRewards
  <2>8. share = (a * p) \div e
    BY <2>4, <2>6 DEF Share
  <2>9. share \in Nat /\ e * share <= r * a
    BY <2>7, <2>8, ShareBound
  <2>10. share <= run.vault
    BY <1>3, <2>2, <2>9
  <2>11. PICK new : new = Paying(run, u, share)
    OBVIOUS
  <2>12. /\ new \in RunRecord
         /\ new.vault = run.vault - share
         /\ new.paid = run.paid \cup {u}
         /\ \A v \in Staker : v # u => new.stakes[v] = run.stakes[v]
         /\ new.stakes[u].exists = s.exists
         /\ new.stakes[u].staked_amount = s.staked_amount
         /\ new.stakes[u].stake_start_epoch = s.stake_start_epoch
         /\ new.stakes[u].last_rewarded_epoch = DistributableEpoch
    BY <2>2, <2>3, <2>9, <2>10, <2>11, PayingWrites
  <2>13. new.vault <= reward_vault
    BY <2>2, <2>7, <2>9, <2>12
  <2>14. PositionsKept(new)
    BY <2>2, <2>4, <2>12 DEF PositionsKept
  <2>15. SharesCover(new)
    <3>1. PICK A : A = Unpaid \ run.paid
      OBVIOUS
    <3>2. A \in SUBSET Staker /\ u \in A /\ A \ {u} \in SUBSET Staker
          /\ Unpaid \ new.paid = A \ {u} /\ Unpaid \in SUBSET Staker
      BY <2>5, <2>12, <3>1 DEF Unpaid
    <3>3. /\ IsFiniteSet(A) /\ \A v \in A : StakeOf[v] \in Nat
          /\ StakeOf[u] = a
      BY <2>6, <3>2, StakedType DEF StakeOf, TypeOK, UserStakeRecord
    <3>4. PICK x, y, z : x = Staked(A) /\ y = Staked(A \ {u}) /\ z = Staked(Unpaid)
      OBVIOUS
    <3>5. x \in Nat /\ y \in Nat /\ z \in Nat /\ x = SumFunctionOnSet(StakeOf, A)
          /\ y = SumFunctionOnSet(StakeOf, A \ {u})
      BY <3>2, <3>4, StakedType
    <3>6. x = a + y
      BY <3>2, <3>3, <3>5, SumRemove
    <3>7. PICK v, w : v = run.vault /\ w = reward_vault
      OBVIOUS
    <3>8. e * (w - v) + r * x <= r * z
      BY <2>2, <2>6, <3>1, <3>4, <3>7 DEF SharesCover
    <3>9. v \in Nat /\ w \in Nat /\ v <= w
      BY <2>2, <2>7, <3>7
    <3>10. e * (w - (v - share)) + r * y <= r * z
      <4>1. PICK q \in Nat : q = w - v
        BY <3>9
      <4>2. w - (v - share) = q + share
        BY <2>9, <3>9, <4>1
      <4>3. e * (q + share) = e * q + e * share /\ r * (a + y) = r * a + r * y
        BY <2>7, <2>9, <3>5, <4>1
      <4>4. /\ e * q \in Nat /\ e * share \in Nat /\ r * a \in Nat
            /\ r * y \in Nat /\ r * z \in Nat
        BY <2>7, <2>9, <3>5, <4>1
      <4>5. e * q + r * (a + y) <= r * z
        BY <3>6, <3>8, <4>1
      <4> QED
        BY <2>9, <4>2, <4>3, <4>4, <4>5
    <3> QED
      BY <2>6, <2>12, <3>2, <3>4, <3>7, <3>10 DEF SharesCover
  <2> QED
    BY <2>1, <2>11, <2>12, <2>13, <2>14, <2>15 DEF RunOK
<1> QED
  BY <1>1, <1>2, <1>3

\* Before the first payment there is nothing to be wrong.
LEMMA FirstPaymentOK ==
  ASSUME StakingAssumption, TypeOK
  PROVE  RunOK(FirstPayment)
<1>1. FirstPayment \in RunRecord /\ FirstPayment.vault = reward_vault
      /\ FirstPayment.paid = {} /\ FirstPayment.stakes = user_stake
  BY DEF TypeOK, FirstPayment, RunRecord
<1>2. PositionsKept(FirstPayment)
  BY <1>1 DEF PositionsKept
<1>3. SharesCover(FirstPayment)
  <2>1. Unpaid \ {} = Unpaid /\ Unpaid \in SUBSET Staker
    BY DEF Unpaid
  <2>2. PICK e, r, z, w :
          /\ e = pool.last_epoch_eligible_stake /\ r = pool.last_epoch_rewards
          /\ z = Staked(Unpaid) /\ w = reward_vault
    OBVIOUS
  <2>3. e \in Nat /\ r \in Nat /\ z \in Nat /\ w \in Nat
    BY <2>1, <2>2, StakedType DEF TypeOK, PoolRecord
  <2>4. e * (w - w) + r * z <= r * z
    <3>1. r * z \in Nat /\ w - w = 0 /\ e * 0 = 0
      BY <2>3
    <3> QED
      BY <3>1
  <2> QED
    BY <1>1, <2>1, <2>2, <2>4 DEF SharesCover
<1> QED
  BY <1>1, <1>2, <1>3 DEF RunOK, TypeOK

\* Whatever the batch, its payment run is right.
LEMMA RunIsOK ==
  ASSUME StakingAssumption, TypeOK, HasRewards,
         NEW n \in Nat, NEW batch \in [1 .. n -> Staker]
  PROVE  RunOK(PaymentRun(batch))
<1>1. IsFiniteSet(1 .. n) /\ 1 .. n \subseteq Nat /\ DOMAIN batch = 1 .. n
  BY FS_Interval
<1>2. PICK S : S = DOMAIN batch
  OBVIOUS
<1>3. IsFiniteSet(S) /\ S \subseteq Nat /\ \A i \in S : batch[i] \in Staker
  BY <1>1, <1>2
<1>4. PICK h : RunsOn(h, batch, SUBSET S) /\ PaymentRun(batch) = h[S]
  BY <1>2, <1>3, RunIsInTable
<1> DEFINE T == {U \in SUBSET S : ~RunOK(h[U])}
<1>5. T = {}
  <2> SUFFICES ASSUME T # {} PROVE FALSE
    OBVIOUS
  <2>0. IsFiniteSet(S) /\ T \subseteq SUBSET S /\ T # {}
    BY <1>3
  <2> HIDE DEF T
  <2>1. PICK U \in T : \A V \in T : V \subseteq U => V = U
    BY ONLY <2>0, LeastSubset
  <2> USE DEF T
  <2>2. U \in SUBSET S /\ ~RunOK(h[U])
    OBVIOUS
  <2>3. h[U] = IF U = {} THEN FirstPayment
               ELSE PayOne(h[U \ {Max(U)}], batch[Max(U)])
    BY <1>4, <2>2 DEF RunsOn
  <2>4. U # {}
    BY <2>2, <2>3, FirstPaymentOK
  <2>5. Max(U) \in U
    BY <1>3, <2>2, <2>4, MaxMember
  <2>6. RunOK(h[U \ {Max(U)}])
    BY <2>1, <2>2, <2>5
  <2>7. batch[Max(U)] \in Staker
    BY <1>3, <2>2, <2>5
  <2>8. RunOK(PayOne(h[U \ {Max(U)}], batch[Max(U)]))
    BY <2>6, <2>7, PayOneKeeps
  <2> QED
    BY <2>2, <2>3, <2>4, <2>8
<1>6. S \notin T
  BY <1>5
<1> QED
  BY <1>4, <1>6


-----------------------------------------------------------------------------
(* What the operations write.                                               *)


\* A position with three fields overwritten.
Overwritten(stakes, u, a, s, r) ==
  [stakes EXCEPT ![u].staked_amount = a, ![u].stake_start_epoch = s,
                 ![u].last_rewarded_epoch = r]

\* Only those fields change.
LEMMA PositionWrites ==
  ASSUME NEW stakes \in [Staker -> UserStakeRecord], NEW u \in Staker,
         NEW a \in Nat, NEW s \in Nat, NEW r \in Nat,
         NEW new, new = Overwritten(stakes, u, a, s, r)
  PROVE  /\ new \in [Staker -> UserStakeRecord]
         /\ \A v \in Staker : v # u => new[v] = stakes[v]
         /\ new[u].staked_amount = a /\ new[u].stake_start_epoch = s
         /\ new[u].last_rewarded_epoch = r
         /\ new[u].total_rewards_received = stakes[u].total_rewards_received
<1>1. PICK s1 : s1 = [stakes EXCEPT ![u].staked_amount = a]
  OBVIOUS
<1>2. /\ s1 \in [Staker -> UserStakeRecord]
      /\ \A v \in Staker : v # u => s1[v] = stakes[v]
      /\ s1[u].staked_amount = a
      /\ s1[u].total_rewards_received = stakes[u].total_rewards_received
  BY <1>1 DEF UserStakeRecord
<1>3. PICK s2 : s2 = [s1 EXCEPT ![u].stake_start_epoch = s]
  OBVIOUS
<1>4. /\ s2 \in [Staker -> UserStakeRecord]
      /\ \A v \in Staker : v # u => s2[v] = stakes[v]
      /\ s2[u].staked_amount = a /\ s2[u].stake_start_epoch = s
      /\ s2[u].total_rewards_received = stakes[u].total_rewards_received
  BY <1>2, <1>3 DEF UserStakeRecord
<1>5. PICK s3 : s3 = [s2 EXCEPT ![u].last_rewarded_epoch = r]
  OBVIOUS
<1>6. /\ s3 \in [Staker -> UserStakeRecord]
      /\ \A v \in Staker : v # u => s3[v] = stakes[v]
      /\ s3[u].staked_amount = a /\ s3[u].stake_start_epoch = s
      /\ s3[u].last_rewarded_epoch = r
      /\ s3[u].total_rewards_received = stakes[u].total_rewards_received
  BY <1>4, <1>5 DEF UserStakeRecord
<1>7. s3 = new
  BY <1>1, <1>3, <1>5 DEF Overwritten
<1> QED
  BY <1>6, <1>7

\* The fields of the pool that are not about what is staked or when.
RewardFields ==
  <<pool.current_epoch_rewards, pool.last_epoch_rewards,
    pool.last_epoch_eligible_stake, pool.last_epoch_distributed,
    pool.total_rewards_distributed, pool.total_rewards_deposited>>

\* The fields of the history an instruction of a staker leaves alone.
MoneyHistory == <<audit.fees, audit.drained, audit.forfeited, audit.overpaid,
                  audit.forced, audit.paid>>

AuditRecord ==
  [fees: Nat, drained: Nat, forfeited: Nat, overpaid: Nat,
   topped_up: BOOLEAN, forced: BOOLEAN, held_current: SUBSET Staker,
   held_last: SUBSET Staker, paid: SUBSET Staker]

\* Both parts of the state have their types.
Typed == TypeOK /\ audit \in AuditRecord

\* u's position has a stake of a and started in s, the others are as they were,
\* and the eligible stake is e.
StakesBecome(u, a, s, e) ==
  /\ user_stake' \in [Staker -> UserStakeRecord]
  /\ \A v \in Staker : v # u => user_stake'[v] = user_stake[v]
  /\ user_stake'[u].staked_amount = a
  /\ user_stake'[u].stake_start_epoch = s
  /\ user_stake'[u].total_rewards_received = user_stake[u].total_rewards_received
  /\ pool' \in PoolRecord
  /\ pool'.current_epoch = pool.current_epoch
  /\ pool'.current_epoch_eligible_stake = e
  /\ RewardFields' = RewardFields
  /\ MoneyHistory' = MoneyHistory
  /\ now' = now /\ reward_vault' = reward_vault

\* What stake writes.
LEMMA StakeWrites ==
  ASSUME StakingAssumption, Typed, NEW u \in Staker, NEW amount \in StakeAmounts,
         Stake(u, amount)
  PROVE  LET e == pool.current_epoch_eligible_stake IN
         /\ StakesBecome(u, user_stake[u].staked_amount + amount, StartEpoch(u),
                         IF IsEligible(u) THEN e + amount ELSE e)
         /\ user_stake'[u].last_rewarded_epoch = RewardedEpoch(u)
         /\ pool'.total_staked = pool.total_staked + amount
         /\ staking_vault' = staking_vault + amount
         /\ audit' \in AuditRecord
         /\ audit'.topped_up = (audit.topped_up \/ IsEligible(u))
         /\ audit'.held_current = audit.held_current
         /\ audit'.held_last = audit.held_last
         /\ amount \in Nat /\ amount > 0
         /\ TypeOK'
<1> USE DEF Typed
<1>1. PICK a, s, r : /\ a = user_stake[u].staked_amount + amount
                     /\ s = StartEpoch(u) /\ r = RewardedEpoch(u)
  OBVIOUS
<1>2. a \in Nat /\ s \in Nat /\ r \in Nat /\ amount \in Nat /\ amount > 0
  BY <1>1 DEF TypeOK, UserStakeRecord, PoolRecord, StartEpoch, RewardedEpoch,
              StakingAssumption, Stake
<1>3. PICK old : old = [user_stake EXCEPT ![u].exists = TRUE]
  OBVIOUS
<1>4. /\ old \in [Staker -> UserStakeRecord]
      /\ \A v \in Staker : v # u => old[v] = user_stake[v]
      /\ old[u].total_rewards_received = user_stake[u].total_rewards_received
  BY <1>3 DEF TypeOK, UserStakeRecord
<1>5. user_stake' = Overwritten(old, u, a, s, r)
  BY <1>1, <1>3 DEF Stake, Overwritten
<1>6. /\ user_stake' \in [Staker -> UserStakeRecord]
      /\ \A v \in Staker : v # u => user_stake'[v] = user_stake[v]
      /\ user_stake'[u].staked_amount = a
      /\ user_stake'[u].stake_start_epoch = s
      /\ user_stake'[u].last_rewarded_epoch = r
      /\ user_stake'[u].total_rewards_received = user_stake[u].total_rewards_received
  <2>1. /\ user_stake' \in [Staker -> UserStakeRecord]
        /\ \A v \in Staker : v # u => user_stake'[v] = old[v]
        /\ user_stake'[u].staked_amount = a
        /\ user_stake'[u].stake_start_epoch = s
        /\ user_stake'[u].last_rewarded_epoch = r
        /\ user_stake'[u].total_rewards_received = old[u].total_rewards_received
    BY ONLY <1>2, <1>4, <1>5, u \in Staker, PositionWrites
  <2> QED
    BY ONLY <1>4, <2>1
<1>7. PICK e, t : /\ e = IF IsEligible(u)
                         THEN pool.current_epoch_eligible_stake + amount
                         ELSE pool.current_epoch_eligible_stake
                  /\ t = pool.total_staked + amount
  OBVIOUS
<1>8. e \in Nat /\ t \in Nat
  BY <1>2, <1>7 DEF TypeOK, PoolRecord
<1>9. pool' = [pool EXCEPT !.total_staked = t, !.current_epoch_eligible_stake = e]
  BY <1>7 DEF Stake
<1>10. /\ pool' \in PoolRecord /\ pool'.current_epoch = pool.current_epoch
       /\ pool'.current_epoch_eligible_stake = e /\ pool'.total_staked = t
       /\ RewardFields' = RewardFields
  BY <1>8, <1>9 DEF TypeOK, PoolRecord, RewardFields
<1>11. /\ audit' \in AuditRecord
       /\ audit'.topped_up = (audit.topped_up \/ IsEligible(u))
       /\ audit'.held_current = audit.held_current
       /\ audit'.held_last = audit.held_last
       /\ MoneyHistory' = MoneyHistory
  BY DEF Stake, AuditRecord, MoneyHistory, IsEligible
<1>12. tokens' \in [Staker -> Nat] /\ staking_vault' \in Nat
       /\ staking_vault' = staking_vault + amount
       /\ now' = now /\ reward_vault' = reward_vault
  <2>1. tokens[u] - amount \in Nat
    BY <1>2 DEF Stake, TypeOK
  <2> QED
    BY <1>2, <2>1 DEF Stake, TypeOK
<1>13. TypeOK'
  BY <1>6, <1>10, <1>12 DEF TypeOK
<1> QED
  BY <1>1, <1>2, <1>6, <1>7, <1>10, <1>11, <1>12, <1>13 DEF StakesBecome

\* What unstake writes.
LEMMA UnstakeWrites ==
  ASSUME StakingAssumption, Typed, NEW u \in Staker, NEW amount \in UnstakeAmounts,
         Unstake(u, amount)
  PROVE  LET left == user_stake[u].staked_amount - amount
             e == pool.current_epoch_eligible_stake
             start == user_stake[u].stake_start_epoch
         IN
         /\ StakesBecome(u, left, IF left = 0 THEN pool.current_epoch ELSE start,
                         IF ~(start < pool.current_epoch) THEN e
                         ELSE IF e >= amount THEN e - amount ELSE 0)
         /\ user_stake'[u].last_rewarded_epoch =
              (IF left = 0 THEN pool.current_epoch
               ELSE user_stake[u].last_rewarded_epoch)
         /\ pool'.total_staked = pool.total_staked - amount
         /\ staking_vault' = staking_vault - amount
         /\ audit' \in AuditRecord
         /\ audit'.topped_up = audit.topped_up
         /\ left > 0 => /\ audit'.held_current = audit.held_current
                        /\ audit'.held_last = audit.held_last
         /\ audit'.held_current \cup {u} = audit.held_current \cup {u}
         /\ audit'.held_last \cup {u} = audit.held_last \cup {u}
         /\ amount \in Nat /\ amount > 0 /\ left \in Nat
         /\ TypeOK'
<1> USE DEF Typed
<1>1. PICK left, s, r :
        /\ left = user_stake[u].staked_amount - amount
        /\ s = IF left = 0 THEN pool.current_epoch ELSE user_stake[u].stake_start_epoch
        /\ r = IF left = 0 THEN pool.current_epoch ELSE user_stake[u].last_rewarded_epoch
  OBVIOUS
<1>2. left \in Nat /\ s \in Nat /\ r \in Nat /\ amount \in Nat /\ amount > 0
  BY <1>1 DEF TypeOK, UserStakeRecord, PoolRecord, StakingAssumption, Unstake,
              Unstakeable
<1>3. user_stake' = Overwritten(user_stake, u, left, s, r)
  BY <1>1 DEF Unstake, Remainder, Overwritten
<1>4. /\ user_stake' \in [Staker -> UserStakeRecord]
      /\ \A v \in Staker : v # u => user_stake'[v] = user_stake[v]
      /\ user_stake'[u].staked_amount = left
      /\ user_stake'[u].stake_start_epoch = s
      /\ user_stake'[u].last_rewarded_epoch = r
      /\ user_stake'[u].total_rewards_received = user_stake[u].total_rewards_received
  <2>1. user_stake \in [Staker -> UserStakeRecord]
    BY DEF TypeOK
  <2> QED
    BY ONLY <1>2, <1>3, <2>1, u \in Staker, PositionWrites
<1>5. PICK e, t :
        /\ e = IF ~(user_stake[u].stake_start_epoch < pool.current_epoch)
               THEN pool.current_epoch_eligible_stake
               ELSE IF pool.current_epoch_eligible_stake >= amount
                    THEN pool.current_epoch_eligible_stake - amount ELSE 0
        /\ t = pool.total_staked - amount
  OBVIOUS
<1>6. e \in Nat /\ t \in Nat
  BY <1>2, <1>5 DEF TypeOK, PoolRecord, Unstake
<1>7. pool' = [pool EXCEPT !.total_staked = t, !.current_epoch_eligible_stake = e]
  BY <1>5 DEF Unstake
<1>8. /\ pool' \in PoolRecord /\ pool'.current_epoch = pool.current_epoch
      /\ pool'.current_epoch_eligible_stake = e /\ pool'.total_staked = t
      /\ RewardFields' = RewardFields
  BY <1>6, <1>7 DEF TypeOK, PoolRecord, RewardFields
<1>9. /\ audit' \in AuditRecord
      /\ audit'.topped_up = audit.topped_up
      /\ left > 0 => /\ audit'.held_current = audit.held_current
                     /\ audit'.held_last = audit.held_last
      /\ audit'.held_current \cup {u} = audit.held_current \cup {u}
      /\ audit'.held_last \cup {u} = audit.held_last \cup {u}
      /\ MoneyHistory' = MoneyHistory
  <2>1. audit' = IF left > 0 THEN audit
                 ELSE [audit EXCEPT !.held_current = @ \ {u}, !.held_last = @ \ {u}]
    BY <1>1 DEF Unstake, Remainder
  <2> QED
    BY <2>1 DEF AuditRecord, MoneyHistory
<1>10. tokens' \in [Staker -> Nat] /\ staking_vault' \in Nat
       /\ staking_vault' = staking_vault - amount
       /\ now' = now /\ reward_vault' = reward_vault
  <2>1. staking_vault - amount \in Nat /\ tokens[u] + amount \in Nat
    BY <1>2 DEF Unstake, TypeOK
  <2> QED
    BY <2>1 DEF Unstake, TypeOK
<1>11. TypeOK'
  BY <1>4, <1>8, <1>10 DEF TypeOK
<1> QED
  BY <1>1, <1>2, <1>4, <1>5, <1>8, <1>9, <1>10, <1>11 DEF StakesBecome

\* What is paid from changes, no position and no total does.
PositionsStay ==
  /\ user_stake' = user_stake
  /\ pool'.current_epoch = pool.current_epoch
  /\ pool'.total_staked = pool.total_staked
  /\ pool'.current_epoch_eligible_stake = pool.current_epoch_eligible_stake
  /\ staking_vault' = staking_vault
  /\ pool'.last_epoch_rewards = pool.last_epoch_rewards
  /\ pool'.last_epoch_eligible_stake = pool.last_epoch_eligible_stake
  /\ pool'.last_epoch_distributed = pool.last_epoch_distributed
  /\ pool'.total_rewards_distributed = pool.total_rewards_distributed
  /\ audit' \in AuditRecord
  /\ audit'.forfeited = audit.forfeited /\ audit'.overpaid = audit.overpaid
  /\ audit'.topped_up = audit.topped_up /\ audit'.forced = audit.forced
  /\ audit'.held_current = audit.held_current
  /\ audit'.held_last = audit.held_last
  /\ audit'.paid = audit.paid

\* The instructions that move lamports of the vault or set a parameter.
QuietStep ==
  \/ Tick
  \/ Income
  \/ \E value \in BOOLEAN : SetPaused(value)
  \/ \E duration \in EpochDurations : UpdateEpochDuration(duration)
  \/ EmergencyDrainRewards
  \/ EmergencyWithdraw

\* What they write.
LEMMA QuietWrites ==
  ASSUME StakingAssumption, Typed, QuietStep
  PROVE  /\ TypeOK' /\ PositionsStay
         /\ pool'.total_rewards_deposited - pool.total_rewards_deposited
              = pool'.current_epoch_rewards - pool.current_epoch_rewards
         /\ reward_vault' + audit'.drained
              - (pool'.total_rewards_deposited + audit'.fees)
            = reward_vault + audit.drained
                - (pool.total_rewards_deposited + audit.fees)
<1> USE DEF Typed
<1>1. CASE Tick
  <2>1. /\ UNCHANGED <<pool, user_stake, tokens, staking_vault, reward_vault, audit>>
        /\ now' = now + 1
    BY <1>1 DEF Tick, stakeVars
  <2>2. TypeOK' /\ PositionsStay
    BY <2>1 DEF TypeOK, PositionsStay
  <2> QED
    BY <2>1, <2>2 DEF TypeOK, PoolRecord, AuditRecord
<1>2. ASSUME NEW amount \in DepositAmounts, DepositRewards(amount)
      PROVE  /\ TypeOK' /\ PositionsStay
             /\ pool'.total_rewards_deposited = pool.total_rewards_deposited + amount
             /\ pool'.current_epoch_rewards = pool.current_epoch_rewards + amount
             /\ reward_vault' = reward_vault + amount
             /\ audit' = audit /\ amount \in Nat
  <2>1. amount \in Nat
    BY DEF StakingAssumption
  <2>2. PICK c, d : /\ c = pool.current_epoch_rewards + amount
                    /\ d = pool.total_rewards_deposited + amount
    OBVIOUS
  <2>3. c \in Nat /\ d \in Nat
    BY <2>1, <2>2 DEF TypeOK, PoolRecord
  <2>4. pool' = [pool EXCEPT !.current_epoch_rewards = c, !.total_rewards_deposited = d]
    BY <1>2, <2>2 DEF DepositRewards
  <2>5. /\ pool' \in PoolRecord
        /\ pool'.total_rewards_deposited = d /\ pool'.current_epoch_rewards = c
        /\ pool'.current_epoch = pool.current_epoch
        /\ pool'.total_staked = pool.total_staked
        /\ pool'.current_epoch_eligible_stake = pool.current_epoch_eligible_stake
        /\ pool'.last_epoch_rewards = pool.last_epoch_rewards
        /\ pool'.last_epoch_eligible_stake = pool.last_epoch_eligible_stake
        /\ pool'.last_epoch_distributed = pool.last_epoch_distributed
        /\ pool'.total_rewards_distributed = pool.total_rewards_distributed
    BY <2>3, <2>4 DEF TypeOK, PoolRecord
  <2>6. reward_vault' = reward_vault + amount /\ audit' = audit
        /\ UNCHANGED <<now, user_stake, tokens, staking_vault>>
    BY <1>2 DEF DepositRewards, stakeVars
  <2>7. TypeOK'
    BY <2>1, <2>5, <2>6 DEF TypeOK
  <2> QED
    BY <2>1, <2>2, <2>5, <2>6, <2>7 DEF PositionsStay
<1>3. ASSUME NEW amount \in FeeAmounts, ReceiveFee(amount)
      PROVE  /\ TypeOK' /\ PositionsStay /\ pool' = pool
             /\ reward_vault' = reward_vault + amount
             /\ audit'.fees = audit.fees + amount /\ audit'.drained = audit.drained
             /\ amount \in Nat
  <2>1. amount \in Nat
    BY DEF StakingAssumption
  <2>2. reward_vault' = reward_vault + amount
        /\ UNCHANGED <<now, pool, user_stake, tokens, staking_vault>>
    BY <1>3 DEF ReceiveFee, stakeVars
  <2>3. PICK f : f = audit.fees + amount
    OBVIOUS
  <2>4. f \in Nat /\ audit' = [audit EXCEPT !.fees = f]
    BY <1>3, <2>1, <2>3 DEF AuditRecord, ReceiveFee
  <2>5. /\ audit' \in AuditRecord /\ audit'.fees = f
        /\ audit'.drained = audit.drained
        /\ audit'.forfeited = audit.forfeited /\ audit'.overpaid = audit.overpaid
        /\ audit'.topped_up = audit.topped_up /\ audit'.forced = audit.forced
        /\ audit'.held_current = audit.held_current
        /\ audit'.held_last = audit.held_last /\ audit'.paid = audit.paid
    BY <2>4 DEF AuditRecord
  <2> QED
    BY <2>1, <2>2, <2>3, <2>5 DEF TypeOK, PositionsStay
<1>4. ASSUME NEW value \in BOOLEAN, SetPaused(value)
      PROVE  /\ TypeOK' /\ PositionsStay /\ UNCHANGED <<reward_vault, audit>>
             /\ pool'.total_rewards_deposited = pool.total_rewards_deposited
             /\ pool'.current_epoch_rewards = pool.current_epoch_rewards
  BY <1>4 DEF SetPaused, stakeVars, TypeOK, PoolRecord, PositionsStay
<1>5. ASSUME NEW duration \in EpochDurations, UpdateEpochDuration(duration)
      PROVE  /\ TypeOK' /\ PositionsStay /\ UNCHANGED <<reward_vault, audit>>
             /\ pool'.total_rewards_deposited = pool.total_rewards_deposited
             /\ pool'.current_epoch_rewards = pool.current_epoch_rewards
  BY <1>5 DEF UpdateEpochDuration, stakeVars, TypeOK, PoolRecord, PositionsStay
<1>6. ASSUME EmergencyDrainRewards
      PROVE  /\ TypeOK' /\ PositionsStay /\ pool' = pool
             /\ reward_vault' + audit'.drained = reward_vault + audit.drained
             /\ audit'.fees = audit.fees
  <2>1. PICK d : d = audit.drained + (reward_vault - RENT_EXEMPT_MINIMUM)
    OBVIOUS
  <2>2. d \in Nat /\ audit' = [audit EXCEPT !.drained = d]
    BY <1>6, <2>1 DEF EmergencyDrainRewards, AuditRecord, TypeOK, StakingAssumption
  <2>3. /\ audit' \in AuditRecord /\ audit'.drained = d /\ audit'.fees = audit.fees
        /\ audit'.forfeited = audit.forfeited /\ audit'.overpaid = audit.overpaid
        /\ audit'.topped_up = audit.topped_up /\ audit'.forced = audit.forced
        /\ audit'.held_current = audit.held_current
        /\ audit'.held_last = audit.held_last /\ audit'.paid = audit.paid
    BY <2>2 DEF AuditRecord
  <2>4. /\ reward_vault' = RENT_EXEMPT_MINIMUM /\ RENT_EXEMPT_MINIMUM \in Nat
        /\ reward_vault \in Nat /\ audit.drained \in Nat
        /\ UNCHANGED <<now, pool, user_stake, tokens, staking_vault>>
    BY <1>6 DEF EmergencyDrainRewards, stakeVars, TypeOK, AuditRecord, StakingAssumption
  <2>5. TypeOK' /\ PositionsStay
    BY <2>3, <2>4 DEF TypeOK, PositionsStay
  <2> QED
    BY <2>1, <2>3, <2>4, <2>5
<1>7. ASSUME EmergencyWithdraw
      PROVE  /\ TypeOK' /\ PositionsStay /\ UNCHANGED <<reward_vault, audit>>
             /\ pool'.total_rewards_deposited = pool.total_rewards_deposited
             /\ pool'.current_epoch_rewards = pool.current_epoch_rewards
  BY <1>7 DEF EmergencyWithdraw, stakeVars, TypeOK, PoolRecord, PositionsStay
<1>8. /\ reward_vault \in Nat /\ audit.drained \in Nat /\ audit.fees \in Nat
      /\ pool.total_rewards_deposited \in Nat /\ pool.current_epoch_rewards \in Nat
  BY DEF TypeOK, PoolRecord, AuditRecord
<1>9. CASE Income
  <2>1. CASE \E amount \in DepositAmounts : DepositRewards(amount)
    <3>1. PICK amount \in DepositAmounts : DepositRewards(amount)
      BY <2>1
    <3> QED
      BY <1>2, <1>8, <3>1
  <2>2. CASE \E amount \in FeeAmounts : ReceiveFee(amount)
    <3>1. PICK amount \in FeeAmounts : ReceiveFee(amount)
      BY <2>2
    <3> QED
      BY <1>3, <1>8, <3>1
  <2> QED
    BY <1>9, <2>1, <2>2 DEF Income
<1>10. CASE EmergencyDrainRewards
  <2>1. PICK a, b, c, d : a = reward_vault' /\ b = audit'.drained
                          /\ c = reward_vault /\ d = audit.drained
    OBVIOUS
  <2>2. a + b = c + d /\ a \in Nat /\ b \in Nat
    BY <1>6, <1>10, <2>1 DEF TypeOK, PositionsStay, AuditRecord
  <2> QED
    BY <1>6, <1>8, <1>10, <2>1, <2>2
<1> QED
  BY <1>1, <1>4, <1>5, <1>7, <1>8, <1>9, <1>10 DEF QuietStep, Tick


\* What both ways of starting an epoch write.
EpochStarts ==
  /\ user_stake' = user_stake /\ reward_vault' = reward_vault
  /\ staking_vault' = staking_vault
  /\ pool'.current_epoch = pool.current_epoch + 1
  /\ pool'.current_epoch_eligible_stake = pool.total_staked
  /\ pool'.total_staked = pool.total_staked
  /\ pool'.total_rewards_distributed = pool.total_rewards_distributed
  /\ pool'.total_rewards_deposited = pool.total_rewards_deposited
  /\ audit'.held_last = audit.held_current
  /\ audit'.held_current = WithStake
  /\ audit'.paid = {}
  /\ audit'.fees = audit.fees /\ audit'.drained = audit.drained

\* What advance_epoch writes.
LEMMA AdvanceWrites ==
  ASSUME StakingAssumption, Typed, AdvanceEpoch
  PROVE  /\ TypeOK' /\ audit' \in AuditRecord /\ EpochStarts
         /\ pool'.last_epoch_rewards = pool.current_epoch_rewards
         /\ pool'.last_epoch_eligible_stake = pool.current_epoch_eligible_stake
         /\ pool'.last_epoch_distributed = 0
         /\ pool'.current_epoch_rewards = Undistributed
         /\ audit'.overpaid = audit.overpaid + Overpaid
         /\ audit'.forfeited = audit.forfeited
<1> USE DEF Typed
<1>1. PICK c, s, u, o :
        /\ c = pool.current_epoch + 1 /\ s = EpochEndTime
        /\ u = Undistributed /\ o = audit.overpaid + Overpaid
  OBVIOUS
<1>2. EpochDurations \subseteq Nat
  BY DEF StakingAssumption
<1>3. c \in 1 .. MaxEpoch
  BY <1>1 DEF AdvanceEpoch, TypeOK, PoolRecord, StakingAssumption
<1>4. s \in Nat
  <2>1. pool.epoch_start_time \in Nat /\ pool.epoch_duration \in EpochDurations
    BY DEF TypeOK, PoolRecord
  <2>2. pool.epoch_duration \in Nat
    BY <1>2, <2>1
  <2> QED
    BY <1>1, <2>1, <2>2 DEF EpochEndTime
<1>5. u \in Nat
  BY <1>1 DEF TypeOK, PoolRecord, Undistributed
<1>6. o \in Nat
  BY <1>1 DEF TypeOK, PoolRecord, AuditRecord, Overpaid
<1>7. pool' = [pool EXCEPT
        !.last_epoch_rewards = pool.current_epoch_rewards,
        !.last_epoch_eligible_stake = pool.current_epoch_eligible_stake,
        !.last_epoch_distributed = 0,
        !.current_epoch = c,
        !.epoch_start_time = s,
        !.current_epoch_rewards = u,
        !.current_epoch_eligible_stake = pool.total_staked]
  BY <1>1 DEF AdvanceEpoch
<1>8. /\ pool' \in PoolRecord
      /\ pool'.current_epoch = c
      /\ pool'.current_epoch_eligible_stake = pool.total_staked
      /\ pool'.total_staked = pool.total_staked
      /\ pool'.total_rewards_distributed = pool.total_rewards_distributed
      /\ pool'.total_rewards_deposited = pool.total_rewards_deposited
      /\ pool'.last_epoch_rewards = pool.current_epoch_rewards
      /\ pool'.last_epoch_eligible_stake = pool.current_epoch_eligible_stake
      /\ pool'.last_epoch_distributed = 0
      /\ pool'.current_epoch_rewards = u
  BY <1>3, <1>4, <1>5, <1>7 DEF TypeOK, PoolRecord
<1>9. WithStake \in SUBSET Staker
  BY DEF WithStake
<1>10. audit' = [audit EXCEPT !.overpaid = o, !.topped_up = FALSE, !.forced = FALSE,
                  !.held_last = audit.held_current, !.held_current = WithStake,
                  !.paid = {}]
  BY <1>1 DEF AdvanceEpoch
<1>11. /\ audit' \in AuditRecord
       /\ audit'.held_last = audit.held_current
       /\ audit'.held_current = WithStake /\ audit'.paid = {}
       /\ audit'.fees = audit.fees /\ audit'.drained = audit.drained
       /\ audit'.overpaid = o /\ audit'.forfeited = audit.forfeited
  BY <1>6, <1>9, <1>10 DEF AuditRecord
<1>12. UNCHANGED <<now, user_stake, tokens, staking_vault, reward_vault>>
  BY DEF AdvanceEpoch, stakeVars
<1>13. TypeOK'
  BY <1>8, <1>12 DEF TypeOK
<1> QED
  BY <1>1, <1>8, <1>11, <1>12, <1>13 DEF EpochStarts

\* What force_advance_epoch writes.
LEMMA ForceWrites ==
  ASSUME StakingAssumption, Typed, ForceAdvanceEpoch
  PROVE  /\ TypeOK' /\ audit' \in AuditRecord /\ EpochStarts
         /\ pool'.last_epoch_rewards = pool.last_epoch_rewards
         /\ pool'.last_epoch_eligible_stake = pool.last_epoch_eligible_stake
         /\ pool'.last_epoch_distributed = pool.last_epoch_distributed
         /\ pool'.current_epoch_rewards = 0
         /\ audit'.overpaid = audit.overpaid
         /\ audit'.forfeited = audit.forfeited + pool.current_epoch_rewards
         /\ audit'.forced = TRUE
<1> USE DEF Typed
<1>1. PICK c, f : /\ c = pool.current_epoch + 1
                  /\ f = audit.forfeited + pool.current_epoch_rewards
  OBVIOUS
<1>2. c \in 1 .. MaxEpoch
  BY <1>1 DEF ForceAdvanceEpoch, TypeOK, PoolRecord, StakingAssumption
<1>3. f \in Nat
  BY <1>1 DEF TypeOK, PoolRecord, AuditRecord
<1>4. pool' = [pool EXCEPT
        !.current_epoch = c, !.epoch_start_time = now,
        !.current_epoch_eligible_stake = pool.total_staked,
        !.current_epoch_rewards = 0]
  BY <1>1 DEF ForceAdvanceEpoch
<1>5. /\ pool' \in PoolRecord
      /\ pool'.current_epoch = c
      /\ pool'.current_epoch_eligible_stake = pool.total_staked
      /\ pool'.total_staked = pool.total_staked
      /\ pool'.total_rewards_distributed = pool.total_rewards_distributed
      /\ pool'.total_rewards_deposited = pool.total_rewards_deposited
      /\ pool'.last_epoch_rewards = pool.last_epoch_rewards
      /\ pool'.last_epoch_eligible_stake = pool.last_epoch_eligible_stake
      /\ pool'.last_epoch_distributed = pool.last_epoch_distributed
      /\ pool'.current_epoch_rewards = 0
  BY <1>2, <1>4 DEF TypeOK, PoolRecord
<1>6. WithStake \in SUBSET Staker
  BY DEF WithStake
<1>7. audit' = [audit EXCEPT !.forfeited = f, !.forced = TRUE,
                 !.held_last = audit.held_current, !.held_current = WithStake,
                 !.paid = {}]
  BY <1>1 DEF ForceAdvanceEpoch
<1>8. /\ audit' \in AuditRecord
      /\ audit'.held_last = audit.held_current
      /\ audit'.held_current = WithStake /\ audit'.paid = {}
      /\ audit'.fees = audit.fees /\ audit'.drained = audit.drained
      /\ audit'.overpaid = audit.overpaid /\ audit'.forfeited = f
      /\ audit'.forced = TRUE
  BY <1>3, <1>6, <1>7 DEF AuditRecord
<1>9. UNCHANGED <<now, user_stake, tokens, staking_vault, reward_vault>>
  BY DEF ForceAdvanceEpoch, stakeVars
<1>10. TypeOK'
  BY <1>5, <1>9 DEF TypeOK
<1> QED
  BY <1>1, <1>5, <1>8, <1>9, <1>10 DEF EpochStarts

\* What distribute_rewards writes: the run and the d lamports it paid out.
Distributed(run, d) ==
  /\ HasRewards
  /\ RunOK(run)
  /\ d \in Nat /\ d = reward_vault - run.vault
  /\ user_stake' = run.stakes /\ reward_vault' = run.vault
  /\ staking_vault' = staking_vault
  /\ pool'.current_epoch = pool.current_epoch
  /\ pool'.total_staked = pool.total_staked
  /\ pool'.current_epoch_eligible_stake = pool.current_epoch_eligible_stake
  /\ pool'.current_epoch_rewards = pool.current_epoch_rewards
  /\ pool'.last_epoch_rewards = pool.last_epoch_rewards
  /\ pool'.last_epoch_eligible_stake = pool.last_epoch_eligible_stake
  /\ pool'.total_rewards_deposited = pool.total_rewards_deposited
  /\ pool'.last_epoch_distributed = pool.last_epoch_distributed + d
  /\ pool'.total_rewards_distributed = pool.total_rewards_distributed + d
  /\ audit'.paid = audit.paid \cup run.paid
  /\ audit'.fees = audit.fees /\ audit'.drained = audit.drained
  /\ audit'.forfeited = audit.forfeited /\ audit'.overpaid = audit.overpaid
  /\ audit'.topped_up = audit.topped_up /\ audit'.forced = audit.forced
  /\ audit'.held_current = audit.held_current
  /\ audit'.held_last = audit.held_last

LEMMA DistributeWrites ==
  ASSUME StakingAssumption, Typed, NEW n \in Nat, NEW batch \in [1 .. n -> Staker],
         DistributeRewards(batch)
  PROVE  TypeOK' /\ audit' \in AuditRecord /\ \E run, d : Distributed(run, d)
<1> USE DEF Typed
<1>1. PICK run : run = PaymentRun(batch)
  OBVIOUS
<1>2. HasRewards
  BY DEF DistributeRewards
<1>3. RunOK(run)
  BY <1>1, <1>2, RunIsOK
<1>4. PICK d : d = reward_vault - run.vault
  OBVIOUS
<1>5. d \in Nat /\ run.vault \in Nat /\ run.stakes \in [Staker -> UserStakeRecord]
      /\ run.paid \in SUBSET Staker
  BY <1>3, <1>4 DEF RunOK, RunRecord, TypeOK
<1>6. PICK x, y, q : /\ x = pool.last_epoch_distributed + d
                     /\ y = pool.total_rewards_distributed + d
                     /\ q = audit.paid \cup run.paid
  OBVIOUS
<1>7. x \in Nat /\ y \in Nat /\ q \in SUBSET Staker
  <2>0. pool.last_epoch_distributed \in Nat /\ pool.total_rewards_distributed \in Nat
    BY DEF TypeOK, PoolRecord
  <2>1. x \in Nat /\ y \in Nat
    BY ONLY <1>5, <1>6, <2>0
  <2>2. q \in SUBSET Staker
    BY <1>5, <1>6 DEF AuditRecord
  <2> QED
    BY <2>1, <2>2
<1>8. /\ user_stake' = run.stakes /\ reward_vault' = run.vault
      /\ UNCHANGED <<now, tokens, staking_vault>>
      /\ pool' = [pool EXCEPT !.last_epoch_distributed = x, !.total_rewards_distributed = y]
      /\ audit' = [audit EXCEPT !.paid = q]
  BY <1>1, <1>4, <1>6 DEF DistributeRewards
<1>9. /\ pool' \in PoolRecord
      /\ pool'.current_epoch = pool.current_epoch
      /\ pool'.total_staked = pool.total_staked
      /\ pool'.current_epoch_eligible_stake = pool.current_epoch_eligible_stake
      /\ pool'.current_epoch_rewards = pool.current_epoch_rewards
      /\ pool'.last_epoch_rewards = pool.last_epoch_rewards
      /\ pool'.last_epoch_eligible_stake = pool.last_epoch_eligible_stake
      /\ pool'.total_rewards_deposited = pool.total_rewards_deposited
      /\ pool'.last_epoch_distributed = x /\ pool'.total_rewards_distributed = y
  BY <1>7, <1>8 DEF TypeOK, PoolRecord
<1>10. /\ audit' \in AuditRecord /\ audit'.paid = q
       /\ audit'.fees = audit.fees /\ audit'.drained = audit.drained
       /\ audit'.forfeited = audit.forfeited /\ audit'.overpaid = audit.overpaid
       /\ audit'.topped_up = audit.topped_up /\ audit'.forced = audit.forced
       /\ audit'.held_current = audit.held_current
       /\ audit'.held_last = audit.held_last
  BY <1>7, <1>8 DEF AuditRecord
<1>11. TypeOK'
  BY <1>5, <1>8, <1>9 DEF TypeOK
<1>12. Distributed(run, d)
  BY <1>2, <1>3, <1>4, <1>5, <1>6, <1>8, <1>9, <1>10 DEF Distributed
<1> QED
  BY <1>10, <1>11, <1>12

\* Every step is one of these.
LEMMA StepCases ==
  ASSUME StakingAssumption, Typed, Next
  PROVE  \/ \E u \in Staker, amount \in StakeAmounts : Stake(u, amount)
         \/ \E u \in Staker, amount \in UnstakeAmounts : Unstake(u, amount)
         \/ QuietStep
         \/ AdvanceEpoch
         \/ ForceAdvanceEpoch
         \/ TypeOK' /\ audit' \in AuditRecord /\ \E run, d : Distributed(run, d)
<1>1. CASE StakerSteps
  BY <1>1 DEF StakerSteps
<1>2. CASE Distribute
  <2>1. PICK n \in 1 .. MaxBatch : \E batch \in [1 .. n -> Staker] : DistributeRewards(batch)
    BY <1>2 DEF Distribute
  <2>2. PICK batch \in [1 .. n -> Staker] : DistributeRewards(batch)
    BY <2>1
  <2>3. n \in Nat
    BY DEF StakingAssumption
  <2>4. TypeOK' /\ audit' \in AuditRecord /\ \E run, d : Distributed(run, d)
    BY <2>2, <2>3, DistributeWrites
  <2> QED
    BY <2>4
<1>3. CASE Authority
  BY <1>3 DEF Authority, QuietStep
<1>4. CASE Tick \/ Income \/ AdvanceEpoch
  BY <1>4 DEF QuietStep
<1> QED
  BY <1>1, <1>2, <1>3, <1>4 DEF Next


-----------------------------------------------------------------------------
(* Types.                                                                   *)

\* Every step keeps them.
LEMMA TypedStep == Typed /\ [Next]_vars => Typed'
<1> USE StakingAssumption
<1> SUFFICES ASSUME Typed, [Next]_vars PROVE Typed'
  OBVIOUS
<1>1. CASE UNCHANGED vars
  BY <1>1 DEF vars, Typed, TypeOK
<1>2. CASE Next
  <2>1. ASSUME NEW u \in Staker, NEW amount \in StakeAmounts, Stake(u, amount)
        PROVE  Typed'
    BY <2>1, StakeWrites DEF Typed
  <2>2. ASSUME NEW u \in Staker, NEW amount \in UnstakeAmounts, Unstake(u, amount)
        PROVE  Typed'
    BY <2>2, UnstakeWrites DEF Typed
  <2>3. CASE QuietStep
    BY <2>3, QuietWrites DEF Typed, PositionsStay
  <2>4. CASE AdvanceEpoch
    BY <2>4, AdvanceWrites DEF Typed
  <2>5. CASE ForceAdvanceEpoch
    BY <2>5, ForceWrites DEF Typed
  <2> QED
    BY <1>2, <2>1, <2>2, <2>3, <2>4, <2>5, StepCases DEF Typed
<1> QED
  BY <1>1, <1>2

\* The program starts with its types.
LEMMA InitTyped == Init => Typed
<1> USE StakingAssumption
<1> SUFFICES ASSUME Init PROVE Typed
  OBVIOUS
<1>1. TypeOK
  <2>1. PICK duration \in EpochDurations :
       pool = [current_epoch |-> 1, epoch_duration |-> duration,
               epoch_start_time |-> 0, total_staked |-> 0,
               current_epoch_eligible_stake |-> 0, current_epoch_rewards |-> 0,
               last_epoch_rewards |-> 0, last_epoch_eligible_stake |-> 0,
               last_epoch_distributed |-> 0, total_rewards_distributed |-> 0,
               total_rewards_deposited |-> 0, paused |-> FALSE]
    BY DEF Init
  <2>2. 1 \in 1 .. MaxEpoch
    BY DEF StakingAssumption
  <2>3. pool \in PoolRecord
    BY <2>1, <2>2 DEF PoolRecord
  <2> QED
    BY <2>3 DEF Init, TypeOK, NoStake, UserStakeRecord, StakingAssumption
<1>2. audit \in AuditRecord
  BY DEF Init, AuditRecord
<1> QED
  BY <1>1, <1>2 DEF Typed

\* The reward vault never goes below zero, whatever batches are distributed, and
\* every amount of the accounts stays an unsigned integer (state.rs:329-441).
THEOREM StakingTypes == Spec => []TypeOK
<1>1. Init => Typed
  BY InitTyped
<1>2. Typed /\ [Next]_vars => Typed'
  BY TypedStep
<1>3. Typed => TypeOK
  BY DEF Typed
<1> QED
  BY <1>1, <1>2, <1>3, PTL DEF Spec


-----------------------------------------------------------------------------
(* Positions and totals.                                                    *)

\* Nobody's position starts in an epoch that has not come.
StartsInTime ==
  \A u \in Staker : user_stake[u].stake_start_epoch <= pool.current_epoch

\* Those who were in before the current epoch began.
InBefore == {u \in Staker : user_stake[u].stake_start_epoch < pool.current_epoch}

\* The stakes after u's became a.
LEMMA StakedAfter ==
  ASSUME StakingAssumption, Typed, NEW u \in Staker, NEW a \in Nat, NEW s, NEW e,
         StakesBecome(u, a, s, e)
  PROVE  /\ \A v \in Staker : StakeOf[v] \in Nat /\ StakeOf'[v] \in Nat
         /\ \A v \in Staker : v # u => StakeOf'[v] = StakeOf[v]
         /\ StakeOf[u] = user_stake[u].staked_amount /\ StakeOf'[u] = a
BY DEF Typed, TypeOK, StakesBecome, StakeOf, UserStakeRecord

\* Stake and unstake keep the totals.
LEMMA TotalAfter ==
  ASSUME StakingAssumption, Typed, StakeAccounted, NEW u \in Staker, NEW a \in Nat,
         NEW s, NEW e, StakesBecome(u, a, s, e),
         pool'.total_staked = pool.total_staked - user_stake[u].staked_amount + a,
         staking_vault' = staking_vault - user_stake[u].staked_amount + a
  PROVE  StakeAccounted'
<1>1. PICK f, g : f = StakeOf /\ g = StakeOf'
  OBVIOUS
<1>2. /\ \A v \in Staker : f[v] \in Nat /\ g[v] \in Nat
      /\ \A v \in Staker : v # u => g[v] = f[v]
      /\ f[u] = user_stake[u].staked_amount /\ g[u] = a
  BY <1>1, StakedAfter
<1>3. IsFiniteSet(Staker)
  BY DEF StakingAssumption
<1>4. SumFunctionOnSet(g, Staker) = SumFunctionOnSet(f, Staker) - f[u] + g[u]
  <2>1. /\ IsFiniteSet(Staker) /\ u \in Staker
        /\ \A v \in Staker : f[v] \in Nat /\ g[v] \in Nat
        /\ \A v \in Staker : v # u => g[v] = f[v]
    BY <1>2, <1>3
  <2> QED
    BY ONLY <2>1, SumChange
<1>5. Staked(Staker) = SumFunctionOnSet(f, Staker)
      /\ Staked(Staker)' = SumFunctionOnSet(g, Staker)
  BY <1>1 DEF Staked, StakeOf
<1> QED
  BY <1>2, <1>4, <1>5 DEF StakeAccounted

\* The eligible stake after u's position became one of a since s.
LEMMA EligibleAfter ==
  ASSUME StakingAssumption, Typed, EligibleStakeExact,
         NEW u \in Staker, NEW a \in Nat, NEW s \in Nat,
         NEW e, StakesBecome(u, a, s, e),
         LET old == user_stake[u] IN
         e = pool.current_epoch_eligible_stake
               - (IF old.stake_start_epoch < pool.current_epoch
                  THEN old.staked_amount ELSE 0)
               + (IF s < pool.current_epoch THEN a ELSE 0)
  PROVE  EligibleStakeExact'
<1>1. PICK f, g, S, R : f = StakeOf /\ g = StakeOf' /\ S = InBefore /\ R = InBefore'
  OBVIOUS
<1>2. /\ \A v \in Staker : f[v] \in Nat /\ g[v] \in Nat
      /\ \A v \in Staker : v # u => g[v] = f[v]
      /\ f[u] = user_stake[u].staked_amount /\ g[u] = a
  BY <1>1, StakedAfter
<1>3. /\ S \in SUBSET Staker /\ R \in SUBSET Staker /\ S \ {u} = R \ {u}
      /\ u \in S <=> user_stake[u].stake_start_epoch < pool.current_epoch
      /\ u \in R <=> s < pool.current_epoch
  BY <1>1 DEF InBefore, StakesBecome
<1>4. PICK K : K = S \ {u}
  OBVIOUS
<1>5. IsFiniteSet(S) /\ IsFiniteSet(R) /\ IsFiniteSet(K)
  BY <1>3, <1>4, FS_Subset DEF StakingAssumption
<1>6. SumFunctionOnSet(f, S)
        = SumFunctionOnSet(f, K) + (IF u \in S THEN f[u] ELSE 0)
  <2>1. CASE u \in S
    <3>1. SumFunctionOnSet(f, S) = f[u] + SumFunctionOnSet(f, S \ {u})
      BY ONLY <1>2, <1>3, <1>5, <2>1, SumRemove
    <3>2. SumFunctionOnSet(f, K) \in Nat /\ f[u] \in Nat
      BY <1>2, <1>3, <1>4, <1>5, SumType
    <3> QED
      BY <1>4, <2>1, <3>1, <3>2
  <2>2. CASE u \notin S
    <3>1. SumFunctionOnSet(f, K) \in Nat /\ K = S
      BY <1>2, <1>3, <1>4, <1>5, <2>2, SumType
    <3> QED
      BY <2>2, <3>1
  <2> QED
    BY <2>1, <2>2
<1>7. SumFunctionOnSet(g, R)
        = SumFunctionOnSet(g, K) + (IF u \in R THEN g[u] ELSE 0)
  <2>1. CASE u \in R
    <3>1. SumFunctionOnSet(g, R) = g[u] + SumFunctionOnSet(g, R \ {u})
      BY ONLY <1>2, <1>3, <1>5, <2>1, SumRemove
    <3>2. SumFunctionOnSet(g, K) \in Nat /\ g[u] \in Nat
      BY <1>2, <1>3, <1>4, <1>5, SumType
    <3>3. R \ {u} = K
      BY <1>3, <1>4
    <3>4. SumFunctionOnSet(g, R) = g[u] + SumFunctionOnSet(g, K)
      BY <3>1, <3>3
    <3> QED
      BY ONLY <2>1, <3>2, <3>4
  <2>2. CASE u \notin R
    <3>1. SumFunctionOnSet(g, K) \in Nat /\ K = R
      BY <1>2, <1>3, <1>4, <1>5, <2>2, SumType
    <3> QED
      BY <2>2, <3>1
  <2> QED
    BY <2>1, <2>2
<1>8. SumFunctionOnSet(g, K) = SumFunctionOnSet(f, K) /\ SumFunctionOnSet(f, K) \in Nat
  BY <1>2, <1>3, <1>4, <1>5, SumFrame, SumType
<1>9. /\ pool.current_epoch_eligible_stake = SumFunctionOnSet(f, S)
      /\ pool'.current_epoch_eligible_stake = e
      /\ EligibleStakeExact' <=> e = SumFunctionOnSet(g, R)
  BY <1>1 DEF EligibleStakeExact, Staked, StakeOf, InBefore, StakesBecome
<1> QED
  BY <1>2, <1>3, <1>6, <1>7, <1>8, <1>9

\* Nothing about the totals changes while positions and epoch stay.
LEMMA TotalsStay ==
  ASSUME StakeAddsUp, StartsInTime, StakeOf' = StakeOf,
         \A u \in Staker : user_stake'[u].stake_start_epoch = user_stake[u].stake_start_epoch,
         pool'.current_epoch = pool.current_epoch,
         pool'.total_staked = pool.total_staked,
         pool'.current_epoch_eligible_stake = pool.current_epoch_eligible_stake,
         staking_vault' = staking_vault
  PROVE  StakeAddsUp' /\ StartsInTime'
<1>1. StartsInTime' /\ InBefore' = InBefore
  BY DEF StartsInTime, InBefore
<1>2. PICK f, S : f = StakeOf /\ S = InBefore
  OBVIOUS
<1>3. /\ pool.total_staked = SumFunctionOnSet(f, Staker)
      /\ staking_vault = SumFunctionOnSet(f, Staker)
      /\ pool.current_epoch_eligible_stake = SumFunctionOnSet(f, S)
  BY <1>2 DEF StakeAddsUp, StakeAccounted, EligibleStakeExact, Staked, StakeOf, InBefore
<1>4. /\ StakeAccounted' <=> /\ pool'.total_staked = SumFunctionOnSet(f, Staker)
                             /\ staking_vault' = SumFunctionOnSet(f, Staker)
      /\ EligibleStakeExact' <=>
           pool'.current_epoch_eligible_stake = SumFunctionOnSet(f, S)
  <2>1. f = StakeOf' /\ S = InBefore'
    BY <1>1, <1>2
  <2> QED
    BY ONLY <2>1 DEF StakeAccounted, EligibleStakeExact, Staked, StakeOf, InBefore
<1> QED
  BY <1>1, <1>3, <1>4 DEF StakeAddsUp


\* The stake of one who was in is part of the eligible stake.
LEMMA EligibleCovers ==
  ASSUME StakingAssumption, Typed, EligibleStakeExact, NEW u \in Staker,
         user_stake[u].stake_start_epoch < pool.current_epoch
  PROVE  user_stake[u].staked_amount <= pool.current_epoch_eligible_stake
<1>1. InBefore \in SUBSET Staker /\ u \in InBefore
  BY DEF InBefore
<1>2. IsFiniteSet(InBefore) /\ \A v \in InBefore : StakeOf[v] \in Nat
  BY <1>1, FS_Subset DEF StakingAssumption, Typed, TypeOK, StakeOf, UserStakeRecord
<1>3. StakeOf[u] <= SumFunctionOnSet(StakeOf, InBefore)
  BY ONLY <1>1, <1>2, SumBounds
<1>4. pool.current_epoch_eligible_stake = SumFunctionOnSet(StakeOf, InBefore)
  BY DEF EligibleStakeExact, Staked, StakeOf, InBefore
<1> QED
  BY <1>3, <1>4 DEF StakeOf

\* Every step keeps positions, totals and the eligible stake in agreement.
LEMMA StakeStep ==
  Typed /\ StakeAddsUp /\ StartsInTime /\ [Next]_vars => StakeAddsUp' /\ StartsInTime'
<1> USE StakingAssumption
<1> SUFFICES ASSUME Typed, StakeAddsUp, StartsInTime, [Next]_vars
             PROVE  StakeAddsUp' /\ StartsInTime'
  OBVIOUS
<1>1. StakeAccounted /\ EligibleStakeExact
  BY DEF StakeAddsUp
<1>2. /\ \A u \in Staker : /\ user_stake[u].staked_amount \in Nat
                           /\ user_stake[u].stake_start_epoch \in Nat
      /\ pool.current_epoch \in Nat /\ pool.current_epoch_eligible_stake \in Nat
      /\ pool.total_staked \in Nat /\ staking_vault \in Nat
  BY DEF Typed, TypeOK, PoolRecord, UserStakeRecord
<1>3. CASE UNCHANGED vars
  BY <1>3, TotalsStay DEF vars, StakeOf
<1>4. ASSUME NEW u \in Staker, NEW amount \in StakeAmounts, Stake(u, amount)
      PROVE  StakeAddsUp' /\ StartsInTime'
  <2>1. PICK old, start, cur, el, a, s, e :
          /\ old = user_stake[u].staked_amount
          /\ start = user_stake[u].stake_start_epoch
          /\ cur = pool.current_epoch /\ el = pool.current_epoch_eligible_stake
          /\ a = old + amount /\ s = StartEpoch(u)
          /\ e = IF IsEligible(u) THEN el + amount ELSE el
    OBVIOUS
  <2>2. /\ StakesBecome(u, a, s, e) /\ amount \in Nat
        /\ pool'.total_staked = pool.total_staked + amount
        /\ staking_vault' = staking_vault + amount
    BY <1>4, <2>1, StakeWrites
  <2>3. /\ s = IF old = 0 THEN cur ELSE start
        /\ e = IF s < cur THEN el + amount ELSE el
        /\ old \in Nat /\ start \in Nat /\ cur \in Nat /\ el \in Nat
        /\ a \in Nat /\ s \in Nat /\ start <= cur
    BY <1>2, <2>1, <2>2 DEF StartEpoch, IsEligible, StartsInTime
  <2>4. e = el - (IF start < cur THEN old ELSE 0) + (IF s < cur THEN a ELSE 0)
    BY ONLY <2>1, <2>2, <2>3
  <2>5. EligibleStakeExact'
    BY <1>1, <2>1, <2>2, <2>3, <2>4, EligibleAfter
  <2>6. /\ pool'.total_staked = pool.total_staked - user_stake[u].staked_amount + a
        /\ staking_vault' = staking_vault - user_stake[u].staked_amount + a
    BY <1>2, <2>1, <2>2
  <2>7. StakeAccounted'
    BY <1>1, <2>2, <2>3, <2>6, TotalAfter
  <2>8. StartsInTime'
    BY <2>1, <2>2, <2>3 DEF StartsInTime, StakesBecome
  <2> QED
    BY <2>5, <2>7, <2>8 DEF StakeAddsUp
<1>5. ASSUME NEW u \in Staker, NEW amount \in UnstakeAmounts, Unstake(u, amount)
      PROVE  StakeAddsUp' /\ StartsInTime'
  <2>1. PICK old, start, cur, el, a, s, e :
          /\ old = user_stake[u].staked_amount
          /\ start = user_stake[u].stake_start_epoch
          /\ cur = pool.current_epoch /\ el = pool.current_epoch_eligible_stake
          /\ a = old - amount /\ s = IF a = 0 THEN cur ELSE start
          /\ e = IF ~(start < cur) THEN el
                 ELSE IF el >= amount THEN el - amount ELSE 0
    OBVIOUS
  <2>2. /\ StakesBecome(u, a, s, e) /\ amount \in Nat /\ a \in Nat
        /\ pool'.total_staked = pool.total_staked - amount
        /\ staking_vault' = staking_vault - amount
    BY <1>5, <2>1, UnstakeWrites
  <2>3. /\ old \in Nat /\ start \in Nat /\ cur \in Nat /\ el \in Nat
        /\ s \in Nat /\ start <= cur /\ (start < cur => old <= el)
    BY <1>1, <1>2, <2>1, EligibleCovers DEF StartsInTime
  <2>4. e = el - (IF start < cur THEN old ELSE 0) + (IF s < cur THEN a ELSE 0)
    BY ONLY <2>1, <2>2, <2>3
  <2>5. EligibleStakeExact'
    BY <1>1, <2>1, <2>2, <2>3, <2>4, EligibleAfter
  <2>6. /\ pool'.total_staked = pool.total_staked - user_stake[u].staked_amount + a
        /\ staking_vault' = staking_vault - user_stake[u].staked_amount + a
    BY <1>2, <2>1, <2>2
  <2>7. StakeAccounted'
    BY <1>1, <2>2, <2>6, TotalAfter
  <2>8. StartsInTime'
    BY <2>1, <2>2, <2>3 DEF StartsInTime, StakesBecome
  <2> QED
    BY <2>5, <2>7, <2>8 DEF StakeAddsUp
<1>6. CASE QuietStep
  <2>1. PositionsStay
    BY <1>6, QuietWrites
  <2> QED
    BY <2>1, TotalsStay DEF PositionsStay, StakeOf
<1>7. ASSUME EpochStarts PROVE StakeAddsUp' /\ StartsInTime'
  <2>1. StartsInTime'
    BY <1>2, <1>7 DEF StartsInTime, EpochStarts
  <2>2. InBefore' = Staker /\ StakeOf' = StakeOf
    BY <1>2, <1>7 DEF StartsInTime, InBefore, EpochStarts, StakeOf
  <2>3. PICK f : f = StakeOf
    OBVIOUS
  <2>4. /\ pool.total_staked = SumFunctionOnSet(f, Staker)
        /\ staking_vault = SumFunctionOnSet(f, Staker)
    BY <1>1, <2>3 DEF StakeAccounted, Staked, StakeOf
  <2>5. /\ StakeAccounted' <=> /\ pool'.total_staked = SumFunctionOnSet(f, Staker)
                               /\ staking_vault' = SumFunctionOnSet(f, Staker)
        /\ EligibleStakeExact' <=>
             pool'.current_epoch_eligible_stake = SumFunctionOnSet(f, Staker)
    <3>1. f = StakeOf' /\ Staker = InBefore'
      BY <2>2, <2>3
    <3> QED
      BY ONLY <3>1 DEF StakeAccounted, EligibleStakeExact, Staked, StakeOf, InBefore
  <2> QED
    BY <1>7, <2>1, <2>4, <2>5 DEF EpochStarts, StakeAddsUp
<1>8. ASSUME NEW run, NEW d, Distributed(run, d)
      PROVE  StakeAddsUp' /\ StartsInTime'
  <2>1. /\ \A u \in Staker :
             /\ user_stake'[u].staked_amount = user_stake[u].staked_amount
             /\ user_stake'[u].stake_start_epoch = user_stake[u].stake_start_epoch
        /\ pool'.current_epoch = pool.current_epoch
        /\ pool'.total_staked = pool.total_staked
        /\ pool'.current_epoch_eligible_stake = pool.current_epoch_eligible_stake
        /\ staking_vault' = staking_vault
    BY <1>8 DEF Distributed, RunOK, PositionsKept
  <2>2. StakeOf' = StakeOf
    BY <2>1 DEF StakeOf
  <2> QED
    BY <2>1, <2>2, TotalsStay
<1>9. CASE AdvanceEpoch
  BY <1>7, <1>9, AdvanceWrites
<1>10. CASE ForceAdvanceEpoch
  BY <1>7, <1>10, ForceWrites
<1> QED
  BY <1>3, <1>4, <1>5, <1>6, <1>8, <1>9, <1>10, StepCases

\* In the beginning nobody has anything staked.
LEMMA InitStake == Init => StakeAddsUp /\ StartsInTime
<1> SUFFICES ASSUME Init PROVE StakeAddsUp /\ StartsInTime
  OBVIOUS
<1> USE StakingAssumption
<1>1. /\ pool.total_staked = 0 /\ staking_vault = 0
      /\ pool.current_epoch_eligible_stake = 0 /\ pool.current_epoch = 1
      /\ \A u \in Staker : StakeOf[u] = 0 /\ user_stake[u].stake_start_epoch = 0
  BY DEF Init, NoStake, StakeOf
<1>2. Typed
  BY InitTyped
<1>3. InBefore = Staker
  BY <1>1 DEF InBefore
<1>4. PICK f : f = StakeOf
  OBVIOUS
<1>5. SumFunctionOnSet(f, Staker) = 0
  BY <1>1, <1>4, SumZero DEF StakingAssumption
<1>6. /\ StakeAccounted <=> /\ pool.total_staked = SumFunctionOnSet(f, Staker)
                            /\ staking_vault = SumFunctionOnSet(f, Staker)
      /\ EligibleStakeExact <=>
           pool.current_epoch_eligible_stake = SumFunctionOnSet(f, Staker)
  BY <1>3, <1>4 DEF StakeAccounted, EligibleStakeExact, Staked, StakeOf, InBefore
<1> QED
  BY <1>1, <1>5, <1>6 DEF StakeAddsUp, StartsInTime

\* The vault holds the sum of the positions, the pool's total is that sum, and
\* its eligible part is the stake of those who were in before the epoch began
\* (stake.rs:56-94, unstake.rs:57-79, advance_epoch.rs:33-54).
THEOREM StakeCorrect == Spec => []StakeAddsUp
<1>1. Init => Typed /\ StakeAddsUp /\ StartsInTime
  BY InitTyped, InitStake
<1>2. Typed /\ [Next]_vars => Typed'
  BY TypedStep
<1>3. Typed /\ StakeAddsUp /\ StartsInTime /\ [Next]_vars => StakeAddsUp' /\ StartsInTime'
  BY StakeStep
<1> QED
  BY <1>1, <1>2, <1>3, PTL DEF Spec


-----------------------------------------------------------------------------
(* Rewards.                                                                 *)

\* Every step accounts for what it moves.
LEMMA RewardStep == Typed /\ RewardsAccounted /\ [Next]_vars => RewardsAccounted'
<1> USE StakingAssumption
<1> SUFFICES ASSUME Typed, RewardsAccounted, [Next]_vars PROVE RewardsAccounted'
  OBVIOUS
<1>1. /\ pool.total_rewards_deposited \in Nat /\ audit.overpaid \in Nat
      /\ pool.total_rewards_distributed \in Nat /\ audit.forfeited \in Nat
      /\ pool.current_epoch_rewards \in Nat /\ pool.last_epoch_rewards \in Nat
      /\ pool.last_epoch_distributed \in Nat /\ reward_vault \in Nat
      /\ audit.drained \in Nat /\ audit.fees \in Nat
  BY DEF Typed, TypeOK, PoolRecord, AuditRecord
<1>2. Typed'
  BY TypedStep
<1>3. /\ pool'.total_rewards_deposited \in Nat /\ pool'.current_epoch_rewards \in Nat
      /\ reward_vault' \in Nat /\ audit'.drained \in Nat /\ audit'.fees \in Nat
  BY <1>2 DEF Typed, TypeOK, PoolRecord, AuditRecord
<1>4. CASE UNCHANGED vars
  BY <1>4 DEF vars, RewardsAccounted
<1>5. ASSUME NEW u \in Staker, NEW a, NEW s, NEW e, StakesBecome(u, a, s, e)
      PROVE  RewardsAccounted'
  BY <1>5 DEF StakesBecome, RewardFields, MoneyHistory, RewardsAccounted
<1>6. ASSUME NEW u \in Staker, NEW amount \in StakeAmounts, Stake(u, amount)
      PROVE  RewardsAccounted'
  BY <1>5, <1>6, StakeWrites
<1>7. ASSUME NEW u \in Staker, NEW amount \in UnstakeAmounts, Unstake(u, amount)
      PROVE  RewardsAccounted'
  BY <1>5, <1>7, UnstakeWrites
<1>8. CASE QuietStep
  <2>1. /\ PositionsStay
        /\ pool'.total_rewards_deposited - pool.total_rewards_deposited
             = pool'.current_epoch_rewards - pool.current_epoch_rewards
        /\ reward_vault' + audit'.drained
             - (pool'.total_rewards_deposited + audit'.fees)
           = reward_vault + audit.drained
               - (pool.total_rewards_deposited + audit.fees)
    BY <1>8, QuietWrites
  <2>2. PICK dep, dep2, cur, cur2, v, v2, dr, dr2, fe, fe2, rest, paid, over, lost :
          /\ dep = pool.total_rewards_deposited /\ dep2 = pool'.total_rewards_deposited
          /\ cur = pool.current_epoch_rewards /\ cur2 = pool'.current_epoch_rewards
          /\ v = reward_vault /\ v2 = reward_vault'
          /\ dr = audit.drained /\ dr2 = audit'.drained
          /\ fe = audit.fees /\ fe2 = audit'.fees
          /\ rest = pool.last_epoch_rewards - pool.last_epoch_distributed
          /\ paid = pool.total_rewards_distributed
          /\ over = audit.overpaid /\ lost = audit.forfeited
    OBVIOUS
  <2>3. /\ dep2 - dep = cur2 - cur
        /\ v2 + dr2 - (dep2 + fe2) = v + dr - (dep + fe)
        /\ dep \in Nat /\ dep2 \in Nat /\ cur \in Nat /\ cur2 \in Nat
        /\ v \in Nat /\ v2 \in Nat /\ dr \in Nat /\ dr2 \in Nat
        /\ fe \in Nat /\ fe2 \in Nat /\ rest \in Int /\ paid \in Nat
        /\ over \in Nat /\ lost \in Nat
    BY <1>1, <1>3, <2>1, <2>2
  <2>4. /\ dep + over = paid + lost + cur + rest
        /\ v + dr + paid = dep + fe
    BY <2>2 DEF RewardsAccounted
  <2>5. dep2 + over = paid + lost + cur2 + rest
    BY ONLY <2>3, <2>4
  <2>6. v2 + dr2 + paid = dep2 + fe2
    BY ONLY <2>3, <2>4
  <2> QED
    BY <2>1, <2>2, <2>5, <2>6 DEF RewardsAccounted, PositionsStay
<1>9. CASE AdvanceEpoch
  <2>1. /\ EpochStarts
        /\ pool'.last_epoch_rewards = pool.current_epoch_rewards
        /\ pool'.last_epoch_distributed = 0
        /\ pool'.current_epoch_rewards = Undistributed
        /\ audit'.overpaid = audit.overpaid + Overpaid
        /\ audit'.forfeited = audit.forfeited
    BY <1>9, AdvanceWrites
  <2>2. /\ Undistributed - Overpaid
             = pool.last_epoch_rewards - pool.last_epoch_distributed
        /\ Undistributed \in Nat /\ Overpaid \in Nat
    BY <1>1 DEF Undistributed, Overpaid
  <2> QED
    BY <1>1, <2>1, <2>2 DEF RewardsAccounted, EpochStarts
<1>10. CASE ForceAdvanceEpoch
  <2>1. /\ EpochStarts
        /\ pool'.last_epoch_rewards = pool.last_epoch_rewards
        /\ pool'.last_epoch_distributed = pool.last_epoch_distributed
        /\ pool'.current_epoch_rewards = 0
        /\ audit'.overpaid = audit.overpaid
        /\ audit'.forfeited = audit.forfeited + pool.current_epoch_rewards
    BY <1>10, ForceWrites
  <2> QED
    BY <1>1, <2>1 DEF RewardsAccounted, EpochStarts
<1>11. ASSUME NEW run, NEW d, Distributed(run, d)
       PROVE  RewardsAccounted'
  <2>1. /\ d \in Nat /\ reward_vault' = reward_vault - d
    <3>1. run.vault \in Nat
      BY <1>11 DEF Distributed, RunOK, RunRecord
    <3> QED
      BY <1>1, <1>11, <3>1 DEF Distributed
  <2> QED
    BY <1>1, <1>11, <2>1 DEF RewardsAccounted, Distributed
<1> QED
  BY <1>4, <1>6, <1>7, <1>8, <1>9, <1>10, <1>11, StepCases

\* The last epoch's payments and the shares still to be paid stay within its
\* rewards, in units of a lamport times the eligible stake, unless an eligible
\* stake grew or the epoch was forced.
SharesLeft ==
  /\ pool.last_epoch_eligible_stake = 0 => pool.last_epoch_distributed = 0
  /\ audit.topped_up \/ audit.forced
       \/ pool.last_epoch_eligible_stake * pool.last_epoch_distributed
            + pool.last_epoch_rewards * Staked(Unpaid)
          <= pool.last_epoch_rewards * pool.last_epoch_eligible_stake

\* Fewer shares to be paid keep the bound.
LEMMA FewerShares ==
  ASSUME NEW e \in Nat, NEW d \in Nat, NEW r \in Nat, NEW x \in Nat, NEW y \in Nat,
         y <= x, e * d + r * x <= r * e
  PROVE  e * d + r * y <= r * e
<1>1. PICK k \in Nat : x = y + k
  <2>1. x - y \in Nat /\ x = y + (x - y)
    OBVIOUS
  <2> QED
    BY <2>1
<1>2. r * (y + k) = r * y + r * k /\ r * y \in Nat /\ r * k \in Nat
      /\ e * d \in Nat /\ r * e \in Nat
  BY <1>1
<1>3. e * d + r * (y + k) <= r * e
  BY <1>1
<1> QED
  BY <1>2, <1>3

\* The bound on payments and shares bounds the payments.
LEMMA PaidWithin ==
  ASSUME NEW e \in Nat, e > 0, NEW d \in Nat, NEW r \in Nat, NEW x \in Nat,
         e * d + r * x <= r * e
  PROVE  d <= r
<1> SUFFICES ASSUME d > r PROVE FALSE
  OBVIOUS
<1>1. PICK k \in Nat : d = r + 1 + k
  <2>1. d - r - 1 \in Nat /\ d = r + 1 + (d - r - 1)
    OBVIOUS
  <2> QED
    BY <2>1
<1>2. e * (r + 1 + k) = r * e + e + e * k /\ e * k \in Nat /\ r * x \in Nat
      /\ r * e \in Nat
  BY <1>1
<1>3. e * (r + 1 + k) + r * x <= r * e
  BY <1>1
<1> QED
  BY <1>2, <1>3


\* While the last epoch's figures stay and no share grows, the bound stays.
LEMMA SharesShrink ==
  ASSUME StakingAssumption, Typed, Typed', SharesLeft,
         Unpaid' \subseteq Unpaid,
         \A v \in Unpaid' : StakeOf'[v] <= StakeOf[v],
         pool'.last_epoch_rewards = pool.last_epoch_rewards,
         pool'.last_epoch_eligible_stake = pool.last_epoch_eligible_stake,
         pool'.last_epoch_distributed = pool.last_epoch_distributed,
         audit.topped_up => audit'.topped_up,
         audit.forced => audit'.forced
  PROVE  SharesLeft'
<1>1. PICK f, g, S, R, x, y :
        /\ f = StakeOf /\ g = StakeOf' /\ S = Unpaid /\ R = Unpaid'
        /\ x = SumFunctionOnSet(f, S) /\ y = SumFunctionOnSet(g, R)
  OBVIOUS
<1>2. /\ S \in SUBSET Staker /\ R \subseteq S
      /\ \A v \in S : f[v] \in Nat
      /\ \A v \in R : g[v] \in Nat /\ g[v] <= f[v]
  BY <1>1 DEF Typed, TypeOK, Unpaid, StakeOf, UserStakeRecord
<1>3. IsFiniteSet(S) /\ IsFiniteSet(R)
  BY <1>2, FS_Subset DEF StakingAssumption
<1>4. y <= x
  BY ONLY <1>1, <1>2, <1>3, SumMonotone
<1>5. x \in Nat /\ y \in Nat
  BY <1>1, <1>2, <1>3, SumType
<1>6. x = Staked(Unpaid) /\ y = Staked(Unpaid)'
  BY <1>1 DEF Staked, StakeOf
<1>7. PICK e, d, r : /\ e = pool.last_epoch_eligible_stake
                     /\ d = pool.last_epoch_distributed
                     /\ r = pool.last_epoch_rewards
  OBVIOUS
<1>8. e \in Nat /\ d \in Nat /\ r \in Nat
  BY <1>7 DEF Typed, TypeOK, PoolRecord
<1>9. CASE e * d + r * x <= r * e
  <2>1. e * d + r * y <= r * e
    BY <1>4, <1>5, <1>8, <1>9, FewerShares
  <2> QED
    BY <1>6, <1>7, <2>1 DEF SharesLeft
<1>10. CASE ~(e * d + r * x <= r * e)
  <2>1. audit.topped_up \/ audit.forced
    BY <1>6, <1>7, <1>10 DEF SharesLeft
  <2>2. audit'.topped_up \/ audit'.forced
    BY <2>1
  <2> QED
    BY <2>2 DEF SharesLeft
<1> QED
  BY <1>9, <1>10

\* Every step keeps payments and shares within the rewards.
LEMMA SharesStep == Typed /\ StakeAddsUp /\ SharesLeft /\ [Next]_vars => SharesLeft'
<1> USE StakingAssumption
<1> SUFFICES ASSUME Typed, StakeAddsUp, SharesLeft, [Next]_vars PROVE SharesLeft'
  OBVIOUS
<1>1. Typed'
  BY TypedStep
<1>2. /\ \A u \in Staker : /\ user_stake[u].staked_amount \in Nat
                           /\ user_stake[u].stake_start_epoch \in Nat
                           /\ user_stake[u].last_rewarded_epoch \in Nat
      /\ pool.current_epoch \in Nat
  BY DEF Typed, TypeOK, PoolRecord, UserStakeRecord
<1>3. CASE UNCHANGED vars
  <2>1. Unpaid' = Unpaid /\ StakeOf' = StakeOf
    BY <1>3 DEF vars, Unpaid, StakeOf, Rewardable, DistributableEpoch
  <2>2. \A v \in Unpaid : StakeOf[v] \in Nat
    BY <1>2 DEF Unpaid, StakeOf
  <2> QED
    BY <1>1, <1>3, <2>1, <2>2, SharesShrink DEF vars
<1>4. ASSUME NEW u \in Staker, NEW amount \in StakeAmounts, Stake(u, amount)
      PROVE  SharesLeft'
  <2>1. PICK a, s, e :
          /\ a = user_stake[u].staked_amount + amount /\ s = StartEpoch(u)
          /\ e = IF IsEligible(u) THEN pool.current_epoch_eligible_stake + amount
                 ELSE pool.current_epoch_eligible_stake
    OBVIOUS
  <2>2. /\ StakesBecome(u, a, s, e) /\ amount \in Nat
        /\ audit'.topped_up = (audit.topped_up \/ IsEligible(u))
    BY <1>4, <2>1, StakeWrites
  <2>3. /\ pool'.last_epoch_rewards = pool.last_epoch_rewards
        /\ pool'.last_epoch_eligible_stake = pool.last_epoch_eligible_stake
        /\ pool'.last_epoch_distributed = pool.last_epoch_distributed
        /\ audit'.forced = audit.forced
    BY <2>2 DEF StakesBecome, RewardFields, MoneyHistory
  <2>4. CASE IsEligible(u)
    <3>1. audit'.topped_up
      BY <2>2, <2>4
    <3> QED
      BY <2>3, <3>1 DEF SharesLeft
  <2>5. CASE ~IsEligible(u)
    <3>1. /\ \A v \in Staker : v # u => user_stake'[v] = user_stake[v]
          /\ user_stake'[u].stake_start_epoch = s /\ s \in Nat
          /\ pool'.current_epoch = pool.current_epoch /\ ~(s < pool.current_epoch)
      BY <1>2, <2>1, <2>2, <2>5 DEF StakesBecome, StartEpoch, IsEligible
    <3>2. u \notin Unpaid'
      BY <1>2, <3>1 DEF Unpaid, Rewardable, DistributableEpoch
    <3>3. /\ Unpaid' \subseteq Unpaid
          /\ \A v \in Unpaid' : StakeOf'[v] = StakeOf[v] /\ StakeOf[v] \in Nat
      BY <1>2, <3>1, <3>2 DEF Unpaid, Rewardable, DistributableEpoch, StakeOf
    <3>4. audit.topped_up => audit'.topped_up
      BY <2>2
    <3>5. \A v \in Unpaid' : StakeOf'[v] <= StakeOf[v]
      BY <3>3
    <3> QED
      BY <1>1, <2>3, <3>3, <3>4, <3>5, SharesShrink
  <2> QED
    BY <2>4, <2>5
<1>5. ASSUME NEW u \in Staker, NEW amount \in UnstakeAmounts, Unstake(u, amount)
      PROVE  SharesLeft'
  <2>1. PICK a, s, e :
          /\ a = user_stake[u].staked_amount - amount
          /\ s = IF a = 0 THEN pool.current_epoch ELSE user_stake[u].stake_start_epoch
          /\ e = IF ~(user_stake[u].stake_start_epoch < pool.current_epoch)
                 THEN pool.current_epoch_eligible_stake
                 ELSE IF pool.current_epoch_eligible_stake >= amount
                      THEN pool.current_epoch_eligible_stake - amount ELSE 0
    OBVIOUS
  <2>2. /\ StakesBecome(u, a, s, e) /\ amount \in Nat /\ a \in Nat
        /\ user_stake'[u].last_rewarded_epoch =
             (IF a = 0 THEN pool.current_epoch
              ELSE user_stake[u].last_rewarded_epoch)
        /\ audit'.topped_up = audit.topped_up
    BY <1>5, <2>1, UnstakeWrites
  <2>3. /\ pool'.last_epoch_rewards = pool.last_epoch_rewards
        /\ pool'.last_epoch_eligible_stake = pool.last_epoch_eligible_stake
        /\ pool'.last_epoch_distributed = pool.last_epoch_distributed
        /\ audit'.forced = audit.forced
    BY <2>2 DEF StakesBecome, RewardFields, MoneyHistory
  <2>4. /\ \A v \in Staker : v # u => user_stake'[v] = user_stake[v]
        /\ user_stake'[u].staked_amount = a
        /\ user_stake'[u].stake_start_epoch = s
        /\ pool'.current_epoch = pool.current_epoch
    BY <2>2 DEF StakesBecome
  <2>5. u \in Unpaid' => u \in Unpaid
    BY <1>2, <2>1, <2>2, <2>4 DEF Unpaid, Rewardable, DistributableEpoch
  <2>6. StakeOf'[u] <= StakeOf[u]
    BY <1>2, <2>1, <2>2, <2>4 DEF StakeOf
  <2>7. \A v \in Staker : v # u =>
          /\ v \in Unpaid' <=> v \in Unpaid
          /\ StakeOf'[v] = StakeOf[v] /\ StakeOf[v] \in Nat
    BY <1>2, <2>4 DEF Unpaid, Rewardable, DistributableEpoch, StakeOf
  <2>8. Unpaid' \subseteq Staker
    BY DEF Unpaid
  <2>9. Unpaid' \subseteq Unpaid /\ \A v \in Unpaid' : StakeOf'[v] <= StakeOf[v]
    BY <2>5, <2>6, <2>7, <2>8
  <2> QED
    BY <1>1, <2>2, <2>3, <2>9, SharesShrink
<1>6. CASE QuietStep
  <2>1. PositionsStay
    BY <1>6, QuietWrites
  <2>2. Unpaid' = Unpaid /\ StakeOf' = StakeOf
    BY <2>1 DEF PositionsStay, Unpaid, StakeOf, Rewardable, DistributableEpoch
  <2>3. \A v \in Unpaid : StakeOf[v] \in Nat
    BY <1>2 DEF Unpaid, StakeOf
  <2> QED
    BY <1>1, <2>1, <2>2, <2>3, SharesShrink DEF PositionsStay
<1>7. CASE AdvanceEpoch
  <2>1. /\ EpochStarts
        /\ pool'.last_epoch_rewards = pool.current_epoch_rewards
        /\ pool'.last_epoch_eligible_stake = pool.current_epoch_eligible_stake
        /\ pool'.last_epoch_distributed = 0
    BY <1>7, AdvanceWrites
  <2>2. PICK f, S, R, r, e, y :
          /\ f = StakeOf /\ S = InBefore /\ R = Unpaid'
          /\ r = pool.current_epoch_rewards /\ e = pool.current_epoch_eligible_stake
          /\ y = SumFunctionOnSet(f, R)
    OBVIOUS
  <2>3. StakeOf' = StakeOf
    BY <2>1 DEF EpochStarts, StakeOf
  <2>4. R \subseteq S /\ S \in SUBSET Staker /\ \A v \in S : f[v] \in Nat
    BY <1>2, <2>1, <2>2 DEF EpochStarts, Unpaid, InBefore, Rewardable,
                            DistributableEpoch, StakeOf
  <2>5. IsFiniteSet(S) /\ IsFiniteSet(R)
    BY <2>4, FS_Subset DEF StakingAssumption
  <2>6. e = SumFunctionOnSet(f, S) /\ r \in Nat /\ e \in Nat
    BY <2>2 DEF StakeAddsUp, EligibleStakeExact, Staked, StakeOf, InBefore, Typed,
                TypeOK, PoolRecord
  <2>7. y <= e /\ y \in Nat
    <3>1. \A v \in R : f[v] \in Nat /\ f[v] <= f[v]
      BY <2>4
    <3>2. SumFunctionOnSet(f, R) <= SumFunctionOnSet(f, S)
      BY ONLY <2>4, <2>5, <3>1, SumMonotone
    <3>3. SumFunctionOnSet(f, R) \in Nat
      BY ONLY <2>5, <3>1, SumType
    <3> QED
      BY <2>2, <2>6, <3>2, <3>3
  <2>8. y = Staked(Unpaid)'
    BY <2>2, <2>3 DEF Staked, StakeOf
  <2>9. e * 0 + r * y <= r * e
    <3>1. e * 0 + r * e <= r * e
      BY <2>6
    <3> QED
      BY <2>6, <2>7, <3>1, FewerShares
  <2> QED
    BY <2>1, <2>2, <2>8, <2>9 DEF SharesLeft
<1>8. CASE ForceAdvanceEpoch
  <2>1. /\ audit'.forced = TRUE
        /\ pool'.last_epoch_eligible_stake = pool.last_epoch_eligible_stake
        /\ pool'.last_epoch_distributed = pool.last_epoch_distributed
    BY <1>8, ForceWrites
  <2> QED
    BY <2>1 DEF SharesLeft
<1>9. ASSUME NEW run, NEW pay, Distributed(run, pay)
      PROVE  SharesLeft'
  <2>1. /\ HasRewards /\ PositionsKept(run) /\ SharesCover(run)
        /\ pay \in Nat /\ pay = reward_vault - run.vault
    BY <1>9 DEF Distributed, RunOK
  <2>2. /\ user_stake' = run.stakes
        /\ pool'.current_epoch = pool.current_epoch
        /\ pool'.last_epoch_rewards = pool.last_epoch_rewards
        /\ pool'.last_epoch_eligible_stake = pool.last_epoch_eligible_stake
        /\ pool'.last_epoch_distributed = pool.last_epoch_distributed + pay
        /\ audit'.topped_up = audit.topped_up /\ audit'.forced = audit.forced
    BY <1>9 DEF Distributed
  <2>3. StakeOf' = StakeOf
    BY <2>1, <2>2 DEF StakeOf, PositionsKept
  <2>4. Unpaid' = Unpaid \ run.paid
    <3>1. ASSUME NEW v \in Staker
          PROVE  v \in Unpaid' <=> v \in Unpaid \ run.paid
      <4>1. CASE v \in run.paid
        <5>1. user_stake'[v].last_rewarded_epoch = DistributableEpoch
              /\ DistributableEpoch' = DistributableEpoch /\ DistributableEpoch \in Int
          BY <1>2, <2>1, <2>2, <4>1 DEF PositionsKept, DistributableEpoch
        <5>2. ~ (user_stake'[v].last_rewarded_epoch < DistributableEpoch')
          BY <5>1
        <5> QED
          BY <4>1, <5>2 DEF Unpaid, Rewardable
      <4>2. CASE v \notin run.paid
        <5>1. user_stake'[v] = user_stake[v] /\ DistributableEpoch' = DistributableEpoch
          BY <2>1, <2>2, <4>2 DEF PositionsKept, DistributableEpoch
        <5> QED
          BY <4>2, <5>1 DEF Unpaid, Rewardable
      <4> QED
        BY <4>1, <4>2
    <3>2. Unpaid \subseteq Staker /\ Unpaid' \subseteq Staker
      BY DEF Unpaid
    <3> QED
      BY <3>1, <3>2
  <2>5. PICK e, d, r, x, y :
          /\ e = pool.last_epoch_eligible_stake /\ d = pool.last_epoch_distributed
          /\ r = pool.last_epoch_rewards /\ x = Staked(Unpaid)
          /\ y = Staked(Unpaid \ run.paid)
    OBVIOUS
  <2>6. /\ e \in Nat /\ d \in Nat /\ r \in Nat /\ x \in Nat /\ y \in Nat /\ e > 0
    <3>1. Unpaid \in SUBSET Staker /\ Unpaid \ run.paid \in SUBSET Staker
      BY DEF Unpaid
    <3>2. x \in Nat /\ y \in Nat
      BY <2>5, <3>1, StakedType DEF Typed
    <3> QED
      BY <2>1, <2>5, <3>2 DEF Typed, TypeOK, PoolRecord, HasRewards
  <2>7. y = Staked(Unpaid)'
    <3>1. PICK f, S : f = StakeOf /\ S = Unpaid \ run.paid
      OBVIOUS
    <3>2. f = StakeOf' /\ S = Unpaid'
      BY <2>3, <2>4, <3>1
    <3>3. Staked(Unpaid)' = SumFunctionOnSet(f, S)
      BY ONLY <3>2 DEF Staked, StakeOf
    <3>4. y = SumFunctionOnSet(f, S)
      BY <2>5, <3>1 DEF Staked, StakeOf
    <3> QED
      BY <3>3, <3>4
  <2>8. e * pay + r * y <= r * x
    BY <2>1, <2>5 DEF SharesCover
  <2>9. CASE e * d + r * x <= r * e
    <3>1. e * (d + pay) = e * d + e * pay /\ e * d \in Nat /\ e * pay \in Nat
          /\ r * x \in Nat /\ r * y \in Nat /\ r * e \in Nat
      BY <2>1, <2>6
    <3>2. e * (d + pay) + r * y <= r * e
      BY <2>8, <2>9, <3>1
    <3> QED
      BY <2>2, <2>5, <2>6, <2>7, <3>2 DEF SharesLeft
  <2>10. CASE ~(e * d + r * x <= r * e)
    <3>1. audit.topped_up \/ audit.forced
      BY <2>5, <2>10 DEF SharesLeft
    <3> QED
      BY <2>2, <2>5, <2>6, <3>1 DEF SharesLeft
  <2> QED
    BY <2>9, <2>10
<1> QED
  BY <1>3, <1>4, <1>5, <1>6, <1>7, <1>8, <1>9, StepCases

\* What is left to pay bounds what was paid.
LEMMA SharesBound == Typed /\ SharesLeft => DistributionWithinRewards
<1> USE StakingAssumption
<1> SUFFICES ASSUME Typed, SharesLeft, ~audit.topped_up, ~audit.forced
             PROVE  pool.last_epoch_distributed <= pool.last_epoch_rewards
  BY DEF DistributionWithinRewards
<1>1. PICK e, d, r, x :
        /\ e = pool.last_epoch_eligible_stake /\ d = pool.last_epoch_distributed
        /\ r = pool.last_epoch_rewards /\ x = Staked(Unpaid)
  OBVIOUS
<1>2. e \in Nat /\ d \in Nat /\ r \in Nat /\ x \in Nat
  <2>1. Unpaid \in SUBSET Staker
    BY DEF Unpaid
  <2>2. x \in Nat
    BY <1>1, <2>1, StakedType DEF Typed
  <2> QED
    BY <1>1, <2>2 DEF Typed, TypeOK, PoolRecord
<1>3. (e = 0 => d = 0) /\ e * d + r * x <= r * e
  BY <1>1 DEF SharesLeft
<1>4. CASE e = 0
  BY <1>1, <1>2, <1>3, <1>4
<1>5. CASE e # 0
  <2>1. e > 0
    BY <1>2, <1>5
  <2>2. d <= r
    BY <1>2, <1>3, <2>1, PaidWithin
  <2> QED
    BY <1>1, <2>2
<1> QED
  BY <1>4, <1>5

\* In the beginning there are no rewards.
LEMMA InitRewards == Init => RewardsAccounted /\ SharesLeft
<1> SUFFICES ASSUME Init PROVE RewardsAccounted /\ SharesLeft
  OBVIOUS
<1>1. /\ pool.total_rewards_deposited = 0 /\ audit.overpaid = 0
      /\ pool.total_rewards_distributed = 0 /\ audit.forfeited = 0
      /\ pool.current_epoch_rewards = 0 /\ pool.last_epoch_rewards = 0
      /\ pool.last_epoch_distributed = 0 /\ reward_vault = 0
      /\ audit.drained = 0 /\ audit.fees = 0 /\ pool.last_epoch_eligible_stake = 0
  BY DEF Init
<1>2. RewardsAccounted
  BY <1>1 DEF RewardsAccounted
<1>3. SharesLeft
  <2>1. PICK x : x = Staked(Unpaid)
    OBVIOUS
  <2>2. Typed /\ Unpaid \in SUBSET Staker
    BY InitTyped DEF Unpaid
  <2>3. x \in Nat
    BY <2>1, <2>2, StakedType, StakingAssumption DEF Typed
  <2>4. 0 * 0 + 0 * x <= 0 * 0
    BY <2>3
  <2> QED
    BY <1>1, <2>1, <2>4 DEF SharesLeft
<1> QED
  BY <1>2, <1>3

\* Every lamport of the reward vault is accounted for, and the payments of an
\* epoch stay within its rewards whatever batches are paid in whatever order and
\* whoever unstakes between them (distribute_rewards.rs:54-220,
\* advance_epoch.rs:33-54).
THEOREM RewardsCorrect == Spec => []RewardsAddUp
<1>1. Init => /\ Typed /\ StakeAddsUp /\ StartsInTime
              /\ RewardsAccounted /\ SharesLeft
  BY InitTyped, InitStake, InitRewards
<1>2. Typed /\ [Next]_vars => Typed'
  BY TypedStep
<1>3. Typed /\ StakeAddsUp /\ StartsInTime /\ [Next]_vars => StakeAddsUp' /\ StartsInTime'
  BY StakeStep
<1>4. Typed /\ RewardsAccounted /\ [Next]_vars => RewardsAccounted'
  BY RewardStep
<1>5. Typed /\ StakeAddsUp /\ SharesLeft /\ [Next]_vars => SharesLeft'
  BY SharesStep
<1>6. Typed /\ RewardsAccounted /\ SharesLeft => RewardsAddUp
  BY SharesBound DEF RewardsAddUp
<1> QED
  BY <1>1, <1>2, <1>3, <1>4, <1>5, <1>6, PTL DEF Spec


-----------------------------------------------------------------------------
(* Who is paid.                                                             *)

\* What the accounts say of a staker agrees with what happened: one whose
\* position is older than an epoch held it all through, and one paid since the
\* epoch began is marked.
HistoryKept ==
  \A u \in Staker :
    /\ /\ user_stake[u].staked_amount > 0
       /\ user_stake[u].stake_start_epoch < pool.current_epoch
       => u \in audit.held_current
    /\ /\ user_stake[u].staked_amount > 0
       /\ user_stake[u].stake_start_epoch < DistributableEpoch
       => u \in audit.held_last
    /\ u \in audit.paid => user_stake[u].last_rewarded_epoch >= DistributableEpoch

\* Every step keeps it so.
LEMMA HistoryStep == Typed /\ HistoryKept /\ [Next]_vars => HistoryKept'
<1> USE StakingAssumption
<1> SUFFICES ASSUME Typed, HistoryKept, [Next]_vars PROVE HistoryKept'
  OBVIOUS
<1>1. /\ \A u \in Staker : /\ user_stake[u].staked_amount \in Nat
                           /\ user_stake[u].stake_start_epoch \in Nat
                           /\ user_stake[u].last_rewarded_epoch \in Nat
      /\ pool.current_epoch \in Nat /\ audit.paid \subseteq Staker
  BY DEF Typed, TypeOK, PoolRecord, UserStakeRecord, AuditRecord
<1>2. CASE UNCHANGED vars
  BY <1>2 DEF vars, HistoryKept, DistributableEpoch
<1>3. ASSUME NEW u \in Staker, NEW amount \in StakeAmounts, Stake(u, amount)
      PROVE  HistoryKept'
  <2>1. PICK a, s, e :
          /\ a = user_stake[u].staked_amount + amount /\ s = StartEpoch(u)
          /\ e = IF IsEligible(u) THEN pool.current_epoch_eligible_stake + amount
                 ELSE pool.current_epoch_eligible_stake
    OBVIOUS
  <2>2. /\ StakesBecome(u, a, s, e)
        /\ user_stake'[u].last_rewarded_epoch = RewardedEpoch(u)
        /\ audit'.held_current = audit.held_current
        /\ audit'.held_last = audit.held_last
    BY <1>3, <2>1, StakeWrites
  <2>3. /\ \A v \in Staker : v # u => user_stake'[v] = user_stake[v]
        /\ user_stake'[u].stake_start_epoch = s
        /\ pool'.current_epoch = pool.current_epoch
        /\ DistributableEpoch' = DistributableEpoch
        /\ audit'.paid = audit.paid
    BY <2>2 DEF StakesBecome, MoneyHistory, DistributableEpoch
  <2>4. CASE user_stake[u].staked_amount = 0
    <3>1. /\ user_stake'[u].stake_start_epoch = pool.current_epoch
          /\ user_stake'[u].last_rewarded_epoch = pool.current_epoch
      BY <2>1, <2>2, <2>3, <2>4 DEF StartEpoch, RewardedEpoch
    <3> QED
      BY <1>1, <2>2, <2>3, <3>1 DEF HistoryKept, DistributableEpoch
  <2>5. CASE user_stake[u].staked_amount # 0
    <3>1. /\ user_stake'[u].stake_start_epoch = user_stake[u].stake_start_epoch
          /\ user_stake'[u].last_rewarded_epoch = user_stake[u].last_rewarded_epoch
          /\ user_stake[u].staked_amount > 0
      BY <1>1, <2>1, <2>2, <2>3, <2>5 DEF StartEpoch, RewardedEpoch
    <3> QED
      BY <1>1, <2>2, <2>3, <3>1 DEF HistoryKept, DistributableEpoch
  <2> QED
    BY <2>4, <2>5
<1>4. ASSUME NEW u \in Staker, NEW amount \in UnstakeAmounts, Unstake(u, amount)
      PROVE  HistoryKept'
  <2>1. PICK a, s, e :
          /\ a = user_stake[u].staked_amount - amount
          /\ s = IF a = 0 THEN pool.current_epoch ELSE user_stake[u].stake_start_epoch
          /\ e = IF ~(user_stake[u].stake_start_epoch < pool.current_epoch)
                 THEN pool.current_epoch_eligible_stake
                 ELSE IF pool.current_epoch_eligible_stake >= amount
                      THEN pool.current_epoch_eligible_stake - amount ELSE 0
    OBVIOUS
  <2>2. /\ StakesBecome(u, a, s, e) /\ amount \in Nat /\ a \in Nat
        /\ user_stake'[u].last_rewarded_epoch =
             (IF a = 0 THEN pool.current_epoch
              ELSE user_stake[u].last_rewarded_epoch)
        /\ a > 0 => /\ audit'.held_current = audit.held_current
                    /\ audit'.held_last = audit.held_last
        /\ audit'.held_current \cup {u} = audit.held_current \cup {u}
        /\ audit'.held_last \cup {u} = audit.held_last \cup {u}
    BY <1>4, <2>1, UnstakeWrites
  <2>3. /\ \A v \in Staker : v # u => user_stake'[v] = user_stake[v]
        /\ user_stake'[u].staked_amount = a
        /\ user_stake'[u].stake_start_epoch = s
        /\ pool'.current_epoch = pool.current_epoch
        /\ DistributableEpoch' = DistributableEpoch
        /\ audit'.paid = audit.paid
    BY <2>2 DEF StakesBecome, MoneyHistory, DistributableEpoch
  <2>4. \A v \in Staker : v # u =>
          /\ v \in audit'.held_current <=> v \in audit.held_current
          /\ v \in audit'.held_last <=> v \in audit.held_last
    BY <2>2
  <2>5. CASE a = 0
    <3>1. /\ user_stake'[u].staked_amount = 0
          /\ user_stake'[u].last_rewarded_epoch = pool.current_epoch
      BY <2>2, <2>3, <2>5
    <3> QED
      BY <1>1, <2>3, <2>4, <3>1 DEF HistoryKept, DistributableEpoch
  <2>6. CASE a # 0
    <3>1. /\ user_stake'[u].stake_start_epoch = user_stake[u].stake_start_epoch
          /\ user_stake'[u].last_rewarded_epoch = user_stake[u].last_rewarded_epoch
          /\ user_stake[u].staked_amount > 0
          /\ audit'.held_current = audit.held_current
          /\ audit'.held_last = audit.held_last
      BY <1>1, <2>1, <2>2, <2>3, <2>6
    <3> QED
      BY <1>1, <2>3, <3>1 DEF HistoryKept, DistributableEpoch
  <2> QED
    BY <2>5, <2>6
<1>5. CASE QuietStep
  <2>1. PositionsStay
    BY <1>5, QuietWrites
  <2> QED
    BY <2>1 DEF PositionsStay, HistoryKept, DistributableEpoch
<1>6. ASSUME EpochStarts PROVE HistoryKept'
  <2>1. /\ user_stake' = user_stake
        /\ pool'.current_epoch = pool.current_epoch + 1
        /\ DistributableEpoch' = pool.current_epoch
        /\ audit'.held_last = audit.held_current
        /\ audit'.held_current = WithStake /\ audit'.paid = {}
    BY <1>1, <1>6 DEF EpochStarts, DistributableEpoch
  <2> QED
    BY <2>1 DEF HistoryKept, WithStake
<1>7. ASSUME NEW run, NEW d, Distributed(run, d)
      PROVE  HistoryKept'
  <2>1. /\ PositionsKept(run) /\ user_stake' = run.stakes
        /\ pool'.current_epoch = pool.current_epoch
        /\ DistributableEpoch' = DistributableEpoch
        /\ audit'.paid = audit.paid \cup run.paid
        /\ audit'.held_current = audit.held_current
        /\ audit'.held_last = audit.held_last
    BY <1>7 DEF Distributed, RunOK, DistributableEpoch
  <2>2. ASSUME NEW u \in Staker
        PROVE  /\ user_stake'[u].staked_amount = user_stake[u].staked_amount
               /\ user_stake'[u].stake_start_epoch = user_stake[u].stake_start_epoch
               /\ u \in audit'.paid =>
                    user_stake'[u].last_rewarded_epoch >= DistributableEpoch
    <3>1. DistributableEpoch \in Int
      BY <1>1 DEF DistributableEpoch
    <3>2. CASE u \in run.paid
      BY <2>1, <3>1, <3>2 DEF PositionsKept
    <3>3. CASE u \notin run.paid
      BY <2>1, <3>3 DEF PositionsKept, HistoryKept
    <3> QED
      BY <3>2, <3>3
  <2> QED
    BY <2>1, <2>2 DEF HistoryKept
<1>8. CASE AdvanceEpoch
  BY <1>6, <1>8, AdvanceWrites
<1>9. CASE ForceAdvanceEpoch
  BY <1>6, <1>9, ForceWrites
<1> QED
  BY <1>2, <1>3, <1>4, <1>5, <1>7, <1>8, <1>9, StepCases

\* Only distribute_rewards pays anyone, and only those with a reward coming.
LEMMA PaidStep ==
  ASSUME Typed, HistoryKept, [Next]_vars, NEW u \in Staker,
         user_stake'[u].total_rewards_received # user_stake[u].total_rewards_received
  PROVE  u \in audit.held_last /\ u \notin audit.paid
<1> USE StakingAssumption
<1>1. ASSUME user_stake' = user_stake PROVE FALSE
  BY <1>1
<1>2. ASSUME NEW v \in Staker, NEW a, NEW s, NEW e, StakesBecome(v, a, s, e)
      PROVE  FALSE
  BY <1>2 DEF StakesBecome
<1>3. ASSUME NEW v \in Staker, NEW amount \in StakeAmounts, Stake(v, amount)
      PROVE  FALSE
  BY <1>2, <1>3, StakeWrites
<1>4. ASSUME NEW v \in Staker, NEW amount \in UnstakeAmounts, Unstake(v, amount)
      PROVE  FALSE
  BY <1>2, <1>4, UnstakeWrites
<1>5. ~QuietStep /\ ~AdvanceEpoch /\ ~ForceAdvanceEpoch
  BY <1>1, QuietWrites, AdvanceWrites, ForceWrites DEF PositionsStay, EpochStarts
<1>6. PICK run, d : Distributed(run, d)
  BY <1>1, <1>3, <1>4, <1>5, StepCases DEF vars
<1>7. PositionsKept(run) /\ user_stake' = run.stakes
  BY <1>6 DEF Distributed, RunOK
<1>8. u \in run.paid
  BY <1>7 DEF PositionsKept
<1>9. Rewardable(user_stake[u])
  BY <1>7, <1>8 DEF PositionsKept
<1>10. /\ user_stake[u].staked_amount > 0
       /\ user_stake[u].stake_start_epoch < DistributableEpoch
       /\ user_stake[u].last_rewarded_epoch < DistributableEpoch
       /\ user_stake[u].last_rewarded_epoch \in Nat /\ DistributableEpoch \in Int
  BY <1>9 DEF Rewardable, Typed, TypeOK, UserStakeRecord, PoolRecord, DistributableEpoch
<1> QED
  BY <1>10 DEF HistoryKept

\* A staker is paid for an epoch at most once, and only after holding stake,
\* without ever going down to zero, since before that epoch began
\* (distribute_rewards.rs:154-190; last_rewarded_epoch and stake_start_epoch,
\* state.rs:434-437, are what the program keeps of that history).
THEOREM PaidCorrectly == Spec => PaidOnceForWholeEpoch
<1> DEFINE PaidOnce ==
      \A u \in Staker :
        user_stake'[u].total_rewards_received # user_stake[u].total_rewards_received
          => u \in audit.held_last /\ u \notin audit.paid
<1>1. Init => Typed /\ HistoryKept
  <2>1. Init => HistoryKept
    BY DEF Init, NoStake, HistoryKept
  <2> QED
    BY <2>1, InitTyped
<1>2. Typed /\ [Next]_vars => Typed'
  BY TypedStep
<1>3. Typed /\ HistoryKept /\ [Next]_vars => HistoryKept'
  BY HistoryStep
<1>4. Typed /\ HistoryKept /\ [Next]_vars => [PaidOnce]_vars
  BY PaidStep
<1>5. Spec => [][PaidOnce]_vars
  BY <1>1, <1>2, <1>3, <1>4, PTL DEF Spec
<1> QED
  BY <1>5 DEF PaidOnceForWholeEpoch

-----------------------------------------------------------------------------
(* The crank (module DistributionCrank): nobody owed is lost sight of.      *)

CrankRecord == [phase : {"idle", "advancing", "checking", "reading", "paying", "sending"},
                for_epoch : Nat, attempt : Nat, todo : Seq(Seq(Staker)), paid_a_batch : BOOLEAN]
CauseRecord == [unpaid : SUBSET Staker, stale : BOOLEAN]

\* A tick that pays has batches left.
HasWork(q) == q.phase \in {"paying", "sending"} => q.todo # <<>>

CrankTypes ==
  /\ crank \in [Ticker -> CrankRecord] /\ cause \in CauseRecord
  /\ \A c \in Ticker : HasWork(crank[c])

\* MissedOnlyWithCause before the epoch's payments end: who is owed is not lost sight of.
Covered ==
  cause.stale \/ \A u \in Owed : u \in cause.unpaid \/ \E c \in Ticker : u \in Pending(c)

CrankInv == Typed /\ CrankTypes /\ Covered

-----------------------------------------------------------------------------
(* Who is owed.                                                             *)

\* Before the next epoch is closed nobody becomes owed.
StakesLater ==
  /\ Typed' /\ pool'.current_epoch = pool.current_epoch
  /\ \A u \in Owed' : u \in Owed

\* A position that starts is not owed, one that ends is not either.
LEMMA StakeLater ==
  ASSUME StakingAssumption, Typed, NEW u \in Staker, NEW amount \in StakeAmounts, Stake(u, amount)
  PROVE  StakesLater
<1>1. PICK s \in UserStakeRecord, t \in UserStakeRecord : s = user_stake[u] /\ t = user_stake'[u]
  BY StakeWrites DEF Typed, TypeOK
<1>2. PICK e \in Nat : e = pool.current_epoch /\ e = pool'.current_epoch
  BY StakeWrites DEF Typed, TypeOK, PoolRecord, StakesBecome
<1>3. /\ t.stake_start_epoch = (IF s.staked_amount = 0 THEN e ELSE s.stake_start_epoch)
      /\ t.last_rewarded_epoch = (IF s.staked_amount = 0 THEN e ELSE s.last_rewarded_epoch)
  BY <1>1, <1>2, StakeWrites DEF StakesBecome, StartEpoch, RewardedEpoch
<1>4. Rewardable(t)' => Rewardable(s)
  BY <1>2, <1>3 DEF Rewardable, DistributableEpoch, UserStakeRecord
<1>5. /\ \A v \in Staker : v # u => user_stake'[v] = user_stake[v]
      /\ pool'.last_epoch_rewards = pool.last_epoch_rewards
      /\ pool'.last_epoch_eligible_stake = pool.last_epoch_eligible_stake
      /\ Typed'
  BY StakeWrites DEF StakesBecome, RewardFields, Typed
<1>6. \A v \in Owed' : v \in Owed
  BY <1>1, <1>2, <1>4, <1>5 DEF Owed, HasRewards, Rewardable, DistributableEpoch
<1> QED
  BY <1>2, <1>5, <1>6 DEF StakesLater

LEMMA UnstakeLater ==
  ASSUME StakingAssumption, Typed, NEW u \in Staker, NEW amount \in UnstakeAmounts, Unstake(u, amount)
  PROVE  StakesLater
<1>1. PICK s \in UserStakeRecord, t \in UserStakeRecord : s = user_stake[u] /\ t = user_stake'[u]
  BY UnstakeWrites DEF Typed, TypeOK
<1>2. PICK e \in Nat : e = pool.current_epoch /\ e = pool'.current_epoch
  BY UnstakeWrites DEF Typed, TypeOK, PoolRecord, StakesBecome
<1>3. /\ amount \in Nat /\ t.staked_amount = s.staked_amount - amount /\ t.staked_amount \in Nat
      /\ t.staked_amount # 0 => /\ t.stake_start_epoch = s.stake_start_epoch
                                /\ t.last_rewarded_epoch = s.last_rewarded_epoch
  BY <1>1, UnstakeWrites DEF StakesBecome
<1>4. Rewardable(t)' => Rewardable(s)
  BY <1>2, <1>3 DEF Rewardable, DistributableEpoch, UserStakeRecord
<1>5. /\ \A v \in Staker : v # u => user_stake'[v] = user_stake[v]
      /\ pool'.last_epoch_rewards = pool.last_epoch_rewards
      /\ pool'.last_epoch_eligible_stake = pool.last_epoch_eligible_stake
      /\ Typed'
  BY UnstakeWrites DEF StakesBecome, RewardFields, Typed
<1>6. \A v \in Owed' : v \in Owed
  BY <1>1, <1>2, <1>4, <1>5 DEF Owed, HasRewards, Rewardable, DistributableEpoch
<1> QED
  BY <1>2, <1>5, <1>6 DEF StakesLater

LEMMA QuietLater ==
  ASSUME StakingAssumption, Typed, QuietStep
  PROVE  StakesLater
<1>1. TypeOK' /\ PositionsStay
  BY QuietWrites
<1>2. \A v \in Owed' : v \in Owed
  BY <1>1 DEF PositionsStay, Owed, HasRewards, Rewardable, DistributableEpoch
<1> QED
  BY <1>1, <1>2 DEF StakesLater, PositionsStay, Typed

\* Who is paid is not owed any more.
LEMMA DistributeLater ==
  ASSUME StakingAssumption, Typed, NEW batch \in Seq(Staker), DistributeRewards(batch)
  PROVE  StakesLater
<1>1. PICK n \in Nat : batch \in [1 .. n -> Staker]
  <2>1. Len(batch) \in Nat /\ batch \in [1 .. Len(batch) -> Staker]
    OBVIOUS
  <2> QED
    BY <2>1
<1>2. TypeOK' /\ audit' \in AuditRecord /\ \E run, d : Distributed(run, d)
  BY <1>1, DistributeWrites
<1>3. PICK run, d : Distributed(run, d)
  BY <1>2
<1>4. /\ pool'.current_epoch = pool.current_epoch
      /\ pool'.last_epoch_rewards = pool.last_epoch_rewards
      /\ pool'.last_epoch_eligible_stake = pool.last_epoch_eligible_stake
      /\ user_stake' = run.stakes /\ PositionsKept(run)
  BY <1>3 DEF Distributed, RunOK
<1>5. ASSUME NEW v \in Owed' PROVE v \in Owed
  <2>1. v \in Staker /\ HasRewards /\ Rewardable(run.stakes[v])
    BY <1>4, <1>5 DEF Owed, HasRewards, Rewardable, DistributableEpoch
  <2>2. CASE v \in run.paid
    BY <1>4, <2>1, <2>2 DEF PositionsKept, Owed
  <2>3. CASE v \notin run.paid
    BY <1>4, <2>1, <2>3 DEF PositionsKept, Owed
  <2> QED
    BY <2>2, <2>3
<1> QED
  BY <1>2, <1>4, <1>5 DEF StakesLater, Typed

LEMMA NothingLater ==
  ASSUME Typed, UNCHANGED vars
  PROVE  StakesLater
BY DEF StakesLater, vars, Typed, TypeOK, Owed, HasRewards, Rewardable, DistributableEpoch

\* Closing an epoch makes it the one to pay out.
LEMMA AdvanceIs ==
  ASSUME StakingAssumption, Typed, AdvanceEpoch
  PROVE  Typed' /\ DistributableEpoch' = pool.current_epoch
<1>1. Typed'
  BY AdvanceWrites DEF Typed
<1>2. PICK e \in Nat : e = pool.current_epoch /\ pool'.current_epoch = e + 1
  BY DEF AdvanceEpoch, Typed, TypeOK, PoolRecord
<1> QED
  BY <1>1, <1>2 DEF DistributableEpoch

-----------------------------------------------------------------------------
(* getEligibleStakers and its batches leave nobody out.                     *)

\* A list of a set's members names each of them.
LEMMA EveryoneListed ==
  ASSUME NEW S \in SUBSET Staker, IsFiniteSet(Staker), NEW list \in SetToSeqs(S)
  PROVE  /\ list \in Seq(Staker)
         /\ \A u \in S : \E k \in 1 .. Len(list) : list[k] = u
<1>1. IsFiniteSet(S)
  BY FS_Subset
<1>2. PICK n \in Nat : n = Cardinality(S)
  BY <1>1, FS_CardinalityType
<1>3. /\ list \in [1 .. n -> S]
      /\ \A i, j \in 1 .. n : i # j => list[i] # list[j]
  BY <1>2 DEF SetToSeqs
<1>4. list \in Injection(1 .. n, S)
  BY <1>3 DEF Injection, IsInjective
<1>5. Cardinality(1 .. n) = n
  BY FS_Interval
<1>6. list \in Surjection(1 .. n, S)
  BY <1>1, <1>2, <1>4, <1>5, FS_Injection
<1>7. \A u \in S : \E k \in 1 .. n : list[k] = u
  BY <1>6 DEF Surjection
<1>8. list \in Seq(Staker) /\ Len(list) = n
  BY <1>3
<1> QED
  BY <1>7, <1>8

LEMMA MinOfTwo ==
  ASSUME NEW a \in Nat, NEW b \in Nat
  PROVE  Min({a, b}) \in {a, b} /\ Min({a, b}) <= a /\ Min({a, b}) <= b
<1>1. \E x \in {a, b} : \A y \in {a, b} : x <= y
  <2>1. CASE a <= b
    BY <2>1
  <2>2. CASE b <= a
    BY <2>2
  <2> QED
    BY <2>1, <2>2
<1>2. Min({a, b}) = CHOOSE x \in {a, b} : \A y \in {a, b} : x <= y
  BY Zenon DEF Min
<1>3. Min({a, b}) \in {a, b} /\ \A y \in {a, b} : Min({a, b}) <= y
  BY <1>1, <1>2, Zenon
<1> QED
  BY <1>3

\* A stretch of a list holds what is between its ends.
LEMMA Stretch ==
  ASSUME NEW list \in Seq(Staker), NEW a \in Nat, NEW z \in Nat, a > 0, z <= Len(list)
  PROVE  /\ SubSeq(list, a, z) \in Seq(Staker)
         /\ \A k \in 1 .. Len(list) : a <= k /\ k <= z => list[k] \in Range(SubSeq(list, a, z))
<1>1. SubSeq(list, a, z) \in Seq(Staker)
  OBVIOUS
<1>2. ASSUME NEW k \in 1 .. Len(list), a <= k, k <= z
      PROVE  list[k] \in Range(SubSeq(list, a, z))
  <2>1. PICK j \in Nat : j = k - a + 1
    BY <1>2
  <2>2. j \in DOMAIN SubSeq(list, a, z) /\ SubSeq(list, a, z)[j] = list[k]
    BY <1>2, <2>1
  <2> QED
    BY <2>2 DEF Range
<1> QED
  BY <1>1, <1>2

\* Each of a list is in a batch.
LEMMA EveryoneInABatch ==
  ASSUME CrankAssumption, NEW list \in Seq(Staker), list # <<>>
  PROVE  /\ Chunk(list) \in Seq(Seq(Staker)) /\ Chunk(list) # <<>>
         /\ \A k \in 1 .. Len(list) : \E i \in DOMAIN Chunk(list) : list[k] \in Range(Chunk(list)[i])
<1>1. PICK n \in Nat : n = Len(list)
  OBVIOUS
<1>2. PICK B \in Nat : B = BATCH_SIZE /\ B > 0
  BY DEF CrankAssumption
<1>3. n > 0
  BY <1>1
<1>4. PICK m \in Nat : m = (n + B - 1) \div B /\ B * m <= n + B - 1 /\ n + B - 1 < B * m + B
  <2>1. n + B - 1 \in Nat
    BY <1>2
  <2> QED
    BY <1>2, <2>1, DivFacts
<1>5. m > 0
  BY <1>2, <1>3, <1>4
<1>6. Chunk(list) = [i \in 1 .. m |-> SubSeq(list, (i - 1) * B + 1, Min({i * B, n}))]
  BY <1>1, <1>2, <1>4 DEF Chunk
<1>7. ASSUME NEW i \in 1 .. m
      PROVE  /\ (i - 1) * B + 1 \in Nat /\ (i - 1) * B + 1 > 0 /\ i * B \in Nat
             /\ Min({i * B, n}) \in Nat /\ Min({i * B, n}) <= n
             /\ \A k \in Nat : k <= i * B /\ k <= n => k <= Min({i * B, n})
  <2>1. PICK b \in Nat, z \in Nat : b = (i - 1) * B /\ z = i * B
    BY <1>2
  <2>2. Min({z, n}) \in {z, n} /\ Min({z, n}) <= n
    BY MinOfTwo
  <2>3. (i - 1) * B \in Nat /\ i * B \in Nat
    BY <1>2, <2>1
  <2>4. Min({z, n}) = Min({i * B, n})
    BY <2>1
  <2>5. PICK l \in Nat : l = Min({z, n}) /\ l \in {z, n} /\ l <= n
    BY <2>2
  <2>6. \A k \in Nat : k <= i * B /\ k <= n => k <= Min({i * B, n})
    <3> SUFFICES ASSUME NEW k \in Nat, k <= z, k <= n PROVE k <= l
      BY <2>1, <2>4, <2>5
    <3> QED
      BY <2>5
  <2>7. (i - 1) * B + 1 \in Nat /\ (i - 1) * B + 1 > 0
    BY <2>1
  <2> QED
    BY <2>3, <2>4, <2>5, <2>6, <2>7
<1>8. \A i \in 1 .. m : SubSeq(list, (i - 1) * B + 1, Min({i * B, n})) \in Seq(Staker)
  BY <1>1, <1>7, Stretch
<1>9. Chunk(list) \in Seq(Seq(Staker)) /\ Len(Chunk(list)) = m /\ DOMAIN Chunk(list) = 1 .. m
  <2>1. Chunk(list) \in [1 .. m -> Seq(Staker)]
    BY <1>6, <1>8
  <2> QED
    BY <2>1
<1>10. ASSUME NEW k \in 1 .. n
       PROVE  \E i \in DOMAIN Chunk(list) : list[k] \in Range(Chunk(list)[i])
  <2>1. PICK h \in Nat : B * h <= k - 1 /\ k - 1 < B * h + B
    <3>1. k - 1 \in Nat
      OBVIOUS
    <3> QED
      BY <1>2, <3>1, DivFacts
  <2>2. PICK i \in Nat : i = h + 1
    OBVIOUS
  <2>3. B * h < B * m
    BY <1>2, <1>4, <2>1
  <2>4. i \in 1 .. m
    BY <1>2, <2>2, <2>3
  <2>5. (i - 1) * B = B * h /\ i * B = B * h + B
    BY <1>2, <2>2
  <2>6. (i - 1) * B + 1 <= k /\ k <= i * B
    BY <1>2, <2>1, <2>5
  <2>7. k <= Min({i * B, n})
    BY <1>7, <2>4, <2>6
  <2>8. list[k] \in Range(SubSeq(list, (i - 1) * B + 1, Min({i * B, n})))
    BY <1>1, <1>7, <2>4, <2>6, <2>7, Stretch
  <2> QED
    BY <1>6, <1>9, <2>4, <2>8
<1> QED
  BY <1>1, <1>5, <1>9, <1>10

-----------------------------------------------------------------------------
(* Whom a tick still has to come to.                                        *)

Listed(c) == {u \in Staker : IsListed(u, crank[c].for_epoch)}

LEMMA PendingType ==
  ASSUME CrankTypes, NEW c \in Ticker
  PROVE  Pending(c) \subseteq Staker
<1>1. crank[c].todo \in Seq(Seq(Staker))
  BY DEF CrankTypes, CrankRecord
<1>2. \A i \in DOMAIN crank[c].todo : Range(crank[c].todo[i]) \subseteq Staker
  <2>1. \A i \in DOMAIN crank[c].todo : crank[c].todo[i] \in Seq(Staker)
    BY <1>1
  <2>2. \A s \in Seq(Staker) : Range(s) \subseteq Staker
    BY DEF Range
  <2> QED
    BY <2>1, <2>2
<1> QED
  BY <1>2 DEF Pending

\* The first batch and the others are all there is.
LEMMA HeadAndTail ==
  ASSUME NEW todo \in Seq(Seq(Staker)), todo # <<>>
  PROVE  /\ Head(todo) \in Seq(Staker) /\ Range(Head(todo)) \subseteq Staker
         /\ Tail(todo) \in Seq(Seq(Staker)) /\ (Len(todo) > 1 => Tail(todo) # <<>>)
         /\ \A i \in DOMAIN todo :
              \/ todo[i] = Head(todo)
              \/ Len(todo) > 1 /\ \E j \in DOMAIN Tail(todo) : todo[i] = Tail(todo)[j]
<1>1. Head(todo) \in Seq(Staker)
  OBVIOUS
<1>2. \A s \in Seq(Staker) : Range(s) \subseteq Staker
  BY DEF Range
<1>3. ASSUME NEW i \in DOMAIN todo, i # 1
      PROVE  Len(todo) > 1 /\ \E j \in DOMAIN Tail(todo) : todo[i] = Tail(todo)[j]
  <2>1. PICK j \in Nat : j = i - 1 /\ j > 0
    BY <1>3
  <2>2. j \in DOMAIN Tail(todo) /\ Tail(todo)[j] = todo[i]
    <3>1. i \in 1 .. Len(todo) /\ Len(Tail(todo)) = Len(todo) - 1
      OBVIOUS
    <3>2. j \in 1 .. Len(Tail(todo))
      BY <1>3, <2>1, <3>1
    <3> QED
      BY <2>1, <3>1, <3>2
  <2>3. Len(todo) > 1
    <3>1. i \in 1 .. Len(todo)
      OBVIOUS
    <3> QED
      BY <1>3, <3>1
  <2> QED
    BY <2>2, <2>3
<1> QED
  BY <1>1, <1>2, <1>3

-----------------------------------------------------------------------------
(* A tick goes on.                                                          *)

\* What cause says is added to.
CauseGrows ==
  cause' \in CauseRecord /\ cause'.stale = cause.stale /\ cause.unpaid \subseteq cause'.unpaid

LEMMA GivingUp ==
  ASSUME CrankTypes, NEW c \in Ticker, NEW S \in SUBSET Staker, GoUnpaid(c, S)
  PROVE  CauseGrows /\ (IsForThisEpoch(c) => S \subseteq cause'.unpaid)
<1>1. cause \in CauseRecord
  BY DEF CrankTypes
<1>2. CASE IsForThisEpoch(c)
  <2>1. cause' = [cause EXCEPT !.unpaid = cause.unpaid \cup S]
    BY <1>2 DEF GoUnpaid
  <2> QED
    BY <1>1, <2>1 DEF CauseGrows, CauseRecord
<1>3. CASE ~IsForThisEpoch(c)
  BY <1>1, <1>3 DEF GoUnpaid, CauseGrows
<1> QED
  BY <1>2, <1>3

\* One tick takes a step that loses sight of nobody.
LEMMA OneTick ==
  ASSUME CrankInv, StakesLater, CauseGrows,
         NEW c \in Ticker, NEW q \in CrankRecord, HasWork(q), crank' = [crank EXCEPT ![c] = q],
         \A u \in Owed' : u \in Pending(c) => u \in cause'.unpaid \/ u \in Pending(c)'
  PROVE  CrankInv'
<1> USE DEF CrankInv
<1>1. CrankTypes'
  BY DEF CrankTypes, CauseGrows
<1>2. \A d \in Ticker : d # c => Pending(d)' = Pending(d)
  <2> SUFFICES ASSUME NEW d \in Ticker, d # c PROVE Pending(d)' = Pending(d)
    OBVIOUS
  <2>1. crank'[d] = crank[d]
    BY DEF CrankTypes
  <2>2. DistributableEpoch' = DistributableEpoch
    BY DEF StakesLater, DistributableEpoch
  <2> QED
    BY <2>1, <2>2 DEF Pending, IsForThisEpoch, Phase
<1>3. Covered'
  <2> SUFFICES ASSUME ~cause'.stale, NEW u \in Owed'
               PROVE  u \in cause'.unpaid \/ \E d \in Ticker : u \in Pending(d)'
    BY DEF Covered
  <2>1. u \in Owed /\ ~cause.stale
    BY DEF StakesLater, CauseGrows
  <2>2. CASE u \in cause.unpaid
    BY <2>2 DEF CauseGrows
  <2>3. CASE \E d \in Ticker : u \in Pending(d)
    <3>1. PICK d \in Ticker : u \in Pending(d)
      BY <2>3
    <3>2. CASE d = c
      BY <3>1, <3>2
    <3>3. CASE d # c
      BY <1>2, <3>1, <3>3
    <3> QED
      BY <3>2, <3>3
  <2> QED
    BY <2>1, <2>2, <2>3 DEF Covered
<1> QED
  BY <1>1, <1>3 DEF StakesLater

\* Nothing is told, nobody is paid.
LEMMA CauseStays ==
  ASSUME CrankTypes, UNCHANGED cause
  PROVE  CauseGrows
BY DEF CrankTypes, CauseGrows

LEMMA TickEnds ==
  ASSUME CrankInv, StakesLater, CauseGrows, NEW c \in Ticker, Finish(c),
         \A u \in Owed' : u \in Pending(c) => u \in cause'.unpaid
  PROVE  CrankInv'
<1>1. Idle \in CrankRecord /\ HasWork(Idle)
  BY DEF Idle, CrankRecord, HasWork
<1> QED
  BY <1>1, OneTick DEF Finish

\* The next batch, if there is one.
LEMMA BatchBehind ==
  ASSUME CrankInv, StakesLater, CauseGrows, NEW c \in Ticker, Phase(c) \in {"paying", "sending"},
         NEW paid \in BOOLEAN, NextBatch(c, paid),
         IsForThisEpoch(c) => \A u \in Owed' : u \in Batch(c) => u \in cause'.unpaid
  PROVE  CrankInv'
<1>1. PICK todo : todo = crank[c].todo
  OBVIOUS
<1>2. /\ crank[c] \in CrankRecord /\ todo \in Seq(Seq(Staker)) /\ todo # <<>>
  BY <1>1 DEF CrankInv, CrankTypes, CrankRecord, HasWork, Phase
<1>3. IsForThisEpoch(c) => Pending(c) = UNION {Range(todo[i]) : i \in DOMAIN todo}
  BY <1>1 DEF Pending
<1>4. CASE Len(todo) > 1
  <2>1. PICK more \in BOOLEAN : more = (crank[c].paid_a_batch \/ paid)
    OBVIOUS
  <2>2. PICK q : q = [crank[c] EXCEPT !.phase = "paying", !.attempt = 1, !.todo = Tail(todo),
                                      !.paid_a_batch = more]
    OBVIOUS
  <2>3. q \in CrankRecord /\ q.phase = "paying" /\ q.todo = Tail(todo)
        /\ q.for_epoch = crank[c].for_epoch
    BY <1>2, <2>2, HeadAndTail DEF CrankRecord
  <2>4. crank' = [crank EXCEPT ![c] = q]
    BY <1>1, <1>4, <2>1, <2>2 DEF NextBatch, CrankInv, CrankTypes
  <2>5. HasWork(q)
    BY <1>2, <1>4, <2>3, HeadAndTail DEF HasWork
  <2>6. ASSUME NEW u \in Owed', u \in Pending(c)
        PROVE  u \in cause'.unpaid \/ u \in Pending(c)'
    <3>1. IsForThisEpoch(c)
      BY <2>6 DEF Pending
    <3>2. PICK i \in DOMAIN todo : u \in Range(todo[i])
      BY <1>3, <2>6, <3>1
    <3>3. CASE todo[i] = Head(todo)
      BY <1>1, <2>6, <3>1, <3>2, <3>3 DEF Batch
    <3>4. CASE \E j \in DOMAIN Tail(todo) : todo[i] = Tail(todo)[j]
      <4>1. crank'[c] = q
        BY <2>4 DEF CrankInv, CrankTypes
      <4>2. DistributableEpoch' = DistributableEpoch
        BY DEF StakesLater, DistributableEpoch
      <4>3. IsForThisEpoch(c)'
        BY <2>3, <3>1, <4>1, <4>2 DEF IsForThisEpoch
      <4>4. Pending(c)' = UNION {Range(q.todo[k]) : k \in DOMAIN q.todo}
        BY <2>3, <4>1, <4>3 DEF Pending, Phase
      <4> QED
        BY <2>3, <3>2, <3>4, <4>4
    <3> QED
      BY <1>2, <3>3, <3>4, HeadAndTail
  <2> QED
    BY <2>3, <2>4, <2>5, <2>6, OneTick
<1>5. CASE ~(Len(todo) > 1)
  <2>1. Finish(c)
    BY <1>1, <1>5 DEF NextBatch
  <2>2. ASSUME NEW u \in Owed', u \in Pending(c)
        PROVE  u \in cause'.unpaid
    <3>1. IsForThisEpoch(c)
      BY <2>2 DEF Pending
    <3>2. PICK i \in DOMAIN todo : u \in Range(todo[i])
      BY <1>3, <2>2, <3>1
    <3>3. todo[i] = Head(todo)
      BY <1>2, <1>5, HeadAndTail
    <3> QED
      BY <1>1, <2>2, <3>1, <3>2, <3>3 DEF Batch
  <2> QED
    BY <2>1, <2>2, TickEnds
<1> QED
  BY <1>4, <1>5

\* A batch is tried again, or given up.
LEMMA BatchAgain ==
  ASSUME CrankInv, StakesLater, NEW c \in Ticker, Phase(c) \in {"paying", "sending"}, RetryBatch(c)
  PROVE  CrankInv'
<1>1. /\ crank[c] \in CrankRecord /\ crank[c].todo # <<>>
  BY DEF CrankInv, CrankTypes, HasWork, Phase
<1>2. CASE crank[c].attempt < MAX_RETRIES
  <2>1. PICK q : q = [crank[c] EXCEPT !.phase = "paying", !.attempt = crank[c].attempt + 1]
    OBVIOUS
  <2>6. PICK k \in Nat : k = crank[c].attempt + 1
    BY <1>1 DEF CrankRecord
  <2>7. q = [crank[c] EXCEPT !.phase = "paying", !.attempt = k]
    BY <2>1, <2>6
  <2>2. q \in CrankRecord /\ q.phase = "paying" /\ q.todo = crank[c].todo
        /\ q.for_epoch = crank[c].for_epoch
    BY <1>1, <2>7 DEF CrankRecord
  <2>3. crank' = [crank EXCEPT ![c] = q] /\ UNCHANGED cause
    BY <1>2, <2>1 DEF RetryBatch, CrankInv, CrankTypes
  <2>4. HasWork(q)
    BY <1>1, <2>2 DEF HasWork
  <2>5. Pending(c)' = Pending(c)
    <3>1. crank'[c] = q
      BY <2>3 DEF CrankInv, CrankTypes
    <3>2. DistributableEpoch' = DistributableEpoch
      BY DEF StakesLater, DistributableEpoch
    <3> QED
      BY <2>2, <3>1, <3>2 DEF Pending, IsForThisEpoch, Phase
  <2> QED
    BY <2>2, <2>3, <2>4, <2>5, OneTick, CauseStays DEF CrankInv
<1>3. CASE ~(crank[c].attempt < MAX_RETRIES)
  <2>1. NextBatch(c, FALSE) /\ GoUnpaid(c, Batch(c))
    BY <1>3 DEF RetryBatch
  <2>2. Batch(c) \subseteq Staker
    BY <1>1, HeadAndTail DEF Batch, CrankRecord
  <2>3. CauseGrows /\ (IsForThisEpoch(c) => Batch(c) \subseteq cause'.unpaid)
    BY <2>1, <2>2, GivingUp DEF CrankInv
  <2> QED
    BY <2>1, <2>3, BatchBehind
<1> QED
  BY <1>2, <1>3

-----------------------------------------------------------------------------
(* The steps of a tick.                                                     *)

\* The tick of one ticker changes its phase.
LEMMA TickProceeds ==
  ASSUME CrankInv, StakesLater, UNCHANGED cause, NEW c \in Ticker,
         NEW phase \in {"advancing", "checking", "reading", "sending"}, Proceed(c, phase),
         phase = "sending" => Phase(c) = "paying",
         phase = "reading" => Phase(c) = "checking",
         phase \in {"advancing", "checking"} => Phase(c) \in {"idle", "advancing"}
  PROVE  CrankInv'
<1>1. crank[c] \in CrankRecord /\ HasWork(crank[c])
  BY DEF CrankInv, CrankTypes
<1>2. PICK q : q = [crank[c] EXCEPT !.phase = phase]
  OBVIOUS
<1>3. q \in CrankRecord /\ q.phase = phase /\ q.todo = crank[c].todo /\ q.for_epoch = crank[c].for_epoch
  BY <1>1, <1>2 DEF CrankRecord
<1>4. crank' = [crank EXCEPT ![c] = q]
  BY <1>2 DEF Proceed, CrankInv, CrankTypes
<1>5. HasWork(q)
  BY <1>1, <1>3 DEF HasWork, Phase
<1>6. crank'[c] = q /\ DistributableEpoch' = DistributableEpoch
  BY <1>4 DEF CrankInv, CrankTypes, StakesLater, DistributableEpoch
<1>7. \A u \in Owed' : u \in Pending(c) => u \in Pending(c)'
  <2>1. IsForThisEpoch(c)' <=> IsForThisEpoch(c)
    BY <1>3, <1>6 DEF IsForThisEpoch
  <2>2. CASE ~IsForThisEpoch(c)
    BY <2>2 DEF Pending
  <2>3. CASE IsForThisEpoch(c) /\ phase = "sending"
    BY <1>3, <1>6, <2>1, <2>3 DEF Pending, Phase
  <2>4. CASE IsForThisEpoch(c) /\ phase = "reading"
    BY <1>3, <1>6, <2>1, <2>4 DEF Pending, Phase
  <2>5. CASE phase \in {"advancing", "checking"}
    BY <2>5 DEF Pending
  <2> QED
    BY <2>2, <2>3, <2>4, <2>5
<1> QED
  BY <1>3, <1>4, <1>5, <1>7, OneTick, CauseStays DEF CrankInv

LEMMA BeginStep ==
  ASSUME CrankInv, NEW c \in Ticker, BeginTick(c)
  PROVE  CrankInv'
<1>1. StakesLater /\ CauseGrows
  BY NothingLater, CauseStays DEF BeginTick, CrankInv
<1>2. PICK e \in Nat : e = pool.current_epoch
  BY DEF CrankInv, Typed, TypeOK, PoolRecord
<1>3. PICK q : q = [Idle EXCEPT !.phase = "advancing", !.attempt = 1, !.for_epoch = e]
  OBVIOUS
<1>4. q \in CrankRecord /\ HasWork(q)
  <2>1. Idle \in CrankRecord
    BY DEF Idle, CrankRecord
  <2>2. q \in CrankRecord /\ q.phase = "advancing"
    BY <1>3, <2>1 DEF CrankRecord
  <2> QED
    BY <2>2 DEF HasWork
<1>5. crank' = [crank EXCEPT ![c] = q]
  BY <1>2, <1>3 DEF BeginTick
<1>6. Pending(c) = {}
  BY DEF Pending, BeginTick
<1> QED
  BY <1>1, <1>4, <1>5, <1>6, OneTick

\* The tick that closes an epoch has all of its stakers to come to, if it is the
\* epoch it had read.
LEMMA AdvanceStep ==
  ASSUME StakingAssumption, CrankInv, NEW c \in Ticker, AdvanceLands(c)
  PROVE  CrankInv'
<1>1. Typed' /\ DistributableEpoch' = pool.current_epoch
  BY AdvanceIs DEF AdvanceLands, CrankInv
<1>2. crank[c] \in CrankRecord
  BY DEF CrankInv, CrankTypes
<1>3. PICK q : q = [crank[c] EXCEPT !.phase = "checking"]
  OBVIOUS
<1>4. q \in CrankRecord /\ q.phase = "checking" /\ q.for_epoch = crank[c].for_epoch /\ HasWork(q)
  BY <1>2, <1>3 DEF CrankRecord, HasWork
<1>5. crank' = [crank EXCEPT ![c] = q]
  BY <1>3 DEF AdvanceLands, Proceed, CrankInv, CrankTypes
<1>6. cause' = [unpaid |-> {}, stale |-> crank[c].for_epoch # pool.current_epoch]
  BY DEF AdvanceLands
<1>7. crank'[c] = q
  BY <1>5 DEF CrankInv, CrankTypes
<1>8. CrankTypes'
  BY <1>4, <1>5, <1>6 DEF CrankInv, CrankTypes, CauseRecord
<1>9. ~cause'.stale => Pending(c)' = Staker
  BY <1>1, <1>4, <1>6, <1>7 DEF Pending, IsForThisEpoch, Phase
<1>10. Covered'
  BY <1>9 DEF Covered, Owed
<1> QED
  BY <1>1, <1>8, <1>10 DEF CrankInv

LEMMA RefusedStep ==
  ASSUME CrankInv, NEW c \in Ticker, AdvanceRefused(c)
  PROVE  CrankInv'
<1>1. StakesLater /\ CauseGrows
  BY NothingLater, CauseStays DEF AdvanceRefused, CrankInv
<1>2. Pending(c) = {}
  BY DEF Pending, AdvanceRefused
<1> QED
  BY <1>1, <1>2, TickEnds DEF AdvanceRefused

\* Another attempt at closing the epoch, or none.
LEMMA RetryAdvanceIs ==
  ASSUME CrankTypes, NEW c \in Ticker, Phase(c) = "advancing", RetryAdvance(c)
  PROVE  \E q \in CrankRecord : HasWork(q) /\ crank' = [crank EXCEPT ![c] = q]
<1>1. CASE crank[c].attempt < MAX_RETRIES
  <2>1. PICK k \in Nat : k = crank[c].attempt + 1
    BY DEF CrankTypes, CrankRecord
  <2>2. PICK q : q = [crank[c] EXCEPT !.attempt = k]
    OBVIOUS
  <2>3. q \in CrankRecord /\ HasWork(q)
    BY <2>2 DEF CrankTypes, CrankRecord, HasWork, Phase
  <2>4. crank' = [crank EXCEPT ![c] = q]
    BY <1>1, <2>1, <2>2 DEF RetryAdvance, CrankTypes
  <2> QED
    BY <2>3, <2>4
<1>2. CASE ~(crank[c].attempt < MAX_RETRIES)
  <2>1. Idle \in CrankRecord /\ HasWork(Idle)
    BY DEF Idle, CrankRecord, HasWork
  <2> QED
    BY <1>2, <2>1 DEF RetryAdvance, Finish
<1> QED
  BY <1>1, <1>2

LEMMA LostAdvanceStep ==
  ASSUME StakingAssumption, CrankInv, NEW c \in Ticker, AdvanceLost(c)
  PROVE  CrankInv'
<1>1. PICK q \in CrankRecord : HasWork(q) /\ crank' = [crank EXCEPT ![c] = q]
  BY RetryAdvanceIs DEF AdvanceLost, CrankInv
<1>2. CASE UNCHANGED <<vars, cause>>
  <2>1. StakesLater /\ CauseGrows
    BY <1>2, NothingLater, CauseStays DEF CrankInv
  <2>2. Pending(c) = {}
    BY DEF Pending, AdvanceLost
  <2> QED
    BY <1>1, <2>1, <2>2, OneTick
<1>3. CASE AdvancedElsewhere
  <2>1. Typed'
    BY <1>3, AdvanceIs DEF AdvancedElsewhere, CrankInv
  <2>2. CrankTypes' /\ Covered'
    BY <1>1, <1>3 DEF AdvancedElsewhere, CrankInv, CrankTypes, CauseRecord, Covered, Owed
  <2> QED
    BY <2>1, <2>2 DEF CrankInv
<1> QED
  BY <1>2, <1>3 DEF AdvanceLost

LEMMA CheckSteps ==
  ASSUME CrankInv, NEW c \in Ticker, StoppedByLimit(c) \/ WithinLimits(c)
  PROVE  CrankInv'
<1>1. StakesLater
  BY NothingLater DEF StoppedByLimit, WithinLimits, CrankInv
<1>2. CASE StoppedByLimit(c)
  <2>1. CauseGrows /\ (IsForThisEpoch(c) => Staker \subseteq cause'.unpaid)
    BY <1>2, GivingUp DEF StoppedByLimit, CrankInv
  <2>2. \A u \in Owed' : u \in Pending(c) => u \in cause'.unpaid
    BY <2>1 DEF Pending, Owed
  <2> QED
    BY <1>1, <1>2, <2>1, <2>2, TickEnds DEF StoppedByLimit
<1>3. CASE WithinLimits(c)
  BY <1>1, <1>3, TickProceeds DEF WithinLimits
<1> QED
  BY <1>2, <1>3

\* Who is owed is on the list, and so in a batch.
LEMMA ReadStep ==
  ASSUME StakingAssumption, CrankAssumption, CrankInv, NEW c \in Ticker, ReadStakers(c)
  PROVE  CrankInv'
<1>1. StakesLater /\ CauseGrows
  BY NothingLater, CauseStays DEF ReadStakers, CrankInv
<1>2. IsForThisEpoch(c) => \A u \in Owed' : u \in Listed(c)
  BY <1>1 DEF IsForThisEpoch, StakesLater, Owed, Listed, IsListed, Rewardable
<1>3. PICK list \in SetToSeqs(Listed(c)) :
        IF list = <<>> THEN Finish(c)
        ELSE crank' = [crank EXCEPT ![c].phase = "paying", ![c].attempt = 1, ![c].todo = Chunk(list)]
  BY DEF ReadStakers, Listed
<1>4. /\ list \in Seq(Staker) /\ \A u \in Listed(c) : \E k \in 1 .. Len(list) : list[k] = u
  BY EveryoneListed DEF Listed, StakingAssumption
<1>5. CASE list = <<>>
  <2>1. Listed(c) = {}
    BY <1>4, <1>5
  <2>2. \A u \in Owed' : u \in Pending(c) => u \in cause'.unpaid
    BY <1>2, <2>1 DEF Pending
  <2> QED
    BY <1>1, <1>3, <1>5, <2>2, TickEnds
<1>6. CASE list # <<>>
  <2>1. PICK todo \in Seq(Seq(Staker)) : todo = Chunk(list) /\ todo # <<>>
    BY <1>4, <1>6, EveryoneInABatch
  <2>2. \A k \in 1 .. Len(list) : \E i \in DOMAIN todo : list[k] \in Range(todo[i])
    BY <1>4, <1>6, <2>1, EveryoneInABatch
  <2>3. PICK q : q = [crank[c] EXCEPT !.phase = "paying", !.attempt = 1, !.todo = todo]
    OBVIOUS
  <2>4. q \in CrankRecord /\ HasWork(q) /\ q.phase = "paying" /\ q.todo = todo
        /\ q.for_epoch = crank[c].for_epoch
    BY <2>1, <2>3 DEF CrankInv, CrankTypes, CrankRecord, HasWork
  <2>5. crank' = [crank EXCEPT ![c] = q]
    BY <1>3, <1>6, <2>1, <2>3 DEF CrankInv, CrankTypes
  <2>6. ASSUME NEW u \in Owed', u \in Pending(c) PROVE u \in Pending(c)'
    <3>1. IsForThisEpoch(c)
      BY <2>6 DEF Pending
    <3>2. PICK i \in DOMAIN todo : u \in Range(todo[i])
      BY <1>2, <1>4, <2>2, <3>1
    <3>3. crank'[c] = q /\ DistributableEpoch' = DistributableEpoch
      BY <1>1, <2>5 DEF CrankInv, CrankTypes, StakesLater, DistributableEpoch
    <3>4. Pending(c)' = UNION {Range(todo[k]) : k \in DOMAIN todo}
      BY <2>4, <3>1, <3>3 DEF Pending, IsForThisEpoch, Phase
    <3> QED
      BY <3>2, <3>4
  <2> QED
    BY <1>1, <2>4, <2>5, <2>6, OneTick
<1> QED
  BY <1>5, <1>6

LEMMA ReadFailsStep ==
  ASSUME CrankInv, NEW c \in Ticker, ReadStakersFails(c)
  PROVE  CrankInv'
<1>1. StakesLater
  BY NothingLater DEF ReadStakersFails, CrankInv
<1>2. CauseGrows /\ (IsForThisEpoch(c) => Staker \subseteq cause'.unpaid)
  BY GivingUp DEF ReadStakersFails, CrankInv
<1>3. \A u \in Owed' : u \in Pending(c) => u \in cause'.unpaid
  BY <1>2 DEF Pending, Owed
<1> QED
  BY <1>1, <1>2, <1>3, TickEnds DEF ReadStakersFails

\* The first batch is a list of stakers.
LEMMA BatchIs ==
  ASSUME CrankTypes, NEW c \in Ticker, Phase(c) \in {"paying", "sending"}
  PROVE  Head(crank[c].todo) \in Seq(Staker) /\ Batch(c) \subseteq Staker
<1>1. crank[c].todo \in Seq(Seq(Staker)) /\ crank[c].todo # <<>>
  BY DEF CrankTypes, CrankRecord, HasWork, Phase
<1> QED
  BY <1>1, HeadAndTail DEF Batch

LEMMA SimulateStep ==
  ASSUME CrankInv, NEW c \in Ticker, Simulate(c)
  PROVE  CrankInv'
<1>1. StakesLater
  BY NothingLater DEF Simulate, CrankInv
<1>2. CASE Refuses(Head(crank[c].todo))
  BY <1>1, <1>2, BatchAgain DEF Simulate
<1>3. CASE ~Refuses(Head(crank[c].todo))
  BY <1>1, <1>3, TickProceeds DEF Simulate
<1> QED
  BY <1>2, <1>3

LEMMA PaysStep ==
  ASSUME StakingAssumption, CrankInv, NEW c \in Ticker, BatchPays(c)
  PROVE  CrankInv'
<1>1. Head(crank[c].todo) \in Seq(Staker) /\ Batch(c) \subseteq Staker
  BY BatchIs DEF BatchPays, CrankInv
<1>2. StakesLater
  BY <1>1, DistributeLater DEF BatchPays, CrankInv
<1>3. PICK left \in SUBSET Staker : left = {u \in Batch(c) : Rewardable(user_stake'[u])}
  BY <1>1
<1>4. CauseGrows /\ (IsForThisEpoch(c) => left \subseteq cause'.unpaid)
  BY <1>3, GivingUp DEF BatchPays, CrankInv
<1>5. \A u \in Owed' : u \in Batch(c) => u \in left
  BY <1>2, <1>3 DEF Owed, StakesLater, Rewardable, DistributableEpoch
<1>6. IsForThisEpoch(c) => \A u \in Owed' : u \in Batch(c) => u \in cause'.unpaid
  BY <1>4, <1>5
<1>7. NextBatch(c, TRUE) /\ Phase(c) \in {"paying", "sending"}
  BY DEF BatchPays
<1> QED
  BY <1>2, <1>4, <1>6, <1>7, BatchBehind

LEMMA PaysNobodyStep ==
  ASSUME CrankInv, NEW c \in Ticker, BatchPaysNobody(c)
  PROVE  CrankInv'
<1>1. NextBatch(c, TRUE) /\ Phase(c) \in {"paying", "sending"} /\ GoUnpaid(c, Batch(c)) /\ UNCHANGED vars
  BY DEF BatchPaysNobody
<1>2. Batch(c) \subseteq Staker
  BY <1>1, BatchIs DEF CrankInv
<1>3. StakesLater
  BY <1>1, NothingLater DEF CrankInv
<1>4. CauseGrows /\ (IsForThisEpoch(c) => Batch(c) \subseteq cause'.unpaid)
  BY <1>1, <1>2, GivingUp DEF CrankInv
<1> QED
  BY <1>1, <1>3, <1>4, BatchBehind

LEMMA LostBatchStep ==
  ASSUME StakingAssumption, CrankInv, NEW c \in Ticker, BatchLost(c)
  PROVE  CrankInv'
<1>1. Phase(c) \in {"paying", "sending"} /\ RetryBatch(c)
  BY DEF BatchLost
<1>2. Head(crank[c].todo) \in Seq(Staker)
  BY <1>1, BatchIs DEF CrankInv
<1>3. StakesLater
  BY <1>2, NothingLater, DistributeLater DEF BatchLost, CrankInv
<1> QED
  BY <1>1, <1>3, BatchAgain

LEMMA TickKeeps ==
  ASSUME StakingAssumption, CrankAssumption, CrankInv, NEW c \in Ticker, TickStep(c)
  PROVE  CrankInv'
BY BeginStep, AdvanceStep, RefusedStep, LostAdvanceStep, CheckSteps, ReadStep, ReadFailsStep,
   SimulateStep, PaysStep, PaysNobodyStep, LostBatchStep DEF TickStep

-----------------------------------------------------------------------------
(* The process restarts; others act.                                        *)

LEMMA RestartStep ==
  ASSUME CrankInv, Restart
  PROVE  CrankInv'
<1>1. StakesLater
  BY NothingLater DEF Restart, CrankInv
<1>2. PICK S \in SUBSET Staker : S = UNION {Pending(c) : c \in Ticker}
  BY PendingType DEF CrankInv
<1>3. cause' = [cause EXCEPT !.unpaid = cause.unpaid \cup S]
  BY <1>2 DEF Restart
<1>4. cause \in CauseRecord
  BY DEF CrankInv, CrankTypes
<1>5. cause' \in CauseRecord /\ cause'.stale = cause.stale /\ cause'.unpaid = cause.unpaid \cup S
  BY <1>3, <1>4 DEF CauseRecord
<1>6. Idle \in CrankRecord /\ HasWork(Idle)
  BY DEF Idle, CrankRecord, HasWork
<1>7. CrankTypes'
  BY <1>5, <1>6 DEF Restart, CrankTypes
<1>8. Covered'
  <2> SUFFICES ASSUME ~cause'.stale, NEW u \in Owed' PROVE u \in cause'.unpaid
    BY DEF Covered
  <2>1. u \in cause.unpaid \/ \E c \in Ticker : u \in Pending(c)
    BY <1>1, <1>5 DEF StakesLater, CrankInv, Covered
  <2> QED
    BY <1>2, <1>5, <2>1
<1> QED
  BY <1>1, <1>7, <1>8 DEF CrankInv, StakesLater

\* Others leave the ticks alone.
LEMMA OthersKeep ==
  ASSUME CrankInv, StakesLater, UNCHANGED <<crank, cause>>
  PROVE  CrankInv'
<1>1. \A c \in Ticker : Pending(c)' = Pending(c)
  BY DEF StakesLater, Pending, IsForThisEpoch, Phase, DistributableEpoch
<1>2. CrankTypes'
  BY DEF CrankInv, CrankTypes
<1>3. Covered'
  <2> SUFFICES ASSUME ~cause'.stale, NEW u \in Owed'
               PROVE  u \in cause'.unpaid \/ \E c \in Ticker : u \in Pending(c)'
    BY DEF Covered
  <2>1. u \in cause.unpaid \/ \E c \in Ticker : u \in Pending(c)
    BY DEF StakesLater, CrankInv, Covered
  <2> QED
    BY <1>1, <2>1
<1> QED
  BY <1>2, <1>3 DEF CrankInv, StakesLater

LEMMA WorldStep ==
  ASSUME StakingAssumption, CrankInv, World
  PROVE  StakesLater
<1> USE DEF CrankInv
<1>1. CASE Tick
  BY <1>1, QuietLater DEF QuietStep
<1>2. CASE StakerSteps
  BY <1>2, StakeLater, UnstakeLater DEF StakerSteps
<1>3. CASE Income
  BY <1>3, QuietLater DEF QuietStep, Income
<1>4. CASE \E value \in BOOLEAN : SetPaused(value)
  BY <1>4, QuietLater DEF QuietStep
<1>5. CASE \E duration \in EpochDurations : UpdateEpochDuration(duration)
  BY <1>5, QuietLater DEF QuietStep
<1>6. CASE Distribute
  <2>1. PICK n \in 1 .. MaxBatch : \E batch \in [1 .. n -> Staker] : DistributeRewards(batch)
    BY <1>6 DEF Distribute
  <2>2. PICK batch \in [1 .. n -> Staker] : DistributeRewards(batch)
    BY <2>1
  <2>3. batch \in Seq(Staker)
    BY <2>2 DEF StakingAssumption
  <2> QED
    BY <2>2, <2>3, DistributeLater
<1> QED
  BY <1>1, <1>2, <1>3, <1>4, <1>5, <1>6 DEF World

LEMMA CrankStep ==
  CrankInv /\ [CrankNext]_crankVars => CrankInv'
<1> SUFFICES ASSUME CrankInv, [CrankNext]_crankVars PROVE CrankInv'
  OBVIOUS
<1> USE StakingAssumption, CrankAssumption
<1>1. CASE \E c \in Ticker : TickStep(c)
  BY <1>1, TickKeeps
<1>2. CASE Restart
  BY <1>2, RestartStep
<1>3. CASE World /\ UNCHANGED <<crank, limits, faults>>
  BY <1>3, WorldStep, OthersKeep DEF World
<1>4. CASE AdvancedElsewhere /\ UNCHANGED <<crank, limits, faults>>
  <2>1. Typed'
    BY <1>4, AdvanceIs DEF AdvancedElsewhere, CrankInv
  <2>2. CrankTypes' /\ Covered'
    BY <1>4 DEF AdvancedElsewhere, CrankInv, CrankTypes, CauseRecord, Covered, Owed
  <2> QED
    BY <2>1, <2>2 DEF CrankInv
<1>5. CASE UNCHANGED crankVars
  BY <1>5, NothingLater, OthersKeep DEF crankVars, CrankInv
<1> QED
  BY <1>1, <1>2, <1>3, <1>4, <1>5 DEF CrankNext

LEMMA InitCrank == CrankInit => CrankInv
<1> SUFFICES ASSUME CrankInit PROVE CrankInv
  OBVIOUS
<1>1. Typed
  BY InitTyped DEF CrankInit
<1>2. Idle \in CrankRecord /\ HasWork(Idle)
  BY DEF Idle, CrankRecord, HasWork
<1>3. CrankTypes
  BY <1>2 DEF CrankInit, CrankTypes, CauseRecord
<1>4. Owed = {}
  BY DEF CrankInit, Init, Owed, HasRewards
<1> QED
  BY <1>1, <1>3, <1>4 DEF CrankInv, Covered

\* MissedOnlyWithCause: when an epoch's payments end, whoever is still owed was
\* given up, or answered without being paid, or a tick still has to come to them;
\* the list, the batches, the retries and a restart leave nobody out
\* (distribution-crank.service.ts, tick to distributeBatch).
THEOREM NobodyForgotten == CrankSpec => MissedOnlyWithCause
<1>1. CrankInv /\ [CrankNext]_crankVars
        => [pool'.current_epoch # pool.current_epoch
              => \/ cause.stale
                 \/ Owed \subseteq cause.unpaid \cup UNION {Pending(c) : c \in Ticker}]_crankVars
  BY DEF CrankInv, Covered
<1>2. CrankSpec => []CrankInv
  BY InitCrank, CrankStep, PTL DEF CrankSpec
<1> QED
  BY <1>1, <1>2, PTL DEF CrankSpec, MissedOnlyWithCause
=============================================================================
