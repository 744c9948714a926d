-------------------------- MODULE LoanKeeperProofs --------------------------
(***************************************************************************)
(* What the database says of a loan is true, each liquidation is booked and *)
(* recorded once, and no active loan goes unwatched: for any number of      *)
(* loans, servers, activities, attempts and mishaps.                        *)
(*                                                                          *)
(* The argument: on chain a closed loan stays as it is, so an activity that *)
(* has seen a loan closed may write that whenever it likes, one that has    *)
(* been told of a repayment that was not can write nothing else, and only   *)
(* one activity can have made the transaction that closed the loan.         *)
(***************************************************************************)
EXTENDS LoanKeeper, TLAPS

Status == {"none", "active"} \cup Closed
Resting == {"idle", "locking"}
Phases == Resting \cup {"creating", "registering", "repaying", "sending", "closing", "cleaning"}

Doing ==
  [phase : Phases, loan : Loan \cup {Nobody}, attempt : Nat,
   outcome : Closed \cup {"none"}, todo : SUBSET Loan]

KeeperType ==
  /\ chain \in [Loan -> Status] /\ db \in [Loan -> Status]
  /\ due \subseteq Loan /\ low \subseteq Loan
  /\ recorded \in [Loan -> Nat]
  /\ monitored \in [Server -> SUBSET Loan]
  /\ act \in [Activity -> Doing]

\* a has liquidated its loan, and has not recorded it yet.
Seizer(a) == Phase(a) \in {"closing", "cleaning"} /\ act[a].attempt > 0

\* What activity a goes by is so.
WellInformed(a) ==
  /\ Phase(a) \notin Resting => LoanOf(a) \in Loan
  /\ Phase(a) = "sending" => act[a].outcome = "liquidated" /\ act[a].attempt > 0
  /\ Phase(a) = "repaying" => act[a].outcome = "repaid" /\ act[a].attempt = 0
  /\ Phase(a) \in {"closing", "cleaning"} =>
       \/ act[a].outcome \in Closed /\ chain[LoanOf(a)] = act[a].outcome
       \/ act[a].outcome = "repaid" /\ LoanOf(a) \in misled
  /\ Phase(a) = "cleaning" => db[LoanOf(a)] \in Closed
  /\ Seizer(a) => act[a].outcome = "liquidated" /\ recorded[LoanOf(a)] = 0

OneSeizer ==
  \A a, b \in Activity : Seizer(a) /\ Seizer(b) /\ LoanOf(a) = LoanOf(b) => a = b

KeeperInv ==
  /\ KeeperType
  /\ \A a \in Activity : WellInformed(a)
  /\ OneSeizer
  /\ ClosedAsOnChain
  /\ RecordedOnce
-----------------------------------------------------------------------------
(* What the steps do to act.                                                *)

Apart(a) ==
  /\ act' \in [Activity -> Doing]
  /\ \A b \in Activity : b # a => act'[b] = act[b]

\* a goes on in phase p with loan l, attempt n and outcome o.
Moves(a, p, l, n, o) ==
  /\ Apart(a)
  /\ act'[a].phase = p /\ act'[a].loan = l /\ act'[a].attempt = n /\ act'[a].outcome = o

Rests(a) == Apart(a) /\ act'[a].phase \in Resting

\* The record an activity starts from.
LEMMA IdleDoing == Idle \in Doing
  BY DEF Idle, Doing, Phases, Resting

LEMMA StartMoves ==
  ASSUME NEW a \in Activity, NEW l \in Loan, NEW p \in Phases, NEW o \in Closed \cup {"none"},
         KeeperType, Start(a, l, p, o)
  PROVE  Phase(a) = "idle" /\ Moves(a, p, l, 0, o)
<1> DEFINE d == [Idle EXCEPT !.phase = p, !.loan = l, !.outcome = o]
<1>1. d \in Doing /\ d.phase = p /\ d.loan = l /\ d.attempt = 0 /\ d.outcome = o
  BY DEF Idle, Doing
<1>2. act' = [act EXCEPT ![a] = d] /\ Phase(a) = "idle"
  BY DEF Start
<1> HIDE DEF d
<1> QED
  BY <1>1, <1>2 DEF Moves, Apart, KeeperType

LEMMA BecomeMoves ==
  ASSUME NEW a \in Activity, NEW p \in Phases, KeeperType, Become(a, p)
  PROVE  Moves(a, p, LoanOf(a), act[a].attempt, act[a].outcome)
<1>1. act[a] \in Doing
  BY DEF KeeperType
<1> QED
  BY <1>1 DEF Become, Moves, Apart, KeeperType, LoanOf, Doing

LEMMA FinishRests ==
  ASSUME NEW a \in Activity, KeeperType, Finish(a)
  PROVE  Rests(a)
  BY IdleDoing DEF Finish, Rests, Apart, KeeperType, Idle, Resting

LEMMA BeginLiquidationMoves ==
  ASSUME NEW a \in Activity, NEW l \in Loan, KeeperType, BeginLiquidation(a, l)
  PROVE  Phase(a) = "idle" /\ Moves(a, "sending", l, 1, "liquidated")
<1> DEFINE d == [Idle EXCEPT !.phase = "sending", !.loan = l, !.attempt = 1, !.outcome = "liquidated"]
<1>1. d \in Doing /\ d.phase = "sending" /\ d.loan = l /\ d.attempt = 1 /\ d.outcome = "liquidated"
  BY DEF Idle, Doing, Phases, Closed
<1>2. act' = [act EXCEPT ![a] = d] /\ Phase(a) = "idle"
  BY DEF BeginLiquidation
<1> HIDE DEF d
<1> QED
  BY <1>1, <1>2 DEF Moves, Apart, KeeperType

LEMMA NextAttempt ==
  ASSUME NEW e \in Doing, NEW d, d = [e EXCEPT !.phase = "sending", !.attempt = e.attempt + 1]
  PROVE  d \in Doing /\ d.phase = "sending" /\ d.loan = e.loan
         /\ d.attempt = e.attempt + 1 /\ d.outcome = e.outcome
<1>1. e.loan \in Loan \cup {Nobody} /\ e.attempt \in Nat
      /\ e.outcome \in Closed \cup {"none"} /\ e.todo \in SUBSET Loan
  BY DEF Doing
<1>2. d = [phase |-> "sending", loan |-> e.loan, attempt |-> e.attempt + 1,
           outcome |-> e.outcome, todo |-> e.todo]
  BY DEF Doing
<1>3. e.attempt + 1 \in Nat /\ "sending" \in Phases
  BY <1>1 DEF Phases
<1> QED
  BY <1>1, <1>2, <1>3 DEF Doing

LEMMA TryAgainMoves ==
  ASSUME NEW a \in Activity, KeeperType, TryAgain(a)
  PROVE  Moves(a, "sending", LoanOf(a), act[a].attempt + 1, act[a].outcome)
<1>1. act[a] \in Doing
  BY DEF KeeperType
<1> DEFINE d == [act[a] EXCEPT !.phase = "sending", !.attempt = act[a].attempt + 1]
<1>2. act' = [act EXCEPT ![a] = d]
  BY <1>1 DEF TryAgain, KeeperType, Doing
<1>3. d \in Doing /\ d.phase = "sending" /\ d.loan = act[a].loan
      /\ d.attempt = act[a].attempt + 1 /\ d.outcome = act[a].outcome
  BY <1>1, NextAttempt
<1> HIDE DEF d
<1> QED
  BY <1>2, <1>3 DEF Moves, Apart, KeeperType, LoanOf

LEMMA EndRests ==
  ASSUME NEW a \in Activity, KeeperType, End(a)
  PROVE  Rests(a)
<1>1. act[a].todo \in SUBSET Loan
  BY DEF KeeperType, Doing
<1> DEFINE d == IF act[a].todo = {} THEN Idle
                ELSE [Idle EXCEPT !.phase = "locking", !.todo = act[a].todo]
<1>2. d \in Doing /\ d.phase \in Resting
  BY <1>1 DEF Idle, Doing, Phases, Resting
<1>3. act' = [act EXCEPT ![a] = d]
  BY DEF End
<1> HIDE DEF d
<1> QED
  BY <1>2, <1>3 DEF Rests, Apart, KeeperType

\* An attempt that fails is followed by another, or by none.
LEMMA RetryMoves ==
  ASSUME NEW a \in Activity, KeeperType, Retry(a)
  PROVE  \/ Moves(a, "sending", LoanOf(a), act[a].attempt + 1, act[a].outcome)
         \/ Rests(a)
  BY TryAgainMoves, EndRests DEF Retry

\* The job looks at the next loan, or goes on to liquidate it.
LEMMA NextLoanMoves ==
  ASSUME NEW j \in Activity, KeeperType, NextLoan(j)
  PROVE  \/ \E l \in Loan : Moves(j, "sending", l, 1, "liquidated")
         \/ Rests(j)
<1>1. act[j] \in Doing /\ act[j].phase = "locking"
  BY DEF KeeperType, NextLoan, Phase
<1>2. PICK l \in act[j].todo :
        \/ act' = [act EXCEPT ![j].phase = "sending", ![j].loan = l, ![j].attempt = 1,
                              ![j].outcome = "liquidated", ![j].todo = @ \ {l}]
        \/ Skip(j, l)
  BY DEF NextLoan
<1>3. l \in Loan
  BY <1>1 DEF Doing
<1>4. CASE Skip(j, l)
  <2> DEFINE e == [act[j] EXCEPT !.todo = act[j].todo \ {l}]
             d == IF act[j].todo = {l} THEN Idle ELSE e
  <2>1. e \in Doing /\ e.phase = "locking"
    BY <1>1 DEF Doing
  <2>2. act' = [act EXCEPT ![j] = d]
    BY <1>1, <1>4 DEF Skip, KeeperType
  <2> HIDE DEF e
  <2>3. d \in Doing /\ d.phase \in Resting
    BY <2>1, IdleDoing DEF Idle, Resting
  <2> HIDE DEF d
  <2> QED
    BY <2>2, <2>3 DEF Rests, Apart, KeeperType
<1>5. CASE ~Skip(j, l)
  <2> DEFINE d == [act[j] EXCEPT !.phase = "sending", !.loan = l, !.attempt = 1,
                                 !.outcome = "liquidated", !.todo = act[j].todo \ {l}]
  <2>1. d \in Doing /\ d.phase = "sending" /\ d.loan = l /\ d.attempt = 1 /\ d.outcome = "liquidated"
    BY <1>1, <1>3 DEF Doing, Phases, Closed
  <2>2. act' = [act EXCEPT ![j] = d]
    BY <1>1, <1>2, <1>5 DEF KeeperType, Doing
  <2> HIDE DEF d
  <2>3. Moves(j, "sending", l, 1, "liquidated")
    BY <2>1, <2>2 DEF Moves, Apart, KeeperType
  <2> QED
    BY <1>3, <2>3
<1> QED
  BY <1>4, <1>5

LEMMA ScanRests ==
  ASSUME NEW j \in Activity, KeeperType, Scan(j)
  PROVE  Rests(j)
<1>1. PICK priced \in SUBSET low :
        act' = [act EXCEPT ![j] =
          [Idle EXCEPT !.phase = "locking", !.todo = {l \in due \cup priced : db[l] = "active"}]]
  BY DEF Scan
<1> DEFINE todo == {l \in due \cup priced : db[l] = "active"}
           d == [Idle EXCEPT !.phase = "locking", !.todo = todo]
<1>2. todo \in SUBSET Loan
  BY DEF KeeperType
<1> HIDE DEF todo
<1>3. d \in Doing /\ d.phase \in Resting
  BY <1>2 DEF Idle, Doing, Phases, Resting
<1>4. act' = [act EXCEPT ![j] = d]
  BY <1>1 DEF todo
<1> HIDE DEF d
<1> QED
  BY <1>3, <1>4 DEF Rests, Apart, KeeperType
\* What a request begins, it begins from rest.
LEMMA BeginsApart ==
  ASSUME NEW r \in Request, NEW l \in Loan, KeeperType,
         BeginTrack(r, l) \/ BeginConfirm(r, l) \/ BeginSync(r, l) \/ BeginRepay(r, l)
           \/ BeginLiquidation(r, l)
  PROVE  Apart(r) /\ Phase(r) = "idle"
<1> USE DEF Phases, Resting, Closed, Moves, Activity
<1>1. CASE BeginTrack(r, l)
  BY <1>1, StartMoves DEF BeginTrack
<1>2. CASE BeginConfirm(r, l)
  BY <1>2, StartMoves DEF BeginConfirm
<1>3. CASE BeginSync(r, l)
  BY <1>3, StartMoves DEF BeginSync, KeeperType
<1>4. CASE BeginRepay(r, l)
  BY <1>4, StartMoves DEF BeginRepay
<1>5. CASE BeginLiquidation(r, l)
  BY <1>5, BeginLiquidationMoves
<1> QED
  BY <1>1, <1>2, <1>3, <1>4, <1>5
-----------------------------------------------------------------------------
(* The invariant.                                                           *)

\* What no step does to what closed: the chain keeps it, the database and the
\* records change only to say so.
Truthful(a) ==
  /\ chain' \in [Loan -> Status]
  /\ \A l \in Loan : chain[l] \in Closed => chain'[l] = chain[l]
  /\ db' \in [Loan -> Status]
  /\ \A l \in Loan : db'[l] # db[l] =>
       \/ db[l] = "none" /\ db'[l] = "active"
       \/ db'[l] \in Closed /\ chain'[l] = db'[l]
       \/ db'[l] = "repaid" /\ l \in misled'
  /\ recorded' \in [Loan -> Nat]
  /\ \A l \in Loan : recorded'[l] # recorded[l] =>
       Seizer(a) /\ LoanOf(a) = l /\ recorded'[l] = recorded[l] + 1
  /\ misled \subseteq misled'

Elsewhere ==
  /\ due' \subseteq Loan /\ low' \subseteq Loan
  /\ monitored' \in [Server -> SUBSET Loan]

\* A step of one activity preserves the invariant if it tells the truth and the
\* activity knows what it does; who seizes has found the loan open.
LEMMA TruthfulStep ==
  ASSUME NEW a \in Activity, KeeperInv, Apart(a), Truthful(a), Elsewhere, WellInformed(a)',
         Seizer(a)' => \/ Seizer(a) /\ LoanOf(a)' = LoanOf(a)
                       \/ chain[LoanOf(a)'] \notin Closed
  PROVE  KeeperInv'
<1> USE DEF LoanOf, Phase
<1>1. KeeperType'
  BY DEF KeeperType, Truthful, Elsewhere, Apart
<1>2. ASSUME NEW b \in Activity, b # a PROVE WellInformed(b)'
  <2>1. act'[b] = act[b] /\ WellInformed(b) /\ act[b] \in Doing
    BY <1>2 DEF Apart, KeeperInv, KeeperType
  <2>2. ASSUME act[b].phase \in {"closing", "cleaning"}
        PROVE  /\ act[b].loan \in Loan
               /\ \/ act[b].outcome \in Closed /\ chain'[act[b].loan] = act[b].outcome
                  \/ act[b].outcome = "repaid" /\ act[b].loan \in misled'
    BY <2>1, <2>2 DEF WellInformed, Truthful, Resting
  <2>3. ASSUME act[b].phase = "cleaning" PROVE db'[act[b].loan] \in Closed
    BY <2>1, <2>2, <2>3 DEF WellInformed, Truthful, Closed
  <2>4. ASSUME Seizer(b) PROVE recorded'[act[b].loan] = 0
    <3>1. act[b].loan \in Loan /\ recorded[act[b].loan] = 0
      BY <2>1, <2>2, <2>4 DEF WellInformed, Seizer
    <3>2. ~(Seizer(a) /\ act[a].loan = act[b].loan)
      BY <1>2, <2>4 DEF KeeperInv, OneSeizer
    <3> QED
      BY <3>1, <3>2 DEF Truthful
  <2> QED
    BY <2>1, <2>2, <2>3, <2>4 DEF WellInformed, Seizer
<1>3. \A b \in Activity : WellInformed(b)'
  BY <1>2
<1>4. OneSeizer'
  <2>1. ASSUME NEW b \in Activity, b # a, Seizer(a)', Seizer(b)', LoanOf(a)' = LoanOf(b)'
        PROVE  FALSE
    <3>1. Seizer(b) /\ LoanOf(b) = LoanOf(a)'
      BY <2>1 DEF Apart, Seizer
    <3>2. chain[LoanOf(b)] \in Closed
      BY <3>1 DEF KeeperInv, WellInformed, Seizer, Closed
    <3> QED
      BY <2>1, <3>1, <3>2 DEF KeeperInv, OneSeizer
  <2>2. \A b, c \in Activity :
          b # a /\ c # a /\ Seizer(b)' /\ Seizer(c)' /\ LoanOf(b)' = LoanOf(c)' => b = c
    BY DEF Apart, Seizer, KeeperInv, OneSeizer
  <2> QED
    BY <2>1, <2>2 DEF OneSeizer
<1>5. ClosedAsOnChain'
  <2> SUFFICES ASSUME NEW l \in Loan, db'[l] \in Closed
               PROVE  chain'[l] = db'[l] \/ (l \in misled' /\ db'[l] = "repaid")
    BY DEF ClosedAsOnChain
  <2>1. CASE db'[l] = db[l]
    BY <2>1 DEF KeeperInv, ClosedAsOnChain, Truthful, Closed
  <2>2. CASE db'[l] # db[l]
    BY <2>2 DEF Truthful, Closed
  <2> QED
    BY <2>1, <2>2
<1>6. RecordedOnce'
  <2> SUFFICES ASSUME NEW l \in Loan
               PROVE  recorded'[l] <= 1 /\ (recorded'[l] = 1 => chain'[l] = "liquidated")
    BY DEF RecordedOnce
  <2>1. CASE recorded'[l] = recorded[l]
    BY <2>1 DEF KeeperInv, RecordedOnce, Truthful, Closed
  <2>2. CASE recorded'[l] # recorded[l]
    <3>1. Seizer(a) /\ act[a].loan = l /\ recorded'[l] = recorded[l] + 1
      BY <2>2 DEF Truthful
    <3>2. recorded[l] = 0 /\ chain[l] = "liquidated"
      BY <3>1 DEF KeeperInv, WellInformed, Seizer
    <3> QED
      BY <3>1, <3>2 DEF Truthful, Closed
  <2> QED
    BY <2>1, <2>2
<1> QED
  BY <1>1, <1>3, <1>4, <1>5, <1>6 DEF KeeperInv

\* So does the end of an activity.
LEMMA RestingStep ==
  ASSUME NEW a \in Activity, KeeperInv, Rests(a), Truthful(a), Elsewhere
  PROVE  KeeperInv'
<1>1. WellInformed(a)' /\ ~Seizer(a)'
  BY DEF Rests, WellInformed, Seizer, Resting, Phase
<1> QED
  BY <1>1, TruthfulStep DEF Rests

LEMMA NothingWritten ==
  ASSUME NEW a \in Activity, KeeperInv, UNCHANGED <<chain, due, low, db, recorded, monitored>>,
         misled \subseteq misled'
  PROVE  Truthful(a) /\ Elsewhere
  BY DEF Truthful, Elsewhere, KeeperInv, KeeperType

LEMMA InitInv == Init => KeeperInv
<1> SUFFICES ASSUME Init PROVE KeeperInv
  OBVIOUS
<1>1. KeeperType
  BY IdleDoing DEF Init, KeeperType, Status
<1>2. \A a \in Activity : Phase(a) = "idle"
  BY DEF Init, Idle, Phase
<1> QED
  BY <1>1, <1>2 DEF Init, KeeperInv, WellInformed, Seizer, OneSeizer, ClosedAsOnChain,
                    RecordedOnce, Resting, Closed

\* The market, the chain and the browser.
LEMMA WorldStep == KeeperInv /\ World => KeeperInv'
<1> SUFFICES ASSUME KeeperInv, World PROVE KeeperInv'
  OBVIOUS
<1>1. chain' \in [Loan -> Status] /\ due' \subseteq Loan /\ low' \subseteq Loan
  BY DEF World, KeeperInv, KeeperType, ClientSeesLoan, LoanLands, BorrowerRepays, LandsLate,
         PriceMoves, BecomesDue, Status, Closed
<1>2. \A l \in Loan : chain[l] \in Closed => chain'[l] = chain[l]
  BY DEF World, KeeperInv, KeeperType, ClientSeesLoan, LoanLands, BorrowerRepays, LandsLate,
         PriceMoves, BecomesDue, Seizable, Closed
<1>3. db' = db /\ recorded' = recorded /\ monitored' = monitored /\ act' = act /\ misled' = misled
  BY DEF World, doubts
<1>4. KeeperType'
  BY <1>1, <1>3 DEF KeeperInv, KeeperType
<1>5. \A a \in Activity : WellInformed(a)'
  BY <1>2, <1>3 DEF KeeperInv, WellInformed, Seizer, Phase, LoanOf, Resting
<1>6. OneSeizer'
  BY <1>3 DEF KeeperInv, OneSeizer, Seizer, Phase, LoanOf
<1>7. ClosedAsOnChain' /\ RecordedOnce'
  BY <1>2, <1>3 DEF KeeperInv, ClosedAsOnChain, RecordedOnce, Closed
<1> QED
  BY <1>4, <1>5, <1>6, <1>7 DEF KeeperInv

\* A process ends and takes what its activities were doing with it.
LEMMA RestartStep ==
  ASSUME NEW s \in Server, KeeperInv, Restart(s), UNCHANGED <<world, db, recorded, lock, misled>>
  PROVE  KeeperInv'
<1>1. UNCHANGED <<chain, due, low, db, recorded, misled>>
  BY DEF world
<1>2. \A a \in Activity : act'[a] = Idle \/ act'[a] = act[a]
  BY DEF Restart
<1>3. act' \in [Activity -> Doing]
  BY IdleDoing DEF Restart, KeeperInv, KeeperType
<1>4. monitored' \in [Server -> SUBSET Loan]
  BY DEF Restart, KeeperInv, KeeperType, ActiveInDb
<1>5. KeeperType'
  BY <1>1, <1>3, <1>4 DEF KeeperInv, KeeperType
<1>6. \A a \in Activity : WellInformed(a)'
  BY <1>1, <1>2 DEF KeeperInv, WellInformed, Seizer, Phase, LoanOf, Resting, Idle
<1>7. OneSeizer'
  BY <1>2 DEF KeeperInv, OneSeizer, Seizer, Phase, LoanOf, Idle
<1>8. ClosedAsOnChain' /\ RecordedOnce'
  BY <1>1 DEF KeeperInv, ClosedAsOnChain, RecordedOnce
<1> QED
  BY <1>5, <1>6, <1>7, <1>8 DEF KeeperInv

\* An activity begins, and goes by what it has just read.
LEMMA BeginStep ==
  ASSUME NEW a \in Activity, NEW l \in Loan, KeeperInv,
         UNCHANGED <<chain, due, low, db, recorded, monitored>>, misled \subseteq misled',
         \/ Moves(a, "creating", l, 0, "none")
         \/ Moves(a, "repaying", l, 0, "repaid")
         \/ Moves(a, "sending", l, 1, "liquidated")
         \/ chain[l] \in Closed /\ Moves(a, "closing", l, 0, chain[l])
         \/ l \in misled' /\ Moves(a, "closing", l, 0, "repaid")
  PROVE  KeeperInv'
<1>1. Apart(a) /\ ~Seizer(a)'
  BY DEF Moves, Seizer, Phase
<1>2. WellInformed(a)'
  BY DEF Moves, WellInformed, Seizer, Phase, LoanOf, Closed, Resting
<1> QED
  BY <1>1, <1>2, NothingWritten, TruthfulStep

LEMMA Believed ==
  ASSUME NEW l \in Loan, Believe(l)
  PROVE  misled \subseteq misled' /\ (chain[l] = "repaid" \/ l \in misled')
  BY DEF Believe

LEMMA RequestBegins ==
  ASSUME NEW r \in Request, NEW l \in Loan, KeeperInv,
         UNCHANGED <<chain, due, low, db, recorded, monitored>>,
         \/ BeginTrack(r, l) /\ UNCHANGED misled
         \/ BeginConfirm(r, l)
         \/ BeginSync(r, l)
         \/ BeginRepay(r, l)
         \/ BeginLiquidation(r, l) /\ UNCHANGED misled
  PROVE  KeeperInv'
<1> USE DEF KeeperInv, Phases, Resting, Closed
<1>0. r \in Activity
  BY DEF Activity
<1>1. CASE BeginTrack(r, l) /\ UNCHANGED misled
  BY <1>0, <1>1, StartMoves, BeginStep DEF BeginTrack
<1>2. ASSUME Start(r, l, "closing", "repaid"), Believe(l) PROVE KeeperInv'
  <2>1. Moves(r, "closing", l, 0, "repaid")
    BY <1>0, <1>2, StartMoves
  <2> QED
    BY <1>0, <1>2, <2>1, Believed, BeginStep
<1>3. CASE chain[l] \in Closed /\ Start(r, l, "closing", chain[l]) /\ UNCHANGED misled
  BY <1>0, <1>3, StartMoves, BeginStep
<1>4. CASE BeginRepay(r, l)
  BY <1>0, <1>4, StartMoves, BeginStep DEF BeginRepay
<1>5. CASE BeginLiquidation(r, l) /\ UNCHANGED misled
  BY <1>0, <1>5, BeginLiquidationMoves, BeginStep
<1> QED
  BY <1>1, <1>2, <1>3, <1>4, <1>5 DEF BeginConfirm, BeginSync

\* trackCreatedLoan: the row is new, whatever the chain says.
LEMMA TrackStep ==
  ASSUME NEW r \in Request, KeeperInv, Create(r) \/ Register(r),
         UNCHANGED <<world, recorded, running, lock, adrift, misled>>
  PROVE  KeeperInv'
<1>0. r \in Activity /\ UNCHANGED <<chain, due, low, recorded, misled>>
  BY DEF Activity, world
<1>1. LoanOf(r) \in Loan
  BY <1>0 DEF KeeperInv, WellInformed, Create, Register, Resting
<1>2. Truthful(r) /\ Elsewhere
  BY <1>0, <1>1 DEF Truthful, Elsewhere, KeeperInv, KeeperType, Create, Register, Status
<1>3. CASE Rests(r)
  BY <1>0, <1>2, <1>3, RestingStep
<1>4. CASE Become(r, "registering")
  <2>1. Moves(r, "registering", LoanOf(r), act[r].attempt, act[r].outcome)
    BY <1>0, <1>4, BecomeMoves DEF KeeperInv, Phases
  <2>2. Apart(r) /\ ~Seizer(r)'
    BY <2>1 DEF Moves, Seizer, Phase
  <2>3. WellInformed(r)'
    BY <1>1, <2>1, <2>2 DEF Moves, WellInformed, Phase, LoanOf, Resting
  <2> QED
    BY <1>0, <1>2, <2>2, <2>3, TruthfulStep
<1> QED
  BY <1>0, <1>3, <1>4, FinishRests DEF KeeperInv, Create, Register

\* repayLoan: an open loan is repaid, and the request knows it.
LEMMA RepayStep ==
  ASSUME NEW r \in Request, KeeperInv, RepayAnswered(r)
  PROVE  KeeperInv'
<1>0. r \in Activity /\ UNCHANGED <<due, low, db, recorded, monitored, misled>>
  BY DEF Activity, RepayAnswered, doubts
<1>1. LoanOf(r) \in Loan /\ act[r].outcome = "repaid" /\ act[r].attempt = 0
  BY <1>0 DEF KeeperInv, WellInformed, RepayAnswered, Resting
<1>2. Truthful(r) /\ Elsewhere
  BY <1>0, <1>1 DEF Truthful, Elsewhere, KeeperInv, KeeperType, RepayAnswered, Status, Closed
<1>3. CASE Rests(r)
  BY <1>0, <1>2, <1>3, RestingStep
<1>4. CASE chain[LoanOf(r)] = "active" /\ Become(r, "closing")
  <2>1. Moves(r, "closing", LoanOf(r), 0, "repaid")
    BY <1>0, <1>1, <1>4, BecomeMoves DEF KeeperInv, Phases
  <2>2. Apart(r) /\ ~Seizer(r)'
    BY <2>1 DEF Moves, Seizer, Phase
  <2>3. chain'[LoanOf(r)] = "repaid"
    BY <1>1, <1>4 DEF RepayAnswered, KeeperInv, KeeperType
  <2>4. WellInformed(r)'
    BY <1>1, <2>1, <2>2, <2>3 DEF Moves, WellInformed, Phase, LoanOf, Closed
  <2> QED
    BY <1>0, <1>2, <2>2, <2>4, TruthfulStep
<1> QED
  BY <1>0, <1>3, <1>4, FinishRests DEF KeeperInv, RepayAnswered

\* A transaction closes an open loan, or the attempt fails.
LEMMA SendStep ==
  ASSUME NEW a \in Activity, KeeperInv, Send(a)
  PROVE  KeeperInv'
<1>0. UNCHANGED <<due, low, db, recorded, monitored, misled>>
  BY DEF Send, doubts
<1>1. LoanOf(a) \in Loan /\ act[a].outcome = "liquidated" /\ act[a].attempt \in Nat \ {0}
  BY DEF KeeperInv, KeeperType, Doing, WellInformed, Send, Resting
<1>2. Truthful(a) /\ Elsewhere
  BY <1>0, <1>1 DEF Truthful, Elsewhere, KeeperInv, KeeperType, Send, Seizable, Status, Closed
<1>3. CASE Retry(a)
  <2>1. CASE Rests(a)
    BY <1>2, <2>1, RestingStep
  <2>2. CASE Moves(a, "sending", LoanOf(a), act[a].attempt + 1, act[a].outcome)
    <3>1. Apart(a) /\ ~Seizer(a)'
      BY <2>2 DEF Moves, Seizer, Phase
    <3>2. WellInformed(a)'
      BY <1>1, <2>2, <3>1 DEF Moves, WellInformed, Phase, LoanOf
    <3> QED
      BY <1>2, <3>1, <3>2, TruthfulStep
  <2> QED
    BY <1>3, <2>1, <2>2, RetryMoves DEF KeeperInv
<1>4. CASE Seizable(LoanOf(a)) /\ Become(a, "closing")
           /\ chain' = [chain EXCEPT ![LoanOf(a)] = "liquidated"]
  <2>1. Moves(a, "closing", LoanOf(a), act[a].attempt, "liquidated")
    BY <1>1, <1>4, BecomeMoves DEF KeeperInv, Phases
  <2>2. Apart(a) /\ LoanOf(a)' = LoanOf(a) /\ chain[LoanOf(a)] \notin Closed
    BY <1>4, <2>1 DEF Moves, LoanOf, Seizable, Closed
  <2>3. chain'[LoanOf(a)] = "liquidated"
    BY <1>1, <1>4 DEF KeeperInv, KeeperType
  <2>4. recorded'[LoanOf(a)] = 0
    BY <1>0, <1>1, <1>4 DEF KeeperInv, KeeperType, RecordedOnce, Seizable
  <2>5. WellInformed(a)'
    BY <1>1, <2>1, <2>3, <2>4 DEF Moves, WellInformed, Phase, LoanOf, Closed
  <2> QED
    BY <1>2, <2>2, <2>5, TruthfulStep
<1> QED
  BY <1>3, <1>4 DEF Send, Landed

\* The row is closed as the activity knows the loan to be.
LEMMA CloseStep ==
  ASSUME NEW a \in Activity, KeeperInv, Close(a)
  PROVE  KeeperInv'
<1>0. UNCHANGED <<chain, due, low, recorded, monitored, misled>>
  BY DEF Close, world, doubts
<1>1. /\ LoanOf(a) \in Loan /\ act[a].outcome \in Closed
      /\ chain[LoanOf(a)] = act[a].outcome \/ (act[a].outcome = "repaid" /\ LoanOf(a) \in misled)
      /\ Phase(a) = "closing" /\ WellInformed(a)
  BY DEF KeeperInv, WellInformed, Close, Resting, Closed
<1>2. Truthful(a) /\ Elsewhere
  BY <1>0, <1>1 DEF Truthful, Elsewhere, KeeperInv, KeeperType, Close, Status
<1>3. CASE End(a)
  BY <1>2, <1>3, EndRests, RestingStep DEF KeeperInv
<1>4. CASE Become(a, "cleaning") /\ db' = [db EXCEPT ![LoanOf(a)] = act[a].outcome]
  <2>1. Moves(a, "cleaning", LoanOf(a), act[a].attempt, act[a].outcome)
    BY <1>4, BecomeMoves DEF KeeperInv, Phases
  <2>2. Apart(a) /\ LoanOf(a)' = LoanOf(a) /\ (Seizer(a)' => Seizer(a))
    BY <1>1, <2>1 DEF Moves, LoanOf, Seizer, Phase
  <2>3. db'[LoanOf(a)] \in Closed
    BY <1>1, <1>4 DEF KeeperInv, KeeperType
  <2>4. WellInformed(a)'
    BY <1>0, <1>1, <2>1, <2>2, <2>3 DEF Moves, WellInformed, Phase, LoanOf, Resting
  <2> QED
    BY <1>2, <2>2, <2>4, TruthfulStep
<1> QED
  BY <1>3, <1>4 DEF Close

\* Only who has liquidated the loan records that.
LEMMA CleanUpStep ==
  ASSUME NEW a \in Activity, KeeperInv, CleanUp(a)
  PROVE  KeeperInv'
<1>0. UNCHANGED <<chain, due, low, db, misled>> /\ LoanOf(a) \in Loan
  BY DEF CleanUp, world, doubts, KeeperInv, WellInformed, Resting
<1>1. \/ recorded' = recorded
      \/ Seizer(a) /\ recorded' = [recorded EXCEPT ![LoanOf(a)] = recorded[LoanOf(a)] + 1]
  BY DEF CleanUp, Seizer
<1>2. Truthful(a)
  BY <1>0, <1>1 DEF Truthful, KeeperInv, KeeperType
<1>3. Elsewhere
  BY <1>0 DEF Elsewhere, KeeperInv, KeeperType, CleanUp
<1>4. Rests(a)
  BY EndRests DEF CleanUp, KeeperInv
<1> QED
  BY <1>2, <1>3, <1>4, RestingStep

LEMMA JobInv ==
  ASSUME NEW j \in Job, KeeperInv, JobStep(j)
  PROVE  KeeperInv'
<1>0. j \in Activity /\ UNCHANGED <<chain, due, low, db, recorded, monitored, misled>>
  BY DEF Activity, JobStep, world, doubts
<1>1. CASE Rests(j)
  BY <1>0, <1>1, NothingWritten, RestingStep
<1>2. CASE \E l \in Loan : Moves(j, "sending", l, 1, "liquidated")
  BY <1>0, <1>2, BeginStep
<1> QED
  BY <1>0, <1>1, <1>2, ScanRests, NextLoanMoves DEF JobStep, KeeperInv

\* Every step there is preserves the invariant.
LEMMA NextInv == KeeperInv /\ [Next]_vars => KeeperInv'
<1> SUFFICES ASSUME KeeperInv, [Next]_vars PROVE KeeperInv'
  OBVIOUS
<1>1. CASE World
  BY <1>1, WorldStep
<1>2. ASSUME NEW r \in Request, RequestStep(r) PROVE KeeperInv'
  <2>1. CASE RepayAnswered(r)
    BY <2>1, RepayStep
  <2>2. CASE /\ \/ \E l \in Loan : BeginTrack(r, l)
                \/ Create(r)
                \/ Register(r)
             /\ UNCHANGED <<world, recorded, running, lock, adrift, misled>>
    <3>1. ASSUME NEW l \in Loan, BeginTrack(r, l) PROVE KeeperInv'
      BY <2>2, <3>1, RequestBegins DEF BeginTrack, Start, world
    <3> QED
      BY <2>2, <3>1, TrackStep
  <2>3. ASSUME NEW l \in Loan,
               UNCHANGED <<world, db, recorded, monitored, running, lock, adrift, excused, unwatched>>,
               \/ BeginConfirm(r, l)
               \/ BeginSync(r, l)
               \/ BeginRepay(r, l)
               \/ BeginLiquidation(r, l) /\ UNCHANGED <<faults, misled>>
        PROVE  KeeperInv'
    BY <2>3, RequestBegins DEF world
  <2> QED
    BY <1>2, <2>1, <2>2, <2>3 DEF RequestStep
<1>3. ASSUME NEW j \in Job, JobStep(j) PROVE KeeperInv'
  BY <1>3, JobInv
<1>4. ASSUME NEW a \in Alert, NEW l \in Loan, Trigger(a, l),
             UNCHANGED <<world, db, recorded, monitored, running, lock, adrift, faults, excused, doubts>>
      PROVE  KeeperInv'
  BY <1>4, BeginLiquidationMoves, BeginStep DEF Trigger, Activity, world, doubts, KeeperInv
<1>5. ASSUME NEW a \in Activity, LiquidationStep(a) PROVE KeeperInv'
  BY <1>5, SendStep, CloseStep, CleanUpStep DEF LiquidationStep
<1>6. CASE (\E l \in Loan : LockExpires(l)) \/ UNCHANGED vars
  <2>1. UNCHANGED <<chain, due, low, db, recorded, monitored, act, misled>>
    BY <1>6 DEF LockExpires, world, doubts, vars
  <2> QED
    BY <2>1 DEF KeeperInv, KeeperType, WellInformed, OneSeizer, Seizer, Phase, LoanOf,
                ClosedAsOnChain, RecordedOnce
<1>7. ASSUME NEW s \in Server, Restart(s), UNCHANGED <<world, db, recorded, lock, misled>> PROVE KeeperInv'
  BY <1>7, RestartStep
<1> QED
  BY <1>1, <1>2, <1>3, <1>4, <1>5, <1>6, <1>7 DEF Next

LEMMA KeeperInvariant == Spec => []KeeperInv
  BY InitInv, NextInv, PTL DEF Spec

\* Whatever the database shows closed is closed on chain, in the same way, but
\* for a repayment the server was told of that was not: the updates of
\* loan.service.ts:502 and :680, which look at neither, make no other mistake.
THEOREM DatabaseIsTruthful == Spec => []ClosedAsOnChain
<1>1. KeeperInv => ClosedAsOnChain
  BY DEF KeeperInv
<1> QED
  BY <1>1, KeeperInvariant, PTL

\* The job, alerts and requests record a liquidation once between them, though
\* only the job takes a lock (loan.service.ts:700-719).
THEOREM LiquidationRecordedOnce == Spec => []RecordedOnce
<1>1. KeeperInv => RecordedOnce
  BY DEF KeeperInv
<1> QED
  BY <1>1, KeeperInvariant, PTL
-----------------------------------------------------------------------------
(* Every liquidation is booked, or its loss is known.                       *)

\* A step of activity a leaves no loan behind.
LEMMA BookedStep ==
  ASSUME NEW a \in Activity, LiquidationIsBooked, Apart(a), excused \subseteq excused',
         \A l \in Loan : chain'[l] = "liquidated" /\ db'[l] = "active" =>
           \/ l \in excused'
           \/ act'[a].phase = "closing" /\ act'[a].loan = l
           \/ /\ chain[l] = "liquidated" /\ db[l] = "active"
              /\ ~(Phase(a) = "closing" /\ LoanOf(a) = l)
  PROVE  LiquidationIsBooked'
<1> SUFFICES ASSUME NEW l \in Loan, chain'[l] = "liquidated", db'[l] = "active", l \notin excused'
             PROVE  \E b \in Activity : act'[b].loan = l /\ act'[b].phase = "closing"
  BY DEF LiquidationIsBooked, LoanOf, Phase
<1>1. CASE act'[a].phase = "closing" /\ act'[a].loan = l
  BY <1>1
<1>2. CASE /\ chain[l] = "liquidated" /\ db[l] = "active"
           /\ ~(Phase(a) = "closing" /\ LoanOf(a) = l)
  <2>1. PICK b \in Activity : LoanOf(b) = l /\ Phase(b) = "closing"
    BY <1>2 DEF LiquidationIsBooked
  <2>2. act'[b] = act[b]
    BY <1>2, <2>1 DEF Apart
  <2> QED
    BY <2>1, <2>2 DEF LoanOf, Phase
<1> QED
  BY <1>1, <1>2

\* What only an activity that is not closing changes in itself changes nothing.
LEMMA BookedAside ==
  ASSUME NEW a \in Activity, LiquidationIsBooked, Apart(a), Phase(a) # "closing",
         UNCHANGED <<chain, db, excused>>
  PROVE  LiquidationIsBooked'
  BY BookedStep

LEMMA BookedRequest ==
  ASSUME NEW r \in Request, KeeperInv, LiquidationIsBooked, RequestStep(r)
  PROVE  LiquidationIsBooked'
<1>0. r \in Activity /\ KeeperType
  BY DEF Activity, KeeperInv
<1>2. CASE \E l \in Loan :
             /\ BeginTrack(r, l) \/ BeginConfirm(r, l) \/ BeginSync(r, l) \/ BeginRepay(r, l)
                  \/ BeginLiquidation(r, l)
             /\ UNCHANGED <<chain, db, excused>>
  BY <1>0, <1>2, BeginsApart, BookedAside
<1>3. CASE Create(r) /\ UNCHANGED world
  <2>1. Apart(r) /\ Phase(r) = "creating" /\ chain' = chain
    BY <1>0, <1>3, BecomeMoves, FinishRests DEF Create, Moves, Rests, Phases, world
  <2>2. ASSUME NEW l \in Loan, chain'[l] = "liquidated", db'[l] = "active", l \notin excused'
        PROVE  db[l] = "active"
    BY <1>0, <1>3, <2>1, <2>2 DEF Create, KeeperType
  <2>3. excused \subseteq excused'
    BY <1>3 DEF Create
  <2> QED
    BY <1>0, <2>1, <2>2, <2>3, BookedStep
<1>4. CASE Register(r) /\ UNCHANGED world
  BY <1>0, <1>4, FinishRests, BookedAside DEF Register, Rests, world
<1>5. CASE RepayAnswered(r)
  <2>1. Apart(r) /\ Phase(r) = "repaying" /\ UNCHANGED <<db, excused>>
    BY <1>0, <1>5, BecomeMoves, FinishRests DEF RepayAnswered, Moves, Rests, Phases
  <2>2. \A l \in Loan : chain'[l] = "liquidated" => chain[l] = "liquidated"
    BY <1>0, <1>5 DEF RepayAnswered, KeeperType
  <2> QED
    BY <1>0, <2>1, <2>2, BookedStep
<1> QED
  BY <1>2, <1>3, <1>4, <1>5 DEF RequestStep, BeginTrack, world

LEMMA BookedLiquidation ==
  ASSUME NEW a \in Activity, KeeperInv, LiquidationIsBooked, LiquidationStep(a)
  PROVE  LiquidationIsBooked'
<1>0. KeeperType /\ WellInformed(a)
  BY DEF KeeperInv
<1>1. CASE Send(a)
  <2>1. Apart(a) /\ Phase(a) = "sending" /\ UNCHANGED <<db, excused>>
    BY <1>0, <1>1, BecomeMoves, RetryMoves DEF Send, Landed, Moves, Rests, Phases
  <2>2. ASSUME NEW l \in Loan, chain'[l] = "liquidated", chain[l] # "liquidated"
        PROVE  act'[a].phase = "closing" /\ act'[a].loan = l
    <3>1. LoanOf(a) = l /\ Become(a, "closing")
      BY <1>0, <1>1, <2>2 DEF Send, Landed, KeeperType
    <3> QED
      BY <1>0, <3>1, BecomeMoves DEF Moves, Phases
  <2> QED
    BY <2>1, <2>2, BookedStep
<1>2. CASE Close(a)
  <2>1. Apart(a) /\ chain' = chain /\ excused \subseteq excused'
    BY <1>0, <1>2, BecomeMoves, EndRests DEF Close, Moves, Rests, Phases, world
  <2>2. LoanOf(a) \in Loan /\ act[a].outcome \in Closed
    BY <1>0, <1>2 DEF WellInformed, Close, Resting, Closed
  <2>3. ASSUME NEW l \in Loan, db'[l] = "active", l \notin excused'
        PROVE  db[l] = "active" /\ LoanOf(a) # l
    BY <1>0, <1>2, <2>2, <2>3 DEF Close, KeeperType, Closed
  <2> QED
    BY <2>1, <2>3, BookedStep
<1>3. CASE CleanUp(a)
  BY <1>0, <1>3, EndRests, BookedAside DEF CleanUp, Rests, world
<1> QED
  BY <1>1, <1>2, <1>3 DEF LiquidationStep

\* Who was closing a loan when the process ended is excused.
LEMMA BookedRestart ==
  ASSUME NEW s \in Server, LiquidationIsBooked, Restart(s), UNCHANGED <<world, db>>
  PROVE  LiquidationIsBooked'
<1> SUFFICES ASSUME NEW l \in Loan, chain'[l] = "liquidated", db'[l] = "active", l \notin excused'
             PROVE  \E b \in Activity : act'[b].loan = l /\ act'[b].phase = "closing"
  BY DEF LiquidationIsBooked, LoanOf, Phase
<1>1. PICK b \in Activity : LoanOf(b) = l /\ Phase(b) = "closing"
  BY DEF LiquidationIsBooked, Restart, world
<1>2. Home[b] # s
  BY <1>1 DEF Restart
<1>3. act'[b] = act[b]
  BY <1>2 DEF Restart
<1> QED
  BY <1>1, <1>3 DEF LoanOf, Phase

LEMMA BookedNext == KeeperInv /\ LiquidationIsBooked /\ [Next]_vars => LiquidationIsBooked'
<1> SUFFICES ASSUME KeeperInv, LiquidationIsBooked, [Next]_vars PROVE LiquidationIsBooked'
  OBVIOUS
<1>1. CASE World
  <2>1. UNCHANGED <<db, act>> /\ excused \subseteq excused'
    BY <1>1 DEF World, LandsLate
  <2>2. \A l \in Loan : chain'[l] = "liquidated" => chain[l] = "liquidated" \/ l \in excused'
    BY <1>1 DEF World, KeeperInv, KeeperType, ClientSeesLoan, LoanLands, BorrowerRepays,
                LandsLate, PriceMoves, BecomesDue
  <2> QED
    BY <2>1, <2>2 DEF LiquidationIsBooked, LoanOf, Phase
<1>2. ASSUME NEW r \in Request, RequestStep(r) PROVE LiquidationIsBooked'
  BY <1>2, BookedRequest
<1>3. ASSUME NEW j \in Job, JobStep(j) PROVE LiquidationIsBooked'
  <2>1. j \in Activity /\ Apart(j) /\ Phase(j) # "closing" /\ UNCHANGED <<chain, db, excused>>
    BY <1>3, ScanRests, NextLoanMoves
       DEF Activity, JobStep, KeeperInv, Moves, Rests, Scan, NextLoan, world
  <2> QED
    BY <2>1, BookedAside
<1>4. ASSUME NEW a \in Alert, NEW l \in Loan, Trigger(a, l),
             UNCHANGED <<world, db, recorded, monitored, running, lock, adrift, faults, excused, doubts>>
      PROVE  LiquidationIsBooked'
  BY <1>4, BeginLiquidationMoves, BookedAside DEF Trigger, Activity, KeeperInv, Moves, world
<1>5. ASSUME NEW a \in Activity, LiquidationStep(a) PROVE LiquidationIsBooked'
  BY <1>5, BookedLiquidation
<1>6. CASE (\E l \in Loan : LockExpires(l)) \/ UNCHANGED vars
  BY <1>6 DEF LockExpires, LiquidationIsBooked, LoanOf, Phase, world, vars
<1>7. ASSUME NEW s \in Server, Restart(s), UNCHANGED <<world, db, recorded, lock, misled>>
      PROVE  LiquidationIsBooked'
  BY <1>7, BookedRestart
<1> QED
  BY <1>1, <1>2, <1>3, <1>4, <1>5, <1>6, <1>7 DEF Next

\* A loan liquidated on chain stays active in the database only while somebody
\* is about to close it, or when an answer, an update or a process was lost
\* (loan.service.ts:625-690).
THEOREM LiquidationsAreBooked == Spec => []LiquidationIsBooked
<1>1. Init => LiquidationIsBooked
  BY DEF Init, LiquidationIsBooked
<1> QED
  BY <1>1, BookedNext, KeeperInvariant, PTL DEF Spec
-----------------------------------------------------------------------------
(* Every active loan is watched.                                            *)

\* A step of activity a leaves no active loan unwatched.
LEMMA WatchedStep ==
  ASSUME NEW a \in Activity, MonitoredWhileActive, Apart(a), UNCHANGED running,
         unwatched \subseteq unwatched',
         \A l \in Loan : db'[l] = "active" =>
           \/ l \in unwatched' \/ \E s \in Server : l \in monitored'[s]
           \/ a \in Request /\ act'[a].phase = "registering" /\ act'[a].loan = l
           \/ /\ db[l] = "active" /\ \A s \in Server : l \in monitored[s] => l \in monitored'[s]
              /\ ~(Phase(a) = "registering" /\ LoanOf(a) = l)
  PROVE  MonitoredWhileActive'
<1> SUFFICES ASSUME running' = Server, NEW l \in Loan, db'[l] = "active", l \notin unwatched',
                    ~ \E s \in Server : l \in monitored'[s]
             PROVE  \E r \in Request : act'[r].loan = l /\ act'[r].phase = "registering"
  BY DEF MonitoredWhileActive, LoanOf, Phase
<1>1. CASE a \in Request /\ act'[a].phase = "registering" /\ act'[a].loan = l
  BY <1>1
<1>2. CASE /\ db[l] = "active" /\ \A s \in Server : l \in monitored[s] => l \in monitored'[s]
           /\ ~(Phase(a) = "registering" /\ LoanOf(a) = l)
  <2>1. PICK r \in Request : LoanOf(r) = l /\ Phase(r) = "registering"
    BY <1>2 DEF MonitoredWhileActive
  <2>2. act'[r] = act[r]
    BY <1>2, <2>1 DEF Apart, Activity
  <2> QED
    BY <2>1, <2>2 DEF LoanOf, Phase
<1> QED
  BY <1>1, <1>2

LEMMA WatchedAside ==
  ASSUME NEW a \in Activity, MonitoredWhileActive, Apart(a), Phase(a) # "registering",
         UNCHANGED <<db, monitored, running, unwatched>>
  PROVE  MonitoredWhileActive'
  BY WatchedStep

LEMMA WatchedRequest ==
  ASSUME NEW r \in Request, KeeperInv, MonitoredWhileActive, RequestStep(r)
  PROVE  MonitoredWhileActive'
<1>0. r \in Activity /\ KeeperType
  BY DEF Activity, KeeperInv
<1>1. CASE \E l \in Loan :
             /\ BeginTrack(r, l) \/ BeginConfirm(r, l) \/ BeginSync(r, l) \/ BeginRepay(r, l)
                  \/ BeginLiquidation(r, l)
             /\ UNCHANGED <<db, monitored, running, unwatched>>
  BY <1>0, <1>1, BeginsApart, WatchedAside
<1>2. CASE Create(r) /\ UNCHANGED running
  <2>1. CASE db[LoanOf(r)] = "none"
    <3>1. Moves(r, "registering", LoanOf(r), act[r].attempt, act[r].outcome)
      BY <1>0, <1>2, <2>1, BecomeMoves DEF Create, Phases
    <3>2. ASSUME NEW l \in Loan, db'[l] = "active", l # LoanOf(r) PROVE db[l] = "active"
      BY <1>0, <1>2, <2>1, <3>2 DEF Create, KeeperType
    <3> QED
      BY <1>0, <1>2, <3>1, <3>2, WatchedStep DEF Moves, Create
  <2>2. CASE db[LoanOf(r)] # "none"
    BY <1>0, <1>2, <2>2, FinishRests, WatchedAside DEF Create, Rests
  <2> QED
    BY <2>1, <2>2
<1>3. CASE Register(r) /\ UNCHANGED running
  <2>1. Apart(r) /\ db' = db
    BY <1>0, <1>3, FinishRests DEF Register, Rests
  <2>2. Home[r] \in Server
    BY <1>0, KeeperAssumption
  <2>3. /\ LoanOf(r) \in monitored'[Home[r]] \/ LoanOf(r) \in unwatched'
        /\ unwatched \subseteq unwatched' /\ \A s \in Server : monitored[s] \subseteq monitored'[s]
    BY <1>0, <1>3, <2>2 DEF Register, KeeperType
  <2> QED
    BY <1>0, <1>3, <2>1, <2>2, <2>3, WatchedStep
<1>4. CASE RepayAnswered(r)
  BY <1>0, <1>4, BecomeMoves, FinishRests, WatchedAside
     DEF RepayAnswered, Moves, Rests, Phases, doubts
<1> QED
  BY <1>1, <1>2, <1>3, <1>4 DEF RequestStep, BeginTrack

LEMMA WatchedLiquidation ==
  ASSUME NEW a \in Activity, KeeperInv, MonitoredWhileActive, LiquidationStep(a)
  PROVE  MonitoredWhileActive'
<1>0. KeeperType /\ WellInformed(a)
  BY DEF KeeperInv
<1>1. CASE Send(a)
  BY <1>0, <1>1, BecomeMoves, RetryMoves, WatchedAside
     DEF Send, Landed, Moves, Rests, Phases, doubts
<1>2. CASE Close(a)
  <2>1. Apart(a) /\ UNCHANGED <<monitored, running, unwatched>> /\ Phase(a) = "closing"
    BY <1>0, <1>2, BecomeMoves, EndRests DEF Close, Moves, Rests, Phases, doubts
  <2>2. ASSUME NEW l \in Loan, db'[l] = "active" PROVE db[l] = "active"
    BY <1>0, <1>2, <2>2 DEF Close, KeeperType, WellInformed, Closed
  <2> QED
    BY <2>1, <2>2, WatchedStep
<1>3. CASE CleanUp(a)
  <2>1. Apart(a) /\ UNCHANGED <<db, running, unwatched>> /\ Phase(a) = "cleaning"
    BY <1>0, <1>3, EndRests DEF CleanUp, Rests, doubts
  <2>2. db[LoanOf(a)] \in Closed
    BY <1>0, <2>1 DEF WellInformed
  <2>3. ASSUME NEW l \in Loan, db[l] = "active", NEW s \in Server, l \in monitored[s]
        PROVE  l \in monitored'[s]
    BY <1>0, <1>3, <2>2, <2>3 DEF CleanUp, KeeperType, Closed
  <2> QED
    BY <2>1, <2>3, WatchedStep
<1> QED
  BY <1>1, <1>2, <1>3 DEF LiquidationStep

\* A monitor that starts again has loaded every active loan.
LEMMA WatchedRestart ==
  ASSUME NEW s \in Server, KeeperType, Restart(s), UNCHANGED db
  PROVE  MonitoredWhileActive'
<1>1. CASE monitored' = [monitored EXCEPT ![s] = ActiveInDb]
  <2>1. monitored'[s] = ActiveInDb
    BY <1>1 DEF KeeperType
  <2> QED
    BY <2>1 DEF MonitoredWhileActive, ActiveInDb
<1>2. CASE running' = running \ {s}
  BY <1>2 DEF MonitoredWhileActive
<1> QED
  BY <1>1, <1>2 DEF Restart

LEMMA WatchedNext == KeeperInv /\ MonitoredWhileActive /\ [Next]_vars => MonitoredWhileActive'
<1> SUFFICES ASSUME KeeperInv, MonitoredWhileActive, [Next]_vars PROVE MonitoredWhileActive'
  OBVIOUS
<1>1. CASE World
  BY <1>1 DEF World, MonitoredWhileActive, LoanOf, Phase, doubts
<1>2. ASSUME NEW r \in Request, RequestStep(r) PROVE MonitoredWhileActive'
  BY <1>2, WatchedRequest
<1>3. ASSUME NEW j \in Job, JobStep(j) PROVE MonitoredWhileActive'
  <2>1. /\ j \in Activity /\ Apart(j) /\ Phase(j) # "registering"
        /\ UNCHANGED <<db, monitored, running, unwatched>>
    BY <1>3, ScanRests, NextLoanMoves
       DEF Activity, JobStep, KeeperInv, Moves, Rests, Scan, NextLoan, doubts
  <2> QED
    BY <2>1, WatchedAside
<1>4. ASSUME NEW a \in Alert, NEW l \in Loan, Trigger(a, l),
             UNCHANGED <<world, db, recorded, monitored, running, lock, adrift, faults, excused, doubts>>
      PROVE  MonitoredWhileActive'
  BY <1>4, BeginLiquidationMoves, WatchedAside DEF Trigger, Activity, KeeperInv, Moves, doubts
<1>5. ASSUME NEW a \in Activity, LiquidationStep(a) PROVE MonitoredWhileActive'
  BY <1>5, WatchedLiquidation
<1>6. CASE (\E l \in Loan : LockExpires(l)) \/ UNCHANGED vars
  BY <1>6 DEF LockExpires, MonitoredWhileActive, LoanOf, Phase, doubts, vars
<1>7. ASSUME NEW s \in Server, Restart(s), UNCHANGED <<world, db, recorded, lock, misled>>
      PROVE  MonitoredWhileActive'
  BY <1>7, WatchedRestart DEF KeeperInv
<1> QED
  BY <1>1, <1>2, <1>3, <1>4, <1>5, <1>6, <1>7 DEF Next

\* While all price monitors run, one of them has the threshold of each active
\* loan, or a request is just registering it, or a call threw between the row and
\* the threshold and no monitor has started since (loan.service.ts:811-922,
\* fast-price-monitor.ts:732-755).
THEOREM ActiveLoansAreWatched == Spec => []MonitoredWhileActive
<1>1. Init => MonitoredWhileActive
  BY DEF Init, MonitoredWhileActive
<1> QED
  BY <1>1, WatchedNext, KeeperInvariant, PTL DEF Spec
=============================================================================
