------------------------------ MODULE StakingPage ------------------------------
(* The staking page of the web app (routes/staking.tsx): what it shows of the     *)
(* connected wallet's position and of the pool (staking.service.ts), and what it  *)
(* says of the transactions it sends (staking-transactions.ts,                    *)
(* transaction-utils.ts).                                                         *)
(*                                                                                *)
(* The page reads through the server, some time before it shows; meanwhile epochs *)
(* advance, the wallet is switched, and transactions land.  The staking program   *)
(* is in Staking; here it is a position with its start.                           *)
EXTENDS Integers

CONSTANTS Wallet, Nobody,
          Amount,        \* amounts that are typed
          MaxEpoch,      \* bound on the epoch
          MaxPresses,    \* bound on presses of the two buttons
          MaxElsewhere,  \* bound on what is done beside the page, switches of the wallet included
          MaxFaults      \* bound on calls that fail

Button == {"stake", "unstake"}

VARIABLES
  epoch, paused,   \* of the pool on chain
  position,        \* on chain: amount, first epoch, times changed and restarted
  wallet,          \* connected
  stats,           \* shown of the pool; epoch 0: none, or the zeros of a failure
  asked,           \* per wallet: its request under way, with what the server read
  shown,           \* per wallet: its last answer
  press,           \* per button: the transaction it started
  fresh,           \* history, per wallet: changes it was told were made
  presses, elsewhere, faults

chain == <<epoch, paused, position>>
shows == <<stats, asked, shown>>
bounds == <<presses, elsewhere, faults>>
vars == <<chain, wallet, shows, press, fresh, bounds>>

Empty == [ok |-> FALSE, failed |-> FALSE, amount |-> 0, start |-> 0, changes |-> 0, restarts |-> 0]
Unpressed == [at |-> "idle", user |-> Nobody, amount |-> 0, tx |-> "none", cause |-> "none",
              changes |-> 0]

Init ==
  /\ epoch = 1 /\ paused = FALSE
  /\ position = [w \in Wallet |-> [amount |-> 0, start |-> 0, changes |-> 0, restarts |-> 0]]
  /\ wallet \in Wallet \cup {Nobody}
  /\ stats = [epoch |-> 0, paused |-> FALSE]
  /\ asked = [w \in Wallet |-> [at |-> "none", answer |-> Empty]]
  /\ shown = [w \in Wallet |-> Empty]
  /\ press = [b \in Button |-> Unpressed]
  /\ fresh = [w \in Wallet |-> 0]
  /\ presses = 0 /\ elsewhere = 0 /\ faults = 0

Mishap == faults < MaxFaults /\ faults' = faults + 1
--------------------------------------------------------------------------------
(* The chain: stake and unstake as in Staking, and the epoch. *)
May(w, b, amount) ==
  IF b = "stake" THEN ~paused ELSE position[w].amount >= amount

After(p, b, amount) ==
  LET left == p.amount - amount IN
  IF b = "stake"
  THEN [p EXCEPT !.amount = @ + amount, !.start = IF p.amount = 0 THEN epoch ELSE @,
                 !.changes = @ + 1, !.restarts = IF p.amount = 0 THEN @ + 1 ELSE @]
  ELSE [p EXCEPT !.amount = left, !.start = IF left = 0 THEN epoch ELSE @,
                 !.changes = @ + 1, !.restarts = IF left = 0 THEN @ + 1 ELSE @]

AdvanceEpoch ==
  /\ epoch < MaxEpoch /\ epoch' = epoch + 1
  /\ UNCHANGED <<paused, position, wallet, shows, press, fresh, bounds>>

(* Another tab or device of the owner, or the authority. *)
Elsewhere(w, b, amount) ==
  /\ elsewhere < MaxElsewhere /\ elsewhere' = elsewhere + 1
  /\ May(w, b, amount)
  /\ position' = [position EXCEPT ![w] = After(@, b, amount)]
  /\ UNCHANGED <<epoch, paused, wallet, shows, press, fresh, presses, faults>>

SetPaused ==
  /\ elsewhere < MaxElsewhere /\ elsewhere' = elsewhere + 1
  /\ paused' = ~paused
  /\ UNCHANGED <<epoch, position, wallet, shows, press, fresh, presses, faults>>

(* A transaction that was sent is applied, fails, or expires. *)
Land(b) ==
  LET p == press[b] IN
  /\ p.tx = "sent"
  /\ IF May(p.user, b, p.amount)
     THEN /\ position' = [position EXCEPT ![p.user] = After(@, b, p.amount)]
          /\ press' = [press EXCEPT ![b].tx = "landed",
                                    ![b].changes = position[p.user].changes + 1]
     ELSE /\ press' = [press EXCEPT ![b].tx = "failed"]
          /\ UNCHANGED position
  /\ UNCHANGED <<epoch, paused, wallet, shows, fresh, bounds>>

Expire(b) ==
  /\ press[b].tx = "sent"
  /\ press' = [press EXCEPT ![b].tx = "expired"]
  /\ UNCHANGED <<chain, wallet, shows, fresh, bounds>>
--------------------------------------------------------------------------------
(* Reading.  The query of the pool has one entry; getStakingStats answers zeros   *)
(* when it fails.                                                                 *)
ShowStats ==
  /\ stats' = [epoch |-> epoch, paused |-> paused]
  /\ UNCHANGED <<chain, wallet, asked, shown, press, fresh, bounds>>

StatsFail ==
  /\ Mishap
  /\ stats' = [epoch |-> 0, paused |-> FALSE]
  /\ UNCHANGED <<chain, wallet, asked, shown, press, fresh, presses, elsewhere>>

(* The query of the position has one entry per wallet, asked when the wallet      *)
(* changes and every 5 s.  An interval joins the request under way.               *)
Interval ==
  /\ wallet # Nobody /\ asked[wallet].at = "none"
  /\ asked' = [asked EXCEPT ![wallet].at = "sent"]
  /\ UNCHANGED <<chain, wallet, stats, shown, press, fresh, bounds>>

(* getUserStake: a read that fails is answered like no position. *)
ServerReads(w) ==
  /\ asked[w].at = "sent"
  /\ LET p == position[w] IN
     asked' = [asked EXCEPT ![w] =
       [at |-> "read",
        answer |-> [ok |-> TRUE, failed |-> FALSE, amount |-> p.amount, start |-> p.start,
                    changes |-> p.changes, restarts |-> p.restarts]]]
  /\ UNCHANGED <<chain, wallet, stats, shown, press, fresh, bounds>>

ServerFails(w) ==
  /\ asked[w].at = "sent" /\ Mishap
  /\ asked' = [asked EXCEPT ![w] = [at |-> "read", answer |-> Empty]]
  /\ UNCHANGED <<chain, wallet, stats, shown, press, fresh, presses, elsewhere>>

Arrive(w) ==
  /\ asked[w].at = "read"
  /\ shown' = [shown EXCEPT ![w] = asked[w].answer]
  /\ asked' = [asked EXCEPT ![w] = [at |-> "none", answer |-> Empty]]
  /\ UNCHANGED <<chain, wallet, stats, press, fresh, bounds>>

(* The request itself fails, its retries too: the last answer stays. *)
AnswerLost(w) ==
  /\ asked[w].at # "none" /\ Mishap
  /\ asked' = [asked EXCEPT ![w] = [at |-> "none", answer |-> Empty]]
  /\ shown' = [shown EXCEPT ![w].failed = TRUE]
  /\ UNCHANGED <<chain, wallet, stats, press, fresh, presses, elsewhere>>

(* accountChanged, disconnect, connect. *)
SwitchWallet(w) ==
  /\ elsewhere < MaxElsewhere /\ elsewhere' = elsewhere + 1
  /\ w # wallet /\ wallet' = w
  /\ UNCHANGED <<chain, shows, press, fresh, presses, faults>>

WarnedAfter(w) ==          \* fault: the first epoch of a stake is taken to count
  shown[w].start # 0 /\ stats.epoch # 0 /\ shown[w].start > stats.epoch

(* NOT ELIGIBLE FOR CURRENT EPOCH *)
Warned(w) == shown[w].start # 0 /\ stats.epoch # 0 /\ shown[w].start >= stats.epoch
--------------------------------------------------------------------------------
(* The two buttons.  Each is disabled while its own transaction is under way.     *)
Throw(b, cause) == press' = [press EXCEPT ![b].at = "done", ![b].cause = cause]

Press(b, amount) ==
  /\ wallet # Nobody /\ presses < MaxPresses /\ presses' = presses + 1
  /\ press[b].at \in {"idle", "done"} /\ press[b].tx # "sent"
  /\ ~stats.paused
  /\ b = "unstake" => amount <= shown[wallet].amount
  /\ press' = [press EXCEPT ![b] =
       [Unpressed EXCEPT !.at = "built", !.user = wallet, !.amount = amount]]
  /\ UNCHANGED <<chain, wallet, shows, fresh, elsewhere, faults>>

(* buildStakeTransaction takes a blockhash, then simulateTransaction *)
Simulate(b) ==
  /\ press[b].at = "built"
  /\ IF May(press[b].user, b, press[b].amount)
     THEN press' = [press EXCEPT ![b].at = "simulated"]
     ELSE Throw(b, "simulation")
  /\ UNCHANGED <<chain, wallet, shows, fresh, bounds>>

CallFails(b) ==
  /\ press[b].at = "built" /\ Mishap /\ Throw(b, "network")
  /\ UNCHANGED <<chain, wallet, shows, fresh, presses, elsewhere>>

(* The wallet connected now signs; for another's transaction the signature of     *)
(* its payer is missing, and serialize throws.                                    *)
Sign(b) ==
  /\ press[b].at = "simulated"
  /\ \/ Throw(b, "rejected")
     \/ wallet # press[b].user /\ Throw(b, "signature")
     \/ wallet = press[b].user /\ press' = [press EXCEPT ![b].at = "signed"]
  /\ UNCHANGED <<chain, wallet, shows, fresh, bounds>>

(* sendRawTransaction simulates once more *)
Send(b) ==
  /\ press[b].at = "signed"
  /\ IF May(press[b].user, b, press[b].amount)
     THEN press' = [press EXCEPT ![b].at = "polling", ![b].tx = "sent"]
     ELSE Throw(b, "preflight")
  /\ UNCHANGED <<chain, wallet, shows, fresh, bounds>>

SendUnanswered(b) ==
  /\ press[b].at = "signed" /\ Mishap
  /\ press' = [press EXCEPT ![b].at = "done", ![b].cause = "unanswered", ![b].tx = "sent"]
  /\ UNCHANGED <<chain, wallet, shows, fresh, presses, elsewhere>>

RefetchJoins(w) == IF asked[w].at = "none" THEN "sent" ELSE asked[w].at    \* fault

(* refetch() abandons the request under way *)
Refetch(w) == "sent"

(* fastConfirmTransaction: the status of the signature. *)
PollIgnoresErr(b) ==       \* fault: a status is enough
  /\ press[b].at = "polling" /\ press[b].tx \in {"landed", "failed"}
  /\ press' = [press EXCEPT ![b].at = "done", ![b].cause = "success"]
  /\ UNCHANGED <<chain, wallet, shows, fresh, bounds>>

Poll(b) ==
  /\ press[b].at = "polling" /\ press[b].tx \in {"landed", "failed"}
  /\ IF press[b].tx = "failed"
     THEN Throw(b, "status") /\ UNCHANGED <<shows, fresh>>
     ELSE /\ press' = [press EXCEPT ![b].at = "done", ![b].cause = "success"]
          /\ IF wallet = Nobody THEN UNCHANGED <<shows, fresh>>
             ELSE /\ asked' = [asked EXCEPT ![wallet].at = Refetch(wallet)]
                  /\ shown' = [shown EXCEPT ![wallet].failed = FALSE]
                  /\ stats' \in {stats, [epoch |-> epoch, paused |-> paused]}
                  /\ fresh' = IF wallet # press[b].user THEN fresh
                              ELSE [fresh EXCEPT ![wallet] = press[b].changes]
  /\ UNCHANGED <<chain, wallet, bounds>>

(* 30 s without a status, or an error of the last poll. *)
Timeout(b) ==
  /\ press[b].at = "polling"
  /\ Throw(b, "timeout")
  /\ UNCHANGED <<chain, wallet, shows, fresh, bounds>>

Next ==
  \/ AdvanceEpoch \/ SetPaused
  \/ \E w \in Wallet, b \in Button, amount \in Amount : Elsewhere(w, b, amount)
  \/ ShowStats \/ StatsFail \/ Interval
  \/ \E w \in Wallet : ServerReads(w) \/ ServerFails(w) \/ Arrive(w) \/ AnswerLost(w)
  \/ \E w \in Wallet \cup {Nobody} : SwitchWallet(w)
  \/ \E b \in Button :
       \/ \E amount \in Amount : Press(b, amount)
       \/ Simulate(b) \/ CallFails(b) \/ Sign(b) \/ Send(b) \/ SendUnanswered(b)
       \/ Land(b) \/ Expire(b) \/ Poll(b) \/ Timeout(b)

Spec == Init /\ [][Next]_vars
--------------------------------------------------------------------------------
(* Who is shown a position and a pool and is not warned does earn in the current  *)
(* epoch, unless the position was restarted after it was read (staking.tsx:318).  *)
UnwarnedIsEligible ==
  \A w \in Wallet :
    shown[w].ok /\ shown[w].amount > 0 /\ stats.epoch # 0 /\ ~Warned(w)
      => position[w].start < epoch \/ position[w].restarts > shown[w].restarts

(* A stake or unstake the page calls done was done, and one it calls failed was    *)
(* not, and will not be, unless the page was left without an answer.              *)
OutcomeIsTold ==
  \A b \in Button :
    /\ press[b].cause = "success" => press[b].tx = "landed"
    /\ press[b].at = "done" /\ press[b].cause \notin {"success", "timeout", "unanswered"}
         => press[b].tx \in {"none", "failed"}

(* Once it was called done and the position asked for again, what is shown of      *)
(* that wallet has it (staking.tsx:143).                                          *)
DoneIsShown ==
  \A w \in Wallet :
    shown[w].ok /\ ~shown[w].failed /\ asked[w].at = "none" => shown[w].changes >= fresh[w]

PositionIsTold == UnwarnedIsEligible /\ OutcomeIsTold /\ DoneIsShown
================================================================================
