------------------------------ MODULE FeeClaimer ------------------------------
(* The way of the creator fees: PumpFun's creator vault -> the admin's wallet -> *)
(* the fee receiver of the program -> treasury, stakers and operations.  The     *)
(* server's claimer (services/fee-claimer.service.ts) walks it on a timer and on *)
(* the admin's request, several walks at a time; the script                      *)
(* claim-creator-fees.ts walks it once, and distribute-accumulated-fees.ts only  *)
(* the last leg.  Every leg is a transaction of its own that may be refused, or  *)
(* land without its sender learning of it.                                       *)
(*                                                                               *)
(* Lamports are counted in a few units, the wallet's above the 0.01 SOL it keeps *)
(* for transaction fees.  More than MaxFees units in one place count as MaxFees, *)
(* so that trading never has to stop.                                            *)
EXTENDS Integers

CONSTANTS Timer,       \* the walk the timer starts, one after the other
          Extra,       \* walks of the server that overlap with it
          Script,      \* runs of the script that can overlap with them
          Threshold,   \* MIN_CLAIM_THRESHOLD
          MaxRetries,  \* maxRetries
          MaxFees,     \* bound: units told apart in the wallet and in the receiver
          MaxMishaps,  \* bound: lost calls and moves of the operations wallet
          MaxRuns      \* bound: walks besides the timer's

VARIABLES vault,       \* what PumpFun holds for the creator
          wallet,      \* what the admin's wallet holds above its reserve
          receiver,    \* what the fee receiver holds above its rent
          agreed,      \* whether protocol state and fee receiver name one operations wallet
          claim,       \* claim[c]: how far each walk is
          mishaps, runs

vars == <<vault, wallet, receiver, agreed, claim, mishaps, runs>>

Claim == {Timer} \cup Extra
Walker == Claim \cup Script
NoClaim == [at |-> "idle", tries |-> 0, amount |-> 0]

Init ==
  /\ vault = 0 /\ wallet = 0 /\ receiver = 0
  /\ agreed = TRUE
  /\ claim = [c \in Walker |-> NoClaim]
  /\ mishaps = 0 /\ runs = 0

Goto(c, at) == claim' = [claim EXCEPT ![c].at = at]
End(c) == claim' = [claim EXCEPT ![c] = NoClaim]

(* An error inside the attempt: the server starts the attempt from the top, at    *)
(* most MaxRetries times; the script gives up.                                    *)
Fails(c) ==
  IF c \in Claim /\ claim[c].tries + 1 < MaxRetries
    THEN claim' = [claim EXCEPT ![c] = [at |-> "check", tries |-> @.tries + 1, amount |-> 0]]
    ELSE End(c)

Least(a, b) == IF a < b THEN a ELSE b

(* What becomes of a call: it takes effect or not, and its sender is told of      *)
(* success or of an error.  Anything but success told of what was done is a mishap. *)
Answer == [done : BOOLEAN, told : BOOLEAN]
Mishap(o) == /\ o # [done |-> TRUE, told |-> TRUE] => mishaps < MaxMishaps
             /\ mishaps' = IF o = [done |-> TRUE, told |-> TRUE] THEN mishaps ELSE mishaps + 1

(* .rpc() and sendAndConfirmTransaction tell of success only if there was one.    *)
Outcome == Answer \ {[done |-> FALSE, told |-> TRUE]}

(* The server sends its collection and its transfer with sendTransaction and      *)
(* waits with confirmTransaction, whose value.err it does not look at: one that   *)
(* failed on chain after its simulation passed is taken for done.                 *)
SentBy(c) == IF c \in Claim THEN Answer ELSE Outcome

(* startAutoClaim's timer: performClaim. *)
Tick ==
  /\ claim[Timer].at = "idle"
  /\ Goto(Timer, "check")
  /\ UNCHANGED <<vault, wallet, receiver, agreed, mishaps, runs>>

(* POST /claim, and a tick while the walk before it still waits for confirmations. *)
ManualClaim(c) ==
  /\ c \in Extra /\ claim[c].at = "idle"
  /\ runs < MaxRuns
  /\ runs' = runs + 1
  /\ Goto(c, "check")
  /\ UNCHANGED <<vault, wallet, receiver, agreed, mishaps>>

(* claim-creator-fees.ts is started by hand or by cron; distribute-accumulated-   *)
(* fees.ts starts at the last leg.                                                *)
RunScript(c, first) ==
  /\ c \in Script /\ claim[c].at = "idle"
  /\ runs < MaxRuns
  /\ runs' = runs + 1
  /\ Goto(c, first)
  /\ UNCHANGED <<vault, wallet, receiver, agreed, mishaps>>

(* getCreatorFeeBalance, 0 when the call fails: below the threshold the walk ends  *)
(* and counts as a success.  The script also notes the wallet's balance.           *)
CheckVault(c) ==
  /\ claim[c].at = "check"
  /\ \E o \in Outcome :
       /\ Mishap(o)
       /\ IF o.told /\ vault >= Threshold
            THEN claim' = [claim EXCEPT ![c].at = "collect", ![c].amount = wallet]
            ELSE End(c)
  /\ UNCHANGED <<vault, wallet, receiver, agreed, runs>>

(* collectCoinCreatorFeeInstructions: the whole vault. *)
Collect(c) ==
  /\ claim[c].at = "collect"
  /\ \E o \in SentBy(c) :
       /\ Mishap(o)
       /\ IF o.done THEN vault' = 0 /\ wallet' = Least(wallet + vault, MaxFees)
                    ELSE UNCHANGED <<vault, wallet>>
       /\ IF o.told THEN Goto(c, "weigh") ELSE Fails(c)
  /\ UNCHANGED <<receiver, agreed, runs>>

(* Fault: the server passes on what this walk added, as the script does. *)
TransferableOfThisWalk(c) == wallet - claim[c].amount

(* How much to pass on: the server takes whatever the wallet holds, fees of an     *)
(* earlier walk included; the script what this walk added.                         *)
Transferable(c) == IF c \in Claim THEN wallet ELSE wallet - claim[c].amount

(* getBalance after the collection.  With nothing to pass on the server goes on    *)
(* to distribute, the script stops.                                                *)
Weigh(c) ==
  /\ claim[c].at = "weigh"
  /\ IF Transferable(c) > 0
       THEN claim' = [claim EXCEPT ![c].at = "transfer", ![c].amount = Transferable(c)]
       ELSE IF c \in Claim THEN Goto(c, "distribute") ELSE End(c)
  /\ UNCHANGED <<vault, wallet, receiver, agreed, mishaps, runs>>

(* The transfer of the amount weighed, refused when another walk was faster. *)
Transfer(c) ==
  /\ claim[c].at = "transfer"
  /\ \/ /\ claim[c].amount > wallet
        /\ Fails(c)
        /\ UNCHANGED <<wallet, receiver, mishaps>>
     \/ /\ claim[c].amount <= wallet
        /\ \E o \in SentBy(c) :
             /\ Mishap(o)
             /\ IF o.done THEN /\ wallet' = wallet - claim[c].amount
                               /\ receiver' = Least(receiver + claim[c].amount, MaxFees)
                          ELSE UNCHANGED <<wallet, receiver>>
             /\ IF o.told THEN Goto(c, "distribute") ELSE Fails(c)
  /\ UNCHANGED <<vault, agreed, runs>>

(* distribute_creator_fees pays out all the receiver holds above its rent and      *)
(* insists on the operations wallet the receiver was made with; the caller passes  *)
(* the one protocol state names.                                                   *)
Distribute(c) ==
  /\ claim[c].at = "distribute"
  /\ \/ /\ receiver = 0 \/ ~agreed
        /\ Fails(c)
        /\ UNCHANGED <<receiver, mishaps>>
     \/ /\ receiver > 0 /\ agreed
        /\ \E o \in Outcome :
             /\ Mishap(o)
             /\ receiver' = IF o.done THEN 0 ELSE receiver
             /\ IF o.told THEN End(c) ELSE Fails(c)
  /\ UNCHANGED <<vault, wallet, agreed, runs>>

-------------------------------------------------------------------------------
(* The environment. *)

(* Trading of the token earns its creator fees; the vault need not hold more than *)
(* what earns a claim.                                                           *)
Trade ==
  /\ vault < Threshold
  /\ vault' = vault + 1
  /\ UNCHANGED <<wallet, receiver, agreed, claim, mishaps, runs>>

(* update_wallets gives the protocol another operations wallet, or the old one     *)
(* back; the fee receiver keeps the one it has.                                    *)
UpdateWallets ==
  /\ agreed => mishaps < MaxMishaps
  /\ agreed' = ~agreed
  /\ mishaps' = IF agreed THEN mishaps + 1 ELSE mishaps
  /\ UNCHANGED <<vault, wallet, receiver, claim, runs>>

(* The server restarts; its claims are forgotten wherever they were. *)
Restart ==
  /\ mishaps < MaxMishaps
  /\ mishaps' = mishaps + 1
  /\ claim' = [c \in Walker |-> IF c \in Claim THEN NoClaim ELSE claim[c]]
  /\ UNCHANGED <<vault, wallet, receiver, agreed, runs>>

Step(c) == CheckVault(c) \/ Collect(c) \/ Weigh(c) \/ Transfer(c) \/ Distribute(c)

Next ==
  \/ Tick
  \/ \E c \in Walker : \/ ManualClaim(c) \/ RunScript(c, "check") \/ RunScript(c, "distribute")
                       \/ Step(c)
  \/ Trade
  \/ UpdateWallets
  \/ Restart

Spec == Init /\ [][Next]_vars

(* Calls end in success or error, the timer fires again and again. *)
Fairness == WF_vars(Tick) /\ \A c \in Walker : WF_vars(Step(c))

LiveSpec == Spec /\ Fairness

-------------------------------------------------------------------------------

(* No fee is stuck on its way: as long as new fees keep earning a claim and the    *)
(* two operations wallets agree for good, whatever sits in the admin's wallet or   *)
(* in the fee receiver is paid out in the end, though any walk may break off       *)
(* between two transactions and report success the next time it looks (about       *)
(* claimAndDistributeWithResult, whose retry starts from the top and finds the     *)
(* vault empty), or go on after a transaction that failed.  Without new fees it    *)
(* can stay there.                                                                 *)
FeesArrive ==
  ([]<>(vault >= Threshold) /\ <>[]agreed) => ([]<>(wallet = 0) /\ []<>(receiver = 0))

===============================================================================
