------------------------------- MODULE LoanPages -------------------------------
(* The pages of the web app on which a borrower makes, sees and repays loans        *)
(* (routes/borrow.tsx, loans.tsx, repay/[id].tsx), with the hook that brings loans  *)
(* the server has missed into its database (hooks/useOnChainLoansSolid.ts).         *)
(*                                                                                  *)
(* Every page awaits the wallet, the chain and the server, and the wallet may be    *)
(* switched meanwhile.  How a loan is prepared is in LoanDesk, what the server does *)
(* with its rows in LoanKeeper; a call of the server is one step here.              *)
EXTENDS Integers, FiniteSets

CONSTANTS Wallet, Nobody, Loan,
          Owner,         \* the wallet each loan is made by
          MaxSwitches,   \* bound on switches of the wallet
          MaxReads,      \* bound on answers of the list
          MaxFaults      \* bound on calls that fail

VARIABLES
  chain,       \* status of each loan
  db,          \* status of its row
  borrower,    \* of its row
  wallet,      \* connected
  list,        \* query per wallet: rows shown, with their status; its request
  cache,       \* per wallet: active loans read from chain, and for how long
  hook,        \* useOnChainLoans: the fetch under way, and the wallet fetched last
  hasSynced,
  borrow,      \* createLoanMutation from its signature on
  repay,       \* repayMutation
  excused,     \* history: rows that may name another
  switches, reads, faults

rows == <<db, borrower>>
bounds == <<switches, reads, faults>>
vars == <<chain, rows, wallet, list, cache, hook, hasSynced, borrow, repay, excused, bounds>>

NoFetch == [at |-> "none", user |-> Nobody, sync |-> FALSE, known |-> {}, todo |-> {}]
NoBorrow == [at |-> "idle", loan |-> Nobody, user |-> Nobody, missed |-> FALSE]
NoRepay == [at |-> "idle", loan |-> Nobody, user |-> Nobody, tx |-> "none", told |-> "none"]
Unknown == [known |-> FALSE, at |-> "none", rows |-> {}, answer |-> {}]
Uncached == [age |-> "none", loans |-> {}]

Init ==
  /\ chain = [l \in Loan |-> "none"] /\ db = [l \in Loan |-> "none"]
  /\ borrower = [l \in Loan |-> Nobody]
  /\ wallet = Nobody
  /\ list = [w \in Wallet |-> Unknown] /\ cache = [w \in Wallet |-> Uncached]
  /\ hook = [fetch |-> NoFetch, last |-> Nobody, timer |-> FALSE]
  /\ hasSynced = FALSE
  /\ borrow = NoBorrow /\ repay = NoRepay
  /\ excused = {} /\ switches = 0 /\ reads = 0 /\ faults = 0

Mishap == faults < MaxFaults /\ faults' = faults + 1
Closed == {"repaid", "liquidated"}
--------------------------------------------------------------------------------
(* The server, one call in a step.  trackCreatedLoan takes the borrower it is told, *)
(* and any loan that is on chain for an active one.                                 *)
Track(l, w) ==
  IF db[l] # "none" \/ chain[l] = "none" THEN UNCHANGED rows
  ELSE db' = [db EXCEPT ![l] = "active"] /\ borrower' = [borrower EXCEPT ![l] = w]

(* The liquidation job: on chain, and then in its row. *)
Liquidate(l) ==
  /\ chain[l] = "active"
  /\ chain' = [chain EXCEPT ![l] = "liquidated"]
  /\ UNCHANGED <<rows, wallet, list, cache, hook, hasSynced, borrow, repay, excused, bounds>>

RecordLiquidation(l) ==
  /\ chain[l] = "liquidated" /\ db[l] = "active"
  /\ db' = [db EXCEPT ![l] = "liquidated"]
  /\ UNCHANGED <<chain, borrower, wallet, list, cache, hook, hasSynced, borrow, repay, excused, bounds>>

(* accountChanged, disconnect and connect.  A disconnect forgets what was synced;   *)
(* a wallet that was not the last fetched is fetched after 100 ms.                  *)
Due(w, last) == w # Nobody /\ w # last

SwitchWallet(w) ==
  /\ w # wallet /\ switches < MaxSwitches /\ switches' = switches + 1
  /\ wallet' = w
  /\ hasSynced' = IF w = Nobody THEN FALSE ELSE hasSynced
  /\ hook' = IF w = Nobody THEN [hook EXCEPT !.last = Nobody]
             ELSE [hook EXCEPT !.timer = @ \/ Due(w, hook.last)]
  /\ UNCHANGED <<chain, rows, list, cache, borrow, repay, excused, reads, faults>>
--------------------------------------------------------------------------------
(* [MY_LOANS]: rows of the connected wallet, asked for when it connects, every 30 s *)
(* and after a sync.                                                                *)
AskList ==
  /\ wallet # Nobody /\ list[wallet].at = "none" /\ reads < MaxReads /\ reads' = reads + 1
  /\ list' = [list EXCEPT ![wallet].at = "asked",
                          ![wallet].answer = {l \in Loan : db[l] # "none" /\ borrower[l] = wallet}]
  /\ UNCHANGED <<chain, rows, wallet, cache, hook, hasSynced, borrow, repay, excused, switches, faults>>

ListArrives(w) ==
  /\ list[w].at = "asked"
  /\ list' = [list EXCEPT ![w] = [Unknown EXCEPT !.known = TRUE, !.rows = list[w].answer]]
  /\ UNCHANGED <<chain, rows, wallet, cache, hook, hasSynced, borrow, repay, excused, bounds>>

(* fetchLoans, when the timer fires *)
FetchLoans ==
  /\ hook.timer
  /\ hook' = IF wallet = Nobody \/ hook.fetch.at # "none" THEN [hook EXCEPT !.timer = FALSE]
             ELSE [hook EXCEPT !.timer = FALSE,
                               !.fetch = [NoFetch EXCEPT !.at = "chain", !.user = wallet]]
  /\ UNCHANGED <<chain, rows, wallet, list, cache, hasSynced, borrow, repay, excused, bounds>>

(* The effect that syncs once, then fetchAndSync *)
StartSync ==
  /\ wallet # Nobody /\ list[wallet].known /\ ~hasSynced /\ hook.fetch.at = "none"
  /\ hasSynced' = TRUE
  /\ hook' = [hook EXCEPT !.fetch = [NoFetch EXCEPT
       !.at = "chain", !.user = wallet, !.sync = TRUE, !.known = list[wallet].rows]]
  /\ UNCHANGED <<chain, rows, wallet, list, cache, borrow, repay, excused, bounds>>

(* fetchLoansFromChain: its answer ends a fetch, and gives a sync its work. *)
Fetched(loans) ==
  LET f == hook.fetch IN
  IF f.sync /\ loans \ f.known # {}
  THEN [hook EXCEPT !.last = f.user, !.timer = @ \/ Due(wallet, f.user),
                    !.fetch = [f EXCEPT !.at = "tracking", !.todo = loans \ f.known]]
  ELSE [hook EXCEPT !.last = f.user, !.timer = @ \/ Due(wallet, f.user), !.fetch = NoFetch]

ReadChain ==
  LET w == hook.fetch.user
      found == {l \in Loan : Owner[l] = w /\ chain[l] = "active"}
  IN
  /\ hook.fetch.at = "chain"
  /\ IF cache[w].age = "fresh"
     THEN hook' = Fetched(cache[w].loans) /\ UNCHANGED cache
     ELSE hook' = Fetched(found) /\ cache' = [cache EXCEPT ![w] = [age |-> "fresh", loans |-> found]]
  /\ UNCHANGED <<chain, rows, wallet, list, hasSynced, borrow, repay, excused, bounds>>

(* What was cached before is used, however old. *)
ReadFails ==
  /\ hook.fetch.at = "chain" /\ cache[hook.fetch.user].age # "fresh" /\ Mishap
  /\ hook' = Fetched(cache[hook.fetch.user].loans)
  /\ UNCHANGED <<chain, rows, wallet, list, cache, hasSynced, borrow, repay, excused, switches, reads>>

CacheAges(w) ==
  /\ cache[w].age = "fresh"
  /\ cache' = [cache EXCEPT ![w].age = "old"]
  /\ UNCHANGED <<chain, rows, wallet, list, hook, hasSynced, borrow, repay, excused, bounds>>

SyncedForNow(f) == wallet      \* fault: the wallet connected by then
SyncedFor(f) == f.user

Tracked(l) ==
  LET f == hook.fetch IN
  [hook EXCEPT !.fetch = IF f.todo = {l} THEN NoFetch ELSE [f EXCEPT !.todo = @ \ {l}]]

SyncOne(l) ==
  /\ hook.fetch.at = "tracking" /\ l \in hook.fetch.todo
  /\ Track(l, SyncedFor(hook.fetch))
  /\ hook' = Tracked(l)
  /\ UNCHANGED <<chain, wallet, list, cache, hasSynced, borrow, repay, excused, bounds>>

SyncOneFails(l) ==
  /\ hook.fetch.at = "tracking" /\ l \in hook.fetch.todo /\ Mishap
  /\ hook' = Tracked(l)
  /\ UNCHANGED <<chain, rows, wallet, list, cache, hasSynced, borrow, repay, excused, switches, reads>>
--------------------------------------------------------------------------------
(* createLoanMutation: sent; polled; tracked by createLoan, for the wallet that     *)
(* signed; and tracked again by the page, for the wallet of then.                   *)
Borrow(l) ==
  /\ borrow.at \in {"idle", "done", "failed"} /\ chain[l] = "none" /\ wallet = Owner[l]
  /\ borrow.loan # l
  /\ borrow' = [NoBorrow EXCEPT !.at = "sent", !.loan = l, !.user = wallet]
  /\ UNCHANGED <<chain, rows, wallet, list, cache, hook, hasSynced, repay, excused, bounds>>

Lands ==
  /\ borrow.loan # Nobody /\ chain[borrow.loan] = "none"
  /\ chain' = [chain EXCEPT ![borrow.loan] = "active"]
  /\ UNCHANGED <<rows, wallet, list, cache, hook, hasSynced, borrow, repay, excused, bounds>>

Confirmed ==
  /\ borrow.at = "sent"
  /\ \/ chain[borrow.loan] # "none" /\ borrow' = [borrow EXCEPT !.at = "confirmed"]
     \/ borrow' = [borrow EXCEPT !.at = "failed"]
  /\ UNCHANGED <<chain, rows, wallet, list, cache, hook, hasSynced, repay, excused, bounds>>

TrackSigner ==
  /\ borrow.at = "confirmed"
  /\ Track(borrow.loan, borrow.user)
  /\ borrow' = [borrow EXCEPT !.at = "tracked"]
  /\ UNCHANGED <<chain, wallet, list, cache, hook, hasSynced, repay, excused, bounds>>

TrackSignerFails ==
  /\ borrow.at = "confirmed" /\ Mishap
  /\ borrow' = [borrow EXCEPT !.at = "tracked", !.missed = TRUE]
  /\ UNCHANGED <<chain, rows, wallet, list, cache, hook, hasSynced, repay, excused, switches, reads>>

TrackCurrent ==
  /\ borrow.at = "tracked"
  /\ IF wallet = Nobody
     THEN borrow' = [borrow EXCEPT !.at = "failed"] /\ UNCHANGED <<rows, excused>>
     ELSE /\ Track(borrow.loan, wallet)
          /\ borrow' = [borrow EXCEPT !.at = "done"]
          /\ excused' = IF borrow.missed /\ wallet # borrow.user THEN excused \cup {borrow.loan}
                        ELSE excused
  /\ UNCHANGED <<chain, wallet, list, cache, hook, hasSynced, repay, bounds>>
--------------------------------------------------------------------------------
(* repayMutation: the server builds the transaction from its row; the wallet of     *)
(* then signs.                                                                      *)
Repay(l) ==
  /\ repay.at \in {"idle", "done"} /\ repay.tx # "sent" /\ wallet # Nobody
  /\ db[l] = "active" /\ borrower[l] = wallet
  /\ repay' = [NoRepay EXCEPT !.at = "built", !.loan = l, !.user = wallet]
  /\ UNCHANGED <<chain, rows, wallet, list, cache, hook, hasSynced, borrow, excused, bounds>>

Tell(t) == repay' = [repay EXCEPT !.at = "done", !.told = t]

(* Signed by another, for another borrower or rejected; else sent, which simulates. *)
SendRepay ==
  LET l == repay.loan IN
  /\ repay.at = "built"
  /\ \/ Tell("failed")
     \/ /\ wallet = repay.user /\ repay.user = Owner[l]
        /\ repay' = IF chain[l] = "active"
                    THEN [repay EXCEPT !.at = "polling", !.tx = "sent"]
                    ELSE [repay EXCEPT !.at = "closed"]
  /\ UNCHANGED <<chain, rows, wallet, list, cache, hook, hasSynced, borrow, excused, bounds>>

RepayLands ==
  LET l == repay.loan IN
  /\ repay.tx = "sent"
  /\ IF chain[l] = "active"
     THEN chain' = [chain EXCEPT ![l] = "repaid"] /\ repay' = [repay EXCEPT !.tx = "landed"]
     ELSE UNCHANGED chain /\ repay' = [repay EXCEPT !.tx = "failed"]
  /\ UNCHANGED <<rows, wallet, list, cache, hook, hasSynced, borrow, excused, bounds>>

(* fastConfirmTransaction: a status that says LoanAlreadyRepaid goes to the sync; a *)
(* timeout, whether it lands or not, is a failure.                                  *)
PollOrTimeOut ==      \* fault: a timeout is taken for a confirmation
  /\ repay.at = "polling"
  /\ repay' = [repay EXCEPT !.at = IF repay.tx = "failed" THEN "closed" ELSE "confirming"]
  /\ UNCHANGED <<chain, rows, wallet, list, cache, hook, hasSynced, borrow, excused, bounds>>

Poll ==
  /\ repay.at = "polling"
  /\ \/ repay.tx = "landed" /\ repay' = [repay EXCEPT !.at = "confirming"]
     \/ repay.tx = "failed" /\ repay' = [repay EXCEPT !.at = "closed"]
     \/ Tell("failed")
  /\ UNCHANGED <<chain, rows, wallet, list, cache, hook, hasSynced, borrow, excused, bounds>>

ConfirmRepayment ==
  LET l == repay.loan IN
  /\ repay.at = "confirming"
  /\ IF db[l] = "active" THEN db' = [db EXCEPT ![l] = "repaid"] /\ Tell("repaid")
     ELSE UNCHANGED db /\ Tell("failed")
  /\ UNCHANGED <<chain, borrower, wallet, list, cache, hook, hasSynced, borrow, excused, bounds>>

SyncLoanStatus ==
  LET l == repay.loan IN
  /\ repay.at = "closed"
  /\ db' = IF db[l] = "active" /\ chain[l] \in Closed THEN [db EXCEPT ![l] = chain[l]] ELSE db
  /\ Tell("already")
  /\ UNCHANGED <<chain, borrower, wallet, list, cache, hook, hasSynced, borrow, excused, bounds>>

CallFails ==
  /\ repay.at \in {"confirming", "closed"} /\ Mishap /\ Tell("failed")
  /\ UNCHANGED <<chain, rows, wallet, list, cache, hook, hasSynced, borrow, excused, switches, reads>>

Next ==
  \/ \E l \in Loan : Liquidate(l) \/ RecordLiquidation(l) \/ SyncOne(l) \/ SyncOneFails(l)
                       \/ Borrow(l) \/ Repay(l)
  \/ \E w \in Wallet \cup {Nobody} : SwitchWallet(w)
  \/ \E w \in Wallet : ListArrives(w) \/ CacheAges(w)
  \/ AskList \/ FetchLoans \/ StartSync \/ ReadChain \/ ReadFails
  \/ Lands \/ Confirmed \/ TrackSigner \/ TrackSignerFails \/ TrackCurrent
  \/ SendRepay \/ RepayLands \/ Poll \/ ConfirmRepayment \/ SyncLoanStatus \/ CallFails

Spec == Init /\ [][Next]_vars
--------------------------------------------------------------------------------
(* A row names the borrower of its loan, whichever page or sync made it and however *)
(* the wallet was switched meanwhile, unless the page's first call to track it was  *)
(* lost and its second names the wallet of then (borrow.tsx:142, useOnChainLoans    *)
(* Solid.ts:249).                                                                   *)
RowsNameTheBorrower ==
  \A l \in Loan : db[l] # "none" => borrower[l] = Owner[l] \/ l \in excused

(* A repayment the page reports was made, and the row has it; a loan it takes for   *)
(* already repaid is closed on chain and in the database (repay/[id].tsx:66-107).    *)
RepaidIsClosed ==
  LET l == repay.loan IN
  /\ repay.told = "repaid" => chain[l] = "repaid" /\ db[l] = "repaid"
  /\ repay.told = "already" => chain[l] \in Closed /\ db[l] \in Closed

LoansAreTold == RowsNameTheBorrower /\ RepaidIsClosed
================================================================================
