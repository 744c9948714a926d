------------------------------- MODULE TokenForm -------------------------------
(* The borrow page of the web application (apps/web/src/routes/borrow.tsx) and   *)
(* the four lookups a token starts when it is selected: its verification        *)
(* (hooks/useTokenVerificationSolid.ts), whether a loan is allowed              *)
(* (createCanCreateLoan), the balance of the wallet (hooks/useTokenBalance.ts)  *)
(* and, once the verification says valid, the estimate of a loan.  Their        *)
(* answers arrive in any order; only the verification cancels a request it no   *)
(* longer wants, and only the estimate is kept by token.                        *)
(*                                                                              *)
(* An answer is represented by the token it is about: what it says is a         *)
(* function of the token (Valid, Allowed).  Amounts are in order.  The loading  *)
(* and error flags, which no condition reads, are left out, and a text that is  *)
(* no address, which only a link to the page can select.                        *)
EXTENDS FiniteSets

CONSTANTS Mint,       \* token addresses
          Valid,      \* the tokens the server verifies
          Allowed,    \* the tokens the server allows loans on
          None        \* no token, no answer, no request

VARIABLES selected,   \* selectedToken()
          shown,      \* the token the verification's data() is about
          typed,      \* the token debouncedVerify waits to verify
          request,    \* the token of the verification request not aborted
          cache,      \* cache[m]: the entry of verificationCache, "absent", "fresh" or "old"
          canCreate,  \* the token the eligibility is about
          checks,     \* tokens of eligibility requests without an answer
          balance,    \* the token the balance is about
          reads,      \* tokens of balance requests without an answer
          estimates,  \* the tokens there is an estimate of
          mutation,   \* of createLoanMutation: "idle", "pending", or "failed" while
                      \*   the error and its Retry are shown
          borrowed    \* the token of the last loan asked for

form == <<selected, shown, typed, request, cache, estimates>>
lookups == <<canCreate, checks, balance, reads>>
loan == <<mutation, borrowed>>
vars == <<form, lookups, loan>>

Init ==
  /\ selected = None /\ shown = None /\ typed = None
  /\ request = None /\ cache = [m \in Mint |-> "absent"]
  /\ canCreate = None /\ checks = {} /\ balance = None /\ reads = {}
  /\ estimates = {} /\ mutation = "idle" /\ borrowed = None

-------------------------------------------------------------------------------

(* Another token is selected: the effects of the lookups run.  The old data     *)
(* goes at once, a cached answer is shown at once, and the verification itself  *)
(* waits for the debounce.  The message of a failed loan covers the page.       *)
Select(m) ==
  /\ mutation # "failed" /\ m # selected
  /\ selected' = m
  /\ shown' = IF cache[m] = "fresh" THEN m ELSE None
  /\ typed' = m
  /\ checks' = checks \cup {m} /\ reads' = reads \cup {m}
  /\ UNCHANGED <<request, cache, estimates, canCreate, balance, loan>>

(* The debounce of 300 ms ends: a fresh cached answer is shown, anything else   *)
(* is asked of the server, which aborts the request before it.                  *)
DebounceEnds ==
  /\ typed # None
  /\ IF cache[typed] = "fresh" THEN shown' = typed /\ UNCHANGED request
                               ELSE request' = typed /\ UNCHANGED shown
  /\ typed' = None
  /\ UNCHANGED <<selected, cache, estimates, lookups, loan>>

(* The server answers the verification request: the answer is cached and shown, *)
(* whatever is selected by now.                                                 *)
Verified ==
  /\ request # None
  /\ cache' = [cache EXCEPT ![request] = "fresh"]
  /\ shown' = request
  /\ request' = None
  /\ UNCHANGED <<selected, typed, estimates, lookups, loan>>

(* The verification request fails: a cached answer of any age is shown, or none. *)
VerificationFails ==
  /\ request # None
  /\ shown' = IF cache[request] # "absent" THEN request ELSE None
  /\ request' = None
  /\ UNCHANGED <<selected, typed, cache, estimates, lookups, loan>>

(* A cached answer turns five minutes old. *)
CacheAges(m) ==
  /\ cache[m] = "fresh"
  /\ cache' = [cache EXCEPT ![m] = "old"]
  /\ UNCHANGED <<selected, shown, typed, request, estimates, lookups, loan>>

(* An eligibility request is answered or fails; requests are not cancelled, so *)
(* the answer may be about a token selected before.                             *)
Checked(m) ==
  /\ m \in checks
  /\ checks' = checks \ {m}
  /\ canCreate' \in {m, None}
  /\ UNCHANGED <<form, balance, reads, loan>>

(* The same for the balance of the wallet. *)
BalanceRead(m) ==
  /\ m \in reads
  /\ reads' = reads \ {m}
  /\ balance' \in {m, None}
  /\ UNCHANGED <<form, canCreate, checks, loan>>

(* The estimate is asked for while a valid verification is shown.  The server   *)
(* verifies the token itself, and the answer is kept under the token's key.     *)
Estimate ==
  /\ selected # None /\ shown \in Valid
  /\ selected \in Valid
  /\ estimates' = estimates \cup {selected}
  /\ UNCHANGED <<selected, shown, typed, request, cache, lookups, loan>>

-------------------------------------------------------------------------------

(* A verified token, and an eligibility that is not a refusal (none passes),    *)
(* each of whatever token it is about by now.                                   *)
Passes == shown \in Valid /\ (canCreate = None \/ canCreate \in Allowed)

(* The loan is asked for, or the mutation fails at once. *)
CreateLoan(failed) ==
  /\ IF selected # None /\ Passes /\ balance # None
     THEN borrowed' = selected /\ mutation' = "pending"
     ELSE mutation' = failed /\ UNCHANGED borrowed
  /\ UNCHANGED <<form, lookups>>

(* The button is enabled with an estimate of the token; the Retry of an error   *)
(* asks for none.  What fails within the 200 ms after which Retry clears the     *)
(* error before is not shown.                                                   *)
PressButton == mutation = "idle" /\ selected \in estimates /\ Passes /\ CreateLoan("failed")
Retry == mutation = "failed" /\ CreateLoan("idle")

(* The server, the wallet or the network refuses, which may take its time. *)
LoanFails ==
  /\ mutation = "pending" /\ mutation' = "failed"
  /\ UNCHANGED <<form, lookups, borrowed>>

CloseError ==
  /\ mutation = "failed" /\ mutation' = "idle"
  /\ UNCHANGED <<form, lookups, borrowed>>

(* The loan is made, and the user stays with it or chooses Create Another, which *)
(* empties the field but not the debounce, and leaves the lookups without one.  *)
LoanSucceeds ==
  /\ mutation = "pending" /\ mutation' = "idle"
  /\ \/ UNCHANGED <<form, lookups>>
     \/ /\ selected' = None /\ shown' = None /\ canCreate' = None /\ balance' = None
        /\ UNCHANGED <<typed, request, cache, estimates, checks, reads>>
  /\ UNCHANGED borrowed

Next ==
  \/ \E m \in Mint : Select(m) \/ CacheAges(m) \/ Checked(m) \/ BalanceRead(m)
  \/ DebounceEnds \/ Verified \/ VerificationFails \/ Estimate
  \/ PressButton \/ Retry \/ LoanFails \/ CloseError \/ LoanSucceeds

Spec == Init /\ [][Next]_vars

-------------------------------------------------------------------------------

(* borrow.tsx checks the verification first, under the comment "Check token    *)
(* verification (always required)": a loan is asked for on a verified token     *)
(* only.                                                                        *)
VerifiedBeforeBorrowing == borrowed # None => borrowed \in Valid
===============================================================================
