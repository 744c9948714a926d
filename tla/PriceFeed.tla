------------------------------- MODULE PriceFeed -------------------------------
(* The price monitor's polling loop (services/fast-price-monitor.ts) on top of  *)
(* the rotation of API keys (services/jupiter-client.ts): two sources, Jupiter  *)
(* through several keys and DexScreener, and a SOL price that only Jupiter      *)
(* gives.  The loop runs on an interval and does not wait for the poll before,  *)
(* so polls overlap and share the rotation, the source in use and the counters. *)
(*                                                                              *)
(* A price is abstracted to whether it is fresh; a token's price in SOL is taken *)
(* with whatever SOL price is known (with none it is zero).  One batch of one    *)
(* token stands for all.  Jupiter may answer without the token (or without SOL): *)
(* that is no failure to the client or to the monitor, the price just stays.     *)
EXTENDS Integers, FiniteSets

CONSTANTS Poll,        \* polls that can overlap
          Keys,        \* the number of Jupiter keys
          MaxKeyFailures,  \* MAX_CONSECUTIVE_FAILURES of a key
          MaxSourceFailures,  \* PRICE_SOURCE_SWITCH_THRESHOLD
          MaxErrors    \* maxConsecutiveErrors

Key == 0 .. Keys - 1
NoKey == -1
Jupiter == "jupiter"
DexScreener == "dexscreener"
Source == {Jupiter, DexScreener}
Other(source) == IF source = Jupiter THEN DexScreener ELSE Jupiter

VARIABLES dexUp,     \* whether DexScreener answers
          client,    \* the rotation: next key, failures in a row, resting keys
          poll,      \* poll[p]: what each poll is doing
          monitor,   \* the source in use, failures of the sources, polls failed in a row
          sol,       \* the SOL price
          price,     \* the price of the token: fresh, old, or old since an answer lacked it
          state      \* "starting", "running", "dead"

vars == <<dexUp, client, poll, monitor, sol, price, state>>

NoPoll == [phase |-> "idle", source |-> Jupiter, tried |-> {}, key |-> NoKey, switch |-> FALSE]

FreshMonitor == [source |-> Jupiter, failures |-> [s \in Source |-> 0], errors |-> 0]

FreshClient == [next |-> 0, failures |-> [k \in Key |-> 0], resting |-> {}]

Init ==
  /\ dexUp = TRUE
  /\ client = FreshClient
  /\ poll = [p \in Poll |-> NoPoll]
  /\ monitor = FreshMonitor
  /\ sol = "old" /\ price = "old"
  /\ state = "starting"

-------------------------------------------------------------------------------
(* The rotation of keys. *)

(* The keys from k on, once around. *)
From(k, i) == (k + i) % Keys

(* getNextEndpoint: the first key from the next one on that is not resting, and *)
(* where the rotation stands then; when all rest, the one whose rest ends first *)
(* (any, here) after a whole round.                                             *)
Choices ==
  IF client.resting = Key
    THEN {[key |-> k, next |-> client.next] : k \in Key}
    ELSE {[key |-> From(client.next, i), next |-> From(client.next, i + 1)] :
            i \in {j \in Key : /\ From(client.next, j) \notin client.resting
                               /\ \A h \in Key : h < j => From(client.next, h) \in client.resting}}

(* markSuccess: the key is healthy again, whatever befell it meanwhile. *)
KeySucceeds(k) ==
  client' = [client EXCEPT !.failures[k] = 0, !.resting = @ \ {k}]

(* markFailure: a refusal (429, 401, 403) rests the key at once, other errors at *)
(* the third in a row.                                                          *)
KeyFails(k) ==
  \E refused \in BOOLEAN :
    LET failures == client.failures[k] + 1
    IN client' = [client EXCEPT
         !.failures[k] = IF failures > MaxKeyFailures THEN MaxKeyFailures ELSE failures,
         !.resting = IF refused \/ failures >= MaxKeyFailures THEN @ \cup {k} ELSE @]

(* A cooldown of 30 s to 5 min ends; polls come every five seconds, so one ends *)
(* only after the polls under way.                                              *)
RestEnds(k) ==
  /\ k \in client.resting
  /\ \A p \in Poll : poll[p].phase = "idle"
  /\ client' = [client EXCEPT !.resting = @ \ {k}, !.failures[k] = 0]
  /\ UNCHANGED <<dexUp, poll, monitor, sol, price, state>>

(* resetAllEndpoints, by an operator. *)
ResetKeys ==
  /\ client' = [client EXCEPT !.resting = {}, !.failures = [k \in Key |-> 0]]
  /\ UNCHANGED <<dexUp, poll, monitor, sol, price, state>>

(* Poll p is inside fetchPrices of the Jupiter client, without a request under  *)
(* way.                                                                         *)
Asking(p) == poll[p].phase = "sol" \/ (poll[p].phase \in {"primary", "fallback"} /\ poll[p].source = Jupiter)

(* The loop of fetchPrices sends its request with the next key, until every key *)
(* was tried or the rotation comes back to one that was.                        *)
SendWith(p) ==
  /\ Asking(p) /\ poll[p].key = NoKey
  /\ Cardinality(poll[p].tried) < Keys
  /\ \E c \in Choices :
       /\ c.key \notin poll[p].tried
       /\ client' = [client EXCEPT !.next = c.next]
       /\ poll' = [poll EXCEPT ![p].key = c.key, ![p].tried = @ \cup {c.key}]
  /\ UNCHANGED <<dexUp, monitor, sol, price, state>>

KeyRefuses(p) ==
  /\ poll[p].key # NoKey
  /\ KeyFails(poll[p].key)
  /\ poll' = [poll EXCEPT ![p].key = NoKey]
  /\ UNCHANGED <<dexUp, monitor, sol, price, state>>

(* What a request of poll p ends in: fetchPrices returns, or it gives up. *)
Answered(p) ==
  /\ poll[p].key # NoKey
  /\ KeySucceeds(poll[p].key)

GivesUp(p) ==
  /\ Asking(p) /\ poll[p].key = NoKey
  /\ \/ Cardinality(poll[p].tried) = Keys /\ client' = client
     \/ \E c \in Choices :
          /\ Cardinality(poll[p].tried) < Keys
          /\ c.key \in poll[p].tried
          /\ client' = [client EXCEPT !.next = c.next]

DexAnswers(p) ==
  /\ poll[p].phase \in {"primary", "fallback"} /\ poll[p].source = DexScreener
  /\ dexUp /\ client' = client

DexFails(p) ==
  /\ poll[p].phase \in {"primary", "fallback"} /\ poll[p].source = DexScreener
  /\ ~dexUp /\ client' = client

-------------------------------------------------------------------------------
(* The monitor. *)

Become(p, phase, source) == poll' = [poll EXCEPT ![p] = [NoPoll EXCEPT !.phase = phase, !.source = source]]

(* start: the SOL price is asked for before anything else. *)
Start(p) ==
  /\ state = "starting" /\ \A q \in Poll : poll[q].phase = "idle"
  /\ Become(p, "sol", Jupiter)
  /\ UNCHANGED <<dexUp, client, monitor, sol, price, state>>

(* A poll begins, with the SOL price if that is more than 30 s old. *)
Begin(p) ==
  /\ state = "running" /\ poll[p].phase = "idle"
  /\ IF sol = "fresh" THEN Become(p, "primary", monitor.source) ELSE Become(p, "sol", Jupiter)
  /\ UNCHANGED <<dexUp, client, monitor, sol, price, state>>

(* updateSolPrice ends; a failure is logged and the poll goes on, as it does    *)
(* after an answer without SOL.  At the start the first poll follows.           *)
SolEnds(p) ==
  /\ poll[p].phase = "sol"
  /\ \/ Answered(p) /\ sol' \in {sol, "fresh"}
     \/ GivesUp(p) /\ sol' = sol
  /\ Become(p, "primary", monitor.source)
  /\ state' = "running"
  /\ UNCHANGED <<dexUp, monitor, price>>

(* fetchPriceBatch goes through the tokens of an answer and leaves the others.  *)
(* DexScreener without the token counts as a failure (of a batch of one); from   *)
(* Jupiter such an answer is as good as any other.                              *)
TakePrice(p) ==
  \/ price' = "fresh"
  \/ poll[p].source = Jupiter /\ price' = IF price = "fresh" THEN "fresh" ELSE "missing"

(* The source in use answers: its failures and the errors are forgotten. *)
PrimaryAnswers(p) ==
  /\ poll[p].phase = "primary"
  /\ Answered(p) \/ DexAnswers(p)
  /\ monitor' = [monitor EXCEPT !.failures[poll[p].source] = 0, !.errors = 0]
  /\ TakePrice(p)
  /\ poll' = [poll EXCEPT ![p] = NoPoll]
  /\ UNCHANGED <<dexUp, sol, state>>

(* Fault: the poll counts as failed without asking the other source. *)
PrimaryFailsOut(p) ==
  /\ poll[p].phase = "primary"
  /\ GivesUp(p) \/ DexFails(p)
  /\ monitor' = [monitor EXCEPT !.errors = @ + 1]
  /\ IF monitor.errors + 1 >= MaxErrors
       THEN state' = "dead" /\ poll' = [q \in Poll |-> NoPoll]
       ELSE state' = state /\ poll' = [poll EXCEPT ![p] = NoPoll]
  /\ UNCHANGED <<dexUp, sol, price>>

(* The source in use fails: the poll counts it and turns to the other one. *)
PrimaryFails(p) ==
  /\ poll[p].phase = "primary"
  /\ GivesUp(p) \/ DexFails(p)
  /\ LET source == poll[p].source
         failures == monitor.failures[source] + 1
     IN /\ monitor' = [monitor EXCEPT !.failures[source] = IF failures > MaxSourceFailures THEN MaxSourceFailures ELSE failures]
        /\ poll' = [poll EXCEPT ![p] = [NoPoll EXCEPT !.phase = "fallback", !.source = Other(source), !.switch = failures >= MaxSourceFailures]]
  /\ UNCHANGED <<dexUp, sol, price, state>>

(* The other source answers: after enough failures it becomes the one in use.  *)
(* Its own count starts again, the count of the source given up stays.          *)
FallbackAnswers(p) ==
  /\ poll[p].phase = "fallback"
  /\ Answered(p) \/ DexAnswers(p)
  /\ monitor' = IF poll[p].switch
                  THEN [source |-> poll[p].source, failures |-> [monitor.failures EXCEPT ![poll[p].source] = 0], errors |-> 0]
                  ELSE [monitor EXCEPT !.errors = 0]
  /\ TakePrice(p)
  /\ poll' = [poll EXCEPT ![p] = NoPoll]
  /\ UNCHANGED <<dexUp, sol, state>>

(* Both failed: the poll counts as an error, and the last error stops the       *)
(* monitor, whose 'error' event nobody listens to: the process ends.            *)
FallbackFails(p) ==
  /\ poll[p].phase = "fallback"
  /\ GivesUp(p) \/ DexFails(p)
  /\ monitor' = [monitor EXCEPT !.errors = @ + 1]
  /\ IF monitor.errors + 1 >= MaxErrors
       THEN state' = "dead" /\ poll' = [q \in Poll |-> NoPoll]
       ELSE state' = state /\ poll' = [poll EXCEPT ![p] = NoPoll]
  /\ UNCHANGED <<dexUp, sol, price>>

(* PM2 starts the process again, with everything it kept in memory gone.        *)
Restart ==
  /\ state = "dead"
  /\ state' = "starting" /\ client' = FreshClient /\ monitor' = FreshMonitor
  /\ sol' = "old" /\ price' = "old"
  /\ UNCHANGED <<dexUp, poll>>

-------------------------------------------------------------------------------
(* The world.  Whether a key answers is open at every request. *)

DexChanges ==
  /\ dexUp' = ~dexUp
  /\ UNCHANGED <<client, poll, monitor, sol, price, state>>

TimePasses ==
  /\ price' = "old"
  /\ sol' \in {sol, "old"}
  /\ UNCHANGED <<dexUp, client, poll, monitor, state>>

PollStep(p) ==
  \/ Start(p) \/ Begin(p) \/ SolEnds(p) \/ SendWith(p) \/ KeyRefuses(p)
  \/ PrimaryAnswers(p) \/ PrimaryFails(p) \/ FallbackAnswers(p) \/ FallbackFails(p)

Next ==
  \/ \E p \in Poll : PollStep(p)
  \/ \E k \in Key : RestEnds(k)
  \/ ResetKeys \/ Restart \/ DexChanges \/ TimePasses

Spec == Init /\ [][Next]_vars

Fairness ==
  /\ \A p \in Poll : WF_vars(PollStep(p))
  /\ WF_vars(Restart)

LiveSpec == Spec /\ Fairness

-------------------------------------------------------------------------------

(* While DexScreener has the token, prices keep coming: whichever source is in  *)
(* use, whatever keys rest or refuse, and though polls overlap, switch sources   *)
(* and count each other's errors.  The one thing that stops them is a Jupiter    *)
(* that answers without the token (about fetchPriceBatch, which asks the other   *)
(* source only after an error).                                                 *)
PricesKeepComing ==
  (<>[]dexUp /\ <>[](price # "missing")) => []<>(price = "fresh")
===============================================================================
