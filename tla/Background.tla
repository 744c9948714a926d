------------------------------ MODULE Background -----------------------------
(***************************************************************************)
(* What the server does by itself: the way of the creator fees             *)
(* (FeeClaimer), the queues behind its jobs (JobQueues) and the polls of    *)
(* the price monitor (PriceFeed).  They share no state.  A behaviour is one *)
(* of them, which says which, and the others stand still; checking them     *)
(* together is checking each alone.                                         *)
(***************************************************************************)
EXTENDS Integers, FiniteSets

CONSTANTS
  Timer, Extra, Script, Threshold, MaxRetries, MaxFees, MaxMishaps, MaxRuns,
  Server, Queue, MaxFaults,
  Poll, Keys, MaxKeyFailures, MaxSourceFailures, MaxErrors

VARIABLES
  which,
  vault, wallet, receiver, agreed, claim, mishaps, runs,
  registered, server, waiting, running, stalled, dropped, faults,
  dexUp, client, poll, monitor, sol, price, state

Fees == INSTANCE FeeClaimer
Queues == INSTANCE JobQueues
Feed == INSTANCE PriceFeed

fees == <<vault, wallet, receiver, agreed, claim, mishaps, runs>>
queues == <<registered, server, waiting, running, stalled, dropped, faults>>
feed == <<dexUp, client, poll, monitor, sol, price, state>>
vars == <<which, fees, queues, feed>>

Init ==
  /\ which \in {"fees", "queues", "feed"}
  /\ Fees!Init /\ Queues!Init /\ Feed!Init
  /\ which # "queues" => registered = {}

Next ==
  \/ which = "fees" /\ Fees!Next /\ UNCHANGED <<which, queues, feed>>
  \/ which = "queues" /\ Queues!Next /\ UNCHANGED <<which, fees, feed>>
  \/ which = "feed" /\ Feed!Next /\ UNCHANGED <<which, fees, queues>>

Spec == Init /\ [][Next]_vars

\* The fairness of each for the behaviours that are its own.
LiveSpec ==
  /\ Spec
  /\ WF_fees(which = "fees" /\ Fees!Tick)
  /\ \A c \in {Timer} \cup Extra \cup Script : WF_fees(which = "fees" /\ Fees!Step(c))
  /\ \A j \in Server :
       /\ WF_queues(which = "queues" /\ Queues!Run(j))
       /\ \A q \in Queue : WF_queues(which = "queues" /\ Queues!Work(j, q))
  /\ \A job \in Queues!Job : WF_queues(which = "queues" /\ Queues!Return(job))
  /\ \A p \in Poll : WF_feed(which = "feed" /\ Feed!PollStep(p))
  /\ WF_feed(which = "feed" /\ Feed!Restart)
-----------------------------------------------------------------------------
(* Properties, each about the behaviours that are its own.  which never       *)
(* changes, so that <>[](which = ...) names them, in the form that the model  *)
(* checker handles without a tableau.                                         *)

\* FeeClaimer!FeesArrive: no fee is stuck on its way.
FeesArrive == <>[](which = "fees") => Fees!FeesArrive

\* JobQueues!JobsKeepRunning: every job of the schedule runs again and again.
JobsKeepRunning == <>[](which = "queues") => Queues!JobsKeepRunning

\* PriceFeed!PricesKeepComing: while DexScreener has the token and Jupiter does
\* not answer without it, prices keep coming.
PricesKeepComing == <>[](which = "feed") => Feed!PricesKeepComing
=============================================================================
