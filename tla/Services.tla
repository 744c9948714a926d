------------------------------ MODULE Services -------------------------------
(***************************************************************************)
(* The components around the lending program of which only safety is       *)
(* asked: the rate limits of requests (RateLimits), the websocket          *)
(* connections (LiveUpdates), the review of tokens (TokenReview), the      *)
(* deployment scripts (Deployment) and the admin key (AdminTransfer).      *)
(* They share no state.  A behaviour is one of them, which says which, and *)
(* the others stand still; checking them together is checking each alone.  *)
(***************************************************************************)
EXTENDS Integers, Sequences, FiniteSets

CONSTANTS
  Ip, Wallet, Request, Route, ipLimit, walletLimit, globalLimit,
  banThreshold, BAN_LEVELS, MaxPerMinute,
  Socket, User, IP, Topic, Nobody, Absent, MaxPerIP, MaxMessages, MaxWarnings,
  Token, Ticket, Asker, Reviewer, Admin, MaxFaults,
  Options, MaxPrograms, MaxMishaps,
  AdminKey, NoKey, ADMIN_TRANSFER_DELAY, MaxTime

\* The limiters of a route are by IP, but for its last, which may be by wallet
\* (api/loans.ts).
ASSUME LimitsAssumption ==
  /\ ipLimit \in Nat /\ walletLimit \in Nat /\ banThreshold \in Nat
  /\ BAN_LEVELS \in Nat \ {0}
  /\ "anonymous" \notin Ip \cup Wallet
  /\ \A route \in Route :
       /\ route \in Seq({"ip", "wallet"}) /\ route # <<>>
       /\ \A n \in 1 .. Len(route) - 1 : route[n] = "ip"

ASSUME LiveAssumption == MaxPerIP \in Nat /\ Nobody \notin User

\* A handler is of one kind.
ASSUME ReviewAssumption ==
  Asker \cap Reviewer = {} /\ Asker \cap Admin = {} /\ Reviewer \cap Admin = {}

\* The script of the fee receiver is always started.
ASSUME DeployAssumption ==
  /\ MaxPrograms \in Nat
  /\ \A parts \in Options :
       /\ parts \subseteq {"protocol", "staking", "feeReceiver", "treasury"}
       /\ "feeReceiver" \in parts

VARIABLES
  which,
  total, count, violations, ban, req, passed,
  state, userId, ip, subs, byUser, byIP, limiter,
  status, subject, entry, limited, doing, unlisted, withdrawn,
  ids, file, chain, record, run, child,
  admin, pending_admin, admin_transfer_timestamp, now, standing,
  faults                        \* of the component that moves

Limits == INSTANCE RateLimits
Live == INSTANCE LiveUpdates
Review == INSTANCE TokenReview
Deploy == INSTANCE Deployment WITH mishaps <- faults
Transfer == INSTANCE AdminTransfer WITH Key <- AdminKey

limits == <<total, count, violations, ban, req, passed>>
live == <<state, userId, ip, subs, byUser, byIP, limiter>>
review == <<status, subject, entry, limited, doing, unlisted, withdrawn>>
deploy == <<ids, file, chain, record, run, child>>
transfer == <<admin, pending_admin, admin_transfer_timestamp, now, standing>>
vars == <<which, limits, live, review, deploy, transfer, faults>>

Init ==
  /\ which \in {"limits", "live", "review", "deploy", "transfer"}
  /\ Limits!Init /\ Live!Init /\ Review!Init /\ Deploy!Init /\ Transfer!Init
  /\ which # "transfer" => admin = CHOOSE k \in AdminKey : TRUE

Next ==
  \/ /\ which = "limits" /\ Limits!Next
     /\ UNCHANGED <<which, live, review, deploy, transfer>>
  \/ /\ which = "live" /\ Live!Next
     /\ UNCHANGED <<which, limits, review, deploy, transfer, faults>>
  \/ /\ which = "review" /\ Review!Next
     /\ UNCHANGED <<which, limits, live, deploy, transfer>>
  \/ /\ which = "deploy" /\ Deploy!Next
     /\ UNCHANGED <<which, limits, live, review, transfer>>
  \/ /\ which = "transfer" /\ Transfer!Next
     /\ UNCHANGED <<which, limits, live, review, deploy, faults>>

Spec == Init /\ [][Next]_vars
-----------------------------------------------------------------------------
(* Properties.                                                              *)

\* RateLimits!WithinLimit and ServedWereFree: no limiter lets more pass in a
\* minute than its limit, and nobody whom the last limiter of a route answers for
\* reaches its handler when banned all along, unless redis failed.
LimitsHold == which = "limits" => Limits!WithinLimit /\ Limits!ServedWereFree

\* LiveUpdates!RegistriesAgree: the registries hold exactly the live connections.
RegistriesAgree == which = "live" => Live!RegistriesAgree

\* TokenReview!ApprovalsAreListed: the token of an approved request is
\* listed and enabled, unless an admin disabled it or the listing failed.
ApprovalsAreListed == which = "review" => Review!ApprovalsAreListed

\* Deployment!FreshRunIsComplete: a run in which nothing fails does all it was asked
\* for and the program accepts.
FreshRunIsComplete == which = "deploy" => Deploy!FreshRunIsComplete

\* AdminTransfer!TakeoverWasAnnounced: for the whole delay, by the admin before.
TakeoverWasAnnounced == Transfer!TakeoverWasAnnounced
=============================================================================
