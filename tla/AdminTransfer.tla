---------------------------- MODULE AdminTransfer ----------------------------
(***************************************************************************)
(* How the admin key of the lending program changes hands (admin.rs): the  *)
(* admin announces a successor, who may accept after ADMIN_TRANSFER_DELAY. *)
(* One announcement replaces another, and the admin may withdraw it.       *)
(***************************************************************************)
EXTENDS Integers

CONSTANTS
  Key,
  NoKey,                        \* Pubkey::default(), which nobody can sign for
  ADMIN_TRANSFER_DELAY,
  MaxTime                       \* bound on the clock

VARIABLES
  admin, pending_admin, admin_transfer_timestamp,
  now,
  standing      \* history: the keys announced by the admin of now, and when,
                \* neither withdrawn nor replaced since

vars == <<admin, pending_admin, admin_transfer_timestamp, now, standing>>

\* The program starts when clocks are long past the delay.
Init ==
  /\ admin \in Key /\ pending_admin = NoKey /\ admin_transfer_timestamp = 0
  /\ now = ADMIN_TRANSFER_DELAY
  /\ standing = {}

Tick ==
  /\ now < MaxTime /\ now' = now + 1
  /\ UNCHANGED <<admin, pending_admin, admin_transfer_timestamp, standing>>

InitiateAdminTransfer(new_admin) ==
  /\ new_admin # NoKey /\ new_admin # admin
  /\ pending_admin' = new_admin
  /\ admin_transfer_timestamp' = now
  /\ standing' = {<<new_admin, now>>}
  /\ UNCHANGED <<admin, now>>

AcceptAdminTransfer(new_admin) ==
  /\ new_admin # NoKey /\ pending_admin = new_admin
  /\ now - admin_transfer_timestamp >= ADMIN_TRANSFER_DELAY
  /\ admin' = pending_admin
  /\ pending_admin' = NoKey /\ admin_transfer_timestamp' = 0
  /\ standing' = {}
  /\ UNCHANGED now

\* Fault: only the announcement's time is withdrawn.
CancelTimeOnly ==
  /\ pending_admin # NoKey
  /\ admin_transfer_timestamp' = 0
  /\ standing' = {}
  /\ UNCHANGED <<admin, pending_admin, now>>

CancelAdminTransfer ==
  /\ pending_admin # NoKey
  /\ pending_admin' = NoKey /\ admin_transfer_timestamp' = 0
  /\ standing' = {}
  /\ UNCHANGED <<admin, now>>

Next ==
  \/ Tick
  \/ \E k \in Key : InitiateAdminTransfer(k) \/ AcceptAdminTransfer(k)
  \/ CancelAdminTransfer

Spec == Init /\ [][Next]_vars
-----------------------------------------------------------------------------
(* Properties.                                                              *)

\* Whoever becomes the admin was announced by the admin before them for the
\* whole delay (state.rs ADMIN_TRANSFER_DELAY, 48 hours): an announcement that
\* was replaced, withdrawn or used lends its time to no other.
TakeoverWasAnnounced ==
  [][admin' # admin =>
       \E notice \in standing :
         notice[1] = admin' /\ now - notice[2] >= ADMIN_TRANSFER_DELAY]_vars
=============================================================================
