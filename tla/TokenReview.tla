----------------------------- MODULE TokenReview -----------------------------
(***************************************************************************)
(* How a token gets on the manual whitelist (apps/server/src/services/     *)
(* verification-request.service.ts, manual-whitelist.service.ts,           *)
(* routes/verification-request.ts, routes/telegram-webhook.ts and          *)
(* routes/admin/whitelist.ts): a wallet asks for a review, an admin or a   *)
(* press of a button in Telegram decides, and an approved token is listed. *)
(*                                                                         *)
(* Each of the two handlers reads the database, awaits, and writes what it *)
(* decided before; the same request can be under several hands at a time.  *)
(***************************************************************************)
EXTENDS Integers, FiniteSets

CONSTANTS
  Token, Wallet,
  Ticket,                       \* the ids of verification requests
  Asker, Reviewer, Admin,       \* handlers: POST /, /review or a button, /admin
  MaxFaults                     \* bound on failures and restarts

Nothing == "nothing"

VARIABLES
  status,       \* of each ticket: none, pending, approved, rejected or expired
  subject,      \* the token each ticket is about
  entry,        \* manualWhitelist: none, enabled or disabled
  limited,      \* requestRateLimit: the wallets that asked within the hour
  doing,        \* what each handler is doing
  faults,
  unlisted,     \* history: approvals that failed, or died, before the listing,
                \* or found a disabled entry
  withdrawn     \* history: approvals whose entry an admin disabled later

past == <<unlisted, withdrawn>>
vars == <<status, subject, entry, limited, doing, faults, past>>

Hand == Asker \cup Reviewer \cup Admin
Idle == [phase |-> "idle", token |-> Nothing, wallet |-> Nothing, ticket |-> Nothing]
Go(h, phase) == doing' = [doing EXCEPT ![h].phase = phase]
Done(h) == doing' = [doing EXCEPT ![h] = Idle]
Mishap == faults < MaxFaults /\ faults' = faults + 1
Pending(t) == \E k \in Ticket : status[k] = "pending" /\ subject[k] = t

Init ==
  /\ status = [k \in Ticket |-> "none"] /\ subject = [k \in Ticket |-> Nothing]
  /\ entry = [t \in Token |-> "none"] /\ limited = {}
  /\ doing = [h \in Hand |-> Idle]
  /\ faults = 0 /\ unlisted = {} /\ withdrawn = {}
-----------------------------------------------------------------------------
(* createRequest                                                            *)

Ask(h, w, t) ==
  /\ doing[h].phase = "idle" /\ w \notin limited
  /\ doing' = [doing EXCEPT ![h] = [Idle EXCEPT !.phase = "whitelist?", !.token = t, !.wallet = w]]
  /\ UNCHANGED <<status, subject, entry, limited, faults, past>>

\* isWhitelisted, then the pending request; verifyToken only adds to the message.
LookUp(h) ==
  /\ \/ /\ doing[h].phase = "whitelist?"
        /\ IF entry[doing[h].token] = "enabled" THEN Done(h) ELSE Go(h, "pending?")
     \/ /\ doing[h].phase = "pending?"
        /\ IF Pending(doing[h].token) THEN Done(h) ELSE Go(h, "creating")
  /\ UNCHANGED <<status, subject, entry, limited, faults, past>>

\* The row, and only then the limit of the wallet: of two requests that overlap
\* both get here.  What fails later, the Telegram message too, leaves the row.
Create(h) ==
  \E k \in Ticket :
    /\ doing[h].phase = "creating" /\ status[k] = "none"
    /\ status' = [status EXCEPT ![k] = "pending"]
    /\ subject' = [subject EXCEPT ![k] = doing[h].token]
    /\ limited' = limited \cup {doing[h].wallet}
    /\ Done(h)
    /\ UNCHANGED <<entry, faults, past>>

\* cleanupRateLimits, and the hour that createRequest looks at.
HourEnds(w) ==
  /\ w \in limited
  /\ limited' = limited \ {w}
  /\ UNCHANGED <<status, subject, entry, doing, faults, past>>
-----------------------------------------------------------------------------
(* reviewRequest                                                            *)

\* handleCallbackQuery makes of a pressed button what /review takes.
BeginReview(h, k, action) ==
  /\ doing[h].phase = "idle" /\ status[k] = "pending"
  /\ doing' = [doing EXCEPT ![h] = [Idle EXCEPT !.phase = action, !.ticket = k, !.token = subject[k]]]
  /\ UNCHANGED <<status, subject, entry, limited, faults, past>>

\* Fault: without a tier config the approval goes on as if it had listed.
ApproveAndForget(h) ==
  LET k == doing[h].ticket IN
  /\ doing[h].phase \in {"approve", "reject"}
  /\ status' = [status EXCEPT ![k] = IF doing[h].phase = "approve" THEN "approved" ELSE "rejected"]
  /\ Done(h)
  /\ UNCHANGED <<subject, entry, limited, faults, past>>

\* The update does not ask again whether the ticket is pending.  A tier that is
\* none of the three (/review does not check) approves without listing.
Decide(h) ==
  LET k == doing[h].ticket IN
  /\ \/ /\ doing[h].phase = "approve"
        /\ status' = [status EXCEPT ![k] = "approved"]
        /\ \/ Go(h, "listed?") /\ UNCHANGED <<faults, unlisted>>
           \/ Done(h) /\ Mishap /\ unlisted' = unlisted \cup {k}
     \/ /\ doing[h].phase = "reject"
        /\ status' = [status EXCEPT ![k] = "rejected"]
        /\ Done(h)
        /\ UNCHANGED <<faults, unlisted>>
  /\ UNCHANGED <<subject, entry, limited, withdrawn>>

\* updateMany where pending, of tickets older than 48 h.
Expire ==
  \E old \in SUBSET {k \in Ticket : status[k] = "pending"} \ {{}} :
    /\ status' = [k \in Ticket |-> IF k \in old THEN "expired" ELSE status[k]]
    /\ UNCHANGED <<subject, entry, limited, doing, faults, past>>
-----------------------------------------------------------------------------
(* manualWhitelistService                                                   *)

BeginAdd(h, t) ==
  /\ doing[h].phase = "idle"
  /\ doing' = [doing EXCEPT ![h] = [Idle EXCEPT !.phase = "listed?", !.token = t]]
  /\ UNCHANGED <<status, subject, entry, limited, faults, past>>

\* The approval, if it is one, for which an addition finds the entry disabled.
MetDisabled(h) == IF entry[doing[h].token] = "disabled" THEN {doing[h].ticket} \cap Ticket ELSE {}

\* addToWhitelist: an entry that is there already, enabled or not, is an error,
\* and so is one that comes between the look and the row, whose mint is unique:
\* a disabled entry stays disabled.
AddToWhitelist(h) ==
  LET t == doing[h].token IN
  /\ \/ /\ doing[h].phase = "listed?" /\ entry[t] = "none"
        /\ Go(h, "adding")
        /\ UNCHANGED <<entry, faults, unlisted>>
     \/ /\ \/ doing[h].phase = "listed?" /\ entry[t] # "none"
           \/ doing[h].phase = "adding"
        /\ entry' = [entry EXCEPT ![t] = IF @ = "none" THEN "enabled" ELSE @]
        /\ unlisted' = unlisted \cup MetDisabled(h)
        /\ Done(h)
        /\ UNCHANGED faults
     \/ /\ doing[h].phase \in {"listed?", "adding"}
        /\ Done(h) /\ Mishap
        /\ unlisted' = unlisted \cup ({doing[h].ticket} \cap Ticket)
        /\ UNCHANGED entry
  /\ UNCHANGED <<status, subject, limited, withdrawn>>

\* PUT /:mint.  The routes to enable, disable and remove an entry read an admin
\* nobody sets (whitelist.ts:244) and fail on it.
UpdateWhitelistEntry(t) ==
  /\ \/ /\ entry[t] = "enabled"
        /\ entry' = [entry EXCEPT ![t] = "disabled"]
        /\ withdrawn' = withdrawn \cup {k \in Ticket : status[k] = "approved" /\ subject[k] = t}
     \/ /\ entry[t] = "disabled"
        /\ entry' = [entry EXCEPT ![t] = "enabled"]
        /\ UNCHANGED withdrawn
  /\ UNCHANGED <<status, subject, limited, doing, faults, unlisted>>

\* Handlers die, and the limits were in memory.
Restart ==
  /\ Mishap
  /\ limited' = {}
  /\ doing' = [h \in Hand |-> Idle]
  /\ unlisted' = unlisted \cup
       {doing[h].ticket : h \in {g \in Reviewer : doing[g].phase \in {"listed?", "adding"}}}
  /\ UNCHANGED <<status, subject, entry, withdrawn>>

Next ==
  \/ \E h \in Asker : (\E w \in Wallet, t \in Token : Ask(h, w, t)) \/ LookUp(h) \/ Create(h)
  \/ \E w \in Wallet : HourEnds(w)
  \/ \E h \in Reviewer :
       (\E k \in Ticket, action \in {"approve", "reject"} : BeginReview(h, k, action)) \/ Decide(h)
  \/ \E h \in Admin, t \in Token : BeginAdd(h, t)
  \/ \E h \in Reviewer \cup Admin : AddToWhitelist(h)
  \/ \E t \in Token : UpdateWhitelistEntry(t)
  \/ Expire
  \/ Restart

Spec == Init /\ [][Next]_vars
-----------------------------------------------------------------------------
(* Properties.                                                              *)

\* The token of an approved request is listed and enabled, or its listing is
\* under way, failed or met an entry an admin had disabled, or an admin disabled
\* it since: neither another request for the token, nor an admin who adds it at
\* the same time, nor a second review makes an approval be worth nothing
\* (verification-request.service.ts:167-196).
ApprovalsAreListed ==
  \A k \in Ticket : status[k] = "approved" =>
    \/ entry[subject[k]] = "enabled" \/ k \in unlisted \cup withdrawn
    \/ \E h \in Reviewer \cup Admin : doing[h].token = subject[k] /\ doing[h].phase \in {"listed?", "adding"}
=============================================================================
