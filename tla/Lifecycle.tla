----------------------------- MODULE Lifecycle -----------------------------
(***************************************************************************)
(* The booking lifecycle as pure data: the statuses, which of them hold    *)
(* the window, and the two transition tables, one for what a person may    *)
(* do and one for what the system does when a payment result, a deadline   *)
(* or a listing change arrives (booking/state.py).  The other modules      *)
(* take their notion of a legal step from here.                            *)
(***************************************************************************)

Status == {"awaiting_payment", "requested", "accepted", "active", "completed",
           "declined", "cancelled", "expired", "payment_failed", "disputed"}

\* Statuses in which a booking keeps its window (the exclusion constraint's
\* WHERE clause): a completed or disputed booking used its time.
HOLDING == {"awaiting_payment", "requested", "accepted", "active",
            "completed", "disputed"}

\* Still in flight: what must finish before an account can be deleted.
OPEN == {"awaiting_payment", "requested", "accepted", "active", "disputed"}

FINAL == {"completed", "declined", "cancelled", "expired", "payment_failed"}

\* Statuses in which a hold that was not captured is released
\* (payments/handlers.py).
RELEASE == {"declined", "cancelled", "expired", "payment_failed"}

Action == {"accept", "decline", "start", "complete", "cancel", "dispute", "no_show"}

SystemAction == {"authorised", "authorised_instant", "payment_failed",
                 "expire", "auto_complete", "listing_removed"}

Role == {"requester", "owner"}

\* Every action is given as the statuses it starts from, the one it ends in,
\* and the roles that may take it.
TRANSITIONS ==
  [ accept   |-> [from |-> {"requested"}, to |-> "accepted", by |-> {"owner"}],
    decline  |-> [from |-> {"requested"}, to |-> "declined", by |-> {"owner"}],
    start    |-> [from |-> {"accepted"}, to |-> "active", by |-> Role],
    complete |-> [from |-> {"active"}, to |-> "completed", by |-> {"requester"}],
    cancel   |-> [from |-> {"awaiting_payment", "requested", "accepted"},
                  to |-> "cancelled", by |-> Role],
    dispute  |-> [from |-> {"accepted", "active"}, to |-> "disputed",
                  by |-> {"requester"}],
    no_show  |-> [from |-> {"accepted"}, to |-> "cancelled", by |-> Role] ]

SYSTEM ==
  [ authorised         |-> [from |-> {"awaiting_payment"}, to |-> "requested"],
    authorised_instant |-> [from |-> {"awaiting_payment"}, to |-> "accepted"],
    payment_failed     |-> [from |-> {"awaiting_payment", "accepted"},
                            to |-> "payment_failed"],
    expire             |-> [from |-> {"awaiting_payment", "requested"},
                            to |-> "expired"],
    auto_complete      |-> [from |-> {"accepted", "active"}, to |-> "completed"],
    listing_removed    |-> [from |-> {"awaiting_payment", "requested"},
                            to |-> "declined"] ]

\* next_status answers instead of raising exactly when this holds.
CanAct(action, status, role) ==
  /\ role \in TRANSITIONS[action].by
  /\ status \in TRANSITIONS[action].from

\* system_status answers a status, not None, exactly when this holds.
Applies(action, status) == status \in SYSTEM[action].from

=============================================================================
