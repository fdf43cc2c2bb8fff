------------------------------ MODULE Delivery ------------------------------
(***************************************************************************)
(* What the follow-up mailbox promises the owner of a message, whatever    *)
(* dispatchers, leases and hooks do underneath (docs/architecture.md,      *)
(* "Follow-up mailbox"): a message can be withdrawn as long as nothing was *)
(* sent for it, is handed to Eve at most once, and is reported delivered   *)
(* only after the session received it.  Mailbox implements this module.    *)
(***************************************************************************)
EXTENDS Naturals

CONSTANTS Messages

VARIABLES
  delivery  \* of each message: its phase, the copies Eve was handed, and
            \* whether the session recorded message.received for it

Init == delivery = [m \in Messages |-> [phase |-> "new", copies |-> 0, heard |-> FALSE]]

Becomes(m, d) == delivery' = [delivery EXCEPT ![m] = d]

Moves(m, from, to) ==
  /\ delivery[m].phase = from
  /\ Becomes(m, [delivery[m] EXCEPT !.phase = to])

Submit(m) == Moves(m, "new", "open")

Withdraw(m) == Moves(m, "open", "withdrawn")

\* From here on Eve may be handed the message.
Begin(m) == Moves(m, "open", "begun")

\* Eve refused it for certain: the owner may retry or withdraw it.
Return(m) == delivery[m].copies = 0 /\ Moves(m, "begun", "open")

Send(m) ==
  /\ delivery[m].phase = "begun" /\ delivery[m].copies = 0
  /\ Becomes(m, [delivery[m] EXCEPT !.copies = 1])

Hear(m) ==
  /\ delivery[m].phase = "begun" /\ delivery[m].copies = 1
  /\ Becomes(m, [delivery[m] EXCEPT !.heard = TRUE])

Settle(m) == delivery[m].heard /\ Moves(m, "begun", "delivered")

Step(m) ==
  \/ Submit(m) \/ Withdraw(m) \/ Begin(m) \/ Return(m)
  \/ Send(m) \/ Hear(m) \/ Settle(m)

Next == delivery' # delivery /\ \E m \in Messages : Step(m)

Spec == Init /\ [][Next]_delivery
=============================================================================
