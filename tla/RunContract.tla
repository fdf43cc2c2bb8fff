----------------------------- MODULE RunContract -----------------------------
(***************************************************************************)
(* What a headless run promises the host that started it, whatever         *)
(* requests, polls and crashes do underneath (docs/architecture.md,        *)
(* "Headless AgentRun contract"): a run that was refused never has a       *)
(* session; status and result may follow the session until the host asks   *)
(* for a stop, and from then on the result can only be withdrawn; a run is *)
(* cancelled only because its host asked, only once its session can do     *)
(* nothing more, and for good.  AgentRun implements this module.           *)
(***************************************************************************)

CONSTANTS Runs

VARIABLES
  promise  \* of each run: its phase, its session, whether the host asked
           \* for a stop, and the result it publishes

Served == {"open", "completed", "failed"}

Init ==
  promise = [k \in Runs |-> [phase |-> "absent", session |-> "unasked",
                             stopped |-> FALSE, result |-> "none"]]

Becomes(k, p) == promise' = [promise EXCEPT ![k] = p]

Reserve(k) ==
  /\ promise[k].phase = "absent"
  /\ Becomes(k, [promise[k] EXCEPT !.phase = "submitting"])

\* The runtime is asked for a session, and makes one or does not.
Ask(k) ==
  /\ promise[k].phase = "submitting" /\ promise[k].session = "unasked"
  /\ \E s \in {"unborn", "live"} : Becomes(k, [promise[k] EXCEPT !.session = s])

\* What the host learns of it.
Open(k) ==
  /\ promise[k].phase = "submitting" /\ promise[k].session \in {"live", "over"}
  /\ Becomes(k, [promise[k] EXCEPT !.phase = "open"])

Refuse(k) ==
  /\ promise[k].phase = "submitting" /\ promise[k].session = "unborn"
  /\ Becomes(k, [promise[k] EXCEPT !.phase = "refused"])

Doubt(k) ==
  /\ promise[k].phase = "submitting" /\ promise[k].session # "unasked"
  /\ Becomes(k, [promise[k] EXCEPT !.phase = "ambiguous"])

\* A run that ended keeps its outcome; its result may still be completed.
Report(k) ==
  /\ promise[k].phase \in Served /\ ~promise[k].stopped
  /\ \E to \in Served, r \in {"none", "text", "json"} :
       /\ promise[k].phase \in {"open", to}
       /\ Becomes(k, [promise[k] EXCEPT !.phase = to, !.result = r])

RequestStop(k) ==
  /\ promise[k].phase \in Served
  /\ Becomes(k, [promise[k] EXCEPT !.stopped = TRUE])

Withdraw(k) ==
  /\ promise[k].phase \in Served /\ promise[k].stopped
  /\ Becomes(k, [promise[k] EXCEPT !.result = "none"])

Cancel(k) ==
  /\ promise[k].phase \in Served /\ promise[k].stopped /\ promise[k].session = "over"
  /\ Becomes(k, [promise[k] EXCEPT !.phase = "cancelled", !.result = "none"])

\* The session is closed, or its turn was cancelled.
End(k) ==
  /\ promise[k].session = "live"
  /\ Becomes(k, [promise[k] EXCEPT !.session = "over"])

Step(k) ==
  \/ Reserve(k) \/ Ask(k) \/ Open(k) \/ Refuse(k) \/ Doubt(k) \/ Report(k)
  \/ RequestStop(k) \/ Withdraw(k) \/ Cancel(k) \/ End(k)

Next == promise' # promise /\ \E k \in Runs : Step(k)

Spec == Init /\ [][Next]_promise
=============================================================================
