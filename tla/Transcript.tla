------------------------------ MODULE Transcript ------------------------------
(***************************************************************************)
(* The transcript of a session: which messages carry a question, computed  *)
(* from the events (EventView), and what the folds of one message leave on *)
(* screen (Disclosure).  Neither reads the other's state: a message is     *)
(* rendered from the events alone, and folds itself.                       *)
(***************************************************************************)
EXTENDS EventView, Disclosure

TranscriptSpec == EventViewSpec /\ DisclosureSpec

\* A question of a turn can be answered once: what the events say puts it on screen in
\* exactly one place (turn-presentation.ts), and the folds of the message do not lose
\* it (agent-message.tsx).
QuestionsAreReachable == QuestionsShownOnce /\ QuestionsUnfold
=============================================================================
