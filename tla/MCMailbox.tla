----------------------------- MODULE MCMailbox -----------------------------
(* Small instances of Mailbox for TLC. *)
EXTENDS Mailbox, TLC

\* Tokens are numbers: Claim picks the first free one.  The other sets are
\* interchangeable.
Symmetry == Permutations(Items) \cup Permutations(Dispatchers) \cup Permutations(Clients)
            \cup Permutations(Sessions)
=============================================================================
