--------------------------- MODULE MCAuditClient ---------------------------
(* Model-checking constants for AuditClient. *)
EXTENDS AuditClient, TLC

\* Threads are interchangeable: nothing orders or names them.  Used for the
\* safety runs only.
ThreadSymmetry == Permutations(Threads)
============================================================================
