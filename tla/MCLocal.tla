------------------------------ MODULE MCLocal ------------------------------
\* The parts of the system that stay within one host and share no state, each
\* explored on its own: one part is at work in a behaviour, so that the state
\* spaces add up and do not multiply.
EXTENDS MCCommandLine, ServiceStart, FailureLog, Fork, Backoff

VARIABLE part   \* the part at work

MCRetryAfters == {-1, 0, 1, 7, 100}

localVars == <<part, cliVars, startVars, logVars, forkVars, backoffVars>>

LocalInit ==
    /\ part \in {"commands", "servers", "writers", "fork", "backoff"}
    /\ CommandInit /\ StartInit /\ LogInit /\ ForkInit /\ BackoffInit

LocalNext ==
    \/ /\ part = "commands" /\ CommandNext
       /\ UNCHANGED <<part, startVars, logVars, forkVars, backoffVars>>
    \/ /\ part = "servers" /\ StartNext
       /\ UNCHANGED <<part, cliVars, logVars, forkVars, backoffVars>>
    \/ /\ part = "writers" /\ LogNext
       /\ UNCHANGED <<part, cliVars, startVars, forkVars, backoffVars>>
    \/ /\ part = "fork" /\ ForkNext
       /\ UNCHANGED <<part, cliVars, startVars, logVars, backoffVars>>
    \/ /\ part = "backoff" /\ BackoffNext
       /\ UNCHANGED <<part, cliVars, startVars, logVars, forkVars>>

LocalSpec == LocalInit /\ [][LocalNext]_localVars

\* Every part keeps to its types.
LocalTypeOK == CommandTypeOK /\ StartTypeOK /\ LogTypeOK /\ ForkTypeOK /\ BackoffTypeOK
=============================================================================
