------------------------------ MODULE Backoff ------------------------------
(***************************************************************************)
(* The delay between two attempts of the uploader (uploader.py, _run,      *)
(* _classify, _retry, _grow_backoff, _retry_after).  A delay is a number   *)
(* of time units; the jitter is any number of them up to the interval.     *)
(* What an attempt does to the queue is the business of module Delivery:   *)
(* here an outcome is what it does to the delay, and the halving of a      *)
(* batch after 413 goes on inside one attempt.  "least" is a history     *)
(* variable: the least delay the outcomes so far call for.                 *)
(***************************************************************************)
EXTENDS Integers

CONSTANTS
    Interval,       \* upload_interval
    MaxDelay,       \* max_upload_delay
    RetryAfters     \* the integers a Retry-After header may carry

\* Neither is compared with the other anywhere; only negative times, which no
\* timer takes, are left out.
ASSUME DelayAssumption ==
    /\ Interval \in Nat /\ MaxDelay \in Nat
    /\ RetryAfters \subseteq Int

VARIABLES
    delay,          \* Uploader._delay
    least,          \* what the outcomes since the last answer amount to
    phase,          \* the attempt: waiting for its turn, running, or applying
    stopped         \* Uploader._stopped

backoffVars == <<delay, least, phase, stopped>>

Least(a, b) == IF a < b THEN a ELSE b
Greatest(a, b) == IF a < b THEN b ELSE a
Between(n) == Least(Greatest(n, Interval), MaxDelay)

BackoffInit ==
    /\ delay = Interval
    /\ least = Interval
    /\ phase = "wait"
    /\ stopped = FALSE

BackoffTypeOK ==
    /\ delay \in Nat
    /\ least \in Nat
    /\ phase \in {"wait", "attempt", "results"}
    /\ stopped \in BOOLEAN

\* upload_once, on the timer; without a batch there is no attempt.
Attempt ==
    /\ phase = "wait"
    /\ ~ stopped
    /\ phase' = "attempt"
    /\ UNCHANGED <<delay, least, stopped>>

\* Mutant of Grow: the jitter is added outside the bound.
GrowUnbounded ==
    /\ \E jitter \in 0..Interval : delay' = Between(delay * 2) + jitter
    /\ least' = Between(least * 2)
\* _grow_backoff without a Retry-After.
Grow ==
    /\ \E jitter \in 0..Interval : delay' = Least(Between(delay * 2) + jitter, MaxDelay)
    /\ least' = Between(least * 2)

\* A network failure, 408, 429, 5xx without a usable Retry-After, an answer
\* that is malformed or not correlated.
RetryLater ==
    /\ phase = "attempt"
    /\ Grow
    /\ phase' = "wait"
    /\ UNCHANGED stopped

\* Mutant of RetryAfter: the Retry-After is taken as it is.
RetryAfterAsIs(n) ==
    /\ phase = "attempt"
    /\ delay' = n
    /\ least' = Between(n)
    /\ phase' = "wait"
    /\ UNCHANGED stopped
\* 408, 429 or 5xx with a Retry-After, which may ask for any time.
RetryAfter(n) ==
    /\ phase = "attempt"
    /\ delay' = Between(n)
    /\ least' = Between(n)
    /\ phase' = "wait"
    /\ UNCHANGED stopped

\* An empty batch, a row stranded by 400 or 413, or an exception on the way:
\* mark_retryable fails, or Retry-After has so many digits that its float
\* overflows.  The next attempt comes after the same delay.
Unchanged ==
    /\ phase \in {"attempt", "results"}
    /\ phase' = "wait"
    /\ UNCHANGED <<delay, least, stopped>>

\* 401, 403 and whatever has no rule of its own.
Halt ==
    /\ phase = "attempt"
    /\ Grow
    /\ stopped' = TRUE
    /\ phase' = "wait"

\* A correlated 200: _reset_backoff, then the results one after the other.
Answer ==
    /\ phase = "attempt"
    /\ delay' = Interval
    /\ least' = Interval
    /\ phase' = "results"
    /\ UNCHANGED stopped

\* A receipt that does not bind, for one of the rows.
UnusableReceipt ==
    /\ phase = "results"
    /\ Grow
    /\ UNCHANGED <<phase, stopped>>

BackoffNext ==
    \/ Attempt \/ RetryLater \/ (\E n \in RetryAfters : RetryAfter(n))
    \/ Unchanged \/ Halt \/ Answer \/ UnusableReceipt

BackoffSpec == BackoffInit /\ [][BackoffNext]_backoffVars

-----------------------------------------------------------------------------
\* uploader.py, _grow_backoff: the uploader never waits less than the interval
\* or more than max_delay, whatever a service asks for, and never less than the
\* failures since the last answer have doubled it to.  An interval configured
\* above max_delay is waited for until the first failure, and max_delay after it.
DelayFits ==
    /\ Least(Interval, MaxDelay) <= delay
    /\ delay <= MaxDelay \/ delay = Interval
    /\ least <= delay
=============================================================================
