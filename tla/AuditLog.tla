----------------------------- MODULE AuditLog -----------------------------
(***************************************************************************)
(* What the SDK promises about the events it signs, with no threads, no    *)
(* transactions, no messages and no crashes in sight: per runtime, a log   *)
(* that only grows and whose every event names the one below it; and one   *)
(* of two fates for an event, acknowledged in log order, or condemned      *)
(* together with everything above it, after which its runtime never grows. *)
(***************************************************************************)
EXTENDS Integers

CONSTANT NoHash     \* previous_event_hash of the first event of a runtime

VARIABLES
    log,        \* the durable events
    acked,      \* those acknowledged
    condemned   \* those that will never be

vars == <<log, acked, condemned>>

Init == log = {} /\ acked = {} /\ condemned = {}

SameRuntime(event) == {other \in log : other.runtime = event.runtime}

Below(event) == {other \in SameRuntime(event) : other.sequence < event.sequence}

\* The event is the next one of its runtime.
Extends(event) ==
    /\ \A other \in log : other.id # event.id
    /\ \A other \in SameRuntime(event) : other.sequence < event.sequence
    /\ \/ event.sequence = 1 /\ event.prev = NoHash
       \/ \E below \in SameRuntime(event) :
              below.sequence = event.sequence - 1 /\ below.hash = event.prev

Grow ==
    /\ \E event \in log' \ log :
           /\ log' = log \cup {event}
           /\ Extends(event)
           /\ SameRuntime(event) \cap condemned = {}
    /\ UNCHANGED <<acked, condemned>>

Acknowledge(event) ==
    /\ event \in log \ (acked \cup condemned)
    /\ Below(event) \subseteq acked
    /\ acked' = acked \cup {event}
    /\ UNCHANGED <<log, condemned>>

Condemn(event) ==
    /\ event \in log \ (acked \cup condemned)
    /\ Below(event) \subseteq acked
    /\ condemned' = condemned \cup (SameRuntime(event) \ Below(event))
    /\ UNCHANGED <<log, acked>>

Next == Grow \/ \E event \in log : Acknowledge(event) \/ Condemn(event)

Spec == Init /\ [][Next]_vars
============================================================================
