-------------------------- MODULE ReferenceServer --------------------------
(***************************************************************************)
(* The reference service (reference-server/server.py): registration of an  *)
(* agent's key and ingestion of event batches, whatever the clients send.  *)
(* One transaction per candidate; the response is sent after the last one, *)
(* so the process may die with some candidates stored and nothing          *)
(* answered.  The handler has no await between candidates: one batch is    *)
(* processed at a time.                                                    *)
(*                                                                         *)
(* An event's runtime is the pair (agent_id, runtime_id), its hash the     *)
(* hash of its bytes, a signature the pair of the signing key and the hash *)
(* of the signed bytes.                                                    *)
(***************************************************************************)
EXTENDS Ingestion, Sequences

CONSTANTS
    Envelopes,      \* candidates a client may send
    Agents, Keys,   \* agents and the keys they may register
    NoKey,          \* an agent that is not registered
    Organisation,   \* the organisation of this deployment
    Skew,           \* CLOCK_SKEW_SECONDS
    MaxTime,        \* bound: the clock
    MaxBatch        \* MAX_BATCH_EVENTS: a longer batch is a 413

\* SHA-256 is injective as far as the service can tell.
ASSUME HashAssumption ==
    \A a, b \in Envelopes : a.event.hash = b.event.hash => a.event = b.event
ASSUME KeyAssumption == NoKey \notin Keys
ASSUME BoundsAssumption == MaxTime \in Nat /\ MaxBatch \in Nat

\* _validate_event: the schema of an event that is well formed.
ASSUME SchemaAssumption ==
    \A envelope \in Envelopes :
        /\ envelope.event.agent \in Agents
        /\ envelope.wellFormed =>
               /\ envelope.event.sequence \in Nat \ {0}
               /\ envelope.event.sequence = 1 <=> envelope.event.prev = << >>

VARIABLES
    registered,     \* per agent: the key it registered first, or NoKey
    revoked,        \* agents and agents' keys that an operator made inactive
    events,         \* table events
    receipts,       \* table receipts
    now,            \* the service's clock
    results,        \* results of the batch in process, in order
    told            \* history: pairs of event id and receipt ever answered

vars == <<registered, revoked, events, receipts, now, results, told>>

Result == [id : {envelope.event.id : envelope \in Envelopes},
           status : {"accepted", "duplicate", "conflict", "missing_previous", "invalid_chain",
                     "invalid_schema", "organisation_mismatch", "unknown_agent",
                     "agent_revoked", "revoked_key", "invalid_signature", "invalid_timestamp",
                     "invalid_hash"},
           receipt : receipts \cup {NoReceiptIssued}]

TypeOK ==
    /\ registered \in [Agents -> Keys \cup {NoKey}]
    /\ revoked \subseteq Agents \X {"agent", "key"}
    /\ \A stored \in events : \E envelope \in Envelopes :
           stored = [event |-> envelope.event, signature |-> envelope.signature]
    /\ \A receipt \in receipts : receipt[3] \in 1..Cardinality(receipts)
    /\ now \in 0..MaxTime
    /\ results \in Seq(Result) /\ Len(results) <= MaxBatch

Init ==
    /\ registered = [agent \in Agents |-> NoKey]
    /\ revoked = {}
    /\ events = {}
    /\ receipts = {}
    /\ now = 0
    /\ results = << >>
    /\ told = {}

\* _register_agent for an unknown agent.  For a known one it answers the
\* existing key, or 409 for another key, and changes nothing.
Register(agent, key) ==
    /\ registered[agent] = NoKey
    /\ registered' = [registered EXCEPT ![agent] = key]
    /\ UNCHANGED <<revoked, events, receipts, now, results, told>>

\* Nothing in the service changes the status of an agent or of a key; its
\* operator may.
Revoke(agent, what) ==
    /\ registered[agent] # NoKey
    /\ <<agent, what>> \notin revoked
    /\ revoked' = revoked \cup {<<agent, what>>}
    /\ UNCHANGED <<registered, events, receipts, now, results, told>>

Tick ==
    /\ now < MaxTime
    /\ now' = now + 1
    /\ UNCHANGED <<registered, revoked, events, receipts, results, told>>

\* Mutant of Policy: the signature is not verified.
PolicyUnverified(envelope) ==
    LET event == envelope.event
        key == registered[event.agent]
    IN  IF key = NoKey THEN "unknown_agent"
        ELSE IF <<event.agent, "agent">> \in revoked THEN "agent_revoked"
        ELSE IF event.key # key THEN "invalid_signature"
        ELSE IF <<event.agent, "key">> \in revoked THEN "revoked_key"
        ELSE IF event.occurred > now + Skew THEN "invalid_timestamp"
        ELSE IF envelope.claimed # event.hash THEN "invalid_hash"
        ELSE "pass"

\* The checks of _ingest between the replay check and the chain, in their order.
Policy(envelope) ==
    LET event == envelope.event
        key == registered[event.agent]
    IN  IF key = NoKey THEN "unknown_agent"
        ELSE IF <<event.agent, "agent">> \in revoked THEN "agent_revoked"
        ELSE IF event.key # key THEN "invalid_signature"
        ELSE IF <<event.agent, "key">> \in revoked THEN "revoked_key"
        ELSE IF event.occurred > now + Skew THEN "invalid_timestamp"
        ELSE IF envelope.claimed # event.hash THEN "invalid_hash"
        ELSE IF envelope.signature # <<key, event.hash>> THEN "invalid_signature"
        ELSE "pass"

Verdict(envelope) ==
    IF ~envelope.wellFormed THEN "invalid_schema"
    ELSE IF envelope.event.org # Organisation THEN "organisation_mismatch"
    ELSE IngestVerdict(events, envelope, Policy(envelope))

\* Mutant of IngestNext: the limit on the length of a batch is off by one.
IngestNextTooMany(envelope) ==
    /\ Len(results) <= MaxBatch
    /\ LET verdict == Verdict(envelope)
       IN  /\ events' = EventsAfter(events, envelope, verdict)
           /\ receipts' = ReceiptsAfter(receipts, envelope, verdict)
           /\ results' = Append(results,
                  [id |-> envelope.event.id, status |-> verdict,
                   receipt |-> AnsweredReceipt(receipts, envelope, verdict)])
    /\ UNCHANGED <<registered, revoked, now, told>>

\* The next candidate of the batch, in a transaction of its own.
IngestNext(envelope) ==
    /\ Len(results) < MaxBatch
    /\ LET verdict == Verdict(envelope)
       IN  /\ events' = EventsAfter(events, envelope, verdict)
           /\ receipts' = ReceiptsAfter(receipts, envelope, verdict)
           /\ results' = Append(results,
                  [id |-> envelope.event.id, status |-> verdict,
                   receipt |-> AnsweredReceipt(receipts, envelope, verdict)])
    /\ UNCHANGED <<registered, revoked, now, told>>

\* The response of the batch leaves.
Respond ==
    /\ results # << >>
    /\ told' = told \cup {<<results[i].id, results[i].receipt>> :
                             i \in {j \in DOMAIN results :
                                        results[j].receipt # NoReceiptIssued}}
    /\ results' = << >>
    /\ UNCHANGED <<registered, revoked, events, receipts, now>>

\* The process dies, or a candidate raises: the response never leaves.
Crash ==
    /\ results # << >>
    /\ results' = << >>
    /\ UNCHANGED <<registered, revoked, events, receipts, now, told>>

Next ==
    \/ \E agent \in Agents, key \in Keys : Register(agent, key)
    \/ \E agent \in Agents, what \in {"agent", "key"} : Revoke(agent, what)
    \/ \E envelope \in Envelopes : IngestNext(envelope)
    \/ Respond \/ Crash \/ Tick

Spec == Init /\ [][Next]_vars
-----------------------------------------------------------------------------
(* Properties. *)

\* Whatever crashes between storing and answering, all answers about one event
\* carry the one receipt that is stored, and a replay still gets it after the
\* agent is revoked (_duplicate comes before the agent checks).
ReplayGetsOriginal ==
    \A answer \in told :
        /\ answer[2] \in receipts
        /\ \A envelope \in Envelopes :
               /\ envelope.wellFormed /\ envelope.event.org = Organisation
               /\ IsIdentical(events, envelope) /\ envelope.event.id = answer[1]
               => /\ Verdict(envelope) = "duplicate"
                  /\ AnsweredReceipt(receipts, envelope, "duplicate") = answer[2]

\* Every stored event was signed with the key its agent registered first, over
\* the bytes that are stored.
StoredIsAuthentic ==
    \A stored \in events :
        stored.signature = <<registered[stored.event.agent], stored.event.hash>>

Log == INSTANCE AuditLog WITH
           NoHash <- << >>, log <- StoredEvents(events), acked <- {}, condemned <- {}

\* The stored events of each runtime are a chain that only grows at its end:
\* nothing a client sends forks it, leaves a gap in it or rewrites it.
ImplementsAuditLog == Log!Spec
============================================================================
