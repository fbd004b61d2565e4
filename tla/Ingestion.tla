----------------------------- MODULE Ingestion -----------------------------
(***************************************************************************)
(* How the service judges one event (_ingest of reference-server/server.py *)
(* and the helpers it calls), as operators over the two tables it keeps:   *)
(*   events    a set of [event, signature], the accepted envelopes         *)
(*   receipts  a set of receipts <<event id, event hash, number>>          *)
(* An event has the fields id, hash, runtime, sequence and prev.  A        *)
(* receipt's bytes depend on the moment it is issued (received_at); its    *)
(* number stands for that moment, so a receipt issued again would differ.  *)
(***************************************************************************)
EXTENDS FiniteSets, Integers

NoReceiptIssued == << >>

StoredEvents(events) == {stored.event : stored \in events}

ReceiptsFor(receipts, id) == {receipt \in receipts : receipt[1] = id}

\* _stored_receipt: receipts are unique per event.
StoredReceipt(receipts, id) == CHOOSE receipt \in ReceiptsFor(receipts, id) : TRUE

\* _duplicate: a replay is an event whose id is stored; it is identical when the
\* canonical bytes, the claimed hash and the signature are.
IsReplay(events, envelope) ==
    \E stored \in events : stored.event.id = envelope.event.id

IsIdentical(events, envelope) ==
    /\ [event |-> envelope.event, signature |-> envelope.signature] \in events
    /\ envelope.claimed = envelope.event.hash

\* _check_chain, in the order of its early returns.
Predecessors(events, event) ==
    {below \in StoredEvents(events) :
        below.runtime = event.runtime /\ below.sequence = event.sequence - 1}

MissesPrevious(events, event) ==
    event.sequence > 1 /\ Predecessors(events, event) = {}

\* Mutant of BreaksChain: an occupied sequence is not noticed.
BreaksLinkOnly(events, event) ==
    /\ event.sequence > 1
    /\ \E below \in Predecessors(events, event) : below.hash # event.prev

BreaksChain(events, event) ==
    \/ /\ event.sequence > 1
       /\ \E below \in Predecessors(events, event) : below.hash # event.prev
    \/ \E other \in StoredEvents(events) :
           /\ other.runtime = event.runtime /\ other.sequence = event.sequence
           /\ other.id # event.id

ChainVerdict(events, event) ==
    IF MissesPrevious(events, event) THEN "missing_previous"
    ELSE IF BreaksChain(events, event) THEN "invalid_chain"
    ELSE IF \E other \in StoredEvents(events) : other.hash = event.hash THEN "conflict"
    ELSE "accepted"

\* Mutants of IngestVerdict: the agent is checked before a replay is recognised,
\* and replays are not recognised at all.
PolicyBeforeReplay(events, envelope, policy) ==
    IF policy # "pass" THEN policy
    ELSE IF IsReplay(events, envelope)
      THEN IF IsIdentical(events, envelope) THEN "duplicate" ELSE "conflict"
    ELSE ChainVerdict(events, envelope.event)

NoReplay(events, envelope, policy) ==
    IF policy # "pass" THEN policy ELSE ChainVerdict(events, envelope.event)

\* What _ingest answers; policy is the verdict of the checks that lie between
\* the replay check and the chain ("pass" when all of them pass).
IngestVerdict(events, envelope, policy) ==
    IF IsReplay(events, envelope)
      THEN IF IsIdentical(events, envelope) THEN "duplicate" ELSE "conflict"
    ELSE IF policy # "pass" THEN policy
    ELSE ChainVerdict(events, envelope.event)

\* The receipt issued for a newly accepted event.
IssuedReceipt(receipts, event) == <<event.id, event.hash, Cardinality(receipts) + 1>>

\* The two inserts of an accepted candidate; any other verdict rolls back.
EventsAfter(events, envelope, verdict) ==
    IF verdict = "accepted"
      THEN events \cup {[event |-> envelope.event, signature |-> envelope.signature]}
      ELSE events

ReceiptsAfter(receipts, envelope, verdict) ==
    IF verdict = "accepted" THEN receipts \cup {IssuedReceipt(receipts, envelope.event)}
    ELSE receipts

\* The receipt that travels with a verdict.
AnsweredReceipt(receipts, envelope, verdict) ==
    CASE verdict = "accepted"  -> IssuedReceipt(receipts, envelope.event)
      [] verdict = "duplicate" -> StoredReceipt(receipts, envelope.event.id)
      [] OTHER                 -> NoReceiptIssued
============================================================================
