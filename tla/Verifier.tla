------------------------------ MODULE Verifier ------------------------------
(***************************************************************************)
(* verify_bundle (sdk/sealstack/verify.py): the offline verdict on one     *)
(* evidence bundle, and the verdict of a second run on the same bundle     *)
(* with another trust file.                                                *)
(*                                                                         *)
(* Hashes, fingerprints and signatures are terms: equal exactly when what  *)
(* they are made from is equal.  A bundle is the record of the parts that  *)
(* the checks compare.  Its field shape stands for every check of a single *)
(* field (closed records, types, UUIDs, encodings, value profile); the     *)
(* checks that relate fields are spelled out.                              *)
(***************************************************************************)
EXTENDS Integers, Sequences

CONSTANTS
    Null,           \* JSON null
    Bundles,        \* the texts that may be handed to the verifier
    TrustFiles,     \* the trust files that may come with them
    Times,          \* bound: the moments that intervals are compared over
    AgentKeys,      \* public keys of the agents
    ServiceKeys,    \* public keys of the service, by key_id
    Signed,         \* events the agents have signed
    Issued          \* receipt bodies the service has signed

Hash(event) == [hashed |-> event]
Fingerprint(public) == [fingerprinted |-> public]
Signature(public, message) == [public |-> public, message |-> message]

\* The body is a receipt for the event, whose agent has this public key.
IsReceiptFor(body, event, public) ==
    /\ body.eventHash = Hash(event)
    /\ body.event = event.id /\ body.org = event.org
    /\ body.agent = event.agent /\ body.key = event.key
    /\ body.fingerprint = Fingerprint(public)

WithPredecessors == Bundles \cup {b.predecessor : b \in {c \in Bundles : c.predecessor # Null}}

\* Nobody else signs with the keys of the agents and of the service, and the
\* service issues receipts only for events that their agents signed, under a
\* key_id of its own (ReferenceServer!StoredIsAuthentic).
SignersAssumption ==
    /\ \A b \in WithPredecessors :
           /\ b.signature.public \in AgentKeys => b.signature.message \in Signed
           /\ \A s \in DOMAIN ServiceKeys :
                  b.bodySignature.public = ServiceKeys[s] => b.bodySignature.message \in Issued
    /\ \A body \in Issued :
           /\ body.serviceKey \in DOMAIN ServiceKeys
           /\ \E event \in Signed, public \in AgentKeys : IsReceiptFor(body, event, public)

ASSUME SignersAssumption

\* An agent belongs to one organization, and signs one event for each place in a
\* runtime, with the hash of the one before (AuditClient!HashChain).
ChainAssumption ==
    \A e, f \in Signed :
        e.agent = f.agent /\ e.runtime = f.runtime =>
            /\ e.sequence = f.sequence => e = f
            /\ e.sequence = f.sequence - 1 => e.org = f.org /\ f.prev = Hash(e)

ASSUME ChainAssumption

\* Moments are comparable.
TimesAssumption ==
    /\ Times \subseteq Int
    /\ \A b \in WithPredecessors :
           /\ b.event.occurred \in Times
           /\ \A record \in {b.body.sponsor, b.body.grant} \ {Null} :
                  record.from \in Times /\ record.until \in Times \cup {Null}

ASSUME TimesAssumption

\* A trust file that is missing, or that is refused, names no keys.
TrustAssumption ==
    \A t \in TrustFiles : ~ (t.given /\ t.wellFormed) => DOMAIN t.keys = {}

ASSUME TrustAssumption

VARIABLES
    bundle,         \* the text to verify
    trust,          \* the trust file of this run
    pc,             \* the next check
    inHand,         \* which bundle _verify_core is at: bundle or predecessor
    result,         \* the Result, when pc is done
    earlier         \* trust file and Result of the run before

vars == <<bundle, trust, pc, inHand, result, earlier>>

Subject == IF inHand = "bundle" THEN bundle ELSE bundle.predecessor
Trusted == trust.keys[Subject.body.serviceKey]

\* A verdict with the label of its line: for VALID, the line about the chain.
Labels == {"Evidence bundle", "Service receipt", "Event hash", "Agent key fingerprint",
           "Agent signature", "Runtime chain link", "Runtime chain"}
Result(verdict, label) == [verdict |-> verdict, label |-> label]
Results == [verdict : {"VALID", "INVALID", "UNKNOWN"}, label : Labels]
NoResult == Result("none", "none")

Init ==
    /\ bundle \in Bundles
    /\ trust \in TrustFiles
    /\ pc = "parse"
    /\ inHand = "bundle"
    /\ result = NoResult
    /\ earlier = Null

TypeOK ==
    /\ trust \in TrustFiles
    /\ pc \in {"parse", "version", "schema", "trust", "resolve", "metadata", "receipt", "hash",
               "binding", "fingerprint", "signature", "context", "link", "done"}
    /\ inHand \in {"bundle"} \cup (IF bundle.predecessor = Null THEN {} ELSE {"predecessor"})
    /\ result \in IF pc = "done" THEN Results ELSE {NoResult}
    /\ earlier = Null \/ earlier \in [trust : TrustFiles, result : Results]
-----------------------------------------------------------------------------
(* Intervals, half open; a null end is no end. *)

\* Mutant of Contains: the end belongs to the interval.
ContainsEnd(record, moment) ==
    record.from <= moment /\ (record.until # Null => moment <= record.until)

Contains(record, moment) ==
    record.from <= moment /\ (record.until # Null => moment < record.until)

\* Mutant of Within: a grant without an end is within nothing.
WithinEnded(grant, sponsor) ==
    /\ sponsor.from <= grant.from
    /\ grant.until # Null
    /\ sponsor.until # Null => grant.until <= sponsor.until

Within(grant, sponsor) ==
    /\ sponsor.from <= grant.from
    /\ sponsor.until # Null => grant.until # Null /\ grant.until <= sponsor.until
-----------------------------------------------------------------------------
(* What each check asks of a bundle. *)

\* _check_receipt_version: no complaint about what is not an integer.
ReceiptVersionKnown(b) == b.receiptVersion \in {2, Null}

\* The snapshots at the root of the body are there when their record is.
NullnessHolds(body) ==
    /\ IF body.sponsor = Null THEN body.sponsorId = Null /\ body.userId = Null
                              ELSE body.sponsorId # Null /\ body.userId # Null
    /\ IF body.grant = Null THEN body.grantId = Null /\ body.capabilities = Null
                            ELSE body.grantId # Null /\ body.capabilities # Null

EventWellFormed(event) == (event.sequence = 1) <=> (event.prev = Null)

FieldsWellFormed(b) == b.shape

WellFormed(b) ==
    /\ b.version = 2 /\ b.receiptVersion = 2
    /\ FieldsWellFormed(b) /\ EventWellFormed(b.event) /\ NullnessHolds(b.body)

\* _verify_context.
SponsorHolds(event, body) ==
    body.sponsor # Null =>
        /\ body.sponsorId = body.sponsor.id /\ body.userId = body.sponsor.user
        /\ body.sponsor.org = event.org /\ body.sponsor.agent = event.agent
        /\ Contains(body.sponsor, event.occurred)

GrantHolds(event, body) ==
    body.grant # Null =>
        /\ body.grantId = body.grant.id /\ body.capabilities = body.grant.capabilities
        /\ body.sponsor # Null
        /\ body.grant.sponsor = body.sponsor.id
        /\ body.grant.org = event.org /\ body.grant.agent = event.agent
        /\ Within(body.grant, body.sponsor)
        /\ Contains(body.grant, event.occurred)
        /\ \E i \in DOMAIN body.grant.capabilities :
               body.grant.capabilities[i] = event.action
-----------------------------------------------------------------------------
(* The checks of verify_bundle, in their order; the first that fails decides. *)

Finish(outcome) == pc' = "done" /\ result' = outcome
Proceed(next) == pc' = next /\ UNCHANGED result
Stay == UNCHANGED <<bundle, trust, inHand, earlier>>

Check(stage, holds, next, failure) ==
    /\ pc = stage
    /\ IF holds THEN Proceed(next) ELSE Finish(failure)
    /\ Stay

Parse ==
    Check("parse", bundle.parses /\ bundle.version = 2, "version",
          Result("INVALID", "Evidence bundle"))

CheckReceiptVersions ==
    Check("version",
          /\ ReceiptVersionKnown(bundle)
          /\ bundle.predecessor # Null => ReceiptVersionKnown(bundle.predecessor),
          "schema", Result("UNKNOWN", "Service receipt"))

ValidateBundle ==
    Check("schema",
          /\ WellFormed(bundle)
          /\ bundle.predecessor # Null => /\ WellFormed(bundle.predecessor)
                                          /\ bundle.predecessor.predecessor = Null,
          "trust", Result("INVALID", "Evidence bundle"))

LoadTrust ==
    Check("trust", trust.given /\ trust.wellFormed, "resolve",
          Result("UNKNOWN", "Service receipt"))

\* Mutant of ResolveKey: an unknown service key is taken for a bad receipt.
ResolveOrInvalid ==
    Check("resolve", Subject.body.serviceKey \in DOMAIN trust.keys, "metadata",
          Result("INVALID", "Service receipt"))

\* _verify_core: the trust anchor is looked up by the signed body's key_id only.
ResolveKey ==
    Check("resolve", Subject.body.serviceKey \in DOMAIN trust.keys, "metadata",
          Result("UNKNOWN", "Service receipt"))

MatchMetadata ==
    Check("metadata",
          /\ Subject.metadata.id = Subject.body.serviceKey
          /\ Subject.metadata.public = Trusted,
          "receipt", Result("INVALID", "Evidence bundle"))

\* Mutant of CheckReceipt: the key that made the signature vouches for itself.
CheckReceiptOwnKey ==
    Check("receipt",
          Subject.bodySignature = Signature(Subject.bodySignature.public, Subject.body),
          "hash", Result("INVALID", "Service receipt"))

CheckReceipt ==
    Check("receipt", Subject.bodySignature = Signature(Trusted, Subject.body), "hash",
          Result("INVALID", "Service receipt"))

CheckHash ==
    Check("hash",
          /\ Hash(Subject.event) = Subject.eventHash
          /\ Hash(Subject.event) = Subject.body.eventHash,
          "binding", Result("INVALID", "Event hash"))

CheckBinding ==
    Check("binding",
          /\ Subject.body.event = Subject.event.id /\ Subject.body.org = Subject.event.org
          /\ Subject.body.agent = Subject.event.agent /\ Subject.body.key = Subject.event.key,
          "fingerprint", Result("INVALID", "Evidence bundle"))

CheckFingerprint ==
    Check("fingerprint", Fingerprint(Subject.agentPublic) = Subject.body.fingerprint,
          "signature", Result("INVALID", "Agent key fingerprint"))

CheckSignature ==
    Check("signature", Subject.signature = Signature(Subject.agentPublic, Subject.event),
          "context", Result("INVALID", "Agent signature"))

ContextHolds ==
    SponsorHolds(Subject.event, Subject.body) /\ GrantHolds(Subject.event, Subject.body)

\* Mutant of AfterCore: a linked predecessor is believed without its own core checks.
AfterCoreLink ==
    IF bundle.predecessor = Null THEN Finish(Result("VALID", "Runtime chain")) /\ UNCHANGED inHand
    ELSE Proceed("link") /\ inHand' = "predecessor"

\* Mutant of AfterCore: a predecessor is taken to be there.
AfterCoreAlways ==
    \/ /\ inHand = "bundle"
       /\ Proceed("resolve")
       /\ inHand' = "predecessor"
    \/ /\ inHand = "predecessor"
       /\ Proceed("link")
       /\ UNCHANGED inHand

\* On to the predecessor, to the link, or to a verdict that says the chain is
\* not verified.
AfterCore ==
    \/ /\ bundle.predecessor = Null
       /\ Finish(Result("VALID", "Runtime chain"))
       /\ UNCHANGED inHand
    \/ /\ bundle.predecessor # Null /\ inHand = "bundle"
       /\ Proceed("resolve")
       /\ inHand' = "predecessor"
    \/ /\ inHand = "predecessor"
       /\ Proceed("link")
       /\ UNCHANGED inHand

\* The end of _verify_core.
CheckContext ==
    /\ pc = "context"
    /\ IF ContextHolds THEN AfterCore
       ELSE Finish(Result("INVALID", "Evidence bundle")) /\ UNCHANGED inHand
    /\ UNCHANGED <<bundle, trust, earlier>>

\* _verify_link: the chain line of the report names the link.
CheckLink ==
    /\ pc = "link"
    /\ Finish(Result(IF /\ Subject.event.org = bundle.event.org
                        /\ Subject.event.agent = bundle.event.agent
                        /\ Subject.event.runtime = bundle.event.runtime
                        /\ Subject.event.sequence = bundle.event.sequence - 1
                        /\ Subject.eventHash = bundle.event.prev
                     THEN "VALID" ELSE "INVALID",
                     "Runtime chain link"))
    /\ Stay

\* A second run on the same bundle, with the trust file brought up to date.
VerifyAgain ==
    /\ pc = "done" /\ earlier = Null
    /\ earlier' = [trust |-> trust, result |-> result]
    /\ trust' \in TrustFiles
    /\ pc' = "parse" /\ inHand' = "bundle" /\ result' = NoResult
    /\ UNCHANGED bundle

VerifyCore ==
    \/ ResolveKey \/ MatchMetadata \/ CheckReceipt \/ CheckHash \/ CheckBinding
    \/ CheckFingerprint \/ CheckSignature \/ CheckContext

Next ==
    \/ Parse \/ CheckReceiptVersions \/ ValidateBundle \/ LoadTrust
    \/ VerifyCore \/ CheckLink
    \/ VerifyAgain

Spec == Init /\ [][Next]_vars
-----------------------------------------------------------------------------
(* Properties. *)

\* The trust file names nothing but keys of the service, under their own key_id.
IsHonest(t) ==
    t.given /\ t.wellFormed =>
        \A s \in DOMAIN t.keys : s \in DOMAIN ServiceKeys /\ t.keys[s] = ServiceKeys[s]

SaysValid == pc = "done" /\ result.verdict = "VALID"

\* VALID under the service's keys means that the agent signed this very event
\* and that the service issued this very receipt, for it: no mixture of parts
\* of genuine bundles, and nothing signed by a stranger, gets through.
ValidIsGenuine ==
    SaysValid /\ IsHonest(trust) =>
        /\ bundle.event \in Signed
        /\ bundle.body \in Issued
        /\ IsReceiptFor(bundle.body, bundle.event, bundle.agentPublic)

Moments(record) == {t \in Times : record.from <= t /\ (record.until = Null \/ t < record.until)}

\* What a receipt's context says: the sponsor answered for the agent when the
\* event occurred, and the grant, which the sponsor could give at no moment but
\* their own, covered the action at that time.
Covers(body, event) ==
    /\ body.sponsor # Null =>
           /\ <<body.sponsorId, body.userId>> = <<body.sponsor.id, body.sponsor.user>>
           /\ <<body.sponsor.org, body.sponsor.agent>> = <<event.org, event.agent>>
           /\ event.occurred \in Moments(body.sponsor)
    /\ body.grant # Null =>
           /\ body.sponsor # Null /\ body.grant.sponsor = body.sponsorId
           /\ <<body.grantId, body.capabilities>> = <<body.grant.id, body.grant.capabilities>>
           /\ <<body.grant.org, body.grant.agent>> = <<event.org, event.agent>>
           /\ event.occurred \in Moments(body.grant)
           /\ Moments(body.grant) \subseteq Moments(body.sponsor)
           /\ \E i \in DOMAIN body.capabilities : body.capabilities[i] = event.action

\* VALID is never said of an action outside the context its receipt records.
ContextCovers == SaysValid => Covers(bundle.body, bundle.event)

\* The predecessor an agent signed for an event.
Predecessors(event) ==
    {e \in Signed : /\ e.agent = event.agent /\ e.runtime = event.runtime
                    /\ e.sequence = event.sequence - 1}

\* The chain link is reported only of the one event that its agent signed right
\* before this one in its runtime, and never without a predecessor.
LinkIsGenuine ==
    SaysValid /\ IsHonest(trust) =>
        IF bundle.predecessor = Null THEN result.label = "Runtime chain"
        ELSE /\ result.label = "Runtime chain link"
             /\ Predecessors(bundle.event) = {bundle.predecessor.event}

IsGenuine(b) ==
    /\ b.parses /\ WellFormed(b)
    /\ b.event \in Signed /\ b.eventHash = Hash(b.event)
    /\ b.signature = Signature(b.agentPublic, b.event)
    /\ b.body \in Issued /\ IsReceiptFor(b.body, b.event, b.agentPublic)
    /\ b.bodySignature = Signature(ServiceKeys[b.body.serviceKey], b.body)
    /\ b.metadata = [id |-> b.body.serviceKey, public |-> ServiceKeys[b.body.serviceKey]]
    /\ Covers(b.body, b.event)

\* Genuine evidence is VALID for whoever has the service's keys, whatever gaps
\* and nulls its context has: the checks do not ask more than Covers does.
GenuineIsValid ==
    /\ pc = "done" /\ IsHonest(trust) /\ DOMAIN trust.keys = DOMAIN ServiceKeys
    /\ IsGenuine(bundle)
    /\ bundle.predecessor # Null => /\ IsGenuine(bundle.predecessor)
                                    /\ bundle.predecessor.predecessor = Null
                                    /\ bundle.predecessor.event \in Predecessors(bundle.event)
    => result.verdict = "VALID"

Extends(new, old) ==
    old.given /\ old.wellFormed =>
        /\ new.given /\ new.wellFormed
        /\ \A s \in DOMAIN old.keys : s \in DOMAIN new.keys /\ new.keys[s] = old.keys[s]

\* A verdict is final, UNKNOWN is not: a trust file with more keys in it changes
\* neither VALID nor INVALID, nor the reason that is reported, so evidence is
\* never called INVALID merely because a key is not known yet.
VerdictIsStable ==
    /\ pc = "done" /\ earlier # Null
    /\ earlier.result.verdict # "UNKNOWN" /\ Extends(trust, earlier.trust)
    => result = earlier.result
============================================================================
