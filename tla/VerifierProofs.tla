--------------------------- MODULE VerifierProofs ---------------------------
(***************************************************************************)
(* Theorems about Verifier, for every set of bundles and trust files that  *)
(* satisfies its assumptions.  The inductive invariant collects what the   *)
(* checks passed so far have established of the bundle in hand.            *)
(***************************************************************************)
EXTENDS Verifier, TLAPS

CoreStages == {"resolve", "metadata", "receipt", "hash", "binding", "fingerprint", "signature",
               "context"}

\* What _verify_core establishes of a bundle.
Resolved(b) == b.body.serviceKey \in DOMAIN trust.keys
Attested(b) == b.bodySignature = Signature(trust.keys[b.body.serviceKey], b.body)
Hashed(b) == Hash(b.event) = b.eventHash /\ Hash(b.event) = b.body.eventHash
Bound(b) ==
    /\ b.body.event = b.event.id /\ b.body.org = b.event.org
    /\ b.body.agent = b.event.agent /\ b.body.key = b.event.key
Named(b) == Fingerprint(b.agentPublic) = b.body.fingerprint
AgentSigned(b) == b.signature = Signature(b.agentPublic, b.event)
Fits(b) == SponsorHolds(b.event, b.body) /\ GrantHolds(b.event, b.body)

CoreHolds(b) ==
    /\ Resolved(b) /\ Attested(b) /\ Hashed(b) /\ Bound(b) /\ Named(b) /\ AgentSigned(b)
    /\ Fits(b)

\* The checks of the core that the bundle in hand has passed.
Passed ==
    /\ pc \in CoreStages \ {"resolve"} => Resolved(Subject)
    /\ pc \in {"hash", "binding", "fingerprint", "signature", "context"} => Attested(Subject)
    /\ pc \in {"binding", "fingerprint", "signature", "context"} => Hashed(Subject)
    /\ pc \in {"fingerprint", "signature", "context"} => Bound(Subject)
    /\ pc \in {"signature", "context"} => Named(Subject)
    /\ pc = "context" => AgentSigned(Subject)

LinkHolds ==
    /\ bundle.predecessor.event.agent = bundle.event.agent
    /\ bundle.predecessor.event.runtime = bundle.event.runtime
    /\ bundle.predecessor.event.sequence = bundle.event.sequence - 1

Inputs ==
    /\ bundle \in Bundles
    /\ inHand \in {"bundle", "predecessor"}
    /\ inHand = "predecessor" => bundle.predecessor # Null

\* The trust file was loaded before the core, the bundle was through the core
\* before its predecessor, the predecessor before the link.
InOrder ==
    /\ pc \in CoreStages \cup {"link"} => trust.given /\ trust.wellFormed
    /\ inHand = "predecessor" => CoreHolds(bundle)
    /\ pc = "link" => inHand = "predecessor" /\ CoreHolds(bundle.predecessor)

\* What VALID stands for.
Verified ==
    pc = "done" /\ result.verdict = "VALID" =>
        /\ trust.given /\ trust.wellFormed
        /\ CoreHolds(bundle)
        /\ IF bundle.predecessor = Null THEN result.label = "Runtime chain"
           ELSE /\ result.label = "Runtime chain link"
                /\ CoreHolds(bundle.predecessor) /\ LinkHolds

IInv == Inputs /\ Passed /\ InOrder /\ Verified

\* Before the first check nothing has been passed.
LEMMA InitIInv == Init => IInv
BY DEF Init, IInv, Inputs, Passed, InOrder, Verified, CoreStages

\* A verdict other than VALID is not VALID.
LEMMA NotValid ==
  ASSUME NEW label
  PROVE  /\ Result("INVALID", label).verdict # "VALID"
         /\ Result("UNKNOWN", label).verdict # "VALID"
BY DEF Result

\* A check that does not go on ends the run with something else than VALID.
LEMMA CheckEnds ==
  ASSUME NEW stage, NEW holds, NEW next, NEW label,
         NEW verdict \in {"INVALID", "UNKNOWN"},
         Check(stage, holds, next, Result(verdict, label))
  PROVE  /\ pc = stage
         /\ (pc' = next /\ holds) \/ (pc' = "done" /\ result'.verdict # "VALID")
BY NotValid DEF Check, Proceed, Finish

\* A check of the core that goes on adds what it has asked.
LEMMA CoreStep ==
  ASSUME IInv, \/ ResolveKey \/ MatchMetadata \/ CheckReceipt \/ CheckHash \/ CheckBinding
               \/ CheckFingerprint \/ CheckSignature
  PROVE  IInv'
<1>1. UNCHANGED <<bundle, trust, inHand>> /\ Subject' = Subject
  BY DEF ResolveKey, MatchMetadata, CheckReceipt, CheckHash, CheckBinding, CheckFingerprint,
         CheckSignature, Check, Stay, Subject
<1>2. pc \in CoreStages /\ (pc' \in CoreStages \/ (pc' = "done" /\ result'.verdict # "VALID"))
  <2>1. CASE ResolveKey BY <2>1, CheckEnds DEF ResolveKey, CoreStages
  <2>2. CASE MatchMetadata BY <2>2, CheckEnds DEF MatchMetadata, CoreStages
  <2>3. CASE CheckReceipt BY <2>3, CheckEnds DEF CheckReceipt, CoreStages
  <2>4. CASE CheckHash BY <2>4, CheckEnds DEF CheckHash, CoreStages
  <2>5. CASE CheckBinding BY <2>5, CheckEnds DEF CheckBinding, CoreStages
  <2>6. CASE CheckFingerprint BY <2>6, CheckEnds DEF CheckFingerprint, CoreStages
  <2>7. CASE CheckSignature BY <2>7, CheckEnds DEF CheckSignature, CoreStages
  <2> QED BY <2>1, <2>2, <2>3, <2>4, <2>5, <2>6, <2>7
<1>3. Inputs'
  BY <1>1 DEF IInv, Inputs
<1>4. Passed'
  BY <1>1 DEF IInv, Passed, CoreStages, Resolved, Attested, Hashed, Bound, Named, AgentSigned,
         ResolveKey, MatchMetadata, CheckReceipt, CheckHash, CheckBinding, CheckFingerprint,
         CheckSignature, Check, Proceed, Finish, Trusted
<1>5. InOrder'
  <2>1. CoreHolds(bundle)' = CoreHolds(bundle)
    BY <1>1 DEF CoreHolds, Resolved, Attested, Hashed, Bound, Named, AgentSigned, Fits
  <2> QED BY <1>1, <1>2, <2>1 DEF IInv, InOrder, CoreStages
<1>6. Verified'
  BY <1>2 DEF Verified, CoreStages
<1> QED BY <1>3, <1>4, <1>5, <1>6 DEF IInv

\* The checks before the core do not decide for VALID.
LEMMA EntryStep ==
  ASSUME IInv, Parse \/ CheckReceiptVersions \/ ValidateBundle \/ LoadTrust
  PROVE  IInv'
<1>1. UNCHANGED <<bundle, trust, inHand>>
  BY DEF Parse, CheckReceiptVersions, ValidateBundle, LoadTrust, Check, Stay
<1>2. /\ \/ pc' \in {"version", "schema", "trust", "resolve"}
         \/ pc' = "done" /\ result'.verdict # "VALID"
      /\ pc' = "resolve" => trust.given /\ trust.wellFormed
  <2>1. CASE Parse BY <2>1, NotValid DEF Parse, Check, Proceed, Finish
  <2>2. CASE CheckReceiptVersions BY <2>2, NotValid DEF CheckReceiptVersions, Check, Proceed, Finish
  <2>3. CASE ValidateBundle BY <2>3, NotValid DEF ValidateBundle, Check, Proceed, Finish
  <2>4. CASE LoadTrust BY <2>4, NotValid DEF LoadTrust, Check, Proceed, Finish
  <2> QED BY <2>1, <2>2, <2>3, <2>4
<1>3. Inputs'
  BY <1>1 DEF IInv, Inputs
<1>4. Passed'
  BY <1>2 DEF Passed, CoreStages
<1>5. InOrder'
  <2>1. CoreHolds(bundle)' = CoreHolds(bundle)
    BY <1>1 DEF CoreHolds, Resolved, Attested, Hashed, Bound, Named, AgentSigned, Fits
  <2> QED BY <1>1, <1>2, <2>1 DEF IInv, InOrder, CoreStages
<1>6. Verified'
  BY <1>2 DEF Verified
<1> QED BY <1>3, <1>4, <1>5, <1>6 DEF IInv

\* The last check of the core completes it for the bundle in hand.
LEMMA ContextStep == ASSUME IInv, CheckContext PROVE IInv'
<1>1. UNCHANGED <<bundle, trust>> /\ pc = "context"
  BY DEF CheckContext
<1>2. Inputs'
  BY <1>1 DEF CheckContext, AfterCore, IInv, Inputs
<1>3. /\ CoreHolds(bundle)' = CoreHolds(bundle)
      /\ CoreHolds(bundle.predecessor)' = CoreHolds(bundle.predecessor)
  BY <1>1 DEF CoreHolds, Resolved, Attested, Hashed, Bound, Named, AgentSigned, Fits
<1>4. trust.given /\ trust.wellFormed /\ (inHand = "predecessor" => CoreHolds(bundle))
  BY <1>1 DEF IInv, InOrder, CoreStages
<1>5. CASE ~ContextHolds
  <2>1. pc' = "done" /\ result'.verdict # "VALID" /\ inHand' = inHand
    BY <1>5, NotValid DEF CheckContext, Finish
  <2> QED BY <1>1, <1>2, <1>3, <1>4, <2>1 DEF IInv, Passed, InOrder, Verified, CoreStages
<1>6. CASE ContextHolds
  <2>1. CoreHolds(Subject)
    BY <1>1, <1>6 DEF IInv, Passed, CoreStages, CoreHolds, Fits, ContextHolds
  <2>2. CASE bundle.predecessor = Null
    <3>1. /\ pc' = "done" /\ result' = Result("VALID", "Runtime chain") /\ inHand' = inHand
          /\ inHand = "bundle"
      BY <1>6, <2>2 DEF CheckContext, AfterCore, Finish, IInv, Inputs
    <3>2. CoreHolds(bundle)
      BY <2>1, <3>1 DEF Subject
    <3> QED BY <1>1, <1>2, <1>3, <1>4, <2>2, <3>1, <3>2
          DEF IInv, Passed, InOrder, Verified, CoreStages, Result
  <2>3. CASE bundle.predecessor # Null /\ inHand = "bundle"
    <3>1. pc' = "resolve" /\ inHand' = "predecessor"
      BY <1>6, <2>3 DEF CheckContext, AfterCore, Proceed
    <3>2. CoreHolds(bundle)
      BY <2>1, <2>3 DEF Subject
    <3> QED BY <1>1, <1>2, <1>3, <1>4, <3>1, <3>2 DEF IInv, Passed, InOrder, Verified, CoreStages
  <2>4. CASE bundle.predecessor # Null /\ inHand = "predecessor"
    <3>1. pc' = "link" /\ inHand' = "predecessor"
      BY <1>6, <2>4 DEF CheckContext, AfterCore, Proceed
    <3>2. CoreHolds(bundle.predecessor)
      BY <2>1, <2>4 DEF Subject
    <3> QED BY <1>1, <1>2, <1>3, <1>4, <2>4, <3>1, <3>2
          DEF IInv, Passed, InOrder, Verified, CoreStages
  <2> QED BY <2>2, <2>3, <2>4 DEF IInv, Inputs
<1> QED BY <1>5, <1>6

\* The link is checked between two bundles that are both through the core.
LEMMA LinkStep == ASSUME IInv, CheckLink PROVE IInv'
<1>1. /\ UNCHANGED <<bundle, trust, inHand>>
      /\ pc = "link" /\ pc' = "done" /\ result'.label = "Runtime chain link"
      /\ trust.given /\ trust.wellFormed
      /\ inHand = "predecessor" /\ bundle.predecessor # Null
  BY DEF CheckLink, Finish, Result, Stay, IInv, InOrder, Inputs
<1>2. /\ CoreHolds(bundle)' = CoreHolds(bundle)
      /\ CoreHolds(bundle.predecessor)' = CoreHolds(bundle.predecessor)
  BY <1>1 DEF CoreHolds, Resolved, Attested, Hashed, Bound, Named, AgentSigned, Fits
<1>3. result'.verdict = "VALID" => LinkHolds'
  BY <1>1 DEF CheckLink, Finish, Result, LinkHolds, Subject
<1>4. Inputs' /\ Passed' /\ InOrder'
  BY <1>1, <1>2 DEF IInv, Inputs, Passed, InOrder, CoreStages
<1>5. Verified'
  BY <1>1, <1>2, <1>3 DEF IInv, InOrder, Verified
<1> QED BY <1>4, <1>5 DEF IInv

\* The invariant is preserved: a second run starts over.
LEMMA StepIInv == ASSUME IInv, [Next]_vars PROVE IInv'
<1>1. CASE VerifyAgain
  BY <1>1 DEF VerifyAgain, IInv, Inputs, Passed, InOrder, Verified, CoreStages
<1>2. CASE UNCHANGED vars
  BY <1>2 DEF vars, IInv, Inputs, Passed, InOrder, Verified, CoreHolds, LinkHolds, Resolved,
              Attested, Hashed, Bound, Named, AgentSigned, Fits, Subject
<1> QED BY <1>1, <1>2, CoreStep, EntryStep, ContextStep, LinkStep DEF Next, VerifyCore

\* VALID is only said of bundles that are through every check.
THEOREM Invariant == Spec => []IInv
<1> QED BY InitIInv, StepIInv, PTL DEF Spec
-----------------------------------------------------------------------------
\* With an honest trust file, whatever is through the core was signed by the
\* agent and receipted by the service.
LEMMA CoreIsGenuine ==
  ASSUME NEW b \in WithPredecessors, CoreHolds(b),
         IsHonest(trust), trust.given, trust.wellFormed
  PROVE  b.event \in Signed /\ b.body \in Issued /\ IsReceiptFor(b.body, b.event, b.agentPublic)
<1>1. /\ b.body.serviceKey \in DOMAIN ServiceKeys
      /\ trust.keys[b.body.serviceKey] = ServiceKeys[b.body.serviceKey]
  BY DEF CoreHolds, Resolved, IsHonest
<1>2. /\ b.bodySignature.public = ServiceKeys[b.body.serviceKey]
      /\ b.bodySignature.message = b.body
  BY <1>1 DEF CoreHolds, Attested, Signature
<1>3. b.body \in Issued
  BY <1>1, <1>2, SignersAssumption DEF SignersAssumption
<1>4. IsReceiptFor(b.body, b.event, b.agentPublic)
  BY DEF CoreHolds, Hashed, Bound, Named, IsReceiptFor
<1>5. PICK event \in Signed, public \in AgentKeys : IsReceiptFor(b.body, event, public)
  BY <1>3, SignersAssumption DEF SignersAssumption
<1>6. b.event = event
  <2>1. Hash(b.event) = Hash(event)
    BY <1>4, <1>5 DEF IsReceiptFor
  <2> QED BY <2>1 DEF Hash
<1> QED BY <1>3, <1>4, <1>5, <1>6

\* VALID under the service's keys is said of genuine evidence only.
THEOREM ValidHolds == Spec => []ValidIsGenuine
<1>1. IInv => ValidIsGenuine
  BY CoreIsGenuine DEF IInv, Inputs, Verified, ValidIsGenuine, SaysValid, WithPredecessors
<1> QED BY <1>1, Invariant, PTL

\* VALID reports a chain link of the agent's own previous event only.
THEOREM LinkReported == Spec => []LinkIsGenuine
<1>1. ASSUME IInv, SaysValid, IsHonest(trust), bundle.predecessor # Null
      PROVE  Predecessors(bundle.event) = {bundle.predecessor.event}
  <2>1. /\ trust.given /\ trust.wellFormed /\ LinkHolds
        /\ CoreHolds(bundle) /\ CoreHolds(bundle.predecessor)
        /\ bundle.predecessor \in WithPredecessors
    BY <1>1 DEF IInv, Inputs, Verified, SaysValid, WithPredecessors
  <2>2. bundle.predecessor.event \in Signed
    BY <1>1, <2>1, CoreIsGenuine
  <2>3. bundle.predecessor.event \in Predecessors(bundle.event)
    BY <2>1, <2>2 DEF LinkHolds, Predecessors
  <2>4. ASSUME NEW e \in Predecessors(bundle.event) PROVE e = bundle.predecessor.event
    BY <2>2, <2>3, <2>4, ChainAssumption DEF ChainAssumption, Predecessors
  <2> QED BY <2>3, <2>4
<1>2. IInv => LinkIsGenuine
  BY <1>1 DEF LinkIsGenuine, IInv, Verified, SaysValid
<1> QED BY <1>2, Invariant, PTL

\* An interval within another has no moment that the other has not.
LEMMA MomentsWithin ==
  ASSUME NEW grant, NEW sponsor, Within(grant, sponsor), Times \subseteq Int,
         grant.from \in Times, grant.until \in Times \cup {Null},
         sponsor.from \in Times, sponsor.until \in Times \cup {Null}
  PROVE  Moments(grant) \subseteq Moments(sponsor)
<1>1. SUFFICES ASSUME NEW t \in Times, t \in Moments(grant)
               PROVE  sponsor.from <= t /\ (sponsor.until = Null \/ t < sponsor.until)
  BY DEF Moments
<1>2. t \in Int /\ grant.from \in Int /\ sponsor.from \in Int
  OBVIOUS
<1>3. sponsor.from <= t
  BY <1>1, <1>2 DEF Within, Moments
<1>4. CASE sponsor.until # Null
  <2>1. grant.until # Null /\ grant.until <= sponsor.until
    BY <1>4 DEF Within
  <2>2. grant.until \in Int /\ sponsor.until \in Int
    BY <1>4, <2>1
  <2>3. t < grant.until
    BY <1>1, <2>1 DEF Moments
  <2> QED BY <1>2, <1>3, <2>1, <2>2, <2>3
<1> QED BY <1>3, <1>4

\* VALID is said only of actions inside the context of the receipt.
THEOREM ContextCovered == Spec => []ContextCovers
<1>1. ASSUME IInv, SaysValid PROVE Covers(bundle.body, bundle.event)
  <2> DEFINE body == bundle.body
             event == bundle.event
  <2>1. SponsorHolds(event, body) /\ GrantHolds(event, body) /\ bundle \in WithPredecessors
    BY <1>1 DEF IInv, Inputs, Verified, SaysValid, CoreHolds, Fits, WithPredecessors
  <2>2. Times \subseteq Int /\ event.occurred \in Times
    BY <2>1, TimesAssumption DEF TimesAssumption
  <2>3. ASSUME body.sponsor # Null
        PROVE  /\ body.sponsor.from \in Times /\ body.sponsor.until \in Times \cup {Null}
               /\ event.occurred \in Moments(body.sponsor)
    BY <2>1, <2>2, <2>3, TimesAssumption DEF TimesAssumption, SponsorHolds, Contains, Moments
  <2>4. ASSUME body.grant # Null
        PROVE  /\ body.grant.from \in Times /\ body.grant.until \in Times \cup {Null}
               /\ event.occurred \in Moments(body.grant)
               /\ body.sponsor # Null
               /\ Moments(body.grant) \subseteq Moments(body.sponsor)
    <3>1. body.grant.from \in Times /\ body.grant.until \in Times \cup {Null}
      BY <2>1, <2>4, TimesAssumption DEF TimesAssumption
    <3>2. event.occurred \in Moments(body.grant) /\ body.sponsor # Null
      BY <2>1, <2>2, <2>4 DEF GrantHolds, Contains, Moments
    <3>3. Within(body.grant, body.sponsor)
      BY <2>1, <2>4 DEF GrantHolds
    <3> QED BY <2>2, <2>3, <3>1, <3>2, <3>3, MomentsWithin
  <2> QED BY <2>1, <2>3, <2>4 DEF Covers, SponsorHolds, GrantHolds
<1> QED BY <1>1, Invariant, PTL DEF ContextCovers
-----------------------------------------------------------------------------
(* The verdict as a function of the bundle and the trust file: what the     *)
(* checks from each stage on decide.                                        *)

Refused(label) == Result("INVALID", label)

\* The link, when both cores are through.
FromLink(b) ==
    Result(IF /\ b.predecessor.event.org = b.event.org
              /\ b.predecessor.event.agent = b.event.agent
              /\ b.predecessor.event.runtime = b.event.runtime
              /\ b.predecessor.event.sequence = b.event.sequence - 1
              /\ b.predecessor.eventHash = b.event.prev
           THEN "VALID" ELSE "INVALID",
           "Runtime chain link")

\* The core of b, from each of its stages; after the core it is "next".
FromContext(b, next) == IF Fits(b) THEN next ELSE Refused("Evidence bundle")
FromSignature(b, next) ==
    IF AgentSigned(b) THEN FromContext(b, next) ELSE Refused("Agent signature")
FromFingerprint(b, next) ==
    IF Named(b) THEN FromSignature(b, next) ELSE Refused("Agent key fingerprint")
FromBinding(b, next) == IF Bound(b) THEN FromFingerprint(b, next) ELSE Refused("Evidence bundle")
FromHash(b, next) == IF Hashed(b) THEN FromBinding(b, next) ELSE Refused("Event hash")
FromReceipt(b, t, next) ==
    IF b.bodySignature = Signature(t.keys[b.body.serviceKey], b.body) THEN FromHash(b, next)
    ELSE Refused("Service receipt")
FromMetadata(b, t, next) ==
    IF /\ b.metadata.id = b.body.serviceKey
       /\ b.metadata.public = t.keys[b.body.serviceKey]
    THEN FromReceipt(b, t, next) ELSE Refused("Evidence bundle")
FromResolve(b, t, next) ==
    IF b.body.serviceKey \in DOMAIN t.keys THEN FromMetadata(b, t, next)
    ELSE Result("UNKNOWN", "Service receipt")

\* The predecessor, when the bundle's own core is through.
FromPredecessor(b, t) ==
    IF b.predecessor = Null THEN Result("VALID", "Runtime chain")
    ELSE FromResolve(b.predecessor, t, FromLink(b))

FromTrust(b, t) ==
    IF t.given /\ t.wellFormed THEN FromResolve(b, t, FromPredecessor(b, t))
    ELSE Result("UNKNOWN", "Service receipt")
FromSchema(b, t) ==
    IF /\ WellFormed(b)
       /\ b.predecessor # Null => /\ WellFormed(b.predecessor)
                                  /\ b.predecessor.predecessor = Null
    THEN FromTrust(b, t) ELSE Refused("Evidence bundle")
FromVersion(b, t) ==
    IF /\ ReceiptVersionKnown(b)
       /\ b.predecessor # Null => ReceiptVersionKnown(b.predecessor)
    THEN FromSchema(b, t) ELSE Result("UNKNOWN", "Service receipt")
Verdict(b, t) ==
    IF b.parses /\ b.version = 2 THEN FromVersion(b, t) ELSE Refused("Evidence bundle")

\* What follows the core of the bundle in hand.
AfterSubject == IF inHand = "bundle" THEN FromPredecessor(bundle, trust) ELSE FromLink(bundle)

\* What the stages from pc on decide is the verdict on the whole.
Decides(outcome) == Verdict(bundle, trust) = outcome
Deciding ==
    /\ pc = "version" => Decides(FromVersion(bundle, trust))
    /\ pc = "schema" => Decides(FromSchema(bundle, trust))
    /\ pc = "trust" => Decides(FromTrust(bundle, trust))
    /\ pc = "resolve" => Decides(FromResolve(Subject, trust, AfterSubject))
    /\ pc = "metadata" => Decides(FromMetadata(Subject, trust, AfterSubject))
    /\ pc = "receipt" => Decides(FromReceipt(Subject, trust, AfterSubject))
    /\ pc = "hash" => Decides(FromHash(Subject, AfterSubject))
    /\ pc = "binding" => Decides(FromBinding(Subject, AfterSubject))
    /\ pc = "fingerprint" => Decides(FromFingerprint(Subject, AfterSubject))
    /\ pc = "signature" => Decides(FromSignature(Subject, AfterSubject))
    /\ pc = "context" => Decides(FromContext(Subject, AfterSubject))
    /\ pc = "link" => Decides(FromLink(bundle))
    /\ pc = "done" => Decides(result)
    /\ pc \in {"parse", "version", "schema", "trust"} => inHand = "bundle"
    /\ pc = "link" => inHand = "predecessor"
    /\ earlier # Null => earlier.result = Verdict(bundle, earlier.trust)

DInv == TypeOK /\ Deciding

\* Every outcome of a check is a result.
LEMMA ResultsTyped ==
  ASSUME NEW verdict \in {"VALID", "INVALID", "UNKNOWN"}, NEW label \in Labels
  PROVE  Result(verdict, label) \in Results
BY DEF Result, Results

\* Nothing has been decided before the first check.
LEMMA InitDInv == Init => DInv
BY DEF Init, DInv, TypeOK, Deciding

\* The checks before the core, one by one.
LEMMA EntryDecides ==
  ASSUME DInv, Parse \/ CheckReceiptVersions \/ ValidateBundle \/ LoadTrust
  PROVE  Deciding'
<1> USE DEF DInv, Deciding, Decides, Check, Proceed, Finish, Stay, Subject, AfterSubject
<1>1. CASE Parse
  BY <1>1 DEF Parse, Verdict, Refused
<1>2. CASE CheckReceiptVersions
  BY <1>2 DEF CheckReceiptVersions, FromVersion
<1>3. CASE ValidateBundle
  BY <1>3 DEF ValidateBundle, FromSchema, Refused
<1>4. CASE LoadTrust
  BY <1>4 DEF LoadTrust, FromTrust
<1> QED BY <1>1, <1>2, <1>3, <1>4

\* The checks of the core, one by one.
LEMMA CoreDecides ==
  ASSUME DInv, \/ ResolveKey \/ MatchMetadata \/ CheckReceipt \/ CheckHash \/ CheckBinding
               \/ CheckFingerprint \/ CheckSignature
  PROVE  Deciding'
<1>1. /\ UNCHANGED <<bundle, trust, inHand, earlier>> /\ Subject' = Subject
      /\ AfterSubject' = AfterSubject
  BY DEF ResolveKey, MatchMetadata, CheckReceipt, CheckHash, CheckBinding, CheckFingerprint,
         CheckSignature, Check, Stay, Subject, AfterSubject
<1> USE DEF DInv, Deciding, Decides, Check, Proceed, Finish, Trusted, Refused
<1>2. CASE ResolveKey
  BY <1>1, <1>2 DEF ResolveKey, FromResolve
<1>3. CASE MatchMetadata
  BY <1>1, <1>3 DEF MatchMetadata, FromMetadata
<1>4. CASE CheckReceipt
  BY <1>1, <1>4 DEF CheckReceipt, FromReceipt
<1>5. CASE CheckHash
  BY <1>1, <1>5 DEF CheckHash, FromHash, Hashed
<1>6. CASE CheckBinding
  BY <1>1, <1>6 DEF CheckBinding, FromBinding, Bound
<1>7. CASE CheckFingerprint
  BY <1>1, <1>7 DEF CheckFingerprint, FromFingerprint, Named
<1>8. CASE CheckSignature
  BY <1>1, <1>8 DEF CheckSignature, FromSignature, AgentSigned
<1> QED BY <1>2, <1>3, <1>4, <1>5, <1>6, <1>7, <1>8

\* The end of a core leads to the predecessor, to the link or to the end.
LEMMA ContextDecides == ASSUME DInv, CheckContext PROVE Deciding'
<1>1. /\ UNCHANGED <<bundle, trust, earlier>> /\ pc = "context"
      /\ Decides(FromContext(Subject, AfterSubject)) /\ (ContextHolds <=> Fits(Subject))
      /\ inHand = "predecessor" => bundle.predecessor # Null
      /\ inHand \in {"bundle", "predecessor"}
  BY DEF CheckContext, DInv, Deciding, TypeOK, ContextHolds, Fits
<1> USE DEF DInv, Deciding, Decides
<1>2. CASE ~ContextHolds
  BY <1>1, <1>2 DEF CheckContext, Finish, FromContext, Refused
<1>3. CASE ContextHolds
  <2>1. Decides(AfterSubject)
    BY <1>1, <1>3 DEF FromContext
  <2>2. CASE bundle.predecessor = Null
    BY <1>1, <1>3, <2>1, <2>2 DEF CheckContext, AfterCore, Finish, AfterSubject, FromPredecessor
  <2>3. CASE bundle.predecessor # Null /\ inHand = "bundle"
    BY <1>1, <1>3, <2>1, <2>3
       DEF CheckContext, AfterCore, Proceed, AfterSubject, FromPredecessor, Subject
  <2>4. CASE bundle.predecessor # Null /\ inHand = "predecessor"
    BY <1>1, <1>3, <2>1, <2>4 DEF CheckContext, AfterCore, Proceed, AfterSubject
  <2> QED BY <1>1, <2>2, <2>3, <2>4
<1> QED BY <1>2, <1>3

\* The link decides, and a second run starts over with the verdict of the first.
LEMMA EndDecides == ASSUME DInv, CheckLink \/ VerifyAgain PROVE Deciding'
<1>1. CASE CheckLink
  BY <1>1 DEF CheckLink, Finish, Stay, DInv, Deciding, Decides, Subject, FromLink
<1>2. CASE VerifyAgain
  BY <1>2 DEF VerifyAgain, DInv, Deciding, Decides
<1> QED BY <1>1, <1>2

\* The stages and results are the ones there are.
LEMMA TypesStep == ASSUME DInv, Next PROVE TypeOK'
<1>1. /\ \A label \in Labels :
            /\ Result("VALID", label) \in Results
            /\ Result("INVALID", label) \in Results
            /\ Result("UNKNOWN", label) \in Results
      /\ {"Evidence bundle", "Service receipt", "Event hash", "Agent key fingerprint",
          "Agent signature", "Runtime chain link", "Runtime chain"} \subseteq Labels
  BY ResultsTyped DEF Labels
<1> USE DEF DInv, TypeOK
<1>2. CASE Parse \/ CheckReceiptVersions \/ ValidateBundle \/ LoadTrust
  BY <1>1, <1>2 DEF Parse, CheckReceiptVersions, ValidateBundle, LoadTrust, Check, Proceed, Finish,
                    Stay
<1>3. CASE ResolveKey \/ MatchMetadata \/ CheckReceipt \/ CheckHash
  BY <1>1, <1>3 DEF ResolveKey, MatchMetadata, CheckReceipt, CheckHash, Check, Proceed, Finish, Stay
<1>4. CASE CheckBinding \/ CheckFingerprint \/ CheckSignature
  BY <1>1, <1>4 DEF CheckBinding, CheckFingerprint, CheckSignature, Check, Proceed, Finish, Stay
<1>5. CASE CheckContext
  BY <1>1, <1>5 DEF CheckContext, AfterCore, Proceed, Finish
<1>6. CASE CheckLink
  BY <1>1, <1>6 DEF CheckLink, Finish, Stay
<1>7. CASE VerifyAgain
  BY <1>7 DEF VerifyAgain
<1> QED BY <1>2, <1>3, <1>4, <1>5, <1>6, <1>7 DEF Next, VerifyCore

\* Every step keeps it.
LEMMA StepDInv == ASSUME DInv, [Next]_vars PROVE DInv'
<1>1. CASE UNCHANGED vars
  BY <1>1 DEF vars, DInv, TypeOK, Deciding, Decides, Subject, AfterSubject
<1>2. CASE Next
  BY <1>2, TypesStep, EntryDecides, CoreDecides, ContextDecides, EndDecides
     DEF Next, VerifyCore, DInv
<1> QED BY <1>1, <1>2

\* verify.py, verify_bundle: the checks, made one at a time on the bundle and on
\* its predecessor, compute Verdict, and every run has the types it should.
THEOREM Decided == Spec => []DInv
BY InitDInv, StepDInv, PTL DEF Spec

\* Types of the run.
THEOREM TypesHold == Spec => []TypeOK
<1>1. DInv => TypeOK
  BY DEF DInv
<1> QED BY <1>1, Decided, PTL
-----------------------------------------------------------------------------
\* With more keys the core of a bundle decides as it did, unless a key was
\* not known, and goes on to the same, if what follows does.
LEMMA CoreStable ==
  ASSUME NEW b, NEW old, NEW new, NEW before, NEW after,
         Extends(new, old), old.given, old.wellFormed,
         before.verdict # "UNKNOWN" => after = before,
         FromResolve(b, old, before).verdict # "UNKNOWN"
  PROVE  FromResolve(b, new, after) = FromResolve(b, old, before)
<1>1. b.body.serviceKey \in DOMAIN old.keys
  BY DEF FromResolve, Result
<1>2. /\ b.body.serviceKey \in DOMAIN new.keys
      /\ new.keys[b.body.serviceKey] = old.keys[b.body.serviceKey]
  BY <1>1 DEF Extends
<1>3. FromMetadata(b, old, before).verdict # "UNKNOWN"
  BY <1>1 DEF FromResolve
<1>4. FromHash(b, before).verdict # "UNKNOWN" => FromHash(b, after) = FromHash(b, before)
  BY DEF FromHash, FromBinding, FromFingerprint, FromSignature, FromContext
<1>5. FromMetadata(b, new, after) = FromMetadata(b, old, before)
  BY <1>2, <1>3, <1>4 DEF FromMetadata, FromReceipt
<1> QED BY <1>1, <1>2, <1>5 DEF FromResolve

\* So does the whole.
LEMMA VerdictStable ==
  ASSUME NEW b, NEW old, NEW new, Extends(new, old), Verdict(b, old).verdict # "UNKNOWN"
  PROVE  Verdict(b, new) = Verdict(b, old)
<1>1. FromTrust(b, old).verdict # "UNKNOWN" => FromTrust(b, new) = FromTrust(b, old)
  <2>1. SUFFICES ASSUME FromTrust(b, old).verdict # "UNKNOWN"
                 PROVE  FromTrust(b, new) = FromTrust(b, old)
    OBVIOUS
  <2>2. old.given /\ old.wellFormed
    BY <2>1 DEF FromTrust, Result
  <2>3. new.given /\ new.wellFormed
    BY <2>2 DEF Extends
  <2>4. FromPredecessor(b, old).verdict # "UNKNOWN" => FromPredecessor(b, new) = FromPredecessor(b, old)
    <3>1. CASE b.predecessor = Null
      BY <3>1 DEF FromPredecessor
    <3>2. CASE b.predecessor # Null
      <4> DEFINE p == b.predecessor
                 link == FromLink(b)
      <4>1. /\ FromPredecessor(b, old) = FromResolve(p, old, link)
            /\ FromPredecessor(b, new) = FromResolve(p, new, link)
        BY <3>2 DEF FromPredecessor
      <4> HIDE DEF p, link
      <4>2. FromResolve(p, old, link).verdict # "UNKNOWN" =>
               FromResolve(p, new, link) = FromResolve(p, old, link)
        BY <2>2, CoreStable
      <4> QED BY <4>1, <4>2
    <3> QED BY <3>1, <3>2
  <2>5. FromResolve(b, old, FromPredecessor(b, old)).verdict # "UNKNOWN"
    BY <2>1, <2>2 DEF FromTrust
  <2>6. FromResolve(b, new, FromPredecessor(b, new)) = FromResolve(b, old, FromPredecessor(b, old))
    BY <2>2, <2>4, <2>5, CoreStable
  <2> QED BY <2>2, <2>3, <2>6 DEF FromTrust
<1> QED BY <1>1 DEF Verdict, FromVersion, FromSchema

\* verify.py, verify_bundle: a verdict is final unless it is UNKNOWN, whatever
\* keys the trust file gains, and for any bundle.
THEOREM StableHolds == Spec => []VerdictIsStable
<1>1. DInv => VerdictIsStable
  BY VerdictStable DEF DInv, Deciding, Decides, VerdictIsStable
<1> QED BY <1>1, Decided, PTL
-----------------------------------------------------------------------------
\* An interval that has no moment more than another is within it, if it has any.
LEMMA WithinOfMoments ==
  ASSUME NEW grant, NEW sponsor, NEW now \in Moments(grant), Times \subseteq Int,
         Moments(grant) \subseteq Moments(sponsor),
         grant.from \in Times, grant.until \in Times \cup {Null},
         sponsor.from \in Times, sponsor.until \in Times \cup {Null}
  PROVE  Within(grant, sponsor)
<1>1. /\ now \in Int /\ grant.from \in Int /\ sponsor.from \in Int
      /\ grant.from <= now /\ (grant.until # Null => now < grant.until /\ grant.until \in Int)
      /\ sponsor.until # Null => now < sponsor.until /\ sponsor.until \in Times
  BY DEF Moments
<1>2. grant.from \in Moments(grant)
  BY <1>1 DEF Moments
<1>3. sponsor.from <= grant.from
  BY <1>2 DEF Moments
<1>4. ASSUME sponsor.until # Null
      PROVE  grant.until # Null /\ grant.until <= sponsor.until
  <2>1. sponsor.until \in Times /\ sponsor.until \in Int /\ now < sponsor.until
    BY <1>1, <1>4
  <2>2. sponsor.until \notin Moments(grant)
    BY <1>4, <2>1 DEF Moments
  <2>3. grant.from <= sponsor.until
    BY <1>1, <2>1
  <2>4. grant.until # Null /\ ~ (sponsor.until < grant.until)
    BY <2>1, <2>2, <2>3 DEF Moments
  <2> QED BY <1>1, <2>1, <2>4
<1> QED BY <1>3, <1>4 DEF Within

\* What Covers says of a context is enough for the checks.
LEMMA CoveredFits ==
  ASSUME NEW b \in WithPredecessors, Covers(b.body, b.event)
  PROVE  Fits(b)
<1> DEFINE body == b.body
           event == b.event
<1>1. Times \subseteq Int /\ event.occurred \in Times
  BY TimesAssumption DEF TimesAssumption
<1>2. ASSUME body.sponsor # Null
      PROVE  /\ body.sponsor.from \in Times /\ body.sponsor.until \in Times \cup {Null}
             /\ Contains(body.sponsor, event.occurred)
  BY <1>1, <1>2, TimesAssumption DEF TimesAssumption, Covers, Contains, Moments
<1>3. SponsorHolds(event, body)
  BY <1>2 DEF SponsorHolds, Covers
<1>4. ASSUME body.grant # Null
      PROVE  /\ Contains(body.grant, event.occurred)
             /\ body.sponsor # Null /\ Within(body.grant, body.sponsor)
  <2>1. body.grant.from \in Times /\ body.grant.until \in Times \cup {Null}
    BY <1>4, TimesAssumption DEF TimesAssumption
  <2>2. /\ event.occurred \in Moments(body.grant) /\ body.sponsor # Null
        /\ Moments(body.grant) \subseteq Moments(body.sponsor)
    BY <1>4 DEF Covers
  <2>3. Contains(body.grant, event.occurred)
    BY <2>2 DEF Contains, Moments
  <2>4. Within(body.grant, body.sponsor)
    BY <1>1, <1>2, <2>1, <2>2, WithinOfMoments
  <2> QED BY <2>2, <2>3, <2>4
<1>5. GrantHolds(event, body)
  BY <1>4 DEF GrantHolds, Covers
<1> QED BY <1>3, <1>5 DEF Fits

\* Genuine evidence is through the core, for whoever has the service's keys.
LEMMA GenuineCore ==
  ASSUME NEW b \in WithPredecessors, IsGenuine(b), NEW t, NEW next,
         IsHonest(t), t.given, t.wellFormed, DOMAIN t.keys = DOMAIN ServiceKeys
  PROVE  FromResolve(b, t, next) = next
<1>1. b.body.serviceKey \in DOMAIN t.keys
  BY SignersAssumption DEF IsGenuine, SignersAssumption
<1>2. t.keys[b.body.serviceKey] = ServiceKeys[b.body.serviceKey]
  BY <1>1 DEF IsHonest
<1>3. Fits(b)
  BY CoveredFits DEF IsGenuine
<1>4. Hashed(b) /\ Bound(b) /\ Named(b) /\ AgentSigned(b)
  BY DEF IsGenuine, IsReceiptFor, Hashed, Bound, Named, AgentSigned
<1>5. FromHash(b, next) = next
  BY <1>3, <1>4 DEF FromHash, FromBinding, FromFingerprint, FromSignature, FromContext
<1>6. b.metadata.id = b.body.serviceKey /\ b.metadata.public = t.keys[b.body.serviceKey]
  BY <1>2 DEF IsGenuine
<1>7. b.bodySignature = Signature(t.keys[b.body.serviceKey], b.body)
  BY <1>2 DEF IsGenuine
<1> QED BY <1>1, <1>5, <1>6, <1>7 DEF FromResolve, FromMetadata, FromReceipt

\* verify.py, verify_bundle: no genuine evidence is refused, with or without a
\* predecessor, sponsor and grant, by whoever has the service's keys.
THEOREM GenuineHolds == Spec => []GenuineIsValid
<1>1. ASSUME Inputs, DInv, pc = "done", IsHonest(trust), DOMAIN trust.keys = DOMAIN ServiceKeys,
             IsGenuine(bundle),
             bundle.predecessor # Null =>
                 /\ IsGenuine(bundle.predecessor)
                 /\ bundle.predecessor.predecessor = Null
                 /\ bundle.predecessor.event \in Predecessors(bundle.event)
      PROVE  result.verdict = "VALID"
  <2>1. /\ bundle \in WithPredecessors
        /\ bundle.predecessor # Null => bundle.predecessor \in WithPredecessors
    BY <1>1 DEF Inputs, WithPredecessors
  <2>2. trust.given /\ trust.wellFormed
    <3>1. DOMAIN trust.keys # {}
      BY <1>1, SignersAssumption DEF SignersAssumption, IsGenuine
    <3> QED BY <1>1, <3>1, TrustAssumption DEF TrustAssumption, DInv, TypeOK
  <2>3. FromPredecessor(bundle, trust).verdict = "VALID"
    <3>1. CASE bundle.predecessor = Null
      BY <3>1 DEF FromPredecessor, Result
    <3>2. CASE bundle.predecessor # Null
      <4>1. FromPredecessor(bundle, trust) = FromLink(bundle)
        BY <1>1, <2>1, <2>2, <3>2, GenuineCore DEF FromPredecessor
      <4> DEFINE e == bundle.predecessor.event
                 f == bundle.event
      <4>2. /\ e \in Signed /\ f \in Signed
            /\ e.agent = f.agent /\ e.runtime = f.runtime /\ e.sequence = f.sequence - 1
            /\ bundle.predecessor.eventHash = Hash(e)
        BY <1>1, <3>2 DEF IsGenuine, Predecessors
      <4>3. e.org = f.org /\ f.prev = Hash(e)
        BY <4>2, ChainAssumption DEF ChainAssumption
      <4>4. FromLink(bundle) = Result("VALID", "Runtime chain link")
        BY <4>2, <4>3 DEF FromLink
      <4>5. Result("VALID", "Runtime chain link").verdict = "VALID"
        BY DEF Result
      <4> QED BY <4>1, <4>4, <4>5, Zenon
    <3> QED BY <3>1, <3>2
  <2>4. FromTrust(bundle, trust) = FromPredecessor(bundle, trust)
    BY <1>1, <2>1, <2>2, GenuineCore DEF FromTrust
  <2>5. Verdict(bundle, trust) = FromTrust(bundle, trust)
    BY <1>1 DEF Verdict, FromVersion, FromSchema, IsGenuine, WellFormed, ReceiptVersionKnown
  <2> QED BY <1>1, <2>3, <2>4, <2>5 DEF DInv, Deciding, Decides
<1>2. IInv /\ DInv => GenuineIsValid
  BY <1>1 DEF GenuineIsValid, IInv
<1> QED BY <1>2, Invariant, Decided, PTL
=============================================================================
