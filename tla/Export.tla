------------------------------- MODULE Export -------------------------------
(***************************************************************************)
(* The three builders of sdk/sealstack/export.py: one signed artifact for  *)
(* one event of a runtime, in the format "aerf", "agent-receipts" or       *)
(* "scitt".  An event is its sequence.  A bundle carries an event and, if  *)
(* it has one, its predecessor, which never carries a predecessor itself   *)
(* (verify.py, _validate_bundle).  A member of an artifact is known by its *)
(* name; what it holds is determined by the event, the mapping, the        *)
(* signer, the time of the export and the link, which the abstract receipt *)
(* lists.  The hash of a receipt is the receipt.                           *)
(***************************************************************************)
EXTENDS Integers

CONSTANTS
    ActionOf(_),        \* the action_name of an event
    InCharset(_),       \* this action_name matches AERF_ACTION_RE
    HasInputDigest(_),  \* the event's input_digest is available
    NoMapping           \* no --mapping: subset mode

Formats == {"aerf", "agent-receipts", "scitt"}
NoEvent == 0

\* A chain member that the artifact lacks, and one that says genesis.
Omitted == [link |-> "omitted"]
Genesis == [link |-> "genesis"]
HashOf(receipt) == [link |-> "hash", of |-> receipt]

-----------------------------------------------------------------------------
(* A mapping file has, per format, the members of its section and a table  *)
(* of entries per action; "contradicts" is SANDBOX_SIM without sandboxed.  *)

Entry(mapping, action) ==
    IF mapping = NoMapping THEN {}
    ELSE IF action \in DOMAIN mapping.actions THEN mapping.actions[action]
    ELSE IF "default" \in DOMAIN mapping.actions THEN mapping.actions["default"]
    ELSE {}

SectionFields(format) ==
    CASE format = "aerf" -> {"plan_id"}
      [] format = "agent-receipts" -> {}
      [] format = "scitt" -> {"agent.principal", "governance.sandboxed"}

EntryFields(format) ==
    CASE format = "aerf" -> {"in_policy", "policy_reason"}
      [] format = "agent-receipts" -> {"action.type", "action.risk_level"}
      [] format = "scitt" -> {"action.riskClass", "action.reversible"}

Aliased(e, mapping) == "action" \in Entry(mapping, ActionOf(e))

\* Full mode raises ExportError for a gap, it never falls back to subset.
BuildRaises(format, e, mapping) ==
    /\ mapping # NoMapping
    /\ \/ ~ (SectionFields(format) \subseteq mapping.section)
       \/ ~ (EntryFields(format) \subseteq Entry(mapping, ActionOf(e)))
       \/ format = "aerf" /\ ~ InCharset(ActionOf(e)) /\ ~ Aliased(e, mapping)
       \/ format = "scitt" /\ mapping.contradicts

-----------------------------------------------------------------------------
ChainField(format) ==
    CASE format = "aerf" -> "previous_receipt_hash"
      [] format = "agent-receipts" -> "chain"
      [] format = "scitt" -> "chain.prevHash"

\* AERF has no member for genesis, the others write an explicit null.
LinkMembers(format, link) ==
    IF link = Omitted \/ (format = "aerf" /\ link = Genesis)
    THEN {} ELSE {ChainField(format)}

\* The members written that the format requires and the event decides on; a
\* member whose value the format does not allow is not conformant.
Members(format, e, mapping, link) ==
    LinkMembers(format, link)
        \cup (IF mapping = NoMapping THEN {}
              ELSE SectionFields(format) \cup EntryFields(format))
        \cup (IF format = "aerf" /\ (InCharset(ActionOf(e)) \/ Aliased(e, mapping))
              THEN {"action"} ELSE {})
        \cup (IF format = "scitt" /\ HasInputDigest(e) THEN {"action.paramsHash"} ELSE {})

\* What the export reports as missing, gathered along the way.
MissingData(format, e, mapping) ==
    (IF mapping = NoMapping THEN SectionFields(format) \cup EntryFields(format) ELSE {})
        \cup (IF format = "aerf" /\ ~ InCharset(ActionOf(e)) /\ ~ Aliased(e, mapping)
              THEN {"action"} ELSE {})
        \cup (IF format = "scitt" /\ ~ HasInputDigest(e) THEN {"action.paramsHash"} ELSE {})

Missing(format, e, mapping, predecessor) ==
    MissingData(format, e, mapping)
        \cup (IF e # 1 /\ predecessor = NoEvent THEN {ChainField(format)} ELSE {})

\* The receipt that is signed and hashed.  AERF names the seed's key and
\* embeds the evidence with its labels; Agent Receipts name the seed's DID
\* and the time of the export; noa names the agent's key of the event.
Receipt(format, e, mapping, seed, time, link, missing) ==
    [format |-> format, event |-> e, mapping |-> mapping, link |-> link,
     members |-> Members(format, e, mapping, link),
     signer |-> IF format = "scitt" THEN "agent_key_id" ELSE seed,
     issued |-> IF format = "agent-receipts" THEN time ELSE "event time",
     evidence |-> IF format = "aerf" THEN missing ELSE {}]

\* The receipt of an event whose bundle has no predecessor.
Alone(format, e, mapping, seed, time) ==
    Receipt(format, e, mapping, seed, time,
            IF e = 1 THEN Genesis ELSE Omitted,
            Missing(format, e, mapping, NoEvent))

\* Mutant of LinkTo: the predecessor's receipt is rebuilt without the mapping.
LinkUnmapped(format, bundle, mapping, seed, time) ==
    IF bundle.event = 1 THEN Genesis
    ELSE IF bundle.predecessor = NoEvent THEN Omitted
    ELSE HashOf(Alone(format, bundle.predecessor, NoMapping, seed, time))
LinkTo(format, bundle, mapping, seed, time) ==
    IF bundle.event = 1 THEN Genesis
    ELSE IF bundle.predecessor = NoEvent THEN Omitted
    ELSE HashOf(Alone(format, bundle.predecessor, mapping, seed, time))

\* The exports that raise on the way: of the event, or of its predecessor
\* for the link (a receipt at sequence 1 does not look at a predecessor).
ExportRaises(format, bundle, mapping) ==
    \/ BuildRaises(format, bundle.event, mapping)
    \/ /\ bundle.event # 1
       /\ bundle.predecessor # NoEvent
       /\ BuildRaises(format, bundle.predecessor, mapping)

\* What build_aerf, build_agent_receipt or build_noa return: the artifact
\* and its labels (Labels.missing_fields).
Build(format, bundle, mapping, seed, time) ==
    LET missing == Missing(format, bundle.event, mapping, bundle.predecessor)
    IN  [kind |-> "artifact",
         receipt |-> Receipt(format, bundle.event, mapping, seed, time,
                             LinkTo(format, bundle, mapping, seed, time), missing),
         signedBy |-> seed,
         missing |-> missing]

Companion(artifact, bundle) ==
    [kind |-> "companion", labels |-> artifact.missing, bundle |-> bundle]

-----------------------------------------------------------------------------
(* What an artifact promises. *)

\* The members a format requires of the export of an event.
Required(format, e) ==
    SectionFields(format) \cup EntryFields(format)
        \cup (IF format = "aerf" THEN {"action"} ELSE {})
        \cup (IF format = "scitt" THEN {"action.paramsHash"} ELSE {})
        \cup (IF format = "aerf" /\ e = 1 THEN {} ELSE {ChainField(format)})

\* The labels of an artifact name exactly the required members it lacks.
Exact(artifact) ==
    artifact.missing = Required(artifact.receipt.format, artifact.receipt.event)
                           \ artifact.receipt.members

\* Artifact a follows artifact b, and was exported the same way.
SameWay(a, b) ==
    /\ a.format = b.format
    /\ a.mapping = b.mapping
    /\ a.signer = b.signer
    /\ a.event = b.event + 1

\* a has a link, and it is to b.
LinksTo(a, b) == a.link \in {Omitted, HashOf(b)}
=============================================================================
