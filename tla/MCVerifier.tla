----------------------------- MODULE MCVerifier -----------------------------
(* The evidence that Verifier is checked on: genuine bundles, bundles with   *)
(* one or two parts of another origin, and receipts with every arrangement   *)
(* of sponsor and grant intervals around the action.                         *)
EXTENDS Verifier

Event(id, agent, runtime, sequence, prev) ==
    [id |-> id, org |-> "acme", agent |-> agent, key |-> agent, runtime |-> runtime,
     sequence |-> sequence, prev |-> prev, occurred |-> 2, action |-> "pay"]

First   == Event("e1", "a", "r1", 1, Null)
Second  == Event("e2", "a", "r1", 2, Hash(First))
Third   == Event("e3", "a", "r1", 3, Hash(Second))
Other   == Event("e4", "a", "r2", 1, Null)
Foreign == Event("e5", "b", "r3", 1, Null)

MCSigned == {First, Second, Third, Other, Foreign}
MCAgentKeys == {"pa", "pb"}
MCServiceKeys == [s \in {"s1", "s2"} |-> IF s = "s1" THEN "p1" ELSE "p2"]
PublicOf(event) == IF event.agent = "a" THEN "pa" ELSE "pb"

\* Events nobody signed.
Altered == {[Second EXCEPT !.action = "wire"], [Second EXCEPT !.prev = Hash(Other)],
            [Second EXCEPT !.prev = Null], [Second EXCEPT !.agent = "b"],
            [First EXCEPT !.action = "wire"]}

Body(event, public, s) ==
    [event |-> event.id, eventHash |-> Hash(event), org |-> event.org, agent |-> event.agent,
     key |-> event.key, fingerprint |-> Fingerprint(public), serviceKey |-> s,
     sponsorId |-> Null, userId |-> Null, grantId |-> Null, capabilities |-> Null,
     sponsor |-> Null, grant |-> Null]

\* First's receipt is from before the service changed its key.
KeyIdFor(event) == IF event = First THEN "s1" ELSE "s2"
Plain(event) == Body(event, PublicOf(event), KeyIdFor(event))

Sponsor(from, until) ==
    [id |-> "sp", org |-> "acme", agent |-> "a", user |-> "u", from |-> from, until |-> until]
Grant(from, until) ==
    [id |-> "gr", org |-> "acme", agent |-> "a", sponsor |-> "sp",
     capabilities |-> <<"read", "pay">>, from |-> from, until |-> until]

Sponsored(body, sponsor) ==
    [body EXCEPT !.sponsor = sponsor, !.sponsorId = "sp", !.userId = "u"]
Granted(body, grant) ==
    [body EXCEPT !.grant = grant, !.grantId = "gr", !.capabilities = <<"read", "pay">>]

From == {1, 2, 3}
Until == {2, 3, Null}
Both == Granted(Sponsored(Plain(Second), Sponsor(1, Null)), Grant(2, 3))

\* Receipts with a context, and ones whose context does not fit together.
WithContext ==
    {Sponsored(Plain(Second), Sponsor(f, u)) : f \in From, u \in Until}
    \cup {Granted(Sponsored(Plain(Second), Sponsor(f, u)), Grant(g, v)) :
              f \in From, g \in From, u \in Until, v \in Until}
    \cup {Granted(Plain(Second), Grant(2, 3)),
          [Both EXCEPT !.sponsorId = "gr"], [Both EXCEPT !.userId = "v"],
          [Both EXCEPT !.grantId = "sp"], [Both EXCEPT !.capabilities = <<"pay", "read">>],
          [Both EXCEPT !.capabilities = Null], [Both EXCEPT !.userId = Null],
          [Both EXCEPT !.sponsor.agent = "b"], [Both EXCEPT !.sponsor.org = "other"],
          [Both EXCEPT !.grant.agent = "b"], [Both EXCEPT !.grant.org = "other"],
          [Both EXCEPT !.grant.sponsor = "other"],
          [Both EXCEPT !.capabilities = <<"read">>, !.grant.capabilities = <<"read">>]}

MCIssued == {Plain(event) : event \in MCSigned} \cup WithContext

Sealed(event, public, body, servicePublic, predecessor) ==
    [parses |-> TRUE, shape |-> TRUE, version |-> 2, receiptVersion |-> 2,
     event |-> event, eventHash |-> Hash(event), signature |-> Signature(public, event),
     agentPublic |-> public, body |-> body,
     bodySignature |-> Signature(servicePublic, body),
     metadata |-> [id |-> body.serviceKey, public |-> servicePublic],
     predecessor |-> predecessor]

WithBody(event, body, predecessor) ==
    Sealed(event, PublicOf(event), body, MCServiceKeys[body.serviceKey], predecessor)
Genuine(event, predecessor) == WithBody(event, Plain(event), predecessor)

Alone == {Genuine(event, Null) : event \in MCSigned}
Linked == Genuine(Second, Genuine(First, Null))
LongLinked == Genuine(Third, Genuine(Second, Null))

\* A consistent bundle of a stranger with an agent key and a service of their
\* own, under a key_id of their own or that of the service.
Stranger(s) == Sealed(Second, "px", Body(Second, "px", s), "ps", Null)

\* Parts of another origin.
Events == {First, Third, Foreign} \cup Altered
Publics == {"pb", "px"}
Bodies == {Plain(First), Plain(Foreign), Body(Second, "px", "s2"), Body(Second, "px", "sx")}
          \cup {Plain(event) : event \in Altered}

Alter(b) ==
    {[b EXCEPT !.event = e] : e \in Events}
    \cup {[b EXCEPT !.eventHash = Hash(e)] : e \in Events}
    \cup {[b EXCEPT !.signature = Signature(PublicOf(e), e)] : e \in MCSigned}
    \cup {[b EXCEPT !.signature = Signature("px", e)] : e \in MCSigned \cup Altered}
    \cup {[b EXCEPT !.agentPublic = p] : p \in Publics}
    \cup {[b EXCEPT !.body = body] : body \in Bodies}
    \cup {[b EXCEPT !.bodySignature = Signature("ps", body)] : body \in Bodies}
    \cup {[b EXCEPT !.metadata = [id |-> s, public |-> p]] :
              s \in {"s1", "s2", "sx"}, p \in {"p1", "p2", "ps"}}
    \cup {[b EXCEPT !.predecessor = p] : p \in {Linked.predecessor, Linked, Null} \cup Alone}
    \cup {[b EXCEPT !.version = 1], [b EXCEPT !.receiptVersion = 3],
          [b EXCEPT !.receiptVersion = Null], [b EXCEPT !.shape = FALSE],
          [b EXCEPT !.parses = FALSE]}

Twice(b) == UNION {Alter(c) : c \in Alter(b)}

MCBundles ==
    Alone \cup {LongLinked, Stranger("sx"), Stranger("s2")}
    \cup Alter(Stranger("s2")) \cup Twice(Linked)
    \cup {[Linked EXCEPT !.predecessor = p] : p \in Alter(Linked.predecessor)}
    \cup {WithBody(Second, body, Null) : body \in WithContext}

Trust(keys) == [given |-> TRUE, wellFormed |-> TRUE, keys |-> keys]
NoKeys == [s \in {} |-> "p1"]

MCTrustFiles ==
    {[given |-> FALSE, wellFormed |-> FALSE, keys |-> NoKeys],
     [given |-> TRUE, wellFormed |-> FALSE, keys |-> NoKeys],
     Trust([s \in {"s2"} |-> "p2"]),
     Trust([s \in {"s2"} |-> "ps"]),
     Trust(MCServiceKeys),
     Trust([s \in {"s1", "s2", "sx"} |-> IF s = "sx" THEN "ps" ELSE MCServiceKeys[s]])}

MCTimes == 0..5
=============================================================================
