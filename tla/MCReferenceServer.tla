------------------------- MODULE MCReferenceServer -------------------------
(* A catalogue of candidates for ReferenceServer: a chain of three, and for *)
(* each check of the service a candidate that only that check stops.        *)
EXTENDS ReferenceServer

Event(id, hash, agent, sequence, prev, occurred) ==
    [id |-> id, hash |-> hash, runtime |-> <<agent, 1>>, sequence |-> sequence,
     prev |-> prev, agent |-> agent, key |-> "k1", org |-> "acme", occurred |-> occurred]

Sign(event) == [event |-> event, claimed |-> event.hash, wellFormed |-> TRUE,
                signature |-> <<event.key, event.hash>>]

First  == Event("e1", <<"h1">>, "a", 1, << >>, 0)
Second == Event("e2", <<"h2">>, "a", 2, <<"h1">>, 1)
Third  == Event("e3", <<"h3">>, "a", 3, <<"h2">>, 0)

Chain == {Sign(First), Sign(Second), Sign(Third)}

\* Same id, other bytes; same place, other event; a link to the wrong event.
Rewritten == Sign([First EXCEPT !.hash = <<"h1x">>, !.occurred = 1])
Fork      == Sign(Event("e2f", <<"h2f">>, "a", 2, <<"h1">>, 0))
WrongLink == Sign(Event("e3w", <<"h3w">>, "a", 3, <<"h1">>, 0))

\* An honest event of an agent that registers another key, a claimed hash of
\* another event, a signature over other bytes, and the wrong organisation.
OtherAgent == Sign(Event("b1", <<"hb">>, "b", 1, << >>, 0))
WrongHash  == [Sign(Third) EXCEPT !.claimed = <<"h1">>]
WrongSign  == [Sign(Second) EXCEPT !.signature = <<"k2", <<"h2">>>>]
WrongOrg   == Sign([Event("b2", <<"hbo">>, "b", 1, << >>, 0) EXCEPT !.org = "other"])
Malformed  == [Sign(First) EXCEPT !.wellFormed = FALSE]

Catalogue == Chain \cup {Rewritten, Fork, WrongLink, OtherAgent, WrongHash, WrongSign,
                         WrongOrg, Malformed}
TwoAgents == {"a", "b"}
TwoKeys == {"k1", "k2"}
============================================================================
