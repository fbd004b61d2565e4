--------------------------- MODULE MCCommandLine ---------------------------
\* A runtime of three events: "pay" with a digest, "ask" without one, and an
\* action whose name is outside the AERF charset; five mappings.
EXTENDS CommandLine, TLC

CONSTANTS c1, c2, k1, k2

MCActionOf(e) == <<"pay", "ask", "sign off">>[e]
MCInCharset(action) == action # "sign off"
MCHasInputDigest(e) == e # 2

AllEntries == {"in_policy", "policy_reason", "action.type", "action.risk_level",
               "action.riskClass", "action.reversible"}
AllSections == {"plan_id", "agent.principal", "governance.sandboxed"}

FullMapping == [section |-> AllSections, contradicts |-> FALSE,
         actions |-> ("default" :> AllEntries) @@ ("sign off" :> AllEntries \cup {"action"})]
OnlyAsk == [FullMapping EXCEPT !.actions = "ask" :> AllEntries]
NoAlias == [FullMapping EXCEPT !.actions = "default" :> AllEntries]
NoSection == [FullMapping EXCEPT !.section = {}]
Contradiction == [FullMapping EXCEPT !.contradicts = TRUE]

Bundle(e, p) == [kind |-> "bundle", event |-> e, predecessor |-> p]
B(stem) == Path(stem, "bundle")
MCInitialFiles ==
    (B("one") :> Bundle(1, 0)) @@ (B("two") :> Bundle(2, 1)) @@ (B("three") :> Bundle(3, 2))
    @@ (B("bare") :> Bundle(2, 0)) @@ (B("photo") :> [kind |-> "binary"])
    @@ (Path("key", "txt") :> [kind |-> "seed", seed |-> k1])
    @@ (Path("two", "pem") :> [kind |-> "public key", seed |-> k2])

Export0 == [command |-> "export", format |-> "aerf", bundle |-> B("one"), out |-> Default,
            pem |-> Default, mapping |-> NoMapping, key |-> Path("key", "txt"), force |-> FALSE]
Shared == Path("shared", "json")
MCArguments ==
    {[Export0 EXCEPT !.format = f, !.bundle = B(b), !.mapping = m,
                     !.key = IF b = "two" THEN StateDir ELSE @, !.force = (b = "two")] :
        f \in Formats, b \in {"one", "two"}, m \in {NoMapping, FullMapping}}
    \cup {[Export0 EXCEPT !.format = "scitt", !.bundle = B("three")],
          [Export0 EXCEPT !.bundle = B("three"), !.mapping = FullMapping]}
    \cup {[Export0 EXCEPT !.out = Shared, !.force = o] : o \in BOOLEAN}
    \cup {[Export0 EXCEPT !.format = "scitt", !.out = Shared]}
    \cup {[Export0 EXCEPT !.format = "scitt", !.bundle = B("bare")],
          [Export0 EXCEPT !.format = "scitt", !.bundle = B("photo")],
          [Export0 EXCEPT !.format = "scitt", !.bundle = Shared],
          [Export0 EXCEPT !.format = "scitt", !.bundle = Path("key", "txt")],
          [Export0 EXCEPT !.bundle = B("two")],
          [Export0 EXCEPT !.bundle = B("two"), !.mapping = OnlyAsk],
          [Export0 EXCEPT !.bundle = B("three"), !.mapping = NoAlias],
          [Export0 EXCEPT !.mapping = NoSection],
          [Export0 EXCEPT !.mapping = BadMapping],
          [Export0 EXCEPT !.format = "scitt", !.mapping = Contradiction],
          [Export0 EXCEPT !.key = StateDir],
          [Export0 EXCEPT !.key = BadUsage],
          [Export0 EXCEPT !.key = B("one")],
          [Export0 EXCEPT !.format = "scitt", !.pem = Shared],
          [Export0 EXCEPT !.pem = Shared, !.out = Shared],
          [Export0 EXCEPT !.out = B("two"), !.force = TRUE],
          [command |-> "verify", bundle |-> B("two"), trust |-> Default],
          [command |-> "verify", bundle |-> B("photo"), trust |-> Path("trust", "json")],
          [command |-> "verify", bundle |-> B("two"), trust |-> Path("trust", "json")],
          [command |-> "verify", bundle |-> B("two"), trust |-> B("photo")]}
=============================================================================
