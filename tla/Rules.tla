-------------------------------- MODULE Rules --------------------------------
(***************************************************************************)
(* The rules engine: ordered, side-effect-free matching of a flow.  A rule *)
(* selects flows by domain names and by destination prefixes.  Names are   *)
(* abstracted to the set of domains that its domain and suffix predicates  *)
(* admit together, prefixes to the set of addresses they contain.          *)
(***************************************************************************)
EXTENDS Naturals, Sequences

CONSTANTS
    Domain,   \* normalised domain names
    Addr,     \* real destination addresses
    Outbound  \* names of the outbounds

Literal == "literal"   \* the empty domain of a flow to an address outside the Fake-IP ranges

ASSUME RulesAssumption == Literal \notin Domain

\* compiledRule: `anyName` when the rule has no domain predicate, `anyAddr` when it has no
\* prefixes.
Rule == [anyName : BOOLEAN, names : SUBSET Domain,
         anyAddr : BOOLEAN, cidrs : SUBSET Addr, outbound : Outbound]

\* New accepts only a list that ends in a default rule.
EndsInDefault(rules) ==
    /\ rules # <<>>
    /\ LET r == rules[Len(rules)] IN r.anyName /\ r.anyAddr

MatchesBase(r, dom) == r.anyName \/ dom \in r.names

MatchesAnyCIDR(r, addrs) == r.anyAddr \/ r.cidrs \cap addrs # {}

First(S) == CHOOSE i \in S : \A j \in S : i <= j

\* Candidates: the rules whose names match, up to the first that does not look at addresses.
Candidates(rules, dom) ==
    LET base == {i \in DOMAIN rules : MatchesBase(rules[i], dom)}
        conclusive == First({i \in base : rules[i].anyAddr})
    IN  {i \in base : i <= conclusive}

\* MatchResolved: the first rule that matches the name and one of the addresses.
MatchResolved(rules, dom, addrs) ==
    First({i \in DOMAIN rules : MatchesBase(rules[i], dom) /\ MatchesAnyCIDR(rules[i], addrs)})

\* RequiresFakeIP: some rule selects the domain by name.
RequiresFakeIP(rules, dom) == \E i \in DOMAIN rules : ~rules[i].anyName /\ dom \in rules[i].names
=============================================================================
