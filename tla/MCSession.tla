------------------------------ MODULE MCSession ------------------------------
EXTENDS Session

Named(names, cidrs, o) == [anyName |-> FALSE, names |-> names, anyAddr |-> cidrs = {}, cidrs |-> cidrs, outbound |-> o]
Prefix(cidrs, o) == [anyName |-> TRUE, names |-> {}, anyAddr |-> FALSE, cidrs |-> cidrs, outbound |-> o]
Default(o) == [anyName |-> TRUE, names |-> {}, anyAddr |-> TRUE, cidrs |-> {}, outbound |-> o]

Policy(rules, f, g) == [rules |-> rules, reject |-> {"block"}, fallback |-> [one |-> f, two |-> g, block |-> None]]

Switching == <<Prefix({"x"}, "two"), Default("one")>>

\* Every path of one flow: the answer decides between the outbounds, rejects the flow, or
\* saves it from a rejecting default; a name alone rejects; every shape of fallback.
Routing == [
    policy : {Policy(r, f, g) : f \in {None, "two", "block"}, g \in {None, "block"},
                r \in {Switching, <<Prefix({"x"}, "block"), Default("one")>>,
                       <<Named({"d"}, {"x"}, "block"), Prefix({"y"}, "one"), Default("block")>>,
                       <<Named({"d"}, {}, "block"), Default("two")>>}},
    bound : {[arrive |-> [f |-> BOOLEAN \X {"d", Literal}, g |-> {}], answers |-> SUBSET Addr \ {{}},
              ttls |-> {0, 1}, talk |-> 0, faults |-> 2]}]

\* Two flows share the caches and the resolvers' limits.
Sharing == [
    policy : {Policy(Switching, "two", None)},
    bound : {[arrive |-> [f |-> {<<TRUE, "d">>}, g |-> {FALSE} \X {"d", "e"}], answers |-> {{"x"}},
              ttls |-> {1}, talk |-> 0, faults |-> 1]}]

\* A relay in detail, and two flows that compete for the one slot.
Relays == [
    policy : {Policy(<<Default("one")>>, None, None)},
    bound : {[arrive |-> [f |-> BOOLEAN \X {Literal}, g |-> {}], answers |-> {}, ttls |-> {},
              talk |-> 4, faults |-> 1],
             [arrive |-> [x \in Flow |-> {<<TRUE, Literal>>}], answers |-> {}, ttls |-> {},
              talk |-> 2, faults |-> 1]}]

MCScenarios == Routing \cup Sharing \cup Relays
=============================================================================
