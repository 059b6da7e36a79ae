------------------------------ MODULE MCRuntime ------------------------------
EXTENDS Runtime

Named(names) == [anyName |-> FALSE, names |-> names, anyAddr |-> TRUE, cidrs |-> {}, outbound |-> "one"]
Default == [anyName |-> TRUE, names |-> {}, anyAddr |-> TRUE, cidrs |-> {}, outbound |-> "one"]

\* The name is excluded, or left alone by the rules, or given a Fake IP.
Excluding == [dhcp |-> TRUE, dns |-> <<"s">>, beside |-> {}, exclude |-> {"d"}, rules |-> <<Named({"d"}), Default>>]
Ignoring == [dhcp |-> TRUE, dns |-> <<"s">>, beside |-> {}, exclude |-> {}, rules |-> <<Default>>]
Faking == [dhcp |-> FALSE, dns |-> <<"s">>, beside |-> {}, exclude |-> {}, rules |-> <<Named({"d"}), Default>>]

\* An outbound with static servers on the same interface.
Shared == [Ignoring EXCEPT !.beside = {"s"}]

\* A lease without servers, with two in either order, and with one of them.
Leases == {<<>>, <<"r", "s">>, <<"s", "r">>, <<"r">>}
Home == [dns |-> <<"r">>, link |-> "a", gw |-> "g", own |-> {}]
Moves == {[Home EXCEPT !.dns = l] : l \in Leases} \cup {[Home EXCEPT !.link = k] : k \in {"b", Gone}}

\* The gateway changes, or is gone, or the system makes a host route of its own for a server,
\* with or without a change that the fingerprint shows.
Reroutes ==
    {Home, [Home EXCEPT !.own = {"r"}], [Home EXCEPT !.gw = None], [Home EXCEPT !.gw = "h"],
     [Home EXCEPT !.gw = "h", !.link = "b"], [Home EXCEPT !.dns = <<"r", "s">>], [Home EXCEPT !.link = "b"]}

\* Reloads and refreshes under queries.
Policies == [
    bound : [configs : {{Excluding, Ignoring}}, nets : {{Home, [Home EXCEPT !.dns = <<"s", "r">>]}},
             capture : {FALSE}, queries : {{"q"}}, ends : {FALSE}, traffic : {FALSE}],
    left : {[changes |-> 1, edits |-> 1, reloads |-> 1, faults |-> 1]}]

\* Two reloads, and queries beyond the limit.
Reloads == [
    bound : [configs : {{Excluding, Ignoring}}, nets : {{Home}},
             capture : {FALSE}, queries : {Query}, ends : {FALSE}, traffic : {FALSE}],
    left : {[changes |-> 0, edits |-> 1, reloads |-> 2, faults |-> 0]}]

\* A changing network.
Networks == [
    bound : [configs : {{Shared, Faking}}, nets : {Moves},
             capture : {FALSE}, queries : {{}}, ends : {FALSE}, traffic : {FALSE}],
    left : {[changes |-> 2, edits |-> 1, reloads |-> 1, faults |-> 1]}]

\* Captured routes on a changing network.
Captures == [
    bound : [configs : {{Ignoring}}, nets : {Reroutes},
             capture : {TRUE}, queries : {{}}, ends : {FALSE}, traffic : {FALSE}],
    left : {[changes |-> 2, edits |-> 0, reloads |-> 1, faults |-> 1]}]

\* Traffic, and every way to end.
Endings == [
    bound : [configs : {{Faking}}, nets : {{Home}},
             capture : {FALSE}, queries : {{}}, ends : {TRUE}, traffic : {TRUE}],
    left : {[changes |-> 0, edits |-> 0, reloads |-> 0, faults |-> 2]}]

MCScenarios == Policies \cup Reloads \cup Networks \cup Captures \cup Endings
=============================================================================
