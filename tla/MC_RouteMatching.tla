-------------------------- MODULE MC_RouteMatching --------------------------
(* Small route tables for TLC: two routes of one or two rules, four       *)
(* matchers that exercise every matcher kind and every field of           *)
(* RequestMatch, and host lists that give no host match, none matching,  *)
(* and two host match levels.                                             *)
EXTENDS RouteMatching

MCMethods == {"GET", "POST"}
MCHeaders == {"h"}
MCQueries == {"q"}

PathA == <<"/", "a">>
PathAB == <<"/", "a", "/", "b">>
MCPaths == {PathA, PathAB}

MatchA == [path |-> Prefix(PathA), headers |-> {}, query |-> {}, method |-> NoMethod]
MatchB == [path |-> NoPath, headers |-> {"h"}, query |-> {}, method |-> "GET"]
MatchC == [path |-> Exact(PathAB), headers |-> {}, query |-> {"q"}, method |-> NoMethod]
MatchD == [path |-> Regex(<<PathA, PathAB>>), headers |-> {}, query |-> {}, method |-> NoMethod]

MCRules == {<<>>, <<MatchA>>, <<MatchB>>, <<MatchC, MatchD>>, <<MatchA, MatchB>>}
MCRuleLists == {<<r>> : r \in MCRules} \cup
               {<<<<MatchA>>, <<MatchA, MatchB>>>>, <<<<>>, <<MatchC, MatchD>>>>}
MCHosts == {<<>>, <<0>>, <<1>>, <<2, 0>>}
MCRoutes == [hosts : MCHosts, rules : MCRuleLists]
MCTables == {<<r1, r2>> : r1, r2 \in MCRoutes}
=============================================================================
