---------------------------- MODULE RouteMatching ----------------------------
(***************************************************************************)
(* Route and rule selection of linkerd-http-route (http-routes/src): the  *)
(* path matchers of match/path.rs, MatchRequest::summarize_match and the  *)
(* RequestMatch order of match.rs, and RouteMatch::find and find_route of *)
(* lib.rs.  A routing table is looked up for one request after another.   *)
(*                                                                         *)
(* Strings are sequences of characters, so the prefix and segment tests   *)
(* are what the code computes.  A regex is an alternation of literals,    *)
(* which the regex crate searches leftmost-first.  A header or query      *)
(* matcher is an opaque value that a request satisfies or not, and the    *)
(* outcome of each MatchHost::summarize_match is part of the table.       *)
(***************************************************************************)
EXTENDS Naturals, Sequences, FiniteSets, SequencesExt

CONSTANTS
  Methods,         \* request methods
  HeaderMatchers,  \* MatchHeader values
  QueryMatchers,   \* MatchQueryParam values
  Paths,           \* request paths, sequences of characters
  Tables           \* the route tables looked up (Vec<Route>)

ASSUME TablesAssumption == Tables # {}

VARIABLES
  table,     \* the routes, in configuration order
  request,   \* the request last routed
  selected   \* what find_route returned for it

vars == <<table, request, selected>>

-----------------------------------------------------------------------------
(* Option<T>.                                                              *)

None == [some |-> FALSE]
Some(v) == [some |-> TRUE, val |-> v]

\* A request as the matchers see it: the matchers it satisfies stand for
\* its headers and query string.
Requests == [method : Methods, path : Paths,
             headers : SUBSET HeaderMatchers, query : SUBSET QueryMatchers]

NoRequest == [method |-> "none"]

\* enum MatchPath.
Exact(s) == [kind |-> "exact", pat |-> s]
Prefix(s) == [kind |-> "prefix", pat |-> s]
Regex(alts) == [kind |-> "regex", pat |-> alts]

NoPath == [kind |-> "none"]
NoMethod == "any"

-----------------------------------------------------------------------------
(* MatchPath::match_length.                                                *)

OccursAt(lit, path, i) ==
  /\ i + Len(lit) - 1 <= Len(path)
  /\ SubSeq(path, i, i + Len(lit) - 1) = lit

\* Regex::find: the leftmost start at which some alternative occurs, and
\* there the first alternative in the pattern's order.
RegexFind(alts, path) ==
  LET starts == {i \in 1..Len(path) : \E k \in 1..Len(alts) : OccursAt(alts[k], path, i)}
  IN IF starts = {} THEN None
     ELSE LET i == Min(starts)
              k == Min({j \in 1..Len(alts) : OccursAt(alts[j], path, i)})
          IN Some([start |-> i - 1, end |-> i - 1 + Len(alts[k])])

MatchLength(mp, path) ==
  IF mp.kind = "exact" THEN IF mp.pat = path THEN Some(Len(mp.pat)) ELSE None
  ELSE IF mp.kind = "regex"
    THEN LET m == RegexFind(mp.pat, path) IN
           IF m.some /\ m.val.start = 0 /\ m.val.end = Len(path)
           THEN Some(Len(path)) ELSE None
  ELSE IF ~IsPrefix(mp.pat, path) THEN None
  ELSE LET rest == SubSeq(path, Len(mp.pat) + 1, Len(path)) IN
         IF rest = <<>> THEN Some(Len(mp.pat))
         ELSE IF ~(mp.pat # <<>> /\ Last(mp.pat) = "/") /\ Head(rest) = "/"
              THEN Some(Len(mp.pat) + 1)
         ELSE None

-----------------------------------------------------------------------------
(* RequestMatch: its Default and its Ord (path length, then headers, then *)
(* query parameters, then method).                                         *)

RequestMatch(p, h, q, m) == [path |-> p, headers |-> h, query |-> q, method |-> m]

DefaultMatch == RequestMatch(1, 0, 0, FALSE)

BoolRank(b) == IF b THEN 1 ELSE 0

RequestMatchLt(a, b) ==
  \/ a.path < b.path
  \/ a.path = b.path /\ a.headers < b.headers
  \/ a.path = b.path /\ a.headers = b.headers /\ a.query < b.query
  \/ /\ a.path = b.path /\ a.headers = b.headers /\ a.query = b.query
     /\ BoolRank(a.method) < BoolRank(b.method)

\* MatchRequest::summarize_match: method, then path, then every header,
\* then every query parameter, from a default summary.
SummarizeMatch(mr, req) ==
  IF mr.method # NoMethod /\ req.method # mr.method THEN None
  ELSE LET len == IF mr.path = NoPath THEN Some(1) ELSE MatchLength(mr.path, req.path)
       IN IF ~len.some THEN None
          ELSE IF ~(mr.headers \subseteq req.headers) THEN None
          ELSE IF ~(mr.query \subseteq req.query) THEN None
          ELSE Some(RequestMatch(len.val, Cardinality(mr.headers),
                                 Cardinality(mr.query), mr.method # NoMethod))

\* Iterator::max over a set of summaries (equal summaries are identical).
MaxMatch(S) == CHOOSE x \in S : \A y \in S : ~RequestMatchLt(x, y)

-----------------------------------------------------------------------------
(* RouteMatch and its Ord: the host match first (None below Some), then   *)
(* the request match.                                                      *)

HostMatchLt(a, b) == \/ ~a.some /\ b.some
                     \/ a.some /\ b.some /\ a.val < b.val

RouteMatchLt(a, b) ==
  \/ HostMatchLt(a.host, b.host)
  \/ a.host = b.host /\ RequestMatchLt(a.req, b.req)

\* One step of filter_map(..).reduce(|a0, a| if a0 < a { a } else { a0 }):
\* a candidate that is None is filtered out, and a later candidate
\* replaces the kept one only when it is strictly greater.  Over the rules
\* of a route, by RequestMatch:
RuleStep(acc, c) ==
  IF c.some /\ (~acc.some \/ RequestMatchLt(acc.val.m, c.val.m)) THEN c ELSE acc

ReduceRules(cands) ==
  LET f[i \in 0..Len(cands)] == IF i = 0 THEN None ELSE RuleStep(f[i - 1], cands[i])
  IN f[Len(cands)]

\* Mutant of RouteStep: the last of equally specific routes wins (the
\* max_by that the comment of find_route warns about).
RouteStepLastWins(acc, c) ==
  IF c.some /\ (~acc.some \/ ~RouteMatchLt(c.val.m, acc.val.m)) THEN c ELSE acc

\* The same step over the routes of a table, by RouteMatch.
RouteStep(acc, c) ==
  IF c.some /\ (~acc.some \/ RouteMatchLt(acc.val.m, c.val.m)) THEN c ELSE acc

ReduceRoutes(cands) ==
  LET f[i \in 0..Len(cands)] == IF i = 0 THEN None ELSE RouteStep(f[i - 1], cands[i])
  IN f[Len(cands)]

\* The host match of a route: None when it has no hosts; when it has
\* hosts, the best of their matches, and no match at all (the ? of
\* RouteMatch::find) when none of them matches.
HostMatch(hosts) ==
  IF hosts = <<>> THEN Some(None)
  ELSE LET hm == {hosts[i] : i \in 1..Len(hosts)} \ {0} IN
         IF hm = {} THEN None ELSE Some(Some(Max(hm)))

\* What one rule offers: the default match when it lists no matches, else
\* the greatest summary of its matches that apply.
RuleMatch(matches, req) ==
  IF matches = <<>> THEN Some(DefaultMatch)
  ELSE LET S == {SummarizeMatch(matches[i], req).val :
                   i \in {j \in 1..Len(matches) : SummarizeMatch(matches[j], req).some}}
       IN IF S = {} THEN None ELSE Some(MaxMatch(S))

\* Mutant of FindRule: the enumerate index taken as 1-based when it is
\* 0-based.
FindRuleOffByOne(route, req) ==
  LET hm == HostMatch(route.hosts)
      cands == [j \in 1..Len(route.rules) |->
                  LET rm == RuleMatch(route.rules[j], req) IN
                    IF rm.some THEN Some([idx |-> j + 1, m |-> rm.val]) ELSE None]
      best == ReduceRules(cands)
  IN IF ~hm.some \/ ~best.some THEN None
     ELSE Some([idx |-> best.val.idx, m |-> [host |-> hm.val, req |-> best.val.m]])

\* RouteMatch::find, as called by find_rule: the index of the rule chosen
\* and its RouteMatch.
FindRule(route, req) ==
  LET hm == HostMatch(route.hosts)
      cands == [j \in 1..Len(route.rules) |->
                  LET rm == RuleMatch(route.rules[j], req) IN
                    IF rm.some THEN Some([idx |-> j, m |-> rm.val]) ELSE None]
      best == ReduceRules(cands)
  IN IF ~hm.some \/ ~best.some THEN None
     ELSE Some([idx |-> best.val.idx, m |-> [host |-> hm.val, req |-> best.val.m]])

\* find_route's filter_map: for each route, in order, the (route, rule)
\* pair find_rule offers and its RouteMatch.
RouteCandidates(routes, req) ==
  [i \in 1..Len(routes) |->
     LET r == FindRule(routes[i], req) IN
       IF r.some THEN Some([idx |-> <<i, r.val.idx>>, m |-> r.val.m]) ELSE None]

\* find_route's reduce and its final map to the (route, rule) pair.
SelectRoute(cands) ==
  LET best == ReduceRoutes(cands) IN IF best.some THEN Some(best.val.idx) ELSE None

\* find_route: the route and rule chosen for a request.
FindRoute(routes, req) == SelectRoute(RouteCandidates(routes, req))

-----------------------------------------------------------------------------
(* The specification: a fixed table routes one request after another.     *)

Init ==
  /\ table \in Tables
  /\ request = NoRequest
  /\ selected = None

\* find_route(req).  find_rule runs once per route: its results are bound
\* once and then reduced.
Route(req) ==
  /\ request' = req
  /\ \E cands \in {RouteCandidates(table, req)} : selected' = SelectRoute(cands)
  /\ UNCHANGED table

Next == \E req \in Requests : Route(req)

Spec == Init /\ [][Next]_vars

-----------------------------------------------------------------------------
(* Properties.                                                             *)

\* Type invariant: find_route returns Option<(route, rule)>.  The indices
\* are positions the table really has, so self.rules[idx] never panics.
TypeOK ==
  /\ request \in Requests \cup {NoRequest}
  /\ selected \in {None} \cup
       {Some(p) : p \in UNION {{i} \X (1..Len(table[i].rules)) : i \in 1..Len(table)}}

\* Reference: a route applies when it has no hosts or one of them matches;
\* its RouteMatch with a rule is its best host match and the rule's match.
HostApplies(hosts) == hosts = <<>> \/ \E i \in 1..Len(hosts) : hosts[i] # 0

HostValue(hosts) ==
  IF hosts = <<>> THEN None
  ELSE Some(CHOOSE l \in {hosts[i] : i \in 1..Len(hosts)} :
              \A i \in 1..Len(hosts) : hosts[i] <= l)

\* The (route, rule) pair with the greatest RouteMatch, the earliest route
\* and then the earliest rule among equals.
FirstBest(routes, req) ==
  LET C == {p \in UNION {{i} \X (1..Len(routes[i].rules)) : i \in 1..Len(routes)} :
              /\ HostApplies(routes[p[1]].hosts)
              /\ RuleMatch(routes[p[1]].rules[p[2]], req).some}
      V(p) == [host |-> HostValue(routes[p[1]].hosts),
               req |-> RuleMatch(routes[p[1]].rules[p[2]], req).val]
  IN IF C = {} THEN None
     ELSE Some(CHOOSE p \in C :
                 /\ \A q \in C : ~RouteMatchLt(V(p), V(q))
                 /\ \A q \in C : V(q) = V(p) =>
                      p[1] < q[1] \/ (p[1] = q[1] /\ p[2] <= q[2]))

\* find_route selects the most specific (route, rule) pair that applies,
\* and among equally specific pairs the first in configuration order
\* ("we want to ensure that the first match wins", lib.rs); a route whose
\* hosts all fail to match is never selected.
FirstBestWins == request # NoRequest => selected = FirstBest(table, request)

\* A rule with no matches and a rule matching the path prefix "/" are the
\* same: both match every request, with path_match_length 1 (the comment
\* of RequestMatch::default, quoting the Gateway API).
RootPrefixIsDefault ==
  request # NoRequest =>
    SummarizeMatch([path |-> Prefix(<<"/">>), headers |-> {}, query |-> {},
                    method |-> NoMethod], request) = Some(DefaultMatch)

\* A regex path matcher matches exactly the paths that the whole regex
\* matches, which for an alternation of literals are its alternatives
\* (the test path_regex: the match must span the whole path).
RegexMatchesWholePath ==
  \A i \in 1..Len(table) : \A j \in 1..Len(table[i].rules) :
    \A k \in 1..Len(table[i].rules[j]) :
      LET mp == table[i].rules[j][k].path IN
        mp # NoPath /\ mp.kind = "regex" =>
          \A path \in Paths :
            MatchLength(mp, path).some <=> \E a \in 1..Len(mp.pat) : mp.pat[a] = path
=============================================================================
