--------------------------- MODULE OverrideAuthority ---------------------------
(***************************************************************************)
(* The authority-override middleware (override-authority/src/lib.rs).     *)
(* A layer is built once with the headers to strip; new_service builds one *)
(* OverrideAuthority per target, holding the target's AuthorityOverride if *)
(* it has one; call() strips the headers, rewrites the URI's authority     *)
(* through set_authority and forwards the request to the inner service.   *)
(*                                                                         *)
(* A URI is its http::uri::Parts: a scheme, an authority and whether it    *)
(* has a path-and-query.  The request targets the http crate parses are    *)
(* origin-form (path only, and "*"), absolute-form and authority-form     *)
(* (CONNECT).  A header map counts the values of each header name.        *)
(***************************************************************************)
EXTENDS Naturals

CONSTANTS
  Schemes,        \* schemes of absolute-form targets, "http" among them
  Authorities,    \* authorities of targets and of overrides
  HeaderNames,    \* header names a request may carry
  MaxValues,      \* the most values a request carries for one header name
  Targets,        \* the targets new_service is called with
  TargetOverride  \* each target's Param<Option<AuthorityOverride>>

None == "none"

ASSUME OverrideAssumption ==
  /\ "http" \in Schemes
  /\ None \notin Schemes \cup Authorities
  /\ MaxValues \in Nat
  /\ TargetOverride \in [Targets -> Authorities \cup {None}]

VARIABLES
  strip,     \* headers_to_strip, fixed when the layer is built
  services,  \* the authority of each target's service, or Unbuilt
  fwd        \* the last call: the request, the override, what was forwarded

vars == <<strip, services, fwd>>

Unbuilt == "unbuilt"
NoCall == [target |-> None]

\* The URIs the http crate parses as request targets.
Uris ==
  {[scheme |-> None, authority |-> None, pq |-> TRUE]}
  \cup {[scheme |-> s, authority |-> a, pq |-> TRUE] : s \in Schemes, a \in Authorities}
  \cup {[scheme |-> None, authority |-> a, pq |-> FALSE] : a \in Authorities}

Headers == [HeaderNames -> 0..MaxValues]

Requests == [uri : Uris, headers : Headers]

-----------------------------------------------------------------------------
(* The rewrite.                                                            *)

\* Uri::from_parts accepts the parts: a scheme needs an authority and a
\* path, and an authority with a path needs a scheme.
FromPartsOk(p) ==
  IF p.scheme # None THEN p.authority # None /\ p.pq
  ELSE ~(p.authority # None /\ p.pq)

\* Mutant of SetAuthority: the scheme is set whatever the target's form.
SetAuthorityAlwaysScheme(u, a) ==
  LET p == [u EXCEPT !.authority = a, !.scheme = "http"]
  IN [uri |-> p, ok |-> FromPartsOk(p)]

\* set_authority: the new authority, the http scheme when the target has a
\* path, and from_parts(...).expect("absolute uri"); ok is FALSE when the
\* expect panics.
SetAuthority(u, a) ==
  LET p == [u EXCEPT !.authority = a, !.scheme = IF u.pq THEN "http" ELSE u.scheme]
  IN [uri |-> p, ok |-> FromPartsOk(p)]

\* Mutant of StripHeaders: only the first value of a stripped header goes.
StripFirstValue(hs, names) ==
  [h \in DOMAIN hs |-> IF h \in names /\ hs[h] > 0 THEN hs[h] - 1 ELSE hs[h]]

\* HeaderMap::remove of each header to strip: every value of the name goes.
StripHeaders(hs, names) ==
  [h \in DOMAIN hs |-> IF h \in names THEN 0 ELSE hs[h]]

-----------------------------------------------------------------------------
(* The specification.                                                      *)

\* NewOverrideAuthority::layer: the headers to strip, and no service yet.
Init ==
  /\ strip \in SUBSET HeaderNames
  /\ services = [t \in Targets |-> Unbuilt]
  /\ fwd = NoCall

\* new_service(t): the service keeps the target's override authority.
NewService(t) ==
  /\ services' = [services EXCEPT ![t] = TargetOverride[t]]
  /\ UNCHANGED <<strip, fwd>>

\* call(req) on target t's service: with an override, strip the headers
\* and set the authority; in every case forward to the inner service.
Call(t, req) ==
  /\ services[t] # Unbuilt
  /\ LET auth == services[t]
         set == SetAuthority(req.uri, auth)
     IN fwd' = [target |-> t, in |-> req, override |-> auth,
                panicked |-> auth # None /\ ~set.ok,
                out |-> IF auth = None THEN req
                        ELSE [uri |-> set.uri, headers |-> StripHeaders(req.headers, strip)]]
  /\ UNCHANGED <<strip, services>>

Next ==
  \/ \E t \in Targets : NewService(t)
  \/ \E t \in Targets, req \in Requests : Call(t, req)

Spec == Init /\ [][Next]_vars

-----------------------------------------------------------------------------
(* Properties.                                                             *)

\* The expect("absolute uri") of set_authority never panics, for every
\* request target the http crate parses: origin-form gets a scheme, while
\* a CONNECT authority-form target, which has no path, must not.
NeverPanics == fwd # NoCall => ~fwd.panicked

\* What reaches the inner service: without an override, the request as it
\* came; with one, the override authority, no value left of any header to
\* strip, every other header untouched, and the target's form kept
\* (authority-form stays authority-form, the rest become absolute-form).
ForwardedAsConfigured ==
  fwd # NoCall =>
    IF fwd.override = None THEN fwd.out = fwd.in
    ELSE /\ fwd.out.uri.authority = fwd.override
         /\ \A h \in HeaderNames :
              fwd.out.headers[h] = IF h \in strip THEN 0 ELSE fwd.in.headers[h]
         /\ fwd.out.uri.pq = fwd.in.uri.pq
         /\ (fwd.out.uri.scheme = None) = ~fwd.in.uri.pq

\* The comment of set_authority: the scheme is set for an origin-form
\* target, because setting it would otherwise change the target's meaning.
\* An absolute-form target keeps the scheme it came with.
SchemeKept ==
  fwd # NoCall /\ fwd.in.uri.scheme # None => fwd.out.uri.scheme = fwd.in.uri.scheme
=============================================================================
