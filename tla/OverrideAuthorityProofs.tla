----------------------- MODULE OverrideAuthorityProofs -----------------------
(***************************************************************************)
(* Proofs about OverrideAuthority (override-authority/src/lib.rs), for     *)
(* every set of schemes, authorities, header names and targets: the       *)
(* expect("absolute uri") of set_authority never panics, and what reaches  *)
(* the inner service is the request as configured.                         *)
(***************************************************************************)
EXTENDS OverrideAuthority, TLAPS

-----------------------------------------------------------------------------
(* The rewrite of one request target.                                      *)

\* set_authority on each form of request target the http crate parses:
\* Uri::from_parts accepts the parts, the authority is the new one, the
\* path is kept, and the scheme is set exactly when the target has a path.
LEMMA SetAuthorityForms ==
  ASSUME NEW u \in Uris, NEW a \in Authorities
  PROVE  /\ SetAuthority(u, a).ok
         /\ SetAuthority(u, a).uri.authority = a
         /\ SetAuthority(u, a).uri.pq = u.pq
         /\ (SetAuthority(u, a).uri.scheme = None) = ~u.pq
<1> DEFINE p == [u EXCEPT !.authority = a, !.scheme = IF u.pq THEN "http" ELSE u.scheme]
<1>1. /\ SetAuthority(u, a).uri = p
      /\ SetAuthority(u, a).ok = FromPartsOk(p)
  BY DEF SetAuthority
<1>2. /\ a # None
      /\ "http" # None
  BY OverrideAssumption
<1>3. /\ p.authority = a
      /\ p.pq = u.pq
      /\ p.scheme = IF u.pq THEN "http" ELSE u.scheme
  BY DEF Uris
<1>4. CASE u.pq
  <2>1. p.scheme = "http" /\ p.pq = TRUE
    BY <1>3, <1>4 DEF Uris
  <2>2. FromPartsOk(p) /\ p.scheme # None /\ u.pq = TRUE
    BY <1>2, <1>3, <2>1 DEF FromPartsOk, Uris
  <2>3. QED
    BY <1>1, <1>3, <2>2
<1>5. CASE ~u.pq
  <2>1. u.scheme = None /\ u.pq = FALSE
    BY <1>5 DEF Uris
  <2>2. p.scheme = None /\ p.pq = FALSE
    BY <1>3, <2>1
  <2>3. FromPartsOk(p)
    BY <2>2 DEF FromPartsOk
  <2>4. QED
    BY <1>1, <1>3, <2>1, <2>2, <2>3
<1>6. QED
  BY <1>4, <1>5

\* Removing the headers to strip leaves every other header as it was.
LEMMA StripHeadersValues ==
  ASSUME NEW hs \in Headers, NEW names
  PROVE  \A h \in HeaderNames :
           StripHeaders(hs, names)[h] = IF h \in names THEN 0 ELSE hs[h]
BY DEF StripHeaders, Headers

-----------------------------------------------------------------------------
(* The inductive invariant.                                                *)

\* Both properties describe the last call only, so they hold after any
\* call made through a built service; the strengthening says that a built
\* service holds an override authority or none.
OverrideInv ==
  /\ services \in [Targets -> Authorities \cup {None, Unbuilt}]
  /\ NeverPanics
  /\ ForwardedAsConfigured

LEMMA OverrideInit == Init => OverrideInv
BY OverrideAssumption DEF Init, OverrideInv, NeverPanics, ForwardedAsConfigured

\* new_service keeps the invariant; call() re-establishes both properties
\* whatever the previous call was.
LEMMA OverrideStep == OverrideInv /\ [Next]_vars => OverrideInv'
<1> SUFFICES ASSUME OverrideInv, [Next]_vars PROVE OverrideInv'
  OBVIOUS
<1>1. ASSUME NEW t \in Targets, NewService(t) PROVE OverrideInv'
  BY <1>1, OverrideAssumption
  DEF NewService, OverrideInv, NeverPanics, ForwardedAsConfigured
<1>2. ASSUME NEW t \in Targets, NEW req \in Requests, Call(t, req) PROVE OverrideInv'
  <2> DEFINE auth == services[t]
             set == SetAuthority(req.uri, auth)
             out == IF auth = None THEN req
                    ELSE [uri |-> set.uri, headers |-> StripHeaders(req.headers, strip)]
  <2>1. /\ auth \in Authorities \cup {None}
        /\ req.uri \in Uris
        /\ req.headers \in Headers
    BY <1>2 DEF OverrideInv, Call, Requests
  <2>2. fwd' = [target |-> t, in |-> req, override |-> auth,
                panicked |-> auth # None /\ ~set.ok, out |-> out]
    BY <1>2 DEF Call
  <2>3. fwd' # NoCall
    BY <2>2 DEF NoCall
  <2>4. UNCHANGED <<strip, services>>
    BY <1>2 DEF Call
  <2>5. CASE auth = None
    BY <2>2, <2>3, <2>4, <2>5 DEF OverrideInv, NeverPanics, ForwardedAsConfigured
  <2>6. CASE auth \in Authorities
    <3>1. /\ set.ok
          /\ set.uri.authority = auth
          /\ set.uri.pq = req.uri.pq
          /\ (set.uri.scheme = None) = ~req.uri.pq
      BY <2>1, <2>6, SetAuthorityForms
    <3>2. \A h \in HeaderNames :
            StripHeaders(req.headers, strip)[h] = IF h \in strip THEN 0 ELSE req.headers[h]
      BY <2>1, StripHeadersValues
    <3>3. auth # None
      BY <2>6, OverrideAssumption
    <3>4. QED
      BY <2>2, <2>3, <2>4, <3>1, <3>2, <3>3
      DEF OverrideInv, NeverPanics, ForwardedAsConfigured
  <2>7. QED
    BY <2>1, <2>5, <2>6
<1>3. CASE UNCHANGED vars
  BY <1>3 DEF vars, OverrideInv, NeverPanics, ForwardedAsConfigured
<1>4. QED
  BY <1>1, <1>2, <1>3 DEF Next

-----------------------------------------------------------------------------
(* Theorems.                                                               *)

\* For every scheme, authority, header map and override, the
\* from_parts(..).expect("absolute uri") of set_authority never panics on
\* a request target the http crate parses: origin-form and absolute-form
\* get the http scheme with their path, and a CONNECT authority-form
\* target, which has no path, keeps having no scheme.
THEOREM NoPanicCorrect == Spec => []NeverPanics
<1>1. Spec => []OverrideInv
  BY OverrideInit, OverrideStep, PTL DEF Spec
<1>2. OverrideInv => NeverPanics
  BY DEF OverrideInv
<1>3. QED
  BY <1>1, <1>2, PTL

\* For every configuration, call() forwards the request unchanged when the
\* target has no override, and otherwise with the override authority, no
\* value of a stripped header, every other header as it came, and the
\* target's form kept.
THEOREM ForwardedCorrect == Spec => []ForwardedAsConfigured
<1>1. Spec => []OverrideInv
  BY OverrideInit, OverrideStep, PTL DEF Spec
<1>2. OverrideInv => ForwardedAsConfigured
  BY DEF OverrideInv
<1>3. QED
  BY <1>1, <1>2, PTL
=============================================================================
