----------------------- MODULE MC_OverrideAuthority -----------------------
(***************************************************************************)
(* A small instance of OverrideAuthority: http and https targets, two      *)
(* authorities so that an override differs from the target's own, two     *)
(* headers of which the layer may strip any, up to two values per header  *)
(* (HeaderMap::remove must drop all of them), and two targets, one with an *)
(* override and one without.                                               *)
(***************************************************************************)
EXTENDS OverrideAuthority

MCSchemes == {"http", "https"}
MCAuthorities == {"a1", "a2"}
MCHeaderNames == {"h1", "h2"}
MCMaxValues == 2
MCTargets == {"t1", "t2"}
MCTargetOverride == [t \in MCTargets |-> IF t = "t1" THEN "a1" ELSE None]
=============================================================================
