------------------------- MODULE MC_RetryExchange -------------------------
(***************************************************************************)
(* Two requests on one route.  A ceiling of 2 bytes with bodies of 1 and 3 *)
(* bytes gives a body that fits and one that is capped; an unknown size    *)
(* hint lets the large one be wrapped.  Responses: 200 or 503, HTTP/1.1 or *)
(* HTTP/2, bodies of up to two frames with grpc-status 0 or 14 trailers.   *)
(* The budget starts with one retry's worth of tokens, and a finished     *)
(* request pays for half a retry, so requests compete for it.              *)
(***************************************************************************)
EXTENDS RetryExchange, TLC

CONSTANTS r1, r2
MCRequests == {r1, r2}
MCBodySizes == {1, 3}
MCStatuses == {200, 503}
MCVersions == {"HTTP/1.1", "HTTP/2.0"}
MCLiveVersions == {"HTTP/2.0"}
MCKinds == {"data", "trailers", "error"}
Symmetry == Permutations(MCRequests)
=============================================================================
