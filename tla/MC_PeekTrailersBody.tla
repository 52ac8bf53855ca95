------------------------ MODULE MC_PeekTrailersBody ------------------------
(***************************************************************************)
(* Small instances of PeekTrailersBody for TLC: two DATA lengths so that   *)
(* reordered frames and a missing byte count show, two grpc-status codes   *)
(* so that wrong trailers show, and bodies of up to three frames, one more *)
(* than read_body ever looks at.                                           *)
(***************************************************************************)
EXTENDS PeekTrailersBody

MCDataSizes == {1, 2}
MCTrailerValues == {0, 14}
\* The frame kinds http_body 1.x can produce: DATA, TRAILERS and errors.
MCKnownKinds == {"data", "trailers", "error"}
\* With a frame kind split_frame does not recognise.
MCAllKinds == {"data", "trailers", "error", "unknown"}
MCVersions == {"HTTP/1.1", "HTTP/2.0"}
MCMaxFrames == 3
=============================================================================
