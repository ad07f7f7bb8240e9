------------------------- MODULE MC_SubscribeRequest -------------------------
(* NewSubscribeRequest over every option set of a small vocabulary: every  *)
(* mode and stream-mode name and one unknown word, each in upper and lower *)
(* case; two paths that parse and one that does not, so that a list of    *)
(* two parsed paths has an order; two intervals, so that sample and       *)
(* heartbeat can differ; up to two paths.                                  *)
EXTENDS SubscribeRequest

MCWords == {"", "ONCE", "POLL", "STREAM", "ON_CHANGE", "SAMPLE", "TARGET_DEFINED", "bogus"}
MCPathStrs == {"a", "b", "bad"}
MCBadPaths == {"bad"}
MCOrigins == {"", "o"}
MCIntervals == {0, 1}
=============================================================================
