--------------------------- MODULE MCMetricsLibrary ---------------------------
(***************************************************************************)
(* Instances of MetricsLibrary for TLC.                                    *)
(***************************************************************************)
EXTENDS MetricsLibrary, TLC

CONSTANTS c1, e1, e2, hits, times

\* A caller counts hits; the first event observes times and counts a hit, the
\* second counts a hit.
Targets == (c1 :> <<hits>>) @@ (e1 :> <<times, hits>>) @@ (e2 :> <<hits>>)
=============================================================================
