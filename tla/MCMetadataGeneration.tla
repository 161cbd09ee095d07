------------------------ MODULE MCMetadataGeneration ------------------------
(* d aggregates what u holds and is edited once; u may be enriched. *)
EXTENDS MetadataGeneration, TLC

CONSTANTS u, d

MCUpstream == (u :> {}) @@ (d :> {u})
MCReply == (u :> {"error", "warning", "late"}) @@ (d :> {"error", "passed"})
MCVersion == (u :> {1}) @@ (d :> {1, 2})
=============================================================================
