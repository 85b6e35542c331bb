------------------------- MODULE MCTransformersStream -------------------------
(***************************************************************************)
(* Two streams, with a cache of one entry: two actors that evict each      *)
(* other's prefix, or an actor and a fork that reads the actor's.          *)
(***************************************************************************)
EXTENDS TransformersStream

CONSTANTS t1, t2

MCStreams == {t1, t2}
=============================================================================
