----------------------------- MODULE MCLlamaStream -----------------------------
(***************************************************************************)
(* Two streams on one engine, each of up to two payloads.                  *)
(***************************************************************************)
EXTENDS LlamaStream

CONSTANTS l1, l2

MCStreams == {l1, l2}
=============================================================================
