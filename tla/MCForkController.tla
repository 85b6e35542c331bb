-------------------------- MODULE MCForkController --------------------------
EXTENDS ForkController

\* Every way to build a controller.
MCOptions ==
  [strictFork : BOOLEAN, strictDraft : BOOLEAN, feedback : BOOLEAN]
=============================================================================
