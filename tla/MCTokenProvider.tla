--------------------------- MODULE MCTokenProvider ---------------------------
(* The instance of TokenProvider for TLC is in token.cfg.                  *)
EXTENDS TokenProvider
===============================================================================
