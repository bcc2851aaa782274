--------------------------- MODULE MCHttpChannel ---------------------------
(* Instance of HttpChannel for TLC.                                        *)
EXTENDS HttpChannel
=============================================================================
