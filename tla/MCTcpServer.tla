----------------------------- MODULE MCTcpServer -----------------------------
(* Instance of TcpServer for TLC: one session and so two slots, and three  *)
(* connections, so that the table overflows and the overflow session is    *)
(* used.  The end of a connection takes the steps of a request that        *)
(* Process returns false for, and is left out.                             *)
EXTENDS TcpServer
=============================================================================
