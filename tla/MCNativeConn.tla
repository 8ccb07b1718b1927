---------------------------- MODULE MCNativeConn ----------------------------
(* One data request and one request on the control lane share the executor    *)
(* over at most two connections.  That is enough for every pair of roles: the *)
(* request that fails a connection and the one in flight on it, the one that  *)
(* drains it and the one that is drained, the one that abandons an attempt    *)
(* and the one that starts the next.                                          *)
EXTENDS NativeConn
============================================================================
