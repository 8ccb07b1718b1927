-------------------------- MODULE MCFlowController --------------------------
(* Three requests on two lanes, one or two credits: a lane with two waiters,  *)
(* a lane at its own limit in front of one that is not, limits that shrink    *)
(* below what is in use (0 included) and grow again.                          *)
EXTENDS FlowController
============================================================================
