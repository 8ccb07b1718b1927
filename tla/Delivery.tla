------------------------------ MODULE Delivery ------------------------------
(* What an executor of this library promises of the commands it is given,     *)
(* whatever transport, batching and routing lie below it: a command is        *)
(* executed at most once, it is answered once, and the answer is true.        *)
(*                                                                            *)
(*   ok       the command has been executed;                                  *)
(*   not      it has not been executed, and will not be;                      *)
(*   unknown  it may have been, or may yet be.                                *)
(*                                                                            *)
(* The detailed modules implement this one: a unit there is a command, or one *)
(* key of a command that is spread over shards.                               *)
EXTENDS Naturals

CONSTANT Units

VARIABLES executed, outcome

vars == <<executed, outcome>>

Outcomes == {"none", "ok", "not", "unknown"}

Init ==
    /\ executed = [u \in Units |-> 0]
    /\ outcome = [u \in Units |-> "none"]

\* One step of an executor may serve and answer several commands.
Step ==
    /\ executed' \in [Units -> {0, 1}]
    /\ outcome' \in [Units -> Outcomes]
    /\ \A u \in Units :
         /\ executed'[u] >= executed[u]
         /\ outcome[u] # "none" => outcome'[u] = outcome[u]
         /\ outcome'[u] = "ok" => executed'[u] = 1
         /\ outcome'[u] = "not" => executed'[u] = 0

Next == Step

Spec == Init /\ [][Next]_vars
=============================================================================
