---------------------------- MODULE LeaseLifecycle ----------------------------
(***************************************************************************)
(* What the session promises of the leases of one installation, as its     *)
(* file shows them (SessionState enum, README).                            *)
(*                                                                         *)
(* Authorizing online opens an epoch, larger than all before it.  Its      *)
(* lease is held until an end is requested; a requested end is pending     *)
(* until the service has acknowledged it, revoked the epoch or opened a    *)
(* new one.  Nothing leads from pending back to held, and nothing leads    *)
(* out of an epoch that is over but a new one.                             *)
(***************************************************************************)
EXTENDS Naturals

VARIABLES
    epoch,   \* the newest epoch the installation was authorized for
    stage    \* what has become of its lease

vars == <<epoch, stage>>

Finished == {"ended", "revoked"}

Init ==
    /\ epoch = 0
    /\ stage = "none"

\* A service that has already given the epoch up says so in the answer that
\* opens it.
Authorize ==
    /\ epoch' \in Nat
    /\ epoch' > epoch
    /\ stage' \in {"held"} \cup Finished

RequestEnd ==
    /\ stage = "held"
    /\ stage' = "ending"
    /\ UNCHANGED epoch

Conclude ==
    /\ stage \in {"held", "ending"}
    /\ stage' \in Finished
    /\ UNCHANGED epoch

Next == Authorize \/ RequestEnd \/ Conclude

Spec == Init /\ [][Next]_vars
==============================================================================
