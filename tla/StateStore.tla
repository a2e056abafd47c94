----------------------------- MODULE StateStore -----------------------------
(***************************************************************************)
(* What IStateStore promises the session: load, save and erase of one      *)
(* protected value take effect at once, or fail and change nothing, even   *)
(* if the process stops in the middle.  A machine that stops comes back    *)
(* with the last value saved; only an erase may be undone.                 *)
(***************************************************************************)
CONSTANTS
    None,
    Procs,
    Values

VARIABLES
    file,      \* the stored value, None when there is none
    durable,   \* what a machine that stops now comes back with
    call       \* the call each process is in, None when it is in none

Outcome == {"ok", "absent", "failed"}

Call == [kind : {"load", "save", "erase"}, value : Values \cup {None},
         result : Values \cup Outcome \cup {None}]

Init ==
    /\ file = None
    /\ durable = None
    /\ call = [p \in Procs |-> None]

Invoke(p, kind, value) ==
    /\ call[p] = None
    /\ call' = [call EXCEPT ![p] = [kind |-> kind, value |-> value,
                                    result |-> None]]
    /\ UNCHANGED <<file, durable>>

Answered(p, result) == call' = [call EXCEPT ![p].result = result]

Load(p) ==
    /\ call[p].kind = "load"
    /\ Answered(p, IF file = None THEN "absent" ELSE file)
    /\ UNCHANGED <<file, durable>>

Save(p) ==
    /\ call[p].kind = "save"
    /\ Answered(p, "ok")
    /\ file' = call[p].value
    /\ durable' = call[p].value

Erase(p) ==
    /\ call[p].kind = "erase"
    /\ Answered(p, "ok")
    /\ file' = None
    /\ UNCHANGED durable

Fail(p) == Answered(p, "failed") /\ UNCHANGED <<file, durable>>

\* A call takes effect once, between its invocation and its return.
Effect(p) ==
    /\ call[p] # None
    /\ call[p].result = None
    /\ Load(p) \/ Save(p) \/ Erase(p) \/ Fail(p)

Return(p) ==
    /\ call[p] # None
    /\ call[p].result # None
    /\ call' = [call EXCEPT ![p] = None]
    /\ UNCHANGED <<file, durable>>

ProcessStops(p) ==
    /\ call' = [call EXCEPT ![p] = None]
    /\ UNCHANGED <<file, durable>>

\* An erase reaches the disk.
Settle == durable' = file /\ UNCHANGED <<file, call>>

MachineStops ==
    /\ file' = durable
    /\ call' = [p \in Procs |-> None]
    /\ UNCHANGED durable

Next ==
    \/ \E p \in Procs :
          \/ Invoke(p, "load", None)
          \/ \E v \in Values : Invoke(p, "save", v)
          \/ Invoke(p, "erase", None)
          \/ Effect(p)
          \/ Return(p)
          \/ ProcessStops(p)
    \/ Settle
    \/ MachineStops

Spec == Init /\ [][Next]_<<file, durable, call>>
=============================================================================
