--------------------------- MODULE DpapiStateStore ---------------------------
(***************************************************************************)
(* The Windows store: one protected file, a lock file held through every   *)
(* call, and a save that writes a temporary file of its own, flushes it    *)
(* and moves it over the old one.  A process may stop at any step, which   *)
(* releases the lock, and the machine may stop and lose what has not       *)
(* reached the disk.                                                       *)
(*                                                                         *)
(* DPAPI and the Win32 file calls are external: each may fail.  They are   *)
(* assumed to do what Windows documents: MoveFileEx with                   *)
(* MOVEFILE_REPLACE_EXISTING and MOVEFILE_WRITE_THROUGH replaces a file at *)
(* once or not at all, and has reached the disk when it returns; a file    *)
(* removed without a flush may still be there after a power loss.          *)
(***************************************************************************)
CONSTANTS
    None,
    Procs,
    Values,
    Damaged    \* what is read from a file that is not whole

VARIABLES
    path,      \* the contents of the state file, None when there is none
    durable,   \* what is on the disk if the power fails now
    temp,      \* the temporary file of each call, None when there is none;
               \* one left by a process that stopped is never read again
    lock,      \* the holder of the lock file, None when it is free
    call,      \* the call each process is in and its result
    step,      \* how far that call is
    seen       \* history variable: what the exists of a load found, until the
               \* load is over

vars == <<path, durable, temp, lock, call, step, seen>>

Steps == {"idle", "locking", "load", "size", "read", "save", "flush", "move",
          "erase", "done"}

Temporary == [value : Values \cup {Damaged}, flushed : BOOLEAN]

Atomic == INSTANCE StateStore WITH file <- path

ASSUME StoreAssumption ==
    /\ None \notin Procs \cup Values \cup {Damaged} \cup Atomic!Outcome
    /\ None \notin Atomic!Call \cup Temporary
    /\ Damaged \notin Values
    /\ Values \cap Atomic!Outcome = {}

Init ==
    /\ Atomic!Init
    /\ temp = [p \in Procs |-> None]
    /\ lock = None
    /\ step = [p \in Procs |-> "idle"]
    /\ seen = [p \in Procs |-> None]

-----------------------------------------------------------------------------

Goto(p, s) == step' = [step EXCEPT ![p] = s]

\* The end of the scope of the lock and of the temporary file.
Unwind(p, s) ==
    /\ lock' = IF lock = p THEN None ELSE lock
    /\ temp' = [temp EXCEPT ![p] = None]
    /\ seen' = [seen EXCEPT ![p] = None]
    /\ Goto(p, s)

Finish(p, result) == Atomic!Answered(p, result) /\ Unwind(p, "done")

Begin(p) ==
    /\ \/ Atomic!Invoke(p, "load", None)
       \/ \E v \in Values : Atomic!Invoke(p, "save", v)
       \/ Atomic!Invoke(p, "erase", None)
    /\ Goto(p, "locking")
    /\ UNCHANGED <<temp, lock, seen>>

\* Mutation: the lock file is shared.
AcquireShared(p) ==
    /\ step[p] = "locking"
    /\ lock' = p
    /\ Goto(p, call[p].kind)
    /\ UNCHANGED <<path, durable, temp, call, seen>>

\* LockFileEx waits for the exclusive lock.
Acquire(p) ==
    /\ step[p] = "locking"
    /\ lock = None
    /\ lock' = p
    /\ Goto(p, call[p].kind)
    /\ UNCHANGED <<path, durable, temp, call, seen>>

CheckExists(p) ==
    /\ step[p] = "load"
    /\ \/ path = None /\ Finish(p, "absent")
       \/ /\ path # None
          /\ seen' = [seen EXCEPT ![p] = path]
          /\ Goto(p, "size")
          /\ UNCHANGED <<temp, lock, call>>
    /\ UNCHANGED <<path, durable>>

\* file_size, which throws when there is no file any more.
CheckSize(p) ==
    /\ step[p] = "size"
    /\ path # None
    /\ Goto(p, "read")
    /\ UNCHANGED <<path, durable, temp, lock, call, seen>>

\* The read and CryptUnprotectData.
ReadFile(p) ==
    /\ step[p] = "read"
    /\ Finish(p, IF path \in Values THEN path ELSE "failed")
    /\ UNCHANGED <<path, durable>>

\* Mutation: the state file itself is opened and rewritten.
WriteInPlace(p) ==
    /\ step[p] = "save"
    /\ path' = Damaged
    /\ temp' = [temp EXCEPT ![p] = [value |-> call[p].value, flushed |-> FALSE]]
    /\ Goto(p, "flush")
    /\ UNCHANGED <<durable, lock, call, seen>>

\* Mutation: the temporary file is moved before it is flushed.
WriteUnflushed(p) ==
    /\ step[p] = "save"
    /\ temp' = [temp EXCEPT ![p] = [value |-> call[p].value, flushed |-> FALSE]]
    /\ Goto(p, "move")
    /\ UNCHANGED <<path, durable, lock, call, seen>>

\* WriteFile to a new file of a unique name, which may write only a part.
Write(p) ==
    /\ step[p] = "save"
    /\ \E v \in {call[p].value, Damaged} :
          temp' = [temp EXCEPT ![p] = [value |-> v, flushed |-> FALSE]]
    /\ Goto(p, "flush")
    /\ UNCHANGED <<path, durable, lock, call, seen>>

\* written == cbData && FlushFileBuffers.
Flush(p) ==
    /\ step[p] = "flush"
    /\ temp[p].value # Damaged
    /\ temp' = [temp EXCEPT ![p].flushed = TRUE]
    /\ Goto(p, "move")
    /\ UNCHANGED <<path, durable, lock, call, seen>>

Move(p) ==
    /\ step[p] = "move"
    /\ path' = temp[p].value
    /\ durable' = IF temp[p].flushed THEN temp[p].value ELSE Damaged
    /\ Finish(p, "ok")

Remove(p) ==
    /\ step[p] = "erase"
    /\ path' = None
    /\ UNCHANGED durable
    /\ Finish(p, "ok")

\* A call of Windows fails, or a size is refused: the temporary file is
\* removed, the lock released and the error thrown.
Throw(p) ==
    /\ step[p] \notin {"idle", "done"}
    /\ Finish(p, "failed")
    /\ UNCHANGED <<path, durable>>

Return(p) ==
    /\ step[p] = "done"
    /\ Atomic!Return(p)
    /\ Goto(p, "idle")
    /\ UNCHANGED <<temp, lock, seen>>

ProcessStops(p) ==
    /\ step[p] # "idle"
    /\ Atomic!ProcessStops(p)
    /\ Unwind(p, "idle")

\* The file system writes the removal of the file back.
WriteBack ==
    /\ path = None
    /\ Atomic!Settle
    /\ UNCHANGED <<temp, lock, step, seen>>

PowerLoss ==
    /\ Atomic!MachineStops
    /\ temp' = [p \in Procs |-> None]
    /\ lock' = None
    /\ step' = [p \in Procs |-> "idle"]
    /\ seen' = [p \in Procs |-> None]

Next ==
    \/ \E p \in Procs :
          \/ Begin(p) \/ Acquire(p)
          \/ CheckExists(p) \/ CheckSize(p) \/ ReadFile(p)
          \/ Write(p) \/ Flush(p) \/ Move(p)
          \/ Remove(p)
          \/ Throw(p) \/ Return(p) \/ ProcessStops(p)
    \/ WriteBack
    \/ PowerLoss

Spec == Init /\ [][Next]_vars

-----------------------------------------------------------------------------

\* Neither the state file nor what survives a power loss is ever damaged, and
\* every variable has its type (dpapi_state_store.cpp, save).
TypeOK ==
    /\ path \in Values \cup {None}
    /\ durable \in Values \cup {None}
    /\ temp \in [Procs -> Temporary \cup {None}]
    /\ lock \in Procs \cup {None}
    /\ call \in [Procs -> Atomic!Call \cup {None}]
    /\ step \in [Procs -> Steps]
    /\ seen \in [Procs -> Values \cup {None}]

\* The exists, the file_size and the read of a load see one and the same file:
\* until the load has read it, no other call removes or replaces the file that
\* exists found, though the three open it separately
\* (dpapi_state_store.cpp, load).
FileStaysUnderRead ==
    \A p \in Procs :
        step[p] \in {"size", "read"} => path = seen[p] /\ path # None

\* Every history of the store is one of the atomic store: a load returns the
\* value of the last save, a save that failed or was cut off by a crash left
\* either the old value or the new one, and a lost erase is the only thing a
\* power loss undoes (IStateStore in nightflyer.hpp).
IsAtomicStore == Atomic!Spec
=============================================================================
