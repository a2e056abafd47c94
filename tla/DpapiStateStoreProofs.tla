------------------------- MODULE DpapiStateStoreProofs -------------------------
(***************************************************************************)
(* Theorems of DpapiStateStore: it implements the atomic StateStore, for   *)
(* every set of processes and of values.                                   *)
(***************************************************************************)
EXTENDS DpapiStateStore, TLAPS

\* The call of a process and how far it is agree.
StepsFollowCalls ==
    \A p \in Procs :
        /\ (step[p] = "idle") = (call[p] = None)
        /\ call[p] # None =>
              /\ (step[p] = "done") = (call[p].result # None)
              /\ call[p].kind = "save" => call[p].value \in Values
        /\ step[p] \in {"load", "size", "read"} => call[p].kind = "load"
        /\ step[p] \in {"save", "flush", "move"} => call[p].kind = "save"
        /\ step[p] = "erase" => call[p].kind = "erase"

\* Whoever works on the file holds the lock.
WorksUnderLock ==
    \A p \in Procs : step[p] \notin {"idle", "locking", "done"} => lock = p

\* A temporary file holds the value of its call or a part of it, and all of
\* it on the disk once it may be moved.
TemporaryIsTheCalls ==
    \A p \in Procs :
        /\ step[p] = "flush" =>
              /\ temp[p] # None
              /\ temp[p].value \in {call[p].value, Damaged}
        /\ step[p] = "move" =>
              temp[p] = [value |-> call[p].value, flushed |-> TRUE]

Inv == /\ TypeOK /\ StepsFollowCalls /\ WorksUnderLock
       /\ TemporaryIsTheCalls /\ FileStaysUnderRead

-----------------------------------------------------------------------------
(* One lemma per action.                                                   *)

LEMMA BeginKeeps ==
    ASSUME Inv, NEW p \in Procs, Begin(p)
    PROVE  Inv'
<1>1. TypeOK'
  BY DEF Inv, TypeOK, Steps, Begin, Atomic!Invoke, Goto, Atomic!Call
<1>2. StepsFollowCalls'
  BY StoreAssumption DEF Inv, TypeOK, StepsFollowCalls, Begin, Atomic!Invoke,
         Goto, Atomic!Call
<1>3. WorksUnderLock'
  BY DEF Inv, WorksUnderLock, Begin, Goto
<1>4. TemporaryIsTheCalls'
  BY DEF Inv, TypeOK, TemporaryIsTheCalls, Begin, Atomic!Invoke, Goto
<1>5. FileStaysUnderRead'
  BY DEF Inv, FileStaysUnderRead, Begin, Atomic!Invoke, Goto
<1> QED BY <1>1, <1>2, <1>3, <1>4, <1>5 DEF Inv

LEMMA AcquireKeeps ==
    ASSUME Inv, NEW p \in Procs, Acquire(p)
    PROVE  Inv'
<1>1. TypeOK'
  BY DEF Inv, TypeOK, StepsFollowCalls, Steps, Acquire, Goto, Atomic!Call
<1>2. StepsFollowCalls'
  BY DEF Inv, TypeOK, StepsFollowCalls, Acquire, Goto, Atomic!Call
<1>3. WorksUnderLock'
  BY StoreAssumption DEF Inv, WorksUnderLock, Acquire, Goto
<1>4. TemporaryIsTheCalls'
  BY DEF Inv, TypeOK, StepsFollowCalls, TemporaryIsTheCalls, Acquire, Goto,
         Atomic!Call
<1>5. FileStaysUnderRead'
  BY DEF Inv, TypeOK, StepsFollowCalls, FileStaysUnderRead, Acquire, Goto,
         Atomic!Call
<1> QED BY <1>1, <1>2, <1>3, <1>4, <1>5 DEF Inv

LEMMA CheckExistsKeeps ==
    ASSUME Inv, NEW p \in Procs, CheckExists(p)
    PROVE  Inv'
<1>1. TypeOK'
  BY DEF Inv, TypeOK, StepsFollowCalls, Steps, CheckExists, Finish, Unwind,
         Goto, Atomic!Answered, Atomic!Call, Atomic!Outcome
<1>2. StepsFollowCalls'
  BY StoreAssumption DEF Inv, TypeOK, StepsFollowCalls, CheckExists, Finish,
         Unwind, Goto, Atomic!Answered, Atomic!Call, Atomic!Outcome
<1>3. WorksUnderLock'
  BY DEF Inv, TypeOK, WorksUnderLock, CheckExists, Finish, Unwind, Goto
<1>4. TemporaryIsTheCalls'
  BY DEF Inv, TypeOK, TemporaryIsTheCalls, CheckExists, Finish, Unwind, Goto,
         Atomic!Answered
<1>5. FileStaysUnderRead'
  BY DEF Inv, TypeOK, FileStaysUnderRead, CheckExists, Finish, Unwind, Goto
<1> QED BY <1>1, <1>2, <1>3, <1>4, <1>5 DEF Inv

LEMMA CheckSizeKeeps ==
    ASSUME Inv, NEW p \in Procs, CheckSize(p)
    PROVE  Inv'
<1>1. TypeOK'
  BY DEF Inv, TypeOK, Steps, CheckSize, Goto
<1>2. StepsFollowCalls'
  BY DEF Inv, TypeOK, StepsFollowCalls, CheckSize, Goto
<1>3. WorksUnderLock'
  BY DEF Inv, TypeOK, WorksUnderLock, CheckSize, Goto
<1>4. TemporaryIsTheCalls'
  BY DEF Inv, TypeOK, TemporaryIsTheCalls, CheckSize, Goto
<1>5. FileStaysUnderRead'
  BY DEF Inv, TypeOK, FileStaysUnderRead, CheckSize, Goto
<1> QED BY <1>1, <1>2, <1>3, <1>4, <1>5 DEF Inv

LEMMA ReadFileKeeps ==
    ASSUME Inv, NEW p \in Procs, ReadFile(p)
    PROVE  Inv'
<1>1. TypeOK'
  BY DEF Inv, TypeOK, StepsFollowCalls, FileStaysUnderRead, Steps, ReadFile,
         Finish, Unwind, Goto, Atomic!Answered, Atomic!Call
<1>2. StepsFollowCalls'
  BY StoreAssumption DEF Inv, TypeOK, StepsFollowCalls, FileStaysUnderRead,
         ReadFile, Finish, Unwind, Goto, Atomic!Answered, Atomic!Call
<1>3. WorksUnderLock'
  BY DEF Inv, TypeOK, WorksUnderLock, ReadFile, Finish, Unwind, Goto
<1>4. TemporaryIsTheCalls'
  BY DEF Inv, TemporaryIsTheCalls, ReadFile, Finish, Unwind, Goto,
         Atomic!Answered
<1>5. FileStaysUnderRead'
  BY DEF Inv, TypeOK, FileStaysUnderRead, ReadFile, Finish, Unwind, Goto
<1> QED BY <1>1, <1>2, <1>3, <1>4, <1>5 DEF Inv

LEMMA WriteKeeps ==
    ASSUME Inv, NEW p \in Procs, Write(p)
    PROVE  Inv'
<1>1. PICK v \in {call[p].value, Damaged} :
            temp' = [temp EXCEPT ![p] = [value |-> v, flushed |-> FALSE]]
  BY DEF Write
<1>2. [value |-> v, flushed |-> FALSE] \in Temporary
  BY DEF Inv, TypeOK, StepsFollowCalls, Write, Atomic!Call, Temporary
<1>3. temp' = [temp EXCEPT ![p] = [value |-> v, flushed |-> FALSE]]
      /\ temp'[p] # None /\ temp'[p].value = v
  BY <1>1, <1>2, StoreAssumption DEF Inv, TypeOK
<1>4. TypeOK'
  BY DEF Inv, TypeOK, StepsFollowCalls, Steps, Temporary, Write, Goto
<1>5. StepsFollowCalls'
  BY DEF Inv, StepsFollowCalls, Write, Goto
<1>6. WorksUnderLock'
  BY DEF Inv, WorksUnderLock, Write, Goto
<1>7. TemporaryIsTheCalls'
  BY <1>3 DEF Inv, TemporaryIsTheCalls, Write, Goto
<1>8. FileStaysUnderRead'
  BY DEF Inv, FileStaysUnderRead, Write, Goto
<1> QED BY <1>4, <1>5, <1>6, <1>7, <1>8 DEF Inv

LEMMA FlushKeeps ==
    ASSUME Inv, NEW p \in Procs, Flush(p)
    PROVE  Inv'
<1>1. temp[p] \in Temporary /\ temp[p].value = call[p].value
  BY DEF Inv, TypeOK, TemporaryIsTheCalls, Flush
<1>2. TypeOK'
  BY <1>1 DEF Inv, TypeOK, Steps, Temporary, Flush, Goto
<1>3. StepsFollowCalls'
  BY DEF Inv, StepsFollowCalls, Flush, Goto
<1>4. WorksUnderLock'
  BY DEF Inv, WorksUnderLock, Flush, Goto
<1>5. TemporaryIsTheCalls'
  BY <1>1 DEF Inv, TypeOK, TemporaryIsTheCalls, Temporary, Flush, Goto
<1>6. FileStaysUnderRead'
  BY DEF Inv, FileStaysUnderRead, Flush, Goto
<1> QED BY <1>2, <1>3, <1>4, <1>5, <1>6 DEF Inv

LEMMA MoveKeeps ==
    ASSUME Inv, NEW p \in Procs, Move(p)
    PROVE  Inv'
<1>1. TypeOK'
  BY DEF Inv, TypeOK, StepsFollowCalls, TemporaryIsTheCalls, Steps, Move,
         Finish, Unwind, Goto, Atomic!Answered, Atomic!Call, Atomic!Outcome
<1>2. StepsFollowCalls'
  BY StoreAssumption DEF Inv, TypeOK, StepsFollowCalls, Move, Finish, Unwind,
         Goto, Atomic!Answered, Atomic!Call, Atomic!Outcome
<1>3. WorksUnderLock'
  BY DEF Inv, TypeOK, WorksUnderLock, Move, Finish, Unwind, Goto
<1>4. TemporaryIsTheCalls'
  BY DEF Inv, TypeOK, TemporaryIsTheCalls, Move, Finish, Unwind, Goto,
         Atomic!Answered
<1>5. FileStaysUnderRead'
  BY DEF Inv, TypeOK, WorksUnderLock, FileStaysUnderRead, Move, Finish,
         Unwind, Goto
<1> QED BY <1>1, <1>2, <1>3, <1>4, <1>5 DEF Inv

LEMMA RemoveKeeps ==
    ASSUME Inv, NEW p \in Procs, Remove(p)
    PROVE  Inv'
<1>1. TypeOK'
  BY DEF Inv, TypeOK, StepsFollowCalls, Steps, Remove, Finish, Unwind, Goto,
         Atomic!Answered, Atomic!Call, Atomic!Outcome
<1>2. StepsFollowCalls'
  BY StoreAssumption DEF Inv, TypeOK, StepsFollowCalls, Remove, Finish,
         Unwind, Goto, Atomic!Answered, Atomic!Call, Atomic!Outcome
<1>3. WorksUnderLock'
  BY DEF Inv, TypeOK, WorksUnderLock, Remove, Finish, Unwind, Goto
<1>4. TemporaryIsTheCalls'
  BY DEF Inv, TemporaryIsTheCalls, Remove, Finish, Unwind, Goto,
         Atomic!Answered
<1>5. FileStaysUnderRead'
  BY DEF Inv, TypeOK, WorksUnderLock, FileStaysUnderRead, Remove, Finish,
         Unwind, Goto
<1> QED BY <1>1, <1>2, <1>3, <1>4, <1>5 DEF Inv

LEMMA ThrowKeeps ==
    ASSUME Inv, NEW p \in Procs, Throw(p)
    PROVE  Inv'
<1>1. TypeOK'
  BY DEF Inv, TypeOK, StepsFollowCalls, Steps, Throw, Finish, Unwind, Goto,
         Atomic!Answered, Atomic!Call, Atomic!Outcome
<1>2. StepsFollowCalls'
  BY StoreAssumption DEF Inv, TypeOK, StepsFollowCalls, Throw, Finish, Unwind,
         Goto, Atomic!Answered, Atomic!Call, Atomic!Outcome
<1>3. WorksUnderLock'
  BY DEF Inv, TypeOK, WorksUnderLock, Throw, Finish, Unwind, Goto
<1>4. TemporaryIsTheCalls'
  BY DEF Inv, TypeOK, TemporaryIsTheCalls, Throw, Finish, Unwind, Goto,
         Atomic!Answered
<1>5. FileStaysUnderRead'
  BY DEF Inv, TypeOK, FileStaysUnderRead, Throw, Finish, Unwind, Goto
<1> QED BY <1>1, <1>2, <1>3, <1>4, <1>5 DEF Inv

LEMMA ReturnKeeps ==
    ASSUME Inv, NEW p \in Procs, Return(p)
    PROVE  Inv'
<1>1. TypeOK'
  BY DEF Inv, TypeOK, Steps, Return, Atomic!Return, Goto
<1>2. StepsFollowCalls'
  BY DEF Inv, TypeOK, StepsFollowCalls, Return, Atomic!Return, Goto
<1>3. WorksUnderLock'
  BY DEF Inv, WorksUnderLock, Return, Goto
<1>4. TemporaryIsTheCalls'
  BY DEF Inv, TemporaryIsTheCalls, Return, Atomic!Return, Goto
<1>5. FileStaysUnderRead'
  BY DEF Inv, FileStaysUnderRead, Return, Atomic!Return, Goto
<1> QED BY <1>1, <1>2, <1>3, <1>4, <1>5 DEF Inv

LEMMA ProcessStopsKeeps ==
    ASSUME Inv, NEW p \in Procs, ProcessStops(p)
    PROVE  Inv'
<1>1. TypeOK'
  BY DEF Inv, TypeOK, Steps, ProcessStops, Atomic!ProcessStops, Unwind, Goto
<1>2. StepsFollowCalls'
  BY DEF Inv, TypeOK, StepsFollowCalls, ProcessStops, Atomic!ProcessStops,
         Unwind, Goto
<1>3. WorksUnderLock'
  BY DEF Inv, TypeOK, WorksUnderLock, ProcessStops, Unwind, Goto
<1>4. TemporaryIsTheCalls'
  BY DEF Inv, TypeOK, TemporaryIsTheCalls, ProcessStops, Atomic!ProcessStops,
         Unwind, Goto
<1>5. FileStaysUnderRead'
  BY DEF Inv, TypeOK, FileStaysUnderRead, ProcessStops, Atomic!ProcessStops,
         Unwind, Goto
<1> QED BY <1>1, <1>2, <1>3, <1>4, <1>5 DEF Inv

LEMMA WriteBackKeeps ==
    ASSUME Inv, WriteBack
    PROVE  Inv'
<1>1. TypeOK'
  BY DEF Inv, TypeOK, WriteBack, Atomic!Settle
<1>2. StepsFollowCalls'
  BY DEF Inv, StepsFollowCalls, WriteBack, Atomic!Settle
<1>3. WorksUnderLock'
  BY DEF Inv, WorksUnderLock, WriteBack
<1>4. TemporaryIsTheCalls'
  BY DEF Inv, TemporaryIsTheCalls, WriteBack, Atomic!Settle
<1>5. FileStaysUnderRead'
  BY DEF Inv, FileStaysUnderRead, WriteBack
<1> QED BY <1>1, <1>2, <1>3, <1>4, <1>5 DEF Inv

LEMMA PowerLossKeeps ==
    ASSUME Inv, PowerLoss
    PROVE  Inv'
<1>1. TypeOK'
  BY DEF Inv, TypeOK, Steps, PowerLoss, Atomic!MachineStops
<1>2. StepsFollowCalls'
  BY DEF Inv, StepsFollowCalls, PowerLoss, Atomic!MachineStops
<1>3. WorksUnderLock'
  BY DEF Inv, WorksUnderLock, PowerLoss
<1>4. TemporaryIsTheCalls'
  BY DEF Inv, TemporaryIsTheCalls, PowerLoss
<1>5. FileStaysUnderRead'
  BY DEF Inv, FileStaysUnderRead, PowerLoss
<1> QED BY <1>1, <1>2, <1>3, <1>4, <1>5 DEF Inv

LEMMA InitInv == ASSUME Init PROVE Inv
  BY StoreAssumption DEF Init, Atomic!Init, Inv, TypeOK, StepsFollowCalls,
     WorksUnderLock, TemporaryIsTheCalls, FileStaysUnderRead, Steps

LEMMA NextInv == ASSUME Inv, [Next]_vars PROVE Inv'
<1>1. CASE UNCHANGED vars
  BY <1>1 DEF vars, Inv, TypeOK, StepsFollowCalls, WorksUnderLock,
     TemporaryIsTheCalls, FileStaysUnderRead
<1>2. CASE Next
  BY <1>2, BeginKeeps, AcquireKeeps, CheckExistsKeeps, CheckSizeKeeps,
     ReadFileKeeps, WriteKeeps, FlushKeeps, MoveKeeps, RemoveKeeps, ThrowKeeps, ReturnKeeps,
     ProcessStopsKeeps, WriteBackKeeps, PowerLossKeeps
     DEF Next
<1> QED BY <1>1, <1>2

\* The inductive invariant of the store: the steps of a call follow one
\* another under the lock, and only a whole flushed file is moved
\* (dpapi_state_store.cpp).
THEOREM StoreInvariant == Spec => []Inv
<1>1. Init => Inv
  BY InitInv
<1>2. Inv /\ [Next]_vars => Inv'
  BY NextInv
<1> QED BY <1>1, <1>2, PTL DEF Spec

\* The state file and what survives a power loss are always whole values
\* (dpapi_state_store.cpp, save).
THEOREM FilesStayWhole == Spec => []TypeOK
<1>1. Inv => TypeOK
  BY DEF Inv
<1> QED BY <1>1, StoreInvariant, PTL

\* The file whose existence a load saw is the file whose size it takes and
\* whose contents it reads, neither removed nor replaced in between, however
\* many processes use the store and wherever they or the machine stop
\* (dpapi_state_store.cpp, load).
THEOREM LoadSeesOneFile == Spec => []FileStaysUnderRead
<1>1. Inv => FileStaysUnderRead
  BY DEF Inv
<1> QED BY <1>1, StoreInvariant, PTL

-----------------------------------------------------------------------------
(* What each action is in the atomic store.                                *)

av == <<path, durable, call>>

LEMMA BeginInvokes ==
    ASSUME NEW p \in Procs, Begin(p)
    PROVE  Atomic!Next
  BY DEF Begin, Atomic!Next

LEMMA PreparesUnseen ==
    ASSUME NEW p \in Procs, Acquire(p) \/ CheckSize(p) \/ Write(p) \/ Flush(p)
    PROVE  UNCHANGED av
  BY DEF Acquire, CheckSize, Write, Flush, av

\* A call that is under way has not taken effect.
LEMMA UnderWay ==
    ASSUME Inv, NEW p \in Procs, step[p] \notin {"idle", "done"}
    PROVE  call[p] # None /\ call[p].result = None
  BY DEF Inv, TypeOK, StepsFollowCalls

LEMMA CheckFindsNothing ==
    ASSUME Inv, NEW p \in Procs, CheckExists(p)
    PROVE  Atomic!Effect(p) \/ UNCHANGED av
<1>1. call[p] # None /\ call[p].result = None /\ call[p].kind = "load"
  BY UnderWay DEF CheckExists, Inv, StepsFollowCalls
<1>2. CASE path = None
  BY <1>1, <1>2 DEF CheckExists, Finish, Atomic!Effect, Atomic!Load
<1>3. CASE path # None
  BY <1>3 DEF CheckExists, av
<1> QED BY <1>2, <1>3

LEMMA ReadLoads ==
    ASSUME Inv, NEW p \in Procs, ReadFile(p)
    PROVE  Atomic!Effect(p)
<1>1. call[p] # None /\ call[p].result = None /\ call[p].kind = "load"
  BY UnderWay DEF ReadFile, Inv, StepsFollowCalls
<1>2. path # None /\ path \in Values
  BY DEF ReadFile, Inv, FileStaysUnderRead, TypeOK
<1> QED BY <1>1, <1>2 DEF ReadFile, Finish, Atomic!Effect, Atomic!Load

LEMMA MoveSaves ==
    ASSUME Inv, NEW p \in Procs, Move(p)
    PROVE  Atomic!Effect(p)
<1>1. call[p] # None /\ call[p].result = None /\ call[p].kind = "save"
  BY UnderWay DEF Move, Inv, StepsFollowCalls
<1>2. temp[p] = [value |-> call[p].value, flushed |-> TRUE]
  BY DEF Move, Inv, TemporaryIsTheCalls
<1>3. temp[p].value = call[p].value /\ temp[p].flushed = TRUE
  BY <1>2
<1> QED BY <1>1, <1>3 DEF Move, Finish, Atomic!Effect, Atomic!Save

LEMMA RemoveErases ==
    ASSUME Inv, NEW p \in Procs, Remove(p)
    PROVE  Atomic!Effect(p)
<1>1. call[p] # None /\ call[p].result = None /\ call[p].kind = "erase"
  BY UnderWay DEF Remove, Inv, StepsFollowCalls
<1> QED BY <1>1 DEF Remove, Finish, Atomic!Effect, Atomic!Erase

LEMMA ThrowFails ==
    ASSUME Inv, NEW p \in Procs, Throw(p)
    PROVE  Atomic!Effect(p)
  BY UnderWay DEF Throw, Finish, Atomic!Effect, Atomic!Fail

LEMMA StepRefines == ASSUME Inv, [Next]_vars PROVE [Atomic!Next]_av
<1>1. CASE UNCHANGED vars
  BY <1>1 DEF vars, av
<1>2. ASSUME NEW p \in Procs, Begin(p)
      PROVE  Atomic!Next
  BY <1>2, BeginInvokes
<1>3. ASSUME NEW p \in Procs,
             Acquire(p) \/ CheckSize(p) \/ Write(p) \/ Flush(p)
      PROVE  UNCHANGED av
  BY <1>3, PreparesUnseen
<1>4. ASSUME NEW p \in Procs,
             CheckExists(p) \/ ReadFile(p) \/ Move(p) \/ Remove(p) \/ Throw(p)
      PROVE  Atomic!Effect(p) \/ UNCHANGED av
  BY <1>4, CheckFindsNothing, ReadLoads, MoveSaves, RemoveErases, ThrowFails
<1>5. ASSUME NEW p \in Procs, Return(p) \/ ProcessStops(p)
      PROVE  Atomic!Return(p) \/ Atomic!ProcessStops(p)
  BY <1>5 DEF Return, ProcessStops
<1>6. ASSUME WriteBack \/ PowerLoss
      PROVE  Atomic!Settle \/ Atomic!MachineStops
  BY <1>6 DEF WriteBack, PowerLoss
<1> QED BY <1>1, <1>2, <1>3, <1>4, <1>5, <1>6 DEF Next, Atomic!Next

\* The store keeps the promise of IStateStore: locking, temporary file, flush
\* and move together are one atomic load, save or erase, through crashes of
\* its processes and of the machine (dpapi_state_store.cpp, nightflyer.hpp).
THEOREM StoreIsAtomic == Spec => IsAtomicStore
<1>1. Init => Atomic!Init
  BY DEF Init
<1>2. Inv /\ [Next]_vars => [Atomic!Next]_<<path, durable, call>>
  BY StepRefines DEF av
<1> QED BY <1>1, <1>2, StoreInvariant, PTL DEF Spec, IsAtomicStore, Atomic!Spec
=============================================================================
