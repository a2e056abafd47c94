-------------------------- MODULE SessionHolderProofs --------------------------
(***************************************************************************)
(* Theorems of SessionHolder, for every number of tasks, settings, calls   *)
(* and epochs.                                                             *)
(***************************************************************************)
EXTENDS SessionHolder, TLAPS

UnderGate(t) == task[t].stage \notin {"idle", "queued", "posted"}

\* Only the task that holds the gate is past it.
Gated == \A t \in Tasks : UnderGate(t) => gate = t

\* What a task past the gate knows of the slot.
Knows(t) ==
    /\ task[t].stage \in {"disposing", "running", "sent", "second", "lapsed"} =>
          session # None
    /\ task[t].stage = "creating" => session = None
    /\ task[t].stage = "disposing" => session.lease \in tried
    /\ task[t].stage = "second" => task[t].op = "easy"
    /\ task[t].stage = "lapsed" =>
          task[t].op = "tick" /\ session.expired /\ session.lease # 0
    /\ task[t].stage = "sent" =>
          /\ task[t].request # None
          /\ task[t].request.epoch = session.lease
          /\ task[t].request.endpoint # "authorize" => session.lease # 0
          /\ task[t].op \in {"easy", "tick"} \/ task[t].request.endpoint = "end"
          /\ task[t].op = "tick" /\ task[t].request.endpoint = "end" =>
                session.expired
    /\ task[t].stage \in {"running", "sent", "second"} /\ task[t].op = "easy" =>
          session.config = task[t].config

\* The slot remembers the settings of its session.
Remembers == session # None => remembered = session.config

\* A lease this process has held was issued.
Issued == \A e \in held : e # 0 /\ e <= service.last

LockOwned ==
    (lock = "own") <=> (session # None /\ session.config \in MemoryConfigs)

-----------------------------------------------------------------------------

\* The two halves of TypeOK: the calls, and the slot they share.
TaskType ==
    /\ task \in [Tasks -> Task]
    /\ gate \in Tasks \cup {None}

SlotType ==
    /\ session \in Session \cup {None}
    /\ remembered \in Configs \cup {None}
    /\ lock \in {None, "own", "peer"}
    /\ service \in [last : Nat, active : Nat]
    /\ service.active \in {0, service.last}
    /\ session # None =>
          /\ session.lease <= service.last
          /\ session.lease = 0 => ~ session.expired /\ ~ session.ending
    /\ calls \in 0 .. MaxCalls
    /\ held \in SUBSET Nat
    /\ tried \in SUBSET Nat

SlotOK == SlotType /\ LockOwned /\ Remembers /\ Issued /\ NoLeaseDropped

TasksOK == TaskType /\ Gated /\ \A t \in Tasks : Knows(t)

Inv == TasksOK /\ SlotOK

slot == <<session, remembered, lock, service, held, tried>>

LEMMA SlotUntouched ==
    ASSUME SlotOK, UNCHANGED slot, calls' \in 0 .. MaxCalls
    PROVE  SlotOK'
  BY DEF SlotOK, SlotType, LockOwned, Remembers, Issued, NoLeaseDropped, slot

\* A call past the gate moves: only it was past the gate, so no other task
\* knows anything of the slot.
LEMMA GatedMove ==
    ASSUME TasksOK, NEW t \in Tasks, gate = t,
           NEW x \in Task, task' = [task EXCEPT ![t] = x],
           \/ gate' = t
           \/ gate' = None /\ x.stage \in {"idle", "queued", "posted"},
           Knows(t)'
    PROVE  TasksOK'
<1>1. task' \in [Tasks -> Task] /\ task'[t] = x
  BY DEF TasksOK, TaskType
<1>2. \A u \in Tasks \ {t} : task'[u] = task[u]
  BY DEF TasksOK, TaskType
<1>3. \A u \in Tasks \ {t} :
         task'[u].stage \in {"idle", "queued", "posted"}
  BY <1>2 DEF TasksOK, Gated, UnderGate
<1>4. \A u \in Tasks \ {t} : Knows(u)'
  BY <1>3 DEF Knows
<1>5. Gated'
  BY <1>1, <1>3 DEF Gated, UnderGate
<1> QED
  BY <1>1, <1>4, <1>5 DEF TasksOK, TaskType

LEMMA Past ==
    ASSUME TasksOK, NEW t \in Tasks, UnderGate(t)
    PROVE  gate = t
  BY DEF TasksOK, Gated

LEMMA Moved ==
    ASSUME TasksOK, NEW t \in Tasks, NEW s \in Stages, Go(t, s)
    PROVE  /\ [task[t] EXCEPT !.stage = s] \in Task
           /\ task' = [task EXCEPT ![t] = [task[t] EXCEPT !.stage = s]]
           /\ task'[t] = [task[t] EXCEPT !.stage = s]
           /\ task'[t].stage = s /\ task'[t].op = task[t].op
           /\ task'[t].config = task[t].config
           /\ task'[t].request = task[t].request
<1>1. task[t] \in Task
  BY DEF TasksOK, TaskType
<1> QED
  BY <1>1 DEF Go, TasksOK, TaskType, Task

LEMMA Posted ==
    ASSUME TasksOK, SlotType, session # None, NEW t \in Tasks,
           NEW endpoint \in Endpoints, Post(t, endpoint)
    PROVE  /\ task'[t] \in Task
           /\ task' = [task EXCEPT ![t] = task'[t]]
           /\ task'[t].stage = "sent" /\ task'[t].op = task[t].op
           /\ task'[t].config = task[t].config
           /\ task'[t].request = [endpoint |-> endpoint, epoch |-> session.lease]
           /\ task'[t].request \in Request /\ task'[t].request # None
<1>1. task[t] \in Task
  BY DEF TasksOK, TaskType
<1>2. session \in Session
  BY DEF SlotType
<1>3. [endpoint |-> endpoint, epoch |-> session.lease] \in Request
  BY <1>2 DEF Session, Request
<1>4. "sent" \in Stages
  BY DEF Stages
<1> DEFINE x == [task[t] EXCEPT !.stage = "sent",
                   !.request = [endpoint |-> endpoint, epoch |-> session.lease]]
<1>5. task' = [task EXCEPT ![t] = x] /\ task \in [Tasks -> Task]
  BY DEF Post, TasksOK, TaskType
<1>6. x \in Task /\ x.stage = "sent" /\ x.op = task[t].op
      /\ x.config = task[t].config
      /\ x.request = [endpoint |-> endpoint, epoch |-> session.lease]
  BY <1>1, <1>3, <1>4 DEF Task
<1> HIDE DEF x
<1>7. task'[t] = x
  BY <1>5
<1> QED
  BY <1>3, <1>5, <1>6, <1>7, HolderAssumption

\* It moves on with the request it has.
LEMMA GatedGo ==
    ASSUME TasksOK, NEW t \in Tasks, gate = t, gate' = gate,
           NEW s \in Stages, Go(t, s), Knows(t)'
    PROVE  TasksOK'
<1> DEFINE x == [task[t] EXCEPT !.stage = s]
<1>1. x \in Task /\ task' = [task EXCEPT ![t] = x]
  BY Moved
<1> HIDE DEF x
<1> QED
  BY <1>1, GatedMove

-----------------------------------------------------------------------------
(* One lemma per kind of step.                                             *)

LEMMA InitInv == Init => Inv
<1> SUFFICES ASSUME Init PROVE Inv
  OBVIOUS
<1>1. AnyConfig \in Configs
  BY HolderAssumption DEF AnyConfig
<1>2. Idle \in Task
  BY <1>1 DEF Idle, Task, Stages, Ops
<1>3. TasksOK
  BY <1>2 DEF Init, TasksOK, TaskType, Gated, UnderGate, Knows, Idle
<1>4. SlotOK
  BY HolderAssumption
     DEF Init, SlotOK, SlotType, LockOwned, Remembers, Issued, NoLeaseDropped
<1> QED
  BY <1>3, <1>4 DEF Inv

LEMMA CallStep ==
    ASSUME TasksOK, SlotOK, NEW t \in Tasks, NEW op \in Ops, NEW c \in Configs, Call(t, op, c)
    PROVE  Inv'
<1> DEFINE x == [stage |-> "queued", op |-> op, config |-> c, request |-> None]
<1>1. x \in Task /\ x.stage = "queued"
  BY DEF Task, Stages
<1>2. task' = [task EXCEPT ![t] = x] /\ gate' = gate
  BY DEF Call
<1> HIDE DEF x
<1>3. TasksOK'
  <2>1. \A u \in Tasks : task'[u] = IF u = t THEN x ELSE task[u]
    BY <1>2 DEF TasksOK, TaskType
  <2>2. \A u \in Tasks : u # t => Knows(u)'
    BY <2>1 DEF TasksOK, Knows, Call
  <2>3. Knows(t)'
    BY <1>1, <2>1 DEF Knows
  <2>4. Gated'
    BY <1>1, <1>2, <2>1 DEF TasksOK, Gated, UnderGate
  <2> QED
    BY <1>1, <1>2, <2>2, <2>3, <2>4 DEF TasksOK, TaskType
<1>4. calls' \in 0 .. MaxCalls
  BY HolderAssumption DEF Call, SlotOK, SlotType
<1>5. UNCHANGED slot
  BY DEF Call, slot
<1> QED
  BY <1>3, <1>4, <1>5, SlotUntouched DEF Inv

\* Steps that leave the slot alone.
LEMMA LockStep ==
    ASSUME TasksOK, SlotOK, NEW t \in Tasks, Lock(t)
    PROVE  Inv'
<1>1. /\ task'[t].stage = "locked" /\ task' \in [Tasks -> Task]
      /\ \A u \in Tasks : u # t => task'[u] = task[u]
  BY Moved DEF Lock, Go, Stages, TasksOK, TaskType
<1>2. \A u \in Tasks : task[u].stage \in {"idle", "queued", "posted"}
  BY HolderAssumption DEF Lock, TasksOK, Gated, UnderGate
<1>3. TasksOK'
  BY <1>1, <1>2 DEF Lock, TasksOK, TaskType, Gated, UnderGate, Knows
<1>4. UNCHANGED slot /\ calls' \in 0 .. MaxCalls
  BY DEF Lock, slot, SlotOK, SlotType
<1> QED
  BY <1>3, <1>4, SlotUntouched DEF Inv

\* A call past the gate that leaves the slot alone and stays past it.
LEMMA QuietStep ==
    ASSUME TasksOK, SlotOK, NEW t \in Tasks, UnderGate(t),
           NEW s \in Stages, Go(t, s),
           \/ gate' = gate
           \/ gate' = None /\ s \in {"idle", "queued", "posted"},
           UNCHANGED <<slot, calls>>, Knows(t)'
    PROVE  Inv'
<1>1. gate = t
  BY Past
<1>2. TasksOK'
  <2> DEFINE x == [task[t] EXCEPT !.stage = s]
  <2>1. x \in Task /\ task' = [task EXCEPT ![t] = x] /\ x.stage = s
    BY Moved DEF TasksOK, TaskType, Task
  <2> HIDE DEF x
  <2> QED
    BY <1>1, <2>1, GatedMove
<1>3. SlotOK'
  BY SlotUntouched DEF SlotOK, SlotType
<1> QED
  BY <1>2, <1>3 DEF Inv

LEMMA UnlockStep ==
    ASSUME TasksOK, SlotOK, NEW t \in Tasks, Unlock(t)
    PROVE  Inv'
<1> DEFINE s == IF task[t].op = "forget" THEN "idle" ELSE "posted"
<1>1. s \in Stages /\ s \in {"idle", "posted"}
  BY DEF Stages
<1>2. Go(t, s) /\ UnderGate(t) /\ UNCHANGED <<slot, calls>> /\ gate' = None
  BY DEF Unlock, At, UnderGate, slot
<1> HIDE DEF s
<1>3. Knows(t)'
  BY <1>1, <1>2, Moved DEF Knows
<1> QED
  BY <1>1, <1>2, <1>3, QuietStep

LEMMA ReuseStep ==
    ASSUME TasksOK, SlotOK, NEW t \in Tasks, Reuse(t)
    PROVE  Inv'
<1>1. "running" \in Stages
  BY DEF Stages
<1>2. Go(t, "running") /\ UnderGate(t) /\ UNCHANGED <<slot, calls>> /\ gate' = gate
  BY DEF Reuse, At, UnderGate, slot
<1>3. Knows(t)'
  BY <1>1, <1>2, Moved DEF Knows, Reuse, Matches, SlotOK, Remembers
<1> QED
  BY <1>1, <1>2, <1>3, QuietStep

LEMMA OtherQuietSteps ==
    ASSUME TasksOK, SlotOK, NEW t \in Tasks,
           CreateFails(t) \/ Find(t) \/ NothingToDo(t) \/ Refused(t)
    PROVE  Inv'
<1>1. {"running", "second", "returning", "failed"} \subseteq Stages
  BY DEF Stages
<1>2. CASE CreateFails(t)
  <2>1. Go(t, "failed") /\ UnderGate(t) /\ UNCHANGED <<slot, calls>> /\ gate' = gate
    BY <1>2 DEF CreateFails, At, UnderGate, slot
  <2>2. Knows(t)'
    BY <1>1, <2>1, Moved DEF Knows
  <2> QED
    BY <1>1, <2>1, <2>2, QuietStep
<1>3. CASE Find(t)
  <2> DEFINE s == IF session = None THEN "returning" ELSE "running"
  <2>1. Go(t, s) /\ UnderGate(t) /\ UNCHANGED <<slot, calls>> /\ gate' = gate
    BY <1>3 DEF Find, At, UnderGate, slot
  <2>2. s \in Stages /\ s \in {"returning", "running"}
    BY <1>1
  <2>3. s = "running" => session # None
    OBVIOUS
  <2>4. task[t].op # "easy" /\ session' = session
    BY <1>3 DEF Find
  <2> HIDE DEF s
  <2>5. Knows(t)'
    BY <2>1, <2>2, <2>3, <2>4, Moved DEF Knows
  <2> QED
    BY <2>1, <2>2, <2>5, QuietStep
<1>4. CASE NothingToDo(t)
  <2>1. Go(t, "returning") /\ UnderGate(t) /\ UNCHANGED <<slot, calls>> /\ gate' = gate
    BY <1>4 DEF NothingToDo, At, UnderGate, slot
  <2>2. Knows(t)'
    BY <1>1, <2>1, Moved DEF Knows
  <2> QED
    BY <1>1, <2>1, <2>2, QuietStep
<1>5. CASE Refused(t)
  <2>1. Go(t, "second") /\ UnderGate(t) /\ UNCHANGED <<slot, calls>> /\ gate' = gate
    BY <1>5 DEF Refused, At, UnderGate, slot
  <2>2. /\ task[t].op = "easy" /\ session # None /\ session' = session
        /\ session.config = task[t].config
    BY <1>5 DEF Refused, At, TasksOK, Knows
  <2>3. Knows(t)'
    BY <1>1, <2>1, <2>2, Moved DEF Knows
  <2> QED
    BY <1>1, <2>1, <2>3, QuietStep
<1> QED
  BY <1>2, <1>3, <1>4, <1>5

LEMMA DeliverStep ==
    ASSUME TasksOK, SlotOK, NEW t \in Tasks, Deliver(t)
    PROVE  Inv'
<1>1. AnyConfig \in Configs
  BY HolderAssumption DEF AnyConfig
<1>2. Idle \in Task /\ Idle.stage = "idle"
  BY <1>1 DEF Idle, Task, Stages, Ops
<1>3. /\ task' = [task EXCEPT ![t] = Idle] /\ gate' = gate
      /\ task[t].stage = "posted"
  BY DEF Deliver, At
<1>4. \A u \in Tasks : task'[u] = IF u = t THEN Idle ELSE task[u]
  BY <1>3 DEF TasksOK, TaskType
<1>5. TasksOK'
  <2>1. \A u \in Tasks : u # t => Knows(u)'
    BY <1>4 DEF TasksOK, Knows, Deliver
  <2>2. Knows(t)'
    BY <1>2, <1>4 DEF Knows
  <2>3. Gated'
    BY <1>2, <1>3, <1>4 DEF TasksOK, Gated, UnderGate
  <2> QED
    BY <1>2, <1>3, <2>1, <2>2, <2>3 DEF TasksOK, TaskType
<1>6. UNCHANGED slot /\ calls' \in 0 .. MaxCalls
  BY DEF Deliver, slot, SlotOK, SlotType
<1> QED
  BY <1>5, <1>6, SlotUntouched DEF Inv

-----------------------------------------------------------------------------
(* Steps of the world outside.                                             *)

\* Nobody's knowledge depends on the service or the peer, and a lease that
\* lapses leaves what is known in place.
LEMMA WorldStep ==
    ASSUME TasksOK, SlotOK, Expire \/ ServiceEnds \/ Peer
    PROVE  Inv'
<1>1. CASE Expire
  <2>1. /\ session # None /\ session \in Session /\ session' # None
        /\ session' = [session EXCEPT !.expired = TRUE] /\ session.lease # 0
    BY <1>1, HolderAssumption DEF Expire, SlotOK, SlotType, Session
  <2>2. /\ session' \in Session /\ session'.lease = session.lease
        /\ session'.config = session.config /\ session'.expired
        /\ session'.ending = session.ending
    BY <2>1 DEF Session
  <2>3. TasksOK'
    BY <1>1, <2>1, <2>2 DEF Expire, TasksOK, TaskType, Gated, UnderGate, Knows
  <2>4. SlotOK'
    BY <1>1, <2>1, <2>2
       DEF Expire, SlotOK, SlotType, LockOwned, Remembers, Issued, NoLeaseDropped
  <2> QED
    BY <2>3, <2>4 DEF Inv
<1>2. CASE ServiceEnds
  <2>1. service' = [last |-> service.last, active |-> 0] /\ service.last \in Nat
    BY <1>2 DEF ServiceEnds, SlotOK, SlotType
  <2>2. SlotOK'
    BY <1>2, <2>1
       DEF ServiceEnds, SlotOK, SlotType, LockOwned, Remembers, Issued,
           NoLeaseDropped
  <2>3. TasksOK'
    BY <1>2 DEF ServiceEnds, TasksOK, TaskType, Gated, UnderGate, Knows
  <2> QED
    BY <2>2, <2>3 DEF Inv
<1>3. CASE Peer
  <2>1. SlotOK'
    BY <1>3, HolderAssumption
       DEF Peer, SlotOK, SlotType, LockOwned, Remembers, Issued, NoLeaseDropped
  <2>2. TasksOK'
    BY <1>3 DEF Peer, TasksOK, TaskType, Gated, UnderGate, Knows
  <2> QED
    BY <2>1, <2>2 DEF Inv
<1> QED
  BY <1>1, <1>2, <1>3

-----------------------------------------------------------------------------
(* Steps that replace the session.                                         *)

LEMMA DestroyedSlot ==
    ASSUME SlotOK, Destroyed
    PROVE  session' = None /\ lock' \in {None, "peer"}
  BY HolderAssumption DEF SlotOK, SlotType, Destroyed

LEMMA ReplaceStep ==
    ASSUME TasksOK, SlotOK, NEW t \in Tasks, Replace(t)
    PROVE  Inv'
<1>1. gate = t /\ gate' = gate
  BY Past DEF Replace, At, UnderGate
<1>2. CASE MustEnd
  <2>1. /\ Go(t, "disposing") /\ "disposing" \in Stages
        /\ tried' = tried \cup {session.lease}
        /\ UNCHANGED <<session, lock, gate, remembered, service, calls, held>>
    BY <1>2 DEF Replace, Stages
  <2>2. session # None /\ session.lease \in Nat
    BY <1>2 DEF MustEnd, SlotOK, SlotType, Session
  <2>3. Knows(t)'
    BY <2>1, <2>2, Moved DEF Knows
  <2>4. TasksOK'
    BY <1>1, <2>1, <2>3, GatedGo
  <2>5. SlotOK'
    BY <2>1, <2>2
       DEF SlotOK, SlotType, LockOwned, Remembers, Issued, NoLeaseDropped
  <2> QED
    BY <2>4, <2>5 DEF Inv
<1>3. CASE ~ MustEnd
  <2>1. /\ Go(t, "creating") /\ "creating" \in Stages /\ Destroyed
        /\ UNCHANGED <<gate, remembered, service, calls, held, tried>>
    BY <1>3 DEF Replace, Stages
  <2>2. session' = None /\ lock' \in {None, "peer"}
    BY <2>1, DestroyedSlot
  <2>3. Knows(t)'
    BY <2>1, <2>2, Moved DEF Knows
  <2>4. TasksOK'
    BY <1>1, <2>1, <2>3, GatedGo
  <2>5. session # None => session.lease = 0
    BY <1>3 DEF MustEnd
  <2>6. SlotOK'
    BY <2>1, <2>2, <2>5, HolderAssumption
       DEF SlotOK, SlotType, LockOwned, Remembers, Issued, NoLeaseDropped
  <2> QED
    BY <2>4, <2>6 DEF Inv
<1> QED
  BY <1>2, <1>3

LEMMA DisposeAnsweredStep ==
    ASSUME TasksOK, SlotOK, NEW t \in Tasks, DisposeAnswered(t)
    PROVE  Inv'
<1>1. gate = t /\ gate' = gate
  BY Past DEF DisposeAnswered, At, UnderGate
<1>2. /\ Go(t, "creating") /\ "creating" \in Stages /\ Destroyed
      /\ UNCHANGED <<gate, remembered, calls, held, tried>>
  BY DEF DisposeAnswered, Stages
<1>3. session' = None /\ lock' \in {None, "peer"}
  BY <1>2, DestroyedSlot
<1>4. session # None /\ session.lease \in tried
  BY DEF DisposeAnswered, At, TasksOK, Knows
<1>5. /\ service' \in [last : Nat, active : Nat]
      /\ service'.last = service.last
      /\ service'.active \in {0, service.active}
  BY DEF DisposeAnswered, SlotOK, SlotType
<1>6. Knows(t)'
  BY <1>2, <1>3, Moved DEF Knows
<1>7. TasksOK'
  BY <1>1, <1>2, <1>6, GatedGo
<1>8. SlotOK'
  BY <1>2, <1>3, <1>4, <1>5, HolderAssumption
     DEF SlotOK, SlotType, LockOwned, Remembers, Issued, NoLeaseDropped
<1> QED
  BY <1>7, <1>8 DEF Inv

LEMMA CreateStep ==
    ASSUME TasksOK, SlotOK, NEW t \in Tasks, Create(t)
    PROVE  Inv'
<1> DEFINE c == task[t].config
           s == [config |-> c, lease |-> 0, expired |-> FALSE, ending |-> FALSE]
<1>1. gate = t /\ gate' = gate
  BY Past DEF Create, At, UnderGate
<1>2. c \in Configs /\ s \in Session
  BY DEF TasksOK, TaskType, Task, Session
<1>3. s # None /\ s.config = c /\ s.lease = 0 /\ ~ s.expired /\ ~ s.ending
  BY <1>2, HolderAssumption
<1>4. session = None
  BY DEF Create, At, TasksOK, Knows
<1>5. /\ Go(t, "running") /\ "running" \in Stages
      /\ session' = s /\ remembered' = c
      /\ c \in MemoryConfigs => lock = None
      /\ lock' = IF c \in MemoryConfigs THEN "own" ELSE lock
      /\ UNCHANGED <<gate, service, calls, held, tried>>
  BY DEF Create, Stages
<1> HIDE DEF s
<1>6. Knows(t)'
  BY <1>3, <1>5, Moved DEF Knows
<1>7. TasksOK'
  BY <1>1, <1>5, <1>6, GatedGo
<1> HIDE DEF c
<1>8. SlotOK'
  BY <1>2, <1>3, <1>4, <1>5, HolderAssumption
     DEF SlotOK, SlotType, LockOwned, Remembers, Issued, NoLeaseDropped
<1> QED
  BY <1>7, <1>8 DEF Inv

LEMMA ForgetStep ==
    ASSUME TasksOK, SlotOK, NEW t \in Tasks, Forget(t)
    PROVE  Inv'
<1>1. gate = t /\ gate' = gate
  BY Past DEF Forget, At, UnderGate
<1>2. /\ Go(t, "returning") /\ "returning" \in Stages
      /\ UNCHANGED <<gate, service, calls, held, tried>>
  BY DEF Forget, Stages
<1>3. Knows(t)'
  BY <1>2, Moved DEF Knows
<1>4. TasksOK'
  BY <1>1, <1>2, <1>3, GatedGo
<1>5. CASE session.lease = 0 /\ Destroyed /\ remembered' = None
  <2>1. session' = None /\ lock' \in {None, "peer"}
    BY <1>5, DestroyedSlot
  <2> QED
    BY <1>2, <1>4, <1>5, <2>1, HolderAssumption
       DEF Inv, SlotOK, SlotType, LockOwned, Remembers, Issued, NoLeaseDropped
<1>6. CASE UNCHANGED <<session, lock, remembered>>
  BY <1>2, <1>4, <1>6, SlotUntouched DEF Inv, slot, SlotOK, SlotType
<1> QED
  BY <1>5, <1>6 DEF Forget

-----------------------------------------------------------------------------
(* Steps that send a request.                                              *)

\* A request goes out; the session may have been marked as ending.
LEMMA PostStep ==
    ASSUME TasksOK, SlotOK, NEW t \in Tasks, UnderGate(t),
           session # None, NEW endpoint \in Endpoints, Post(t, endpoint),
           \/ session' = session /\ tried' = tried
           \/ /\ session.lease # 0
              /\ session' = [session EXCEPT !.ending = TRUE]
              /\ tried' = tried \cup {session.lease},
           endpoint # "authorize" => session.lease # 0,
           task[t].op \in {"easy", "tick"} \/ endpoint = "end",
           task[t].op = "tick" /\ endpoint = "end" => session.expired,
           task[t].op = "easy" => session.config = task[t].config
    PROVE  Inv'
<1>1. gate = t
  BY Past
<1>2. session \in Session /\ session.lease \in Nat
  BY DEF SlotOK, SlotType, Session
<1>3. /\ session' \in Session /\ session' # None
      /\ session'.lease = session.lease /\ session'.config = session.config
      /\ session'.expired = session.expired
      /\ session'.ending => session.ending \/ session.lease # 0
  BY <1>2, HolderAssumption DEF Session
<1>4. tried' \in SUBSET Nat /\ tried \subseteq tried'
  BY <1>2 DEF SlotOK, SlotType
<1>5. /\ task'[t] \in Task
      /\ task' = [task EXCEPT ![t] = task'[t]]
      /\ task'[t].stage = "sent" /\ task'[t].op = task[t].op
      /\ task'[t].config = task[t].config
      /\ task'[t].request = [endpoint |-> endpoint, epoch |-> session.lease]
      /\ task'[t].request # None
  BY Posted DEF SlotOK
<1>6. UNCHANGED <<gate, remembered, lock, service, calls, held>>
  BY DEF Post
<1>7. task'[t].request.endpoint = endpoint /\ task'[t].request.epoch = session.lease
  BY <1>5
<1>8. Knows(t)'
  BY <1>3, <1>5, <1>7 DEF Knows
<1>9. TasksOK'
  BY <1>1, <1>5, <1>6, <1>8, GatedMove
<1>10. SlotOK'
  BY <1>2, <1>3, <1>4, <1>6
     DEF SlotOK, SlotType, LockOwned, Remembers, Issued, NoLeaseDropped
<1> QED
  BY <1>9, <1>10 DEF Inv

LEMMA RunStep ==
    ASSUME TasksOK, SlotOK, NEW t \in Tasks,
           RunEasy(t) \/ RunSecond(t) \/ EndLapsed(t) \/ RunEnd(t)
    PROVE  Inv'
<1>1. UnderGate(t) /\ session # None
  BY DEF RunEasy, RunSecond, EndLapsed, RunEnd, At, UnderGate, TasksOK, Knows
<1>2. {"authorize", "renew", "status", "end"} \subseteq Endpoints
  BY DEF Endpoints
<1>3. CASE RunEasy(t)
  <2>1. task[t].op = "easy" /\ session.config = task[t].config
    BY <1>3 DEF RunEasy, At, TasksOK, Knows
  <2>2. CASE EndLocked(t)
    BY <1>1, <1>2, <2>1, <2>2, PostStep DEF EndLocked
  <2>3. CASE Post(t, "authorize") /\ UNCHANGED <<session, tried>>
    BY <1>1, <1>2, <2>1, <2>3, PostStep
  <2>4. CASE /\ Live /\ \E q \in {"renew", "status"} : Post(t, q)
             /\ UNCHANGED <<session, tried>>
    BY <1>1, <1>2, <2>1, <2>4, PostStep DEF Live
  <2> QED
    BY <1>3, <2>2, <2>3, <2>4 DEF RunEasy
<1>4. CASE RunSecond(t)
  <2>1. task[t].op = "easy" /\ session.config = task[t].config
    BY <1>4 DEF RunSecond, At, TasksOK, Knows
  <2> QED
    BY <1>1, <1>2, <1>4, <2>1, PostStep DEF RunSecond
<1>5. CASE EndLapsed(t)
  <2>1. session.expired /\ task[t].op = "tick" /\ EndLocked(t)
    BY <1>5 DEF EndLapsed, At, TasksOK, Knows
  <2> QED
    BY <1>1, <1>2, <2>1, PostStep DEF EndLocked
<1>6. CASE RunEnd(t)
  <2>1. task[t].op = "end" /\ EndLocked(t)
    BY <1>6 DEF RunEnd
  <2> QED
    BY <1>1, <1>2, <2>1, PostStep DEF EndLocked
<1> QED
  BY <1>3, <1>4, <1>5, <1>6

LEMMA RunTickStep ==
    ASSUME TasksOK, SlotOK, NEW t \in Tasks, RunTick(t)
    PROVE  Inv'
<1>1. UnderGate(t) /\ session # None /\ task[t].op = "tick"
  BY DEF RunTick, At, UnderGate, TasksOK, Knows
<1>2. "renew" \in Endpoints /\ "lapsed" \in Stages
  BY DEF Endpoints, Stages
<1>3. CASE Live /\ Post(t, "renew") /\ UNCHANGED <<session, tried>>
  BY <1>1, <1>2, <1>3, PostStep DEF Live
<1>4. CASE /\ session.lease # 0 /\ session.expired /\ Go(t, "lapsed")
           /\ UNCHANGED <<session, tried, gate, remembered, lock, service,
                          calls, held>>
  <2>1. Knows(t)'
    BY <1>1, <1>2, <1>4, Moved DEF Knows
  <2> QED
    BY <1>1, <1>2, <1>4, <2>1, QuietStep DEF slot
<1> QED
  BY <1>3, <1>4 DEF RunTick

-----------------------------------------------------------------------------
(* Answers.                                                                *)

\* The task whose request is out, and what is known of it.
LEMMA Sent ==
    ASSUME TasksOK, SlotOK, NEW t \in Tasks, At(t, "sent")
    PROVE  /\ gate = t /\ session \in Session /\ session # None
           /\ session.lease \in Nat
           /\ task[t].request \in Request
           /\ task[t].request.epoch = session.lease
           /\ task[t].request.endpoint \in Endpoints
           /\ task[t].request.endpoint # "authorize" => session.lease # 0
           /\ service.last \in Nat /\ service.active \in Nat
           /\ task[t].op = "easy" => session.config = task[t].config
           /\ task[t].op \in {"easy", "tick"} \/ task[t].request.endpoint = "end"
<1>1. gate = t
  BY Past DEF At, UnderGate
<1>2. task[t] \in Task /\ Knows(t)
  BY DEF TasksOK, TaskType
<1>3. task[t].request \in Request
  BY <1>2 DEF Task, Knows, At
<1>4. task[t].request.endpoint \in Endpoints
  BY <1>3 DEF Request
<1>5. session # None /\ session \in Session /\ session.lease \in Nat
  BY <1>2 DEF Knows, At, SlotOK, SlotType, Session
<1> QED
  BY <1>1, <1>2, <1>3, <1>4, <1>5 DEF Knows, At, SlotOK, SlotType

\* The service after it has acted on a request.
LEMMA ActsType ==
    ASSUME TasksOK, SlotOK, NEW t \in Tasks, At(t, "sent"),
           service' \in Acts(task[t].request)
    PROVE  /\ service' \in [last : Nat, active : Nat]
           /\ service'.active \in {0, service'.last}
           /\ service'.last >= service.last
           /\ task[t].request.endpoint = "authorize" =>
                 service'.active = service.last + 1
                 /\ service'.last = service.last + 1
           /\ task[t].request.endpoint = "end" =>
                 /\ service'.active \in {0, service.active}
                 /\ service'.active # session.lease \/ session.lease = 0
                 /\ service'.last = service.last
           /\ task[t].request.endpoint \in {"renew", "status"} =>
                 service' = service
<1> DEFINE r == task[t].request
<1>1. /\ r.endpoint \in Endpoints /\ r.epoch = session.lease
      /\ service \in [last : Nat, active : Nat]
      /\ service.active \in {0, service.last}
  BY Sent DEF SlotOK, SlotType
<1> HIDE DEF r
<1>2. CASE r.endpoint = "authorize"
  <2>1. service' = [last |-> service.last + 1, active |-> service.last + 1]
    BY <1>2 DEF Acts, r
  <2> QED
    BY <1>1, <1>2, <2>1 DEF r
<1>3. CASE r.endpoint = "end"
  <2>1. service' = [service EXCEPT !.active = IF @ = r.epoch THEN 0 ELSE @]
    BY <1>3 DEF Acts, r
  <2> QED
    BY <1>1, <1>3, <2>1 DEF r
<1>4. CASE r.endpoint \in {"renew", "status"}
  <2>1. service' = service
    BY <1>4 DEF Acts, r
  <2> QED
    BY <1>1, <1>4, <2>1 DEF r
<1> QED
  BY <1>1, <1>2, <1>3, <1>4 DEF Endpoints

LEMMA AnsweredStep ==
    ASSUME TasksOK, SlotOK, NEW t \in Tasks, Answered(t)
    PROVE  Inv'
<1> DEFINE r == task[t].request
           s == IF /\ task[t].op = "easy"
                   /\ r.endpoint # "authorize"
                   /\ session'.lease = 0 \/ session'.expired
                THEN "second" ELSE "returning"
<1>1. At(t, "sent") /\ service' \in Acts(r) /\ session' = Learns(r)
  BY DEF Answered
<1>2. /\ gate = t /\ session \in Session /\ session.lease \in Nat
      /\ r.endpoint \in Endpoints /\ service.last \in Nat /\ service.active \in Nat
      /\ task[t].op = "easy" => session.config = task[t].config
      /\ r.endpoint # "authorize" => session.lease # 0
  BY <1>1, Sent
<1>3. /\ service' \in [last : Nat, active : Nat]
      /\ service'.active \in {0, service'.last}
      /\ service'.last >= service.last
      /\ r.endpoint = "authorize" =>
            /\ service'.active = service.last + 1
            /\ service'.last = service.last + 1
      /\ r.endpoint # "authorize" => service'.active \in {0, service.active}
      /\ r.endpoint = "end" => service'.active # session.lease
      /\ r.endpoint # "authorize" => service'.last = service.last
  BY <1>1, <1>2, ActsType DEF Endpoints
<1>4. /\ Go(t, s) /\ s \in Stages /\ s \in {"second", "returning"}
      /\ s = "second" => task[t].op = "easy"
  BY DEF Answered, Stages
<1>5. /\ held' = held \cup ({session'.lease} \ {0})
      /\ UNCHANGED <<gate, remembered, lock, calls, tried>>
  BY DEF Answered
<1> HIDE DEF r, s
<1>6. /\ session' \in Session /\ session' # None
      /\ session'.config = session.config
      /\ \/ r.endpoint = "authorize" /\ session'.lease = service'.last
         \/ r.endpoint # "authorize" /\ session'.lease = 0
            /\ service'.active # session.lease
            /\ ~ session'.expired /\ ~ session'.ending
         \/ r.endpoint # "authorize" /\ session'.lease = session.lease
            /\ service'.active = session.lease
  <2>1. CASE r.endpoint = "authorize"
    <3>1. session' = [session EXCEPT !.lease = service'.last,
                                     !.expired = FALSE, !.ending = FALSE]
      BY <1>1, <2>1 DEF Learns
    <3> QED
      BY <1>2, <1>3, <2>1, <3>1, HolderAssumption DEF Session
  <2>2. CASE /\ r.endpoint # "authorize"
             /\ r.endpoint = "end" \/ service'.active # session.lease
    <3>1. session' = [session EXCEPT !.lease = 0, !.expired = FALSE,
                                     !.ending = FALSE]
      BY <1>1, <2>2 DEF Learns
    <3>2. service'.active # session.lease
      BY <1>3, <2>2
    <3>3. session'.lease = 0 /\ ~ session'.expired /\ ~ session'.ending
      BY <1>2, <3>1 DEF Session
    <3>4. session' \in Session /\ session'.config = session.config
      BY <1>2, <3>1 DEF Session
    <3>5. session' # None
      BY <3>4, HolderAssumption
    <3> QED
      BY <2>2, <3>2, <3>3, <3>4, <3>5
  <2>3. CASE /\ r.endpoint \notin {"authorize", "end"}
             /\ service'.active = session.lease
    <3>1. session' = [session EXCEPT !.expired = @ /\ r.endpoint # "renew"]
      BY <1>1, <2>3 DEF Learns
    <3>2. \/ session' = [session EXCEPT !.expired = FALSE]
          \/ session' = session
      <4>1. CASE r.endpoint = "renew"
        <5>1. (session.expired /\ r.endpoint # "renew") = FALSE
          BY <4>1
        <5> QED
          BY <3>1, <5>1
      <4>2. CASE r.endpoint # "renew"
        <5>1. (session.expired /\ r.endpoint # "renew") = session.expired
          <6>1. session.expired \in BOOLEAN
            BY <1>2 DEF Session
          <6> QED
            BY <4>2, <6>1
        <5>2. [session EXCEPT !.expired = session.expired] = session
          BY <1>2 DEF Session
        <5> QED
          BY <3>1, <5>1, <5>2
      <4> QED
        BY <4>1, <4>2
    <3>3. /\ session' \in Session /\ session'.config = session.config
          /\ session'.lease = session.lease
      <4>1. ASSUME session' = [session EXCEPT !.expired = FALSE]
            PROVE  /\ session' \in Session
                   /\ session'.config = session.config
                   /\ session'.lease = session.lease
        BY <1>2, <4>1 DEF Session
      <4> QED
        BY <1>2, <3>2, <4>1
    <3>4. session' # None
      BY <3>3, HolderAssumption
    <3> QED
      BY <2>3, <3>3, <3>4
  <2> QED
    BY <2>1, <2>2, <2>3
<1>7. Knows(t)'
  BY <1>2, <1>4, <1>6, Moved DEF Knows
<1>8. TasksOK'
  BY <1>2, <1>4, <1>5, <1>7, GatedGo
<1>9. SlotOK'
  <2>1. SlotType'
    <3>1. session'.lease \in Nat /\ session'.lease <= service'.last
      BY <1>2, <1>3, <1>6, Sent DEF SlotOK, SlotType, Session
    <3>2. session'.lease = 0 => ~ session'.expired /\ ~ session'.ending
      BY <1>2, <1>3, <1>6
    <3>3. held' \in SUBSET Nat
      BY <1>5, <3>1 DEF SlotOK, SlotType
    <3> QED
      BY <1>3, <1>5, <1>6, <3>1, <3>2, <3>3 DEF SlotOK, SlotType
  <2>2. LockOwned' /\ Remembers'
    BY <1>1, <1>2, <1>5, <1>6, Sent DEF SlotOK, LockOwned, Remembers
  <2>3. \A e \in held : e \in Nat /\ e # 0 /\ e <= service.last
    BY DEF SlotOK, SlotType, Issued
  <2>4. Issued'
    BY <1>2, <1>3, <1>5, <1>6, <2>3 DEF Issued, SlotOK, SlotType
  <2>5. NoLeaseDropped'
    <3>1. CASE r.endpoint = "authorize"
      BY <1>3, <1>6, <3>1 DEF NoLeaseDropped
    <3>2. CASE r.endpoint # "authorize" /\ session'.lease = 0
      <4>1. held' = held
        BY <1>5, <3>2
      <4>2. CASE service'.active = 0
        BY <2>3, <4>1, <4>2 DEF NoLeaseDropped
      <4>3. CASE service'.active = service.active
        BY <1>2, <1>5, <1>6, <3>2, <4>1, <4>3 DEF NoLeaseDropped, SlotOK
      <4> QED
        BY <1>3, <3>2, <4>2, <4>3
    <3>3. CASE service'.active = session'.lease
      BY <1>6, <3>3 DEF NoLeaseDropped
    <3> QED
      BY <1>6, <3>1, <3>2, <3>3
  <2> QED
    BY <2>1, <2>2, <2>4, <2>5 DEF SlotOK
<1> QED
  BY <1>8, <1>9 DEF Inv

LEMMA AnsweredLapsedStep ==
    ASSUME TasksOK, SlotOK, NEW t \in Tasks, AnsweredLapsed(t)
    PROVE  Inv'
<1> DEFINE s == IF task[t].op = "tick" THEN "lapsed" ELSE "second"
<1>1. /\ gate = t /\ session \in Session /\ session # None
      /\ session.lease \in Nat /\ session.lease # 0
      /\ task[t].op = "easy" => session.config = task[t].config
      /\ task[t].op \in {"easy", "tick"}
  BY Sent DEF AnsweredLapsed
<1>2. /\ session' = [session EXCEPT !.expired = TRUE]
      /\ Go(t, s) /\ s \in Stages /\ s \in {"lapsed", "second"}
      /\ (s = "lapsed") <=> (task[t].op = "tick")
      /\ UNCHANGED <<gate, remembered, lock, service, calls, held, tried>>
  BY DEF AnsweredLapsed, Stages
<1> HIDE DEF s
<1>3. /\ session' \in Session /\ session' # None
      /\ session'.lease = session.lease /\ session'.config = session.config
      /\ session'.expired
  BY <1>1, <1>2, HolderAssumption DEF Session
<1>4. Knows(t)'
  BY <1>1, <1>2, <1>3, Moved DEF Knows
<1>5. TasksOK'
  BY <1>1, <1>2, <1>4, GatedGo
<1>6. SlotOK'
  BY <1>1, <1>2, <1>3
     DEF SlotOK, SlotType, LockOwned, Remembers, Issued, NoLeaseDropped
<1> QED
  BY <1>5, <1>6 DEF Inv

LEMMA FailsStep ==
    ASSUME TasksOK, SlotOK, NEW t \in Tasks, Fails(t)
    PROVE  Inv'
<1>1. /\ At(t, "sent")
      /\ service' \in Acts(task[t].request) \/ service' = service
      /\ UNCHANGED <<gate, session, remembered, lock, calls, held, tried>>
  BY DEF Fails
<1>2. PICK s \in {"returning", "failed"} : Go(t, s)
  BY DEF Fails
<1>3. s \in Stages
  BY DEF Stages
<1>4. Knows(t)'
  BY <1>2, <1>3, Moved DEF Knows
<1>5. TasksOK'
  BY <1>1, <1>2, <1>3, <1>4, Sent, GatedGo
<1>6. /\ service' \in [last : Nat, active : Nat]
      /\ service'.active \in {0, service'.last}
      /\ service'.last >= service.last /\ service.last \in Nat
      /\ service'.active \in {0, service.active, service.last + 1}
  BY <1>1, Sent, ActsType DEF SlotOK, SlotType, Endpoints
<1>7. SlotOK'
  BY <1>1, <1>6
     DEF SlotOK, SlotType, LockOwned, Remembers, Issued, NoLeaseDropped, Session
<1> QED
  BY <1>5, <1>7 DEF Inv

-----------------------------------------------------------------------------
(* The invariant.                                                          *)

LEMMA NextStep ==
    ASSUME Inv, [Next]_vars
    PROVE  Inv'
<1> USE DEF Inv
<1>1. ASSUME NEW t \in Tasks, Step(t)
      PROVE  Inv'
  <2>1. CASE Lock(t) \/ Unlock(t) \/ Deliver(t)
    BY <2>1, LockStep, UnlockStep, DeliverStep
  <2>2. CASE Reuse(t) \/ Replace(t) \/ DisposeAnswered(t) \/ Create(t)
             \/ CreateFails(t) \/ Find(t)
    BY <2>2, ReuseStep, ReplaceStep, DisposeAnsweredStep, CreateStep,
       OtherQuietSteps
  <2>3. CASE RunEasy(t) \/ RunSecond(t) \/ RunTick(t) \/ EndLapsed(t)
             \/ RunEnd(t) \/ NothingToDo(t) \/ Forget(t)
    BY <2>3, RunStep, RunTickStep, OtherQuietSteps, ForgetStep
  <2>4. CASE Answered(t) \/ AnsweredLapsed(t) \/ Refused(t) \/ Fails(t)
    BY <2>4, AnsweredStep, AnsweredLapsedStep, OtherQuietSteps, FailsStep
  <2> QED
    BY <1>1, <2>1, <2>2, <2>3, <2>4 DEF Step
<1>2. ASSUME NEW t \in Tasks, NEW op \in Ops, NEW c \in Configs, Call(t, op, c)
      PROVE  Inv'
  BY <1>2, CallStep
<1>3. CASE Expire \/ ServiceEnds \/ Peer
  BY <1>3, WorldStep
<1>4. CASE UNCHANGED vars
  BY <1>4
     DEF vars, TasksOK, TaskType, Gated, UnderGate, Knows, SlotOK, SlotType,
     LockOwned, Remembers, Issued, NoLeaseDropped
<1> QED
  BY <1>1, <1>2, <1>3, <1>4 DEF Next

LEMMA Invariance == Spec => []Inv
  BY InitInv, NextStep, PTL DEF Spec

-----------------------------------------------------------------------------
(* Theorems.                                                               *)

(***************************************************************************)
(* The slot, its session, the calls and the service keep their shapes,     *)
(* whatever calls the pool runs and however they end.                      *)
(***************************************************************************)
THEOREM HolderTypes == Spec => []TypeOK
<1>1. Inv => TypeOK
  BY DEF Inv, TasksOK, TaskType, SlotOK, SlotType, TypeOK
<1> QED
  BY <1>1, Invariance, PTL

(***************************************************************************)
(* A call past the gate finds the session it works on, and EasyAuthorize   *)
(* the one created with the settings it was given (sessionFor).            *)
(***************************************************************************)
THEOREM CallersSession == Spec => []SessionIsTheCallers
<1>1. Inv => SessionIsTheCallers
  BY DEF Inv, TasksOK, Knows, SessionIsTheCallers
<1> QED
  BY <1>1, Invariance, PTL

(***************************************************************************)
(* The installation lock is held exactly by the slot's memory session, and *)
(* a replacement never waits for its predecessor (sessionFor).             *)
(***************************************************************************)
THEOREM SessionOwnsLock == Spec => []LockFollowsSession
<1>1. Inv => LockFollowsSession
  BY DEF Inv, TasksOK, Knows, SlotOK, LockOwned, LockFollowsSession, At
<1> QED
  BY <1>1, Invariance, PTL

(***************************************************************************)
(* tick sends its end only for a lease that has lapsed, because the gate   *)
(* is held from its first section to its second (TickSession).             *)
(***************************************************************************)
THEOREM TickSpares == Spec => []TickEndsLapsedLease
<1>1. Inv => TickEndsLapsedLease
  BY DEF Inv, TasksOK, Knows, TickEndsLapsedLease, At
<1> QED
  BY <1>1, Invariance, PTL

(***************************************************************************)
(* No lease the service still honours is dropped without its end having    *)
(* been tried (orderlyDispose, forget).                                    *)
(***************************************************************************)
THEOREM LeasesAccounted == Spec => []NoLeaseDropped
<1>1. Inv => NoLeaseDropped
  BY DEF Inv, SlotOK
<1> QED
  BY <1>1, Invariance, PTL
==============================================================================
