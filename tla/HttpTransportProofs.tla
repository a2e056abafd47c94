-------------------------- MODULE HttpTransportProofs --------------------------
(***************************************************************************)
(* Theorems of HttpTransport, for every number of workers and slots, and   *)
(* for both kinds of engine.                                               *)
(***************************************************************************)
EXTENDS HttpTransport, SequenceTheorems, TLAPS

\* A slot has at most one request: queued, started or being completed.
OneRequestPerSlot ==
    /\ \A i, j \in DOMAIN tasks : tasks[i].slot = tasks[j].slot => i = j
    /\ \A i \in DOMAIN tasks, r \in started : tasks[i].slot # r.slot
    /\ \A q, r \in started : q.slot = r.slot => q = r
    /\ game # None =>
          /\ \A i \in DOMAIN tasks : tasks[i].slot # game.slot
          /\ \A r \in started : r.slot # game.slot

\* A slot has at most one caller.
OneCallerPerSlot ==
    /\ \A w \in Workers : (worker[w].stage = "idle") = (worker[w].slot = None)
    /\ \A v, w \in Workers :
          worker[v].slot = worker[w].slot /\ worker[w].slot # None => v = w

\* While its caller is there, what is done to a slot is for that caller.
ForItsCaller ==
    \A w \in Workers : worker[w].slot # None =>
        LET s == worker[w].slot
        IN  /\ \A i \in DOMAIN tasks :
                  tasks[i].slot = s => tasks[i].worker = w
            /\ \A r \in started : r.slot = s => r.worker = w
            /\ game # None /\ game.slot = s =>
                  /\ game.answer \in {w, "failed"}
                  /\ game.step # "write" \/ slots[s].signalled =>
                        slots[s].content = game.answer
            /\ slots[s].signalled => slots[s].content \in {w, "failed"}

\* An event is triggered, and believed, only after the slot was marked.
MarkedBeforeWoken ==
    /\ \A s \in Slots : slots[s].event => slots[s].signalled
    /\ game # None /\ game.step = "trigger" => slots[game.slot].signalled
    /\ \A w \in Workers :
          \/ worker[w].stage = "reading"
          \/ worker[w].stage = "woken" /\ ~ worker[w].elapsed
          => slots[worker[w].slot].signalled

\* The engine is done with a marked slot, up to the trigger of its event or
\* the second report of a failed start.
CompletedOnce ==
    /\ game # None /\ game.again => reports /\ game.answer = "failed"
    /\ \A s \in Slots : slots[s].signalled =>
          /\ \A i \in DOMAIN tasks : tasks[i].slot # s
          /\ \A r \in started : r.slot # s
          /\ game # None /\ game.slot = s =>
                \/ game.step = "trigger"
                \/ reports /\ ~ game.again /\ game.answer = "failed"

Inv == /\ TypeOK /\ OneRequestPerSlot /\ OneCallerPerSlot /\ ForItsCaller
       /\ MarkedBeforeWoken /\ CompletedOnce

-----------------------------------------------------------------------------
(* One lemma per action.                                                   *)

\* The queue after its last and without its first task.
LEMMA QueueGrows ==
    ASSUME NEW q \in Seq(Request), NEW r \in Request
    PROVE  /\ Append(q, r) \in Seq(Request)
           /\ \A i \in DOMAIN Append(q, r) :
                 \/ i \in DOMAIN q /\ Append(q, r)[i] = q[i]
                 \/ i = Len(q) + 1 /\ Append(q, r)[i] = r
<1>1. DOMAIN q = 1 .. Len(q) /\ Len(q) \in Nat
  BY LenProperties
<1>2. /\ Append(q, r) \in Seq(Request) /\ Len(Append(q, r)) = Len(q) + 1
      /\ \A i \in 1 .. Len(q) : Append(q, r)[i] = q[i]
      /\ Append(q, r)[Len(q) + 1] = r
  BY AppendProperties
<1>3. DOMAIN Append(q, r) = 1 .. Len(q) + 1
  BY <1>2, LenProperties
<1> QED
  BY <1>1, <1>2, <1>3

LEMMA QueueShrinks ==
    ASSUME NEW q \in Seq(Request), q # <<>>
    PROVE  /\ Tail(q) \in Seq(Request)
           /\ Head(q) \in Request /\ 1 \in DOMAIN q /\ Head(q) = q[1]
           /\ \A i \in DOMAIN Tail(q) :
                 i + 1 \in DOMAIN q /\ i + 1 # 1 /\ Tail(q)[i] = q[i + 1]
           /\ \A i, j \in DOMAIN Tail(q) : i + 1 = j + 1 => i = j
<1>1. DOMAIN q = 1 .. Len(q) /\ Len(q) \in Nat \ {0}
  BY LenProperties, EmptySeq
<1>2. /\ Tail(q) \in Seq(Request) /\ Len(Tail(q)) = Len(q) - 1
      /\ \A i \in 1 .. Len(Tail(q)) : Tail(q)[i] = q[i + 1]
      /\ Head(q) \in Request
  BY HeadTailProperties
<1>3. DOMAIN Tail(q) = 1 .. Len(q) - 1
  BY <1>2, LenProperties
<1>4. Head(q) = q[1]
  OBVIOUS
<1> QED
  BY <1>1, <1>2, <1>3, <1>4

LEMMA InitInv == Init => Inv
<1> SUFFICES ASSUME Init PROVE Inv
  OBVIOUS
<1> USE TransportAssumption DEF Init, Idle, NewSlot
<1>1. <<>> \in Seq(Request) /\ DOMAIN <<>> = {}
  BY EmptySeq, LenProperties
<1>2. TypeOK
  BY <1>1 DEF TypeOK, Slot, Worker
<1>3. OneRequestPerSlot /\ OneCallerPerSlot /\ CompletedOnce
  BY <1>1 DEF OneRequestPerSlot, OneCallerPerSlot, CompletedOnce
<1>4. ForItsCaller /\ MarkedBeforeWoken
  BY <1>1 DEF ForItsCaller, MarkedBeforeWoken
<1> QED
  BY <1>2, <1>3, <1>4 DEF Inv

LEMMA WakeStep ==
    ASSUME Inv, NEW w \in Workers, Wake(w)
    PROVE  Inv'
<1> USE TransportAssumption DEF Inv, TypeOK, Wake, Slot, Worker
<1>1. TypeOK'
  <2>1. worker[w].slot \in Slots /\ slots[worker[w].slot] \in Slot
    BY DEF OneCallerPerSlot
  <2>2. slots' \in [Slots -> Slot]
    BY <2>1
  <2>3. worker' \in [Workers -> Worker]
    <3>1. worker[w] \in Worker
      OBVIOUS
    <3>2. [worker[w] EXCEPT !.stage = "woken", !.elapsed = FALSE] \in Worker
      BY <3>1
    <3>3. worker' = [worker EXCEPT ![w] =
                       [@ EXCEPT !.stage = "woken", !.elapsed = FALSE]]
      OBVIOUS
    <3> HIDE DEF Worker, Wake
    <3> QED
      BY <3>2, <3>3
  <2> QED
    BY <2>2, <2>3
<1>2. OneRequestPerSlot'
  BY DEF OneRequestPerSlot
<1>3. OneCallerPerSlot'
  BY DEF OneCallerPerSlot
<1>4. ForItsCaller'
  BY DEF ForItsCaller, OneCallerPerSlot, OneRequestPerSlot
<1>5. MarkedBeforeWoken'
  BY DEF MarkedBeforeWoken, OneCallerPerSlot, ForItsCaller
<1>6. CompletedOnce'
  BY DEF CompletedOnce, OneRequestPerSlot, MarkedBeforeWoken
<1> QED
  BY <1>1, <1>2, <1>3, <1>4, <1>5, <1>6

LEMMA TimeOutStep ==
    ASSUME Inv, NEW w \in Workers, TimeOut(w)
    PROVE  Inv'
<1> USE TransportAssumption DEF Inv, TypeOK, TimeOut, Worker
<1>1. TypeOK'
  BY DEF Slot, Worker, Completion, Request, Answers, Steps
<1>2. OneRequestPerSlot'
  BY DEF OneRequestPerSlot
<1>3. OneCallerPerSlot'
  BY DEF OneCallerPerSlot
<1>4. ForItsCaller'
  BY DEF ForItsCaller, OneCallerPerSlot, OneRequestPerSlot
<1>5. MarkedBeforeWoken'
  BY DEF MarkedBeforeWoken, OneCallerPerSlot, ForItsCaller
<1>6. CompletedOnce'
  BY DEF CompletedOnce, OneRequestPerSlot, MarkedBeforeWoken
<1> QED
  BY <1>1, <1>2, <1>3, <1>4, <1>5, <1>6

LEMMA CheckStep ==
    ASSUME Inv, NEW w \in Workers, Check(w)
    PROVE  Inv'
<1> USE TransportAssumption DEF Inv, TypeOK, Check, Worker, Idle
<1>1. TypeOK'
  BY DEF Slot, Worker, Completion, Request, Answers, Steps
<1>2. OneRequestPerSlot'
  BY DEF OneRequestPerSlot
<1>3. OneCallerPerSlot'
  BY DEF OneCallerPerSlot
<1>4. ForItsCaller'
  BY DEF ForItsCaller, OneCallerPerSlot, OneRequestPerSlot
<1>5. MarkedBeforeWoken'
  BY DEF MarkedBeforeWoken, OneCallerPerSlot, ForItsCaller
<1>6. CompletedOnce'
  BY DEF CompletedOnce, OneRequestPerSlot, MarkedBeforeWoken
<1> QED
  BY <1>1, <1>2, <1>3, <1>4, <1>5, <1>6

LEMMA ReadStep ==
    ASSUME Inv, NEW w \in Workers, Read(w)
    PROVE  Inv'
<1> USE TransportAssumption DEF Inv, TypeOK, Read, Slot, Worker, Idle
<1>1. TypeOK'
  <2>1. worker[w].slot \in Slots /\ slots[worker[w].slot] \in Slot
    BY DEF OneCallerPerSlot
  <2>2. slots' \in [Slots -> Slot]
    BY <2>1
  <2>3. worker' \in [Workers -> Worker]
    OBVIOUS
  <2> QED
    BY <2>2, <2>3
<1>2. OneRequestPerSlot'
  BY DEF OneRequestPerSlot
<1>3. OneCallerPerSlot'
  BY DEF OneCallerPerSlot
<1>4. ForItsCaller'
  BY DEF ForItsCaller, OneCallerPerSlot, OneRequestPerSlot
<1>5. MarkedBeforeWoken'
  BY DEF MarkedBeforeWoken, OneCallerPerSlot, ForItsCaller
<1>6. CompletedOnce'
  BY DEF CompletedOnce, OneRequestPerSlot, MarkedBeforeWoken
<1> QED
  BY <1>1, <1>2, <1>3, <1>4, <1>5, <1>6

LEMMA CompleteStep ==
    ASSUME Inv, NEW s \in Slots, Complete(s)
    PROVE  Inv'
<1> USE TransportAssumption DEF Inv, TypeOK, Complete, Run, Request, Completion
<1>1. TypeOK'
  BY DEF Slot, Worker, Completion, Request, Answers, Steps
<1>2. OneRequestPerSlot'
  BY DEF OneRequestPerSlot
<1>3. OneCallerPerSlot'
  BY DEF OneCallerPerSlot
<1>4. ForItsCaller'
  BY DEF ForItsCaller, OneCallerPerSlot, OneRequestPerSlot, CompletedOnce
<1>5. MarkedBeforeWoken'
  BY DEF MarkedBeforeWoken, OneCallerPerSlot, ForItsCaller
<1>6. CompletedOnce'
  BY DEF CompletedOnce, OneRequestPerSlot, MarkedBeforeWoken
<1> QED
  BY <1>1, <1>2, <1>3, <1>4, <1>5, <1>6

LEMMA CompletionStepStep ==
    ASSUME Inv, CompletionStep
    PROVE  Inv'
<1> USE TransportAssumption
<1> DEFINE s == game.slot
<1>1. /\ game # None /\ game \in Completion /\ s \in Slots
      /\ game.answer \in Answers /\ game.again \in BOOLEAN
      /\ UNCHANGED <<worker, tasks, started, reports>>
      /\ slots \in [Slots -> Slot]
      /\ \A w \in Workers : worker[w].slot \in Slots \cup {None}
  BY DEF CompletionStep, Inv, TypeOK, Completion, Worker
<1>2. CASE game.step = "write"
  <2>1. /\ slots'[s].content = game.answer
        /\ slots'[s].signalled = slots[s].signalled
        /\ slots'[s].event = slots[s].event
        /\ slots'[s] \in Slot /\ slots' \in [Slots -> Slot]
        /\ \A t \in Slots : t # s => slots'[t] = slots[t]
    <3>1. slots' = [slots EXCEPT ![s].content = game.answer]
      BY <1>1, <1>2 DEF CompletionStep
    <3>2. slots[s] \in Slot
      BY <1>1
    <3>3. /\ [slots[s] EXCEPT !.content = game.answer] \in Slot
          /\ slots' = [slots EXCEPT ![s] = [slots[s] EXCEPT !.content = game.answer]]
      BY <1>1, <3>1, <3>2 DEF Slot
    <3> QED
      BY <1>1, <3>2, <3>3 DEF Slot
  <2>2. /\ game' # None /\ game' \in Completion /\ game'.slot = s
        /\ game'.answer = game.answer /\ game'.again = game.again
        /\ game'.step = "signal"
    BY <1>1, <1>2 DEF CompletionStep, Completion, Steps
  <2>3. TypeOK'
    BY <1>1, <1>2, <2>1, <2>2 DEF Inv, TypeOK, Slot, Completion, Steps
  <2>4. OneRequestPerSlot'
    BY <1>1, <1>2, <2>1, <2>2 DEF Inv, TypeOK, OneRequestPerSlot
  <2>5. OneCallerPerSlot'
    BY <1>1, <1>2, <2>1, <2>2 DEF Inv, OneCallerPerSlot
  <2>6. ForItsCaller'
    BY <1>1, <1>2, <2>1, <2>2
       DEF Inv, TypeOK, ForItsCaller, OneCallerPerSlot, Worker
  <2>7. MarkedBeforeWoken'
    BY <1>1, <1>2, <2>1, <2>2
       DEF Inv, TypeOK, MarkedBeforeWoken, OneCallerPerSlot, Worker
  <2>8. CompletedOnce'
    BY <1>1, <1>2, <2>1, <2>2
       DEF Inv, TypeOK, CompletedOnce, OneRequestPerSlot
  <2> QED
    BY <2>3, <2>4, <2>5, <2>6, <2>7, <2>8 DEF Inv
<1>3. CASE game.step = "signal"
  <2>1. /\ slots'[s].signalled
        /\ slots'[s].content = slots[s].content
        /\ slots'[s].event = slots[s].event
        /\ slots'[s] \in Slot /\ slots' \in [Slots -> Slot]
        /\ \A t \in Slots : t # s => slots'[t] = slots[t]
    <3>1. slots' = [slots EXCEPT ![s].signalled = TRUE]
      BY <1>1, <1>3 DEF CompletionStep
    <3>2. slots[s] \in Slot
      BY <1>1
    <3>3. /\ [slots[s] EXCEPT !.signalled = TRUE] \in Slot
          /\ slots' = [slots EXCEPT ![s] = [slots[s] EXCEPT !.signalled = TRUE]]
      BY <1>1, <3>1, <3>2 DEF Slot
    <3> QED
      BY <1>1, <3>2, <3>3 DEF Slot
  <2>2. /\ game' # None /\ game' \in Completion /\ game'.slot = s
        /\ game'.answer = game.answer /\ game'.again = game.again
        /\ game'.step = "trigger"
    BY <1>1, <1>3 DEF CompletionStep, Completion, Steps
  <2>3. TypeOK'
    BY <1>1, <1>3, <2>1, <2>2 DEF Inv, TypeOK, Slot, Completion, Steps
  <2>4. OneRequestPerSlot'
    BY <1>1, <1>3, <2>1, <2>2 DEF Inv, TypeOK, OneRequestPerSlot
  <2>5. OneCallerPerSlot'
    BY <1>1, <1>3, <2>1, <2>2 DEF Inv, OneCallerPerSlot
  <2>6. ForItsCaller'
    BY <1>1, <1>3, <2>1, <2>2
       DEF Inv, TypeOK, ForItsCaller, OneCallerPerSlot, Worker
  <2>7. MarkedBeforeWoken'
    BY <1>1, <1>3, <2>1, <2>2
       DEF Inv, TypeOK, MarkedBeforeWoken, OneCallerPerSlot, Worker
  <2>8. CompletedOnce'
    BY <1>1, <1>3, <2>1, <2>2
       DEF Inv, TypeOK, CompletedOnce, OneRequestPerSlot
  <2> QED
    BY <2>3, <2>4, <2>5, <2>6, <2>7, <2>8 DEF Inv
<1>4. CASE game.step = "trigger"
  <2>1. /\ slots'[s].event
        /\ slots'[s].content = slots[s].content
        /\ slots'[s].signalled = slots[s].signalled
        /\ slots'[s] \in Slot /\ slots' \in [Slots -> Slot]
        /\ \A t \in Slots : t # s => slots'[t] = slots[t]
    <3>1. slots' = [slots EXCEPT ![s].event = TRUE]
      BY <1>1, <1>4 DEF CompletionStep
    <3>2. slots[s] \in Slot
      BY <1>1
    <3>3. /\ [slots[s] EXCEPT !.event = TRUE] \in Slot
          /\ slots' = [slots EXCEPT ![s] = [slots[s] EXCEPT !.event = TRUE]]
      BY <1>1, <3>1, <3>2 DEF Slot
    <3> QED
      BY <1>1, <3>2, <3>3 DEF Slot
  <2>2. /\ ~ game.again => game' = None
        /\ game.again => /\ game' # None /\ game' \in Completion
                         /\ game'.slot = s /\ game'.answer = game.answer
                         /\ game'.again = FALSE /\ game'.step = "write"
    <3>1. game' = IF game.again
                  THEN [game EXCEPT !.step = "write", !.again = FALSE]
                  ELSE None
      BY <1>1, <1>4 DEF CompletionStep
    <3>2. [game EXCEPT !.step = "write", !.again = FALSE] \in Completion
      BY <1>1 DEF Completion, Steps
    <3> QED
      BY <1>1, <3>1, <3>2 DEF Completion
  <2>3. TypeOK'
    BY <1>1, <1>4, <2>1, <2>2 DEF Inv, TypeOK, Slot, Completion, Steps
  <2>4. OneRequestPerSlot'
    BY <1>1, <1>4, <2>1, <2>2 DEF Inv, TypeOK, OneRequestPerSlot
  <2>5. OneCallerPerSlot'
    BY <1>1, <1>4, <2>1, <2>2 DEF Inv, OneCallerPerSlot
  <2>6. ForItsCaller'
    BY <1>1, <1>4, <2>1, <2>2
       DEF Inv, TypeOK, ForItsCaller, OneCallerPerSlot, Worker
  <2>7. MarkedBeforeWoken'
    BY <1>1, <1>4, <2>1, <2>2
       DEF Inv, TypeOK, MarkedBeforeWoken, OneCallerPerSlot, Worker
  <2>8. CompletedOnce'
    BY <1>1, <1>4, <2>1, <2>2
       DEF Inv, TypeOK, CompletedOnce, OneRequestPerSlot
  <2> QED
    BY <2>3, <2>4, <2>5, <2>6, <2>7, <2>8 DEF Inv
<1> QED
  BY <1>1, <1>2, <1>3, <1>4 DEF CompletionStep

LEMMA PostStep ==
    ASSUME Inv, NEW w \in Workers, Post(w)
    PROVE  Inv'
<1> USE TransportAssumption
<1>1. PICK s \in Slots :
         /\ ~ Held(s)
         /\ slots' = [slots EXCEPT ![s] = NewSlot]
         /\ worker' = [worker EXCEPT ![w] =
                         [@ EXCEPT !.stage = "waiting", !.slot = s]]
         /\ tasks' = Append(tasks, [slot |-> s, worker |-> w])
  BY DEF Post
<1> DEFINE r == [slot |-> s, worker |-> w]
<1>2. /\ worker[w].stage = "idle" /\ UNCHANGED <<started, game, reports>>
      /\ r \in Request /\ r.slot = s /\ r.worker = w
      /\ tasks \in Seq(Request) /\ tasks' = Append(tasks, r)
  BY <1>1 DEF Post, Request, Inv, TypeOK
<1> HIDE DEF r
<1>3. /\ tasks' \in Seq(Request)
      /\ \A i \in DOMAIN tasks' :
            \/ i \in DOMAIN tasks /\ tasks'[i] = tasks[i]
            \/ i = Len(tasks) + 1 /\ tasks'[i] = r
  BY <1>2, QueueGrows
<1>4. /\ \A i \in DOMAIN tasks : tasks[i].slot # s
      /\ \A q \in started : q.slot # s
      /\ game # None => game.slot # s
      /\ \A v \in Workers : worker[v].slot # s
  BY <1>1 DEF Held, HeldByEngine, HeldByWorker
<1>5. /\ worker'[w].stage = "waiting" /\ worker'[w].slot = s
      /\ worker' \in [Workers -> Worker]
      /\ \A v \in Workers : v # w => worker'[v] = worker[v]
  BY <1>1 DEF Inv, TypeOK, Worker
<1>6. /\ slots'[s].content = None /\ ~ slots'[s].signalled /\ ~ slots'[s].event
      /\ slots' \in [Slots -> Slot]
      /\ \A t \in Slots : t # s => slots'[t] = slots[t]
  BY <1>1 DEF Inv, TypeOK, Slot, NewSlot
<1>7. TypeOK'
  BY <1>2, <1>3, <1>5, <1>6 DEF Inv, TypeOK
<1>8. OneRequestPerSlot'
  BY <1>2, <1>3, <1>4 DEF Inv, OneRequestPerSlot
<1>9. OneCallerPerSlot'
  BY <1>4, <1>5 DEF Inv, OneCallerPerSlot
<1>10. ForItsCaller'
  BY <1>2, <1>3, <1>4, <1>5, <1>6 DEF Inv, TypeOK, ForItsCaller, Worker
<1>11. MarkedBeforeWoken'
  <2>1. /\ \A t \in Slots : slots'[t].event => slots'[t].signalled
        /\ game' # None /\ game'.step = "trigger" =>
              slots'[game'.slot].signalled
    BY <1>2, <1>4, <1>6 DEF Inv, TypeOK, MarkedBeforeWoken, Completion
  <2>2. ASSUME NEW v \in Workers,
               \/ worker'[v].stage = "reading"
               \/ worker'[v].stage = "woken" /\ ~ worker'[v].elapsed
        PROVE  slots'[worker'[v].slot].signalled
    <3>1. v # w /\ worker'[v] = worker[v]
      BY <1>5, <2>2
    <3>2. worker[v].slot \in Slots /\ slots[worker[v].slot].signalled
      BY <2>2, <3>1
         DEF Inv, TypeOK, OneCallerPerSlot, Worker, MarkedBeforeWoken
    <3> QED
      BY <1>4, <1>6, <3>1, <3>2
  <2> QED
    BY <2>1, <2>2 DEF MarkedBeforeWoken
<1>12. CompletedOnce'
  BY <1>2, <1>3, <1>4, <1>6 DEF Inv, CompletedOnce
<1> QED
  BY <1>7, <1>8, <1>9, <1>10, <1>11, <1>12 DEF Inv

LEMMA StartRequestStep ==
    ASSUME Inv, StartRequest
    PROVE  Inv'
<1> USE TransportAssumption
<1> DEFINE r == Head(tasks)
<1>1. /\ game = None /\ tasks # <<>> /\ tasks' = Tail(tasks)
      /\ UNCHANGED <<slots, worker, reports>>
      /\ \/ started' = started \cup {r} /\ UNCHANGED game
         \/ /\ game' = [slot |-> r.slot, step |-> "write",
                        answer |-> "failed", again |-> reports]
            /\ UNCHANGED started
  BY DEF StartRequest, Run
<1>2. /\ tasks' \in Seq(Request) /\ r \in Request
      /\ 1 \in DOMAIN tasks /\ r = tasks[1]
      /\ \A i \in DOMAIN tasks' :
            i + 1 \in DOMAIN tasks /\ i + 1 # 1 /\ tasks'[i] = tasks[i + 1]
      /\ \A i, j \in DOMAIN tasks' : i + 1 = j + 1 => i = j
  BY <1>1, QueueShrinks DEF Inv, TypeOK
<1> HIDE DEF r
<1>3. CASE started' = started \cup {r} /\ UNCHANGED game
  <2>1. TypeOK'
    BY <1>1, <1>2, <1>3 DEF Inv, TypeOK, Slot, Completion, Steps
  <2>2. OneRequestPerSlot'
    BY <1>1, <1>2, <1>3 DEF Inv, TypeOK, OneRequestPerSlot
  <2>3. OneCallerPerSlot'
    BY <1>1, <1>2, <1>3 DEF Inv, OneCallerPerSlot
  <2>4. ForItsCaller'
    BY <1>1, <1>2, <1>3
       DEF Inv, TypeOK, ForItsCaller, OneCallerPerSlot, Worker
  <2>5. MarkedBeforeWoken'
    BY <1>1, <1>2, <1>3
       DEF Inv, TypeOK, MarkedBeforeWoken, OneCallerPerSlot, Worker
  <2>6. CompletedOnce'
    BY <1>1, <1>2, <1>3 DEF Inv, TypeOK, CompletedOnce, OneRequestPerSlot
  <2> QED
    BY <2>1, <2>2, <2>3, <2>4, <2>5, <2>6 DEF Inv
<1>4. CASE /\ game' = [slot |-> r.slot, step |-> "write",
                       answer |-> "failed", again |-> reports]
            /\ UNCHANGED started
  <2>0. /\ game' \in Completion /\ game' # None /\ game'.slot = r.slot
        /\ game'.step = "write" /\ game'.answer = "failed"
        /\ game'.again = reports
    BY <1>2, <1>4 DEF Inv, TypeOK, Completion, Steps, Answers, Request
  <2>1. TypeOK'
    BY <1>1, <1>2, <1>4, <2>0 DEF Inv, TypeOK, Slot, Completion, Steps
  <2>2. OneRequestPerSlot'
    BY <1>1, <1>2, <1>4, <2>0 DEF Inv, TypeOK, OneRequestPerSlot
  <2>3. OneCallerPerSlot'
    BY <1>1, <1>2, <1>4, <2>0 DEF Inv, OneCallerPerSlot
  <2>4. ForItsCaller'
    BY <1>1, <1>2, <1>4, <2>0
       DEF Inv, TypeOK, ForItsCaller, OneCallerPerSlot, Worker, CompletedOnce
  <2>5. MarkedBeforeWoken'
    BY <1>1, <1>2, <1>4, <2>0
       DEF Inv, TypeOK, MarkedBeforeWoken, OneCallerPerSlot, Worker
  <2>6. CompletedOnce'
    BY <1>1, <1>2, <1>4, <2>0
       DEF Inv, TypeOK, CompletedOnce, OneRequestPerSlot
  <2> QED
    BY <2>1, <2>2, <2>3, <2>4, <2>5, <2>6 DEF Inv
<1> QED
  BY <1>1, <1>3, <1>4

-----------------------------------------------------------------------------

(***************************************************************************)
(* The invariant is inductive and holds of every behaviour.                *)
(***************************************************************************)
THEOREM TransportInvariant == Spec => []Inv
<1>1. Init => Inv
  BY InitInv
<1>2. Inv /\ [Next]_vars => Inv'
  <2>1. Inv /\ UNCHANGED vars => Inv'
    BY DEF Inv, TypeOK, OneRequestPerSlot, OneCallerPerSlot, ForItsCaller,
           MarkedBeforeWoken, CompletedOnce, vars
  <2> QED
    BY <2>1, PostStep, WakeStep, TimeOutStep, CheckStep, ReadStep,
       StartRequestStep, CompleteStep, CompletionStepStep DEF Next
<1> QED
  BY <1>1, <1>2, PTL DEF Spec

(***************************************************************************)
(* Slots, workers and the game thread's work have their types.             *)
(***************************************************************************)
THEOREM TransportIsTyped == Spec => []TypeOK
<1>1. Inv => TypeOK
  BY DEF Inv
<1> QED
  BY <1>1, TransportInvariant, PTL

(***************************************************************************)
(* However slots are reused and completions delayed, a call returns the    *)
(* answer to its own request or an error.                                  *)
(***************************************************************************)
THEOREM AnswersAreOwn == Spec => []OwnAnswer
<1>1. Inv => OwnAnswer
  BY DEF Inv, OwnAnswer, OneCallerPerSlot, ForItsCaller, MarkedBeforeWoken
<1> QED
  BY <1>1, TransportInvariant, PTL

(***************************************************************************)
(* A call whose event woke it finds its slot marked: it never takes        *)
(* another exchange's event for a timeout.                                 *)
(***************************************************************************)
THEOREM TimeoutsAreReal == Spec => []OnlyRealTimeouts
<1>1. Inv => OnlyRealTimeouts
  BY DEF Inv, OnlyRealTimeouts, MarkedBeforeWoken
<1> QED
  BY <1>1, TransportInvariant, PTL

(***************************************************************************)
(* Only the second report of a failed start, an error over an error by an  *)
(* engine that also completes what it did not start, can be written into a *)
(* slot that is being read.                                                *)
(***************************************************************************)
THEOREM OnlySecondReportsMeetReads == Spec => []ReadIsExclusive
<1>1. Inv => ReadIsExclusive
  <2> SUFFICES ASSUME Inv, NEW w \in Workers,
                      worker[w].stage = "reading", game # None,
                      game.slot = worker[w].slot, game.step = "write"
               PROVE  /\ reports /\ ~ game.again /\ game.answer = "failed"
                      /\ slots[game.slot].content = "failed"
    BY DEF ReadIsExclusive
  <2>1. game.slot \in Slots /\ slots[game.slot].signalled
    BY DEF Inv, TypeOK, Completion, MarkedBeforeWoken
  <2>2. reports /\ ~ game.again /\ game.answer = "failed"
    BY <2>1 DEF Inv, CompletedOnce
  <2>3. slots[game.slot].content = game.answer
    BY <2>1, TransportAssumption DEF Inv, ForItsCaller
  <2> QED
    BY <2>2, <2>3
<1> QED
  BY <1>1, TransportInvariant, PTL
==============================================================================
