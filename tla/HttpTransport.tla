---------------------------- MODULE HttpTransport ----------------------------
(***************************************************************************)
(* UnrealHttpClient::postJson: worker threads exchange requests with a     *)
(* server through the engine, which runs every request and its completion  *)
(* on the game thread.  A worker and the game thread share an              *)
(* ExchangeSlot, held by a reference count, and the worker waits for the   *)
(* slot's event for a bounded time.                                        *)
(*                                                                         *)
(* The engine is external: it starts a queued request or fails to, and it  *)
(* completes a started one once, at any later time or never.  A slot's     *)
(* memory and event go back to their pools with the last reference, and    *)
(* the next exchange may be given the same ones; the event comes back      *)
(* reset.  A call on the game thread is refused before it touches          *)
(* anything and is left out.                                               *)
(***************************************************************************)
EXTENDS Naturals, Sequences, FiniteSets

CONSTANTS
    None,
    Workers,
    Slots      \* memory for exchange slots, which may run out

VARIABLES
    slots,     \* the contents of every slot
    worker,    \* where each worker is in its call
    tasks,     \* requests handed to the game thread
    started,   \* requests the engine has under way
    game,      \* the completion the game thread is running
    reports    \* does this engine also complete a request whose start it
               \* reports as failed?

vars == <<slots, worker, tasks, started, game, reports>>

Request == [slot : Slots, worker : Workers]
Answers == Workers \cup {"failed"}   \* the answer to a worker's request

Slot == [content : Answers \cup {None}, signalled : BOOLEAN, event : BOOLEAN]

Worker == [stage : {"idle", "waiting", "woken", "reading"},
           slot : Slots \cup {None}, elapsed : BOOLEAN]

\* A completion writes the slot, marks it and triggers its event.
Steps == {"write", "signal", "trigger"}

Completion == [slot : Slots, step : Steps, answer : Answers, again : BOOLEAN]

ASSUME TransportAssumption ==
    /\ None \notin Workers \cup Slots \cup Completion
    /\ "failed" \notin Workers

Idle    == [stage |-> "idle", slot |-> None, elapsed |-> FALSE]
NewSlot == [content |-> None, signalled |-> FALSE, event |-> FALSE]

Init ==
    /\ slots = [s \in Slots |-> NewSlot]
    /\ worker = [w \in Workers |-> Idle]
    /\ tasks = <<>>
    /\ started = {}
    /\ game = None
    /\ reports \in BOOLEAN

-----------------------------------------------------------------------------
(* Who holds a slot.                                                       *)

HeldByEngine(s) ==
    \/ \E i \in DOMAIN tasks : tasks[i].slot = s
    \/ \E r \in started : r.slot = s
    \/ game # None /\ game.slot = s

HeldByWorker(s) == \E w \in Workers : worker[w].slot = s

\* Mutation: the slot is the caller's, and the callbacks hold a bare pointer.
HeldByCaller(s) == HeldByWorker(s)

Held(s) == HeldByWorker(s) \/ HeldByEngine(s)

-----------------------------------------------------------------------------
(* The worker.                                                             *)

\* A fresh slot, and a task for the game thread.
Post(w) ==
    /\ worker[w].stage = "idle"
    /\ \E s \in Slots :
          /\ ~ Held(s)
          /\ slots' = [slots EXCEPT ![s] = NewSlot]
          /\ worker' = [worker EXCEPT ![w] =
                          [@ EXCEPT !.stage = "waiting", !.slot = s]]
          /\ tasks' = Append(tasks, [slot |-> s, worker |-> w])
    /\ UNCHANGED <<started, game, reports>>

\* The wait ends with the event, which resets itself.
Wake(w) ==
    LET s == worker[w].slot
    IN  /\ worker[w].stage = "waiting"
        /\ slots[s].event
        /\ slots' = [slots EXCEPT ![s].event = FALSE]
        /\ worker' = [worker EXCEPT ![w] =
                        [@ EXCEPT !.stage = "woken", !.elapsed = FALSE]]
        /\ UNCHANGED <<tasks, started, game, reports>>

\* Mutation: the wait ends only when there is something to read.
TimeOutUnbounded(w) ==
    /\ worker[w].stage = "waiting"
    /\ slots[worker[w].slot].signalled
    /\ worker' = [worker EXCEPT ![w] =
                    [@ EXCEPT !.stage = "woken", !.elapsed = TRUE]]
    /\ UNCHANGED <<slots, tasks, started, game, reports>>

\* The wait ends with the request timeout and its grace.
TimeOut(w) ==
    /\ worker[w].stage = "waiting"
    /\ worker' = [worker EXCEPT ![w] =
                    [@ EXCEPT !.stage = "woken", !.elapsed = TRUE]]
    /\ UNCHANGED <<slots, tasks, started, game, reports>>

\* Mutation: whoever wakes by the event reads, and so does who times out.
CheckNothing(w) ==
    /\ worker[w].stage = "woken"
    /\ worker' = [worker EXCEPT ![w] = [@ EXCEPT !.stage = "reading"]]
    /\ UNCHANGED <<slots, tasks, started, game, reports>>

\* Only a slot marked as signalled is read; otherwise the caller leaves.
Check(w) ==
    /\ worker[w].stage = "woken"
    /\ worker' = [worker EXCEPT ![w] =
                    IF slots[@.slot].signalled
                    THEN [@ EXCEPT !.stage = "reading"]
                    ELSE Idle]
    /\ UNCHANGED <<slots, tasks, started, game, reports>>

\* The contents are moved out and returned.
Read(w) ==
    LET s == worker[w].slot
    IN  /\ worker[w].stage = "reading"
        /\ worker' = [worker EXCEPT ![w] = Idle]
        /\ slots' = [slots EXCEPT ![s].content = None]
        /\ UNCHANGED <<tasks, started, game, reports>>

-----------------------------------------------------------------------------
(* The game thread.                                                        *)

\* Mutation: a failure leaves the slot without its error.
RunWithoutError(request, answer, again) ==
    game' = [slot |-> request.slot, step |-> "write",
             answer |-> IF answer = "failed" THEN None ELSE answer,
             again |-> again]

Run(request, answer, again) ==
    game' = [slot |-> request.slot, step |-> "write", answer |-> answer,
             again |-> again]

\* The next task creates its request and starts it, or reports the failure.
StartRequest ==
    /\ game = None
    /\ tasks # <<>>
    /\ tasks' = Tail(tasks)
    /\ \/ started' = started \cup {Head(tasks)} /\ UNCHANGED game
       \/ Run(Head(tasks), "failed", reports) /\ UNCHANGED started
    /\ UNCHANGED <<slots, worker, reports>>

\* Mutation: the delegate stays bound, and holds the slot, once it has run.
CompleteKeepingDelegate(s) ==
    /\ game = None
    /\ \E r \in started, answer \in Answers :
          /\ r.slot = s
          /\ answer \in {r.worker, "failed"}
          /\ Run(r, answer, FALSE)
    /\ UNCHANGED <<slots, worker, tasks, started, reports>>

\* The engine completes the request of a slot, with its answer or an error.
Complete(s) ==
    /\ game = None
    /\ \E r \in started, answer \in Answers :
          /\ r.slot = s
          /\ answer \in {r.worker, "failed"}
          /\ Run(r, answer, FALSE)
          /\ started' = started \ {r}
    /\ UNCHANGED <<slots, worker, tasks, reports>>

\* Mutation: the slot is marked before it is written.
CompletionStepSignalFirst ==
    /\ game # None
    /\ \/ /\ game.step = "write"
          /\ slots' = [slots EXCEPT ![game.slot].signalled = TRUE]
          /\ game' = [game EXCEPT !.step = "signal"]
       \/ /\ game.step = "signal"
          /\ slots' = [slots EXCEPT ![game.slot].content = game.answer]
          /\ game' = [game EXCEPT !.step = "trigger"]
       \/ /\ game.step = "trigger"
          /\ slots' = [slots EXCEPT ![game.slot].event = TRUE]
          /\ game' = None
    /\ UNCHANGED <<worker, tasks, started, reports>>

CompletionStep ==
    /\ game # None
    /\ \/ /\ game.step = "write"
          /\ slots' = [slots EXCEPT ![game.slot].content = game.answer]
          /\ game' = [game EXCEPT !.step = "signal"]
       \/ /\ game.step = "signal"
          /\ slots' = [slots EXCEPT ![game.slot].signalled = TRUE]
          /\ game' = [game EXCEPT !.step = "trigger"]
       \/ /\ game.step = "trigger"
          /\ slots' = [slots EXCEPT ![game.slot].event = TRUE]
          /\ game' = IF game.again
                     THEN [game EXCEPT !.step = "write", !.again = FALSE]
                     ELSE None
    /\ UNCHANGED <<worker, tasks, started, reports>>

Next ==
    \/ \E w \in Workers :
          \/ Post(w)
          \/ Wake(w)
          \/ TimeOut(w)
          \/ Check(w)
          \/ Read(w)
    \/ StartRequest
    \/ \E s \in Slots : Complete(s)
    \/ CompletionStep

(***************************************************************************)
(* A worker thread keeps running and its wait is timed.  The game thread   *)
(* may stop for good (shutdown) or for longer than any wait (a long load). *)
(***************************************************************************)
WorkerFairness ==
    \A w \in Workers : WF_vars(TimeOut(w) \/ Check(w) \/ Read(w))

(***************************************************************************)
(* While the game thread ticks it takes every task, and the request        *)
(* timeout given to the engine completes every request, in whichever tick. *)
(***************************************************************************)
GameFairness ==
    /\ WF_vars(StartRequest)
    /\ WF_vars(CompletionStep)
    /\ \A s \in Slots : SF_vars(Complete(s))

Spec == Init /\ [][Next]_vars /\ WorkerFairness

-----------------------------------------------------------------------------
(* Properties.                                                             *)

(***************************************************************************)
(* Slots, workers and the game thread's work have their types.             *)
(***************************************************************************)
TypeOK ==
    /\ slots \in [Slots -> Slot]
    /\ worker \in [Workers -> Worker]
    /\ tasks \in Seq(Request)
    /\ started \in SUBSET Request
    /\ game \in Completion \cup {None}
    /\ reports \in BOOLEAN

(***************************************************************************)
(* A worker reads a complete result of its own request, however many       *)
(* earlier requests of anyone complete after their caller has left.        *)
(***************************************************************************)
OwnAnswer ==
    \A w \in Workers : worker[w].stage = "reading" =>
        slots[worker[w].slot].content \in {w, "failed"}

(***************************************************************************)
(* A caller is told of a timeout only after the whole wait: no completion  *)
(* of another exchange triggers the event it waits for.                    *)
(***************************************************************************)
OnlyRealTimeouts ==
    \A w \in Workers : worker[w].stage = "woken" /\ ~ worker[w].elapsed =>
        slots[worker[w].slot].signalled

(***************************************************************************)
(* While a worker moves the contents of its slot out, nothing writes them, *)
(* with one exception, which is a data race in the code: an engine that    *)
(* also completes a request whose start it reported as failed makes the    *)
(* second report, of an error over an error.  An answer is never written   *)
(* under a read, and never at all by an engine that completes once.        *)
(***************************************************************************)
ReadIsExclusive ==
    \A w \in Workers :
        /\ worker[w].stage = "reading"
        /\ game # None
        /\ game.slot = worker[w].slot
        /\ game.step = "write"
        => /\ reports
           /\ ~ game.again
           /\ game.answer = "failed"
           /\ slots[game.slot].content = "failed"

(***************************************************************************)
(* Every call returns, even if the game thread never runs again.           *)
(***************************************************************************)
PostReturns ==
    \A w \in Workers : worker[w].stage # "idle" ~> worker[w].stage = "idle"

(***************************************************************************)
(* No slot leaks: while the game thread ticks, every reference is dropped  *)
(* in the end, also those of a request whose caller has left.              *)
(***************************************************************************)
SlotsComeBack == GameFairness => \A s \in Slots : Held(s) ~> ~ Held(s)
=============================================================================
