---------------------------- MODULE SessionHolder ----------------------------
(***************************************************************************)
(* The Blueprint library: calls that run on the thread pool under the      *)
(* holder's gate, the slot they share, and the memory session in it        *)
(* (AuthorizationSession::memory) with the lock it owns for life.          *)
(*                                                                         *)
(* One system id, so one slot.  A persistent session keeps its lease in    *)
(* the file (PersistentSession): here it is a session that holds none and  *)
(* owns no lock.  A call holds the gate through its network exchanges, so  *)
(* the gate inside the session never makes anybody wait and is left out.   *)
(***************************************************************************)
EXTENDS Naturals

CONSTANTS
    None,
    Tasks,           \* the calls that can be under way at one time
    Configs,         \* the settings a game may pass
    MemoryConfigs,   \* those that ask for a memory session
    MaxCalls,        \* bound on the calls the game makes
    MaxEpoch         \* bound on the epochs the service issues

Ops       == {"easy", "tick", "end", "forget"}
Endpoints == {"authorize", "renew", "status", "end"}
Stages    == {"idle", "queued", "locked", "disposing", "creating", "running",
              "sent", "second", "lapsed", "returning", "failed", "posted"}

\* A lease is its epoch, and 0 is no lease.
Session == [config : Configs, lease : Nat, expired : BOOLEAN, ending : BOOLEAN]
Request == [endpoint : Endpoints, epoch : Nat]
Task    == [stage : Stages, op : Ops, config : Configs,
            request : Request \cup {None}]

ASSUME HolderAssumption ==
    /\ None \notin Tasks \cup Configs \cup Session \cup Request \cup {"own"}
    /\ Configs # {} /\ MemoryConfigs \subseteq Configs
    /\ MaxCalls \in Nat
    /\ MaxEpoch \in Nat

VARIABLES
    task,         \* task[t]: a call and how far it is
    gate,         \* the task that holds the holder's gate
    session,      \* the slot's session, or None
    remembered,   \* the settings the slot remembers
    lock,         \* the installation lock: "own", "peer" or None
    service,      \* the last epoch issued, and the one active, if any
    calls,        \* the calls made so far
    held, tried   \* history: epochs a session held, and tried to end

vars == <<task, gate, session, remembered, lock, service, calls, held, tried>>

\* The settings of a call that takes only the system id from them.
AnyConfig == CHOOSE c \in Configs : TRUE

Idle == [stage |-> "idle", op |-> "easy", config |-> AnyConfig, request |-> None]

Init ==
    /\ task = [t \in Tasks |-> Idle]
    /\ gate = None
    /\ session = None
    /\ remembered = None
    /\ lock \in {None, "peer"}
    /\ service = [last |-> 0, active |-> 0]
    /\ calls = 0
    /\ held = {}
    /\ tried = {}

Go(t, stage) == task' = [task EXCEPT ![t].stage = stage]
At(t, stage) == task[t].stage = stage

-----------------------------------------------------------------------------
(* A call, from the game thread to the gate.                               *)

Call(t, op, c) ==
    /\ At(t, "idle")
    /\ calls < MaxCalls
    /\ op = "easy" \/ c = AnyConfig
    /\ calls' = calls + 1
    /\ task' = [task EXCEPT ![t] = [stage |-> "queued", op |-> op, config |-> c,
                                    request |-> None]]
    /\ UNCHANGED <<gate, session, remembered, lock, service, held, tried>>

Lock(t) ==
    /\ At(t, "queued")
    /\ gate = None
    /\ gate' = t
    /\ Go(t, "locked")
    /\ UNCHANGED <<session, remembered, lock, service, calls, held, tried>>

\* Mutation: the catch handler does not let go of the gate.
UnlockOnReturn(t) ==
    /\ At(t, "returning")
    /\ gate' = None
    /\ Go(t, IF task[t].op = "forget" THEN "idle" ELSE "posted")
    /\ UNCHANGED <<session, remembered, lock, service, calls, held, tried>>

\* The call has returned or thrown: the gate is released and the result is
\* posted to the game thread.  ForgetInstallation has no delegate.
Unlock(t) ==
    /\ At(t, "returning") \/ At(t, "failed")
    /\ gate' = None
    /\ Go(t, IF task[t].op = "forget" THEN "idle" ELSE "posted")
    /\ UNCHANGED <<session, remembered, lock, service, calls, held, tried>>

Deliver(t) ==
    /\ At(t, "posted")
    /\ task' = [task EXCEPT ![t] = Idle]
    /\ UNCHANGED <<gate, session, remembered, lock, service, calls, held, tried>>

-----------------------------------------------------------------------------
(* sessionFor.                                                             *)

\* Mutation: a slot whose settings match is taken to have its session.
MatchesRemembered(c) == remembered = c

Matches(c) == session # None /\ remembered = c

\* orderlyDispose has an end to send.
MustEnd == session # None /\ session.lease # 0

\* The session is destroyed, and its lock released.
Destroyed ==
    /\ session' = None
    /\ lock' = IF lock = "own" THEN None ELSE lock

Reuse(t) ==
    /\ At(t, "locked") /\ task[t].op = "easy"
    /\ Matches(task[t].config)
    /\ Go(t, "running")
    /\ UNCHANGED <<gate, session, remembered, lock, service, calls, held, tried>>

\* Mutation: the new session is created before the old one is gone.
ReplaceInPlace(t) ==
    /\ At(t, "locked") /\ task[t].op = "easy"
    /\ ~ Matches(task[t].config)
    /\ Go(t, "creating")
    /\ UNCHANGED <<gate, session, remembered, lock, service, calls, held, tried>>

\* Mutation: the old session is dropped with its lease.
ReplaceWithoutEnd(t) ==
    /\ At(t, "locked") /\ task[t].op = "easy"
    /\ ~ Matches(task[t].config)
    /\ Go(t, "creating")
    /\ Destroyed
    /\ UNCHANGED <<gate, remembered, service, calls, held, tried>>

\* The slot is reset first.  A memory session ends its lease on the way out:
\* the pending request, or a new one.
Replace(t) ==
    /\ At(t, "locked") /\ task[t].op = "easy"
    /\ ~ Matches(task[t].config)
    /\ IF MustEnd
       THEN /\ Go(t, "disposing")
            /\ tried' = tried \cup {session.lease}
            /\ UNCHANGED <<session, lock>>
       ELSE Go(t, "creating") /\ Destroyed /\ UNCHANGED tried
    /\ UNCHANGED <<gate, remembered, service, calls, held>>

\* Whatever became of that request, errors are swallowed and the session goes.
DisposeAnswered(t) ==
    /\ At(t, "disposing")
    /\ service' \in {service, [service EXCEPT !.active =
                                  IF @ = session.lease THEN 0 ELSE @]}
    /\ Go(t, "creating")
    /\ Destroyed
    /\ UNCHANGED <<gate, remembered, calls, held, tried>>

Create(t) ==
    /\ At(t, "creating")
    /\ task[t].config \in MemoryConfigs => lock = None
    /\ lock' = IF task[t].config \in MemoryConfigs THEN "own" ELSE lock
    /\ session' = [config |-> task[t].config, lease |-> 0, expired |-> FALSE,
                   ending |-> FALSE]
    /\ remembered' = task[t].config
    /\ Go(t, "running")
    /\ UNCHANGED <<gate, service, calls, held, tried>>

\* Creating the session throws: the lock is not free within its timeout, or
\* the settings, the system id, the key or the state are refused.  Whatever
\* was acquired is released again.
CreateFails(t) ==
    /\ At(t, "creating")
    /\ Go(t, "failed")
    /\ UNCHANGED <<gate, session, remembered, lock, service, calls, held, tried>>

-----------------------------------------------------------------------------
(* The session's operations.                                               *)

\* The other calls do nothing when there is no session.
Find(t) ==
    /\ At(t, "locked") /\ task[t].op # "easy"
    /\ Go(t, IF session = None THEN "returning" ELSE "running")
    /\ UNCHANGED <<gate, session, remembered, lock, service, calls, held, tried>>

Post(t, endpoint) ==
    /\ task' = [task EXCEPT ![t].stage = "sent",
                            ![t].request = [endpoint |-> endpoint,
                                            epoch |-> session.lease]]
    /\ UNCHANGED <<gate, remembered, lock, service, calls, held>>

\* endLocked up to its request.
EndLocked(t) ==
    /\ session.lease # 0
    /\ session' = [session EXCEPT !.ending = TRUE]
    /\ tried' = tried \cup {session.lease}
    /\ Post(t, "end")

Live == session.lease # 0 /\ ~ session.ending /\ ~ session.expired

\* easyAuthorize: an entered key asks for a new epoch at once; otherwise a
\* pending end goes first, a live lease is checked or renewed, and without
\* one the retained key is tried.
RunEasy(t) ==
    /\ At(t, "running") /\ task[t].op = "easy"
    /\ session.config \in MemoryConfigs
    /\ \/ session.ending /\ EndLocked(t)
       \/ /\ \/ Post(t, "authorize")
             \/ Live /\ \E q \in {"renew", "status"} : Post(t, q)
          /\ UNCHANGED <<session, tried>>

\* What it tries after a refusal, or an answer that left no live lease.
RunSecond(t) ==
    /\ At(t, "second")
    /\ Post(t, "authorize")
    /\ UNCHANGED <<session, tried>>

\* Mutation: the gate is taken for each section of tick.
RunTickReleasing(t) ==
    /\ At(t, "running") /\ task[t].op = "tick"
    /\ session.config \in MemoryConfigs
    /\ session.lease # 0 /\ ~ session.ending /\ session.expired
    /\ gate' = None
    /\ Go(t, "lapsed")
    /\ UNCHANGED <<session, remembered, lock, service, calls, held, tried>>

\* tick, first section: a due lease is renewed, a lapsed one is noticed.
RunTick(t) ==
    /\ At(t, "running") /\ task[t].op = "tick"
    /\ session.config \in MemoryConfigs
    /\ UNCHANGED <<session, tried>>
    /\ \/ Live /\ Post(t, "renew")
       \/ /\ session.lease # 0 /\ ~ session.ending /\ session.expired
          /\ Go(t, "lapsed")
          /\ UNCHANGED <<gate, remembered, lock, service, calls, held>>

\* tick, second section: end("lease_expired").
EndLapsed(t) == At(t, "lapsed") /\ EndLocked(t)

RunEnd(t) ==
    /\ At(t, "running") /\ task[t].op = "end"
    /\ EndLocked(t)

\* Nothing to send: no lease, no key, nothing due, an end that tick does not
\* resume; and everything a persistent session does.
Idles(op) ==
    \/ session.config \notin MemoryConfigs
    \/ op = "easy" /\ ~ session.ending
    \/ op = "tick" /\ (session.lease = 0 \/ session.ending \/ ~ session.expired)
    \/ op = "end" /\ session.lease = 0

NothingToDo(t) ==
    /\ \/ At(t, "second")
       \/ At(t, "running") /\ task[t].op # "forget" /\ Idles(task[t].op)
    /\ Go(t, "returning")
    /\ UNCHANGED <<gate, session, remembered, lock, service, calls, held, tried>>

\* forget refuses while there is a lease or a pending end, and may fail to
\* erase the key or the file; otherwise the slot is erased.
Forget(t) ==
    /\ At(t, "running") /\ task[t].op = "forget"
    /\ \/ session.lease = 0 /\ Destroyed /\ remembered' = None
       \/ UNCHANGED <<session, lock, remembered>>
    /\ Go(t, "returning")
    /\ UNCHANGED <<gate, service, calls, held, tried>>

-----------------------------------------------------------------------------
(* Answers.                                                                *)

\* The service acts on a request: the epochs it may have issued and active.
Acts(request) ==
    CASE request.endpoint = "authorize" ->
           {s \in {[last |-> service.last + 1, active |-> service.last + 1]} :
               s.last <= MaxEpoch}
      [] request.endpoint = "end" ->
           {[service EXCEPT !.active = IF @ = request.epoch THEN 0 ELSE @]}
      [] OTHER -> {service}

\* Mutation: the end stays marked as pending when it is acknowledged.
LearnsStillEnding(request) ==
    IF request.endpoint = "authorize"
    THEN [session EXCEPT !.lease = service'.last, !.expired = FALSE,
                         !.ending = FALSE]
    ELSE IF request.endpoint = "end" \/ service'.active # session.lease
    THEN [session EXCEPT !.lease = 0, !.expired = FALSE]
    ELSE [session EXCEPT !.expired = @ /\ request.endpoint # "renew"]

\* The session learns what the service did.
Learns(request) ==
    IF request.endpoint = "authorize"
    THEN [session EXCEPT !.lease = service'.last, !.expired = FALSE,
                         !.ending = FALSE]
    ELSE IF request.endpoint = "end" \/ service'.active # session.lease
    THEN [session EXCEPT !.lease = 0, !.expired = FALSE, !.ending = FALSE]
    ELSE [session EXCEPT !.expired = @ /\ request.endpoint # "renew"]

Answered(t) ==
    /\ At(t, "sent")
    /\ service' \in Acts(task[t].request)
    /\ session' = Learns(task[t].request)
    /\ held' = held \cup ({session'.lease} \ {0})
    /\ Go(t, IF /\ task[t].op = "easy"
                /\ task[t].request.endpoint # "authorize"
                /\ session'.lease = 0 \/ session'.expired
             THEN "second" ELSE "returning")
    /\ UNCHANGED <<gate, remembered, lock, calls, tried>>

\* The answer says that the lease is being reclaimed, or finds it lapsed.
AnsweredLapsed(t) ==
    /\ At(t, "sent")
    /\ task[t].request.endpoint \in {"renew", "status"}
    /\ session' = [session EXCEPT !.expired = TRUE]
    /\ Go(t, IF task[t].op = "tick" THEN "lapsed" ELSE "second")
    /\ UNCHANGED <<gate, remembered, lock, service, calls, held, tried>>

\* The service refuses a live lease its renewal or status, in a signed answer
\* that says nothing of the lease: easyAuthorize tries the retained key.
Refused(t) ==
    /\ At(t, "sent") /\ task[t].op = "easy"
    /\ task[t].request.endpoint \in {"renew", "status"}
    /\ Go(t, "second")
    /\ UNCHANGED <<gate, session, remembered, lock, service, calls, held, tried>>

\* The answer is another refusal or a transport failure, or it does not
\* verify, which throws; the service may have acted all the same.
Fails(t) ==
    /\ At(t, "sent")
    /\ service' \in Acts(task[t].request) \cup {service}
    /\ \E stage \in {"returning", "failed"} : Go(t, stage)
    /\ UNCHANGED <<gate, session, remembered, lock, calls, held, tried>>

-----------------------------------------------------------------------------
(* The world.                                                              *)

\* The lease of a memory session reaches its expiry.
Expire ==
    /\ session # None /\ session.lease # 0 /\ ~ session.expired
    /\ session' = [session EXCEPT !.expired = TRUE]
    /\ UNCHANGED <<task, gate, remembered, lock, service, calls, held, tried>>

\* The service ends the epoch of its own accord.
ServiceEnds ==
    /\ service.active # 0
    /\ service' = [service EXCEPT !.active = 0]
    /\ UNCHANGED <<task, gate, session, remembered, lock, calls, held, tried>>

\* A memory session of another process opens or goes.
Peer ==
    /\ lock # "own"
    /\ lock' = IF lock = None THEN "peer" ELSE None
    /\ UNCHANGED <<task, gate, session, remembered, service, calls, held, tried>>

\* What a task does once its call is under way.
Step(t) ==
    \/ Lock(t) \/ Unlock(t) \/ Deliver(t)
    \/ Reuse(t) \/ Replace(t) \/ DisposeAnswered(t) \/ Create(t) \/ CreateFails(t)
    \/ Find(t)
    \/ RunEasy(t) \/ RunSecond(t) \/ RunTick(t) \/ EndLapsed(t) \/ RunEnd(t)
    \/ NothingToDo(t) \/ Forget(t)
    \/ Answered(t) \/ AnsweredLapsed(t) \/ Refused(t) \/ Fails(t)

Next ==
    \/ \E t \in Tasks : Step(t)
    \/ \E t \in Tasks, op \in Ops, c \in Configs : Call(t, op, c)
    \/ Expire
    \/ ServiceEnds
    \/ Peer

(***************************************************************************)
(* Fairness: a pool thread that can run does, and every exchange and every *)
(* wait for the installation lock ends by its timeout (HttpTransport's     *)
(* PostReturns, ProcessFileLock::acquire).  std::mutex promises no turn to *)
(* a waiting thread, so only weak fairness is asked of the gate.           *)
(***************************************************************************)
Spec == Init /\ [][Next]_vars /\ \A t \in Tasks : WF_vars(Step(t))

-----------------------------------------------------------------------------
(* Properties.                                                             *)

(***************************************************************************)
(* The slot, its session, the calls and the service keep their shapes; a   *)
(* lease is one the service has issued, and only a lease lapses or waits   *)
(* for its end.                                                            *)
(***************************************************************************)
TypeOK ==
    /\ task \in [Tasks -> Task]
    /\ gate \in Tasks \cup {None}
    /\ session \in Session \cup {None}
    /\ remembered \in Configs \cup {None}
    /\ lock \in {None, "own", "peer"}
    /\ service \in [last : Nat, active : Nat]
    /\ service.active \in {0, service.last}
    /\ session # None =>
          /\ session.lease <= service.last
          /\ session.lease = 0 => ~ session.expired /\ ~ session.ending
    /\ calls \in 0 .. MaxCalls
    /\ held \in SUBSET Nat
    /\ tried \in SUBSET Nat

(***************************************************************************)
(* A call past the gate that works on the session finds one, and           *)
(* EasyAuthorize finds the one that was created with the settings it was   *)
(* given: neither a failed creation nor another call's settings leave the  *)
(* slot with a session that is missing or somebody else's.                 *)
(***************************************************************************)
SessionIsTheCallers ==
    \A t \in Tasks :
        task[t].stage \in {"disposing", "running", "sent", "second"} =>
            /\ session # None
            /\ task[t].op = "easy" /\ task[t].stage # "disposing" =>
                  session.config = task[t].config

(***************************************************************************)
(* A memory session, and nothing else in this process, holds the           *)
(* installation lock: a replacement never waits for its predecessor        *)
(* (sessionFor, "Reset first").                                            *)
(***************************************************************************)
LockFollowsSession ==
    /\ (lock = "own") = (session # None /\ session.config \in MemoryConfigs)
    /\ \A t \in Tasks : At(t, "creating") => lock # "own"

(***************************************************************************)
(* tick ends a memory session's lease only once that lease has lapsed: no  *)
(* other call renews or replaces it between tick's two sections.           *)
(***************************************************************************)
TickEndsLapsedLease ==
    \A t \in Tasks :
        \/ At(t, "lapsed")
        \/ /\ At(t, "sent") /\ task[t].op = "tick"
           /\ task[t].request.endpoint = "end"
        => session # None /\ session.expired

(***************************************************************************)
(* A lease this process has held and the service still honours is in the   *)
(* session, or its end has been tried: a change of settings, a failed      *)
(* replacement and forget all end what they drop.                          *)
(***************************************************************************)
NoLeaseDropped ==
    service.active \in held =>
        \/ session # None /\ session.lease = service.active
        \/ service.active \in tried

(***************************************************************************)
(* Every call gets its turn, and its delegate is called, whether it        *)
(* returns, finds no session or throws.                                    *)
(***************************************************************************)
CallsAreAnswered ==
    \A t \in Tasks : At(t, "queued") ~> At(t, "idle")
==============================================================================
