---------------------------- MODULE EasyAuthorize ----------------------------
(***************************************************************************)
(* AuthorizationSession::easyAuthorize: a startup call made of up to four  *)
(* sections, each of which takes the installation lock, reloads the file   *)
(* and releases the lock again.  What it does next follows from what the   *)
(* section before returned, and the other processes run in between.        *)
(*                                                                         *)
(*   load -> renewIfDue, synchronizeStatus or end -> authorizeWithStoredKey*)
(*        -> guidance,   or   authorizeWithKey -> guidance                 *)
(*                                                                         *)
(* A section that throws has the same effect on the call as one that       *)
(* returns the state the error is mapped to.  The retry time of the        *)
(* guidance is left out; a renewal it postpones is one that returns the    *)
(* local snapshot.                                                         *)
(***************************************************************************)
EXTENDS PersistentSession

CONSTANT Callers    \* the processes that start with easyAuthorize

ASSUME CallersAssumption == Callers \subseteq Procs

VARIABLE call       \* call[p]: how far p's call is, and what it knows

easyVars == <<vars, call>>

\* The phases the clock may be in: an accepted answer is a new anchor, after
\* which it is trusted, and a lease that has just been issued has not expired.
\* STALE_GENERATION is answered by a reload, and leaves the anchor alone.
PhasesAfter(answer) ==
    IF ~ answer.framed \/ IsStale(answer) THEN Phases
    ELSE IF answer.lease # None THEN {"early", "due"}
    ELSE {"early", "due", "past"}

-----------------------------------------------------------------------------
(* Snapshots: a state, with the lease it lets the program use.             *)

Only(name) == [state |-> name, lease |-> None]

\* Mutation: the lease is handed out until the service is known to have
\* replaced it.
UsableLeaseAlways(s, clock) == s.lease

UsableLease(s, clock) ==
    IF \/ s.ending \/ s.ended \/ s.revoked \/ s.serverExpired
       \/ clock \in {"past", "untrusted"}
    THEN None ELSE s.lease

SnapshotOf(s, clock, online) ==
    LET name == Snapshot(s, clock)
    IN  IF name = "authorized"
        THEN [state |-> IF online THEN "authorized_online"
                                  ELSE "authorized_offline",
              lease |-> s.lease]
        ELSE IF name = "renewal_due" THEN [state |-> name, lease |-> s.lease]
        ELSE Only(name)

\* responseSnapshot, for the response codes the service uses.
ResponseSnapshot(s, answer, freshAuthorization, clock) ==
    LET d          == answer.decision
        Usably(nm) == [state |-> nm, lease |-> UsableLease(s, clock)]
    IN  IF d = None THEN SnapshotOf(s, clock, TRUE)
        ELSE CASE d.responseCode = "LEASE_REVOKED" -> Only("inactive")
               [] d.responseCode = "LEASE_ENDED" -> Only("ended")
               [] d.responseCode = "AUTH_MODE_IN_USE" -> Usably("auth_mode_in_use")
               [] d.responseCode = "STALE_GENERATION" -> SnapshotOf(s, clock, FALSE)
               [] d.responseCode = "LEASE_RECLAIM_PENDING" -> Only("expired")
               [] OTHER ->
                    IF answer.http = "success" THEN SnapshotOf(s, clock, TRUE)
                    ELSE IF freshAuthorization THEN Usably("auth_denied")
                    ELSE IF s.revoked THEN Only("inactive")
                    ELSE IF s.ended THEN Only("ended")
                    ELSE Usably("auth_denied")

MissingKey(x) ==
    /\ x.forgetMissingKey
    /\ x.answer.decision # None
    /\ x.answer.decision.responseCode = "KEY_NOT_FOUND"

\* What execute returns, with s the state it has saved last.
ExecuteSnapshot(s, x, clock) ==
    IF x.answer.http = "busy"
    THEN [state |-> "network_unavailable", lease |-> UsableLease(s, clock)]
    ELSE IF MissingKey(x) THEN Only("auth_denied")
    ELSE IF x.answer.http = "denied" /\ x.answer.decision = None
    THEN Only("protocol_failure")
    ELSE ResponseSnapshot(s, x.answer, x.freshAuthorization, clock)

\* Mutation: an end the service was too busy for is reported as done.
EndSnapshotHasty(s, x) ==
    IF x.answer.http = "busy" THEN Only("ended")
    ELSE IF s.revoked THEN Only("inactive")
    ELSE IF s.ended THEN Only("ended")
    ELSE Only("storage_unavailable")

\* What endLocked returns; an answer that does not acknowledge the end is an
\* error.
EndSnapshot(s, x) ==
    IF x.answer.http = "busy" THEN Only("ending")
    ELSE IF s.revoked THEN Only("inactive")
    ELSE IF s.ended THEN Only("ended")
    ELSE Only("storage_unavailable")

-----------------------------------------------------------------------------
(* The call.                                                               *)

\* The states after which the retained key is tried, and which ask the user
\* for one when that did not help.
Keyless == {"inactive", "ended", "expired", "auth_denied"}

RecommendedAction(name) ==
    CASE name = "authorized_online" -> "none"
      [] name = "authorized_offline" -> "continue_offline"
      [] name \in {"renewal_due", "network_unavailable", "ending"} -> "retry_online"
      [] name \in Keyless -> "request_license_key"
      [] name = "clock_untrusted" -> "check_clock"
      [] name = "storage_unavailable" -> "repair_protected_storage"
      [] name = "auth_mode_in_use" -> "resolve_authentication_mode"
      [] name = "installation_in_use" -> "wait_for_installation"
      [] OTHER -> "contact_developer"

\* What the program is told: what to do, and a lease to go on with.
Told(result) == [action |-> RecommendedAction(result.state),
                 lease |-> result.lease]

\* A call that is not under way.
NoCall == [stage |-> "done", told |-> None, found |-> None, before |-> {}]

\* The epochs no call that begins now may let the program go on with.
NotUsable == retired \cup (IF disk.ending THEN Held(disk) ELSE {})

EasyInit == Init /\ call = [p \in Callers |-> NoCall]

Continue(p, stage) == call' = [call EXCEPT ![p].stage = stage]

\* The call has its result and goes on to the guidance.  What it knew before
\* matters from here on only to the lease it hands out.
Result(p, result) ==
    call' = [call EXCEPT ![p] =
               [stage |-> "guide", told |-> Told(result), found |-> None,
                before |-> IF result.lease = None THEN {} ELSE @.before]]

\* What follows the first request: the retained key, or the guidance.
Settle(p, result) ==
    IF result.state \in Keyless THEN Continue(p, "stored") ELSE Result(p, result)

\* A call without a key begins with load, whose snapshot chooses the section.
Load(p) ==
    /\ call[p].stage = "done"
    /\ CanBegin(p)
    /\ \E clock \in Phases :
          LET local   == SnapshotOf(disk, clock, FALSE)
              At(nm)  == [NoCall EXCEPT !.stage = nm, !.before = NotUsable,
                                        !.found = disk.pendingEnd]
              section ==
                CASE local.state = "renewal_due" -> At("renew")
                  [] local.state \in {"authorized_offline", "clock_untrusted"}
                       -> At("status")
                  [] local.state = "ending" -> At("end")
                  [] OTHER -> At("stored")
          IN  call' = [call EXCEPT ![p] = section]
    /\ UNCHANGED vars

\* A call with an entered key begins with authorizeWithKey.
EnterKey(p, k) ==
    /\ call[p].stage = "done"
    /\ AuthorizeWithKey(p, k)
    /\ call' = [call EXCEPT ![p] = [NoCall EXCEPT !.stage = "second",
                                                  !.before = NotUsable]]

\* The section chosen after load sends its request ...
Act(p) ==
    /\ \/ call[p].stage = "renew" /\ RenewIfDue(p)
       \/ call[p].stage = "status" /\ SynchronizeStatus(p)
       \/ call[p].stage = "end" /\ BeginEnd(p)
       \/ call[p].stage = "end" /\ ResumeEnd(p)
    /\ Continue(p, "first")

\* ... or finds nothing to send any more: a lease that is not due or has a
\* retry pending, no lease, an end that is over.
ActLocally(p) ==
    /\ CanBegin(p)
    /\ \/ call[p].stage = "renew"
       \/ call[p].stage = "status" /\ disk.lease = None
       \/ call[p].stage = "end" /\ (disk.ended \/ disk.lease = None)
    /\ \E clock \in Phases : Settle(p, SnapshotOf(disk, clock, FALSE))
    /\ UNCHANGED vars

\* authorizeWithStoredKey, which needs a retained key.
TryStoredKey(p) ==
    /\ call[p].stage = "stored"
    /\ \/ (\E k \in Keys : AuthorizeWithStoredKey(p, k)) /\ Continue(p, "second")
       \/ /\ CanBegin(p)
          /\ disk.storedLicenseKey = None
          /\ Result(p, Only("auth_denied"))
          /\ UNCHANGED vars

\* The request of a section has been answered for good.
Conclude(p, result) ==
    IF call[p].stage = "first" THEN Settle(p, result) ELSE Result(p, result)

\* The section returns: s is what its last save, or its reload, left.
Returns(p, s) ==
    LET x == exchange[p]
    IN  /\ Saves(p) # {} => s \in Saves(p)
        /\ MissingKey(x) => s.storedLicenseKey = None
        /\ IF x.request.endpoint = "end" THEN Conclude(p, EndSnapshot(s, x))
           ELSE \E clock \in PhasesAfter(x.answer) :
                   Conclude(p, ExecuteSnapshot(s, x, clock))

\* The answer is processed, and the section returns or throws.
Answered(p) ==
    /\ Receive(p)
    /\ IF ~ Verified(memory[p], exchange[p].request, exchange[p].answer)
       THEN Conclude(p, Only("protocol_failure"))
       ELSE \/ Conclude(p, Only("storage_unavailable"))
            \/ Saves(p) # {} /\ Returns(p, disk')
            \/ Saves(p) = {} /\ Accepts(p) /\ Returns(p, disk)

\* No answer: the lease is unchanged, if the retry time can be saved.
Unreachable(p) ==
    /\ TransportFailure(p)
    /\ \/ Conclude(p, Only("storage_unavailable"))
       \/ /\ exchange[p].request.endpoint = "end"
          /\ Conclude(p, Only("ending"))
       \/ /\ exchange[p].request.endpoint # "end"
          /\ \E clock \in Phases :
                Conclude(p, [state |-> "network_unavailable",
                             lease |-> UsableLease(memory[p], clock)])

\* A peer holds the installation lock for longer than a section waits.
GateTimesOut(p) ==
    /\ phase[p] = "ready"
    /\ installationLock \notin {None, p}
    /\ call[p].stage \in {"done", "renew", "status", "end", "stored"}
    /\ Result(p, Only("installation_in_use"))
    /\ UNCHANGED vars

\* The last section rereads the file for the guidance, or gives that up, and
\* the call returns its result.
Guide(p) ==
    /\ call[p].stage = "guide"
    /\ CanBegin(p) \/ installationLock \notin {None, p}
    /\ call' = [call EXCEPT ![p] = NoCall]
    /\ UNCHANGED vars

EasyStep(p) ==
    \/ Load(p)
    \/ \E k \in Keys : EnterKey(p, k)
    \/ Act(p)
    \/ ActLocally(p)
    \/ TryStoredKey(p)
    \/ Answered(p)
    \/ Unreachable(p)
    \/ GateTimesOut(p)
    \/ Guide(p)
    \/ Crash(p) /\ call' = [call EXCEPT ![p] = NoCall]

\* The other processes use the operations as they please.
EasyNext ==
    \/ \E p \in Callers : EasyStep(p)
    \/ /\ \/ ServiceStep
          \/ \E p \in Procs :
                OpenLoad(p) \/ OpenPersist(p) \/ Serve(p) \/ Resend(p)
          \/ \E p \in Procs \ Callers :
                Operation(p) \/ TransportFailure(p) \/ Receive(p) \/ Crash(p)
       /\ UNCHANGED call

EasySpec == EasyInit /\ [][EasyNext]_easyVars

-----------------------------------------------------------------------------
(* Properties.                                                             *)

(***************************************************************************)
(* A call never lets the program proceed on a lease whose end was pending  *)
(* or recorded, or that was revoked or replaced, when the call began,      *)
(* whatever the processes did between its sections; and it recommends to   *)
(* carry on only with a lease in hand.                                     *)
(***************************************************************************)
ProceedsOnLiveLease ==
    \A p \in Callers : call[p].stage = "guide" =>
        /\ call[p].told.lease # None =>
              call[p].told.lease.authorizationId \notin call[p].before
        /\ call[p].told.action \in {"none", "continue_offline"} =>
              call[p].told.lease # None

(***************************************************************************)
(* A call that found a pending end does not ask for a new epoch while that *)
(* end is still pending: however often the exact retry fails or is         *)
(* answered by a busy service, the retained key waits for it.              *)
(***************************************************************************)
FoundEndIsFinishedFirst ==
    \A p \in Callers :
        /\ phase[p] \in {"sent", "answered"}
        /\ exchange[p].request.endpoint = "authorize"
        /\ call[p].found # None
        => disk.pendingEnd # call[p].found

(***************************************************************************)
(* A call ends no lease of its own accord: the only end it ever sends is   *)
(* the retained request it found pending (easyAuthorize: "A prior          *)
(* ambiguous end must finish with its exact persisted request").           *)
(***************************************************************************)
EndsOnlyWhatItFound ==
    \A p \in Callers :
        /\ phase[p] \in {"sent", "answered"}
        /\ exchange[p].request.endpoint = "end"
        => exchange[p].request = call[p].found
==============================================================================
