-------------------------- MODULE PersistentSession --------------------------
(***************************************************************************)
(* Processes that share one installation: its protected state file, its    *)
(* installation key and the two named locks around them, against the       *)
(* service.  (AuthorizationSession in persistent mode.)                    *)
(*                                                                         *)
(* Every public operation takes the installation lock, reloads the state,  *)
(* may save before it talks to the service, sends one request, and saves   *)
(* what the answer changes before the lock is released.  persistent()      *)
(* holds only the bootstrap lock: it reads the state, builds the session   *)
(* and writes the state back.  A process may stop anywhere; the system     *)
(* then releases its locks.  A save either replaces the whole file or      *)
(* fails and leaves it (IStateStore).                                      *)
(*                                                                         *)
(* What an operation keeps in memory matters only while it holds the lock, *)
(* since the next operation begins by reloading.                           *)
(***************************************************************************)
EXTENDS LicenseServer, FiniteSets

CONSTANTS
    Procs,          \* processes sharing the installation
    OpenOverlaps,   \* may persistent() overlap a peer's operation?
    MaxEnds,        \* bound on the end requests ever prepared
    MaxStray        \* bound on the requests delayed at one time

Phase == {"closed", "opening", "ready", "sent", "answered"}

Exchange ==
    [request : PreparedRequest, answer : Answer \cup {None},
     freshAuthorization : BOOLEAN, forgetMissingKey : BOOLEAN]

NoExchange == None

ASSUME SessionAssumption ==
    /\ None \notin Procs \cup Answer \cup Exchange
    /\ OpenOverlaps \in BOOLEAN
    /\ MaxEnds \in Nat
    /\ MaxStray \in Nat

VARIABLES
    disk,       \* the state file: a State, or None before the first save
    memory,     \* memory[p]: the state p works on, None when it has none
    phase,      \* phase[p]: where p is in open or in an operation
    exchange,   \* exchange[p]: the operation's request and its answer
    installationLock,
    bootstrapLock,
    stray,      \* requests still under way after their sender gave up
    retired,    \* history: epochs the file has ever recorded as over
    ends        \* history: every end request prepared

vars == <<service, disk, memory, phase, exchange, installationLock,
          bootstrapLock, stray, retired, ends>>

\* A new installation, or the file of a version 3 client, which stands for
\* the state it is migrated to whenever it is loaded.
Init ==
    /\ ServiceInit
    /\ disk \in {None} \cup {Migrated(k) : k \in Keys \cup {None}}
    /\ memory = [p \in Procs |-> None]
    /\ phase = [p \in Procs |-> "closed"]
    /\ exchange = [p \in Procs |-> NoExchange]
    /\ installationLock = None
    /\ bootstrapLock = None
    /\ stray = {}
    /\ retired = {}
    /\ ends = {}

-----------------------------------------------------------------------------

\* The epoch whose lease a state holds, and the epochs it knows to be over.
Held(s) == IF s = None THEN {}
           ELSE IF s.lease = None THEN {} ELSE {s.lease.authorizationId}

Over(s) == {a \in 1 .. s.authorizationId :
               a < s.authorizationId \/ s.ended \/ s.revoked}

\* persist: the file becomes the saved state.
Persist(s) ==
    /\ disk' = s
    /\ retired' = retired \cup Over(s)

\* persistent(), first half: under the bootstrap lock, load the state or
\* start a fresh one, and build the session, which checks it.
OpenLoad(p) ==
    LET s == IF disk = None THEN Fresh ELSE disk
    IN  /\ phase[p] = "closed"
        /\ bootstrapLock = None
        /\ OpenOverlaps \/ installationLock = None
        /\ Reloads(s)
        /\ bootstrapLock' = p
        /\ memory' = [memory EXCEPT ![p] = s]
        /\ phase' = [phase EXCEPT ![p] = "opening"]
        /\ UNCHANGED <<service, disk, exchange, installationLock, stray,
                       retired, ends>>

\* persistent(), second half: sign and save what was loaded, release.
OpenPersist(p) ==
    /\ phase[p] = "opening"
    /\ Persist(memory[p])
    /\ bootstrapLock' = None
    /\ memory' = [memory EXCEPT ![p] = None]
    /\ phase' = [phase EXCEPT ![p] = "ready"]
    /\ UNCHANGED <<service, exchange, installationLock, stray, ends>>

-----------------------------------------------------------------------------
(* Operations up to the request.  s is the state saved before it is sent.  *)

\* Mutation: an operation does not wait for a peer's.
CanBeginUngated(p) ==
    /\ phase[p] = "ready"
    /\ bootstrapLock = None
    /\ disk # None
    /\ Reloads(disk)

\* Gate, then reload.
CanBegin(p) ==
    /\ phase[p] = "ready"
    /\ installationLock = None
    /\ OpenOverlaps \/ bootstrapLock = None
    /\ disk # None
    /\ Reloads(disk)

Send(p, s, request, freshAuthorization, forgetMissingKey) ==
    /\ installationLock' = p
    /\ memory' = [memory EXCEPT ![p] = s]
    /\ phase' = [phase EXCEPT ![p] = "sent"]
    /\ exchange' = [exchange EXCEPT ![p] =
                      [request |-> request, answer |-> None,
                       freshAuthorization |-> freshAuthorization,
                       forgetMissingKey |-> forgetMissingKey]]
    /\ UNCHANGED <<service, bootstrapLock, stray>>

\* The entered key replaces the retained one before it is ever tried.
AuthorizeWithKey(p, k) ==
    LET s == [disk EXCEPT !.storedLicenseKey = k]
    IN  /\ CanBegin(p)
        /\ Persist(s)
        /\ Send(p, s, Prepare("authorize", s, None, k, 0), TRUE, TRUE)
        /\ UNCHANGED ends

\* k is the retained key.
AuthorizeWithStoredKey(p, k) ==
    /\ CanBegin(p)
    /\ disk.storedLicenseKey = k
    /\ Send(p, disk, Prepare("authorize", disk, None, k, 0), TRUE, TRUE)
    /\ UNCHANGED <<disk, retired, ends>>

AuthorizeWithAccount(p) ==
    /\ CanBegin(p)
    /\ Send(p, disk, Prepare("authorize", disk, None, None, 0), TRUE, FALSE)
    /\ UNCHANGED <<disk, retired, ends>>

\* When renewal falls due and no retry delay is pending, which time decides.
RenewIfDue(p) ==
    /\ CanBegin(p)
    /\ Snapshot(disk, "due") = "renewal_due"
    /\ Send(p, disk, Prepare("renew", disk, disk.lease, None, 0), FALSE, FALSE)
    /\ UNCHANGED <<disk, retired, ends>>

SynchronizeStatus(p) ==
    /\ CanBegin(p)
    /\ disk.lease # None
    /\ Send(p, disk, Prepare("status", disk, disk.lease, None, 0), FALSE, FALSE)
    /\ UNCHANGED <<disk, retired, ends>>

\* Mutation: every call prepares a request of its own.
BeginEndAnew(p) ==
    /\ CanBegin(p)
    /\ ~ disk.ended
    /\ disk.lease # None
    /\ Cardinality(ends) < MaxEnds
    /\ LET request == Prepare("end", disk, disk.lease, None,
                              Cardinality(ends) + 1)
           s       == [disk EXCEPT !.pendingEnd = request, !.ending = TRUE]
       IN  /\ Persist(s)
           /\ Send(p, s, request, FALSE, FALSE)
           /\ ends' = ends \cup {request}

\* Mutation: the lease is retained where the exact request should be.
BeginEndRetainingLease(p) ==
    /\ CanBegin(p)
    /\ ~ disk.ended
    /\ disk.lease # None
    /\ disk.pendingEnd = None
    /\ Cardinality(ends) < MaxEnds
    /\ LET request == Prepare("end", disk, disk.lease, None,
                              Cardinality(ends) + 1)
           s       == [disk EXCEPT !.pendingEnd = disk.lease, !.ending = TRUE]
       IN  /\ Persist(s)
           /\ Send(p, s, request, FALSE, FALSE)
           /\ ends' = ends \cup {request}

\* endLocked with no end pending: the exact request is on disk before it is
\* sent for the first time.
BeginEnd(p) ==
    /\ CanBegin(p)
    /\ ~ disk.ended
    /\ disk.lease # None
    /\ disk.pendingEnd = None
    /\ Cardinality(ends) < MaxEnds
    /\ LET request == Prepare("end", disk, disk.lease, None,
                              Cardinality(ends) + 1)
           s       == [disk EXCEPT !.pendingEnd = request, !.ending = TRUE]
       IN  /\ Persist(s)
           /\ Send(p, s, request, FALSE, FALSE)
           /\ ends' = ends \cup {request}

\* endLocked with an end pending: the retained bytes go out again.
ResumeEnd(p) ==
    /\ CanBegin(p)
    /\ ~ disk.ended
    /\ disk.pendingEnd # None
    /\ Send(p, disk, disk.pendingEnd, FALSE, FALSE)
    /\ UNCHANGED <<disk, retired, ends>>

-----------------------------------------------------------------------------
(* The exchange.                                                           *)

\* The service takes the request and its answer is on its way.
Serve(p) ==
    /\ phase[p] = "sent"
    /\ \E o \in Outcomes(exchange[p].request) :
          /\ service' = o.service
          /\ exchange' = [exchange EXCEPT ![p].answer = o.answer]
    /\ phase' = [phase EXCEPT ![p] = "answered"]
    /\ UNCHANGED <<disk, memory, installationLock, bootstrapLock, stray,
                   retired, ends>>

\* A request whose sender has given up or stopped is served after all.
ServeStray ==
    \E request \in stray :
        /\ \E o \in Outcomes(request) : service' = o.service
        /\ stray' = stray \ {request}
        /\ UNCHANGED <<disk, memory, phase, exchange, installationLock,
                       bootstrapLock, retired, ends>>

\* Giving up on an unserved request may leave it under way.
Abandon(p) ==
    \/ UNCHANGED stray
    \/ /\ phase[p] = "sent"
       /\ Cardinality(stray) < MaxStray
       /\ stray' = stray \cup {exchange[p].request}

\* The operation returns or throws, and its gate is released.
Finish(p) ==
    /\ phase' = [phase EXCEPT ![p] = "ready"]
    /\ memory' = [memory EXCEPT ![p] = None]
    /\ exchange' = [exchange EXCEPT ![p] = NoExchange]
    /\ installationLock' = None
    /\ UNCHANGED <<service, bootstrapLock, ends>>

\* Client::send: an attempt failed, before or after the service took the
\* request, and the same bytes go out again.
Resend(p) ==
    /\ phase[p] \in {"sent", "answered"}
    /\ phase' = [phase EXCEPT ![p] = "sent"]
    /\ exchange' = [exchange EXCEPT ![p].answer = None]
    /\ Abandon(p)
    /\ UNCHANGED <<service, disk, memory, installationLock, bootstrapLock,
                   retired, ends>>

\* Every transport attempt failed, before or after the service took the
\* request: scheduleRetry saves the state as it is, if the save succeeds.
TransportFailure(p) ==
    /\ phase[p] \in {"sent", "answered"}
    /\ Persist(memory[p]) \/ UNCHANGED <<disk, retired>>
    /\ Abandon(p)
    /\ Finish(p)

Saves(p) ==
    LET x == exchange[p]
    IN  IF x.request.endpoint = "end"
        THEN EndSaves(memory[p], x.request, x.answer)
        ELSE ExecuteSaves(memory[p], disk, x.request, x.answer,
                          x.freshAuthorization, x.forgetMissingKey)

\* The answer is processed: the file is left in the last state saved, or, if
\* a save fails or the process stops in between, in an earlier one.
Receive(p) ==
    /\ phase[p] = "answered"
    /\ \/ \E s \in Saves(p) : Persist(s)
       \/ UNCHANGED <<disk, retired>>
    /\ UNCHANGED stray
    /\ Finish(p)

\* The process stops; the system releases the locks it held.
Crash(p) ==
    /\ phase[p] # "closed"
    /\ phase' = [phase EXCEPT ![p] = "closed"]
    /\ memory' = [memory EXCEPT ![p] = None]
    /\ exchange' = [exchange EXCEPT ![p] = NoExchange]
    /\ installationLock' = IF installationLock = p THEN None ELSE installationLock
    /\ bootstrapLock' = IF bootstrapLock = p THEN None ELSE bootstrapLock
    /\ Abandon(p)
    /\ UNCHANGED <<service, disk, retired, ends>>

ServiceStep ==
    /\ ServiceNext
    /\ UNCHANGED <<disk, memory, phase, exchange, installationLock,
                   bootstrapLock, stray, retired, ends>>

Operation(p) ==
    \/ \E k \in Keys : AuthorizeWithKey(p, k) \/ AuthorizeWithStoredKey(p, k)
    \/ AuthorizeWithAccount(p)
    \/ RenewIfDue(p)
    \/ SynchronizeStatus(p)
    \/ BeginEnd(p)
    \/ ResumeEnd(p)

Next ==
    \/ ServiceStep
    \/ ServeStray
    \/ \E p \in Procs :
          \/ OpenLoad(p)
          \/ OpenPersist(p)
          \/ Operation(p)
          \/ Serve(p)
          \/ Resend(p)
          \/ TransportFailure(p)
          \/ Receive(p)
          \/ Crash(p)

Spec == Init /\ [][Next]_vars

-----------------------------------------------------------------------------
(* Type correctness.                                                       *)

(***************************************************************************)
(* The file, every process's working state and every message have the      *)
(* shape the code's types give them.                                       *)
(***************************************************************************)
TypeOK ==
    /\ service \in Service
    /\ disk \in State \cup {None}
    /\ memory \in [Procs -> State \cup {None}]
    /\ phase \in [Procs -> Phase]
    /\ exchange \in [Procs -> Exchange \cup {NoExchange}]
    /\ installationLock \in Procs \cup {None}
    /\ bootstrapLock \in Procs \cup {None}
    /\ stray \in SUBSET PreparedRequest
    /\ retired \in SUBSET Nat
    /\ ends \in SUBSET PreparedRequest
    /\ IsFiniteSet(ends)

-----------------------------------------------------------------------------
(* Safety.                                                                 *)

(***************************************************************************)
(* Whatever was saved last can be loaded: no answer accept lets through,   *)
(* no partial sequence of saves and no crash leaves a file validateLoaded  *)
(* or verifyRuntime refuses, which would lock the user out for good since  *)
(* every operation, forget included, reloads first.                        *)
(***************************************************************************)
SavedStateReloads == disk # None => Reloads(disk)

(***************************************************************************)
(* An installation that was ever authorized holds its epoch's lease, or a  *)
(* record that it ended, or a record that it was revoked, and only one of  *)
(* these; an end is pending exactly while its retry material is kept.      *)
(***************************************************************************)
EpochAccountedFor ==
    disk # None =>
        /\ disk.authorizationId # 0 =>
              \/ disk.lease # None /\ ~ disk.ended /\ ~ disk.revoked
              \/ disk.lease = None /\ disk.ended # disk.revoked
        /\ disk.authorizationId = 0 => disk.lease = None
        /\ disk.ending = (disk.pendingEnd # None)

(***************************************************************************)
(* Once the file has recorded that an epoch is over (revoked, ended or     *)
(* replaced), no process ever finds its lease in the file again.           *)
(***************************************************************************)
RetiredStaysRetired == Held(disk) \cap retired = {}

(***************************************************************************)
(* Terminal flags are the service's word: the file says ended only of an   *)
(* epoch the service ended, and revoked only of one it revoked or whose    *)
(* generation it outgrew, or after it withdrew some signing key.           *)
(***************************************************************************)
TerminalIsServersWord ==
    disk # None =>
        /\ disk.ended =>
              service.grants[disk.authorizationId].state = "ended"
        /\ disk.revoked =>
              \/ service.grants[disk.authorizationId].state = "revoked"
              \/ service.grants[disk.authorizationId].minimumGeneration
                    > disk.highestGeneration
              \/ service.revokedSigningKeyIds # {}

(***************************************************************************)
(* Retries of an end are exact: however often it is interrupted, crashes   *)
(* or is retried by another process, an epoch has a single end request.    *)
(***************************************************************************)
ExactEndRetry ==
    \A e, f \in ends :
        e.presentedLease.authorizationId = f.presentedLease.authorizationId
            => e = f

\* p's signed answer passes every check the client makes of it.
Accepts(p) ==
    LET x == exchange[p]
    IN  /\ Verified(memory[p], x.request, x.answer)
        /\ Acceptable(memory[p], x.request, x.answer, x.freshAuthorization)

(***************************************************************************)
(* An honest service is never refused: the signed answer to an authorize,  *)
(* renew or status request, whatever the service did meanwhile, passes the *)
(* rollback and key-history checks of process and accept.                  *)
(***************************************************************************)
FreshAnswersAccepted ==
    \A p \in Procs :
        /\ phase[p] = "answered"
        /\ exchange[p].answer.framed
        /\ exchange[p].request.endpoint # "end"
        => Accepts(p)

(***************************************************************************)
(* The same for the exact retry of a pending end.                          *)
(***************************************************************************)
EndAnswersAccepted ==
    \A p \in Procs :
        /\ phase[p] = "answered"
        /\ exchange[p].answer.framed
        /\ exchange[p].request.endpoint = "end"
        => Accepts(p)

(***************************************************************************)
(* The high-water marks on disk never fall: the status and keyset          *)
(* sequences for the life of the installation, the generations within an   *)
(* epoch.                                                                  *)
(***************************************************************************)
HighWaterNeverFalls ==
    [][disk # None =>
         /\ disk' # None
         /\ disk'.statusSequence >= disk.statusSequence
         /\ disk'.keysetSequence >= disk.keysetSequence
         /\ disk'.authorizationId >= disk.authorizationId
         /\ disk'.authorizationId = disk.authorizationId =>
               /\ disk'.highestGeneration >= disk.highestGeneration
               /\ disk'.minimumGeneration >= disk.minimumGeneration]_vars

(***************************************************************************)
(* A pending end leaves the file only when its epoch is known to be over   *)
(* or a new epoch replaces it, and until then keeps its exact bytes.       *)
(***************************************************************************)
TombstoneKept ==
    [][disk # None /\ disk.pendingEnd # None =>
         \/ disk'.pendingEnd = disk.pendingEnd
         \/ disk'.ended
         \/ disk'.revoked
         \/ disk'.authorizationId # disk.authorizationId]_vars

(***************************************************************************)
(* The retained license key is erased only after the service has signed    *)
(* that it does not know that key, never on an intermediary's word.        *)
(***************************************************************************)
RetainedKeyKept ==
    [][disk # None /\ disk.storedLicenseKey # None
         /\ disk'.storedLicenseKey = None
         => disk.storedLicenseKey \notin service.licenseKeys]_vars

-----------------------------------------------------------------------------
(* The abstract specification.                                             *)

Epoch(s) == IF s = None THEN 0 ELSE s.authorizationId

Stage(s) ==
    IF Epoch(s) = 0 THEN "none"
    ELSE IF s.revoked THEN "revoked"
    ELSE IF s.ended THEN "ended"
    ELSE IF s.ending THEN "ending"
    ELSE "held"

Lifecycle == INSTANCE LeaseLifecycle
                 WITH epoch <- Epoch(disk), stage <- Stage(disk)

(***************************************************************************)
(* The file implements the life cycle of a lease: whatever the processes,  *)
(* the service and their failures do, each save is one step of it.         *)
(***************************************************************************)
ImplementsLifecycle == Lifecycle!Spec
==============================================================================
