---------------------------- MODULE SessionState ----------------------------
(***************************************************************************)
(* The authorization state of one installation and the pure functions the  *)
(* session applies to it (AuthorizationSession::Impl and the verifying     *)
(* half of Client).                                                        *)
(*                                                                         *)
(* Tokens are abstracted to the claims the code compares.  An              *)
(* authorization epoch, a lease generation, a status sequence and a        *)
(* signing-key sequence are naturals; 0 is "none yet".  Signing key 0 is   *)
(* the pinned root and key n is introduced by the transition numbered n,   *)
(* which key n - 1 signs.  A revoked device and a revoked grant have the   *)
(* same effect in applyStatus and are one grant status here.  The time     *)
(* fields are the subject of LeaseClock: here the position of "now"        *)
(* relative to the lease is a parameter, the phase.                        *)
(***************************************************************************)
EXTENDS Naturals, Sequences

CONSTANTS
    None,            \* an absent optional
    Keys,            \* the license keys a user may enter
    MaxTransitions   \* the longest transition history validateLoaded takes

Grants       == {"active", "reclaim_pending", "ended", "revoked"}
Dispositions == {"unchanged", "revoked", "ended", "expired"}
Codes        == {"LEASE_RENEWED", "LEASE_ENDED", "LEASE_REVOKED",
                 "LEASE_RECLAIM_PENDING", "STALE_GENERATION",
                 "KEY_NOT_FOUND", "AUTH_MODE_IN_USE", "RATE_LIMITED"}
Endpoints    == {"authorize", "renew", "status", "end"}
Phases       == {"early", "due", "past", "untrusted"}

Lease    == [authorizationId : Nat, generation : Nat, signingKeyId : Nat]
Status   == [authorizationId : Nat, sequence : Nat, keysetSequence : Nat,
             minimumGeneration : Nat, grantStatus : Grants,
             revokedSigningKeyIds : SUBSET Nat]
Decision == [responseCode : Codes, leaseDisposition : Dispositions]

PreparedRequest ==
    [endpoint : Endpoints, presentedLease : Lease \cup {None},
     licenseKey : Keys \cup {None}, requestJti : Nat,
     keysetSequence : Nat, statusSequence : Nat]

State ==
    [authorizationId : Nat, storedLicenseKey : Keys \cup {None},
     keyTransitions : Seq(Nat), lease : Lease \cup {None},
     status : Status \cup {None}, statusSequence : Nat,
     keysetSequence : Nat, highestGeneration : Nat,
     minimumGeneration : Nat, ending : BOOLEAN, ended : BOOLEAN,
     revoked : BOOLEAN, serverExpired : BOOLEAN,
     pendingEnd : PreparedRequest \cup {None}]

ASSUME NoneAssumption ==
    /\ None \notin Keys \cup Lease \cup Status \cup Decision
    /\ None \notin PreparedRequest
    /\ None \notin State
    /\ None \notin Codes
    /\ MaxTransitions \in Nat

\* Impl::fresh: the state of an installation that has never been online.
Fresh ==
    [authorizationId |-> 0, storedLicenseKey |-> None,
     keyTransitions |-> <<>>, lease |-> None, status |-> None,
     statusSequence |-> 0, keysetSequence |-> 0, highestGeneration |-> 0,
     minimumGeneration |-> 0, ending |-> FALSE, ended |-> FALSE,
     revoked |-> FALSE, serverExpired |-> FALSE, pendingEnd |-> None]

\* parseState of a version 3 file: only the user's credential survives.
Migrated(licenseKey) == [Fresh EXCEPT !.storedLicenseKey = licenseKey]

-----------------------------------------------------------------------------
(* The key ring.                                                           *)

\* The signing keys a transition history makes trusted.
Ring(transitions) == {0} \cup {transitions[i] : i \in DOMAIN transitions}

\* restoreTrustedSigningKeyTransitions: the history derives from the pinned
\* root one signed step at a time and ends at the expected sequence.
Authentic(transitions, expectedSequence) ==
    /\ \A i \in DOMAIN transitions :
          /\ transitions[i] > IF i = 1 THEN 0 ELSE transitions[i - 1]
          /\ transitions[i] - 1
                \in Ring([j \in 1 .. i - 1 |-> transitions[j]])
    /\ expectedSequence =
          IF transitions = <<>> THEN 0 ELSE transitions[Len(transitions)]

-----------------------------------------------------------------------------
(* Loading.                                                                *)

\* parseState, validateLoaded, the signature check and verifyRuntime: what a
\* state must satisfy to survive reload.  The file is one this installation
\* serialized and signed, so the checks of its format and its signature hold.
Reloads(s) ==
    /\ Len(s.keyTransitions) <= MaxTransitions
    /\ ~ (s.ended /\ s.revoked)
    /\ Authentic(s.keyTransitions, s.keysetSequence)
    /\ s.lease # None =>
          /\ s.lease.signingKeyId \in Ring(s.keyTransitions)
          /\ s.lease.generation = s.highestGeneration
          /\ s.lease.generation >= s.minimumGeneration
          /\ s.lease.authorizationId = s.authorizationId
    /\ s.status # None =>
          /\ s.status.sequence = s.statusSequence
          /\ s.status.keysetSequence <= s.keysetSequence
          /\ s.status.minimumGeneration = s.minimumGeneration
    /\ s.lease # None /\ s.status # None =>
          s.lease.authorizationId = s.status.authorizationId
    /\ s.ending => s.pendingEnd # None /\ s.lease # None

\* The name snapshot gives the state when the clock is in the given phase.
Snapshot(s, phase) ==
    IF s.ending THEN "ending"
    ELSE IF s.revoked THEN "inactive"
    ELSE IF s.ended THEN "ended"
    ELSE IF s.lease = None THEN "auth_denied"
    ELSE IF phase = "untrusted" THEN "clock_untrusted"
    ELSE IF s.serverExpired \/ phase = "past" THEN "expired"
    ELSE IF phase = "due" THEN "renewal_due"
    ELSE "authorized"

-----------------------------------------------------------------------------
(* Requests.                                                               *)

\* Mutation: requests start over from the pinned root.
PrepareFromRoot(endpoint, s, presented, licenseKey, jti) ==
    [endpoint |-> endpoint, presentedLease |-> presented,
     licenseKey |-> licenseKey, requestJti |-> jti,
     keysetSequence |-> 0, statusSequence |-> s.statusSequence]

\* Client::prepare: every request carries the high-water marks of the state.
Prepare(endpoint, s, presented, licenseKey, jti) ==
    [endpoint |-> endpoint, presentedLease |-> presented,
     licenseKey |-> licenseKey, requestJti |-> jti,
     keysetSequence |-> s.keysetSequence,
     statusSequence |-> s.statusSequence]

-----------------------------------------------------------------------------
(* Responses.                                                              *)

\* What arrives from the service.  "busy" is 429 or 5xx.  An unframed
\* answer is a bare Problem Details body: it has no signed part.
Answer ==
    [http : {"success", "denied", "busy"}, framed : BOOLEAN,
     keyTransitions : Seq(Nat), lease : Lease \cup {None},
     status : Status \cup {None}, decision : Decision \cup {None},
     problem : Codes \cup {None}]

\* The keyset sequence Client::process derives from an answer.
ResponseKeyset(request, answer) ==
    LET n         == Len(answer.keyTransitions)
        delivered == IF n = 0 THEN request.keysetSequence
                              ELSE answer.keyTransitions[n]
    IN  IF answer.status # None /\ answer.status.keysetSequence > delivered
        THEN answer.status.keysetSequence ELSE delivered

\* Client::process: the checks an answer passes before the session sees it,
\* with the key ring of the state s.  An unframed refusal is passed on with
\* its problem only; an unframed success is an error.
Verified(s, request, answer) ==
    IF ~ answer.framed THEN answer.http # "success"
    ELSE
    LET ts   == answer.keyTransitions
        ring == Ring(s.keyTransitions) \cup Ring(ts)
        owner == IF answer.lease # None THEN answer.lease
                                        ELSE request.presentedLease
    IN  /\ \A i \in DOMAIN ts :
              /\ ts[i] > IF i = 1 THEN request.keysetSequence ELSE ts[i - 1]
              /\ ts[i] - 1 \in Ring(s.keyTransitions)
                                 \cup Ring([j \in 1 .. i - 1 |-> ts[j]])
        /\ request.presentedLease # None =>
              request.presentedLease.signingKeyId \in ring
        /\ answer.lease # None => answer.lease.signingKeyId \in ring
        /\ answer.status # None =>
              /\ owner # None =>
                    answer.status.authorizationId = owner.authorizationId
              /\ answer.status.sequence >= request.statusSequence
              /\ answer.status.keysetSequence >=
                    IF ts = <<>> THEN request.keysetSequence ELSE ts[Len(ts)]
        /\ answer.http = "success" => answer.status # None
        /\ answer.http # "success" =>
              answer.decision # None /\ answer.problem # None

IsStale(answer) ==
    answer.decision # None /\ answer.decision.responseCode = "STALE_GENERATION"

\* Mutation: a status must be newer than the one known, not as new.
AcceptableIfNewer(s, request, answer, freshAuthorization) ==
    /\ ResponseKeyset(request, answer) >= s.keysetSequence
    /\ answer.status # None => answer.status.sequence > s.statusSequence
    /\ ~ freshAuthorization /\ answer.lease # None =>
          answer.lease.generation >= s.highestGeneration
    /\ ~ IsStale(answer) =>
          Authentic(s.keyTransitions \o answer.keyTransitions,
                    ResponseKeyset(request, answer))

\* The guards of accept: none of them may fail if the answer is to be used.
Acceptable(s, request, answer, freshAuthorization) ==
    /\ ResponseKeyset(request, answer) >= s.keysetSequence
    /\ answer.status # None => answer.status.sequence >= s.statusSequence
    /\ ~ freshAuthorization /\ answer.lease # None =>
          answer.lease.generation >= s.highestGeneration
    /\ ~ IsStale(answer) =>
          Authentic(s.keyTransitions \o answer.keyTransitions,
                    ResponseKeyset(request, answer))

-----------------------------------------------------------------------------
(* The effect of an accepted response.                                     *)

\* Mutation: the end stays marked as pending when its material goes.
RetireStillEnding(s, isRevoked) ==
    [s EXCEPT !.revoked = isRevoked, !.ended = ~ isRevoked, !.lease = None,
              !.pendingEnd = None]

\* Mutation: the high-water marks go with the lease.
RetireResettingMarks(s, isRevoked) ==
    [s EXCEPT !.revoked = isRevoked, !.ended = ~ isRevoked, !.lease = None,
              !.pendingEnd = None, !.ending = FALSE,
              !.highestGeneration = 0, !.minimumGeneration = 0]

\* The terminal assignments shared by applyStatus, applyDecision and
\* endLocked: the lease and the retry material go.
Retire(s, isRevoked) ==
    [s EXCEPT !.revoked = isRevoked, !.ended = ~ isRevoked, !.lease = None,
              !.pendingEnd = None, !.ending = FALSE]

ApplyStatus(s, status) ==
    IF s.lease = None THEN s
    ELSE IF \/ status.grantStatus = "revoked"
            \/ status.minimumGeneration > s.lease.generation
            \/ s.lease.signingKeyId \in status.revokedSigningKeyIds
         THEN Retire(s, TRUE)
    ELSE IF status.grantStatus = "ended" THEN Retire(s, FALSE)
    ELSE IF status.grantStatus = "reclaim_pending"
         THEN [s EXCEPT !.serverExpired = TRUE]
    ELSE s

ApplyDecision(s, decision) ==
    IF decision.leaseDisposition = "revoked" THEN Retire(s, TRUE)
    ELSE IF decision.leaseDisposition = "ended" THEN Retire(s, FALSE)
    ELSE IF decision.leaseDisposition = "expired"
         THEN [s EXCEPT !.serverExpired = TRUE]
    ELSE s

\* Mutation: the old epoch's terminal flags survive into the new one.
NewEpochKeepingFlags(s, lease) ==
    [s EXCEPT !.ending = FALSE, !.pendingEnd = None, !.status = None,
              !.minimumGeneration = 0,
              !.highestGeneration = lease.generation,
              !.authorizationId = lease.authorizationId]

\* A signed /authorize lease opens a new epoch: the terminal flags and the
\* generation marks of the old one are dropped.
NewEpoch(s, lease) ==
    [s EXCEPT !.ending = FALSE, !.ended = FALSE, !.revoked = FALSE,
              !.pendingEnd = None, !.status = None, !.minimumGeneration = 0,
              !.highestGeneration = lease.generation,
              !.authorizationId = lease.authorizationId]

\* Mutation: a renewed lease does not raise the generation mark.
AdoptLeaseUnmarked(s, lease, freshAuthorization) ==
    LET base == IF freshAuthorization THEN NewEpoch(s, lease) ELSE s
    IN  [base EXCEPT !.lease = lease, !.serverExpired = FALSE]

AdoptLease(s, lease, freshAuthorization) ==
    LET base    == IF freshAuthorization THEN NewEpoch(s, lease) ELSE s
        highest == IF base.highestGeneration >= lease.generation
                   THEN base.highestGeneration ELSE lease.generation
    IN  [base EXCEPT !.lease = lease, !.highestGeneration = highest,
                     !.serverExpired = FALSE]

AdoptStatus(s, status) ==
    ApplyStatus([s EXCEPT !.status = status,
                          !.statusSequence = status.sequence,
                          !.minimumGeneration = status.minimumGeneration],
                status)

\* accept, for an Acceptable answer that is not stale.
Accept(s, request, answer, freshAuthorization) ==
    LET keyed  == [s EXCEPT !.keyTransitions = @ \o answer.keyTransitions,
                            !.keysetSequence = ResponseKeyset(request, answer)]
        leased == IF answer.lease = None THEN keyed
                  ELSE AdoptLease(keyed, answer.lease, freshAuthorization)
        known  == IF answer.status = None THEN leased
                  ELSE AdoptStatus(leased, answer.status)
    IN  IF answer.decision = None THEN known
        ELSE ApplyDecision(known, answer.decision)

-----------------------------------------------------------------------------
(* The states an operation saves once its answer is in, one after the      *)
(* other, and so the states the file may be left in when the operation is  *)
(* over.  An answer that is not Verified or not Acceptable raises an error *)
(* before the first save.  reload, for a stale generation, brings back     *)
(* what is on disk: the caller passes the reloaded state.                  *)

\* Mutation: the unsigned problem code is enough to erase the retained key.
ExecuteSavesHasty(s, reloaded, request, answer, freshAuthorization, forgetMissingKey) ==
    LET final == [s EXCEPT !.storedLicenseKey = None]
    IN  IF ~ Verified(s, request, answer) THEN {}
        ELSE IF forgetMissingKey /\ answer.problem = "KEY_NOT_FOUND" THEN {final}
        ELSE {s}

\* execute: accept, then the erasure of a credential the service signed
\* away, then the retry schedule of a busy service.
ExecuteSaves(s, reloaded, request, answer, freshAuthorization, forgetMissingKey) ==
    LET signed   == \/ answer.lease # None
                    \/ answer.status # None
                    \/ answer.decision # None
        missing  == /\ forgetMissingKey /\ answer.decision # None
                    /\ answer.decision.responseCode = "KEY_NOT_FOUND"
        accepted == IF ~ signed THEN s
                    ELSE IF IsStale(answer) THEN reloaded
                    ELSE Accept(s, request, answer, freshAuthorization)
        final    == IF missing THEN [accepted EXCEPT !.storedLicenseKey = None]
                    ELSE accepted
    IN  IF \/ ~ Verified(s, request, answer)
           \/ signed /\ ~ Acceptable(s, request, answer, freshAuthorization)
        THEN {}
        ELSE (IF signed /\ ~ IsStale(answer) THEN {accepted} ELSE {})
             \cup (IF missing \/ answer.http = "busy" THEN {final} ELSE {})

\* Mutation: a busy service counts as an acknowledged end.
EndSavesEndingOnBusy(s, request, answer) ==
    IF ~ Verified(s, request, answer) THEN {}
    ELSE IF answer.http = "busy"
         THEN {[s EXCEPT !.pendingEnd = None, !.ending = FALSE]}
    ELSE IF ~ Acceptable(s, request, answer, FALSE) \/ IsStale(answer) THEN {}
    ELSE {Accept(s, request, answer, FALSE)}

\* endLocked after sendPrepared: a busy service leaves the tombstone alone
\* and only the acknowledged end, or a revocation, removes it.
EndSaves(s, request, answer) ==
    LET accepted == Accept(s, request, answer, FALSE)
        done     == /\ answer.decision # None
                    /\ \/ answer.decision.responseCode = "LEASE_ENDED"
                       \/ answer.decision.leaseDisposition = "ended"
    IN  IF ~ Verified(s, request, answer) THEN {}
        ELSE IF answer.http = "busy" THEN {s}
        ELSE IF ~ Acceptable(s, request, answer, FALSE) \/ IsStale(answer)
             THEN {}
        ELSE IF accepted.revoked \/ ~ done THEN {accepted}
        ELSE {accepted, Retire(accepted, FALSE)}
=============================================================================
