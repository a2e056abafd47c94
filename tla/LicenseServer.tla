---------------------------- MODULE LicenseServer ----------------------------
(***************************************************************************)
(* The Nightflyer service, as the client's code uses it.  It is external:  *)
(* nothing here is claimed of the real service beyond what the client's    *)
(* verification demands of an honest one.                                  *)
(*                                                                         *)
(*   - authorize issues a new epoch at generation 1 and ends the previous  *)
(*     one, renew advances the generation, end is idempotent;              *)
(*   - an answer carries the key transitions after the keyset sequence of  *)
(*     the request, and a status at the service's current sequence;        *)
(*   - a refused authorize has no presented lease and carries no status;   *)
(*   - an intermediary may answer with a bare problem body of any code.    *)
(*                                                                         *)
(* Between requests the service revokes, ends or reclaims the grant,       *)
(* raises the minimum generation, rotates or revokes a signing key and     *)
(* deletes a license key.                                                  *)
(***************************************************************************)
EXTENDS SessionState

CONSTANTS
    MaxAuthorizations,   \* bound on the epochs the service issues
    MaxGeneration,       \* bound on the generations of one epoch
    MaxKeyset            \* bound on signing-key rotations

ASSUME ServerBounds ==
    /\ MaxAuthorizations \in Nat
    /\ MaxGeneration \in Nat \ {0}
    /\ MaxKeyset \in Nat
    /\ MaxKeyset <= MaxTransitions

VARIABLE service

Grant == [state : Grants, generation : Nat, minimumGeneration : Nat]

Service ==
    [grants : Seq(Grant), sequence : Nat, keysetSequence : 0 .. MaxKeyset,
     revokedSigningKeyIds : SUBSET Nat, licenseKeys : SUBSET Keys]

ServiceInit ==
    service = [grants |-> <<>>, sequence |-> 0, keysetSequence |-> 0,
               revokedSigningKeyIds |-> {}, licenseKeys |-> Keys]

-----------------------------------------------------------------------------
(* Answers.                                                                *)

\* The grant of an epoch, with the signing keys it can no longer rest on.
IsCurrent(s, lease) ==
    LET g == s.grants[lease.authorizationId]
    IN  /\ g.state # "revoked"
        /\ lease.generation >= g.minimumGeneration
        /\ lease.signingKeyId \notin s.revokedSigningKeyIds

LeaseOf(s, a) ==
    [authorizationId |-> a, generation |-> s.grants[a].generation,
     signingKeyId |-> s.keysetSequence]

StatusOf(s, a) ==
    [authorizationId |-> a, sequence |-> s.sequence,
     keysetSequence |-> s.keysetSequence,
     minimumGeneration |-> s.grants[a].minimumGeneration,
     grantStatus |-> s.grants[a].state,
     revokedSigningKeyIds |-> s.revokedSigningKeyIds]

\* The transitions a client at the request's keyset sequence is missing.
MissingTransitions(s, request) ==
    [i \in 1 .. s.keysetSequence - request.keysetSequence |->
        request.keysetSequence + i]

Success(s, request, lease, a, decision) ==
    [http |-> "success", framed |-> TRUE,
     keyTransitions |-> MissingTransitions(s, request), lease |-> lease,
     status |-> StatusOf(s, a), decision |-> decision, problem |-> None]

Verdict(code, disposition) ==
    [responseCode |-> code, leaseDisposition |-> disposition]

\* A framed refusal; its status is about the presented lease, if any.
Refusal(http, s, request, code, disposition) ==
    [http |-> http, framed |-> TRUE,
     keyTransitions |-> MissingTransitions(s, request), lease |-> None,
     status |-> IF request.presentedLease = None THEN None
                ELSE StatusOf(s, request.presentedLease.authorizationId),
     decision |-> Verdict(code, disposition), problem |-> code]

Unframed(http, code) ==
    [http |-> http, framed |-> FALSE, keyTransitions |-> <<>>, lease |-> None,
     status |-> None, decision |-> None, problem |-> code]

Outcome(s, answer) == [service |-> s, answer |-> answer]

\* A refusal that leaves the service as it is.
Refuses(request, code, disposition) ==
    Outcome(service, Refusal("denied", service, request, code, disposition))

WithGrant(s, a, grant) ==
    [s EXCEPT !.grants = [@ EXCEPT ![a] = grant], !.sequence = @ + 1]

\* No answer about the lease itself: the service or something in front of
\* it is unavailable, or an intermediary invents a refusal.
Unavailable(request) ==
    {Outcome(service, Unframed("busy", "RATE_LIMITED")),
     Outcome(service, Unframed("denied", "KEY_NOT_FOUND")),
     Outcome(service,
        Refusal("busy", service, request, "RATE_LIMITED", "unchanged"))}

Authorized(request) ==
    LET a     == Len(service.grants) + 1
        ended == [b \in 1 .. a - 1 |->
                    [service.grants[b] EXCEPT
                        !.state = IF @ = "revoked" THEN @ ELSE "ended"]]
        new   == [state |-> "active", generation |-> 1, minimumGeneration |-> 1]
        next  == [service EXCEPT !.grants = Append(ended, new),
                                 !.sequence = @ + 1]
    IN  IF a > MaxAuthorizations THEN {}
        ELSE {Outcome(next, Success(next, request, LeaseOf(next, a), a, None))}

AuthorizeOutcomes(request) ==
    IF request.licenseKey \notin service.licenseKeys \cup {None}
    THEN {Refuses(request, "KEY_NOT_FOUND", "unchanged")}
    ELSE Authorized(request)
            \cup {Refuses(request, "AUTH_MODE_IN_USE", "unchanged")}

RenewOutcomes(request) ==
    LET lease == request.presentedLease
        a     == lease.authorizationId
        g     == service.grants[a]
        next  == [service EXCEPT !.grants[a].generation = @ + 1]
    IN  IF ~ IsCurrent(service, lease)
        THEN {Refuses(request, "LEASE_REVOKED", "revoked")}
        ELSE IF g.state = "ended"
        THEN {Refuses(request, "LEASE_ENDED", "ended")}
        ELSE IF lease.generation < g.generation
        THEN {Refuses(request, "STALE_GENERATION", "unchanged")}
        ELSE IF g.state = "reclaim_pending"
        THEN {Refuses(request, "LEASE_RECLAIM_PENDING", "expired")}
        ELSE IF g.generation >= MaxGeneration THEN {}
        ELSE {Outcome(next, Success(next, request, LeaseOf(next, a), a, None))}

StatusOutcomes(request) ==
    {Outcome(service, Success(service, request, None,
                              request.presentedLease.authorizationId, None))}

\* Ending is idempotent; a service may instead refuse to end through a lease
\* a later generation has replaced.
EndOutcomes(request) ==
    LET lease == request.presentedLease
        a     == lease.authorizationId
        g     == service.grants[a]
        next  == IF g.state = "ended" THEN service
                 ELSE WithGrant(service, a, [g EXCEPT !.state = "ended"])
    IN  IF g.state = "revoked"
        THEN {Refuses(request, "LEASE_REVOKED", "revoked")}
        ELSE {Outcome(next, Success(next, request, None, a,
                                    Verdict("LEASE_ENDED", "ended")))}
             \cup {o \in {Refuses(request, "STALE_GENERATION", "unchanged")} :
                     g.state # "ended" /\ lease.generation < g.generation}

Outcomes(request) ==
    Unavailable(request)
    \cup CASE request.endpoint = "authorize" -> AuthorizeOutcomes(request)
           [] request.endpoint = "renew"     -> RenewOutcomes(request)
           [] request.endpoint = "status"    -> StatusOutcomes(request)
           [] request.endpoint = "end"       -> EndOutcomes(request)

-----------------------------------------------------------------------------
(* What the service does between requests, to its newest grant.            *)

Newest == Len(service.grants)

ChangeGrant(from, to) ==
    /\ Newest > 0
    /\ service.grants[Newest].state \in from
    /\ service' = WithGrant(service, Newest,
                            [service.grants[Newest] EXCEPT !.state = to])

RevokeGrant  == ChangeGrant({"active", "reclaim_pending"}, "revoked")
EndGrant     == ChangeGrant({"active", "reclaim_pending"}, "ended")
ReclaimGrant == ChangeGrant({"active"}, "reclaim_pending")

RaiseMinimum ==
    /\ Newest > 0
    /\ service.grants[Newest].minimumGeneration < MaxGeneration
    /\ service' = WithGrant(service, Newest,
                     [service.grants[Newest] EXCEPT !.minimumGeneration = @ + 1])

RotateSigningKey ==
    /\ service.keysetSequence < MaxKeyset
    /\ service' = [service EXCEPT !.keysetSequence = @ + 1, !.sequence = @ + 1]

RevokeSigningKey ==
    \E kid \in 0 .. service.keysetSequence - 1 :
        /\ kid \notin service.revokedSigningKeyIds
        /\ service' = [service EXCEPT !.revokedSigningKeyIds = @ \cup {kid},
                                      !.sequence = @ + 1]

DeleteLicenseKey ==
    \E k \in service.licenseKeys :
        service' = [service EXCEPT !.licenseKeys = @ \ {k}]

ServiceNext ==
    \/ RevokeGrant
    \/ EndGrant
    \/ ReclaimGrant
    \/ RaiseMinimum
    \/ RotateSigningKey
    \/ RevokeSigningKey
    \/ DeleteLicenseKey
=============================================================================
