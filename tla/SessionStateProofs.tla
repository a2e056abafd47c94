-------------------------- MODULE SessionStateProofs --------------------------
(***************************************************************************)
(* Lemmas about the functions of SessionState: their types, and that what  *)
(* accept makes of a state that reloads is a state that reloads; about the *)
(* service: whatever it answers has the type of an answer and is Honest,   *)
(* and it takes nothing back; and about both: what accept records of such  *)
(* an answer the service knows of, what it saves never falls behind the    *)
(* state it started from, and an answer it should take it takes.           *)
(***************************************************************************)
EXTENDS LicenseServer, SequenceTheorems, TLAPS

LEMMA FreshType == Fresh \in State
  BY EmptySeq DEF Fresh, State

LEMMA RetireType ==
    ASSUME NEW s \in State, NEW isRevoked \in BOOLEAN
    PROVE  Retire(s, isRevoked) \in State
  BY DEF Retire, State

LEMMA ApplyDecisionType ==
    ASSUME NEW s \in State, NEW decision \in Decision
    PROVE  ApplyDecision(s, decision) \in State
  BY RetireType DEF ApplyDecision, State

LEMMA ApplyStatusType ==
    ASSUME NEW s \in State, NEW status \in Status
    PROVE  ApplyStatus(s, status) \in State
<1>1. [s EXCEPT !.serverExpired = TRUE] \in State
  BY DEF State
<1> QED
  BY <1>1, RetireType DEF ApplyStatus

LEMMA AdoptStatusType ==
    ASSUME NEW s \in State, NEW status \in Status
    PROVE  AdoptStatus(s, status) \in State
<1> DEFINE t == [s EXCEPT !.status = status,
                          !.statusSequence = status.sequence,
                          !.minimumGeneration = status.minimumGeneration]
<1>1. t \in State
  BY DEF State, Status
<1> QED
  BY <1>1, ApplyStatusType DEF AdoptStatus

\* A new epoch keeps the retained key.
LEMMA NewEpochType ==
    ASSUME NEW s \in State, NEW lease \in Lease
    PROVE  /\ NewEpoch(s, lease) \in State
           /\ NewEpoch(s, lease).storedLicenseKey = s.storedLicenseKey
<1>1. lease.generation \in Nat /\ lease.authorizationId \in Nat
  BY DEF Lease
<1> QED
  BY <1>1 DEF NewEpoch, State

LEMMA AdoptLeaseType ==
    ASSUME NEW s \in State, NEW lease \in Lease, NEW fresh \in BOOLEAN
    PROVE  AdoptLease(s, lease, fresh) \in State
<1>1. NewEpoch(s, lease) \in State
  BY DEF NewEpoch, State, Lease
<1>2. ASSUME NEW base \in State, NEW highest \in Nat
      PROVE  [base EXCEPT !.lease = lease, !.highestGeneration = highest,
                          !.serverExpired = FALSE] \in State
  BY DEF State
<1> DEFINE base    == IF fresh THEN NewEpoch(s, lease) ELSE s
           highest == IF base.highestGeneration >= lease.generation
                      THEN base.highestGeneration ELSE lease.generation
<1>3. base \in State
  BY <1>1
<1>4. highest \in Nat
  BY <1>3 DEF State, Lease
<1> QED
  BY <1>2, <1>3, <1>4 DEF AdoptLease

LEMMA ResponseKeysetType ==
    ASSUME NEW request \in PreparedRequest, NEW answer \in Answer
    PROVE  ResponseKeyset(request, answer) \in Nat
  BY LenProperties, ElementOfSeq
     DEF ResponseKeyset, PreparedRequest, Answer, Status

LEMMA AcceptType ==
    ASSUME NEW s \in State, NEW request \in PreparedRequest,
           NEW answer \in Answer, NEW fresh \in BOOLEAN
    PROVE  Accept(s, request, answer, fresh) \in State
<1> DEFINE K      == ResponseKeyset(request, answer)
           ts     == s.keyTransitions \o answer.keyTransitions
           keyed  == [s EXCEPT !.keyTransitions = @ \o answer.keyTransitions,
                               !.keysetSequence = K]
           leased == IF answer.lease = None THEN keyed
                     ELSE AdoptLease(keyed, answer.lease, fresh)
           known  == IF answer.status = None THEN leased
                     ELSE AdoptStatus(leased, answer.status)
<1>1. ts \in Seq(Nat)
  BY ConcatProperties DEF State, Answer
<1>2. K \in Nat
  BY ResponseKeysetType
<1>3. keyed \in State
  <2>1. keyed = [s EXCEPT !.keyTransitions = ts, !.keysetSequence = K]
    BY DEF State
  <2> HIDE DEF keyed, ts, K
  <2> QED
    BY <1>1, <1>2, <2>1 DEF State
<1>4. leased \in State
  <2>1. answer.lease # None => answer.lease \in Lease
    BY DEF Answer
  <2> QED
    BY <1>3, <2>1, AdoptLeaseType
<1>5. known \in State
  <2>1. answer.status # None => answer.status \in Status
    BY DEF Answer
  <2> QED
    BY <1>4, <2>1, AdoptStatusType
<1>6. answer.decision # None => answer.decision \in Decision
  BY DEF Answer
<1> QED
  BY <1>5, <1>6, ApplyDecisionType DEF Accept

-----------------------------------------------------------------------------
(* Reloading.                                                              *)

LEMMA RetireReloads ==
    ASSUME NEW s \in State, Reloads(s), NEW isRevoked \in BOOLEAN
    PROVE  Reloads(Retire(s, isRevoked))
  BY DEF Reloads, Retire, State

LEMMA ApplyDecisionReloads ==
    ASSUME NEW s \in State, Reloads(s), NEW decision \in Decision
    PROVE  Reloads(ApplyDecision(s, decision))
<1>1. Reloads([s EXCEPT !.serverExpired = TRUE])
  BY DEF Reloads, State
<1> QED
  BY <1>1, RetireReloads DEF ApplyDecision

\* A status about the held lease leaves a state that reloads: a minimum the
\* lease does not reach retires it.
LEMMA AdoptStatusReloads ==
    ASSUME NEW s \in State, Reloads(s), NEW status \in Status,
           s.lease # None =>
              s.lease.authorizationId = status.authorizationId,
           status.keysetSequence <= s.keysetSequence
    PROVE  Reloads(AdoptStatus(s, status))
<1> DEFINE t == [s EXCEPT !.status = status,
                          !.statusSequence = status.sequence,
                          !.minimumGeneration = status.minimumGeneration]
<1>1. t \in State
  BY DEF State, Status
<1>2. /\ t.status = status /\ t.statusSequence = status.sequence
      /\ t.minimumGeneration = status.minimumGeneration
      /\ t.keyTransitions = s.keyTransitions
      /\ t.keysetSequence = s.keysetSequence
      /\ t.lease = s.lease /\ t.highestGeneration = s.highestGeneration
      /\ t.authorizationId = s.authorizationId
      /\ t.ended = s.ended /\ t.revoked = s.revoked
      /\ t.ending = s.ending /\ t.pendingEnd = s.pendingEnd
  BY DEF State
<1>3. \A r \in BOOLEAN : Reloads(Retire(t, r))
  <2> SUFFICES ASSUME NEW r \in BOOLEAN PROVE Reloads(Retire(t, r))
    OBVIOUS
  <2> HIDE DEF t
  <2>1. /\ Retire(t, r).status = status
        /\ Retire(t, r).statusSequence = status.sequence
        /\ Retire(t, r).minimumGeneration = status.minimumGeneration
        /\ Retire(t, r).keyTransitions = s.keyTransitions
        /\ Retire(t, r).keysetSequence = s.keysetSequence
        /\ Retire(t, r).lease = None /\ Retire(t, r).ending = FALSE
        /\ ~ (Retire(t, r).ended /\ Retire(t, r).revoked)
    BY <1>1, <1>2 DEF Retire, State
  <2> QED
    BY <2>1, <1>2 DEF Reloads
<1>4. CASE t.lease = None \/ t.lease.generation >= status.minimumGeneration
  <2>1. Reloads(t)
    <3> HIDE DEF t
    <3> QED
      BY <1>2, <1>4, NoneAssumption DEF Reloads
  <2>2. Reloads([t EXCEPT !.serverExpired = TRUE])
    <3> HIDE DEF t
    <3> QED
      BY <1>1, <2>1 DEF Reloads, State
  <2> QED
    BY <1>3, <2>1, <2>2 DEF AdoptStatus, ApplyStatus
<1>5. CASE ~ (t.lease = None \/ t.lease.generation >= status.minimumGeneration)
  <2>1. t.lease # None /\ status.minimumGeneration > t.lease.generation
    <3> HIDE DEF t
    <3>1. t.lease # None /\ t.lease \in Lease
      BY <1>1, <1>5 DEF State
    <3>2. t.lease.generation \in Nat /\ status.minimumGeneration \in Nat
      BY <3>1 DEF Lease, Status
    <3> QED
      BY <1>5, <3>1, <3>2
  <2>2. AdoptStatus(s, status) = Retire(t, TRUE)
    BY <2>1 DEF AdoptStatus, ApplyStatus
  <2> QED
    BY <1>3, <2>2
<1> QED
  BY <1>4, <1>5

-----------------------------------------------------------------------------
(* The transition history.                                                 *)

\* Exactly the transitions 1, 2, ..., k, in order.
Chained(transitions, k) ==
    /\ Len(transitions) = k
    /\ \A i \in 1 .. k : transitions[i] = i

LEMMA AuthenticStep ==
    ASSUME NEW all \in Seq(Nat), NEW K, Authentic(all, K),
           NEW k \in Nat, k + 1 \in DOMAIN all
    PROVE  /\ all[k + 1] > IF k = 0 THEN 0 ELSE all[k]
           /\ all[k + 1] - 1 \in Ring([j \in 1 .. k |-> all[j]])
<1> DEFINE P(i) == /\ all[i] > IF i = 1 THEN 0 ELSE all[i - 1]
                   /\ all[i] - 1 \in Ring([j \in 1 .. i - 1 |-> all[j]])
<1>1. P(k + 1)
  <2>1. \A i \in DOMAIN all : P(i)
    BY DEF Authentic
  <2> QED
    BY <2>1
<1>2. k + 1 - 1 = k /\ (k + 1 = 1 <=> k = 0)
  OBVIOUS
<1>3. 1 .. k + 1 - 1 = 1 .. k
  BY <1>2
<1> QED
  BY <1>1, <1>2, <1>3

\* Consecutive transitions that extend a complete history to an authentic
\* one begin right after it, so the longer history is complete as well.
LEMMA ChainedConcat ==
    ASSUME NEW ts \in Seq(Nat), NEW k \in Nat, Chained(ts, k),
           NEW us \in Seq(Nat), NEW n \in Nat,
           \A i \in 1 .. Len(us) : us[i] = n + i,
           NEW K \in Nat, Authentic(ts \o us, K)
    PROVE  Chained(ts \o us, K)
<1> DEFINE all == ts \o us
<1>1. /\ all \in Seq(Nat)
      /\ Len(all) = k + Len(us)
      /\ \A i \in 1 .. k + Len(us) :
            all[i] = IF i <= k THEN ts[i] ELSE us[i - k]
  BY ConcatProperties DEF Chained
<1>2. DOMAIN all = 1 .. k + Len(us) /\ Len(us) \in Nat
  BY <1>1, LenProperties
<1>3. \A i \in 1 .. k : all[i] = i
  BY <1>1, <1>2 DEF Chained
<1>4. \A i \in 1 .. Len(us) : all[k + i] = n + i
  <2> SUFFICES ASSUME NEW i \in 1 .. Len(us) PROVE all[k + i] = n + i
    OBVIOUS
  <2>1. k + i \in 1 .. k + Len(us) /\ ~ (k + i <= k) /\ k + i - k = i
    BY <1>2
  <2> QED
    BY <1>1, <2>1
<1>5. CASE Len(us) = 0
  <2>1. K = IF all = <<>> THEN 0 ELSE all[Len(all)]
    BY DEF Authentic
  <2>2. all = <<>> <=> Len(all) = 0
    BY <1>1, EmptySeq
  <2>3. K = k
    <3> HIDE DEF all
    <3> QED
      BY <1>1, <1>2, <1>3, <1>5, <2>1, <2>2
  <2> QED
    BY <1>1, <1>3, <1>5, <2>3 DEF Chained
<1>6. CASE Len(us) > 0
  <2>1. k + 1 \in DOMAIN all /\ all[k + 1] = n + 1
    BY <1>2, <1>4, <1>6
  <2>2. /\ all[k + 1] > IF k = 0 THEN 0 ELSE all[k]
        /\ all[k + 1] - 1 \in Ring([j \in 1 .. k |-> all[j]])
    BY <1>1, <2>1, AuthenticStep
  <2>3. n >= k
    <3> HIDE DEF all
    <3> QED
      BY <1>3, <2>1, <2>2
  <2>4. n \in 0 .. k
    <3> HIDE DEF all
    <3> DEFINE f == [j \in 1 .. k |-> all[j]]
    <3>1. n \in Ring(f)
      BY <2>1, <2>2
    <3>2. DOMAIN f = 1 .. k /\ \A j \in 1 .. k : f[j] = j
      BY <1>3
    <3> HIDE DEF f
    <3>3. n = 0 \/ \E j \in 1 .. k : n = j
      BY <3>1, <3>2 DEF Ring
    <3> QED
      BY <3>3
  <2>5. n = k
    BY <2>3, <2>4
  <2>6. \A i \in 1 .. k + Len(us) : all[i] = i
    <3> HIDE DEF all
    <3> SUFFICES ASSUME NEW i \in 1 .. k + Len(us)
                 PROVE  all[i] = i
      OBVIOUS
    <3>1. CASE i <= k
      BY <1>2, <1>3, <3>1
    <3>2. CASE i > k
      <4>1. i - k \in 1 .. Len(us) /\ k + (i - k) = i
        BY <1>2, <3>2
      <4> QED
        BY <1>4, <2>5, <4>1
    <3> QED
      BY <1>2, <3>1, <3>2
  <2>7. K = all[Len(all)]
    <3>1. all # <<>>
      BY <1>1, <1>2, <1>6, EmptySeq
    <3> QED
      BY <3>1 DEF Authentic
  <2>8. K = k + Len(us)
    <3> HIDE DEF all
    <3> QED
      BY <1>1, <1>2, <1>6, <2>6, <2>7
  <2> QED
    BY <1>1, <2>6, <2>8 DEF Chained
<1> QED
  BY <1>2, <1>5, <1>6

-----------------------------------------------------------------------------
(* What the inductive invariant says of one state, request and answer,     *)
(* when the service has issued n epochs.                                   *)

\* Only authorize presents no lease, and a presented lease was issued.
WellFormed(request, n) ==
    /\ request.endpoint = "authorize" <=> request.presentedLease = None
    /\ request.presentedLease # None =>
          request.presentedLease.authorizationId \in 1 .. n
    /\ request.keysetSequence <= MaxTransitions

\* The state reloads, its history of key transitions has no gap, and a
\* retained end request is about the lease the state holds.
Sound(s, n) ==
    /\ Reloads(s)
    /\ Chained(s.keyTransitions, s.keysetSequence)
    /\ s.lease # None => s.lease.authorizationId \in 1 .. n
    /\ s.pendingEnd # None =>
          /\ WellFormed(s.pendingEnd, n)
          /\ s.pendingEnd.endpoint = "end"
          /\ s.lease # None
          /\ s.lease.authorizationId
                = s.pendingEnd.presentedLease.authorizationId

\* An answer of the honest service to the request.
Honest(request, answer, n) ==
    /\ \A i \in 1 .. Len(answer.keyTransitions) :
          answer.keyTransitions[i] = request.keysetSequence + i
    /\ ResponseKeyset(request, answer) <= MaxTransitions
    /\ ~ answer.framed => answer.lease = None /\ answer.status = None
    /\ answer.lease # None =>
          /\ answer.lease.authorizationId \in 1 .. n
          /\ \/ request.endpoint = "authorize"
             \/ /\ request.endpoint = "renew"
                /\ answer.lease.authorizationId
                      = request.presentedLease.authorizationId
    /\ request.endpoint = "authorize" /\ answer.lease = None =>
          answer.status = None

\* The request belongs to the state the operation works on.
Belongs(request, s, freshAuthorization) ==
    /\ freshAuthorization <=> request.endpoint = "authorize"
    /\ ~ freshAuthorization =>
          /\ s.lease # None
          /\ s.lease.authorizationId = request.presentedLease.authorizationId

LEMMA RingConcat ==
    ASSUME NEW ts \in Seq(Nat), NEW us \in Seq(Nat)
    PROVE  Ring(ts) \cup Ring(us) \subseteq Ring(ts \o us)
<1> DEFINE all == ts \o us
<1>1. /\ DOMAIN ts = 1 .. Len(ts) /\ DOMAIN us = 1 .. Len(us)
      /\ Len(ts) \in Nat /\ Len(us) \in Nat
  BY LenProperties
<1>2. /\ DOMAIN all = 1 .. Len(ts) + Len(us)
      /\ \A i \in 1 .. Len(ts) + Len(us) :
            all[i] = IF i <= Len(ts) THEN ts[i] ELSE us[i - Len(ts)]
  <2>1. /\ all \in Seq(Nat)
        /\ Len(all) = Len(ts) + Len(us)
        /\ \A i \in 1 .. Len(ts) + Len(us) :
            all[i] = IF i <= Len(ts) THEN ts[i] ELSE us[i - Len(ts)]
    BY ConcatProperties
  <2>2. DOMAIN all = 1 .. Len(all)
    BY <2>1, LenProperties
  <2> QED
    BY <2>1, <2>2
<1> HIDE DEF all
<1>3. \A i \in DOMAIN ts : i \in DOMAIN all /\ all[i] = ts[i]
  BY <1>1, <1>2
<1>4. ASSUME NEW i \in DOMAIN us
      PROVE  Len(ts) + i \in DOMAIN all /\ all[Len(ts) + i] = us[i]
  <2>1. /\ Len(ts) + i \in 1 .. Len(ts) + Len(us)
        /\ ~ (Len(ts) + i <= Len(ts)) /\ Len(ts) + i - Len(ts) = i
    BY <1>1
  <2> QED
    BY <1>2, <2>1
<1> QED
  BY <1>3, <1>4 DEF Ring, all

\* The first stage of accept: the transitions the answer brings.
LEMMA KeyedSound ==
    ASSUME NEW s \in State, NEW n \in Nat, Sound(s, n),
           NEW us \in Seq(Nat), NEW K \in Nat,
           Authentic(s.keyTransitions \o us, K),
           Chained(s.keyTransitions \o us, K),
           K >= s.keysetSequence, K <= MaxTransitions
    PROVE  Sound([s EXCEPT !.keyTransitions = s.keyTransitions \o us,
                           !.keysetSequence = K], n)
<1> DEFINE all   == s.keyTransitions \o us
           keyed == [s EXCEPT !.keyTransitions = all, !.keysetSequence = K]
<1>1. s.keyTransitions \in Seq(Nat)
  BY DEF State
<1>2. Ring(s.keyTransitions) \subseteq Ring(all)
  BY <1>1, RingConcat
<1>3. Authentic(all, K) /\ Chained(all, K)
  OBVIOUS
<1> HIDE DEF all
<1>4. /\ keyed.keyTransitions = all /\ keyed.keysetSequence = K
      /\ keyed.lease = s.lease /\ keyed.status = s.status
      /\ keyed.highestGeneration = s.highestGeneration
      /\ keyed.minimumGeneration = s.minimumGeneration
      /\ keyed.authorizationId = s.authorizationId
      /\ keyed.statusSequence = s.statusSequence
      /\ keyed.ended = s.ended /\ keyed.revoked = s.revoked
      /\ keyed.ending = s.ending /\ keyed.pendingEnd = s.pendingEnd
  BY DEF State
<1>5. Len(all) <= MaxTransitions
  BY <1>3 DEF Chained
<1>6. s.status # None => s.status.keysetSequence <= K
  <2>1. s.status # None => s.status \in Status
    BY DEF State
  <2>2. s.status # None => /\ s.status.keysetSequence \in Nat
                           /\ s.status.keysetSequence <= s.keysetSequence
    BY <2>1 DEF Sound, Reloads, Status
  <2>3. s.keysetSequence \in Nat
    BY DEF State
  <2> QED
    BY <2>2, <2>3
<1> HIDE DEF keyed
<1>7. Reloads(keyed)
  BY <1>2, <1>3, <1>4, <1>5, <1>6 DEF Sound, Reloads
<1> QED
  BY <1>3, <1>4, <1>7 DEF Sound, keyed, all

LEMMA RetireSound ==
    ASSUME NEW s \in State, NEW n \in Nat, Sound(s, n), NEW r \in BOOLEAN
    PROVE  Sound(Retire(s, r), n)
<1>1. Reloads(Retire(s, r))
  BY RetireReloads DEF Sound
<1>2. /\ Retire(s, r).keyTransitions = s.keyTransitions
      /\ Retire(s, r).keysetSequence = s.keysetSequence
      /\ Retire(s, r).lease = None
      /\ Retire(s, r).pendingEnd = None
  BY DEF Retire, State
<1> QED
  BY <1>1, <1>2 DEF Sound

LEMMA AdoptLeaseSound ==
    ASSUME NEW s \in State, NEW n \in Nat, Sound(s, n),
           NEW lease \in Lease, NEW fresh \in BOOLEAN,
           lease.authorizationId \in 1 .. n,
           lease.signingKeyId \in Ring(s.keyTransitions),
           ~ fresh => /\ s.lease # None
                      /\ s.lease.authorizationId = lease.authorizationId
                      /\ lease.generation >= s.highestGeneration
    PROVE  Sound(AdoptLease(s, lease, fresh), n)
<1> DEFINE a == AdoptLease(s, lease, fresh)
<1>1. lease # None
  BY NoneAssumption
<1>2. CASE fresh
  <2>1. /\ a.keyTransitions = s.keyTransitions
        /\ a.keysetSequence = s.keysetSequence
        /\ a.lease = lease /\ a.highestGeneration = lease.generation
        /\ a.minimumGeneration = 0 /\ a.status = None
        /\ a.authorizationId = lease.authorizationId
        /\ a.ending = FALSE /\ a.ended = FALSE /\ a.revoked = FALSE
        /\ a.pendingEnd = None
    BY <1>2 DEF AdoptLease, NewEpoch, State, Lease
  <2>2. lease.generation \in Nat
    BY DEF Lease
  <2> HIDE DEF a
  <2>3. Reloads(a)
    BY <2>1, <2>2 DEF Reloads, Sound
  <2> QED
    BY <2>1, <2>3 DEF Sound, a
<1>3. CASE ~ fresh
  <2>1. /\ s.lease # None /\ s.lease \in Lease
        /\ s.lease.authorizationId = s.authorizationId
        /\ s.lease.generation = s.highestGeneration
        /\ s.lease.generation >= s.minimumGeneration
    BY <1>3 DEF Sound, Reloads, State
  <2>2. /\ lease.generation \in Nat /\ s.highestGeneration \in Nat
        /\ s.minimumGeneration \in Nat
        /\ lease.generation >= s.highestGeneration
    BY <1>3 DEF Lease, State
  <2>3. /\ a.keyTransitions = s.keyTransitions
        /\ a.keysetSequence = s.keysetSequence
        /\ a.lease = lease
        /\ a.highestGeneration =
              IF s.highestGeneration >= lease.generation
              THEN s.highestGeneration ELSE lease.generation
        /\ a.minimumGeneration = s.minimumGeneration /\ a.status = s.status
        /\ a.statusSequence = s.statusSequence
        /\ a.authorizationId = s.authorizationId
        /\ a.ending = s.ending /\ a.ended = s.ended /\ a.revoked = s.revoked
        /\ a.pendingEnd = s.pendingEnd
    BY <1>3 DEF AdoptLease, State
  <2>4. a.highestGeneration = lease.generation
    BY <2>2, <2>3
  <2>5. lease.generation >= s.minimumGeneration
    BY <2>1, <2>2
  <2> HIDE DEF a
  <2>6. Reloads(a)
    BY <1>1, <1>3, <2>1, <2>3, <2>4, <2>5 DEF Sound, Reloads
  <2> QED
    BY <1>1, <1>3, <2>1, <2>3, <2>6 DEF Sound, a
<1> QED
  BY <1>2, <1>3

LEMMA ApplyStatusFrame ==
    ASSUME NEW s \in State, NEW status \in Status
    PROVE  LET a == AdoptStatus(s, status)
           IN  /\ a.keyTransitions = s.keyTransitions
               /\ a.keysetSequence = s.keysetSequence
               /\ \/ a.lease = s.lease /\ a.pendingEnd = s.pendingEnd
                  \/ a.lease = None /\ a.pendingEnd = None
  BY DEF AdoptStatus, ApplyStatus, Retire, State, Status

LEMMA AdoptStatusSound ==
    ASSUME NEW s \in State, NEW n \in Nat, Sound(s, n), NEW status \in Status,
           s.lease # None =>
              s.lease.authorizationId = status.authorizationId,
           status.keysetSequence <= s.keysetSequence
    PROVE  Sound(AdoptStatus(s, status), n)
<1>1. Reloads(AdoptStatus(s, status))
  BY AdoptStatusReloads DEF Sound
<1> QED
  BY <1>1, ApplyStatusFrame DEF Sound

LEMMA ApplyDecisionSound ==
    ASSUME NEW s \in State, NEW n \in Nat, Sound(s, n), NEW decision \in Decision
    PROVE  Sound(ApplyDecision(s, decision), n)
<1> DEFINE t == [s EXCEPT !.serverExpired = TRUE]
<1>1. Sound(t, n)
  <2>1. /\ t.keyTransitions = s.keyTransitions
        /\ t.keysetSequence = s.keysetSequence
        /\ t.lease = s.lease /\ t.status = s.status
        /\ t.highestGeneration = s.highestGeneration
        /\ t.minimumGeneration = s.minimumGeneration
        /\ t.authorizationId = s.authorizationId
        /\ t.statusSequence = s.statusSequence
        /\ t.ended = s.ended /\ t.revoked = s.revoked
        /\ t.ending = s.ending /\ t.pendingEnd = s.pendingEnd
    BY DEF State
  <2> HIDE DEF t
  <2> QED
    BY <2>1 DEF Sound, Reloads
<1> QED
  BY <1>1, RetireSound DEF ApplyDecision

\* accept keeps a sound state sound: an honest answer to the state's own
\* request, once it passes process and the guards of accept, leaves nothing
\* the next reload would refuse.
LEMMA AcceptSound ==
    ASSUME NEW s \in State, NEW n \in Nat, Sound(s, n),
           NEW request \in PreparedRequest, NEW answer \in Answer,
           NEW fresh \in BOOLEAN,
           WellFormed(request, n), Belongs(request, s, fresh),
           Honest(request, answer, n),
           Verified(s, request, answer),
           Acceptable(s, request, answer, fresh), ~ IsStale(answer)
    PROVE  Sound(Accept(s, request, answer, fresh), n)
<1> DEFINE us     == answer.keyTransitions
           all    == s.keyTransitions \o us
           K      == ResponseKeyset(request, answer)
           keyed  == [s EXCEPT !.keyTransitions = all, !.keysetSequence = K]
           leased == IF answer.lease = None THEN keyed
                     ELSE AdoptLease(keyed, answer.lease, fresh)
           known  == IF answer.status = None THEN leased
                     ELSE AdoptStatus(leased, answer.status)
<1>1. /\ s.keyTransitions \in Seq(Nat) /\ us \in Seq(Nat)
      /\ s.keysetSequence \in Nat /\ request.keysetSequence \in Nat
      /\ answer.lease # None => answer.lease \in Lease
      /\ answer.status # None => answer.status \in Status
      /\ answer.decision # None => answer.decision \in Decision
      /\ answer.framed \in BOOLEAN
  BY DEF State, Answer, PreparedRequest
<1>2. K \in Nat
  BY ResponseKeysetType
<1>3. /\ Authentic(all, K) /\ K >= s.keysetSequence /\ K <= MaxTransitions
  BY DEF Acceptable, Honest
<1>4. Chained(all, K)
  <2>1. Chained(s.keyTransitions, s.keysetSequence)
    BY DEF Sound
  <2>2. \A i \in 1 .. Len(us) : us[i] = request.keysetSequence + i
    BY DEF Honest
  <2> HIDE DEF us, K
  <2> QED
    BY <1>1, <1>2, <1>3, <2>1, <2>2, ChainedConcat
<1>5. keyed \in State /\ Sound(keyed, n)
  <2>1. all \in Seq(Nat)
    BY <1>1, ConcatProperties
  <2>2. Sound(keyed, n)
    <3> HIDE DEF us, K
    <3> QED
      BY <1>1, <1>2, <1>3, <1>4, KeyedSound
  <2> HIDE DEF all, K
  <2> QED
    BY <1>2, <2>1, <2>2 DEF State
<1>6. Ring(s.keyTransitions) \cup Ring(us) \subseteq Ring(all)
  BY <1>1, RingConcat
<1>7. /\ keyed.keyTransitions = all /\ keyed.keysetSequence = K
      /\ keyed.lease = s.lease /\ keyed.highestGeneration = s.highestGeneration
  BY DEF State
<1>8. /\ leased \in State /\ Sound(leased, n) /\ leased.keysetSequence = K
      /\ answer.status # None =>
            (leased.lease # None =>
               leased.lease.authorizationId = answer.status.authorizationId)
  <2>1. CASE answer.lease = None
    <3>1. answer.status # None =>
             (s.lease # None =>
                s.lease.authorizationId = answer.status.authorizationId)
      BY <1>1, <2>1 DEF Honest, Verified, Belongs, WellFormed
    <3>2. leased = keyed
      BY <2>1
    <3>3. answer.status # None =>
             (leased.lease # None =>
                leased.lease.authorizationId = answer.status.authorizationId)
      BY <1>7, <3>1, <3>2
    <3>4. leased \in State /\ Sound(leased, n) /\ leased.keysetSequence = K
      BY <1>5, <1>7, <3>2
    <3> QED
      BY <3>3, <3>4
  <2>2. CASE answer.lease # None
    <3>1. answer.framed
      BY <1>1, <2>2 DEF Honest
    <3>2. answer.lease.signingKeyId \in Ring(all)
      BY <1>6, <2>2, <3>1 DEF Verified
    <3>3. answer.lease.authorizationId \in 1 .. n
      BY <2>2 DEF Honest
    <3>4. ~ fresh => /\ s.lease # None
                     /\ s.lease.authorizationId = answer.lease.authorizationId
                     /\ answer.lease.generation >= s.highestGeneration
      BY <2>2 DEF Honest, Belongs, Acceptable
    <3>5. leased = AdoptLease(keyed, answer.lease, fresh)
      BY <2>2
    <3>6. leased \in State /\ Sound(leased, n)
      <4> HIDE DEF all, keyed, leased
      <4> QED
        BY <1>1, <1>5, <1>7, <2>2, <3>2, <3>3, <3>4, <3>5,
           AdoptLeaseType, AdoptLeaseSound
    <3>7. leased.lease = answer.lease /\ leased.keysetSequence = K
      <4> HIDE DEF all, keyed, leased, K
      <4> QED
        BY <1>5, <1>7, <3>5 DEF AdoptLease, NewEpoch, State
    <3>8. answer.status # None =>
             answer.lease.authorizationId = answer.status.authorizationId
      BY <2>2, <3>1 DEF Verified
    <3> QED
      BY <3>6, <3>7, <3>8
  <2> QED
    BY <2>1, <2>2
<1>9. answer.status # None => answer.status.keysetSequence <= K
  <2>1. Len(us) = 0 \/ us[Len(us)] \in Nat
    BY <1>1, LenProperties, ElementOfSeq
  <2>2. answer.status # None => answer.status.keysetSequence \in Nat
    BY <1>1 DEF Status
  <2> QED
    BY <1>1, <2>1, <2>2 DEF ResponseKeyset
<1>10. known \in State /\ Sound(known, n)
  <2> HIDE DEF leased, K
  <2> QED
    BY <1>1, <1>8, <1>9, AdoptStatusType, AdoptStatusSound
<1>11. Accept(s, request, answer, fresh) =
          IF answer.decision = None THEN known
          ELSE ApplyDecision(known, answer.decision)
  <2>1. [s EXCEPT !.keyTransitions = @ \o answer.keyTransitions,
                  !.keysetSequence = ResponseKeyset(request, answer)] = keyed
    BY DEF State
  <2> QED
    BY <2>1 DEF Accept
<1> HIDE DEF known
<1> QED
  BY <1>1, <1>10, <1>11, ApplyDecisionSound

\* Everything execute saves is sound, whichever save the file is left at.
LEMMA ExecuteSavesSound ==
    ASSUME NEW s \in State, NEW reloaded \in State, NEW n \in Nat,
           Sound(s, n), Sound(reloaded, n),
           NEW request \in PreparedRequest, NEW answer \in Answer,
           NEW fresh \in BOOLEAN, NEW forget \in BOOLEAN,
           WellFormed(request, n), Belongs(request, s, fresh),
           Honest(request, answer, n),
           NEW t \in ExecuteSaves(s, reloaded, request, answer, fresh, forget)
    PROVE  t \in State /\ Sound(t, n)
<1> DEFINE signed   == \/ answer.lease # None
                       \/ answer.status # None
                       \/ answer.decision # None
           accepted == IF ~ signed THEN s
                       ELSE IF IsStale(answer) THEN reloaded
                       ELSE Accept(s, request, answer, fresh)
           final    == [accepted EXCEPT !.storedLicenseKey = None]
<1>1. /\ Verified(s, request, answer)
      /\ signed => Acceptable(s, request, answer, fresh)
      /\ t = accepted \/ t = final
  BY DEF ExecuteSaves
<1>2. accepted \in State /\ Sound(accepted, n)
  <2>1. CASE ~ signed \/ IsStale(answer)
    BY <2>1
  <2>2. CASE signed /\ ~ IsStale(answer)
    <3>1. accepted = Accept(s, request, answer, fresh)
      BY <2>2
    <3>2. Verified(s, request, answer) /\ Acceptable(s, request, answer, fresh)
      BY <1>1, <2>2
    <3> HIDE DEF accepted
    <3> QED
      BY <2>2, <3>1, <3>2, AcceptType, AcceptSound
  <2> QED
    BY <2>1, <2>2
<1> HIDE DEF accepted, signed
<1>3. final \in State /\ Sound(final, n)
  <2>1. final \in State
    BY <1>2 DEF State
  <2>2. /\ final.keyTransitions = accepted.keyTransitions
        /\ final.keysetSequence = accepted.keysetSequence
        /\ final.lease = accepted.lease /\ final.status = accepted.status
        /\ final.highestGeneration = accepted.highestGeneration
        /\ final.minimumGeneration = accepted.minimumGeneration
        /\ final.authorizationId = accepted.authorizationId
        /\ final.statusSequence = accepted.statusSequence
        /\ final.ended = accepted.ended /\ final.revoked = accepted.revoked
        /\ final.ending = accepted.ending
        /\ final.pendingEnd = accepted.pendingEnd
    BY <1>2 DEF State
  <2> HIDE DEF final
  <2> QED
    BY <1>2, <2>1, <2>2 DEF Sound, Reloads
<1> QED
  BY <1>1, <1>2, <1>3

\* The same for endLocked.
LEMMA EndSavesSound ==
    ASSUME NEW s \in State, NEW n \in Nat, Sound(s, n),
           NEW request \in PreparedRequest, NEW answer \in Answer,
           WellFormed(request, n), Belongs(request, s, FALSE),
           Honest(request, answer, n),
           NEW t \in EndSaves(s, request, answer)
    PROVE  t \in State /\ Sound(t, n)
<1> DEFINE accepted == Accept(s, request, answer, FALSE)
<1>1. CASE t = s
  BY <1>1
<1>2. CASE t # s
  <2>1. /\ Verified(s, request, answer)
        /\ Acceptable(s, request, answer, FALSE)
        /\ ~ IsStale(answer)
        /\ t = accepted \/ t = Retire(accepted, FALSE)
    BY <1>2 DEF EndSaves
  <2>2. accepted \in State /\ Sound(accepted, n)
    BY <2>1, AcceptType, AcceptSound
  <2> HIDE DEF accepted
  <2>3. /\ Retire(accepted, FALSE) \in State
        /\ Sound(Retire(accepted, FALSE), n)
    BY <2>2, RetireType, RetireSound
  <2> QED
    BY <2>1, <2>2, <2>3
<1> QED
  BY <1>1, <1>2

\* Epochs are only ever added.
LEMMA MoreEpochs ==
    ASSUME NEW n \in Nat, NEW m \in Nat, n <= m
    PROVE  /\ \A s : Sound(s, n) => Sound(s, m)
           /\ \A r : WellFormed(r, n) => WellFormed(r, m)
           /\ \A r, a : Honest(r, a, n) => Honest(r, a, m)
<1>1. \A a : a \in 1 .. n => a \in 1 .. m
  OBVIOUS
<1>2. \A r : WellFormed(r, n) => WellFormed(r, m)
  BY <1>1 DEF WellFormed
<1>3. \A s : Sound(s, n) => Sound(s, m)
  BY <1>1, <1>2 DEF Sound
<1>4. \A r, a : Honest(r, a, n) => Honest(r, a, m)
  BY <1>1 DEF Honest
<1> QED
  BY <1>2, <1>3, <1>4

LEMMA FreshSound == Sound(Fresh, 0)
<1>1. Len(Fresh.keyTransitions) = 0 /\ Fresh.keyTransitions = <<>>
  BY EmptySeq DEF Fresh
<1>2. DOMAIN Fresh.keyTransitions = {}
  BY <1>1
<1>3. Reloads(Fresh)
  BY <1>1, <1>2, NoneAssumption DEF Fresh, Reloads, Authentic
<1> QED
  BY <1>1, <1>3 DEF Fresh, Sound, Chained

-----------------------------------------------------------------------------
(* The service.                                                            *)

LEMMA ServiceInitType ==
    ServiceInit => service \in Service /\ Len(service.grants) = 0
<1>1. 0 \in 0 .. MaxKeyset
  BY ServerBounds
<1> QED
  BY <1>1, EmptySeq DEF ServiceInit, Service

LEMMA MissingTransitionsType ==
    ASSUME NEW s \in Service, NEW request \in PreparedRequest
    PROVE  LET ts == MissingTransitions(s, request)
           IN  /\ ts \in Seq(Nat)
               /\ \A i \in 1 .. Len(ts) : ts[i] = request.keysetSequence + i
               /\ \/ Len(ts) = 0
                  \/ /\ Len(ts) # 0
                     /\ ts[Len(ts)] = s.keysetSequence
<1> DEFINE r  == request.keysetSequence
           k  == s.keysetSequence
           ts == MissingTransitions(s, request)
<1>1. r \in Nat /\ k \in Nat
  BY ServerBounds DEF PreparedRequest, Service
<1>2. ts = [i \in 1 .. k - r |-> r + i]
  BY DEF MissingTransitions
<1> HIDE DEF r, k, ts
<1>3. CASE k > r
  <2>1. k - r \in Nat /\ k - r # 0
    BY <1>1, <1>3
  <2>2. ts \in Seq(Nat)
    BY <1>1, <1>2, <2>1
  <2>3. Len(ts) = k - r
    BY <1>2, <2>1, <2>2, LenProperties
  <2>4. ts[k - r] = k
    BY <1>1, <1>2, <2>1
  <2> QED
    BY <1>1, <1>2, <2>1, <2>2, <2>3, <2>4 DEF r, k, ts
<1>4. CASE ~ (k > r)
  <2>1. 1 .. k - r = {}
    BY <1>1, <1>4
  <2>2. ts = <<>>
    BY <1>2, <2>1
  <2> QED
    BY <2>2, EmptySeq DEF ts
<1> QED
  BY <1>3, <1>4

LEMMA StatusOfType ==
    ASSUME NEW s \in Service, NEW a \in 1 .. Len(s.grants)
    PROVE  /\ StatusOf(s, a) \in Status
           /\ StatusOf(s, a).keysetSequence = s.keysetSequence
<1>1. s.grants \in Seq(Grant) /\ s.sequence \in Nat
      /\ s.keysetSequence \in Nat /\ s.revokedSigningKeyIds \in SUBSET Nat
  BY ServerBounds DEF Service
<1>2. s.grants[a] \in Grant
  BY <1>1, ElementOfSeq
<1> QED
  BY <1>1, <1>2 DEF StatusOf, Status, Grant

LEMMA LeaseOfType ==
    ASSUME NEW s \in Service, NEW a \in 1 .. Len(s.grants)
    PROVE  LeaseOf(s, a) \in Lease /\ LeaseOf(s, a).authorizationId = a
<1>1. s.grants \in Seq(Grant) /\ s.keysetSequence \in Nat
  BY ServerBounds DEF Service
<1>2. s.grants[a] \in Grant /\ a \in Nat
  BY <1>1, ElementOfSeq, LenProperties
<1> QED
  BY <1>1, <1>2 DEF LeaseOf, Lease, Grant

-----------------------------------------------------------------------------
(* The three forms of an answer.                                           *)

\* Whatever framed answer is built from the service's own status and
\* transitions leads to a keyset sequence within the bound.
LEMMA KeysetBounded ==
    ASSUME NEW s \in Service, NEW request \in PreparedRequest,
           request.keysetSequence <= MaxTransitions,
           NEW answer \in Answer,
           answer.keyTransitions = MissingTransitions(s, request)
              \/ answer.keyTransitions = <<>>,
           answer.status # None =>
              answer.status.keysetSequence = s.keysetSequence
    PROVE  ResponseKeyset(request, answer) <= MaxTransitions
<1> DEFINE ts        == answer.keyTransitions
           delivered == IF Len(ts) = 0 THEN request.keysetSequence
                        ELSE ts[Len(ts)]
<1>1. s.keysetSequence <= MaxTransitions
  BY ServerBounds, NoneAssumption DEF Service
<1>2. Len(ts) = 0 \/ ts[Len(ts)] = s.keysetSequence
  BY MissingTransitionsType, EmptySeq
<1>3. delivered <= MaxTransitions
  BY <1>1, <1>2
<1>4. \/ ResponseKeyset(request, answer) = delivered
      \/ ResponseKeyset(request, answer) = s.keysetSequence
  BY DEF ResponseKeyset
<1> QED
  BY <1>1, <1>3, <1>4

LEMMA SuccessHonest ==
    ASSUME NEW s \in Service, NEW request \in PreparedRequest,
           NEW a \in 1 .. Len(s.grants),
           WellFormed(request, Len(s.grants)),
           NEW lease \in Lease \cup {None}, NEW decision \in Decision \cup {None},
           lease = None => request.endpoint # "authorize",
           lease # None =>
              /\ lease.authorizationId = a
              /\ \/ request.endpoint = "authorize"
                 \/ /\ request.endpoint = "renew"
                    /\ a = request.presentedLease.authorizationId
    PROVE  LET answer == Success(s, request, lease, a, decision)
           IN  answer \in Answer /\ Honest(request, answer, Len(s.grants))
<1> DEFINE answer == Success(s, request, lease, a, decision)
<1>1. /\ answer.http = "success" /\ answer.framed = TRUE
      /\ answer.keyTransitions = MissingTransitions(s, request)
      /\ answer.lease = lease /\ answer.status = StatusOf(s, a)
      /\ answer.decision = decision /\ answer.problem = None
  BY DEF Success
<1>2. answer \in Answer
  BY MissingTransitionsType, StatusOfType DEF Success, Answer
<1>3. ResponseKeyset(request, answer) <= MaxTransitions
  <2> HIDE DEF answer
  <2> QED
    BY <1>1, <1>2, StatusOfType, KeysetBounded DEF WellFormed
<1> HIDE DEF answer
<1> QED
  BY <1>1, <1>2, <1>3, MissingTransitionsType DEF Honest, answer

LEMMA RefusalHonest ==
    ASSUME NEW s \in Service, NEW request \in PreparedRequest,
           WellFormed(request, Len(s.grants)),
           NEW http \in {"denied", "busy"}, NEW code \in Codes,
           NEW disposition \in Dispositions
    PROVE  LET answer == Refusal(http, s, request, code, disposition)
           IN  answer \in Answer /\ Honest(request, answer, Len(s.grants))
<1> DEFINE answer == Refusal(http, s, request, code, disposition)
           a      == request.presentedLease.authorizationId
<1>1. /\ answer.http = http /\ answer.framed = TRUE
      /\ answer.keyTransitions = MissingTransitions(s, request)
      /\ answer.lease = None
      /\ answer.status = IF request.presentedLease = None THEN None
                         ELSE StatusOf(s, a)
      /\ answer.decision = Verdict(code, disposition)
      /\ answer.problem = code
  BY DEF Refusal
<1>2. request.presentedLease # None =>
         /\ StatusOf(s, a) \in Status
         /\ StatusOf(s, a).keysetSequence = s.keysetSequence
  BY StatusOfType DEF WellFormed
<1>3. answer.status \in Status \cup {None}
  BY <1>1, <1>2
<1>4. Verdict(code, disposition) \in Decision
  BY DEF Verdict, Decision
<1>5. answer \in Answer
  BY <1>1, <1>3, <1>4, MissingTransitionsType DEF Refusal, Answer
<1>6. ResponseKeyset(request, answer) <= MaxTransitions
  <2> HIDE DEF answer, a
  <2> QED
    BY <1>1, <1>2, <1>5, KeysetBounded DEF WellFormed
<1> HIDE DEF answer
<1> QED
  BY <1>1, <1>5, <1>6, MissingTransitionsType DEF Honest, WellFormed, answer

LEMMA UnframedHonest ==
    ASSUME NEW request \in PreparedRequest, NEW n \in Nat,
           WellFormed(request, n),
           NEW http \in {"denied", "busy"}, NEW code \in Codes
    PROVE  LET answer == Unframed(http, code)
           IN  answer \in Answer /\ Honest(request, answer, n)
<1> DEFINE answer == Unframed(http, code)
<1>1. answer \in Answer
  BY EmptySeq DEF Unframed, Answer
<1>2. /\ answer.framed = FALSE /\ answer.keyTransitions = <<>>
      /\ answer.lease = None /\ answer.status = None
  BY DEF Unframed
<1>3. Len(answer.keyTransitions) = 0
  BY <1>2, EmptySeq
<1>4. ResponseKeyset(request, answer) = request.keysetSequence
  BY <1>2, <1>3 DEF ResponseKeyset
<1> HIDE DEF answer
<1> QED
  BY <1>1, <1>2, <1>3, <1>4 DEF Honest, WellFormed, answer

-----------------------------------------------------------------------------
(* Serving one request.                                                    *)

\* The service keeps its type and its epochs, and answers honestly.
Served(o, request) ==
    /\ o.service \in Service
    /\ Len(service.grants) <= Len(o.service.grants)
    /\ o.answer \in Answer
    /\ Honest(request, o.answer, Len(o.service.grants))

\* What a grant and the service's record are made of.
LEMMA GrantFields ==
    \A g \in Grant : /\ g.state \in Grants
                     /\ g.generation \in Nat /\ g.minimumGeneration \in Nat
  BY DEF Grant

LEMMA ServiceFields ==
    ASSUME NEW s \in Service
    PROVE  /\ s.grants \in Seq(Grant) /\ Len(s.grants) \in Nat
           /\ DOMAIN s.grants = 1 .. Len(s.grants)
           /\ s.sequence \in Nat /\ s.keysetSequence \in 0 .. MaxKeyset
           /\ s.revokedSigningKeyIds \in SUBSET Nat
           /\ s.licenseKeys \in SUBSET Keys
           /\ \A a \in 1 .. Len(s.grants) : s.grants[a] \in Grant
  BY LenProperties, ElementOfSeq DEF Service

\* Changing one grant changes no other part of the service's shape.
LEMMA GrantChanged ==
    ASSUME NEW s \in Service, NEW a \in 1 .. Len(s.grants), NEW g \in Grant
    PROVE  /\ [s EXCEPT !.grants = [@ EXCEPT ![a] = g]] \in Service
           /\ Len([s EXCEPT !.grants = [@ EXCEPT ![a] = g]].grants)
                 = Len(s.grants)
           /\ WithGrant(s, a, g) \in Service
           /\ Len(WithGrant(s, a, g).grants) = Len(s.grants)
<1> DEFINE gs == [s.grants EXCEPT ![a] = g]
<1>1. gs \in Seq(Grant) /\ Len(gs) = Len(s.grants)
  BY ServiceFields, ExceptSeq
<1> HIDE DEF gs
<1>2. [s EXCEPT !.grants = gs] \in Service
  BY <1>1 DEF Service
<1>3. [s EXCEPT !.grants = gs, !.sequence = s.sequence + 1] \in Service
  <2>1. s.sequence + 1 \in Nat
    BY ServiceFields
  <2> HIDE DEF gs
  <2> DEFINE q == s.sequence + 1
  <2> HIDE DEF q
  <2>2. q \in Nat
    BY <2>1 DEF q
  <2>3. [s EXCEPT !.grants = gs, !.sequence = q] \in Service
    BY <1>1, <2>2 DEF Service
  <2> QED
    BY <2>3 DEF q
<1>4. /\ [s EXCEPT !.grants = [@ EXCEPT ![a] = g]] = [s EXCEPT !.grants = gs]
      /\ WithGrant(s, a, g) =
            [s EXCEPT !.grants = gs, !.sequence = s.sequence + 1]
  BY DEF WithGrant, Service, gs
<1>5. /\ [s EXCEPT !.grants = gs].grants = gs
      /\ [s EXCEPT !.grants = gs, !.sequence = s.sequence + 1].grants = gs
  BY DEF Service
<1> QED
  BY <1>1, <1>2, <1>3, <1>4, <1>5

LEMMA RefusesServed ==
    ASSUME service \in Service, NEW request \in PreparedRequest,
           WellFormed(request, Len(service.grants)),
           NEW code \in Codes, NEW disposition \in Dispositions
    PROVE  Served(Refuses(request, code, disposition), request)
  BY RefusalHonest, ServiceFields DEF Served, Refuses, Outcome

LEMMA UnavailableServed ==
    ASSUME service \in Service, NEW request \in PreparedRequest,
           WellFormed(request, Len(service.grants)),
           NEW o \in Unavailable(request)
    PROVE  Served(o, request)
<1>1. CASE o = Outcome(service, Unframed("busy", "RATE_LIMITED"))
  BY <1>1, UnframedHonest, ServiceFields DEF Served, Outcome, Codes
<1>2. CASE o = Outcome(service, Unframed("denied", "KEY_NOT_FOUND"))
  BY <1>2, UnframedHonest, ServiceFields DEF Served, Outcome, Codes
<1>3. CASE o = Outcome(service, Refusal("busy", service, request,
                                        "RATE_LIMITED", "unchanged"))
  BY <1>3, RefusalHonest, ServiceFields
     DEF Served, Outcome, Codes, Dispositions
<1> QED
  BY <1>1, <1>2, <1>3 DEF Unavailable

LEMMA StatusServed ==
    ASSUME service \in Service, NEW request \in PreparedRequest,
           WellFormed(request, Len(service.grants)),
           request.endpoint = "status", NEW o \in StatusOutcomes(request)
    PROVE  Served(o, request)
<1> DEFINE a == request.presentedLease.authorizationId
<1>1. a \in 1 .. Len(service.grants)
  BY DEF WellFormed
<1>2. o = Outcome(service, Success(service, request, None, a, None))
  BY DEF StatusOutcomes
<1> HIDE DEF a
<1> QED
  BY <1>1, <1>2, SuccessHonest, ServiceFields DEF Served, Outcome

LEMMA RenewServed ==
    ASSUME service \in Service, NEW request \in PreparedRequest,
           WellFormed(request, Len(service.grants)),
           request.endpoint = "renew", NEW o \in RenewOutcomes(request)
    PROVE  Served(o, request)
<1> DEFINE a == request.presentedLease.authorizationId
           g == service.grants[a]
           h == [g EXCEPT !.generation = @ + 1]
           next == [service EXCEPT !.grants = [@ EXCEPT ![a] = h]]
<1>1. a \in 1 .. Len(service.grants)
  BY DEF WellFormed
<1>2. g \in Grant
  BY <1>1, ServiceFields
<1>3. h \in Grant
  BY <1>2 DEF Grant
<1>4. [service EXCEPT !.grants[a].generation = @ + 1] = next
  BY DEF Service
<1>5. next \in Service /\ Len(next.grants) = Len(service.grants)
  <2> HIDE DEF h, a
  <2> QED
    BY <1>1, <1>3, GrantChanged
<1>6. \/ \E code \in Codes, d \in Dispositions : o = Refuses(request, code, d)
      \/ o = Outcome(next, Success(next, request, LeaseOf(next, a), a, None))
  BY <1>4 DEF RenewOutcomes, Codes, Dispositions
<1> HIDE DEF next, a
<1>7. CASE o = Outcome(next, Success(next, request, LeaseOf(next, a), a, None))
  <2>1. LeaseOf(next, a) \in Lease /\ LeaseOf(next, a).authorizationId = a
    BY <1>1, <1>5, LeaseOfType
  <2>2. LET answer == Success(next, request, LeaseOf(next, a), a, None)
        IN  answer \in Answer /\ Honest(request, answer, Len(next.grants))
    BY <1>1, <1>5, <2>1, SuccessHonest, NoneAssumption DEF a
  <2> QED
    BY <1>5, <1>7, <2>2, ServiceFields DEF Served, Outcome
<1> QED
  BY <1>6, <1>7, RefusesServed

LEMMA EndServed ==
    ASSUME service \in Service, NEW request \in PreparedRequest,
           WellFormed(request, Len(service.grants)),
           request.endpoint = "end", NEW o \in EndOutcomes(request)
    PROVE  Served(o, request)
<1> DEFINE a == request.presentedLease.authorizationId
           g == service.grants[a]
           h == [g EXCEPT !.state = "ended"]
           next == IF g.state = "ended" THEN service
                   ELSE WithGrant(service, a, h)
           verdict == Verdict("LEASE_ENDED", "ended")
<1>1. a \in 1 .. Len(service.grants)
  BY DEF WellFormed
<1>2. h \in Grant
  BY <1>1, ServiceFields DEF Grant, Grants
<1>3. next \in Service /\ Len(next.grants) = Len(service.grants)
  <2> HIDE DEF h, a
  <2> QED
    BY <1>1, <1>2, GrantChanged
<1>4. \/ \E code \in Codes, d \in Dispositions : o = Refuses(request, code, d)
      \/ o = Outcome(next, Success(next, request, None, a, verdict))
  BY DEF EndOutcomes, Codes, Dispositions
<1>5. verdict \in Decision
  BY DEF Verdict, Decision, Codes, Dispositions
<1> HIDE DEF next, a, verdict
<1>6. CASE o = Outcome(next, Success(next, request, None, a, verdict))
  <2>1. LET answer == Success(next, request, None, a, verdict)
        IN  answer \in Answer /\ Honest(request, answer, Len(next.grants))
    BY <1>1, <1>3, <1>5, SuccessHonest
  <2> QED
    BY <1>3, <1>6, <2>1, ServiceFields DEF Served, Outcome
<1> QED
  BY <1>4, <1>6, RefusesServed

LEMMA AuthorizeServed ==
    ASSUME service \in Service, NEW request \in PreparedRequest,
           WellFormed(request, Len(service.grants)),
           request.endpoint = "authorize", NEW o \in AuthorizeOutcomes(request)
    PROVE  Served(o, request)
<1> DEFINE n     == Len(service.grants)
           a     == n + 1
           ended == [b \in 1 .. a - 1 |->
                       [service.grants[b] EXCEPT
                           !.state = IF @ = "revoked" THEN @ ELSE "ended"]]
           new   == [state |-> "active", generation |-> 1,
                     minimumGeneration |-> 1]
           next  == [service EXCEPT !.grants = Append(ended, new),
                                    !.sequence = @ + 1]
<1>1. n \in Nat /\ a - 1 = n
  BY ServiceFields
<1>2. ended \in Seq(Grant) /\ Len(ended) = n
  <2>1. \A b \in 1 .. a - 1 :
           [service.grants[b] EXCEPT
               !.state = IF @ = "revoked" THEN @ ELSE "ended"] \in Grant
    BY <1>1, ServiceFields DEF Grant, Grants
  <2>2. ended \in [1 .. n -> Grant]
    BY <1>1, <2>1
  <2> HIDE DEF ended
  <2> QED
    BY <1>1, <2>2, LenProperties, SeqDef
<1>3. new \in Grant
  BY DEF Grant, Grants
<1>4. /\ Append(ended, new) \in Seq(Grant)
      /\ Len(Append(ended, new)) = a
  BY <1>2, <1>3, AppendProperties
<1>5. next \in Service /\ Len(next.grants) = a
  <2> HIDE DEF ended, new, a
  <2>1. service.sequence + 1 \in Nat
    BY ServiceFields
  <2> QED
    BY <1>4, <2>1 DEF Service
<1>6. \/ \E code \in Codes, d \in Dispositions : o = Refuses(request, code, d)
      \/ o = Outcome(next, Success(next, request, LeaseOf(next, a), a, None))
  BY DEF AuthorizeOutcomes, Authorized, Codes, Dispositions
<1> HIDE DEF next
<1>7. CASE o = Outcome(next, Success(next, request, LeaseOf(next, a), a, None))
  <2>1. a \in 1 .. Len(next.grants) /\ n <= Len(next.grants)
    BY <1>1, <1>5
  <2> HIDE DEF a
  <2>2. LeaseOf(next, a) \in Lease /\ LeaseOf(next, a).authorizationId = a
    BY <1>5, <2>1, LeaseOfType
  <2>3. Len(next.grants) \in Nat
    BY <1>5, ServiceFields
  <2>4. WellFormed(request, Len(next.grants))
    BY <1>1, <2>1, <2>3, MoreEpochs
  <2>5. LET answer == Success(next, request, LeaseOf(next, a), a, None)
        IN  answer \in Answer /\ Honest(request, answer, Len(next.grants))
    BY <1>5, <2>1, <2>2, <2>4, SuccessHonest, NoneAssumption
  <2> QED
    BY <1>5, <1>7, <2>1, <2>5 DEF Served, Outcome
<1> QED
  BY <1>6, <1>7, RefusesServed

\* Every outcome of every request.
LEMMA OutcomesServed ==
    ASSUME service \in Service, NEW request \in PreparedRequest,
           WellFormed(request, Len(service.grants)),
           NEW o \in Outcomes(request)
    PROVE  Served(o, request)
<1>1. request.endpoint \in {"authorize", "renew", "status", "end"}
  BY DEF PreparedRequest, Endpoints
<1> QED
  BY <1>1, UnavailableServed, AuthorizeServed, RenewServed, StatusServed,
     EndServed DEF Outcomes

\* What the service does on its own.
LEMMA ServiceNextType ==
    ASSUME service \in Service, ServiceNext
    PROVE  service' \in Service /\ Len(service'.grants) = Len(service.grants)
<1> USE ServiceFields
<1>1. ASSUME NEW from, NEW to \in Grants, ChangeGrant(from, to)
      PROVE  service' \in Service /\ Len(service'.grants) = Len(service.grants)
  <2>1. Newest \in 1 .. Len(service.grants)
    BY <1>1 DEF ChangeGrant, Newest
  <2>2. [service.grants[Newest] EXCEPT !.state = to] \in Grant
    BY <2>1 DEF Grant
  <2> QED
    BY <1>1, <2>1, <2>2, GrantChanged DEF ChangeGrant
<1>2. CASE RevokeGrant \/ EndGrant \/ ReclaimGrant
  BY <1>1, <1>2 DEF RevokeGrant, EndGrant, ReclaimGrant, Grants
<1>3. CASE RaiseMinimum
  <2> DEFINE g == service.grants[Newest]
             q == g.minimumGeneration + 1
  <2>1. Newest \in 1 .. Len(service.grants)
    BY <1>3 DEF RaiseMinimum, Newest
  <2>2. g \in Grant
    BY <2>1
  <2>3. q \in Nat
    BY <2>2 DEF Grant
  <2>4. [g EXCEPT !.minimumGeneration = q] \in Grant
    <3> HIDE DEF g, q
    <3> QED
      BY <2>2, <2>3 DEF Grant
  <2> QED
    BY <1>3, <2>1, <2>4, GrantChanged DEF RaiseMinimum
<1> DEFINE q == service.sequence + 1
           k == service.keysetSequence + 1
<1>4. q \in Nat
  OBVIOUS
<1>5. CASE RotateSigningKey
  <2>1. k \in 0 .. MaxKeyset
    BY <1>5, ServerBounds DEF RotateSigningKey
  <2>2. service' = [service EXCEPT !.keysetSequence = k, !.sequence = q]
    BY <1>5 DEF RotateSigningKey
  <2> HIDE DEF k, q
  <2> QED
    BY <1>4, <2>1, <2>2 DEF Service
<1>6. CASE RevokeSigningKey
  <2> DEFINE R(kid) == service.revokedSigningKeyIds \cup {kid}
  <2>1. PICK kid \in 0 .. service.keysetSequence - 1 :
           service' = [service EXCEPT !.revokedSigningKeyIds = R(kid),
                                      !.sequence = q]
    BY <1>6 DEF RevokeSigningKey
  <2>2. R(kid) \in SUBSET Nat
    BY ServerBounds
  <2> HIDE DEF q, R
  <2> QED
    BY <1>4, <2>1, <2>2 DEF Service
<1>7. CASE DeleteLicenseKey
  BY <1>7 DEF DeleteLicenseKey, Service
<1> QED
  BY <1>2, <1>3, <1>5, <1>6, <1>7 DEF ServiceNext

-----------------------------------------------------------------------------
(* How the service may move, and what it never takes back.                 *)

\* No epoch is forgotten, no end or revocation undone, no mark lowered and
\* no license key brought back.
Evolves(s, t) ==
    /\ Len(s.grants) <= Len(t.grants)
    /\ \A a \in 1 .. Len(s.grants) :
          LET g == s.grants[a]
              h == t.grants[a]
          IN  /\ g.state \in {"ended", "revoked"} => h.state = g.state
              /\ g.generation <= h.generation
              /\ g.minimumGeneration <= h.minimumGeneration
    /\ s.sequence <= t.sequence
    /\ s.keysetSequence <= t.keysetSequence
    /\ s.revokedSigningKeyIds \subseteq t.revokedSigningKeyIds
    /\ t.licenseKeys \subseteq s.licenseKeys

\* A service that does not move takes nothing back.
LEMMA EvolvesReflexive ==
    ASSUME NEW s \in Service
    PROVE  Evolves(s, s)
<1>1. \A a \in 1 .. Len(s.grants) :
         s.grants[a].generation \in Nat /\ s.grants[a].minimumGeneration \in Nat
  BY ServiceFields DEF Grant
<1>2. s.sequence \in Nat /\ s.keysetSequence \in Nat /\ Len(s.grants) \in Nat
  BY ServiceFields, ServerBounds
<1> QED
  BY <1>1, <1>2 DEF Evolves

\* What one grant may become.
LEMMA GrantEvolves ==
    ASSUME NEW s \in Service, NEW a \in 1 .. Len(s.grants), NEW h \in Grant,
           s.grants[a].state \in {"ended", "revoked"} =>
              h.state = s.grants[a].state,
           s.grants[a].generation <= h.generation,
           s.grants[a].minimumGeneration <= h.minimumGeneration
    PROVE  /\ Evolves(s, WithGrant(s, a, h))
           /\ Evolves(s, [s EXCEPT !.grants = [@ EXCEPT ![a] = h]])
           /\ WithGrant(s, a, h).grants[a] = h
           /\ [s EXCEPT !.grants = [@ EXCEPT ![a] = h]].grants[a] = h
<1> DEFINE gs == [s.grants EXCEPT ![a] = h]
           t  == WithGrant(s, a, h)
           u  == [s EXCEPT !.grants = [@ EXCEPT ![a] = h]]
<1>1. /\ Len(s.grants) \in Nat /\ s.sequence \in Nat
      /\ s.keysetSequence \in Nat /\ DOMAIN s.grants = 1 .. Len(s.grants)
      /\ \A b \in 1 .. Len(s.grants) : s.grants[b] \in Grant
  BY ServiceFields, ServerBounds
<1>2. /\ t.grants = gs /\ t.sequence = s.sequence + 1
      /\ t.keysetSequence = s.keysetSequence
      /\ t.revokedSigningKeyIds = s.revokedSigningKeyIds
      /\ t.licenseKeys = s.licenseKeys
      /\ u.grants = gs /\ u.sequence = s.sequence
      /\ u.keysetSequence = s.keysetSequence
      /\ u.revokedSigningKeyIds = s.revokedSigningKeyIds
      /\ u.licenseKeys = s.licenseKeys
  BY DEF WithGrant, Service
<1>3. Len(t.grants) = Len(s.grants) /\ Len(u.grants) = Len(s.grants)
  BY GrantChanged
<1>4. /\ gs[a] = h
      /\ \A b \in 1 .. Len(s.grants) : b # a => gs[b] = s.grants[b]
  BY <1>1
<1> HIDE DEF gs, t, u
<1>5. \A b \in 1 .. Len(s.grants) :
         /\ s.grants[b].state \in {"ended", "revoked"} =>
               gs[b].state = s.grants[b].state
         /\ s.grants[b].generation <= gs[b].generation
         /\ s.grants[b].minimumGeneration <= gs[b].minimumGeneration
  BY <1>1, <1>4 DEF Grant
<1>6. Evolves(s, t)
  BY <1>1, <1>2, <1>3, <1>5 DEF Evolves
<1>7. Evolves(s, u)
  BY <1>1, <1>2, <1>3, <1>5 DEF Evolves
<1> QED
  BY <1>2, <1>4, <1>6, <1>7 DEF t, u

\* Nor does any step of its own: a grant given up, a key rotated or deleted.
LEMMA ServiceNextEvolves ==
    ASSUME service \in Service, ServiceNext
    PROVE  Evolves(service, service')
<1> DEFINE g == service.grants[Newest]
<1>1. Newest > 0 => /\ Newest \in 1 .. Len(service.grants) /\ g \in Grant
                    /\ g.state \in Grants /\ g.generation \in Nat
                    /\ g.minimumGeneration \in Nat
  BY ServiceFields DEF Newest, Grant
<1>2. ASSUME NEW from \in SUBSET {"active", "reclaim_pending"},
             NEW to \in Grants, ChangeGrant(from, to)
      PROVE  Evolves(service, service')
  <2> DEFINE h == [g EXCEPT !.state = to]
  <2>1. /\ h \in Grant /\ h.generation = g.generation
        /\ h.minimumGeneration = g.minimumGeneration
        /\ g.state \notin {"ended", "revoked"}
        /\ service' = WithGrant(service, Newest, h) /\ Newest > 0
    BY <1>1, <1>2 DEF ChangeGrant, Grant
  <2> HIDE DEF h
  <2>2. /\ g.generation <= h.generation
        /\ g.minimumGeneration <= h.minimumGeneration
        /\ Newest \in 1 .. Len(service.grants)
    BY <1>1, <2>1
  <2>3. Evolves(service, WithGrant(service, Newest, h))
    BY <2>1, <2>2, GrantEvolves
  <2> QED
    BY <2>1, <2>3
<1>3. CASE RevokeGrant \/ EndGrant \/ ReclaimGrant
  BY <1>2, <1>3 DEF RevokeGrant, EndGrant, ReclaimGrant, Grants
<1>4. CASE RaiseMinimum
  <2> DEFINE q == g.minimumGeneration + 1
             h == [g EXCEPT !.minimumGeneration = q]
  <2>1. Newest > 0 /\ service' = WithGrant(service, Newest, h)
    BY <1>4 DEF RaiseMinimum
  <2>2. q \in Nat /\ g.minimumGeneration <= q
    BY <1>1, <2>1
  <2> HIDE DEF q
  <2>3. /\ h \in Grant /\ h.state = g.state /\ h.generation = g.generation
        /\ h.minimumGeneration = q
    BY <1>1, <2>1, <2>2 DEF Grant
  <2> HIDE DEF h
  <2>4. /\ g.generation <= h.generation
        /\ g.minimumGeneration <= h.minimumGeneration
        /\ Newest \in 1 .. Len(service.grants)
    BY <1>1, <2>1, <2>2, <2>3
  <2>5. Evolves(service, WithGrant(service, Newest, h))
    BY <2>3, <2>4, GrantEvolves
  <2> QED
    BY <2>1, <2>5
<1>5. CASE RotateSigningKey \/ RevokeSigningKey \/ DeleteLicenseKey
  <2>1. /\ service'.grants = service.grants
        /\ service'.sequence \in {service.sequence, service.sequence + 1}
        /\ service'.keysetSequence
              \in {service.keysetSequence, service.keysetSequence + 1}
        /\ service.revokedSigningKeyIds \subseteq service'.revokedSigningKeyIds
        /\ service'.licenseKeys \subseteq service.licenseKeys
    BY <1>5 DEF RotateSigningKey, RevokeSigningKey, DeleteLicenseKey, Service
  <2>2. /\ service.sequence \in Nat /\ service.keysetSequence \in Nat
    BY ServiceFields, ServerBounds
  <2>3. Evolves(service, service)
    BY EvolvesReflexive
  <2> QED
    BY <2>1, <2>2, <2>3 DEF Evolves
<1> QED
  BY <1>3, <1>4, <1>5 DEF ServiceNext

-----------------------------------------------------------------------------
(* The outcomes of a request, by their form.                               *)

\* The service has given up a lease of this epoch and generation.
GivenUp(svc, a, generation) ==
    \/ svc.grants[a].state = "revoked"
    \/ svc.grants[a].minimumGeneration > generation
    \/ svc.revokedSigningKeyIds # {}

\* A signed verdict on a request is borne out by the service.
Justified(r, decision, svc) ==
    LET code        == decision.responseCode
        disposition == decision.leaseDisposition
        a           == r.presentedLease.authorizationId
    IN  /\ r.endpoint = "authorize" =>
              disposition = "unchanged" /\ code # "LEASE_ENDED"
        /\ code = "KEY_NOT_FOUND" =>
              r.endpoint = "authorize" /\ r.licenseKey \notin svc.licenseKeys
        /\ disposition = "ended" \/ code = "LEASE_ENDED" =>
              svc.grants[a].state = "ended"
        /\ disposition = "revoked" =>
              \/ svc.grants[a].state = "revoked"
              \/ /\ r.endpoint = "renew"
                 /\ GivenUp(svc, a, r.presentedLease.generation)

Bare(o) ==
    \E http \in {"denied", "busy"}, code \in Codes :
        o = Outcome(service, Unframed(http, code))

Refused(o, r) ==
    \E http \in {"denied", "busy"}, code \in Codes, d \in Dispositions :
        /\ o = Outcome(service, Refusal(http, service, r, code, d))
        /\ Justified(r, Verdict(code, d), service)

Granted(o, r) ==
    /\ o.service \in Service
    /\ Evolves(service, o.service)
    /\ \E a \in 1 .. Len(o.service.grants),
          lease \in Lease \cup {None}, decision \in Decision \cup {None} :
          /\ o.answer = Success(o.service, r, lease, a, decision)
          /\ IF r.endpoint = "authorize" THEN a = Len(service.grants) + 1
             ELSE a = r.presentedLease.authorizationId
          /\ lease = IF r.endpoint \in {"authorize", "renew"}
                     THEN LeaseOf(o.service, a) ELSE None
          /\ decision # None =>
                lease = None /\ Justified(r, decision, o.service)

\* The fields of a verdict.
LEMMA VerdictFields ==
    ASSUME NEW code \in Codes, NEW d \in Dispositions
    PROVE  /\ Verdict(code, d) \in Decision /\ Verdict(code, d) # None
           /\ Verdict(code, d).responseCode = code
           /\ Verdict(code, d).leaseDisposition = d
<1>1. Verdict(code, d) \in Decision
  BY DEF Verdict, Decision
<1> QED
  BY <1>1, NoneAssumption DEF Verdict

\* A refusal that says nothing of the lease or the key needs no ground.
LEMMA RefusesFor ==
    ASSUME NEW r, NEW code \in Codes, NEW d \in Dispositions,
           Justified(r, Verdict(code, d), service)
    PROVE  Refused(Refuses(r, code, d), r)
  BY DEF Refuses, Refused

\* The three forms an outcome has: Bare (no signed answer), Refused
\* (a signed decision and no lease) and Granted; endpoint by endpoint.
LEMMA UnavailableForms ==
    ASSUME NEW r, NEW o \in Unavailable(r)
    PROVE  Bare(o) \/ Refused(o, r)
<1>1. Justified(r, Verdict("RATE_LIMITED", "unchanged"), service)
  BY VerdictFields DEF Justified, Codes, Dispositions
<1> QED
  BY <1>1 DEF Unavailable, Bare, Refused, Codes, Dispositions

\* A status answer grants.
LEMMA StatusForms ==
    ASSUME service \in Service, NEW r \in PreparedRequest,
           WellFormed(r, Len(service.grants)),
           r.endpoint = "status", NEW o \in StatusOutcomes(r)
    PROVE  Granted(o, r)
<1> DEFINE a == r.presentedLease.authorizationId
<1>1. a \in 1 .. Len(service.grants)
  BY DEF WellFormed
<1>2. /\ o.service = service
      /\ o.answer = Success(service, r, None, a, None)
  BY DEF StatusOutcomes, Outcome
<1> HIDE DEF a
<1> QED
  BY <1>1, <1>2, EvolvesReflexive DEF Granted, a

\* An end is refused or concluded.
LEMMA EndForms ==
    ASSUME service \in Service, NEW r \in PreparedRequest,
           WellFormed(r, Len(service.grants)),
           r.endpoint = "end", NEW o \in EndOutcomes(r)
    PROVE  Refused(o, r) \/ Granted(o, r)
<1> DEFINE a == r.presentedLease.authorizationId
           g == service.grants[a]
           h == [g EXCEPT !.state = "ended"]
           next == IF g.state = "ended" THEN service
                   ELSE WithGrant(service, a, h)
           verdict == Verdict("LEASE_ENDED", "ended")
<1>1. a \in 1 .. Len(service.grants) /\ g \in Grant
  BY ServiceFields DEF WellFormed
<1>2. /\ h \in Grant /\ h.state = "ended" /\ h.generation = g.generation
      /\ h.minimumGeneration = g.minimumGeneration
      /\ g.generation \in Nat /\ g.minimumGeneration \in Nat
  BY <1>1 DEF Grant, Grants
<1>3. CASE g.state = "revoked"
  <2>1. o = Refuses(r, "LEASE_REVOKED", "revoked")
    BY <1>3 DEF EndOutcomes
  <2>2. Justified(r, Verdict("LEASE_REVOKED", "revoked"), service)
    BY <1>3, VerdictFields DEF Justified, Codes, Dispositions
  <2> QED
    BY <2>1, <2>2, RefusesFor DEF Codes, Dispositions
<1>4. CASE o = Refuses(r, "STALE_GENERATION", "unchanged")
  <2>1. Justified(r, Verdict("STALE_GENERATION", "unchanged"), service)
    BY VerdictFields DEF Justified, Codes, Dispositions
  <2> QED
    BY <1>4, <2>1, RefusesFor DEF Codes, Dispositions
<1>5. CASE g.state # "revoked"
           /\ o = Outcome(next, Success(next, r, None, a, verdict))
  <2>1. /\ next \in Service /\ Evolves(service, next)
        /\ next.grants[a].state = "ended"
        /\ a \in 1 .. Len(next.grants)
    <3>1. CASE g.state = "ended"
      BY <1>1, <3>1, EvolvesReflexive
    <3>2. CASE g.state # "ended"
      <4>1. next = WithGrant(service, a, h)
        BY <3>2
      <4>2. /\ g.state \in {"ended", "revoked"} => h.state = g.state
            /\ g.generation <= h.generation
            /\ g.minimumGeneration <= h.minimumGeneration
        BY <1>2, <1>5, <3>2
      <4> HIDE DEF h, next, a
      <4>3. /\ WithGrant(service, a, h) \in Service
            /\ Len(WithGrant(service, a, h).grants) = Len(service.grants)
        BY <1>1, <1>2, GrantChanged
      <4>4. /\ Evolves(service, WithGrant(service, a, h))
            /\ WithGrant(service, a, h).grants[a] = h
        BY <1>1, <1>2, <4>2, GrantEvolves
      <4> QED
        BY <1>1, <1>2, <4>1, <4>3, <4>4
    <3> QED
      BY <3>1, <3>2
  <2>2. o.service = next /\ o.answer = Success(next, r, None, a, verdict)
    BY <1>5 DEF Outcome
  <2> HIDE DEF next
  <2>3. verdict \in Decision /\ Justified(r, verdict, next)
    BY <2>1, VerdictFields DEF Justified, Codes, Dispositions
  <2> HIDE DEF a, verdict
  <2> QED
    BY <2>1, <2>2, <2>3 DEF Granted, a
<1>6. \/ g.state = "revoked"
      \/ o = Refuses(r, "STALE_GENERATION", "unchanged")
      \/ g.state # "revoked"
         /\ o = Outcome(next, Success(next, r, None, a, verdict))
  BY DEF EndOutcomes
<1> QED
  BY <1>3, <1>4, <1>5, <1>6

\* A renewal is refused or grants the next generation.
LEMMA RenewForms ==
    ASSUME service \in Service, NEW r \in PreparedRequest,
           WellFormed(r, Len(service.grants)),
           r.endpoint = "renew", NEW o \in RenewOutcomes(r)
    PROVE  Refused(o, r) \/ Granted(o, r)
<1> DEFINE a == r.presentedLease.authorizationId
           g == service.grants[a]
           q == g.generation + 1
           h == [g EXCEPT !.generation = q]
           next == [service EXCEPT !.grants = [@ EXCEPT ![a] = h]]
<1>1. a \in 1 .. Len(service.grants) /\ g \in Grant
  BY ServiceFields DEF WellFormed
<1>2. /\ g.generation \in Nat /\ g.minimumGeneration \in Nat
      /\ q \in Nat /\ g.generation <= q
  <2>1. g.generation \in Nat /\ g.minimumGeneration \in Nat
    BY <1>1, GrantFields
  <2> HIDE DEF g
  <2> QED
    BY <2>1
<1>3. /\ h \in Grant /\ h.state = g.state /\ h.generation = q
      /\ h.minimumGeneration = g.minimumGeneration
  <2> HIDE DEF q, g
  <2> QED
    BY <1>1, <1>2 DEF Grant
<1>4. [service EXCEPT !.grants[a].generation = @ + 1] = next
  BY DEF Service
<1>5. /\ next \in Service /\ Len(next.grants) = Len(service.grants)
      /\ Evolves(service, next)
  <2>1. /\ g.state \in {"ended", "revoked"} => h.state = g.state
        /\ g.generation <= h.generation
        /\ g.minimumGeneration <= h.minimumGeneration
    BY <1>2, <1>3
  <2> HIDE DEF h, a
  <2> QED
    BY <1>1, <1>3, <2>1, GrantChanged, GrantEvolves
<1>6. ASSUME NEW code \in Codes, NEW d \in Dispositions,
             o = Refuses(r, code, d), Justified(r, Verdict(code, d), service)
      PROVE  Refused(o, r)
  BY <1>6, RefusesFor
<1>7. CASE ~ IsCurrent(service, r.presentedLease)
  <2>1. o = Refuses(r, "LEASE_REVOKED", "revoked")
    BY <1>7 DEF RenewOutcomes
  <2>2. GivenUp(service, a, r.presentedLease.generation)
    <3>1. r.presentedLease.generation \in Nat
      BY DEF WellFormed, PreparedRequest, Lease
    <3> QED
      BY <1>2, <1>7, <3>1 DEF GivenUp, IsCurrent
  <2>3. Justified(r, Verdict("LEASE_REVOKED", "revoked"), service)
    BY <2>2, VerdictFields DEF Justified, Codes, Dispositions
  <2> QED
    BY <1>6, <2>1, <2>3 DEF Codes, Dispositions
<1>8. CASE IsCurrent(service, r.presentedLease) /\ g.state = "ended"
  <2>1. o = Refuses(r, "LEASE_ENDED", "ended")
    BY <1>8 DEF RenewOutcomes
  <2>2. Justified(r, Verdict("LEASE_ENDED", "ended"), service)
    BY <1>8, VerdictFields DEF Justified, Codes, Dispositions
  <2> QED
    BY <1>6, <2>1, <2>2 DEF Codes, Dispositions
<1>9. CASE \/ o = Refuses(r, "STALE_GENERATION", "unchanged")
           \/ o = Refuses(r, "LEASE_RECLAIM_PENDING", "expired")
  <2>1. /\ Justified(r, Verdict("STALE_GENERATION", "unchanged"), service)
        /\ Justified(r, Verdict("LEASE_RECLAIM_PENDING", "expired"), service)
    BY VerdictFields DEF Justified, Codes, Dispositions
  <2> QED
    BY <1>6, <1>9, <2>1 DEF Codes, Dispositions
<1>10. CASE o = Outcome(next, Success(next, r, LeaseOf(next, a), a, None))
  <2>1. /\ o.service = next
        /\ o.answer = Success(next, r, LeaseOf(next, a), a, None)
    BY <1>10 DEF Outcome
  <2> HIDE DEF next, a
  <2>2. LeaseOf(next, a) \in Lease
    BY <1>1, <1>5, LeaseOfType
  <2> QED
    BY <1>1, <1>5, <2>1, <2>2 DEF Granted, a
<1>11. \/ ~ IsCurrent(service, r.presentedLease)
       \/ IsCurrent(service, r.presentedLease) /\ g.state = "ended"
       \/ o = Refuses(r, "STALE_GENERATION", "unchanged")
       \/ o = Refuses(r, "LEASE_RECLAIM_PENDING", "expired")
       \/ o = Outcome(next, Success(next, r, LeaseOf(next, a), a, None))
  BY <1>4 DEF RenewOutcomes
<1> QED
  BY <1>7, <1>8, <1>9, <1>10, <1>11

\* An authorization is refused or grants a new epoch.
LEMMA AuthorizeForms ==
    ASSUME service \in Service, NEW r \in PreparedRequest,
           r.endpoint = "authorize", NEW o \in AuthorizeOutcomes(r)
    PROVE  Refused(o, r) \/ Granted(o, r)
<1> DEFINE n     == Len(service.grants)
           a     == n + 1
           ended == [b \in 1 .. a - 1 |->
                       [service.grants[b] EXCEPT
                           !.state = IF @ = "revoked" THEN @ ELSE "ended"]]
           new   == [state |-> "active", generation |-> 1,
                     minimumGeneration |-> 1]
           next  == [service EXCEPT !.grants = Append(ended, new),
                                    !.sequence = @ + 1]
<1>1. /\ n \in Nat /\ a - 1 = n /\ a \in 1 .. a /\ service.sequence \in Nat
      /\ service.keysetSequence \in Nat
      /\ \A b \in 1 .. n : service.grants[b] \in Grant
  BY ServiceFields, ServerBounds
<1>2. \A b \in 1 .. n :
         /\ ended[b] \in Grant
         /\ service.grants[b].state \in {"ended", "revoked"} =>
               ended[b].state = service.grants[b].state
         /\ service.grants[b].generation <= ended[b].generation
         /\ service.grants[b].minimumGeneration <= ended[b].minimumGeneration
  BY <1>1 DEF Grant, Grants
<1>3. ended \in Seq(Grant) /\ Len(ended) = n
  <2>1. ended \in [1 .. n -> Grant]
    BY <1>1, <1>2
  <2> HIDE DEF ended
  <2> QED
    BY <1>1, <2>1, LenProperties, SeqDef
<1>4. new \in Grant
  BY DEF Grant, Grants
<1>5. /\ Append(ended, new) \in Seq(Grant)
      /\ Len(Append(ended, new)) = a
      /\ \A b \in 1 .. n : Append(ended, new)[b] = ended[b]
  BY <1>1, <1>3, <1>4, AppendProperties
<1>6. /\ next \in Service /\ next.grants = Append(ended, new)
      /\ next.sequence = service.sequence + 1
      /\ next.keysetSequence = service.keysetSequence
      /\ next.revokedSigningKeyIds = service.revokedSigningKeyIds
      /\ next.licenseKeys = service.licenseKeys
  <2>1. service.sequence + 1 \in Nat
    BY <1>1
  <2> HIDE DEF ended, new, a
  <2> QED
    BY <1>5, <2>1 DEF Service
<1> HIDE DEF next, ended, new
<1>7. Evolves(service, next)
  BY <1>1, <1>2, <1>5, <1>6 DEF Evolves
<1>8. CASE o = Outcome(next, Success(next, r, LeaseOf(next, a), a, None))
  <2>1. /\ o.service = next
        /\ o.answer = Success(next, r, LeaseOf(next, a), a, None)
        /\ a \in 1 .. Len(next.grants)
    BY <1>1, <1>5, <1>6, <1>8 DEF Outcome
  <2>2. LeaseOf(next, a) \in Lease
    BY <1>6, <2>1, LeaseOfType
  <2> HIDE DEF a
  <2> QED
    BY <1>6, <1>7, <2>1, <2>2 DEF Granted, a
<1>9. CASE o = Refuses(r, "AUTH_MODE_IN_USE", "unchanged")
  <2>1. Justified(r, Verdict("AUTH_MODE_IN_USE", "unchanged"), service)
    BY VerdictFields DEF Justified, Codes, Dispositions
  <2> QED
    BY <1>9, <2>1, RefusesFor DEF Codes, Dispositions
<1>10. CASE /\ o = Refuses(r, "KEY_NOT_FOUND", "unchanged")
            /\ r.licenseKey \notin service.licenseKeys
  <2>1. Justified(r, Verdict("KEY_NOT_FOUND", "unchanged"), service)
    BY <1>10, VerdictFields DEF Justified, Codes, Dispositions
  <2> QED
    BY <1>10, <2>1, RefusesFor DEF Codes, Dispositions
<1>11. \/ o = Outcome(next, Success(next, r, LeaseOf(next, a), a, None))
       \/ o = Refuses(r, "AUTH_MODE_IN_USE", "unchanged")
       \/ /\ o = Refuses(r, "KEY_NOT_FOUND", "unchanged")
          /\ r.licenseKey \notin service.licenseKeys
  BY DEF AuthorizeOutcomes, Authorized, next, ended, new
<1> QED
  BY <1>8, <1>9, <1>10, <1>11

\* No outcome has another form.
LEMMA OutcomeForms ==
    ASSUME service \in Service, NEW r \in PreparedRequest,
           WellFormed(r, Len(service.grants)), NEW o \in Outcomes(r)
    PROVE  Bare(o) \/ Refused(o, r) \/ Granted(o, r)
<1>1. r.endpoint \in {"authorize", "renew", "status", "end"}
  BY DEF PreparedRequest, Endpoints
<1> QED
  BY <1>1, UnavailableForms, AuthorizeForms, RenewForms, StatusForms,
     EndForms DEF Outcomes

\* Serving a request takes nothing back either.
LEMMA OutcomeEvolves ==
    ASSUME service \in Service, NEW r \in PreparedRequest,
           WellFormed(r, Len(service.grants)), NEW o \in Outcomes(r)
    PROVE  Evolves(service, o.service)
<1>1. CASE Bare(o) \/ Refused(o, r)
  BY <1>1, EvolvesReflexive DEF Bare, Refused, Outcome
<1>2. CASE Granted(o, r)
  BY <1>2 DEF Granted
<1> QED
  BY <1>1, <1>2, OutcomeForms

-----------------------------------------------------------------------------
(* What the session may rely on.                                           *)

\* What an answer says is so, and stays so.
Truthful(r, answer, svc) ==
    /\ ResponseKeyset(r, answer) <= svc.keysetSequence
    /\ answer.lease # None =>
          answer.lease.generation
             <= svc.grants[answer.lease.authorizationId].generation
    /\ answer.status # None =>
          LET st == answer.status
              g  == svc.grants[st.authorizationId]
          IN  /\ st.authorizationId \in 1 .. Len(svc.grants)
              /\ st.sequence <= svc.sequence
              /\ st.minimumGeneration <= g.minimumGeneration
              /\ st.grantStatus \in {"ended", "revoked"} =>
                    g.state = st.grantStatus
              /\ st.revokedSigningKeyIds \subseteq svc.revokedSigningKeyIds
    /\ answer.decision # None =>
          answer.lease = None /\ Justified(r, answer.decision, svc)

\* The service has caught up with the high-water marks of a state, and gave
\* the reason for its terminal flags.
Known(s, svc) ==
    LET a == s.authorizationId
    IN  /\ a \in 0 .. Len(svc.grants)
        /\ s.statusSequence <= svc.sequence
        /\ s.keysetSequence <= svc.keysetSequence
        /\ a # 0 =>
              /\ s.highestGeneration <= svc.grants[a].generation
              /\ s.minimumGeneration <= svc.grants[a].minimumGeneration
              /\ s.ended => svc.grants[a].state = "ended"
              /\ s.revoked => GivenUp(svc, a, s.highestGeneration)
        /\ s.pendingEnd # None =>
              s.pendingEnd.keysetSequence <= s.keysetSequence

\* A request asks for the state s: it carries its marks and its lease, or is
\* the end it retains.
Asks(r, s) ==
    /\ r.keysetSequence <= s.keysetSequence
    /\ r.endpoint # "end" =>
          /\ r.keysetSequence = s.keysetSequence
          /\ r.statusSequence = s.statusSequence
    /\ r.endpoint \in {"renew", "status"} => r.presentedLease = s.lease
    /\ r.endpoint = "end" => r = s.pendingEnd

\* An answer is not older than the state that asked for it.
Newer(r, answer, s) ==
    /\ answer.lease # None =>
          IF r.endpoint = "authorize"
          THEN answer.lease.authorizationId > s.authorizationId
          ELSE answer.lease.generation >= s.highestGeneration
    /\ answer.status # None =>
          /\ answer.status.sequence >= s.statusSequence
          /\ answer.status.authorizationId = s.authorizationId =>
                answer.status.minimumGeneration >= s.minimumGeneration

\* An epoch the service gave up stays given up.
LEMMA GivenUpStays ==
    ASSUME NEW s \in Service, NEW t \in Service, Evolves(s, t),
           NEW a \in 1 .. Len(s.grants), NEW g \in Nat, GivenUp(s, a, g)
    PROVE  GivenUp(t, a, g)
<1>1. a \in 1 .. Len(t.grants)
  BY ServiceFields DEF Evolves
<1>2. /\ s.grants[a].minimumGeneration \in Nat
      /\ t.grants[a].minimumGeneration \in Nat
  BY <1>1, ServiceFields DEF Grant
<1> QED
  BY <1>2 DEF GivenUp, Evolves

\* A decision that was justified stays justified.
LEMMA JustifiedStays ==
    ASSUME NEW s \in Service, NEW t \in Service, Evolves(s, t),
           NEW r \in PreparedRequest, WellFormed(r, Len(s.grants)),
           NEW decision \in Decision, Justified(r, decision, s)
    PROVE  Justified(r, decision, t)
<1>1. CASE r.presentedLease = None
  <2>1. r.endpoint = "authorize"
    BY <1>1 DEF WellFormed
  <2> QED
    BY <2>1 DEF Justified, Evolves
<1>2. CASE r.presentedLease # None
  <2>1. /\ r.presentedLease.authorizationId \in 1 .. Len(s.grants)
        /\ r.presentedLease.generation \in Nat
    BY <1>2 DEF WellFormed, PreparedRequest, Lease
  <2> QED
    BY <2>1, GivenUpStays DEF Justified, Evolves
<1> QED
  BY <1>1, <1>2

\* An answer under way stays true while the service moves on.
LEMMA TruthfulStays ==
    ASSUME NEW s \in Service, NEW t \in Service, Evolves(s, t),
           NEW r \in PreparedRequest, WellFormed(r, Len(s.grants)),
           NEW answer \in Answer, Honest(r, answer, Len(s.grants)),
           Truthful(r, answer, s)
    PROVE  Truthful(r, answer, t)
<1>1. ResponseKeyset(r, answer) <= t.keysetSequence
  BY ResponseKeysetType, ServiceFields, ServerBounds DEF Truthful, Evolves
<1>2. ASSUME NEW a \in 1 .. Len(s.grants)
      PROVE  /\ s.grants[a].generation \in Nat
             /\ t.grants[a].generation \in Nat
             /\ s.grants[a].minimumGeneration \in Nat
             /\ t.grants[a].minimumGeneration \in Nat
             /\ a \in 1 .. Len(t.grants)
  <2>1. a \in 1 .. Len(t.grants)
    BY ServiceFields DEF Evolves
  <2> QED
    BY <2>1, ServiceFields DEF Grant
<1>3. answer.lease # None =>
         answer.lease.generation
            <= t.grants[answer.lease.authorizationId].generation
  <2> SUFFICES ASSUME answer.lease # None
               PROVE  answer.lease.generation
                         <= t.grants[answer.lease.authorizationId].generation
    OBVIOUS
  <2>1. /\ answer.lease.authorizationId \in 1 .. Len(s.grants)
        /\ answer.lease.generation \in Nat
    BY DEF Honest, Answer, Lease
  <2> DEFINE a == answer.lease.authorizationId
  <2>2. answer.lease.generation <= s.grants[a].generation
    BY DEF Truthful
  <2>3. s.grants[a].generation <= t.grants[a].generation
    BY <2>1 DEF Evolves
  <2>4. s.grants[a].generation \in Nat /\ t.grants[a].generation \in Nat
    BY <1>2, <2>1
  <2> HIDE DEF a
  <2> QED
    BY <2>1, <2>2, <2>3, <2>4 DEF a
<1>4. ASSUME answer.status # None
      PROVE  LET st == answer.status
                 g  == t.grants[st.authorizationId]
             IN  /\ st.authorizationId \in 1 .. Len(t.grants)
                 /\ st.sequence <= t.sequence
                 /\ st.minimumGeneration <= g.minimumGeneration
                 /\ st.grantStatus \in {"ended", "revoked"} =>
                       g.state = st.grantStatus
                 /\ st.revokedSigningKeyIds \subseteq t.revokedSigningKeyIds
  <2> DEFINE st == answer.status
             a  == st.authorizationId
  <2>1. /\ st \in Status /\ st.sequence \in Nat
        /\ st.minimumGeneration \in Nat /\ a \in 1 .. Len(s.grants)
    BY <1>4 DEF Answer, Status, Truthful
  <2>2. s.sequence \in Nat /\ t.sequence \in Nat
    BY ServiceFields
  <2> HIDE DEF a
  <2>3. /\ a \in 1 .. Len(t.grants)
        /\ s.grants[a].minimumGeneration \in Nat
        /\ t.grants[a].minimumGeneration \in Nat
    BY <1>2, <2>1
  <2>4. st.sequence <= t.sequence
    BY <1>4, <2>1, <2>2 DEF Truthful, Evolves
  <2>5. st.minimumGeneration <= t.grants[a].minimumGeneration
    <3>1. st.minimumGeneration <= s.grants[a].minimumGeneration
      BY <1>4 DEF Truthful, a
    <3>2. s.grants[a].minimumGeneration <= t.grants[a].minimumGeneration
      BY <2>1 DEF Evolves, a
    <3> QED
      BY <2>1, <2>3, <3>1, <3>2
  <2>6. st.grantStatus \in {"ended", "revoked"} =>
           t.grants[a].state = st.grantStatus
    <3>1. st.grantStatus \in {"ended", "revoked"} =>
             s.grants[a].state = st.grantStatus
      BY <1>4 DEF Truthful, a
    <3> QED
      BY <2>1, <3>1 DEF Evolves, a
  <2>7. st.revokedSigningKeyIds \subseteq t.revokedSigningKeyIds
    BY <1>4 DEF Truthful, Evolves
  <2> QED
    BY <2>3, <2>4, <2>5, <2>6, <2>7 DEF a
<1>5. answer.decision # None =>
         answer.lease = None /\ Justified(r, answer.decision, t)
  BY JustifiedStays DEF Truthful, Answer
<1> QED
  BY <1>1, <1>3, <1>4, <1>5 DEF Truthful

\* What a state records stays known to the service.
LEMMA KnownStays ==
    ASSUME NEW u \in Service, NEW t \in Service, Evolves(u, t),
           NEW s \in State, Known(s, u)
    PROVE  Known(s, t)
<1> DEFINE a == s.authorizationId
<1>1. /\ s.statusSequence \in Nat /\ s.keysetSequence \in Nat
      /\ s.highestGeneration \in Nat /\ s.minimumGeneration \in Nat
      /\ a \in Nat
  BY DEF State
<1>2. /\ u.sequence \in Nat /\ t.sequence \in Nat
      /\ u.keysetSequence \in Nat /\ t.keysetSequence \in Nat
      /\ Len(u.grants) \in Nat /\ Len(t.grants) \in Nat
  BY ServiceFields, ServerBounds
<1>3. a \in 0 .. Len(u.grants) /\ a \in 0 .. Len(t.grants)
  BY <1>1, <1>2 DEF Known, Evolves
<1>4. a # 0 => /\ a \in 1 .. Len(u.grants) /\ a \in 1 .. Len(t.grants)
               /\ u.grants[a] \in Grant /\ t.grants[a] \in Grant
  BY <1>1, <1>2, <1>3, ServiceFields
<1> HIDE DEF a
<1>5. a # 0 =>
         /\ s.highestGeneration <= t.grants[a].generation
         /\ s.minimumGeneration <= t.grants[a].minimumGeneration
         /\ s.ended => t.grants[a].state = "ended"
  <2> SUFFICES ASSUME a # 0
               PROVE  /\ s.highestGeneration <= t.grants[a].generation
                      /\ s.minimumGeneration <= t.grants[a].minimumGeneration
                      /\ s.ended => t.grants[a].state = "ended"
    OBVIOUS
  <2>1. /\ u.grants[a].generation <= t.grants[a].generation
        /\ u.grants[a].minimumGeneration <= t.grants[a].minimumGeneration
        /\ u.grants[a].state = "ended" => t.grants[a].state = "ended"
    BY <1>4 DEF Evolves
  <2>2. /\ s.highestGeneration <= u.grants[a].generation
        /\ s.minimumGeneration <= u.grants[a].minimumGeneration
        /\ s.ended => u.grants[a].state = "ended"
    BY DEF Known, a
  <2>3. /\ u.grants[a].generation \in Nat /\ t.grants[a].generation \in Nat
        /\ u.grants[a].minimumGeneration \in Nat
        /\ t.grants[a].minimumGeneration \in Nat
    BY <1>4 DEF Grant
  <2> QED
    BY <1>1, <2>1, <2>2, <2>3
<1>6. a # 0 /\ s.revoked => GivenUp(t, a, s.highestGeneration)
  BY <1>1, <1>4, GivenUpStays DEF Known, a
<1>7. s.statusSequence <= u.sequence /\ s.keysetSequence <= u.keysetSequence
  BY DEF Known
<1>8. u.sequence <= t.sequence /\ u.keysetSequence <= t.keysetSequence
  BY DEF Evolves
<1>9. s.statusSequence <= t.sequence /\ s.keysetSequence <= t.keysetSequence
  BY <1>1, <1>2, <1>7, <1>8
<1>10. s.pendingEnd # None => s.pendingEnd.keysetSequence <= s.keysetSequence
  BY DEF Known
<1> QED
  BY <1>3, <1>5, <1>6, <1>9, <1>10 DEF Known, a

-----------------------------------------------------------------------------
(* Every answer is truthful and not older than what asked for it.          *)

\* The transitions of an answer bridge exactly the gap the request names.
LEMMA MissingLength ==
    ASSUME NEW s \in Service, NEW r \in PreparedRequest,
           r.keysetSequence <= s.keysetSequence
    PROVE  /\ Len(MissingTransitions(s, r)) = s.keysetSequence - r.keysetSequence
           /\ MissingTransitions(s, r) \in Seq(Nat)
<1> DEFINE k == s.keysetSequence - r.keysetSequence
           ts == MissingTransitions(s, r)
<1>1. /\ r.keysetSequence \in Nat /\ s.keysetSequence \in Nat
      /\ k \in Nat
  BY ServiceFields, ServerBounds DEF PreparedRequest
<1>2. ts = [i \in 1 .. k |-> r.keysetSequence + i]
  BY DEF MissingTransitions
<1> HIDE DEF ts
<1>3. ts \in Seq(Nat)
  BY <1>1, <1>2
<1> HIDE DEF k
<1>4. Len(ts) = k
  BY <1>1, <1>2, <1>3, LenProperties
<1> QED
  BY <1>3, <1>4 DEF k, ts

\* The keyset sequence of a framed answer is the service's own.
LEMMA KeysetIsCurrent ==
    ASSUME NEW s \in Service, NEW r \in PreparedRequest,
           r.keysetSequence <= s.keysetSequence, NEW answer \in Answer,
           answer.keyTransitions = MissingTransitions(s, r),
           answer.status # None =>
              answer.status.keysetSequence = s.keysetSequence
    PROVE  ResponseKeyset(r, answer) = s.keysetSequence
<1> DEFINE ts        == answer.keyTransitions
           delivered == IF Len(ts) = 0 THEN r.keysetSequence ELSE ts[Len(ts)]
<1>1. r.keysetSequence \in Nat /\ s.keysetSequence \in Nat
  BY ServiceFields, ServerBounds DEF PreparedRequest
<1>2. Len(ts) = s.keysetSequence - r.keysetSequence
  BY MissingLength
<1>3. Len(ts) = 0 \/ ts[Len(ts)] = s.keysetSequence
  BY MissingTransitionsType
<1>4. delivered = s.keysetSequence
  BY <1>1, <1>2, <1>3
<1> QED
  BY <1>1, <1>4 DEF ResponseKeyset

\* What a Granted outcome says is so.
LEMMA SuccessTruthful ==
    ASSUME service \in Service, NEW r \in PreparedRequest,
           WellFormed(r, Len(service.grants)),
           r.keysetSequence <= service.keysetSequence,
           NEW o, Granted(o, r), o.answer \in Answer
    PROVE  Truthful(r, o.answer, o.service)
<1> DEFINE t == o.service
<1>1. PICK a \in 1 .. Len(t.grants),
           lease \in Lease \cup {None}, decision \in Decision \cup {None} :
         /\ o.answer = Success(t, r, lease, a, decision)
         /\ lease = IF r.endpoint \in {"authorize", "renew"}
                    THEN LeaseOf(t, a) ELSE None
         /\ decision # None => lease = None /\ Justified(r, decision, t)
  BY DEF Granted
<1>2. t \in Service /\ r.keysetSequence <= t.keysetSequence
  BY ServiceFields, ServerBounds DEF Granted, Evolves, PreparedRequest
<1>3. /\ o.answer.keyTransitions = MissingTransitions(t, r)
      /\ o.answer.lease = lease /\ o.answer.status = StatusOf(t, a)
      /\ o.answer.decision = decision
  BY <1>1 DEF Success
<1>4. StatusOf(t, a).keysetSequence = t.keysetSequence
  BY DEF StatusOf
<1>5. ResponseKeyset(r, o.answer) = t.keysetSequence
  BY <1>2, <1>3, <1>4, KeysetIsCurrent
<1>6. lease # None => lease.generation = t.grants[lease.authorizationId].generation
  BY <1>1 DEF LeaseOf
<1>7. /\ t.grants[a].generation \in Nat /\ t.grants[a].minimumGeneration \in Nat
      /\ t.sequence \in Nat /\ t.keysetSequence \in Nat
  <2>1. t \in Service
    BY <1>2
  <2> HIDE DEF t
  <2>2. /\ t.grants \in Seq(Grant) /\ DOMAIN t.grants = 1 .. Len(t.grants)
        /\ t.sequence \in Nat /\ t.keysetSequence \in Nat
    BY <2>1, ServiceFields, ServerBounds
  <2>3. t.grants[a] \in Grant
    BY <2>1, <2>2
  <2> QED
    BY <2>2, <2>3, GrantFields
<1>8. lease # None =>
         lease.generation <= t.grants[lease.authorizationId].generation
  BY <1>1, <1>6, <1>7 DEF LeaseOf
<1>9. LET st == StatusOf(t, a)
      IN  /\ st.authorizationId = a /\ st.sequence <= t.sequence
          /\ st.minimumGeneration <= t.grants[a].minimumGeneration
          /\ st.grantStatus = t.grants[a].state
          /\ st.revokedSigningKeyIds = t.revokedSigningKeyIds
  BY <1>7 DEF StatusOf
<1> HIDE DEF t
<1>10. t.keysetSequence <= t.keysetSequence
  BY <1>7
<1>11. Truthful(r, o.answer, t)
  BY <1>1, <1>3, <1>5, <1>8, <1>9, <1>10 DEF Truthful
<1> QED
  BY <1>11 DEF t

\* What a Refused outcome says is so.
LEMMA RefusalTruthful ==
    ASSUME service \in Service, NEW r \in PreparedRequest,
           WellFormed(r, Len(service.grants)),
           r.keysetSequence <= service.keysetSequence,
           NEW o, Refused(o, r), o.answer \in Answer
    PROVE  Truthful(r, o.answer, o.service)
<1> DEFINE a == r.presentedLease.authorizationId
<1>1. PICK http \in {"denied", "busy"}, code \in Codes, d \in Dispositions :
         /\ o = Outcome(service, Refusal(http, service, r, code, d))
         /\ Justified(r, Verdict(code, d), service)
  BY DEF Refused
<1>2. /\ o.service = service
      /\ o.answer.keyTransitions = MissingTransitions(service, r)
      /\ o.answer.lease = None /\ o.answer.decision = Verdict(code, d)
      /\ o.answer.status = IF r.presentedLease = None THEN None
                           ELSE StatusOf(service, a)
  BY <1>1 DEF Outcome, Refusal
<1>3. o.answer.status # None =>
         a \in 1 .. Len(service.grants) /\ o.answer.status = StatusOf(service, a)
  BY <1>2 DEF WellFormed
<1>4. ResponseKeyset(r, o.answer) = service.keysetSequence
  BY <1>2, <1>3, KeysetIsCurrent DEF StatusOf
<1> HIDE DEF a
<1>5. /\ service.sequence \in Nat /\ service.keysetSequence \in Nat
      /\ \A b \in 1 .. Len(service.grants) :
            service.grants[b].minimumGeneration \in Nat
  BY ServiceFields, ServerBounds DEF Grant
<1>6. o.answer.status # None =>
        LET st == o.answer.status
        IN  /\ st.authorizationId = a /\ st.sequence <= service.sequence
            /\ st.minimumGeneration <= service.grants[a].minimumGeneration
            /\ st.grantStatus = service.grants[a].state
            /\ st.revokedSigningKeyIds = service.revokedSigningKeyIds
  BY <1>3, <1>5 DEF StatusOf
<1>7. service.keysetSequence <= service.keysetSequence
  BY <1>5
<1> QED
  BY <1>1, <1>2, <1>3, <1>4, <1>6, <1>7 DEF Truthful

\* A Bare outcome says nothing of the service.
LEMMA BareTruthful ==
    ASSUME service \in Service, NEW r \in PreparedRequest,
           r.keysetSequence <= service.keysetSequence, NEW o, Bare(o)
    PROVE  Truthful(r, o.answer, o.service)
<1>1. /\ o.service = service /\ o.answer.keyTransitions = <<>>
      /\ o.answer.lease = None /\ o.answer.status = None
      /\ o.answer.decision = None
  BY DEF Bare, Outcome, Unframed
<1>2. ResponseKeyset(r, o.answer) = r.keysetSequence
  BY <1>1, EmptySeq DEF ResponseKeyset
<1> QED
  BY <1>1, <1>2 DEF Truthful

\* What the service answers is so when it answers it.
LEMMA AnswersAreTruthful ==
    ASSUME service \in Service, NEW r \in PreparedRequest,
           WellFormed(r, Len(service.grants)),
           r.keysetSequence <= service.keysetSequence, NEW o \in Outcomes(r)
    PROVE  Truthful(r, o.answer, o.service)
<1>1. o.answer \in Answer
  BY OutcomesServed DEF Served
<1> QED
  BY <1>1, OutcomeForms, BareTruthful, RefusalTruthful, SuccessTruthful

\* A status the service gives now is not older than what was known.
LEMMA StatusIsNewer ==
    ASSUME service \in Service, NEW t \in Service, Evolves(service, t),
           NEW s \in State, Known(s, service), NEW a \in 1 .. Len(t.grants)
    PROVE  /\ StatusOf(t, a).sequence >= s.statusSequence
           /\ a = s.authorizationId =>
                 StatusOf(t, a).minimumGeneration >= s.minimumGeneration
<1>1. Known(s, t)
  BY KnownStays
<1>2. /\ t.sequence \in Nat /\ s.statusSequence \in Nat
      /\ t.grants[a].minimumGeneration \in Nat /\ s.minimumGeneration \in Nat
      /\ a # 0
  <2>1. t.grants[a] \in Grant /\ t.sequence \in Nat /\ a # 0
    BY ServiceFields
  <2>2. s.statusSequence \in Nat /\ s.minimumGeneration \in Nat
    BY DEF State
  <2> QED
    BY <2>1, <2>2, GrantFields
<1> QED
  BY <1>1, <1>2 DEF Known, StatusOf

\* An answer is not older than any state the service already knew.
LEMMA AnswersAreNewer ==
    ASSUME service \in Service, NEW r \in PreparedRequest,
           WellFormed(r, Len(service.grants)), NEW o \in Outcomes(r),
           NEW s \in State, Sound(s, Len(service.grants)), Known(s, service),
           NEW fresh \in BOOLEAN, Belongs(r, s, fresh)
    PROVE  Newer(r, o.answer, s)
<1>1. CASE Bare(o)
  <2>1. o.answer.lease = None /\ o.answer.status = None
    BY <1>1 DEF Bare, Outcome, Unframed
  <2> QED
    BY <2>1 DEF Newer
<1>2. CASE Refused(o, r)
  <2>1. /\ o.answer.lease = None
        /\ o.answer.status = IF r.presentedLease = None THEN None
                ELSE StatusOf(service, r.presentedLease.authorizationId)
    BY <1>2 DEF Refused, Outcome, Refusal
  <2>2. CASE r.presentedLease = None
    BY <2>1, <2>2 DEF Newer
  <2>3. CASE r.presentedLease # None
    <3> DEFINE a == r.presentedLease.authorizationId
    <3>1. a \in 1 .. Len(service.grants)
      BY <2>3 DEF WellFormed
    <3>2. StatusOf(service, a).authorizationId = a
      BY DEF StatusOf
    <3> HIDE DEF a
    <3>3. /\ StatusOf(service, a).sequence >= s.statusSequence
          /\ a = s.authorizationId =>
                StatusOf(service, a).minimumGeneration >= s.minimumGeneration
      BY <3>1, EvolvesReflexive, StatusIsNewer
    <3> QED
      BY <2>1, <2>3, <3>2, <3>3 DEF Newer, a
  <2> QED
    BY <2>2, <2>3
<1>3. CASE Granted(o, r)
  <2> DEFINE t == o.service
  <2>1. PICK a \in 1 .. Len(t.grants),
             lease \in Lease \cup {None}, decision \in Decision \cup {None} :
           /\ o.answer = Success(t, r, lease, a, decision)
           /\ IF r.endpoint = "authorize" THEN a = Len(service.grants) + 1
              ELSE a = r.presentedLease.authorizationId
           /\ lease = IF r.endpoint \in {"authorize", "renew"}
                      THEN LeaseOf(t, a) ELSE None
    BY <1>3 DEF Granted
  <2>2. t \in Service /\ Evolves(service, t)
    BY <1>3 DEF Granted
  <2>3. o.answer.lease = lease /\ o.answer.status = StatusOf(t, a)
    BY <2>1 DEF Success
  <2> HIDE DEF t
  <2>4. /\ StatusOf(t, a).sequence >= s.statusSequence
        /\ a = s.authorizationId =>
              StatusOf(t, a).minimumGeneration >= s.minimumGeneration
        /\ StatusOf(t, a).authorizationId = a
    BY <2>2, StatusIsNewer DEF StatusOf
  <2>5. CASE r.endpoint = "authorize"
    <3>1. /\ s.authorizationId \in 0 .. Len(service.grants)
          /\ Len(service.grants) \in Nat
      BY ServiceFields DEF Known
    <3>2. lease.authorizationId > s.authorizationId
      BY <2>1, <2>5, <3>1 DEF LeaseOf
    <3> QED
      BY <2>3, <2>4, <2>5, <3>2 DEF Newer
  <2>6. CASE r.endpoint # "authorize"
    <3>1. /\ s.lease # None /\ s.lease.authorizationId = a
          /\ s.lease.authorizationId = s.authorizationId
      BY <2>1, <2>6 DEF Belongs, Sound, Reloads
    <3>2. a \in 1 .. Len(service.grants) /\ a # 0
      BY <2>1, <3>1 DEF Sound
    <3>3. /\ service.grants[a].generation \in Nat
          /\ t.grants[a].generation \in Nat /\ s.highestGeneration \in Nat
      BY <2>2, <3>2, ServiceFields DEF Grant, State
    <3>4. /\ s.highestGeneration <= service.grants[a].generation
          /\ service.grants[a].generation <= t.grants[a].generation
      BY <2>2, <3>1, <3>2 DEF Known, Evolves
    <3>5. lease # None => lease.generation >= s.highestGeneration
      BY <2>1, <3>3, <3>4 DEF LeaseOf
    <3> QED
      BY <2>3, <2>4, <2>6, <3>5 DEF Newer
  <2> QED
    BY <2>5, <2>6
<1> QED
  BY <1>1, <1>2, <1>3, OutcomeForms

-----------------------------------------------------------------------------
(* What accept does to the marks and to the lease.                         *)

\* An epoch that was opened holds its lease or knows how it ended, and an end
\* is pending exactly while its request is kept.
Accounted(s) ==
    /\ s.authorizationId # 0 =>
          \/ s.lease # None /\ ~ s.ended /\ ~ s.revoked
          \/ s.lease = None /\ s.ended # s.revoked
    /\ s.authorizationId = 0 => s.lease = None /\ ~ s.ended /\ ~ s.revoked
    /\ s.ending = (s.pendingEnd # None)

\* The state t may replace s: no mark falls, an epoch that is over stays over
\* and a pending end is kept until its epoch is over.
Follows(s, t) ==
    /\ t.statusSequence >= s.statusSequence
    /\ t.keysetSequence >= s.keysetSequence
    /\ \/ t.authorizationId > s.authorizationId /\ t.pendingEnd = None
       \/ /\ t.authorizationId = s.authorizationId
          /\ t.highestGeneration >= s.highestGeneration
          /\ t.minimumGeneration >= s.minimumGeneration
          /\ s.ended \/ s.revoked =>
                t.ended = s.ended /\ t.revoked = s.revoked
          /\ s.pendingEnd # None =>
                t.pendingEnd = s.pendingEnd \/ t.ended \/ t.revoked

SameMarks(s, t) ==
    /\ t.authorizationId = s.authorizationId
    /\ t.statusSequence = s.statusSequence
    /\ t.keysetSequence = s.keysetSequence
    /\ t.highestGeneration = s.highestGeneration
    /\ t.minimumGeneration = s.minimumGeneration

SameLease(s, t) ==
    /\ t.lease = s.lease
    /\ t.ended = s.ended
    /\ t.revoked = s.revoked
    /\ t.ending = s.ending
    /\ t.pendingEnd = s.pendingEnd

Gone(t, isRevoked) ==
    /\ t.lease = None
    /\ t.ended = ~ isRevoked
    /\ t.revoked = isRevoked
    /\ t.ending = FALSE
    /\ t.pendingEnd = None

\* What Retire changes and leaves.
LEMMA RetireShape ==
    ASSUME NEW s \in State, NEW isRevoked \in BOOLEAN
    PROVE  /\ SameMarks(s, Retire(s, isRevoked))
           /\ Gone(Retire(s, isRevoked), isRevoked)
  BY DEF Retire, State, SameMarks, Gone

\* Nothing but the name of the lease's time changes.
LEMMA ExpiredShape ==
    ASSUME NEW s \in State
    PROVE  LET t == [s EXCEPT !.serverExpired = TRUE]
           IN  SameMarks(s, t) /\ SameLease(s, t)
  BY DEF State, SameMarks, SameLease

\* A status leaves the lease alone or retires it for a reason it gives.
LEMMA ApplyStatusShape ==
    ASSUME NEW s \in State, NEW st \in Status
    PROVE  LET t == ApplyStatus(s, st)
           IN  /\ SameMarks(s, t)
               /\ \/ SameLease(s, t)
                  \/ /\ s.lease # None /\ Gone(t, TRUE)
                     /\ \/ st.grantStatus = "revoked"
                        \/ st.minimumGeneration > s.lease.generation
                        \/ st.revokedSigningKeyIds # {}
                  \/ /\ s.lease # None /\ Gone(t, FALSE)
                     /\ st.grantStatus = "ended"
<1>1. SameMarks(s, s) /\ SameLease(s, s)
  BY DEF SameMarks, SameLease
<1> QED
  BY <1>1, RetireShape, ExpiredShape DEF ApplyStatus

\* A decision leaves the lease alone or retires it as it says.
LEMMA ApplyDecisionShape ==
    ASSUME NEW s \in State, NEW d \in Decision
    PROVE  LET t == ApplyDecision(s, d)
           IN  /\ SameMarks(s, t)
               /\ \/ SameLease(s, t)
                  \/ Gone(t, TRUE) /\ d.leaseDisposition = "revoked"
                  \/ Gone(t, FALSE) /\ d.leaseDisposition = "ended"
<1>1. SameMarks(s, s) /\ SameLease(s, s)
  BY DEF SameMarks, SameLease
<1> QED
  BY <1>1, RetireShape, ExpiredShape DEF ApplyDecision

\* A renewed lease raises the generation and leaves the epoch.
LEMMA RenewedShape ==
    ASSUME NEW s \in State, NEW lease \in Lease,
           lease.generation >= s.highestGeneration,
           NEW fresh \in BOOLEAN, ~ fresh,
           NEW t, t = AdoptLease(s, lease, fresh)
    PROVE  /\ t.authorizationId = s.authorizationId
           /\ t.statusSequence = s.statusSequence
           /\ t.keysetSequence = s.keysetSequence
           /\ t.highestGeneration = lease.generation
           /\ t.minimumGeneration = s.minimumGeneration
           /\ t.lease = lease /\ t.ended = s.ended
           /\ t.revoked = s.revoked /\ t.ending = s.ending
           /\ t.pendingEnd = s.pendingEnd
<1> DEFINE highest == IF s.highestGeneration >= lease.generation
                      THEN s.highestGeneration ELSE lease.generation
<1>1. highest = lease.generation
  BY DEF State, Lease
<1>2. t =
         [s EXCEPT !.lease = lease, !.highestGeneration = highest,
                   !.serverExpired = FALSE]
  BY DEF AdoptLease
<1> HIDE DEF highest
<1> QED
  BY <1>1, <1>2 DEF State

\* A fresh lease opens its epoch with no end pending.
LEMMA NewEpochShape ==
    ASSUME NEW s \in State, NEW lease \in Lease
    PROVE  LET t == AdoptLease(s, lease, TRUE)
           IN  /\ t.authorizationId = lease.authorizationId
               /\ t.statusSequence = s.statusSequence
               /\ t.keysetSequence = s.keysetSequence
               /\ t.highestGeneration = lease.generation
               /\ t.minimumGeneration = 0
               /\ t.lease = lease /\ t.ended = FALSE
               /\ t.revoked = FALSE /\ t.ending = FALSE
               /\ t.pendingEnd = None
<1> DEFINE base == NewEpoch(s, lease)
           highest == IF base.highestGeneration >= lease.generation
                      THEN base.highestGeneration ELSE lease.generation
<1>1. /\ base \in State /\ base.highestGeneration = lease.generation
      /\ base.authorizationId = lease.authorizationId
      /\ base.statusSequence = s.statusSequence
      /\ base.keysetSequence = s.keysetSequence
      /\ base.minimumGeneration = 0 /\ base.ended = FALSE
      /\ base.revoked = FALSE /\ base.ending = FALSE
      /\ base.pendingEnd = None
  BY DEF NewEpoch, State, Lease
<1>2. highest = lease.generation
  BY <1>1
<1>3. AdoptLease(s, lease, TRUE) =
         [base EXCEPT !.lease = lease, !.highestGeneration = highest,
                      !.serverExpired = FALSE]
  BY DEF AdoptLease
<1> HIDE DEF base, highest
<1> QED
  BY <1>1, <1>2, <1>3 DEF State

-----------------------------------------------------------------------------
(* What may follow a state.                                                *)

\* A state that differs in no mark and in nothing of the lease follows.
LEMMA FollowsItself ==
    ASSUME NEW s \in State, NEW t \in State, SameMarks(s, t), SameLease(s, t)
    PROVE  Follows(s, t)
  BY DEF Follows, SameMarks, SameLease, State

\* More of the same, or the end of an epoch that was not over before.
LEMMA FollowsOn ==
    ASSUME NEW s \in State, NEW t \in State, NEW u \in State,
           Follows(s, t), SameMarks(t, u),
           \/ SameLease(t, u)
           \/ /\ \E isRevoked \in BOOLEAN : Gone(u, isRevoked)
              /\ t.authorizationId = s.authorizationId =>
                    ~ s.ended /\ ~ s.revoked
    PROVE  Follows(s, u)
<1>1. CASE SameLease(t, u)
  BY <1>1 DEF Follows, SameMarks, SameLease
<1>2. CASE /\ \E isRevoked \in BOOLEAN : Gone(u, isRevoked)
           /\ t.authorizationId = s.authorizationId =>
                 ~ s.ended /\ ~ s.revoked
  BY <1>2 DEF Follows, SameMarks, Gone
<1> QED
  BY <1>1, <1>2

\* Nothing new is recorded, nothing new need be known.
LEMMA KeptIsKnown ==
    ASSUME NEW svc, NEW s \in State, NEW t \in State,
           Known(s, svc), Accounted(s), SameMarks(s, t), SameLease(s, t)
    PROVE  Known(t, svc) /\ Accounted(t)
  BY DEF Known, Accounted, SameMarks, SameLease

\* A lease retired for what the service said leaves a known state.
LEMMA GoneIsKnown ==
    ASSUME NEW svc, NEW s \in State, NEW t \in State, NEW isRevoked \in BOOLEAN,
           Known(s, svc), SameMarks(s, t), Gone(t, isRevoked),
           s.authorizationId # 0,
           IF isRevoked THEN GivenUp(svc, s.authorizationId, s.highestGeneration)
           ELSE svc.grants[s.authorizationId].state = "ended"
    PROVE  Known(t, svc) /\ Accounted(t)
  BY DEF Known, Accounted, SameMarks, Gone

\* Everything a step from the state s to t must establish.
Advances(s, t, svc) ==
    /\ t \in State
    /\ Known(t, svc)
    /\ Accounted(t)
    /\ Follows(s, t)

\* The answer at hand: honest, truthful and not older than s, which asked.
Fitting(r, answer, s, fresh, svc) ==
    /\ svc \in Service
    /\ r \in PreparedRequest
    /\ answer \in Answer
    /\ fresh \in BOOLEAN
    /\ WellFormed(r, Len(svc.grants))
    /\ Honest(r, answer, Len(svc.grants))
    /\ Belongs(r, s, fresh)
    /\ Asks(r, s)
    /\ Truthful(r, answer, svc)
    /\ Newer(r, answer, s)

\* The state an operation works on.
Working(s, svc) ==
    /\ s \in State
    /\ Sound(s, Len(svc.grants))
    /\ Known(s, svc)
    /\ Accounted(s)

\* The first stage of accept: new signing keys.
LEMMA KeyedAdvances ==
    ASSUME NEW s, NEW t \in State, NEW svc, Working(s, svc),
           SameLease(s, t), t.authorizationId = s.authorizationId,
           t.highestGeneration = s.highestGeneration,
           t.minimumGeneration = s.minimumGeneration,
           t.statusSequence = s.statusSequence,
           t.keysetSequence >= s.keysetSequence,
           t.keysetSequence <= svc.keysetSequence
    PROVE  Advances(s, t, svc)
<1>1. s \in State
  BY DEF Working
<1>2. /\ s.keysetSequence \in Nat /\ s.statusSequence \in Nat
      /\ s.highestGeneration \in Nat /\ s.minimumGeneration \in Nat
      /\ s.authorizationId \in Nat /\ t.keysetSequence \in Nat
      /\ s.pendingEnd # None => s.pendingEnd.keysetSequence \in Nat
  BY <1>1 DEF State, PreparedRequest
<1>3. Known(t, svc)
  BY <1>2 DEF Working, Known, SameLease
<1>4. Accounted(t)
  BY DEF Working, Accounted, SameLease
<1>5. Follows(s, t)
  BY <1>2 DEF Follows, SameLease
<1> QED
  BY <1>3, <1>4, <1>5 DEF Advances

\* The second: a lease that opens an epoch,
LEMMA NewEpochAdvances ==
    ASSUME NEW s \in State, NEW t, NEW svc \in Service,
           Advances(s, t, svc),
           NEW lease \in Lease, lease.authorizationId > s.authorizationId,
           lease.authorizationId \in 1 .. Len(svc.grants),
           lease.generation <= svc.grants[lease.authorizationId].generation
    PROVE  LET u == AdoptLease(t, lease, TRUE)
           IN  /\ Advances(s, u, svc) /\ u.lease = lease
               /\ u.authorizationId = lease.authorizationId
               /\ u.highestGeneration = lease.generation
<1> DEFINE u == AdoptLease(t, lease, TRUE)
<1>1. /\ t \in State /\ u \in State
      /\ lease.authorizationId \in Nat /\ lease.generation \in Nat
  BY AdoptLeaseType DEF Advances, Lease
<1>2. /\ Len(svc.grants) \in Nat /\ lease # None
      /\ \A a \in 1 .. Len(svc.grants) : svc.grants[a].minimumGeneration \in Nat
  BY ServiceFields, NoneAssumption DEF Grant
<1>3. /\ u.authorizationId = lease.authorizationId
      /\ u.statusSequence = t.statusSequence
      /\ u.keysetSequence = t.keysetSequence
      /\ u.highestGeneration = lease.generation
      /\ u.minimumGeneration = 0 /\ u.lease = lease /\ u.ended = FALSE
      /\ u.revoked = FALSE /\ u.ending = FALSE /\ u.pendingEnd = None
  BY <1>1, NewEpochShape
<1> HIDE DEF u
<1>4. Known(u, svc)
  BY <1>1, <1>2, <1>3 DEF Known, Advances
<1>5. Accounted(u)
  <2>1. u.authorizationId # 0
    BY <1>2, <1>3
  <2>2. u.lease # None /\ ~ u.ended /\ ~ u.revoked
    BY <1>2, <1>3
  <2>3. u.ending = (u.pendingEnd # None)
    BY <1>3
  <2> QED
    BY <2>1, <2>2, <2>3 DEF Accounted
<1>6. Follows(s, u)
  BY <1>3 DEF Follows, Advances
<1> QED
  BY <1>1, <1>3, <1>4, <1>5, <1>6 DEF Advances, u

\* or one that renews the lease s holds, after the first step made t of s.
Renews(s, t, lease, svc) ==
    /\ svc \in Service /\ lease \in Lease
    /\ Working(s, svc) /\ Advances(s, t, svc) /\ SameLease(s, t)
    /\ s.lease # None
    /\ t.authorizationId = s.authorizationId
    /\ t.highestGeneration = s.highestGeneration
    /\ lease.authorizationId = s.authorizationId
    /\ lease.authorizationId \in 1 .. Len(svc.grants)
    /\ lease.generation <= svc.grants[lease.authorizationId].generation
    /\ lease.generation >= s.highestGeneration

LEMMA RenewedAdvances ==
    ASSUME NEW s, NEW t, NEW svc, NEW lease, Renews(s, t, lease, svc),
           NEW fresh \in BOOLEAN, ~ fresh,
           NEW u, u = AdoptLease(t, lease, fresh)
    PROVE  /\ Advances(s, u, svc) /\ u.lease = lease
           /\ u.authorizationId = lease.authorizationId
           /\ u.highestGeneration = lease.generation
<1> /\ svc \in Service /\ lease \in Lease
    /\ Working(s, svc) /\ Advances(s, t, svc) /\ SameLease(s, t)
    /\ s.lease # None
    /\ t.authorizationId = s.authorizationId
    /\ t.highestGeneration = s.highestGeneration
    /\ lease.authorizationId = s.authorizationId
    /\ lease.authorizationId \in 1 .. Len(svc.grants)
    /\ lease.generation <= svc.grants[lease.authorizationId].generation
    /\ lease.generation >= s.highestGeneration
  BY DEF Renews
<1>1. /\ s \in State /\ t \in State /\ u \in State
      /\ lease.authorizationId \in Nat /\ lease.generation \in Nat
  BY AdoptLeaseType DEF Working, Advances, Lease
<1>2. /\ s.keysetSequence \in Nat /\ s.statusSequence \in Nat
      /\ s.highestGeneration \in Nat /\ s.minimumGeneration \in Nat
      /\ s.authorizationId \in Nat
      /\ t.keysetSequence \in Nat /\ t.statusSequence \in Nat
      /\ t.highestGeneration \in Nat /\ t.minimumGeneration \in Nat
  BY <1>1 DEF State
<1>3. /\ Len(svc.grants) \in Nat /\ lease # None
      /\ \A a \in 1 .. Len(svc.grants) : svc.grants[a].minimumGeneration \in Nat
  BY ServiceFields, NoneAssumption DEF Grant
<1>4. /\ u.authorizationId = t.authorizationId
      /\ u.statusSequence = t.statusSequence
      /\ u.keysetSequence = t.keysetSequence
      /\ u.highestGeneration = lease.generation
      /\ u.minimumGeneration = t.minimumGeneration
      /\ u.lease = lease /\ u.ended = t.ended
      /\ u.revoked = t.revoked /\ u.ending = t.ending
      /\ u.pendingEnd = t.pendingEnd
  BY <1>1, RenewedShape
<1>5. /\ ~ s.ended /\ ~ s.revoked /\ s.authorizationId # 0
      /\ ~ t.ended /\ ~ t.revoked
  BY DEF Working, Accounted, SameLease
<1>6. Known(u, svc)
  BY <1>1, <1>4, <1>5 DEF Known, Advances
<1>7. Accounted(u)
  BY <1>3, <1>4, <1>5 DEF Accounted, Advances
<1>8. Follows(s, u)
  BY <1>1, <1>2, <1>4, <1>5 DEF Follows, Advances
<1> QED
  BY <1>1, <1>4, <1>6, <1>7, <1>8 DEF Advances

\* The third: a status of the lease just adopted.
LEMMA StatusAdvances ==
    ASSUME NEW s \in State, NEW l, NEW svc, svc \in Service,
           Advances(s, l, svc), l.lease # None,
           l.lease.generation = l.highestGeneration,
           NEW st \in Status, st.authorizationId = l.authorizationId,
           st.authorizationId \in 1 .. Len(svc.grants),
           st.sequence >= s.statusSequence, st.sequence <= svc.sequence,
           l.authorizationId = s.authorizationId =>
              st.minimumGeneration >= s.minimumGeneration,
           st.minimumGeneration
              <= svc.grants[st.authorizationId].minimumGeneration,
           st.grantStatus \in {"ended", "revoked"} =>
              svc.grants[st.authorizationId].state = st.grantStatus,
           st.revokedSigningKeyIds \subseteq svc.revokedSigningKeyIds
    PROVE  LET u == AdoptStatus(l, st)
           IN  /\ Advances(s, u, svc)
               /\ u.authorizationId = l.authorizationId
               /\ u.highestGeneration = l.highestGeneration
<1> DEFINE m == [l EXCEPT !.status = st, !.statusSequence = st.sequence,
                          !.minimumGeneration = st.minimumGeneration]
           u == AdoptStatus(l, st)
           a == l.authorizationId
<1>1. /\ l \in State /\ u \in State /\ u = ApplyStatus(m, st)
      /\ st.sequence \in Nat /\ st.minimumGeneration \in Nat
  BY AdoptStatusType DEF Advances, AdoptStatus, Status
<1>2. m \in State
  BY <1>1 DEF State
<1>3. /\ m.authorizationId = a /\ m.statusSequence = st.sequence
      /\ m.keysetSequence = l.keysetSequence
      /\ m.highestGeneration = l.highestGeneration
      /\ m.minimumGeneration = st.minimumGeneration /\ SameLease(l, m)
  BY <1>1 DEF State, SameLease
<1> HIDE DEF m, u, a
<1>4. /\ a \in Nat /\ a # 0 /\ l.highestGeneration \in Nat
      /\ svc.grants[a].minimumGeneration \in Nat
  <2>1. a \in 1 .. Len(svc.grants) /\ Len(svc.grants) \in Nat
    BY ServiceFields DEF a
  <2>2. svc.grants[a] \in Grant
    BY <2>1, ServiceFields
  <2>3. l.highestGeneration \in Nat
    BY <1>1 DEF State
  <2>4. svc.grants[a].minimumGeneration \in Nat
    BY <2>2 DEF Grant
  <2> QED
    BY <2>1, <2>3, <2>4
<1>5. u.authorizationId = a /\ u.highestGeneration = l.highestGeneration
  BY <1>1, <1>2, <1>3, ApplyStatusShape DEF SameMarks
<1>6. Known(m, svc)
  BY <1>1, <1>3, <1>4 DEF Known, Advances, SameLease, a
<1>7. Accounted(m)
  BY <1>3 DEF Accounted, Advances, SameLease, a
<1>8. Follows(s, m)
  BY <1>1, <1>3 DEF Follows, Advances, SameLease, a
<1>9. a = s.authorizationId => ~ s.ended /\ ~ s.revoked
  BY <1>4 DEF Advances, Accounted, Follows, a
<1>10. PICK b \in {"kept", "revoked", "ended"} :
          /\ b = "kept" => SameLease(m, u)
          /\ b = "revoked" =>
                /\ Gone(u, TRUE)
                /\ \/ st.grantStatus = "revoked"
                   \/ st.minimumGeneration > m.lease.generation
                   \/ st.revokedSigningKeyIds # {}
          /\ b = "ended" => Gone(u, FALSE) /\ st.grantStatus = "ended"
          /\ SameMarks(m, u)
  BY <1>1, <1>2, ApplyStatusShape
<1>11. CASE b = "kept"
  <2>1. Known(u, svc) /\ Accounted(u)
    BY <1>1, <1>2, <1>6, <1>7, <1>10, <1>11, KeptIsKnown
  <2>2. Follows(s, u)
    BY <1>1, <1>2, <1>8, <1>10, <1>11, FollowsOn
  <2> QED
    BY <1>1, <1>5, <2>1, <2>2 DEF Advances, a, u
<1>12. CASE b # "kept"
  <2>1. PICK r \in BOOLEAN : Gone(u, r) /\ r = (b = "revoked")
    BY <1>10, <1>12
  <2>2. b = "revoked" => GivenUp(svc, a, m.highestGeneration)
    <3>1. m.lease.generation = l.highestGeneration
      BY <1>3 DEF SameLease
    <3> QED
      BY <1>1, <1>3, <1>4, <1>10, <3>1 DEF GivenUp, a
  <2>3. b # "revoked" => svc.grants[a].state = "ended"
    BY <1>10, <1>12 DEF a
  <2>4. Known(u, svc) /\ Accounted(u)
    BY <1>1, <1>2, <1>3, <1>4, <1>6, <1>10, <2>1, <2>2, <2>3, GoneIsKnown
  <2>5. Follows(s, u)
    BY <1>1, <1>2, <1>3, <1>8, <1>9, <1>10, <2>1, FollowsOn
  <2> QED
    BY <1>1, <1>5, <2>4, <2>5 DEF Advances, a, u
<1> QED
  BY <1>11, <1>12

\* A verdict on the lease of the epoch that s is in.
LEMMA VerdictAdvances ==
    ASSUME NEW s \in State, NEW t, NEW u \in State, NEW svc,
           Advances(s, t, svc), SameMarks(t, u),
           t.authorizationId = s.authorizationId, s.authorizationId # 0,
           s.lease # None, Accounted(s),
           NEW isRevoked \in BOOLEAN, Gone(u, isRevoked),
           IF isRevoked THEN GivenUp(svc, t.authorizationId, t.highestGeneration)
           ELSE svc.grants[t.authorizationId].state = "ended"
    PROVE  Advances(s, u, svc)
<1>1. t \in State /\ Known(t, svc) /\ Follows(s, t)
  BY DEF Advances
<1>2. ~ s.ended /\ ~ s.revoked
  BY DEF Accounted
<1>3. Known(u, svc) /\ Accounted(u)
  BY <1>1, GoneIsKnown
<1>4. Follows(s, u)
  BY <1>1, <1>2, FollowsOn
<1> QED
  BY <1>3, <1>4 DEF Advances

\* What a signed verdict means for the lease of the state that asked.
LEMMA VerdictOfFitting ==
    ASSUME NEW s, NEW svc, NEW r, NEW answer, NEW fresh,
           Working(s, svc), Fitting(r, answer, s, fresh, svc),
           answer.decision # None,
           LET d == answer.decision
           IN  \/ d.leaseDisposition \in {"revoked", "ended"}
               \/ d.responseCode = "LEASE_ENDED"
    PROVE  LET d == answer.decision
               a == s.authorizationId
           IN  /\ ~ fresh /\ s.lease # None /\ a # 0
               /\ d.leaseDisposition = "revoked" =>
                     GivenUp(svc, a, s.highestGeneration)
               /\ d.leaseDisposition = "ended" \/ d.responseCode = "LEASE_ENDED"
                     => svc.grants[a].state = "ended"
<1> DEFINE d == answer.decision
           a == s.authorizationId
<1>1. Justified(r, d, svc)
  BY DEF Fitting, Truthful
<1>2. r.endpoint # "authorize"
  BY <1>1 DEF Justified
<1>3. /\ ~ fresh /\ s.lease # None
      /\ s.lease.authorizationId = r.presentedLease.authorizationId
  BY <1>2 DEF Fitting, Belongs
<1>4. /\ s.lease.authorizationId = a
      /\ s.lease.generation = s.highestGeneration
  BY <1>3 DEF Working, Sound, Reloads
<1>5. a # 0
  BY <1>3 DEF Working, Accounted
<1>6. r.endpoint = "renew" => r.presentedLease = s.lease
  BY DEF Fitting, Asks
<1>7. d.leaseDisposition = "revoked" => GivenUp(svc, a, s.highestGeneration)
  BY <1>1, <1>3, <1>4, <1>6 DEF Justified, GivenUp
<1>8. d.leaseDisposition = "ended" \/ d.responseCode = "LEASE_ENDED" =>
         svc.grants[a].state = "ended"
  BY <1>1, <1>3, <1>4 DEF Justified
<1> QED
  BY <1>3, <1>5, <1>7, <1>8

\* accept as a whole: what it keeps has no lower marks, revives no epoch and
\* says of the lease what the service says.
LEMMA AcceptAdvances ==
    ASSUME NEW s, NEW svc, NEW r, NEW answer, NEW fresh,
           Working(s, svc), Fitting(r, answer, s, fresh, svc),
           Verified(s, r, answer), Acceptable(s, r, answer, fresh),
           ~ IsStale(answer)
    PROVE  Advances(s, Accept(s, r, answer, fresh), svc)
<1> DEFINE n     == Len(svc.grants)
           K     == ResponseKeyset(r, answer)
           ts    == s.keyTransitions \o answer.keyTransitions
           keyed == [s EXCEPT !.keyTransitions = ts, !.keysetSequence = K]
           leased == IF answer.lease = None THEN keyed
                     ELSE AdoptLease(keyed, answer.lease, fresh)
           known == IF answer.status = None THEN leased
                    ELSE AdoptStatus(leased, answer.status)
           final == Accept(s, r, answer, fresh)
<1>1. /\ svc \in Service /\ r \in PreparedRequest /\ answer \in Answer
      /\ fresh \in BOOLEAN /\ s \in State /\ n \in Nat
      /\ Honest(r, answer, n) /\ Belongs(r, s, fresh) /\ WellFormed(r, n)
      /\ Truthful(r, answer, svc) /\ Newer(r, answer, s)
      /\ Sound(s, n) /\ Accounted(s)
  BY ServiceFields DEF Fitting, Working
<1>2. /\ answer.lease # None => answer.lease \in Lease
      /\ answer.status # None => answer.status \in Status
      /\ answer.decision # None => answer.decision \in Decision
      /\ answer.framed \in BOOLEAN
  BY <1>1 DEF Answer
<1>3. ts \in Seq(Nat) /\ K \in Nat
  BY <1>1, ResponseKeysetType, ConcatProperties DEF State, Answer
<1>4. K >= s.keysetSequence /\ K <= svc.keysetSequence
  BY <1>1 DEF Acceptable, Truthful
<1>5. /\ Advances(s, keyed, svc) /\ SameLease(s, keyed)
      /\ keyed.authorizationId = s.authorizationId
      /\ keyed.highestGeneration = s.highestGeneration
      /\ keyed.minimumGeneration = s.minimumGeneration
  <2> HIDE DEF ts, K
  <2>1. /\ keyed \in State /\ SameLease(s, keyed)
        /\ keyed.authorizationId = s.authorizationId
        /\ keyed.highestGeneration = s.highestGeneration
        /\ keyed.minimumGeneration = s.minimumGeneration
        /\ keyed.statusSequence = s.statusSequence
        /\ keyed.keysetSequence = K
    BY <1>1, <1>3 DEF State, SameLease
  <2> HIDE DEF keyed
  <2> QED
    BY <1>4, <2>1, KeyedAdvances
<1>6. final = IF answer.decision = None THEN known
              ELSE ApplyDecision(known, answer.decision)
  <2>1. [s EXCEPT !.keyTransitions = @ \o answer.keyTransitions,
                  !.keysetSequence = ResponseKeyset(r, answer)] = keyed
    BY <1>1 DEF State
  <2> QED
    BY <2>1 DEF Accept
<1> HIDE DEF K, ts, keyed, final
<1>7. /\ Advances(s, leased, svc)
      /\ answer.lease = None => leased = keyed
      /\ answer.lease # None => leased.lease = answer.lease
      /\ leased.authorizationId # s.authorizationId => answer.lease # None
  <2>1. CASE answer.lease = None
    BY <1>5, <2>1
  <2>2. CASE answer.lease # None
    <3> DEFINE l == answer.lease
    <3>1. /\ answer.lease.authorizationId \in 1 .. n
          /\ answer.lease.generation
                <= svc.grants[answer.lease.authorizationId].generation
      BY <1>1, <2>2 DEF Honest, Truthful
    <3>2. CASE fresh
      <4>1. answer.lease.authorizationId > s.authorizationId
        BY <1>1, <2>2, <3>2 DEF Newer, Belongs
      <4>2. l \in Lease /\ leased = AdoptLease(keyed, l, TRUE)
        BY <1>1, <1>2, <2>2, <3>2
      <4> HIDE DEF l, leased
      <4>3. LET u == AdoptLease(keyed, l, TRUE)
            IN  Advances(s, u, svc) /\ u.lease = l
        BY <1>1, <1>5, <3>1, <4>1, <4>2, NewEpochAdvances DEF l
      <4> QED
        BY <2>2, <4>2, <4>3 DEF l
    <3>3. CASE ~ fresh
      <4>1. /\ s.lease # None /\ r.endpoint = "renew"
            /\ s.lease.authorizationId = answer.lease.authorizationId
        BY <1>1, <2>2, <3>3 DEF Honest, Belongs
      <4>2. s.lease.authorizationId = s.authorizationId
        BY <1>1, <4>1 DEF Sound, Reloads
      <4>3. answer.lease.generation >= s.highestGeneration
        BY <1>1, <2>2, <4>1 DEF Newer
      <4>4. l \in Lease /\ leased = AdoptLease(keyed, l, fresh)
        BY <1>1, <1>2, <2>2, <3>3
      <4> HIDE DEF l, leased
      <4>5. /\ l.authorizationId = s.authorizationId
            /\ l.authorizationId \in 1 .. Len(svc.grants)
            /\ l.generation <= svc.grants[l.authorizationId].generation
            /\ l.generation >= s.highestGeneration
        BY <3>1, <4>1, <4>2, <4>3 DEF l
      <4>6. /\ svc \in Service /\ l \in Lease /\ Working(s, svc)
            /\ s.lease # None
        BY <1>1, <4>1, <4>4
      <4>7. Renews(s, keyed, l, svc)
        BY <1>5, <4>5, <4>6 DEF Renews
      <4>8. Advances(s, leased, svc) /\ leased.lease = l
        BY <1>1, <3>3, <4>4, <4>7, RenewedAdvances
      <4> QED
        BY <2>2, <4>8 DEF l
    <3> QED
      BY <3>2, <3>3
  <2> QED
    BY <2>1, <2>2
<1>8. /\ leased.lease # None =>
            /\ leased.lease.generation = leased.highestGeneration
            /\ leased.lease.authorizationId = leased.authorizationId
      /\ answer.status # None =>
            /\ leased.lease # None
            /\ answer.status.authorizationId = leased.lease.authorizationId
  <2>1. CASE answer.lease = None
    <3>1. leased.lease = s.lease
          /\ leased.highestGeneration = s.highestGeneration
          /\ leased.authorizationId = s.authorizationId
      BY <1>5, <1>7, <2>1 DEF SameLease
    <3>2. s.lease # None =>
            /\ s.lease.generation = s.highestGeneration
            /\ s.lease.authorizationId = s.authorizationId
      BY <1>1 DEF Sound, Reloads
    <3>3. answer.status # None =>
            /\ s.lease # None
            /\ answer.status.authorizationId = s.lease.authorizationId
      BY <1>1, <1>2, <2>1 DEF Honest, Verified, Belongs, WellFormed
    <3> QED
      BY <3>1, <3>2, <3>3
  <2>2. CASE answer.lease # None
    <3> DEFINE l == answer.lease
    <3>1. /\ leased.highestGeneration = answer.lease.generation
          /\ leased.authorizationId = answer.lease.authorizationId
      <4>1. keyed \in State
        BY <1>5 DEF Advances
      <4>2. CASE fresh
        BY <1>1, <1>2, <2>2, <4>1, <4>2, NewEpochShape
      <4>3. CASE ~ fresh
        <5>1. /\ s.lease # None /\ r.endpoint = "renew"
              /\ s.lease.authorizationId = answer.lease.authorizationId
          BY <1>1, <2>2, <4>3 DEF Honest, Belongs
        <5>2. s.lease.authorizationId = s.authorizationId
          BY <1>1, <5>1 DEF Sound, Reloads
        <5>3. answer.lease.generation >= keyed.highestGeneration
          BY <1>1, <1>5, <2>2, <5>1 DEF Newer
        <5>4. l \in Lease /\ leased = AdoptLease(keyed, l, fresh)
          BY <1>2, <2>2
        <5> HIDE DEF l, leased
        <5>5. /\ leased.highestGeneration = l.generation
              /\ leased.authorizationId = keyed.authorizationId
          BY <1>1, <4>1, <4>3, <5>3, <5>4, RenewedShape DEF l
        <5> QED
          BY <1>5, <5>1, <5>2, <5>4, <5>5 DEF l
      <4> QED
        BY <4>2, <4>3
    <3>2. answer.framed
      BY <1>1, <1>2, <2>2 DEF Honest
    <3>3. answer.status # None =>
             answer.status.authorizationId = answer.lease.authorizationId
      BY <2>2, <3>2 DEF Verified
    <3> QED
      BY <1>7, <2>2, <3>1, <3>3, NoneAssumption
  <2> QED
    BY <2>1, <2>2
<1> HIDE DEF leased
<1>9. /\ Advances(s, known, svc)
      /\ known.authorizationId = leased.authorizationId
      /\ known.highestGeneration = leased.highestGeneration
  <2>1. CASE answer.status = None
    BY <1>7, <2>1
  <2>2. CASE answer.status # None
    <3> DEFINE st == answer.status
    <3>1. /\ st \in Status /\ leased.lease # None
          /\ leased.lease.generation = leased.highestGeneration
          /\ st.authorizationId = leased.authorizationId
      BY <1>2, <1>8, <2>2
    <3>2. /\ st.authorizationId \in 1 .. Len(svc.grants)
          /\ st.sequence <= svc.sequence
          /\ st.minimumGeneration
                <= svc.grants[st.authorizationId].minimumGeneration
          /\ st.grantStatus \in {"ended", "revoked"} =>
                svc.grants[st.authorizationId].state = st.grantStatus
          /\ st.revokedSigningKeyIds \subseteq svc.revokedSigningKeyIds
      BY <1>1, <2>2 DEF Truthful
    <3>3. /\ st.sequence >= s.statusSequence
          /\ st.authorizationId = s.authorizationId =>
                st.minimumGeneration >= s.minimumGeneration
      BY <1>1, <2>2 DEF Newer
    <3> HIDE DEF st
    <3>4. LET u == AdoptStatus(leased, st)
          IN  /\ Advances(s, u, svc)
              /\ u.authorizationId = leased.authorizationId
              /\ u.highestGeneration = leased.highestGeneration
      BY <1>1, <1>7, <3>1, <3>2, <3>3, StatusAdvances
    <3> QED
      BY <2>2, <3>4 DEF st
  <2> QED
    BY <2>1, <2>2
<1> HIDE DEF known
<1>10. CASE answer.decision = None
  BY <1>6, <1>9, <1>10 DEF final
<1>11. CASE answer.decision # None
  <2> DEFINE d == answer.decision
  <2>1. known \in State /\ d \in Decision
    BY <1>2, <1>9, <1>11 DEF Advances
  <2>2. final \in State /\ final = ApplyDecision(known, d)
    BY <1>6, <1>11, <2>1, ApplyDecisionType
  <2>3. /\ SameMarks(known, final)
        /\ \/ SameLease(known, final)
           \/ Gone(final, TRUE) /\ d.leaseDisposition = "revoked"
           \/ Gone(final, FALSE) /\ d.leaseDisposition = "ended"
    BY <2>1, <2>2, ApplyDecisionShape
  <2>4. CASE SameLease(known, final)
    <3>1. Known(known, svc) /\ Accounted(known) /\ Follows(s, known)
      BY <1>9 DEF Advances
    <3>2. Known(final, svc) /\ Accounted(final)
      BY <2>1, <2>2, <2>3, <2>4, <3>1, KeptIsKnown
    <3>3. Follows(s, final)
      BY <1>1, <2>1, <2>2, <2>3, <2>4, <3>1, FollowsOn
    <3> QED
      BY <2>2, <3>2, <3>3 DEF Advances, final
  <2>5. CASE ~ SameLease(known, final)
    <3>1. PICK isRevoked \in BOOLEAN :
             /\ Gone(final, isRevoked)
             /\ d.leaseDisposition = IF isRevoked THEN "revoked" ELSE "ended"
      BY <2>3, <2>5
    <3>2. answer.lease = None
      BY <1>1, <1>11 DEF Truthful
    <3>3. /\ known.authorizationId = s.authorizationId
          /\ known.highestGeneration = s.highestGeneration
      BY <1>5, <1>7, <1>9, <3>2
    <3>4. /\ s.lease # None /\ s.authorizationId # 0
          /\ IF isRevoked
             THEN GivenUp(svc, s.authorizationId, s.highestGeneration)
             ELSE svc.grants[s.authorizationId].state = "ended"
      BY <1>11, <3>1, VerdictOfFitting
    <3> HIDE DEF d
    <3>5. Advances(s, final, svc)
      BY <1>1, <1>9, <2>2, <2>3, <3>1, <3>3, <3>4, VerdictAdvances
    <3> QED
      BY <3>5 DEF final
  <2> QED
    BY <2>4, <2>5
<1> QED
  BY <1>10, <1>11

-----------------------------------------------------------------------------
(* The states an operation may save, and what each does to the file.       *)

\* accept keeps the retained key, and without a lease it keeps the epoch.
LEMMA AcceptKeeps ==
    ASSUME NEW s \in State, NEW r \in PreparedRequest,
           NEW answer \in Answer, NEW fresh \in BOOLEAN
    PROVE  LET t == Accept(s, r, answer, fresh)
           IN  /\ t.storedLicenseKey = s.storedLicenseKey
               /\ answer.lease = None =>
                     /\ t.authorizationId = s.authorizationId
                     /\ t.highestGeneration = s.highestGeneration
<1> DEFINE K      == ResponseKeyset(r, answer)
           ts     == s.keyTransitions \o answer.keyTransitions
           keyed  == [s EXCEPT !.keyTransitions = @ \o answer.keyTransitions,
                               !.keysetSequence = K]
           leased == IF answer.lease = None THEN keyed
                     ELSE AdoptLease(keyed, answer.lease, fresh)
           known  == IF answer.status = None THEN leased
                     ELSE AdoptStatus(leased, answer.status)
<1>1. ts \in Seq(Nat) /\ K \in Nat
  BY ResponseKeysetType, ConcatProperties DEF State, Answer
<1>2. /\ keyed \in State /\ keyed.storedLicenseKey = s.storedLicenseKey
      /\ keyed.authorizationId = s.authorizationId
      /\ keyed.highestGeneration = s.highestGeneration
  <2>1. keyed = [s EXCEPT !.keyTransitions = ts, !.keysetSequence = K]
    BY DEF State
  <2> HIDE DEF keyed, ts, K
  <2> QED
    BY <1>1, <2>1 DEF State
<1> HIDE DEF keyed
<1>3. ASSUME NEW base \in State, NEW isRevoked \in BOOLEAN
      PROVE  Retire(base, isRevoked).storedLicenseKey = base.storedLicenseKey
  BY DEF Retire, State
<1>4. ASSUME NEW base \in State
      PROVE  [base EXCEPT !.serverExpired = TRUE].storedLicenseKey
                = base.storedLicenseKey
  BY DEF State
<1>5. /\ leased \in State /\ leased.storedLicenseKey = s.storedLicenseKey
      /\ answer.lease = None => leased = keyed
  <2>1. CASE answer.lease = None
    BY <1>2, <2>1
  <2>2. CASE answer.lease # None
    <3> DEFINE l == answer.lease
               base == IF fresh THEN NewEpoch(keyed, l) ELSE keyed
               highest == IF base.highestGeneration >= l.generation
                          THEN base.highestGeneration ELSE l.generation
    <3>1. l \in Lease /\ leased = AdoptLease(keyed, l, fresh)
      BY <2>2 DEF Answer
    <3>2. leased \in State
      BY <1>2, <3>1, AdoptLeaseType
    <3>3. /\ base \in State
          /\ base.storedLicenseKey = keyed.storedLicenseKey
      <4>1. /\ NewEpoch(keyed, l) \in State
            /\ NewEpoch(keyed, l).storedLicenseKey = keyed.storedLicenseKey
        <5>1. keyed \in State
          BY <1>2
        <5> HIDE DEF l, keyed
        <5> QED
          BY <3>1, <5>1, NewEpochType
      <4> QED
        BY <1>2, <4>1
    <3>4. leased = [base EXCEPT !.lease = l, !.highestGeneration = highest,
                                !.serverExpired = FALSE]
      BY <3>1 DEF AdoptLease
    <3> HIDE DEF base, highest, leased
    <3>5. leased.storedLicenseKey = base.storedLicenseKey
      BY <3>3, <3>4 DEF State
    <3> QED
      BY <1>2, <2>2, <3>2, <3>3, <3>5
  <2> QED
    BY <2>1, <2>2
<1> HIDE DEF leased
<1>6. /\ known \in State /\ known.storedLicenseKey = s.storedLicenseKey
      /\ known.authorizationId = leased.authorizationId
      /\ known.highestGeneration = leased.highestGeneration
  <2>1. CASE answer.status = None
    BY <1>5, <2>1
  <2>2. CASE answer.status # None
    <3> DEFINE st == answer.status
               m  == [leased EXCEPT !.status = st,
                                    !.statusSequence = st.sequence,
                                    !.minimumGeneration = st.minimumGeneration]
    <3>1. st \in Status /\ known = ApplyStatus(m, st)
      BY <2>2 DEF Answer, AdoptStatus
    <3>2. st.sequence \in Nat /\ st.minimumGeneration \in Nat
      BY <3>1 DEF Status
    <3>3. /\ m \in State /\ m.storedLicenseKey = leased.storedLicenseKey
          /\ m.authorizationId = leased.authorizationId
          /\ m.highestGeneration = leased.highestGeneration
      BY <1>5, <3>1, <3>2 DEF State
    <3> HIDE DEF m, st, known
    <3>4. ApplyStatus(m, st).storedLicenseKey = m.storedLicenseKey
      BY <1>3, <1>4, <3>3 DEF ApplyStatus
    <3> QED
      BY <1>5, <3>1, <3>3, <3>4, ApplyStatusShape, ApplyStatusType
         DEF SameMarks
  <2> QED
    BY <2>1, <2>2
<1> HIDE DEF known
<1>7. Accept(s, r, answer, fresh) = IF answer.decision = None THEN known
                                    ELSE ApplyDecision(known, answer.decision)
  BY DEF Accept, known, leased, keyed
<1>8. CASE answer.decision = None
  BY <1>2, <1>5, <1>6, <1>7, <1>8
<1>9. CASE answer.decision # None
  <2> DEFINE d == answer.decision
  <2>1. d \in Decision /\ Accept(s, r, answer, fresh) = ApplyDecision(known, d)
    BY <1>7, <1>9 DEF Answer
  <2> HIDE DEF d
  <2>2. ApplyDecision(known, d).storedLicenseKey = known.storedLicenseKey
    BY <1>3, <1>4, <1>6 DEF ApplyDecision
  <2>3. SameMarks(known, ApplyDecision(known, d))
    BY <1>6, <2>1, ApplyDecisionShape
  <2> QED
    BY <1>2, <1>5, <1>6, <2>1, <2>2, <2>3 DEF SameMarks
<1> QED
  BY <1>8, <1>9

\* Saving the state again advances it.
LEMMA AdvancesItself ==
    ASSUME NEW s, NEW svc, Working(s, svc)
    PROVE  Advances(s, s, svc)
<1>1. s \in State /\ SameMarks(s, s) /\ SameLease(s, s)
  BY DEF Working, SameMarks, SameLease
<1> QED
  BY <1>1, FollowsItself DEF Advances, Working

\* The retained key and the name of the lease's time may change freely.
LEMMA AdvancesAlike ==
    ASSUME NEW s \in State, NEW t, NEW u \in State, NEW svc,
           Advances(s, t, svc), SameMarks(t, u), SameLease(t, u)
    PROVE  Advances(s, u, svc)
<1>1. /\ t \in State /\ Known(t, svc) /\ Accounted(t) /\ Follows(s, t)
  BY DEF Advances
<1>2. Known(u, svc) /\ Accounted(u)
  BY <1>1, KeptIsKnown
<1>3. Follows(s, u)
  BY <1>1, FollowsOn
<1> QED
  BY <1>2, <1>3 DEF Advances

\* Replacing the retained key touches nothing else.
LEMMA ForgetKeyAlike ==
    ASSUME NEW s \in State, NEW k \in Keys \cup {None}
    PROVE  LET t == [s EXCEPT !.storedLicenseKey = k]
           IN  /\ t \in State /\ SameMarks(s, t) /\ SameLease(s, t)
               /\ t.storedLicenseKey = k
  BY DEF State, SameMarks, SameLease

\* The retained key of the state t is that of s, or the service has signed
\* that it does not know it.
KeyFollows(s, t, r, answer, forget) ==
    \/ t.storedLicenseKey = s.storedLicenseKey
    \/ /\ t.storedLicenseKey = None
       /\ forget
       /\ answer.decision # None
       /\ answer.decision.responseCode = "KEY_NOT_FOUND"

\* Every state execute saves advances the one the operation works on or
\* the one it reloads.
LEMMA ExecuteAdvances ==
    ASSUME NEW s, NEW reloaded, NEW svc, NEW r, NEW answer, NEW fresh,
           NEW forget \in BOOLEAN, Working(s, svc), Working(reloaded, svc),
           Fitting(r, answer, s, fresh, svc),
           NEW t \in ExecuteSaves(s, reloaded, r, answer, fresh, forget)
    PROVE  \E b \in {s, reloaded} : /\ Advances(b, t, svc)
                                    /\ KeyFollows(b, t, r, answer, forget)
<1> DEFINE signed   == \/ answer.lease # None
                       \/ answer.status # None
                       \/ answer.decision # None
           missing  == /\ forget /\ answer.decision # None
                       /\ answer.decision.responseCode = "KEY_NOT_FOUND"
           accepted == IF ~ signed THEN s
                       ELSE IF IsStale(answer) THEN reloaded
                       ELSE Accept(s, r, answer, fresh)
           final    == IF missing THEN [accepted EXCEPT !.storedLicenseKey = None]
                       ELSE accepted
           b        == IF signed /\ IsStale(answer) THEN reloaded ELSE s
<1>1. /\ s \in State /\ reloaded \in State /\ r \in PreparedRequest
      /\ answer \in Answer /\ fresh \in BOOLEAN
  BY DEF Working, Fitting
<1>2. /\ Verified(s, r, answer)
      /\ signed => Acceptable(s, r, answer, fresh)
      /\ t \in {accepted, final}
  BY DEF ExecuteSaves
<1>3. /\ Advances(b, accepted, svc)
      /\ accepted.storedLicenseKey = b.storedLicenseKey
  <2>1. CASE ~ signed \/ IsStale(answer)
    <3>1. accepted = b
      BY <2>1
    <3>2. Working(b, svc)
      OBVIOUS
    <3> HIDE DEF b, accepted
    <3> QED
      BY <3>1, <3>2, AdvancesItself
  <2>2. CASE signed /\ ~ IsStale(answer)
    <3>1. b = s /\ accepted = Accept(s, r, answer, fresh)
      BY <2>2
    <3> HIDE DEF b, accepted
    <3>2. Advances(s, Accept(s, r, answer, fresh), svc)
      BY <1>2, <2>2, AcceptAdvances
    <3> QED
      BY <1>1, <3>1, <3>2, AcceptKeeps
  <2> QED
    BY <2>1, <2>2
<1>4. b \in State /\ b \in {s, reloaded}
  BY <1>1
<1>5. CASE t = accepted
  BY <1>3, <1>4, <1>5 DEF KeyFollows
<1>6. CASE missing /\ t = [accepted EXCEPT !.storedLicenseKey = None]
  <2> HIDE DEF accepted, b
  <2>1. accepted \in State
    BY <1>3 DEF Advances
  <2>2. /\ t \in State /\ SameMarks(accepted, t) /\ SameLease(accepted, t)
        /\ t.storedLicenseKey = None
    BY <1>6, <2>1, ForgetKeyAlike
  <2>3. Advances(b, t, svc)
    BY <1>3, <1>4, <2>2, AdvancesAlike
  <2> QED
    BY <1>4, <1>6, <2>2, <2>3 DEF KeyFollows
<1> QED
  BY <1>2, <1>5, <1>6

\* Every state end saves advances the one the operation works on.
LEMMA EndAdvances ==
    ASSUME NEW s, NEW svc, NEW r, NEW answer,
           NEW fresh \in BOOLEAN, ~ fresh,
           Working(s, svc), Fitting(r, answer, s, fresh, svc),
           NEW t \in EndSaves(s, r, answer)
    PROVE  /\ Advances(s, t, svc)
           /\ t.storedLicenseKey = s.storedLicenseKey
<1> DEFINE accepted == Accept(s, r, answer, FALSE)
           done     == /\ answer.decision # None
                       /\ \/ answer.decision.responseCode = "LEASE_ENDED"
                          \/ answer.decision.leaseDisposition = "ended"
<1>1. /\ s \in State /\ r \in PreparedRequest /\ answer \in Answer
      /\ Accounted(s) /\ Truthful(r, answer, svc) /\ fresh = FALSE
  BY DEF Working, Fitting
<1>2. CASE t = s
  BY <1>2, AdvancesItself
<1>3. CASE t # s
  <2>1. /\ Verified(s, r, answer) /\ Acceptable(s, r, answer, FALSE)
        /\ ~ IsStale(answer)
        /\ t = accepted \/ (done /\ t = Retire(accepted, FALSE))
    BY <1>3 DEF EndSaves
  <2>2. Advances(s, accepted, svc)
    BY <1>1, <2>1, AcceptAdvances
  <2>3. /\ accepted.storedLicenseKey = s.storedLicenseKey
        /\ answer.lease = None =>
              /\ accepted.authorizationId = s.authorizationId
              /\ accepted.highestGeneration = s.highestGeneration
    BY <1>1, AcceptKeeps
  <2> HIDE DEF accepted
  <2>4. CASE t = accepted
    BY <2>2, <2>3, <2>4
  <2>5. CASE done /\ t = Retire(accepted, FALSE)
    <3>1. accepted \in State
      BY <2>2 DEF Advances
    <3>2. /\ t \in State /\ SameMarks(accepted, t) /\ Gone(t, FALSE)
      BY <2>5, <3>1, RetireType, RetireShape
    <3>3. t.storedLicenseKey = accepted.storedLicenseKey
      BY <2>5, <3>1 DEF Retire, State
    <3>4. /\ s.lease # None /\ s.authorizationId # 0
          /\ svc.grants[s.authorizationId].state = "ended"
      BY <2>5, VerdictOfFitting
    <3>5. accepted.authorizationId = s.authorizationId
      BY <1>1, <2>3, <2>5 DEF Truthful
    <3>6. Advances(s, t, svc)
      BY <1>1, <2>2, <3>2, <3>4, <3>5, VerdictAdvances
    <3> QED
      BY <2>3, <3>3, <3>6
  <2> QED
    BY <2>1, <2>4, <2>5
<1> QED
  BY <1>2, <1>3

-----------------------------------------------------------------------------
(* Why an answer passes the checks of process and accept.                  *)

\* A framed answer brings the key transitions up to the one that signed it,
\* and its status is about the lease it is asked of or brings.
InForm(r, answer) ==
    LET K     == r.keysetSequence + Len(answer.keyTransitions)
        owner == IF answer.lease # None THEN answer.lease ELSE r.presentedLease
    IN  answer.framed =>
          /\ answer.lease # None => answer.lease.signingKeyId = K
          /\ answer.status # None =>
                /\ answer.status.keysetSequence = K
                /\ owner # None =>
                      answer.status.authorizationId = owner.authorizationId
          /\ answer.http = "success" => answer.status # None
          /\ answer.http # "success" =>
                answer.decision # None /\ answer.problem # None

\* Every answer the service gives has that form.
LEMMA AnswersInForm ==
    ASSUME service \in Service, NEW r \in PreparedRequest,
           WellFormed(r, Len(service.grants)),
           r.keysetSequence <= service.keysetSequence, NEW o \in Outcomes(r)
    PROVE  InForm(r, o.answer)
<1>1. CASE Bare(o)
  <2>1. o.answer.framed = FALSE
    BY <1>1 DEF Bare, Outcome, Unframed
  <2> QED
    BY <2>1 DEF InForm
<1>2. CASE Refused(o, r)
  <2>1. PICK http \in {"denied", "busy"}, code \in Codes, d \in Dispositions :
           o = Outcome(service, Refusal(http, service, r, code, d))
    BY <1>2 DEF Refused
  <2>2. /\ o.answer.keyTransitions = MissingTransitions(service, r)
        /\ o.answer.http = http /\ o.answer.lease = None
        /\ o.answer.decision = Verdict(code, d) /\ o.answer.problem = code
        /\ o.answer.status = IF r.presentedLease = None THEN None
                ELSE StatusOf(service, r.presentedLease.authorizationId)
    BY <2>1 DEF Outcome, Refusal
  <2>3. r.keysetSequence + Len(o.answer.keyTransitions)
           = service.keysetSequence
    <3>1. /\ r.keysetSequence \in Nat /\ service.keysetSequence \in Nat
      BY ServiceFields, ServerBounds DEF PreparedRequest
    <3> QED
      BY <2>2, <3>1, MissingLength
  <2>4. o.answer.status # None =>
           /\ o.answer.status.keysetSequence = service.keysetSequence
           /\ o.answer.status.authorizationId
                 = r.presentedLease.authorizationId
    BY <2>2 DEF StatusOf
  <2>5. o.answer.decision # None
    BY <2>2, VerdictFields
  <2>6. code # None
    BY NoneAssumption
  <2> QED
    BY <2>2, <2>3, <2>4, <2>5, <2>6 DEF InForm
<1>3. CASE Granted(o, r)
  <2> DEFINE t == o.service
  <2>1. PICK a \in 1 .. Len(t.grants),
             lease \in Lease \cup {None}, decision \in Decision \cup {None} :
           /\ o.answer = Success(t, r, lease, a, decision)
           /\ IF r.endpoint = "authorize" THEN a = Len(service.grants) + 1
              ELSE a = r.presentedLease.authorizationId
           /\ lease = IF r.endpoint \in {"authorize", "renew"}
                      THEN LeaseOf(t, a) ELSE None
    BY <1>3 DEF Granted
  <2>2. t \in Service /\ Evolves(service, t)
    BY <1>3 DEF Granted
  <2>3. /\ o.answer.keyTransitions = MissingTransitions(t, r)
        /\ o.answer.http = "success" /\ o.answer.lease = lease
        /\ o.answer.status = StatusOf(t, a)
    BY <2>1 DEF Success
  <2> HIDE DEF t
  <2>4. r.keysetSequence + Len(o.answer.keyTransitions) = t.keysetSequence
    <3>1. /\ r.keysetSequence \in Nat /\ service.keysetSequence \in Nat
          /\ t.keysetSequence \in Nat
      BY <2>2, ServiceFields, ServerBounds DEF PreparedRequest
    <3>2. r.keysetSequence <= t.keysetSequence
      BY <2>2, <3>1 DEF Evolves
    <3> QED
      BY <2>2, <2>3, <3>1, <3>2, MissingLength
  <2>5. /\ StatusOf(t, a).keysetSequence = t.keysetSequence
        /\ StatusOf(t, a).authorizationId = a
        /\ lease # None => /\ lease.signingKeyId = t.keysetSequence
                           /\ lease.authorizationId = a
    BY <2>1 DEF StatusOf, LeaseOf
  <2>6. StatusOf(t, a) # None
    BY <2>2, StatusOfType, NoneAssumption
  <2>7. /\ lease = None /\ r.presentedLease # None =>
              a = r.presentedLease.authorizationId
    <3>1. LeaseOf(t, a) # None
      BY <2>2, LeaseOfType, NoneAssumption
    <3> QED
      BY <2>1, <3>1 DEF WellFormed
  <2> QED
    BY <2>3, <2>4, <2>5, <2>6, <2>7 DEF InForm
<1> QED
  BY <1>1, <1>2, <1>3, OutcomeForms

\* Chained transitions with the missing ones appended are chained.
LEMMA ChainedExtends ==
    ASSUME NEW ts \in Seq(Nat), NEW k \in Nat, Chained(ts, k),
           NEW us \in Seq(Nat), \A i \in 1 .. Len(us) : us[i] = k + i
    PROVE  Chained(ts \o us, k + Len(us))
<1>1. /\ Len(ts \o us) = k + Len(us) /\ Len(us) \in Nat
      /\ \A i \in 1 .. k + Len(us) :
            (ts \o us)[i] = IF i <= k THEN ts[i] ELSE us[i - k]
  BY ConcatProperties, LenProperties DEF Chained
<1>2. ASSUME NEW i \in 1 .. k + Len(us)
      PROVE  (ts \o us)[i] = i
  <2>1. CASE i <= k
    <3>1. i \in 1 .. k
      BY <1>1, <2>1
    <3> QED
      BY <1>1, <2>1, <3>1 DEF Chained
  <2>2. CASE ~ (i <= k)
    <3>1. i - k \in 1 .. Len(us) /\ k + (i - k) = i
      BY <1>1, <2>2
    <3> QED
      BY <1>1, <2>2, <3>1
  <2> QED
    BY <2>1, <2>2
<1> QED
  BY <1>1, <1>2 DEF Chained

\* A chain up to a rotation is the history of that rotation.
LEMMA ChainedIsAuthentic ==
    ASSUME NEW ts \in Seq(Nat), NEW K \in Nat, Chained(ts, K)
    PROVE  Authentic(ts, K)
<1>1. DOMAIN ts = 1 .. K /\ Len(ts) = K /\ \A i \in 1 .. K : ts[i] = i
  BY LenProperties DEF Chained
<1>2. ASSUME NEW i \in 1 .. K
      PROVE  /\ ts[i] > IF i = 1 THEN 0 ELSE ts[i - 1]
             /\ ts[i] - 1 \in Ring([j \in 1 .. i - 1 |-> ts[j]])
  <2>1. CASE i = 1
    BY <1>1, <2>1 DEF Ring
  <2>2. CASE i # 1
    <3> DEFINE prefix == [j \in 1 .. i - 1 |-> ts[j]]
    <3>1. i - 1 \in 1 .. K /\ i - 1 \in 1 .. i - 1
      BY <2>2
    <3>2. ts[i] = i /\ ts[i - 1] = i - 1
      BY <1>1, <3>1
    <3>3. i - 1 \in DOMAIN prefix /\ prefix[i - 1] = i - 1
      BY <3>1, <3>2
    <3>4. i - 1 \in Ring(prefix)
      BY <3>3 DEF Ring
    <3> QED
      BY <2>2, <3>2, <3>4
  <2> QED
    BY <2>1, <2>2
<1>3. K = IF ts = <<>> THEN 0 ELSE ts[Len(ts)]
  <2>1. CASE K = 0
    BY <1>1, <2>1, EmptySeq
  <2>2. CASE K # 0
    BY <1>1, <2>2, EmptySeq
  <2> QED
    BY <2>1, <2>2
<1> QED
  BY <1>1, <1>2, <1>3 DEF Authentic

\* The keys of a history without gaps.
LEMMA ChainedRing ==
    ASSUME NEW ts \in Seq(Nat), NEW K \in Nat, Chained(ts, K)
    PROVE  0 .. K \subseteq Ring(ts)
<1>1. DOMAIN ts = 1 .. K /\ \A i \in 1 .. K : ts[i] = i
  BY LenProperties DEF Chained
<1>2. ASSUME NEW i \in 0 .. K PROVE i \in Ring(ts)
  <2>1. i = 0 \/ i \in 1 .. K
    OBVIOUS
  <2> QED
    BY <1>1, <2>1 DEF Ring
<1> QED
  BY <1>2

\* A truthful answer that belongs to the state that asked is never refused.
LEMMA FreshAccepted ==
    ASSUME NEW s \in State, NEW n \in Nat, Sound(s, n),
           NEW r \in PreparedRequest, NEW answer \in Answer,
           NEW fresh \in BOOLEAN, WellFormed(r, n), Belongs(r, s, fresh),
           Asks(r, s), r.endpoint # "end", answer.framed,
           Honest(r, answer, n), InForm(r, answer), Newer(r, answer, s)
    PROVE  /\ Verified(s, r, answer)
           /\ Acceptable(s, r, answer, fresh)
<1> DEFINE k  == s.keysetSequence
           ts == answer.keyTransitions
           K  == k + Len(ts)
           st == answer.status
<1>1. /\ s.keyTransitions \in Seq(Nat) /\ k \in Nat /\ ts \in Seq(Nat)
      /\ Len(ts) \in Nat /\ K \in Nat /\ DOMAIN ts = 1 .. Len(ts)
      /\ s.statusSequence \in Nat
  BY LenProperties DEF State, Answer
<1>2. /\ r.keysetSequence = k /\ r.statusSequence = s.statusSequence
      /\ Chained(s.keyTransitions, k) /\ Reloads(s)
      /\ \A i \in 1 .. Len(ts) : ts[i] = k + i
  BY DEF Asks, Sound, Honest
<1> HIDE DEF k, ts, K, st
<1>3. /\ Chained(s.keyTransitions \o ts, K)
      /\ Authentic(s.keyTransitions \o ts, K)
  BY <1>1, <1>2, ChainedExtends, ChainedIsAuthentic, ConcatProperties DEF K
<1>4. 0 .. k \subseteq Ring(s.keyTransitions)
  BY <1>1, <1>2, ChainedRing
<1>5. K \in Ring(s.keyTransitions) \cup Ring(ts)
  <2>1. CASE Len(ts) = 0
    BY <1>1, <1>4, <2>1 DEF K
  <2>2. CASE Len(ts) # 0
    <3>1. Len(ts) \in DOMAIN ts /\ ts[Len(ts)] = K
      BY <1>1, <1>2, <2>2 DEF K
    <3> QED
      BY <3>1 DEF Ring
  <2> QED
    BY <2>1, <2>2
<1>6. ASSUME NEW i \in DOMAIN ts
      PROVE  /\ ts[i] > IF i = 1 THEN r.keysetSequence ELSE ts[i - 1]
             /\ ts[i] - 1 \in Ring(s.keyTransitions)
                                \cup Ring([j \in 1 .. i - 1 |-> ts[j]])
  <2>1. i \in 1 .. Len(ts) /\ ts[i] = k + i
    BY <1>1, <1>2
  <2>2. CASE i = 1
    BY <1>1, <1>2, <1>4, <2>1, <2>2
  <2>3. CASE i # 1
    <3> DEFINE prefix == [j \in 1 .. i - 1 |-> ts[j]]
    <3>1. i - 1 \in 1 .. Len(ts) /\ i - 1 \in 1 .. i - 1
      BY <1>1, <2>1, <2>3
    <3>2. ts[i - 1] = k + (i - 1)
      BY <1>2, <3>1
    <3>3. i - 1 \in DOMAIN prefix /\ prefix[i - 1] = k + (i - 1)
      BY <3>1, <3>2
    <3>4. k + (i - 1) \in Ring(prefix)
      BY <3>3 DEF Ring
    <3>5. ts[i] - 1 = k + (i - 1) /\ ts[i] > ts[i - 1]
      BY <1>1, <2>1, <3>2
    <3> QED
      BY <2>3, <3>4, <3>5
  <2> QED
    BY <2>2, <2>3
<1>7. /\ answer.lease # None => answer.lease.signingKeyId = K
      /\ st # None =>
            /\ st.keysetSequence = K
            /\ st.sequence >= s.statusSequence
            /\ LET owner == IF answer.lease # None THEN answer.lease
                            ELSE r.presentedLease
               IN  owner # None => st.authorizationId = owner.authorizationId
      /\ answer.http = "success" => st # None
      /\ answer.http # "success" =>
            answer.decision # None /\ answer.problem # None
  BY <1>2 DEF InForm, Newer, K, ts, st
<1>8. r.presentedLease # None =>
         r.presentedLease.signingKeyId \in Ring(s.keyTransitions)
  <2>1. r.presentedLease # None => r.presentedLease = s.lease
    <3>1. r.endpoint \in {"authorize", "renew", "status"}
      BY DEF PreparedRequest, Endpoints
    <3> QED
      BY <3>1 DEF WellFormed, Asks
  <2> QED
    BY <1>2, <2>1 DEF Reloads
<1>9. K >= IF ts = <<>> THEN k ELSE ts[Len(ts)]
  <2>1. CASE Len(ts) = 0
    BY <1>1, <2>1, EmptySeq DEF K
  <2>2. CASE Len(ts) # 0
    <3>1. ts # <<>> /\ ts[Len(ts)] = K
      BY <1>1, <1>2, <2>2, EmptySeq DEF K
    <3> QED
      BY <1>1, <3>1
  <2> QED
    BY <2>1, <2>2
<1>10. ResponseKeyset(r, answer) = K
  <2> DEFINE delivered == IF Len(ts) = 0 THEN r.keysetSequence
                          ELSE ts[Len(ts)]
  <2>1. delivered = K
    <3>1. CASE Len(ts) = 0
      BY <1>1, <1>2, <3>1 DEF K
    <3>2. CASE Len(ts) # 0
      BY <1>1, <1>2, <3>2 DEF K
    <3> QED
      BY <3>1, <3>2
  <2> HIDE DEF delivered
  <2>2. ResponseKeyset(r, answer) =
          IF st # None /\ st.keysetSequence > delivered
          THEN st.keysetSequence ELSE delivered
    BY DEF ResponseKeyset, delivered, ts, st
  <2> QED
    BY <1>1, <1>7, <2>1, <2>2
<1>11. Verified(s, r, answer)
  BY <1>1, <1>2, <1>5, <1>6, <1>7, <1>8, <1>9 DEF Verified, ts, st
<1>12. /\ K >= s.keysetSequence
       /\ ~ fresh /\ answer.lease # None =>
             answer.lease.generation >= s.highestGeneration
  <2>1. K >= k
    BY <1>1 DEF K
  <2>2. ~ fresh => r.endpoint # "authorize"
    BY DEF Belongs
  <2> QED
    BY <2>1, <2>2 DEF Newer, k
<1> QED
  BY <1>3, <1>7, <1>10, <1>11, <1>12 DEF Acceptable, ts, st

=============================================================================
