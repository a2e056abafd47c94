----------------------- MODULE PersistentSessionProofs -----------------------
(***************************************************************************)
(* Theorems of PersistentSession, and of the calls to easyAuthorize in it, *)
(* for every number of processes, license keys, epochs, generations and    *)
(* rotations. Those up to HonestAnswersPass hold whether or not opening a  *)
(* session may overlap an operation; those after it assume that it does    *)
(* not (OpenOverlaps = FALSE), which the code leaves to the application:   *)
(* the run StaleOpen shows what it is for.                                 *)
(***************************************************************************)
EXTENDS EasyAuthorize, SessionStateProofs, FiniteSetTheorems

\* The operation p is in: its request is about the lease p works on, and
\* what was answered is honest.
InExchange(p) ==
    LET x == exchange[p]
        n == Len(service.grants)
    IN  /\ disk # None /\ memory[p] # None /\ x # None
        /\ WellFormed(x.request, n)
        /\ Belongs(x.request, memory[p], x.freshAuthorization)
        /\ x.answer # None => Honest(x.request, x.answer, n)
        /\ phase[p] = "answered" => x.answer # None

\* The inductive strengthening of SavedStateReloads.
Consistent ==
    LET n == Len(service.grants)
    IN  /\ disk # None => Sound(disk, n)
        /\ \A p \in Procs :
              /\ memory[p] # None => Sound(memory[p], n)
              /\ phase[p] = "opening" => memory[p] # None
              /\ phase[p] \in {"sent", "answered"} => InExchange(p)
        /\ \A r \in stray : WellFormed(r, n)

Inv == TypeOK /\ Consistent

-----------------------------------------------------------------------------
(* The shapes steps are made of.                                           *)

LEMMA GrantCount ==
    ASSUME TypeOK
    PROVE  Len(service.grants) \in Nat
  BY ServiceFields DEF TypeOK

\* What is in the file or in a process's hands when an operation runs.
LEMMA Fields ==
    ASSUME Inv
    PROVE  LET n == Len(service.grants)
           IN  /\ disk # None => disk \in State /\ Sound(disk, n)
               /\ \A p \in Procs : memory[p] # None =>
                     memory[p] \in State /\ Sound(memory[p], n)
               /\ \A p \in Procs : phase[p] \in {"sent", "answered"} =>
                     /\ disk # None /\ memory[p] # None
                     /\ exchange[p] \in Exchange
                     /\ exchange[p].request \in PreparedRequest
                     /\ InExchange(p)
<1>1. \A p \in Procs : exchange[p] # None => exchange[p] \in Exchange
  BY DEF Inv, TypeOK, NoExchange
<1>2. \A p \in Procs : memory[p] # None => memory[p] \in State
  BY DEF Inv, TypeOK
<1>3. disk # None => disk \in State
  BY DEF Inv, TypeOK
<1>4. \A p \in Procs : phase[p] \in {"sent", "answered"} =>
         /\ disk # None /\ memory[p] # None /\ exchange[p] # None
         /\ InExchange(p)
  BY DEF Inv, Consistent, InExchange
<1>5. \A p \in Procs : phase[p] \in {"sent", "answered"} =>
         exchange[p] \in Exchange /\ exchange[p].request \in PreparedRequest
  BY <1>1, <1>4 DEF Exchange
<1> QED
  BY <1>2, <1>3, <1>4, <1>5 DEF Inv, Consistent

LEMMA PersistType ==
    ASSUME TypeOK, NEW s \in State, Persist(s)
    PROVE  disk' = s /\ retired' \in SUBSET Nat
<1>1. Over(s) \subseteq Nat
  BY DEF Over, State
<1> QED
  BY <1>1 DEF Persist, TypeOK

\* An operation goes out with a request that belongs to the state it saved.
LEMMA SendStep ==
    ASSUME Inv, NEW p \in Procs, NEW s \in State,
           Sound(s, Len(service.grants)),
           disk # None, disk' = disk \/ disk' = s, retired' \in SUBSET Nat,
           NEW request \in PreparedRequest,
           WellFormed(request, Len(service.grants)),
           NEW fresh \in BOOLEAN, NEW forget \in BOOLEAN,
           Belongs(request, s, fresh),
           Send(p, s, request, fresh, forget),
           ends' \in SUBSET PreparedRequest, IsFiniteSet(ends')
    PROVE  Inv'
<1> DEFINE x == [request |-> request, answer |-> None,
                 freshAuthorization |-> fresh, forgetMissingKey |-> forget]
           n == Len(service.grants)
<1>1. /\ x \in Exchange /\ x.request = request /\ x.answer = None
      /\ x.freshAuthorization = fresh /\ x # None
  <2>1. x \in Exchange
    BY DEF Exchange
  <2>2. x # None
    BY <2>1, SessionAssumption
  <2> QED
    BY <2>1, <2>2
<1>2. /\ service' = service /\ bootstrapLock' = bootstrapLock
      /\ stray' = stray /\ installationLock' = p
      /\ memory' = [memory EXCEPT ![p] = s]
      /\ phase' = [phase EXCEPT ![p] = "sent"]
      /\ exchange' = [exchange EXCEPT ![p] = x]
  BY DEF Send
<1> HIDE DEF x
<1>3. TypeOK'
  <2>1. disk' \in State
    BY DEF Inv, TypeOK
  <2>2. memory' \in [Procs -> State \cup {None}]
    BY <1>2 DEF Inv, TypeOK
  <2>3. phase' \in [Procs -> Phase]
    BY <1>2 DEF Inv, TypeOK, Phase
  <2>4. exchange' \in [Procs -> Exchange \cup {NoExchange}]
    BY <1>1, <1>2 DEF Inv, TypeOK
  <2> QED
    BY <1>2, <2>1, <2>2, <2>3, <2>4 DEF Inv, TypeOK
<1>4. s # None
  BY NoneAssumption
<1>5. Consistent'
  <2>1. disk' # None /\ Sound(disk', n)
    BY <1>4 DEF Inv, Consistent
  <2>2. \A q \in Procs : memory'[q] # None => Sound(memory'[q], n)
    BY <1>2 DEF Inv, Consistent, TypeOK
  <2>3. \A q \in Procs : phase'[q] = "opening" => memory'[q] # None
    BY <1>2 DEF Inv, Consistent, TypeOK
  <2>4. ASSUME NEW q \in Procs, phase'[q] \in {"sent", "answered"}
        PROVE  InExchange(q)'
    <3>1. CASE q = p
      <4>1. /\ memory'[p] = s /\ exchange'[p] = x /\ phase'[p] = "sent"
        BY <1>2 DEF Inv, TypeOK
      <4> QED
        BY <1>1, <1>2, <1>4, <2>1, <3>1, <4>1 DEF InExchange
    <3>2. CASE q # p
      <4>1. /\ memory'[q] = memory[q] /\ exchange'[q] = exchange[q]
            /\ phase'[q] = phase[q]
        BY <1>2, <3>2 DEF Inv, TypeOK
      <4>2. InExchange(q)
        BY <2>4, <4>1 DEF Inv, Consistent
      <4> QED
        BY <1>2, <2>1, <4>1, <4>2 DEF InExchange
    <3> QED
      BY <3>1, <3>2
  <2> QED
    BY <1>2, <2>1, <2>2, <2>3, <2>4 DEF Inv, Consistent
<1> QED
  BY <1>3, <1>5 DEF Inv

\* An operation is over: the file keeps its state or takes a sound one.
LEMMA FinishStep ==
    ASSUME Inv, NEW p \in Procs, Finish(p),
           disk' = disk \/ (disk' \in State /\ Sound(disk', Len(service.grants))),
           retired' \in SUBSET Nat, stray' \in SUBSET PreparedRequest,
           \A r \in stray' : WellFormed(r, Len(service.grants))
    PROVE  Inv'
<1> DEFINE n == Len(service.grants)
<1>1. /\ service' = service /\ bootstrapLock' = bootstrapLock
      /\ ends' = ends /\ installationLock' = None
      /\ memory' = [memory EXCEPT ![p] = None]
      /\ phase' = [phase EXCEPT ![p] = "ready"]
      /\ exchange' = [exchange EXCEPT ![p] = None]
  BY DEF Finish, NoExchange
<1>2. TypeOK'
  BY <1>1 DEF Inv, TypeOK, Phase, NoExchange
<1>3. Consistent'
  <2>1. /\ disk' # None => Sound(disk', n)
        /\ disk # None => disk' # None
    BY NoneAssumption DEF Inv, Consistent
  <2>2. \A q \in Procs : /\ memory'[q] # None => Sound(memory'[q], n)
                         /\ phase'[q] = "opening" => memory'[q] # None
    BY <1>1 DEF Inv, Consistent, TypeOK
  <2>3. ASSUME NEW q \in Procs, phase'[q] \in {"sent", "answered"}
        PROVE  InExchange(q)'
    <3>1. q # p /\ memory'[q] = memory[q] /\ exchange'[q] = exchange[q]
                /\ phase'[q] = phase[q]
      BY <1>1, <2>3 DEF Inv, TypeOK
    <3>2. InExchange(q)
      BY <2>3, <3>1 DEF Inv, Consistent
    <3> QED
      BY <1>1, <2>1, <3>1, <3>2 DEF InExchange
  <2> QED
    BY <1>1, <2>1, <2>2, <2>3 DEF Inv, Consistent
<1> QED
  BY <1>2, <1>3 DEF Inv

\* Client::prepare on a sound state, without and with a lease.
LEMMA PrepareAuthorize ==
    ASSUME NEW s \in State, NEW n \in Nat, Sound(s, n),
           NEW k \in Keys \cup {None}
    PROVE  LET r == Prepare("authorize", s, None, k, 0)
           IN  /\ r \in PreparedRequest /\ WellFormed(r, n)
               /\ Belongs(r, s, TRUE)
<1> DEFINE r == Prepare("authorize", s, None, k, 0)
<1>1. r \in PreparedRequest
  BY DEF Prepare, PreparedRequest, State, Endpoints
<1>2. /\ r.endpoint = "authorize" /\ r.presentedLease = None
      /\ r.keysetSequence = s.keysetSequence
  BY DEF Prepare
<1>3. s.keysetSequence <= MaxTransitions
  BY DEF Sound, Reloads, Chained
<1> HIDE DEF r
<1> QED
  BY <1>1, <1>2, <1>3 DEF WellFormed, Belongs, r

LEMMA PrepareLease ==
    ASSUME NEW s \in State, NEW n \in Nat, Sound(s, n), s.lease # None,
           NEW e \in {"renew", "status", "end"}, NEW jti \in Nat
    PROVE  LET r == Prepare(e, s, s.lease, None, jti)
           IN  /\ r \in PreparedRequest /\ WellFormed(r, n)
               /\ r.endpoint = e /\ r.presentedLease = s.lease
               /\ Belongs(r, s, FALSE)
<1> DEFINE r == Prepare(e, s, s.lease, None, jti)
<1>1. r \in PreparedRequest
  BY DEF Prepare, PreparedRequest, State, Endpoints
<1>2. /\ r.endpoint = e /\ r.presentedLease = s.lease
      /\ r.keysetSequence = s.keysetSequence
  BY DEF Prepare
<1>3. s.keysetSequence <= MaxTransitions
  BY DEF Sound, Reloads, Chained
<1>4. s.lease.authorizationId \in 1 .. n
  BY DEF Sound
<1> HIDE DEF r
<1> QED
  BY <1>1, <1>2, <1>3, <1>4 DEF WellFormed, Belongs, r

\* A change of the retained key or of the end bookkeeping keeps the rest.
LEMMA RetainKeySound ==
    ASSUME NEW s \in State, NEW n \in Nat, Sound(s, n),
           NEW k \in Keys \cup {None}
    PROVE  LET t == [s EXCEPT !.storedLicenseKey = k]
           IN  t \in State /\ Sound(t, n)
<1> DEFINE t == [s EXCEPT !.storedLicenseKey = k]
<1>1. t \in State
  BY DEF State
<1>2. /\ t.keyTransitions = s.keyTransitions
      /\ t.keysetSequence = s.keysetSequence
      /\ t.lease = s.lease /\ t.status = s.status
      /\ t.highestGeneration = s.highestGeneration
      /\ t.minimumGeneration = s.minimumGeneration
      /\ t.authorizationId = s.authorizationId
      /\ t.statusSequence = s.statusSequence
      /\ t.ended = s.ended /\ t.revoked = s.revoked
      /\ t.ending = s.ending /\ t.pendingEnd = s.pendingEnd
  BY DEF State
<1> HIDE DEF t
<1>3. Sound(t, n)
  BY <1>2 DEF Sound, Reloads
<1> QED
  BY <1>1, <1>3 DEF t

LEMMA TombstoneSound ==
    ASSUME NEW s \in State, NEW n \in Nat, Sound(s, n), s.lease # None,
           NEW r \in PreparedRequest, WellFormed(r, n), r.endpoint = "end",
           r.presentedLease = s.lease
    PROVE  LET t == [s EXCEPT !.pendingEnd = r, !.ending = TRUE]
           IN  t \in State /\ Sound(t, n) /\ t.lease = s.lease
<1> DEFINE t == [s EXCEPT !.pendingEnd = r, !.ending = TRUE]
<1>1. t \in State
  BY DEF State
<1>2. /\ t.keyTransitions = s.keyTransitions
      /\ t.keysetSequence = s.keysetSequence
      /\ t.lease = s.lease /\ t.status = s.status
      /\ t.highestGeneration = s.highestGeneration
      /\ t.minimumGeneration = s.minimumGeneration
      /\ t.authorizationId = s.authorizationId
      /\ t.statusSequence = s.statusSequence
      /\ t.ended = s.ended /\ t.revoked = s.revoked
      /\ t.ending = TRUE /\ t.pendingEnd = r
  BY DEF State
<1>3. r # None
  BY NoneAssumption
<1> HIDE DEF t
<1>4. Sound(t, n)
  BY <1>2, <1>3 DEF Sound, Reloads
<1> QED
  BY <1>1, <1>2, <1>4 DEF t

-----------------------------------------------------------------------------
(* One lemma per action.                                                   *)

LEMMA InitInv == Init => Inv
<1> SUFFICES ASSUME Init PROVE Inv
  OBVIOUS
<1> USE DEF Init
<1>1. service \in Service /\ Len(service.grants) = 0
  BY ServiceInitType
<1>2. ASSUME NEW k \in Keys \cup {None}
      PROVE  Migrated(k) \in State /\ Sound(Migrated(k), 0)
  BY FreshType, FreshSound, RetainKeySound DEF Migrated
<1>3. disk # None => disk \in State /\ Sound(disk, 0)
  BY <1>2
<1>4. TypeOK
  BY <1>1, <1>3, FS_EmptySet DEF TypeOK, Phase
<1>5. Consistent
  BY <1>1, <1>3 DEF Consistent
<1> QED
  BY <1>4, <1>5 DEF Inv

LEMMA OpenLoadStep ==
    ASSUME Inv, NEW p \in Procs, OpenLoad(p)
    PROVE  Inv'
<1> DEFINE s == IF disk = None THEN Fresh ELSE disk
           n == Len(service.grants)
<1>1. s \in State /\ Sound(s, n) /\ s # None
  <2>1. n \in Nat /\ 0 <= n
    BY GrantCount DEF Inv
  <2>2. Fresh \in State /\ Sound(Fresh, n)
    BY <2>1, FreshType, FreshSound, MoreEpochs
  <2> QED
    BY <2>2, Fields, NoneAssumption
<1>2. /\ service' = service /\ disk' = disk /\ exchange' = exchange
      /\ installationLock' = installationLock /\ stray' = stray
      /\ retired' = retired /\ ends' = ends /\ bootstrapLock' = p
      /\ memory' = [memory EXCEPT ![p] = s]
      /\ phase' = [phase EXCEPT ![p] = "opening"]
  BY DEF OpenLoad
<1> HIDE DEF s
<1>3. TypeOK'
  BY <1>1, <1>2 DEF Inv, TypeOK, Phase
<1>4. Consistent'
  <2>1. \A q \in Procs : /\ memory'[q] # None => Sound(memory'[q], n)
                         /\ phase'[q] = "opening" => memory'[q] # None
    BY <1>1, <1>2 DEF Inv, Consistent, TypeOK
  <2>2. ASSUME NEW q \in Procs, phase'[q] \in {"sent", "answered"}
        PROVE  InExchange(q)'
    <3>1. q # p /\ memory'[q] = memory[q] /\ phase'[q] = phase[q]
      BY <1>2, <2>2 DEF Inv, TypeOK
    <3>2. InExchange(q)
      BY <2>2, <3>1 DEF Inv, Consistent
    <3> QED
      BY <1>2, <3>1, <3>2 DEF InExchange
  <2> QED
    BY <1>2, <2>1, <2>2 DEF Inv, Consistent
<1> QED
  BY <1>3, <1>4 DEF Inv

LEMMA OpenPersistStep ==
    ASSUME Inv, NEW p \in Procs, OpenPersist(p)
    PROVE  Inv'
<1> DEFINE n == Len(service.grants)
           s == memory[p]
<1>1. s \in State /\ Sound(s, n) /\ s # None
  BY Fields DEF OpenPersist, Inv, Consistent
<1>2. disk' = s /\ retired' \in SUBSET Nat
  BY <1>1, PersistType DEF OpenPersist, Inv
<1>3. /\ service' = service /\ exchange' = exchange
      /\ installationLock' = installationLock /\ stray' = stray
      /\ ends' = ends /\ bootstrapLock' = None
      /\ memory' = [memory EXCEPT ![p] = None]
      /\ phase' = [phase EXCEPT ![p] = "ready"]
  BY DEF OpenPersist
<1> HIDE DEF s
<1>4. TypeOK'
  BY <1>1, <1>2, <1>3 DEF Inv, TypeOK, Phase
<1>5. Consistent'
  <2>1. \A q \in Procs : /\ memory'[q] # None => Sound(memory'[q], n)
                         /\ phase'[q] = "opening" => memory'[q] # None
    BY <1>3 DEF Inv, Consistent, TypeOK
  <2>2. ASSUME NEW q \in Procs, phase'[q] \in {"sent", "answered"}
        PROVE  InExchange(q)'
    <3>1. q # p /\ memory'[q] = memory[q] /\ phase'[q] = phase[q]
      BY <1>3, <2>2 DEF Inv, TypeOK
    <3>2. InExchange(q)
      BY <2>2, <3>1 DEF Inv, Consistent
    <3> QED
      BY <1>1, <1>2, <1>3, <3>1, <3>2 DEF InExchange
  <2> QED
    BY <1>1, <1>2, <1>3, <2>1, <2>2 DEF Inv, Consistent
<1> QED
  BY <1>4, <1>5 DEF Inv

LEMMA AuthorizeStep ==
    ASSUME Inv, NEW p \in Procs,
           \/ \E k \in Keys : AuthorizeWithKey(p, k) \/ AuthorizeWithStoredKey(p, k)
           \/ AuthorizeWithAccount(p)
    PROVE  Inv'
<1> DEFINE n == Len(service.grants)
<1>1. /\ disk # None /\ disk \in State /\ Sound(disk, n) /\ n \in Nat
  BY Fields, GrantCount
     DEF AuthorizeWithKey, AuthorizeWithStoredKey, AuthorizeWithAccount,
         CanBegin, Inv
<1>2. retired \in SUBSET Nat /\ ends \in SUBSET PreparedRequest
      /\ IsFiniteSet(ends)
  BY DEF Inv, TypeOK
<1>3. ASSUME NEW k \in Keys, AuthorizeWithKey(p, k)
      PROVE  Inv'
  <2> DEFINE s == [disk EXCEPT !.storedLicenseKey = k]
             r == Prepare("authorize", s, None, k, 0)
  <2>1. s \in State /\ Sound(s, n)
    BY <1>1, RetainKeySound
  <2>2. Persist(s) /\ Send(p, s, r, TRUE, TRUE) /\ ends' = ends
    BY <1>3 DEF AuthorizeWithKey
  <2> HIDE DEF s
  <2>3. disk' = s /\ retired' \in SUBSET Nat
    BY <2>1, <2>2, PersistType DEF Inv
  <2>4. r \in PreparedRequest /\ WellFormed(r, n) /\ Belongs(r, s, TRUE)
    BY <1>1, <2>1, PrepareAuthorize
  <2> HIDE DEF r
  <2> QED
    BY <1>1, <1>2, <2>1, <2>2, <2>3, <2>4, SendStep
<1>4. ASSUME NEW k \in Keys, AuthorizeWithStoredKey(p, k)
      PROVE  Inv'
  <2> DEFINE r == Prepare("authorize", disk, None, k, 0)
  <2>1. Send(p, disk, r, TRUE, TRUE) /\ UNCHANGED <<disk, retired, ends>>
    BY <1>4 DEF AuthorizeWithStoredKey
  <2>2. k \in Keys \cup {None}
    OBVIOUS
  <2>3. r \in PreparedRequest /\ WellFormed(r, n) /\ Belongs(r, disk, TRUE)
    BY <1>1, <2>2, PrepareAuthorize
  <2> HIDE DEF r
  <2> QED
    BY <1>1, <1>2, <2>1, <2>3, SendStep
<1>5. CASE AuthorizeWithAccount(p)
  <2> DEFINE r == Prepare("authorize", disk, None, None, 0)
  <2>1. Send(p, disk, r, TRUE, FALSE) /\ UNCHANGED <<disk, retired, ends>>
    BY <1>5 DEF AuthorizeWithAccount
  <2>2. r \in PreparedRequest /\ WellFormed(r, n) /\ Belongs(r, disk, TRUE)
    BY <1>1, PrepareAuthorize
  <2> HIDE DEF r
  <2> QED
    BY <1>1, <1>2, <2>1, <2>2, SendStep
<1> QED
  BY <1>3, <1>4, <1>5

LEMMA LeaseStep ==
    ASSUME Inv, NEW p \in Procs, RenewIfDue(p) \/ SynchronizeStatus(p)
    PROVE  Inv'
<1> DEFINE n    == Len(service.grants)
           r(e) == Prepare(e, disk, disk.lease, None, 0)
<1>1. PICK e \in {"renew", "status"} :
         /\ CanBegin(p) /\ disk.lease # None
         /\ Send(p, disk, r(e), FALSE, FALSE)
         /\ UNCHANGED <<disk, retired, ends>>
  BY DEF RenewIfDue, SynchronizeStatus, Snapshot
<1>2. /\ disk # None /\ disk \in State /\ Sound(disk, n) /\ n \in Nat
  BY <1>1, Fields, GrantCount DEF CanBegin, Inv
<1>3. /\ r(e) \in PreparedRequest /\ WellFormed(r(e), n)
      /\ Belongs(r(e), disk, FALSE)
  BY <1>1, <1>2, PrepareLease
<1>4. /\ retired' \in SUBSET Nat /\ ends' \in SUBSET PreparedRequest
      /\ IsFiniteSet(ends')
  BY <1>1 DEF Inv, TypeOK
<1> HIDE DEF r
<1> QED
  BY <1>1, <1>2, <1>3, <1>4, SendStep

LEMMA BeginEndStep ==
    ASSUME Inv, NEW p \in Procs, BeginEnd(p)
    PROVE  Inv'
<1> DEFINE n == Len(service.grants)
           j == Cardinality(ends) + 1
           r == Prepare("end", disk, disk.lease, None, j)
           s == [disk EXCEPT !.pendingEnd = r, !.ending = TRUE]
<1>1. /\ CanBegin(p) /\ disk.lease # None
      /\ Persist(s) /\ Send(p, s, r, FALSE, FALSE)
      /\ ends' = ends \cup {r}
  BY DEF BeginEnd
<1>2. /\ disk # None /\ disk \in State /\ Sound(disk, n) /\ n \in Nat
  BY <1>1, Fields, GrantCount DEF CanBegin, Inv
<1>3. j \in Nat
  BY FS_CardinalityType DEF Inv, TypeOK
<1> HIDE DEF j
<1>4. /\ r \in PreparedRequest /\ WellFormed(r, n)
      /\ r.endpoint = "end" /\ r.presentedLease = disk.lease
      /\ Belongs(r, disk, FALSE)
  BY <1>1, <1>2, <1>3, PrepareLease
<1> HIDE DEF r
<1>5. s \in State /\ Sound(s, n) /\ s.lease = disk.lease
  BY <1>1, <1>2, <1>4, TombstoneSound
<1> HIDE DEF s
<1>6. disk' = s /\ retired' \in SUBSET Nat
  BY <1>1, <1>5, PersistType DEF Inv
<1>7. Belongs(r, s, FALSE)
  BY <1>4, <1>5 DEF Belongs
<1>8. ends' \in SUBSET PreparedRequest /\ IsFiniteSet(ends')
  BY <1>1, <1>4, FS_AddElement DEF Inv, TypeOK
<1> QED
  BY <1>1, <1>2, <1>4, <1>5, <1>6, <1>7, <1>8, SendStep

LEMMA ResumeEndStep ==
    ASSUME Inv, NEW p \in Procs, ResumeEnd(p)
    PROVE  Inv'
<1> DEFINE n == Len(service.grants)
           r == disk.pendingEnd
<1>1. /\ CanBegin(p) /\ r # None
      /\ Send(p, disk, r, FALSE, FALSE)
      /\ UNCHANGED <<disk, retired, ends>>
  BY DEF ResumeEnd
<1>2. /\ disk # None /\ disk \in State /\ Sound(disk, n) /\ n \in Nat
  BY <1>1, Fields, GrantCount DEF CanBegin, Inv
<1>3. r \in PreparedRequest
  BY <1>1, <1>2 DEF State
<1>4. WellFormed(r, n) /\ Belongs(r, disk, FALSE)
  BY <1>1, <1>2 DEF Sound, Belongs
<1>5. /\ retired' \in SUBSET Nat /\ ends' \in SUBSET PreparedRequest
      /\ IsFiniteSet(ends')
  BY <1>1 DEF Inv, TypeOK
<1> HIDE DEF r
<1> QED
  BY <1>1, <1>2, <1>3, <1>4, <1>5, SendStep

\* The service moved on: nobody's state, request or answer is affected.
LEMMA ServiceMoved ==
    ASSUME Inv, service' \in Service,
           Len(service.grants) <= Len(service'.grants),
           NEW p \in Procs,
           UNCHANGED <<disk, memory, phase, exchange>>
    PROVE  LET m == Len(service'.grants)
           IN  /\ disk # None => Sound(disk, m)
               /\ memory[p] # None => Sound(memory[p], m)
               /\ phase[p] \in {"sent", "answered"} => InExchange(p)'
               /\ \A r \in stray : WellFormed(r, m)
<1> DEFINE n == Len(service.grants)
           m == Len(service'.grants)
<1>1. n \in Nat /\ m \in Nat /\ n <= m
  BY GrantCount, ServiceFields DEF Inv
<1>2. /\ disk # None => Sound(disk, n)
      /\ memory[p] # None => Sound(memory[p], n)
      /\ phase[p] \in {"sent", "answered"} => InExchange(p)
      /\ \A r \in stray : WellFormed(r, n)
  BY DEF Inv, Consistent
<1>3. phase[p] \in {"sent", "answered"} => InExchange(p)'
  <2> SUFFICES ASSUME phase[p] \in {"sent", "answered"} PROVE InExchange(p)'
    OBVIOUS
  <2>1. /\ WellFormed(exchange[p].request, m)
        /\ exchange[p].answer # None =>
              Honest(exchange[p].request, exchange[p].answer, m)
    BY <1>1, <1>2, MoreEpochs DEF InExchange
  <2> QED
    BY <1>2, <2>1 DEF InExchange
<1> QED
  BY <1>1, <1>2, <1>3, MoreEpochs

LEMMA ServiceStepStep ==
    ASSUME Inv, ServiceStep
    PROVE  Inv'
<1>1. /\ service' \in Service /\ Len(service'.grants) = Len(service.grants)
      /\ Len(service.grants) \in Nat
  BY ServiceNextType, GrantCount DEF ServiceStep, Inv, TypeOK
<1>2. UNCHANGED <<disk, memory, phase, exchange, installationLock,
                  bootstrapLock, stray, retired, ends>>
  BY DEF ServiceStep
<1>3. TypeOK'
  BY <1>1, <1>2 DEF Inv, TypeOK
<1>4. Consistent'
  BY <1>1, <1>2, ServiceMoved DEF Consistent, Inv
<1> QED
  BY <1>3, <1>4 DEF Inv

LEMMA ServeStrayStep ==
    ASSUME Inv, ServeStray
    PROVE  Inv'
<1>1. PICK r \in stray :
         /\ \E o \in Outcomes(r) : service' = o.service
         /\ stray' = stray \ {r}
         /\ UNCHANGED <<disk, memory, phase, exchange, installationLock,
                        bootstrapLock, retired, ends>>
  BY DEF ServeStray
<1>2. r \in PreparedRequest /\ WellFormed(r, Len(service.grants))
      /\ service \in Service
  BY <1>1 DEF Inv, TypeOK, Consistent
<1>3. /\ service' \in Service /\ Len(service.grants) <= Len(service'.grants)
  BY <1>1, <1>2, OutcomesServed DEF Served
<1>4. TypeOK'
  BY <1>1, <1>3 DEF Inv, TypeOK
<1>5. Consistent'
  <2>1. \A q \in stray' : WellFormed(q, Len(service'.grants))
    <3>1. \A q \in stray : WellFormed(q, Len(service.grants))
      BY DEF Inv, Consistent
    <3>2. Len(service.grants) \in Nat /\ Len(service'.grants) \in Nat
      BY <1>3, GrantCount, ServiceFields DEF Inv
    <3> QED
      BY <1>1, <1>3, <3>1, <3>2, MoreEpochs
  <2>2. disk' # None => Sound(disk', Len(service'.grants))
    <3>1. Len(service.grants) \in Nat /\ Len(service'.grants) \in Nat
      BY <1>3, GrantCount, ServiceFields DEF Inv
    <3> QED
      BY <1>1, <1>3, <3>1, MoreEpochs DEF Inv, Consistent
  <2> QED
    BY <1>1, <1>3, <2>1, <2>2, ServiceMoved DEF Consistent, Inv
<1> QED
  BY <1>4, <1>5 DEF Inv

LEMMA ServeStep ==
    ASSUME Inv, NEW p \in Procs, Serve(p)
    PROVE  Inv'
<1> DEFINE x == exchange[p]
           n == Len(service.grants)
           m == Len(service'.grants)
<1>1. PICK o \in Outcomes(x.request) :
         /\ service' = o.service
         /\ exchange' = [exchange EXCEPT ![p].answer = o.answer]
  BY DEF Serve
<1>2. /\ phase[p] = "sent" /\ phase' = [phase EXCEPT ![p] = "answered"]
      /\ UNCHANGED <<disk, memory, installationLock, bootstrapLock, stray,
                     retired, ends>>
  BY DEF Serve
<1>3. /\ x \in Exchange /\ x.request \in PreparedRequest /\ InExchange(p)
      /\ WellFormed(x.request, n) /\ service \in Service
  BY <1>2, Fields DEF Inv, TypeOK, InExchange
<1>4. /\ service' \in Service /\ n <= m /\ n \in Nat /\ m \in Nat
      /\ o.answer \in Answer /\ Honest(x.request, o.answer, m)
  BY <1>1, <1>3, OutcomesServed, GrantCount, ServiceFields DEF Served, Inv
<1> DEFINE y == [x EXCEPT !.answer = o.answer]
<1>5. /\ y \in Exchange /\ y.request = x.request /\ y.answer = o.answer
      /\ y.freshAuthorization = x.freshAuthorization
      /\ exchange' = [exchange EXCEPT ![p] = y]
  BY <1>1, <1>3, <1>4 DEF Exchange
<1> HIDE DEF x, y
<1>6. TypeOK'
  BY <1>2, <1>4, <1>5 DEF Inv, TypeOK, Phase
<1>7. Consistent'
  <2>1. /\ \A s : Sound(s, n) => Sound(s, m)
        /\ \A r : WellFormed(r, n) => WellFormed(r, m)
        /\ \A r, a : Honest(r, a, n) => Honest(r, a, m)
    BY <1>4, MoreEpochs
  <2>2. /\ disk' # None => Sound(disk', m)
        /\ \A q \in Procs : /\ memory'[q] # None => Sound(memory'[q], m)
                            /\ phase'[q] = "opening" => memory'[q] # None
        /\ \A r \in stray' : WellFormed(r, m)
    BY <1>2, <2>1 DEF Inv, Consistent, TypeOK
  <2>3. ASSUME NEW q \in Procs, phase'[q] \in {"sent", "answered"}
        PROVE  InExchange(q)'
    <3>1. CASE q = p
      <4>1. exchange'[p] = y
        BY <1>5 DEF Inv, TypeOK
      <4>2. y # None /\ o.answer # None
        BY <1>4, <1>5, SessionAssumption
      <4>3. WellFormed(y.request, m)
        BY <1>3, <1>5, <2>1
      <4>4. Belongs(y.request, memory[p], y.freshAuthorization)
            /\ disk # None /\ memory[p] # None
        BY <1>3, <1>5 DEF InExchange, x
      <4> QED
        BY <1>2, <1>4, <1>5, <3>1, <4>1, <4>2, <4>3, <4>4 DEF InExchange
    <3>2. CASE q # p
      <4>1. exchange'[q] = exchange[q] /\ phase'[q] = phase[q]
        BY <1>2, <1>5, <3>2 DEF Inv, TypeOK
      <4>2. InExchange(q)
        BY <2>3, <4>1 DEF Inv, Consistent
      <4> QED
        BY <1>2, <2>1, <4>1, <4>2 DEF InExchange
    <3> QED
      BY <3>1, <3>2
  <2> QED
    BY <2>2, <2>3 DEF Consistent
<1> QED
  BY <1>6, <1>7 DEF Inv

LEMMA AbandonStray ==
    ASSUME Inv, NEW p \in Procs, Abandon(p)
    PROVE  /\ stray' \in SUBSET PreparedRequest
           /\ \A r \in stray' : WellFormed(r, Len(service.grants))
<1>1. phase[p] = "sent" =>
         /\ exchange[p].request \in PreparedRequest
         /\ WellFormed(exchange[p].request, Len(service.grants))
  BY Fields DEF InExchange
<1> QED
  BY <1>1 DEF Abandon, Inv, TypeOK, Consistent

LEMMA ResendStep ==
    ASSUME Inv, NEW p \in Procs, Resend(p)
    PROVE  Inv'
<1> DEFINE x == exchange[p]
           n == Len(service.grants)
           y == [x EXCEPT !.answer = None]
<1>1. /\ phase[p] \in {"sent", "answered"}
      /\ phase' = [phase EXCEPT ![p] = "sent"]
      /\ exchange' = [exchange EXCEPT ![p].answer = None]
      /\ UNCHANGED <<service, disk, memory, installationLock, bootstrapLock,
                     retired, ends>>
      /\ Abandon(p)
  BY DEF Resend
<1>2. x \in Exchange /\ InExchange(p)
  BY <1>1, Fields
<1>3. /\ y \in Exchange /\ y.request = x.request /\ y.answer = None
      /\ y.freshAuthorization = x.freshAuthorization
      /\ exchange' = [exchange EXCEPT ![p] = y]
  BY <1>1, <1>2 DEF Exchange
<1>4. /\ stray' \in SUBSET PreparedRequest
      /\ \A r \in stray' : WellFormed(r, n)
  BY <1>1, AbandonStray
<1> HIDE DEF x, y
<1>5. TypeOK'
  BY <1>1, <1>3, <1>4 DEF Inv, TypeOK, Phase
<1>6. Consistent'
  <2>1. \A q \in Procs : /\ memory'[q] # None => Sound(memory'[q], n)
                         /\ phase'[q] = "opening" => memory'[q] # None
    BY <1>1 DEF Inv, Consistent, TypeOK
  <2>2. ASSUME NEW q \in Procs, phase'[q] \in {"sent", "answered"}
        PROVE  InExchange(q)'
    <3>1. CASE q = p
      <4>1. exchange'[p] = y /\ phase'[p] = "sent" /\ y # None
        BY <1>1, <1>3, SessionAssumption DEF Inv, TypeOK
      <4>2. /\ disk # None /\ memory[p] # None
            /\ WellFormed(y.request, n)
            /\ Belongs(y.request, memory[p], y.freshAuthorization)
        BY <1>2, <1>3 DEF InExchange, x
      <4> QED
        BY <1>1, <1>3, <3>1, <4>1, <4>2 DEF InExchange
    <3>2. CASE q # p
      <4>1. exchange'[q] = exchange[q] /\ phase'[q] = phase[q]
        BY <1>1, <1>3, <3>2 DEF Inv, TypeOK
      <4>2. InExchange(q)
        BY <2>2, <4>1 DEF Inv, Consistent
      <4> QED
        BY <1>1, <4>1, <4>2 DEF InExchange
    <3> QED
      BY <3>1, <3>2
  <2> QED
    BY <1>1, <1>4, <2>1, <2>2 DEF Inv, Consistent
<1> QED
  BY <1>5, <1>6 DEF Inv

LEMMA TransportFailureStep ==
    ASSUME Inv, NEW p \in Procs, TransportFailure(p)
    PROVE  Inv'
<1>1. /\ phase[p] \in {"sent", "answered"} /\ Finish(p) /\ Abandon(p)
      /\ Persist(memory[p]) \/ UNCHANGED <<disk, retired>>
  BY DEF TransportFailure
<1>2. memory[p] \in State /\ Sound(memory[p], Len(service.grants))
  BY <1>1, Fields
<1>3. /\ disk' = disk \/ (disk' \in State /\ Sound(disk', Len(service.grants)))
      /\ retired' \in SUBSET Nat
  BY <1>1, <1>2, PersistType DEF Inv, TypeOK
<1> QED
  BY <1>1, <1>3, AbandonStray, FinishStep

LEMMA ReceiveStep ==
    ASSUME Inv, NEW p \in Procs, Receive(p)
    PROVE  Inv'
<1> DEFINE n == Len(service.grants)
           x == exchange[p]
<1>1. /\ phase[p] = "answered" /\ Finish(p) /\ stray' = stray
      /\ (\E s \in Saves(p) : Persist(s)) \/ UNCHANGED <<disk, retired>>
  BY DEF Receive
<1>2. /\ x \in Exchange /\ x.request \in PreparedRequest /\ InExchange(p)
      /\ memory[p] \in State /\ Sound(memory[p], n)
      /\ disk \in State /\ Sound(disk, n) /\ n \in Nat
  BY <1>1, Fields, GrantCount DEF Inv
<1>3. /\ x.answer \in Answer /\ x.freshAuthorization \in BOOLEAN
      /\ x.forgetMissingKey \in BOOLEAN
      /\ WellFormed(x.request, n) /\ Honest(x.request, x.answer, n)
      /\ Belongs(x.request, memory[p], x.freshAuthorization)
  BY <1>1, <1>2 DEF InExchange, Exchange
<1>4. ASSUME NEW s \in Saves(p)
      PROVE  s \in State /\ Sound(s, n)
  <2>1. CASE x.request.endpoint = "end"
    <3>1. x.freshAuthorization = FALSE
      BY <1>3, <2>1 DEF Belongs
    <3>2. s \in EndSaves(memory[p], x.request, x.answer)
      BY <2>1 DEF Saves
    <3> HIDE DEF x
    <3> QED
      BY <1>2, <1>3, <3>1, <3>2, EndSavesSound
  <2>2. CASE x.request.endpoint # "end"
    <3>1. s \in ExecuteSaves(memory[p], disk, x.request, x.answer,
                             x.freshAuthorization, x.forgetMissingKey)
      BY <2>2 DEF Saves
    <3> HIDE DEF x
    <3> QED
      BY <1>2, <1>3, <3>1, ExecuteSavesSound
  <2> QED
    BY <2>1, <2>2
<1>5. /\ disk' = disk \/ (disk' \in State /\ Sound(disk', n))
      /\ retired' \in SUBSET Nat
  BY <1>1, <1>4, PersistType DEF Inv, TypeOK
<1>6. /\ stray' \in SUBSET PreparedRequest
      /\ \A r \in stray' : WellFormed(r, n)
  BY <1>1 DEF Inv, TypeOK, Consistent
<1> QED
  BY <1>1, <1>5, <1>6, FinishStep

LEMMA CrashStep ==
    ASSUME Inv, NEW p \in Procs, Crash(p)
    PROVE  Inv'
<1> DEFINE n == Len(service.grants)
<1>1. /\ memory' = [memory EXCEPT ![p] = None]
      /\ phase' = [phase EXCEPT ![p] = "closed"]
      /\ exchange' = [exchange EXCEPT ![p] = None]
      /\ UNCHANGED <<service, disk, retired, ends>>
      /\ installationLock' \in {None, installationLock}
      /\ bootstrapLock' \in {None, bootstrapLock}
      /\ Abandon(p)
  BY DEF Crash, NoExchange
<1>2. /\ stray' \in SUBSET PreparedRequest
      /\ \A r \in stray' : WellFormed(r, n)
  BY <1>1, AbandonStray
<1>3. TypeOK'
  BY <1>1, <1>2 DEF Inv, TypeOK, Phase, NoExchange
<1>4. Consistent'
  <2>1. \A q \in Procs : /\ memory'[q] # None => Sound(memory'[q], n)
                         /\ phase'[q] = "opening" => memory'[q] # None
    BY <1>1 DEF Inv, Consistent, TypeOK
  <2>2. ASSUME NEW q \in Procs, phase'[q] \in {"sent", "answered"}
        PROVE  InExchange(q)'
    <3>1. /\ memory'[q] = memory[q] /\ exchange'[q] = exchange[q]
          /\ phase'[q] = phase[q]
      BY <1>1, <2>2 DEF Inv, TypeOK
    <3>2. InExchange(q)
      BY <2>2, <3>1 DEF Inv, Consistent
    <3> QED
      BY <1>1, <3>1, <3>2 DEF InExchange
  <2> QED
    BY <1>1, <1>2, <2>1, <2>2 DEF Inv, Consistent
<1> QED
  BY <1>3, <1>4 DEF Inv

LEMMA StutterStep ==
    ASSUME Inv, UNCHANGED vars
    PROVE  Inv'
  BY DEF Inv, TypeOK, Consistent, InExchange, vars

-----------------------------------------------------------------------------

(***************************************************************************)
(* The invariant is inductive and holds of every behaviour.                *)
(***************************************************************************)
THEOREM SessionInvariant == Spec => []Inv
<1>1. Init => Inv
  BY InitInv
<1>2. Inv /\ [Next]_vars => Inv'
  <2> SUFFICES ASSUME Inv, [Next]_vars PROVE Inv'
    OBVIOUS
  <2>1. ASSUME NEW p \in Procs, Operation(p)
        PROVE  Inv'
    BY <2>1, AuthorizeStep, LeaseStep, BeginEndStep, ResumeEndStep
       DEF Operation
  <2> QED
    BY <2>1, StutterStep, ServiceStepStep, ServeStrayStep, OpenLoadStep,
       OpenPersistStep, ServeStep, ResendStep, TransportFailureStep,
       ReceiveStep, CrashStep DEF Next
<1> QED
  BY <1>1, <1>2, PTL DEF Spec

(***************************************************************************)
(* The file, the working states and the messages have the types of the     *)
(* code in every behaviour.                                                *)
(***************************************************************************)
THEOREM SessionIsTyped == Spec => []TypeOK
<1>1. Inv => TypeOK
  BY DEF Inv
<1> QED
  BY <1>1, SessionInvariant, PTL

(***************************************************************************)
(* Whatever processes share the installation, wherever they stop and       *)
(* whatever an honest service answers, the saved state can be loaded.      *)
(***************************************************************************)
THEOREM SavedStateIsLoadable == Spec => []SavedStateReloads
<1>1. Inv => SavedStateReloads
  BY DEF Inv, Consistent, Sound, SavedStateReloads
<1> QED
  BY <1>1, SessionInvariant, PTL

-----------------------------------------------------------------------------
(* What the service has said, and what it has not taken back.              *)

\* The service knows of everything a state records.
Credible(s, svc) == Known(s, svc) /\ Accounted(s)

\* The exchange p is in asks for the state p works on, and its answer is
\* truthful and not older than that state.
IsCurrentExchange(p) ==
    LET x == exchange[p]
        s == memory[p]
    IN  /\ Asks(x.request, s)
        /\ x.forgetMissingKey => x.request.licenseKey = s.storedLicenseKey
        /\ x.answer # None =>
              /\ Truthful(x.request, x.answer, service)
              /\ Newer(x.request, x.answer, s)
              /\ InForm(x.request, x.answer)

Informed ==
    /\ disk # None => Credible(disk, service)
    /\ \A p \in Procs :
          /\ memory[p] # None => Credible(memory[p], service)
          /\ phase[p] \in {"sent", "answered"} => IsCurrentExchange(p)

InformedInv == Inv /\ Informed

\* Whatever the step, the service takes nothing back.
LEMMA ServiceEvolves ==
    ASSUME Inv, [Next]_vars
    PROVE  Evolves(service, service')
<1>1. service \in Service
  BY DEF Inv, TypeOK
<1>2. CASE UNCHANGED service
  BY <1>1, <1>2, EvolvesReflexive
<1>3. CASE ServiceStep
  BY <1>1, <1>3, ServiceNextEvolves DEF ServiceStep
<1>4. CASE ServeStray
  <2>1. PICK r \in stray : \E o \in Outcomes(r) : service' = o.service
    BY <1>4 DEF ServeStray
  <2>2. r \in PreparedRequest /\ WellFormed(r, Len(service.grants))
    BY <2>1 DEF Inv, TypeOK, Consistent
  <2> QED
    BY <1>1, <2>1, <2>2, OutcomeEvolves
<1>5. ASSUME NEW p \in Procs, Serve(p)
      PROVE  Evolves(service, service')
  <2> DEFINE r == exchange[p].request
  <2>1. r \in PreparedRequest /\ WellFormed(r, Len(service.grants))
    BY <1>5, Fields DEF Serve, InExchange
  <2>2. PICK o \in Outcomes(r) : service' = o.service
    BY <1>5 DEF Serve
  <2> HIDE DEF r
  <2> QED
    BY <1>1, <2>1, <2>2, OutcomeEvolves
<1>6. ASSUME NEW p \in Procs, Operation(p)
      PROVE  UNCHANGED service
  BY <1>6 DEF Operation, AuthorizeWithKey, AuthorizeWithStoredKey,
     AuthorizeWithAccount, RenewIfDue, SynchronizeStatus, BeginEnd,
     ResumeEnd, Send
<1>7. ASSUME NEW p \in Procs,
             \/ OpenLoad(p) \/ OpenPersist(p) \/ Resend(p)
             \/ TransportFailure(p) \/ Receive(p) \/ Crash(p)
      PROVE  UNCHANGED service
  BY <1>7 DEF OpenLoad, OpenPersist, Resend, TransportFailure, Receive,
     Finish, Crash
<1> QED
  BY <1>2, <1>3, <1>4, <1>5, <1>6, <1>7 DEF Next, vars

\* A process whose step this is not stays informed.
LEMMA StaysCurrent ==
    ASSUME Inv, Informed, service' \in Service, Evolves(service, service'),
           NEW p \in Procs, memory'[p] = memory[p],
           exchange'[p] = exchange[p], phase[p] \in {"sent", "answered"}
    PROVE  IsCurrentExchange(p)'
<1> DEFINE x == exchange[p]
<1>1. /\ x \in Exchange /\ x.request \in PreparedRequest /\ InExchange(p)
      /\ service \in Service
  BY Fields DEF Inv, TypeOK
<1>2. IsCurrentExchange(p)
  BY DEF Informed
<1>3. x.answer # None =>
         /\ x.answer \in Answer
         /\ WellFormed(x.request, Len(service.grants))
         /\ Honest(x.request, x.answer, Len(service.grants))
         /\ Truthful(x.request, x.answer, service)
  BY <1>1, <1>2 DEF Exchange, InExchange, IsCurrentExchange
<1>4. x.answer # None => Truthful(x.request, x.answer, service')
  <2> HIDE DEF x
  <2> QED
    BY <1>1, <1>3, TruthfulStays
<1> QED
  BY <1>2, <1>4 DEF IsCurrentExchange

\* A step of p: what it leaves in the file and in its hands is all there is
\* to show.
LEMMA InformedStep ==
    ASSUME Inv, Inv', Informed, Evolves(service, service'),
           NEW p \in Procs,
           \A q \in Procs : q # p =>
              /\ memory'[q] = memory[q] /\ exchange'[q] = exchange[q]
              /\ phase'[q] = phase[q],
           disk' = disk \/ (disk' # None => Credible(disk', service')),
           \/ memory'[p] = memory[p]
           \/ memory'[p] # None => Credible(memory'[p], service'),
           phase'[p] \in {"sent", "answered"} => IsCurrentExchange(p)'
    PROVE  Informed'
<1>1. service \in Service /\ service' \in Service
  BY DEF Inv, TypeOK
<1>2. \A s \in State : Credible(s, service) => Credible(s, service')
  BY <1>1, KnownStays DEF Credible
<1>3. /\ disk \in State \cup {None}
      /\ \A q \in Procs : memory[q] \in State \cup {None}
  BY DEF Inv, TypeOK
<1>4. disk' # None => Credible(disk', service')
  BY <1>2, <1>3 DEF Informed
<1>5. \A q \in Procs : memory'[q] # None => Credible(memory'[q], service')
  BY <1>2, <1>3 DEF Informed
<1>6. \A q \in Procs : phase'[q] \in {"sent", "answered"} =>
         IsCurrentExchange(q)'
  BY <1>1, StaysCurrent
<1> QED
  BY <1>4, <1>5, <1>6 DEF Informed

\* An operation goes out for the state it saved.
LEMMA InformedSend ==
    ASSUME Inv, Inv', Informed, NEW p \in Procs, NEW s \in State,
           Credible(s, service), disk' = disk \/ disk' = s,
           NEW r, NEW fresh, NEW forget, Asks(r, s),
           forget => r.licenseKey = s.storedLicenseKey,
           Send(p, s, r, fresh, forget)
    PROVE  Informed'
<1> DEFINE x == [request |-> r, answer |-> None,
                 freshAuthorization |-> fresh, forgetMissingKey |-> forget]
<1>1. /\ service' = service
      /\ memory' = [memory EXCEPT ![p] = s]
      /\ phase' = [phase EXCEPT ![p] = "sent"]
      /\ exchange' = [exchange EXCEPT ![p] = x]
  BY DEF Send
<1>2. /\ x.request = r /\ x.answer = None /\ x.forgetMissingKey = forget
  OBVIOUS
<1> HIDE DEF x
<1>3. /\ memory'[p] = s /\ exchange'[p] = x
      /\ \A q \in Procs : q # p =>
            /\ memory'[q] = memory[q] /\ exchange'[q] = exchange[q]
            /\ phase'[q] = phase[q]
  BY <1>1 DEF Inv, TypeOK
<1>4. IsCurrentExchange(p)'
  BY <1>2, <1>3 DEF IsCurrentExchange
<1>5. Evolves(service, service')
  BY <1>1, EvolvesReflexive DEF Inv, TypeOK
<1> QED
  BY <1>1, <1>3, <1>4, <1>5, InformedStep

\* An operation is over.
LEMMA InformedFinish ==
    ASSUME Inv, Inv', Informed, NEW p \in Procs, Finish(p),
           disk' = disk \/ Credible(disk', service)
    PROVE  Informed'
<1>1. /\ service' = service
      /\ memory' = [memory EXCEPT ![p] = None]
      /\ phase' = [phase EXCEPT ![p] = "ready"]
      /\ exchange' = [exchange EXCEPT ![p] = None]
  BY DEF Finish, NoExchange
<1>2. /\ memory'[p] = None /\ phase'[p] = "ready"
      /\ \A q \in Procs : q # p =>
            /\ memory'[q] = memory[q] /\ exchange'[q] = exchange[q]
            /\ phase'[q] = phase[q]
  BY <1>1 DEF Inv, TypeOK
<1>3. Evolves(service, service')
  BY <1>1, EvolvesReflexive DEF Inv, TypeOK
<1> QED
  BY <1>1, <1>2, <1>3, InformedStep

\* What Prepare asks for.
LEMMA PrepareAsks ==
    ASSUME NEW s \in State, NEW e \in {"authorize", "renew", "status"},
           NEW lease, e # "authorize" => lease = s.lease, NEW k, NEW jti
    PROVE  /\ Asks(Prepare(e, s, lease, k, jti), s)
           /\ Prepare(e, s, lease, k, jti).licenseKey = k
<1>1. s.keysetSequence \in Nat
  BY DEF State
<1> QED
  BY <1>1 DEF Asks, Prepare

\* A new file records nothing.
LEMMA FreshCredible ==
    ASSUME NEW svc \in Service, NEW k \in Keys \cup {None}
    PROVE  Credible(Migrated(k), svc) /\ Credible(Fresh, svc)
<1>1. /\ Len(svc.grants) \in Nat /\ svc.sequence \in Nat
      /\ svc.keysetSequence \in Nat
  BY ServiceFields, ServerBounds
<1>2. ASSUME NEW s \in {Migrated(k), Fresh} PROVE Credible(s, svc)
  <2>1. /\ s.authorizationId = 0 /\ s.lease = None /\ s.ended = FALSE
        /\ s.revoked = FALSE /\ s.ending = FALSE /\ s.pendingEnd = None
        /\ s.statusSequence = 0 /\ s.keysetSequence = 0
    BY DEF Migrated, Fresh
  <2>2. Known(s, svc)
    BY <1>1, <2>1 DEF Known
  <2>3. Accounted(s)
    BY <2>1 DEF Accounted
  <2> QED
    BY <2>2, <2>3 DEF Credible
<1> QED
  BY <1>2

\* It holds in the first states,
LEMMA InformedInit == Init => Informed
<1> SUFFICES ASSUME Init PROVE Informed
  OBVIOUS
<1>1. service \in Service
  BY ServiceInitType DEF Init
<1> QED
  BY <1>1, FreshCredible DEF Init, Informed

\* when open reads the file,
LEMMA InformedOpenLoad ==
    ASSUME Inv, Inv', Informed, NEW p \in Procs, OpenLoad(p)
    PROVE  Informed'
<1> DEFINE s == IF disk = None THEN Fresh ELSE disk
<1>1. Credible(s, service)
  BY FreshCredible DEF Inv, TypeOK, Informed
<1>2. /\ service' = service /\ disk' = disk /\ exchange' = exchange
      /\ memory' = [memory EXCEPT ![p] = s]
      /\ phase' = [phase EXCEPT ![p] = "opening"]
  BY DEF OpenLoad
<1> HIDE DEF s
<1>3. /\ memory'[p] = s /\ phase'[p] = "opening"
      /\ \A q \in Procs : q # p =>
            /\ memory'[q] = memory[q] /\ exchange'[q] = exchange[q]
            /\ phase'[q] = phase[q]
  BY <1>2 DEF Inv, TypeOK
<1>4. Evolves(service, service')
  BY <1>2, EvolvesReflexive DEF Inv, TypeOK
<1> QED
  BY <1>1, <1>2, <1>3, <1>4, InformedStep

\* when it saves it,
LEMMA InformedOpenPersist ==
    ASSUME Inv, Inv', Informed, NEW p \in Procs, OpenPersist(p)
    PROVE  Informed'
<1>1. /\ service' = service /\ disk' = memory[p] /\ exchange' = exchange
      /\ memory' = [memory EXCEPT ![p] = None]
      /\ phase' = [phase EXCEPT ![p] = "ready"]
  BY DEF OpenPersist, Persist
<1>2. /\ memory'[p] = None /\ phase'[p] = "ready"
      /\ \A q \in Procs : q # p =>
            /\ memory'[q] = memory[q] /\ exchange'[q] = exchange[q]
            /\ phase'[q] = phase[q]
  BY <1>1 DEF Inv, TypeOK
<1>3. Evolves(service, service')
  BY <1>1, EvolvesReflexive DEF Inv, TypeOK
<1>4. disk' # None => Credible(disk', service')
  BY <1>1 DEF Informed
<1> QED
  BY <1>2, <1>3, <1>4, InformedStep

\* when an operation starts and saves what it prepared,
LEMMA InformedOperation ==
    ASSUME Inv, Inv', Informed, NEW p \in Procs, Operation(p)
    PROVE  Informed'
<1> DEFINE d == disk
<1>1. d \in State /\ Sound(d, Len(service.grants)) /\ Credible(d, service)
  <2>1. CanBegin(p)
    BY DEF Operation, AuthorizeWithKey, AuthorizeWithStoredKey,
       AuthorizeWithAccount, RenewIfDue, SynchronizeStatus, BeginEnd, ResumeEnd
  <2> QED
    BY <2>1, Fields DEF CanBegin, Informed
<1> HIDE DEF d
<1>2. ASSUME NEW k \in Keys, AuthorizeWithKey(p, k)
      PROVE  Informed'
  <2> DEFINE s == [d EXCEPT !.storedLicenseKey = k]
             r == Prepare("authorize", s, None, k, 0)
  <2>1. disk' = s /\ Send(p, s, r, TRUE, TRUE)
    BY <1>2 DEF AuthorizeWithKey, Persist, d
  <2>2. /\ s \in State /\ SameMarks(d, s) /\ SameLease(d, s)
        /\ s.storedLicenseKey = k
    BY <1>1, ForgetKeyAlike
  <2>3. Credible(s, service)
    BY <1>1, <2>2, KeptIsKnown DEF Credible
  <2> HIDE DEF s
  <2>4. Asks(r, s) /\ r.licenseKey = k
    BY <2>2, PrepareAsks
  <2> HIDE DEF r
  <2> QED
    BY <2>1, <2>2, <2>3, <2>4, InformedSend
<1>3. ASSUME NEW k \in Keys, AuthorizeWithStoredKey(p, k)
      PROVE  Informed'
  <2> DEFINE r == Prepare("authorize", d, None, k, 0)
  <2>1. disk' = disk /\ Send(p, d, r, TRUE, TRUE) /\ d.storedLicenseKey = k
    BY <1>3 DEF AuthorizeWithStoredKey, d
  <2>2. Asks(r, d) /\ r.licenseKey = k
    BY <1>1, PrepareAsks
  <2> HIDE DEF r
  <2> QED
    BY <1>1, <2>1, <2>2, InformedSend
<1>4. CASE AuthorizeWithAccount(p)
  <2> DEFINE r == Prepare("authorize", d, None, None, 0)
  <2>1. disk' = disk /\ Send(p, d, r, TRUE, FALSE)
    BY <1>4 DEF AuthorizeWithAccount, d
  <2>2. Asks(r, d)
    BY <1>1, PrepareAsks
  <2> HIDE DEF r
  <2> QED
    BY <1>1, <2>1, <2>2, InformedSend
<1>5. CASE RenewIfDue(p) \/ SynchronizeStatus(p)
  <2>1. PICK e \in {"renew", "status"} :
           /\ disk' = disk
           /\ Send(p, d, Prepare(e, d, d.lease, None, 0), FALSE, FALSE)
    BY <1>5 DEF RenewIfDue, SynchronizeStatus, d
  <2>2. Asks(Prepare(e, d, d.lease, None, 0), d)
    BY <1>1, PrepareAsks
  <2> QED
    BY <1>1, <2>1, <2>2, InformedSend
<1>6. CASE BeginEnd(p)
  <2> DEFINE j == Cardinality(ends) + 1
             r == Prepare("end", d, d.lease, None, j)
             s == [d EXCEPT !.pendingEnd = r, !.ending = TRUE]
  <2>1. /\ disk' = s /\ Send(p, s, r, FALSE, FALSE)
        /\ ~ d.ended /\ d.lease # None
    BY <1>6 DEF BeginEnd, Persist, d
  <2>2. j \in Nat
    BY FS_CardinalityType DEF Inv, TypeOK
  <2> HIDE DEF j
  <2>3. /\ r \in PreparedRequest /\ r.endpoint = "end"
        /\ r.keysetSequence = d.keysetSequence
    BY <1>1, <2>1, <2>2, GrantCount, PrepareLease DEF Prepare, Inv
  <2> HIDE DEF r
  <2>4. /\ s \in State /\ SameMarks(d, s) /\ s.pendingEnd = r
        /\ s.ending = TRUE /\ s.lease = d.lease /\ s.ended = d.ended
        /\ s.revoked = d.revoked
    BY <1>1, <2>3 DEF State, SameMarks
  <2> HIDE DEF s
  <2>5. r # None /\ s.keysetSequence \in Nat
    BY <2>3, <2>4, NoneAssumption DEF State
  <2>6. Known(s, service)
    BY <1>1, <2>3, <2>4, <2>5 DEF Credible, Known, SameMarks
  <2>7. Accounted(s)
    BY <1>1, <2>1, <2>4, <2>5 DEF Credible, Accounted, SameMarks
  <2>8. Asks(r, s)
    BY <2>3, <2>4, <2>5 DEF Asks, SameMarks
  <2> QED
    BY <2>1, <2>4, <2>6, <2>7, <2>8, InformedSend DEF Credible
<1>7. CASE ResumeEnd(p)
  <2> DEFINE r == d.pendingEnd
  <2>1. disk' = disk /\ Send(p, d, r, FALSE, FALSE) /\ r # None
    BY <1>7 DEF ResumeEnd, d
  <2>2. Asks(r, d)
    BY <1>1, <2>1 DEF Asks, Sound, Credible, Known
  <2> HIDE DEF r
  <2> QED
    BY <1>1, <2>1, <2>2, InformedSend
<1> QED
  BY <1>2, <1>3, <1>4, <1>5, <1>6, <1>7 DEF Operation

\* Keyset sequences are numbers, whoever has them.
LEMMA KeysetSequences ==
    /\ \A r \in PreparedRequest : r.keysetSequence \in Nat
    /\ \A t \in State : t.keysetSequence \in Nat
    /\ \A svc \in Service : svc.keysetSequence \in Nat
<1>1. \A r \in PreparedRequest : r.keysetSequence \in Nat
  BY DEF PreparedRequest
<1>2. \A t \in State : t.keysetSequence \in Nat
  BY DEF State
<1>3. \A svc \in Service : svc.keysetSequence \in Nat
  BY ServiceFields, ServerBounds
<1> QED
  BY <1>1, <1>2, <1>3

\* when the service answers,
LEMMA InformedServe ==
    ASSUME Inv, Inv', Informed, NEW p \in Procs, Serve(p)
    PROVE  Informed'
<1> DEFINE x == exchange[p]
           r == x.request
           s == memory[p]
<1>1. PICK o \in Outcomes(r) :
         /\ service' = o.service
         /\ exchange' = [exchange EXCEPT ![p].answer = o.answer]
  BY DEF Serve
<1>2. /\ phase[p] = "sent" /\ phase' = [phase EXCEPT ![p] = "answered"]
      /\ memory' = memory /\ disk' = disk
  BY DEF Serve
<1>3. /\ x \in Exchange /\ r \in PreparedRequest /\ InExchange(p)
      /\ WellFormed(r, Len(service.grants)) /\ service \in Service
      /\ s \in State /\ Sound(s, Len(service.grants))
      /\ Belongs(r, s, x.freshAuthorization)
      /\ x.freshAuthorization \in BOOLEAN
  BY <1>2, Fields DEF Inv, TypeOK, InExchange, Exchange
<1>4. IsCurrentExchange(p) /\ Credible(s, service)
  BY <1>2, <1>3, Fields DEF Informed
<1>5. /\ Asks(r, s) /\ r.keysetSequence <= service.keysetSequence
  <2>1. /\ r.keysetSequence \in Nat /\ s.keysetSequence \in Nat
        /\ service.keysetSequence \in Nat
    BY <1>3, KeysetSequences
  <2> QED
    BY <1>4, <2>1 DEF IsCurrentExchange, Asks, Credible, Known
<1> DEFINE y == [x EXCEPT !.answer = o.answer]
<1>6. /\ exchange'[p] = y /\ y.request = r /\ y.answer = o.answer
      /\ y.forgetMissingKey = x.forgetMissingKey
      /\ \A q \in Procs : q # p =>
            /\ memory'[q] = memory[q] /\ exchange'[q] = exchange[q]
            /\ phase'[q] = phase[q]
  BY <1>1, <1>2, <1>3 DEF Inv, TypeOK, Exchange
<1> DEFINE fresh == x.freshAuthorization
<1>7. x.forgetMissingKey => r.licenseKey = s.storedLicenseKey
  BY <1>4 DEF IsCurrentExchange
<1> HIDE DEF r, s, y, fresh
<1>8. /\ Truthful(r, o.answer, o.service) /\ Newer(r, o.answer, s)
      /\ InForm(r, o.answer)
  <2>1. Truthful(r, o.answer, o.service)
    BY <1>3, <1>5, AnswersAreTruthful
  <2>2. fresh \in BOOLEAN /\ Belongs(r, s, fresh) /\ Known(s, service)
    BY <1>3, <1>4 DEF fresh, Credible
  <2>3. Newer(r, o.answer, s)
    BY <1>3, <2>2, AnswersAreNewer
  <2> QED
    BY <1>3, <1>5, <2>1, <2>3, AnswersInForm
<1>9. IsCurrentExchange(p)'
  BY <1>1, <1>2, <1>5, <1>6, <1>7, <1>8 DEF IsCurrentExchange, s
<1>10. Evolves(service, service')
  BY <1>1, <1>3, OutcomeEvolves
<1> QED
  BY <1>2, <1>6, <1>9, <1>10, InformedStep

\* when a refused or unanswered request is sent again,
LEMMA InformedResend ==
    ASSUME Inv, Inv', Informed, NEW p \in Procs, Resend(p)
    PROVE  Informed'
<1> DEFINE x == exchange[p]
           y == [x EXCEPT !.answer = None]
<1>1. /\ phase[p] \in {"sent", "answered"}
      /\ phase' = [phase EXCEPT ![p] = "sent"]
      /\ exchange' = [exchange EXCEPT ![p].answer = None]
      /\ UNCHANGED <<service, disk, memory>>
  BY DEF Resend
<1>2. x \in Exchange /\ IsCurrentExchange(p)
  BY <1>1, Fields DEF Informed
<1>3. /\ exchange'[p] = y /\ y.request = x.request /\ y.answer = None
      /\ y.forgetMissingKey = x.forgetMissingKey
      /\ \A q \in Procs : q # p =>
            /\ memory'[q] = memory[q] /\ exchange'[q] = exchange[q]
            /\ phase'[q] = phase[q]
  BY <1>1, <1>2 DEF Inv, TypeOK, Exchange
<1> HIDE DEF y
<1>4. IsCurrentExchange(p)'
  BY <1>1, <1>2, <1>3 DEF IsCurrentExchange
<1>5. Evolves(service, service')
  BY <1>1, EvolvesReflexive DEF Inv, TypeOK
<1> QED
  BY <1>1, <1>3, <1>4, <1>5, InformedStep

\* when an operation fails,
LEMMA InformedFailure ==
    ASSUME Inv, Inv', Informed, NEW p \in Procs, TransportFailure(p)
    PROVE  Informed'
<1>1. Finish(p) /\ (disk' = disk \/ disk' = memory[p]) /\ memory[p] # None
  BY Fields DEF TransportFailure, Persist
<1>2. Credible(memory[p], service)
  BY <1>1 DEF Informed
<1> QED
  BY <1>1, <1>2, InformedFinish

\* Every state an answer leads to advances the one the operation works on,
\* or the one it finds in the file when it reloads.
LEMMA ReceiveAdvances ==
    ASSUME Inv, Informed, NEW p \in Procs, phase[p] = "answered",
           NEW t \in Saves(p)
    PROVE  \E b \in {memory[p], disk} :
              /\ Advances(b, t, service)
              /\ KeyFollows(b, t, exchange[p].request, exchange[p].answer,
                            exchange[p].forgetMissingKey)
<1> DEFINE x == exchange[p]
           r == x.request
           answer == x.answer
           fresh == x.freshAuthorization
           forget == x.forgetMissingKey
           s == memory[p]
           n == Len(service.grants)
<1>1. /\ x \in Exchange /\ r \in PreparedRequest /\ InExchange(p)
      /\ s # None /\ disk # None /\ s \in State /\ Sound(s, n)
      /\ disk \in State /\ Sound(disk, n)
  BY Fields
<1>2. /\ answer # None /\ answer \in Answer /\ fresh \in BOOLEAN
      /\ forget \in BOOLEAN /\ WellFormed(r, n) /\ Honest(r, answer, n)
      /\ Belongs(r, s, fresh)
  BY <1>1 DEF InExchange, Exchange
<1>3. Working(s, service) /\ Working(disk, service)
  BY <1>1 DEF Working, Informed, Credible
<1>4. Fitting(r, answer, s, fresh, service)
  BY <1>1, <1>2 DEF Fitting, Informed, IsCurrentExchange, Inv, TypeOK
<1>5. CASE r.endpoint = "end"
  <2>1. ~ fresh /\ fresh \in BOOLEAN /\ t \in EndSaves(s, r, answer)
    BY <1>2, <1>5 DEF Belongs, Saves
  <2> HIDE DEF x, r, answer, fresh, forget, s, n
  <2>2. Advances(s, t, service) /\ t.storedLicenseKey = s.storedLicenseKey
    BY <1>3, <1>4, <2>1, EndAdvances
  <2> QED
    BY <2>2 DEF KeyFollows, x, r, answer, forget, s
<1>6. CASE r.endpoint # "end"
  <2>1. t \in ExecuteSaves(s, disk, r, answer, fresh, forget)
    BY <1>6 DEF Saves
  <2> HIDE DEF x, r, answer, fresh, forget, s, n
  <2>2. \E b \in {s, disk} : /\ Advances(b, t, service)
                             /\ KeyFollows(b, t, r, answer, forget)
    BY <1>2, <1>3, <1>4, <2>1, ExecuteAdvances
  <2> QED
    BY <2>2 DEF x, r, answer, forget, s
<1> QED
  BY <1>5, <1>6

\* when it takes the answer in,
LEMMA InformedReceive ==
    ASSUME Inv, Inv', Informed, NEW p \in Procs, Receive(p)
    PROVE  Informed'
<1>1. /\ Finish(p) /\ phase[p] = "answered"
      /\ disk' = disk \/ disk' \in Saves(p)
  BY DEF Receive, Persist
<1>2. ASSUME NEW t \in Saves(p) PROVE Credible(t, service)
  BY <1>1, ReceiveAdvances DEF Advances, Credible
<1> QED
  BY <1>1, <1>2, InformedFinish

\* and when the process stops.
LEMMA InformedCrash ==
    ASSUME Inv, Inv', Informed, NEW p \in Procs, Crash(p)
    PROVE  Informed'
<1>1. /\ memory' = [memory EXCEPT ![p] = None]
      /\ phase' = [phase EXCEPT ![p] = "closed"]
      /\ exchange' = [exchange EXCEPT ![p] = None]
      /\ UNCHANGED <<service, disk>>
  BY DEF Crash, NoExchange
<1>2. /\ memory'[p] = None /\ phase'[p] = "closed"
      /\ \A q \in Procs : q # p =>
            /\ memory'[q] = memory[q] /\ exchange'[q] = exchange[q]
            /\ phase'[q] = phase[q]
  BY <1>1 DEF Inv, TypeOK
<1>3. Evolves(service, service')
  BY <1>1, EvolvesReflexive DEF Inv, TypeOK
<1> QED
  BY <1>1, <1>2, <1>3, InformedStep

\* The service moves, or nothing does.
LEMMA InformedService ==
    ASSUME Inv, Inv', Informed, ServiceStep \/ ServeStray \/ UNCHANGED vars
    PROVE  Informed'
<1>1. UNCHANGED <<disk, memory, phase, exchange>>
  BY DEF ServiceStep, ServeStray, vars
<1>2. Evolves(service, service')
  BY ServiceEvolves DEF Next
<1>3. service \in Service /\ service' \in Service
  BY DEF Inv, TypeOK
<1>4. \A s \in State : Credible(s, service) => Credible(s, service')
  BY <1>2, <1>3, KnownStays DEF Credible
<1>5. /\ disk' # None => Credible(disk', service')
      /\ \A p \in Procs : memory'[p] # None => Credible(memory'[p], service')
  BY <1>1, <1>4 DEF Informed, Inv, TypeOK
<1>6. \A p \in Procs : phase'[p] \in {"sent", "answered"} =>
         IsCurrentExchange(p)'
  BY <1>1, <1>2, <1>3, StaysCurrent
<1> QED
  BY <1>5, <1>6 DEF Informed

(***************************************************************************)
(* Whatever the file, the processes and the messages say of an epoch, the  *)
(* service said it and has not taken it back; every request asks for the   *)
(* state its sender works on, and its answer is not older than that state. *)
(***************************************************************************)
THEOREM SessionIsInformed == Spec => []InformedInv
<1>1. Init => InformedInv
  BY InitInv, InformedInit DEF InformedInv
<1>2. Inv /\ Informed /\ [Next]_vars /\ Inv' => Informed'
  <2> SUFFICES ASSUME Inv, Informed, [Next]_vars, Inv' PROVE Informed'
    OBVIOUS
  <2> QED
    BY InformedService, InformedOpenLoad, InformedOpenPersist,
       InformedOperation, InformedServe, InformedResend, InformedFailure,
       InformedReceive, InformedCrash DEF Next
<1> QED
  BY <1>1, <1>2, SessionInvariant, PTL DEF Spec, InformedInv

(***************************************************************************)
(* Every installation that was ever authorized holds its epoch's lease or  *)
(* one record of how it ended, and an end is pending exactly while its     *)
(* retry material is kept, however answers, crashes and peers interleave.  *)
(***************************************************************************)
THEOREM EpochIsAccountedFor == Spec => []EpochAccountedFor
<1>1. InformedInv => EpochAccountedFor
  BY DEF InformedInv, Informed, Credible, Accounted, EpochAccountedFor
<1> QED
  BY <1>1, SessionIsInformed, PTL

(***************************************************************************)
(* The file says ended or revoked only of an epoch the service ended, or   *)
(* revoked, outgrew or withdrew the key of: no reordering of answers,      *)
(* reload or retry makes accept record an end nobody signed.               *)
(***************************************************************************)
THEOREM TerminalMarksAreTheServices == Spec => []TerminalIsServersWord
<1>1. ASSUME InformedInv, disk # None
      PROVE  /\ disk.ended =>
                   service.grants[disk.authorizationId].state = "ended"
             /\ disk.revoked =>
                   GivenUp(service, disk.authorizationId,
                           disk.highestGeneration)
  BY <1>1 DEF InformedInv, Informed, Credible, Known, Accounted
<1>2. InformedInv => TerminalIsServersWord
  BY <1>1 DEF TerminalIsServersWord, GivenUp
<1> QED
  BY <1>2, SessionIsInformed, PTL

(***************************************************************************)
(* The answer of an honest service to an authorize, renew or status        *)
(* request passes the sequence, generation and key-history checks of       *)
(* process and accept, whatever the service did after it answered.         *)
(***************************************************************************)
THEOREM HonestAnswersPass == Spec => []FreshAnswersAccepted
<1>1. ASSUME InformedInv, NEW p \in Procs, phase[p] = "answered",
             exchange[p].answer.framed, exchange[p].request.endpoint # "end"
      PROVE  Accepts(p)
  <2> DEFINE x == exchange[p]
             s == memory[p]
             n == Len(service.grants)
  <2>1. /\ x \in Exchange /\ x.request \in PreparedRequest /\ InExchange(p)
        /\ s # None /\ s \in State /\ Sound(s, n) /\ n \in Nat
    BY <1>1, Fields, GrantCount DEF InformedInv, Inv
  <2>2. /\ x.answer # None /\ x.answer \in Answer
        /\ x.freshAuthorization \in BOOLEAN
        /\ WellFormed(x.request, n) /\ Honest(x.request, x.answer, n)
        /\ Belongs(x.request, s, x.freshAuthorization)
    BY <1>1, <2>1 DEF InExchange, Exchange
  <2>3. /\ Asks(x.request, s) /\ Newer(x.request, x.answer, s)
        /\ InForm(x.request, x.answer)
    BY <1>1, <2>2 DEF InformedInv, Informed, IsCurrentExchange
  <2>4. x.answer.framed /\ x.request.endpoint # "end"
    BY <1>1
  <2> HIDE DEF x, s, n
  <2>5. /\ Verified(s, x.request, x.answer)
        /\ Acceptable(s, x.request, x.answer, x.freshAuthorization)
    BY <2>1, <2>2, <2>3, <2>4, FreshAccepted
  <2> QED
    BY <2>5 DEF Accepts, x, s
<1>2. InformedInv => FreshAnswersAccepted
  BY <1>1 DEF FreshAnswersAccepted
<1> QED
  BY <1>2, SessionIsInformed, PTL

-----------------------------------------------------------------------------
(* The gates, when opening a session waits for the operations of others.   *)

Busy == {"opening", "sent", "answered"}

\* Whoever is in open or in an operation has the installation to itself, and
\* what it works on is what the file holds.
GatesHold ==
    \A p \in Procs :
       /\ phase[p] \in {"sent", "answered"} =>
             /\ installationLock = p /\ bootstrapLock = None
             /\ memory[p] = disk
       /\ phase[p] = "opening" =>
             /\ bootstrapLock = p /\ installationLock = None
             /\ memory[p] = IF disk = None THEN Fresh ELSE disk

\* A process that is in open or in an operation is the only one.
LEMMA NobodyElse ==
    ASSUME GatesHold, NEW p \in Procs,
           \/ phase[p] \in Busy
           \/ installationLock = None /\ bootstrapLock = None,
           NEW q \in Procs, q # p
    PROVE  phase[q] \notin Busy
  BY SessionAssumption DEF GatesHold, Busy

\* No gate is taken at first.
LEMMA GatesInit == Init => GatesHold
  BY DEF Init, GatesHold

\* No step lets a second process in or moves the file behind the first.
LEMMA GatesStay ==
    ASSUME OpenOverlaps = FALSE, Inv, GatesHold, [Next]_vars
    PROVE  GatesHold'
<1>1. /\ memory \in [Procs -> State \cup {None}] /\ phase \in [Procs -> Phase]
  BY DEF Inv, TypeOK
<1>2. CASE ServiceStep \/ ServeStray \/ UNCHANGED vars
  BY <1>2 DEF ServiceStep, ServeStray, vars, GatesHold
<1>3. ASSUME NEW p \in Procs,
             \/ phase[p] \in Busy
             \/ installationLock = None /\ bootstrapLock = None,
             \A q \in Procs : q # p => phase'[q] = phase[q],
             phase'[p] \in {"sent", "answered"} =>
                /\ installationLock' = p /\ bootstrapLock' = None
                /\ memory'[p] = disk',
             phase'[p] = "opening" =>
                /\ bootstrapLock' = p /\ installationLock' = None
                /\ memory'[p] = IF disk' = None THEN Fresh ELSE disk'
      PROVE  GatesHold'
  BY <1>3, NobodyElse DEF GatesHold, Busy
<1>4. ASSUME NEW p \in Procs, OpenLoad(p)
      PROVE  GatesHold'
  <2>1. /\ installationLock = None /\ bootstrapLock = None
        /\ bootstrapLock' = p /\ installationLock' = None /\ disk' = disk
        /\ memory'[p] = IF disk = None THEN Fresh ELSE disk
        /\ phase'[p] = "opening"
        /\ \A q \in Procs : q # p => phase'[q] = phase[q]
    BY <1>1, <1>4 DEF OpenLoad
  <2> QED
    BY <1>3, <2>1
<1>5. ASSUME NEW p \in Procs, OpenPersist(p)
      PROVE  GatesHold'
  <2>1. /\ phase[p] \in Busy /\ phase'[p] = "ready"
        /\ \A q \in Procs : q # p => phase'[q] = phase[q]
    BY <1>1, <1>5 DEF OpenPersist, Busy
  <2> QED
    BY <1>3, <2>1
<1>6. ASSUME NEW p \in Procs, NEW s, NEW r, NEW fresh, NEW forget,
             CanBegin(p), disk' = s, Send(p, s, r, fresh, forget)
      PROVE  GatesHold'
  <2>1. /\ installationLock = None /\ bootstrapLock = None
        /\ installationLock' = p /\ bootstrapLock' = None
        /\ memory'[p] = disk' /\ phase'[p] = "sent"
        /\ \A q \in Procs : q # p => phase'[q] = phase[q]
    BY <1>1, <1>6 DEF CanBegin, Send
  <2> QED
    BY <1>3, <2>1
<1>7. ASSUME NEW p \in Procs, Operation(p)
      PROVE  GatesHold'
  BY <1>6, <1>7 DEF Operation, AuthorizeWithKey, AuthorizeWithStoredKey,
     AuthorizeWithAccount, RenewIfDue, SynchronizeStatus, BeginEnd,
     ResumeEnd, Persist
<1>8. ASSUME NEW p \in Procs, Serve(p) \/ Resend(p)
      PROVE  GatesHold'
  <2>1. /\ phase[p] \in {"sent", "answered"}
        /\ phase'[p] \in {"sent", "answered"}
        /\ UNCHANGED <<disk, memory, installationLock, bootstrapLock>>
        /\ \A q \in Procs : q # p => phase'[q] = phase[q]
    BY <1>1, <1>8 DEF Serve, Resend
  <2> QED
    BY <1>3, <2>1 DEF GatesHold, Busy
<1>9. ASSUME NEW p \in Procs, TransportFailure(p) \/ Receive(p)
      PROVE  GatesHold'
  <2>1. /\ phase[p] \in Busy /\ phase'[p] = "ready"
        /\ \A q \in Procs : q # p => phase'[q] = phase[q]
    BY <1>1, <1>9 DEF TransportFailure, Receive, Finish, Busy
  <2> QED
    BY <1>3, <2>1
<1>10. ASSUME NEW p \in Procs, Crash(p)
       PROVE  GatesHold'
  <2>1. /\ phase'[p] = "closed" /\ disk' = disk
        /\ installationLock' = IF installationLock = p THEN None
                               ELSE installationLock
        /\ bootstrapLock' = IF bootstrapLock = p THEN None ELSE bootstrapLock
        /\ \A q \in Procs : q # p =>
              phase'[q] = phase[q] /\ memory'[q] = memory[q]
    BY <1>1, <1>10 DEF Crash
  <2> QED
    BY <2>1 DEF GatesHold
<1> QED
  BY <1>2, <1>4, <1>5, <1>7, <1>8, <1>9, <1>10 DEF Next

\* The retained key of the file goes only when the service does not know it.
KeyOutlived(s, t, svc) ==
    s.storedLicenseKey # None /\ t.storedLicenseKey = None
       => s.storedLicenseKey \notin svc.licenseKeys

\* What one step may do to the file.
LEMMA FileFollows ==
    ASSUME InformedInv, GatesHold, [Next]_vars
    PROVE  \/ disk' = disk
           \/ disk = None /\ disk' = Fresh
           \/ /\ disk \in State /\ disk' \in State
              /\ Follows(disk, disk') /\ KeyOutlived(disk, disk', service)
<1>1. Inv /\ Informed
  BY DEF InformedInv
<1>2. CASE ServiceStep \/ ServeStray \/ UNCHANGED vars
  BY <1>2 DEF ServiceStep, ServeStray, vars
<1>3. ASSUME NEW p \in Procs,
             OpenLoad(p) \/ Serve(p) \/ Resend(p) \/ Crash(p)
      PROVE  disk' = disk
  BY <1>3 DEF OpenLoad, Serve, Resend, Crash
<1>4. ASSUME NEW p \in Procs, OpenPersist(p)
      PROVE  disk' = disk \/ (disk = None /\ disk' = Fresh)
  BY <1>4 DEF OpenPersist, Persist, GatesHold
<1>5. ASSUME NEW p \in Procs, TransportFailure(p)
      PROVE  disk' = disk
  BY <1>5 DEF TransportFailure, Persist, GatesHold
<1>6. ASSUME NEW p \in Procs, Operation(p)
      PROVE  \/ disk' = disk
             \/ /\ disk \in State /\ disk' \in State
                /\ Follows(disk, disk') /\ KeyOutlived(disk, disk', service)
  <2>1. disk \in State
    <3>1. CanBegin(p)
      BY <1>6 DEF Operation, AuthorizeWithKey, AuthorizeWithStoredKey,
         AuthorizeWithAccount, RenewIfDue, SynchronizeStatus, BeginEnd,
         ResumeEnd
    <3> QED
      BY <1>1, <3>1, Fields DEF CanBegin
  <2>2. ASSUME NEW k \in Keys, AuthorizeWithKey(p, k)
        PROVE  /\ disk' \in State /\ Follows(disk, disk')
               /\ KeyOutlived(disk, disk', service)
    <3>1. disk' = [disk EXCEPT !.storedLicenseKey = k]
      BY <2>2 DEF AuthorizeWithKey, Persist
    <3>2. /\ disk' \in State /\ SameMarks(disk, disk')
          /\ SameLease(disk, disk') /\ disk'.storedLicenseKey = k
      BY <2>1, <3>1, ForgetKeyAlike
    <3> QED
      BY <2>1, <3>2, FollowsItself, NoneAssumption DEF KeyOutlived
  <2>3. CASE BeginEnd(p)
    <3> DEFINE r == Prepare("end", disk, disk.lease, None,
                            Cardinality(ends) + 1)
    <3>1. /\ disk' = [disk EXCEPT !.pendingEnd = r, !.ending = TRUE]
          /\ disk.pendingEnd = None
      BY <2>3 DEF BeginEnd, Persist
    <3> HIDE DEF r
    <3>2. disk' # disk => disk' \in State
      <4>1. Inv'
        BY <1>1, <2>3, BeginEndStep
      <4>2. disk' # None
        BY <4>1, <2>3, Fields DEF Inv, Consistent, InExchange, BeginEnd, Send,
           TypeOK
      <4> QED
        BY <4>1, <4>2 DEF Inv, TypeOK
    <3>3. /\ SameMarks(disk, disk') /\ disk'.ended = disk.ended
          /\ disk'.revoked = disk.revoked
          /\ disk'.storedLicenseKey = disk.storedLicenseKey
      BY <2>1, <3>1 DEF State, SameMarks
    <3>4. Follows(disk, disk')
      BY <2>1, <3>1, <3>3 DEF Follows, SameMarks, State
    <3> QED
      BY <2>1, <3>2, <3>3, <3>4 DEF KeyOutlived
  <2>4. CASE UNCHANGED disk
    BY <2>4
  <2> QED
    BY <1>6, <2>1, <2>2, <2>3, <2>4 DEF Operation, AuthorizeWithStoredKey,
       AuthorizeWithAccount, RenewIfDue, SynchronizeStatus, ResumeEnd
<1>7. ASSUME NEW p \in Procs, Receive(p)
      PROVE  \/ disk' = disk
             \/ /\ disk \in State /\ disk' \in State
                /\ Follows(disk, disk') /\ KeyOutlived(disk, disk', service)
  <2> DEFINE x == exchange[p]
  <2>1. /\ phase[p] = "answered" /\ (disk' = disk \/ disk' \in Saves(p))
    BY <1>7 DEF Receive, Persist
  <2>2. memory[p] = disk /\ disk \in State /\ x \in Exchange
    BY <1>1, <2>1, Fields DEF GatesHold
  <2>3. CASE disk' \in Saves(p)
    <3>1. /\ Advances(disk, disk', service)
          /\ KeyFollows(disk, disk', x.request, x.answer, x.forgetMissingKey)
      BY <1>1, <2>1, <2>2, <2>3, ReceiveAdvances
    <3>2. disk' \in State /\ Follows(disk, disk')
      BY <3>1 DEF Advances
    <3>3. KeyOutlived(disk, disk', service)
      <4>1. CASE disk'.storedLicenseKey = disk.storedLicenseKey
        BY <4>1 DEF KeyOutlived
      <4>2. CASE /\ x.forgetMissingKey
                 /\ x.answer.decision # None
                 /\ x.answer.decision.responseCode = "KEY_NOT_FOUND"
        <5>1. IsCurrentExchange(p) /\ x.answer # None
          BY <1>1, <2>1, Fields DEF Informed, InExchange
        <5>2. /\ x.request.licenseKey = disk.storedLicenseKey
              /\ Justified(x.request, x.answer.decision, service)
          BY <2>2, <4>2, <5>1 DEF IsCurrentExchange, Truthful
        <5> QED
          BY <4>2, <5>2 DEF KeyOutlived, Justified
      <4> QED
        BY <3>1, <4>1, <4>2 DEF KeyFollows
    <3> QED
      BY <2>2, <3>2, <3>3
  <2> QED
    BY <2>1, <2>3
<1> QED
  BY <1>2, <1>3, <1>4, <1>5, <1>6, <1>7 DEF Next

-----------------------------------------------------------------------------
(* The past of the installation.                                           *)

\* Every epoch the file has recorded as over is over in the state it holds
\* now, and every end request that was prepared is pending there or is about
\* an epoch that is over; no epoch has two.
Past ==
    /\ disk = None => retired = {} /\ ends = {}
    /\ disk # None =>
          /\ retired \subseteq Over(disk)
          /\ \A e \in ends :
                \/ e.presentedLease.authorizationId \in Over(disk)
                \/ e = disk.pendingEnd
    /\ ExactEndRetry

\* A lease is held in an epoch that is not over.
LEMMA HeldIsNotOver ==
    ASSUME InformedInv, disk # None, disk.lease # None
    PROVE  /\ disk.lease.authorizationId = disk.authorizationId
           /\ disk.lease.authorizationId \notin Over(disk)
           /\ disk.authorizationId # 0
<1>1. disk \in State /\ Sound(disk, Len(service.grants)) /\ Accounted(disk)
  BY Fields DEF InformedInv, Informed, Credible
<1>2. /\ disk.lease.authorizationId = disk.authorizationId
      /\ ~ disk.ended /\ ~ disk.revoked /\ disk.authorizationId # 0
      /\ disk.authorizationId \in Nat
  BY <1>1 DEF Sound, Reloads, Accounted, State
<1> QED
  BY <1>2 DEF Over

\* An end is pending only in an epoch that is not over, so a new request
\* is never prepared for the same epoch.
LEMMA PendingEndIsHeld ==
    ASSUME InformedInv, disk # None, disk.pendingEnd # None
    PROVE  /\ disk.lease # None
           /\ disk.pendingEnd.presentedLease.authorizationId
                 = disk.authorizationId
<1>1. disk \in State /\ Sound(disk, Len(service.grants))
  BY Fields DEF InformedInv
<1> QED
  BY <1>1, HeldIsNotOver DEF Sound

\* What a state counts as over, its followers do.
LEMMA OverGrows ==
    ASSUME NEW s \in State, NEW t \in State, Follows(s, t)
    PROVE  /\ Over(s) \subseteq Over(t)
           /\ s.authorizationId # 0 /\ s.pendingEnd # None =>
                 t.pendingEnd = s.pendingEnd \/ s.authorizationId \in Over(t)
<1>1. s.authorizationId \in Nat /\ t.authorizationId \in Nat
  BY DEF State
<1> QED
  BY <1>1 DEF Follows, Over

\* How the history variables move.
LEMMA HistoryMoves ==
    ASSUME Inv, [Next]_vars
    PROVE  /\ \/ disk' = disk /\ retired' = retired
              \/ retired' = retired \cup Over(disk')
           /\ \/ ends' = ends
              \/ /\ disk # None /\ disk.pendingEnd = None
                 /\ disk.lease # None /\ disk' # None
                 /\ disk'.pendingEnd.presentedLease = disk.lease
                 /\ ends' = ends \cup {disk'.pendingEnd}
<1>1. CASE ServiceStep \/ ServeStray \/ UNCHANGED vars
  BY <1>1 DEF ServiceStep, ServeStray, vars
<1>2. ASSUME NEW p \in Procs,
             \/ OpenLoad(p) \/ OpenPersist(p) \/ Serve(p) \/ Resend(p)
             \/ TransportFailure(p) \/ Receive(p) \/ Crash(p)
      PROVE  /\ \/ disk' = disk /\ retired' = retired
                \/ retired' = retired \cup Over(disk')
             /\ ends' = ends
  BY <1>2 DEF OpenLoad, OpenPersist, Serve, Resend, TransportFailure,
     Receive, Finish, Crash, Persist
<1>3. ASSUME NEW p \in Procs, Operation(p), ~ BeginEnd(p)
      PROVE  /\ \/ disk' = disk /\ retired' = retired
                \/ retired' = retired \cup Over(disk')
             /\ ends' = ends
  BY <1>3 DEF Operation, AuthorizeWithKey, AuthorizeWithStoredKey,
     AuthorizeWithAccount, RenewIfDue, SynchronizeStatus, ResumeEnd, Persist
<1>4. ASSUME NEW p \in Procs, BeginEnd(p)
      PROVE  /\ retired' = retired \cup Over(disk')
             /\ disk # None /\ disk.pendingEnd = None
             /\ disk.lease # None /\ disk' # None
             /\ disk'.pendingEnd.presentedLease = disk.lease
             /\ ends' = ends \cup {disk'.pendingEnd}
  <2> DEFINE r == Prepare("end", disk, disk.lease, None, Cardinality(ends) + 1)
  <2>1. /\ disk # None /\ disk.pendingEnd = None /\ disk.lease # None
        /\ disk' = [disk EXCEPT !.pendingEnd = r, !.ending = TRUE]
        /\ retired' = retired \cup Over(disk') /\ ends' = ends \cup {r}
    BY <1>4 DEF BeginEnd, CanBegin, Persist
  <2>2. r.presentedLease = disk.lease
    BY DEF Prepare
  <2> HIDE DEF r
  <2>3. disk'.pendingEnd = r
    BY <2>1, Fields DEF State
  <2>4. disk' # None
    BY <1>4, BeginEndStep, Fields DEF Inv, Consistent, InExchange, BeginEnd,
       Send, TypeOK
  <2> QED
    BY <2>1, <2>2, <2>3, <2>4
<1> QED
  BY <1>1, <1>2, <1>3, <1>4 DEF Next

\* Only the first save makes history where there was no file.
LEMMA NoFileNoHistory ==
    ASSUME Inv, [Next]_vars, disk = None, disk' = None
    PROVE  retired' = retired
<1>1. ASSUME NEW p \in Procs, OpenPersist(p)
      PROVE  FALSE
  BY <1>1 DEF OpenPersist, Persist, Inv, Consistent
<1>2. ASSUME NEW p \in Procs,
             TransportFailure(p) \/ Receive(p) \/ Operation(p)
      PROVE  FALSE
  BY <1>2, Fields DEF TransportFailure, Receive, Operation,
     AuthorizeWithKey, AuthorizeWithStoredKey, AuthorizeWithAccount,
     RenewIfDue, SynchronizeStatus, BeginEnd, ResumeEnd, CanBegin
<1> QED
  BY <1>1, <1>2 DEF Next, vars, ServiceStep, ServeStray, OpenLoad, Serve,
     Resend, Crash

\* Every step keeps the past.
LEMMA PastStays ==
    ASSUME InformedInv, InformedInv', GatesHold, Past, [Next]_vars
    PROVE  Past'
<1>1. Inv /\ (disk \in State \/ disk = None)
  BY DEF InformedInv, Inv, TypeOK
<1>2. CASE disk = None
  <2>1. disk' = None \/ disk' = Fresh
    BY <1>2, FileFollows, NoneAssumption
  <2>2. /\ retired = {} /\ ends = {} /\ ends' = {}
        /\ retired' = {} \/ retired' = Over(disk')
    BY <1>1, <1>2, HistoryMoves DEF Past
  <2>3. disk' = Fresh => Over(disk') = {}
    BY DEF Over, Fresh
  <2>4. disk' = None => retired' = {}
    BY <1>1, <1>2, <2>2, NoFileNoHistory
  <2> QED
    BY <2>1, <2>2, <2>3, <2>4 DEF Past, ExactEndRetry
<1>3. CASE disk # None
  <2>1. /\ disk' \in State /\ disk' # None
        /\ Over(disk) \subseteq Over(disk')
        /\ disk.pendingEnd # None =>
              \/ disk'.pendingEnd = disk.pendingEnd
              \/ disk.authorizationId \in Over(disk')
    BY <1>1, <1>3, FileFollows, OverGrows, HeldIsNotOver, PendingEndIsHeld,
       NoneAssumption
  <2>2. retired' \subseteq Over(disk')
    BY <1>1, <1>3, <2>1, HistoryMoves DEF Past
  <2>3. ASSUME NEW e \in ends
        PROVE  \/ e.presentedLease.authorizationId \in Over(disk')
               \/ e = disk'.pendingEnd
    <3>1. CASE e.presentedLease.authorizationId \in Over(disk)
      BY <2>1, <3>1
    <3>2. CASE e = disk.pendingEnd
      <4>1. e # None
        BY NoneAssumption DEF InformedInv, Inv, TypeOK
      <4> QED
        BY <1>3, <2>1, <3>2, <4>1, PendingEndIsHeld
    <3> QED
      BY <1>3, <3>1, <3>2 DEF Past
  <2>4. CASE ends' = ends
    BY <1>3, <2>1, <2>2, <2>3, <2>4 DEF Past, ExactEndRetry
  <2>5. CASE /\ disk.pendingEnd = None /\ disk.lease # None
             /\ disk'.pendingEnd.presentedLease = disk.lease
             /\ ends' = ends \cup {disk'.pendingEnd}
    <3>1. ASSUME NEW e \in ends
          PROVE  e.presentedLease.authorizationId
                    # disk'.pendingEnd.presentedLease.authorizationId
      <4>1. e # None
        BY NoneAssumption DEF InformedInv, Inv, TypeOK
      <4>2. e.presentedLease.authorizationId \in Over(disk)
        BY <1>3, <2>5, <4>1 DEF Past
      <4> QED
        BY <1>3, <2>5, <4>2, HeldIsNotOver
    <3>2. ExactEndRetry'
      BY <2>5, <3>1 DEF Past, ExactEndRetry
    <3> QED
      BY <2>1, <2>2, <2>3, <2>5, <3>2 DEF Past
  <2> QED
    BY <1>1, <2>4, <2>5, HistoryMoves
<1> QED
  BY <1>2, <1>3

\* What holds when opening a session waits for the operations of others.
SerialInv == InformedInv /\ GatesHold /\ Past

\* There is no past at first.
LEMMA PastInit == Init => Past
  BY NoneAssumption DEF Init, Past, ExactEndRetry

(***************************************************************************)
(* The invariant the next theorems rest on. It needs the gates:            *)
(* persistent() does not take the lock of operations, and an open that     *)
(* overlaps a peer's operation may save what it read before that did.      *)
(***************************************************************************)
THEOREM SerialInvariant ==
    ASSUME OpenOverlaps = FALSE
    PROVE  Spec => []SerialInv
<1>1. Init => GatesHold /\ Past
  BY GatesInit, PastInit
<1>2. InformedInv /\ GatesHold /\ Past /\ [Next]_vars /\ InformedInv'
         => GatesHold' /\ Past'
  <2> SUFFICES ASSUME InformedInv, GatesHold, Past, [Next]_vars, InformedInv'
               PROVE  GatesHold' /\ Past'
    OBVIOUS
  <2> QED
    BY GatesStay, PastStays DEF InformedInv
<1> QED
  BY <1>1, <1>2, SessionIsInformed, PTL DEF Spec, SerialInv

(***************************************************************************)
(* A lease the file recorded as over is never in the file again.           *)
(***************************************************************************)
THEOREM OverIsForGood ==
    ASSUME OpenOverlaps = FALSE
    PROVE  Spec => []RetiredStaysRetired
<1>1. SerialInv => RetiredStaysRetired
  <2> SUFFICES ASSUME SerialInv PROVE Held(disk) \cap retired = {}
    BY DEF RetiredStaysRetired
  <2>1. CASE disk = None \/ disk.lease = None
    BY <2>1 DEF Held
  <2>2. CASE disk # None /\ disk.lease # None
    <3>1. Held(disk) = {disk.lease.authorizationId}
      BY <2>2 DEF Held
    <3> QED
      BY <2>2, <3>1, HeldIsNotOver DEF SerialInv, Past
  <2> QED
    BY <2>1, <2>2
<1> QED
  BY <1>1, SerialInvariant, PTL

(***************************************************************************)
(* However often an end is interrupted or retried, and by whichever        *)
(* process, its epoch has one end request.                                 *)
(***************************************************************************)
THEOREM OneEndRequest ==
    ASSUME OpenOverlaps = FALSE
    PROVE  Spec => []ExactEndRetry
<1>1. SerialInv => ExactEndRetry
  BY DEF SerialInv, Past
<1> QED
  BY <1>1, SerialInvariant, PTL

\* What a step does to the file, for the action properties.
LEMMA SerialStep ==
    ASSUME SerialInv, [Next]_vars, disk # None
    PROVE  /\ disk \in State /\ disk' \in State /\ disk' # None
           /\ Follows(disk, disk') /\ KeyOutlived(disk, disk', service)
<1>1. disk \in State
  BY Fields DEF SerialInv, InformedInv
<1>2. CASE disk' = disk
  <2>1. Follows(disk, disk)
    BY <1>1, FollowsItself DEF SameMarks, SameLease
  <2> QED
    BY <1>1, <1>2, <2>1 DEF KeyOutlived
<1>3. CASE disk' # disk
  <2>1. /\ disk' \in State /\ Follows(disk, disk')
        /\ KeyOutlived(disk, disk', service)
    BY <1>3, FileFollows DEF SerialInv
  <2> QED
    BY <1>1, <2>1, NoneAssumption
<1> QED
  BY <1>2, <1>3

(***************************************************************************)
(* No save lowers a high-water mark of the file.                           *)
(***************************************************************************)
THEOREM MarksNeverFall ==
    ASSUME OpenOverlaps = FALSE
    PROVE  Spec => HighWaterNeverFalls
<1>1. ASSUME SerialInv, [Next]_vars, disk # None
      PROVE  /\ disk' # None
             /\ disk'.statusSequence >= disk.statusSequence
             /\ disk'.keysetSequence >= disk.keysetSequence
             /\ disk'.authorizationId >= disk.authorizationId
             /\ disk'.authorizationId = disk.authorizationId =>
                   /\ disk'.highestGeneration >= disk.highestGeneration
                   /\ disk'.minimumGeneration >= disk.minimumGeneration
  <2>1. disk'.authorizationId \in Nat /\ disk.authorizationId \in Nat
    BY <1>1, SerialStep DEF State
  <2> QED
    BY <1>1, <2>1, SerialStep DEF Follows
<1> QED
  BY <1>1, SerialInvariant, PTL DEF Spec, HighWaterNeverFalls

(***************************************************************************)
(* A pending end keeps its exact request in the file until its epoch is    *)
(* over or replaced.                                                       *)
(***************************************************************************)
THEOREM PendingEndIsKept ==
    ASSUME OpenOverlaps = FALSE
    PROVE  Spec => TombstoneKept
<1>1. ASSUME SerialInv, [Next]_vars, disk # None /\ disk.pendingEnd # None
      PROVE  \/ disk'.pendingEnd = disk.pendingEnd
             \/ disk'.ended
             \/ disk'.revoked
             \/ disk'.authorizationId # disk.authorizationId
  <2>1. disk'.authorizationId \in Nat /\ disk.authorizationId \in Nat
    BY <1>1, SerialStep DEF State
  <2>2. Follows(disk, disk')
    BY <1>1, SerialStep
  <2> QED
    BY <1>1, <2>1, <2>2 DEF Follows
<1> QED
  BY <1>1, SerialInvariant, PTL DEF Spec, TombstoneKept

(***************************************************************************)
(* The retained license key leaves the file only when the service does not *)
(* know it.                                                                *)
(***************************************************************************)
THEOREM KeyIsKeptUntilUnknown ==
    ASSUME OpenOverlaps = FALSE
    PROVE  Spec => RetainedKeyKept
<1>1. ASSUME SerialInv, [Next]_vars,
             disk # None /\ disk.storedLicenseKey # None
                /\ disk'.storedLicenseKey = None
      PROVE  disk.storedLicenseKey \notin service.licenseKeys
  BY <1>1, SerialStep DEF KeyOutlived
<1> QED
  BY <1>1, SerialInvariant, PTL DEF Spec, RetainedKeyKept

\* One step of the file is one step of the life cycle.
LEMMA LifecycleStep ==
    ASSUME NEW s \in State, NEW t \in State, Accounted(s), Accounted(t),
           Follows(s, t), s # None, t # None
    PROVE  \/ Epoch(t) = Epoch(s) /\ Stage(t) = Stage(s)
           \/ /\ Epoch(t) \in Nat /\ Epoch(t) > Epoch(s)
              /\ Stage(t) \in {"held", "ended", "revoked"}
           \/ /\ Epoch(t) = Epoch(s) /\ Stage(s) = "held"
              /\ Stage(t) = "ending"
           \/ /\ Epoch(t) = Epoch(s) /\ Stage(s) \in {"held", "ending"}
              /\ Stage(t) \in {"ended", "revoked"}
<1>1. /\ Epoch(s) = s.authorizationId /\ Epoch(t) = t.authorizationId
      /\ s.authorizationId \in Nat /\ t.authorizationId \in Nat
  BY DEF Epoch, State
<1>2. CASE t.authorizationId > s.authorizationId
  <2>1. t.authorizationId # 0
    BY <1>1, <1>2
  <2>2. t.pendingEnd = None
    BY <1>1, <1>2 DEF Follows
  <2>3. t.ending = (t.pendingEnd # None)
    BY DEF Accounted
  <2>4. ~ t.ending
    BY <2>2, <2>3
  <2> QED
    BY <1>1, <1>2, <2>1, <2>4 DEF Stage
<1>3. CASE t.authorizationId = s.authorizationId /\ s.authorizationId = 0
  BY <1>1, <1>3 DEF Stage
<1>4. CASE t.authorizationId = s.authorizationId /\ s.authorizationId # 0
  <2>1. /\ s.ended \/ s.revoked => t.ended = s.ended /\ t.revoked = s.revoked
        /\ s.pendingEnd # None =>
              t.pendingEnd = s.pendingEnd \/ t.ended \/ t.revoked
    BY <1>1, <1>4 DEF Follows
  <2>2. /\ s.ending = (s.pendingEnd # None) /\ t.ending = (t.pendingEnd # None)
    BY DEF Accounted
  <2>3. CASE s.ended \/ s.revoked
    BY <1>1, <1>4, <2>1, <2>3 DEF Stage
  <2>4. CASE ~ s.ended /\ ~ s.revoked /\ (t.ended \/ t.revoked)
    BY <1>1, <1>4, <2>4 DEF Stage
  <2>5. CASE ~ s.ended /\ ~ s.revoked /\ ~ t.ended /\ ~ t.revoked
    BY <1>1, <1>4, <2>1, <2>2, <2>5 DEF Stage
  <2> QED
    BY <2>3, <2>4, <2>5
<1> QED
  BY <1>1, <1>2, <1>3, <1>4 DEF Follows

(***************************************************************************)
(* The file's epochs live the life of LeaseLifecycle: one after another,   *)
(* and each is held, then perhaps ending, then over for good.              *)
(***************************************************************************)
THEOREM FileImplementsLifecycle ==
    ASSUME OpenOverlaps = FALSE
    PROVE  Spec => ImplementsLifecycle
<1>1. Init => Lifecycle!Init
  <2> SUFFICES ASSUME Init PROVE Lifecycle!Init
    OBVIOUS
  <2>1. disk = None \/ disk.authorizationId = 0
    BY DEF Init, Migrated, Fresh
  <2> QED
    BY <2>1 DEF Lifecycle!Init, Epoch, Stage
<1>2. SerialInv /\ SerialInv' /\ [Next]_vars => [Lifecycle!Next]_(Lifecycle!vars)
  <2> SUFFICES ASSUME SerialInv, SerialInv', [Next]_vars
               PROVE  \/ Lifecycle!Next
                      \/ Epoch(disk)' = Epoch(disk) /\ Stage(disk)' = Stage(disk)
    BY DEF Lifecycle!vars
  <2>1. CASE disk = None
    <3>1. disk' = None \/ disk' = Fresh
      BY <2>1, FileFollows, NoneAssumption DEF SerialInv
    <3>2. Epoch(disk) = 0 /\ Epoch(disk') = 0
      BY <2>1, <3>1 DEF Epoch, Fresh
    <3> QED
      BY <3>2 DEF Stage, Epoch
  <2>2. CASE disk # None
    <3>1. /\ disk \in State /\ disk' \in State /\ disk' # None
          /\ Follows(disk, disk')
      BY <2>2, SerialStep
    <3>2. Accounted(disk) /\ Accounted(disk')
      BY <2>2, <3>1 DEF SerialInv, InformedInv, Informed, Credible
    <3>3. \/ Epoch(disk') = Epoch(disk) /\ Stage(disk') = Stage(disk)
          \/ /\ Epoch(disk') \in Nat /\ Epoch(disk') > Epoch(disk)
             /\ Stage(disk') \in {"held", "ended", "revoked"}
          \/ /\ Epoch(disk') = Epoch(disk) /\ Stage(disk) = "held"
             /\ Stage(disk') = "ending"
          \/ /\ Epoch(disk') = Epoch(disk)
             /\ Stage(disk) \in {"held", "ending"}
             /\ Stage(disk') \in {"ended", "revoked"}
      BY <2>2, <3>1, <3>2, LifecycleStep
    <3> QED
      BY <3>3 DEF Lifecycle!Next, Lifecycle!Authorize, Lifecycle!RequestEnd,
         Lifecycle!Conclude, Lifecycle!Finished
  <2> QED
    BY <2>1, <2>2
<1> QED
  BY <1>1, <1>2, SerialInvariant, PTL
     DEF Spec, ImplementsLifecycle, Lifecycle!Spec

-----------------------------------------------------------------------------
(* easyAuthorize: what a call hands out, and which end it waits for.       *)

MidCall == {"renew", "status", "end", "stored", "first", "second"}
UnderWay(p) == phase[p] \in {"sent", "answered"}

\* The call of p.  A lease that could not be used when it began cannot be
\* used now, and the end it found is pending or belongs to an epoch that is
\* over: one that is over before the retained key is tried.
CallOK(p) ==
    LET c       == call[p]
        settled == c.found.presentedLease.authorizationId \in Over(disk)
    IN  /\ c.stage \in MidCall => disk # None /\ c.before \subseteq NotUsable
        /\ c.stage = "guide" =>
              /\ c.told.lease # None =>
                    c.told.lease.authorizationId \notin c.before
              /\ c.told.action \in {"none", "continue_offline"} =>
                    c.told.lease # None
        /\ UnderWay(p) => c.stage \in {"first", "second"}
        /\ c.found # None =>
              /\ c.stage \in {"end", "stored", "first", "second"}
              /\ settled \/ c.found = disk.pendingEnd
              /\ c.stage \in {"stored", "second"} => settled
              /\ c.stage = "first" /\ UnderWay(p) =>
                    exchange[p].request.endpoint = "end"

\* The fields of a call.
Fielded(c) == c = [stage |-> c.stage, told |-> c.told, found |-> c.found,
                   before |-> c.before]

EasyInv ==
    /\ DOMAIN call = Callers
    /\ \A p \in Callers : Fielded(call[p]) /\ CallOK(p)

\* What the invariant says of the file and the epochs it knows to be over.
WellKept(d, past) ==
    d # None =>
       /\ d \in State /\ past \subseteq Over(d)
       /\ d.lease # None =>
             /\ d.lease.authorizationId = d.authorizationId
             /\ d.authorizationId \notin Over(d)
             /\ ~ d.ended /\ ~ d.revoked
       /\ d.pendingEnd # None =>
             /\ d.ending /\ d.lease # None
             /\ d.pendingEnd.endpoint = "end"
             /\ d.pendingEnd.presentedLease.authorizationId = d.authorizationId
       /\ d.ending => d.pendingEnd # None

\* A sound state that accounts for its epoch is such a file.
LEMMA SoundIsWellKept ==
    ASSUME NEW d, NEW n, NEW past, d # None => d \in State /\ Sound(d, n),
           d # None => Accounted(d) /\ past \subseteq Over(d)
    PROVE  WellKept(d, past)
<1> SUFFICES ASSUME d # None PROVE WellKept(d, past)
  BY DEF WellKept
<1>1. d.authorizationId \in Nat /\ d.ended \in BOOLEAN /\ d.revoked \in BOOLEAN
  BY DEF State
<1>2. d.lease # None =>
         /\ d.lease.authorizationId = d.authorizationId
         /\ ~ d.ended /\ ~ d.revoked
  BY <1>1 DEF Sound, Reloads, Accounted
<1>3. d.pendingEnd # None =>
         /\ d.ending /\ d.lease # None
         /\ d.pendingEnd.endpoint = "end"
         /\ d.pendingEnd.presentedLease.authorizationId = d.authorizationId
  BY <1>2 DEF Sound, Accounted
<1>4. d.ending => d.pendingEnd # None
  BY DEF Accounted
<1>5. d.lease # None => d.authorizationId \notin Over(d)
  BY <1>1, <1>2 DEF Over
<1> QED
  BY <1>2, <1>3, <1>4, <1>5 DEF WellKept

\* The file is,
LEMMA KeptNow ==
    ASSUME SerialInv
    PROVE  WellKept(disk, retired)
<1>1. disk # None =>
         /\ disk \in State /\ Sound(disk, Len(service.grants))
         /\ Accounted(disk) /\ retired \subseteq Over(disk)
  BY DEF SerialInv, InformedInv, Inv, TypeOK, Consistent, Informed, Credible,
     Past
<1> QED
  BY <1>1, SoundIsWellKept

\* and stays so.
LEMMA KeptNext ==
    ASSUME SerialInv'
    PROVE  WellKept(disk', retired')
<1>1. disk' # None =>
         /\ disk' \in State /\ Sound(disk', Len(service'.grants))
         /\ Accounted(disk') /\ retired' \subseteq Over(disk')
  BY DEF SerialInv, InformedInv, Inv, TypeOK, Consistent, Informed, Credible,
     Past
<1> QED
  BY <1>1, SoundIsWellKept

\* A lease that could not be used cannot be used later, and an end that was
\* pending is pending or its epoch is over.
LEMMA NothingIsRevived ==
    ASSUME SerialInv, SerialInv', [Next]_vars, disk # None
    PROVE  /\ disk' # None /\ NotUsable \subseteq NotUsable'
           /\ Over(disk) \subseteq Over(disk')
           /\ disk.pendingEnd # None =>
                 \/ disk'.pendingEnd = disk.pendingEnd
                 \/ disk.pendingEnd.presentedLease.authorizationId
                       \in Over(disk')
<1>1. /\ disk \in State /\ disk' \in State /\ disk' # None
      /\ Follows(disk, disk')
  BY SerialStep
<1>2. WellKept(disk, retired) /\ WellKept(disk', retired')
  BY KeptNow, KeptNext
<1>3. /\ \/ disk' = disk /\ retired' = retired
         \/ retired' = retired \cup Over(disk')
  BY HistoryMoves DEF SerialInv, InformedInv
<1>4. /\ Over(disk) \subseteq Over(disk')
      /\ disk.authorizationId # 0 /\ disk.pendingEnd # None =>
            \/ disk'.pendingEnd = disk.pendingEnd
            \/ disk.authorizationId \in Over(disk')
  BY <1>1, OverGrows
<1>5. disk.pendingEnd # None => disk.authorizationId # 0
  BY <1>2, HeldIsNotOver DEF SerialInv, WellKept
<1>6. disk.pendingEnd # None =>
         \/ disk'.pendingEnd = disk.pendingEnd
         \/ disk.pendingEnd.presentedLease.authorizationId \in Over(disk')
  BY <1>2, <1>4, <1>5 DEF WellKept
<1>7. NotUsable \subseteq NotUsable'
  <2>1. CASE disk' = disk /\ retired' = retired
    BY <2>1 DEF NotUsable
  <2>2. CASE retired' = retired \cup Over(disk') /\ ~ disk.ending
    BY <2>2 DEF NotUsable
  <2>3. CASE retired' = retired \cup Over(disk') /\ disk.ending
    <3>1. /\ disk.pendingEnd # None /\ disk.lease # None
          /\ Held(disk) = {disk.authorizationId}
          /\ disk.pendingEnd.presentedLease.authorizationId
                = disk.authorizationId
      BY <1>2, <2>3 DEF WellKept, Held
    <3>2. CASE disk.authorizationId \in Over(disk')
      BY <2>3, <3>1, <3>2 DEF NotUsable
    <3>3. CASE disk'.pendingEnd = disk.pendingEnd
      <4>1. /\ disk'.ending /\ disk'.lease # None
            /\ disk'.lease.authorizationId = disk.authorizationId
        BY <1>1, <1>2, <3>1, <3>3 DEF WellKept
      <4>2. Held(disk') = {disk.authorizationId}
        BY <1>1, <4>1 DEF Held
      <4> QED
        BY <2>3, <3>1, <4>1, <4>2 DEF NotUsable
    <3> QED
      BY <1>6, <3>1, <3>2, <3>3
  <2> QED
    BY <1>3, <2>1, <2>2, <2>3
<1> QED
  BY <1>1, <1>4, <1>6, <1>7

-----------------------------------------------------------------------------
(* Which lease a snapshot lets the program use.                            *)

\* A result computed from the state s.
Offers(result, s) ==
    /\ result.lease # None => result.lease = s.lease /\ ~ s.ending
    /\ result.state \in {"authorized_online", "authorized_offline"} =>
          result.lease # None

\* A bare name offers nothing.
LEMMA OnlyOffers ==
    ASSUME NEW s, NEW name,
           name \notin {"authorized_online", "authorized_offline"}
    PROVE  Offers(Only(name), s)
  BY DEF Offers, Only

\* A snapshot offers the lease only when no end is pending.
LEMMA SnapshotOffers ==
    ASSUME NEW s, NEW clock
    PROVE  /\ Offers(SnapshotOf(s, clock, TRUE), s)
           /\ Offers(SnapshotOf(s, clock, FALSE), s)
<1>1. Snapshot(s, clock) = "authorized" => s.lease # None /\ ~ s.ending
  BY DEF Snapshot
<1>2. Snapshot(s, clock) = "renewal_due" => ~ s.ending
  BY DEF Snapshot
<1>3. Snapshot(s, clock) \notin {"authorized_online", "authorized_offline"}
  BY DEF Snapshot
<1> QED
  BY <1>1, <1>2, <1>3 DEF SnapshotOf, Offers, Only

\* So does a name with the lease that is still usable,
LEMMA UsableOffers ==
    ASSUME NEW s, NEW clock, NEW name,
           name \notin {"authorized_online", "authorized_offline"}
    PROVE  Offers([state |-> name, lease |-> UsableLease(s, clock)], s)
  BY DEF Offers, UsableLease

\* what responseSnapshot makes of an answer,
LEMMA ResponseOffers ==
    ASSUME NEW s, NEW answer, NEW fresh, NEW clock
    PROVE  Offers(ResponseSnapshot(s, answer, fresh, clock), s)
  BY SnapshotOffers, OnlyOffers, UsableOffers DEF ResponseSnapshot

\* and what execute returns.
LEMMA ExecuteOffers ==
    ASSUME NEW s, NEW x, NEW clock
    PROVE  Offers(ExecuteSnapshot(s, x, clock), s)
  BY ResponseOffers, OnlyOffers, UsableOffers DEF ExecuteSnapshot

\* What end returns: nothing to use, and an epoch that is over before any
\* key is tried.
LEMMA EndOffers ==
    ASSUME NEW s, NEW x
    PROVE  /\ Offers(EndSnapshot(s, x), s)
           /\ EndSnapshot(s, x).state \in Keyless => s.ended \/ s.revoked
  BY DEF EndSnapshot, Offers, Only, Keyless

\* The recommendation to carry on comes with a lease.
LEMMA ToldOffers ==
    ASSUME NEW s, NEW result, Offers(result, s)
    PROVE  /\ Told(result).lease = result.lease
           /\ Told(result).action \in {"none", "continue_offline"} =>
                 result.lease # None
  BY DEF Told, RecommendedAction, Offers, Keyless

-----------------------------------------------------------------------------
(* Steps of a call.                                                        *)

\* Every step of a call and of the others is a step of the session.
LEMMA EasyIsSession == EasySpec => Spec
<1>1. EasyInit => Init
  BY DEF EasyInit
<1>2. [EasyNext]_easyVars => [Next]_vars
  <2> SUFFICES ASSUME [EasyNext]_easyVars PROVE [Next]_vars
    OBVIOUS
  <2>1. CASE UNCHANGED easyVars
    BY <2>1 DEF easyVars, vars
  <2>2. ASSUME NEW p \in Callers, EasyStep(p)
        PROVE  [Next]_vars
    <3>1. p \in Procs
      BY CallersAssumption
    <3>2. \/ UNCHANGED vars \/ Operation(p) \/ Receive(p)
          \/ TransportFailure(p) \/ Crash(p)
      BY <2>2 DEF EasyStep, Load, EnterKey, Act, ActLocally, TryStoredKey,
         Answered, Unreachable, GateTimesOut, Guide, Operation
    <3> QED
      BY <3>1, <3>2 DEF Next
  <2>3. ASSUME \/ ServiceStep
               \/ \E p \in Procs :
                     OpenLoad(p) \/ OpenPersist(p) \/ Serve(p) \/ Resend(p)
               \/ \E p \in Procs \ Callers :
                     \/ Operation(p) \/ TransportFailure(p)
                     \/ Receive(p) \/ Crash(p)
        PROVE  [Next]_vars
    BY <2>3 DEF Next
  <2> QED
    BY <2>1, <2>2, <2>3 DEF EasyNext
<1> QED
  BY <1>1, <1>2, PTL DEF EasySpec, Spec

\* What a step of p leaves alone of the others.
Others(p) ==
    \A q \in Procs : q # p => phase'[q] = phase[q] /\ exchange'[q] = exchange[q]

\* A process moves only itself.
LEMMA StepIsOwn ==
    ASSUME Inv, NEW p \in Procs,
           \/ OpenLoad(p) \/ OpenPersist(p) \/ Operation(p) \/ Serve(p)
           \/ Resend(p) \/ TransportFailure(p) \/ Receive(p) \/ Crash(p)
    PROVE  Others(p)
<1>1. /\ phase \in [Procs -> Phase]
      /\ exchange \in [Procs -> Exchange \cup {NoExchange}]
  BY DEF Inv, TypeOK
<1>2. CASE Operation(p)
  <2>1. ASSUME NEW s, NEW r, NEW fresh, NEW forget, Send(p, s, r, fresh, forget)
        PROVE  Others(p)
    BY <1>1, <2>1 DEF Send, Others
  <2> QED
    BY <1>2, <2>1 DEF Operation, AuthorizeWithKey, AuthorizeWithStoredKey,
       AuthorizeWithAccount, RenewIfDue, SynchronizeStatus, BeginEnd, ResumeEnd
<1> QED
  BY <1>1, <1>2 DEF OpenLoad, OpenPersist, Serve, Resend, TransportFailure,
     Receive, Finish, Crash, Others

\* A call that does not move stays as it should be.
LEMMA CallKept ==
    ASSUME SerialInv, SerialInv', [Next]_vars, EasyInv, NEW q \in Callers,
           call'[q] = call[q],
           UnderWay(q)' =>
              /\ UnderWay(q)
              /\ exchange'[q].request.endpoint = exchange[q].request.endpoint
    PROVE  CallOK(q)'
<1> DEFINE c == call[q]
<1>1. CallOK(q)
  BY DEF EasyInv
<1>2. disk # None =>
         /\ disk' # None /\ NotUsable \subseteq NotUsable'
         /\ Over(disk) \subseteq Over(disk')
         /\ disk.pendingEnd # None =>
               \/ disk'.pendingEnd = disk.pendingEnd
               \/ disk.pendingEnd.presentedLease.authorizationId \in Over(disk')
  BY NothingIsRevived
<1>3. /\ c.stage \in MidCall => disk' # None /\ c.before \subseteq NotUsable'
      /\ c.stage = "guide" =>
            /\ c.told.lease # None =>
                  c.told.lease.authorizationId \notin c.before
            /\ c.told.action \in {"none", "continue_offline"} =>
                  c.told.lease # None
      /\ UnderWay(q)' => c.stage \in {"first", "second"}
  BY <1>1, <1>2 DEF CallOK
<1>4. ASSUME c.found # None
      PROVE  /\ c.stage \in {"end", "stored", "first", "second"}
             /\ \/ c.found.presentedLease.authorizationId \in Over(disk')
                \/ c.found = disk'.pendingEnd
             /\ c.stage \in {"stored", "second"} =>
                   c.found.presentedLease.authorizationId \in Over(disk')
             /\ c.stage = "first" /\ UnderWay(q)' =>
                   exchange'[q].request.endpoint = "end"
  <2>1. c.stage \in {"end", "stored", "first", "second"} /\ disk # None
    BY <1>1, <1>4 DEF CallOK, MidCall
  <2> QED
    BY <1>1, <1>2, <1>4, <2>1 DEF CallOK
<1> QED
  BY <1>3, <1>4 DEF CallOK

\* Nobody's call moves.
LEMMA CallsKept ==
    ASSUME SerialInv, SerialInv', [Next]_vars, EasyInv, call' = call,
           \A q \in Callers : UnderWay(q)' =>
              /\ UnderWay(q)
              /\ exchange'[q].request.endpoint = exchange[q].request.endpoint
    PROVE  EasyInv'
  BY CallKept DEF EasyInv, Fielded

\* Only the call of p moves.
LEMMA CallMoves ==
    ASSUME SerialInv, SerialInv', [Next]_vars, EasyInv, NEW p \in Callers,
           Others(p), NEW c, Fielded(c), call' = [call EXCEPT ![p] = c],
           CallOK(p)'
    PROVE  EasyInv'
<1>1. DOMAIN call' = Callers /\ call'[p] = c
  BY DEF EasyInv
<1>2. ASSUME NEW q \in Callers, q # p
      PROVE  Fielded(call'[q]) /\ CallOK(q)'
  <2>1. call'[q] = call[q] /\ q \in Procs
    BY <1>2, CallersAssumption DEF EasyInv
  <2>2. phase'[q] = phase[q] /\ exchange'[q] = exchange[q]
    BY <1>2, <2>1 DEF Others
  <2>3. CallOK(q)'
    BY <2>1, <2>2, CallKept DEF UnderWay
  <2> QED
    BY <2>1, <2>3 DEF EasyInv
<1> QED
  BY <1>1, <1>2 DEF EasyInv

\* The lease the file holds, now or after the step, is none that could not
\* be used when the call began.
LEMMA LeaseIsLive ==
    ASSUME SerialInv, SerialInv', [Next]_vars, EasyInv, NEW p \in Callers,
           call[p].stage \in MidCall, NEW s \in {disk, disk'},
           s.lease # None, ~ s.ending
    PROVE  s.lease.authorizationId \notin call[p].before
<1>1. /\ disk # None /\ disk' # None
      /\ call[p].before \subseteq NotUsable
      /\ call[p].before \subseteq NotUsable'
  BY NothingIsRevived DEF EasyInv, CallOK
<1>2. WellKept(disk, retired) /\ WellKept(disk', retired')
  BY KeptNow, KeptNext
<1>3. CASE s = disk
  BY <1>1, <1>2, <1>3 DEF WellKept, NotUsable
<1>4. CASE s = disk'
  BY <1>1, <1>2, <1>4 DEF WellKept, NotUsable
<1> QED
  BY <1>3, <1>4

\* The call has its result.
LEMMA ResultOK ==
    ASSUME SerialInv, SerialInv', [Next]_vars, EasyInv, NEW p \in Callers,
           Others(p), ~ UnderWay(p)', NEW result, Result(p, result),
           NEW s, Offers(result, s),
           s.lease # None /\ ~ s.ending =>
              s.lease.authorizationId \notin call[p].before
    PROVE  EasyInv'
<1> DEFINE c == [stage |-> "guide", told |-> Told(result), found |-> None,
                 before |-> IF result.lease = None THEN {} ELSE call[p].before]
<1>1. call' = [call EXCEPT ![p] = c] /\ call'[p] = c
  BY DEF Result, EasyInv
<1>2. /\ Told(result).lease = result.lease
      /\ Told(result).action \in {"none", "continue_offline"} =>
            result.lease # None
  BY ToldOffers
<1>3. /\ result.lease # None =>
            result.lease.authorizationId \notin call[p].before
  BY DEF Offers
<1>4. CallOK(p)'
  BY <1>1, <1>2, <1>3 DEF CallOK, MidCall
<1> QED
  BY <1>1, <1>4, CallMoves DEF Fielded

\* What moving on changes of a call.
LEMMA FieldedExcept ==
    ASSUME NEW r, NEW stage, Fielded(r)
    PROVE  [r EXCEPT !.stage = stage] =
              [stage |-> stage, told |-> r.told, found |-> r.found,
               before |-> r.before]
<1> DEFINE told == r.told
           found == r.found
           before == r.before
           old == r.stage
<1>1. r = [stage |-> old, told |-> told, found |-> found, before |-> before]
  BY DEF Fielded
<1> HIDE DEF told, found, before, old
<1>2. [r EXCEPT !.stage = stage] =
         [stage |-> stage, told |-> told, found |-> found, before |-> before]
  BY <1>1
<1> QED
  BY <1>2 DEF told, found, before

\* A call goes on to its next section.
LEMMA ContinueOK ==
    ASSUME SerialInv, SerialInv', [Next]_vars, EasyInv, NEW p \in Callers,
           Others(p), NEW stage \in {"stored", "first", "second"},
           Continue(p, stage), call[p].stage \in MidCall,
           UnderWay(p)' => stage \in {"first", "second"},
           call[p].found # None =>
              /\ stage \in {"stored", "second"} =>
                    call[p].found.presentedLease.authorizationId \in Over(disk')
              /\ stage = "first" /\ UnderWay(p)' =>
                    exchange'[p].request.endpoint = "end"
    PROVE  EasyInv'
<1> DEFINE c == [stage |-> stage, told |-> call[p].told,
                 found |-> call[p].found, before |-> call[p].before]
<1>1. call' = [call EXCEPT ![p] = c] /\ call'[p] = c
  <2>1. Fielded(call[p]) /\ p \in DOMAIN call
    BY DEF EasyInv
  <2>2. [call[p] EXCEPT !.stage = stage] = c
    BY <2>1, FieldedExcept
  <2>3. call' = [call EXCEPT ![p] = [call[p] EXCEPT !.stage = stage]]
    BY DEF Continue
  <2> HIDE DEF c
  <2> QED
    BY <2>1, <2>2, <2>3
<1>2. CallOK(p)
  BY DEF EasyInv
<1>3. /\ disk # None /\ disk' # None /\ c.before \subseteq NotUsable'
      /\ Over(disk) \subseteq Over(disk')
      /\ disk.pendingEnd # None =>
            \/ disk'.pendingEnd = disk.pendingEnd
            \/ disk.pendingEnd.presentedLease.authorizationId \in Over(disk')
  BY <1>2, NothingIsRevived DEF CallOK
<1>4. c.found # None =>
         \/ c.found.presentedLease.authorizationId \in Over(disk')
         \/ c.found = disk'.pendingEnd
  BY <1>2, <1>3 DEF CallOK
<1>5. CallOK(p)'
  BY <1>1, <1>3, <1>4 DEF CallOK, MidCall
<1> QED
  BY <1>1, <1>5, CallMoves DEF Fielded

\* A section's result, when the retained key may be next.
LEMMA SettleOK ==
    ASSUME SerialInv, SerialInv', [Next]_vars, EasyInv, NEW p \in Callers,
           Others(p), ~ UnderWay(p)', NEW result, Settle(p, result),
           call[p].stage \in MidCall, NEW s \in {disk, disk'},
           Offers(result, s),
           call[p].found # None /\ result.state \in Keyless =>
              call[p].found.presentedLease.authorizationId \in Over(disk')
    PROVE  EasyInv'
<1>1. CASE result.state \in Keyless
  BY <1>1, ContinueOK DEF Settle
<1>2. CASE result.state \notin Keyless
  BY <1>2, ResultOK, LeaseIsLive DEF Settle
<1> QED
  BY <1>1, <1>2

\* What holds before any step of the call of p.
Calling(p) ==
    /\ SerialInv /\ EasyInv /\ p \in Callers /\ p \in Procs
    /\ Inv /\ CallOK(p) /\ Fielded(call[p])

\* The invariant says so of every call.
LEMMA EasyIsCalling ==
    ASSUME SerialInv, EasyInv, NEW p \in Callers
    PROVE  Calling(p)
  BY CallersAssumption DEF Calling, EasyInv, SerialInv, InformedInv

\* A call that has not sent anything stays on its own.
LEMMA QuietStep ==
    ASSUME NEW p, UNCHANGED vars
    PROVE  Others(p) /\ disk' = disk /\ phase'[p] = phase[p]
  BY DEF vars, Others

\* load begins a call: an end it finds pending is the section it chooses.
LEMMA LoadStep ==
    ASSUME SerialInv, SerialInv', [Next]_vars, EasyInv, NEW p \in Callers,
           Load(p)
    PROVE  EasyInv'
<1> DEFINE At(nm) == [stage |-> nm, told |-> None, found |-> disk.pendingEnd,
                      before |-> NotUsable]
<1>1. /\ UNCHANGED vars /\ phase[p] = "ready" /\ disk # None
  BY DEF Load, CanBegin
<1>2. WellKept(disk, retired)
  BY KeptNow
<1>3. \E nm \in {"renew", "status", "end", "stored"} :
         /\ call' = [call EXCEPT ![p] = At(nm)]
         /\ nm # "end" => disk.pendingEnd = None
  <2>1. PICK clock \in Phases :
           LET local   == SnapshotOf(disk, clock, FALSE)
               Sect(nm)  == [NoCall EXCEPT !.stage = nm, !.before = NotUsable,
                                           !.found = disk.pendingEnd]
               section ==
                 CASE local.state = "renewal_due" -> Sect("renew")
                   [] local.state \in {"authorized_offline", "clock_untrusted"}
                        -> Sect("status")
                   [] local.state = "ending" -> Sect("end")
                   [] OTHER -> Sect("stored")
           IN  call' = [call EXCEPT ![p] = section]
    BY DEF Load
  <2>2. ASSUME NEW nm
        PROVE  [NoCall EXCEPT !.stage = nm, !.before = NotUsable,
                              !.found = disk.pendingEnd] = At(nm)
    <3> DEFINE before == NotUsable
               found == disk.pendingEnd
               r1 == [NoCall EXCEPT !.stage = nm]
               r2 == [r1 EXCEPT !.before = before]
               r3 == [r2 EXCEPT !.found = found]
    <3>1. r1 = [stage |-> nm, told |-> None, found |-> None, before |-> {}]
      BY DEF NoCall
    <3>2. [NoCall EXCEPT !.stage = nm, !.before = NotUsable,
                         !.found = disk.pendingEnd] = r3
      OBVIOUS
    <3> HIDE DEF r1, before, found
    <3>3. r2 = [stage |-> nm, told |-> None, found |-> None,
                before |-> before]
      BY <3>1
    <3> HIDE DEF r2
    <3>4. r3 = [stage |-> nm, told |-> None, found |-> found,
                before |-> before]
      BY <3>3
    <3> QED
      BY <3>2, <3>4 DEF before, found
  <2>3. disk.pendingEnd # None =>
           SnapshotOf(disk, clock, FALSE).state = "ending"
    BY <1>1, <1>2 DEF WellKept, SnapshotOf, Snapshot, Only
  <2> HIDE DEF At
  <2> QED
    BY <2>1, <2>2, <2>3
<1>4. PICK nm \in {"renew", "status", "end", "stored"} :
         /\ call' = [call EXCEPT ![p] = At(nm)]
         /\ nm # "end" => disk.pendingEnd = None
  BY <1>3
<1>5. call'[p] = At(nm) /\ ~ UnderWay(p)'
  BY <1>1, <1>4 DEF EasyInv, UnderWay, vars
<1>6. /\ disk' = disk /\ NotUsable' = NotUsable
  BY <1>1 DEF vars, NotUsable
<1>7. CallOK(p)'
  BY <1>1, <1>4, <1>5, <1>6 DEF CallOK, MidCall
<1> QED
  BY <1>1, <1>4, <1>7, CallMoves, QuietStep DEF Fielded

\* A call with an entered key has no section before it.
LEMMA EnterKeyStep ==
    ASSUME SerialInv, SerialInv', [Next]_vars, EasyInv, NEW p \in Callers,
           NEW k \in Keys, EnterKey(p, k)
    PROVE  EasyInv'
<1> DEFINE c == [stage |-> "second", told |-> None, found |-> None,
                 before |-> NotUsable]
<1>1. Operation(p) /\ disk # None
  BY DEF EnterKey, Operation, AuthorizeWithKey, CanBegin
<1>2. call' = [call EXCEPT ![p] = c] /\ call'[p] = c
  <2>1. [NoCall EXCEPT !.stage = "second", !.before = NotUsable] = c
    <3> DEFINE r == [NoCall EXCEPT !.stage = "second"]
               before == NotUsable
    <3>1. r = [stage |-> "second", told |-> None, found |-> None,
               before |-> {}]
      BY DEF NoCall
    <3>2. [NoCall EXCEPT !.stage = "second", !.before = NotUsable]
             = [r EXCEPT !.before = before]
      OBVIOUS
    <3> HIDE DEF r, before
    <3>3. [r EXCEPT !.before = before]
             = [stage |-> "second", told |-> None, found |-> None,
                before |-> before]
      BY <3>1
    <3> QED
      BY <3>2, <3>3 DEF before
  <2> HIDE DEF c
  <2> QED
    BY <2>1 DEF EnterKey, EasyInv
<1>3. CallOK(p)'
  BY <1>1, <1>2, NothingIsRevived DEF CallOK, MidCall
<1> QED
  BY <1>1, <1>2, <1>3, CallMoves, StepIsOwn, EasyIsCalling
     DEF Fielded, Calling

\* The section's request goes out: for a call that found an end, that end.
LEMMA ActStep ==
    ASSUME SerialInv, SerialInv', [Next]_vars, EasyInv, NEW p \in Callers,
           Act(p)
    PROVE  EasyInv'
<1>1. /\ Operation(p) /\ Continue(p, "first")
      /\ call[p].stage \in {"renew", "status", "end"}
  BY DEF Act, Operation
<1>2. Calling(p)
  BY EasyIsCalling
<1>3. Others(p)
  BY <1>1, <1>2, StepIsOwn DEF Calling
<1>4. exchange \in [Procs -> Exchange \cup {NoExchange}]
  BY <1>2 DEF Calling, Inv, TypeOK
<1>5. BeginEnd(p) => exchange'[p].request.endpoint = "end"
  BY <1>2, <1>4 DEF Calling, BeginEnd, Send, Prepare
<1>6. ResumeEnd(p) => exchange'[p].request.endpoint = "end"
  BY <1>2, <1>4, KeptNow DEF Calling, ResumeEnd, CanBegin, Send, WellKept
<1>7. call[p].found # None => exchange'[p].request.endpoint = "end"
  BY <1>2, <1>5, <1>6 DEF Calling, CallOK, Act
<1> QED
  BY <1>1, <1>3, <1>7, ContinueOK DEF MidCall

\* An end found pending is not pending in a file without a lease, or that
\* says how its epoch ended.
LEMMA OverIsSettled ==
    ASSUME SerialInv, SerialInv', [Next]_vars, EasyInv, NEW p \in Callers,
           call[p].found # None,
           \/ disk'.ended \/ disk'.revoked \/ disk'.lease = None
    PROVE  call[p].found.presentedLease.authorizationId \in Over(disk')
<1>1. CallOK(p) /\ disk # None
  BY DEF EasyInv, CallOK, MidCall
<1>2. /\ disk' # None /\ Over(disk) \subseteq Over(disk')
      /\ disk.pendingEnd # None =>
            \/ disk'.pendingEnd = disk.pendingEnd
            \/ disk.pendingEnd.presentedLease.authorizationId \in Over(disk')
  BY <1>1, NothingIsRevived
<1>3. WellKept(disk', retired')
  BY KeptNext
<1>4. disk'.pendingEnd = None
  BY <1>2, <1>3 DEF WellKept
<1> QED
  BY <1>1, <1>2, <1>4 DEF CallOK

\* Nothing to send any more: an end that was found is over.
LEMMA ActLocallyStep ==
    ASSUME SerialInv, SerialInv', [Next]_vars, EasyInv, NEW p \in Callers,
           ActLocally(p)
    PROVE  EasyInv'
<1>1. /\ UNCHANGED vars /\ phase[p] = "ready" /\ Others(p) /\ disk' = disk
      /\ call[p].stage \in MidCall
      /\ call[p].stage = "end" => disk.ended \/ disk.lease = None
      /\ call[p].stage \in {"renew", "status", "end"}
  BY QuietStep DEF ActLocally, CanBegin, MidCall
<1>2. PICK clock \in Phases : Settle(p, SnapshotOf(disk, clock, FALSE))
  BY DEF ActLocally
<1>3. Offers(SnapshotOf(disk, clock, FALSE), disk)
  BY SnapshotOffers
<1>4. call[p].found # None =>
         call[p].found.presentedLease.authorizationId \in Over(disk')
  BY <1>1, OverIsSettled DEF EasyInv, CallOK
<1>5. ~ UnderWay(p)'
  BY <1>1 DEF UnderWay, vars
<1> DEFINE r == SnapshotOf(disk, clock, FALSE)
<1> HIDE DEF r
<1>6. Settle(p, r) /\ Offers(r, disk)
  BY <1>2, <1>3 DEF r
<1> QED
  BY <1>1, <1>4, <1>5, <1>6, SettleOK

\* The retained key is tried, or there is none.
LEMMA TryStoredKeyStep ==
    ASSUME SerialInv, SerialInv', [Next]_vars, EasyInv, NEW p \in Callers,
           TryStoredKey(p)
    PROVE  EasyInv'
<1>1. Calling(p) /\ call[p].stage = "stored"
  BY EasyIsCalling DEF TryStoredKey
<1>2. ASSUME NEW k \in Keys, AuthorizeWithStoredKey(p, k),
             Continue(p, "second")
      PROVE  EasyInv'
  <2>1. Operation(p) /\ disk' = disk
    BY <1>2 DEF Operation, AuthorizeWithStoredKey
  <2>2. Others(p)
    BY <1>1, <2>1, StepIsOwn DEF Calling
  <2>3. call[p].found # None =>
           call[p].found.presentedLease.authorizationId \in Over(disk')
    BY <1>1, <2>1 DEF Calling, CallOK
  <2> QED
    BY <1>1, <1>2, <2>2, <2>3, ContinueOK DEF MidCall
<1>3. ASSUME CanBegin(p), Result(p, Only("auth_denied")), UNCHANGED vars
      PROVE  EasyInv'
  <2>1. Others(p) /\ ~ UnderWay(p)'
    BY <1>3, QuietStep DEF CanBegin, UnderWay
  <2>2. Offers(Only("auth_denied"), disk)
    BY OnlyOffers
  <2> QED
    BY <1>1, <1>3, <2>1, <2>2, ResultOK, LeaseIsLive DEF MidCall
<1> QED
  BY <1>2, <1>3 DEF TryStoredKey

\* What end says of an epoch that is over, the file says.
KnowsOver(p, result) ==
    exchange[p].request.endpoint = "end" /\ result.state \in Keyless
       => disk'.ended \/ disk'.revoked \/ disk'.lease = None

\* A section that was under way concludes with a result from the file.
LEMMA ConcludeOK ==
    ASSUME SerialInv, SerialInv', [Next]_vars, EasyInv, NEW p \in Callers,
           Others(p), UnderWay(p), ~ UnderWay(p)', NEW result,
           Conclude(p, result), NEW s \in {disk, disk'}, Offers(result, s),
           KnowsOver(p, result)
    PROVE  EasyInv'
<1>1. CallOK(p) /\ call[p].stage \in {"first", "second"}
  BY DEF EasyInv, CallOK
<1>2. CASE call[p].stage = "first"
  <2>1. call[p].found # None /\ result.state \in Keyless =>
           call[p].found.presentedLease.authorizationId \in Over(disk')
    BY <1>1, <1>2, OverIsSettled DEF CallOK, KnowsOver
  <2> QED
    BY <1>1, <1>2, <2>1, SettleOK DEF Conclude, MidCall
<1>3. CASE call[p].stage = "second"
  BY <1>3, ResultOK, LeaseIsLive DEF Conclude, MidCall
<1> QED
  BY <1>1, <1>2, <1>3

\* The answer is in.
LEMMA AnsweredStep ==
    ASSUME SerialInv, SerialInv', [Next]_vars, EasyInv, NEW p \in Callers,
           Answered(p)
    PROVE  EasyInv'
<1>1. Calling(p) /\ Receive(p)
  BY EasyIsCalling DEF Answered
<1>2. Others(p)
  BY <1>1, StepIsOwn DEF Calling
<1>3. UnderWay(p) /\ ~ UnderWay(p)'
  <2>1. phase \in [Procs -> Phase]
    BY <1>1 DEF Calling, Inv, TypeOK
  <2> QED
    BY <1>1, <2>1 DEF Calling, Receive, Finish, UnderWay
<1>4. ASSUME NEW name \in {"protocol_failure", "storage_unavailable"},
             Conclude(p, Only(name))
      PROVE  EasyInv'
  <2>1. Offers(Only(name), disk) /\ Only(name).state \notin Keyless
    BY <1>4, OnlyOffers DEF Only, Keyless
  <2>2. KnowsOver(p, Only(name))
    BY <2>1 DEF KnowsOver
  <2> QED
    BY <1>2, <1>3, <1>4, <2>1, <2>2, ConcludeOK
<1>5. ASSUME NEW s \in {disk, disk'}, Returns(p, s), s = disk'
      PROVE  EasyInv'
  <2>1. CASE exchange[p].request.endpoint = "end"
    <3> DEFINE r == EndSnapshot(s, exchange[p])
    <3>1. Conclude(p, r)
      BY <1>5, <2>1 DEF Returns
    <3>2. Offers(r, s) /\ (r.state \in Keyless => s.ended \/ s.revoked)
      BY EndOffers
    <3> HIDE DEF r
    <3>3. KnowsOver(p, r)
      BY <1>5, <3>2 DEF KnowsOver
    <3> QED
      BY <1>2, <1>3, <3>1, <3>2, <3>3, ConcludeOK
  <2>2. CASE exchange[p].request.endpoint # "end"
    <3>1. PICK clock : Conclude(p, ExecuteSnapshot(s, exchange[p], clock))
      BY <1>5, <2>2 DEF Returns
    <3> DEFINE r == ExecuteSnapshot(s, exchange[p], clock)
    <3>2. Offers(r, s)
      BY ExecuteOffers
    <3>3. Conclude(p, r)
      BY <3>1
    <3> HIDE DEF r
    <3>4. KnowsOver(p, r)
      BY <2>2 DEF KnowsOver
    <3> QED
      BY <1>2, <1>3, <3>2, <3>3, <3>4, ConcludeOK
  <2> QED
    BY <2>1, <2>2
<1>6. Saves(p) = {} => disk' = disk
  BY <1>1 DEF Receive
<1> QED
  BY <1>4, <1>5, <1>6 DEF Answered

\* No answer came: the lease is the one the process works on.
LEMMA UnreachableStep ==
    ASSUME SerialInv, SerialInv', [Next]_vars, EasyInv, NEW p \in Callers,
           Unreachable(p)
    PROVE  EasyInv'
<1>1. Calling(p) /\ TransportFailure(p)
  BY EasyIsCalling DEF Unreachable
<1>2. Others(p)
  BY <1>1, StepIsOwn DEF Calling
<1>3. UnderWay(p) /\ ~ UnderWay(p)'
  <2>1. phase \in [Procs -> Phase]
    BY <1>1 DEF Calling, Inv, TypeOK
  <2> QED
    BY <1>1, <2>1 DEF Calling, TransportFailure, Finish, UnderWay
<1>4. ASSUME NEW name \in {"ending", "storage_unavailable"},
             Conclude(p, Only(name))
      PROVE  EasyInv'
  <2>1. Offers(Only(name), disk) /\ Only(name).state \notin Keyless
    BY <1>4, OnlyOffers DEF Only, Keyless
  <2>2. KnowsOver(p, Only(name))
    BY <2>1 DEF KnowsOver
  <2> QED
    BY <1>2, <1>3, <1>4, <2>1, <2>2, ConcludeOK
<1>5. memory[p] = disk
  BY <1>1, <1>3 DEF Calling, SerialInv, GatesHold, UnderWay
<1>6. ASSUME NEW clock,
             Conclude(p, [state |-> "network_unavailable",
                          lease |-> UsableLease(memory[p], clock)])
      PROVE  EasyInv'
  <2> DEFINE r == [state |-> "network_unavailable",
                   lease |-> UsableLease(disk, clock)]
  <2>1. Offers(r, disk) /\ r.state \notin Keyless
    BY UsableOffers DEF Keyless
  <2>2. Conclude(p, r)
    BY <1>5, <1>6
  <2> HIDE DEF r
  <2>3. KnowsOver(p, r)
    BY <2>1 DEF KnowsOver
  <2> QED
    BY <1>2, <1>3, <2>1, <2>2, <2>3, ConcludeOK
<1> QED
  BY <1>4, <1>6 DEF Unreachable

\* A peer holds the gate for too long.
LEMMA GateTimesOutStep ==
    ASSUME SerialInv, SerialInv', [Next]_vars, EasyInv, NEW p \in Callers,
           GateTimesOut(p)
    PROVE  EasyInv'
<1>1. /\ Others(p) /\ ~ UnderWay(p)' /\ UNCHANGED vars
      /\ Result(p, Only("installation_in_use"))
  BY QuietStep DEF GateTimesOut, UnderWay
<1> DEFINE none == [state |-> "installation_in_use", lease |-> None,
                    ending |-> TRUE]
<1>2. /\ none.lease = None
      /\ Offers(Only("installation_in_use"), none)
  BY OnlyOffers
<1> HIDE DEF none
<1> QED
  BY <1>1, <1>2, ResultOK

\* A call that is over, or was cut off.
LEMMA NoCallOK ==
    ASSUME SerialInv, SerialInv', [Next]_vars, EasyInv, NEW p \in Callers,
           Others(p), ~ UnderWay(p)', call' = [call EXCEPT ![p] = NoCall]
    PROVE  EasyInv'
<1>1. call'[p] = NoCall
  BY DEF EasyInv
<1>2. CallOK(p)'
  BY <1>1 DEF CallOK, NoCall, MidCall
<1> QED
  BY <1>2, CallMoves DEF NoCall, Fielded

\* The call returns, or its process stops.
LEMMA LastStep ==
    ASSUME SerialInv, SerialInv', [Next]_vars, EasyInv, NEW p \in Callers,
           Guide(p) \/ (Crash(p) /\ call' = [call EXCEPT ![p] = NoCall])
    PROVE  EasyInv'
<1>1. Calling(p)
  BY EasyIsCalling
<1>2. CASE Guide(p)
  <2>1. /\ Others(p) /\ phase'[p] = phase[p]
        /\ call[p].stage = "guide" /\ call' = [call EXCEPT ![p] = NoCall]
    BY <1>2, QuietStep DEF Guide
  <2>2. ~ UnderWay(p)'
    BY <1>1, <2>1 DEF Calling, CallOK, UnderWay
  <2> QED
    BY <2>1, <2>2, NoCallOK
<1>3. CASE Crash(p) /\ call' = [call EXCEPT ![p] = NoCall]
  <2>1. Others(p)
    BY <1>1, <1>3, StepIsOwn DEF Calling
  <2>2. ~ UnderWay(p)'
    BY <1>1, <1>3 DEF Calling, Crash, UnderWay, Inv, TypeOK
  <2> QED
    BY <1>3, <2>1, <2>2, NoCallOK
<1> QED
  BY <1>2, <1>3

\* The rest of the session moves, and no call does.
LEMMA RestStep ==
    ASSUME SerialInv, SerialInv', [Next]_vars, EasyInv, call' = call,
           \/ ServiceStep
           \/ UNCHANGED vars
           \/ \E p \in Procs :
                 OpenLoad(p) \/ OpenPersist(p) \/ Serve(p) \/ Resend(p)
           \/ \E p \in Procs \ Callers :
                 \/ Operation(p) \/ TransportFailure(p)
                 \/ Receive(p) \/ Crash(p)
    PROVE  EasyInv'
<1>1. Inv /\ Callers \subseteq Procs
  BY CallersAssumption DEF SerialInv, InformedInv
<1>2. /\ phase \in [Procs -> Phase]
      /\ exchange \in [Procs -> Exchange \cup {NoExchange}]
  BY <1>1 DEF Inv, TypeOK
<1>3. CASE ServiceStep \/ UNCHANGED vars
  BY <1>3, CallsKept DEF ServiceStep, vars, UnderWay
<1>4. ASSUME NEW p \in Procs, Others(p),
             p \in Callers /\ UnderWay(p)' =>
                /\ UnderWay(p)
                /\ exchange'[p].request.endpoint
                      = exchange[p].request.endpoint
      PROVE  EasyInv'
  <2>1. ASSUME NEW q \in Callers, UnderWay(q)'
        PROVE  /\ UnderWay(q)
               /\ exchange'[q].request.endpoint = exchange[q].request.endpoint
    BY <1>1, <1>4, <2>1 DEF Others, UnderWay
  <2> QED
    BY <2>1, CallsKept
<1>5. ASSUME NEW p \in Procs,
             OpenLoad(p) \/ OpenPersist(p) \/ Serve(p) \/ Resend(p)
      PROVE  EasyInv'
  <2>1. Others(p)
    BY <1>1, <1>5, StepIsOwn
  <2>2. CASE OpenLoad(p) \/ OpenPersist(p)
    <3>1. ~ UnderWay(p)'
      BY <1>2, <2>2 DEF OpenLoad, OpenPersist, UnderWay
    <3> QED
      BY <1>4, <2>1, <3>1
  <2>3. CASE Serve(p) \/ Resend(p)
    <3>1. UnderWay(p) /\ exchange[p] \in Exchange
      BY <1>1, <2>3, Fields DEF Serve, Resend, UnderWay
    <3>2. exchange'[p].request = exchange[p].request
      BY <1>2, <2>3, <3>1 DEF Serve, Resend, Exchange
    <3> QED
      BY <1>4, <2>1, <3>1, <3>2
  <2> QED
    BY <1>5, <2>2, <2>3
<1>6. ASSUME NEW p \in Procs \ Callers,
             \/ Operation(p) \/ TransportFailure(p) \/ Receive(p) \/ Crash(p)
      PROVE  EasyInv'
  <2>1. Others(p)
    BY <1>1, <1>6, StepIsOwn
  <2> QED
    BY <1>4, <1>6, <2>1
<1> QED
  BY <1>3, <1>5, <1>6

\* No call is under way at first.
LEMMA EasyInvInit == EasyInit => EasyInv
  BY CallersAssumption
     DEF EasyInit, Init, EasyInv, CallOK, NoCall, Fielded, UnderWay, MidCall

\* Every step keeps the invariant.
LEMMA EasyInvNext ==
    ASSUME SerialInv, SerialInv', [Next]_vars, EasyInv, [EasyNext]_easyVars
    PROVE  EasyInv'
<1>1. CASE UNCHANGED easyVars
  BY <1>1, RestStep DEF easyVars
<1>2. ASSUME NEW p \in Callers, EasyStep(p)
      PROVE  EasyInv'
  BY <1>2, LoadStep, EnterKeyStep, ActStep, ActLocallyStep, TryStoredKeyStep,
     AnsweredStep, UnreachableStep, GateTimesOutStep, LastStep DEF EasyStep
<1> QED
  BY <1>1, <1>2, RestStep DEF EasyNext

(***************************************************************************)
(* The invariant of a startup call among processes that do as they please: *)
(* a lease it must not hand out stays unusable, and an end it found stays  *)
(* pending or its epoch is over.                                           *)
(***************************************************************************)
THEOREM EasyInvariant ==
    ASSUME OpenOverlaps = FALSE
    PROVE  EasySpec => [](SerialInv /\ EasyInv)
<1>1. SerialInv /\ SerialInv' /\ [Next]_vars /\ EasyInv
         /\ [EasyNext]_easyVars => EasyInv'
  BY EasyInvNext
<1> QED
  BY <1>1, EasyInvInit, EasyIsSession, SerialInvariant, PTL
     DEF Spec, EasySpec

(***************************************************************************)
(* easyAuthorize never lets the program go on with a lease that was ended, *)
(* revoked or replaced, or whose end was pending, when the call began, and *)
(* recommends to carry on only with a lease in hand.                       *)
(***************************************************************************)
THEOREM CallsProceedOnLiveLeases ==
    ASSUME OpenOverlaps = FALSE
    PROVE  EasySpec => []ProceedsOnLiveLease
<1>1. EasyInv => ProceedsOnLiveLease
  BY DEF EasyInv, CallOK, ProceedsOnLiveLease
<1> QED
  BY <1>1, EasyInvariant, PTL

(***************************************************************************)
(* easyAuthorize asks for no new epoch while the end it found is pending.  *)
(***************************************************************************)
THEOREM FoundEndsComeFirst ==
    ASSUME OpenOverlaps = FALSE
    PROVE  EasySpec => []FoundEndIsFinishedFirst
<1>1. SerialInv /\ EasyInv => FoundEndIsFinishedFirst
  <2> SUFFICES ASSUME SerialInv, EasyInv, NEW p \in Callers,
                      UnderWay(p), exchange[p].request.endpoint = "authorize",
                      call[p].found # None
               PROVE  disk.pendingEnd # call[p].found
    BY DEF FoundEndIsFinishedFirst, UnderWay
  <2>1. CallOK(p)
    BY DEF EasyInv
  <2>2. /\ call[p].found.presentedLease.authorizationId \in Over(disk)
        /\ disk # None
    BY <2>1 DEF CallOK, MidCall
  <2>3. WellKept(disk, retired)
    BY KeptNow
  <2> QED
    BY <2>2, <2>3 DEF WellKept
<1> QED
  BY <1>1, EasyInvariant, PTL

==============================================================================
