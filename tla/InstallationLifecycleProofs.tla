---------------------- MODULE InstallationLifecycleProofs ----------------------
(***************************************************************************)
(* Theorems of InstallationLifecycle, for every number of processes and    *)
(* installation keys.                                                      *)
(***************************************************************************)
EXTENDS InstallationLifecycle, TLAPS

\* The file and the sessions have keys that were created.
KeysCreated ==
    /\ file # None => file.key <= created
    /\ \A p \in Procs : session[p] \in State => session[p].key <= created
    /\ forgotten \subseteq 1 .. created

\* A call that is under way holds its lock.
LocksHeld ==
    /\ \A p \in Procs : step[p] \in Opening => bootstrapLock = p
    /\ \A p \in Procs : step[p] \in Busy =>
          session[p] \in State /\ installationLock[session[p].key] = p

\* What a session works on at each step, and that its key is the file's.  A
\* file appears only by the hand of the holder of the bootstrap lock, and
\* disappears only by the hand of a process past its reload.
SessionsAgree ==
    \A p \in Procs :
        /\ step[p] \in {"keyed", "open"} => session[p] \in State
        /\ step[p] = "opening" => session[p] \in State \cup {Keyless}
        /\ step[p] \in Opening /\ file # None =>
              session[p] \in State /\ session[p].key = file.key
        /\ step[p] \in Busy =>
              file # None /\ file.key = session[p].key

\* forget finds a lease in the file it has reloaded only if a persistent() has
\* written it there since.
ForgetLooksAtFile ==
    \A p \in Procs : step[p] \in Forgetting /\ file.active => p \in undercut

\* While persistent() and the operations have kept out of each other's way,
\* neither the file nor a copy of it is of a forgotten installation.
Apart ==
    ~ overlapped =>
        /\ \A p, q \in Procs : ~ (step[p] \in Opening /\ step[q] \in Busy)
        /\ file # None => file.key \notin forgotten
        /\ \A p \in Procs : step[p] \in Opening /\ session[p] \in State =>
              session[p].key \notin forgotten

Inv == /\ TypeOK /\ KeysCreated /\ LocksHeld /\ SessionsAgree
       /\ ForgetLooksAtFile /\ Apart

-----------------------------------------------------------------------------

\* Past the reload a session has the key of the file, and so its lock.
LEMMA WriterAlone == Inv => OneWriter
<1> SUFFICES ASSUME Inv, NEW p \in Procs, NEW q \in Procs,
                    step[p] \in Busy, step[q] \in Busy
             PROVE  p = q
  BY DEF OneWriter
<1>1. session[p].key = session[q].key
  BY DEF Inv, SessionsAgree
<1> QED
  BY <1>1 DEF Inv, LocksHeld

LEMMA InitInv == Init => Inv
<1> SUFFICES ASSUME Init PROVE Inv
  OBVIOUS
<1>1. /\ file = None /\ keys = {} /\ created = 0 /\ forgotten = {}
      /\ session = [p \in Procs |-> None] /\ step = [p \in Procs |-> "closed"]
      /\ bootstrapLock = None /\ installationLock = [k \in Key |-> None]
      /\ overlapped = FALSE /\ undercut = {}
  BY DEF Init
<1>2. \A p \in Procs : session[p] = None /\ step[p] = "closed"
  BY <1>1
<1>3. "closed" \in Step /\ "closed" \notin Opening \cup Busy
  BY DEF Step, Opening, Busy, Forgetting
<1>4. TypeOK
  <2>1. keys \subseteq 1 .. created /\ created \in 0 .. MaxKeys
    BY <1>1, LifecycleAssumption
  <2>2. /\ installationLock \in [Key -> Procs \cup {None}]
        /\ \A k \in Key : installationLock[k] = None
    BY <1>1
  <2>3. session \in [Procs -> State \cup {None, Keyless}]
        /\ step \in [Procs -> Step]
    BY <1>1, <1>3
  <2> QED
    BY <1>1, <2>1, <2>2, <2>3 DEF TypeOK
<1>5. KeysCreated
  BY <1>1, <1>2, LifecycleAssumption DEF KeysCreated
<1>6. LocksHeld /\ SessionsAgree /\ ForgetLooksAtFile /\ Apart
  BY <1>1, <1>2, <1>3
     DEF LocksHeld, SessionsAgree, ForgetLooksAtFile, Apart, Busy, Forgetting
<1> QED
  BY <1>4, <1>5, <1>6 DEF Inv

LEMMA OpenLoadStep ==
    ASSUME Inv, NEW p \in Procs, OpenLoad(p)
    PROVE  Inv'
<1> USE LifecycleAssumption DEF Opening, Busy, Forgetting, State
<1>1. TypeOK'
  BY DEF Inv, TypeOK, OpenLoad, Goto, Keyless, Step
<1>2. KeysCreated'
  BY DEF Inv, TypeOK, KeysCreated, SessionsAgree, OpenLoad, Goto, Keyless
<1>3. LocksHeld'
  BY DEF Inv, TypeOK, LocksHeld, SessionsAgree, OpenLoad, Goto, Keyless
<1>4. SessionsAgree'
  BY WriterAlone
     DEF Inv, TypeOK, LocksHeld, SessionsAgree, OneWriter, OpenLoad, Goto,
         Keyless
<1>5. Apart'
  <2>1. ASSUME NEW q \in Procs, step[q] \in Busy
        PROVE  overlapped'
    <3>1. session[q].key \in Key /\ installationLock[session[q].key] = q
      BY <2>1 DEF Inv, LocksHeld
    <3> QED
      BY <3>1 DEF OpenLoad
  <2>2. \A q \in Procs : step'[q] = IF q = p THEN "opening" ELSE step[q]
    BY DEF OpenLoad, Goto, Inv, TypeOK
  <2>3. session'[p] \in State => file # None /\ session'[p] = file
    BY DEF OpenLoad, Inv, TypeOK, Keyless
  <2> QED
    BY <2>1, <2>2, <2>3 DEF Inv, TypeOK, Apart, OpenLoad
<1>6. ForgetLooksAtFile'
  BY WriterAlone
     DEF Inv, TypeOK, LocksHeld, SessionsAgree, ForgetLooksAtFile, OneWriter,
         OpenLoad, Goto
<1> QED
  BY <1>1, <1>2, <1>3, <1>4, <1>5, <1>6 DEF Inv

LEMMA CreateKeyStep ==
    ASSUME Inv, NEW p \in Procs, CreateKey(p)
    PROVE  Inv'
<1> USE LifecycleAssumption DEF Opening, Busy, Forgetting, State
<1> DEFINE fresh == [key |-> created + 1, active |-> FALSE]
<1>a. /\ session[p] = Keyless /\ session' = [session EXCEPT ![p] = fresh]
      /\ fresh \in State /\ fresh.key = created + 1
      /\ created' = created + 1 /\ created' \in 1 .. MaxKeys
  <2>1. created + 1 \in 1 .. MaxKeys
    BY DEF Inv, TypeOK, CreateKey
  <2>2. fresh \in State /\ fresh.key = created + 1
    BY <2>1 DEF Key
  <2>3. session[p] = Keyless /\ session' = [session EXCEPT ![p] = fresh]
    BY DEF CreateKey
  <2> QED
    BY <2>1, <2>2, <2>3 DEF CreateKey
<1> HIDE DEF fresh
<1>b. file = None
  BY <1>a DEF Inv, SessionsAgree, CreateKey, Keyless, Key
<1>1. TypeOK'
  <2>1. /\ file' \in State \cup {None} /\ keys' \subseteq 1 .. created'
        /\ created' \in 0 .. MaxKeys /\ forgotten' \subseteq Key
        /\ overlapped' \in BOOLEAN
    <3>1. created \in 0 .. MaxKeys /\ keys \subseteq 1 .. created
      BY DEF Inv, TypeOK
    <3>2. keys' = keys \cup {created + 1}
      BY DEF CreateKey
    <3>3. keys' \subseteq 1 .. created' /\ created' \in 0 .. MaxKeys
      BY <1>a, <3>1, <3>2
    <3> QED
      BY <3>3 DEF Inv, TypeOK, CreateKey
  <2>2. /\ session' \in [Procs -> State \cup {None, Keyless}]
        /\ step' \in [Procs -> Step]
        /\ bootstrapLock' \in Procs \cup {None}
        /\ installationLock' \in [Key -> Procs \cup {None}]
    BY <1>a DEF Inv, TypeOK, CreateKey, Goto, Step
  <2>3. bootstrapLock' # None => step'[bootstrapLock'] \in Opening
    BY <1>a DEF Inv, TypeOK, CreateKey, Goto
  <2>4. ASSUME NEW k \in Key, installationLock'[k] # None
        PROVE  /\ step'[installationLock'[k]] \in Busy
               /\ session'[installationLock'[k]].key = k
    BY <2>4, <1>a, WriterAlone DEF Inv, TypeOK, LocksHeld, CreateKey, Goto
  <2>5. undercut' \subseteq {q \in Procs : step'[q] \in Forgetting}
    BY DEF Inv, TypeOK, CreateKey, Goto
  <2> QED
    BY <2>1, <2>2, <2>3, <2>4, <2>5 DEF TypeOK
<1>2. KeysCreated'
  BY <1>a, <1>b DEF Inv, TypeOK, KeysCreated, CreateKey, Key
<1>3. LocksHeld'
  BY <1>a DEF Inv, TypeOK, LocksHeld, CreateKey, Goto
<1>4. SessionsAgree'
  <2>1. /\ session'[p] \in State /\ step'[p] = "keyed" /\ file' = None
        /\ \A q \in Procs : q # p =>
              step'[q] = step[q] /\ session'[q] = session[q]
    BY <1>a, <1>b DEF CreateKey, Goto, Inv, TypeOK
  <2> QED
    BY <1>b, <2>1 DEF Inv, SessionsAgree
<1>5. Apart'
  BY <1>a, <1>b DEF Inv, TypeOK, KeysCreated, Apart, CreateKey, Goto, Key
<1>6. ForgetLooksAtFile'
  BY WriterAlone
     DEF Inv, TypeOK, LocksHeld, SessionsAgree, ForgetLooksAtFile, OneWriter,
         CreateKey, Goto
<1> QED
  BY <1>1, <1>2, <1>3, <1>4, <1>5, <1>6 DEF Inv

LEMMA LoadKeyStep ==
    ASSUME Inv, NEW p \in Procs, LoadKey(p)
    PROVE  Inv'
<1> USE LifecycleAssumption DEF Opening, Busy, Forgetting, State
<1>1. TypeOK'
  BY DEF Inv, TypeOK, LoadKey, Goto, Step
<1>2. KeysCreated'
  BY DEF Inv, TypeOK, KeysCreated, SessionsAgree, LoadKey, Goto, Keyless
<1>3. LocksHeld'
  BY DEF Inv, TypeOK, LocksHeld, SessionsAgree, LoadKey, Goto, Keyless
<1>4. SessionsAgree'
  <2>1. session[p] \in State
    BY DEF Inv, TypeOK, SessionsAgree, LoadKey, Keyless, Key
  <2> QED
    BY <2>1 DEF Inv, TypeOK, SessionsAgree, LoadKey, Goto
<1>5. Apart'
  BY WriterAlone
     DEF Inv, TypeOK, KeysCreated, LocksHeld, SessionsAgree, Apart, OneWriter,
         LoadKey, Goto, Keyless
<1>6. ForgetLooksAtFile'
  BY WriterAlone
     DEF Inv, TypeOK, LocksHeld, SessionsAgree, ForgetLooksAtFile, OneWriter,
         LoadKey, Goto
<1> QED
  BY <1>1, <1>2, <1>3, <1>4, <1>5, <1>6 DEF Inv

LEMMA OpenPersistStep ==
    ASSUME Inv, NEW p \in Procs, OpenPersist(p)
    PROVE  Inv'
<1> USE LifecycleAssumption DEF Opening, Busy, Forgetting, State
<1>1. TypeOK'
  <2>1. /\ file' \in State \cup {None} /\ keys' \subseteq 1 .. created'
        /\ created' \in 0 .. MaxKeys /\ forgotten' \subseteq Key
        /\ overlapped' \in BOOLEAN
    BY DEF Inv, TypeOK, OpenPersist, Goto, SessionsAgree
  <2>2. /\ session' \in [Procs -> State \cup {None, Keyless}]
        /\ step' \in [Procs -> Step]
        /\ bootstrapLock' \in Procs \cup {None}
        /\ installationLock' \in [Key -> Procs \cup {None}]
    BY DEF Inv, TypeOK, OpenPersist, Goto, SessionsAgree, Step
  <2>3. bootstrapLock' # None => step'[bootstrapLock'] \in Opening
    BY DEF Inv, TypeOK, OpenPersist, Goto, SessionsAgree
  <2>4. ASSUME NEW k \in Key, installationLock'[k] # None
        PROVE  /\ step'[installationLock'[k]] \in Busy
               /\ session'[installationLock'[k]].key = k
    BY <2>4, WriterAlone
       DEF Inv, TypeOK, LocksHeld, OpenPersist, Goto, SessionsAgree
  <2>5. undercut' \subseteq {q \in Procs : step'[q] \in Forgetting}
    BY DEF Inv, TypeOK, OpenPersist, Goto
  <2> QED
    BY <2>1, <2>2, <2>3, <2>4, <2>5 DEF TypeOK
<1>2. KeysCreated'
  BY DEF Inv, TypeOK, KeysCreated, SessionsAgree, OpenPersist, Goto
<1>3. LocksHeld'
  BY DEF Inv, TypeOK, LocksHeld, SessionsAgree, OpenPersist, Goto
<1>4. SessionsAgree'
  BY WriterAlone
     DEF Inv, TypeOK, LocksHeld, SessionsAgree, OneWriter, OpenPersist, Goto
<1>5. Apart'
  BY WriterAlone
     DEF Inv, TypeOK, KeysCreated, LocksHeld, SessionsAgree, Apart, OneWriter,
         OpenPersist, Goto
<1>6. ForgetLooksAtFile'
  BY WriterAlone
     DEF Inv, TypeOK, LocksHeld, SessionsAgree, ForgetLooksAtFile, OneWriter,
         OpenPersist, Goto
<1> QED
  BY <1>1, <1>2, <1>3, <1>4, <1>5, <1>6 DEF Inv

LEMMA BeginOperationStep ==
    ASSUME Inv, NEW p \in Procs, BeginOperation(p)
    PROVE  Inv'
<1> USE LifecycleAssumption DEF Opening, Busy, Forgetting, State
<1>1. TypeOK'
  <2>1. /\ file' \in State \cup {None} /\ keys' \subseteq 1 .. created'
        /\ created' \in 0 .. MaxKeys /\ forgotten' \subseteq Key
        /\ overlapped' \in BOOLEAN
    BY DEF Inv, TypeOK, BeginOperation, SessionsAgree, CanBegin, Enter, Goto
  <2>2. /\ session' \in [Procs -> State \cup {None, Keyless}]
        /\ step' \in [Procs -> Step]
        /\ bootstrapLock' \in Procs \cup {None}
        /\ installationLock' \in [Key -> Procs \cup {None}]
    BY 
       DEF Inv, TypeOK, BeginOperation, SessionsAgree, CanBegin, Enter, Goto,
           Step
  <2>3. bootstrapLock' # None => step'[bootstrapLock'] \in Opening
    BY DEF Inv, TypeOK, BeginOperation, SessionsAgree, CanBegin, Enter, Goto
  <2>4. ASSUME NEW k \in Key, installationLock'[k] # None
        PROVE  /\ step'[installationLock'[k]] \in Busy
               /\ session'[installationLock'[k]].key = k
    BY <2>4, WriterAlone
       DEF Inv, TypeOK, LocksHeld, BeginOperation, SessionsAgree, CanBegin,
           Enter, Goto
  <2>5. undercut' \subseteq {q \in Procs : step'[q] \in Forgetting}
    BY DEF Inv, TypeOK, BeginOperation, CanBegin, Enter, Goto
  <2> QED
    BY <2>1, <2>2, <2>3, <2>4, <2>5 DEF TypeOK
<1>2. KeysCreated'
  BY 
     DEF Inv, TypeOK, KeysCreated, SessionsAgree, BeginOperation, CanBegin,
         Enter, Goto
<1>3. LocksHeld'
  BY 
     DEF Inv, TypeOK, LocksHeld, SessionsAgree, BeginOperation, CanBegin,
         Enter, Goto
<1>4. SessionsAgree'
  BY WriterAlone
     DEF Inv, TypeOK, LocksHeld, SessionsAgree, OneWriter, BeginOperation,
         CanBegin, Enter, Goto
<1>5. Apart'
  <2>1. ASSUME NEW q \in Procs, step[q] \in Opening
        PROVE  overlapped'
    <3>1. bootstrapLock = q
      BY <2>1 DEF Inv, LocksHeld
    <3> QED
      BY <3>1 DEF BeginOperation, Enter
  <2>2. /\ file # None /\ file.key = session[p].key /\ file' = file
        /\ session[p] \in State
        /\ forgotten' = forgotten /\ (~ overlapped' => ~ overlapped)
        /\ \A q \in Procs : q # p =>
              step'[q] = step[q] /\ session'[q] = session[q]
        /\ step'[p] \in Busy
        /\ step'[p] = "working"
    BY DEF BeginOperation, CanBegin, Enter, Goto, Inv, TypeOK, SessionsAgree
  <2> QED
    BY <2>1, <2>2 DEF Inv, TypeOK, Apart
<1>6. ForgetLooksAtFile'
  BY WriterAlone
     DEF Inv, TypeOK, LocksHeld, SessionsAgree, ForgetLooksAtFile, OneWriter,
         BeginOperation, CanBegin, Enter, Goto
<1> QED
  BY <1>1, <1>2, <1>3, <1>4, <1>5, <1>6 DEF Inv

LEMMA SaveStep ==
    ASSUME Inv, NEW p \in Procs, Save(p)
    PROVE  Inv'
<1> USE LifecycleAssumption DEF Opening, Busy, Forgetting, State
<1>a. /\ session[p] \in State /\ step[p] = "working"
      /\ file' \in State /\ session'[p] \in State
      /\ session'[p].key = session[p].key /\ file'.key = session[p].key
      /\ session' = [session EXCEPT ![p] = session'[p]]
  BY DEF Inv, TypeOK, LocksHeld, Save
<1>1. TypeOK'
  <2>1. /\ file' \in State \cup {None} /\ keys' \subseteq 1 .. created'
        /\ created' \in 0 .. MaxKeys /\ forgotten' \subseteq Key
        /\ overlapped' \in BOOLEAN
    BY <1>a DEF Inv, TypeOK, Save
  <2>2. /\ session' \in [Procs -> State \cup {None, Keyless}]
        /\ step' \in [Procs -> Step]
        /\ bootstrapLock' \in Procs \cup {None}
        /\ installationLock' \in [Key -> Procs \cup {None}]
    BY <1>a DEF Inv, TypeOK, Save, Step
  <2>3. bootstrapLock' # None => step'[bootstrapLock'] \in Opening
    BY <1>a DEF Inv, TypeOK, Save
  <2>4. ASSUME NEW k \in Key, installationLock'[k] # None
        PROVE  /\ step'[installationLock'[k]] \in Busy
               /\ session'[installationLock'[k]].key = k
    BY <2>4, WriterAlone DEF Inv, TypeOK, LocksHeld, Save
  <2>5. undercut' \subseteq {q \in Procs : step'[q] \in Forgetting}
    BY DEF Inv, TypeOK, Save
  <2> QED
    BY <2>1, <2>2, <2>3, <2>4, <2>5 DEF TypeOK
<1>2. KeysCreated'
  BY DEF Inv, TypeOK, KeysCreated, SessionsAgree, Save
<1>3. LocksHeld'
  BY DEF Inv, TypeOK, LocksHeld, SessionsAgree, Save
<1>4. SessionsAgree'
  BY WriterAlone DEF Inv, TypeOK, LocksHeld, SessionsAgree, OneWriter, Save
<1>5. Apart'
  BY WriterAlone
     DEF Inv, TypeOK, KeysCreated, LocksHeld, SessionsAgree, Apart, OneWriter,
         Save
<1>6. ForgetLooksAtFile'
  BY WriterAlone
     DEF Inv, TypeOK, LocksHeld, SessionsAgree, ForgetLooksAtFile, OneWriter,
         Save
<1> QED
  BY <1>1, <1>2, <1>3, <1>4, <1>5, <1>6 DEF Inv

LEMMA EndOperationStep ==
    ASSUME Inv, NEW p \in Procs, EndOperation(p)
    PROVE  Inv'
<1> USE LifecycleAssumption DEF Opening, Busy, Forgetting, State
<1>1. TypeOK'
  <2>1. session[p].key \in Key /\ "open" \in Step
    BY DEF Inv, TypeOK, EndOperation, LocksHeld, Step
  <2>2. /\ step' \in [Procs -> Step]
        /\ installationLock' \in [Key -> Procs \cup {None}]
    BY <2>1 DEF Inv, TypeOK, EndOperation, Leave, Goto
  <2>3. UNCHANGED <<file, keys, created, session, bootstrapLock, forgotten,
                    overlapped>>
    BY DEF EndOperation
  <2>4. bootstrapLock' # None => step'[bootstrapLock'] \in Opening
    BY DEF Inv, TypeOK, EndOperation, Leave, Goto
  <2>5. ASSUME NEW k \in Key, installationLock'[k] # None
        PROVE  /\ step'[installationLock'[k]] \in Busy
               /\ session'[installationLock'[k]].key = k
    BY <2>5, WriterAlone
       DEF Inv, TypeOK, LocksHeld, EndOperation, Leave, Goto
  <2>6. undercut' \subseteq {q \in Procs : step'[q] \in Forgetting}
    BY DEF Inv, TypeOK, EndOperation, Leave, Goto
  <2> QED
    BY <2>2, <2>3, <2>4, <2>5, <2>6 DEF Inv, TypeOK
<1>2. KeysCreated'
  BY DEF Inv, TypeOK, KeysCreated, SessionsAgree, EndOperation, Leave, Goto
<1>3. LocksHeld'
  BY DEF Inv, TypeOK, LocksHeld, SessionsAgree, EndOperation, Leave, Goto
<1>4. SessionsAgree'
  BY WriterAlone
     DEF Inv, TypeOK, LocksHeld, SessionsAgree, OneWriter, EndOperation,
         Leave, Goto
<1>5. Apart'
  BY WriterAlone
     DEF Inv, TypeOK, KeysCreated, LocksHeld, SessionsAgree, Apart, OneWriter,
         EndOperation, Leave, Goto
<1>6. ForgetLooksAtFile'
  BY WriterAlone
     DEF Inv, TypeOK, LocksHeld, SessionsAgree, ForgetLooksAtFile, OneWriter,
         EndOperation, Leave, Goto
<1> QED
  BY <1>1, <1>2, <1>3, <1>4, <1>5, <1>6 DEF Inv

LEMMA BeginForgetStep ==
    ASSUME Inv, NEW p \in Procs, BeginForget(p)
    PROVE  Inv'
<1> USE LifecycleAssumption DEF Opening, Busy, Forgetting, State
<1>1. TypeOK'
  <2>1. /\ file' \in State \cup {None} /\ keys' \subseteq 1 .. created'
        /\ created' \in 0 .. MaxKeys /\ forgotten' \subseteq Key
        /\ overlapped' \in BOOLEAN
    BY DEF Inv, TypeOK, BeginForget, SessionsAgree, CanBegin, Enter, Goto
  <2>2. /\ session' \in [Procs -> State \cup {None, Keyless}]
        /\ step' \in [Procs -> Step]
        /\ bootstrapLock' \in Procs \cup {None}
        /\ installationLock' \in [Key -> Procs \cup {None}]
    BY 
       DEF Inv, TypeOK, BeginForget, SessionsAgree, CanBegin, Enter, Goto,
           Step
  <2>3. bootstrapLock' # None => step'[bootstrapLock'] \in Opening
    BY DEF Inv, TypeOK, BeginForget, SessionsAgree, CanBegin, Enter, Goto
  <2>4. ASSUME NEW k \in Key, installationLock'[k] # None
        PROVE  /\ step'[installationLock'[k]] \in Busy
               /\ session'[installationLock'[k]].key = k
    BY <2>4, WriterAlone
       DEF Inv, TypeOK, LocksHeld, BeginForget, SessionsAgree, CanBegin,
           Enter, Goto
  <2>5. undercut' \subseteq {q \in Procs : step'[q] \in Forgetting}
    BY DEF Inv, TypeOK, BeginForget, CanBegin, Enter, Goto
  <2> QED
    BY <2>1, <2>2, <2>3, <2>4, <2>5 DEF TypeOK
<1>2. KeysCreated'
  BY 
     DEF Inv, TypeOK, KeysCreated, SessionsAgree, BeginForget, CanBegin,
         Enter, Goto
<1>3. LocksHeld'
  BY 
     DEF Inv, TypeOK, LocksHeld, SessionsAgree, BeginForget, CanBegin, Enter,
         Goto
<1>4. SessionsAgree'
  BY WriterAlone
     DEF Inv, TypeOK, LocksHeld, SessionsAgree, OneWriter, BeginForget,
         CanBegin, Enter, Goto
<1>5. Apart'
  <2>1. ASSUME NEW q \in Procs, step[q] \in Opening
        PROVE  overlapped'
    <3>1. bootstrapLock = q
      BY <2>1 DEF Inv, LocksHeld
    <3> QED
      BY <3>1 DEF BeginForget, Enter
  <2>2. /\ file # None /\ file.key = session[p].key /\ file' = file
        /\ session[p] \in State
        /\ forgotten' = forgotten /\ (~ overlapped' => ~ overlapped)
        /\ \A q \in Procs : q # p =>
              step'[q] = step[q] /\ session'[q] = session[q]
        /\ step'[p] \in Busy
        /\ ~ file.active
    BY DEF BeginForget, CanBegin, Enter, Goto, Inv, TypeOK, SessionsAgree
  <2> QED
    BY <2>1, <2>2 DEF Inv, TypeOK, Apart
<1>6. ForgetLooksAtFile'
  BY DEF ForgetLooksAtFile, BeginForget, Enter
<1> QED
  BY <1>1, <1>2, <1>3, <1>4, <1>5, <1>6 DEF Inv

LEMMA EraseKeyStep ==
    ASSUME Inv, NEW p \in Procs, EraseKey(p)
    PROVE  Inv'
<1> USE LifecycleAssumption DEF Opening, Busy, Forgetting, State
<1>1. TypeOK'
  <2>1. step' \in [Procs -> Step]
    BY DEF Inv, TypeOK, EraseKey, Goto, Step
  <2>2. /\ step[p] \in Busy
        /\ \A q \in Procs : step'[q] = IF q = p THEN "erasing" ELSE step[q]
    BY DEF Inv, TypeOK, EraseKey, Goto
  <2>3. bootstrapLock' # None => step'[bootstrapLock'] \in Opening
    BY <2>2 DEF Inv, TypeOK, EraseKey
  <2>4. \A k \in Key : installationLock'[k] # None =>
          /\ step'[installationLock'[k]] \in Busy
          /\ session'[installationLock'[k]].key = k
    BY <2>2 DEF Inv, TypeOK, EraseKey
  <2>5. undercut' \subseteq {q \in Procs : step'[q] \in Forgetting}
    BY <2>2 DEF Inv, TypeOK, EraseKey
  <2> QED
    BY <2>1, <2>3, <2>4, <2>5 DEF Inv, TypeOK, EraseKey
<1>2. KeysCreated'
  BY DEF Inv, TypeOK, KeysCreated, SessionsAgree, EraseKey, Goto
<1>3. LocksHeld'
  BY DEF Inv, TypeOK, LocksHeld, SessionsAgree, EraseKey, Goto
<1>4. SessionsAgree'
  BY WriterAlone
     DEF Inv, TypeOK, LocksHeld, SessionsAgree, OneWriter, EraseKey, Goto
<1>5. Apart'
  BY WriterAlone
     DEF Inv, TypeOK, KeysCreated, LocksHeld, SessionsAgree, Apart, OneWriter,
         EraseKey, Goto
<1>6. ForgetLooksAtFile'
  BY WriterAlone
     DEF Inv, TypeOK, LocksHeld, SessionsAgree, ForgetLooksAtFile, OneWriter,
         EraseKey, Goto
<1> QED
  BY <1>1, <1>2, <1>3, <1>4, <1>5, <1>6 DEF Inv

LEMMA EraseFileStep ==
    ASSUME Inv, NEW p \in Procs, EraseFile(p)
    PROVE  Inv'
<1> USE LifecycleAssumption DEF Opening, Busy, Forgetting, State
<1>1. TypeOK'
  <2>1. /\ file' \in State \cup {None} /\ keys' \subseteq 1 .. created'
        /\ created' \in 0 .. MaxKeys /\ forgotten' \subseteq Key
        /\ overlapped' \in BOOLEAN
    BY DEF Inv, TypeOK, EraseFile, LocksHeld, Leave, Goto
  <2>2. /\ session' \in [Procs -> State \cup {None, Keyless}]
        /\ step' \in [Procs -> Step]
        /\ bootstrapLock' \in Procs \cup {None}
        /\ installationLock' \in [Key -> Procs \cup {None}]
    BY DEF Inv, TypeOK, EraseFile, LocksHeld, Leave, Goto, Step
  <2>3. bootstrapLock' # None => step'[bootstrapLock'] \in Opening
    BY DEF Inv, TypeOK, EraseFile, LocksHeld, Leave, Goto
  <2>4. ASSUME NEW k \in Key, installationLock'[k] # None
        PROVE  /\ step'[installationLock'[k]] \in Busy
               /\ session'[installationLock'[k]].key = k
    BY <2>4, WriterAlone
       DEF Inv, TypeOK, LocksHeld, EraseFile, LocksHeld, Leave, Goto
  <2>5. undercut' \subseteq {q \in Procs : step'[q] \in Forgetting}
    BY DEF Inv, TypeOK, EraseFile, Leave, Goto
  <2> QED
    BY <2>1, <2>2, <2>3, <2>4, <2>5 DEF TypeOK
<1>2. KeysCreated'
  <2>1. session[p] \in State /\ session[p].key \in 1 .. created
    BY DEF Inv, TypeOK, KeysCreated, LocksHeld, EraseFile, Key
  <2>2. /\ file' = None /\ session' = session /\ created' = created
        /\ forgotten' = forgotten \cup {session[p].key}
    BY DEF EraseFile
  <2> QED
    BY <2>1, <2>2 DEF Inv, KeysCreated
<1>3. LocksHeld'
  BY DEF Inv, TypeOK, LocksHeld, SessionsAgree, EraseFile, Leave, Goto
<1>4. SessionsAgree'
  BY WriterAlone
     DEF Inv, TypeOK, LocksHeld, SessionsAgree, OneWriter, EraseFile, Leave,
         Goto
<1>5. Apart'
  BY WriterAlone
     DEF Inv, TypeOK, KeysCreated, LocksHeld, SessionsAgree, Apart, OneWriter,
         EraseFile, Leave, Goto
<1>6. ForgetLooksAtFile'
  BY WriterAlone
     DEF Inv, TypeOK, LocksHeld, SessionsAgree, ForgetLooksAtFile, OneWriter,
         EraseFile, Leave, Goto
<1> QED
  BY <1>1, <1>2, <1>3, <1>4, <1>5, <1>6 DEF Inv

LEMMA ForgetThrowsStep ==
    ASSUME Inv, NEW p \in Procs, ForgetThrows(p)
    PROVE  Inv'
<1> USE LifecycleAssumption DEF Opening, Busy, Forgetting, State
<1>1. TypeOK'
  <2>1. undercut' \subseteq {q \in Procs : step'[q] \in Forgetting}
    BY DEF Inv, TypeOK, ForgetThrows, Leave, Goto
  <2>2. /\ step' \in [Procs -> Step]
        /\ installationLock' \in [Key -> Procs \cup {None}]
    BY DEF Inv, TypeOK, ForgetThrows, Leave, Goto, Step
  <2>3. UNCHANGED <<file, keys, created, session, bootstrapLock, forgotten,
                    overlapped>>
    BY DEF ForgetThrows
  <2>4. bootstrapLock' # None => step'[bootstrapLock'] \in Opening
    BY DEF Inv, TypeOK, ForgetThrows, Leave, Goto
  <2>5. ASSUME NEW k \in Key, installationLock'[k] # None
        PROVE  /\ step'[installationLock'[k]] \in Busy
               /\ session'[installationLock'[k]].key = k
    BY <2>5, WriterAlone
       DEF Inv, TypeOK, LocksHeld, ForgetThrows, Leave, Goto
  <2> QED
    BY <2>1, <2>2, <2>3, <2>4, <2>5 DEF Inv, TypeOK
<1>2. KeysCreated'
  BY DEF Inv, TypeOK, KeysCreated, SessionsAgree, ForgetThrows, Leave, Goto
<1>3. LocksHeld'
  BY DEF Inv, TypeOK, LocksHeld, SessionsAgree, ForgetThrows, Leave, Goto
<1>4. SessionsAgree'
  BY WriterAlone
     DEF Inv, TypeOK, LocksHeld, SessionsAgree, OneWriter, ForgetThrows,
         Leave, Goto
<1>5. Apart'
  BY WriterAlone
     DEF Inv, TypeOK, KeysCreated, LocksHeld, SessionsAgree, Apart, OneWriter,
         ForgetThrows, Leave, Goto
<1>6. ForgetLooksAtFile'
  BY WriterAlone
     DEF Inv, TypeOK, LocksHeld, SessionsAgree, ForgetLooksAtFile, OneWriter,
         ForgetThrows, Leave, Goto
<1> QED
  BY <1>1, <1>2, <1>3, <1>4, <1>5, <1>6 DEF Inv

LEMMA StopStep ==
    ASSUME Inv, NEW p \in Procs, Stop(p)
    PROVE  Inv'
<1> USE LifecycleAssumption DEF Opening, Busy, Forgetting, State
<1>1. TypeOK'
  BY DEF Inv, TypeOK, Stop, Goto, Step
<1>2. KeysCreated'
  BY DEF Inv, TypeOK, KeysCreated, SessionsAgree, Stop, Goto
<1>3. LocksHeld'
  BY DEF Inv, TypeOK, LocksHeld, SessionsAgree, Stop, Goto
<1>4. SessionsAgree'
  BY WriterAlone
     DEF Inv, TypeOK, LocksHeld, SessionsAgree, OneWriter, Stop, Goto
<1>5. Apart'
  BY WriterAlone
     DEF Inv, TypeOK, KeysCreated, LocksHeld, SessionsAgree, Apart, OneWriter,
         Stop, Goto
<1>6. ForgetLooksAtFile'
  BY WriterAlone
     DEF Inv, TypeOK, LocksHeld, SessionsAgree, ForgetLooksAtFile, OneWriter,
         Stop, Goto
<1> QED
  BY <1>1, <1>2, <1>3, <1>4, <1>5, <1>6 DEF Inv

(***************************************************************************)
(* The invariant is inductive and holds of every behaviour.                *)
(***************************************************************************)
THEOREM LifecycleInvariant == Spec => []Inv
<1>1. Init => Inv
  BY InitInv
<1>2. Inv /\ [Next]_vars => Inv'
  <2>1. Inv /\ UNCHANGED vars => Inv'
    BY DEF Inv, TypeOK, KeysCreated, LocksHeld, SessionsAgree,
           ForgetLooksAtFile, Apart, vars
  <2> QED
    BY <2>1, OpenLoadStep, CreateKeyStep, LoadKeyStep, OpenPersistStep,
       BeginOperationStep, SaveStep, EndOperationStep, BeginForgetStep,
       EraseKeyStep, EraseFileStep, ForgetThrowsStep, StopStep DEF Next
<1> QED
  BY <1>1, <1>2, PTL DEF Spec

(***************************************************************************)
(* The variables have their types, and whoever holds a lock is in a call   *)
(* that took it.                                                           *)
(***************************************************************************)
THEOREM LifecycleIsTyped == Spec => []TypeOK
<1>1. Inv => TypeOK
  BY DEF Inv
<1> QED
  BY <1>1, LifecycleInvariant, PTL

(***************************************************************************)
(* Whatever keys the open sessions have, at most one process at a time is  *)
(* past its reload.                                                        *)
(***************************************************************************)
THEOREM WritersExclude == Spec => []OneWriter
  BY WriterAlone, LifecycleInvariant, PTL

(***************************************************************************)
(* A forgotten installation stays forgotten as long as persistent() does   *)
(* not overlap an operation.                                               *)
(***************************************************************************)
THEOREM ForgottenForGood == Spec => []ForgottenStaysForgotten
<1>1. Inv => ForgottenStaysForgotten
  BY DEF Inv, Apart, ForgottenStaysForgotten
<1> QED
  BY <1>1, LifecycleInvariant, PTL

(***************************************************************************)
(* However first openers, forgets and reopenings interleave, no save gives *)
(* a file another key.                                                     *)
(***************************************************************************)
THEOREM OneKeyPerFile == Spec => FileKeepsItsKey
<1> DEFINE Kept == file # None /\ file' # None => file'.key = file.key
<1>1. Inv /\ [Next]_vars => Kept
  <2> SUFFICES ASSUME Inv, [Next]_vars PROVE Kept
    OBVIOUS
  <2>1. ASSUME NEW p \in Procs, OpenPersist(p)
        PROVE  Kept
    BY <2>1 DEF OpenPersist, Inv, SessionsAgree, Opening
  <2>2. ASSUME NEW p \in Procs, Save(p)
        PROVE  Kept
    BY <2>2 DEF Save, Inv, SessionsAgree, Busy
  <2>3. ASSUME NEW p \in Procs, EraseFile(p)
        PROVE  Kept
    BY <2>3 DEF EraseFile
  <2>4. ASSUME file' = file
        PROVE  Kept
    BY <2>4
  <2>5. \/ file' = file
        \/ \E p \in Procs : OpenPersist(p) \/ Save(p) \/ EraseFile(p)
    BY DEF Next, vars, OpenLoad, CreateKey, LoadKey, BeginOperation,
           EndOperation, BeginForget, EraseKey, ForgetThrows, Stop, Enter
  <2> QED
    BY <2>1, <2>2, <2>3, <2>4, <2>5
<1> QED
  BY <1>1, LifecycleInvariant, PTL DEF FileKeepsItsKey, Spec

(***************************************************************************)
(* forget takes the key or the file from a lease or a pending end only     *)
(* when a persistent() wrote that state back into the file during this     *)
(* very forget; whatever operations saved before is seen and spared.       *)
(***************************************************************************)
THEOREM ForgetTakesOnlyWhatItCannotSee == Spec => ForgetSparesLease
<1> DEFINE Spared == /\ file # None
                     /\ file.active
                     /\ file.key \in keys \ keys' \/ file' = None
                     => \E p \in undercut : step'[p] # step[p]
<1>1. Inv /\ [Next]_vars => Spared
  <2> SUFFICES ASSUME Inv, [Next]_vars PROVE Spared
    OBVIOUS
  <2>1. ASSUME NEW p \in Procs, EraseKey(p)
        PROVE  Spared
    <3>1. file.active => p \in undercut
      BY <2>1 DEF EraseKey, Inv, ForgetLooksAtFile, Forgetting
    <3>2. step'[p] # step[p]
      BY <2>1 DEF EraseKey, Goto, Inv, TypeOK
    <3> QED
      BY <3>1, <3>2
  <2>2. ASSUME NEW p \in Procs, EraseFile(p)
        PROVE  Spared
    <3>1. file.active => p \in undercut
      BY <2>2 DEF EraseFile, Inv, ForgetLooksAtFile, Forgetting
    <3>2. step'[p] # step[p]
      BY <2>2 DEF EraseFile, Leave, Goto, Inv, TypeOK
    <3> QED
      BY <3>1, <3>2
  <2>3. ASSUME NEW p \in Procs, OpenPersist(p) \/ Save(p)
        PROVE  file' # None /\ keys' = keys
    BY <2>3, LifecycleAssumption
       DEF OpenPersist, Save, Inv, TypeOK, LocksHeld, SessionsAgree, Busy,
           State
  <2>4. \/ file' = file /\ keys \subseteq keys'
        \/ \E p \in Procs : \/ EraseKey(p) \/ EraseFile(p)
                             \/ OpenPersist(p) \/ Save(p)
    BY DEF Next, vars, OpenLoad, CreateKey, LoadKey, BeginOperation,
           EndOperation, BeginForget, ForgetThrows, Stop, Enter
  <2> QED
    BY <2>1, <2>2, <2>3, <2>4
<1> QED
  BY <1>1, LifecycleInvariant, PTL DEF ForgetSparesLease, Spec
==============================================================================
