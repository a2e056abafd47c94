------------------------ MODULE InstallationLifecycle ------------------------
(***************************************************************************)
(* The birth and death of an installation: persistent(), which loads the   *)
(* state file and its key or creates both, the operations, which reload    *)
(* the file, and forget, which erases the key and then the file.  Several  *)
(* processes open the same file; any of them may stop at any step.         *)
(*                                                                         *)
(* The installation lock is named after the thumbprint of the key, so      *)
(* sessions of different keys do not exclude each other.  What operations  *)
(* do to the rest of the state is PersistentSession's; here a state is its *)
(* key and whether it holds a lease or a pending end.                      *)
(***************************************************************************)
EXTENDS Naturals, FiniteSets

CONSTANTS
    None,
    Procs,
    MaxKeys     \* bound on the installation keys ever created

VARIABLES
    file,       \* the state file, None when there is none
    keys,       \* the installation keys the provider stores
    created,    \* how many it has ever created
    session,    \* session[p]: the state p's session works on, None if closed
    step,       \* step[p]: where p is in a call
    bootstrapLock,
    installationLock,   \* for each key, the holder of its lock
    forgotten,  \* history: the keys of the files that forget has erased
    overlapped, \* history: has persistent() ever overlapped an operation?
    undercut    \* history: the processes in a forget since whose reload some
                \* persistent() has put another state into the file

vars == <<file, keys, created, session, step, bootstrapLock,
          installationLock, forgotten, overlapped, undercut>>

Key   == 1 .. MaxKeys
State == [key : Key, active : BOOLEAN]

\* A new state whose key is still to be created.
Keyless == [key |-> None, active |-> FALSE]

ASSUME LifecycleAssumption ==
    /\ None \notin Procs \cup Key \cup State \cup {Keyless}
    /\ MaxKeys \in Nat

Opening == {"opening", "keyed"}
Forgetting == {"forgetting", "erasing"}
Busy    == {"working"} \cup Forgetting
Step    == {"closed", "open"} \cup Opening \cup Busy

Init ==
    /\ file = None
    /\ keys = {}
    /\ created = 0
    /\ session = [p \in Procs |-> None]
    /\ step = [p \in Procs |-> "closed"]
    /\ bootstrapLock = None
    /\ installationLock = [k \in Key |-> None]
    /\ forgotten = {}
    /\ overlapped = FALSE
    /\ undercut = {}

-----------------------------------------------------------------------------
(* persistent(), under the bootstrap lock.                                 *)

Goto(p, s) == step' = [step EXCEPT ![p] = s]

\* Mutation: the bootstrap lock is not waited for.
OpenLoadUnlocked(p) ==
    /\ step[p] = "closed"
    /\ bootstrapLock' = p
    /\ session' = [session EXCEPT ![p] = IF file = None THEN Keyless ELSE file]
    /\ Goto(p, "opening")
    /\ overlapped' = (overlapped \/ \E k \in Key : installationLock[k] # None)
    /\ UNCHANGED <<file, keys, created, installationLock, forgotten, undercut>>

OpenLoad(p) ==
    /\ step[p] = "closed"
    /\ bootstrapLock = None
    /\ bootstrapLock' = p
    /\ session' = [session EXCEPT ![p] = IF file = None THEN Keyless ELSE file]
    /\ Goto(p, "opening")
    /\ overlapped' = (overlapped \/ \E k \in Key : installationLock[k] # None)
    /\ UNCHANGED <<file, keys, created, installationLock, forgotten, undercut>>

\* No file was found: the provider creates a key under a name of its own.
CreateKey(p) ==
    /\ step[p] = "opening"
    /\ session[p] = Keyless
    /\ created < MaxKeys
    /\ created' = created + 1
    /\ keys' = keys \cup {created + 1}
    /\ session' = [session EXCEPT ![p] = [key |-> created + 1, active |-> FALSE]]
    /\ Goto(p, "keyed")
    /\ UNCHANGED <<file, bootstrapLock, installationLock, forgotten,
                   overlapped, undercut>>

LoadKey(p) ==
    /\ step[p] = "opening"
    /\ session[p].key \in keys
    /\ Goto(p, "keyed")
    /\ UNCHANGED <<file, keys, created, session, bootstrapLock,
                   installationLock, forgotten, overlapped, undercut>>

OpenPersist(p) ==
    /\ step[p] = "keyed"
    /\ file' = session[p]
    /\ undercut' = undercut \cup
          {q \in Procs : step[q] \in Forgetting /\ file # session[p]}
    /\ bootstrapLock' = None
    /\ Goto(p, "open")
    /\ UNCHANGED <<keys, created, session, installationLock, forgotten,
                   overlapped>>

-----------------------------------------------------------------------------
(* Operations, under the installation lock of the session's key.           *)

\* Mutation: reload does not compare the key references.
CanBeginWithAnyKey(p) ==
    /\ step[p] = "open"
    /\ installationLock[session[p].key] = None
    /\ file # None

\* Gate, then reload, which refuses a missing file and another key's.
CanBegin(p) ==
    /\ step[p] = "open"
    /\ installationLock[session[p].key] = None
    /\ file # None
    /\ file.key = session[p].key

Enter(p, s) ==
    /\ installationLock' = [installationLock EXCEPT ![session[p].key] = p]
    /\ Goto(p, s)
    /\ overlapped' = (overlapped \/ bootstrapLock # None)
    /\ UNCHANGED <<file, keys, created, bootstrapLock, forgotten, undercut>>

Leave(p) ==
    /\ installationLock' = [installationLock EXCEPT ![session[p].key] = None]
    /\ undercut' = undercut \ {p}
    /\ Goto(p, "open")

\* Mutation: a file that has disappeared is no reason to stop.
BeginOperationFileless(p) ==
    /\ step[p] = "open"
    /\ installationLock[session[p].key] = None
    /\ file = None \/ CanBegin(p)
    /\ Enter(p, "working")
    /\ session' = [session EXCEPT ![p].active =
                      IF file = None THEN @ ELSE file.active]

BeginOperation(p) ==
    /\ CanBegin(p)
    /\ Enter(p, "working")
    /\ session' = [session EXCEPT ![p].active = file.active]

\* A save of an operation, with or without a lease.
Save(p) ==
    /\ step[p] = "working"
    /\ \E active \in BOOLEAN :
          /\ file' = [key |-> session[p].key, active |-> active]
          /\ session' = [session EXCEPT ![p].active = active]
    /\ UNCHANGED <<keys, created, step, bootstrapLock, installationLock,
                   forgotten, overlapped, undercut>>

EndOperation(p) ==
    /\ step[p] = "working"
    /\ Leave(p)
    /\ UNCHANGED <<file, keys, created, session, bootstrapLock, forgotten,
                   overlapped>>

\* Mutation: forget looks at the lease it last saw.
BeginForgetUnreloaded(p) ==
    /\ CanBegin(p)
    /\ Enter(p, "forgetting")
    /\ ~ session[p].active
    /\ UNCHANGED session

\* forget: refused while there is a lease or a pending end.
BeginForget(p) ==
    /\ CanBegin(p)
    /\ Enter(p, "forgetting")
    /\ ~ file.active
    /\ session' = [session EXCEPT ![p].active = file.active]

EraseKey(p) ==
    /\ step[p] = "forgetting"
    /\ session[p].key \in keys
    /\ keys' = keys \ {session[p].key}
    /\ Goto(p, "erasing")
    /\ UNCHANGED <<file, created, session, bootstrapLock, installationLock,
                   forgotten, overlapped, undercut>>

EraseFile(p) ==
    /\ step[p] = "erasing"
    /\ file' = None
    /\ forgotten' = forgotten \cup {session[p].key}
    /\ Leave(p)
    /\ UNCHANGED <<keys, created, session, bootstrapLock, overlapped>>

\* Mutation: forget throws without releasing its gate.
ForgetThrowsLocked(p) ==
    /\ step[p] \in Forgetting
    /\ Goto(p, "open")
    /\ undercut' = undercut \ {p}
    /\ UNCHANGED <<file, keys, created, session, bootstrapLock,
                   installationLock, forgotten, overlapped>>

\* The key or the file could not be erased: forget stops half way.
ForgetThrows(p) ==
    /\ step[p] \in Forgetting
    /\ Leave(p)
    /\ UNCHANGED <<file, keys, created, session, bootstrapLock, forgotten,
                   overlapped>>

\* The session is closed, persistent() throws, or the process stops; its
\* locks are released and everything else stays as it is.
Stop(p) ==
    /\ step[p] # "closed"
    /\ session' = [session EXCEPT ![p] = None]
    /\ Goto(p, "closed")
    /\ bootstrapLock' = IF bootstrapLock = p THEN None ELSE bootstrapLock
    /\ installationLock' = [k \in Key |-> IF installationLock[k] = p THEN None
                                          ELSE installationLock[k]]
    /\ undercut' = undercut \ {p}
    /\ UNCHANGED <<file, keys, created, forgotten, overlapped>>

Next ==
    \E p \in Procs :
        \/ OpenLoad(p) \/ CreateKey(p) \/ LoadKey(p) \/ OpenPersist(p)
        \/ BeginOperation(p) \/ Save(p) \/ EndOperation(p)
        \/ BeginForget(p) \/ EraseKey(p) \/ EraseFile(p) \/ ForgetThrows(p)
        \/ Stop(p)

Spec == Init /\ [][Next]_vars

-----------------------------------------------------------------------------

\* The variables have their types, and a lock is held only by a call that is
\* under way: every return and every throw releases it (Gate).
TypeOK ==
    /\ file \in State \cup {None}
    /\ keys \subseteq 1 .. created
    /\ created \in 0 .. MaxKeys
    /\ session \in [Procs -> State \cup {None, Keyless}]
    /\ step \in [Procs -> Step]
    /\ bootstrapLock \in Procs \cup {None}
    /\ installationLock \in [Key -> Procs \cup {None}]
    /\ bootstrapLock # None => step[bootstrapLock] \in Opening
    /\ \A k \in Key : installationLock[k] # None =>
          /\ step[installationLock[k]] \in Busy
          /\ session[installationLock[k]].key = k
    /\ forgotten \subseteq Key
    /\ overlapped \in BOOLEAN
    /\ undercut \subseteq {p \in Procs : step[p] \in Forgetting}

\* Processes that open an installation for the first time at once agree on
\* one key: a file never passes from one key to another (persistent).
FileKeepsItsKey ==
    [][file # None /\ file' # None => file'.key = file.key]_vars

\* At most one process is past its reload at any time, although the locks of
\* two keys do not exclude each other and sessions outlive the file they
\* were opened from (Gate, reload).
OneWriter == \A p, q \in Procs : step[p] \in Busy /\ step[q] \in Busy => p = q

\* forget never erases the key of a file that holds a lease or a pending end,
\* nor the file, whichever process saved it and however long ago forget's own
\* session last looked: the lease could not be renewed or ended any more, and
\* its seat would stay taken (forget).  There is one way: a persistent() that
\* had loaded the lease before it ended writes it back during this very
\* forget, after its reload, which their locks allow.
ForgetSparesLease ==
    [][/\ file # None
       /\ file.active
       /\ file.key \in keys \ keys' \/ file' = None
       => \E p \in undercut : step'[p] # step[p]]_vars

\* An installation that was forgotten does not come back, whatever sessions
\* of other processes were still open (reload), until some persistent()
\* overlaps an operation, which the locks allow: it writes back the state it
\* loaded.
ForgottenStaysForgotten ==
    file # None /\ file.key \in forgotten => overlapped
=============================================================================
