----------------------------- MODULE LeaseClock -----------------------------
(***************************************************************************)
(* The time a session believes in: the server anchor, the suspend-inclusive*)
(* counter of the boot and the saved high-water mark of known time, and    *)
(* what they decide about a signed lease.  (effectiveNow, clockIsUntrusted *)
(* and the time fields accept and persist assign.)                         *)
(*                                                                         *)
(* The environment moves true time, resets the wall clock to anything,     *)
(* reboots, changes the boot identifier, and makes a custom counter jump   *)
(* or fall back.  Times are whole seconds; the code's truncation of        *)
(* milliseconds makes its anchored time up to one second earlier than the  *)
(* one here.                                                               *)
(***************************************************************************)
EXTENDS Integers

CONSTANTS
    Tolerance,      \* how far time may fall behind the mark: 5 s
    Lifetime,       \* seconds from a lease's issue to its expiry
    MaxLatency,     \* from the service's signature to its acceptance
    MaxTimestamp,   \* the latest timestamp the formats allow
    MaxBoots        \* bound on boot identifiers

ASSUME ClockAssumption ==
    /\ Tolerance \in Nat
    /\ Lifetime \in Nat \ {0}
    /\ MaxLatency \in Nat
    /\ MaxTimestamp \in Nat \ {0}
    /\ MaxBoots \in Nat

VARIABLES
    config,  \* the session's kind and its reboot policy, fixed when it opens
    now,     \* true time, which the service's clock tells
    wall,    \* the machine's wall clock
    mono,    \* its suspend-inclusive counter
    boot,    \* its boot identifier
    state,   \* the session's time fields and the expiry of its lease
    history  \* what has happened since the last accepted response

vars == <<config, now, wall, mono, boot, state, history>>

Times == 0 .. MaxTimestamp

Config == [persistent : BOOLEAN, requireOnlineAfterReboot : BOOLEAN]

TimeFields ==
    [lastKnownGood : Nat, serverAnchor : Times, anchorMonotonic : Nat,
     bootIdentifier : 0 .. MaxBoots, expiresAt : Times]

History ==
    [counterFaithful : BOOLEAN, onlineThisBoot : BOOLEAN, lapsed : BOOLEAN]

Larger(a, b)  == IF a >= b THEN a ELSE b
Smaller(a, b) == IF a <= b THEN a ELSE b

\* Impl::fresh: no anchor, no lease, the wall clock taken on trust.
FreshAt(w, m, b) ==
    [lastKnownGood |-> w, serverAnchor |-> 0, anchorMonotonic |-> m,
     bootIdentifier |-> b, expiresAt |-> 0]

NoHistory == [counterFaithful |-> FALSE, onlineThisBoot |-> FALSE,
              lapsed |-> FALSE]

Init ==
    /\ config \in Config
    /\ now = 1
    /\ wall \in Times
    /\ mono = 0
    /\ boot = 0
    /\ state = FreshAt(wall, mono, boot)
    /\ history = NoHistory

-----------------------------------------------------------------------------
(* What the session derives from its fields.                               *)

\* anchoredTime yields a value.
Anchored ==
    /\ state.serverAnchor > 0
    /\ state.bootIdentifier = boot
    /\ mono >= state.anchorMonotonic

\* Mutation: elapsed time is added without saturation.
AnchoredTimeUnbounded ==
    state.serverAnchor + (mono - state.anchorMonotonic)

\* That value, saturated so that an extreme counter expires the lease
\* instead of leaving the supported range.
AnchoredTime ==
    state.serverAnchor + Smaller(mono - state.anchorMonotonic,
                                 MaxTimestamp - state.serverAnchor)

\* Mutation: the wall clock is believed where it is later.
EffectiveNowByWall ==
    Larger(state.lastKnownGood,
           IF Anchored THEN Larger(AnchoredTime, wall) ELSE wall)

\* Mutation: the saved mark is left out.
EffectiveNowUnmarked == IF Anchored THEN AnchoredTime ELSE wall

EffectiveNow ==
    Larger(state.lastKnownGood, IF Anchored THEN AnchoredTime ELSE wall)

\* Mutation: the wall clock is checked even while time is anchored.
ClockIsUntrustedByWall ==
    \/ Anchored /\ AnchoredTime + Tolerance < state.lastKnownGood
    \/ wall + Tolerance < state.lastKnownGood

\* Mutation: the reboot policy is ignored.
ClockIsUntrustedLenient ==
    IF Anchored THEN AnchoredTime + Tolerance < state.lastKnownGood
    ELSE \/ state.serverAnchor > 0 /\ state.bootIdentifier = boot
         \/ config.persistent /\ wall + Tolerance < state.lastKnownGood

ClockIsUntrusted ==
    IF Anchored THEN AnchoredTime + Tolerance < state.lastKnownGood
    ELSE \/ state.serverAnchor > 0 /\ state.bootIdentifier = boot
         \/ config.persistent /\ wall + Tolerance < state.lastKnownGood
         \/ /\ config.persistent /\ config.requireOnlineAfterReboot
            /\ state.serverAnchor > 0 /\ state.bootIdentifier # boot

\* usableLease, as far as time decides it.
Usable ==
    /\ state.expiresAt > 0
    /\ ~ ClockIsUntrusted
    /\ EffectiveNow < state.expiresAt

-----------------------------------------------------------------------------
(* The session.                                                            *)

\* persist, without a response: the mark rises to the time believed now.
Checkpoint ==
    /\ config.persistent
    /\ state' = [state EXCEPT !.lastKnownGood = EffectiveNow]
    /\ history' = [history EXCEPT
                     !.lapsed = @ \/ EffectiveNow >= state.expiresAt]
    /\ UNCHANGED <<config, now, wall, mono, boot>>

\* Mutation: a response never lowers the mark.
AnchorToKeepingMark(issuedAt, expiresAt) ==
    /\ state' = [lastKnownGood |-> Larger(state.lastKnownGood, issuedAt),
                 serverAnchor |-> issuedAt, anchorMonotonic |-> mono,
                 bootIdentifier |-> boot, expiresAt |-> expiresAt]
    /\ history' = [counterFaithful |-> TRUE, onlineThisBoot |-> TRUE,
                   lapsed |-> FALSE]
    /\ UNCHANGED <<config, now, wall, mono, boot>>

\* The time fields accept assigns from a response signed at issuedAt.
AnchorTo(issuedAt, expiresAt) ==
    /\ state' = [lastKnownGood |-> issuedAt, serverAnchor |-> issuedAt,
                 anchorMonotonic |-> mono, bootIdentifier |-> boot,
                 expiresAt |-> expiresAt]
    /\ history' = [counterFaithful |-> TRUE, onlineThisBoot |-> TRUE,
                   lapsed |-> FALSE]
    /\ UNCHANGED <<config, now, wall, mono, boot>>

\* Mutation: a lease may outlive the range of timestamps.
AcceptUnbounded ==
    \E issuedAt \in 1 .. now :
        /\ now - issuedAt <= MaxLatency
        /\ \/ AnchorTo(issuedAt, issuedAt + Lifetime)
           \/ AnchorTo(issuedAt, state.expiresAt)

\* accept: a signed response, at most MaxLatency old, brings a new lease or
\* confirms the one there is.
Accept ==
    \E issuedAt \in 1 .. now :
        /\ now - issuedAt <= MaxLatency
        /\ \/ /\ issuedAt + Lifetime <= MaxTimestamp
              /\ AnchorTo(issuedAt, issuedAt + Lifetime)
           \/ AnchorTo(issuedAt, state.expiresAt)

-----------------------------------------------------------------------------
(* The environment.                                                        *)

Tick ==
    /\ now < MaxTimestamp
    /\ now' = now + 1
    /\ mono' = mono + 1
    /\ wall' = Smaller(wall + 1, MaxTimestamp)
    /\ UNCHANGED <<config, boot, state, history>>

SetWall ==
    /\ wall' \in Times
    /\ UNCHANGED <<config, now, mono, boot, state, history>>

\* A reboot, or, where the system names no boot, a process restart, which
\* draws a new identifier while the counter goes on.  A memory session does
\* not survive either.
NewBoot ==
    /\ boot < MaxBoots
    /\ boot' = boot + 1
    /\ mono' \in {0, mono}
    /\ IF config.persistent
       THEN /\ state' = state
            /\ history' = [history EXCEPT !.onlineThisBoot = FALSE]
       ELSE /\ state' = FreshAt(wall, mono', boot')
            /\ history' = NoHistory
    /\ UNCHANGED <<config, now, wall>>

\* The counter falls back or leaps within a boot.
CounterFault ==
    /\ mono' \in (0 .. mono - 1) \cup {2 * MaxTimestamp}
    /\ history' = [history EXCEPT !.counterFaithful = FALSE]
    /\ UNCHANGED <<config, now, wall, boot, state>>

Next ==
    \/ Checkpoint
    \/ Accept
    \/ Tick
    \/ SetWall
    \/ NewBoot
    \/ CounterFault

Spec == Init /\ [][Next]_vars

-----------------------------------------------------------------------------
(* Properties.                                                             *)

(***************************************************************************)
(* Clocks, fields and history stay within their types.                     *)
(***************************************************************************)
TypeOK ==
    /\ config \in Config
    /\ now \in Times
    /\ wall \in Times
    /\ mono \in Nat
    /\ boot \in 0 .. MaxBoots
    /\ state \in TimeFields
    /\ history \in History

(***************************************************************************)
(* In the boot of the last signed response, while the counter is faithful, *)
(* a lease is honoured for exactly its signed life whatever the wall clock *)
(* says and however often the state is saved and reloaded: never cut short *)
(* and never used beyond its expiry by more than the latency of that       *)
(* response.                                                               *)
(***************************************************************************)
LeaseHonoured ==
    history.counterFaithful /\ history.onlineThisBoot /\ state.expiresAt > 0 =>
        /\ now < state.expiresAt => Usable
        /\ Usable => now < state.expiresAt + MaxLatency

(***************************************************************************)
(* An expiry that was once saved holds until the service is heard again:   *)
(* no wall clock, reboot or counter makes the lease usable.                *)
(***************************************************************************)
ExpirySticks == history.lapsed => ~ Usable

(***************************************************************************)
(* Under requireOnlineAfterReboot no lease is used in a boot that has not  *)
(* heard from the service.                                                 *)
(***************************************************************************)
OnlineAfterReboot ==
    config.persistent /\ config.requireOnlineAfterReboot /\ Usable
        => history.onlineThisBoot

(***************************************************************************)
(* The saved mark stays in the range validateLoaded accepts, even under a  *)
(* counter that leaps beyond every timestamp.                              *)
(***************************************************************************)
MarkReloads == state.lastKnownGood \in Times

(***************************************************************************)
(* A signed response repairs a bad checkpoint: after it, an unexpired      *)
(* lease is usable whatever the mark and the wall clock were.              *)
(***************************************************************************)
OnlineRepairs ==
    [][/\ state'.serverAnchor # state.serverAnchor
       /\ state'.expiresAt > now
       /\ history'.onlineThisBoot
       => Usable']_vars

(***************************************************************************)
(* While time is anchored, correcting the wall clock neither extends nor   *)
(* shortens the lease.                                                     *)
(***************************************************************************)
WallClockIrrelevant ==
    [][Anchored /\ UNCHANGED <<now, mono, boot, state>>
       => Usable' = Usable]_vars
=============================================================================
