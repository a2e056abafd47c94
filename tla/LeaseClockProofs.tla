-------------------------- MODULE LeaseClockProofs --------------------------
(***************************************************************************)
(* Proofs about LeaseClock, for every lifetime, latency, tolerance and     *)
(* timestamp range.                                                        *)
(*                                                                         *)
(* The inductive invariant adds to the types three relations.  While the   *)
(* counter is faithful, true time less the counter's advance since the     *)
(* anchor lies within the latency of the anchor, and the saved mark has    *)
(* not overtaken anchored time.  A lapsed lease's expiry is at or below    *)
(* the mark.  A lease implies an anchor, and an anchor taken in this boot  *)
(* implies that the service was heard in it.                               *)
(***************************************************************************)
EXTENDS LeaseClock, TLAPS

Elapsed == mono - state.anchorMonotonic

AnchorHolds ==
    history.counterFaithful /\ history.onlineThisBoot =>
        /\ state.serverAnchor > 0
        /\ state.bootIdentifier = boot
        /\ Elapsed >= 0
        /\ state.serverAnchor <= now - Elapsed
        /\ now - Elapsed <= state.serverAnchor + MaxLatency
        /\ state.lastKnownGood <= state.serverAnchor + Elapsed

LapseRecorded == history.lapsed => state.lastKnownGood >= state.expiresAt

AnchorKnown ==
    /\ state.bootIdentifier <= boot
    /\ state.expiresAt > 0 => state.serverAnchor > 0
    /\ state.serverAnchor > 0 /\ state.bootIdentifier = boot
          => history.onlineThisBoot

ClockInv ==
    /\ TypeOK
    /\ MarkReloads
    /\ AnchorHolds
    /\ LapseRecorded
    /\ AnchorKnown

\* What the session believes is a timestamp, and not before its mark.
LEMMA EffectiveNowInRange ==
    ASSUME TypeOK, MarkReloads
    PROVE  /\ EffectiveNow \in Times
           /\ EffectiveNow >= state.lastKnownGood
  BY ClockAssumption
     DEF TypeOK, MarkReloads, TimeFields, Times, EffectiveNow, Anchored,
         AnchoredTime, Larger, Smaller

\* While the anchor holds, believed time is anchored time, without saturation.
LEMMA AnchoredExactly ==
    ASSUME TypeOK, MarkReloads, AnchorHolds,
           history.counterFaithful, history.onlineThisBoot
    PROVE  /\ Anchored
           /\ AnchoredTime = state.serverAnchor + Elapsed
           /\ EffectiveNow = AnchoredTime
           /\ ~ ClockIsUntrusted
  BY ClockAssumption
     DEF TypeOK, MarkReloads, AnchorHolds, TimeFields, Times, EffectiveNow,
         Anchored, AnchoredTime, Elapsed, Larger, Smaller, ClockIsUntrusted

LEMMA InitClock == Init => ClockInv
  BY ClockAssumption
     DEF Init, ClockInv, TypeOK, MarkReloads, AnchorHolds, LapseRecorded,
         AnchorKnown, FreshAt, NoHistory, TimeFields, History, Times

LEMMA CheckpointClock == ClockInv /\ Checkpoint => ClockInv'
<1> SUFFICES ASSUME ClockInv, Checkpoint PROVE ClockInv'
  OBVIOUS
<1>1. EffectiveNow \in Times /\ EffectiveNow >= state.lastKnownGood
  BY EffectiveNowInRange DEF ClockInv
<1>2. /\ state \in TimeFields /\ history \in History
      /\ state' = [state EXCEPT !.lastKnownGood = EffectiveNow]
      /\ history' = [history EXCEPT
                       !.lapsed = @ \/ EffectiveNow >= state.expiresAt]
      /\ UNCHANGED <<config, now, wall, mono, boot>>
  BY DEF ClockInv, TypeOK, Checkpoint
<1>3. TypeOK'
  <2>1. state' \in TimeFields
    BY <1>1, <1>2 DEF TimeFields, Times
  <2>2. history' \in History
    <3> DEFINE late == EffectiveNow >= state.expiresAt
    <3>1. (history.lapsed \/ late) \in BOOLEAN
      OBVIOUS
    <3> HIDE DEF late
    <3>2. history' = [history EXCEPT !.lapsed = @ \/ late]
      BY <1>2 DEF late
    <3> QED
      BY <1>2, <3>1, <3>2 DEF History
  <2> QED
    BY <1>2, <2>1, <2>2 DEF ClockInv, TypeOK
<1>4. MarkReloads'
  BY <1>1, <1>2 DEF MarkReloads, TimeFields
<1>5. AnchorHolds'
  <2> SUFFICES ASSUME history.counterFaithful, history.onlineThisBoot
               PROVE  AnchorHolds'
    <3>1. /\ history'.counterFaithful = history.counterFaithful
          /\ history'.onlineThisBoot = history.onlineThisBoot
      BY <1>2 DEF History
    <3> QED
      BY <3>1 DEF AnchorHolds
  <2>1. EffectiveNow = state.serverAnchor + Elapsed
    BY AnchoredExactly DEF ClockInv
  <2>2. /\ state'.lastKnownGood = EffectiveNow
        /\ state'.serverAnchor = state.serverAnchor
        /\ state'.anchorMonotonic = state.anchorMonotonic
        /\ state'.bootIdentifier = state.bootIdentifier
        /\ UNCHANGED <<now, mono, boot>>
    BY <1>2 DEF TimeFields
  <2>3. Elapsed' = Elapsed
    BY <2>2 DEF Elapsed
  <2> QED
    BY <1>1, <2>1, <2>2, <2>3 DEF ClockInv, AnchorHolds
<1>6. LapseRecorded'
  BY <1>1, <1>2, ClockAssumption
     DEF ClockInv, LapseRecorded, MarkReloads, TimeFields, History, Times
<1>7. AnchorKnown'
  BY <1>2 DEF ClockInv, AnchorKnown, TimeFields, History
<1> QED
  BY <1>3, <1>4, <1>5, <1>6, <1>7 DEF ClockInv

LEMMA AcceptClock == ClockInv /\ Accept => ClockInv'
<1> SUFFICES ASSUME ClockInv,
                    NEW issuedAt \in 1 .. now, now - issuedAt <= MaxLatency,
                    NEW expiresAt \in Times, AnchorTo(issuedAt, expiresAt)
             PROVE  ClockInv'
  BY ClockAssumption DEF Accept, ClockInv, TypeOK, TimeFields, Times
<1>1. /\ now \in Times /\ mono \in Nat /\ boot \in 0 .. MaxBoots
      /\ UNCHANGED <<config, now, wall, mono, boot>>
      /\ issuedAt \in Times /\ issuedAt > 0 /\ issuedAt <= now
  BY ClockAssumption DEF ClockInv, TypeOK, AnchorTo, Times
<1>2. TypeOK'
  BY <1>1 DEF ClockInv, TypeOK, AnchorTo, TimeFields, History, Times
<1> QED
  BY <1>1, <1>2, ClockAssumption
     DEF ClockInv, MarkReloads, AnchorHolds, LapseRecorded, AnchorKnown,
         Elapsed, AnchorTo, Times

LEMMA EnvironmentClock ==
    ClockInv /\ (Tick \/ SetWall \/ CounterFault) => ClockInv'
<1>1. ASSUME ClockInv, Tick PROVE ClockInv'
  BY <1>1, ClockAssumption
     DEF ClockInv, Tick, TypeOK, MarkReloads, AnchorHolds, LapseRecorded,
         AnchorKnown, Elapsed, TimeFields, Times, Smaller
<1>2. ASSUME ClockInv, SetWall PROVE ClockInv'
  BY <1>2 DEF ClockInv, SetWall, TypeOK, MarkReloads, AnchorHolds,
              LapseRecorded, AnchorKnown, Elapsed
<1>3. ASSUME ClockInv, CounterFault PROVE ClockInv'
  <2>1. history' \in History /\ ~ history'.counterFaithful
        /\ history'.lapsed = history.lapsed
        /\ history'.onlineThisBoot = history.onlineThisBoot
    BY <1>3 DEF ClockInv, TypeOK, CounterFault, History
  <2>2. mono' \in Nat
    BY <1>3, ClockAssumption DEF ClockInv, TypeOK, CounterFault
  <2> QED
    BY <1>3, <2>1, <2>2
       DEF ClockInv, CounterFault, TypeOK, MarkReloads, AnchorHolds,
           LapseRecorded, AnchorKnown, Times
<1> QED
  BY <1>1, <1>2, <1>3

LEMMA NewBootClock == ClockInv /\ NewBoot => ClockInv'
<1> SUFFICES ASSUME ClockInv, NewBoot PROVE ClockInv'
  OBVIOUS
<1>1. /\ boot' = boot + 1 /\ boot' \in 0 .. MaxBoots /\ mono' \in Nat
      /\ config' = config /\ now' = now /\ wall' = wall
  BY ClockAssumption DEF ClockInv, TypeOK, NewBoot
<1>2. CASE config.persistent
  <2>1. /\ state' = state
        /\ history' \in History /\ ~ history'.onlineThisBoot
        /\ history'.lapsed = history.lapsed
    BY <1>2 DEF ClockInv, TypeOK, NewBoot, History
  <2> QED
    BY <1>1, <2>1
       DEF ClockInv, TypeOK, MarkReloads, AnchorHolds, LapseRecorded,
           AnchorKnown, TimeFields, Times
<1>3. CASE ~ config.persistent
  <2>1. state' = FreshAt(wall, mono', boot') /\ history' = NoHistory
    BY <1>3 DEF NewBoot
  <2> QED
    BY <1>1, <2>1, ClockAssumption
       DEF ClockInv, TypeOK, MarkReloads, AnchorHolds, LapseRecorded,
           AnchorKnown, FreshAt, NoHistory, TimeFields, History, Times
<1> QED
  BY <1>2, <1>3

\* ClockInv is inductive.
THEOREM ClockInvariant == Spec => []ClockInv
<1>1. Init => ClockInv
  BY InitClock
<1>2. ClockInv /\ [Next]_vars => ClockInv'
  <2> SUFFICES ASSUME ClockInv, [Next]_vars PROVE ClockInv'
    OBVIOUS
  <2>1. CASE Checkpoint
    BY <2>1, CheckpointClock
  <2>2. CASE Accept
    BY <2>2, AcceptClock
  <2>3. CASE Tick \/ SetWall \/ CounterFault
    BY <2>3, EnvironmentClock
  <2>4. CASE NewBoot
    BY <2>4, NewBootClock
  <2>5. CASE UNCHANGED vars
    BY <2>5 DEF vars, ClockInv, TypeOK, MarkReloads, AnchorHolds,
                LapseRecorded, AnchorKnown, Elapsed
  <2> QED
    BY <2>1, <2>2, <2>3, <2>4, <2>5 DEF Next
<1> QED
  BY <1>1, <1>2, PTL DEF Spec

-----------------------------------------------------------------------------

\* In the boot of the last signed response a lease lives exactly as long as
\* it was signed for, within the latency of that response.
THEOREM LeaseIsHonoured == Spec => []LeaseHonoured
<1>1. ClockInv => LeaseHonoured
  <2> SUFFICES ASSUME ClockInv, history.counterFaithful,
                      history.onlineThisBoot, state.expiresAt > 0
               PROVE  /\ now < state.expiresAt => Usable
                      /\ Usable => now < state.expiresAt + MaxLatency
    BY DEF LeaseHonoured
  <2>1. /\ EffectiveNow = state.serverAnchor + Elapsed
        /\ ~ ClockIsUntrusted
    BY AnchoredExactly DEF ClockInv
  <2> QED
    BY <2>1, ClockAssumption
       DEF ClockInv, TypeOK, TimeFields, Times, AnchorHolds, Usable, Elapsed
<1> QED
  BY <1>1, ClockInvariant, PTL

\* An expiry that was saved is never undone by a clock.
THEOREM ExpiryIsSticky == Spec => []ExpirySticks
<1>1. ClockInv => ExpirySticks
  BY EffectiveNowInRange, ClockAssumption
     DEF ClockInv, TypeOK, TimeFields, Times, MarkReloads, LapseRecorded,
         ExpirySticks, Usable
<1> QED
  BY <1>1, ClockInvariant, PTL

\* The strict reboot policy is enforced.
THEOREM RebootNeedsService == Spec => []OnlineAfterReboot
<1>1. ClockInv => OnlineAfterReboot
  BY DEF ClockInv, AnchorKnown, OnlineAfterReboot, Usable, ClockIsUntrusted,
         Anchored
<1> QED
  BY <1>1, ClockInvariant, PTL

\* The saved mark is one validateLoaded accepts.
THEOREM MarkStaysInRange == Spec => []MarkReloads
<1>1. ClockInv => MarkReloads
  BY DEF ClockInv
<1> QED
  BY <1>1, ClockInvariant, PTL

\* Correcting the wall clock changes nothing while time is anchored.
THEOREM WallClockIsIrrelevant == Spec => WallClockIrrelevant
<1>1. Anchored /\ UNCHANGED <<now, mono, boot, state>> => Usable' = Usable
  BY DEF Anchored, Usable, ClockIsUntrusted, EffectiveNow, AnchoredTime
<1> QED
  BY <1>1, PTL DEF WallClockIrrelevant

\* A signed response makes an unexpired lease usable, whatever was saved.
THEOREM OnlineResponseRepairs == Spec => OnlineRepairs
<1> DEFINE Heard == /\ state'.serverAnchor # state.serverAnchor
                    /\ state'.expiresAt > now
                    /\ history'.onlineThisBoot
<1>1. ClockInv /\ [Next]_vars => (Heard => Usable')
  <2> SUFFICES ASSUME ClockInv, [Next]_vars, Heard PROVE Usable'
    OBVIOUS
  <2>1. CASE Accept
    <3>1. PICK issuedAt \in 1 .. now, expiresAt \in Times :
             AnchorTo(issuedAt, expiresAt)
      BY <2>1, ClockAssumption
         DEF Accept, ClockInv, TypeOK, TimeFields, Times
    <3>2. /\ issuedAt \in Nat /\ expiresAt \in Nat
          /\ issuedAt > 0 /\ issuedAt <= MaxTimestamp /\ mono \in Nat
          /\ UNCHANGED <<config, now, wall, mono, boot>>
          /\ state'.expiresAt = expiresAt /\ issuedAt < expiresAt
      BY <3>1, ClockAssumption DEF ClockInv, TypeOK, AnchorTo, Times
    <3>3. Anchored' /\ AnchoredTime' = issuedAt /\ EffectiveNow' = issuedAt
      BY <3>1, <3>2, ClockAssumption
         DEF AnchorTo, Anchored, AnchoredTime, EffectiveNow, Larger, Smaller
    <3>4. state'.lastKnownGood = issuedAt
      BY <3>1 DEF AnchorTo
    <3>5. ~ ClockIsUntrusted'
      BY <3>3, <3>4, ClockAssumption DEF ClockIsUntrusted
    <3> QED
      BY <3>2, <3>3, <3>5 DEF Usable
  <2>2. CASE Checkpoint
    BY <2>2 DEF ClockInv, TypeOK, Checkpoint, TimeFields
  <2>3. CASE Tick \/ SetWall \/ CounterFault \/ UNCHANGED vars
    BY <2>3 DEF Tick, SetWall, CounterFault, vars
  <2>4. CASE NewBoot
    BY <2>4 DEF NewBoot, NoHistory, ClockInv, TypeOK, History
  <2> QED
    BY <2>1, <2>2, <2>3, <2>4 DEF Next
<1> QED
  BY <1>1, ClockInvariant, PTL DEF Spec, OnlineRepairs
=============================================================================
