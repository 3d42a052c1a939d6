-------------------------- MODULE HwFeState_proof --------------------------
(***************************************************************************)
(* Proofs about HwFeState, for every set of frontends and number of tries: *)
(* type correctness, that lock waits never close a circle, and that as     *)
(* long as calls have not overlapped the tuner has one user, its owner.    *)
(***************************************************************************)
EXTENDS HwFeState, TLAPS

\* Opening a node keeps the types of the descriptor and of the table of files.
LEMMA OpenTyped ==
    ASSUME NEW node \in {"dtv", "atv"}, NEW f \in [Descriptors -> {"closed", "dtv", "atv"}],
           OpenNode(node, f)
    PROVE  fd' \in Descriptors \cup {0} /\ file' \in [Descriptors -> {"closed", "dtv", "atv"}]
BY DEF OpenNode, Descriptors

\* A table of files stays one when a descriptor is closed.
LEMMA ClosedTyped ==
    ASSUME NEW n \in Descriptors \cup {0}, file \in [Descriptors -> {"closed", "dtv", "atv"}]
    PROVE  Closed(n) \in [Descriptors -> {"closed", "dtv", "atv"}]
BY DEF Closed, Descriptors

\* A device's node is one of the two.
LEMMA NodeTyped == ASSUME NEW d \in Devices PROVE Node(d) \in {"dtv", "atv"}
BY DEF Node

\* The record of overlapping calls is a truth value.
LEMMA BeginTyped == Begin => overlapped' \in BOOLEAN
BY DEF Begin

\* Every step keeps the types.
LEMMA TypesKept == TypeOK /\ [Next]_vars => TypeOK'
<1> SUFFICES ASSUME TypeOK, [Next]_vars PROVE TypeOK'
    OBVIOUS
<1> USE NullAssumption, MaxTriesAssumption
<1>1. ASSUME NEW d \in Devices, checkOpen(d) PROVE TypeOK'
    BY <1>1, BeginTyped DEF TypeOK, checkOpen, Continue, tuner
<1>2. ASSUME NEW d \in Devices, acquire(d) PROVE TypeOK'
  <2>1. owner' \in Devices \cup {Null} /\ target' \in [Devices -> Devices \cup {Null}]
        BY <1>2 DEF TypeOK, acquire
  <2>2. tries' \in [Devices -> 0..MaxTries]
        BY <1>2 DEF TypeOK, acquire
  <2>3. phase' \in [Devices -> {"idle", "acquire", "stopOwner", "switch", "open", "return"}]
        BY <1>2 DEF TypeOK, acquire, Continue
  <2>4. \A e \in Devices : phase'[e] = "open" => tries'[e] # 0
        BY <1>2 DEF TypeOK, acquire, Continue
  <2> QED
        BY <1>2, <2>1, <2>2, <2>3, <2>4 DEF TypeOK, acquire
<1>3. ASSUME NEW d \in Devices, stopByHw(d) PROVE TypeOK'
    BY <1>3 DEF TypeOK, stopByHw, Continue, tuner
<1>4. ASSUME NEW d \in Devices, switch(d) PROVE TypeOK'
  <2>1. CASE owner = Null
        BY <1>4, <2>1 DEF TypeOK, switch, tuner
  <2>2. CASE owner # Null
    <3>1. fd' \in Descriptors \cup {0} /\ file' \in [Descriptors -> {"closed", "dtv", "atv"}]
      <4>1. CASE d \in Analog \/ owner \in Analog
            BY <1>4, <2>2, <4>1, OpenTyped, ClosedTyped, NodeTyped DEF TypeOK, switch, Reopen
      <4>2. CASE ~(d \in Analog \/ owner \in Analog)
            BY <1>4, <2>2, <4>2 DEF TypeOK, switch, Reopen
      <4> QED
            BY <4>1, <4>2
    <3> QED
        BY <1>4, <2>2, <3>1 DEF TypeOK, switch, Continue
  <2> QED
        BY <2>1, <2>2
<1>5. ASSUME NEW d \in Devices, open(d) PROVE TypeOK'
  <2>1. fd' \in Descriptors \cup {0} /\ file' \in [Descriptors -> {"closed", "dtv", "atv"}]
        BY <1>5, OpenTyped, NodeTyped DEF TypeOK, open
  <2>2. CASE fd' # 0
        BY <1>5, <2>1, <2>2 DEF TypeOK, open, Continue
  <2>3. CASE fd' = 0
    <3>1. tries[d] \in 1..MaxTries
        BY <1>5 DEF TypeOK, open
    <3>2. CASE tries[d] = 1
        BY <1>5, <2>1, <2>3, <3>1, <3>2 DEF TypeOK, open, Continue
    <3>3. CASE tries[d] # 1
        BY <1>5, <2>1, <2>3, <3>1, <3>3 DEF TypeOK, open, Continue
    <3> QED
        BY <3>2, <3>3
  <2> QED
        BY <2>2, <2>3
<1>6. ASSUME NEW d \in Devices, return(d) PROVE TypeOK'
    BY <1>6 DEF TypeOK, return, Continue, tuner
<1>7. ASSUME NEW d \in Devices, stop(d) PROVE TypeOK'
    BY <1>7, ClosedTyped, BeginTyped DEF TypeOK, stop, release
<1>8. CASE acquireForLnb
    BY <1>8, OpenTyped, BeginTyped DEF TypeOK, acquireForLnb, calls
<1>9. CASE releaseFromLnb
    BY <1>9, ClosedTyped, BeginTyped DEF TypeOK, releaseFromLnb, calls
<1>10. CASE UNCHANGED vars
    BY <1>10 DEF TypeOK, vars, tuner, calls
<1> QED
    BY <1>1, <1>2, <1>3, <1>4, <1>5, <1>6, <1>7, <1>8, <1>9, <1>10 DEF Next, Acquiring

\* The initial state has the types.
LEMMA InitTyped == Init => TypeOK
<1> SUFFICES ASSUME Init PROVE TypeOK
    OBVIOUS
<1>1. tries \in [Devices -> 0..MaxTries]
    BY MaxTriesAssumption DEF Init
<1>2. \A d \in Devices : phase[d] = "open" => tries[d] # 0
    BY DEF Init
<1> QED
    BY <1>1, <1>2, NullAssumption DEF Init, TypeOK, Descriptors

\* Every variable of the tuner and of the calls keeps its type.
THEOREM Typing == Spec => []TypeOK
<1>1. Init => TypeOK
    BY InitTyped
<1> QED
    BY <1>1, TypesKept, PTL DEF Spec

-----------------------------------------------------------------------------
(* NoLockCycle.  A wait can only begin towards the owner, and a device that *)
(* waits is never the owner: it would have to become it by its own call.    *)
(* So the device at the end of the newest wait itself waits for nobody.     *)
(* The wait is counted from when its target is read: the target's lock may  *)
(* be taken only later.                                                     *)

Waits(d, e) == phase[d] = "stopOwner" /\ target[d] = e

NoCircle == \A S \in SUBSET Devices : S # {} => \E d \in S : \A e \in S : ~Waits(d, e)

WaiterIsNotOwner == \A d \in Devices : phase[d] = "stopOwner" => owner # d

WInv == TypeOK /\ WaiterIsNotOwner /\ NoCircle

\* A step that begins no wait keeps the waits free of circles.
LEMMA FewerWaits ==
    ASSUME NoCircle, \A d, e \in Devices : Waits(d, e)' => Waits(d, e)
    PROVE  NoCircle'
BY DEF NoCircle

\* No step closes a circle.
LEMMA WaitsKept == WInv /\ [Next]_vars => WInv'
<1> SUFFICES ASSUME WInv, [Next]_vars PROVE WInv'
    OBVIOUS
<1>0. TypeOK /\ TypeOK'
    BY TypesKept DEF WInv
<1> USE NullAssumption
<1>1. ASSUME NEW d \in Devices, checkOpen(d) PROVE WaiterIsNotOwner' /\ NoCircle'
    BY <1>0, <1>1, FewerWaits
    DEF WInv, WaiterIsNotOwner, Waits, TypeOK, checkOpen, Continue, tuner
<1>2. ASSUME NEW d \in Devices, acquire(d) PROVE WaiterIsNotOwner' /\ NoCircle'
  <2>1. CASE phase' = [phase EXCEPT ![d] = "stopOwner"] /\ owner \notin {d, Null}
             /\ target' = [target EXCEPT ![d] = owner] /\ owner' = owner
    <3>1. WaiterIsNotOwner'
        BY <1>0, <2>1 DEF WInv, WaiterIsNotOwner, TypeOK
    <3>2. ASSUME NEW x \in Devices, NEW y \in Devices, Waits(x, y)', x # d PROVE Waits(x, y)
        BY <1>0, <2>1, <3>2 DEF Waits, TypeOK
    <3>3. \A y \in Devices : Waits(d, y)' => y = owner
        BY <1>0, <2>1 DEF Waits, TypeOK
    <3>4. PICK e \in Devices : e = owner
        BY <1>0, <2>1 DEF TypeOK
    <3>6. \A y \in Devices : ~Waits(e, y)'
        BY <1>0, <2>1, <3>4 DEF WInv, WaiterIsNotOwner, Waits, TypeOK
    <3>5. NoCircle'
      <4> SUFFICES ASSUME NEW S \in SUBSET Devices, S # {}
                   PROVE  \E x \in S : \A y \in S : ~Waits(x, y)'
          BY DEF NoCircle
      <4>1. CASE e \in S
          BY <3>6, <4>1
      <4>2. CASE e \notin S /\ d \in S
          BY <3>3, <3>4, <4>2
      <4>3. CASE d \notin S
          BY <3>2, <4>3 DEF WInv, NoCircle
      <4> QED
          BY <4>1, <4>2, <4>3
    <3> QED
        BY <3>1, <3>5
  <2>2. CASE phase' = [phase EXCEPT ![d] = "open"] /\ UNCHANGED <<owner, target>>
        BY <1>0, <2>2, FewerWaits DEF WInv, WaiterIsNotOwner, Waits, TypeOK
  <2>3. CASE phase' = [phase EXCEPT ![d] = "return"] /\ owner' = d /\ UNCHANGED target
        BY <1>0, <2>3, FewerWaits DEF WInv, WaiterIsNotOwner, Waits, TypeOK
  <2> QED
        BY <1>2, <2>1, <2>2, <2>3 DEF acquire, Continue
<1>3. ASSUME NEW d \in Devices, stopByHw(d) PROVE WaiterIsNotOwner' /\ NoCircle'
    BY <1>0, <1>3, FewerWaits
    DEF WInv, WaiterIsNotOwner, Waits, TypeOK, stopByHw, Continue, tuner
<1>4. ASSUME NEW d \in Devices, switch(d) PROVE WaiterIsNotOwner' /\ NoCircle'
  <2>1. \/ UNCHANGED <<owner, phase, target>>
        \/ owner' = d /\ phase' = [phase EXCEPT ![d] = "return"] /\ UNCHANGED target
        BY <1>4 DEF switch, Continue, tuner
  <2> QED
        BY <1>0, <2>1, FewerWaits DEF WInv, WaiterIsNotOwner, Waits, TypeOK
<1>5. ASSUME NEW d \in Devices, open(d) PROVE WaiterIsNotOwner' /\ NoCircle'
  <2>1. /\ owner' \in {owner, d} /\ UNCHANGED target
        /\ phase[d] = "open"
        /\ phase' \in {[phase EXCEPT ![d] = "return"], [phase EXCEPT ![d] = "open"]}
        BY <1>5 DEF open, Continue
  <2> QED
        BY <1>0, <2>1, FewerWaits DEF WInv, WaiterIsNotOwner, Waits, TypeOK
<1>6. ASSUME NEW d \in Devices, return(d) PROVE WaiterIsNotOwner' /\ NoCircle'
    BY <1>0, <1>6, FewerWaits
    DEF WInv, WaiterIsNotOwner, Waits, TypeOK, return, Continue, tuner
<1>7. ASSUME NEW d \in Devices, stop(d) PROVE WaiterIsNotOwner' /\ NoCircle'
  <2>1. owner' \in {owner, Null} /\ UNCHANGED <<phase, target>>
        BY <1>7 DEF stop, release
  <2> QED
        BY <1>0, <2>1, FewerWaits DEF WInv, WaiterIsNotOwner, Waits, TypeOK
<1>8. CASE acquireForLnb \/ releaseFromLnb \/ UNCHANGED vars
  <2>1. UNCHANGED <<owner, phase, target>>
        BY <1>8 DEF acquireForLnb, releaseFromLnb, calls, vars, tuner
  <2>2. \A d, e \in Devices : Waits(d, e)' => Waits(d, e)
        BY <2>1 DEF Waits
  <2>3. NoCircle'
        BY <2>2, FewerWaits DEF WInv
  <2> QED
        BY <1>0, <2>1, <2>3 DEF WInv, WaiterIsNotOwner
<1> QED
    BY <1>0, <1>1, <1>2, <1>3, <1>4, <1>5, <1>6, <1>7, <1>8 DEF Next, Acquiring, WInv

\* However many frontends share the tuner and however their calls overlap, checkOpen
\* and stopByHw never wait for each other's mHwDevLock in a circle.
THEOREM LocksAcyclic == Spec => []NoLockCycle
<1>1. Init => WInv
    BY InitTyped DEF Init, WInv, WaiterIsNotOwner, NoCircle, Waits
<1>2. WInv => NoLockCycle
    BY DEF WInv, NoCircle, NoLockCycle, WaitsFor, Waits
<1> QED
    BY <1>1, <1>2, WaitsKept, PTL DEF Spec

-----------------------------------------------------------------------------
(* OwnerOnly and alive.  With no calls overlapped the owner a call found    *)
(* stays the owner until the call itself replaces it, and from the step     *)
(* that has stopped it to the end of the call nobody has a descriptor.      *)

NobodyHasIt == \A d \in Devices : devFd[d] = 0

UserIsOwner == \A d \in Devices : devFd[d] # 0 => owner = d /\ devFd[d] = fd

OneCall == \A d, e \in Devices : Locked(d) /\ Locked(e) => d = e

CallState ==
    \A d \in Devices :
        /\ Locked(d) => devFd[d] = 0
        /\ phase[d] = "stopOwner" => target[d] = owner /\ owner \in Devices \ {d}
        /\ phase[d] = "switch" => owner # Null /\ NobodyHasIt
        /\ phase[d] = "open" => fd = 0
        /\ phase[d] = "return" => (fd = 0 \/ owner = d)

Serial == alive /\ UserIsOwner /\ OneCall /\ CallState

SInv == TypeOK /\ (overlapped \/ Serial)

\* Without an open tuner nobody has a descriptor of it.
LEMMA NoTuner == UserIsOwner /\ (fd = 0 \/ owner = Null) => NobodyHasIt
BY NullAssumption DEF UserIsOwner, NobodyHasIt

\* Calls that have overlapped once have overlapped for ever.
LEMMA OverlapLasts == [Next]_vars /\ overlapped => overlapped'
<1> SUFFICES ASSUME [Next]_vars, overlapped PROVE overlapped'
    OBVIOUS
<1>1. ASSUME NEW d \in Devices, Acquiring(d) PROVE overlapped'
    BY <1>1 DEF Acquiring, acquire, stopByHw, switch, open, return
<1>2. ASSUME NEW d \in Devices, checkOpen(d) \/ stop(d) PROVE overlapped'
    BY <1>2 DEF checkOpen, stop, Begin
<1>3. CASE acquireForLnb \/ releaseFromLnb
    BY <1>3 DEF acquireForLnb, releaseFromLnb, Begin
<1>4. CASE UNCHANGED vars
    BY <1>4 DEF vars
<1> QED
    BY <1>1, <1>2, <1>3, <1>4 DEF Next

\* No step gives the tuner a second user or leaves a call without the owner it found.
LEMMA SerialKept == SInv /\ [Next]_vars => SInv'
<1> SUFFICES ASSUME TypeOK, TypeOK', Serial, [Next]_vars, ~overlapped' PROVE Serial'
    BY TypesKept, OverlapLasts DEF SInv
<1>0. TypeOK /\ TypeOK' /\ alive
    BY DEF Serial
<1> USE NullAssumption
<1>1. ASSUME NEW d \in Devices, checkOpen(d) PROVE Serial'
  <2>1. UNCHANGED <<fd, owner, devFd, target, alive>>
        BY <1>1 DEF checkOpen, tuner
  <2>2. /\ phase' = [phase EXCEPT ![d] = "acquire"] /\ devFd[d] = 0
        /\ \A e \in Devices : ~Locked(e)
        BY <1>0, <1>1 DEF checkOpen, Continue, Begin
  <2> QED
        BY <1>0, <2>1, <2>2 DEF Serial, UserIsOwner, OneCall, CallState, Locked, TypeOK
<1>2. ASSUME NEW d \in Devices, acquire(d) PROVE Serial'
  <2>1. UNCHANGED <<fd, devFd, alive>> /\ phase[d] = "acquire" /\ Locked(d)
        BY <1>2 DEF acquire, Locked
  <2>2. \A e \in Devices \ {d} : ~Locked(e)
        BY <2>1 DEF Serial, OneCall
  <2>3. devFd[d] = 0
        BY <2>1 DEF Serial, CallState
  <2>4. CASE fd = 0 /\ phase' = [phase EXCEPT ![d] = "open"] /\ UNCHANGED owner
        BY <1>0, <2>1, <2>2, <2>3, <2>4 DEF Serial, UserIsOwner, OneCall, CallState, Locked, TypeOK
  <2>5. CASE owner \in {d, Null} /\ owner' = d /\ phase' = [phase EXCEPT ![d] = "return"]
    <3>1. NobodyHasIt
        BY <2>3, <2>5 DEF Serial, UserIsOwner, NobodyHasIt
    <3> QED
        BY <1>0, <2>1, <2>2, <2>5, <3>1
        DEF Serial, UserIsOwner, OneCall, CallState, Locked, TypeOK, NobodyHasIt
  <2>6. CASE owner \notin {d, Null} /\ target' = [target EXCEPT ![d] = owner]
             /\ phase' = [phase EXCEPT ![d] = "stopOwner"] /\ UNCHANGED owner
        BY <1>0, <2>1, <2>2, <2>3, <2>6 DEF Serial, UserIsOwner, OneCall, CallState, Locked, TypeOK
  <2> QED
        BY <1>2, <2>4, <2>5, <2>6 DEF acquire, Continue
<1>3. ASSUME NEW d \in Devices, stopByHw(d) PROVE Serial'
  <2>1. /\ UNCHANGED <<fd, owner, alive>> /\ phase[d] = "stopOwner" /\ Locked(d)
        /\ devFd' = [devFd EXCEPT ![target[d]] = 0]
        /\ phase' = [phase EXCEPT ![d] = "switch"]
        BY <1>3 DEF stopByHw, Locked, Continue, tuner
  <2>2. \A e \in Devices \ {d} : ~Locked(e)
        BY <2>1 DEF Serial, OneCall
  <2>3. target[d] = owner /\ owner \in Devices
        BY <2>1 DEF Serial, CallState
  <2>4. NobodyHasIt'
        BY <1>0, <2>1, <2>3 DEF Serial, UserIsOwner, NobodyHasIt, TypeOK
  <2> QED
        BY <1>0, <2>1, <2>2, <2>3, <2>4
        DEF Serial, UserIsOwner, OneCall, CallState, Locked, TypeOK, NobodyHasIt
<1>4. ASSUME NEW d \in Devices, switch(d) PROVE Serial'
  <2>1. phase[d] = "switch" /\ Locked(d)
        BY <1>4 DEF switch, Locked
  <2>2. \A e \in Devices \ {d} : ~Locked(e)
        BY <2>1 DEF Serial, OneCall
  <2>3. owner # Null /\ NobodyHasIt
        BY <2>1 DEF Serial, CallState
  <2>4. owner' = d /\ phase' = [phase EXCEPT ![d] = "return"] /\ UNCHANGED <<devFd, alive>>
        BY <1>4, <2>3 DEF switch, Continue
  <2> QED
        BY <1>0, <2>2, <2>3, <2>4
        DEF Serial, UserIsOwner, OneCall, CallState, Locked, TypeOK, NobodyHasIt
<1>5. ASSUME NEW d \in Devices, open(d) PROVE Serial'
  <2>1. phase[d] = "open" /\ Locked(d) /\ UNCHANGED <<devFd, alive>>
        BY <1>5 DEF open, Locked
  <2>2. \A e \in Devices \ {d} : ~Locked(e)
        BY <2>1 DEF Serial, OneCall
  <2>3. NobodyHasIt
        BY <2>1, NoTuner DEF Serial, CallState
  <2>4. \/ owner' = d /\ phase' = [phase EXCEPT ![d] = "return"]
        \/ fd' = 0 /\ phase' = [phase EXCEPT ![d] = "return"]
        \/ fd' = 0 /\ phase' = [phase EXCEPT ![d] = "open"]
        BY <1>5 DEF open, Continue
  <2> QED
        BY <1>0, <2>1, <2>2, <2>3, <2>4
        DEF Serial, UserIsOwner, OneCall, CallState, Locked, TypeOK, NobodyHasIt
<1>6. ASSUME NEW d \in Devices, return(d) PROVE Serial'
  <2>1. /\ phase[d] = "return" /\ Locked(d) /\ UNCHANGED <<fd, owner, alive>>
        /\ devFd' = [devFd EXCEPT ![d] = fd] /\ phase' = [phase EXCEPT ![d] = "idle"]
        BY <1>6 DEF return, Locked, Continue, tuner
  <2>2. \A e \in Devices \ {d} : ~Locked(e)
        BY <2>1 DEF Serial, OneCall
  <2>3. devFd[d] = 0 /\ (fd = 0 \/ owner = d)
        BY <2>1 DEF Serial, CallState
  <2> QED
        BY <1>0, <2>1, <2>2, <2>3 DEF Serial, UserIsOwner, OneCall, CallState, Locked, TypeOK
<1>7. ASSUME NEW d \in Devices, stop(d) PROVE Serial'
  <2>1. \A e \in Devices : ~Locked(e)
        BY <1>0, <1>7 DEF stop, Begin
  <2>2. devFd' = [devFd EXCEPT ![d] = 0] /\ UNCHANGED phase /\ release(d)
        BY <1>7 DEF stop
  <2>3. CASE devFd[d] # fd \/ fd = 0
    <3>1. UNCHANGED <<fd, owner, alive>>
        BY <2>2, <2>3 DEF release
    <3> QED
        BY <1>0, <2>1, <2>2, <3>1 DEF Serial, UserIsOwner, OneCall, CallState, Locked, TypeOK
  <2>4. CASE devFd[d] = fd /\ fd # 0
    <3>1. owner = d /\ \A e \in Devices \ {d} : devFd[e] = 0
        BY <2>4 DEF Serial, UserIsOwner
    <3>2. UNCHANGED alive
        BY <2>2, <2>4, <3>1 DEF release
    <3> QED
        BY <1>0, <2>1, <2>2, <3>1, <3>2 DEF Serial, UserIsOwner, OneCall, CallState, Locked, TypeOK
  <2> QED
        BY <2>3, <2>4
<1>8. CASE acquireForLnb \/ releaseFromLnb
  <2>1. UNCHANGED <<owner, devFd, phase, target, alive>>
        BY <1>8 DEF acquireForLnb, releaseFromLnb, calls
  <2>2. \A e \in Devices : ~Locked(e)
        BY <1>0, <1>8 DEF acquireForLnb, releaseFromLnb, Begin
  <2>3. UNCHANGED fd \/ fd = 0 \/ owner = Null
        BY <1>8 DEF acquireForLnb, releaseFromLnb
  <2>4. UserIsOwner'
    <3>1. CASE UNCHANGED fd
          BY <2>1, <3>1 DEF Serial, UserIsOwner
    <3>2. CASE fd = 0 \/ owner = Null
          BY <2>1, <3>2, NoTuner DEF Serial, UserIsOwner, NobodyHasIt
    <3> QED
          BY <2>3, <3>1, <3>2
  <2> QED
        BY <1>0, <2>1, <2>2, <2>4 DEF Serial, OneCall, CallState, Locked
<1>9. CASE UNCHANGED vars
    BY <1>0, <1>9
    DEF Serial, UserIsOwner, OneCall, CallState, Locked, NobodyHasIt, vars, tuner, calls
<1> QED
    BY <1>1, <1>2, <1>3, <1>4, <1>5, <1>6, <1>7, <1>8, <1>9 DEF Next, Acquiring

\* The serial invariant holds from the start, and so always.
LEMMA SerialHolds == Spec => []SInv
<1>1. Init => SInv
    BY InitTyped DEF Init, SInv, Serial, UserIsOwner, OneCall, CallState, Locked
<1> QED
    BY <1>1, SerialKept, PTL DEF Spec

\* Whatever fails to open and whoever takes over, a frontend that has a descriptor is
\* the tuner's owner and has the tuner's: acquire and release never leave two users.
THEOREM OneUser == Spec => []OwnerOnly
<1>1. SInv => OwnerOnly
    BY DEF SInv, Serial, UserIsOwner, OwnerOnly
<1> QED
    BY <1>1, SerialHolds, PTL

-----------------------------------------------------------------------------
(* DescriptorsAccounted.  The node of an owned tuner is the owner's, and a  *)
(* tuner that is open without an owner is open for an LNB.                  *)

RightOwner ==
    owner # Null /\ fd # 0 => file[fd] = Node(owner) \/ (owner \in Analog /\ lnbUsing)

UnownedIsLnbs == owner = Null /\ fd # 0 => lnbUsing /\ lnbOpen /\ file[fd] = "dtv"

Accounts == NoLeak /\ RightOwner /\ UnownedIsLnbs

\* From a table without open nodes, an open that does not fail opens the node.
LEMMA OpenFacts ==
    ASSUME NEW node \in {"dtv", "atv"}, NEW f \in [Descriptors -> {"closed", "dtv", "atv"}],
           \A n \in Descriptors : f[n] = "closed", OpenNode(node, f)
    PROVE  NoLeak' /\ (fd' # 0 => file'[fd'] = node)
<1>1. PICK n \in Descriptors \cup {0}, g \in {f} \cup {[f EXCEPT ![m] = node] : m \in Descriptors} :
        Opens(node, f, n, g) /\ fd' = n /\ file' = g
      BY DEF OpenNode
<1>2. CASE n = 0
      BY <1>1, <1>2 DEF Opens, NoLeak, Descriptors
<1>3. CASE n # 0
      BY <1>1, <1>3 DEF Opens, NoLeak, Descriptors
<1> QED
    BY <1>2, <1>3

\* Nothing is open once the tuner's node is closed.
LEMMA ClosedFacts ==
    ASSUME TypeOK, NoLeak
    PROVE  \A n \in Descriptors : Closed(fd)[n] = "closed"
BY DEF TypeOK, NoLeak, Closed, Descriptors

\* No step opens a node it does not account for.
LEMMA AccountsKept ==
    TypeOK /\ Serial /\ Accounts /\ [Next]_vars /\ ~overlapped' => Accounts'
<1> SUFFICES ASSUME TypeOK, Serial, Accounts, [Next]_vars, ~overlapped' PROVE Accounts'
    OBVIOUS
<1>f. ASSUME UNCHANGED <<fd, owner, lnbUsing, file, lnbOpen>> PROVE Accounts'
      BY <1>f DEF Accounts, NoLeak, RightOwner, UnownedIsLnbs
<1> USE NullAssumption
<1>1. ASSUME NEW d \in Devices, checkOpen(d) \/ stopByHw(d) \/ return(d) PROVE Accounts'
      BY <1>1, <1>f DEF checkOpen, stopByHw, return, tuner
<1>2. ASSUME NEW d \in Devices, acquire(d) PROVE Accounts'
  <2>1. UNCHANGED <<fd, lnbUsing, file, lnbOpen>> /\ (owner' = owner \/ (owner \in {d, Null} /\ owner' = d))
        BY <1>2 DEF acquire
  <2>2. NoLeak'
        BY <2>1 DEF Accounts, NoLeak
  <2>3. RightOwner' /\ UnownedIsLnbs'
        BY <2>1 DEF Accounts, RightOwner, UnownedIsLnbs, Node
  <2> QED
      BY <2>2, <2>3 DEF Accounts
<1>3. ASSUME NEW d \in Devices, switch(d) PROVE Accounts'
  <2>1. owner # Null
        BY <1>3 DEF switch, Serial, CallState
  <2>2. Reopen(d) /\ owner' = d /\ UNCHANGED <<lnbUsing, lnbOpen>>
        BY <1>3, <2>1 DEF switch
  <2>3. CASE d \in Analog \/ owner \in Analog
    <3>1. NoLeak' /\ (fd' # 0 => file'[fd'] = Node(d))
      <4>1. OpenNode(Node(d), Closed(fd))
            BY <2>2, <2>3 DEF Reopen
      <4>2. Closed(fd) \in [Descriptors -> {"closed", "dtv", "atv"}]
            BY ClosedTyped DEF TypeOK
      <4>3. \A n \in Descriptors : Closed(fd)[n] = "closed"
            BY ClosedFacts DEF Accounts
      <4> QED
          BY <4>1, <4>2, <4>3, NodeTyped, OpenFacts
    <3> QED
        BY <2>2, <3>1 DEF Accounts, RightOwner, UnownedIsLnbs
  <2>4. CASE ~(d \in Analog \/ owner \in Analog)
        BY <2>1, <2>2, <2>4 DEF Reopen, Accounts, NoLeak, RightOwner, UnownedIsLnbs, Node
  <2> QED
      BY <2>3, <2>4
<1>4. ASSUME NEW d \in Devices, open(d) PROVE Accounts'
  <2>1. fd = 0 /\ OpenNode(Node(d), file) /\ owner' = (IF fd' # 0 THEN d ELSE owner) /\ UNCHANGED <<lnbUsing, lnbOpen>>
        BY <1>4 DEF open, Serial, CallState
  <2>2. \A n \in Descriptors : file[n] = "closed"
        BY <2>1 DEF Accounts, NoLeak, TypeOK, Descriptors
  <2>3. NoLeak' /\ (fd' # 0 => file'[fd'] = Node(d))
        BY <2>1, <2>2, NodeTyped, OpenFacts DEF TypeOK
  <2> QED
      BY <2>1, <2>3 DEF Accounts, RightOwner, UnownedIsLnbs
<1>5. ASSUME NEW d \in Devices, stop(d) PROVE Accounts'
  <2>1. UNCHANGED <<lnbUsing, lnbOpen>> /\ release(d)
        BY <1>5 DEF stop
  <2>2. CASE UNCHANGED <<fd, owner, file>>
        BY <2>1, <2>2, <1>f
  <2>3. CASE fd' = 0 /\ owner' = Null /\ file' = Closed(fd)
    <3>1. \A n \in Descriptors : file'[n] = "closed"
          BY <2>3, ClosedFacts DEF Accounts
    <3> QED
        BY <2>3, <3>1 DEF Accounts, NoLeak, RightOwner, UnownedIsLnbs, Descriptors
  <2> QED
      BY <2>1, <2>2, <2>3 DEF release
<1>6. CASE acquireForLnb
  <2>1. owner' = owner /\ lnbOpen' = TRUE
        BY <1>6 DEF acquireForLnb
  <2>2. CASE fd # 0
        BY <1>6, <2>1, <2>2 DEF acquireForLnb, Accounts, NoLeak, RightOwner, UnownedIsLnbs
  <2>3. CASE fd = 0
    <3>1. OpenNode("dtv", file) /\ lnbUsing' = (lnbUsing \/ fd' # 0)
          BY <1>6, <2>3 DEF acquireForLnb
    <3>2. \A n \in Descriptors : file[n] = "closed"
          BY <2>3 DEF Accounts, NoLeak, TypeOK, Descriptors
    <3>3. NoLeak' /\ (fd' # 0 => file'[fd'] = "dtv")
          BY <3>1, <3>2, OpenFacts DEF TypeOK
    <3> QED
        BY <2>1, <3>1, <3>3 DEF Accounts, RightOwner, UnownedIsLnbs, Node
  <2> QED
      BY <2>2, <2>3
<1>7. CASE releaseFromLnb
  <2>1. CASE fd # 0 /\ lnbUsing /\ owner = Null
    <3>1. fd' = 0 /\ file' = Closed(fd) /\ owner' = Null
          BY <1>7, <2>1 DEF releaseFromLnb
    <3>2. \A n \in Descriptors : file'[n] = "closed"
          BY <3>1, ClosedFacts DEF Accounts
    <3> QED
        BY <3>1, <3>2 DEF Accounts, NoLeak, RightOwner, UnownedIsLnbs, Descriptors
  <2>2. CASE ~(fd # 0 /\ lnbUsing /\ owner = Null)
        BY <1>7, <2>2 DEF releaseFromLnb, Accounts, NoLeak, RightOwner, UnownedIsLnbs
  <2> QED
      BY <2>1, <2>2
<1>8. CASE UNCHANGED vars
      BY <1>8, <1>f DEF vars, tuner
<1> QED
    BY <1>1, <1>2, <1>3, <1>4, <1>5, <1>6, <1>7, <1>8 DEF Next, Acquiring

\* As long as no calls have overlapped, every open node is the tuner's, the tuner's node is
\* that of the frontend that has it, one that nobody uses is closed, and acquire and
\* release never use an owner that is not there.
THEOREM NothingLost == Spec => []DescriptorsAccounted
<1> DEFINE AInv == overlapped \/ Accounts
<1>1. Init => AInv
      BY DEF Init, Accounts, NoLeak, RightOwner, UnownedIsLnbs, Descriptors
<1>2. SInv /\ AInv /\ [Next]_vars => AInv'
      BY AccountsKept, OverlapLasts DEF SInv
<1>3. SInv /\ AInv => DescriptorsAccounted
  <2> SUFFICES ASSUME TypeOK, Serial, Accounts PROVE alive /\ NoLeak /\ RightNode /\ ClosedWhenUnused
      BY DEF SInv, DescriptorsAccounted
  <2> QED
      BY NullAssumption DEF Serial, UserIsOwner, Accounts, RightOwner, UnownedIsLnbs, RightNode, ClosedWhenUnused
<1> QED
    BY <1>1, <1>2, <1>3, SerialHolds, PTL DEF Spec
=============================================================================
