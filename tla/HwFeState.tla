------------------------------ MODULE HwFeState ------------------------------
(***************************************************************************)
(* One hardware tuner that several frontends and an LNB share: HwFeState   *)
(* hands its descriptor from one FrontendDevice to the next                *)
(* (aidl/frontenddevices/HwFeState.cpp, checkOpen and stopByHw of          *)
(* FrontendDevice.cpp, aidl/Lnb.cpp).                                      *)
(*                                                                         *)
(* HwFeState has no lock.  A device that acquires the tuner holds its own  *)
(* mHwDevLock throughout, and stopByHw takes that of the owner.  A step    *)
(* reads or writes the tuner's fields once, apart from the closing and     *)
(* reopening of a node.                                                    *)
(***************************************************************************)
EXTENDS Naturals

CONSTANTS
    Devices,        \* frontend devices on the tuner
    Analog,         \* those of type ANALOG
    Null,           \* owner == nullptr
    MaxTries        \* bound: times the node is tried, 20 in the code

ASSUME AnalogAssumption == Analog \subseteq Devices
ASSUME NullAssumption == Null \notin Devices
ASSUME MaxTriesAssumption == MaxTries \in Nat \ {0}

VARIABLES
    fd, owner, lnbUsing,    \* the fields of HwFeState; 0 stands for fd -1
    file,                   \* the nodes open in the kernel, by descriptor
    devFd,                  \* mDev.devFd of each device
    phase,                  \* of each device's call; its lock is held if not idle
    target,                 \* the owner it read and must stop
    tries,
    lnbOpen,                \* the client has used the LNB and not closed it
    alive,                  \* the process has not crashed
    overlapped              \* a call has begun while another was under way

tuner == <<fd, owner, lnbUsing, file>>
calls == <<devFd, phase, target, tries>>
vars == <<tuner, calls, lnbOpen, alive, overlapped>>

Descriptors == 1..2
Node(d) == IF d \in Analog THEN "atv" ELSE "dtv"
Locked(d) == phase[d] # "idle"

Init ==
    /\ fd = 0 /\ owner = Null /\ lnbUsing = FALSE
    /\ file = [n \in Descriptors |-> "closed"]
    /\ devFd = [d \in Devices |-> 0]
    /\ phase = [d \in Devices |-> "idle"]
    /\ target = [d \in Devices |-> Null]
    /\ tries = [d \in Devices |-> 0]
    /\ lnbOpen = FALSE
    /\ alive = TRUE /\ overlapped = FALSE

\* open() of a node, from a table of files f: it fails, or gives the lowest
\* descriptor.  A node can be opened once.
Opens(node, f, n, g) ==
    \/ n = 0 /\ g = f
    \/ /\ \A m \in Descriptors : f[m] # node
       /\ n \in Descriptors /\ f[n] = "closed"
       /\ \A m \in 1..(n - 1) : f[m] # "closed"
       /\ g = [f EXCEPT ![n] = node]

Closed(n) == IF n \in Descriptors THEN [file EXCEPT ![n] = "closed"] ELSE file

OpenNode(node, f) ==
    \E n \in Descriptors \cup {0}, g \in {f} \cup {[f EXCEPT ![m] = node] : m \in Descriptors} :
        /\ Opens(node, f, n, g)
        /\ fd' = n /\ file' = g

Continue(d, p) == phase' = [phase EXCEPT ![d] = p]

\* A call begins, on a frontend or on the LNB.
Begin == alive /\ overlapped' = (overlapped \/ \E d \in Devices : Locked(d))

-----------------------------------------------------------------------------
(* checkOpen, by tune, scan and the status getters.                        *)

checkOpen(d) ==
    /\ Begin /\ ~Locked(d) /\ devFd[d] = 0
    /\ Continue(d, "acquire")
    /\ UNCHANGED <<tuner, devFd, target, tries, lnbOpen, alive>>

\* Mutant: the device is marked as the owner before the old one has stopped.
acquireMarksFirst(d) ==
    /\ alive /\ phase[d] = "acquire"
    /\ fd # 0 /\ owner' = d
    /\ IF owner \in {d, Null}
       THEN Continue(d, "return") /\ UNCHANGED target
       ELSE target' = [target EXCEPT ![d] = owner] /\ Continue(d, "stopOwner")
    /\ UNCHANGED <<fd, lnbUsing, file, devFd, tries, lnbOpen, alive, overlapped>>

\* With an open tuner the device is its owner, becomes it, or must stop it.
acquire(d) ==
    /\ alive /\ phase[d] = "acquire"
    /\ \/ /\ fd = 0
          /\ Continue(d, "open")
          /\ tries' = [tries EXCEPT ![d] = MaxTries]
          /\ UNCHANGED <<owner, target>>
       \/ /\ fd # 0 /\ owner \in {d, Null}
          /\ owner' = d
          /\ Continue(d, "return")
          /\ UNCHANGED <<target, tries>>
       \/ /\ fd # 0 /\ owner \notin {d, Null}
          /\ target' = [target EXCEPT ![d] = owner]
          /\ Continue(d, "stopOwner")
          /\ UNCHANGED <<owner, tries>>
    /\ UNCHANGED <<fd, lnbUsing, file, devFd, lnbOpen, alive, overlapped>>

\* Mutant: the owner keeps its descriptor.
stopByHwKeepsFd(d) ==
    /\ alive /\ phase[d] = "stopOwner"
    /\ ~Locked(target[d])
    /\ target' = [target EXCEPT ![d] = Null]
    /\ Continue(d, "switch")
    /\ UNCHANGED <<tuner, devFd, tries, lnbOpen, alive, overlapped>>

\* owner->stopByHw(), which waits for the owner's lock.
stopByHw(d) ==
    /\ alive /\ phase[d] = "stopOwner"
    /\ ~Locked(target[d])
    /\ devFd' = [devFd EXCEPT ![target[d]] = 0]
    /\ target' = [target EXCEPT ![d] = Null]
    /\ Continue(d, "switch")
    /\ UNCHANGED <<tuner, tries, lnbOpen, alive, overlapped>>

\* From digital to analog and back the node changes, within a kind it stays.  The
\* new node may fail to open.
Reopen(d) ==
    IF d \in Analog \/ owner \in Analog
    THEN OpenNode(Node(d), Closed(fd))
    ELSE UNCHANGED <<fd, file>>

\* The owner is read again; it may have released the tuner.
switch(d) ==
    /\ alive /\ phase[d] = "switch"
    /\ IF owner = Null
       THEN alive' = FALSE /\ UNCHANGED <<tuner, phase>>
       ELSE /\ Reopen(d)
            /\ owner' = d
            /\ Continue(d, "return")
            /\ UNCHANGED <<lnbUsing, alive>>
    /\ UNCHANGED <<devFd, target, tries, lnbOpen, overlapped>>

\* Mutant: tries are not counted.
openForever(d) ==
    /\ alive /\ phase[d] = "open"
    /\ OpenNode(Node(d), file)
    /\ IF fd' # 0
       THEN owner' = d /\ Continue(d, "return")
       ELSE UNCHANGED <<owner, phase>>
    /\ UNCHANGED <<lnbUsing, devFd, target, tries, lnbOpen, alive, overlapped>>

\* A try assigns fd even when it fails.
open(d) ==
    /\ alive /\ phase[d] = "open"
    /\ OpenNode(Node(d), file)
    /\ IF fd' # 0
       THEN owner' = d /\ tries' = [tries EXCEPT ![d] = 0] /\ Continue(d, "return")
       ELSE /\ tries' = [tries EXCEPT ![d] = @ - 1]
            /\ Continue(d, IF tries[d] = 1 THEN "return" ELSE "open")
            /\ UNCHANGED owner
    /\ UNCHANGED <<lnbUsing, devFd, target, lnbOpen, alive, overlapped>>

return(d) ==
    /\ alive /\ phase[d] = "return"
    /\ devFd' = [devFd EXCEPT ![d] = fd]
    /\ Continue(d, "idle")
    /\ UNCHANGED <<tuner, target, tries, lnbOpen, alive, overlapped>>

Acquiring(d) == acquire(d) \/ stopByHw(d) \/ switch(d) \/ open(d) \/ return(d)

-----------------------------------------------------------------------------
(* FrontendDevice::stop, and the LNB.                                      *)

\* Mutant: release forgets the owner only.
releaseKeepsFile(d) ==
    IF devFd[d] # fd \/ fd = 0 THEN UNCHANGED <<fd, owner, file, alive>>
    ELSE /\ owner' = IF owner = d THEN Null ELSE owner
         /\ fd' = IF owner = d THEN 0 ELSE fd
         /\ UNCHANGED <<file, alive>>

\* Nothing happens for another descriptor than the tuner's; without an owner the
\* process crashes.
release(d) ==
    IF devFd[d] # fd \/ fd = 0 THEN UNCHANGED <<fd, owner, file, alive>>
    ELSE IF owner = Null THEN alive' = FALSE /\ UNCHANGED <<fd, owner, file>>
    ELSE IF owner # d THEN UNCHANGED <<fd, owner, file, alive>>
    ELSE fd' = 0 /\ owner' = Null /\ file' = Closed(fd) /\ UNCHANGED alive

stop(d) ==
    /\ Begin /\ ~Locked(d)
    /\ release(d)
    /\ devFd' = [devFd EXCEPT ![d] = 0]
    /\ UNCHANGED <<lnbUsing, phase, target, tries, lnbOpen>>

\* setVoltage, setTone, setSatellitePosition and sendDiseqcMessage.
acquireForLnb ==
    /\ Begin
    /\ IF fd # 0 THEN lnbUsing' = TRUE /\ UNCHANGED <<fd, file>>
       ELSE OpenNode("dtv", file) /\ lnbUsing' = (lnbUsing \/ fd' # 0)
    /\ lnbOpen' = TRUE
    /\ UNCHANGED <<owner, calls, alive>>

releaseFromLnb ==
    /\ Begin
    /\ IF fd # 0 /\ lnbUsing /\ owner = Null
       THEN fd' = 0 /\ file' = Closed(fd) /\ lnbUsing' = FALSE
       ELSE UNCHANGED <<fd, file, lnbUsing>>
    /\ lnbOpen' = FALSE
    /\ UNCHANGED <<owner, calls, alive>>

Next ==
    \/ \E d \in Devices : checkOpen(d) \/ Acquiring(d) \/ stop(d)
    \/ acquireForLnb \/ releaseFromLnb

\* A call that has begun goes on, and a lock that is free again and again lets in
\* who waits for it.
Fairness == \A d \in Devices : WF_vars(Acquiring(d)) /\ SF_vars(stopByHw(d))

Spec == Init /\ [][Next]_vars /\ Fairness

-----------------------------------------------------------------------------

\* Every variable has its type, and a device that tries a node has tries left.
TypeOK ==
    /\ fd \in Descriptors \cup {0} /\ owner \in Devices \cup {Null} /\ lnbUsing \in BOOLEAN
    /\ file \in [Descriptors -> {"closed", "dtv", "atv"}]
    /\ devFd \in [Devices -> Descriptors \cup {0}]
    /\ phase \in [Devices -> {"idle", "acquire", "stopOwner", "switch", "open", "return"}]
    /\ target \in [Devices -> Devices \cup {Null}]
    /\ tries \in [Devices -> 0..MaxTries]
    /\ \A d \in Devices : phase[d] = "open" => tries[d] # 0
    /\ lnbOpen \in BOOLEAN /\ alive \in BOOLEAN /\ overlapped \in BOOLEAN

\* As long as no calls have overlapped, a device that has a descriptor is the owner and
\* the descriptor is the tuner's: no two frontends drive one tuner.
OwnerOnly ==
    ~overlapped => \A d \in Devices : devFd[d] # 0 => owner = d /\ devFd[d] = fd

\* No node is open that the tuner does not know, and the one it knows is open.
NoLeak == \A n \in Descriptors : file[n] # "closed" <=> n = fd

\* A frontend has the node of its type, but for an analog one that takes the tuner over
\* from an LNB.
RightNode == \A d \in Devices : devFd[d] # 0 => file[devFd[d]] = Node(d) \/ (d \in Analog /\ lnbUsing)

\* A tuner nobody owns and no LNB uses is closed.
ClosedWhenUnused == owner = Null /\ ~lnbOpen => fd = 0

\* As long as no calls have overlapped, all descriptors are accounted for, whatever
\* fails to open, and the process does not crash on a missing owner.
DescriptorsAccounted == ~overlapped => alive /\ NoLeak /\ RightNode /\ ClosedWhenUnused

\* A device waits for the lock of one it found as owner, which itself waits for ...
WaitsFor(d, e) == phase[d] = "stopOwner" /\ target[d] = e /\ Locked(e)

\* However calls overlap, devices never wait for each other's locks in a circle: for
\* a set of devices each of which waits for one in the set.
NoLockCycle ==
    \A S \in SUBSET Devices : S # {} => \E d \in S : \A e \in S : ~WaitsFor(d, e)

\* However calls overlap, a device that asks for the tuner gets an answer.
AcquireReturns ==
    \A d \in Devices : phase[d] = "acquire" ~> phase[d] = "idle" \/ ~alive
=============================================================================
