---------------------------- MODULE TunerRegistry ----------------------------
(***************************************************************************)
(* Who has which demux: the demuxes the Tuner lends to clients, the map    *)
(* from frontends to the demuxes they feed, and the thread of a demux that *)
(* reads what a frontend's software playback delivers (aidl/Tuner.cpp, the *)
(* calls of Frontend.cpp and Demux.cpp into it).                           *)
(*                                                                         *)
(* None of this state has a lock, and binder calls of different clients    *)
(* and of frontends overlap: a call that looks a demux up and then acts on *)
(* it takes a step for each, one for every access to what others share.    *)
(* A client makes one call at a time, and so does the user of a frontend.  *)
(* stopFrontendInput joins the thread, so its step leaves none running; a  *)
(* second start without a join in between ends the process                 *)
(* (std::terminate), where the model goes on with the later thread.        *)
(***************************************************************************)
EXTENDS Naturals, FiniteSets

CONSTANTS
    Clients,
    NumDemuxes,      \* NUMDEMUX, 4 in the code
    NumFrontends,    \* mFrontendSize
    None,            \* no demux, no frontend
    MaxMisuses       \* bound: kinds of misuse in one behaviour

Demuxes == 0..(NumDemuxes - 1)
Frontends == 0..(NumFrontends - 1)

ASSUME SizeAssumption == NumDemuxes \in Nat \ {0} /\ NumFrontends \in Nat
ASSUME MaxMisusesAssumption == MaxMisuses \in Nat
ASSUME NoneAssumption == None \notin Demuxes \cup Frontends

VARIABLES
    mFrontendToDemux,
    mInUse,         \* of each demux
    device,         \* its AmDmxDevice is there
    lost,           \* demuxes of which an AM_DMX_Device was overwritten unclosed
    playback,       \* its mDvrPlayback is there
    input,          \* the frontend its input thread was started for
    frontend,       \* "none", "made", or "tuned" once mExistId is its id
    mIsLocked,      \* of each frontend
    pc, choice, feeding,    \* of each client's call: the next step, the demux and, in
                            \* setFrontendDataSource, the frontend
    fpc, found,     \* of each frontend's call: the next step and the demux it looked up
    holds,          \* the demuxes each client has
    source,         \* the frontends the holder of a demux has set as its source
    misuse          \* what callers have done that the code does not cope with

demuxes == <<mInUse, device, lost, playback>>
frontends == <<frontend, mIsLocked, fpc, found>>
calls == <<pc, choice, feeding>>
vars == <<mFrontendToDemux, demuxes, input, frontends, calls, holds, source, misuse>>

OpenSteps == {"test", "service", "mark"}
FeedSteps == {"locked", "join", "start"}
CloseSteps == {"clear", "remove"}
Steps == {"idle", "return"} \cup OpenSteps \cup FeedSteps \cup CloseSteps
FrontendSteps == {"idle", "join", "start", "stop", "unlock", "find", "free", "forget"}
Misuses == {"overlap", "earlyClose", "midClose", "secondSource"}

Init ==
    /\ mFrontendToDemux = [f \in Frontends |-> None]
    /\ mInUse = [d \in Demuxes |-> FALSE] /\ device = [d \in Demuxes |-> FALSE]
    /\ lost = {}
    /\ playback = [d \in Demuxes |-> FALSE]
    /\ input = [d \in Demuxes |-> None]
    /\ frontend = [f \in Frontends |-> "none"]
    /\ mIsLocked = [f \in Frontends |-> FALSE]
    /\ pc = [c \in Clients |-> "idle"] /\ choice = [c \in Clients |-> None]
    /\ feeding = choice
    /\ fpc = [f \in Frontends |-> "idle"] /\ found = [f \in Frontends |-> None]
    /\ holds = [c \in Clients |-> {}]
    /\ source = [d \in Demuxes |-> {}]
    /\ misuse = {}

Held(d) == \E c \in Clients : d \in holds[c]
Mapped(d) == {f \in Frontends : mFrontendToDemux[f] = d}
If(condition, name) == IF condition THEN {name} ELSE {}

Continue(c, p) == pc' = [pc EXCEPT ![c] = p]
Return(c) ==
    /\ Continue(c, "idle")
    /\ choice' = [choice EXCEPT ![c] = None] /\ feeding' = [feeding EXCEPT ![c] = None]

\* The frontend's call goes on at p with the demux it has found.
FrontendAt(f, p, d) == fpc' = [fpc EXCEPT ![f] = p] /\ found' = [found EXCEPT ![f] = d]

\* What is recorded when a client's call begins while another client's is under way,
\* and when a demux is closed while a call of its frontend is under way, or one begins
\* while it closes.
Overlap == If(\E c \in Clients : pc[c] # "idle", "overlap")
ClosedMidCall(d) == If(\E f \in source[d] : fpc[f] # "idle", "midClose")
CalledMidClose(f) ==
    If(\E c \in Clients : pc[c] \in CloseSteps /\ f \in source[choice[c]], "midClose")

Record(m) == misuse' = misuse \cup m /\ Cardinality(misuse') <= MaxMisuses
Begin == Record(Overlap)

-----------------------------------------------------------------------------
(* openDemux and openDemuxById.                                            *)

\* The last free demux, or UNAVAILABLE.
openDemux(c) ==
    /\ pc[c] = "idle" /\ Begin
    /\ \E d \in Demuxes :
        /\ ~mInUse[d] /\ \A e \in Demuxes : e > d => mInUse[e]
        /\ choice' = [choice EXCEPT ![c] = d]
    /\ Continue(c, "test")
    /\ UNCHANGED <<mFrontendToDemux, demuxes, input, frontends, feeding, holds, source>>

openDemuxById(c, d) ==
    /\ pc[c] = "idle" /\ Begin
    /\ choice' = [choice EXCEPT ![c] = d]
    /\ Continue(c, "test")
    /\ UNCHANGED <<mFrontendToDemux, demuxes, input, frontends, feeding, holds, source>>

\* Mutant: a demux in use is opened again.
testInUseNot(c) ==
    /\ pc[c] = "test"
    /\ Continue(c, "service")
    /\ UNCHANGED <<mFrontendToDemux, demuxes, input, frontends, choice, feeding, holds, source,
                   misuse>>

testInUse(c) ==
    /\ pc[c] = "test"
    /\ IF mInUse[choice[c]] THEN Return(c) ELSE Continue(c, "service") /\ UNCHANGED <<choice, feeding>>
    /\ UNCHANGED <<mFrontendToDemux, demuxes, input, frontends, holds, source, misuse>>

\* A new AM_DMX_Device replaces the one the demux has, whose thread goes on.
setTunerService(c) ==
    /\ pc[c] = "service"
    /\ device' = [device EXCEPT ![choice[c]] = TRUE]
    /\ lost' = lost \cup {d \in {choice[c]} : device[d]}
    /\ Continue(c, "mark")
    /\ UNCHANGED <<mFrontendToDemux, mInUse, playback, input, frontends, choice, feeding, holds, source,
                   misuse>>

setInUse(c) ==
    /\ pc[c] = "mark"
    /\ mInUse' = [mInUse EXCEPT ![choice[c]] = TRUE]
    /\ holds' = [holds EXCEPT ![c] = @ \cup {choice[c]}]
    /\ Return(c)
    /\ UNCHANGED <<mFrontendToDemux, device, lost, playback, input, frontends, source, misuse>>

-----------------------------------------------------------------------------
(* The client's calls on a demux.                                          *)

\* The thread ends at once when there is no software playback.
Started(d, f) == input' = [input EXCEPT ![d] = IF playback[d] THEN f ELSE None]
Joined(d) == input' = [input EXCEPT ![d] = None]

\* Demux::setFrontendDataSource enters the demux in the map; the Tuner then asks
\* whether the frontend is locked, and if so has the demux join its input thread and
\* start a new one.
setFrontendDataSource(c, d, f) ==
    /\ pc[c] = "idle" /\ d \in holds[c]
    /\ frontend[f] # "none"
    /\ mFrontendToDemux' = [mFrontendToDemux EXCEPT ![f] = d]
    /\ source' = [source EXCEPT ![d] = @ \cup {f}]
    /\ choice' = [choice EXCEPT ![c] = d] /\ feeding' = [feeding EXCEPT ![c] = f]
    /\ Continue(c, "locked")
    /\ Record(Overlap
         \cup If(mFrontendToDemux[f] \notin {None, d} \/ Mapped(d) \ {f} # {}, "secondSource")
         \cup If(fpc[f] \in {"find", "free", "forget"}, "earlyClose"))
    /\ UNCHANGED <<demuxes, input, frontends, holds>>

isLocked(c) ==
    /\ pc[c] = "locked"
    /\ IF mIsLocked[feeding[c]] THEN Continue(c, "join") /\ UNCHANGED <<choice, feeding>>
       ELSE Return(c)
    /\ UNCHANGED <<mFrontendToDemux, demuxes, input, frontends, holds, source, misuse>>

joinInput(c) ==
    /\ pc[c] = "join" /\ Joined(choice[c]) /\ Continue(c, "start")
    /\ UNCHANGED <<mFrontendToDemux, demuxes, frontends, choice, feeding, holds, source, misuse>>

startInput(c) ==
    /\ pc[c] = "start" /\ Started(choice[c], feeding[c]) /\ Return(c)
    /\ UNCHANGED <<mFrontendToDemux, demuxes, frontends, holds, source, misuse>>

\* Demux::openDvr of a playback Dvr.
openDvr(c, d) ==
    /\ pc[c] = "idle" /\ d \in holds[c] /\ Begin
    /\ playback' = [playback EXCEPT ![d] = TRUE]
    /\ UNCHANGED <<mFrontendToDemux, mInUse, device, lost, input, frontends, calls, holds, source>>

BeginClose(c, d) ==
    /\ pc[c] = "idle" /\ d \in holds[c]
    /\ Record(Overlap \cup ClosedMidCall(d))
    /\ choice' = [choice EXCEPT ![c] = d]
    /\ Continue(c, "clear")
    /\ UNCHANGED <<mFrontendToDemux, demuxes, frontends, feeding, holds, source>>

\* Mutant: the input thread is left running.
closeKeepsInput(c, d) == BeginClose(c, d) /\ UNCHANGED input

\* Demux::close begins with stopFrontendInput.
close(c, d) == BeginClose(c, d) /\ Joined(d)

closeDevice(c) ==
    /\ pc[c] = "clear"
    /\ playback' = [playback EXCEPT ![choice[c]] = FALSE]
    /\ device' = [device EXCEPT ![choice[c]] = FALSE]
    /\ Continue(c, "remove")
    /\ UNCHANGED <<mFrontendToDemux, mInUse, lost, input, frontends, choice, feeding, holds, source,
                   misuse>>

\* The first mapping to the demux is erased, and no other.
Unmapped(d) ==
    [f \in Frontends |->
        IF mFrontendToDemux[f] = d /\ \A g \in Mapped(d) : f <= g THEN None ELSE mFrontendToDemux[f]]

removeDemux(c) ==
    /\ pc[c] = "remove"
    /\ mFrontendToDemux' = Unmapped(choice[c])
    /\ source' = [source EXCEPT ![choice[c]] = {}]
    /\ Continue(c, "return")
    /\ UNCHANGED <<demuxes, input, frontends, choice, feeding, holds, misuse>>

\* Mutant: the demux is not given back.
keepInUse(c) ==
    /\ pc[c] = "return"
    /\ holds' = [holds EXCEPT ![c] = @ \ {choice[c]}]
    /\ Return(c)
    /\ UNCHANGED <<mFrontendToDemux, demuxes, input, frontends, source, misuse>>

\* removeDemux ends with setInUse(false).
giveBack(c) ==
    /\ pc[c] = "return"
    /\ mInUse' = [mInUse EXCEPT ![choice[c]] = FALSE]
    /\ holds' = [holds EXCEPT ![c] = @ \ {choice[c]}]
    /\ Return(c)
    /\ UNCHANGED <<mFrontendToDemux, device, lost, playback, input, frontends, source, misuse>>

Step(c) ==
    \/ testInUse(c) \/ setTunerService(c) \/ setInUse(c)
    \/ isLocked(c) \/ joinInput(c) \/ startInput(c)
    \/ closeDevice(c) \/ removeDemux(c) \/ giveBack(c)

-----------------------------------------------------------------------------
(* Frontends.  The Tuner keeps a Frontend for good once it is made.        *)

openFrontendById(f) ==
    /\ frontend' = [frontend EXCEPT ![f] = IF @ = "none" THEN "made" ELSE @]
    /\ UNCHANGED <<mFrontendToDemux, demuxes, input, mIsLocked, fpc, found, calls, holds, source,
                   misuse>>

Called(f) == frontend[f] # "none" /\ fpc[f] = "idle"

\* The first tune() of a frontend looks up the demux it feeds, if any.
tune(f) ==
    /\ Called(f) /\ Record(CalledMidClose(f))
    /\ IF frontend[f] = "made" /\ mFrontendToDemux[f] # None
       THEN FrontendAt(f, "join", mFrontendToDemux[f]) /\ UNCHANGED frontend
       ELSE frontend' = [frontend EXCEPT ![f] = "tuned"] /\ UNCHANGED <<fpc, found>>
    /\ UNCHANGED <<mFrontendToDemux, demuxes, input, mIsLocked, calls, holds, source>>

\* Then that demux joins its input thread and starts a new one.
tuneJoins(f) ==
    /\ fpc[f] = "join" /\ Joined(found[f]) /\ FrontendAt(f, "start", found[f])
    /\ UNCHANGED <<mFrontendToDemux, demuxes, frontend, mIsLocked, calls, holds, source, misuse>>

tuneStarts(f) ==
    /\ fpc[f] = "start" /\ Started(found[f], f) /\ FrontendAt(f, "idle", None)
    /\ frontend' = [frontend EXCEPT ![f] = "tuned"]
    /\ UNCHANGED <<mFrontendToDemux, demuxes, mIsLocked, calls, holds, source, misuse>>

\* stopTune looks the demux up, ends its input and then forgets the lock.
stopTune(f) ==
    /\ Called(f) /\ Record(CalledMidClose(f))
    /\ FrontendAt(f, IF mFrontendToDemux[f] = None THEN "unlock" ELSE "stop", mFrontendToDemux[f])
    /\ UNCHANGED <<mFrontendToDemux, demuxes, input, frontend, mIsLocked, calls, holds, source>>

stopInput(f) ==
    /\ fpc[f] = "stop" /\ Joined(found[f]) /\ FrontendAt(f, "unlock", None)
    /\ UNCHANGED <<mFrontendToDemux, demuxes, frontend, mIsLocked, calls, holds, source, misuse>>

unlock(f) ==
    /\ fpc[f] = "unlock" /\ FrontendAt(f, "idle", None)
    /\ mIsLocked' = [mIsLocked EXCEPT ![f] = FALSE]
    /\ UNCHANGED <<mFrontendToDemux, demuxes, input, frontend, calls, holds, source, misuse>>

\* The hardware locks or loses the signal (sendEventCallback, sendScanCallBack).
lockChanges(f) ==
    /\ frontend[f] # "none"
    /\ mIsLocked' = [mIsLocked EXCEPT ![f] = ~@]
    /\ UNCHANGED <<mFrontendToDemux, demuxes, input, frontend, fpc, found, calls, holds, source,
                   misuse>>

\* Frontend::close forgets the lock and stops the device; removeFrontend then looks up
\* the demux it feeds, marks it free, and erases the frontend from the map.
closeFrontend(f) ==
    /\ Called(f)
    /\ Record(CalledMidClose(f) \cup If(\E d \in Demuxes : f \in source[d], "earlyClose"))
    /\ mIsLocked' = [mIsLocked EXCEPT ![f] = FALSE]
    /\ FrontendAt(f, "find", None)
    /\ UNCHANGED <<mFrontendToDemux, demuxes, input, frontend, calls, holds, source>>

removeFrontend(f) ==
    /\ fpc[f] = "find"
    /\ FrontendAt(f, IF mFrontendToDemux[f] = None THEN "forget" ELSE "free", mFrontendToDemux[f])
    /\ UNCHANGED <<mFrontendToDemux, demuxes, input, frontend, mIsLocked, calls, holds, source,
                   misuse>>

freeDemux(f) ==
    /\ fpc[f] = "free" /\ FrontendAt(f, "forget", None)
    /\ mInUse' = [mInUse EXCEPT ![found[f]] = FALSE]
    /\ UNCHANGED <<mFrontendToDemux, device, lost, playback, input, frontend, mIsLocked, calls,
                   holds, source, misuse>>

forgetDemux(f) ==
    /\ fpc[f] = "forget" /\ FrontendAt(f, "idle", None)
    /\ mFrontendToDemux' = [mFrontendToDemux EXCEPT ![f] = None]
    /\ UNCHANGED <<demuxes, input, frontend, mIsLocked, calls, holds, source, misuse>>

\* The playback queue cannot be read, or the Dvr was closed: the thread ends.
inputEnds(d) ==
    /\ input[d] # None
    /\ input' = [input EXCEPT ![d] = None]
    /\ UNCHANGED <<mFrontendToDemux, demuxes, frontends, calls, holds, source, misuse>>

-----------------------------------------------------------------------------
DemuxCall(c, d) ==
    \/ openDemuxById(c, d) \/ openDvr(c, d) \/ close(c, d)
    \/ \E f \in Frontends : setFrontendDataSource(c, d, f)

FrontendCall(f) ==
    \/ openFrontendById(f) \/ lockChanges(f)
    \/ tune(f) \/ tuneJoins(f) \/ tuneStarts(f)
    \/ stopTune(f) \/ stopInput(f) \/ unlock(f)
    \/ closeFrontend(f) \/ removeFrontend(f) \/ freeDemux(f) \/ forgetDemux(f)

Next ==
    \/ \E c \in Clients : openDemux(c) \/ Step(c) \/ \E d \in Demuxes : DemuxCall(c, d)
    \/ \E f \in Frontends : FrontendCall(f)
    \/ \E d \in Demuxes : inputEnds(d)

Spec == Init /\ [][Next]_vars

-----------------------------------------------------------------------------

\* Every variable has its type, and a client that is in no call is about no demux.
TypeOK ==
    /\ mFrontendToDemux \in [Frontends -> Demuxes \cup {None}]
    /\ mInUse \in [Demuxes -> BOOLEAN] /\ device \in [Demuxes -> BOOLEAN]
    /\ lost \in SUBSET Demuxes /\ playback \in [Demuxes -> BOOLEAN]
    /\ input \in [Demuxes -> Frontends \cup {None}]
    /\ frontend \in [Frontends -> {"none", "made", "tuned"}]
    /\ mIsLocked \in [Frontends -> BOOLEAN]
    /\ pc \in [Clients -> Steps] /\ choice \in [Clients -> Demuxes \cup {None}]
    /\ feeding \in [Clients -> Frontends \cup {None}]
    /\ \A c \in Clients : /\ pc[c] = "idle" <=> choice[c] = None
                          /\ pc[c] \in FeedSteps <=> feeding[c] # None
    /\ fpc \in [Frontends -> FrontendSteps] /\ found \in [Frontends -> Demuxes \cup {None}]
    /\ \A f \in Frontends : fpc[f] \in {"join", "start", "stop", "free"} <=> found[f] # None
    /\ holds \in [Clients -> SUBSET Demuxes]
    /\ source \in [Demuxes -> SUBSET Frontends]
    /\ misuse \in SUBSET Misuses

\* As long as the calls of clients do not overlap, no frontend is closed before the demux
\* it feeds, none feeds two demuxes or shares one, and no demux is closed during a call of
\* its frontend, a demux has one client at most, is marked in use while it has one, and
\* no hardware demux is replaced while it runs.  Calls of frontends overlap all others.
Leased ==
    misuse = {} =>
        /\ \A c1, c2 \in Clients : c1 # c2 => holds[c1] \cap holds[c2] = {}
        /\ \A d \in Demuxes : Held(d) => mInUse[d]
        /\ lost = {}

\* Whatever callers do, a demux that is marked in use has a client that will close it.
ReturnsToPool == \A d \in Demuxes : mInUse[d] => Held(d)

\* What a frontend has to do with a demux its client has asked for.  However calls overlap,
\* and whenever demuxes and frontends are closed, the map leads from a frontend only to a
\* demux whose present client has set it as its source, unless one feeds two demuxes or
\* shares one.  But a call acts on what it has looked up before: that it starts, stops or
\* frees, and that a demux reads from, only what the present client has set, needs calls of
\* clients that do not overlap either, and no demux closed during a call of its frontend.
\* A frontend may still be closed before its demux.
FedByItsSource ==
    /\ "secondSource" \notin misuse =>
        \A f \in Frontends : mFrontendToDemux[f] \in Demuxes => f \in source[mFrontendToDemux[f]]
    /\ misuse \subseteq {"earlyClose"} =>
        /\ \A f \in Frontends : found[f] \in Demuxes => f \in source[found[f]]
        /\ \A d \in Demuxes : input[d] \in Frontends => input[d] \in source[d]
=============================================================================
