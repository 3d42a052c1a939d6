--------------------------- MODULE FrontendDevice ---------------------------
(***************************************************************************)
(* The handshake of a digital frontend: the binder call that tunes, scans  *)
(* or stops, the thread "DroidFeTask" that waits for the signal and calls  *)
(* back, and another frontend that takes the hardware tuner away           *)
(* (aidl/frontenddevices/FrontendDevice.cpp).                              *)
(*                                                                         *)
(* The two agree through mThreadState, the flag mRequestTuningStop that    *)
(* the caller raises and then spins on, and a semaphore the thread sleeps  *)
(* on; no lock is held across two steps.  The calls on one frontend come   *)
(* one after another.  A request (req counts them) is one pass of the      *)
(* caller through requestTuneStop.                                         *)
(***************************************************************************)
EXTENDS Naturals

CONSTANTS
    MaxRequests,    \* bound: calls to requestTuneStop
    Ops,            \* the calls the client makes besides stop
    Contended,      \* may another frontend take the tuner
    Restart         \* may the client tune again without a stop

ASSUME MaxRequestsAssumption == MaxRequests \in Nat
ASSUME OpsAssumption == Ops \subseteq {"tune", "scan", "blind"}
ASSUME FlagsAssumption == Contended \in BOOLEAN /\ Restart \in BOOLEAN

VARIABLES
    mThreadState, mRequestTuningStop, threadSemaphore,
    mScanType,          \* "BLIND" or "OTHER"
    devFd,              \* mDev.devFd # -1
    pc,                 \* of the thread, and its variables
    state, stop, fd, sig,
    islocked,           \* used by the thread only
    api, op,            \* progress and kind of the client's call
    reclaim, seen,      \* progress of stopByHw and the state it read
    owner,              \* HwFeState has this device as owner of an open tuner
    tuned,              \* request the hardware was last tuned for, or 0
    event,              \* request the event waiting in the driver is about, or 0
    req,                \* requests so far
    kind,               \* the call that made the current one
    threadReq, sigReq,  \* request `state` was read in, and that `sig` is about
    lastEvent           \* last event of the current request

control == <<mThreadState, mRequestTuningStop, threadSemaphore, mScanType>>
thread == <<pc, state, stop, fd, sig, islocked, threadReq, sigReq, lastEvent>>
hardware == <<devFd, owner, tuned, event>>
client == <<api, op, req, kind>>
other == <<reclaim, seen>>
vars == <<control, thread, hardware, client, other>>

Active == {"TUNE_START", "SCAN_START", "TUNE_IDLE"}
Asleep == {"INITIAL_IDLE", "STOP"}
Foreign == MaxRequests + 1      \* an event left by the frontend that had the tuner

Init ==
    /\ mThreadState = "INITIAL_IDLE" /\ mRequestTuningStop = FALSE
    /\ threadSemaphore = 1 /\ mScanType = "OTHER"
    /\ devFd = FALSE /\ owner = FALSE /\ tuned = 0 /\ event = 0
    /\ pc = "top" /\ state = "INITIAL_IDLE" /\ stop = FALSE /\ fd = FALSE
    /\ sig = "WAIT" /\ islocked = FALSE
    /\ api = "idle" /\ op = "stop" /\ req = 0 /\ kind = "stop"
    /\ reclaim = "idle" /\ seen = "INITIAL_IDLE"
    /\ threadReq = 0 /\ sigReq = 0 /\ lastEvent = "none"

-----------------------------------------------------------------------------
(* The client's call.                                                      *)

Goto(a) == api' = a /\ UNCHANGED <<op, req, kind>>

\* Mutant: the tuner is not given back, only forgotten.
ForgetDevice ==
    /\ devFd' = FALSE
    /\ UNCHANGED <<owner, tuned, event>>

\* HwFeState::release, which does nothing for a device that is not open.
ReleaseDevice ==
    /\ devFd' = FALSE
    /\ IF devFd THEN owner' = FALSE /\ tuned' = 0 /\ event' = 0
                ELSE UNCHANGED <<owner, tuned, event>>

\* checkOpen: the tuner is open already, is acquired, or cannot be.  A tuner that
\* was another frontend's may still have that one's event.
OpenDevice ==
    \/ /\ devFd
       /\ UNCHANGED hardware
    \/ /\ ~devFd
       /\ devFd' = TRUE /\ owner' = TRUE
       /\ IF owner THEN UNCHANGED <<tuned, event>>
          ELSE /\ tuned' = 0
               /\ event' \in IF Contended THEN {0, Foreign} ELSE {0}
OpenFails == ~devFd /\ UNCHANGED hardware

MayStart(o) == o \in Ops /\ (Restart \/ ~devFd)

tune ==
    /\ api = "idle" /\ req < MaxRequests /\ MayStart("tune")
    /\ api' = "request" /\ op' = "tune"
    /\ UNCHANGED <<control, thread, hardware, other, req, kind>>

\* scan opens the device first.  Its blind scan may fail to read the frontend's
\* frequencies, when mScanType is set already.
scan(o) ==
    /\ o # "tune"
    /\ api = "idle" /\ req < MaxRequests /\ MayStart(o)
    /\ \/ OpenFails /\ UNCHANGED <<mScanType, client>>
       \/ /\ OpenDevice
          /\ mScanType' = IF o = "blind" THEN "BLIND" ELSE "OTHER"
          /\ \/ api' = "request" /\ op' = o /\ UNCHANGED <<req, kind>>
             \/ o = "blind" /\ UNCHANGED client
    /\ UNCHANGED <<mThreadState, mRequestTuningStop, threadSemaphore, thread, other>>

stopCall ==
    /\ api = "idle" /\ req < MaxRequests
    /\ api' = "request" /\ op' = "stop"
    /\ UNCHANGED <<control, thread, hardware, other, req, kind>>

\* requestTuneStop: raise the flag, wait for the thread to stop, drop the flag.
raiseStop ==
    /\ api = "request"
    /\ mRequestTuningStop' = TRUE
    /\ Goto("spin")
    /\ UNCHANGED <<mThreadState, threadSemaphore, mScanType, thread, hardware, other>>

seeStopped ==
    /\ api = "spin" /\ mThreadState \in Asleep
    /\ Goto("seen")
    /\ UNCHANGED <<control, thread, hardware, other>>

dropStop ==
    /\ api = "seen"
    /\ mRequestTuningStop' = FALSE
    /\ req' = req + 1 /\ kind' = op /\ lastEvent' = "none"
    /\ api' = IF op = "stop" THEN "stopping" ELSE "starting"
    /\ UNCHANGED <<mThreadState, threadSemaphore, mScanType, op, hardware, other, pc, state,
                   stop, fd, sig, islocked, threadReq, sigReq>>

resetScanType ==
    /\ api = "stopping"
    /\ mScanType' = "OTHER"
    /\ Goto("releasing")
    /\ UNCHANGED <<mThreadState, mRequestTuningStop, threadSemaphore, thread, hardware, other>>

releaseHw ==
    /\ api = "releasing"
    /\ ReleaseDevice
    /\ Goto("idle")
    /\ UNCHANGED <<control, thread, other>>

setStart ==
    /\ api = "starting"
    /\ mThreadState' = IF op = "tune" THEN "TUNE_START" ELSE "SCAN_START"
    /\ Goto("open")
    /\ UNCHANGED <<mRequestTuningStop, threadSemaphore, mScanType, thread, hardware, other>>

\* Settings the device does not support, or a tuner it cannot have, end the call.
openForTune ==
    /\ api = "open"
    /\ \/ UNCHANGED hardware /\ Goto("post")
       \/ OpenDevice /\ Goto("ioctl")
    /\ UNCHANGED <<control, thread, other>>

\* Mutant: a call that fails leaves without waking the thread.
setPropertyNoPost ==
    /\ api = "ioctl"
    /\ \/ UNCHANGED hardware /\ Goto("idle")
       \/ /\ devFd /\ tuned' = req /\ event' = 0
          /\ UNCHANGED <<devFd, owner>>
          /\ Goto("post")
    /\ UNCHANGED <<control, thread, other>>

\* Mutant: so does one that succeeds.
setPropertyNeverPosts ==
    /\ api = "ioctl" /\ devFd
    /\ tuned' = req /\ event' = 0
    /\ UNCHANGED <<devFd, owner>>
    /\ Goto("idle")
    /\ UNCHANGED <<control, thread, other>>

\* FE_SET_PROPERTY, where the driver drops its old events.  A blind scan that fails
\* to start posts once more.
setProperty ==
    /\ api = "ioctl"
    /\ \/ /\ UNCHANGED hardware
          /\ threadSemaphore' = threadSemaphore + (IF op = "blind" THEN 1 ELSE 0)
       \/ /\ devFd /\ tuned' = req /\ event' = 0
          /\ UNCHANGED <<devFd, owner, threadSemaphore>>
    /\ Goto("post")
    /\ UNCHANGED <<mThreadState, mRequestTuningStop, mScanType, thread, other>>

post ==
    /\ api = "post"
    /\ threadSemaphore' = threadSemaphore + 1
    /\ Goto("idle")
    /\ UNCHANGED <<mThreadState, mRequestTuningStop, mScanType, thread, hardware, other>>

Caller ==
    \/ raiseStop \/ seeStopped \/ dropStop \/ resetScanType \/ releaseHw
    \/ setStart \/ openForTune \/ setProperty \/ post

-----------------------------------------------------------------------------
(* threadLoop.  Each step reads or writes one shared variable.             *)

thread_history == UNCHANGED <<islocked, threadReq, sigReq, lastEvent>>
thread_else == UNCHANGED <<control, hardware, client, other>>

\* A state other than the three active ones leads to sem_wait.
readState ==
    /\ pc = "top"
    /\ state' = mThreadState /\ threadReq' = req
    /\ sig' = "WAIT" /\ sigReq' = 0 /\ stop' = FALSE /\ fd' = FALSE
    /\ pc' = IF mThreadState \in Active THEN "begin" ELSE "wait"
    /\ UNCHANGED <<islocked, lastEvent>> /\ thread_else

semWait ==
    /\ pc = "wait" /\ threadSemaphore > 0
    /\ threadSemaphore' = threadSemaphore - 1
    /\ pc' = "top"
    /\ UNCHANGED <<mThreadState, mRequestTuningStop, mScanType, state, stop, fd, sig>>
    /\ UNCHANGED <<hardware, client, other>> /\ thread_history

\* newState = getThreadState(), then mRequestTuningStop: at three places.
AfterState(p) == IF p = "begin" THEN "beginFlag" ELSE IF p = "check" THEN "checkFlag"
                 ELSE "finalFlag"
readNewState ==
    /\ pc \in {"begin", "check", "final"}
    /\ stop' = (stop \/ mThreadState = "STOP")
    /\ pc' = AfterState(pc)
    /\ UNCHANGED <<state, fd, sig>> /\ thread_history /\ thread_else

readFlag ==
    /\ pc \in {"beginFlag", "checkFlag", "finalFlag"}
    /\ stop' = (stop \/ mRequestTuningStop)
    /\ pc' = CASE pc = "beginFlag" -> "branch"
               [] pc = "checkFlag" -> IF stop' THEN "final" ELSE "poll"
               [] pc = "finalFlag" -> IF sig # "WAIT" /\ ~stop' THEN "report" ELSE "late"
    /\ UNCHANGED <<state, fd, sig>> /\ thread_history /\ thread_else

\* fe_timeout has passed since the poll loop began.
loopTimesOut ==
    /\ pc = "checkFlag"
    /\ stop' = (stop \/ mRequestTuningStop)
    /\ pc' = "final"
    /\ UNCHANGED <<state, fd, sig>> /\ thread_history /\ thread_else

branch ==
    /\ pc = "branch"
    /\ IF mScanType = "BLIND"
       THEN pc' = (IF stop THEN "blindEnd" ELSE "blind") /\ UNCHANGED islocked
       ELSE pc' = "fd" /\ islocked' = (islocked /\ state = "TUNE_IDLE")
    /\ UNCHANGED <<state, stop, fd, sig, threadReq, sigReq, lastEvent>> /\ thread_else

readFd ==
    /\ pc = "fd"
    /\ fd' = devFd
    /\ pc' = IF stop THEN "final" ELSE "poll"
    /\ UNCHANGED <<state, stop, sig>> /\ thread_history /\ thread_else

\* With a descriptor poll is ready when an event waits, and may be for others that
\* tell nothing of the signal.  If not, an idle thread has polled enough.
poll ==
    /\ pc = "poll"
    /\ \/ fd /\ pc' = "getEvent" /\ UNCHANGED stop
       \/ /\ ~(fd /\ event # 0)
          /\ stop' = (state = "TUNE_IDLE" \/ mRequestTuningStop)
          /\ pc' = "check"
    /\ UNCHANGED <<state, fd, sig>> /\ thread_history /\ thread_else

getsignalStatus ==
    /\ pc = "getEvent"
    /\ IF devFd /\ event # 0
       THEN /\ sig' \in {"LOCKED", "TIMEOUT"} /\ sigReq' = event /\ event' = 0
            /\ pc' = "final"
       ELSE pc' = "check" /\ UNCHANGED <<sig, sigReq, event>>
    /\ UNCHANGED <<state, stop, fd, islocked, threadReq, lastEvent>>
    /\ UNCHANGED <<control, devFd, owner, tuned, client, other>>

-----------------------------------------------------------------------------
(* Reporting.  The step that enters a callback is the event the client     *)
(* sees; the callback returns in a later one.                              *)

locked == sig = "LOCKED"

\* Mutant: the scan is over before its result is reported.
reportScanLate ==
    /\ pc = "report" /\ state = "SCAN_START"
    /\ islocked' = locked
    /\ mThreadState' = "STOP"
    /\ lastEvent' = "SCANNED"
    /\ pc' = "callback"
    /\ UNCHANGED <<state, stop, fd, sig, threadReq, sigReq, mRequestTuningStop,
                   threadSemaphore, mScanType, hardware, client, other>>

reportScan ==
    /\ pc = "report" /\ state = "SCAN_START"
    /\ islocked' = locked
    /\ lastEvent' = "SCANNED"
    /\ pc' = "scanCallback"
    /\ UNCHANGED <<state, stop, fd, sig, threadReq, sigReq>> /\ thread_else

\* Mutant: the lock that was reported is not remembered.
reportTuneForgets ==
    /\ pc = "report" /\ state = "TUNE_START"
    /\ mThreadState' = "TUNE_IDLE"
    /\ pc' = "tuneEvent"
    /\ UNCHANGED <<state, stop, fd, sig, threadReq, sigReq, lastEvent, islocked,
                   mRequestTuningStop, threadSemaphore, mScanType, hardware, client, other>>

\* The state is written first; the event follows.
reportTune ==
    /\ pc = "report" /\ state = "TUNE_START"
    /\ islocked' = locked
    /\ mThreadState' = "TUNE_IDLE"
    /\ pc' = "tuneEvent"
    /\ UNCHANGED <<state, stop, fd, sig, threadReq, sigReq, lastEvent,
                   mRequestTuningStop, threadSemaphore, mScanType, hardware, client, other>>

sendTuneEvent ==
    /\ pc = "tuneEvent"
    /\ lastEvent' = IF locked THEN "LOCKED" ELSE "NO_SIGNAL"
    /\ pc' = "callback"
    /\ UNCHANGED <<state, stop, fd, sig, islocked, threadReq, sigReq>> /\ thread_else

\* In the idle state only a change is reported.
reportChange ==
    /\ pc = "report" /\ state = "TUNE_IDLE"
    /\ islocked' = locked
    /\ IF locked = islocked
       THEN pc' = "late" /\ UNCHANGED lastEvent
       ELSE /\ lastEvent' = IF locked THEN "LOCKED" ELSE "LOST_LOCK"
            /\ pc' = "callback"
    /\ UNCHANGED <<state, stop, fd, sig, threadReq, sigReq>> /\ thread_else

\* The callback returns; a scan is over now.
callbackReturns ==
    /\ pc \in {"callback", "scanCallback"}
    /\ mThreadState' = IF pc = "scanCallback" THEN "STOP" ELSE mThreadState
    /\ pc' = "late"
    /\ UNCHANGED <<state, stop, fd, sig, mRequestTuningStop, threadSemaphore, mScanType>>
    /\ UNCHANGED <<hardware, client, other>> /\ thread_history

\* Mutant: the stop that was requested meanwhile is left to the next pass.
lateFlagIgnored ==
    /\ pc = "late"
    /\ pc' = "top"
    /\ UNCHANGED <<state, stop, fd, sig>> /\ thread_history /\ thread_else

lateFlag ==
    /\ pc = "late"
    /\ pc' = IF mRequestTuningStop THEN "lateStop" ELSE "top"
    /\ UNCHANGED <<state, stop, fd, sig>> /\ thread_history /\ thread_else

\* The pass ends because a stop was requested, or the blind scan is over.
writeStop ==
    /\ pc \in {"lateStop", "blindEnd"}
    /\ mThreadState' = "STOP"
    /\ pc' = "top"
    /\ UNCHANGED <<state, stop, fd, sig, mRequestTuningStop, threadSemaphore, mScanType>>
    /\ UNCHANGED <<hardware, client, other>> /\ thread_history

\* The blind scan looks only at the flag, once for each event.
blindFlag ==
    /\ pc = "blind"
    /\ stop' = mRequestTuningStop
    /\ pc' = "blindEvent"
    /\ UNCHANGED <<state, fd, sig>> /\ thread_history /\ thread_else

\* Progress, a result, or nothing within 200 ms is reported; other events are not.
blindEvent ==
    /\ pc = "blindEvent"
    /\ \/ lastEvent' = "SCANNED" /\ pc' = "blindCallback" /\ UNCHANGED stop
       \/ lastEvent' = "SCANNED" /\ pc' = "blindCallback" /\ stop' = TRUE
       \/ /\ pc' = IF stop THEN "blindEnd" ELSE "blind"
          /\ UNCHANGED <<lastEvent, stop>>
    /\ UNCHANGED <<state, fd, sig, islocked, threadReq, sigReq>> /\ thread_else

blindCallbackReturns ==
    /\ pc = "blindCallback"
    /\ pc' = IF stop THEN "blindEnd" ELSE "blind"
    /\ UNCHANGED <<state, stop, fd, sig>> /\ thread_history /\ thread_else

threadLoop ==
    \/ readState \/ semWait \/ readNewState \/ readFlag \/ loopTimesOut \/ branch \/ readFd
    \/ poll \/ getsignalStatus
    \/ reportScan \/ reportTune \/ sendTuneEvent \/ reportChange \/ callbackReturns
    \/ lateFlag \/ writeStop
    \/ blindFlag \/ blindEvent \/ blindCallbackReturns

-----------------------------------------------------------------------------
(* The hardware, and stopByHw called by another frontend that acquires it. *)

\* The driver has an event about the signal of what it was tuned to.
Signal ==
    /\ owner /\ tuned # 0 /\ event = 0
    /\ event' = tuned
    /\ UNCHANGED <<control, thread, devFd, owner, tuned, client, other>>

\* mThreadState is read and written without mThreadStatLock.
readByHw ==
    /\ Contended /\ owner /\ reclaim = "idle"
    /\ seen' = mThreadState /\ reclaim' = "write"
    /\ UNCHANGED <<control, thread, hardware, client>>

stopByHw ==
    /\ reclaim = "write"
    /\ mThreadState' = IF seen \in Active THEN "STOP" ELSE mThreadState
    /\ reclaim' = "close"
    /\ UNCHANGED <<mRequestTuningStop, threadSemaphore, mScanType, thread, hardware, client,
                   seen>>

closeByHw ==
    /\ reclaim = "close"
    /\ devFd' = FALSE /\ owner' = FALSE /\ tuned' = 0 /\ event' = 0
    /\ reclaim' = "idle" /\ seen' = "INITIAL_IDLE"
    /\ UNCHANGED <<control, thread, client>>

Call == tune \/ stopCall \/ \E o \in Ops : scan(o)

Next == Call \/ Caller \/ threadLoop \/ Signal \/ readByHw \/ stopByHw \/ closeByHw

\* A call that has begun and the thread are scheduled; callbacks return; the clock of
\* the poll loop runs; a frontend that was tuned reports lock or timeout.  The client
\* need not call.
Fairness ==
    WF_vars(Caller) /\ WF_vars(threadLoop) /\ SF_vars(loopTimesOut) /\ WF_vars(Signal)
Spec == Init /\ [][Next]_vars /\ Fairness

-----------------------------------------------------------------------------

ThreadPlaces ==
    {"top", "wait", "begin", "beginFlag", "branch", "fd", "poll", "getEvent", "check",
     "checkFlag", "final", "finalFlag", "report", "tuneEvent", "callback", "scanCallback",
     "late", "lateStop", "blind", "blindEvent", "blindCallback", "blindEnd"}
CallPlaces ==
    {"idle", "request", "spin", "seen", "stopping", "releasing", "starting", "open", "ioctl",
     "post"}

ControlTypes ==
    /\ mThreadState \in Active \cup Asleep /\ mRequestTuningStop \in BOOLEAN
    /\ threadSemaphore \in Nat /\ mScanType \in {"BLIND", "OTHER"}
ThreadTypes ==
    /\ pc \in ThreadPlaces
    /\ state \in Active \cup Asleep /\ stop \in BOOLEAN /\ fd \in BOOLEAN
    /\ sig \in {"WAIT", "LOCKED", "TIMEOUT"} /\ islocked \in BOOLEAN
    /\ threadReq \in Nat /\ sigReq \in Nat
    /\ lastEvent \in {"none", "LOCKED", "NO_SIGNAL", "LOST_LOCK", "SCANNED"}
HardwareTypes ==
    /\ devFd \in BOOLEAN /\ owner \in BOOLEAN
    /\ tuned \in Nat /\ event \in Nat
ClientTypes ==
    /\ req \in Nat /\ api \in CallPlaces
    /\ op \in {"tune", "scan", "blind", "stop"} /\ kind \in {"tune", "scan", "blind", "stop"}
    /\ reclaim \in {"idle", "write", "close"} /\ seen \in Active \cup Asleep

\* Every variable has its type.
TypeOK == ControlTypes /\ ThreadTypes /\ HardwareTypes /\ ClientTypes

\* The thread sleeps on the semaphore while there is work only until the call that
\* made the work posts, on each of its ways out: whoever else writes the state.
NoMissedWakeup ==
    pc = "wait" /\ threadSemaphore = 0 /\ mThreadState \notin Asleep
        => api \in {"open", "ioctl", "post"}

\* The thread reports only what it learned for the current request: once stop
\* returns, or the next request begins, no event of the old one follows.  Only a
\* frontend whose tuner was taken away can break this.
NoStaleEvent ==
    ~Contended =>
        (pc \in {"report", "tuneEvent", "callback", "scanCallback", "blindCallback"}
            => threadReq = req)

\* The frontend implements the events the client was promised: once a call has stopped
\* the thread no callback of the old request is under way, a tune is answered once and
\* then lost locks and locks alternate, and a stopped frontend is silent.
Contract == INSTANCE FrontendEvents WITH
                request <- req, told <- lastEvent,
                calling <- pc \in {"callback", "scanCallback", "blindCallback"}
ContractSpec == Contract!Spec

\* A tune is answered from the hardware as tuned for it, though the thread may run
\* before the new parameters are set.
AnswersOwnTuning ==
    pc = "callback" => sigReq = threadReq

\* requestTuneStop ends: the spinning caller is always let go.
StopAcknowledged == api = "spin" ~> api = "seen"

\* A tune that succeeded is answered unless the client makes another request.
TuneAnswered ==
    \A n \in 1..MaxRequests :
        req = n /\ op = "tune" /\ tuned = n ~> req # n \/ lastEvent # "none"
=============================================================================
