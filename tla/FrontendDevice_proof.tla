------------------------ MODULE FrontendDevice_proof ------------------------
(***************************************************************************)
(* Proofs about FrontendDevice, for every set of calls and every number of *)
(* requests.                                                               *)
(***************************************************************************)
EXTENDS FrontendDevice, TLAPS

\* A group of variables that a step leaves alone keeps its types.
LEMMA TypesKept ==
    ASSUME TypeOK
    PROVE  /\ UNCHANGED control => ControlTypes'
           /\ UNCHANGED thread => ThreadTypes'
           /\ UNCHANGED hardware => HardwareTypes'
           /\ UNCHANGED client /\ UNCHANGED other => ClientTypes'
<1>1. UNCHANGED control => ControlTypes'
  BY DEF TypeOK, control, ControlTypes, Active, Asleep
<1>2. UNCHANGED thread => ThreadTypes'
  BY DEF TypeOK, thread, ThreadTypes, Active, Asleep
<1>3. UNCHANGED hardware => HardwareTypes'
  BY DEF TypeOK, hardware, HardwareTypes
<1>4. UNCHANGED client /\ UNCHANGED other => ClientTypes'
  BY DEF TypeOK, client, other, ClientTypes, Active, Asleep
<1> QED BY <1>1, <1>2, <1>3, <1>4

\* Opening the device keeps the types.
LEMMA OpenTypes ==
    ASSUME TypeOK, OpenDevice
    PROVE  HardwareTypes'
<1>1. Foreign \in Nat
  BY MaxRequestsAssumption DEF Foreign
<1>2. tuned \in Nat /\ event \in Nat /\ devFd \in BOOLEAN /\ owner \in BOOLEAN
  BY DEF TypeOK, HardwareTypes
<1>3. tuned' \in Nat /\ event' \in Nat
  BY <1>1, <1>2 DEF OpenDevice, hardware
<1>4. devFd' \in BOOLEAN /\ owner' \in BOOLEAN
  BY <1>2 DEF OpenDevice, hardware
<1> QED BY <1>3, <1>4 DEF HardwareTypes

\* The client's calls keep the types.
LEMMA CallTypes ==
    ASSUME TypeOK, tune \/ stopCall \/ (\E o \in Ops : scan(o)) \/ Caller
    PROVE  TypeOK'
<1> USE DEF Goto
<1>1. CASE tune \/ stopCall
  <2>1. UNCHANGED control /\ UNCHANGED thread /\ UNCHANGED hardware
    BY <1>1 DEF tune, stopCall
  <2>2. ClientTypes'
    BY <1>1 DEF tune, stopCall, other, TypeOK, ClientTypes, CallPlaces, Active, Asleep
  <2> QED BY <2>1, <2>2, TypesKept DEF TypeOK
<1>2. ASSUME NEW o \in Ops, scan(o)
      PROVE  TypeOK'
  <2>1. UNCHANGED thread /\ UNCHANGED other
    BY <1>2 DEF scan
  <2>2. ControlTypes'
    BY <1>2 DEF scan, OpenFails, TypeOK, ControlTypes
  <2>3. HardwareTypes'
    BY <1>2, TypesKept, OpenTypes DEF scan, OpenFails
  <2>4. ClientTypes'
    BY <1>2, OpsAssumption
       DEF scan, client, other, TypeOK, ClientTypes, CallPlaces, Active, Asleep
  <2> QED BY <2>1, <2>2, <2>3, <2>4, TypesKept DEF TypeOK
<1>3. CASE raiseStop \/ seeStopped \/ dropStop
  <2>1. UNCHANGED hardware /\ UNCHANGED other
    BY <1>3 DEF raiseStop, seeStopped, dropStop
  <2>2. ControlTypes'
    BY <1>3 DEF raiseStop, seeStopped, dropStop, control, TypeOK, ControlTypes
  <2>3. ThreadTypes'
    BY <1>3, TypesKept DEF raiseStop, seeStopped, dropStop, TypeOK, ThreadTypes
  <2>4. ClientTypes'
    BY <1>3 DEF raiseStop, seeStopped, dropStop, other, TypeOK, ClientTypes, CallPlaces
  <2> QED BY <2>1, <2>2, <2>3, <2>4, TypesKept DEF TypeOK
<1>4. CASE resetScanType \/ releaseHw
  <2>1. UNCHANGED thread /\ UNCHANGED other
    BY <1>4 DEF resetScanType, releaseHw
  <2>2. ControlTypes'
    BY <1>4, TypesKept DEF resetScanType, releaseHw, TypeOK, ControlTypes
  <2>3. HardwareTypes'
    <3>1. CASE resetScanType
      BY <3>1, TypesKept DEF resetScanType
    <3>2. CASE releaseHw
      <4>1. devFd' = FALSE
        BY <3>2 DEF releaseHw, ReleaseDevice
      <4>2. CASE devFd
        <5>1. owner' = FALSE /\ tuned' = 0 /\ event' = 0
          BY <3>2, <4>2 DEF releaseHw, ReleaseDevice
        <5> QED BY <4>1, <5>1 DEF HardwareTypes
      <4>3. CASE ~devFd
        <5>1. UNCHANGED <<owner, tuned, event>>
          BY <3>2, <4>3 DEF releaseHw, ReleaseDevice
        <5> QED BY <4>1, <5>1 DEF TypeOK, HardwareTypes
      <4> QED BY <4>2, <4>3
    <3> QED BY <1>4, <3>1, <3>2
  <2>4. ClientTypes'
    BY <1>4 DEF resetScanType, releaseHw, other, TypeOK, ClientTypes, CallPlaces
  <2> QED BY <2>1, <2>2, <2>3, <2>4, TypesKept DEF TypeOK
<1>5. CASE setStart \/ post
  <2>1. UNCHANGED thread /\ UNCHANGED other /\ UNCHANGED hardware
    BY <1>5 DEF setStart, post
  <2>2. ControlTypes'
    BY <1>5 DEF setStart, post, TypeOK, ControlTypes, Active
  <2>3. ClientTypes'
    BY <1>5 DEF setStart, post, other, TypeOK, ClientTypes, CallPlaces
  <2> QED BY <2>1, <2>2, <2>3, TypesKept DEF TypeOK
<1>6. CASE openForTune
  <2>1. UNCHANGED control /\ UNCHANGED thread /\ UNCHANGED other
    BY <1>6 DEF openForTune
  <2>2. HardwareTypes'
    BY <1>6, TypesKept, OpenTypes DEF openForTune
  <2>3. ClientTypes'
    BY <1>6 DEF openForTune, other, TypeOK, ClientTypes, CallPlaces
  <2> QED BY <2>1, <2>2, <2>3, TypesKept DEF TypeOK
<1>7. CASE setProperty
  <2>1. UNCHANGED thread /\ UNCHANGED other
    BY <1>7 DEF setProperty
  <2>2. ControlTypes'
    BY <1>7 DEF setProperty, TypeOK, ControlTypes
  <2>3. HardwareTypes'
    <3>1. req \in Nat
      BY DEF TypeOK, ClientTypes
    <3> QED BY <1>7, <3>1 DEF setProperty, hardware, TypeOK, HardwareTypes
  <2>4. ClientTypes'
    BY <1>7 DEF setProperty, other, TypeOK, ClientTypes, CallPlaces
  <2> QED BY <2>1, <2>2, <2>3, <2>4, TypesKept DEF TypeOK
<1> QED BY <1>1, <1>2, <1>3, <1>4, <1>5, <1>6, <1>7 DEF Caller

\* So do the steps of the thread.
LEMMA ThreadStepTypes ==
    ASSUME TypeOK, threadLoop
    PROVE  TypeOK'
<1>1. ClientTypes'
  <2>1. UNCHANGED client /\ UNCHANGED other
    BY DEF threadLoop, thread_else, readState, semWait, readNewState, readFlag, loopTimesOut,
           branch, readFd, poll, getsignalStatus, reportScan, reportTune, sendTuneEvent,
           reportChange, callbackReturns, lateFlag, writeStop, blindFlag, blindEvent,
           blindCallbackReturns
  <2> QED BY <2>1, TypesKept
<1>2. HardwareTypes'
  <2>1. CASE getsignalStatus
    BY <2>1 DEF getsignalStatus, TypeOK, HardwareTypes
  <2>2. CASE ~getsignalStatus
    <3>1. UNCHANGED hardware
      BY <2>2 DEF threadLoop, thread_else, readState, semWait, readNewState, readFlag,
             loopTimesOut, branch, readFd, poll, reportScan, reportTune, sendTuneEvent,
             reportChange, callbackReturns, lateFlag, writeStop, blindFlag, blindEvent,
             blindCallbackReturns
    <3> QED BY <3>1, TypesKept
  <2> QED BY <2>1, <2>2
<1>3. ControlTypes'
  <2>1. CASE semWait
    BY <2>1 DEF semWait, TypeOK, ControlTypes
  <2>2. CASE reportTune \/ callbackReturns \/ writeStop
    BY <2>2 DEF reportTune, callbackReturns, writeStop, TypeOK, ControlTypes, Active, Asleep
  <2>3. CASE ~(semWait \/ reportTune \/ callbackReturns \/ writeStop)
    <3>1. UNCHANGED control
      BY <2>3 DEF threadLoop, thread_else, readState, readNewState, readFlag, loopTimesOut,
             branch, readFd, poll, getsignalStatus, reportScan, sendTuneEvent, reportChange,
             lateFlag, blindFlag, blindEvent, blindCallbackReturns
    <3> QED BY <3>1, TypesKept
  <2> QED BY <2>1, <2>2, <2>3
<1>4. ThreadTypes'
  <2> USE DEF thread_history, ThreadTypes, ThreadPlaces
  <2>1. ThreadTypes /\ ControlTypes /\ req \in Nat /\ event \in Nat /\ devFd \in BOOLEAN
    BY DEF TypeOK, ClientTypes, HardwareTypes
  <2>2. CASE readState
    BY <2>1, <2>2 DEF readState, ControlTypes
  <2>3. CASE semWait \/ readFd
    BY <2>1, <2>3 DEF semWait, readFd
  <2>4. CASE readNewState
    <3>1. stop' \in BOOLEAN
      BY <2>1, <2>4 DEF readNewState
    <3> QED BY <2>1, <2>4, <3>1 DEF readNewState, AfterState
  <2>5. CASE readFlag \/ loopTimesOut
    <3>1. stop' \in BOOLEAN
      BY <2>1, <2>5 DEF readFlag, loopTimesOut
    <3>2. pc' \in ThreadPlaces
      BY <2>1, <2>5 DEF readFlag, loopTimesOut
    <3>3. UNCHANGED <<state, fd, sig, islocked, threadReq, sigReq, lastEvent>>
      BY <2>5 DEF readFlag, loopTimesOut
    <3> QED BY <2>1, <3>1, <3>2, <3>3
  <2>6. CASE branch
    <3>1. islocked' \in BOOLEAN
      BY <2>1, <2>6 DEF branch
    <3> QED BY <2>1, <2>6, <3>1 DEF branch
  <2>7. CASE poll
    <3>1. stop' \in BOOLEAN
      BY <2>1, <2>7 DEF poll, ControlTypes
    <3> QED BY <2>1, <2>7, <3>1 DEF poll
  <2>8. CASE getsignalStatus
    BY <2>1, <2>8 DEF getsignalStatus
  <2>9. CASE reportScan \/ reportTune \/ reportChange
    <3>1. islocked' \in BOOLEAN
      BY <2>1, <2>9 DEF reportScan, reportTune, reportChange, locked
    <3> QED BY <2>1, <2>9, <3>1 DEF reportScan, reportTune, reportChange
  <2>10. CASE sendTuneEvent \/ callbackReturns \/ lateFlag \/ writeStop
    BY <2>1, <2>10 DEF sendTuneEvent, callbackReturns, lateFlag, writeStop
  <2>11. CASE blindFlag \/ blindEvent \/ blindCallbackReturns
    BY <2>1, <2>11 DEF blindFlag, blindEvent, blindCallbackReturns, ControlTypes
  <2> QED BY <2>2, <2>3, <2>4, <2>5, <2>6, <2>7, <2>8, <2>9, <2>10, <2>11 DEF threadLoop
<1> QED BY <1>1, <1>2, <1>3, <1>4 DEF TypeOK

\* The initial state has the types.
LEMMA InitTypes == Init => TypeOK
<1> SUFFICES ASSUME Init
             PROVE  TypeOK
  OBVIOUS
<1>1. ControlTypes
  BY DEF Init, ControlTypes, Asleep
<1>2. ThreadTypes
  BY DEF Init, ThreadTypes, ThreadPlaces, Asleep
<1>3. HardwareTypes
  BY DEF Init, HardwareTypes
<1>4. ClientTypes
  BY DEF Init, ClientTypes, CallPlaces, Asleep
<1> QED BY <1>1, <1>2, <1>3, <1>4 DEF TypeOK

\* A step keeps the types.
LEMMA StepTypes ==
    ASSUME TypeOK, [Next]_vars
    PROVE  TypeOK'
<1>1. CASE Call \/ Caller
  BY <1>1, CallTypes DEF Call
<1>2. CASE threadLoop
  BY <1>2, ThreadStepTypes
<1>3. CASE Signal
  <2>1. UNCHANGED control /\ UNCHANGED thread /\ UNCHANGED client /\ UNCHANGED other
    BY <1>3 DEF Signal
  <2>2. HardwareTypes'
    BY <1>3 DEF Signal, TypeOK, HardwareTypes
  <2> QED BY <2>1, <2>2, TypesKept DEF TypeOK
<1>4. CASE readByHw \/ stopByHw \/ closeByHw
  <2>1. UNCHANGED thread
    BY <1>4 DEF readByHw, stopByHw, closeByHw
  <2>2. ControlTypes'
    BY <1>4, TypesKept DEF readByHw, stopByHw, closeByHw, TypeOK, ControlTypes, Asleep
  <2>3. HardwareTypes'
    <3>1. CASE closeByHw
      BY <3>1 DEF closeByHw, HardwareTypes
    <3>2. CASE ~closeByHw
      BY <1>4, <3>2, TypesKept DEF readByHw, stopByHw
    <3> QED BY <3>1, <3>2
  <2>4. ClientTypes'
    BY <1>4 DEF readByHw, stopByHw, closeByHw, client, TypeOK, ClientTypes, ControlTypes,
                Asleep
  <2> QED BY <2>1, <2>2, <2>3, <2>4, TypesKept DEF TypeOK
<1>5. CASE UNCHANGED vars
  BY <1>5, TypesKept DEF vars, TypeOK
<1> QED BY <1>1, <1>2, <1>3, <1>4, <1>5 DEF Next

\* Type correctness.
THEOREM Typing == Spec => []TypeOK
BY InitTypes, StepTypes, PTL DEF Spec

-----------------------------------------------------------------------------

\* The semaphore is never missed, with or without other frontends: the state the
\* thread read before it went to sleep was one to sleep in, and whoever changes it
\* to another posts afterwards.
THEOREM WorkIsPosted == Spec => []NoMissedWakeup
<1>1. Init => NoMissedWakeup
  BY DEF Init, NoMissedWakeup
<1>2. TypeOK /\ NoMissedWakeup /\ [Next]_vars => NoMissedWakeup'
  <2> SUFFICES ASSUME TypeOK, NoMissedWakeup, [Next]_vars
               PROVE  NoMissedWakeup'
    OBVIOUS
  <2> USE DEF NoMissedWakeup
  <2>1. mThreadState \in Active \cup Asleep /\ threadSemaphore \in Nat
    BY DEF TypeOK, ControlTypes
  <2>2. CASE tune \/ stopCall
    BY <2>2 DEF tune, stopCall, control, thread
  <2>3. ASSUME NEW o \in Ops, scan(o)
        PROVE  NoMissedWakeup'
    BY <2>3 DEF scan, thread, client
  <2>4. CASE raiseStop \/ seeStopped \/ dropStop \/ resetScanType \/ releaseHw
    BY <2>4 DEF raiseStop, seeStopped, dropStop, resetScanType, releaseHw, Goto, control, thread
  <2>5. CASE setStart \/ openForTune
    BY <2>5 DEF setStart, openForTune, Goto, control, thread
  <2>6. CASE setProperty
    BY <2>6 DEF setProperty, Goto, thread
  <2>7. CASE post
    BY <2>1, <2>7 DEF post, Goto, thread
  <2>8. CASE readState
    BY <2>1, <2>8 DEF readState, thread_else, control, client
  <2>9. CASE threadLoop /\ ~readState
    <3>1. pc' # "wait"
      BY <2>9 DEF threadLoop, semWait, readNewState, AfterState, readFlag, loopTimesOut, branch,
             readFd, poll, getsignalStatus, reportScan, reportTune, sendTuneEvent,
             reportChange, callbackReturns, lateFlag, writeStop, blindFlag, blindEvent,
             blindCallbackReturns
    <3> QED BY <3>1
  <2>10. CASE Signal \/ readByHw \/ closeByHw
    BY <2>10 DEF Signal, readByHw, closeByHw, control, thread, client
  <2>11. CASE stopByHw
    BY <2>11 DEF stopByHw, thread, client, Asleep
  <2>12. CASE UNCHANGED vars
    BY <2>12 DEF vars, control, thread, client
  <2> QED BY <2>2, <2>3, <2>4, <2>5, <2>6, <2>7, <2>8, <2>9, <2>10, <2>11, <2>12
          DEF Next, Call, Caller
<1> QED BY <1>1, <1>2, Typing, PTL DEF Spec

-----------------------------------------------------------------------------
(* The handshake of a frontend whose tuner nobody takes away.              *)

\* Where the thread has nothing to report.
Quiet == {"top", "wait", "late", "lateStop"}
\* Where it scans blindly.
InBlindScan == {"blind", "blindEvent", "blindCallback", "blindEnd"}
\* Where it works on the state it has read.
Working == {"begin", "beginFlag", "branch", "fd", "poll", "getEvent", "check", "checkFlag",
            "final", "finalFlag", "report"}

\* What the caller has seen lasts until it sets a new state itself.
RestLasts ==
    api \in {"seen", "stopping", "releasing", "starting"} => mThreadState \in Asleep
RestIsQuiet == mThreadState \in Asleep => pc \in Quiet
CurrentRequest == pc \notin Quiet => threadReq = req
WorksOnState == pc \in Working => mThreadState = state
StartsUnanswered ==
    /\ api = "starting" => lastEvent = "none"
    /\ mThreadState = "TUNE_START" /\ pc \notin InBlindScan => lastEvent = "none"
AnswerDue ==
    pc = "tuneEvent" => mThreadState = "TUNE_IDLE" /\ lastEvent = "none" /\ (islocked <=> locked)
IdleAgrees ==
    mThreadState = "TUNE_IDLE" /\ pc \notin InBlindScan \cup {"tuneEvent"} =>
        /\ islocked => lastEvent = "LOCKED"
        /\ ~islocked => lastEvent \in {"NO_SIGNAL", "LOST_LOCK"}

\* The state is that of the call which made the request, and a stop sets none.
StateOfKind ==
    /\ kind = "stop" => mThreadState \in Asleep
    /\ mThreadState \in {"TUNE_START", "TUNE_IDLE"} => kind = "tune"
    /\ api = "starting" => kind = op /\ op # "stop"

Handshake ==
    /\ reclaim = "idle"
    /\ RestLasts /\ RestIsQuiet /\ CurrentRequest
    /\ WorksOnState /\ StartsUnanswered /\ AnswerDue /\ IdleAgrees /\ StateOfKind

IInv == TypeOK /\ Handshake

\* Steps of the client keep the handshake.
LEMMA CallHandshake ==
    ASSUME IInv, tune \/ stopCall \/ (\E o \in Ops : scan(o)) \/ Caller
    PROVE  Handshake'
<1> USE DEF Handshake, RestLasts, RestIsQuiet, CurrentRequest, WorksOnState, StartsUnanswered,
        AnswerDue, IdleAgrees, StateOfKind, Asleep, locked
<1>1. Handshake
  BY DEF IInv
<1>2. CASE tune \/ stopCall
  BY <1>1, <1>2 DEF tune, stopCall, control, thread, other
<1>3. ASSUME NEW o \in Ops, scan(o)
      PROVE  Handshake'
  BY <1>1, <1>3 DEF scan, thread, client, other
<1>4. CASE raiseStop \/ seeStopped \/ resetScanType \/ releaseHw
  BY <1>1, <1>4 DEF raiseStop, seeStopped, resetScanType, releaseHw, Goto, control, thread, other
<1>5. CASE dropStop
  BY <1>1, <1>5 DEF dropStop, other, Quiet, Working
<1>6. CASE setStart
  <2>1. mThreadState \in Asleep /\ pc \in Quiet /\ lastEvent = "none"
    BY <1>1, <1>6 DEF setStart
  <2>2. mThreadState' \in {"TUNE_START", "SCAN_START"}
    BY <1>6 DEF setStart
  <2> QED BY <1>1, <1>6, <2>1, <2>2 DEF setStart, Goto, thread, other, Quiet, Working
<1>7. CASE openForTune \/ setProperty \/ post
  BY <1>1, <1>7 DEF openForTune, setProperty, post, Goto, control, thread, other
<1> QED BY <1>2, <1>3, <1>4, <1>5, <1>6, <1>7 DEF Caller

\* Steps of the thread do.
LEMMA ThreadHandshake ==
    ASSUME IInv, threadLoop
    PROVE  Handshake'
<1> USE DEF Handshake, RestLasts, RestIsQuiet, CurrentRequest, WorksOnState, StartsUnanswered,
        AnswerDue, IdleAgrees, StateOfKind, Asleep, Quiet, Working, InBlindScan, locked, thread_else,
        thread_history, control, client, other
<1>1. Handshake /\ mThreadState \in Active \cup Asleep
  BY DEF IInv, TypeOK, ControlTypes
<1>2. CASE readState
  BY <1>1, <1>2 DEF readState, Active
<1>3. CASE semWait
  BY <1>1, <1>3 DEF semWait
<1>4. CASE readNewState
  BY <1>1, <1>4 DEF readNewState, AfterState
<1>5. CASE readFlag \/ loopTimesOut
  BY <1>1, <1>5 DEF readFlag, loopTimesOut
<1>6. CASE branch
  BY <1>1, <1>6 DEF branch
<1>7. CASE readFd \/ poll
  BY <1>1, <1>7 DEF readFd, poll
<1>8. CASE getsignalStatus
  BY <1>1, <1>8 DEF getsignalStatus
<1>9. CASE reportScan
  BY <1>1, <1>9 DEF reportScan
<1>10. CASE reportTune
  BY <1>1, <1>10 DEF reportTune
<1>11. CASE sendTuneEvent
  BY <1>1, <1>11 DEF sendTuneEvent
<1>12. CASE reportChange
  BY <1>1, <1>12 DEF reportChange
<1>13. CASE callbackReturns
  BY <1>1, <1>13 DEF callbackReturns
<1>14. CASE lateFlag \/ writeStop
  BY <1>1, <1>14 DEF lateFlag, writeStop
<1>15. CASE blindFlag \/ blindEvent \/ blindCallbackReturns
  BY <1>1, <1>15 DEF blindFlag, blindEvent, blindCallbackReturns
<1> QED BY <1>2, <1>3, <1>4, <1>5, <1>6, <1>7, <1>8, <1>9, <1>10, <1>11, <1>12, <1>13, <1>14,
           <1>15 DEF threadLoop

\* The invariant of a frontend whose tuner nobody takes away.
THEOREM Inductive == ~Contended /\ Spec => []IInv
<1>1. Init => IInv
  <2>1. Init => Handshake
    BY DEF Init, Handshake, RestLasts, RestIsQuiet, CurrentRequest, WorksOnState,
           StartsUnanswered, AnswerDue, IdleAgrees, StateOfKind, Asleep, Quiet, Working
  <2>2. Init => TypeOK
    BY InitTypes
  <2> QED BY <2>1, <2>2 DEF IInv
<1>2. ASSUME ~Contended, IInv, [Next]_vars
      PROVE  IInv'
  <2>1. TypeOK'
    BY <1>2, StepTypes DEF IInv
  <2>2. CASE Call \/ Caller
    BY <1>2, <2>1, <2>2, CallHandshake DEF Call, IInv
  <2>3. CASE threadLoop
    BY <1>2, <2>1, <2>3, ThreadHandshake DEF IInv
  <2>4. CASE Signal \/ UNCHANGED vars
    <3>1. UNCHANGED <<control, thread, client, other>>
      BY <2>4 DEF Signal, vars
    <3> QED BY <1>2, <2>1, <3>1
            DEF IInv, Handshake, RestLasts, RestIsQuiet, CurrentRequest, WorksOnState,
                StartsUnanswered, AnswerDue, IdleAgrees, StateOfKind, locked, control, thread, client, other
  <2>5. ~(readByHw \/ stopByHw \/ closeByHw)
    BY <1>2 DEF IInv, Handshake, readByHw, stopByHw, closeByHw
  <2> QED BY <1>2, <2>2, <2>3, <2>4, <2>5 DEF Next
<1>3. ~Contended /\ IInv /\ [Next]_vars => IInv'
  BY <1>2
<1>4. CASE ~Contended
  BY <1>1, <1>3, <1>4, PTL DEF Spec
<1>5. CASE Contended
  BY <1>5
<1> QED BY <1>4, <1>5

\* Nothing learned for an old request is reported: when stop has returned, or the
\* next request has begun, no event of the old one follows.
THEOREM OnlyCurrentEvents == Spec => []NoStaleEvent
<1>1. CASE ~Contended
  <2>1. IInv => NoStaleEvent
    BY DEF IInv, Handshake, CurrentRequest, NoStaleEvent, Quiet
  <2> QED BY <1>1, <2>1, Inductive, PTL
<1>2. CASE Contended
  <2>1. NoStaleEvent
    BY <1>2 DEF NoStaleEvent
  <2> QED BY <2>1, PTL
<1> QED BY <1>1, <1>2

-----------------------------------------------------------------------------
(* The events the client was promised.                                     *)

InCallback == pc \in {"callback", "scanCallback", "blindCallback"}

\* A call begins a request when the thread has stopped, and sends nothing.
LEMMA CallContract ==
    ASSUME IInv, tune \/ stopCall \/ (\E o \in Ops : scan(o)) \/ Caller
    PROVE  Contract!Next \/ UNCHANGED Contract!vars
<1>1. CASE dropStop
  <2>1. pc \in Quiet
    BY <1>1 DEF dropStop, IInv, Handshake, RestLasts, RestIsQuiet
  <2>2. ~InCallback /\ ~InCallback' /\ req' = req + 1 /\ kind' = op /\ lastEvent' = "none"
    BY <1>1, <2>1 DEF dropStop, InCallback, Quiet
  <2>3. Contract!Begin(op)
    BY <2>2 DEF Contract!Begin, InCallback
  <2> QED BY <2>3 DEF Contract!Next, IInv, TypeOK, ClientTypes
<1>2. CASE ~dropStop
  <2>1. UNCHANGED <<req, kind, lastEvent, pc>>
    BY <1>2 DEF tune, stopCall, scan, Caller, raiseStop, seeStopped, resetScanType, releaseHw,
                setStart, openForTune, setProperty, post, Goto, thread, client
  <2> QED BY <2>1 DEF Contract!vars
<1> QED BY <1>1, <1>2

\* The thread's steps that send an event know what was sent before; the others send none.
LEMMA ThreadContract ==
    ASSUME IInv, threadLoop
    PROVE  Contract!Next \/ UNCHANGED Contract!vars
<1> USE DEF Contract!Next
<1>k. req' = req /\ kind' = kind
  BY DEF threadLoop, thread_else, client, readState, semWait, readNewState, readFlag, loopTimesOut,
         branch, readFd, poll, getsignalStatus, reportScan, reportTune, sendTuneEvent,
         reportChange, callbackReturns, lateFlag, writeStop, blindFlag, blindEvent,
         blindCallbackReturns
<1>t. ASSUME NEW e, lastEvent' = e, ~InCallback, InCallback'
      PROVE  Contract!Tell(e)
  BY <1>k, <1>t DEF Contract!Tell, InCallback
<1>1. CASE sendTuneEvent
  <2>1. kind = "tune" /\ lastEvent = "none"
    BY <1>1 DEF IInv, Handshake, AnswerDue, StateOfKind, sendTuneEvent
  <2>2. lastEvent' \in {"LOCKED", "NO_SIGNAL"} /\ ~InCallback /\ InCallback'
    BY <1>1 DEF sendTuneEvent, InCallback
  <2> QED BY <1>t, <2>1, <2>2 DEF Contract!Answer
<1>2. CASE reportChange
  <2>1. mThreadState = "TUNE_IDLE" /\ pc = "report"
    BY <1>2 DEF IInv, Handshake, WorksOnState, reportChange, Working
  <2>2. /\ kind = "tune" /\ islocked \in BOOLEAN
        /\ islocked => lastEvent = "LOCKED"
        /\ ~islocked => lastEvent \in {"NO_SIGNAL", "LOST_LOCK"}
    BY <2>1 DEF IInv, TypeOK, ThreadTypes, Handshake, IdleAgrees, StateOfKind, InBlindScan
  <2>3. CASE locked = islocked
    <3>1. pc' = "late" /\ lastEvent' = lastEvent
      BY <1>2, <2>3 DEF reportChange
    <3> QED BY <1>k, <2>1, <3>1 DEF Contract!vars
  <2>4. CASE locked # islocked
    <3>1. /\ lastEvent' = IF locked THEN "LOCKED" ELSE "LOST_LOCK"
          /\ ~InCallback /\ InCallback'
      BY <1>2, <2>1, <2>4 DEF reportChange, InCallback
    <3>2. CASE locked
      BY <1>t, <2>2, <2>4, <3>1, <3>2 DEF Contract!Change, locked
    <3>3. CASE ~locked
      BY <1>t, <2>2, <2>4, <3>1, <3>3 DEF Contract!Change, locked
    <3> QED BY <3>2, <3>3
  <2> QED BY <2>3, <2>4
<1>3. CASE reportScan \/ blindEvent
  <2>1. kind # "stop"
    BY <1>3 DEF IInv, Handshake, RestIsQuiet, StateOfKind, reportScan, blindEvent, Quiet
  <2>2. CASE lastEvent' = "SCANNED" /\ ~InCallback /\ InCallback'
    BY <1>t, <2>1, <2>2 DEF Contract!Progress
  <2>3. CASE lastEvent' = lastEvent /\ ~InCallback /\ ~InCallback'
    BY <1>k, <2>3 DEF Contract!vars, InCallback
  <2> QED BY <1>3, <2>2, <2>3 DEF reportScan, blindEvent, InCallback
<1>4. CASE callbackReturns \/ blindCallbackReturns
  <2>1. InCallback /\ ~InCallback' /\ lastEvent' = lastEvent
    BY <1>4 DEF callbackReturns, blindCallbackReturns, InCallback, thread_history
  <2> QED BY <1>k, <2>1 DEF Contract!Returns, InCallback
<1>5. CASE ~(sendTuneEvent \/ reportChange \/ reportScan \/ blindEvent \/ callbackReturns
             \/ blindCallbackReturns)
  <2>1. lastEvent' = lastEvent /\ ~InCallback /\ ~InCallback'
    BY <1>5 DEF threadLoop, thread_history, InCallback, readState, semWait, readNewState,
       AfterState, readFlag, loopTimesOut, branch, readFd, poll, getsignalStatus, reportTune,
       lateFlag, writeStop, blindFlag
  <2> QED BY <1>k, <2>1 DEF Contract!vars, InCallback
<1> QED BY <1>1, <1>2, <1>3, <1>4, <1>5

\* A frontend whose tuner nobody takes away implements the events its client was promised.
THEOREM ImplementsContract == ~Contended /\ Spec => ContractSpec
<1>1. Init => Contract!Init
  BY DEF Init, Contract!Init
<1>2. IInv /\ [Next]_vars => [Contract!Next]_(Contract!vars)
  <2> SUFFICES ASSUME IInv, [Next]_vars
               PROVE  Contract!Next \/ UNCHANGED Contract!vars
    OBVIOUS
  <2>1. CASE Call \/ Caller
    BY <2>1, CallContract DEF Call
  <2>2. CASE threadLoop
    BY <2>2, ThreadContract
  <2>3. CASE Signal \/ readByHw \/ stopByHw \/ closeByHw \/ UNCHANGED vars
    BY <2>3 DEF Signal, readByHw, stopByHw, closeByHw, vars, thread, client, Contract!vars
  <2> QED BY <2>1, <2>2, <2>3 DEF Next
<1> QED BY <1>1, <1>2, Inductive, PTL DEF Spec, ContractSpec, Contract!Spec

-----------------------------------------------------------------------------
(* The tuning a request is answered from, when the client stops before it   *)
(* starts again.                                                            *)

\* A device that is not open tunes nothing, and what waits in the driver is about
\* what the hardware is tuned to.
ClosedIsUntuned == ~devFd => ~owner /\ tuned = 0 /\ event = 0
EventOfTuning == event \in {0, tuned}
\* The hardware is tuned for the current request, and not before its parameters are
\* set; a stop has its own number while the tuning it ends still lasts.
TunedForRequest ==
    /\ tuned \in {0, req} \/ api \in {"stopping", "releasing"}
    /\ op # "stop" /\ api \notin {"idle", "post"} => tuned = 0
\* What the thread knows of the signal it learned in this pass.
SignalOfRequest ==
    /\ sig # "WAIT" => sigReq = threadReq
    /\ pc \in {"report", "tuneEvent", "callback", "scanCallback"} => sig # "WAIT"

OwnTuning == ClosedIsUntuned /\ EventOfTuning /\ TunedForRequest
OwnInv == IInv /\ OwnTuning /\ SignalOfRequest

\* Steps of the client keep the hardware tuned for its current request only.
LEMMA CallTuning ==
    ASSUME ~Contended, ~Restart, OwnInv,
           tune \/ stopCall \/ (\E o \in Ops : scan(o)) \/ Caller
    PROVE  OwnTuning'
<1> USE DEF OwnTuning, ClosedIsUntuned, EventOfTuning, TunedForRequest
<1>1. OwnTuning
  BY DEF OwnInv
<1>2. CASE tune \/ stopCall
  BY <1>1, <1>2 DEF tune, stopCall, MayStart, hardware
<1>3. ASSUME NEW o \in Ops, scan(o)
      PROVE  OwnTuning'
  BY <1>1, <1>3 DEF scan, MayStart, OpenFails, OpenDevice, hardware, client
<1>4. CASE raiseStop \/ seeStopped
  BY <1>1, <1>4 DEF raiseStop, seeStopped, Goto, hardware
<1>5. CASE dropStop
  BY <1>1, <1>5 DEF dropStop, hardware
<1>6. CASE resetScanType
  BY <1>1, <1>6 DEF resetScanType, Goto, hardware
<1>7. CASE releaseHw
  BY <1>1, <1>7 DEF releaseHw, ReleaseDevice, Goto
<1>8. CASE setStart
  BY <1>1, <1>8 DEF setStart, Goto, hardware
<1>9. CASE openForTune
  BY <1>1, <1>9 DEF openForTune, OpenDevice, Goto, hardware
<1>10. CASE setProperty \/ post
  BY <1>1, <1>10 DEF setProperty, post, Goto, hardware
<1> QED BY <1>2, <1>3, <1>4, <1>5, <1>6, <1>7, <1>8, <1>9, <1>10 DEF Caller

\* They leave the thread's variables alone, but for the history of events.
LEMMA CallLeavesSignal ==
    ASSUME tune \/ stopCall \/ (\E o \in Ops : scan(o)) \/ Caller
    PROVE  UNCHANGED <<pc, sig, sigReq, threadReq>>
BY DEF tune, stopCall, scan, Caller, raiseStop, seeStopped, dropStop, resetScanType, releaseHw,
       setStart, openForTune, setProperty, post, thread

\* A signal is learned in a pass that works for the current request.
LEMMA LearnedSignal ==
    ASSUME OwnInv, getsignalStatus
    PROVE  SignalOfRequest' /\ OwnTuning'
<1>1. /\ IInv /\ ClosedIsUntuned /\ EventOfTuning /\ TunedForRequest /\ SignalOfRequest
  BY DEF OwnInv, OwnTuning
<1>2. threadReq = req
  BY <1>1 DEF IInv, Handshake, CurrentRequest, Quiet, getsignalStatus
<1>3. api \notin {"stopping", "releasing"}
  BY <1>1 DEF IInv, Handshake, RestLasts, RestIsQuiet, Quiet, getsignalStatus
<1>4. event # 0 => event = threadReq
  BY <1>1, <1>2, <1>3 DEF EventOfTuning, TunedForRequest
<1>5. SignalOfRequest'
  BY <1>1, <1>4 DEF getsignalStatus, SignalOfRequest
<1>6. OwnTuning'
  BY <1>1 DEF getsignalStatus, OwnTuning, ClosedIsUntuned, EventOfTuning, TunedForRequest, client
<1> QED BY <1>5, <1>6

\* The thread's other steps tune nothing and report what it has learned.
LEMMA ThreadSignal ==
    ASSUME OwnInv, threadLoop
    PROVE  SignalOfRequest' /\ OwnTuning'
<1>1. CASE getsignalStatus
  BY <1>1, LearnedSignal
<1>2. CASE ~getsignalStatus
  <2>1. UNCHANGED hardware /\ UNCHANGED client
    BY <1>2 DEF threadLoop, thread_else, readState, semWait, readNewState, readFlag,
       loopTimesOut, branch, readFd, poll, reportScan, reportTune, sendTuneEvent, reportChange,
       callbackReturns, lateFlag, writeStop, blindFlag, blindEvent, blindCallbackReturns
  <2>2. OwnTuning'
    BY <2>1 DEF OwnInv, OwnTuning, ClosedIsUntuned, EventOfTuning, TunedForRequest, hardware,
                client
  <2>3. SignalOfRequest'
    <3> USE DEF SignalOfRequest, thread_history
    <3>1. SignalOfRequest
      BY DEF OwnInv
    <3>2. CASE readState
      BY <3>2 DEF readState
    <3>3. CASE readFlag
      BY <3>1, <3>3 DEF readFlag
    <3>4. CASE reportScan \/ reportTune \/ sendTuneEvent \/ reportChange
      BY <3>1, <3>4 DEF reportScan, reportTune, sendTuneEvent, reportChange
    <3>5. CASE ~(readState \/ readFlag \/ reportScan \/ reportTune \/ sendTuneEvent \/
                 reportChange)
      <4>1. UNCHANGED <<sig, sigReq, threadReq>>
        BY <1>2, <3>5 DEF threadLoop, semWait, readNewState, loopTimesOut, branch, readFd, poll,
           callbackReturns, lateFlag, writeStop, blindFlag, blindEvent, blindCallbackReturns
      <4>2. pc' \notin {"report", "tuneEvent", "callback", "scanCallback"}
        BY <1>2, <3>5 DEF threadLoop, semWait, readNewState, AfterState, loopTimesOut, branch,
           readFd, poll, callbackReturns, lateFlag, writeStop, blindFlag, blindEvent,
           blindCallbackReturns
      <4> QED BY <3>1, <4>1, <4>2
    <3> QED BY <3>2, <3>3, <3>4, <3>5
  <2> QED BY <2>2, <2>3
<1> QED BY <1>1, <1>2

\* An answer is about the hardware as tuned for the request it answers, though the
\* thread may run before the parameters are set: nothing of an older tuning is left.
THEOREM OwnAnswers == ~Contended /\ ~Restart /\ Spec => []AnswersOwnTuning
<1>1. Init => OwnTuning /\ SignalOfRequest
  BY DEF Init, OwnTuning, ClosedIsUntuned, EventOfTuning, TunedForRequest, SignalOfRequest
<1>2. ASSUME ~Contended, ~Restart, OwnInv, [Next]_vars
      PROVE  (OwnTuning /\ SignalOfRequest)'
  <2>1. CASE Call \/ Caller
    BY <1>2, <2>1, CallTuning, CallLeavesSignal DEF Call, OwnInv, SignalOfRequest
  <2>2. CASE threadLoop
    BY <1>2, <2>2, ThreadSignal
  <2>3. CASE Signal
    <3>1. UNCHANGED <<pc, sig, sigReq, threadReq, devFd, owner, tuned, req, api, op>>
      BY <2>3 DEF Signal, thread, client
    <3> QED BY <1>2, <2>3, <3>1
            DEF Signal, OwnInv, OwnTuning, ClosedIsUntuned, EventOfTuning, TunedForRequest,
                SignalOfRequest
  <2>4. CASE UNCHANGED vars
    BY <1>2, <2>4 DEF OwnInv, OwnTuning, ClosedIsUntuned, EventOfTuning, TunedForRequest,
                      SignalOfRequest, vars, thread, client, hardware
  <2>5. ~(readByHw \/ stopByHw \/ closeByHw)
    BY <1>2 DEF OwnInv, IInv, Handshake, readByHw, stopByHw, closeByHw
  <2> QED BY <1>2, <2>1, <2>2, <2>3, <2>4, <2>5 DEF Next
<1>3. OwnInv => AnswersOwnTuning
  BY DEF OwnInv, SignalOfRequest, AnswersOwnTuning
<1>4. CASE ~Contended /\ ~Restart
  <2>1. OwnInv /\ [Next]_vars => (OwnTuning /\ SignalOfRequest)'
    BY <1>2, <1>4
  <2> QED BY <1>1, <1>3, <1>4, <2>1, Inductive, PTL DEF Spec, OwnInv
<1>5. CASE ~(~Contended /\ ~Restart)
  BY <1>5
<1> QED BY <1>4, <1>5
=============================================================================
