---------------------- MODULE FilterCallbackScheduler ----------------------
(***************************************************************************)
(* The thread that batches a filter's events for its client                *)
(* (aidl/Filter.h, aidl/Filter.cpp).  Binder threads and the demux data    *)
(* thread post events and change the delay hints; the callback thread      *)
(* waits on mCv and hands the whole buffer to the client while it holds    *)
(* mLock; the destructor stops and joins the callback thread.              *)
(*                                                                         *)
(* A body between lock and unlock that calls nothing outside the class is  *)
(* one step, guarded by the lock being free.  The steps that are not       *)
(* covered by mLock are steps of their own: the notify after an unlock,    *)
(* the reads and writes of the atomic mIsRunning, and the callback, which  *)
(* keeps mLock from the step that starts it to the step that ends it.      *)
(***************************************************************************)
EXTENDS Integers, Sequences

CONSTANTS
    Callers,        \* threads that call the scheduler's public methods
    Lengths,        \* payload lengths of the events (0: no payload)
    TimeDelays,     \* time delay hints in ms, 0 switches the hint off
    SizeDelays,     \* size delay hints in bytes, 0 switches the hint off
    MaxEvents       \* bound on the number of events posted

ASSUME LengthsAssumption == Lengths \subseteq Nat
ASSUME TimeDelaysAssumption == TimeDelays \subseteq Nat /\ 0 \in TimeDelays
ASSUME SizeDelaysAssumption == SizeDelays \subseteq Nat /\ 0 \in SizeDelays
ASSUME MaxEventsAssumption == MaxEvents \in Nat

Event == [id : 1..MaxEvents, length : Lengths]

VARIABLES
    mCallbackBuffer,          \* events waiting for the client
    mDataLength,              \* bytes in mCallbackBuffer
    mIsConditionMet,          \* the predicate of mCv
    mTimeDelayInMs,
    mDataSizeDelayInBytes,
    mIsRunning,
    lockFree,                 \* mLock is not held across steps
    caller,                   \* caller[c]: where thread c is
    thread,                   \* where the callback thread is
    waitTimed,                \* the wait it is in has a timeout
    dtor,                     \* where the destructor is
    posted,                   \* number of events posted so far
    delivered                 \* what the client has received

hints == <<mTimeDelayInMs, mDataSizeDelayInBytes>>
vars == <<mCallbackBuffer, mDataLength, mIsConditionMet, hints, mIsRunning,
          lockFree, caller, thread, waitTimed, dtor, posted, delivered>>

Init ==
    /\ mCallbackBuffer = << >>
    /\ mDataLength = 0
    /\ mIsConditionMet = FALSE
    /\ mTimeDelayInMs = 0
    /\ mDataSizeDelayInBytes = 0
    /\ mIsRunning = TRUE
    /\ lockFree = TRUE
    /\ caller = [c \in Callers |-> "idle"]
    /\ thread = "loop"
    /\ waitTimed = FALSE
    /\ dtor = "idle"
    /\ posted = 0
    /\ delivered = << >>

-----------------------------------------------------------------------------
(* The public methods.                                                     *)

isDataSizeDelayConditionMetLocked(time, size, length) ==
    IF size = 0 THEN time = 0 ELSE length >= size

\* A filter owns its scheduler, and a call holds a reference on the filter:
\* no call is in progress, or made, once the destructor runs.
CanCall(c) == caller[c] = "idle" /\ dtor = "idle" /\ lockFree

\* Sets the predicate; the notify that follows the unlock is NotifyAll.
RaiseCondition(c) ==
    /\ mIsConditionMet' = TRUE
    /\ caller' = [caller EXCEPT ![c] = "notify"]

RaiseConditionIf(c, met) ==
    IF met THEN RaiseCondition(c) ELSE UNCHANGED <<mIsConditionMet, caller>>

onFilterEvent(c, length) ==
    /\ CanCall(c)
    /\ posted < MaxEvents
    /\ posted' = posted + 1
    /\ mCallbackBuffer' =
          Append(mCallbackBuffer, [id |-> posted + 1, length |-> length])
    /\ mDataLength' = mDataLength + length
    /\ RaiseConditionIf(c, isDataSizeDelayConditionMetLocked(
                              mTimeDelayInMs, mDataSizeDelayInBytes, mDataLength'))
    /\ UNCHANGED <<hints, mIsRunning, lockFree, thread, waitTimed, dtor, delivered>>

\* Mutant: a flush that forgets the byte count.
flushEventsKeepsLength(c) ==
    /\ CanCall(c)
    /\ mCallbackBuffer' = << >>
    /\ UNCHANGED <<mDataLength, mIsConditionMet, hints, mIsRunning, lockFree, caller,
                   thread, waitTimed, dtor, posted, delivered>>

flushEvents(c) ==
    /\ CanCall(c)
    /\ mCallbackBuffer' = << >>
    /\ mDataLength' = 0
    /\ UNCHANGED <<mIsConditionMet, hints, mIsRunning, lockFree, caller, thread,
                   waitTimed, dtor, posted, delivered>>

\* Mutant: a new time hint does not wake the callback thread.
setTimeDelayHintSilently(c, timeDelay) ==
    /\ CanCall(c)
    /\ mTimeDelayInMs' = timeDelay
    /\ UNCHANGED <<mCallbackBuffer, mDataLength, mIsConditionMet, mDataSizeDelayInBytes,
                   mIsRunning, lockFree, caller, thread, waitTimed, dtor, posted, delivered>>

setTimeDelayHint(c, timeDelay) ==
    /\ CanCall(c)
    /\ mTimeDelayInMs' = timeDelay
    /\ RaiseCondition(c)
    /\ UNCHANGED <<mCallbackBuffer, mDataLength, mDataSizeDelayInBytes, mIsRunning,
                   lockFree, thread, waitTimed, dtor, posted, delivered>>

\* Mutant: a new size hint is not compared with what is already buffered.
setDataSizeDelayHintSilently(c, dataSizeDelay) ==
    /\ CanCall(c)
    /\ mDataSizeDelayInBytes' = dataSizeDelay
    /\ UNCHANGED <<mCallbackBuffer, mDataLength, mIsConditionMet, mTimeDelayInMs,
                   mIsRunning, lockFree, caller, thread, waitTimed, dtor, posted, delivered>>

setDataSizeDelayHint(c, dataSizeDelay) ==
    /\ CanCall(c)
    /\ mDataSizeDelayInBytes' = dataSizeDelay
    /\ RaiseConditionIf(c, isDataSizeDelayConditionMetLocked(
                              mTimeDelayInMs, dataSizeDelay, mDataLength))
    /\ UNCHANGED <<mCallbackBuffer, mDataLength, mTimeDelayInMs, mIsRunning,
                   lockFree, thread, waitTimed, dtor, posted, delivered>>

\* mCv.notify_all() reaches the callback thread only while it is blocked.
Wake == thread' = IF thread = "waiting" THEN "wantLock" ELSE thread

NotifyAll(c) ==
    /\ caller[c] = "notify"
    /\ Wake
    /\ caller' = [caller EXCEPT ![c] = "idle"]
    /\ UNCHANGED <<mCallbackBuffer, mDataLength, mIsConditionMet, hints, mIsRunning,
                   lockFree, waitTimed, dtor, posted, delivered>>

-----------------------------------------------------------------------------
(* The callback thread: threadLoop and threadLoopOnce.                     *)

threadLoop ==
    /\ thread = "loop"
    /\ thread' = IF mIsRunning THEN "enter" ELSE "exited"
    /\ UNCHANGED <<mCallbackBuffer, mDataLength, mIsConditionMet, hints, mIsRunning,
                   lockFree, caller, waitTimed, dtor, posted, delivered>>

\* The wait is over: consume the condition and, unless stop() was called in
\* the meantime or nothing is buffered, start the callback under mLock.
LeaveWait ==
    /\ mIsConditionMet' = FALSE
    /\ IF mIsRunning /\ mCallbackBuffer # << >>
         THEN thread' = "callback" /\ lockFree' = FALSE
         ELSE thread' = "loop" /\ UNCHANGED lockFree
    /\ UNCHANGED waitTimed

\* Mutant: every wait is the untimed one.
BlockUntimed(timed) ==
    /\ ~mIsConditionMet
    /\ thread' = "waiting"
    /\ waitTimed' = FALSE
    /\ UNCHANGED <<mIsConditionMet, lockFree>>

\* wait and wait_for release mLock and block while the predicate is false.
Block(timed) ==
    /\ ~mIsConditionMet
    /\ thread' = "waiting"
    /\ waitTimed' = timed
    /\ UNCHANGED <<mIsConditionMet, lockFree>>

threadLoopOnce ==
    /\ lockFree
    /\ \/ /\ thread = "enter"
          /\ IF mIsConditionMet THEN LeaveWait ELSE Block(mTimeDelayInMs > 0)
       \/ /\ thread = "wantLock"
          /\ IF mIsConditionMet THEN LeaveWait ELSE Block(waitTimed)
       \/ /\ thread = "timedOut"
          /\ LeaveWait
    /\ UNCHANGED <<mCallbackBuffer, mDataLength, hints, mIsRunning, caller, dtor,
                   posted, delivered>>

\* The timeout of wait_for.
WaitTimeout ==
    /\ thread = "waiting"
    /\ waitTimed
    /\ thread' = "timedOut"
    /\ UNCHANGED <<mCallbackBuffer, mDataLength, mIsConditionMet, hints, mIsRunning,
                   lockFree, caller, waitTimed, dtor, posted, delivered>>

\* A condition variable may wake its waiter for no reason.
SpuriousWakeup ==
    /\ thread = "waiting"
    /\ thread' = "wantLock"
    /\ UNCHANGED <<mCallbackBuffer, mDataLength, mIsConditionMet, hints, mIsRunning,
                   lockFree, caller, waitTimed, dtor, posted, delivered>>

\* Mutant: what the client has received stays in the buffer.
CallbackReturnsKeepsBuffer ==
    /\ thread = "callback"
    /\ delivered' = delivered \o mCallbackBuffer
    /\ thread' = "loop"
    /\ lockFree' = TRUE
    /\ UNCHANGED <<mCallbackBuffer, mDataLength, mIsConditionMet, hints, mIsRunning,
                   caller, waitTimed, dtor, posted>>

\* mCallback->onFilterEvent(mCallbackBuffer) returns.
CallbackReturns ==
    /\ thread = "callback"
    /\ delivered' = delivered \o mCallbackBuffer
    /\ mCallbackBuffer' = << >>
    /\ mDataLength' = 0
    /\ thread' = "loop"
    /\ lockFree' = TRUE
    /\ UNCHANGED <<mIsConditionMet, hints, mIsRunning, caller, waitTimed, dtor, posted>>

-----------------------------------------------------------------------------
(* ~FilterCallbackScheduler and stop().                                    *)

ClearRunning ==
    /\ dtor = "idle"
    /\ \A c \in Callers : caller[c] = "idle"
    /\ mIsRunning' = FALSE
    /\ dtor' = "setCondition"
    /\ UNCHANGED <<mCallbackBuffer, mDataLength, mIsConditionMet, hints, lockFree,
                   caller, thread, waitTimed, posted, delivered>>

\* Mutant: stop() notifies without making the predicate true.
SetConditionSkipped ==
    /\ dtor = "setCondition"
    /\ dtor' = "notify"
    /\ UNCHANGED <<mCallbackBuffer, mDataLength, mIsConditionMet, hints, mIsRunning,
                   lockFree, caller, thread, waitTimed, posted, delivered>>

SetCondition ==
    /\ dtor = "setCondition"
    /\ lockFree
    /\ mIsConditionMet' = TRUE
    /\ dtor' = "notify"
    /\ UNCHANGED <<mCallbackBuffer, mDataLength, hints, mIsRunning, lockFree, caller,
                   thread, waitTimed, posted, delivered>>

StopNotify ==
    /\ dtor = "notify"
    /\ Wake
    /\ dtor' = "join"
    /\ UNCHANGED <<mCallbackBuffer, mDataLength, mIsConditionMet, hints, mIsRunning,
                   lockFree, caller, waitTimed, posted, delivered>>

Join ==
    /\ dtor = "join"
    /\ thread = "exited"
    /\ dtor' = "returned"
    /\ UNCHANGED <<mCallbackBuffer, mDataLength, mIsConditionMet, hints, mIsRunning,
                   lockFree, caller, thread, waitTimed, posted, delivered>>

stop == ClearRunning \/ SetCondition \/ StopNotify \/ Join

-----------------------------------------------------------------------------

CallerStep(c) ==
    \/ \E length \in Lengths : onFilterEvent(c, length)
    \/ flushEvents(c)
    \/ \E timeDelay \in TimeDelays : setTimeDelayHint(c, timeDelay)
    \/ \E dataSizeDelay \in SizeDelays : setDataSizeDelayHint(c, dataSizeDelay)
    \/ NotifyAll(c)

ThreadStep == threadLoop \/ threadLoopOnce \/ WaitTimeout \/ CallbackReturns

Next ==
    \/ \E c \in Callers : CallerStep(c)
    \/ ThreadStep
    \/ SpuriousWakeup
    \/ stop

Spec == Init /\ [][Next]_vars

\* The client's callback returns, a timeout expires even if the waiter was woken
\* meanwhile (wait_for keeps its deadline, hence SF), a thread that is waiting for
\* mLock gets it, a thread that has unlocked goes on to notify, and a destructor
\* that was entered goes on.  Nothing makes a caller call.
Fairness ==
    /\ WF_vars(threadLoop)
    /\ WF_vars(threadLoopOnce)
    /\ SF_vars(WaitTimeout)
    /\ WF_vars(CallbackReturns)
    /\ \A c \in Callers : WF_vars(NotifyAll(c))
    /\ WF_vars(SetCondition)
    /\ WF_vars(StopNotify)
    /\ WF_vars(Join)

FairSpec == Spec /\ Fairness

-----------------------------------------------------------------------------
(* Properties.                                                             *)

\* Every variable has its type; in particular the byte count never goes
\* negative, whatever mix of flushes, timeouts and deliveries happens.
TypeOK ==
    /\ mCallbackBuffer \in Seq(Event)
    /\ mDataLength \in Nat
    /\ mIsConditionMet \in BOOLEAN
    /\ mTimeDelayInMs \in TimeDelays
    /\ mDataSizeDelayInBytes \in SizeDelays
    /\ mIsRunning \in BOOLEAN
    /\ lockFree \in BOOLEAN
    /\ caller \in [Callers -> {"idle", "notify"}]
    /\ thread \in {"loop", "enter", "waiting", "wantLock", "timedOut", "callback", "exited"}
    /\ waitTimed \in BOOLEAN
    /\ dtor \in {"idle", "setCondition", "notify", "join", "returned"}
    /\ posted \in 0..MaxEvents
    /\ delivered \in Seq(Event)

\* The client is owed what is buffered without waiting for more data or time.
OwedNow ==
    /\ mCallbackBuffer # << >>
    /\ mTimeDelayInMs = 0
    /\ mDataSizeDelayInBytes = 0 \/ mDataLength >= mDataSizeDelayInBytes

\* No wakeup is lost: whenever events are owed at once, the predicate the
\* callback thread sleeps on is true or the callback is already being made, in
\* whatever order events, flushes and changes of the two hints arrive (until stop).
NoStrandedEvents ==
    OwedNow /\ mIsRunning => mIsConditionMet \/ thread = "callback"

\* The callback thread never sleeps on an outdated time hint: unless it is about
\* to leave the wait, it has a timeout exactly when the current hint asks for one
\* (setTimeDelayHint: "always notify condition variable to update timeout").
TimeoutMatchesHint ==
    thread \in {"waiting", "wantLock"} /\ ~mIsConditionMet
        => (waitTimed <=> mTimeDelayInMs > 0)

\* mDataLength is the number of payload bytes that are buffered, the last of the sums of
\* the buffer's beginnings: no sequence of posts, flushes and deliveries lets the counter
\* drift from the buffer.
DataLengthAgrees ==
    \E sum \in [0..Len(mCallbackBuffer) -> 0..mDataLength] :
        /\ sum[0] = 0 /\ sum[Len(mCallbackBuffer)] = mDataLength
        /\ \A i \in 1..Len(mCallbackBuffer) : sum[i] = sum[i - 1] + mCallbackBuffer[i].length

\* The scheduler implements the event stream the client was promised: order,
\* no duplicate, no loss other than by a flush, and no callback once the
\* destructor has returned.
Stream == INSTANCE EventStream WITH
              pending <- mCallbackBuffer, open <- dtor # "returned"
StreamSpec == Stream!Spec

BufferedIds == {mCallbackBuffer[i].id : i \in DOMAIN mCallbackBuffer}

\* An event whose time or size condition holds leaves the buffer (delivered or
\* flushed) unless the filter is being destroyed.
EventuallyHandedOver ==
    \A n \in 1..MaxEvents :
        (n \in BufferedIds /\ (mTimeDelayInMs > 0 \/ OwedNow))
            ~> (n \notin BufferedIds \/ ~mIsRunning)

\* The destructor of a filter always gets its callback thread joined.
StopReturns == (dtor = "setCondition") ~> (dtor = "returned")
=============================================================================
