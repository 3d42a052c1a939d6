------------------- MODULE FilterCallbackScheduler_proof -------------------
(***************************************************************************)
(* Proofs about FilterCallbackScheduler, for every set of callers, every   *)
(* set of payload lengths and hint values and every number of events.      *)
(***************************************************************************)
EXTENDS FilterCallbackScheduler, TLAPS

\* Every step of the specification keeps the types.
LEMMA Typing == Spec => []TypeOK
<1>1. Init => TypeOK
  <2> SUFFICES ASSUME Init
               PROVE  TypeOK
    OBVIOUS
  <2>1. mTimeDelayInMs \in TimeDelays /\ mDataSizeDelayInBytes \in SizeDelays
    BY TimeDelaysAssumption, SizeDelaysAssumption DEF Init
  <2>2. mCallbackBuffer \in Seq(Event) /\ delivered \in Seq(Event)
    BY DEF Init
  <2>3. mDataLength \in Nat /\ posted \in 0..MaxEvents
    BY MaxEventsAssumption DEF Init
  <2>4. caller \in [Callers -> {"idle", "notify"}]
    BY DEF Init
  <2> QED BY <2>1, <2>2, <2>3, <2>4 DEF Init, TypeOK
<1>2. TypeOK /\ [Next]_vars => TypeOK'
  <2> SUFFICES ASSUME TypeOK, [Next]_vars
               PROVE  TypeOK'
    OBVIOUS
  <2> USE LengthsAssumption, TimeDelaysAssumption, SizeDelaysAssumption,
          MaxEventsAssumption DEF TypeOK
  <2>1. ASSUME NEW c \in Callers, NEW length \in Lengths, onFilterEvent(c, length)
        PROVE  TypeOK'
    <3>1. [id |-> posted + 1, length |-> length] \in Event
      BY <2>1 DEF onFilterEvent, Event
    <3>2. /\ mCallbackBuffer' \in Seq(Event)
          /\ mDataLength' \in Nat
          /\ posted' \in 0..MaxEvents
      BY <2>1, <3>1 DEF onFilterEvent
    <3>3. mIsConditionMet' \in BOOLEAN /\ caller' \in [Callers -> {"idle", "notify"}]
      BY <2>1 DEF onFilterEvent, RaiseConditionIf, RaiseCondition
    <3>4. UNCHANGED <<mTimeDelayInMs, mDataSizeDelayInBytes, mIsRunning, lockFree,
                      thread, waitTimed, dtor, delivered>>
      BY <2>1 DEF onFilterEvent, hints
    <3> QED BY <3>2, <3>3, <3>4
  <2>2. ASSUME NEW c \in Callers, flushEvents(c)
        PROVE  TypeOK'
    BY <2>2 DEF flushEvents, hints
  <2>3. ASSUME NEW c \in Callers, NEW timeDelay \in TimeDelays,
               setTimeDelayHint(c, timeDelay)
        PROVE  TypeOK'
    BY <2>3 DEF setTimeDelayHint, RaiseCondition
  <2>4. ASSUME NEW c \in Callers, NEW dataSizeDelay \in SizeDelays,
               setDataSizeDelayHint(c, dataSizeDelay)
        PROVE  TypeOK'
    BY <2>4 DEF setDataSizeDelayHint, RaiseConditionIf, RaiseCondition
  <2>5. ASSUME NEW c \in Callers, NotifyAll(c)
        PROVE  TypeOK'
    BY <2>5 DEF NotifyAll, Wake, hints
  <2>6. CASE threadLoop
    BY <2>6 DEF threadLoop, hints
  <2>7. CASE threadLoopOnce
    <3>1. \/ LeaveWait
          \/ Block(mTimeDelayInMs > 0)
          \/ Block(waitTimed)
      BY <2>7 DEF threadLoopOnce
    <3>2. /\ mIsConditionMet' \in BOOLEAN
          /\ lockFree' \in BOOLEAN
          /\ waitTimed' \in BOOLEAN
          /\ thread' \in {"loop", "waiting", "callback"}
      <4>1. CASE LeaveWait
        BY <4>1 DEF LeaveWait
      <4>2. CASE Block(mTimeDelayInMs > 0)
        <5>1. (mTimeDelayInMs > 0) \in BOOLEAN
          OBVIOUS
        <5> QED BY <4>2, <5>1 DEF Block
      <4>3. CASE Block(waitTimed)
        BY <4>3 DEF Block
      <4> QED BY <3>1, <4>1, <4>2, <4>3
    <3>3. UNCHANGED <<mCallbackBuffer, mDataLength, mTimeDelayInMs,
                      mDataSizeDelayInBytes, mIsRunning, caller, dtor, posted, delivered>>
      BY <2>7 DEF threadLoopOnce, hints
    <3> QED BY <3>2, <3>3
  <2>8. CASE WaitTimeout
    BY <2>8 DEF WaitTimeout, hints
  <2>9. CASE CallbackReturns
    BY <2>9 DEF CallbackReturns, hints
  <2>10. CASE SpuriousWakeup
    BY <2>10 DEF SpuriousWakeup, hints
  <2>11. CASE stop
    BY <2>11 DEF stop, ClearRunning, SetCondition, StopNotify, Join, Wake, hints
  <2>12. CASE UNCHANGED vars
    BY <2>12 DEF vars, hints
  <2> QED
    BY <2>1, <2>2, <2>3, <2>4, <2>5, <2>6, <2>7, <2>8, <2>9, <2>10, <2>11, <2>12
       DEF Next, CallerStep, ThreadStep
<1> QED BY <1>1, <1>2, PTL DEF Spec

-----------------------------------------------------------------------------
(* The inductive invariant: who holds mLock, how far stop() has got, and   *)
(* the two facts about lost wakeups.                                       *)

\* mLock is held across steps by the callback and by nothing else.
LockDiscipline == lockFree <=> thread # "callback"

\* mIsRunning falls when stop() starts; it returns after the thread has exited.
StopOrder ==
    /\ mIsRunning <=> dtor = "idle"
    /\ dtor = "returned" => thread = "exited"

\* A callback in progress has events to hand over.
BatchNotEmpty == thread = "callback" => mCallbackBuffer # << >>

IInv ==
    /\ LockDiscipline
    /\ StopOrder
    /\ BatchNotEmpty
    /\ NoStrandedEvents
    /\ TimeoutMatchesHint

\* IInv is inductive relative to the types.
LEMMA Inductive == TypeOK /\ IInv /\ [Next]_vars => IInv'
<1> SUFFICES ASSUME TypeOK, IInv, [Next]_vars
             PROVE  IInv'
  OBVIOUS
<1> USE DEF TypeOK, IInv, LockDiscipline, StopOrder, BatchNotEmpty,
            NoStrandedEvents, TimeoutMatchesHint, OwedNow
<1>1. ASSUME NEW c \in Callers, NEW length \in Lengths, onFilterEvent(c, length)
      PROVE  IInv'
  <2>1. dtor = "idle" /\ thread # "callback"
    BY <1>1 DEF onFilterEvent, CanCall
  <2>2. UNCHANGED <<mTimeDelayInMs, mDataSizeDelayInBytes, mIsRunning, lockFree,
                    thread, waitTimed, dtor>>
    BY <1>1 DEF onFilterEvent, hints
  <2>3. mIsConditionMet => mIsConditionMet'
    BY <1>1 DEF onFilterEvent, RaiseConditionIf, RaiseCondition
  <2>4. NoStrandedEvents'
    BY <1>1, <2>2, LengthsAssumption
       DEF onFilterEvent, RaiseConditionIf, RaiseCondition,
           isDataSizeDelayConditionMetLocked
  <2>5. TimeoutMatchesHint'
    BY <2>2, <2>3
  <2> QED BY <2>1, <2>2, <2>4, <2>5
<1>2. ASSUME NEW c \in Callers, flushEvents(c)
      PROVE  IInv'
  BY <1>2 DEF flushEvents, CanCall, hints
<1>3. ASSUME NEW c \in Callers, NEW timeDelay \in TimeDelays,
             setTimeDelayHint(c, timeDelay)
      PROVE  IInv'
  BY <1>3 DEF setTimeDelayHint, CanCall, RaiseCondition
<1>4. ASSUME NEW c \in Callers, NEW dataSizeDelay \in SizeDelays,
             setDataSizeDelayHint(c, dataSizeDelay)
      PROVE  IInv'
  BY <1>4 DEF setDataSizeDelayHint, CanCall, RaiseConditionIf, RaiseCondition,
              isDataSizeDelayConditionMetLocked
<1>5. ASSUME NEW c \in Callers, NotifyAll(c)
      PROVE  IInv'
  BY <1>5 DEF NotifyAll, Wake, hints
<1>6. CASE threadLoop
  BY <1>6 DEF threadLoop, hints
<1>7. CASE threadLoopOnce
  <2>1. UNCHANGED <<mCallbackBuffer, mDataLength, mTimeDelayInMs,
                    mDataSizeDelayInBytes, mIsRunning, dtor>>
    BY <1>7 DEF threadLoopOnce, hints
  <2>2. lockFree /\ dtor # "returned"
    BY <1>7 DEF threadLoopOnce
  <2>3. CASE LeaveWait
    BY <2>1, <2>2, <2>3 DEF LeaveWait
  <2>4. CASE Block(mTimeDelayInMs > 0)
    BY <2>1, <2>2, <2>4 DEF Block
  <2>5. CASE thread = "wantLock" /\ Block(waitTimed)
    BY <2>1, <2>2, <2>5 DEF Block
  <2> QED BY <1>7, <2>3, <2>4, <2>5 DEF threadLoopOnce
<1>8. CASE WaitTimeout
  BY <1>8 DEF WaitTimeout, hints
<1>9. CASE CallbackReturns
  BY <1>9 DEF CallbackReturns, hints
<1>10. CASE SpuriousWakeup
  BY <1>10 DEF SpuriousWakeup, hints
<1>11. CASE stop
  <2>1. CASE ClearRunning
    BY <2>1 DEF ClearRunning, hints
  <2>2. CASE SetCondition
    BY <2>2 DEF SetCondition, hints
  <2>3. CASE StopNotify
    BY <2>3 DEF StopNotify, Wake, hints
  <2>4. CASE Join
    BY <2>4 DEF Join, hints
  <2> QED BY <1>11, <2>1, <2>2, <2>3, <2>4 DEF stop
<1>12. CASE UNCHANGED vars
  BY <1>12 DEF vars, hints
<1> QED
  BY <1>1, <1>2, <1>3, <1>4, <1>5, <1>6, <1>7, <1>8, <1>9, <1>10, <1>11, <1>12
     DEF Next, CallerStep, ThreadStep

LEMMA Invariance == Spec => []IInv
<1>1. Init => IInv
  BY DEF Init, IInv, LockDiscipline, StopOrder, BatchNotEmpty, NoStrandedEvents,
         TimeoutMatchesHint, OwedNow
<1> QED BY <1>1, Typing, Inductive, PTL DEF Spec

\* No wakeup is lost (onFilterEvent, setDataSizeDelayHint, setTimeDelayHint and
\* flushEvents against threadLoopOnce): events that are owed at once always find
\* the predicate of mCv true or the callback under way.
THEOREM NoLostWakeup == Spec => []NoStrandedEvents
BY Invariance, PTL DEF IInv

\* The callback thread never sleeps on an outdated time hint.
THEOREM WaitFollowsHint == Spec => []TimeoutMatchesHint
BY Invariance, PTL DEF IInv

-----------------------------------------------------------------------------
(* The byte count and the order of events.                                 *)

\* The buffered bytes, summed from the front: what DataLengthAgrees says of a buffer b
\* and a count n.
IsSumOf(sum, b, n) ==
    /\ sum \in [0..Len(b) -> 0..n] /\ sum[0] = 0 /\ sum[Len(b)] = n
    /\ \A i \in 1..Len(b) : sum[i] = sum[i - 1] + b[i].length

LEMMA EmptySum == \E sum \in [0..Len(<< >>) -> 0..0] : IsSumOf(sum, << >>, 0)
<1> DEFINE sum == [i \in 0..0 |-> 0]
<1>1. Len(<< >>) = 0
  OBVIOUS
<1>2. sum \in [0..0 -> 0..0] /\ sum[0] = 0
  OBVIOUS
<1> HIDE DEF sum
<1> QED BY <1>1, <1>2 DEF IsSumOf

\* One more event adds its own bytes.
LEMMA AppendedSum ==
    ASSUME NEW b \in Seq(Event), NEW n \in Nat, NEW sum, IsSumOf(sum, b, n),
           NEW e \in Event, NEW m \in Nat, m = n + e.length, e.length \in Nat
    PROVE  \E more \in [0..Len(Append(b, e)) -> 0..m] : IsSumOf(more, Append(b, e), m)
<1> DEFINE c == Append(b, e)
           more == [i \in 0..Len(b) + 1 |-> IF i = Len(b) + 1 THEN m ELSE sum[i]]
<1>1. Len(b) \in Nat /\ Len(c) = Len(b) + 1 /\ c[Len(b) + 1] = e
      /\ \A i \in 1..Len(b) : c[i] = b[i]
  OBVIOUS
<1>2. /\ \A i \in 0..Len(b) : sum[i] \in 0..n
      /\ sum[0] = 0 /\ sum[Len(b)] = n
      /\ \A i \in 1..Len(b) : sum[i] = sum[i - 1] + b[i].length
  BY DEF IsSumOf
<1> HIDE DEF c
<1>3. more \in [0..Len(b) + 1 -> 0..m]
  BY <1>1, <1>2
<1>4. more[0] = 0 /\ more[Len(b) + 1] = m /\ \A i \in 0..Len(b) : more[i] = sum[i]
  BY <1>1, <1>2
<1> HIDE DEF more
<1>5. ASSUME NEW i \in 1..Len(b) + 1
      PROVE  more[i] = more[i - 1] + c[i].length
  <2>1. CASE i = Len(b) + 1
    BY <1>1, <1>2, <1>4, <2>1
  <2>2. CASE i # Len(b) + 1
    <3>1. i \in 1..Len(b) /\ i \in 0..Len(b) /\ i - 1 \in 0..Len(b)
      BY <1>1, <2>2
    <3> QED BY <1>1, <1>2, <1>4, <3>1
  <2> QED BY <2>1, <2>2
<1>6. IsSumOf(more, c, m)
  BY <1>1, <1>3, <1>4, <1>5 DEF IsSumOf
<1> QED BY <1>1, <1>3, <1>6 DEF c

\* The ids of what the client has received and what waits for it rise.
Received == delivered \o mCallbackBuffer
Rising(s) == \A i, j \in DOMAIN s : i < j => s[i].id < s[j].id
InOrderOnce == Rising(delivered)

OrderInv ==
    /\ Rising(Received)
    /\ \A i \in DOMAIN Received : Received[i].id <= posted

\* What has been posted so far is followed by what is posted next.
LEMMA AppendedRising ==
    ASSUME NEW s \in Seq(Event), NEW e \in Event, NEW n \in Nat, Rising(s), e.id = n + 1,
           \A i \in DOMAIN s : s[i].id <= n
    PROVE  Rising(Append(s, e)) /\ \A i \in DOMAIN Append(s, e) : Append(s, e)[i].id <= n + 1
<1> DEFINE r == Append(s, e)
<1>1. /\ Len(s) \in Nat /\ DOMAIN s = 1..Len(s) /\ DOMAIN r = 1..Len(s) + 1
      /\ r[Len(s) + 1] = e /\ \A i \in 1..Len(s) : r[i] = s[i] /\ s[i] \in Event
  OBVIOUS
<1>2. \A x \in Event : x.id \in Nat
  BY MaxEventsAssumption DEF Event
<1> HIDE DEF r
<1>3. ASSUME NEW i \in DOMAIN r
      PROVE  r[i].id <= n + 1
  BY <1>1, <1>2
<1>4. ASSUME NEW i \in DOMAIN r, NEW j \in DOMAIN r, i < j
      PROVE  r[i].id < r[j].id
  <2>1. i \in 1..Len(s) /\ r[i] = s[i]
    BY <1>1, <1>4
  <2>2. CASE j = Len(s) + 1
    BY <1>1, <1>2, <2>1, <2>2
  <2>3. CASE j # Len(s) + 1
    <3>1. j \in 1..Len(s) /\ r[j] = s[j]
      BY <1>1, <2>3
    <3> QED BY <1>1, <1>4, <2>1, <3>1 DEF Rising
  <2> QED BY <2>2, <2>3
<1> QED BY <1>3, <1>4 DEF r, Rising

\* Only a post, a flush and the return of the client's callback touch events.
LEMMA EventsMove ==
    ASSUME TypeOK, [Next]_vars
    PROVE  \/ \E c \in Callers, length \in Lengths : onFilterEvent(c, length)
           \/ \E c \in Callers : flushEvents(c)
           \/ CallbackReturns
           \/ UNCHANGED <<mCallbackBuffer, mDataLength, posted, delivered>>
<1>1. ASSUME NEW c \in Callers, CallerStep(c)
      PROVE  \/ \E length \in Lengths : onFilterEvent(c, length)
             \/ flushEvents(c)
             \/ UNCHANGED <<mCallbackBuffer, mDataLength, posted, delivered>>
  BY <1>1 DEF CallerStep, setTimeDelayHint, setDataSizeDelayHint, NotifyAll
<1>2. CASE ThreadStep \/ SpuriousWakeup \/ UNCHANGED vars
  BY <1>2 DEF ThreadStep, threadLoop, threadLoopOnce, WaitTimeout, SpuriousWakeup, vars
<1>3. CASE stop
  BY <1>3 DEF stop, ClearRunning, SetCondition, StopNotify, Join
<1> QED BY <1>1, <1>2, <1>3 DEF Next

LEMMA CountKept == TypeOK /\ DataLengthAgrees /\ [Next]_vars => DataLengthAgrees'
<1> SUFFICES ASSUME TypeOK, DataLengthAgrees, [Next]_vars
             PROVE  DataLengthAgrees'
  OBVIOUS
<1>1. ASSUME NEW c \in Callers, NEW length \in Lengths, onFilterEvent(c, length)
      PROVE  DataLengthAgrees'
  <2> DEFINE e == [id |-> posted + 1, length |-> length]
  <2>1. e \in Event /\ e.length = length /\ length \in Nat
    BY <1>1, LengthsAssumption, MaxEventsAssumption DEF onFilterEvent, Event, TypeOK
  <2>2. mCallbackBuffer' = Append(mCallbackBuffer, e) /\ mDataLength' = mDataLength + length
    BY <1>1 DEF onFilterEvent
  <2>3. PICK sum : IsSumOf(sum, mCallbackBuffer, mDataLength)
    BY DEF DataLengthAgrees, IsSumOf
  <2> HIDE DEF e
  <2>4. mCallbackBuffer \in Seq(Event) /\ mDataLength \in Nat /\ mDataLength' \in Nat
    BY <2>1, <2>2 DEF TypeOK
  <2>5. \E more \in [0..Len(mCallbackBuffer') -> 0..mDataLength'] :
            IsSumOf(more, mCallbackBuffer', mDataLength')
    BY <2>1, <2>2, <2>3, <2>4, AppendedSum
  <2> QED BY <2>5 DEF DataLengthAgrees, IsSumOf
<1>2. ASSUME mCallbackBuffer' = << >>, mDataLength' = 0
      PROVE  DataLengthAgrees'
  BY <1>2, EmptySum DEF DataLengthAgrees, IsSumOf
<1>3. ASSUME UNCHANGED <<mCallbackBuffer, mDataLength>>
      PROVE  DataLengthAgrees'
  BY <1>3 DEF DataLengthAgrees
<1> QED BY <1>1, <1>2, <1>3, EventsMove DEF flushEvents, CallbackReturns

\* The byte count that the size hint is compared with is that of the buffered events,
\* however posts, flushes and deliveries are mixed.
THEOREM CountAgrees == Spec => []DataLengthAgrees
<1>1. Init => DataLengthAgrees
  BY EmptySum DEF Init, DataLengthAgrees, IsSumOf
<1> QED BY <1>1, Typing, CountKept, PTL DEF Spec

LEMMA OrderKept == TypeOK /\ OrderInv /\ [Next]_vars => OrderInv'
<1> SUFFICES ASSUME TypeOK, OrderInv, [Next]_vars
             PROVE  OrderInv'
  OBVIOUS
<1>t. mCallbackBuffer \in Seq(Event) /\ delivered \in Seq(Event) /\ posted \in Nat
  BY DEF TypeOK
<1>1. ASSUME NEW c \in Callers, NEW length \in Lengths, onFilterEvent(c, length)
      PROVE  OrderInv'
  <2> DEFINE e == [id |-> posted + 1, length |-> length]
  <2>1. e \in Event /\ e.id = posted + 1
    BY <1>1, MaxEventsAssumption DEF onFilterEvent, Event, TypeOK
  <2>2. mCallbackBuffer' = Append(mCallbackBuffer, e) /\ delivered' = delivered /\ posted' = posted + 1
    BY <1>1 DEF onFilterEvent
  <2> HIDE DEF e
  <2>3. Received' = Append(Received, e) /\ Received \in Seq(Event)
    BY <1>t, <2>1, <2>2 DEF Received
  <2> QED BY <1>t, <2>1, <2>2, <2>3, AppendedRising DEF OrderInv
<1>2. ASSUME NEW c \in Callers, flushEvents(c)
      PROVE  OrderInv'
  <2>1. Received' = delivered /\ posted' = posted
    BY <1>t, <1>2 DEF flushEvents, Received
  <2>2. DOMAIN delivered \subseteq DOMAIN Received /\ \A i \in DOMAIN delivered : Received[i] = delivered[i]
    BY <1>t DEF Received
  <2> QED BY <2>1, <2>2 DEF OrderInv, Rising
<1>3. CASE CallbackReturns
  <2>1. Received' = Received /\ posted' = posted
    BY <1>t, <1>3 DEF CallbackReturns, Received
  <2> QED BY <2>1 DEF OrderInv
<1>4. CASE UNCHANGED <<mCallbackBuffer, mDataLength, posted, delivered>>
  BY <1>4 DEF OrderInv, Received
<1> QED BY <1>1, <1>2, <1>3, <1>4, EventsMove

\* The client receives events in the order they were posted and none twice, whatever is
\* posted or flushed around its callback.
THEOREM Ordered == Spec => []InOrderOnce
<1>1. Init => OrderInv
  <2> SUFFICES ASSUME Init
               PROVE  OrderInv
    OBVIOUS
  <2>1. Received = << >>
    BY DEF Init, Received
  <2> QED BY <2>1 DEF OrderInv, Rising
<1>2. TypeOK /\ OrderInv => InOrderOnce
  <2> SUFFICES ASSUME TypeOK, OrderInv
               PROVE  InOrderOnce
    OBVIOUS
  <2>1. DOMAIN delivered \subseteq DOMAIN Received /\ \A i \in DOMAIN delivered : Received[i] = delivered[i]
    BY DEF TypeOK, Received
  <2> QED BY <2>1 DEF OrderInv, Rising, InOrderOnce
<1> QED BY <1>1, <1>2, Typing, OrderKept, PTL DEF Spec

-----------------------------------------------------------------------------
(* Refinement.                                                             *)

\* Every step of the scheduler is a step of the event stream or leaves it alone.
LEMMA StepSimulation ==
    TypeOK /\ IInv /\ [Next]_vars => [Stream!Next]_(Stream!vars)
<1> SUFFICES ASSUME TypeOK, IInv, [Next]_vars
             PROVE  [Stream!Next]_(Stream!vars)
  OBVIOUS
<1> USE DEF Stream!vars
<1>1. ASSUME NEW c \in Callers, NEW length \in Lengths, onFilterEvent(c, length)
      PROVE  Stream!Next
  <2> DEFINE e == [id |-> posted + 1, length |-> length]
  <2>1. e \in Event
    BY <1>1, MaxEventsAssumption DEF onFilterEvent, Event, TypeOK
  <2>2. Stream!Post(e)
    BY <1>1 DEF onFilterEvent, CanCall, Stream!Post
  <2> QED BY <2>1, <2>2 DEF Stream!Next
<1>2. ASSUME NEW c \in Callers, flushEvents(c)
      PROVE  Stream!Next
  BY <1>2 DEF flushEvents, CanCall, Stream!Flush, Stream!Next
<1>3. ASSUME CallbackReturns
      PROVE  Stream!Next
  <2>1. dtor # "returned" /\ dtor' = dtor /\ mCallbackBuffer # << >>
    BY <1>3 DEF CallbackReturns, IInv, StopOrder, BatchNotEmpty
  <2>2. Stream!Deliver
    BY <1>3, <2>1 DEF CallbackReturns, Stream!Deliver
  <2> QED BY <2>2 DEF Stream!Next
<1>4. ASSUME Join
      PROVE  Stream!Next
  BY <1>4 DEF Join, Stream!Shut, Stream!Next
<1>5. ASSUME \/ \E c \in Callers : \/ \E timeDelay \in TimeDelays :
                                           setTimeDelayHint(c, timeDelay)
                                   \/ \E dataSizeDelay \in SizeDelays :
                                           setDataSizeDelayHint(c, dataSizeDelay)
                                   \/ NotifyAll(c)
             \/ threadLoop \/ threadLoopOnce \/ WaitTimeout \/ SpuriousWakeup
             \/ UNCHANGED vars
      PROVE  UNCHANGED Stream!vars
  BY <1>5 DEF setTimeDelayHint, setDataSizeDelayHint, NotifyAll, threadLoop,
              threadLoopOnce, WaitTimeout, SpuriousWakeup, vars
<1>6. ASSUME ClearRunning \/ SetCondition \/ StopNotify
      PROVE  UNCHANGED Stream!vars
  BY <1>6 DEF ClearRunning, SetCondition, StopNotify
<1> QED
  BY <1>1, <1>2, <1>3, <1>4, <1>5, <1>6 DEF Next, CallerStep, ThreadStep, stop

\* The scheduler implements EventStream: order, no duplicate, no loss but by a
\* flush, no callback after the destructor has returned.
THEOREM ImplementsEventStream == Spec => StreamSpec
<1>1. Init => Stream!Init
  BY DEF Init, Stream!Init
<1> QED BY <1>1, Typing, Invariance, StepSimulation, PTL DEF Spec, StreamSpec, Stream!Spec
=============================================================================
