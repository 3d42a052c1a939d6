----------------------------- MODULE AmDmx_proof -----------------------------
(***************************************************************************)
(* Proofs about AmDmx, for every number of filters, every mask width and   *)
(* every set of filters the kernel may refuse to stop.                     *)
(***************************************************************************)
EXTENDS AmDmx, TLAPS

\* The data thread looks at a filter of the table while it calls it.
CursorInRange == thread \in {"call", "callback"} => cursor \in Ids

\* The data thread lives only while the device is open or being closed, and a
\* device that was not opened yet has no filter.
ThreadWithinDevice ==
    /\ thread \notin {"none", "exited"} => Alive
    /\ device = "new" => \A i \in Ids : ~used[i] /\ ~fd[i]

IInv ==
    /\ TypeOK
    /\ CursorInRange
    /\ ThreadWithinDevice
    /\ TableConsistent
    /\ ClosedIsQuiet
    /\ NoMissedStart

\* The bits dvb_poll sets are bits of the mask, whatever the shift yields.
LEMMA MaskBitInRange ==
    ASSUME NEW slot \in Nat
    PROVE  MaskBit(slot) \subseteq 0..(MaskBits - 1)
<1>1. slot % MaskBits \in 0..(MaskBits - 1)
  BY MaskBitsAssumption
<1> QED BY <1>1, MaskBitsAssumption DEF MaskBit

LEMMA InitIInv == Init => IInv
<1> SUFFICES ASSUME Init
             PROVE  IInv
  OBVIOUS
<1>1. None \in [Ids -> BOOLEAN] /\ \A i \in Ids : ~None[i]
  BY DEF None
<1>2. 1 \in 1..EventSlot
  BY FilterCountAssumption DEF EventSlot
<1>3. TypeOK
  BY <1>1, <1>2 DEF Init, Fresh, TypeOK
<1> QED BY <1>1, <1>3 DEF Init, Fresh, IInv, CursorInRange, ThreadWithinDevice, Alive,
                          TableConsistent, ClosedIsQuiet, NoMissedStart

-----------------------------------------------------------------------------
(* The data thread changes nothing of the table: one lemma for its steps.  *)

LEMMA ThreadStep == IInv /\ dmx_data_thread => IInv'
<1> SUFFICES ASSUME IInv, dmx_data_thread
             PROVE  IInv'
  OBVIOUS
<1>1. /\ UNCHANGED <<used, enable, esOutput, cb, device, enable_thread, shift, fd, running>>
      /\ thread \notin {"none", "exited"}
  BY DEF dmx_data_thread, EnterPoll, dvb_poll, PollTimeout, Dispatch, Call, AM_DMX_Read,
         CallbackReturns, thread_unchanged, table, kernel
<1>2. TypeOK /\ CursorInRange /\ Alive
  BY <1>1 DEF IInv, ThreadWithinDevice
<1>3. TypeOK' /\ CursorInRange' /\ thread' # "none"
  <2>1. CASE EnterPoll
    BY <1>1, <1>2, <2>1, FilterCountAssumption
       DEF EnterPoll, TypeOK, CursorInRange, kernel, EventSlot
  <2>2. CASE dvb_poll
    <3>1. Readable \subseteq Ids \cup {EventSlot}
      BY <1>2 DEF Readable, TypeOK
    <3>2. \A slot \in Readable : MaskBit(slot) \subseteq 0..(MaskBits - 1)
      BY <3>1, MaskBitInRange, FilterCountAssumption DEF Ids, EventSlot
    <3>3. mask' \subseteq 0..(MaskBits - 1)
      BY <2>2, <3>2 DEF dvb_poll
    <3>4. /\ signalled' = Readable /\ pollSet' = {} /\ evtfd' = FALSE /\ cursor' = 1
          /\ thread' \in {"top", "dispatch"}
          /\ UNCHANGED <<ready, esCall>>
      BY <2>2 DEF dvb_poll
    <3>5. cursor' \in 1..EventSlot
      BY <3>4, FilterCountAssumption DEF EventSlot
    <3> QED BY <1>1, <1>2, <3>1, <3>3, <3>4, <3>5 DEF TypeOK, CursorInRange
  <2>3. CASE PollTimeout
    BY <1>1, <1>2, <2>3 DEF PollTimeout, TypeOK, CursorInRange, kernel
  <2>4. CASE Dispatch
    BY <1>1, <1>2, <2>4, FilterCountAssumption
       DEF Dispatch, TypeOK, CursorInRange, kernel, Ids, EventSlot
  <2>5. CASE Call
    BY <1>1, <1>2, <2>5, FilterCountAssumption
       DEF Call, TypeOK, CursorInRange, kernel, Ids, EventSlot
  <2>6. CASE AM_DMX_Read
    <3>1. ready' \in [Ids -> BOOLEAN]
      BY <1>2, <2>6 DEF AM_DMX_Read, TypeOK
    <3>2. /\ thread = "callback" /\ thread' = "dispatch" /\ cursor' = cursor + 1
          /\ esCall' = FALSE /\ UNCHANGED <<evtfd, pollSet, signalled, mask>>
      BY <2>6 DEF AM_DMX_Read, CallbackReturns
    <3>3. cursor' \in 1..EventSlot
      BY <1>2, <3>2, FilterCountAssumption DEF CursorInRange, Ids, EventSlot
    <3> QED BY <1>1, <1>2, <3>1, <3>2, <3>3 DEF TypeOK, CursorInRange
  <2> QED BY <2>1, <2>2, <2>3, <2>4, <2>5, <2>6 DEF dmx_data_thread
<1>4. ThreadWithinDevice' /\ ClosedIsQuiet'
  BY <1>1, <1>2 DEF IInv, ThreadWithinDevice, ClosedIsQuiet, Alive
<1>5. TableConsistent'
  BY <1>1 DEF IInv, TableConsistent, Alive
<1>6. NoMissedStart'
  <2>1. CASE EnterPoll
    <3>1. thread' = "polling" => pollSet' = {i \in Ids : fd[i]}
      BY <2>1 DEF EnterPoll
    <3> QED BY <1>1, <1>2, <3>1 DEF IInv, TableConsistent, NoMissedStart
  <2>2. CASE ~EnterPoll
    <3>1. thread' # "polling"
      BY <2>2 DEF dmx_data_thread, dvb_poll, PollTimeout, Dispatch, Call, AM_DMX_Read,
                  CallbackReturns
    <3> QED BY <3>1 DEF NoMissedStart
  <2> QED BY <2>1, <2>2
<1> QED BY <1>3, <1>4, <1>5, <1>6 DEF IInv

-----------------------------------------------------------------------------
(* The calls of clients.                                                   *)

\* Stopping filters keeps the types and enables nothing; a filter that stays
\* enabled stays running.
LEMMA StopFacts ==
    ASSUME TypeOK, TableConsistent, NEW S, NEW failing, dmx_stop_filter(S, failing)
    PROVE  /\ enable' \in [Ids -> BOOLEAN]
           /\ running' \in [Ids -> BOOLEAN]
           /\ ready' \in [Ids -> BOOLEAN]
           /\ \A i \in Ids : /\ enable'[i] => enable[i] /\ running'[i]
                             /\ i \in S => ~enable'[i]
BY DEF TypeOK, TableConsistent, dmx_stop_filter, Stopped

\* Freeing filters keeps the types and the table consistent.
LEMMA FreeFacts ==
    ASSUME TypeOK, TableConsistent, NEW S, NEW failing \in MayFail(S),
           dmx_free_filter(S, failing)
    PROVE  /\ used' \in [Ids -> BOOLEAN]
           /\ fd' \in [Ids -> BOOLEAN]
           /\ \A i \in Ids : /\ Alive => (used'[i] <=> fd'[i])
                             /\ enable'[i] => used'[i]
                             /\ i \in S /\ fd'[i] /\ Alive => running'[i]
<1>1. \A i \in Ids : /\ enable'[i] => enable[i] /\ running'[i]
                     /\ i \in S => ~enable'[i]
  BY StopFacts DEF dmx_free_filter
<1>2. \A i \in Ids : /\ used'[i] <=> (used[i] /\ i \notin S \ failing)
                     /\ fd'[i] <=> (fd[i] /\ i \notin S \ failing)
  BY DEF dmx_free_filter, TypeOK
<1>3. \A i \in failing : i \in Ids => i \in S /\ enable[i]
  BY DEF MayFail
<1>4. ASSUME NEW i \in Ids, i \in failing
      PROVE  running'[i]
  <2>1. running'[i] <=> (running[i] /\ (i \in failing \/ i \notin {j \in S : enable[j]}))
    BY DEF dmx_free_filter, dmx_stop_filter, Stopped
  <2> QED BY <1>3, <1>4, <2>1 DEF TableConsistent
<1>5. used' \in [Ids -> BOOLEAN] /\ fd' \in [Ids -> BOOLEAN]
  BY DEF dmx_free_filter, TypeOK
<1> QED BY <1>1, <1>2, <1>3, <1>4, <1>5 DEF TableConsistent, TypeOK

\* A step of a client that leaves the data thread, the device and the eventfd
\* alone keeps IInv if it keeps the table well formed and enables nothing.
LEMMA ClientFrame ==
    ASSUME IInv, Alive,
           UNCHANGED <<thread, pollSet, signalled, mask, cursor, esCall, evtfd,
                       device, enable_thread, shift>>,
           used' \in [Ids -> BOOLEAN], enable' \in [Ids -> BOOLEAN],
           esOutput' \in [Ids -> BOOLEAN], cb' \in [Ids -> BOOLEAN],
           fd' \in [Ids -> BOOLEAN], running' \in [Ids -> BOOLEAN],
           ready' \in [Ids -> BOOLEAN],
           \A i \in Ids : /\ used'[i] <=> fd'[i]
                          /\ enable'[i] => enable[i] /\ used'[i] /\ running'[i]
    PROVE  IInv'
<1>1. TypeOK' /\ CursorInRange'
  BY DEF IInv, TypeOK, CursorInRange
<1>2. ThreadWithinDevice' /\ ClosedIsQuiet'
  BY DEF IInv, ThreadWithinDevice, ClosedIsQuiet, Alive
<1>3. TableConsistent' /\ NoMissedStart'
  BY DEF IInv, TableConsistent, NoMissedStart
<1> QED BY <1>1, <1>2, <1>3 DEF IInv

LEMMA ClientStep ==
    ASSUME IInv, NEW i \in Ids, ClientCall(i)
    PROVE  IInv'
<1> USE DEF table, kernel, local
<1>1. Alive /\ used[i] /\ TypeOK /\ TableConsistent
  BY DEF IInv, ClientCall, AM_DMX_FreeFilter, AM_DMX_StopFilter, AM_DMX_StartFilter,
         AM_DMX_SetSecFilter, AM_DMX_SetPesFilter, Configure, AM_DMX_SetCallback,
         dmx_get_used_filter
<1>2. CASE AM_DMX_FreeFilter(i)
  <2>1. PICK failing \in MayFail({i}) : dmx_free_filter({i}, failing)
    BY <1>2 DEF AM_DMX_FreeFilter
  <2>2. UNCHANGED <<esOutput, cb, evtfd, local, device, enable_thread, shift>>
    BY <1>2 DEF AM_DMX_FreeFilter
  <2>3. dmx_stop_filter({i}, failing)
    BY <2>1 DEF dmx_free_filter
  <2>4. /\ used' \in [Ids -> BOOLEAN] /\ fd' \in [Ids -> BOOLEAN]
        /\ \A j \in Ids : (used'[j] <=> fd'[j]) /\ (enable'[j] => used'[j])
    BY <1>1, <2>1, FreeFacts
  <2>5. /\ enable' \in [Ids -> BOOLEAN] /\ running' \in [Ids -> BOOLEAN]
        /\ ready' \in [Ids -> BOOLEAN]
        /\ \A j \in Ids : enable'[j] => enable[j] /\ running'[j]
    BY <1>1, <2>3, StopFacts
  <2>6. esOutput' \in [Ids -> BOOLEAN] /\ cb' \in [Ids -> BOOLEAN]
    BY <1>1, <2>2 DEF TypeOK
  <2> QED BY <1>1, <2>2, <2>4, <2>5, <2>6, ClientFrame
<1>3. ASSUME NEW failing, dmx_stop_filter({i}, failing),
             UNCHANGED <<used, cb, fd, evtfd, local, device, enable_thread, shift>>,
             esOutput' \in [Ids -> BOOLEAN]
      PROVE  IInv'
  <2>1. /\ enable' \in [Ids -> BOOLEAN] /\ running' \in [Ids -> BOOLEAN]
        /\ ready' \in [Ids -> BOOLEAN]
        /\ \A j \in Ids : enable'[j] => enable[j] /\ running'[j]
    BY <1>1, <1>3, StopFacts
  <2>2. /\ used' \in [Ids -> BOOLEAN] /\ fd' \in [Ids -> BOOLEAN] /\ cb' \in [Ids -> BOOLEAN]
        /\ \A j \in Ids : (used'[j] <=> fd'[j]) /\ (enable[j] => used'[j])
    BY <1>1, <1>3 DEF TypeOK, TableConsistent
  <2> QED BY <1>1, <1>3, <2>1, <2>2, ClientFrame
<1>4. CASE AM_DMX_StopFilter(i)
  BY <1>1, <1>3, <1>4 DEF AM_DMX_StopFilter, TypeOK
<1>5. ASSUME NEW es \in BOOLEAN, Configure(i, es)
      PROVE  IInv'
  <2>1. PICK failing \in MayFail({i}) :
             /\ dmx_stop_filter({i}, failing)
             /\ esOutput' = IF i \in failing THEN esOutput
                            ELSE [esOutput EXCEPT ![i] = es]
    BY <1>5 DEF Configure
  <2>2. UNCHANGED <<used, cb, fd, evtfd, local, device, enable_thread, shift>>
    BY <1>5 DEF Configure
  <2>3. esOutput' \in [Ids -> BOOLEAN]
    BY <1>1, <2>1 DEF TypeOK
  <2> QED BY <1>3, <2>1, <2>2, <2>3
<1>6. CASE AM_DMX_SetSecFilter(i) \/ AM_DMX_SetPesFilter(i)
  BY <1>5, <1>6 DEF AM_DMX_SetSecFilter, AM_DMX_SetPesFilter
<1>7. ASSUME NEW registered \in BOOLEAN, AM_DMX_SetCallback(i, registered)
      PROVE  IInv'
  <2>1. cb' \in [Ids -> BOOLEAN]
    BY <1>1, <1>7 DEF AM_DMX_SetCallback, TypeOK
  <2>2. UNCHANGED <<used, enable, esOutput, kernel, local, device, enable_thread, shift>>
    BY <1>7 DEF AM_DMX_SetCallback
  <2>3. \A j \in Ids : /\ used'[j] <=> fd'[j]
                       /\ enable'[j] => enable[j] /\ used'[j] /\ running'[j]
    BY <1>1, <2>2 DEF TableConsistent
  <2> QED BY <1>1, <2>1, <2>2, <2>3, ClientFrame DEF TypeOK
<1>8. CASE AM_DMX_StartFilter(i)
  <2>1. /\ UNCHANGED <<used, esOutput, cb, fd, ready, local, device, enable_thread, shift>>
        /\ enable' = [enable EXCEPT ![i] = TRUE]
        /\ running' = [running EXCEPT ![i] = TRUE]
        /\ evtfd' = TRUE
    BY <1>8 DEF AM_DMX_StartFilter
  <2>2. TypeOK' /\ CursorInRange'
    BY <1>1, <2>1 DEF IInv, TypeOK, CursorInRange
  <2>3. ThreadWithinDevice' /\ ClosedIsQuiet' /\ NoMissedStart'
    BY <1>1, <2>1 DEF IInv, ThreadWithinDevice, ClosedIsQuiet, NoMissedStart, Alive
  <2>4. TableConsistent'
    BY <1>1, <2>1 DEF TypeOK, TableConsistent, Alive
  <2> QED BY <2>2, <2>3, <2>4 DEF IInv
<1> QED BY <1>2, <1>4, <1>6, <1>7, <1>8 DEF ClientCall

-----------------------------------------------------------------------------
(* The life of the device, and the hardware.                               *)

LEMMA DeviceStep ==
    ASSUME IInv, AM_DMX_Open \/ AM_DMX_AllocateFilter \/ StopThread \/ AM_DMX_Close
                     \/ NewDevice \/ (\E i \in Ids : DataArrives(i))
    PROVE  IInv'
<1> USE DEF table, kernel, local
<1>0. TypeOK /\ TableConsistent /\ CursorInRange /\ ThreadWithinDevice /\ ClosedIsQuiet
      /\ NoMissedStart
  BY DEF IInv
<1>1. CASE AM_DMX_Open
  <2>1. TypeOK' /\ CursorInRange'
    BY <1>0, <1>1 DEF AM_DMX_Open, TypeOK, CursorInRange
  <2>2. ThreadWithinDevice' /\ ClosedIsQuiet' /\ NoMissedStart' /\ TableConsistent'
    BY <1>0, <1>1 DEF AM_DMX_Open, ThreadWithinDevice, ClosedIsQuiet, NoMissedStart,
                      TableConsistent, Alive
  <2> QED BY <2>1, <2>2 DEF IInv
<1>2. CASE AM_DMX_AllocateFilter
  <2>1. PICK i \in Ids : /\ ~used[i]
                         /\ used' = [used EXCEPT ![i] = TRUE]
                         /\ fd' = [fd EXCEPT ![i] = TRUE]
    BY <1>2 DEF AM_DMX_AllocateFilter
  <2>2. /\ UNCHANGED <<enable, esOutput, cb, running, ready, evtfd, local, device,
                       enable_thread, shift>>
        /\ Alive
    BY <1>2 DEF AM_DMX_AllocateFilter
  <2>3. /\ used' \in [Ids -> BOOLEAN] /\ fd' \in [Ids -> BOOLEAN]
        /\ \A j \in Ids : (used'[j] <=> fd'[j]) /\ (used[j] => used'[j])
    BY <1>0, <2>1, <2>2 DEF TypeOK, TableConsistent
  <2>4. \A j \in Ids : enable'[j] => enable[j] /\ used'[j] /\ running'[j]
    BY <1>0, <2>2, <2>3 DEF TableConsistent
  <2> QED BY <1>0, <2>2, <2>3, <2>4, ClientFrame DEF TypeOK
<1>3. CASE StopThread
  <2>1. /\ UNCHANGED <<table, kernel, local, shift>>
        /\ device = "open" /\ device' = "closing" /\ enable_thread' = FALSE
    BY <1>3 DEF StopThread
  <2>2. TypeOK' /\ CursorInRange'
    BY <1>0, <2>1 DEF TypeOK, CursorInRange
  <2>3. ThreadWithinDevice' /\ ClosedIsQuiet' /\ NoMissedStart' /\ TableConsistent'
    BY <1>0, <2>1 DEF ThreadWithinDevice, ClosedIsQuiet, NoMissedStart,
                      TableConsistent, Alive
  <2> QED BY <2>2, <2>3 DEF IInv
<1>4. CASE AM_DMX_Close
  <2>1. PICK failing \in MayFail(Ids) : dmx_free_filter(Ids, failing)
    BY <1>4 DEF AM_DMX_Close
  <2>2. /\ UNCHANGED <<esOutput, cb, local, enable_thread, shift>>
        /\ device' = "closed" /\ evtfd' = FALSE
        /\ thread = "exited" /\ Alive
    BY <1>4 DEF AM_DMX_Close, Alive
  <2>3. dmx_stop_filter(Ids, failing)
    BY <2>1 DEF dmx_free_filter
  <2>4. /\ used' \in [Ids -> BOOLEAN] /\ fd' \in [Ids -> BOOLEAN]
        /\ \A j \in Ids : (fd'[j] => running'[j]) /\ (enable'[j] => used'[j])
    BY <1>0, <2>1, <2>2, FreeFacts
  <2>5. /\ enable' \in [Ids -> BOOLEAN] /\ running' \in [Ids -> BOOLEAN]
        /\ ready' \in [Ids -> BOOLEAN]
        /\ \A j \in Ids : ~enable'[j]
    BY <1>0, <2>3, StopFacts
  <2>6. TypeOK' /\ CursorInRange'
    BY <1>0, <2>2, <2>4, <2>5 DEF TypeOK, CursorInRange
  <2>7. ThreadWithinDevice' /\ ClosedIsQuiet' /\ NoMissedStart' /\ TableConsistent'
    BY <2>2, <2>4, <2>5 DEF ThreadWithinDevice, ClosedIsQuiet, NoMissedStart,
                            TableConsistent, Alive
  <2> QED BY <2>6, <2>7 DEF IInv
<1>5. CASE NewDevice
  <2>1. None \in [Ids -> BOOLEAN] /\ \A i \in Ids : ~None[i]
    BY DEF None
  <2>2. 1 \in 1..EventSlot
    BY FilterCountAssumption DEF EventSlot
  <2>3. TypeOK' /\ CursorInRange'
    BY <1>0, <1>5, <2>1, <2>2 DEF NewDevice, TypeOK, CursorInRange
  <2>4. ThreadWithinDevice' /\ ClosedIsQuiet' /\ NoMissedStart' /\ TableConsistent'
    BY <1>5, <2>1 DEF NewDevice, ThreadWithinDevice, ClosedIsQuiet, NoMissedStart,
                      TableConsistent, Alive
  <2> QED BY <2>3, <2>4 DEF IInv
<1>6. ASSUME NEW i \in Ids, DataArrives(i)
      PROVE  IInv'
  <2>1. /\ UNCHANGED <<table, fd, running, evtfd, local, device, enable_thread, shift>>
        /\ ready' = [ready EXCEPT ![i] = TRUE]
    BY <1>6 DEF DataArrives
  <2>2. TypeOK' /\ CursorInRange'
    BY <1>0, <2>1 DEF TypeOK, CursorInRange
  <2>3. ThreadWithinDevice' /\ ClosedIsQuiet' /\ NoMissedStart' /\ TableConsistent'
    BY <1>0, <2>1 DEF ThreadWithinDevice, ClosedIsQuiet, NoMissedStart,
                      TableConsistent, Alive
  <2> QED BY <2>2, <2>3 DEF IInv
<1> QED BY <1>1, <1>2, <1>3, <1>4, <1>5, <1>6

\* IInv holds initially and every step preserves it.
LEMMA Invariance == Spec => []IInv
<1>1. ASSUME IInv, [Next]_vars
      PROVE  IInv'
  <2>1. CASE UNCHANGED vars
    <3>1. UNCHANGED <<used, enable, esOutput, cb, fd, running, ready, evtfd, thread,
                      pollSet, signalled, mask, cursor, esCall, device, enable_thread,
                      shift>>
      BY <2>1 DEF vars, table, kernel, local
    <3> QED BY <1>1, <3>1 DEF IInv, TypeOK, CursorInRange, ThreadWithinDevice, Alive,
                              TableConsistent, ClosedIsQuiet, NoMissedStart
  <2>2. CASE Next
    BY <1>1, <2>2, ThreadStep, ClientStep, DeviceStep DEF Next
  <2> QED BY <1>1, <2>1, <2>2
<1> QED BY InitIInv, <1>1, PTL DEF Spec

\* The types of AmDmx, for every number of filters and every mask.
THEOREM Typing == Spec => []TypeOK
BY Invariance, PTL DEF IInv

\* The table agrees with the descriptors and with the kernel after every partial
\* failure of the ioctls (dmx_stop_filter, dmx_free_filter), and after AM_DMX_Close no
\* callback runs and a descriptor is open only if the kernel refused to stop its filter.
THEOREM TableHoldsUp == Spec => []TableAndKernelAgree
BY Invariance, PTL DEF IInv, TableAndKernelAgree

\* A filter started while the data thread polls without it ends that poll.
THEOREM StartsAreNoticed == Spec => []NoMissedStart
BY Invariance, PTL DEF IInv

-----------------------------------------------------------------------------
(* What a wider mask would give.                                           *)

\* The bits of the slots poll found readable stay until the loop is through with them,
\* and the filter that is called has one.
MaskOfSignalled ==
    /\ signalled \subseteq Ids \cup {EventSlot}
    /\ mask = UNION {MaskBit(slot) : slot \in signalled}
CalledHasBit == thread \in {"call", "callback"} => MaskBit(cursor) \cap mask # {}

MaskInv == MaskOfSignalled /\ CalledHasBit

LEMMA MaskKept == TypeOK /\ CursorInRange /\ MaskInv /\ [Next]_vars => MaskInv'
<1> SUFFICES ASSUME TypeOK, CursorInRange, MaskInv, [Next]_vars
             PROVE  MaskInv'
  OBVIOUS
<1> USE DEF MaskInv, MaskOfSignalled, CalledHasBit
<1>1. CASE EnterPoll \/ NewDevice
  BY <1>1 DEF EnterPoll, NewDevice
<1>2. CASE dvb_poll
  <2>1. pollSet \subseteq Ids
    BY DEF TypeOK
  <2>2. Readable \subseteq Ids \cup {EventSlot}
    BY <2>1 DEF Readable
  <2>3. \A slot : MaskBit(slot)' = MaskBit(slot)
    BY <1>2 DEF dvb_poll, thread_unchanged, MaskBit
  <2>4. /\ signalled' = Readable /\ mask' = UNION {MaskBit(slot) : slot \in Readable}
        /\ thread' \in {"top", "dispatch"}
    BY <1>2 DEF dvb_poll
  <2>5. (UNION {MaskBit(slot) : slot \in signalled})' = mask'
    BY <2>3, <2>4
  <2> QED BY <2>2, <2>4, <2>5 DEF EventSlot, Ids
<1>3. CASE Dispatch
  BY <1>3 DEF Dispatch, Dispatched, MaskBit, thread_unchanged
<1>4. CASE PollTimeout \/ Call \/ AM_DMX_Read
  BY <1>4 DEF PollTimeout, Call, AM_DMX_Read, CallbackReturns, MaskBit, thread_unchanged
<1>5. CASE AM_DMX_Open
  <2>1. UNCHANGED <<signalled, mask, shift>> /\ thread' = "top"
    BY <1>5 DEF AM_DMX_Open
  <2> QED BY <2>1 DEF MaskBit
<1>6. ASSUME UNCHANGED <<local, shift>>
      PROVE  MaskInv'
  BY <1>6 DEF local, MaskBit
<1>7. ASSUME NEW i \in Ids, ClientCall(i) \/ DataArrives(i)
      PROVE  UNCHANGED <<local, shift>>
  BY <1>7 DEF ClientCall, AM_DMX_FreeFilter, AM_DMX_StopFilter, AM_DMX_StartFilter, Configure,
              AM_DMX_SetSecFilter, AM_DMX_SetPesFilter, AM_DMX_SetCallback, DataArrives
<1>8. CASE AM_DMX_AllocateFilter \/ StopThread \/ AM_DMX_Close \/ UNCHANGED vars
  BY <1>6, <1>8 DEF AM_DMX_AllocateFilter, StopThread, AM_DMX_Close, vars
<1> QED BY <1>1, <1>2, <1>3, <1>4, <1>5, <1>6, <1>7, <1>8 DEF Next, dmx_data_thread

\* The bit of a slot past the mask by one is no filter's.
LEMMA BitsOfIds ==
    ASSUME FilterCount < MaskBits, shift \in {"wraps", "zero"}
    PROVE  /\ \A i \in Ids : MaskBit(i) = {i}
           /\ \A i \in Ids : i \notin MaskBit(EventSlot)
<1> USE FilterCountAssumption, MaskBitsAssumption
<1>1. ASSUME NEW i \in Ids
      PROVE  MaskBit(i) = {i}
  BY DEF MaskBit, Ids
<1>2. ASSUME NEW i \in Ids
      PROVE  i \notin MaskBit(EventSlot)
  <2>1. CASE EventSlot < MaskBits
    BY <2>1 DEF MaskBit, EventSlot, Ids
  <2>2. CASE ~(EventSlot < MaskBits)
    <3>1. EventSlot = MaskBits
      BY <2>2 DEF EventSlot
    <3>2. EventSlot % MaskBits = 0
      <4>1. ASSUME NEW n \in Nat \ {0} PROVE n % n = 0
        OBVIOUS
      <4> QED BY <3>1, <4>1
    <3> QED BY <2>2, <3>2 DEF MaskBit, Ids
  <2> QED BY <2>1, <2>2
<1> QED BY <1>1, <1>2

\* AmDmx.h's mask with one bit more than there are filters: no filter is called back for
\* the eventfd's or another filter's data.  (The code has as many bits as filters.)
THEOREM WiderMask == FilterCount < MaskBits /\ Spec => []CallbackForItsOwnData
<1>1. Init => MaskInv
  BY DEF Init, Fresh, MaskInv, MaskOfSignalled, CalledHasBit
<1>2. ASSUME FilterCount < MaskBits, IInv, MaskInv
      PROVE  CallbackForItsOwnData
  <2> SUFFICES ASSUME thread = "callback"
               PROVE  cursor \in signalled
    BY DEF CallbackForItsOwnData
  <2>1. cursor \in Ids /\ shift \in {"wraps", "zero"}
    BY <1>2 DEF IInv, CursorInRange, TypeOK
  <2>2. PICK slot \in signalled : cursor \in MaskBit(slot)
    BY <1>2, <2>1, BitsOfIds DEF MaskInv, MaskOfSignalled, CalledHasBit
  <2>3. slot \in Ids /\ MaskBit(slot) = {slot}
    BY <1>2, <2>1, <2>2, BitsOfIds DEF MaskInv, MaskOfSignalled
  <2> QED BY <2>2, <2>3
<1>3. IInv => TypeOK /\ CursorInRange
  BY DEF IInv
<1>4. CASE FilterCount < MaskBits
  <2>1. IInv /\ MaskInv => CallbackForItsOwnData
    BY <1>2, <1>4
  <2> QED BY <1>1, <1>3, <2>1, Invariance, MaskKept, PTL DEF Spec
<1>5. CASE ~(FilterCount < MaskBits)
  BY <1>5
<1> QED BY <1>4, <1>5

-----------------------------------------------------------------------------
(* AmDmx implements FilterTable.  The abstract variables are those of the  *)
(* table, the device's state without "closing", and the filter the data    *)
(* thread has decided to call.                                             *)

absDevice == IF device = "closing" THEN "open" ELSE device
absCalling == IF thread \in {"call", "callback"} THEN cursor ELSE 0

LEMMA IdsAreFilterIds == Ids = Table!FilterIds
BY DEF Ids, Table!FilterIds

LEMMA InitSimulation == Init => Table!TableInit
BY DEF Init, Fresh, Table!TableInit, Table!NoIds, None, Ids, Table!FilterIds

\* Stopping the filters of {i} clears its enable flag, whatever failed.
LEMMA StopOne ==
    ASSUME TypeOK, NEW i \in Ids, NEW failing, dmx_stop_filter({i}, failing)
    PROVE  enable' = [enable EXCEPT ![i] = FALSE]
BY DEF dmx_stop_filter, Stopped, TypeOK

\* A step of the data thread starts a callback, ends one or is not visible.
LEMMA ThreadSimulation ==
    ASSUME IInv, dmx_data_thread
    PROVE  Table!TableNext \/ UNCHANGED Table!tableVars
<1>1. UNCHANGED <<used, enable, cb, device>>
  BY DEF dmx_data_thread, EnterPoll, dvb_poll, PollTimeout, Dispatch, Call, AM_DMX_Read,
         CallbackReturns, thread_unchanged, table
<1>2. /\ UNCHANGED absDevice
      /\ thread \notin {"none", "exited"} /\ Alive => absDevice = "open"
  BY <1>1 DEF absDevice, Alive
<1>3. TypeOK /\ CursorInRange /\ ThreadWithinDevice
  BY DEF IInv
<1>4. CASE UNCHANGED absCalling
  BY <1>1, <1>2, <1>4 DEF Table!tableVars, Table!table, absDevice, absCalling
<1>5. CASE absCalling' # absCalling
  <2>1. CASE thread = "dispatch"
    <3>1. /\ cursor \in Ids /\ enable[cursor] /\ used[cursor] /\ cb[cursor]
          /\ thread' = "call" /\ cursor' = cursor
      BY <1>5, <2>1 DEF dmx_data_thread, EnterPoll, dvb_poll, PollTimeout, Dispatch, Call,
                        AM_DMX_Read, Dispatched, absCalling
    <3>2. absCalling = 0 /\ absCalling' = cursor /\ absDevice = "open"
      BY <1>2, <1>3, <2>1, <3>1 DEF absCalling, ThreadWithinDevice
    <3>3. Table!BeginCall(cursor)
      BY <1>1, <1>2, <3>1, <3>2 DEF Table!BeginCall, Table!Owned, Table!table, absDevice,
                                    absCalling
    <3> QED BY <3>1, <3>3, IdsAreFilterIds DEF Table!TableNext
  <2>2. CASE thread \in {"call", "callback"}
    <3>1. absCalling # 0
      BY <1>3, <2>2 DEF absCalling, CursorInRange, Ids
    <3>2. absCalling' = 0
      BY <1>5, <2>2 DEF dmx_data_thread, EnterPoll, dvb_poll, PollTimeout, Dispatch, Call,
                        AM_DMX_Read, CallbackReturns, absCalling
    <3>3. Table!EndCall
      BY <1>1, <1>2, <3>1, <3>2 DEF Table!EndCall, Table!table, absDevice, absCalling
    <3> QED BY <3>3 DEF Table!TableNext
  <2>3. CASE thread \notin {"dispatch", "call", "callback"}
    BY <1>5, <2>3 DEF dmx_data_thread, EnterPoll, dvb_poll, PollTimeout, Dispatch, Call,
                      AM_DMX_Read, absCalling
  <2> QED BY <2>1, <2>2, <2>3
<1> QED BY <1>4, <1>5

\* A client's call is one abstract call; a free the kernel refuses is a stop.
LEMMA ClientSimulation ==
    ASSUME IInv, NEW i \in Ids, ClientCall(i)
    PROVE  Table!TableNext \/ UNCHANGED Table!tableVars
<1>1. dmx_get_used_filter(i) /\ UNCHANGED <<local, device>>
  BY DEF ClientCall, AM_DMX_FreeFilter, AM_DMX_StopFilter, AM_DMX_StartFilter,
         AM_DMX_SetSecFilter, AM_DMX_SetPesFilter, Configure, AM_DMX_SetCallback
<1>2. Table!Owned(i) /\ UNCHANGED <<absDevice, absCalling>>
  BY <1>1 DEF dmx_get_used_filter, Table!Owned, absDevice, absCalling, Alive, local
<1>3. i \in Table!FilterIds
  BY IdsAreFilterIds
<1>4. TypeOK
  BY DEF IInv
<1>5. CASE AM_DMX_FreeFilter(i)
  <2>1. PICK failing \in MayFail({i}) : dmx_free_filter({i}, failing)
    BY <1>5 DEF AM_DMX_FreeFilter
  <2>2. enable' = [enable EXCEPT ![i] = FALSE] /\ cb' = cb
    BY <1>4, <1>5, <2>1, StopOne DEF dmx_free_filter, AM_DMX_FreeFilter
  <2>3. CASE i \in failing
    <3>1. used' = used
      BY <1>4, <2>1, <2>3 DEF dmx_free_filter, TypeOK
    <3> QED BY <1>2, <1>3, <2>2, <3>1 DEF Table!Stop, Table!TableNext, absDevice, absCalling
  <2>4. CASE i \notin failing
    <3>1. used' = [used EXCEPT ![i] = FALSE]
      BY <1>4, <2>1, <2>4 DEF dmx_free_filter, TypeOK
    <3> QED BY <1>2, <1>3, <2>2, <3>1 DEF Table!Free, Table!TableNext, absDevice, absCalling
  <2> QED BY <2>3, <2>4
<1>6. CASE AM_DMX_StopFilter(i) \/ AM_DMX_SetSecFilter(i) \/ AM_DMX_SetPesFilter(i)
  <2>1. /\ \E failing : dmx_stop_filter({i}, failing)
        /\ UNCHANGED <<used, cb>>
    BY <1>6 DEF AM_DMX_StopFilter, AM_DMX_SetSecFilter, AM_DMX_SetPesFilter, Configure
  <2>2. enable' = [enable EXCEPT ![i] = FALSE]
    BY <1>4, <2>1, StopOne
  <2> QED BY <1>2, <1>3, <2>1, <2>2 DEF Table!Stop, Table!TableNext, absDevice, absCalling
<1>7. CASE AM_DMX_StartFilter(i)
  BY <1>2, <1>3, <1>7
     DEF AM_DMX_StartFilter, Table!Start, Table!TableNext, absDevice, absCalling
<1>8. CASE \E registered \in BOOLEAN : AM_DMX_SetCallback(i, registered)
  <2>1. PICK registered \in BOOLEAN : AM_DMX_SetCallback(i, registered)
    BY <1>8
  <2>2. Table!SetCallback(i, registered)
    BY <1>2, <2>1 DEF AM_DMX_SetCallback, Table!SetCallback, absDevice, absCalling
  <2> QED BY <1>3, <2>2 DEF Table!TableNext
<1> QED BY <1>5, <1>6, <1>7, <1>8 DEF ClientCall

\* Opening, allocating, closing and renewing; DataArrives is not visible.
LEMMA DeviceSimulation ==
    ASSUME IInv,
           \/ AM_DMX_Open \/ AM_DMX_AllocateFilter
           \/ \E i \in Ids : DataArrives(i)
           \/ StopThread \/ AM_DMX_Close \/ NewDevice
    PROVE  Table!TableNext \/ UNCHANGED Table!tableVars
<1>1. TypeOK /\ ThreadWithinDevice
  BY DEF IInv
<1>2. CASE AM_DMX_Open
  <2>1. absDevice = "new" /\ absDevice' = "open" /\ absCalling' = 0
    BY <1>2 DEF AM_DMX_Open, absDevice, absCalling
  <2>2. absCalling = 0
    BY <1>1, <1>2 DEF AM_DMX_Open, absCalling, ThreadWithinDevice, Alive
  <2>3. Table!OpenTable
    BY <1>2, <2>1, <2>2
       DEF AM_DMX_Open, Table!OpenTable, Table!table, table, absDevice, absCalling
  <2> QED BY <2>3 DEF Table!TableNext
<1>3. CASE AM_DMX_AllocateFilter
  <2>1. absDevice = "open" /\ UNCHANGED <<absDevice, absCalling>>
    BY <1>3 DEF AM_DMX_AllocateFilter, Alive, absDevice, absCalling, local
  <2>2. PICK i \in Ids : /\ \A j \in Ids : j < i => used[j]
                        /\ ~used[i]
                        /\ used' = [used EXCEPT ![i] = TRUE]
    BY <1>3 DEF AM_DMX_AllocateFilter
  <2>3. Table!Allocate(i)
    BY <1>3, <2>1, <2>2, IdsAreFilterIds
       DEF AM_DMX_AllocateFilter, Table!Allocate, Table!LowestFree, absDevice, absCalling
  <2> QED BY <2>3, IdsAreFilterIds DEF Table!TableNext
<1>4. CASE StopThread \/ \E i \in Ids : DataArrives(i)
  BY <1>4 DEF StopThread, DataArrives, table, kernel, local, Table!tableVars, Table!table
<1>5. CASE AM_DMX_Close
  <2>1. /\ absDevice = "open" /\ absDevice' = "closed"
        /\ absCalling = 0 /\ absCalling' = 0
        /\ cb' = cb
    BY <1>5 DEF AM_DMX_Close, absDevice, absCalling, local
  <2>2. PICK failing \in MayFail(Ids) : dmx_free_filter(Ids, failing)
    BY <1>5 DEF AM_DMX_Close
  <2>3. enable' = Table!NoIds
    BY <1>1, <2>2, IdsAreFilterIds
       DEF dmx_free_filter, dmx_stop_filter, Stopped, Table!NoIds, TypeOK
  <2>4. failing \in SUBSET Table!FilterIds
    BY IdsAreFilterIds DEF MayFail
  <2>5. used' = [i \in Table!FilterIds |-> used[i] /\ i \in failing]
    BY <1>1, <2>2, IdsAreFilterIds DEF dmx_free_filter, TypeOK
  <2>6. Table!CloseTable
    BY <2>1, <2>3, <2>4, <2>5 DEF Table!CloseTable, absDevice, absCalling
  <2> QED BY <2>6 DEF Table!TableNext
<1>6. CASE NewDevice
  <2>1. absDevice = "closed" /\ absDevice' = "new" /\ absCalling' = 0
    BY <1>6 DEF NewDevice, absDevice, absCalling
  <2>2. absCalling = 0
    BY <1>1, <1>6 DEF NewDevice, absCalling, ThreadWithinDevice, Alive
  <2>3. None = Table!NoIds
    BY IdsAreFilterIds DEF None, Table!NoIds
  <2>4. Table!RenewTable
    BY <1>6, <2>1, <2>2, <2>3 DEF NewDevice, Table!RenewTable, absDevice, absCalling
  <2> QED BY <2>4 DEF Table!TableNext
<1> QED BY <1>2, <1>3, <1>4, <1>5, <1>6

\* AmDmx implements FilterTable: with the lock-free data thread and failing
\* ioctls an id keeps one owner until it is freed, and a callback starts only for
\* an id that is allocated, enabled and has one registered.
THEOREM Refinement == Spec => ImplementsFilterTable
<1>1. ASSUME IInv, [Next]_vars
      PROVE  [Table!TableNext]_(Table!tableVars)
  <2>1. CASE UNCHANGED vars
    BY <2>1 DEF vars, table, local, Table!tableVars, Table!table
  <2>2. CASE Next
    BY <1>1, <2>2, ThreadSimulation, ClientSimulation, DeviceSimulation DEF Next
  <2> QED BY <1>1, <2>1, <2>2
<1> QED BY Invariance, InitSimulation, <1>1, PTL
        DEF Spec, ImplementsFilterTable, Table!TableSpec
=============================================================================
