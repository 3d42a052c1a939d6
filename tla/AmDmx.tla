-------------------------------- MODULE AmDmx --------------------------------
(***************************************************************************)
(* One demux device: the table of hardware filters, the calls clients make *)
(* on it and the data thread that polls the filters' file descriptors and  *)
(* runs their callbacks (aidl/MultiHwDemux/AmDmx.cpp, AmLinuxDvb.cpp).     *)
(*                                                                         *)
(* A client call holds `lock' from its first to its last access and waits  *)
(* for nothing (dmx_wait_cb is empty: DMX_WAIT_CB is defined nowhere), so  *)
(* it is one step.  The data thread takes no lock: each of its accesses to *)
(* the table is a step of its own.  AM_DMX_Close takes no lock either; it  *)
(* is two steps, around the join of the data thread.                       *)
(*                                                                         *)
(* The kernel's filters are external: an ioctl or an open may fail, a      *)
(* started filter gets data, and stopping one discards what it holds.      *)
(***************************************************************************)
EXTENDS Integers, FiniteSets

CONSTANTS
    FilterCount,    \* DMX_FILTER_COUNT; filter ids start from one
    MaskBits,       \* bits of AM_DMX_FilterMask_t
    Refusable       \* filters the kernel may refuse to stop

ASSUME FilterCountAssumption == FilterCount \in Nat \ {0}
ASSUME MaskBitsAssumption == MaskBits \in Nat \ {0}

Ids == 1..FilterCount
ASSUME RefusableAssumption == Refusable \subseteq Ids

EventSlot == FilterCount + 1        \* what dvb_poll calls the eventfd

VARIABLES
    used, enable, esOutput, cb,     \* the fields of filters[id]
    fd,                             \* dmx->fd[id] is open
    running,                        \* the kernel has started the filter
    ready,                          \* its file descriptor is readable
    evtfd,                          \* the eventfd's counter is not zero
    device,                         \* "new", "open", "closing" or "closed"
    enable_thread,
    thread,                         \* where the data thread is
    pollSet,                        \* filters handed to poll
    signalled,                      \* slots poll found readable
    mask,                           \* bits dvb_poll set for them
    cursor,                         \* filter the thread is looking at
    esCall,                         \* esOutput argument of the running callback
    shift                           \* what 1 << i is for i past the mask's width

table == <<used, enable, esOutput, cb>>
kernel == <<fd, running, ready, evtfd>>
local == <<thread, pollSet, signalled, mask, cursor, esCall>>
vars == <<table, kernel, local, device, enable_thread, shift>>

None == [i \in Ids |-> FALSE]

\* A device object as its constructor leaves it.
Fresh ==
    /\ used = None /\ enable = None /\ esOutput = None /\ cb = None
    /\ fd = None /\ running = None /\ ready = None
    /\ evtfd = FALSE
    /\ device = "new"
    /\ enable_thread = FALSE
    /\ thread = "none"
    /\ pollSet = {} /\ signalled = {} /\ mask = {}
    /\ cursor = 1
    /\ esCall = FALSE

Init == Fresh /\ shift \in {"wraps", "zero"}

-----------------------------------------------------------------------------
(* The calls of clients.  A call on an id that is not allocated changes    *)
(* nothing (dmx_get_used_filter) and is not listed.  Calls may still come  *)
(* while AM_DMX_Close waits for the data thread.                           *)

AM_DMX_Open ==
    /\ device = "new"
    /\ device' = "open"
    /\ enable_thread' = TRUE
    /\ thread' = "top"
    /\ UNCHANGED <<table, kernel, pollSet, signalled, mask, cursor, esCall, shift>>

Alive == device \in {"open", "closing"}

dmx_get_used_filter(i) == Alive /\ used[i]

\* Mutant: an open that fails allocates the id all the same.
AllocateUnopened ==
    /\ Alive
    /\ \E i \in Ids : /\ \A j \in Ids : j < i => used[j]
                      /\ ~used[i]
                      /\ used' = [used EXCEPT ![i] = TRUE]
                      /\ \E opened \in BOOLEAN : fd' = [fd EXCEPT ![i] = opened]
    /\ UNCHANGED <<enable, esOutput, cb, running, ready, evtfd, local, device,
                   enable_thread, shift>>

\* The lowest free id; an open that fails leaves it free.
AM_DMX_AllocateFilter ==
    /\ Alive
    /\ \E i \in Ids : /\ \A j \in Ids : j < i => used[j]
                      /\ ~used[i]
                      /\ used' = [used EXCEPT ![i] = TRUE]
                      /\ fd' = [fd EXCEPT ![i] = TRUE]
    /\ UNCHANGED <<enable, esOutput, cb, running, ready, evtfd, local, device,
                   enable_thread, shift>>

\* dmx_stop_filter on the filters S: the ioctl fails for those of `failing'.
\* Error codes are positive, so `ret >= 0' holds and enable is cleared anyway.
Stopped(S, failing) ==
    /\ enable' = [i \in Ids |-> enable[i] /\ i \notin S]
    /\ running' = [i \in Ids |-> running[i] /\ (i \in failing \/ i \notin S)]
    /\ ready' = [i \in Ids |-> ready[i] /\ (i \in failing \/ i \notin S)]

dmx_stop_filter(S, failing) == Stopped({i \in S : enable[i]}, failing)

\* dmx_free_filter on the filters S: one that fails to stop keeps its id and
\* its file descriptor.
dmx_free_filter(S, failing) ==
    LET freed == S \ failing IN
    /\ dmx_stop_filter(S, failing)
    /\ used' = [i \in Ids |-> used[i] /\ i \notin freed]
    /\ fd' = [i \in Ids |-> fd[i] /\ i \notin freed]

\* The ioctl can fail only when the call makes it.
MayFail(S) == SUBSET {i \in S \cap Refusable : enable[i]}

AM_DMX_FreeFilter(i) ==
    /\ dmx_get_used_filter(i)
    /\ \E failing \in MayFail({i}) : dmx_free_filter({i}, failing)
    /\ UNCHANGED <<esOutput, cb, evtfd, local, device, enable_thread, shift>>

AM_DMX_StopFilter(i) ==
    /\ dmx_get_used_filter(i)
    /\ enable[i]
    /\ \E failing \in MayFail({i}) : dmx_stop_filter({i}, failing)
    /\ UNCHANGED <<used, esOutput, cb, fd, evtfd, local, device, enable_thread, shift>>

\* Stops the filter, and replaces its parameters unless that failed.
Configure(i, es) ==
    /\ dmx_get_used_filter(i)
    /\ \E failing \in MayFail({i}) :
          /\ dmx_stop_filter({i}, failing)
          /\ esOutput' = IF i \in failing THEN esOutput
                         ELSE [esOutput EXCEPT ![i] = es]
    /\ UNCHANGED <<used, cb, fd, evtfd, local, device, enable_thread, shift>>

AM_DMX_SetSecFilter(i) == Configure(i, FALSE)
AM_DMX_SetPesFilter(i) == \E es \in BOOLEAN : Configure(i, es)

AM_DMX_SetCallback(i, registered) ==
    /\ dmx_get_used_filter(i)
    /\ cb' = [cb EXCEPT ![i] = registered]
    /\ UNCHANGED <<used, enable, esOutput, kernel, local, device, enable_thread, shift>>

\* Mutant: the data thread is not woken.
StartFilterSilently(i) ==
    /\ dmx_get_used_filter(i)
    /\ ~enable[i]
    /\ enable' = [enable EXCEPT ![i] = TRUE]
    /\ running' = [running EXCEPT ![i] = TRUE]
    /\ UNCHANGED <<used, esOutput, cb, fd, ready, evtfd, local, device, enable_thread,
                   shift>>

\* DMX_START, then dvb_poll_exit; nothing changes when the ioctl fails.
AM_DMX_StartFilter(i) ==
    /\ dmx_get_used_filter(i)
    /\ ~enable[i]
    /\ enable' = [enable EXCEPT ![i] = TRUE]
    /\ running' = [running EXCEPT ![i] = TRUE]
    /\ evtfd' = TRUE
    /\ UNCHANGED <<used, esOutput, cb, fd, ready, local, device, enable_thread, shift>>

StopThread ==
    /\ device = "open"
    /\ device' = "closing"
    /\ enable_thread' = FALSE
    /\ UNCHANGED <<table, kernel, local, shift>>

AM_DMX_Close ==
    /\ device = "closing"
    /\ thread = "exited"
    /\ \E failing \in MayFail(Ids) : dmx_free_filter(Ids, failing)
    /\ device' = "closed"
    /\ evtfd' = FALSE
    /\ UNCHANGED <<esOutput, cb, local, enable_thread, shift>>

\* Demux::close drops the device; the next user of the demux makes a new one.
NewDevice ==
    /\ device = "closed"
    /\ used' = None /\ enable' = None /\ esOutput' = None /\ cb' = None
    /\ fd' = None /\ running' = None /\ ready' = None
    /\ device' = "new"
    /\ thread' = "none"
    /\ pollSet' = {} /\ signalled' = {} /\ mask' = {}
    /\ cursor' = 1
    /\ esCall' = FALSE
    /\ UNCHANGED <<evtfd, enable_thread, shift>>

-----------------------------------------------------------------------------
(* The data thread.                                                        *)

thread_unchanged == UNCHANGED <<table, device, enable_thread, shift>>

\* The top of the loop and the scan of dmx->fd; with no filter it sleeps.
EnterPoll ==
    /\ thread = "top"
    /\ IF ~enable_thread
       THEN thread' = "exited" /\ UNCHANGED pollSet
       ELSE /\ pollSet' = {i \in Ids : fd[i]}
            /\ pollSet' # {}
            /\ thread' = "polling"
    /\ signalled' = {} /\ mask' = {} /\ cursor' = 1
    /\ UNCHANGED <<kernel, esCall>>
    /\ thread_unchanged

\* AM_DMX_FILTER_MASK_SET(mask, slot)
MaskBit(slot) ==
    IF slot < MaskBits THEN {slot}
    ELSE IF shift = "wraps" THEN {slot % MaskBits} ELSE {}

\* A descriptor that was closed meanwhile reports nothing.
Readable == {i \in pollSet : fd[i] /\ ready[i]}
                \cup (IF evtfd THEN {EventSlot} ELSE {})

dvb_poll ==
    /\ thread = "polling"
    /\ Readable # {}
    /\ signalled' = Readable
    /\ mask' = UNION {MaskBit(slot) : slot \in Readable}
    /\ pollSet' = {}
    /\ evtfd' = FALSE
    /\ thread' = IF mask' = {} THEN "top" ELSE "dispatch"
    /\ cursor' = 1
    /\ UNCHANGED <<fd, running, ready, esCall>>
    /\ thread_unchanged

PollTimeout ==
    /\ thread = "polling"
    /\ Readable = {}
    /\ thread' = "top"
    /\ pollSet' = {}
    /\ UNCHANGED <<kernel, signalled, mask, cursor, esCall>>
    /\ thread_unchanged

\* Mutant: the callback pointer is not tested.
DispatchedWithoutCallback(i) == MaskBit(i) \cap mask # {} /\ enable[i] /\ used[i]

\* AM_DMX_FILTER_MASK_ISSET(mask, i) and the other conditions of the loop.
Dispatched(i) == MaskBit(i) \cap mask # {} /\ enable[i] /\ used[i] /\ cb[i]

\* Mutant: the loop ends one filter early.
DispatchAllButLast ==
    /\ thread = "dispatch"
    /\ IF cursor \in Ids \ {FilterCount}
       THEN IF Dispatched(cursor)
            THEN thread' = "call" /\ UNCHANGED cursor
            ELSE cursor' = cursor + 1 /\ UNCHANGED thread
       ELSE thread' = "top" /\ UNCHANGED cursor
    /\ UNCHANGED <<kernel, pollSet, signalled, mask, esCall>>
    /\ thread_unchanged

Dispatch ==
    /\ thread = "dispatch"
    /\ IF cursor \in Ids
       THEN IF Dispatched(cursor)
            THEN thread' = "call" /\ UNCHANGED cursor
            ELSE cursor' = cursor + 1 /\ UNCHANGED thread
       ELSE thread' = "top" /\ UNCHANGED cursor
    /\ UNCHANGED <<kernel, pollSet, signalled, mask, esCall>>
    /\ thread_unchanged

\* cb was loaded with the test, user_data and flags are loaded for the call;
\* the callback returns at once when user_data was cleared in between.
Call ==
    /\ thread = "call"
    /\ IF cb[cursor]
       THEN thread' = "callback" /\ esCall' = esOutput[cursor] /\ UNCHANGED cursor
       ELSE thread' = "dispatch" /\ cursor' = cursor + 1 /\ UNCHANGED esCall
    /\ UNCHANGED <<kernel, pollSet, signalled, mask>>
    /\ thread_unchanged

CallbackReturns ==
    /\ thread' = "dispatch"
    /\ cursor' = cursor + 1
    /\ esCall' = FALSE
    /\ UNCHANGED <<fd, running, evtfd, pollSet, signalled, mask>>
    /\ thread_unchanged

\* Mutant: an ES callback does not notice that its filter was stopped.
ReadIgnoresStop ==
    /\ thread = "callback"
    /\ IF enable[cursor] /\ used[cursor] /\ ready[cursor]
       THEN ready' = [ready EXCEPT ![cursor] = FALSE]
       ELSE ~esCall /\ UNCHANGED ready
    /\ CallbackReturns

\* The callback reads its data; for an ES filter it reads again until a whole
\* unit has arrived or the filter is no longer enabled.
AM_DMX_Read ==
    /\ thread = "callback"
    /\ IF enable[cursor] /\ used[cursor] /\ ready[cursor]
       THEN ready' = [ready EXCEPT ![cursor] = FALSE]
       ELSE (esCall => ~(enable[cursor] /\ used[cursor])) /\ UNCHANGED ready
    /\ CallbackReturns

dmx_data_thread ==
    EnterPoll \/ dvb_poll \/ PollTimeout \/ Dispatch \/ Call \/ AM_DMX_Read

-----------------------------------------------------------------------------
(* The hardware.                                                           *)

DataArrives(i) ==
    /\ running[i]
    /\ ~ready[i]
    /\ ready' = [ready EXCEPT ![i] = TRUE]
    /\ UNCHANGED <<table, fd, running, evtfd, local, device, enable_thread, shift>>

ClientCall(i) ==
    \/ AM_DMX_FreeFilter(i) \/ AM_DMX_StopFilter(i) \/ AM_DMX_StartFilter(i)
    \/ AM_DMX_SetSecFilter(i) \/ AM_DMX_SetPesFilter(i)
    \/ \E registered \in BOOLEAN : AM_DMX_SetCallback(i, registered)

Next ==
    \/ AM_DMX_Open \/ AM_DMX_AllocateFilter
    \/ \E i \in Ids : ClientCall(i) \/ DataArrives(i)
    \/ StopThread \/ AM_DMX_Close \/ NewDevice
    \/ dmx_data_thread

Spec == Init /\ [][Next]_vars

\* The scheduler runs the data thread and the closing thread.  The read loop of
\* an ES callback spins, so it does not always miss the moments at which a read
\* would end it; every stream a filter is started on carries data.
Fairness ==
    /\ WF_vars(dmx_data_thread)
    /\ SF_vars(AM_DMX_Read)
    /\ WF_vars(AM_DMX_Close)
    /\ \A i \in Ids : WF_vars(DataArrives(i))

LiveSpec == Spec /\ Fairness

-----------------------------------------------------------------------------

\* Every variable has its type.
TypeOK ==
    /\ used \in [Ids -> BOOLEAN] /\ enable \in [Ids -> BOOLEAN]
    /\ esOutput \in [Ids -> BOOLEAN] /\ cb \in [Ids -> BOOLEAN]
    /\ fd \in [Ids -> BOOLEAN] /\ running \in [Ids -> BOOLEAN]
    /\ ready \in [Ids -> BOOLEAN]
    /\ evtfd \in BOOLEAN
    /\ device \in {"new", "open", "closing", "closed"}
    /\ enable_thread \in BOOLEAN
    /\ thread \in {"none", "top", "polling", "dispatch", "call", "callback", "exited"}
    /\ pollSet \subseteq Ids
    /\ signalled \subseteq Ids \cup {EventSlot}
    /\ mask \subseteq 0..(MaskBits - 1)
    /\ cursor \in 1..EventSlot
    /\ esCall \in BOOLEAN
    /\ shift \in {"wraps", "zero"}

\* Whatever ioctl or open failed, the table, the open descriptors and the kernel agree.
\* While the device is open an id is allocated exactly when its descriptor is open, and an
\* enabled filter is allocated and running: AllocateFilter relies on it when it reuses an
\* id without resetting `enable', and dvb_poll when it polls every open descriptor.  And
\* AM_DMX_Close, which takes no lock, leaves a descriptor open only if the kernel refused
\* to stop its filter, and no callback running or to come.
TableConsistent ==
    \A i \in Ids : /\ Alive => (used[i] <=> fd[i])
                   /\ enable[i] => used[i] /\ running[i]
ClosedIsQuiet ==
    device = "closed" =>
        /\ thread = "exited"
        /\ \A i \in Ids : /\ fd[i] => running[i]
                          /\ ~enable[i]

TableAndKernelAgree == TableConsistent /\ ClosedIsQuiet

\* A start is never missed: when the data thread polls a set without an enabled
\* filter, the eventfd that ends the poll is raised.
NoMissedStart ==
    \A i \in Ids : thread = "polling" /\ enable[i] /\ i \notin pollSet => evtfd

\* A callback under way belongs to an id that was polled: the data thread never
\* calls a filter back because of another filter's data, or of the eventfd.
\* AmDmx.h:89 calls AM_DMX_FilterMask_t the mask of the filters' bits.
CallbackForItsOwnData ==
    thread = "callback" => cursor \in signalled

\* The lock-free data thread and the failing ioctls stay within what the rest of
\* the demux relies on: an id has one owner until it is freed, and a callback
\* starts only for an id that is allocated, enabled and has one registered.
Table == INSTANCE FilterTable WITH
    device <- IF device = "closing" THEN "open" ELSE device,
    calling <- IF thread \in {"call", "callback"} THEN cursor ELSE 0
ImplementsFilterTable == Table!TableSpec

Dispatchable(i) == enable[i] /\ used[i] /\ cb[i] /\ ready[i]

\* Data of an enabled filter with a callback is picked up, for every filter the
\* mask has a bit for: no order of starts, stops and callbacks of the others
\* makes the data thread miss it for ever.
EventuallyServed ==
    \A i \in Ids : (device = "open" /\ MaskBit(i) # {} /\ Dispatchable(i))
                       ~> ~(device = "open" /\ Dispatchable(i))

\* AM_DMX_Close returns: the data thread always gets to its enable_thread test.
CloseReturns == device = "closing" ~> device = "closed"
=============================================================================
