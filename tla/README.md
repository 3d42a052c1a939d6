# TLA+ models of the Amlogic tuner HAL

The repository is the tuner HAL of Amlogic's Android TV platform: the native
service through which the framework tunes frontends, filters transport streams,
records, plays back and descrambles. Three generations of it live side by side
(`src/1.0`, `src/1.1`, `src/aidl`); this development models the newest one,
`src/aidl`. Its logic is mostly the coordination of threads: binder threads that
call, one data thread per demux, one callback thread per filter, one tuning thread
per frontend, threads per Dvr and descrambler, all around tables and flags that are
only partly protected by locks. The models are about that coordination; what the
bytes of a stream mean is left out except where it decides who waits for whom.

Contents: [1 the system](#1-the-system), [2 the plan](#2-the-plan),
[3 the modules](#3-the-modules), [4 the runs](#4-the-runs),
[5 fairness](#5-fairness), [6 the proofs](#6-the-proofs),
[7 only model-checked](#7-only-model-checked), [8 findings](#8-findings),
[9 not modelled](#9-not-modelled).

`PROJECT.json` is the machine-readable index: components, runs, mutants (one broken
variant of the code per property), the map from definitions to source lines,
findings, hazards with the properties that cover them, and theorems.

## 1 The system

### Components

| Component (source in `src/aidl`) | State | Operations | Modelled |
|---|---|---|---|
| Tuner (`Tuner.cpp`) | maps of frontends, demuxes, descramblers and LNBs, frontend-to-demux map, internal demux ids, resource users | `openFrontendById`, `openDemux`, `openDemuxById`, `openDescrambler`, `removeDemux`, `removeFrontend`, `setFrontendAsDemuxSource` | `TunerRegistry`, in part |
| Frontend (`Frontend.cpp`) | callback pointer, capabilities, the demux it feeds, its device | `tune`, `stopTune`, `scan`, `stopScan`, `close`, `setCallback`, `sendEventCallBack` | `tune`, `stopTune`, `close` in `TunerRegistry` |
| FrontendDevice (`frontenddevices/FrontendDevice.cpp`) | `mThreadState`, `mRequestTuningStop`, semaphore, descriptor, scan type | `tune`, `scan`, `blindTune`, `stop`, `stopByHw`, thread `DroidFeTask` | `FrontendDevice` |
| HwFeState (`HwFeState.cpp`) | descriptor and node of one hardware tuner, owner, `lnbUsing` | `acquire`, `release`, `acquireForLnb`, `releaseFromLnb` | `HwFeState` |
| Lnb (`Lnb.cpp`) | callback, the tuner it uses | `setVoltage`, `setTone`, `sendDiseqcMessage`, `close` | in `HwFeState` |
| Demux (`Demux.cpp`) | `mFilters`, playback, record and PCR ids, media sync, Dvrs, input and recording threads | `openFilter`, `removeFilter`, `openDvr`, `attachRecordFilter`, `getAvSyncHwId`, `close`, `postData` | `DemuxFilters`, in part |
| Filter (`Filter.cpp`) | hardware id, queue, output buffer, status, AV handles | `configure`, `start`, `stop`, `flush`, `releaseAvHandle`, `close`, handlers | `DemuxFilters`, in part |
| FilterCallbackScheduler (`Filter.cpp`, `Filter.h`) | event buffer, byte count, two delay hints, predicate, running flag | `onFilterEvent`, `setTimeDelayHint`, `setDataSizeDelayHint`, `flushEvents`, `stop`, thread | `FilterCallbackScheduler` |
| AM_DMX_Device (`MultiHwDemux/AmDmx.cpp`, `AmLinuxDvb.cpp`) | table of 32 filters, eventfd, thread flag | `AM_DMX_Open` ... `AM_DMX_Close`, data thread, `dvb_poll` | `AmDmx` |
| AmPesFilter, ParseTEMIData (`MultiHwDemux`) | PES packet under assembly | `extractPesDataFromTsPacket` | no (planned) |
| Dvr (`Dvr.cpp`) | message queue, status, filters, threads | `start`, `stop`, `flush`, playback and record threads | its filters in `DemuxFilters`, a record Dvr's session in `RecordStreams` |
| dvr_record, dvr_playback (`dvr/*.c`) | sessions, streams, key tokens, channels | open, start, read or write, set token, close | `RecordStreams`, in part |
| Descrambler, dsc_dev (`Descrambler.cpp`, `dsc/dsc_dev.c`) | pids and channels, key token, DSM session, key thread, use count of the ca devices | `setKeyToken`, `addPid`, `removePid`, `close`, `caSetKey` | `Descrambler`, in part |
| TimeFilter, MediaSyncWrap, HwDemuxSCWrap | a time stamp; handles of vendor libraries | set, clear, get | no |
| CI (`CI/*.cpp`) | USB CAM, media threads | monitor and media tasks | no (planned last) |
| TS indexers, analog devices, service, utils, tests | see section 9 | | no |

### How they interact

```
client -- binder --> Tuner -> Frontend -> FrontendDevice -> HwFeState <- Lnb
                       |          ^ callback    | DroidFeTask
                       |          +-------------+
                       +--> Demux -> Filter -> FilterCallbackScheduler -> client
                       |      ^  \-> Dvr -> dvr_record / dvr_playback
                       |      | postData
                       |   AM_DMX_Device (data thread, poll, kernel demux)
                       +--> Descrambler -> dsc_dev, DSM session, Dvr's session
```

* A binder call runs on one of the pool's threads. Calls on one object may come
  from several threads at once; there is no lock per object.
* The data thread of a demux reads the hardware table without a lock and calls
  `Demux::postData`, which reads data, looks the filter up by hardware id under
  `mFilterLock`, appends, and looks it up once more to deliver.
* A delivering filter posts events; its scheduler's thread hands a whole batch to
  the client while it holds the scheduler's lock.
* A frontend's call and its thread agree through a state variable, a flag the
  caller spins on, and a semaphore. A frontend that needs the tuner stops the one
  that has it (`stopByHw`) on its own thread.

### What is hard, and what makes each component correct

| Component | Hard behaviour | Correct when |
|---|---|---|
| FilterCallbackScheduler | predicate raised under the lock, notify after it; hints read before the wait; destructor against a sleeping thread | no event is stranded, the wait has the current hint's timeout, events arrive in order and once, `stop` returns |
| AM_DMX_Device | lock-free data thread against allocate, free, start, stop; close joins a thread that may be reading; refused ioctls; a shift as wide as the mask | an id's table entry, descriptor and kernel filter agree; a start is noticed; nothing runs after close; a callback is for the filter whose data it is |
| Demux and Filter | hardware id freed before the table entry is erased; data filed by id, id looked up twice; lookups without a test, which also insert null entries | no two filters share an id; lookups find a filter with a queue; data reaches its own filter, or at worst the next one of its id; the Dvr's set follows |
| FrontendDevice | flag read, then state written, by a thread the caller spins on; events sent after the state; reclaim from another frontend | callers are let go; no event of an old request; a tune gets one answer, from the hardware as tuned for it |
| HwFeState | no lock of its own, each device locks itself, then the owner; node that refuses to open and is retried; two node types; LNB as second user | one user, no leaked node, no lock circle, every acquire answers |
| Tuner | test and set of `isInUse` without lock; a map from frontends to demuxes that several calls write, and that a frontend's call looks a demux up in before it acts on it | a demux has one client and comes back to the pool; a frontend starts, stops and frees only a demux whose client chose it |
| Descrambler | key thread against `setKeyToken`, `addPid`, `close`; a ca device with counted users; calls into the vendor's library that fail | a channel has the keys of the current token's session; ready keys reach every pid; close leaves no channel, session, user or thread |
| Dvr, dvr_record, dvr_playback | tokens set before or after the filter is opened; filters created anew on the secure demux under a running recording; a lock released around poll; a session search without lock | a scrambled stream is recorded from the secure demux, with its own channels and token; close gives all back; a session has one owner; status follows the watermarks |
| AmPesFilter | packet boundaries, lost continuity, chunked reads | output equals the payloads concatenated, or nothing |
| CI | media tasks that wait on conditions | a removed CAM ends its tasks |

The hazards are listed with their lines and the properties that cover them in
`PROJECT.json`. Further places that a reader of the code should know are below. No
property promises anything of them, or the property that comes near names them as its
condition (an event or a misuse of the model, see section 3):

| Line (in `src/aidl`) | What can go wrong |
|---|---|
| `Filter.cpp:87` | setTimeDelayHint raises the condition whatever the new hint is, so that an event posted under a new time delay is delivered at once; the comment at line 162 says that happens only if the time delay is off. |
| `MultiHwDemux/AmDmx.cpp:238` | filter->cb and filter->user_data are read apart and without the lock; AM_DMX_SetCallback(NULL) between them starts the callback with a null device. |
| `MultiHwDemux/AmDmx.cpp:333` | After a failed pthread_create the lock is destroyed but the Demux ignores AM_DMX_Open's result and keeps calling. |
| `MultiHwDemux/AmDmx.cpp:538` | AM_DMX_StartFilter dereferences its null filter when the id is not allocated (Filter::start after Filter::close). |
| `Demux.cpp:577` | When createFilterMQ fails the allocated hardware id is never freed. |
| `Demux.cpp:1439` | Data that was read for a filter is filed by id afterwards: if the filter is closed and another one opened in between, the new one delivers it as its own. OwnDataOnly says how much that can be. |
| `frontenddevices/FrontendDevice.cpp:936` | tune() does not reset mScanType: after a blind scan that was not stopped, a tune is handled by the blind-scan loop and is never answered. |
| `frontenddevices/FrontendDevice.cpp:1041` | The thread calls the client back while a caller may spin for it: a client that calls stop from its callback waits for itself. |
| `frontenddevices/FrontendDevice.cpp:289` | interAnalogTune and blindTune leave mDev.feSettings pointing to a local variable that the thread reads in sendScanCallBack. |
| `Frontend.cpp:1132` | sendEventCallBack tests mCallback and uses it while close() resets it on another thread before it stops the device. |
| `frontenddevices/HwFeState.cpp:136` | An analog device that takes the tuner over from an LNB gets the digital node. |
| `frontenddevices/HwFeState.cpp:184` | A frontend's release closes the tuner an LNB still uses: lnbUsing stays set, and the dish loses its voltage. |
| `Tuner.cpp:736` | A demux that is closed while a call of its frontend is under way may be another client's when that call, which has found it before, marks it free, starts its input or stops it (misuse midClose). |
| `Demux.cpp:1478` | Two calls that start the input of one demux at once (tune and setFrontendDataSource) may both have joined the old thread: the second then assigns to a joinable std::thread, which terminates the process. |
| `Frontend.cpp:243` | Only the first tune of a frontend starts the input of its demux: after a stopTune, which ends it, a later tune does not start it again. |
| `Descrambler.cpp:163` | A token set before the last one's keys were ready opens a new DSM session and forgets the old one, and counts ca_open twice. |
| `Descrambler.cpp:193` | A descrambler whose own ca_open failed uses the device others have opened, and loses its channels when they close. |
| `Descrambler.cpp:602` | An ordinary channel whose key cannot be set is not recorded, and only the close of the device frees it. |
| `Descrambler.cpp:490` | close() of a descrambler that is not for live watching returns early and leaves a key thread of former live watching running on the object. |
| `Descrambler.cpp:525` | A descrambler that never opened the ca device closes it all the same (event closedUnopened): the count of the others goes down. |
| `Demux.cpp:923` | Opening a record Dvr closes the descrambler's DSM session without its lock and sets the token that is set already, which does nothing: live keys are gone (event dvrOpened). |
| `dvr/dvr_record.c:975` | When the secure resources cannot be prepared the caller is told of success, and the stream goes on being recorded from the clear demux. |
| `dvr/dvr_record.c:1088` | A new pid keeps its token when the token cannot be bound: the next token of the pid is only stored. |
| `dvr/dvr_record.c:1041` | When a pid with a filter is given a token before the encryption keys are there the call fails and the token is not stored: ca_ready_check skips the stream (line 536), and it stays without them until the caller sets the token again. |
| `dvr/dvr_record.c:1010` | When the filter created on the secure demux cannot be started, that is only logged: the caller is told of success, the stream is marked as started and nothing is recorded of it (event startFailed). |
| `dvr/dvr_record.c:470` | ca_prepare sets the session's ca_flags in its last line: if it fails after ca_open, the next call opens the device again and the close does not close it; a channel whose scb cannot be set (line 474) is not recorded at all (event caFailed). |
| `dvr/dvr_record.c:308` | When the secure buffer or its session cannot be given back, secure_resource_release returns before it closes the DSM session; dvr_record_close ignores that, and the next dvr_record_open forgets the session (event releaseFailed). |
| `dvr/dvr_record.c:707` | A clear recording opens the ca device of dmx_dev_id[0] but its close closes that of dmx_dev_id[1], and its DSM session is never closed (secure_resource_release at line 300 does it in secure mode only). |
| `Dvr.cpp:303` | The demux ids of a recording are given back to the Tuner before its session is closed: another recording may have them already. |
| `dvr/dvr_record.c:656` | dvr_record_open resets the streams' descriptors without closing those of filters a client has not closed: they stay open for good. |
| `dvr/dvr_record.c:1214` | normal_dvr_with_rb adds the result of a read to the ring's size before it tests whether the read failed. |
| `dvr/dvr_record.c:1604` | A clear recording whose keys are not ready when the token is set never asks again: ca_ready_check runs in secure mode only. |
| `Demux.cpp:616` | A second TEMI filter assigns to a joinable std::thread, which terminates the process. |
| `Demux.cpp:607` | mPcrFilterIds is filled by openFilter and emptied by close only: after a PCR filter is closed its id is still handed out as the AV sync id. |
| `Dvr.cpp:881` | The playback thread iterates the Dvr's filters without a lock while openFilter and removeFilter change the map. |
| `Dvr.cpp:178` | start() tests mDvrThreadRunning, which a record Dvr never sets: a second start assigns to a joinable std::thread. |
| `Dvr.cpp:178` | The record thread is started before dvr_record_start: its first reads are refused. |
| `Filter.cpp:818` | releaseAvHandle closes the descriptor and leaves it in the map: a second release, or clear(), closes a descriptor that may be another file's by then. |
| `Filter.cpp:916` | configureAvStreamType ORs the stream type into mExtendId and never clears the old one: a second call leaves a mixture. |
| `Descrambler.cpp:481` | close() detaches and removes the descrambler's id before it frees its channels: the id and the demux may have a new user already. |
| `Descrambler.cpp:880` | The playback handle taken from the demux's Dvr is kept; the Dvr may close it, and the session be another's, before close() unsets the tokens. |
| `dvr/dvr_playback.c:402` | Unsetting the token of a pid that has none takes a slot for it with token -1 that only the session's close gives back: enough of them and no pid can be descrambled. |
| `dvr/dvr_record.c:570` | A closed session is looked for without a lock: two opens at once get the same one (dvr_playback_open likewise). |
| `dvr/dvr_record.c:755` | The eventfd that ends a read's poll is never read: after a stop and a start every poll returns at once. |
| `dsc/dsc_dev.c:236` | ca_set_scb returns without unlocking when its ioctl fails: every later call on any ca device waits for ever. |
| `Tuner.cpp:886` | Internal demux ids are found and pushed without a lock: two record Dvrs opened at once may share one. |
| `CI/AmCI.cpp:231` | The media task waits on a condition that nothing ever signals when the node could not be opened: the monitor's join never returns after the CAM is removed. |

## 2 The plan

Done, in this order (the most concurrent and most used first):

1. `EventStream`, `FilterCallbackScheduler`: every filter's way to its client.
2. `FilterTable`, `AmDmx`: the hardware table and its thread.
3. `DemuxFilters`: the objects over that table; uses `FilterTable`, the abstract
   table `AmDmx` is shown to implement.
4. `FrontendEvents`, `FrontendDevice`: what a client is told of its requests, and the
   handshake of one frontend with its tuning thread.
5. `HwFeState`: several frontends and an LNB on one tuner, the environment that
   `FrontendDevice` sees as `stopByHw`.
6. `TunerRegistry`: which client has which demux, and which frontend feeds it.
7. `Descrambler`: tokens, sessions, channels and the key thread for live watching.
8. `RecordStreams`: the same for one recording, with the secure demux.

Next:

| Module | Composes | Properties |
|---|---|---|
| `DvrSession` | the search for a free session, used by `RecordStreams` and `DvrThreads` | one owner per session, a slot's token is its stream's, no read after close |
| `DemuxReuse` | `DemuxFilters` and `Demux::close` | a reused demux starts empty; nothing of the old client is delivered |
| `PesRecording` | `Demux`'s subtitle and TEMI threads, `mFilterLock`, `mPesFilterLock` | no deadlock; at most one joinable thread |
| `DvrThreads` | Dvr threads, message queue with watermarks, `DvrSession` | status agrees with fill level, no lost stop, filters stable while iterated |
| `AvHandles` | Filter's descriptor maps | each descriptor closed once; stream type is the last one configured |
| `PesAssembly` | functions only | `AmPesFilter` against a reference definition over bounded packet sequences |
| `CiMonitor` | CI threads | removal ends the tasks |

`EventStream`, `FilterTable` and `FrontendEvents` are the abstract specifications there
are; a session pool for `DvrSession` is the next. Every safety property of the modules
there are is proved (section 6).

## 3 The modules

Every module follows one rule for atomicity: a step is what runs under a lock, or
between two accesses to shared state that no lock protects. Which locks are taken
is in the head comment of each module. Where the code has an operator with
interesting ways to be wrong, the broken variant stands just before the right one
(`flushEventsKeepsLength`, `openForever`, ...); these are not used by the
specifications.

**`EventStream`** is what a filter promises its client: post, flush, deliver all
that is pending in order, shut.

**`FilterCallbackScheduler`** (`Filter.cpp:28-175`). Variables carry the names of the
members. `caller[c] = "notify"` is a thread between its unlock and `notify_all`; `thread` is the
callback thread: `loop`, `wantLock` (woken), `waiting` (with `timed`), `callback`,
`exited`. `threadLoopOnce` evaluates the wait's predicate and either blocks or starts the
callback, holding the lock until `CallbackReturns`. `stop` is the four steps of
the destructor. Hints and lengths are small numbers; payloads are only lengths.

**`FilterTable`** is the table as its users may rely on it, used in two directions:
`AmDmx` implements it and `DemuxFilters` is built from its actions.

**`AmDmx`** (`AmDmx.cpp`, `AmDmx.h`, `AmLinuxDvb.cpp`). `used`, `enable`, `cb`,
`esOutput` are the fields of `AM_DMX_Filter_t`; `fd`, `running`, `ready`, `evtfd`
are the kernel's side (external). A client call is one step, for it holds the lock
throughout and waits for nothing; the data thread has a step per access: poll, read
the descriptors, dispatch over the ids, call. `AM_DMX_Read` is the read loop of
`postData` for an ES filter, which retries until it gets data. A shift by the mask's width
is undefined: `shift` chooses per behaviour between wrapping and zero.

**`DemuxFilters`** (`Demux.cpp`, `Filter.cpp`, parts of `Dvr.cpp`). A Filter object has a
`phase`: `none`, `open`, `callbackCleared`, `freed`, `closed`; the last three are the
steps of `Filter::close`. `mFilters` maps an id to a filter, to `Null` (what a
lookup with `[]` leaves behind) or to `NoEntry`. `calling`, `step`, `datum` are the data callback:
reading, filing by id and delivering by id are steps, and the datum is named after the filter it was
read for. `inherits[f]` says whose data had been read from `f`'s id, and not yet filed, when `f`
was opened: that data the code files to `f`. A
section filter stands for all kinds that have a callback, a record filter for the
kind that has none. `overlapped` rises when a filter is opened or closed while another
one closes.

**`FrontendEvents`** is what a frontend promises its client: a request begins when no
callback of the one before is under way; a tune is answered once, by `LOCKED` or
`NO_SIGNAL`, and lost locks and locks alternate after that; a stopped frontend is silent.

**`FrontendDevice`** (`FrontendDevice.cpp`). `api` is the place of the calling thread
(`call`, `raise`, `spin`, `seen`, ... to `post`), `pc` that of `DroidFeTask`; `req` counts passes
through `requestTuneStop`, `threadReq` and `sigReq` remember for which of them the thread works
and the hardware was tuned, `kind` and `lastEvent` the current request and what the client
was told of it (they are read by properties only). The kind is the one of the call that
last passed through `requestTuneStop`: a call that fails afterwards has ended the request
before it all the same. `readByHw`, `stopByHw`, `closeByHw`
are another frontend's thread inside `stopByHw`.

**`HwFeState`** (`HwFeState.cpp`, `checkOpen`/`stop`/`stopByHw`, `Lnb.cpp`). `file` is the
kernel's view of two descriptors, `fd`, `owner`, `lnbUsing` are the members,
`devFd[d]` is a device's copy. `phase[d]` is the place of an `acquire`; a device holds
its `mHwDevLock` when it is not `idle`. `alive` falls when a null owner is
dereferenced, `overlapped` rises when a call begins while another is under way.

**`TunerRegistry`** (`Tuner.cpp`, the calls into it of `Demux.cpp` and `Frontend.cpp`).
Nothing here has a lock, so a call has a step for each access to what others share. Opening a
demux is `testInUse`, `setTunerService`, `setInUse`; closing it is `close`, `closeDevice`,
`removeDemux`, `giveBack`; `setFrontendDataSource` writes the map and goes on to `isLocked`,
`joinInput`, `startInput`. A frontend's call looks its demux up in the map and acts on what it has
found afterwards: `tune` goes on to `tuneJoins` and `tuneStarts`, `stopTune` to `stopInput` and
`unlock`, `closeFrontend` to `removeFrontend`, `freeDemux` and `forgetDemux`. `pc`, `choice` and
`feeding` are the place, the demux and the frontend of a client's call, `fpc` and `found` the place
and the demux of a frontend's. `holds` and `source` say what clients
have opened and chosen; the code keeps no such record. `input[d]` is the
thread that `startFrontendInputLoop` starts; where the code would assign to a thread that still
runs, and the process end, the model goes on with the later thread.

**`Descrambler`** (`Descrambler.cpp`, `dsc_dev.c`). The methods that take
`mDescrambleLock` are one step each; `caSetKey` is the thread, whose two locked sections
are `check` and the probe; `close` is a locked part and the `join`. `session` is the
DSM library's side, `driver` the ca driver's: whose keys each channel has. Slot
lists of an NSK descrambler ask for several channels of a pid. That `DSM_BindToken` may
fail is left out: the code logs it and goes on as if it had not.

**`RecordStreams`** (`dvr_record.c`, the calls of `Dvr.cpp`, `Filter.cpp` and
`Descrambler.cpp`). `stream` is the session's slots. The demuxes are
`clear`, `secure` and `inject` (`dmx_dev_id[0..2]`). `ClearToScrambled`, `ScrambledAgain`
and `NewPid` are the three ways of `dvr_record_set_key_token`, `PrepareFails` and
`BindFails` its failures. `ca_prepare` is one operator for all streams that ask in a call; how far each
of them gets is its fate (`Later`, `Nothing`, `Opened`, `Allocated`, `Stored`, `Keyed`, `Done`: the
points between which the code returns), which the keys that are ready and the failures chosen decide.
Creating the filter anew on the secure demux and starting it (`Moved`) may fail each, and so may
giving the secure resources back (`dvr_record_close`). `current` and `scrambled` record what the
clients were told.

**What a property is conditional on.** These three modules record in a variable
(`misuse`, `events`) what has happened that the code does not cope with: calls that overlap,
a frontend closed before its demux, a demux closed during a call of its frontend (`midClose`), a
vendor call that failed, a slot used again. The
properties name the entries they allow, and those alone. The entries
no property allows are where the code really loses what the property
promises; they are in the table of section 1. `overlapped` in
`DemuxFilters` and `HwFeState` is of the same kind. A bound (`MaxMisuses`, `MaxEvents`) says how many
kinds may happen in one behaviour, another (`MaxFailures`) how often preparing a channel may fail.

**`MC*`** modules extend the module they check, with the operators only TLC needs
(symmetry sets). **`*_proof`** modules hold theorems only.

## 4 The runs

| Run | Properties | What it shows |
|---|---|---|
| `scheduler_stream` | `NoStrandedEvents`, `TimeoutMatchesHint`, `DataLengthAgrees`, `StreamSpec`, `EventuallyHandedOver`, `StopReturns` | two threads that post, flush and change hints against the callback thread and the destructor: no lost wakeup, no stale timeout, no drifting byte count, `EventStream` is implemented; events whose delay condition holds leave the buffer and the destructor returns |
| `dmx_table` | `TableAndKernelAgree`, `NoMissedStart`, `ImplementsFilterTable`, `EventuallyServed`, `CloseReturns` | every interleaving of two filters' calls, refused ioctls and the close with the data thread; if streams carry data, that of an enabled filter is picked up and the close returns |
| `dmx_mask` | `CallbackForItsOwnData` (violated) | finding 1 |
| `filters_safety` | `OneOwner`, `TablesAgree`, `OwnDataOnly`, `SerialFilterRegistered`, `MediaSyncKept` | opens, closes and data callbacks of a section and a record filter on two hardware ids, overlapping or not; the data a filter gets is its own, or what was read from the id before it was opened |
| `filters_overlap` | `OpenFilterRegistered` (violated) | finding 2 |
| `frontend_requests` | `NoStaleEvent`, `ContractSpec` | tunes, scans, blind scans and stops in any order: events belong to the current request, and `FrontendEvents` is implemented |
| `frontend_reclaimed` | `NoMissedWakeup`, `StopAcknowledged` | the same while another frontend may take the tuner at any step |
| `frontend_tune` | `AnswersOwnTuning`, `TuneAnswered` | tunes with a stop in between are answered, from the hardware as tuned for them |
| `tuner_shared` | `OwnerOnly`, `DescriptorsAccounted`, `NoLockCycle`, `AcquireReturns` | digital and analog frontends and an LNB, opens failing anywhere, calls overlapping in every way; the first two state what holds as long as no calls have overlapped |
| `registry` | `Leased`, `ReturnsToPool`, `FedByItsSource` | two clients that open, feed and close two demuxes while a frontend tunes, stops and closes, each of whose calls finds a demux first and acts on it later |
| `descrambler` | `KeysOfCurrentToken`, `NothingLeftBehind`, `NoThreadAfterClose`, `KeysReachChannels`, `CloseReturns` | two descramblers that share the ca device, tokens and pids in any order against the key threads and the closes |
| `record_streams` | `ScrambledOnSecureDemux`, `OwnChannels`, `TokenBound`, `FilterKeepsItsSlot`, `ReleasedOnClose`, `KeysReachStreams` | one recording, encrypted or not: filters opened and closed, tokens set and keys arriving in any order, each step of preparing, moving and closing that can fail failing |

`TypeOK` of every module is proved rather than run (section 6).

Bounds, and why they are enough:

* Scheduler: two callers (the data thread and a client) are all that notify at once
  in a way that matters, since a third does what the second does; three events allow
  one delivered, one in the batch under way and one posted meanwhile; hints take "off" and one value, the size hint one that one event does
  not reach and two or a larger one do.
* Hardware table: two filters with a two-bit mask keep the code's relation (32
  filters, 32 bits, the eventfd's slot one beyond). One filter may be allocated
  while the other is called. The kernel may refuse to stop filter 1 at any time and
  never filter 2, so that a close meets both; the proofs take any set of them.
* Filter tables: a section and a record filter on two ids meet in the tables, outlive
  each other and pass an id on (an object is opened once, as in the code); the
  run with overlap needs one id and two filters.
* Frontend: four requests allow a scan, a tune after it, a stop and a tune again,
  with the thread up to three requests late. With reclaims two requests suffice for a
  request lost to another frontend and one that follows; the run with tunes only has five.
* Tuner: two digital devices, one analog and one LNB have every kind of
  hand-over; two tries stand for twenty (a failed one and the last).
* Registry: two clients (interchangeable) and two demuxes that can be taken from each
  other, one frontend that feeds them in turn or, as a misuse, both, one kind of misuse per behaviour.
  That is 4.2 million states and two minutes; two frontends that share a demux are left to the proofs.
* Descrambler: two descramblers that share the device, a pid, a token to change to, two
  sessions and three channels, so that channels run out; three counted users allow one
  more than there are descramblers. One kind of event per behaviour.
* Recording: two pids and two slots, each free to be used again by the other; one token
  (a second is an event of its own, which the proofs cover), two users and two channels
  of a ca device, one session, one kind of event and one failing preparation per behaviour (653 thousand states, two
  minutes). The proofs have no such bounds. Key slots never run out; and that a stream gets a key for
  one of its slots, fails for the next, and on a third try passes over the first is left out.

`CHECK_DEADLOCK FALSE` is given where the system stops: the scheduler after its
destructor, the frontend when the bound of requests is reached and the client calls no more, the
tuner after a crash.

Some preconditions are part of what the code's callers do: calls on one frontend
come one after another (`Frontend` has one client); a filter is opened once; an id that is
not allocated is not used (the code dereferences null there: a hazard, not a
state to explore); a descrambler has its demux before its token; a pid has one record
filter at a time and a recording has slots enough.

## 5 Fairness

* Scheduler: weak fairness of the callback thread, of a caller that must still
  notify and of the destructor once entered; weak fairness of the client's callback
  returning (`StopReturns` would not hold otherwise, and does not in the code); strong
  fairness of the timeout, because `wait_for` keeps its deadline when it is woken in
  between. No caller has to call.
* Hardware table: weak fairness of the data thread and of the close. Data arrives
  on every started stream (weak), which is an assumption about the input; a read
  that spins meets data that is there again and again (strong).
* Frontend: weak fairness of a call that has begun, of the tuning thread (client
  callbacks return) and of the hardware, which reports lock or a timeout after a
  tune; strong fairness of the poll loop's clock. The client need not call.
* Tuner: weak fairness of an `acquire` under way; strong fairness of `stopByHw`:
  a mutex that is free again and again lets in its waiter. Without it three
  devices that take the tuner in turn may starve a fourth call.
* Descrambler: weak fairness of the key thread and of a join whose thread has ended;
  strong fairness of the keys being ready when they are asked for: an assumption
  about the key server, without which the thread polls for ever, as in the code.
* Recording: weak fairness of the record thread's read, as long as nothing has happened that the
  code does not cope with. Keys need not arrive; what is
  promised is promised once they have.
* Registry: none; no property needs it.

## 6 The proofs

TLAPS checks the theorems below for every value of the constants allowed by the
`ASSUME`s of the modules (finite or infinite sets of callers, devices and filters
as stated there; `TLC` evaluates the assumptions for the
instances it runs). Every module's `TypeOK` is proved (`Typing`).

**Scheduler** (`FilterCallbackScheduler_proof`). Assumed: hints and lengths are naturals, zero is a hint.
The inductive invariant adds to the two properties who holds the lock
(`LockDiscipline`: it is taken exactly during a callback), the order of `stop`
(`StopOrder`) and that a batch is not empty. They are needed because
`NoStrandedEvents` is kept by a step only if nobody else is in the lock, and the
refinement needs that `Deliver` has something to deliver. `NoLostWakeup`, `WaitFollowsHint` and
`ImplementsEventStream` follow; the last maps `onFilterEvent` to `Post`,
`CallbackReturns` to `Deliver`, `flushEvents` to `Flush`, the end of `Join` to
`Shut`, all else to stuttering. `CountAgrees` (`DataLengthAgrees`) is inductive by itself once
the sum is stated by its prefixes, a function that `onFilterEvent` extends by one value and
nobody has to compute by recursion. `Ordered` says of the events the client has received, and
those of the batch under way or still buffered after them, that their numbers rise:
no event is delivered twice or before an earlier one.

**Hardware table** (`AmDmx_proof`). Assumed: at least one filter and one mask bit. Invariant: types, the data
thread's cursor is an id when it calls, the thread lives only while the device does, and the
two properties. `TableHoldsUp` (`TableAndKernelAgree`) rests on facts about the stop and free
helpers with an arbitrary set of refused ioctls. `Refinement` proves
`ImplementsFilterTable`: client calls map to the table's actions of the same name, the
data thread's `Call` to `BeginCall`, both parts of the close to `CloseTable` at the second.
`WiderMask` proves what finding 1 is about: if the mask had one bit more than there are
filters, `CallbackForItsOwnData` would hold. The mask is the union of the bits of the slots
that poll found readable (`MaskOfSignalled`), the filter being called has one of them
(`CalledHasBit`), and no slot but its own has a filter's bit (`BitsOfIds`), the eventfd's
included, however a shift by the mask's width turns out. The code's constants do not satisfy
the hypothesis, which is the finding.

**Filter tables** (`DemuxFilters_proof`). Assumed: `RecordFilters` are filters, `Filters` is finite, null values differ. Invariant:
an id's entry carries that id (`EntriesMatch`), an unowned id has no callback
(`CallbacksCleared`), the datum of a callback comes from the id being called
(`DatumOfCall`), the filter found under that id before the datum is filed is the one it is of or was
opened since and inherits it (`Heir`), and the properties, which need each other: `OneOwner` is what makes
`EntriesMatch` survive `removeFilter`. One lemma per operation. `OneOwner`, `TablesAgree` and
`OwnDataOnly` are proved for every overlap of opens and closes. `SerialFiltersRegistered` and `MediaSyncStays` are
about the time before the first overlap; their invariant `Serial` adds that a
closing filter's id is no open one's, so that what it removes is its own.

**Frontend** (`FrontendDevice_proof`). `WorkIsPosted` (`NoMissedWakeup`) is inductive with the types
and holds also when the tuner is reclaimed. `OnlyCurrentEvents` and
`ImplementsContract` are about a frontend whose tuner is not taken away; their
invariant `Handshake` says that what the caller has seen lasts until it sets a new
state (`RestLasts`), that a thread at rest is at a place where it sends nothing
(`RestIsQuiet`), that elsewhere it works for the current request on the state that is
still set (`CurrentRequest`, `WorksOnState`), and which event may come next
(`StartsUnanswered`, `AnswerDue`, `IdleAgrees`) to which kind of request
(`StateOfKind`). `ImplementsContract` (`ContractSpec`) maps `dropStop` to `Begin`,
`sendTuneEvent` to `Answer` and `reportChange` to `Change`, reports of a scan to `Progress`,
and the ends of the callbacks to `Returns`; that `Begin` meets no callback is
`RestIsQuiet`. `OwnAnswers` (`AnswersOwnTuning`) assumes in addition that a request is
stopped before the next, as `frontend_tune` does: without that the code may answer from
the old tuning (a hazard of line 190). Its invariant says that a closed device is tuned for nothing
(`ClosedIsUntuned`), that the driver's event is of the tuning it has (`EventOfTuning`), that an
open device is tuned for the current request or not yet (`TunedForRequest`), and that the
thread has learned what it knows of the signal for the request it works for
(`SignalOfRequest`).

**Tuner** (`HwFeState_proof`). `LocksAcyclic` holds for every overlap of calls: a device that
waits is never the owner, so when a device begins to wait for the owner, that wait
ends at a device that waits for nobody, and no other step adds a wait. `OneUser` and
`NothingLost` (`DescriptorsAccounted`) are about the time before calls overlap: whoever has a descriptor is the
owner and has the tuner's (`UserIsOwner`), one call is under way (`OneCall`), and each of its places
has the owner it needs (`CallState`). For the descriptors it adds that the owner's node
is the one it opened (`RightOwner`) and that a tuner without owner is the LNB's
(`UnownedIsLnbs`).

**Registry** (`TunerRegistry_proof`). Assumed: at least one demux, any number of frontends and clients. `Pool`
(`ReturnsToPool`) holds whatever callers do. `OwnSource` (`FedByItsSource`) has two parts. That the map
leads from a frontend only to a demux whose present client chose it needs no order of calls, only that a
frontend feeds one demux and shares none: then the mappings are one to one (`OneToOne`, in
`OwnMappings`), which is why erasing the first mapping erases the only one. That a call acts on
such a demux too, and a demux reads from such a frontend, is false in general, for a call acts
later than it looks. It is proved while `misuse` has no more than `earlyClose` (`Tame`): clients'
calls come one after another (`Serial`), the demux a frontend's call has found keeps it as
its source (`CallsOwn`), since its frontends rest while it closes (`ClosesAtRest`), and so
do the demuxes that are fed or read (`FeedsOwn`, `ReadsOwn`). `Leasing` (`Leased`) holds while `misuse` is empty:
the chosen demux is nobody's until it is marked, a demux being closed is still its client's, no
hardware demux is left on a free one (`Lending`), and a frontend that closes is no demux's
source (`ClosesUnused`), so that it frees none.

**Descrambler** (`Descrambler_proof`). Assumed: finitely many descramblers. `Threads`
(`NoThreadAfterClose`) needs that a descrambler that does not watch live has started no
thread (`ThreadsLive`), since its close joins none. `Keys`
(`KeysOfCurrentToken`) needs `TokenFirst` (outside live watching there is a token),
sessions that are bound to their descrambler's token and to no other (`SessionsOk`),
channels that are recorded once (`ChannelsOk`), and that the device's count is not below
its users (`UsersOk`), so that nobody's close takes another's channels. `AllGivenBack`
(`NothingLeftBehind`) needs the opposite bound and none of these: no more uses are counted than
there are users (`Counted`), who are open (`ClosedIsNoUser`) and have a token that is watched
live (`OpenedForToken`), so that a close too many only makes the device go early; with the
device go all channels, recorded or not (`ChannelsGone`), and a session in use is some open
descrambler's (`SessionsUsed`, `SessionsOwned`). It fails only with a second token, which
counts a user twice.

**Recording** (`RecordStreams_proof`). For each call a lemma says what it does to the slots (`...Does`);
`Preparing` says it of `ca_prepare`, which they share, for any fates of the streams; `Fated` and
`InTurnFated` say which fates there are, `FailDoes` and `NoFailure` what is recorded when they are not
the usual ones. `Channels` (`OwnChannels`) and
`Tokened` (`TokenBound`) are kept by them, given
that a token has been bound before it is used (`BoundWhenUsed`). `Slotted` (`FilterKeepsItsSlot`) needs that a pid is in one slot
(`UniquePids`) and that an open filter's index is that slot (`SlotsAgree`). `SecureDemux`
needs both, and that in an open session a pid whose token was set successfully has it in its
slot; a slot with a token, also of a closed session, has its filter on the secure demux or none
(`TokensAgree`). `GivenBack`
(`ReleasedOnClose`) is kept in two books, which different failures spoil. The session's (`SessionBooks`,
spoiled by a late token and by secure resources that cannot be given back): an encrypted recording
has a DSM session exactly in secure mode (`SessionLedger`), and none once it is closed. The devices'
(`DeviceBooks`, spoiled by a late token and by a channel that could not be prepared): in an encrypted recording each ca
device is used once and by the session that will close it (`DeviceLedger`), which takes the
device's channels along; that is so because the first of the streams that get to the end opens it
for all (`FirstSlot`). A clear recording has one channel of the clear demux for each slot that
holds one, and they all have tokens (`ClearLedger`), so that a close, which goes by the tokens,
misses none.

## 7 Only model-checked

* Liveness is out of the prover's reach: `EventuallyHandedOver`, `StopReturns`,
  `EventuallyServed`, `CloseReturns` (of the hardware table and of the descrambler),
  `StopAcknowledged`, `TuneAnswered`, `AcquireReturns`, `KeysReachChannels`,
  `KeysReachStreams`.
* Every other property of a passing run is the statement of a theorem. The two properties that
  runs refute (section 8) are not theorems; `WiderMask` has the first under a
  hypothesis the code does not satisfy.

## 8 Findings

1. `AmDmx.h:95`: `1<<i` with ids up to 32 and a slot 33 in a 32-bit mask. Where the
   shift wraps, waking the data thread calls filter 1 back without data; where it
   yields zero, filter 32 is never called. (`dmx_mask`)
2. `Filter.cpp:831`: `close` frees the hardware id before it removes itself under
   that id. An open in between is unregistered by the close. (`filters_overlap`)

Other places where the code does not do what one would expect contradict no statement of
the repository that a run could hold against it, or are the conditions of properties that
pass. They are in the table of section 1 and, where a property is near, in the hazards.

## 9 Not modelled

* Planned: see section 2; the lines that are at stake are in the table of section 1.
* `AM_DMX_Device`: calls that keep no state (`GetSTC`, `SetBufferSize`, `SetSource`, ...), a
  `pthread_create` that fails, calls that overlap the part of the close after the
  join. `Filter`: queue status, AV handles and the data of events. `FrontendDevice`:
  `release` and its state `FINISH` (never reached: the Tuner keeps every Frontend), the status
  getters, and the analog device's own polling.
* `Tuner`: LNBs, descramblers and internal demux ids by name, resource users, shared
  filters, queries. `Descrambler`: the tokens of a playback session and `ca_set_scb`.
  `dvr_record`: the transport of bytes and the ring buffers, the search for a free
  session. `dvr_playback`; the threads and the queue of `Dvr`.
* `Frontend*Device` per standard: translation of settings to driver properties; the
  model keeps whether it succeeds. TS indexers, `ParseTEMIData`: pure parsers of
  bytes. `TimeFilter`, `MediaSyncWrap`, `HwDemuxSCWrap`, `analogInterface`: no state of
  their own that more than one step could break. `AmDvr`, `AmTsIndexer`: not used.
* `service.cpp` registers the service. `utils` holds copies of Android libraries.
  `1.0` and `1.1` are older versions of the same service; the Java applications and
  XML files are tests and configuration.
* These last two items are most of the repository's lines: three fifths are the older generations, and
  much of `aidl` translates settings and results field by field, parses headers
  or belongs to libraries. Mapping the older generations to the same definitions would
  double the lines that are covered and add nothing that is checked.
