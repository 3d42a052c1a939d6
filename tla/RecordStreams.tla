---------------------------- MODULE RecordStreams ----------------------------
(***************************************************************************)
(* One recording session of a demux: its pid streams, the key tokens the   *)
(* descramblers set for them, the secure demux a scrambled stream moves to *)
(* when recordings are encrypted, the descrambling and re-encryption       *)
(* channels, and the record filters that keep the index of their stream    *)
(* (aidl/dvr/dvr_record.c; Dvr.cpp, Filter.cpp and Descrambler.cpp, which  *)
(* call it).                                                               *)
(*                                                                         *)
(* Every function holds the session's lock and is one step; Dvr::close     *)
(* takes the handle from the demux only after it has closed the session.   *)
(* A pid has one record filter at a time, configured once, and there are   *)
(* slots enough.  Descramblers never unset a record token.  The DSM and    *)
(* ca libraries and the kernel's filters are external, and may fail.       *)
(***************************************************************************)
EXTENDS Integers, FiniteSets

CONSTANTS
    Pids,
    Tokens,
    None,           \* of a pid, token, index or channel: -1
    NumSlots,       \* DVR_MAX_RECORD_PID_CNT
    MaxUse,         \* bound: counted users of a ca device
    MaxChannels,    \* bound: allocated channels of a ca device
    MaxSessions,    \* bound: open DSM sessions
    MaxFailures,    \* bound: failures to prepare a stream's channel
    MaxEvents       \* bound: kinds of event in one behaviour

Slots == 1..NumSlots
Usages == {"des", "enc"}                  \* DVR_CA_USAGE_*
Demuxes == {"clear", "secure", "inject"}  \* dmx_dev_id[0..2]

ASSUME NoneAssumption == None \notin Pids \cup Tokens \cup Slots /\ None \notin {"clear", "secure"}
ASSUME BoundsAssumption ==
    /\ NumSlots \in Nat /\ MaxUse \in Nat /\ MaxChannels \in Nat /\ MaxSessions \in Nat
    /\ MaxFailures \in Nat /\ MaxEvents \in Nat

VARIABLES
    state, encrypt_pvr, is_secure_mode, ca_flags,
    stream,         \* the slots
    dsm_sess,       \* whether the session has a DSM session
    bound,          \* external: the token that is bound to it
    ready,          \* external: the usages whose key slots are ready
    dsmSessions,    \* external: open DSM sessions
    useCount,       \* of each ca device
    channels,       \* external: allocated channels of each ca device
    failures,       \* how often preparing a stream's channel failed
    mRecordhandle,  \* whether the demux has the session's handle
    recFilerId,     \* the index kept by each pid's record filter, None if it is closed
    current,        \* the pids whose filters were opened in this session
    scrambled,      \* the pids whose token was set successfully in it
    events          \* what has happened that the code does not cope with

dsm == <<dsm_sess, bound, ready, dsmSessions>>
ca == <<ca_flags, useCount, channels, failures>>
clients == <<recFilerId, current, scrambled>>
vars == <<state, encrypt_pvr, is_secure_mode, stream, dsm, ca, mRecordhandle, clients, events>>

Events == {"prepareFailed", "bindFailed", "createFailed", "startFailed", "caFailed", "releaseFailed",
           "otherToken", "closedScrambled", "staleFilter", "lateToken"}

NoChannels == [u \in Usages |-> None]
Free == [pid |-> None, fd |-> None, running |-> FALSE, started |-> FALSE,
         key_token |-> None, flags |-> {}, chans |-> NoChannels]

\* The setting is read once, when the service starts.
Init ==
    /\ state = "closed" /\ encrypt_pvr \in BOOLEAN /\ is_secure_mode = FALSE /\ ca_flags = {}
    /\ stream = [i \in Slots |-> Free]
    /\ dsm_sess = FALSE /\ bound = None /\ ready = {} /\ dsmSessions = 0
    /\ useCount = [d \in Demuxes |-> 0] /\ channels = [d \in Demuxes |-> 0] /\ failures = 0
    /\ mRecordhandle = FALSE
    /\ recFilerId = [p \in Pids |-> None] /\ current = {} /\ scrambled = {}
    /\ events = {}

Record(e) == events' = events \cup e /\ Cardinality(events') <= MaxEvents
If(condition, name) == IF condition THEN {name} ELSE {}

SlotOf(p) == {i \in Slots : stream[i].pid = p}
FirstFree == {i \in SlotOf(None) : \A j \in SlotOf(None) : i <= j}

-----------------------------------------------------------------------------
(* The session.                                                            *)

\* Mutant: the streams' channels are not reset.
dvr_record_openKeepsChannels ==
    /\ state = "closed" /\ ~mRecordhandle
    /\ state' = "opened" /\ mRecordhandle' = TRUE
    /\ stream' = [i \in Slots |-> [Free EXCEPT !.chans = stream[i].chans]]
    /\ is_secure_mode' = FALSE /\ ca_flags' = {} /\ dsm_sess' = FALSE /\ bound' = None /\ ready' = {}
    /\ current' = {} /\ scrambled' = {}
    /\ UNCHANGED <<encrypt_pvr, dsmSessions, useCount, channels, failures, recFilerId, events>>

\* Of the Dvr's constructor.
dvr_record_open ==
    /\ state = "closed" /\ ~mRecordhandle
    /\ state' = "opened" /\ mRecordhandle' = TRUE
    /\ stream' = [i \in Slots |-> Free]
    /\ is_secure_mode' = FALSE /\ ca_flags' = {} /\ dsm_sess' = FALSE /\ bound' = None /\ ready' = {}
    /\ current' = {} /\ scrambled' = {}
    /\ UNCHANGED <<encrypt_pvr, dsmSessions, useCount, channels, failures, recFilerId, events>>

dvr_record_start ==
    /\ state = "opened"
    /\ state' = "started"
    /\ UNCHANGED <<encrypt_pvr, is_secure_mode, stream, dsm, ca, mRecordhandle, clients, events>>

\* A stopped session is like one that has not been started.
dvr_record_stop ==
    /\ state = "started"
    /\ state' = "opened"
    /\ UNCHANGED <<encrypt_pvr, is_secure_mode, stream, dsm, ca, mRecordhandle, clients, events>>

\* The ca device of a usage.
DeviceOf(u) == IF u = "enc" THEN "inject" ELSE IF encrypt_pvr THEN "secure" ELSE "clear"

\* The streams with a token.
Scrambled == {i \in Slots : stream[i].key_token # None}

\* ca_release frees their channels of a device.
Released(d) == {x \in Scrambled \X Usages : stream[x[1]].chans[x[2]] # None /\ d = DeviceOf(x[2])}

\* Mutant: only the descrambling device is closed.
ClosesOne(d) == d = "secure" /\ "des" \in ca_flags

\* The ca devices dvr_record_close closes once.
Closes(d) == (d = "secure" /\ "des" \in ca_flags) \/ (d = "inject" /\ "enc" \in ca_flags)

\* The channels of the streams with a token, the ca devices and, after secure
\* recording, the DSM session are given back; the streams' filters are not closed.
\* If the secure buffer or its session cannot be given back, the DSM session is not.
dvr_record_close ==
    /\ state # "closed"
    /\ state' = "closed"
    /\ stream' = [i \in Slots |->
          IF i \in Scrambled THEN [stream[i] EXCEPT !.key_token = None, !.chans = NoChannels] ELSE stream[i]]
    /\ useCount' = [d \in Demuxes |-> IF Closes(d) /\ useCount[d] > 0 THEN useCount[d] - 1 ELSE useCount[d]]
    /\ channels' = [d \in Demuxes |->
          IF useCount'[d] = 0 THEN 0 ELSE channels[d] - Cardinality(Released(d))]
    /\ ca_flags' = {}
    /\ \/ ~is_secure_mode /\ UNCHANGED <<is_secure_mode, dsm, events>>
       \/ /\ is_secure_mode
          /\ is_secure_mode' = FALSE
          /\ dsm_sess' = FALSE /\ bound' = None /\ ready' = {} /\ dsmSessions' = dsmSessions - 1
          /\ UNCHANGED events
       \/ is_secure_mode /\ UNCHANGED <<is_secure_mode, dsm>> /\ Record({"releaseFailed"})
    /\ UNCHANGED <<encrypt_pvr, failures, mRecordhandle, clients>>

\* The end of Dvr::close.
setRecordHandle ==
    /\ state = "closed" /\ mRecordhandle
    /\ mRecordhandle' = FALSE
    /\ UNCHANGED <<state, encrypt_pvr, is_secure_mode, stream, dsm, ca, clients, events>>

-----------------------------------------------------------------------------
(* Channels.                                                               *)

\* How far ca_prepare gets for a stream and a usage: it opens the usage's device, allocates
\* a channel, stores it, sets its first key, sets them all.  Or there is nothing to do yet.
Later == -1
Nothing == 0
Opened == 1
Allocated == 2
Stored == 3
Keyed == 4
Done == 5

\* The streams and usages that ask, of S and U.  Without the usage's keys they get nowhere,
\* and only those of descrambling may come later.
Asking(S, U) == {x \in S \X U : x[2] \notin stream[x[1]].flags}
Usual(u) == IF u \in ready THEN Done ELSE IF u = "enc" THEN Nothing ELSE Later

\* Where some of those that ask may fail.
Stops(u) ==
    IF u \notin ready THEN {Nothing} ELSE (Nothing..Keyed) \ (IF u = "des" THEN {Allocated} ELSE {})
Few(A) == {F \in SUBSET A : failures + Cardinality(F) <= MaxFailures}
Failures(A) ==
    UNION {{f \in [F -> Nothing..Keyed] : \A x \in F : f[x] \in Stops(x[2]) \ {Usual(x[2])}} : F \in Few(A)}
Fail(f, e) ==
    /\ Record(e \cup If(DOMAIN f # {}, "caFailed"))
    /\ failures' = failures + Cardinality(DOMAIN f)

\* How far each gets.
Fate(A, f) ==
    [i \in Slots |-> [u \in Usages |->
        IF <<i, u>> \in DOMAIN f THEN f[<<i, u>>] ELSE IF <<i, u>> \in A THEN Usual(u) ELSE Later]]

\* ca_prepare for streams of s, in the order of their slots.  A device is opened until it
\* is known to be, and a channel is allocated for a stream that has none stored.
ca_prepare(s, fate) ==
    LET Opens(u) == {i \in Slots :
            fate[i][u] >= Opened /\ u \notin ca_flags /\ \A j \in Slots : fate[j][u] = Done => j >= i}
        Allocs(u) == {i \in Slots : fate[i][u] >= Allocated /\ s[i].chans[u] = None}
        Uses(d) == {u \in Usages : DeviceOf(u) = d}
    IN
    /\ useCount' = [d \in Demuxes |-> useCount[d] + Cardinality(UNION {Opens(u) : u \in Uses(d)})]
    /\ channels' = [d \in Demuxes |-> channels[d] + Cardinality(UNION {Allocs(u) : u \in Uses(d)})]
    /\ \A d \in Demuxes : useCount'[d] <= MaxUse /\ channels'[d] <= MaxChannels
    /\ ca_flags' = ca_flags \cup {u \in Usages : \E i \in Slots : fate[i][u] = Done}
    /\ stream' = [i \in Slots |->
          [s[i] EXCEPT !.flags = @ \cup {u \in Usages : fate[i][u] >= Keyed},
                       !.chans = [u \in Usages |->
                           IF fate[i][u] >= Stored /\ @[u] = None THEN s[i].pid ELSE @[u]]]]

\* Whether it returns 0 for a stream.  If not, the next usage is not asked for.
Prepared(fate, i) == \A u \in Usages : fate[i][u] \in {Later, Done}
InTurn(fate) ==
    [i \in Slots |->
        IF fate[i]["des"] \in {Later, Done} THEN fate[i] ELSE [fate[i] EXCEPT !["enc"] = Nothing]]

Wanted == IF encrypt_pvr THEN Usages ELSE {"des"}

\* Mutant: the thread asks for the descrambling channels only.
dvr_record_readDescramblesOnly ==
    /\ state = "started" /\ is_secure_mode
    /\ LET A == Asking(Scrambled, {"des"}) IN
       \E f \in Failures(A) : Fail(f, {}) /\ ca_prepare(stream, Fate(A, f))
    /\ UNCHANGED <<state, encrypt_pvr, is_secure_mode, dsm, mRecordhandle, clients>>

\* ca_ready_check, each time the record thread reads a stream with indexes: streams with
\* a token ask again for what they miss, whoever fails.
dvr_record_read ==
    /\ state = "started" /\ is_secure_mode
    /\ LET A == Asking(Scrambled, Usages) IN
       \E f \in Failures(A) : Fail(f, {}) /\ ca_prepare(stream, Fate(A, f))
    /\ UNCHANGED <<state, encrypt_pvr, is_secure_mode, dsm, mRecordhandle, clients>>

\* External: the keys of a bound token arrive.
SlotReady(u) ==
    /\ dsm_sess /\ bound # None /\ u \notin ready /\ (u = "enc" => encrypt_pvr)
    /\ ready' = ready \cup {u}
    /\ UNCHANGED <<state, encrypt_pvr, is_secure_mode, stream, dsm_sess, bound, dsmSessions, ca,
                   mRecordhandle, clients, events>>

-----------------------------------------------------------------------------
(* Record filters: Filter::configure, start, stop and close.               *)

\* The pid's slot or the first free one, on the secure demux if the pid's slot has a token.
dvr_record_open_filter(p) ==
    /\ mRecordhandle /\ state # "closed" /\ recFilerId[p] = None
    /\ \E i \in IF SlotOf(p) # {} THEN SlotOf(p) ELSE FirstFree :
        /\ stream' = [stream EXCEPT
              ![i].fd = IF SlotOf(p) # {} /\ stream[i].key_token # None /\ encrypt_pvr THEN "secure" ELSE "clear",
              ![i].running = FALSE, ![i].pid = p]
        /\ recFilerId' = [recFilerId EXCEPT ![p] = i]
    /\ current' = current \cup {p}
    /\ UNCHANGED <<state, encrypt_pvr, is_secure_mode, dsm, ca, mRecordhandle, scrambled, events>>

\* A filter of a former session keeps its index, too.
Stale(p) == If(p \notin current, "staleFilter")

dvr_record_start_filter(p) ==
    /\ recFilerId[p] # None /\ state # "closed" /\ stream[recFilerId[p]].fd # None
    /\ stream' = [stream EXCEPT ![recFilerId[p]].running = TRUE, ![recFilerId[p]].started = TRUE]
    /\ Record(Stale(p))
    /\ UNCHANGED <<state, encrypt_pvr, is_secure_mode, dsm, ca, mRecordhandle, clients>>

dvr_record_stop_filter(p) ==
    /\ recFilerId[p] # None /\ stream[recFilerId[p]].fd # None
    /\ stream' = [stream EXCEPT ![recFilerId[p]].running = FALSE, ![recFilerId[p]].started = FALSE]
    /\ Record(Stale(p))
    /\ UNCHANGED <<state, encrypt_pvr, is_secure_mode, dsm, ca, mRecordhandle, clients>>

\* The slot is free, but keeps its token and channels.
Cleared(s) == [s EXCEPT !.fd = None, !.running = FALSE, !.pid = None, !.started = FALSE]

dvr_record_close_filter(p) ==
    /\ recFilerId[p] # None
    /\ LET i == recFilerId[p] IN
       IF stream[i].fd = None
       THEN UNCHANGED <<stream, events>>
       ELSE /\ stream' = [stream EXCEPT ![i] = Cleared(@)]
            /\ Record(IF p \in current
                      THEN If(stream[i].key_token # None \/ stream[i].chans # NoChannels, "closedScrambled")
                      ELSE {"staleFilter"})
    /\ recFilerId' = [recFilerId EXCEPT ![p] = None]
    /\ current' = current \ {p}
    /\ UNCHANGED <<state, encrypt_pvr, is_secure_mode, dsm, ca, mRecordhandle, scrambled>>

-----------------------------------------------------------------------------
(* dvr_record_set_key_token, called through the demux's handle.            *)

Late == If(state = "closed", "lateToken")

\* A DSM session unless there is one; with it the secure buffer and demuxes.
OpenSession ==
    /\ dsm_sess' = TRUE
    /\ dsmSessions' = IF dsm_sess THEN dsmSessions ELSE dsmSessions + 1
    /\ dsmSessions' <= MaxSessions
    /\ is_secure_mode' = encrypt_pvr

\* Preparation fails: for a known pid the caller is told of success.  (A new pid is refused.)
PrepareFails(p) ==
    /\ mRecordhandle /\ encrypt_pvr /\ ~is_secure_mode
    /\ \E i \in SlotOf(p) : stream[i].key_token = None
    /\ scrambled' = scrambled \cup {p}
    /\ Record({"prepareFailed"} \cup Late)
    /\ UNCHANGED <<state, encrypt_pvr, is_secure_mode, stream, dsm, ca, mRecordhandle, recFilerId, current>>

\* The token cannot be bound.  A new pid keeps it all the same.
BindFails(p, token) ==
    /\ mRecordhandle
    /\ \/ /\ ~is_secure_mode /\ \E i \in SlotOf(p) : stream[i].key_token = None
          /\ OpenSession /\ UNCHANGED stream
       \/ /\ SlotOf(p) = {} /\ ca_flags = {}
          /\ IF is_secure_mode THEN UNCHANGED <<dsm_sess, dsmSessions, is_secure_mode>> ELSE OpenSession
          /\ \E i \in FirstFree : stream' = [stream EXCEPT ![i].pid = p, ![i].key_token = token]
    /\ Record({"bindFailed"} \cup Late)
    /\ UNCHANGED <<state, encrypt_pvr, bound, ready, ca, mRecordhandle, clients>>

\* Mutant: the token is bound when it is bound already.
BindUnlessSwapped(done, token) == bound' = IF done THEN token ELSE bound

BindUnless(done, token) == bound' = IF done THEN bound ELSE token

\* Mutant: the filter of the stream stays on the clear demux.
MovedNot(s, created, runs) == s

\* Mutant: the new filter is not started.
MovedStopped(s, created, runs) == [s EXCEPT !.fd = IF created THEN "secure" ELSE None, !.running = FALSE]

\* The stream's filter is created anew on the secure demux, and runs if it did and can
\* be started.
Moved(s, created, runs) ==
    [s EXCEPT !.fd = IF created THEN "secure" ELSE None, !.running = created /\ runs /\ s.started]

Told(p, ok) == scrambled' = IF ok THEN scrambled \cup {p} ELSE scrambled

Other(token) == If(bound \notin {None, token}, "otherToken")

\* A pid with a filter: the token is stored when its channels could be prepared.
ClearToScrambled(p, token) ==
    /\ mRecordhandle
    /\ \E i \in SlotOf(p), created \in BOOLEAN, runs \in BOOLEAN :
        /\ stream[i].key_token = None
        /\ encrypt_pvr \/ created
        /\ ~runs => encrypt_pvr /\ created /\ stream[i].started
        /\ IF is_secure_mode THEN UNCHANGED <<dsm_sess, dsmSessions, is_secure_mode>> ELSE OpenSession
        /\ BindUnless(is_secure_mode, token)
        /\ \E f \in Failures(Asking({i}, Wanted)) :
           LET fate == InTurn(Fate(Asking({i}, Wanted), f))
               s == IF encrypt_pvr THEN Moved(stream[i], created, runs) ELSE stream[i]
               ok == Prepared(fate, i) IN
           /\ Fail(f, Late \cup Other(token) \cup If(~created, "createFailed") \cup If(~runs, "startFailed"))
           /\ ca_prepare([stream EXCEPT ![i] = [s EXCEPT !.key_token = IF ok THEN token ELSE None]], fate)
           /\ Told(p, ok)
    /\ UNCHANGED <<state, encrypt_pvr, ready, mRecordhandle, recFilerId, current>>

\* A token for a stream that has one is only stored.
ScrambledAgain(p, token) ==
    /\ mRecordhandle
    /\ \E i \in SlotOf(p) :
        /\ stream[i].key_token # None
        /\ stream' = [stream EXCEPT ![i].key_token = token]
        /\ Record(Late \cup If(stream[i].key_token # token, "otherToken"))
    /\ Told(p, TRUE)
    /\ UNCHANGED <<state, encrypt_pvr, is_secure_mode, dsm, ca, mRecordhandle, recFilerId, current>>

\* A pid that has no slot gets one with the token, before its filter is opened.
NewPid(p, token) ==
    /\ mRecordhandle /\ SlotOf(p) = {}
    /\ IF is_secure_mode THEN UNCHANGED <<dsm_sess, dsmSessions, is_secure_mode>> ELSE OpenSession
    /\ BindUnless(ca_flags # {}, token)
    /\ \E i \in FirstFree : \E f \in Failures(Asking({i}, Wanted)) :
        LET fate == InTurn(Fate(Asking({i}, Wanted), f)) IN
        /\ Fail(f, Late \cup Other(token))
        /\ ca_prepare([stream EXCEPT ![i] = [@ EXCEPT !.pid = p, !.key_token = token]], fate)
        /\ Told(p, Prepared(fate, i))
    /\ UNCHANGED <<state, encrypt_pvr, ready, mRecordhandle, recFilerId, current>>

dvr_record_set_key_token(p, token) ==
    \/ PrepareFails(p) \/ BindFails(p, token) \/ ClearToScrambled(p, token)
    \/ ScrambledAgain(p, token) \/ NewPid(p, token)

Filter(p) ==
    \/ dvr_record_open_filter(p) \/ dvr_record_start_filter(p)
    \/ dvr_record_stop_filter(p) \/ dvr_record_close_filter(p)

Next ==
    \/ dvr_record_open \/ dvr_record_start \/ dvr_record_stop \/ dvr_record_close \/ setRecordHandle
    \/ dvr_record_read
    \/ \E u \in Usages : SlotReady(u)
    \/ \E p \in Pids : Filter(p)
    \/ \E p \in Pids, token \in Tokens : dvr_record_set_key_token(p, token)

\* The record thread goes on reading; more than KeysReachStreams asks is not assumed.
Spec == Init /\ [][Next]_vars /\ WF_vars(events = {} /\ dvr_record_read)

-----------------------------------------------------------------------------

\* Every variable has its type.
TypeOK ==
    /\ state \in {"closed", "opened", "started"}
    /\ encrypt_pvr \in BOOLEAN /\ is_secure_mode \in BOOLEAN /\ ca_flags \in SUBSET Usages
    /\ stream \in [Slots -> [pid : Pids \cup {None}, fd : {"clear", "secure", None}, running : BOOLEAN,
                             started : BOOLEAN, key_token : Tokens \cup {None}, flags : SUBSET Usages,
                             chans : [Usages -> Pids \cup {None}]]]
    /\ dsm_sess \in BOOLEAN /\ bound \in Tokens \cup {None} /\ ready \in SUBSET Usages
    /\ dsmSessions \in 0..MaxSessions
    /\ useCount \in [Demuxes -> 0..MaxUse] /\ channels \in [Demuxes -> Int] /\ failures \in Nat
    /\ mRecordhandle \in BOOLEAN
    /\ recFilerId \in [Pids -> Slots \cup {None}] /\ current \in SUBSET Pids /\ scrambled \in SUBSET Pids
    /\ events \in SUBSET Events

\* An encrypted recording takes a stream whose token was set from the secure demux, in
\* whatever order its filter is opened and its token set, unless preparation or the
\* filter's creation fails or an index or slot is used again.
ScrambledOnSecureDemux ==
    events \cap {"prepareFailed", "createFailed", "closedScrambled", "staleFilter"} = {} =>
        \A p \in current \cap scrambled : encrypt_pvr => stream[recFilerId[p]].fd = "secure"

\* A slot's channels are for the pid that is in it, unless a scrambled stream's slot is
\* used again.
OwnChannels ==
    events \cap {"closedScrambled", "staleFilter"} = {} =>
        \A i \in Slots : \A u \in Usages : stream[i].chans[u] \in {None, stream[i].pid}

\* A stream's token is the one the DSM session is bound to, unless binding failed once or
\* tokens differ.
TokenBound ==
    events \cap {"bindFailed", "otherToken"} = {} =>
        \A i \in Slots : stream[i].key_token \in {None, bound}

\* A record filter's index is its pid's slot until it is closed, and its stream runs as
\* it was told to although the slot's filter may have been created anew, unless that
\* fails or a filter outlives its session; a new filter that could not be started is
\* taken for a running one.
FilterKeepsItsSlot ==
    events \cap {"createFailed", "staleFilter"} = {} =>
        \A p \in current :
            LET s == stream[recFilerId[p]] IN
            s.pid = p /\ s.fd # None /\ (s.running = s.started \/ "startFailed" \in events)

\* Unless a token was set after the close, a closed session leaves no channel, and one that
\* encrypts no user of a ca device either, if preparing channels never failed, and no DSM
\* session, if its secure resources could be given back.
ReleasedOnClose ==
    "lateToken" \notin events /\ state = "closed" =>
        /\ "caFailed" \notin events =>
              \A d \in Demuxes : channels[d] = 0 /\ (encrypt_pvr => useCount[d] = 0)
        /\ "releaseFailed" \notin events /\ encrypt_pvr => dsmSessions = 0

\* Whenever its keys arrive, a pid whose token was set gets its channels while an
\* encrypted recording goes on.
KeysReachStreams ==
    \A p \in Pids :
        p \in scrambled /\ encrypt_pvr /\ ready = Usages /\ state = "started"
            ~> (\E i \in SlotOf(p) : stream[i].flags = Usages) \/ state # "started" \/ events # {}
=============================================================================
