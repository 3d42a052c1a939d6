----------------------------- MODULE Descrambler -----------------------------
(***************************************************************************)
(* The descramblers of one demux: the key token, the vendor's DSM session  *)
(* that is bound to it, the thread that waits until the session's keys are *)
(* there, the descrambling channels of the added pids, and the ca device   *)
(* they share and count the users of (aidl/Descrambler.cpp, dsc/dsc_dev.c, *)
(* Demux::openDvr for a record Dvr).                                       *)
(*                                                                         *)
(* Every method but close runs under mDescrambleLock and is one step; so   *)
(* are the thread's two locked sections.  A slot list of ordinary keys     *)
(* asks for one channel per pid, an NSK one for one per algorithm.  The    *)
(* DSM library and the kernel's ca driver are external: a call fails or    *)
(* does what it promises.                                                  *)
(***************************************************************************)
EXTENDS Naturals, FiniteSets

CONSTANTS
    Descramblers,
    Pids,
    Tokens,
    None,           \* no token; of a descriptor or channel: -1
    NumSessions,    \* bound: DSM sessions
    NumChannels,    \* bound: channels of the ca driver
    MaxUse,         \* bound: counted users of the ca device
    MaxEvents       \* bound: kinds of event in one behaviour

Sessions == 1..NumSessions
Channels == 1..NumChannels
Types == {"common", "tsd"}    \* CA_DSC_COMMON_TYPE, and the others an NSK list may ask for

ASSUME NoneAssumption == None \notin Tokens \cup Sessions \cup Channels
ASSUME FiniteAssumption == IsFiniteSet(Descramblers)
ASSUME BoundsAssumption == NumSessions \in Nat /\ NumChannels \in Nat /\ MaxUse \in Nat /\ MaxEvents \in Nat

VARIABLES
    phase,          \* of the object: "open", then of close()
    mDemuxSet, mKeyToken, mDsmFd, mIsReady, mIsNskDsc,
    live,           \* mCasSessionUsage is LIVE
    mAddedPid, mPidToDscChannel,
    thread,         \* "none" when mCaSetKeyThread is 0
    useCount,       \* of the ca device
    opened,         \* the descramblers that have opened it
    session,        \* the token each DSM session is bound to, None if closed
    driver,         \* the DSM session whose keys each channel has, None if free
    events          \* what has happened that the code does not cope with

object == <<phase, mDemuxSet, mKeyToken, mDsmFd, mIsReady, mIsNskDsc, live, mAddedPid, mPidToDscChannel, thread>>
device == <<useCount, opened, driver>>
vars == <<object, device, session, events>>

Events == {"retoken", "openFailed", "deviceFailed", "keyFailed", "badSlot", "closedUnopened",
           "dvrOpened", "notLive"}
NoChannels == [p \in Pids |-> [t \in Types |-> None]]

Init ==
    /\ phase = [d \in Descramblers |-> "open"]
    /\ mDemuxSet = [d \in Descramblers |-> FALSE]
    /\ mKeyToken = [d \in Descramblers |-> None] /\ mDsmFd = [d \in Descramblers |-> None]
    /\ mIsReady = [d \in Descramblers |-> FALSE] /\ mIsNskDsc = [d \in Descramblers |-> FALSE]
    /\ live = [d \in Descramblers |-> TRUE]
    /\ mAddedPid = [d \in Descramblers |-> {}]
    /\ mPidToDscChannel = [d \in Descramblers |-> NoChannels]
    /\ thread = [d \in Descramblers |-> "none"]
    /\ useCount = 0 /\ opened = {}
    /\ session = [s \in Sessions |-> None]
    /\ driver = [h \in Channels |-> None]
    /\ events = {}

Record(e) == events' = events \cup e /\ Cardinality(events') <= MaxEvents
If(condition, name) == IF condition THEN {name} ELSE {}

ChannelsOf(d, P) == {mPidToDscChannel[d][p][t] : p \in P, t \in Types} \ {None}

\* ca_free_chan of a set of channels does nothing without the device.
Freed(H) == [h \in Channels |-> IF useCount > 0 /\ h \in H THEN None ELSE driver[h]]

\* ca_close: with its last user the device goes, and its channels with it.
ca_close(table) ==
    /\ useCount' = IF useCount > 0 THEN useCount - 1 ELSE 0
    /\ driver' = IF useCount > 1 THEN table ELSE [h \in Channels |-> None]

-----------------------------------------------------------------------------
(* Channels for a set of pids, and their keys.                             *)

At(P, T, place) == {place[x] : x \in P \X T}

\* Free channels, one for each pid of P and type of T; the driver gives the lowest.
Places(P, T) ==
    {place \in [P \X T -> {h \in Channels : driver[h] = None}] :
        /\ useCount > 0
        /\ \A x, y \in P \X T : x # y => place[x] # place[y]
        /\ \A x \in P \X T : \A h \in 1..place[x] : driver[h] # None \/ h \in At(P, T, place)}

Recorded(d, P, T, place) ==
    [mPidToDscChannel EXCEPT ![d] =
        [p \in Pids |-> [t \in Types |-> IF <<p, t>> \in P \X T THEN place[<<p, t>>] ELSE @[p][t]]]]

\* ca_set_key of all of them, with the key slots of the descrambler's session.
Keyed(d, P, T, place) == [h \in Channels |-> IF h \in At(P, T, place) THEN mDsmFd[d] ELSE driver[h]]

Unkeyed(P, T, place) == [h \in Channels |-> IF h \in At(P, T, place) THEN 0 ELSE driver[h]]

\* allocDscChannels and allocNskDscChannels, and addPid for its pid.
Allocate(d, P, T) ==
    \E place \in Places(P, T) :
        /\ mPidToDscChannel' = Recorded(d, P, T, place)
        /\ driver' = Keyed(d, P, T, place)

TypesOf(nsk) == IF nsk THEN (SUBSET Types) \ {{}} ELSE {{"common"}}

-----------------------------------------------------------------------------
(* The calls of clients.                                                   *)

\* The fields of a new object.
Fresh(d) ==
    /\ mDemuxSet' = [mDemuxSet EXCEPT ![d] = FALSE]
    /\ mKeyToken' = [mKeyToken EXCEPT ![d] = None] /\ mDsmFd' = [mDsmFd EXCEPT ![d] = None]
    /\ mIsReady' = [mIsReady EXCEPT ![d] = FALSE] /\ mIsNskDsc' = [mIsNskDsc EXCEPT ![d] = FALSE]
    /\ live' = [live EXCEPT ![d] = TRUE]
    /\ mAddedPid' = [mAddedPid EXCEPT ![d] = {}]
    /\ mPidToDscChannel' = [mPidToDscChannel EXCEPT ![d] = NoChannels]
    /\ thread' = [thread EXCEPT ![d] = "none"] /\ opened' = opened \ {d}

\* Tuner::openDescrambler makes a new object.
openDescrambler(d) ==
    /\ phase[d] = "closed" /\ thread[d] \in {"none", "ended"}
    /\ phase' = [phase EXCEPT ![d] = "open"]
    /\ Fresh(d)
    /\ UNCHANGED <<useCount, session, driver, events>>

setDemuxSource(d) ==
    /\ phase[d] = "open" /\ ~mDemuxSet[d]
    /\ mDemuxSet' = [mDemuxSet EXCEPT ![d] = TRUE]
    /\ UNCHANGED <<phase, mKeyToken, mDsmFd, mIsReady, mIsNskDsc, live, mAddedPid, mPidToDscChannel,
                   thread, device, session, events>>

\* The first of setKeyToken: with keys in use their session and channels go.
Reset(d) == live[d] /\ mIsReady[d] /\ mDsmFd[d] # None

AfterReset(d) == IF Reset(d) THEN [session EXCEPT ![mDsmFd[d]] = None] ELSE session

\* Mutant: the channels keep the old token's keys.
FreeOldNot(d) == UNCHANGED <<driver, mPidToDscChannel>>

FreeOld(d) ==
    IF Reset(d)
    THEN /\ driver' = Freed(ChannelsOf(d, mAddedPid[d]))
         /\ mPidToDscChannel' = [mPidToDscChannel EXCEPT ![d] = NoChannels]
    ELSE UNCHANGED <<driver, mPidToDscChannel>>

\* Mutant: no thread waits for the keys.
StartThreadNot(d) == UNCHANGED thread

StartThread(d) == thread' = [thread EXCEPT ![d] = IF @ = "none" THEN "check" ELSE @]

\* A session is opened, bound to the token, and asked what it is used for.  For
\* live watching the ca device is opened and the thread is started.
OpenSession(d, token, table) ==
    \/ /\ mDsmFd' = [mDsmFd EXCEPT ![d] = None] /\ session' = table
       /\ StartThread(d)
       /\ Record({"openFailed"} \cup If(mKeyToken[d] # None, "retoken") \cup If(~live[d], "notLive"))
       /\ UNCHANGED <<live, useCount, opened>>
    \/ \E s \in Sessions :
        /\ table[s] = None /\ \A r \in Sessions : r < s => table[r] # None
        /\ \/ /\ live' = [live EXCEPT ![d] = FALSE]
              /\ mDsmFd' = [mDsmFd EXCEPT ![d] = None] /\ session' = table
              /\ Record(If(mKeyToken[d] # None, "retoken") \cup If(thread[d] # "none", "notLive"))
              /\ UNCHANGED <<thread, useCount, opened>>
           \/ /\ live' = [live EXCEPT ![d] = TRUE]
              /\ mDsmFd' = [mDsmFd EXCEPT ![d] = s] /\ session' = [table EXCEPT ![s] = token]
              /\ \/ /\ useCount < MaxUse
                    /\ useCount' = useCount + 1 /\ opened' = opened \cup {d}
                    /\ StartThread(d)
                    /\ Record(If(mKeyToken[d] # None, "retoken"))
                 \/ /\ Record({"deviceFailed"} \cup If(mKeyToken[d] # None, "retoken"))
                    /\ UNCHANGED <<thread, useCount, opened>>

\* The token that is set already is left alone; a new one is kept only for live
\* watching, and later ones reopen a session with the first.
setKeyToken(d, token) ==
    /\ phase[d] = "open" /\ mDemuxSet[d]
    /\ live[d] => token # mKeyToken[d]
    /\ mKeyToken' = IF live[d] THEN [mKeyToken EXCEPT ![d] = token] ELSE mKeyToken
    /\ FreeOld(d)
    /\ mIsReady' = [mIsReady EXCEPT ![d] = @ /\ ~Reset(d)]
    /\ OpenSession(d, mKeyToken'[d], AfterReset(d))
    /\ UNCHANGED <<phase, mDemuxSet, mIsNskDsc, mAddedPid>>

\* Demux::openDvr for a record Dvr closes the session, without the lock.  The token
\* it sets again is the one that is set.
closeDsmSession(d) ==
    /\ phase[d] = "open" /\ mKeyToken[d] # None /\ mDsmFd[d] # None
    /\ session' = [session EXCEPT ![mDsmFd[d]] = None]
    /\ mDsmFd' = [mDsmFd EXCEPT ![d] = None]
    /\ Record({"dvrOpened"})
    /\ UNCHANGED <<phase, mDemuxSet, mKeyToken, mIsReady, mIsNskDsc, live, mAddedPid, mPidToDscChannel,
                   thread, device>>

\* A channel is allocated but a key cannot be set: an ordinary one is not recorded.
KeyFails(d, p) ==
    /\ \E T \in TypesOf(mIsNskDsc[d]) : \E place \in Places({p}, T) :
        /\ driver' = Unkeyed({p}, T, place)
        /\ mPidToDscChannel' = IF mIsNskDsc[d] THEN Recorded(d, {p}, T, place) ELSE mPidToDscChannel
    /\ Record({"keyFailed"})
    /\ UNCHANGED useCount

\* After some channels a slot of no known algorithm: the device is closed.
BadSlot(d, p) ==
    /\ mIsNskDsc[d]
    /\ \E T \in SUBSET Types : \E place \in Places({p}, T) :
        /\ mPidToDscChannel' = Recorded(d, {p}, T, place)
        /\ ca_close(Keyed(d, {p}, T, place))
    /\ Record({"badSlot"})

\* With keys in use a new pid gets its channels at once.
addPid(d, p) ==
    /\ phase[d] = "open"
    /\ mAddedPid' = [mAddedPid EXCEPT ![d] = @ \cup {p}]
    /\ \/ UNCHANGED <<driver, mPidToDscChannel, useCount, events>>
       \/ /\ live[d] /\ mIsReady[d] /\ ChannelsOf(d, {p}) = {}
          /\ \/ \E T \in TypesOf(mIsNskDsc[d]) : Allocate(d, {p}, T) /\ UNCHANGED <<useCount, events>>
             \/ KeyFails(d, p)
             \/ BadSlot(d, p)
    /\ UNCHANGED <<phase, mDemuxSet, mKeyToken, mDsmFd, mIsReady, mIsNskDsc, live, thread, opened, session>>

\* Outside live watching the playback session may refuse, and the pid stays.
removePid(d, p) ==
    /\ phase[d] = "open"
    /\ IF live[d]
       THEN /\ driver' = Freed(ChannelsOf(d, {p}))
            /\ mPidToDscChannel' = [mPidToDscChannel EXCEPT ![d][p] = NoChannels[p]]
            /\ mAddedPid' = [mAddedPid EXCEPT ![d] = @ \ {p}]
       ELSE /\ mAddedPid' \in {mAddedPid, [mAddedPid EXCEPT ![d] = @ \ {p}]}
            /\ UNCHANGED <<driver, mPidToDscChannel>>
    /\ UNCHANGED <<phase, mDemuxSet, mKeyToken, mDsmFd, mIsReady, mIsNskDsc, live, thread,
                   useCount, opened, session, events>>

-----------------------------------------------------------------------------
(* caSetKey, the thread.                                                   *)

\* Mutant: the thread does not see that the session is closed.
checkNot(d) ==
    /\ thread[d] = "check"
    /\ thread' = [thread EXCEPT ![d] = "probe"]
    /\ UNCHANGED <<phase, mDemuxSet, mKeyToken, mDsmFd, mIsReady, mIsNskDsc, live, mAddedPid,
                   mPidToDscChannel, device, session, events>>

check(d) ==
    /\ thread[d] = "check"
    /\ thread' = [thread EXCEPT ![d] = IF mDsmFd[d] = None THEN "ended" ELSE "probe"]
    /\ UNCHANGED <<phase, mDemuxSet, mKeyToken, mDsmFd, mIsReady, mIsNskDsc, live, mAddedPid,
                   mPidToDscChannel, device, session, events>>

Probes(d) == thread[d] = "probe" /\ ~mIsReady[d] /\ mDsmFd[d] # None

\* isDescramblerReady: the keys are there and every added pid has its channels.
keysReady(d) ==
    /\ Probes(d)
    /\ \E nsk \in BOOLEAN : \E T \in TypesOf(nsk) :
        /\ mIsNskDsc' = [mIsNskDsc EXCEPT ![d] = nsk]
        /\ Allocate(d, mAddedPid[d], T)
    /\ mIsReady' = [mIsReady EXCEPT ![d] = TRUE]
    /\ thread' = [thread EXCEPT ![d] = "ended"]
    /\ UNCHANGED <<phase, mDemuxSet, mKeyToken, mDsmFd, live, mAddedPid, useCount, opened, session, events>>

\* Or the slots are not ready, or no channel is free: what was allocated is freed, but
\* for an ordinary channel whose key could not be set.  mIsNskDsc may be assigned; it is
\* not read before it is assigned again.
notReady(d) ==
    /\ Probes(d)
    /\ \/ UNCHANGED <<driver, useCount, events>>
       \/ /\ \E p \in mAddedPid[d] : \E place \in Places({p}, {"common"}) :
                driver' = Unkeyed({p}, {"common"}, place)
          /\ Record({"keyFailed"}) /\ UNCHANGED useCount
       \/ mAddedPid[d] # {} /\ ca_close(driver) /\ Record({"badSlot"})
    /\ thread' = [thread EXCEPT ![d] = "check"]
    /\ UNCHANGED <<phase, mDemuxSet, mKeyToken, mDsmFd, mIsReady, mIsNskDsc, live, mAddedPid, mPidToDscChannel,
                   opened, session>>

\* There is nothing to ask for any more.
nothingToProbe(d) ==
    /\ thread[d] = "probe" /\ ~Probes(d)
    /\ thread' = [thread EXCEPT ![d] = IF mIsReady[d] THEN "ended" ELSE "check"]
    /\ UNCHANGED <<phase, mDemuxSet, mKeyToken, mDsmFd, mIsReady, mIsNskDsc, live, mAddedPid,
                   mPidToDscChannel, device, session, events>>

caSetKey(d) == check(d) \/ keysReady(d) \/ notReady(d) \/ nothingToProbe(d)

-----------------------------------------------------------------------------
(* close.                                                                  *)

\* Mutant: the session stays open.
closeKeepsSession(d) ==
    /\ phase[d] = "open" /\ live[d]
    /\ mPidToDscChannel' = [mPidToDscChannel EXCEPT ![d] = NoChannels]
    /\ mIsNskDsc' = [mIsNskDsc EXCEPT ![d] = FALSE]
    /\ IF mDemuxSet[d] THEN ca_close(Freed(ChannelsOf(d, mAddedPid[d]))) ELSE UNCHANGED <<useCount, driver>>
    /\ Record(If(mDemuxSet[d] /\ d \notin opened, "closedUnopened"))
    /\ mDemuxSet' = [mDemuxSet EXCEPT ![d] = FALSE]
    /\ phase' = [phase EXCEPT ![d] = "joining"]
    /\ UNCHANGED <<mKeyToken, mDsmFd, mIsReady, live, mAddedPid, thread, opened, session>>

\* In live watching, the part under the lock.
closeLive(d) ==
    /\ phase[d] = "open" /\ live[d]
    /\ mPidToDscChannel' = [mPidToDscChannel EXCEPT ![d] = NoChannels]
    /\ mIsNskDsc' = [mIsNskDsc EXCEPT ![d] = FALSE]
    /\ session' = [s \in Sessions |-> IF s = mDsmFd[d] THEN None ELSE session[s]]
    /\ mDsmFd' = [mDsmFd EXCEPT ![d] = None]
    /\ LET table == Freed(ChannelsOf(d, mAddedPid[d])) IN
       IF mDemuxSet[d] THEN ca_close(table) ELSE driver' = table /\ UNCHANGED useCount
    /\ Record(If(mDemuxSet[d] /\ d \notin opened, "closedUnopened"))
    /\ mDemuxSet' = [mDemuxSet EXCEPT ![d] = FALSE]
    /\ phase' = [phase EXCEPT ![d] = "joining"]
    /\ UNCHANGED <<mKeyToken, mIsReady, live, mAddedPid, thread, opened>>

\* Otherwise close returns early, and leaves the thread alone.
closeNotLive(d) ==
    /\ phase[d] = "open" /\ ~live[d]
    /\ mAddedPid' = [mAddedPid EXCEPT ![d] = {}]
    /\ phase' = [phase EXCEPT ![d] = "closed"]
    /\ UNCHANGED <<mDemuxSet, mKeyToken, mDsmFd, mIsReady, mIsNskDsc, live, mPidToDscChannel, thread,
                   device, session, events>>

\* Mutant: close does not wait for the thread.
joinNot(d) ==
    /\ phase[d] = "joining"
    /\ phase' = [phase EXCEPT ![d] = "closed"]
    /\ UNCHANGED <<mDemuxSet, mKeyToken, mDsmFd, mIsReady, mIsNskDsc, live, mAddedPid, mPidToDscChannel,
                   thread, device, session, events>>

\* Nobody has the object any more.
join(d) ==
    /\ phase[d] = "joining" /\ thread[d] \in {"none", "ended"}
    /\ phase' = [phase EXCEPT ![d] = "closed"]
    /\ Fresh(d)
    /\ UNCHANGED <<useCount, session, driver, events>>

Call(d) ==
    \/ openDescrambler(d) \/ setDemuxSource(d) \/ closeDsmSession(d) \/ closeLive(d) \/ closeNotLive(d) \/ join(d)
    \/ \E token \in Tokens : setKeyToken(d, token)
    \/ \E p \in Pids : addPid(d, p) \/ removePid(d, p)

Next == \E d \in Descramblers : Call(d) \/ caSetKey(d)

\* The thread runs and a join ends when it does; keys that are asked for again and
\* again are there some time.
Fairness ==
    \A d \in Descramblers : WF_vars(caSetKey(d)) /\ WF_vars(join(d)) /\ SF_vars(keysReady(d))

Spec == Init /\ [][Next]_vars /\ Fairness

-----------------------------------------------------------------------------

\* Every variable has its type.
TypeOK ==
    /\ phase \in [Descramblers -> {"open", "joining", "closed"}]
    /\ mDemuxSet \in [Descramblers -> BOOLEAN]
    /\ mKeyToken \in [Descramblers -> Tokens \cup {None}]
    /\ mDsmFd \in [Descramblers -> Sessions \cup {None}]
    /\ mIsReady \in [Descramblers -> BOOLEAN] /\ mIsNskDsc \in [Descramblers -> BOOLEAN]
    /\ live \in [Descramblers -> BOOLEAN]
    /\ mAddedPid \in [Descramblers -> SUBSET Pids]
    /\ mPidToDscChannel \in [Descramblers -> [Pids -> [Types -> Channels \cup {None}]]]
    /\ thread \in [Descramblers -> {"none", "check", "probe", "ended"}]
    /\ useCount \in 0..MaxUse /\ opened \in SUBSET Descramblers
    /\ session \in [Sessions -> Tokens \cup {None}]
    /\ driver \in [Channels -> Sessions \cup {None, 0}]
    /\ events \in SUBSET Events

\* Whatever tokens are set and whatever session fails to open, as long as the device
\* opens, nothing closes it or the session under the descrambler and no key fails to be
\* set, a channel it has is its own and has the keys of the open session bound to its token.
KeysOfCurrentToken ==
    events \subseteq {"retoken", "openFailed", "notLive"} =>
        \A d \in Descramblers : \A h \in ChannelsOf(d, Pids) :
            /\ driver[h] = mDsmFd[d] /\ mDsmFd[d] # None
            /\ session[mDsmFd[d]] = mKeyToken[d]
            /\ \A e \in Descramblers \ {d} : h \notin ChannelsOf(e, Pids)

\* Whatever fails, and whatever others close, closed descramblers leave no channel, session
\* or user of the device behind, unless one was given a second token.
NothingLeftBehind ==
    "retoken" \notin events /\ (\A d \in Descramblers : phase[d] = "closed") =>
        /\ useCount = 0
        /\ \A s \in Sessions : session[s] = None
        /\ \A h \in Channels : driver[h] = None

\* Unless watching turned from live to something else, no thread uses a descrambler
\* that has been closed.
NoThreadAfterClose ==
    "notLive" \notin events =>
        \A d \in Descramblers : phase[d] = "closed" => thread[d] \in {"none", "ended"}

\* With one token and nothing failing, a live session's keys reach the channels, or
\* the descrambler is closed.
KeysReachChannels ==
    \A d \in Descramblers :
        mDsmFd[d] # None ~> mIsReady[d] \/ phase[d] # "open" \/ events # {}

\* close returns: the thread it waits for ends.
CloseReturns == \A d \in Descramblers : phase[d] = "joining" ~> phase[d] = "closed"
=============================================================================
