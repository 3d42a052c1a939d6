------------------------ MODULE Descrambler_proof ------------------------
(***************************************************************************)
(* Proofs about Descrambler, for every number of descramblers, pids,       *)
(* tokens, sessions and channels and every combination of events: type     *)
(* correctness, that channels have the keys of their own session, that no  *)
(* thread outlives its descrambler, and that closed descramblers leave     *)
(* nothing behind.                                                         *)
(***************************************************************************)
EXTENDS Descrambler, FiniteSetTheorems, TLAPS

Copes == events \subseteq {"retoken", "openFailed", "notLive"}

\* Watching that is not live has had a token.
TokenFirst == \A d \in Descramblers : ~live[d] => mKeyToken[d] # None

\* Threads of descramblers that do not watch live have not started.
ThreadsLive == "notLive" \notin events => \A d \in Descramblers : ~live[d] => thread[d] = "none"
-----------------------------------------------------------------------------

\* Nothing that has happened is forgotten, and events are typed.
LEMMA EventsGrow ==
    ASSUME NEW e \in SUBSET Events, events \in SUBSET Events, Record(e)
    PROVE  events \subseteq events' /\ e \subseteq events' /\ events' \in SUBSET Events
BY DEF Record

LEMMA FreeTyped ==
    ASSUME TypeOK, NEW H
    PROVE  Freed(H) \in [Channels -> Sessions \cup {None, 0}]
BY DEF TypeOK, Freed

LEMMA CloseTyped ==
    ASSUME TypeOK, NEW table \in [Channels -> Sessions \cup {None, 0}], ca_close(table)
    PROVE  useCount' \in 0..MaxUse /\ driver' \in [Channels -> Sessions \cup {None, 0}]
<1>1. useCount' \in 0..MaxUse
  <2>1. CASE useCount > 0
        BY <2>1, BoundsAssumption DEF TypeOK, ca_close
  <2>2. CASE ~(useCount > 0)
        BY <2>2, BoundsAssumption DEF TypeOK, ca_close
  <2> QED
      BY <2>1, <2>2
<1> QED
    BY <1>1 DEF ca_close

LEMMA NoChannelsTyped == NoChannels \in [Pids -> [Types -> Channels \cup {None}]]
BY DEF NoChannels

LEMMA PlacesTyped ==
    ASSUME TypeOK, NEW d \in Descramblers, NEW P \in SUBSET Pids, NEW T \in SUBSET Types,
           NEW place \in Places(P, T)
    PROVE  /\ Recorded(d, P, T, place) \in [Descramblers -> [Pids -> [Types -> Channels \cup {None}]]]
           /\ Keyed(d, P, T, place) \in [Channels -> Sessions \cup {None, 0}]
           /\ Unkeyed(P, T, place) \in [Channels -> Sessions \cup {None, 0}]
           /\ \A x \in P \X T : place[x] \in Channels /\ driver[place[x]] = None
           /\ \A x, y \in P \X T : x # y => place[x] # place[y]
<1>1. /\ place \in [P \X T -> {h \in Channels : driver[h] = None}]
      /\ \A x, y \in P \X T : x # y => place[x] # place[y]
      BY DEF Places
<1>2. \A x \in P \X T : place[x] \in Channels /\ driver[place[x]] = None
      BY <1>1
<1>3. Recorded(d, P, T, place) \in [Descramblers -> [Pids -> [Types -> Channels \cup {None}]]]
  <2> DEFINE row == [p \in Pids |-> [t \in Types |->
                        IF <<p, t>> \in P \X T THEN place[<<p, t>>] ELSE mPidToDscChannel[d][p][t]]]
  <2>1. row \in [Pids -> [Types -> Channels \cup {None}]]
        BY <1>2 DEF TypeOK
  <2>2. Recorded(d, P, T, place) = [mPidToDscChannel EXCEPT ![d] = row]
        BY DEF Recorded, TypeOK
  <2> HIDE DEF row
  <2> QED
      BY <2>1, <2>2 DEF TypeOK
<1>4. Keyed(d, P, T, place) \in [Channels -> Sessions \cup {None, 0}]
      BY DEF Keyed, TypeOK
<1>5. Unkeyed(P, T, place) \in [Channels -> Sessions \cup {None, 0}]
      BY DEF Unkeyed, TypeOK
<1> QED
    BY <1>1, <1>2, <1>3, <1>4, <1>5

LEMMA TypesOfTyped == \A nsk \in BOOLEAN : \A T \in TypesOf(nsk) : T \in SUBSET Types
BY DEF TypesOf, Types

-----------------------------------------------------------------------------
(* What setKeyToken does.                                                  *)

\* The session that is opened, if there is one, and what else a new token changes.
LEMMA SetKeyTokenDoes ==
    ASSUME TypeOK, NEW d \in Descramblers, NEW token \in Tokens, setKeyToken(d, token)
    PROVE  /\ events \subseteq events' /\ events' \in SUBSET Events
           /\ mKeyToken' = IF live[d] THEN [mKeyToken EXCEPT ![d] = token] ELSE mKeyToken
           /\ mIsReady' = [mIsReady EXCEPT ![d] = @ /\ ~Reset(d)]
           /\ driver' \in [Channels -> Sessions \cup {None, 0}]
           /\ mPidToDscChannel' \in [Descramblers -> [Pids -> [Types -> Channels \cup {None}]]]
           /\ IF Reset(d)
              THEN /\ driver' = Freed(ChannelsOf(d, mAddedPid[d]))
                   /\ mPidToDscChannel' = [mPidToDscChannel EXCEPT ![d] = NoChannels]
              ELSE UNCHANGED <<driver, mPidToDscChannel>>
           /\ live' \in [Descramblers -> BOOLEAN]
           /\ useCount' \in {useCount, useCount + 1} /\ useCount' \in 0..MaxUse
           /\ opened' \in {opened, opened \cup {d}} /\ (useCount' = useCount \/ opened' = opened \cup {d})
           /\ thread' \in {thread, [thread EXCEPT ![d] = IF @ = "none" THEN "check" ELSE @]}
           /\ "notLive" \notin events' /\ ~live'[d] => thread[d] = "none" /\ thread' = thread
           /\ \A e \in Descramblers \ {d} : live'[e] = live[e]
           /\ \/ /\ mDsmFd' = [mDsmFd EXCEPT ![d] = None] /\ session' = AfterReset(d)
                 /\ useCount' = useCount /\ opened' = opened
              \/ \E s \in Sessions :
                    /\ AfterReset(d)[s] = None
                    /\ mDsmFd' = [mDsmFd EXCEPT ![d] = s]
                    /\ session' = [AfterReset(d) EXCEPT ![s] = mKeyToken'[d]]
                    /\ live'[d]
                    /\ \/ useCount' = useCount + 1 /\ opened' = opened \cup {d}
                       \/ "deviceFailed" \in events'
<1>1. /\ mKeyToken' = IF live[d] THEN [mKeyToken EXCEPT ![d] = token] ELSE mKeyToken
      /\ mIsReady' = [mIsReady EXCEPT ![d] = @ /\ ~Reset(d)]
      /\ OpenSession(d, mKeyToken'[d], AfterReset(d))
      /\ IF Reset(d)
         THEN /\ driver' = Freed(ChannelsOf(d, mAddedPid[d]))
              /\ mPidToDscChannel' = [mPidToDscChannel EXCEPT ![d] = NoChannels]
         ELSE UNCHANGED <<driver, mPidToDscChannel>>
      BY DEF setKeyToken, FreeOld
<1>2. /\ driver' \in [Channels -> Sessions \cup {None, 0}]
      /\ mPidToDscChannel' \in [Descramblers -> [Pids -> [Types -> Channels \cup {None}]]]
  <2>1. CASE Reset(d)
    <3>1. [mPidToDscChannel EXCEPT ![d] = NoChannels]
              \in [Descramblers -> [Pids -> [Types -> Channels \cup {None}]]]
          BY NoChannelsTyped DEF TypeOK
    <3> QED
        BY <1>1, <2>1, <3>1, FreeTyped
  <2>2. CASE ~Reset(d)
        BY <1>1, <2>2 DEF TypeOK
  <2> QED
      BY <2>1, <2>2
<1> DEFINE Retoken == If(mKeyToken[d] # None, "retoken")
<1>3. /\ Retoken \in SUBSET Events /\ {"openFailed"} \in SUBSET Events /\ {"deviceFailed"} \in SUBSET Events
      /\ If(~live[d], "notLive") \in SUBSET Events /\ If(thread[d] # "none", "notLive") \in SUBSET Events
      BY DEF If, Events
<1>4. useCount \in 0..MaxUse
      BY DEF TypeOK
<1> DEFINE Rest == /\ events \subseteq events' /\ events' \in SUBSET Events
                   /\ live' \in [Descramblers -> BOOLEAN]
                   /\ useCount' \in {useCount, useCount + 1} /\ useCount' \in 0..MaxUse
                   /\ opened' \in {opened, opened \cup {d}} /\ (useCount' = useCount \/ opened' = opened \cup {d})
                   /\ thread' \in {thread, [thread EXCEPT ![d] = IF @ = "none" THEN "check" ELSE @]}
                   /\ "notLive" \notin events' /\ ~live'[d] => thread[d] = "none" /\ thread' = thread
                   /\ \A e \in Descramblers \ {d} : live'[e] = live[e]
<1>5. CASE /\ mDsmFd' = [mDsmFd EXCEPT ![d] = None] /\ session' = AfterReset(d)
           /\ StartThread(d)
           /\ Record({"openFailed"} \cup Retoken \cup If(~live[d], "notLive"))
           /\ UNCHANGED <<live, useCount, opened>>
  <2>1. /\ events \subseteq events' /\ events' \in SUBSET Events
        /\ {"openFailed"} \cup Retoken \cup If(~live[d], "notLive") \subseteq events'
        BY <1>3, <1>5, EventsGrow DEF TypeOK
  <2>2. "notLive" \in events' \/ live[d]
        BY <2>1 DEF If
  <2> QED
      BY <1>1, <1>2, <1>4, <1>5, <2>1, <2>2 DEF TypeOK, StartThread
<1>6. ASSUME NEW s \in Sessions, AfterReset(d)[s] = None,
             /\ live' = [live EXCEPT ![d] = FALSE]
             /\ mDsmFd' = [mDsmFd EXCEPT ![d] = None] /\ session' = AfterReset(d)
             /\ Record(Retoken \cup If(thread[d] # "none", "notLive"))
             /\ UNCHANGED <<thread, useCount, opened>>
      PROVE  Rest
  <2>1. /\ events \subseteq events' /\ events' \in SUBSET Events
        /\ Retoken \cup If(thread[d] # "none", "notLive") \subseteq events'
        BY <1>3, <1>6, EventsGrow DEF TypeOK
  <2>2. "notLive" \in events' \/ thread[d] = "none"
        BY <2>1 DEF If
  <2> QED
      BY <1>4, <1>6, <2>1, <2>2 DEF TypeOK
<1>7. ASSUME NEW s \in Sessions, AfterReset(d)[s] = None,
             /\ live' = [live EXCEPT ![d] = TRUE]
             /\ mDsmFd' = [mDsmFd EXCEPT ![d] = s] /\ session' = [AfterReset(d) EXCEPT ![s] = mKeyToken'[d]]
             /\ \/ /\ useCount < MaxUse
                   /\ useCount' = useCount + 1 /\ opened' = opened \cup {d}
                   /\ StartThread(d)
                   /\ Record(Retoken)
                \/ /\ Record({"deviceFailed"} \cup Retoken)
                   /\ UNCHANGED <<thread, useCount, opened>>
      PROVE  Rest /\ live'[d] /\ ((opened' = opened \cup {d} /\ useCount' = useCount + 1)
                                   \/ "deviceFailed" \in events')
  <2>1. events \subseteq events' /\ events' \in SUBSET Events
        BY <1>3, <1>7, EventsGrow DEF TypeOK
  <2>2. (opened' = opened \cup {d} /\ useCount' = useCount + 1) \/ "deviceFailed" \in events'
    <3>1. CASE Record({"deviceFailed"} \cup Retoken)
      <4>1. {"deviceFailed"} \cup Retoken \in SUBSET Events
            BY <1>3
      <4>2. events \in SUBSET Events
            BY DEF TypeOK
      <4>3. {"deviceFailed"} \cup Retoken \subseteq events'
            BY <3>1, <4>1, <4>2, EventsGrow
      <4> QED
          BY <4>3
    <3> QED
        BY <1>7, <3>1
  <2>3. useCount' \in {useCount, useCount + 1} /\ useCount' \in 0..MaxUse
        BY <1>4, <1>7, BoundsAssumption
  <2>4. live' \in [Descramblers -> BOOLEAN] /\ live'[d] /\ \A e \in Descramblers \ {d} : live'[e] = live[e]
        BY <1>7 DEF TypeOK
  <2> QED
      BY <1>7, <2>1, <2>2, <2>3, <2>4 DEF StartThread
<1> HIDE DEF Rest, Retoken
<1>8. CASE \E s \in Sessions :
             /\ AfterReset(d)[s] = None
             /\ live' = [live EXCEPT ![d] = FALSE]
             /\ mDsmFd' = [mDsmFd EXCEPT ![d] = None] /\ session' = AfterReset(d)
             /\ Record(Retoken \cup If(thread[d] # "none", "notLive"))
             /\ UNCHANGED <<thread, useCount, opened>>
      BY <1>1, <1>2, <1>6, <1>8 DEF Rest
<1>9. CASE \E s \in Sessions :
             /\ AfterReset(d)[s] = None
             /\ live' = [live EXCEPT ![d] = TRUE]
             /\ mDsmFd' = [mDsmFd EXCEPT ![d] = s] /\ session' = [AfterReset(d) EXCEPT ![s] = mKeyToken'[d]]
             /\ \/ /\ useCount < MaxUse
                   /\ useCount' = useCount + 1 /\ opened' = opened \cup {d}
                   /\ StartThread(d)
                   /\ Record(Retoken)
                \/ /\ Record({"deviceFailed"} \cup Retoken)
                   /\ UNCHANGED <<thread, useCount, opened>>
      BY <1>1, <1>2, <1>7, <1>9 DEF Rest
<1> QED
    BY <1>1, <1>5, <1>8, <1>9 DEF OpenSession, Retoken
-----------------------------------------------------------------------------

LEMMA FreshTyped ==
    ASSUME TypeOK, NEW d \in Descramblers, Fresh(d)
    PROVE  /\ mDemuxSet' \in [Descramblers -> BOOLEAN]
           /\ mKeyToken' \in [Descramblers -> Tokens \cup {None}]
           /\ mDsmFd' \in [Descramblers -> Sessions \cup {None}]
           /\ mIsReady' \in [Descramblers -> BOOLEAN] /\ mIsNskDsc' \in [Descramblers -> BOOLEAN]
           /\ live' \in [Descramblers -> BOOLEAN]
           /\ mAddedPid' \in [Descramblers -> SUBSET Pids]
           /\ mPidToDscChannel' \in [Descramblers -> [Pids -> [Types -> Channels \cup {None}]]]
           /\ thread' \in [Descramblers -> {"none", "check", "probe", "ended"}]
           /\ opened' \in SUBSET Descramblers
BY NoChannelsTyped DEF TypeOK, Fresh

\* Every step keeps the types.
LEMMA TypesKept == TypeOK /\ [Next]_vars => TypeOK'
<1> SUFFICES ASSUME TypeOK, [Next]_vars PROVE TypeOK'
    OBVIOUS
<1>1. ASSUME NEW d \in Descramblers, openDescrambler(d) PROVE TypeOK'
      BY <1>1, FreshTyped DEF openDescrambler, TypeOK
<1>2. ASSUME NEW d \in Descramblers, setDemuxSource(d) PROVE TypeOK'
      BY <1>2 DEF setDemuxSource, device, TypeOK
<1>3. ASSUME NEW d \in Descramblers, closeDsmSession(d) PROVE TypeOK'
  <2>1. events' \in SUBSET Events
        BY <1>3, EventsGrow DEF closeDsmSession, TypeOK, Events
  <2> QED
      BY <1>3, <2>1 DEF closeDsmSession, device, TypeOK
<1>4. ASSUME NEW d \in Descramblers, closeLive(d) PROVE TypeOK'
  <2>1. events' \in SUBSET Events
    <3>1. If(mDemuxSet[d] /\ d \notin opened, "closedUnopened") \in SUBSET Events
          BY DEF If, Events
    <3> QED
        BY <1>4, <3>1, EventsGrow DEF closeLive, TypeOK
  <2>2. useCount' \in 0..MaxUse /\ driver' \in [Channels -> Sessions \cup {None, 0}]
        BY <1>4, FreeTyped, CloseTyped DEF closeLive, TypeOK
  <2>3. mPidToDscChannel' \in [Descramblers -> [Pids -> [Types -> Channels \cup {None}]]]
        BY <1>4, NoChannelsTyped DEF closeLive, TypeOK
  <2>4. session' \in [Sessions -> Tokens \cup {None}] /\ mDsmFd' \in [Descramblers -> Sessions \cup {None}]
        BY <1>4 DEF closeLive, TypeOK
  <2> QED
      BY <1>4, <2>1, <2>2, <2>3, <2>4 DEF closeLive, TypeOK
<1>5. ASSUME NEW d \in Descramblers, closeNotLive(d) PROVE TypeOK'
      BY <1>5 DEF closeNotLive, device, TypeOK
<1>6. ASSUME NEW d \in Descramblers, join(d) PROVE TypeOK'
      BY <1>6, FreshTyped DEF join, TypeOK
<1>7. ASSUME NEW d \in Descramblers, NEW token \in Tokens, setKeyToken(d, token) PROVE TypeOK'
  <2>1. mKeyToken' \in [Descramblers -> Tokens \cup {None}] /\ mIsReady' \in [Descramblers -> BOOLEAN]
    <3>1. /\ mKeyToken' = IF live[d] THEN [mKeyToken EXCEPT ![d] = token] ELSE mKeyToken
          /\ mIsReady' = [mIsReady EXCEPT ![d] = @ /\ ~Reset(d)]
          BY <1>7 DEF setKeyToken
    <3>2. (mIsReady[d] /\ ~Reset(d)) \in BOOLEAN
          OBVIOUS
    <3> QED
        BY <3>1, <3>2 DEF TypeOK
  <2>2. AfterReset(d) \in [Sessions -> Tokens \cup {None}]
        BY DEF AfterReset, TypeOK
  <2>3. session' \in [Sessions -> Tokens \cup {None}] /\ mDsmFd' \in [Descramblers -> Sessions \cup {None}]
    <3>1. mKeyToken'[d] \in Tokens \cup {None}
          BY <2>1
    <3>2. \/ mDsmFd' = [mDsmFd EXCEPT ![d] = None] /\ session' = AfterReset(d)
          \/ \E s \in Sessions : /\ mDsmFd' = [mDsmFd EXCEPT ![d] = s]
                                /\ session' = [AfterReset(d) EXCEPT ![s] = mKeyToken'[d]]
          BY <1>7, SetKeyTokenDoes
    <3>3. mDsmFd \in [Descramblers -> Sessions \cup {None}]
          BY DEF TypeOK
    <3>4. ASSUME NEW s \in Sessions, mDsmFd' = [mDsmFd EXCEPT ![d] = s],
                 session' = [AfterReset(d) EXCEPT ![s] = mKeyToken'[d]]
          PROVE  /\ session' \in [Sessions -> Tokens \cup {None}]
                 /\ mDsmFd' \in [Descramblers -> Sessions \cup {None}]
          BY <2>2, <3>1, <3>3, <3>4
    <3>5. CASE mDsmFd' = [mDsmFd EXCEPT ![d] = None] /\ session' = AfterReset(d)
          BY <2>2, <3>3, <3>5
    <3> QED
        BY <3>2, <3>4, <3>5
  <2>4. thread' \in [Descramblers -> {"none", "check", "probe", "ended"}] /\ opened' \in SUBSET Descramblers
    <3>1. /\ thread' \in {thread, [thread EXCEPT ![d] = IF @ = "none" THEN "check" ELSE @]}
          /\ opened' \in {opened, opened \cup {d}}
          BY <1>7, SetKeyTokenDoes
    <3> QED
        BY <3>1 DEF TypeOK
  <2>5. phase' = phase /\ mDemuxSet' = mDemuxSet /\ mIsNskDsc' = mIsNskDsc /\ mAddedPid' = mAddedPid
        BY <1>7 DEF setKeyToken
  <2> QED
      BY <1>7, <2>1, <2>3, <2>4, <2>5, SetKeyTokenDoes DEF TypeOK
<1>8. ASSUME NEW d \in Descramblers, NEW p \in Pids, addPid(d, p) PROVE TypeOK'
  <2>1. /\ driver' \in [Channels -> Sessions \cup {None, 0}] /\ useCount' \in 0..MaxUse
        /\ mPidToDscChannel' \in [Descramblers -> [Pids -> [Types -> Channels \cup {None}]]]
        /\ events' \in SUBSET Events
    <3> DEFINE Goal == /\ driver' \in [Channels -> Sessions \cup {None, 0}] /\ useCount' \in 0..MaxUse
                       /\ mPidToDscChannel' \in [Descramblers -> [Pids -> [Types -> Channels \cup {None}]]]
                       /\ events' \in SUBSET Events
    <3>0. {p} \in SUBSET Pids
          OBVIOUS
    <3>1. CASE UNCHANGED <<driver, mPidToDscChannel, useCount, events>>
          BY <3>1 DEF TypeOK
    <3>2. ASSUME NEW T \in TypesOf(mIsNskDsc[d]), Allocate(d, {p}, T), UNCHANGED <<useCount, events>>
          PROVE  Goal
      <4>1. T \in SUBSET Types
            BY TypesOfTyped DEF TypeOK
      <4>2. PICK place \in Places({p}, T) :
              /\ mPidToDscChannel' = Recorded(d, {p}, T, place)
              /\ driver' = Keyed(d, {p}, T, place)
            BY <3>2 DEF Allocate
      <4>3. /\ driver' \in [Channels -> Sessions \cup {None, 0}]
            /\ mPidToDscChannel' \in [Descramblers -> [Pids -> [Types -> Channels \cup {None}]]]
            BY <3>0, <4>1, <4>2, PlacesTyped
      <4> QED
          BY <3>2, <4>3 DEF TypeOK
    <3>3. CASE KeyFails(d, p)
      <4>1. PICK T \in TypesOf(mIsNskDsc[d]) : \E place \in Places({p}, T) :
              /\ driver' = Unkeyed({p}, T, place)
              /\ mPidToDscChannel' = IF mIsNskDsc[d] THEN Recorded(d, {p}, T, place) ELSE mPidToDscChannel
            BY <3>3 DEF KeyFails
      <4>2. T \in SUBSET Types
            BY TypesOfTyped DEF TypeOK
      <4>3. events' \in SUBSET Events
            BY <3>3, EventsGrow DEF KeyFails, TypeOK, Events
      <4>4. PICK place \in Places({p}, T) :
              /\ driver' = Unkeyed({p}, T, place)
              /\ mPidToDscChannel' = IF mIsNskDsc[d] THEN Recorded(d, {p}, T, place) ELSE mPidToDscChannel
            BY <4>1
      <4>5. /\ driver' \in [Channels -> Sessions \cup {None, 0}]
            /\ mPidToDscChannel' \in [Descramblers -> [Pids -> [Types -> Channels \cup {None}]]]
            BY <3>0, <4>2, <4>4, PlacesTyped DEF TypeOK
      <4>6. useCount' \in 0..MaxUse
            BY <3>3 DEF KeyFails, TypeOK
      <4> QED
          BY <4>3, <4>5, <4>6
    <3>4. CASE BadSlot(d, p)
      <4>1. PICK T \in SUBSET Types : \E place \in Places({p}, T) :
              /\ mPidToDscChannel' = Recorded(d, {p}, T, place)
              /\ ca_close(Keyed(d, {p}, T, place))
            BY <3>4 DEF BadSlot
      <4>2. events' \in SUBSET Events
            BY <3>4, EventsGrow DEF BadSlot, TypeOK, Events
      <4>3. PICK place \in Places({p}, T) :
              /\ mPidToDscChannel' = Recorded(d, {p}, T, place)
              /\ ca_close(Keyed(d, {p}, T, place))
            BY <4>1
      <4>4. /\ mPidToDscChannel' \in [Descramblers -> [Pids -> [Types -> Channels \cup {None}]]]
            /\ Keyed(d, {p}, T, place) \in [Channels -> Sessions \cup {None, 0}]
            BY <3>0, <4>3, PlacesTyped
      <4> QED
          BY <4>2, <4>3, <4>4, CloseTyped
    <3> HIDE DEF Goal
    <3>5. Goal
          BY <1>8, <3>1, <3>2, <3>3, <3>4 DEF addPid, Goal
    <3> QED
        BY <3>5 DEF Goal
  <2>2. mAddedPid' \in [Descramblers -> SUBSET Pids]
        BY <1>8 DEF addPid, TypeOK
  <2> QED
      BY <1>8, <2>1, <2>2 DEF addPid, TypeOK
<1>9. ASSUME NEW d \in Descramblers, NEW p \in Pids, removePid(d, p) PROVE TypeOK'
  <2>1. /\ driver' \in [Channels -> Sessions \cup {None, 0}]
        /\ mPidToDscChannel' \in [Descramblers -> [Pids -> [Types -> Channels \cup {None}]]]
    <3>1. CASE live[d]
      <4>1. mPidToDscChannel' = [mPidToDscChannel EXCEPT ![d] = [mPidToDscChannel[d] EXCEPT ![p] = NoChannels[p]]]
            BY <1>9, <3>1 DEF removePid
      <4>2. [mPidToDscChannel[d] EXCEPT ![p] = NoChannels[p]] \in [Pids -> [Types -> Channels \cup {None}]]
            BY NoChannelsTyped DEF TypeOK
      <4>3. driver' \in [Channels -> Sessions \cup {None, 0}]
            BY <1>9, <3>1, FreeTyped DEF removePid
      <4> QED
          BY <4>1, <4>2, <4>3 DEF TypeOK
    <3>2. CASE ~live[d]
          BY <1>9, <3>2 DEF removePid, TypeOK
    <3> QED
        BY <3>1, <3>2
  <2>2. mAddedPid' \in [Descramblers -> SUBSET Pids]
    <3>1. [mAddedPid EXCEPT ![d] = @ \ {p}] \in [Descramblers -> SUBSET Pids]
          BY DEF TypeOK
    <3> QED
        BY <1>9, <3>1 DEF removePid, TypeOK
  <2> QED
      BY <1>9, <2>1, <2>2 DEF removePid, TypeOK
<1>10. ASSUME NEW d \in Descramblers, check(d) \/ nothingToProbe(d) PROVE TypeOK'
       BY <1>10 DEF check, nothingToProbe, device, TypeOK
<1>11. ASSUME NEW d \in Descramblers, keysReady(d) PROVE TypeOK'
  <2>1. PICK nsk \in BOOLEAN : \E T \in TypesOf(nsk) :
          /\ mIsNskDsc' = [mIsNskDsc EXCEPT ![d] = nsk]
          /\ Allocate(d, mAddedPid[d], T)
        BY <1>11 DEF keysReady
  <2>2. PICK T \in SUBSET Types : Allocate(d, mAddedPid[d], T)
        BY <2>1, TypesOfTyped
  <2>3. mAddedPid[d] \in SUBSET Pids
        BY DEF TypeOK
  <2>4. /\ driver' \in [Channels -> Sessions \cup {None, 0}]
        /\ mPidToDscChannel' \in [Descramblers -> [Pids -> [Types -> Channels \cup {None}]]]
    <3>1. PICK place \in Places(mAddedPid[d], T) :
            /\ mPidToDscChannel' = Recorded(d, mAddedPid[d], T, place)
            /\ driver' = Keyed(d, mAddedPid[d], T, place)
          BY <2>2 DEF Allocate
    <3> QED
        BY <2>3, <3>1, PlacesTyped
  <2>5. /\ mIsNskDsc' \in [Descramblers -> BOOLEAN] /\ mIsReady' \in [Descramblers -> BOOLEAN]
        /\ thread' \in [Descramblers -> {"none", "check", "probe", "ended"}]
        BY <1>11, <2>1 DEF keysReady, TypeOK
  <2>6. UNCHANGED <<phase, mDemuxSet, mKeyToken, mDsmFd, live, mAddedPid, useCount, opened, session, events>>
        BY <1>11 DEF keysReady
  <2> QED
      BY <2>4, <2>5, <2>6 DEF TypeOK
<1>12. ASSUME NEW d \in Descramblers, notReady(d) PROVE TypeOK'
  <2>1. driver' \in [Channels -> Sessions \cup {None, 0}] /\ useCount' \in 0..MaxUse /\ events' \in SUBSET Events
    <3>1. ASSUME NEW p \in mAddedPid[d], NEW place \in Places({p}, {"common"}),
                 driver' = Unkeyed({p}, {"common"}, place), Record({"keyFailed"}), UNCHANGED useCount
          PROVE  driver' \in [Channels -> Sessions \cup {None, 0}] /\ useCount' \in 0..MaxUse
                 /\ events' \in SUBSET Events
      <4>1. {p} \in SUBSET Pids /\ {"common"} \in SUBSET Types /\ {"keyFailed"} \in SUBSET Events
            BY DEF TypeOK, Types, Events
      <4> QED
          BY <3>1, <4>1, PlacesTyped, EventsGrow DEF TypeOK
    <3>2. CASE ca_close(driver) /\ Record({"badSlot"})
          BY <3>2, CloseTyped, EventsGrow DEF TypeOK, Events
    <3>3. CASE UNCHANGED <<driver, useCount, events>>
          BY <3>3 DEF TypeOK
    <3> QED
        BY <1>12, <3>1, <3>2, <3>3 DEF notReady
  <2> QED
      BY <1>12, <2>1 DEF notReady, TypeOK
<1>13. CASE UNCHANGED vars
       BY <1>13 DEF vars, object, device, TypeOK
<1> QED
    BY <1>1, <1>2, <1>3, <1>4, <1>5, <1>6, <1>7, <1>8, <1>9, <1>10, <1>11, <1>12, <1>13
    DEF Next, Call, caSetKey

\* Every variable keeps its type.
THEOREM Typing == Spec => []TypeOK
<1>1. Init => TypeOK
      BY NoChannelsTyped, BoundsAssumption DEF Init, TypeOK
<1> QED
    BY <1>1, TypesKept, PTL DEF Spec
-----------------------------------------------------------------------------
(* Threads.                                                                *)

LEMMA ThreadsKept ==
    TypeOK /\ ThreadsLive /\ NoThreadAfterClose /\ [Next]_vars => ThreadsLive' /\ NoThreadAfterClose'
<1> DEFINE Quiet(d) == /\ ~live[d] => thread[d] = "none"
                       /\ phase[d] = "closed" => thread[d] \in {"none", "ended"}
<1> SUFFICES ASSUME TypeOK, ThreadsLive, NoThreadAfterClose, [Next]_vars, "notLive" \notin events'
             PROVE  \A e \in Descramblers : Quiet(e)'
    BY DEF ThreadsLive, NoThreadAfterClose
<1>h. ASSUME events \subseteq events'
      PROVE  \A e \in Descramblers : Quiet(e)
      BY <1>h DEF ThreadsLive, NoThreadAfterClose
<1> USE DEF TypeOK
\* Actions that leave them alone.
<1>k. ASSUME events \subseteq events', phase' = phase, live' = live, thread' = thread
      PROVE  \A e \in Descramblers : Quiet(e)'
      BY <1>h, <1>k
<1>1. ASSUME NEW d \in Descramblers, openDescrambler(d) \/ join(d)
      PROVE  \A e \in Descramblers : Quiet(e)'
  <2>1. /\ events' = events /\ live' = [live EXCEPT ![d] = TRUE] /\ thread' = [thread EXCEPT ![d] = "none"]
        /\ \A e \in Descramblers \ {d} : phase'[e] = phase[e]
        BY <1>1 DEF openDescrambler, join, Fresh
  <2> QED
      BY <1>h, <2>1
<1>2. ASSUME NEW d \in Descramblers, setDemuxSource(d) PROVE \A e \in Descramblers : Quiet(e)'
      BY <1>2, <1>k DEF setDemuxSource
<1>3. ASSUME NEW d \in Descramblers, closeDsmSession(d) PROVE \A e \in Descramblers : Quiet(e)'
  <2>1. events \subseteq events'
        BY <1>3, EventsGrow DEF closeDsmSession, Events
  <2> HIDE DEF Quiet
  <2> QED
      BY <1>3, <1>k, <2>1 DEF closeDsmSession
<1>4. ASSUME NEW d \in Descramblers, closeLive(d) PROVE \A e \in Descramblers : Quiet(e)'
  <2>1. events \subseteq events'
    <3>1. If(mDemuxSet[d] /\ d \notin opened, "closedUnopened") \in SUBSET Events
          BY DEF If, Events
    <3> QED
        BY <1>4, <3>1, EventsGrow DEF closeLive
  <2>2. live' = live /\ thread' = thread /\ phase' = [phase EXCEPT ![d] = "joining"]
        BY <1>4 DEF closeLive
  <2> QED
      BY <1>h, <2>1, <2>2
<1>5. ASSUME NEW d \in Descramblers, closeNotLive(d) PROVE \A e \in Descramblers : Quiet(e)'
  <2>1. /\ events' = events /\ ~live[d] /\ live' = live /\ thread' = thread
        /\ phase' = [phase EXCEPT ![d] = "closed"]
        BY <1>5 DEF closeNotLive
  <2> QED
      BY <1>h, <2>1
<1>6. ASSUME NEW d \in Descramblers, NEW token \in Tokens, setKeyToken(d, token)
      PROVE  \A e \in Descramblers : Quiet(e)'
  <2>1. /\ events \subseteq events' /\ phase' = phase /\ phase[d] = "open"
        /\ \A e \in Descramblers \ {d} : live'[e] = live[e] /\ thread'[e] = thread[e]
        /\ ~live'[d] => thread[d] = "none" /\ thread' = thread
    <3>1. /\ events \subseteq events'
          /\ thread' \in {thread, [thread EXCEPT ![d] = IF @ = "none" THEN "check" ELSE @]}
          /\ "notLive" \notin events' /\ ~live'[d] => thread[d] = "none" /\ thread' = thread
          /\ \A e \in Descramblers \ {d} : live'[e] = live[e]
          BY <1>6, SetKeyTokenDoes
    <3> QED
        BY <1>6, <3>1 DEF setKeyToken
  <2> QED
      BY <1>h, <2>1
<1>7. ASSUME NEW d \in Descramblers, NEW p \in Pids, addPid(d, p) \/ removePid(d, p)
      PROVE  \A e \in Descramblers : Quiet(e)'
  <2>1. events \subseteq events'
        BY <1>7 DEF addPid, removePid, KeyFails, BadSlot, Record
  <2> HIDE DEF Quiet
  <2> QED
      BY <1>7, <1>k, <2>1 DEF addPid, removePid
<1>8. ASSUME NEW d \in Descramblers, caSetKey(d) PROVE \A e \in Descramblers : Quiet(e)'
  <2>1. /\ events \subseteq events' /\ phase' = phase /\ live' = live
        BY <1>8 DEF caSetKey, check, keysReady, notReady, nothingToProbe, Record
  <2>2. /\ thread[d] \in {"check", "probe"}
        /\ \A e \in Descramblers \ {d} : thread'[e] = thread[e]
        BY <1>8 DEF caSetKey, check, keysReady, notReady, nothingToProbe, Probes
  <2>3. live[d] /\ phase[d] # "closed"
        BY <1>h, <2>1, <2>2
  <2> QED
      BY <1>h, <2>1, <2>2, <2>3
<1>9. CASE UNCHANGED vars
      BY <1>9, <1>k DEF vars, object
<1> HIDE DEF Quiet
<1> QED
    BY <1>1, <1>2, <1>3, <1>4, <1>5, <1>6, <1>7, <1>8, <1>9 DEF Next, Call

\* Unless watching turned from live to something else, no thread uses a descrambler
\* that has been closed.
THEOREM Threads == Spec => []NoThreadAfterClose
<1>1. Init => ThreadsLive /\ NoThreadAfterClose
      BY DEF Init, ThreadsLive, NoThreadAfterClose
<1> QED
    BY <1>1, ThreadsKept, Typing, PTL DEF Spec
-----------------------------------------------------------------------------
(* Keys.                                                                   *)

LEMMA TokenFirstKept == TypeOK /\ TokenFirst /\ [Next]_vars => TokenFirst'
<1> SUFFICES ASSUME TypeOK, TokenFirst, [Next]_vars, NEW e \in Descramblers, ~live'[e] PROVE mKeyToken'[e] # None
    BY DEF TokenFirst
<1>1. ASSUME NEW d \in Descramblers, Fresh(d) PROVE mKeyToken'[e] # None
      BY <1>1 DEF Fresh, TypeOK, TokenFirst
<1>2. ASSUME NEW d \in Descramblers, NEW token \in Tokens, setKeyToken(d, token) PROVE mKeyToken'[e] # None
  <2>1. /\ mKeyToken' = IF live[d] THEN [mKeyToken EXCEPT ![d] = token] ELSE mKeyToken
        /\ \A f \in Descramblers \ {d} : live'[f] = live[f]
        BY <1>2, SetKeyTokenDoes
  <2> QED
      BY <2>1, NoneAssumption DEF TypeOK, TokenFirst
<1>3. CASE live' = live /\ mKeyToken' = mKeyToken
      BY <1>3 DEF TokenFirst
<1>4. ASSUME NEW d \in Descramblers,
             \/ setDemuxSource(d) \/ closeDsmSession(d) \/ closeLive(d) \/ closeNotLive(d) \/ caSetKey(d)
             \/ \E p \in Pids : addPid(d, p) \/ removePid(d, p)
      PROVE  live' = live /\ mKeyToken' = mKeyToken
      BY <1>4 DEF setDemuxSource, closeDsmSession, closeLive, closeNotLive, caSetKey, check, keysReady, notReady,
                  nothingToProbe, addPid, removePid
<1> QED
    BY <1>1, <1>2, <1>3, <1>4 DEF Next, Call, openDescrambler, join, vars, object

\* A descrambler with a session is open, watches live, has the ca device open, and its
\* session is bound to its token; no two have one session.
SessionOf(d) ==
    mDsmFd[d] # None =>
        /\ phase[d] = "open" /\ live[d] /\ d \in opened /\ mDemuxSet[d] /\ mKeyToken[d] # None
        /\ session[mDsmFd[d]] = mKeyToken[d]
        /\ \A e \in Descramblers \ {d} : mDsmFd[e] # mDsmFd[d]

SessionsOk == \A d \in Descramblers : SessionOf(d)

\* Keys in use are those of a session.
ReadyOk == \A d \in Descramblers : mIsReady[d] /\ phase[d] = "open" => mDsmFd[d] # None

\* A channel has the keys of the session of the descrambler that records it, and is
\* recorded once.
ChannelOf(d, p, t) ==
    mPidToDscChannel[d][p][t] # None =>
        /\ mIsReady[d] /\ mDsmFd[d] # None /\ driver[mPidToDscChannel[d][p][t]] = mDsmFd[d]
        /\ \A e \in Descramblers, q \in Pids, u \in Types :
              mPidToDscChannel[e][q][u] = mPidToDscChannel[d][p][t] => e = d /\ q = p /\ u = t

ChannelsOk == \A d \in Descramblers, p \in Pids, t \in Types : ChannelOf(d, p, t)

\* The descramblers that will close the device are counted among its users.
Users == {d \in opened : mDemuxSet[d]}
UsersOk == /\ Cardinality(Users) <= useCount
           /\ \A d \in opened : phase[d] = "open" => mDemuxSet[d]

KeysOk == SessionsOk /\ ReadyOk /\ ChannelsOk /\ UsersOk

\* Channels that are kept keep their keys.
LEMMA FewerChannels ==
    ASSUME ChannelsOk,
           \A d \in Descramblers, p \in Pids, t \in Types :
              /\ mPidToDscChannel'[d][p][t] \in {None, mPidToDscChannel[d][p][t]}
              /\ mPidToDscChannel'[d][p][t] # None =>
                    /\ mIsReady'[d] /\ mDsmFd'[d] = mDsmFd[d]
                    /\ driver'[mPidToDscChannel[d][p][t]] = driver[mPidToDscChannel[d][p][t]]
    PROVE  ChannelsOk'
BY DEF ChannelsOk, ChannelOf

\* Channels that are allocated have the keys of their descrambler's session.
LEMMA AllocateKeys ==
    ASSUME TypeOK, ChannelsOk, NEW d \in Descramblers, NEW P \in SUBSET Pids, NEW T \in SUBSET Types,
           Allocate(d, P, T), mDsmFd[d] # None, mDsmFd' = mDsmFd,
           mIsReady'[d], \A e \in Descramblers \ {d} : mIsReady'[e] = mIsReady[e]
    PROVE  ChannelsOk'
<1>1. PICK place \in Places(P, T) :
        mPidToDscChannel' = Recorded(d, P, T, place) /\ driver' = Keyed(d, P, T, place)
      BY DEF Allocate
<1>2. /\ \A x \in P \X T : place[x] \in Channels /\ driver[place[x]] = None
      /\ \A x, y \in P \X T : x # y => place[x] # place[y]
      BY <1>1 DEF Places
<1> DEFINE New(e, p, t) == e = d /\ <<p, t>> \in P \X T
<1>3. \A e \in Descramblers, p \in Pids, t \in Types :
        mPidToDscChannel'[e][p][t] = IF New(e, p, t) THEN place[<<p, t>>] ELSE mPidToDscChannel[e][p][t]
      BY <1>1 DEF Recorded, TypeOK
<1>4. \A h \in Channels : driver'[h] = IF \E x \in P \X T : h = place[x] THEN mDsmFd[d] ELSE driver[h]
      BY <1>1 DEF Keyed, At
<1>5. \A e \in Descramblers, p \in Pids, t \in Types :
        mPidToDscChannel[e][p][t] # None =>
            /\ mPidToDscChannel[e][p][t] \in Channels /\ driver[mPidToDscChannel[e][p][t]] # None
            /\ \A x \in P \X T : mPidToDscChannel[e][p][t] # place[x]
      BY <1>2 DEF ChannelsOk, ChannelOf, TypeOK
<1>6. ASSUME NEW p \in Pids, NEW t \in Types, New(d, p, t)
      PROVE  ChannelOf(d, p, t)'
  <2> DEFINE h == mPidToDscChannel'[d][p][t]
  <2>1. h = place[<<p, t>>] /\ h \in Channels /\ driver'[h] = mDsmFd[d]
        BY <1>2, <1>3, <1>4, <1>6
  <2>2. ASSUME NEW e \in Descramblers, NEW q \in Pids, NEW u \in Types, mPidToDscChannel'[e][q][u] = h
        PROVE  e = d /\ q = p /\ u = t
    <3>1. h # None
          BY <2>1, NoneAssumption
    <3>2. New(e, q, u)
          BY <1>3, <1>5, <1>6, <2>1, <2>2, <3>1
    <3>3. place[<<q, u>>] = place[<<p, t>>] /\ <<q, u>> \in P \X T /\ <<p, t>> \in P \X T
          BY <1>3, <1>6, <2>1, <2>2, <3>2
    <3> QED
        BY <1>2, <3>2, <3>3
  <2> QED
      BY <2>1, <2>2 DEF ChannelOf
<1>7. ASSUME NEW e \in Descramblers, NEW p \in Pids, NEW t \in Types, ~New(e, p, t),
             mPidToDscChannel'[e][p][t] # None
      PROVE  ChannelOf(e, p, t)'
  <2> DEFINE h == mPidToDscChannel[e][p][t]
  <2>1. mPidToDscChannel'[e][p][t] = h /\ h # None /\ h \in Channels
        BY <1>3, <1>5, <1>7
  <2>2. driver'[h] = driver[h] /\ driver[h] = mDsmFd[e] /\ mDsmFd[e] # None /\ mIsReady[e]
        BY <1>4, <1>5, <2>1 DEF ChannelsOk, ChannelOf
  <2>3. ASSUME NEW f \in Descramblers, NEW q \in Pids, NEW u \in Types, mPidToDscChannel'[f][q][u] = h
        PROVE  f = e /\ q = p /\ u = t
    <3>1. ~New(f, q, u)
          BY <1>3, <1>5, <2>1, <2>3
    <3>2. mPidToDscChannel[f][q][u] = h
          BY <1>3, <2>3, <3>1
    <3> QED
        BY <2>1, <3>2 DEF ChannelsOk, ChannelOf
  <2>4. mIsReady'[e]
        BY <2>2
  <2> QED
      BY <2>1, <2>2, <2>3, <2>4 DEF ChannelOf
<1>8. ASSUME NEW e \in Descramblers, NEW p \in Pids, NEW t \in Types
      PROVE  ChannelOf(e, p, t)'
  <2>1. CASE New(e, p, t)
        BY <1>6, <2>1
  <2>2. CASE ~New(e, p, t) /\ mPidToDscChannel'[e][p][t] # None
        BY <1>7, <2>2
  <2>3. CASE mPidToDscChannel'[e][p][t] = None
        BY <2>3 DEF ChannelOf
  <2> QED
      BY <2>1, <2>2, <2>3
<1> QED
    BY <1>8 DEF ChannelsOk

\* A set of channels of one descrambler is freed: the others stay.
LEMMA FreedOthers ==
    ASSUME TypeOK, ChannelsOk, NEW d \in Descramblers, NEW P \in SUBSET Pids
    PROVE  \A e \in Descramblers, p \in Pids, t \in Types :
              mPidToDscChannel[e][p][t] # None /\ ~(e = d /\ p \in P) =>
                  Freed(ChannelsOf(d, P))[mPidToDscChannel[e][p][t]] = driver[mPidToDscChannel[e][p][t]]
<1> SUFFICES ASSUME NEW e \in Descramblers, NEW p \in Pids, NEW t \in Types,
                    mPidToDscChannel[e][p][t] # None, ~(e = d /\ p \in P)
             PROVE  Freed(ChannelsOf(d, P))[mPidToDscChannel[e][p][t]] = driver[mPidToDscChannel[e][p][t]]
    OBVIOUS
<1>1. mPidToDscChannel[e][p][t] \in Channels
      BY DEF TypeOK
<1>2. mPidToDscChannel[e][p][t] \notin ChannelsOf(d, P)
      BY DEF ChannelsOf, ChannelsOk, ChannelOf
<1> QED
    BY <1>1, <1>2 DEF Freed

LEMMA UsersFinite == TypeOK => IsFiniteSet(Users) /\ Cardinality(Users) \in Nat
BY FiniteAssumption, FS_Subset, FS_CardinalityType DEF TypeOK, Users

\* With no more users and the same count.
LEMMA FewerUsers ==
    ASSUME TypeOK, UsersOk, Users' \subseteq Users, useCount' = useCount,
           \A d \in opened' : phase'[d] = "open" => mDemuxSet'[d]
    PROVE  UsersOk'
<1>1. Cardinality(Users') <= Cardinality(Users) /\ Cardinality(Users') \in Nat
      BY UsersFinite, FS_Subset, FS_CardinalityType
<1> QED
    BY <1>1, UsersFinite DEF UsersOk, TypeOK

\* What the keys do not depend on may change.
keyVars == <<phase, mDemuxSet, mKeyToken, mDsmFd, mIsReady, live, mPidToDscChannel, useCount, opened,
             session, driver>>

LEMMA KeysFrame == KeysOk /\ UNCHANGED keyVars => KeysOk'
BY DEF KeysOk, SessionsOk, SessionOf, ReadyOk, ChannelsOk, ChannelOf, UsersOk, Users, keyVars

\* Sessions do not depend on channels, nor users on keys.
LEMMA SessionsFrame ==
    SessionsOk /\ UNCHANGED <<phase, mDemuxSet, mKeyToken, mDsmFd, live, opened, session>> => SessionsOk'
BY DEF SessionsOk, SessionOf

LEMMA UsersFrame == UsersOk /\ UNCHANGED <<phase, mDemuxSet, useCount, opened>> => UsersOk'
BY DEF UsersOk, Users

\* An object that has no session is made anew.
LEMMA FreshKeys ==
    ASSUME TypeOK, KeysOk, NEW d \in Descramblers, Fresh(d), phase[d] # "open",
           UNCHANGED <<useCount, session, driver>>, \A e \in Descramblers \ {d} : phase'[e] = phase[e]
    PROVE  KeysOk'
<1>1. mDsmFd[d] = None
      BY DEF KeysOk, SessionsOk, SessionOf
<1>2. /\ mDsmFd' = mDsmFd /\ mIsReady' = [mIsReady EXCEPT ![d] = FALSE]
      /\ \A e \in Descramblers \ {d} :
            /\ live'[e] = live[e] /\ mDemuxSet'[e] = mDemuxSet[e] /\ mKeyToken'[e] = mKeyToken[e]
            /\ mPidToDscChannel'[e] = mPidToDscChannel[e]
      /\ mPidToDscChannel'[d] = NoChannels /\ opened' = opened \ {d}
      BY <1>1 DEF Fresh, TypeOK
<1>3. SessionsOk'
      BY <1>1, <1>2 DEF KeysOk, SessionsOk, SessionOf
<1>4. ReadyOk'
      BY <1>1, <1>2 DEF KeysOk, ReadyOk, TypeOK
<1>5. ChannelsOk'
  <2>1. \A p \in Pids, t \in Types : NoChannels[p][t] = None
        BY DEF NoChannels
  <2>2. ASSUME NEW e \in Descramblers, NEW p \in Pids, NEW t \in Types
        PROVE  /\ mPidToDscChannel'[e][p][t] \in {None, mPidToDscChannel[e][p][t]}
               /\ mPidToDscChannel'[e][p][t] # None => mIsReady'[e]
    <3>1. CASE e = d
          BY <1>2, <2>1, <3>1
    <3>2. CASE e # d
      <4>1. mPidToDscChannel'[e][p][t] = mPidToDscChannel[e][p][t] /\ mIsReady'[e] = mIsReady[e]
            BY <1>2, <3>2 DEF TypeOK
      <4> QED
          BY <4>1 DEF KeysOk, ChannelsOk, ChannelOf
    <3> QED
        BY <3>1, <3>2
  <2> QED
      BY <1>2, <2>2, FewerChannels DEF KeysOk
<1>6. UsersOk'
  <2>1. /\ Users' \subseteq Users
        /\ \A e \in opened' : phase'[e] = "open" => mDemuxSet'[e]
        BY <1>2 DEF Users, KeysOk, UsersOk, TypeOK
  <2> QED
      BY <2>1, FewerUsers DEF KeysOk
<1> QED
    BY <1>3, <1>4, <1>5, <1>6 DEF KeysOk

LEMMA SetKeyTokenKeys ==
    ASSUME TypeOK, TokenFirst, KeysOk, NEW d \in Descramblers, NEW token \in Tokens, setKeyToken(d, token), Copes'
    PROVE  KeysOk'
<1>1. /\ phase[d] = "open" /\ mDemuxSet[d]
      /\ UNCHANGED <<phase, mDemuxSet>>
      BY DEF setKeyToken
<1>2. /\ mKeyToken' = IF live[d] THEN [mKeyToken EXCEPT ![d] = token] ELSE mKeyToken
      /\ mIsReady' = [mIsReady EXCEPT ![d] = @ /\ ~Reset(d)]
      /\ IF Reset(d)
         THEN /\ driver' = Freed(ChannelsOf(d, mAddedPid[d]))
              /\ mPidToDscChannel' = [mPidToDscChannel EXCEPT ![d] = NoChannels]
         ELSE UNCHANGED <<driver, mPidToDscChannel>>
      /\ opened' \in {opened, opened \cup {d}}
      /\ \A e \in Descramblers \ {d} : live'[e] = live[e]
      BY SetKeyTokenDoes
<1>3. \/ /\ mDsmFd' = [mDsmFd EXCEPT ![d] = None] /\ session' = AfterReset(d)
         /\ useCount' = useCount /\ opened' = opened
      \/ \E s \in Sessions :
            /\ AfterReset(d)[s] = None
            /\ mDsmFd' = [mDsmFd EXCEPT ![d] = s]
            /\ session' = [AfterReset(d) EXCEPT ![s] = mKeyToken'[d]]
            /\ live'[d]
            /\ useCount' = useCount + 1 /\ opened' = opened \cup {d}
      BY SetKeyTokenDoes DEF Copes
<1>4. ~mIsReady'[d] /\ \A e \in Descramblers \ {d} : mIsReady'[e] = mIsReady[e]
  <2>1. mIsReady[d] => Reset(d)
        BY <1>1 DEF KeysOk, ReadyOk, SessionsOk, SessionOf, Reset
  <2> QED
      BY <1>2, <2>1 DEF TypeOK
<1>5. mKeyToken'[d] # None /\ \A e \in Descramblers \ {d} : mKeyToken'[e] = mKeyToken[e]
      BY <1>2, NoneAssumption DEF TypeOK, TokenFirst
<1>6. /\ \A e \in Descramblers \ {d} : mDsmFd'[e] = mDsmFd[e]
      /\ AfterReset(d) \in [Sessions -> Tokens \cup {None}]
      BY <1>3 DEF TypeOK, AfterReset
<1>7. \A e \in Descramblers \ {d} : mDsmFd[e] # None =>
          /\ mDsmFd[e] \in Sessions /\ AfterReset(d)[mDsmFd[e]] = mKeyToken[e] /\ mKeyToken[e] # None
      BY DEF AfterReset, Reset, KeysOk, SessionsOk, SessionOf, TypeOK
<1>8. SessionsOk'
  <2>1. CASE mDsmFd' = [mDsmFd EXCEPT ![d] = None] /\ session' = AfterReset(d) /\ opened' = opened
    <3>1. mDsmFd'[d] = None
          BY <2>1 DEF TypeOK
    <3> QED
        BY <1>1, <1>2, <1>5, <1>6, <1>7, <2>1, <3>1 DEF KeysOk, SessionsOk, SessionOf
  <2>2. ASSUME NEW s \in Sessions, AfterReset(d)[s] = None, mDsmFd' = [mDsmFd EXCEPT ![d] = s],
               session' = [AfterReset(d) EXCEPT ![s] = mKeyToken'[d]], live'[d], opened' = opened \cup {d}
        PROVE  SessionsOk'
    <3>1. /\ mDsmFd'[d] = s /\ session'[s] = mKeyToken'[d]
          /\ \A e \in Descramblers \ {d} : mDsmFd[e] # None =>
                mDsmFd[e] # s /\ session'[mDsmFd[e]] = mKeyToken[e]
          BY <1>6, <1>7, <2>2 DEF TypeOK
    <3> QED
        BY <1>1, <1>2, <1>5, <1>6, <2>2, <3>1, NoneAssumption DEF KeysOk, SessionsOk, SessionOf
  <2> QED
      BY <1>3, <2>1, <2>2
<1>9. ReadyOk'
      BY <1>1, <1>4, <1>6 DEF KeysOk, ReadyOk
<1>10. ChannelsOk'
  <2>1. \A p \in Pids, t \in Types : NoChannels[p][t] = None
        BY DEF NoChannels
  <2>2. CASE Reset(d)
    <3>1. mPidToDscChannel' = [mPidToDscChannel EXCEPT ![d] = NoChannels]
          /\ driver' = Freed(ChannelsOf(d, mAddedPid[d]))
          BY <1>2, <2>2
    <3>2. ASSUME NEW e \in Descramblers, NEW p \in Pids, NEW t \in Types
          PROVE  /\ mPidToDscChannel'[e][p][t] \in {None, mPidToDscChannel[e][p][t]}
                 /\ mPidToDscChannel'[e][p][t] # None =>
                       /\ mIsReady'[e] /\ mDsmFd'[e] = mDsmFd[e]
                       /\ driver'[mPidToDscChannel[e][p][t]] = driver[mPidToDscChannel[e][p][t]]
      <4>1. CASE e = d
            BY <2>1, <3>1, <4>1 DEF TypeOK
      <4>2. CASE e # d
        <5>1. mPidToDscChannel'[e] = mPidToDscChannel[e] /\ mAddedPid[d] \in SUBSET Pids
              BY <3>1, <4>2 DEF TypeOK
        <5>2. mPidToDscChannel[e][p][t] # None =>
                 Freed(ChannelsOf(d, mAddedPid[d]))[mPidToDscChannel[e][p][t]] = driver[mPidToDscChannel[e][p][t]]
              BY <4>2, <5>1, FreedOthers DEF KeysOk
        <5> QED
            BY <1>4, <1>6, <3>1, <4>2, <5>1, <5>2 DEF KeysOk, ChannelsOk, ChannelOf
      <4> QED
          BY <4>1, <4>2
    <3> QED
        BY <3>2, FewerChannels DEF KeysOk
  <2>3. CASE ~Reset(d)
    <3>1. mPidToDscChannel' = mPidToDscChannel /\ driver' = driver /\ ~mIsReady[d]
          BY <1>2, <1>4, <2>3 DEF TypeOK
    <3>2. ASSUME NEW e \in Descramblers, NEW p \in Pids, NEW t \in Types, mPidToDscChannel[e][p][t] # None
          PROVE  mIsReady'[e] /\ mDsmFd'[e] = mDsmFd[e]
      <4>1. mIsReady[e]
            BY <3>2 DEF KeysOk, ChannelsOk, ChannelOf
      <4> QED
          BY <1>4, <1>6, <3>1, <4>1
    <3> QED
        BY <3>1, <3>2, FewerChannels DEF KeysOk
  <2> QED
      BY <2>2, <2>3
<1>11. UsersOk'
  <2>1. CASE useCount' = useCount /\ opened' = opened
        BY <1>1, <2>1, UsersFrame DEF KeysOk
  <2>2. CASE useCount' = useCount + 1 /\ opened' = opened \cup {d}
    <3>1. Users' = Users \cup {d}
          BY <1>1, <2>2 DEF Users
    <3>2. Cardinality(Users') <= Cardinality(Users) + 1
      <4>1. IsFiniteSet(Users) /\ Cardinality(Users) \in Nat
            BY UsersFinite
      <4>2. Cardinality(Users \cup {d}) = IF d \in Users THEN Cardinality(Users) ELSE Cardinality(Users) + 1
            BY <4>1, FS_AddElement
      <4> QED
          BY <3>1, <4>1, <4>2
    <3>3. Cardinality(Users') \in Nat
          BY <3>1, UsersFinite, FS_AddElement, FS_CardinalityType
    <3>4. \A e \in opened' : phase'[e] = "open" => mDemuxSet'[e]
          BY <1>1, <2>2 DEF KeysOk, UsersOk
    <3> QED
        BY <2>2, <3>2, <3>3, <3>4, UsersFinite DEF KeysOk, UsersOk, TypeOK
  <2> QED
      BY <1>3, <2>1, <2>2
<1> QED
    BY <1>8, <1>9, <1>10, <1>11 DEF KeysOk

LEMMA CloseLiveKeys ==
    ASSUME TypeOK, KeysOk, NEW d \in Descramblers, closeLive(d), Copes'
    PROVE  KeysOk'
<1> DEFINE table == Freed(ChannelsOf(d, mAddedPid[d]))
<1>1. /\ phase[d] = "open"
      /\ mPidToDscChannel' = [mPidToDscChannel EXCEPT ![d] = NoChannels]
      /\ session' = [s \in Sessions |-> IF s = mDsmFd[d] THEN None ELSE session[s]]
      /\ mDsmFd' = [mDsmFd EXCEPT ![d] = None]
      /\ IF mDemuxSet[d] THEN ca_close(table) ELSE driver' = table /\ UNCHANGED useCount
      /\ mDemuxSet' = [mDemuxSet EXCEPT ![d] = FALSE]
      /\ phase' = [phase EXCEPT ![d] = "joining"]
      /\ UNCHANGED <<mKeyToken, mIsReady, live, opened>>
      BY DEF closeLive
<1>2. mDemuxSet[d] => d \in opened
  <2>1. If(mDemuxSet[d] /\ d \notin opened, "closedUnopened") \in SUBSET Events
        BY DEF If, Events
  <2>2. If(mDemuxSet[d] /\ d \notin opened, "closedUnopened") \subseteq events'
        BY <2>1, EventsGrow DEF closeLive, TypeOK
  <2> QED
      BY <2>2 DEF Copes, If
<1>3. SessionsOk'
  <2>1. mDsmFd'[d] = None
        BY <1>1 DEF TypeOK
  <2>2. \A e \in Descramblers \ {d} :
          /\ mDsmFd'[e] = mDsmFd[e] /\ mDemuxSet'[e] = mDemuxSet[e] /\ phase'[e] = phase[e]
          /\ mDsmFd[e] # None => mDsmFd[e] \in Sessions
        BY <1>1 DEF TypeOK
  <2>3. \A e \in Descramblers \ {d} : mDsmFd[e] # None => session'[mDsmFd[e]] = session[mDsmFd[e]]
        BY <1>1, <2>2 DEF KeysOk, SessionsOk, SessionOf
  <2> QED
      BY <1>1, <2>1, <2>2, <2>3 DEF KeysOk, SessionsOk, SessionOf
<1>4. ReadyOk'
      BY <1>1 DEF KeysOk, ReadyOk, TypeOK
<1>5. Users' = Users \ {d} /\ (mDemuxSet[d] => d \in Users)
      BY <1>1, <1>2 DEF Users, TypeOK
<1>6. ChannelsOk'
  <2>1. \A p \in Pids, t \in Types : NoChannels[p][t] = None
        BY DEF NoChannels
  <2>2. ASSUME NEW e \in Descramblers, NEW p \in Pids, NEW t \in Types
        PROVE  /\ mPidToDscChannel'[e][p][t] \in {None, mPidToDscChannel[e][p][t]}
               /\ mPidToDscChannel'[e][p][t] # None =>
                     /\ mIsReady'[e] /\ mDsmFd'[e] = mDsmFd[e]
                     /\ driver'[mPidToDscChannel[e][p][t]] = driver[mPidToDscChannel[e][p][t]]
    <3>1. CASE e = d
          BY <1>1, <2>1, <3>1 DEF TypeOK
    <3>2. CASE e # d /\ mPidToDscChannel[e][p][t] # None
      <4>1. /\ mPidToDscChannel'[e] = mPidToDscChannel[e] /\ mDsmFd'[e] = mDsmFd[e]
            /\ mAddedPid[d] \in SUBSET Pids
            BY <1>1, <3>2 DEF TypeOK
      <4>2. table[mPidToDscChannel[e][p][t]] = driver[mPidToDscChannel[e][p][t]]
            BY <3>2, <4>1, FreedOthers DEF KeysOk
      <4>3. mIsReady[e] /\ mDsmFd[e] # None /\ e \in Users
            BY <3>2 DEF KeysOk, ChannelsOk, ChannelOf, SessionsOk, SessionOf, Users
      <4>4. driver' = table
        <5>1. CASE mDemuxSet[d]
          <6>1. d \in Users /\ e \in Users \ {d}
                BY <1>5, <3>2, <4>3, <5>1
          <6>2. Cardinality(Users \ {d}) = Cardinality(Users) - 1 /\ Cardinality(Users \ {d}) \in Nat
                /\ Cardinality(Users \ {d}) # 0
                BY <6>1, UsersFinite, FS_RemoveElement, FS_Subset, FS_CardinalityType, FS_EmptySet
          <6>3. useCount > 1
            <7>1. Cardinality(Users) \in Nat /\ Cardinality(Users) > 1
                  BY <6>2, UsersFinite
            <7>2. Cardinality(Users) <= useCount /\ useCount \in Nat
                  BY BoundsAssumption DEF KeysOk, UsersOk, TypeOK
            <7> QED
                BY <7>1, <7>2
          <6> QED
              BY <1>1, <5>1, <6>3 DEF ca_close
        <5> QED
            BY <1>1, <5>1
      <4> QED
          BY <1>1, <4>1, <4>2, <4>3, <4>4
    <3>3. CASE e # d /\ mPidToDscChannel[e][p][t] = None
          BY <1>1, <3>3 DEF TypeOK
    <3> QED
        BY <3>1, <3>2, <3>3
  <2> QED
      BY <2>2, FewerChannels DEF KeysOk
<1>7. UsersOk'
  <2>1. \A e \in opened' : phase'[e] = "open" => mDemuxSet'[e]
        BY <1>1 DEF KeysOk, UsersOk, TypeOK
  <2>2. CASE ~mDemuxSet[d]
        BY <1>1, <1>5, <2>1, <2>2, FewerUsers DEF KeysOk
  <2>3. CASE mDemuxSet[d]
    <3>1. Cardinality(Users') = Cardinality(Users) - 1 /\ Cardinality(Users') \in Nat
          BY <1>5, <2>3, UsersFinite, FS_RemoveElement, FS_CardinalityType
    <3>2. useCount' = useCount - 1
          BY <1>1, <2>3, <3>1, UsersFinite DEF KeysOk, UsersOk, TypeOK, ca_close
    <3> QED
        BY <2>1, <3>1, <3>2, UsersFinite DEF KeysOk, UsersOk, TypeOK
  <2> QED
      BY <2>2, <2>3
<1> QED
    BY <1>3, <1>4, <1>6, <1>7 DEF KeysOk

LEMMA KeysKept == TypeOK /\ TokenFirst /\ (Copes => KeysOk) /\ [Next]_vars => (Copes => KeysOk)'
<1> SUFFICES ASSUME TypeOK, TokenFirst, Copes => KeysOk, [Next]_vars, Copes' PROVE KeysOk'
    OBVIOUS
<1>h. ASSUME events \subseteq events' PROVE KeysOk
      BY <1>h DEF Copes
<1>f. ASSUME events' = events, UNCHANGED keyVars PROVE KeysOk'
      BY <1>f, <1>h, KeysFrame
<1>1. ASSUME NEW d \in Descramblers, openDescrambler(d) \/ join(d) PROVE KeysOk'
  <2>1. /\ Fresh(d) /\ phase[d] # "open"
        /\ UNCHANGED <<useCount, session, driver, events>>
        /\ \A e \in Descramblers \ {d} : phase'[e] = phase[e]
        BY <1>1 DEF openDescrambler, join, TypeOK
  <2> QED
      BY <1>h, <2>1, FreshKeys
<1>2. ASSUME NEW d \in Descramblers, setDemuxSource(d) PROVE KeysOk'
  <2>1. /\ phase[d] = "open" /\ ~mDemuxSet[d] /\ mDemuxSet' = [mDemuxSet EXCEPT ![d] = TRUE] /\ events' = events
        /\ UNCHANGED <<phase, mKeyToken, mDsmFd, mIsReady, live, mPidToDscChannel, useCount, opened, session, driver>>
        BY <1>2 DEF setDemuxSource, device
  <2>2. KeysOk /\ d \notin opened
        BY <1>h, <2>1 DEF KeysOk, UsersOk
  <2>3. SessionsOk' /\ ReadyOk' /\ ChannelsOk'
        BY <2>1, <2>2 DEF KeysOk, SessionsOk, SessionOf, ReadyOk, ChannelsOk, ChannelOf, TypeOK
  <2>4. Users' \subseteq Users /\ \A e \in opened' : phase'[e] = "open" => mDemuxSet'[e]
        BY <2>1, <2>2 DEF Users, KeysOk, UsersOk, TypeOK
  <2> QED
      BY <2>1, <2>2, <2>3, <2>4, FewerUsers DEF KeysOk
<1>3. ASSUME NEW d \in Descramblers, closeDsmSession(d) PROVE KeysOk'
  <2>1. "dvrOpened" \in events'
        BY <1>3, EventsGrow DEF closeDsmSession, TypeOK, Events
  <2> QED
      BY <2>1 DEF Copes
<1>4. ASSUME NEW d \in Descramblers, closeLive(d) PROVE KeysOk'
  <2>1. events \subseteq events'
        BY <1>4 DEF closeLive, Record
  <2> QED
      BY <1>h, <1>4, <2>1, CloseLiveKeys
<1>5. ASSUME NEW d \in Descramblers, closeNotLive(d) PROVE KeysOk'
  <2>1. /\ ~live[d] /\ phase' = [phase EXCEPT ![d] = "closed"] /\ events' = events
        /\ UNCHANGED <<mDemuxSet, mKeyToken, mDsmFd, mIsReady, live, mPidToDscChannel, useCount, opened, session, driver>>
        BY <1>5 DEF closeNotLive, device
  <2>2. KeysOk /\ mDsmFd[d] = None
        BY <1>h, <2>1 DEF KeysOk, SessionsOk, SessionOf
  <2>3. SessionsOk' /\ ReadyOk' /\ ChannelsOk'
        BY <2>1, <2>2 DEF KeysOk, SessionsOk, SessionOf, ReadyOk, ChannelsOk, ChannelOf, TypeOK
  <2>4. Users' \subseteq Users /\ \A e \in opened' : phase'[e] = "open" => mDemuxSet'[e]
        BY <2>1, <2>2 DEF Users, KeysOk, UsersOk, TypeOK
  <2> QED
      BY <2>1, <2>2, <2>3, <2>4, FewerUsers DEF KeysOk
<1>6. ASSUME NEW d \in Descramblers, NEW token \in Tokens, setKeyToken(d, token) PROVE KeysOk'
  <2>1. events \subseteq events'
        BY <1>6, SetKeyTokenDoes
  <2> QED
      BY <1>h, <1>6, <2>1, SetKeyTokenKeys
<1>7. ASSUME NEW d \in Descramblers, NEW p \in Pids, addPid(d, p) PROVE KeysOk'
  <2>1. /\ phase[d] = "open"
        /\ UNCHANGED <<phase, mDemuxSet, mKeyToken, mDsmFd, mIsReady, live, opened, session>>
        BY <1>7 DEF addPid
  <2>2. CASE UNCHANGED <<driver, mPidToDscChannel, useCount, events>>
        BY <1>f, <2>1, <2>2 DEF keyVars
  <2>3. CASE /\ mIsReady[d] /\ UNCHANGED <<useCount, events>>
             /\ \E T \in TypesOf(mIsNskDsc[d]) : Allocate(d, {p}, T)
    <3>1. KeysOk /\ mDsmFd[d] # None
          BY <1>h, <2>1, <2>3 DEF KeysOk, ReadyOk
    <3>2. PICK T \in SUBSET Types : Allocate(d, {p}, T)
          BY <2>3, TypesOfTyped DEF TypeOK
    <3>3. ChannelsOk'
          BY <2>1, <2>3, <3>1, <3>2, AllocateKeys DEF KeysOk
    <3>4. SessionsOk' /\ UsersOk' /\ ReadyOk'
          BY <2>1, <2>3, <3>1, SessionsFrame, UsersFrame DEF KeysOk, ReadyOk
    <3> QED
        BY <3>3, <3>4 DEF KeysOk
  <2>4. CASE KeyFails(d, p) \/ BadSlot(d, p)
    <3>1. "keyFailed" \in events' \/ "badSlot" \in events'
          BY <2>4 DEF KeyFails, BadSlot, Record
    <3> QED
        BY <3>1 DEF Copes
  <2> QED
      BY <1>7, <2>2, <2>3, <2>4 DEF addPid
<1>8. ASSUME NEW d \in Descramblers, NEW p \in Pids, removePid(d, p) PROVE KeysOk'
  <2>1. /\ events' = events
        /\ UNCHANGED <<phase, mDemuxSet, mKeyToken, mDsmFd, mIsReady, live, useCount, opened, session>>
        BY <1>8 DEF removePid
  <2>2. KeysOk
        BY <1>h, <2>1
  <2>3. CASE live[d]
    <3>1. /\ driver' = Freed(ChannelsOf(d, {p})) /\ {p} \in SUBSET Pids
          /\ mPidToDscChannel' = [mPidToDscChannel EXCEPT ![d] = [mPidToDscChannel[d] EXCEPT ![p] = NoChannels[p]]]
          BY <1>8, <2>3 DEF removePid
    <3>2. ASSUME NEW e \in Descramblers, NEW q \in Pids, NEW t \in Types
          PROVE  /\ mPidToDscChannel'[e][q][t] \in {None, mPidToDscChannel[e][q][t]}
                 /\ mPidToDscChannel'[e][q][t] # None =>
                       /\ mIsReady'[e] /\ mDsmFd'[e] = mDsmFd[e]
                       /\ driver'[mPidToDscChannel[e][q][t]] = driver[mPidToDscChannel[e][q][t]]
      <4>1. mPidToDscChannel'[e][q][t] = IF e = d /\ q = p THEN None ELSE mPidToDscChannel[e][q][t]
            BY <3>1 DEF NoChannels, TypeOK
      <4>2. CASE ~(e = d /\ q = p) /\ mPidToDscChannel[e][q][t] # None
        <5>1. driver'[mPidToDscChannel[e][q][t]] = driver[mPidToDscChannel[e][q][t]]
              BY <2>2, <3>1, <4>2, FreedOthers DEF KeysOk
        <5> QED
            BY <2>1, <2>2, <4>1, <4>2, <5>1 DEF KeysOk, ChannelsOk, ChannelOf
      <4> QED
          BY <4>1, <4>2
    <3>3. ChannelsOk'
          BY <2>2, <3>2, FewerChannels DEF KeysOk
    <3> QED
        BY <2>1, <2>2, <3>3, SessionsFrame, UsersFrame DEF KeysOk, ReadyOk
  <2>4. CASE ~live[d]
        BY <1>8, <1>f, <2>1, <2>4 DEF removePid, keyVars
  <2> QED
      BY <2>3, <2>4
<1>9. ASSUME NEW d \in Descramblers, check(d) \/ nothingToProbe(d) PROVE KeysOk'
      BY <1>9, <1>f DEF check, nothingToProbe, device, keyVars
<1>10. ASSUME NEW d \in Descramblers, keysReady(d) PROVE KeysOk'
  <2>1. /\ mDsmFd[d] # None /\ mIsReady' = [mIsReady EXCEPT ![d] = TRUE]
        /\ UNCHANGED <<phase, mDemuxSet, mKeyToken, mDsmFd, live, useCount, opened, session, events>>
        BY <1>10 DEF keysReady, Probes
  <2>2. PICK nsk \in BOOLEAN : \E T \in TypesOf(nsk) : Allocate(d, mAddedPid[d], T)
        BY <1>10 DEF keysReady
  <2>3. PICK T \in SUBSET Types : Allocate(d, mAddedPid[d], T)
        BY <2>2, TypesOfTyped
  <2>4. /\ KeysOk /\ mAddedPid[d] \in SUBSET Pids
        /\ mIsReady'[d] /\ \A e \in Descramblers \ {d} : mIsReady'[e] = mIsReady[e]
        BY <1>h, <2>1 DEF TypeOK
  <2>5. ChannelsOk'
        BY <2>1, <2>3, <2>4, AllocateKeys DEF KeysOk
  <2>6. SessionsOk' /\ UsersOk' /\ ReadyOk'
        BY <2>1, <2>4, SessionsFrame, UsersFrame DEF KeysOk, ReadyOk
  <2> QED
      BY <2>5, <2>6 DEF KeysOk
<1>11. ASSUME NEW d \in Descramblers, notReady(d) PROVE KeysOk'
  <2>1. CASE UNCHANGED <<driver, useCount, events>>
        BY <1>11, <1>f, <2>1 DEF notReady, keyVars
  <2>2. CASE Record({"keyFailed"}) \/ Record({"badSlot"})
        BY <2>2 DEF Record, Copes
  <2> QED
      BY <1>11, <2>1, <2>2 DEF notReady
<1>12. CASE UNCHANGED vars
       BY <1>12, <1>f DEF vars, object, device, keyVars
<1> QED
    BY <1>1, <1>2, <1>3, <1>4, <1>5, <1>6, <1>7, <1>8, <1>9, <1>10, <1>11, <1>12 DEF Next, Call, caSetKey

\* The invariant: the keys are in order as long as nothing happens that breaks them.
LEMMA KeysInvariant == Spec => [](TypeOK /\ TokenFirst /\ (Copes => KeysOk))
<1> DEFINE IInv == TypeOK /\ TokenFirst /\ (Copes => KeysOk)
<1>1. Init => IInv
  <2> SUFFICES ASSUME Init PROVE IInv
      OBVIOUS
  <2>1. TypeOK
        BY NoChannelsTyped, BoundsAssumption DEF Init, TypeOK
  <2>2. Users = {}
        BY DEF Init, Users
  <2>3. UsersOk
        BY <2>2, FS_EmptySet DEF Init, UsersOk
  <2>4. TokenFirst /\ SessionsOk /\ ReadyOk /\ ChannelsOk
        BY DEF Init, TokenFirst, SessionsOk, SessionOf, ReadyOk, ChannelsOk, ChannelOf, NoChannels
  <2> QED
      BY <2>1, <2>3, <2>4 DEF KeysOk
<1>2. IInv /\ [Next]_vars => IInv'
      BY TypesKept, TokenFirstKept, KeysKept
<1> QED
    BY <1>1, <1>2, PTL DEF Spec

\* Whatever tokens are set and whatever session fails to open, as long as the device
\* opens, nothing closes it or the session under the descrambler and no key fails to be
\* set, a channel it has is its own and has the keys of the open session bound to its token.
THEOREM Keys == Spec => []KeysOfCurrentToken
<1>1. TypeOK /\ TokenFirst /\ (Copes => KeysOk) => KeysOfCurrentToken
  <2> SUFFICES ASSUME KeysOk, NEW d \in Descramblers, NEW h \in ChannelsOf(d, Pids)
               PROVE  /\ driver[h] = mDsmFd[d] /\ mDsmFd[d] # None
                      /\ session[mDsmFd[d]] = mKeyToken[d]
                      /\ \A e \in Descramblers \ {d} : h \notin ChannelsOf(e, Pids)
      BY DEF KeysOfCurrentToken, Copes
  <2>1. PICK p \in Pids, t \in Types : h = mPidToDscChannel[d][p][t] /\ h # None
        BY DEF ChannelsOf
  <2> QED
      BY <2>1 DEF KeysOk, ChannelsOk, ChannelOf, SessionsOk, SessionOf, ChannelsOf
<1> QED
    BY <1>1, KeysInvariant, PTL

-----------------------------------------------------------------------------
(* What closed descramblers leave behind.                                   *)

\* No more are counted than descramblers that will close the device, and none of those
\* is closed already.
Counted == useCount <= Cardinality(Users)
ClosedIsNoUser == \A d \in Descramblers : phase[d] # "open" => d \notin Users
\* The device is opened for a token that is watched live.
OpenedForToken == \A d \in Descramblers : mKeyToken[d] = None \/ ~live[d] => d \notin opened
\* A session is that of an open descrambler, and every one that is open is some
\* descrambler's.
SessionsUsed ==
    \A d \in Descramblers : mDsmFd[d] # None => phase[d] = "open" /\ live[d] /\ mKeyToken[d] # None
SessionsOwned == \A s \in Sessions : session[s] # None => \E d \in Descramblers : mDsmFd[d] = s
\* Without a user the device is closed, and a closed one has no channels.
ChannelsGone == useCount = 0 => \A h \in Channels : driver[h] = None

Accounts == Counted /\ ClosedIsNoUser /\ OpenedForToken /\ SessionsUsed /\ SessionsOwned /\ ChannelsGone
accountVars == <<phase, mDemuxSet, mKeyToken, mDsmFd, live, useCount, opened, session, driver>>

LEMMA AccountsFrame == Accounts /\ UNCHANGED accountVars => Accounts'
BY DEF Accounts, Counted, Users, ClosedIsNoUser, OpenedForToken, SessionsUsed, SessionsOwned,
       ChannelsGone, accountVars

\* A step that touches channels only, and only those of an open device.
LEMMA ChannelsAccount ==
    ASSUME TypeOK, Accounts,
           UNCHANGED <<phase, mDemuxSet, mKeyToken, mDsmFd, live, useCount, opened, session>>,
           useCount > 0 \/ \A h \in Channels : driver'[h] \in {None, driver[h]}
    PROVE  Accounts'
<1>1. Counted' /\ ClosedIsNoUser' /\ OpenedForToken' /\ SessionsUsed' /\ SessionsOwned'
  BY DEF Accounts, Counted, Users, ClosedIsNoUser, OpenedForToken, SessionsUsed, SessionsOwned
<1>2. ChannelsGone'
  <2> SUFFICES ASSUME useCount = 0 PROVE \A h \in Channels : driver'[h] = None
    BY DEF ChannelsGone
  <2>1. \A h \in Channels : driver'[h] \in {None, driver[h]}
    OBVIOUS
  <2> QED BY <2>1 DEF Accounts, ChannelsGone
<1> QED BY <1>1, <1>2 DEF Accounts

\* Whoever closes the device, its count stays below that of the users.
LEMMA DeviceClosed ==
    ASSUME TypeOK, Accounts, NEW table, ca_close(table), NEW d, Users \ {d} \subseteq Users',
           IsFiniteSet(Users')
    PROVE  Counted' /\ ChannelsGone'
<1>1. useCount \in Nat /\ useCount' = IF useCount > 0 THEN useCount - 1 ELSE 0
  BY BoundsAssumption DEF TypeOK, ca_close
<1>2. IsFiniteSet(Users) /\ Cardinality(Users) \in Nat /\ useCount <= Cardinality(Users)
  BY UsersFinite DEF Accounts, Counted
<1>3. Cardinality(Users \ {d}) \in Nat /\ Cardinality(Users \ {d}) >= Cardinality(Users) - 1
  <2>1. CASE d \in Users
    <3>1. Cardinality(Users \ {d}) = Cardinality(Users) - 1
      BY <1>2, <2>1, FS_RemoveElement
    <3>2. IsFiniteSet(Users \ {d})
      BY <1>2, FS_Subset
    <3> QED BY <1>2, <3>1, <3>2, FS_CardinalityType
  <2>2. CASE d \notin Users
    <3>1. Users \ {d} = Users
      BY <2>2
    <3> QED BY <1>2, <3>1
  <2> QED BY <2>1, <2>2
<1>4. Cardinality(Users \ {d}) <= Cardinality(Users') /\ Cardinality(Users') \in Nat
  BY FS_Subset, FS_CardinalityType
<1>5. Counted'
  BY <1>1, <1>2, <1>3, <1>4 DEF Counted
<1>6. ChannelsGone'
  <2> SUFFICES ASSUME useCount' = 0 PROVE \A h \in Channels : driver'[h] = None
    BY DEF ChannelsGone
  <2>1. ~(useCount > 1)
    BY <1>1
  <2> QED BY <2>1 DEF ca_close
<1> QED BY <1>5, <1>6

\* The first token of a descrambler opens one session or none, and the device if the
\* descrambler is one more user.
LEMMA FirstToken ==
    ASSUME TypeOK, TokenFirst, Accounts, NEW d \in Descramblers, NEW token \in Tokens,
           setKeyToken(d, token), "retoken" \notin events'
    PROVE  /\ mKeyToken[d] = None /\ mDemuxSet[d] /\ phase[d] = "open" /\ mDsmFd[d] = None
           /\ mKeyToken' = [mKeyToken EXCEPT ![d] = token]
           /\ UNCHANGED <<phase, mDemuxSet, driver>>
           /\ \A e \in Descramblers \ {d} : live'[e] = live[e]
           /\ \/ /\ mDsmFd' = mDsmFd /\ session' = session
                 /\ useCount' = useCount /\ opened' = opened
              \/ /\ live'[d] /\ opened' \in {opened, opened \cup {d}}
                 /\ \/ useCount' = useCount
                    \/ useCount' = useCount + 1 /\ opened' = opened \cup {d}
                 /\ \E s \in Sessions : /\ mDsmFd' = [mDsmFd EXCEPT ![d] = s]
                                        /\ session' = [session EXCEPT ![s] = token]
<1>1. If(mKeyToken[d] # None, "retoken") \subseteq events'
  BY DEF setKeyToken, OpenSession, Record
<1>2. mKeyToken[d] = None
  BY <1>1 DEF If
<1>3. live[d]
  BY <1>2 DEF TokenFirst
<1>4. mDsmFd[d] = None
  BY <1>2 DEF Accounts, SessionsUsed
<1>5. ~Reset(d) /\ AfterReset(d) = session
  BY <1>4 DEF Reset, AfterReset
<1>6. mKeyToken' = [mKeyToken EXCEPT ![d] = token] /\ mKeyToken'[d] = token
  BY <1>3, SetKeyTokenDoes DEF TypeOK
<1>7. [mDsmFd EXCEPT ![d] = None] = mDsmFd
  BY <1>4 DEF TypeOK
<1>8. phase[d] = "open" /\ mDemuxSet[d] /\ UNCHANGED <<phase, mDemuxSet, driver>>
  BY <1>5 DEF setKeyToken, FreeOld
<1>9. \A e \in Descramblers \ {d} : live'[e] = live[e]
  BY SetKeyTokenDoes
<1>10. \/ /\ mDsmFd' = mDsmFd /\ session' = session
          /\ useCount' = useCount /\ opened' = opened
       \/ /\ live'[d] /\ opened' \in {opened, opened \cup {d}}
          /\ \/ useCount' = useCount
             \/ useCount' = useCount + 1 /\ opened' = opened \cup {d}
          /\ \E s \in Sessions : /\ mDsmFd' = [mDsmFd EXCEPT ![d] = s]
                                 /\ session' = [session EXCEPT ![s] = token]
  BY <1>5, <1>6, <1>7, SetKeyTokenDoes
<1> QED BY <1>2, <1>4, <1>6, <1>8, <1>9, <1>10

LEMMA SetKeyTokenAccounts ==
    ASSUME TypeOK, TokenFirst, Accounts, NEW d \in Descramblers, NEW token \in Tokens,
           setKeyToken(d, token), "retoken" \notin events'
    PROVE  Accounts'
<1>1. /\ mKeyToken[d] = None /\ mDemuxSet[d] /\ phase[d] = "open" /\ mDsmFd[d] = None
      /\ mKeyToken' = [mKeyToken EXCEPT ![d] = token]
      /\ UNCHANGED <<phase, mDemuxSet, driver>>
      /\ \A e \in Descramblers \ {d} : live'[e] = live[e]
  BY FirstToken
<1>2. d \notin opened /\ d \notin Users /\ IsFiniteSet(Users) /\ Cardinality(Users) \in Nat
  BY <1>1, UsersFinite DEF Accounts, OpenedForToken, Users
<1>3. mKeyToken'[d] # None /\ useCount \in Nat
  BY <1>1, NoneAssumption, BoundsAssumption DEF TypeOK
<1>4. CASE mDsmFd' = mDsmFd /\ session' = session /\ useCount' = useCount /\ opened' = opened
  <2>1. Counted' /\ ClosedIsNoUser' /\ SessionsOwned' /\ ChannelsGone'
    BY <1>1, <1>4 DEF Accounts, Counted, ClosedIsNoUser, SessionsOwned, ChannelsGone, Users
  <2>2. OpenedForToken' /\ SessionsUsed'
    BY <1>1, <1>2, <1>4 DEF Accounts, OpenedForToken, SessionsUsed, TypeOK
  <2> QED BY <2>1, <2>2 DEF Accounts
<1>5. ASSUME live'[d], opened' \in {opened, opened \cup {d}},
             useCount' = useCount \/ (useCount' = useCount + 1 /\ opened' = opened \cup {d}),
             NEW s \in Sessions, mDsmFd' = [mDsmFd EXCEPT ![d] = s],
             session' = [session EXCEPT ![s] = token]
      PROVE  Accounts'
  <2>1. Users' = IF opened' = opened THEN Users ELSE Users \cup {d}
    BY <1>1, <1>5 DEF Users
  <2>2. Cardinality(Users \cup {d}) = Cardinality(Users) + 1
    BY <1>2, FS_AddElement
  <2>3. opened \cup {d} # opened
    BY <1>2
  <2>4. Counted'
    BY <1>2, <1>3, <1>5, <2>1, <2>2, <2>3 DEF Accounts, Counted
  <2>5. ClosedIsNoUser'
    BY <1>1, <2>1 DEF Accounts, ClosedIsNoUser
  <2>6. OpenedForToken'
    BY <1>1, <1>3, <1>5 DEF Accounts, OpenedForToken, TypeOK
  <2>7. SessionsUsed'
    BY <1>1, <1>3, <1>5 DEF Accounts, SessionsUsed, TypeOK
  <2>8. SessionsOwned'
    <3> SUFFICES ASSUME NEW r \in Sessions, session'[r] # None
                 PROVE  \E e \in Descramblers : mDsmFd'[e] = r
      BY DEF SessionsOwned
    <3>1. CASE r = s
      BY <1>5, <3>1 DEF TypeOK
    <3>2. CASE r # s
      <4>1. session[r] # None
        BY <1>5, <3>2 DEF TypeOK
      <4>2. PICK e \in Descramblers : mDsmFd[e] = r
        BY <4>1 DEF Accounts, SessionsOwned
      <4>3. e # d
        BY <1>1, <4>2, NoneAssumption
      <4> QED BY <1>5, <4>2, <4>3 DEF TypeOK
    <3> QED BY <3>1, <3>2
  <2>9. ChannelsGone'
    BY <1>1, <1>3, <1>5 DEF Accounts, ChannelsGone
  <2> QED BY <2>4, <2>5, <2>6, <2>7, <2>8, <2>9 DEF Accounts
<1> QED BY <1>4, <1>5, FirstToken

\* A session that its descrambler closes is nobody's.
LEMMA SessionClosed ==
    ASSUME TypeOK, SessionsOwned, NEW d \in Descramblers, mDsmFd' = [mDsmFd EXCEPT ![d] = None],
           \A s \in Sessions : session'[s] = IF s = mDsmFd[d] THEN None ELSE session[s]
    PROVE  SessionsOwned'
<1> SUFFICES ASSUME NEW s \in Sessions, session'[s] # None
             PROVE  \E e \in Descramblers : mDsmFd'[e] = s
  BY DEF SessionsOwned
<1>1. s # mDsmFd[d] /\ session[s] # None
  OBVIOUS
<1>2. PICK e \in Descramblers : mDsmFd[e] = s
  BY <1>1 DEF SessionsOwned
<1> QED BY <1>1, <1>2 DEF TypeOK

\* close gives back the session and closes the device, whether it was opened or not.
LEMMA CloseLiveAccounts ==
    ASSUME TypeOK, Accounts, NEW d \in Descramblers, closeLive(d)
    PROVE  Accounts'
<1> DEFINE table == Freed(ChannelsOf(d, mAddedPid[d]))
<1>1. /\ session' = [s \in Sessions |-> IF s = mDsmFd[d] THEN None ELSE session[s]]
      /\ mDsmFd' = [mDsmFd EXCEPT ![d] = None]
      /\ IF mDemuxSet[d] THEN ca_close(table) ELSE driver' = table /\ UNCHANGED useCount
      /\ mDemuxSet' = [mDemuxSet EXCEPT ![d] = FALSE]
      /\ phase' = [phase EXCEPT ![d] = "joining"]
      /\ UNCHANGED <<mKeyToken, live, opened>>
  BY DEF closeLive
<1>2. Users' = Users \ {d}
  BY <1>1 DEF Users, TypeOK
<1>3. IsFiniteSet(Users) /\ IsFiniteSet(Users')
  BY <1>2, UsersFinite, FS_Subset
<1>4. Counted' /\ ChannelsGone'
  <2>1. CASE mDemuxSet[d]
    BY <1>1, <1>2, <1>3, <2>1, DeviceClosed
  <2>2. CASE ~mDemuxSet[d]
    <3>1. Users' = Users
      BY <1>2, <2>2 DEF Users
    <3>2. \A h \in Channels : table[h] \in {None, driver[h]}
      BY DEF Freed
    <3> QED BY <1>1, <2>2, <3>1, <3>2 DEF Accounts, Counted, ChannelsGone
  <2> QED BY <2>1, <2>2
<1>5. ClosedIsNoUser'
  BY <1>1, <1>2 DEF Accounts, ClosedIsNoUser, TypeOK
<1>6. OpenedForToken' /\ SessionsUsed'
  BY <1>1 DEF Accounts, OpenedForToken, SessionsUsed, TypeOK
<1>7. SessionsOwned'
  BY <1>1, SessionClosed DEF Accounts
<1> QED BY <1>4, <1>5, <1>6, <1>7 DEF Accounts

\* A new object takes the place of one that had no session and was no user.
LEMMA FreshAccounts ==
    ASSUME TypeOK, Accounts, NEW d \in Descramblers, Fresh(d), phase[d] # "open",
           UNCHANGED <<useCount, session, driver>>,
           \A e \in Descramblers \ {d} : phase'[e] = phase[e]
    PROVE  Accounts'
<1>1. mDsmFd[d] = None /\ d \notin Users
  BY DEF Accounts, SessionsUsed, ClosedIsNoUser
<1>2. /\ mDemuxSet' = [mDemuxSet EXCEPT ![d] = FALSE] /\ opened' = opened \ {d}
      /\ mKeyToken' = [mKeyToken EXCEPT ![d] = None] /\ live' = [live EXCEPT ![d] = TRUE]
      /\ mDsmFd' = [mDsmFd EXCEPT ![d] = None]
  BY DEF Fresh
<1>3. Users' = Users
  BY <1>1, <1>2 DEF Users, TypeOK
<1>4. Counted' /\ ClosedIsNoUser' /\ ChannelsGone'
  BY <1>1, <1>3 DEF Accounts, Counted, ClosedIsNoUser, ChannelsGone
<1>5. OpenedForToken'
  BY <1>2 DEF Accounts, OpenedForToken, TypeOK
<1>6. mDsmFd' = mDsmFd
  BY <1>1, <1>2 DEF TypeOK
<1>7. SessionsUsed' /\ SessionsOwned'
  BY <1>1, <1>2, <1>6 DEF Accounts, SessionsUsed, SessionsOwned, TypeOK
<1> QED BY <1>4, <1>5, <1>7 DEF Accounts

\* Nobody is a user less when somebody else's list of slots closes the device.
LEMMA BadSlotAccounts ==
    ASSUME TypeOK, Accounts, NEW table, ca_close(table),
           UNCHANGED <<phase, mDemuxSet, mKeyToken, mDsmFd, live, opened, session>>
    PROVE  Accounts'
<1>1. Users' = Users /\ IsFiniteSet(Users)
  BY UsersFinite DEF Users
<1>2. Counted' /\ ChannelsGone'
  BY <1>1, DeviceClosed
<1>3. ClosedIsNoUser' /\ OpenedForToken' /\ SessionsUsed' /\ SessionsOwned'
  BY <1>1 DEF Accounts, ClosedIsNoUser, OpenedForToken, SessionsUsed, SessionsOwned
<1> QED BY <1>2, <1>3 DEF Accounts

\* Every step but a second token keeps the accounts.
LEMMA AccountsKept ==
    TypeOK /\ TokenFirst /\ Accounts /\ [Next]_vars /\ "retoken" \notin events' => Accounts'
<1> SUFFICES ASSUME TypeOK, TokenFirst, Accounts, [Next]_vars, "retoken" \notin events'
             PROVE  Accounts'
  OBVIOUS
<1>f. ASSUME UNCHANGED accountVars PROVE Accounts'
  BY <1>f, AccountsFrame
\* Channels are allocated by an open device.
<1>p. \A P, T : \A place \in Places(P, T) : useCount > 0
  BY DEF Places
<1>1. ASSUME NEW d \in Descramblers, openDescrambler(d) \/ join(d) PROVE Accounts'
  <2>1. /\ Fresh(d) /\ phase[d] # "open" /\ UNCHANGED <<useCount, session, driver>>
        /\ \A e \in Descramblers \ {d} : phase'[e] = phase[e]
    BY <1>1 DEF openDescrambler, join, TypeOK
  <2> QED BY <2>1, FreshAccounts
<1>2. ASSUME NEW d \in Descramblers, setDemuxSource(d) PROVE Accounts'
  <2>1. /\ phase[d] = "open" /\ mDemuxSet' = [mDemuxSet EXCEPT ![d] = TRUE]
        /\ UNCHANGED <<phase, mKeyToken, mDsmFd, live, useCount, opened, session, driver>>
    BY <1>2 DEF setDemuxSource, device
  <2>2. Users \subseteq Users' /\ Users' \subseteq Users \cup {d} /\ IsFiniteSet(Users)
    BY <2>1, UsersFinite DEF Users, TypeOK
  <2>3. IsFiniteSet(Users') /\ Cardinality(Users) <= Cardinality(Users') /\ Cardinality(Users') \in Nat
    BY <2>2, FS_AddElement, FS_Subset, FS_CardinalityType
  <2>4. Counted'
    BY <2>1, <2>3, UsersFinite, BoundsAssumption DEF Accounts, Counted, TypeOK
  <2>5. ClosedIsNoUser'
    BY <2>1, <2>2 DEF Accounts, ClosedIsNoUser
  <2> QED BY <2>1, <2>4, <2>5 DEF Accounts, OpenedForToken, SessionsUsed, SessionsOwned, ChannelsGone
<1>3. ASSUME NEW d \in Descramblers, closeDsmSession(d) PROVE Accounts'
  <2>1. /\ mDsmFd' = [mDsmFd EXCEPT ![d] = None] /\ session' = [session EXCEPT ![mDsmFd[d]] = None]
        /\ UNCHANGED <<phase, mDemuxSet, mKeyToken, live, useCount, opened, driver>>
    BY <1>3 DEF closeDsmSession, device
  <2>2. \A s \in Sessions : session'[s] = IF s = mDsmFd[d] THEN None ELSE session[s]
    BY <2>1 DEF TypeOK
  <2>3. SessionsOwned'
    BY <2>1, <2>2, SessionClosed DEF Accounts
  <2>4. SessionsUsed'
    BY <2>1 DEF Accounts, SessionsUsed, TypeOK
  <2> QED BY <2>1, <2>3, <2>4 DEF Accounts, Counted, Users, ClosedIsNoUser, OpenedForToken, ChannelsGone
<1>4. ASSUME NEW d \in Descramblers, closeLive(d) PROVE Accounts'
  BY <1>4, CloseLiveAccounts
<1>5. ASSUME NEW d \in Descramblers, closeNotLive(d) PROVE Accounts'
  <2>1. /\ ~live[d] /\ phase' = [phase EXCEPT ![d] = "closed"]
        /\ UNCHANGED <<mDemuxSet, mKeyToken, mDsmFd, live, useCount, opened, session, driver>>
    BY <1>5 DEF closeNotLive, device
  <2>2. d \notin Users /\ mDsmFd[d] = None
    BY <2>1 DEF Accounts, OpenedForToken, Users, SessionsUsed
  <2> QED BY <2>1, <2>2 DEF Accounts, Counted, ClosedIsNoUser, OpenedForToken, SessionsUsed,
                            SessionsOwned, ChannelsGone, Users, TypeOK
<1>6. ASSUME NEW d \in Descramblers, NEW token \in Tokens, setKeyToken(d, token) PROVE Accounts'
  BY <1>6, SetKeyTokenAccounts
<1>7. ASSUME NEW d \in Descramblers, NEW p \in Pids, addPid(d, p) PROVE Accounts'
  <2>1. UNCHANGED <<phase, mDemuxSet, mKeyToken, mDsmFd, live, opened, session>>
    BY <1>7 DEF addPid
  <2>2. CASE BadSlot(d, p)
    BY <2>1, <2>2, BadSlotAccounts DEF BadSlot
  <2>3. CASE useCount' = useCount /\ (useCount > 0 \/ driver' = driver)
    BY <2>1, <2>3, ChannelsAccount
  <2>4. BadSlot(d, p) \/ (useCount' = useCount /\ (useCount > 0 \/ driver' = driver))
    BY <1>7, <1>p DEF addPid, Allocate, KeyFails
  <2> QED BY <2>2, <2>3, <2>4
<1>8. ASSUME NEW d \in Descramblers, NEW p \in Pids, removePid(d, p) PROVE Accounts'
  <2>1. UNCHANGED <<phase, mDemuxSet, mKeyToken, mDsmFd, live, useCount, opened, session>>
    BY <1>8 DEF removePid
  <2>2. \A h \in Channels : driver'[h] \in {None, driver[h]}
    BY <1>8 DEF removePid, Freed
  <2> QED BY <2>1, <2>2, ChannelsAccount
<1>9. ASSUME NEW d \in Descramblers, check(d) \/ nothingToProbe(d) PROVE Accounts'
  BY <1>9, <1>f DEF check, nothingToProbe, device, accountVars
<1>10. ASSUME NEW d \in Descramblers, keysReady(d) PROVE Accounts'
  <2>1. UNCHANGED <<phase, mDemuxSet, mKeyToken, mDsmFd, live, useCount, opened, session>>
    BY <1>10 DEF keysReady
  <2>2. useCount > 0
    BY <1>10, <1>p DEF keysReady, Allocate
  <2> QED BY <2>1, <2>2, ChannelsAccount
<1>11. ASSUME NEW d \in Descramblers, notReady(d) PROVE Accounts'
  <2>1. UNCHANGED <<phase, mDemuxSet, mKeyToken, mDsmFd, live, opened, session>>
    BY <1>11 DEF notReady
  <2>2. CASE ca_close(driver)
    BY <2>1, <2>2, BadSlotAccounts
  <2>3. CASE useCount' = useCount /\ (useCount > 0 \/ driver' = driver)
    BY <2>1, <2>3, ChannelsAccount
  <2>4. ca_close(driver) \/ (useCount' = useCount /\ (useCount > 0 \/ driver' = driver))
    BY <1>11, <1>p DEF notReady
  <2> QED BY <2>2, <2>3, <2>4
<1>12. CASE UNCHANGED vars
  BY <1>12, <1>f DEF vars, object, device, accountVars
<1> QED BY <1>1, <1>2, <1>3, <1>4, <1>5, <1>6, <1>7, <1>8, <1>9, <1>10, <1>11, <1>12
        DEF Next, Call, caSetKey

\* What has happened stays recorded.
LEMMA NothingForgotten == TypeOK /\ [Next]_vars => events \subseteq events'
<1> SUFFICES ASSUME TypeOK, [Next]_vars
             PROVE  events \subseteq events'
  OBVIOUS
<1>1. ASSUME NEW d \in Descramblers, NEW token \in Tokens, setKeyToken(d, token)
      PROVE  events \subseteq events'
  BY <1>1, SetKeyTokenDoes
<1>2. ASSUME NEW d \in Descramblers,
             \/ openDescrambler(d) \/ setDemuxSource(d) \/ closeDsmSession(d) \/ closeLive(d)
             \/ closeNotLive(d) \/ join(d) \/ caSetKey(d)
             \/ \E p \in Pids : addPid(d, p) \/ removePid(d, p)
      PROVE  events \subseteq events'
  BY <1>2 DEF openDescrambler, setDemuxSource, closeDsmSession, closeLive, closeNotLive, join,
              caSetKey, check, keysReady, notReady, nothingToProbe, addPid, KeyFails, BadSlot,
              removePid, Record
<1> QED BY <1>1, <1>2 DEF Next, Call, vars

\* As long as no second token was set, closed descramblers leave no channel, session or
\* user of the device behind, whatever else failed: each was some open descrambler's.
THEOREM AllGivenBack == Spec => []NothingLeftBehind
<1> DEFINE Inv == "retoken" \notin events => Accounts
<1>1. Init => Inv
  <2> SUFFICES ASSUME Init PROVE Accounts
    OBVIOUS
  <2>1. Users = {} /\ useCount = 0
    BY DEF Init, Users
  <2>2. Counted /\ ClosedIsNoUser
    BY <2>1, FS_EmptySet DEF Counted, ClosedIsNoUser
  <2> QED BY <2>2 DEF Init, Accounts, OpenedForToken, SessionsUsed, SessionsOwned, ChannelsGone
<1>2. TypeOK /\ TokenFirst /\ Inv /\ [Next]_vars => Inv'
  <2> SUFFICES ASSUME TypeOK, TokenFirst, Inv, [Next]_vars, "retoken" \notin events'
               PROVE  Accounts'
    OBVIOUS
  <2>1. "retoken" \notin events
    BY NothingForgotten
  <2> QED BY <2>1, AccountsKept
<1>3. TypeOK /\ Inv => NothingLeftBehind
  <2> SUFFICES ASSUME TypeOK, Accounts, \A d \in Descramblers : phase[d] = "closed"
               PROVE  /\ useCount = 0
                      /\ \A s \in Sessions : session[s] = None
                      /\ \A h \in Channels : driver[h] = None
    BY DEF NothingLeftBehind
  <2>1. Users = {}
    BY DEF Accounts, ClosedIsNoUser, Users, TypeOK
  <2>2. useCount = 0
    BY <2>1, FS_EmptySet, BoundsAssumption DEF Accounts, Counted, TypeOK
  <2>3. \A d \in Descramblers : mDsmFd[d] = None
    BY DEF Accounts, SessionsUsed
  <2>4. ASSUME NEW s \in Sessions, session[s] # None PROVE FALSE
    <3>1. PICK d \in Descramblers : mDsmFd[d] = s
      BY <2>4 DEF Accounts, SessionsOwned
    <3> QED BY <2>3, <3>1, NoneAssumption
  <2> QED BY <2>2, <2>4 DEF Accounts, ChannelsGone
<1> QED BY <1>1, <1>2, <1>3, KeysInvariant, PTL DEF Spec
=============================================================================
