------------------------ MODULE RecordStreams_proof ------------------------
(***************************************************************************)
(* Proofs about RecordStreams, for every number of pids, tokens and slots  *)
(* and every combination of events: type correctness, that a slot's        *)
(* channels are its pid's, that tokens are the bound one, that a record    *)
(* filter's index finds its slot, that scrambled streams of encrypted      *)
(* recordings are taken from the secure demux, and what a closed session   *)
(* gives back, failure by failure.                                         *)
(***************************************************************************)
EXTENDS RecordStreams, FiniteSetTheorems, WellFoundedInduction, TLAPS

Streams ==
    [pid : Pids \cup {None}, fd : {"clear", "secure", None}, running : BOOLEAN, started : BOOLEAN,
     key_token : Tokens \cup {None}, flags : SUBSET Usages, chans : [Usages -> Pids \cup {None}]]

\* A secure session has a DSM session, and that is counted.
SessionCounted == (is_secure_mode => dsm_sess) /\ (dsm_sess => dsmSessions >= 1)

\* A pid has one slot.
UniquePids == \A i, j \in Slots : stream[i].pid = stream[j].pid /\ stream[i].pid # None => i = j

\* What uses a token has been bound to one.
BoundWhenUsed ==
    events \cap {"bindFailed", "otherToken"} = {} =>
        (is_secure_mode \/ ca_flags # {} => bound # None)

\* Filters and slots of a session agree.
SlotsAgree ==
    events \cap {"createFailed", "staleFilter"} = {} =>
        /\ \A i \in Slots : stream[i].fd = None => stream[i].started = FALSE
        /\ \A p \in current : recFilerId[p] \in Slots
        /\ \A i \in Slots : stream[i].fd # None => stream[i].pid # None
        /\ state # "closed" =>
              \A i \in Slots :
                 /\ stream[i].fd # None => stream[i].pid \in current
                 /\ stream[i].pid # None /\ stream[i].key_token = None => stream[i].fd # None

\* In an open session, scrambled pids have a token.  Only slots with a pid have one, also in
\* a closed session, and the filters of streams with a token are on the secure demux.
TokensAgree ==
    events \cap {"prepareFailed", "createFailed", "closedScrambled", "staleFilter"} = {} =>
        /\ state # "closed" =>
              \A p \in scrambled : \E i \in Slots : stream[i].pid = p /\ stream[i].key_token # None
        /\ \A i \in Slots : stream[i].key_token # None =>
              stream[i].pid # None /\ (encrypt_pvr => stream[i].fd \in {"secure", None})

-----------------------------------------------------------------------------
LEMMA Finite ==
    /\ IsFiniteSet(Slots) /\ IsFiniteSet(Usages)
    /\ \A S \in SUBSET Slots : IsFiniteSet(S) /\ Cardinality(S) \in Nat
    /\ \A S \in SUBSET (Slots \X Usages) : IsFiniteSet(S) /\ Cardinality(S) \in Nat
<1>1. IsFiniteSet(Slots)
      BY FS_Interval, BoundsAssumption DEF Slots
<1>2. IsFiniteSet(Usages)
  <2>1. IsFiniteSet({"enc"})
        BY FS_EmptySet, FS_AddElement
  <2>2. IsFiniteSet({"enc"} \cup {"des"})
        BY <2>1, FS_AddElement
  <2> QED
        BY <2>2 DEF Usages
<1>3. IsFiniteSet(Slots \X Usages)
      BY <1>1, <1>2, FS_Product
<1> QED
    BY <1>1, <1>2, <1>3, FS_Subset, FS_CardinalityType

-----------------------------------------------------------------------------
(* Preparing channels.                                                     *)

Asked == SUBSET (Slots \X Usages)
Fates == [Slots -> [Usages -> Later..Done]]

LEMMA Stages ==
    Later = -1 /\ Nothing = 0 /\ Opened = 1 /\ Allocated = 2 /\ Stored = 3 /\ Keyed = 4 /\ Done = 5
BY DEF Later, Nothing, Opened, Allocated, Stored, Keyed, Done

LEMMA AskingTyped ==
    ASSUME NEW S \in SUBSET Slots, NEW U \in SUBSET Usages
    PROVE  Asking(S, U) \in Asked
BY DEF Asking, Asked

LEMMA WantedTyped == Wanted \in SUBSET Usages
BY DEF Wanted, Usages

\* Only who asks may fail, at a stage before the last.
LEMMA FailureTyped ==
    ASSUME NEW A \in Asked, NEW f \in Failures(A)
    PROVE  DOMAIN f \in SUBSET A /\ \A x \in DOMAIN f : f[x] \in Later..Done
<1>1. PICK F \in SUBSET A : f \in [F -> Nothing..Keyed]
      BY DEF Failures, Few
<1>2. DOMAIN f = F /\ \A x \in F : f[x] \in Nothing..Keyed
      BY <1>1
<1> QED
    BY <1>2, Stages

LEMMA Fated ==
    ASSUME NEW A \in Asked, NEW f \in Failures(A)
    PROVE  Fate(A, f) \in Fates
<1>1. ASSUME NEW i \in Slots, NEW u \in Usages
      PROVE  (IF <<i, u>> \in DOMAIN f THEN f[<<i, u>>] ELSE IF <<i, u>> \in A THEN Usual(u) ELSE Later)
                \in Later..Done
  <2>1. Usual(u) \in Later..Done /\ Later \in Later..Done
        BY Stages DEF Usual
  <2> QED
      BY <2>1, FailureTyped
<1> QED
    BY <1>1 DEF Fate, Fates

LEMMA InTurnFated ==
    ASSUME NEW fate \in Fates
    PROVE  InTurn(fate) \in Fates
<1>1. ASSUME NEW i \in Slots
      PROVE  (IF fate[i]["des"] \in {Later, Done} THEN fate[i] ELSE [fate[i] EXCEPT !["enc"] = Nothing])
                \in [Usages -> Later..Done]
  <2>1. fate[i] \in [Usages -> Later..Done] /\ Nothing \in Later..Done
        BY Stages DEF Fates
  <2> QED
      BY <2>1
<1> QED
    BY <1>1 DEF InTurn, Fates

\* Where nothing fails, who asks gets as far as usual.
LEMMA NoFailure ==
    ASSUME NEW A \in Asked, NEW f, DOMAIN f = {}
    PROVE  /\ \A i \in Slots, u \in Usages :
                 Fate(A, f)[i][u] = IF <<i, u>> \in A THEN Usual(u) ELSE Later
           /\ InTurn(Fate(A, f)) = Fate(A, f)
<1>1. Fate(A, f) = [i \in Slots |-> [u \in Usages |-> IF <<i, u>> \in A THEN Usual(u) ELSE Later]]
      BY DEF Fate
<1>2. ASSUME NEW i \in Slots PROVE Fate(A, f)[i]["des"] \in {Later, Done}
      BY <1>1 DEF Usual, Usages
<1>3. InTurn(Fate(A, f)) = [i \in Slots |-> Fate(A, f)[i]]
      BY <1>2 DEF InTurn
<1>4. [i \in Slots |-> Fate(A, f)[i]] = Fate(A, f)
      BY <1>1
<1>5. \A i \in Slots, u \in Usages : Fate(A, f)[i][u] = IF <<i, u>> \in A THEN Usual(u) ELSE Later
      BY <1>1
<1> QED
    BY <1>3, <1>4, <1>5

\* Preparing channels gives streams nothing but channels for their own pid.
LEMMA Preparing ==
    ASSUME TypeOK, NEW s \in [Slots -> Streams], NEW fate \in Fates, ca_prepare(s, fate)
    PROVE  /\ stream' \in [Slots -> Streams]
           /\ \A i \in Slots :
                 /\ stream'[i].pid = s[i].pid /\ stream'[i].fd = s[i].fd
                 /\ stream'[i].running = s[i].running /\ stream'[i].started = s[i].started
                 /\ stream'[i].key_token = s[i].key_token
                 /\ \A u \in Usages : stream'[i].chans[u] \in {s[i].chans[u], s[i].pid}
           /\ ca_flags' \in SUBSET Usages /\ ca_flags \subseteq ca_flags'
           /\ useCount' \in [Demuxes -> 0..MaxUse] /\ channels' \in [Demuxes -> Int]
<1> DEFINE Opens(u) == {i \in Slots :
               fate[i][u] >= Opened /\ u \notin ca_flags /\ \A j \in Slots : fate[j][u] = Done => j >= i}
           Allocs(u) == {i \in Slots : fate[i][u] >= Allocated /\ s[i].chans[u] = None}
           Uses(d) == {u \in Usages : DeviceOf(u) = d}
           NewUsers(d) == UNION {Opens(u) : u \in Uses(d)}
           NewChannels(d) == UNION {Allocs(u) : u \in Uses(d)}
           keyed(i) == {u \in Usages : fate[i][u] >= Keyed}
<1>1. stream' = [i \in Slots |->
          [s[i] EXCEPT !.flags = @ \cup keyed(i),
                       !.chans = [u \in Usages |->
                           IF fate[i][u] >= Stored /\ @[u] = None THEN s[i].pid ELSE @[u]]]]
      BY DEF ca_prepare
<1>2. ASSUME NEW i \in Slots
      PROVE  /\ stream'[i] \in Streams
             /\ stream'[i].pid = s[i].pid /\ stream'[i].fd = s[i].fd
             /\ stream'[i].running = s[i].running /\ stream'[i].started = s[i].started
             /\ stream'[i].key_token = s[i].key_token
             /\ \A u \in Usages : stream'[i].chans[u] \in {s[i].chans[u], s[i].pid}
  <2> DEFINE chans == [u \in Usages |->
                 IF fate[i][u] >= Stored /\ s[i].chans[u] = None THEN s[i].pid ELSE s[i].chans[u]]
  <2>1. s[i] \in Streams
        OBVIOUS
  <2>2. keyed(i) \in SUBSET Usages
        OBVIOUS
  <2>3. stream'[i] = [s[i] EXCEPT !.flags = s[i].flags \cup keyed(i), !.chans = chans]
        BY <1>1
  <2> HIDE DEF keyed
  <2>4. chans \in [Usages -> Pids \cup {None}] /\ \A u \in Usages : chans[u] \in {s[i].chans[u], s[i].pid}
        BY <2>1 DEF Streams
  <2> HIDE DEF chans
  <2>5. /\ stream'[i].flags = s[i].flags \cup keyed(i) /\ stream'[i].chans = chans
        /\ stream'[i].pid = s[i].pid /\ stream'[i].fd = s[i].fd
        /\ stream'[i].running = s[i].running /\ stream'[i].started = s[i].started
        /\ stream'[i].key_token = s[i].key_token
        /\ stream'[i] = [pid |-> stream'[i].pid, fd |-> stream'[i].fd, running |-> stream'[i].running,
                         started |-> stream'[i].started, key_token |-> stream'[i].key_token,
                         flags |-> stream'[i].flags, chans |-> stream'[i].chans]
        BY <2>1, <2>3 DEF Streams
  <2>6. stream'[i].flags \in SUBSET Usages
        BY <2>1, <2>2, <2>5 DEF Streams
  <2> QED
        BY <2>1, <2>4, <2>5, <2>6 DEF Streams
<1>3. stream' \in [Slots -> Streams]
  <2>1. stream' = [i \in Slots |-> stream'[i]]
        BY <1>1
  <2> QED
        BY <1>2, <2>1
<1>4. ca_flags' \in SUBSET Usages /\ ca_flags \subseteq ca_flags'
      BY DEF ca_prepare, TypeOK
<1>5. ASSUME NEW d \in Demuxes
      PROVE  Cardinality(NewUsers(d)) \in Nat /\ Cardinality(NewChannels(d)) \in Nat
  <2>1. NewUsers(d) \in SUBSET Slots /\ NewChannels(d) \in SUBSET Slots
        OBVIOUS
  <2> QED
      BY <2>1, Finite
<1>6. /\ useCount' = [d \in Demuxes |-> useCount[d] + Cardinality(NewUsers(d))]
      /\ channels' = [d \in Demuxes |-> channels[d] + Cardinality(NewChannels(d))]
      /\ \A d \in Demuxes : useCount'[d] <= MaxUse
      BY DEF ca_prepare
<1> HIDE DEF NewUsers, NewChannels
<1>7. useCount' \in [Demuxes -> 0..MaxUse]
  <2>1. ASSUME NEW d \in Demuxes PROVE useCount'[d] \in 0..MaxUse
    <3>1. useCount[d] \in Nat
          BY BoundsAssumption DEF TypeOK
    <3>2. useCount'[d] = useCount[d] + Cardinality(NewUsers(d))
          BY <1>6
    <3>3. useCount'[d] \in Nat
          BY <1>5, <3>1, <3>2
    <3> QED
        BY <1>6, <3>3, BoundsAssumption
  <2> QED
        BY <1>6, <2>1
<1>8. channels' \in [Demuxes -> Int]
  <2>1. \A d \in Demuxes : channels[d] + Cardinality(NewChannels(d)) \in Int
        BY <1>5 DEF TypeOK
  <2> QED
        BY <1>6, <2>1
<1> QED
    BY <1>2, <1>3, <1>4, <1>7, <1>8

\* Nothing that has happened is forgotten, and events are typed.
LEMMA Recorded ==
    ASSUME NEW e \in SUBSET Events, events \in SUBSET Events, Record(e)
    PROVE  events \subseteq events' /\ e \subseteq events' /\ events' \in SUBSET Events
BY DEF Record

LEMMA HeldEvents ==
    /\ Late \in SUBSET Events
    /\ \A p \in Pids : Stale(p) \in SUBSET Events
    /\ \A token \in Tokens : Other(token) \in SUBSET Events
    /\ \A c \in BOOLEAN : If(c, "createFailed") \in SUBSET Events
    /\ \A c \in BOOLEAN : If(c, "startFailed") \in SUBSET Events
    /\ \A c \in BOOLEAN : If(c, "caFailed") \in SUBSET Events
    /\ \A c \in BOOLEAN : If(c, "otherToken") \in SUBSET Events
    /\ \A c \in BOOLEAN : If(c, "closedScrambled") \in SUBSET Events
    /\ {"releaseFailed"} \in SUBSET Events
BY DEF Late, Stale, Other, If, Events

\* Failures are counted and recorded.
LEMMA FailDoes ==
    ASSUME TypeOK, NEW A \in Asked, NEW f \in Failures(A), NEW e \in SUBSET Events, Fail(f, e)
    PROVE  /\ events \subseteq events' /\ e \subseteq events' /\ events' \in SUBSET Events
           /\ failures' \in Nat
           /\ "caFailed" \notin events' => DOMAIN f = {}
<1> DEFINE failed == If(DOMAIN f # {}, "caFailed")
<1>1. e \cup failed \in SUBSET Events
      BY HeldEvents
<1>2. Record(e \cup failed)
      BY DEF Fail
<1>3. events \subseteq events' /\ e \cup failed \subseteq events' /\ events' \in SUBSET Events
      BY <1>1, <1>2, Recorded DEF TypeOK
<1>4. failures' \in Nat
  <2>1. DOMAIN f \in SUBSET (Slots \X Usages)
        BY FailureTyped DEF Asked
  <2>2. Cardinality(DOMAIN f) \in Nat
        BY <2>1, Finite
  <2> QED
      BY <2>2 DEF Fail, TypeOK
<1> QED
    BY <1>3, <1>4 DEF If

-----------------------------------------------------------------------------
(* What the actions do to the slots.                                       *)

LEMMA OneSlotTyped ==
    ASSUME stream \in [Slots -> Streams], NEW i \in Slots, NEW s \in Streams,
           stream' = [stream EXCEPT ![i] = s]
    PROVE  stream' \in [Slots -> Streams]
OBVIOUS

LEMMA FilterOpenedTyped ==
    ASSUME NEW s \in Streams, NEW p \in Pids, NEW fd \in {"clear", "secure", None}
    PROVE  [s EXCEPT !.fd = fd, !.running = FALSE, !.pid = p] \in Streams
BY DEF Streams

LEMMA FilterRunTyped ==
    ASSUME NEW s \in Streams, NEW b \in BOOLEAN
    PROVE  [s EXCEPT !.running = b, !.started = b] \in Streams
BY DEF Streams

LEMMA ClearedTyped == \A s \in Streams : Cleared(s) \in Streams
BY DEF Streams, Cleared

LEMMA TokenTyped ==
    ASSUME NEW s \in Streams, NEW token \in Tokens
    PROVE  [s EXCEPT !.key_token = token] \in Streams
BY DEF Streams

LEMMA PidTyped ==
    ASSUME NEW s \in Streams, NEW p \in Pids, NEW token \in Tokens
    PROVE  [s EXCEPT !.pid = p, !.key_token = token] \in Streams
BY DEF Streams

\* But for its channels and usages, a slot is what it was.
Kept(j) ==
    /\ stream'[j].pid = stream[j].pid /\ stream'[j].fd = stream[j].fd
    /\ stream'[j].running = stream[j].running /\ stream'[j].started = stream[j].started
    /\ stream'[j].key_token = stream[j].key_token

\* A slot gets no channel but for its pid.
OwnChannelsAdded(j) == \A u \in Usages : stream'[j].chans[u] \in {stream[j].chans[u], stream'[j].pid}

\* A session is opened, or the one there is is used.
SessionTyped == is_secure_mode' \in BOOLEAN /\ dsm_sess' \in BOOLEAN /\ dsmSessions' \in 0..MaxSessions

LEMMA SessionOpened ==
    ASSUME TypeOK, SessionCounted,
           OpenSession \/ UNCHANGED <<dsm_sess, dsmSessions, is_secure_mode>>
    PROVE  SessionTyped /\ SessionCounted'
<1>1. CASE UNCHANGED <<dsm_sess, dsmSessions, is_secure_mode>>
      BY <1>1 DEF TypeOK, SessionCounted, SessionTyped
<1>2. CASE OpenSession
  <2>1. dsmSessions \in 0..MaxSessions /\ dsmSessions' <= MaxSessions
        BY <1>2 DEF TypeOK, OpenSession
  <2>2. dsmSessions' \in 0..MaxSessions /\ dsmSessions' >= 1
    <3>1. CASE dsm_sess
          BY <1>2, <2>1, <3>1 DEF OpenSession, SessionCounted
    <3>2. CASE ~dsm_sess
      <4>1. dsmSessions' = dsmSessions + 1
            BY <1>2, <3>2 DEF OpenSession
      <4> QED
            BY <2>1, <4>1, BoundsAssumption
    <3> QED
        BY <3>1, <3>2
  <2> QED
      BY <1>2, <2>2 DEF TypeOK, OpenSession, SessionTyped, SessionCounted
<1> QED
    BY <1>1, <1>2

LEMMA ClearToScrambledDoes ==
    ASSUME TypeOK, SessionCounted, NEW p \in Pids, NEW token \in Tokens, ClearToScrambled(p, token)
    PROVE  \E i \in SlotOf(p), created \in BOOLEAN, runs \in BOOLEAN :
             /\ stream' \in [Slots -> Streams]
             /\ stream[i].key_token = None
             /\ encrypt_pvr \/ created
             /\ \A j \in Slots : OwnChannelsAdded(j)
             /\ \A j \in Slots \ {i} : Kept(j)
             /\ stream'[i].pid = p
             /\ stream'[i].started = stream[i].started
             /\ IF encrypt_pvr
                THEN /\ stream'[i].fd = IF created THEN "secure" ELSE None
                     /\ stream'[i].running = (created /\ runs /\ stream[i].started)
                ELSE stream'[i].fd = stream[i].fd /\ stream'[i].running = stream[i].running
             /\ \/ stream'[i].key_token = token /\ scrambled' = scrambled \cup {p}
                \/ stream'[i].key_token = None /\ scrambled' = scrambled
             /\ events \subseteq events' /\ events' \in SUBSET Events /\ failures' \in Nat
             /\ Late \cup Other(token) \cup If(~created, "createFailed") \cup If(~runs, "startFailed")
                  \subseteq events'
             /\ SessionTyped /\ SessionCounted'
             /\ ca_flags' \in SUBSET Usages /\ ca_flags \subseteq ca_flags'
             /\ useCount' \in [Demuxes -> 0..MaxUse] /\ channels' \in [Demuxes -> Int]
             /\ bound' = IF is_secure_mode THEN bound ELSE token
<1>1. PICK i \in SlotOf(p), created \in BOOLEAN, runs \in BOOLEAN :
        /\ stream[i].key_token = None
        /\ encrypt_pvr \/ created
        /\ ~runs => encrypt_pvr /\ created /\ stream[i].started
        /\ IF is_secure_mode THEN UNCHANGED <<dsm_sess, dsmSessions, is_secure_mode>> ELSE OpenSession
        /\ BindUnless(is_secure_mode, token)
        /\ \E f \in Failures(Asking({i}, Wanted)) :
           LET fate == InTurn(Fate(Asking({i}, Wanted), f))
               s == IF encrypt_pvr THEN Moved(stream[i], created, runs) ELSE stream[i]
               ok == Prepared(fate, i) IN
           /\ Fail(f, Late \cup Other(token) \cup If(~created, "createFailed") \cup If(~runs, "startFailed"))
           /\ ca_prepare([stream EXCEPT ![i] = [s EXCEPT !.key_token = IF ok THEN token ELSE None]], fate)
           /\ Told(p, ok)
      BY DEF ClearToScrambled
<1>0. PICK f \in Failures(Asking({i}, Wanted)) :
        LET fate == InTurn(Fate(Asking({i}, Wanted), f))
            s == IF encrypt_pvr THEN Moved(stream[i], created, runs) ELSE stream[i]
            ok == Prepared(fate, i) IN
        /\ Fail(f, Late \cup Other(token) \cup If(~created, "createFailed") \cup If(~runs, "startFailed"))
        /\ ca_prepare([stream EXCEPT ![i] = [s EXCEPT !.key_token = IF ok THEN token ELSE None]], fate)
        /\ Told(p, ok)
      BY <1>1
<1> DEFINE fate == InTurn(Fate(Asking({i}, Wanted), f))
           s == IF encrypt_pvr THEN Moved(stream[i], created, runs) ELSE stream[i]
           ok == Prepared(fate, i)
           t == [stream EXCEPT ![i] = [s EXCEPT !.key_token = IF ok THEN token ELSE None]]
           e == Late \cup Other(token) \cup If(~created, "createFailed") \cup If(~runs, "startFailed")
<1>2. stream \in [Slots -> Streams] /\ i \in Slots /\ stream[i] \in Streams /\ stream[i].pid = p
      BY DEF TypeOK, Streams, SlotOf
<1>3. /\ s \in Streams /\ s.pid = p /\ s.started = stream[i].started /\ s.chans = stream[i].chans
      /\ IF encrypt_pvr
         THEN /\ s.fd = IF created THEN "secure" ELSE None
              /\ s.running = (created /\ runs /\ stream[i].started)
         ELSE s.fd = stream[i].fd /\ s.running = stream[i].running
      BY <1>2 DEF Streams, Moved
<1>4. ca_prepare(t, fate) /\ Told(p, ok) /\ Fail(f, e)
      BY <1>0
<1>a. Asking({i}, Wanted) \in Asked
      BY <1>2, AskingTyped, WantedTyped
<1>6. fate \in Fates
      BY <1>a, Fated, InTurnFated
<1>12. /\ events \subseteq events' /\ events' \in SUBSET Events /\ failures' \in Nat
       /\ e \subseteq events'
  <2>1. e \in SUBSET Events
        BY HeldEvents
  <2> HIDE DEF e
  <2> QED
        BY <1>4, <1>a, <2>1, FailDoes
<1> HIDE DEF s, ok, fate
<1>5. /\ t \in [Slots -> Streams] /\ \A j \in Slots \ {i} : t[j] = stream[j]
      /\ t[i].pid = s.pid /\ t[i].fd = s.fd /\ t[i].running = s.running /\ t[i].started = s.started
      /\ t[i].chans = s.chans /\ t[i].key_token = IF ok THEN token ELSE None
      BY <1>2, <1>3 DEF Streams
<1> HIDE DEF t
<1>7. /\ stream' \in [Slots -> Streams]
      /\ \A j \in Slots :
            /\ stream'[j].pid = t[j].pid /\ stream'[j].fd = t[j].fd
            /\ stream'[j].running = t[j].running /\ stream'[j].started = t[j].started
            /\ stream'[j].key_token = t[j].key_token
            /\ \A u \in Usages : stream'[j].chans[u] \in {t[j].chans[u], t[j].pid}
      /\ ca_flags' \in SUBSET Usages /\ ca_flags \subseteq ca_flags'
      /\ useCount' \in [Demuxes -> 0..MaxUse] /\ channels' \in [Demuxes -> Int]
      BY <1>4, <1>5, <1>6, Preparing
<1>8. \A j \in Slots \ {i} : Kept(j)
      BY <1>5, <1>7 DEF Kept
<1>9. \A j \in Slots : OwnChannelsAdded(j)
      BY <1>3, <1>5, <1>7 DEF OwnChannelsAdded
<1>10. \/ stream'[i].key_token = token /\ scrambled' = scrambled \cup {p}
       \/ stream'[i].key_token = None /\ scrambled' = scrambled
       BY <1>2, <1>4, <1>5, <1>7 DEF Told
<1>11. SessionTyped /\ SessionCounted'
       BY <1>1, SessionOpened
<1>13. bound' = IF is_secure_mode THEN bound ELSE token
       BY <1>1 DEF BindUnless
<1>14. IF encrypt_pvr
       THEN /\ stream'[i].fd = IF created THEN "secure" ELSE None
            /\ stream'[i].running = (created /\ runs /\ stream[i].started)
       ELSE stream'[i].fd = stream[i].fd /\ stream'[i].running = stream[i].running
       BY <1>2, <1>3, <1>5, <1>7
<1>15. stream'[i].pid = p /\ stream'[i].started = stream[i].started
       BY <1>2, <1>3, <1>5, <1>7
<1> QED
    BY <1>1, <1>7, <1>8, <1>9, <1>10, <1>11, <1>12, <1>13, <1>14, <1>15

LEMMA NewPidDoes ==
    ASSUME TypeOK, SessionCounted, NEW p \in Pids, NEW token \in Tokens, NewPid(p, token)
    PROVE  \E i \in FirstFree :
             /\ stream' \in [Slots -> Streams] /\ i \in Slots
             /\ \A j \in Slots : OwnChannelsAdded(j)
             /\ \A j \in Slots \ {i} : Kept(j)
             /\ stream[i].pid = None /\ stream'[i].pid = p
             /\ stream'[i].started = stream[i].started /\ stream'[i].running = stream[i].running
             /\ stream'[i].fd = stream[i].fd /\ stream'[i].key_token = token
             /\ scrambled' \in {scrambled, scrambled \cup {p}}
             /\ events \subseteq events' /\ events' \in SUBSET Events /\ failures' \in Nat
             /\ Late \cup Other(token) \subseteq events'
             /\ SessionTyped /\ SessionCounted'
             /\ ca_flags' \in SUBSET Usages /\ ca_flags \subseteq ca_flags'
             /\ useCount' \in [Demuxes -> 0..MaxUse] /\ channels' \in [Demuxes -> Int]
             /\ bound' = IF ca_flags # {} THEN bound ELSE token
<1>1. PICK i \in FirstFree :
        \E f \in Failures(Asking({i}, Wanted)) :
           LET fate == InTurn(Fate(Asking({i}, Wanted), f)) IN
           /\ Fail(f, Late \cup Other(token))
           /\ ca_prepare([stream EXCEPT ![i] = [stream[i] EXCEPT !.pid = p, !.key_token = token]], fate)
           /\ Told(p, Prepared(fate, i))
      BY DEF NewPid
<1>0. PICK f \in Failures(Asking({i}, Wanted)) :
        LET fate == InTurn(Fate(Asking({i}, Wanted), f)) IN
        /\ Fail(f, Late \cup Other(token))
        /\ ca_prepare([stream EXCEPT ![i] = [stream[i] EXCEPT !.pid = p, !.key_token = token]], fate)
        /\ Told(p, Prepared(fate, i))
      BY <1>1
<1> DEFINE t == [stream EXCEPT ![i] = [stream[i] EXCEPT !.pid = p, !.key_token = token]]
           fate == InTurn(Fate(Asking({i}, Wanted), f))
<1>2. stream \in [Slots -> Streams] /\ i \in Slots /\ stream[i] \in Streams /\ stream[i].pid = None
      BY DEF TypeOK, Streams, SlotOf, FirstFree
<1>3. /\ t \in [Slots -> Streams] /\ \A j \in Slots \ {i} : t[j] = stream[j]
      /\ t[i].pid = p /\ t[i].fd = stream[i].fd /\ t[i].running = stream[i].running
      /\ t[i].started = stream[i].started /\ t[i].chans = stream[i].chans /\ t[i].key_token = token
      BY <1>2 DEF Streams
<1>4. ca_prepare(t, fate) /\ Told(p, Prepared(fate, i)) /\ Fail(f, Late \cup Other(token))
      BY <1>0
<1>a. Asking({i}, Wanted) \in Asked
      BY <1>2, AskingTyped, WantedTyped
<1>5. fate \in Fates
      BY <1>a, Fated, InTurnFated
<1>10. /\ events \subseteq events' /\ events' \in SUBSET Events /\ failures' \in Nat
       /\ Late \cup Other(token) \subseteq events'
  <2>1. Late \cup Other(token) \in SUBSET Events
        BY HeldEvents
  <2> QED
        BY <1>4, <1>a, <2>1, FailDoes
<1> HIDE DEF t, fate
<1>6. /\ stream' \in [Slots -> Streams]
      /\ \A j \in Slots :
            /\ stream'[j].pid = t[j].pid /\ stream'[j].fd = t[j].fd
            /\ stream'[j].running = t[j].running /\ stream'[j].started = t[j].started
            /\ stream'[j].key_token = t[j].key_token
            /\ \A u \in Usages : stream'[j].chans[u] \in {t[j].chans[u], t[j].pid}
      /\ ca_flags' \in SUBSET Usages /\ ca_flags \subseteq ca_flags'
      /\ useCount' \in [Demuxes -> 0..MaxUse] /\ channels' \in [Demuxes -> Int]
      BY <1>3, <1>4, <1>5, Preparing
<1>7. \A j \in Slots \ {i} : Kept(j)
      BY <1>3, <1>6 DEF Kept
<1>8. \A j \in Slots : OwnChannelsAdded(j)
      BY <1>3, <1>6 DEF OwnChannelsAdded
<1>9. SessionTyped /\ SessionCounted'
      BY SessionOpened DEF NewPid
<1>11. scrambled' \in {scrambled, scrambled \cup {p}}
       BY <1>4 DEF Told
<1>12. bound' = IF ca_flags # {} THEN bound ELSE token
       BY DEF NewPid, BindUnless
<1> QED
    BY <1>2, <1>3, <1>6, <1>7, <1>8, <1>9, <1>10, <1>11, <1>12

\* The record thread adds channels only.
LEMMA ReadDoes ==
    ASSUME TypeOK, dvr_record_read
    PROVE  /\ stream' \in [Slots -> Streams]
           /\ \A j \in Slots : OwnChannelsAdded(j) /\ Kept(j)
           /\ ca_flags' \in SUBSET Usages /\ ca_flags \subseteq ca_flags'
           /\ useCount' \in [Demuxes -> 0..MaxUse] /\ channels' \in [Demuxes -> Int]
           /\ events \subseteq events' /\ events' \in SUBSET Events /\ failures' \in Nat
<1> DEFINE A == Asking(Scrambled, Usages)
<1>1. stream \in [Slots -> Streams]
      BY DEF TypeOK, Streams
<1>2. A \in Asked
      BY AskingTyped DEF Scrambled
<1>3. PICK f \in Failures(A) : Fail(f, {}) /\ ca_prepare(stream, Fate(A, f))
      BY DEF dvr_record_read
<1> HIDE DEF A
<1>4. Fate(A, f) \in Fates
      BY <1>2, Fated
<1>5. /\ stream' \in [Slots -> Streams]
      /\ \A i \in Slots :
            /\ stream'[i].pid = stream[i].pid /\ stream'[i].fd = stream[i].fd
            /\ stream'[i].running = stream[i].running /\ stream'[i].started = stream[i].started
            /\ stream'[i].key_token = stream[i].key_token
            /\ \A u \in Usages : stream'[i].chans[u] \in {stream[i].chans[u], stream[i].pid}
      /\ ca_flags' \in SUBSET Usages /\ ca_flags \subseteq ca_flags'
      /\ useCount' \in [Demuxes -> 0..MaxUse] /\ channels' \in [Demuxes -> Int]
      BY <1>1, <1>3, <1>4, Preparing
<1>6. events \subseteq events' /\ events' \in SUBSET Events /\ failures' \in Nat
      BY <1>2, <1>3, FailDoes
<1> QED
    BY <1>5, <1>6 DEF Kept, OwnChannelsAdded

\* A record filter is opened in its pid's slot or a free one.
LEMMA OpenFilterDoes ==
    ASSUME TypeOK, NEW p \in Pids, dvr_record_open_filter(p)
    PROVE  \E i \in Slots :
             /\ i \in SlotOf(p) \/ (SlotOf(p) = {} /\ stream[i].pid = None)
             /\ \A j \in Slots : OwnChannelsAdded(j)
             /\ \A j \in Slots \ {i} : Kept(j)
             /\ stream'[i].pid = p /\ stream'[i].running = FALSE
             /\ stream'[i].started = stream[i].started /\ stream'[i].key_token = stream[i].key_token
             /\ stream'[i].fd = IF SlotOf(p) # {} /\ stream[i].key_token # None /\ encrypt_pvr
                               THEN "secure" ELSE "clear"
             /\ recFilerId' = [recFilerId EXCEPT ![p] = i]
<1>1. PICK i \in IF SlotOf(p) # {} THEN SlotOf(p) ELSE FirstFree :
        /\ stream' = [stream EXCEPT
              ![i].fd = IF SlotOf(p) # {} /\ stream[i].key_token # None /\ encrypt_pvr
                        THEN "secure" ELSE "clear",
              ![i].running = FALSE, ![i].pid = p]
        /\ recFilerId' = [recFilerId EXCEPT ![p] = i]
      BY DEF dvr_record_open_filter
<1> DEFINE fd == IF SlotOf(p) # {} /\ stream[i].key_token # None /\ encrypt_pvr THEN "secure" ELSE "clear"
<1>2. i \in Slots /\ (i \in SlotOf(p) \/ (SlotOf(p) = {} /\ stream[i].pid = None))
  <2>1. \A k \in FirstFree : k \in Slots /\ stream[k].pid = None
    <3>1. \A k \in SlotOf(None) : k \in Slots /\ stream[k].pid = None
          BY DEF SlotOf
    <3> QED
        BY <3>1 DEF FirstFree
  <2>2. \A k \in SlotOf(p) : k \in Slots
        BY DEF SlotOf
  <2>3. CASE SlotOf(p) # {}
        BY <1>1, <2>2, <2>3
  <2>4. CASE SlotOf(p) = {}
        BY <1>1, <2>1, <2>4
  <2> QED
      BY <2>3, <2>4
<1>3. stream \in [Slots -> Streams] /\ stream[i] \in Streams
      BY <1>2 DEF TypeOK, Streams
<1>4. stream' = [stream EXCEPT ![i] = [stream[i] EXCEPT !.fd = fd, !.running = FALSE, !.pid = p]]
      BY <1>1
<1> HIDE DEF fd
<1>5. /\ stream'[i] = [stream[i] EXCEPT !.fd = fd, !.running = FALSE, !.pid = p]
      /\ \A j \in Slots \ {i} : stream'[j] = stream[j]
      BY <1>2, <1>3, <1>4
<1>6. /\ stream'[i].pid = p /\ stream'[i].running = FALSE
      /\ stream'[i].started = stream[i].started /\ stream'[i].key_token = stream[i].key_token
      /\ stream'[i].chans = stream[i].chans /\ stream'[i].fd = fd
      BY <1>3, <1>5 DEF Streams
<1>7. \A j \in Slots : OwnChannelsAdded(j)
      BY <1>5, <1>6 DEF OwnChannelsAdded
<1> QED
    BY <1>1, <1>2, <1>5, <1>6, <1>7 DEF Kept, fd

\* Starting and stopping a filter writes to the slot of its index only.
LEMMA RunFilterDoes ==
    ASSUME TypeOK, NEW p \in Pids, NEW b \in BOOLEAN,
           \/ dvr_record_start_filter(p) /\ b = TRUE
           \/ dvr_record_stop_filter(p) /\ b = FALSE
    PROVE  /\ recFilerId[p] \in Slots /\ stream[recFilerId[p]].fd # None
           /\ \A j \in Slots : OwnChannelsAdded(j)
           /\ \A j \in Slots \ {recFilerId[p]} : Kept(j)
           /\ stream'[recFilerId[p]].pid = stream[recFilerId[p]].pid
           /\ stream'[recFilerId[p]].fd = stream[recFilerId[p]].fd
           /\ stream'[recFilerId[p]].key_token = stream[recFilerId[p]].key_token
           /\ stream'[recFilerId[p]].running = b /\ stream'[recFilerId[p]].started = b
           /\ events \subseteq events' /\ Stale(p) \subseteq events'
<1> DEFINE i == recFilerId[p]
<1>1. i \in Slots /\ stream[i].fd # None
      BY DEF TypeOK, dvr_record_start_filter, dvr_record_stop_filter
<1>2. stream \in [Slots -> Streams]
      BY DEF TypeOK, Streams
<1>3. stream' = [stream EXCEPT ![i].running = b, ![i].started = b]
      BY DEF dvr_record_start_filter, dvr_record_stop_filter
<1> HIDE DEF i
<1>4. \A j \in Slots \ {i} : stream'[j] = stream[j]
      BY <1>2, <1>3
<1>5. /\ stream'[i].pid = stream[i].pid /\ stream'[i].fd = stream[i].fd
      /\ stream'[i].key_token = stream[i].key_token /\ stream'[i].chans = stream[i].chans
      /\ stream'[i].running = b /\ stream'[i].started = b
      BY <1>1, <1>2, <1>3 DEF Streams
<1>6. events \subseteq events' /\ Stale(p) \subseteq events'
      BY Recorded, HeldEvents DEF TypeOK, dvr_record_start_filter, dvr_record_stop_filter
<1>7. \A j \in Slots : OwnChannelsAdded(j)
      BY <1>4, <1>5 DEF OwnChannelsAdded
<1> QED
    BY <1>1, <1>4, <1>5, <1>6, <1>7 DEF Kept, i

\* Closing a filter clears the slot of its index, unless that has no filter.
LEMMA CloseFilterDoes ==
    ASSUME TypeOK, NEW p \in Pids, dvr_record_close_filter(p)
    PROVE  /\ recFilerId[p] \in Slots /\ events \subseteq events'
           /\ \A j \in Slots \ {recFilerId[p]} : stream'[j] = stream[j]
           /\ \/ /\ stream[recFilerId[p]].fd = None
                 /\ stream' = stream
              \/ /\ stream[recFilerId[p]].fd # None
                 /\ stream'[recFilerId[p]].pid = None /\ stream'[recFilerId[p]].fd = None
                 /\ stream'[recFilerId[p]].started = FALSE /\ stream'[recFilerId[p]].running = FALSE
                 /\ stream'[recFilerId[p]].key_token = stream[recFilerId[p]].key_token
                 /\ stream'[recFilerId[p]].chans = stream[recFilerId[p]].chans
                 /\ p \notin current => "staleFilter" \in events'
                 /\ p \in current
                    /\ (stream[recFilerId[p]].key_token # None
                        \/ stream[recFilerId[p]].chans # NoChannels) => "closedScrambled" \in events'
<1> DEFINE i == recFilerId[p]
<1>1. i \in Slots
      BY DEF TypeOK, dvr_record_close_filter
<1>2. stream \in [Slots -> Streams] /\ stream[i] \in Streams
      BY <1>1 DEF TypeOK, Streams
<1>3. CASE stream[i].fd = None
      BY <1>1, <1>3 DEF dvr_record_close_filter
<1>4. CASE stream[i].fd # None
  <2> DEFINE e == IF p \in current
                  THEN If(stream[i].key_token # None \/ stream[i].chans # NoChannels, "closedScrambled")
                  ELSE {"staleFilter"}
  <2>1. stream' = [stream EXCEPT ![i] = Cleared(@)] /\ Record(e)
        BY <1>4 DEF dvr_record_close_filter
  <2>2. e \in SUBSET Events
        BY HeldEvents DEF Events
  <2>3. events \subseteq events' /\ e \subseteq events'
        BY <2>1, <2>2, Recorded DEF TypeOK
  <2>4. /\ p \notin current => "staleFilter" \in events'
        /\ p \in current /\ (stream[i].key_token # None \/ stream[i].chans # NoChannels)
              => "closedScrambled" \in events'
        BY <2>3 DEF If
  <2> HIDE DEF i, e
  <2>5. stream'[i] = Cleared(stream[i]) /\ \A j \in Slots \ {i} : stream'[j] = stream[j]
        BY <1>1, <1>2, <2>1
  <2>6. /\ stream'[i].pid = None /\ stream'[i].fd = None
        /\ stream'[i].started = FALSE /\ stream'[i].running = FALSE
        /\ stream'[i].key_token = stream[i].key_token /\ stream'[i].chans = stream[i].chans
        BY <1>2, <2>5 DEF Cleared, Streams
  <2> QED
      BY <1>1, <1>4, <2>3, <2>4, <2>5, <2>6 DEF i
<1> QED
    BY <1>3, <1>4

\* A token that cannot be bound goes to no slot, or to a free one with its pid.
LEMMA BindFailsDoes ==
    ASSUME TypeOK, NEW p \in Pids, NEW token \in Tokens, BindFails(p, token)
    PROVE  /\ events \subseteq events' /\ {"bindFailed"} \cup Late \subseteq events'
           /\ \A j \in Slots : OwnChannelsAdded(j)
           /\ \/ stream' = stream
              \/ \E i \in Slots :
                    /\ SlotOf(p) = {} /\ stream[i].pid = None
                    /\ \A j \in Slots \ {i} : Kept(j)
                    /\ stream'[i].pid = p /\ stream'[i].key_token = token
                    /\ stream'[i].fd = stream[i].fd /\ stream'[i].started = stream[i].started
                    /\ stream'[i].running = stream[i].running
<1>1. stream \in [Slots -> Streams]
      BY DEF TypeOK, Streams
<1>2. events \subseteq events' /\ {"bindFailed"} \cup Late \subseteq events'
  <2>1. {"bindFailed"} \cup Late \in SUBSET Events
        BY HeldEvents DEF Events
  <2> QED
      BY <2>1, Recorded DEF TypeOK, BindFails
<1>3. CASE stream' = stream
      BY <1>2, <1>3 DEF OwnChannelsAdded
<1>4. ASSUME NEW i \in FirstFree, SlotOf(p) = {},
             stream' = [stream EXCEPT ![i].pid = p, ![i].key_token = token]
      PROVE  /\ \A j \in Slots : OwnChannelsAdded(j)
             /\ i \in Slots /\ stream[i].pid = None
             /\ \A j \in Slots \ {i} : Kept(j)
             /\ stream'[i].pid = p /\ stream'[i].key_token = token
             /\ stream'[i].fd = stream[i].fd /\ stream'[i].started = stream[i].started
             /\ stream'[i].running = stream[i].running
  <2>1. i \in Slots /\ stream[i].pid = None
        BY DEF FirstFree, SlotOf
  <2>2. \A j \in Slots \ {i} : stream'[j] = stream[j]
        BY <1>1, <1>4
  <2>3. /\ stream'[i].pid = p /\ stream'[i].key_token = token
        /\ stream'[i].fd = stream[i].fd /\ stream'[i].started = stream[i].started
        /\ stream'[i].running = stream[i].running /\ stream'[i].chans = stream[i].chans
        BY <1>1, <1>4, <2>1 DEF Streams
  <2> QED
      BY <2>1, <2>2, <2>3 DEF Kept, OwnChannelsAdded
<1> QED
    BY <1>2, <1>3, <1>4 DEF BindFails

\* A token for a stream that has one changes nothing else.
LEMMA ScrambledAgainDoes ==
    ASSUME TypeOK, NEW p \in Pids, NEW token \in Tokens, ScrambledAgain(p, token)
    PROVE  \E i \in SlotOf(p) :
             /\ stream[i].key_token # None
             /\ \A j \in Slots : OwnChannelsAdded(j)
             /\ \A j \in Slots \ {i} : Kept(j)
             /\ stream'[i].pid = stream[i].pid /\ stream'[i].fd = stream[i].fd
             /\ stream'[i].started = stream[i].started /\ stream'[i].running = stream[i].running
             /\ stream'[i].key_token = token
             /\ events \subseteq events'
             /\ Late \cup If(stream[i].key_token # token, "otherToken") \subseteq events'
<1>1. PICK i \in SlotOf(p) :
        /\ stream[i].key_token # None
        /\ stream' = [stream EXCEPT ![i].key_token = token]
        /\ Record(Late \cup If(stream[i].key_token # token, "otherToken"))
      BY DEF ScrambledAgain
<1>2. stream \in [Slots -> Streams] /\ i \in Slots
      BY DEF TypeOK, Streams, SlotOf
<1>3. \A j \in Slots \ {i} : stream'[j] = stream[j]
      BY <1>1, <1>2
<1>4. /\ stream'[i].pid = stream[i].pid /\ stream'[i].fd = stream[i].fd
      /\ stream'[i].started = stream[i].started /\ stream'[i].running = stream[i].running
      /\ stream'[i].key_token = token /\ stream'[i].chans = stream[i].chans
      BY <1>1, <1>2 DEF Streams
<1>5. /\ events \subseteq events'
      /\ Late \cup If(stream[i].key_token # token, "otherToken") \subseteq events'
  <2>1. Late \cup If(stream[i].key_token # token, "otherToken") \in SUBSET Events
        BY HeldEvents
  <2> QED
      BY <1>1, <2>1, Recorded DEF TypeOK
<1>6. \A j \in Slots : OwnChannelsAdded(j)
      BY <1>3, <1>4 DEF OwnChannelsAdded
<1> QED
    BY <1>1, <1>3, <1>4, <1>5, <1>6 DEF Kept

\* Closing the session takes tokens and channels, and leaves the rest of each slot.
LEMMA CloseDoes ==
    ASSUME TypeOK, dvr_record_close
    PROVE  /\ \A j \in Slots :
                 /\ stream'[j].pid = stream[j].pid /\ stream'[j].fd = stream[j].fd
                 /\ stream'[j].running = stream[j].running /\ stream'[j].started = stream[j].started
                 /\ stream'[j].key_token = None
                 /\ OwnChannelsAdded(j) \/ stream'[j].chans = NoChannels
           /\ events \subseteq events' /\ events' \in SUBSET Events
<1>1. stream \in [Slots -> Streams]
      BY DEF TypeOK, Streams
<1>2. ASSUME NEW j \in Slots, j \in Scrambled
      PROVE  /\ stream'[j].pid = stream[j].pid /\ stream'[j].fd = stream[j].fd
             /\ stream'[j].running = stream[j].running /\ stream'[j].started = stream[j].started
             /\ stream'[j].key_token = None /\ stream'[j].chans = NoChannels
  <2>1. stream'[j] = [stream[j] EXCEPT !.key_token = None, !.chans = NoChannels]
        BY <1>2 DEF dvr_record_close
  <2>2. stream[j] \in Streams
        BY <1>1
  <2> QED
      BY <2>1, <2>2 DEF Streams
<1>3. ASSUME NEW j \in Slots, j \notin Scrambled
      PROVE  stream'[j] = stream[j] /\ stream[j].key_token = None
      BY <1>3 DEF dvr_record_close, Scrambled
<1>4. events \subseteq events' /\ events' \in SUBSET Events
      BY Recorded, HeldEvents DEF dvr_record_close, TypeOK
<1> QED
    BY <1>2, <1>3, <1>4 DEF OwnChannelsAdded

\* The streams are untouched by the other actions.
Elsewhere ==
    \/ dvr_record_start \/ dvr_record_stop \/ setRecordHandle \/ \E u \in Usages : SlotReady(u)
    \/ \E p \in Pids : PrepareFails(p)
    \/ UNCHANGED vars

LEMMA ElsewhereDoes ==
    TypeOK /\ Elsewhere =>
        stream' = stream /\ events \subseteq events' /\ ca_flags' = ca_flags /\ bound' = bound
        /\ is_secure_mode' = is_secure_mode /\ current' = current /\ recFilerId' = recFilerId
        /\ encrypt_pvr' = encrypt_pvr /\ (state' = "closed" <=> state = "closed")
        /\ (scrambled' # scrambled => "prepareFailed" \in events')
<1> SUFFICES ASSUME TypeOK, Elsewhere
             PROVE  stream' = stream /\ events \subseteq events' /\ ca_flags' = ca_flags /\ bound' = bound
                    /\ is_secure_mode' = is_secure_mode /\ current' = current /\ recFilerId' = recFilerId
                    /\ encrypt_pvr' = encrypt_pvr /\ (state' = "closed" <=> state = "closed")
                    /\ (scrambled' # scrambled => "prepareFailed" \in events')
    OBVIOUS
<1>1. ASSUME NEW p \in Pids, PrepareFails(p)
      PROVE  events \subseteq events' /\ "prepareFailed" \in events'
      BY <1>1 DEF PrepareFails, Record
<1> QED
    BY <1>1 DEF Elsewhere, dvr_record_start, dvr_record_stop, setRecordHandle, SlotReady, PrepareFails,
                vars, dsm, ca, clients

-----------------------------------------------------------------------------

\* Every step keeps the types and the count of sessions.
LEMMA TypesKept == TypeOK /\ SessionCounted /\ [Next]_vars => TypeOK' /\ SessionCounted'
<1> SUFFICES ASSUME TypeOK, SessionCounted, [Next]_vars PROVE TypeOK' /\ SessionCounted'
    OBVIOUS
<1> USE DEF TypeOK
<1>a. stream \in [Slots -> Streams] /\ \A i \in Slots : stream[i] \in Streams
      BY DEF Streams
<1>b. stream' \in [Slots -> Streams] <=>
        stream' \in [Slots -> [pid : Pids \cup {None}, fd : {"clear", "secure", None}, running : BOOLEAN,
                              started : BOOLEAN, key_token : Tokens \cup {None}, flags : SUBSET Usages,
                              chans : [Usages -> Pids \cup {None}]]]
      BY DEF Streams
<1>1. CASE dvr_record_open
  <2>1. Free \in Streams
        BY DEF Free, Streams, NoChannels
  <2>2. stream' \in [Slots -> Streams]
        BY <1>1, <2>1 DEF dvr_record_open
  <2> QED
      BY <1>1, <1>b, <2>2 DEF dvr_record_open, SessionCounted
<1>2. CASE dvr_record_start
      BY <1>2 DEF dvr_record_start, dsm, ca, clients, SessionCounted
<1>3. CASE dvr_record_stop
      BY <1>3 DEF dvr_record_stop, dsm, ca, clients, SessionCounted
<1>4. CASE dvr_record_close
  <2>1. stream' \in [Slots -> Streams]
    <3>1. ASSUME NEW i \in Slots
          PROVE  [stream[i] EXCEPT !.key_token = None, !.chans = NoChannels] \in Streams
          BY <1>a DEF Streams, NoChannels
    <3> QED
        BY <1>4, <1>a, <3>1 DEF dvr_record_close
  <2>2. useCount' \in [Demuxes -> 0..MaxUse]
    <3>1. ASSUME NEW d \in Demuxes
          PROVE  (IF Closes(d) /\ useCount[d] > 0 THEN useCount[d] - 1 ELSE useCount[d]) \in 0..MaxUse
          BY BoundsAssumption
    <3> QED
        BY <1>4, <3>1 DEF dvr_record_close
  <2>3. channels' \in [Demuxes -> Int]
    <3>1. ASSUME NEW d \in Demuxes PROVE Cardinality(Released(d)) \in Nat
      <4>1. Released(d) \in SUBSET (Slots \X Usages)
            BY DEF Released, Scrambled
      <4> QED
          BY <4>1, Finite
    <3>2. \A d \in Demuxes : channels[d] - Cardinality(Released(d)) \in Int
          BY <3>1
    <3>3. channels' = [d \in Demuxes |->
              IF useCount'[d] = 0 THEN 0 ELSE channels[d] - Cardinality(Released(d))]
          BY <1>4 DEF dvr_record_close
    <3> QED
        BY <3>2, <3>3
  <2>4. dsm_sess' \in BOOLEAN /\ bound' \in Tokens \cup {None} /\ ready' \in SUBSET Usages
        /\ dsmSessions' \in 0..MaxSessions /\ SessionCounted'
    <3>1. CASE is_secure_mode /\ ~is_secure_mode'
      <4>1. dsmSessions >= 1 /\ dsmSessions' = dsmSessions - 1
            BY <1>4, <3>1 DEF dvr_record_close, SessionCounted
      <4>2. dsmSessions' \in 0..MaxSessions
            BY <4>1, BoundsAssumption
      <4> QED
          BY <1>4, <3>1, <4>2 DEF dvr_record_close, SessionCounted
    <3>2. CASE UNCHANGED <<is_secure_mode, dsm>>
          BY <3>2 DEF SessionCounted, dsm
    <3> QED
        BY <1>4, <3>1, <3>2 DEF dvr_record_close
  <2>5. /\ state' \in {"closed", "opened", "started"} /\ is_secure_mode' \in BOOLEAN
        /\ ca_flags' \in SUBSET Usages /\ encrypt_pvr' = encrypt_pvr /\ mRecordhandle' = mRecordhandle
        /\ recFilerId' = recFilerId /\ current' = current /\ scrambled' = scrambled
        /\ failures' = failures
        BY <1>4 DEF dvr_record_close, clients
  <2>6. events' \in SUBSET Events
        BY <1>4, CloseDoes
  <2> QED
      BY <1>b, <2>1, <2>2, <2>3, <2>4, <2>5, <2>6
<1>5. CASE setRecordHandle
      BY <1>5 DEF setRecordHandle, dsm, ca, clients, SessionCounted
<1>6. CASE dvr_record_read
      BY <1>6, <1>b, ReadDoes DEF dvr_record_read, dsm, clients, SessionCounted
<1>7. ASSUME NEW u \in Usages, SlotReady(u) PROVE TypeOK' /\ SessionCounted'
      BY <1>7 DEF SlotReady, ca, clients, SessionCounted
<1>8. ASSUME NEW p \in Pids, dvr_record_open_filter(p) PROVE TypeOK' /\ SessionCounted'
  <2>1. PICK i \in Slots :
          /\ stream' = [stream EXCEPT
               ![i].fd = IF SlotOf(p) # {} /\ stream[i].key_token # None /\ encrypt_pvr
                         THEN "secure" ELSE "clear",
               ![i].running = FALSE, ![i].pid = p]
          /\ recFilerId' = [recFilerId EXCEPT ![p] = i]
        BY <1>8 DEF dvr_record_open_filter, SlotOf, FirstFree
  <2> DEFINE fd == IF SlotOf(p) # {} /\ stream[i].key_token # None /\ encrypt_pvr THEN "secure" ELSE "clear"
  <2>2. stream' \in [Slots -> Streams]
    <3>1. fd \in {"clear", "secure", None}
          OBVIOUS
    <3>2. stream' = [stream EXCEPT ![i] = [stream[i] EXCEPT !.fd = fd, !.running = FALSE, !.pid = p]]
          BY <2>1
    <3> HIDE DEF fd
    <3> QED
      <4>1. [stream[i] EXCEPT !.fd = fd, !.running = FALSE, !.pid = p] \in Streams
            BY <1>a, <3>1, FilterOpenedTyped
      <4> QED
          BY <1>a, <3>2, <4>1, OneSlotTyped
  <2> QED
      BY <1>8, <1>b, <2>1, <2>2 DEF dvr_record_open_filter, dsm, ca, SessionCounted
<1>9. ASSUME NEW p \in Pids, dvr_record_start_filter(p) PROVE TypeOK' /\ SessionCounted'
  <2>1. recFilerId[p] \in Slots
        BY <1>9 DEF dvr_record_start_filter
  <2>2. stream' = [stream EXCEPT ![recFilerId[p]] =
                       [stream[recFilerId[p]] EXCEPT !.running = TRUE, !.started = TRUE]]
        BY <1>9 DEF dvr_record_start_filter
  <2>4. stream' \in [Slots -> Streams]
    <3>1. [stream[recFilerId[p]] EXCEPT !.running = TRUE, !.started = TRUE] \in Streams
          BY <1>a, <2>1, FilterRunTyped
    <3> QED
        BY <1>a, <2>1, <2>2, <3>1, OneSlotTyped
  <2>3. events' \in SUBSET Events
        BY <1>9, Recorded, HeldEvents DEF dvr_record_start_filter
  <2> QED
      BY <1>9, <1>b, <2>3, <2>4 DEF dvr_record_start_filter, dsm, ca, clients, SessionCounted
<1>10. ASSUME NEW p \in Pids, dvr_record_stop_filter(p) PROVE TypeOK' /\ SessionCounted'
  <2>1. recFilerId[p] \in Slots
        BY <1>10 DEF dvr_record_stop_filter
  <2>2. stream' = [stream EXCEPT ![recFilerId[p]] =
                       [stream[recFilerId[p]] EXCEPT !.running = FALSE, !.started = FALSE]]
        BY <1>10 DEF dvr_record_stop_filter
  <2>4. stream' \in [Slots -> Streams]
    <3>1. [stream[recFilerId[p]] EXCEPT !.running = FALSE, !.started = FALSE] \in Streams
          BY <1>a, <2>1, FilterRunTyped
    <3> QED
        BY <1>a, <2>1, <2>2, <3>1, OneSlotTyped
  <2>3. events' \in SUBSET Events
        BY <1>10, Recorded, HeldEvents DEF dvr_record_stop_filter
  <2> QED
      BY <1>10, <1>b, <2>3, <2>4 DEF dvr_record_stop_filter, dsm, ca, clients, SessionCounted
<1>11. ASSUME NEW p \in Pids, dvr_record_close_filter(p) PROVE TypeOK' /\ SessionCounted'
  <2>1. recFilerId[p] \in Slots
        BY <1>11 DEF dvr_record_close_filter
  <2>2. stream' \in [Slots -> Streams] /\ events' \in SUBSET Events
    <3>1. CASE stream[recFilerId[p]].fd = None
          BY <1>11, <1>a, <3>1 DEF dvr_record_close_filter
    <3>2. CASE stream[recFilerId[p]].fd # None
      <4>1. stream' = [stream EXCEPT ![recFilerId[p]] = Cleared(@)]
            BY <1>11, <3>2 DEF dvr_record_close_filter
      <4>2. Cleared(stream[recFilerId[p]]) \in Streams
            BY <1>a, <2>1, ClearedTyped
      <4>3. events' \in SUBSET Events
            BY <1>11, <3>2, Recorded, HeldEvents DEF dvr_record_close_filter, Events, If
      <4> QED
          BY <1>a, <4>1, <4>2, <4>3
    <3> QED
        BY <3>1, <3>2
  <2> QED
      BY <1>11, <1>b, <2>2 DEF dvr_record_close_filter, dsm, ca, SessionCounted
<1>12. ASSUME NEW p \in Pids, PrepareFails(p) PROVE TypeOK' /\ SessionCounted'
  <2>1. events' \in SUBSET Events
        BY <1>12, Recorded, HeldEvents DEF PrepareFails, Events
  <2> QED
      BY <1>12, <2>1 DEF PrepareFails, dsm, ca, SessionCounted
<1>13. ASSUME NEW p \in Pids, NEW token \in Tokens, BindFails(p, token) PROVE TypeOK' /\ SessionCounted'
  <2>1. events' \in SUBSET Events
        BY <1>13, Recorded, HeldEvents DEF BindFails, Events
  <2>2. SessionTyped /\ SessionCounted'
        BY <1>13, SessionOpened DEF BindFails
  <2>3. stream' \in [Slots -> Streams]
    <3>1. CASE stream' = stream
          BY <1>a, <3>1
    <3>2. ASSUME NEW i \in FirstFree, stream' = [stream EXCEPT ![i].pid = p, ![i].key_token = token]
          PROVE  stream' \in [Slots -> Streams]
      <4>1. i \in Slots
            BY DEF FirstFree, SlotOf
      <4>2. stream' = [stream EXCEPT ![i] = [stream[i] EXCEPT !.pid = p, !.key_token = token]]
            BY <3>2
      <4> QED
          BY <1>a, <4>1, <4>2, OneSlotTyped, PidTyped
    <3> QED
        BY <1>13, <3>1, <3>2 DEF BindFails
  <2> QED
      BY <1>13, <1>b, <2>1, <2>2, <2>3 DEF BindFails, SessionTyped, ca, clients
<1>14. ASSUME NEW p \in Pids, NEW token \in Tokens, ClearToScrambled(p, token)
       PROVE  TypeOK' /\ SessionCounted'
  <2>1. /\ stream' \in [Slots -> Streams] /\ SessionTyped /\ SessionCounted'
        /\ events' \in SUBSET Events /\ failures' \in Nat /\ ca_flags' \in SUBSET Usages
        /\ useCount' \in [Demuxes -> 0..MaxUse] /\ channels' \in [Demuxes -> Int]
        /\ bound' \in Tokens \cup {None} /\ scrambled' \in SUBSET Pids
        BY <1>14, ClearToScrambledDoes
  <2> QED
      BY <1>14, <1>b, <2>1 DEF ClearToScrambled, SessionTyped
<1>15. ASSUME NEW p \in Pids, NEW token \in Tokens, ScrambledAgain(p, token)
       PROVE  TypeOK' /\ SessionCounted'
  <2>1. PICK i \in Slots :
          /\ stream' = [stream EXCEPT ![i].key_token = token]
          /\ Record(Late \cup If(stream[i].key_token # token, "otherToken"))
        BY <1>15 DEF ScrambledAgain, SlotOf
  <2>2. stream' \in [Slots -> Streams]
    <3>1. stream' = [stream EXCEPT ![i] = [stream[i] EXCEPT !.key_token = token]]
          BY <2>1
    <3> QED
        BY <1>a, <3>1, OneSlotTyped, TokenTyped
  <2>3. events' \in SUBSET Events
        BY <2>1, Recorded, HeldEvents
  <2> QED
      BY <1>15, <1>b, <2>2, <2>3 DEF ScrambledAgain, Told, dsm, ca, SessionCounted
<1>16. ASSUME NEW p \in Pids, NEW token \in Tokens, NewPid(p, token) PROVE TypeOK' /\ SessionCounted'
  <2>1. /\ stream' \in [Slots -> Streams] /\ SessionTyped /\ SessionCounted'
        /\ events' \in SUBSET Events /\ failures' \in Nat /\ ca_flags' \in SUBSET Usages
        /\ useCount' \in [Demuxes -> 0..MaxUse] /\ channels' \in [Demuxes -> Int]
        /\ bound' \in {bound, token} /\ scrambled' \in {scrambled, scrambled \cup {p}}
        BY <1>16, NewPidDoes
  <2> QED
      BY <1>16, <1>b, <2>1 DEF NewPid, SessionTyped
<1>17. CASE UNCHANGED vars
       BY <1>17 DEF vars, dsm, ca, clients, SessionCounted
<1> QED
    BY <1>1, <1>2, <1>3, <1>4, <1>5, <1>6, <1>7, <1>8, <1>9, <1>10, <1>11, <1>12, <1>13, <1>14,
       <1>15, <1>16, <1>17 DEF Next, Filter, dvr_record_set_key_token

\* Every variable keeps its type, through failed calls and calls in any order.
THEOREM Typing == Spec => [](TypeOK /\ SessionCounted)
<1>1. Init => TypeOK /\ SessionCounted
  <2>1. SUFFICES ASSUME Init PROVE TypeOK /\ SessionCounted
        OBVIOUS
  <2>2. Free \in Streams
        BY DEF Free, Streams, NoChannels
  <2>3. stream \in [Slots -> Streams]
        BY <2>1, <2>2 DEF Init
  <2>4. dsmSessions \in 0..MaxSessions /\ useCount \in [Demuxes -> 0..MaxUse] /\ failures \in Nat
        BY <2>1, BoundsAssumption DEF Init
  <2>5. SessionCounted /\ dsm_sess \in BOOLEAN /\ is_secure_mode \in BOOLEAN /\ mRecordhandle \in BOOLEAN
        BY <2>1 DEF Init, SessionCounted
  <2>6. channels \in [Demuxes -> Int] /\ recFilerId \in [Pids -> Slots \cup {None}]
        BY <2>1 DEF Init
  <2> QED
      BY <2>1, <2>3, <2>4, <2>5, <2>6 DEF Init, TypeOK, Streams
<1> QED
    BY <1>1, TypesKept, PTL DEF Spec
-----------------------------------------------------------------------------

\* The steps of Next by what is known of them.
LEMMA StepCases ==
    ASSUME [Next]_vars
    PROVE  \/ dvr_record_open \/ dvr_record_close \/ dvr_record_read \/ Elsewhere
           \/ \E p \in Pids : dvr_record_open_filter(p) \/ dvr_record_close_filter(p)
           \/ \E p \in Pids : dvr_record_start_filter(p) \/ dvr_record_stop_filter(p)
           \/ \E p \in Pids, token \in Tokens :
                 \/ BindFails(p, token) \/ ClearToScrambled(p, token)
                 \/ ScrambledAgain(p, token) \/ NewPid(p, token)
BY DEF Next, Filter, dvr_record_set_key_token, Elsewhere

\* A slot's channels stay its pid's.
LEMMA OwnChannelsKept == TypeOK /\ SessionCounted /\ OwnChannels /\ [Next]_vars => OwnChannels'
<1> SUFFICES ASSUME TypeOK, SessionCounted, OwnChannels, [Next]_vars,
                    events' \cap {"closedScrambled", "staleFilter"} = {},
                    NEW i \in Slots, NEW u \in Usages
             PROVE  stream'[i].chans[u] \in {None, stream'[i].pid}
    BY DEF OwnChannels
<1>s. stream \in [Slots -> Streams] /\ stream[i] \in Streams
      BY DEF TypeOK, Streams
\* It is enough that a slot with channels keeps its pid.
<1>k. ASSUME events \subseteq events', OwnChannelsAdded(i), stream[i].pid \in {None, stream'[i].pid}
      PROVE  stream'[i].chans[u] \in {None, stream'[i].pid}
  <2>1. stream[i].chans[u] \in {None, stream[i].pid}
        BY <1>k DEF OwnChannels
  <2> QED
      BY <1>k, <2>1 DEF OwnChannelsAdded
<1>1. CASE dvr_record_open
      BY <1>1 DEF dvr_record_open, Free, NoChannels
<1>2. CASE dvr_record_close
  <2>1. events \subseteq events'
        BY <1>2, CloseDoes
  <2>2. CASE stream'[i].chans = NoChannels
        BY <2>2 DEF NoChannels
  <2>3. CASE OwnChannelsAdded(i)
        BY <1>2, <1>k, <2>1, <2>3, CloseDoes
  <2> QED
      BY <1>2, <2>2, <2>3, CloseDoes
<1>3. CASE dvr_record_read
      BY <1>3, <1>k, ReadDoes DEF Kept
<1>4. CASE Elsewhere
      BY <1>4, <1>k, ElsewhereDoes DEF OwnChannelsAdded
<1>5. ASSUME NEW p \in Pids, dvr_record_open_filter(p)
      PROVE  stream'[i].chans[u] \in {None, stream'[i].pid}
  <2>1. events' = events
        BY <1>5 DEF dvr_record_open_filter
  <2>2. OwnChannelsAdded(i) /\ stream[i].pid \in {None, stream'[i].pid}
        BY <1>5, OpenFilterDoes DEF Kept, SlotOf
  <2> QED
      BY <1>k, <2>1, <2>2
<1>6. ASSUME NEW p \in Pids, dvr_record_close_filter(p)
      PROVE  stream'[i].chans[u] \in {None, stream'[i].pid}
  <2>1. events \subseteq events' /\ (stream'[i] = stream[i] \/ stream'[i].chans = NoChannels)
        BY <1>6, CloseFilterDoes
  <2>2. CASE stream'[i] = stream[i]
        BY <2>1, <2>2 DEF OwnChannels
  <2>3. CASE stream'[i].chans = NoChannels
        BY <2>3 DEF NoChannels
  <2> QED
      BY <2>1, <2>2, <2>3
<1>7. ASSUME NEW p \in Pids, dvr_record_start_filter(p) \/ dvr_record_stop_filter(p)
      PROVE  stream'[i].chans[u] \in {None, stream'[i].pid}
  <2>1. events \subseteq events' /\ OwnChannelsAdded(i) /\ stream'[i].pid = stream[i].pid
        BY <1>7, RunFilterDoes DEF Kept
  <2> QED
      BY <1>k, <2>1
<1>8. ASSUME NEW p \in Pids, NEW token \in Tokens, BindFails(p, token)
      PROVE  stream'[i].chans[u] \in {None, stream'[i].pid}
  <2>1. events \subseteq events' /\ OwnChannelsAdded(i) /\ stream[i].pid \in {None, stream'[i].pid}
        BY <1>8, BindFailsDoes DEF Kept
  <2> QED
      BY <1>k, <2>1
<1>9. ASSUME NEW p \in Pids, NEW token \in Tokens, ClearToScrambled(p, token)
      PROVE  stream'[i].chans[u] \in {None, stream'[i].pid}
  <2>1. events \subseteq events' /\ OwnChannelsAdded(i) /\ stream'[i].pid = stream[i].pid
        BY <1>9, ClearToScrambledDoes DEF Kept, SlotOf
  <2> QED
      BY <1>k, <2>1
<1>10. ASSUME NEW p \in Pids, NEW token \in Tokens, ScrambledAgain(p, token)
       PROVE  stream'[i].chans[u] \in {None, stream'[i].pid}
  <2>1. events \subseteq events' /\ OwnChannelsAdded(i) /\ stream'[i].pid = stream[i].pid
        BY <1>10, ScrambledAgainDoes DEF Kept, SlotOf
  <2> QED
      BY <1>k, <2>1
<1>11. ASSUME NEW p \in Pids, NEW token \in Tokens, NewPid(p, token)
       PROVE  stream'[i].chans[u] \in {None, stream'[i].pid}
  <2>1. events \subseteq events' /\ OwnChannelsAdded(i) /\ stream[i].pid \in {None, stream'[i].pid}
        BY <1>11, NewPidDoes DEF Kept
  <2> QED
      BY <1>k, <2>1
<1> QED
    BY <1>1, <1>2, <1>3, <1>4, <1>5, <1>6, <1>7, <1>8, <1>9, <1>10, <1>11, StepCases

\* A slot's channels are for the pid that is in it.
THEOREM Channels == Spec => []OwnChannels
<1>1. Init => OwnChannels
      BY DEF Init, OwnChannels, Free, NoChannels
<1> QED
    BY <1>1, OwnChannelsKept, Typing, PTL DEF Spec

\* Tokens stay the one that is bound.
LEMMA TokensKept ==
    TypeOK /\ SessionCounted /\ BoundWhenUsed /\ TokenBound /\ [Next]_vars => BoundWhenUsed' /\ TokenBound'
<1> SUFFICES ASSUME TypeOK, SessionCounted, BoundWhenUsed, TokenBound, [Next]_vars,
                    events' \cap {"bindFailed", "otherToken"} = {}
             PROVE  /\ is_secure_mode' \/ ca_flags' # {} => bound' # None
                    /\ \A i \in Slots : stream'[i].key_token \in {None, bound'}
    BY DEF BoundWhenUsed, TokenBound
<1> DEFINE Goal == /\ is_secure_mode' \/ ca_flags' # {} => bound' # None
                   /\ \A i \in Slots : stream'[i].key_token \in {None, bound'}
<1>h. ASSUME events \subseteq events'
      PROVE  /\ is_secure_mode \/ ca_flags # {} => bound # None
             /\ \A i \in Slots : stream[i].key_token \in {None, bound}
      BY <1>h DEF BoundWhenUsed, TokenBound
<1>n. \A token \in Tokens : token # None
      BY NoneAssumption
<1>1. CASE dvr_record_open
      BY <1>1 DEF dvr_record_open, Free
<1>2. CASE dvr_record_close
  <2>1. /\ events \subseteq events' /\ ca_flags' = {}
        /\ \A i \in Slots : stream'[i].key_token = None
        BY <1>2, CloseDoes DEF dvr_record_close
  <2>2. CASE UNCHANGED <<is_secure_mode, dsm>>
        BY <1>h, <2>1, <2>2 DEF dsm
  <2>3. CASE is_secure_mode' = FALSE
        BY <2>1, <2>3
  <2> QED
      BY <1>2, <2>2, <2>3 DEF dvr_record_close
<1>3. CASE dvr_record_read
  <2>1. /\ events \subseteq events' /\ is_secure_mode
        /\ is_secure_mode' = is_secure_mode /\ bound' = bound
        BY <1>3, ReadDoes DEF dvr_record_read, dsm
  <2> QED
      BY <1>3, <1>h, <2>1, ReadDoes DEF Kept
<1>4. CASE Elsewhere
      BY <1>4, <1>h, ElsewhereDoes
<1>5. ASSUME NEW p \in Pids, dvr_record_open_filter(p) PROVE Goal
  <2>1. \A i \in Slots : stream'[i].key_token = stream[i].key_token
        BY <1>5, OpenFilterDoes DEF Kept
  <2> QED
      BY <1>5, <1>h, <2>1 DEF dvr_record_open_filter, dsm, ca
<1>6. ASSUME NEW p \in Pids, dvr_record_close_filter(p) PROVE Goal
  <2>1. events \subseteq events' /\ \A i \in Slots : stream'[i].key_token = stream[i].key_token
        BY <1>6, CloseFilterDoes
  <2> QED
      BY <1>6, <1>h, <2>1 DEF dvr_record_close_filter, dsm, ca
<1>7. ASSUME NEW p \in Pids, dvr_record_start_filter(p) \/ dvr_record_stop_filter(p)
      PROVE  Goal
  <2>1. events \subseteq events' /\ \A i \in Slots : stream'[i].key_token = stream[i].key_token
        BY <1>7, RunFilterDoes DEF Kept
  <2> QED
      BY <1>7, <1>h, <2>1 DEF dvr_record_start_filter, dvr_record_stop_filter, dsm, ca
<1>8. ASSUME NEW p \in Pids, NEW token \in Tokens, BindFails(p, token) PROVE Goal
      BY <1>8, BindFailsDoes
<1>9. ASSUME NEW p \in Pids, NEW token \in Tokens, ClearToScrambled(p, token) PROVE Goal
  <2>1. /\ events \subseteq events' /\ Other(token) \subseteq events'
        /\ bound' = IF is_secure_mode THEN bound ELSE token
        /\ \A i \in Slots : stream'[i].key_token \in {stream[i].key_token, token, None}
        BY <1>9, ClearToScrambledDoes DEF Kept
  <2>2. bound \in {None, token}
        BY <2>1 DEF Other, If
  <2>3. bound' = token
        BY <1>h, <2>1, <2>2
  <2> QED
      BY <1>h, <1>n, <2>1, <2>2, <2>3
<1>10. ASSUME NEW p \in Pids, NEW token \in Tokens, ScrambledAgain(p, token) PROVE Goal
  <2>1. events \subseteq events' /\ \A i \in Slots : stream'[i].key_token = stream[i].key_token
        BY <1>10, ScrambledAgainDoes DEF Kept, If
  <2> QED
      BY <1>10, <1>h, <2>1 DEF ScrambledAgain, dsm, ca
<1>11. ASSUME NEW p \in Pids, NEW token \in Tokens, NewPid(p, token) PROVE Goal
  <2>1. /\ events \subseteq events' /\ Other(token) \subseteq events'
        /\ bound' = IF ca_flags # {} THEN bound ELSE token
        /\ \A i \in Slots : stream'[i].key_token \in {stream[i].key_token, token}
        BY <1>11, NewPidDoes DEF Kept
  <2>2. bound \in {None, token}
        BY <2>1 DEF Other, If
  <2>3. bound' = token
        BY <1>h, <2>1, <2>2
  <2> QED
      BY <1>h, <1>n, <2>1, <2>2, <2>3
<1> QED
    BY <1>1, <1>2, <1>3, <1>4, <1>5, <1>6, <1>7, <1>8, <1>9, <1>10, <1>11, StepCases

\* A stream's token is the one the DSM session is bound to.
THEOREM Tokened == Spec => []TokenBound
<1>1. Init => BoundWhenUsed /\ TokenBound
      BY DEF Init, BoundWhenUsed, TokenBound, Free
<1> QED
    BY <1>1, TokensKept, Typing, PTL DEF Spec
-----------------------------------------------------------------------------
(* Filters and slots.                                                      *)

\* Slots keep their pids, but one may be cleared or given a pid that has none.
LEMMA PidsDo ==
    ASSUME TypeOK, SessionCounted, [Next]_vars
    PROVE  \/ \A j \in Slots : stream'[j].pid = None
           \/ \E i \in Slots :
                 /\ \A j \in Slots \ {i} : stream'[j].pid = stream[j].pid
                 /\ stream'[i].pid \in {None, stream[i].pid} \/ SlotOf(stream'[i].pid) = {}
           \/ \A j \in Slots : stream'[j].pid = stream[j].pid
<1> DEFINE Goal == \/ \A j \in Slots : stream'[j].pid = None
                   \/ \E i \in Slots :
                         /\ \A j \in Slots \ {i} : stream'[j].pid = stream[j].pid
                         /\ stream'[i].pid \in {None, stream[i].pid} \/ SlotOf(stream'[i].pid) = {}
                   \/ \A j \in Slots : stream'[j].pid = stream[j].pid
<1>1. CASE dvr_record_open
      BY <1>1 DEF dvr_record_open, Free
<1>2. CASE dvr_record_close \/ dvr_record_read \/ Elsewhere
      BY <1>2, CloseDoes, ReadDoes, ElsewhereDoes DEF Kept
<1>3. ASSUME NEW p \in Pids, dvr_record_open_filter(p) PROVE Goal
  <2>1. PICK i \in Slots :
          /\ i \in SlotOf(p) \/ (SlotOf(p) = {} /\ stream[i].pid = None)
          /\ \A j \in Slots \ {i} : Kept(j)
          /\ stream'[i].pid = p
        BY <1>3, OpenFilterDoes
  <2>2. stream[i].pid = p \/ SlotOf(p) = {}
        BY <2>1 DEF SlotOf
  <2> QED
      BY <2>1, <2>2 DEF Kept
<1>4. ASSUME NEW p \in Pids, dvr_record_close_filter(p) PROVE Goal
      BY <1>4, CloseFilterDoes
<1>5. ASSUME NEW p \in Pids, dvr_record_start_filter(p) \/ dvr_record_stop_filter(p) PROVE Goal
  <2>1. \A j \in Slots : stream'[j].pid = stream[j].pid
        BY <1>5, RunFilterDoes DEF Kept
  <2> QED
      BY <2>1
<1>6. ASSUME NEW p \in Pids, NEW token \in Tokens, BindFails(p, token) PROVE Goal
      BY <1>6, BindFailsDoes DEF Kept
<1>7. ASSUME NEW p \in Pids, NEW token \in Tokens, ClearToScrambled(p, token) PROVE Goal
  <2>1. \A j \in Slots : stream'[j].pid = stream[j].pid
        BY <1>7, ClearToScrambledDoes DEF Kept, SlotOf
  <2> QED
      BY <2>1
<1>8. ASSUME NEW p \in Pids, NEW token \in Tokens, ScrambledAgain(p, token) PROVE Goal
  <2>1. \A j \in Slots : stream'[j].pid = stream[j].pid
        BY <1>8, ScrambledAgainDoes DEF Kept, SlotOf
  <2> QED
      BY <2>1
<1>9. ASSUME NEW p \in Pids, NEW token \in Tokens, NewPid(p, token) PROVE Goal
  <2>1. SlotOf(p) = {}
        BY <1>9 DEF NewPid
  <2> QED
      BY <1>9, <2>1, NewPidDoes DEF Kept
<1> QED
    BY <1>1, <1>2, <1>3, <1>4, <1>5, <1>6, <1>7, <1>8, <1>9, StepCases

LEMMA UniqueKept == TypeOK /\ SessionCounted /\ UniquePids /\ [Next]_vars => UniquePids'
<1> SUFFICES ASSUME TypeOK, SessionCounted, UniquePids, [Next]_vars PROVE UniquePids'
    OBVIOUS
<1>1. ASSUME NEW i \in Slots, \A j \in Slots \ {i} : stream'[j].pid = stream[j].pid,
             stream'[i].pid \in {None, stream[i].pid} \/ SlotOf(stream'[i].pid) = {}
      PROVE  UniquePids'
  <2>1. CASE stream'[i].pid \in {None, stream[i].pid}
        BY <1>1, <2>1 DEF UniquePids
  <2>2. CASE SlotOf(stream'[i].pid) = {}
    <3>1. \A j \in Slots : stream[j].pid # stream'[i].pid
          BY <2>2 DEF SlotOf
    <3> QED
        BY <1>1, <3>1 DEF UniquePids
  <2> QED
      BY <1>1, <2>1, <2>2
<1>2. CASE \A j \in Slots : stream'[j].pid = None
      BY <1>2 DEF UniquePids
<1>3. CASE \A j \in Slots : stream'[j].pid = stream[j].pid
      BY <1>3 DEF UniquePids
<1> QED
    BY <1>1, <1>2, <1>3, PidsDo

\* Filters and slots stay in agreement.
LEMMA SlotsKept ==
    TypeOK /\ SessionCounted /\ UniquePids /\ SlotsAgree /\ FilterKeepsItsSlot /\ [Next]_vars
        => SlotsAgree' /\ FilterKeepsItsSlot'
<1> DEFINE Slot(i) == /\ stream[i].fd = None => stream[i].started = FALSE
                      /\ stream[i].fd # None => stream[i].pid # None
                      /\ state # "closed" =>
                            /\ stream[i].fd # None => stream[i].pid \in current
                            /\ stream[i].pid # None /\ stream[i].key_token = None => stream[i].fd # None
           Filters(q) == /\ recFilerId[q] \in Slots /\ stream[recFilerId[q]].pid = q
                         /\ stream[recFilerId[q]].fd # None
                         /\ \/ stream[recFilerId[q]].running = stream[recFilerId[q]].started
                            \/ "startFailed" \in events
           Goal == (\A i \in Slots : Slot(i)') /\ (\A q \in current' : Filters(q)')
<1> SUFFICES ASSUME TypeOK, SessionCounted, UniquePids, SlotsAgree, FilterKeepsItsSlot, [Next]_vars,
                    events' \cap {"createFailed", "staleFilter"} = {}
             PROVE  Goal
    BY DEF SlotsAgree, FilterKeepsItsSlot
<1>h. ASSUME events \subseteq events'
      PROVE  (\A i \in Slots : Slot(i)) /\ (\A q \in current : Filters(q))
      BY <1>h DEF SlotsAgree, FilterKeepsItsSlot
<1>t. /\ None \notin Pids /\ None \notin Tokens /\ None \notin Slots
      /\ None # "clear" /\ None # "secure"
      /\ current \in SUBSET Pids /\ recFilerId \in [Pids -> Slots \cup {None}]
      /\ stream \in [Slots -> Streams]
      BY NoneAssumption DEF TypeOK, Streams
\* A slot or a filter that an action leaves alone.
<1>s. ASSUME NEW j \in Slots, Slot(j), Kept(j), state' = state, stream[j].pid \in current => stream[j].pid \in current'
      PROVE  Slot(j)'
      BY <1>s DEF Kept
<1>f. ASSUME NEW q, Filters(q), recFilerId'[q] = recFilerId[q], Kept(recFilerId[q]),
             events \subseteq events'
      PROVE  Filters(q)'
      BY <1>f DEF Kept
<1>1. CASE dvr_record_open
  <2>1. \A i \in Slots : stream'[i].fd = None /\ stream'[i].started = FALSE /\ stream'[i].pid = None
        BY <1>1 DEF dvr_record_open, Free
  <2>2. current' = {}
        BY <1>1 DEF dvr_record_open
  <2> QED
      BY <2>1, <2>2
<1>2. CASE dvr_record_close
  <2>1. events \subseteq events' /\ state' = "closed" /\ current' = current /\ recFilerId' = recFilerId
        BY <1>2, CloseDoes DEF dvr_record_close, clients
  <2>2. (\A j \in Slots : Slot(j)) /\ (\A q \in current : Filters(q))
        BY <1>h, <2>1
  <2>3. \A j \in Slots : /\ stream'[j].pid = stream[j].pid /\ stream'[j].fd = stream[j].fd
                         /\ stream'[j].running = stream[j].running /\ stream'[j].started = stream[j].started
        BY <1>2, CloseDoes
  <2>4. \A j \in Slots : Slot(j)'
        BY <2>1, <2>2, <2>3
  <2>5. \A q \in current' : Filters(q)'
        BY <2>1, <2>2, <2>3
  <2> QED
      BY <2>4, <2>5
<1>3. CASE dvr_record_read
  <2>1. events \subseteq events' /\ state' = state /\ current' = current /\ recFilerId' = recFilerId
        BY <1>3, ReadDoes DEF dvr_record_read, clients
  <2>2. (\A j \in Slots : Slot(j)) /\ (\A q \in current : Filters(q))
        BY <1>h, <2>1
  <2>3. \A j \in Slots : Kept(j)
        BY <1>3, ReadDoes
  <2> HIDE DEF Slot
  <2>4. \A j \in Slots : Slot(j)'
        BY <1>s, <2>1, <2>2, <2>3
  <2>5. \A q \in current' : Filters(q)'
        BY <1>f, <2>1, <2>2, <2>3
  <2> QED
      BY <2>4, <2>5
<1>4. CASE Elsewhere
  <2>1. /\ stream' = stream /\ events \subseteq events' /\ current' = current /\ recFilerId' = recFilerId
        /\ (state' = "closed" <=> state = "closed")
        BY <1>4, ElsewhereDoes
  <2> QED
      BY <1>h, <2>1
<1>5. ASSUME NEW p \in Pids, dvr_record_open_filter(p) PROVE Goal
  <2>1. PICK i \in Slots :
          /\ i \in SlotOf(p) \/ (SlotOf(p) = {} /\ stream[i].pid = None)
          /\ \A j \in Slots \ {i} : Kept(j)
          /\ stream'[i].pid = p /\ stream'[i].running = FALSE
          /\ stream'[i].started = stream[i].started
          /\ stream'[i].fd = IF SlotOf(p) # {} /\ stream[i].key_token # None /\ encrypt_pvr
                            THEN "secure" ELSE "clear"
          /\ recFilerId' = [recFilerId EXCEPT ![p] = i]
        BY <1>5, OpenFilterDoes
  <2>2. /\ events' = events /\ state' = state /\ state # "closed" /\ current' = current \cup {p}
        /\ recFilerId[p] = None
        BY <1>5 DEF dvr_record_open_filter
  <2>3. stream[i].pid \in {p, None}
        BY <2>1 DEF SlotOf
  <2>4. (\A j \in Slots : Slot(j)) /\ (\A q \in current : Filters(q))
        BY <1>h, <2>2
  <2>5. p \notin current /\ stream[i].pid \notin current /\ stream[i].fd = None /\ stream[i].started = FALSE
        BY <1>t, <2>2, <2>3, <2>4
  <2>6. Slot(i)' /\ Filters(p)'
        BY <1>t, <2>1, <2>2, <2>5
  <2>7. \A q \in current : recFilerId'[q] = recFilerId[q] /\ recFilerId[q] \in Slots \ {i}
        BY <1>t, <2>1, <2>4, <2>5
  <2> HIDE DEF Slot
  <2>8. \A j \in Slots \ {i} : Slot(j)'
        BY <1>s, <2>1, <2>2, <2>4
  <2>9. \A q \in current : Filters(q)'
        BY <1>f, <2>1, <2>2, <2>4, <2>7
  <2> QED
      BY <2>2, <2>6, <2>8, <2>9
<1>6. ASSUME NEW p \in Pids, dvr_record_close_filter(p) PROVE Goal
  <2>1. /\ state' = state /\ current' = current \ {p} /\ recFilerId' = [recFilerId EXCEPT ![p] = None]
        /\ events \subseteq events' /\ recFilerId[p] \in Slots
        BY <1>6, CloseFilterDoes DEF dvr_record_close_filter
  <2>2. (\A j \in Slots : Slot(j)) /\ (\A q \in current : Filters(q))
        BY <1>h, <2>1
  <2>3. \A q \in current' : q \in current /\ q # p /\ recFilerId'[q] = recFilerId[q]
        BY <1>t, <2>1
  <2>4. CASE stream[recFilerId[p]].fd = None
    <3>1. stream' = stream /\ p \notin current
          BY <1>6, <2>2, <2>4, CloseFilterDoes
    <3> QED
        BY <2>1, <2>2, <2>3, <3>1
  <2>5. CASE stream[recFilerId[p]].fd # None
    <3>0. PICK i \in Slots : i = recFilerId[p]
          BY <2>1
    <3>1. /\ p \in current
          /\ stream'[i].pid = None /\ stream'[i].fd = None /\ stream'[i].started = FALSE
          /\ \A j \in Slots \ {i} : Kept(j)
          BY <1>6, <2>5, <3>0, CloseFilterDoes DEF Kept
    <3>2. stream[i].pid = p
          BY <2>2, <3>0, <3>1
    <3>3. \A q \in current' : recFilerId[q] \in Slots \ {i}
          BY <2>2, <2>3, <3>2
    <3>4. \A j \in Slots \ {i} : stream[j].pid \in current => stream[j].pid \in current'
          BY <1>t, <2>1, <3>2 DEF UniquePids
    <3>5. Slot(i)'
          BY <3>1
    <3> HIDE DEF Slot
    <3>6. \A j \in Slots \ {i} : Slot(j)'
          BY <1>s, <2>1, <2>2, <3>1, <3>4
    <3>7. \A q \in current' : Filters(q)'
          BY <1>f, <2>1, <2>2, <2>3, <3>1, <3>3
    <3> QED
        BY <3>5, <3>6, <3>7
  <2> QED
      BY <2>4, <2>5
<1>7. ASSUME NEW p \in Pids, dvr_record_start_filter(p) \/ dvr_record_stop_filter(p) PROVE Goal
  <2>0. PICK i \in Slots : i = recFilerId[p]
        BY <1>7, RunFilterDoes
  <2>1. /\ stream[i].fd # None
        /\ \A j \in Slots \ {i} : Kept(j)
        /\ stream'[i].pid = stream[i].pid /\ stream'[i].fd = stream[i].fd
        /\ stream'[i].key_token = stream[i].key_token
        /\ stream'[i].running = stream'[i].started
        /\ events \subseteq events'
        BY <1>7, <2>0, RunFilterDoes
  <2>2. state' = state /\ current' = current /\ recFilerId' = recFilerId
        BY <1>7 DEF dvr_record_start_filter, dvr_record_stop_filter, clients
  <2>3. (\A j \in Slots : Slot(j)) /\ (\A q \in current : Filters(q))
        BY <1>h, <2>1
  <2>4. Slot(i)'
        BY <2>1, <2>2, <2>3
  <2>5. \A q \in current : recFilerId[q] = i => Filters(q)'
        BY <2>1, <2>2, <2>3
  <2>6. \A q \in current : recFilerId[q] # i => Filters(q)'
        BY <1>f, <2>1, <2>2, <2>3
  <2> HIDE DEF Slot
  <2>7. \A j \in Slots \ {i} : Slot(j)'
        BY <1>s, <2>1, <2>2, <2>3
  <2> QED
      BY <2>2, <2>4, <2>5, <2>6, <2>7
\* A free slot gets a pid and a token.
<1>p. ASSUME NEW p \in Pids, NEW token \in Tokens, NEW i \in Slots, events \subseteq events', state' = state,
             current' = current, recFilerId' = recFilerId, \A j \in Slots \ {i} : Kept(j),
             stream[i].pid = None, stream'[i].pid = p, stream'[i].key_token = token,
             stream'[i].fd = stream[i].fd, stream'[i].started = stream[i].started
      PROVE  Goal
  <2>1. (\A j \in Slots : Slot(j)) /\ (\A q \in current : Filters(q))
        BY <1>h, <1>p
  <2>2. \A q \in current : recFilerId[q] \in Slots \ {i}
        BY <1>p, <1>t, <2>1
  <2>3. Slot(i)'
        BY <1>p, <1>t, <2>1
  <2> HIDE DEF Slot
  <2>4. \A j \in Slots \ {i} : Slot(j)'
        BY <1>p, <1>s, <2>1
  <2>5. \A q \in current : Filters(q)'
        BY <1>f, <1>p, <2>1, <2>2
  <2> QED
      BY <1>p, <2>3, <2>4, <2>5
<1>8. ASSUME NEW p \in Pids, NEW token \in Tokens, BindFails(p, token) PROVE Goal
  <2>1. events \subseteq events' /\ state' = state /\ current' = current /\ recFilerId' = recFilerId
        BY <1>8, BindFailsDoes DEF BindFails, clients
  <2>2. CASE stream' = stream
        BY <1>h, <2>1, <2>2
  <2> HIDE DEF Goal
  <2>3. CASE stream' # stream
        BY <1>8, <1>p, <2>1, <2>3, BindFailsDoes
  <2> QED
      BY <2>2, <2>3
<1>9. ASSUME NEW p \in Pids, NEW token \in Tokens, ClearToScrambled(p, token) PROVE Goal
  <2>1. state' = state /\ current' = current /\ recFilerId' = recFilerId /\ encrypt_pvr' = encrypt_pvr
        BY <1>9 DEF ClearToScrambled
  <2>2. PICK i \in SlotOf(p), created \in BOOLEAN, runs \in BOOLEAN :
          /\ stream[i].key_token = None
          /\ \A j \in Slots \ {i} : Kept(j)
          /\ stream'[i].pid = p
          /\ stream'[i].started = stream[i].started
          /\ IF encrypt_pvr
             THEN /\ stream'[i].fd = IF created THEN "secure" ELSE None
                  /\ stream'[i].running = (created /\ runs /\ stream[i].started)
             ELSE stream'[i].fd = stream[i].fd /\ stream'[i].running = stream[i].running
          /\ events \subseteq events'
          /\ If(~created, "createFailed") \subseteq events' /\ If(~runs, "startFailed") \subseteq events'
        BY <1>9, ClearToScrambledDoes
  <2>3. i \in Slots /\ stream[i].pid = p /\ stream[i].started \in BOOLEAN
        BY <1>t, <2>2 DEF SlotOf, Streams
  <2>4. created /\ (runs \/ "startFailed" \in events')
        BY <2>2 DEF If
  <2>5. (\A j \in Slots : Slot(j)) /\ (\A q \in current : Filters(q))
        BY <1>h, <2>2
  <2>6. IF encrypt_pvr
        THEN /\ stream'[i].fd = "secure"
             /\ stream'[i].running = stream[i].started \/ "startFailed" \in events'
        ELSE stream'[i].fd = stream[i].fd /\ stream'[i].running = stream[i].running
        BY <2>2, <2>3, <2>4
  <2>7. Slot(i)'
        BY <1>t, <2>1, <2>2, <2>3, <2>5, <2>6
  <2>8. \A q \in current : recFilerId[q] = i => Filters(q)'
        BY <1>t, <2>1, <2>2, <2>3, <2>5, <2>6
  <2>9. \A q \in current : recFilerId[q] # i => Filters(q)'
        BY <1>f, <2>1, <2>2, <2>5
  <2> HIDE DEF Slot
  <2>10. \A j \in Slots \ {i} : Slot(j)'
         BY <1>s, <2>1, <2>2, <2>5
  <2> QED
      BY <2>1, <2>7, <2>8, <2>9, <2>10
<1>10. ASSUME NEW p \in Pids, NEW token \in Tokens, ScrambledAgain(p, token) PROVE Goal
  <2>1. events \subseteq events' /\ state' = state /\ current' = current /\ recFilerId' = recFilerId
        BY <1>10, ScrambledAgainDoes DEF ScrambledAgain
  <2>2. (\A j \in Slots : Slot(j)) /\ (\A q \in current : Filters(q))
        BY <1>h, <2>1
  <2>3. \A j \in Slots : /\ stream'[j].pid = stream[j].pid /\ stream'[j].fd = stream[j].fd
                         /\ stream'[j].running = stream[j].running /\ stream'[j].started = stream[j].started
                         /\ stream'[j].key_token = None => stream[j].key_token = None
        BY <1>10, <1>t, ScrambledAgainDoes DEF Kept
  <2>4. \A j \in Slots : Slot(j)'
        BY <2>1, <2>2, <2>3
  <2>5. \A q \in current' : Filters(q)'
        BY <2>1, <2>2, <2>3
  <2> QED
      BY <2>4, <2>5
<1>11. ASSUME NEW p \in Pids, NEW token \in Tokens, NewPid(p, token) PROVE Goal
  <2>1. events \subseteq events' /\ state' = state /\ current' = current /\ recFilerId' = recFilerId
        BY <1>11, NewPidDoes DEF NewPid
  <2>2. PICK i \in Slots :
          /\ \A j \in Slots \ {i} : Kept(j)
          /\ stream[i].pid = None /\ stream'[i].pid = p
          /\ stream'[i].started = stream[i].started
          /\ stream'[i].fd = stream[i].fd /\ stream'[i].key_token = token
        BY <1>11, NewPidDoes
  <2> HIDE DEF Goal
  <2> QED
      BY <1>p, <2>1, <2>2
<1> QED
    BY <1>1, <1>2, <1>3, <1>4, <1>5, <1>6, <1>7, <1>8, <1>9, <1>10, <1>11, StepCases

\* A record filter's index finds its slot, and its stream runs as it was told to, unless
\* its filter could not be created anew or started again.
THEOREM Slotted == Spec => [](UniquePids /\ SlotsAgree /\ FilterKeepsItsSlot)
<1>1. Init => UniquePids /\ SlotsAgree /\ FilterKeepsItsSlot
      BY DEF Init, UniquePids, SlotsAgree, FilterKeepsItsSlot, Free
<1> QED
    BY <1>1, UniqueKept, SlotsKept, Typing, PTL DEF Spec
-----------------------------------------------------------------------------
(* The secure demux.                                                       *)

Copes ==
    events \cap {"prepareFailed", "createFailed", "closedScrambled", "staleFilter"} = {}

Agreement == UniquePids /\ SlotsAgree /\ FilterKeepsItsSlot

LEMMA SecureKept ==
    TypeOK /\ SessionCounted /\ Agreement /\ TokensAgree /\ ScrambledOnSecureDemux /\ [Next]_vars
        => TokensAgree' /\ ScrambledOnSecureDemux'
<1> DEFINE HasToken(q) == \E i \in Slots : stream[i].pid = q /\ stream[i].key_token # None
           Secure(i) == stream[i].key_token # None =>
                            stream[i].pid # None /\ (encrypt_pvr => stream[i].fd \in {"secure", None})
           Goal == /\ state' # "closed" => \A q \in scrambled' : HasToken(q)'
                   /\ \A j \in Slots : Secure(j)'
                   /\ \A q \in current' \cap scrambled' : encrypt_pvr' => stream'[recFilerId'[q]].fd = "secure"
<1> SUFFICES ASSUME TypeOK, SessionCounted, Agreement, TokensAgree, ScrambledOnSecureDemux, [Next]_vars,
                    Copes'
             PROVE  Goal
    BY DEF TokensAgree, ScrambledOnSecureDemux, Copes
<1>t. /\ None \notin Pids /\ None \notin Tokens /\ None \notin Slots /\ None # "secure"
      /\ current \in SUBSET Pids /\ scrambled \in SUBSET Pids /\ recFilerId \in [Pids -> Slots \cup {None}]
      BY NoneAssumption DEF TypeOK
<1>u. \A i, j \in Slots : stream[i].pid = stream[j].pid /\ stream[i].pid # None => i = j
      BY DEF Agreement, UniquePids
<1>h. ASSUME events \subseteq events'
      PROVE  /\ (state # "closed" => \A q \in scrambled : HasToken(q)) /\ \A j \in Slots : Secure(j)
             /\ \A q \in current \cap scrambled : encrypt_pvr => stream[recFilerId[q]].fd = "secure"
             /\ \A q \in current : /\ recFilerId[q] \in Slots /\ stream[recFilerId[q]].pid = q
                                   /\ stream[recFilerId[q]].fd # None
             /\ \A j \in Slots : stream[j].fd # None => stream[j].pid # None
  <2>1. Copes
        BY <1>h DEF Copes
  <2>2. events \cap {"createFailed", "staleFilter"} = {}
        BY <2>1 DEF Copes
  <2>3. /\ (state # "closed" => \A q \in scrambled : HasToken(q)) /\ \A j \in Slots : Secure(j)
        /\ \A q \in current \cap scrambled : encrypt_pvr => stream[recFilerId[q]].fd = "secure"
        BY <2>1 DEF TokensAgree, ScrambledOnSecureDemux, Copes
  <2>4. /\ \A q \in current : /\ recFilerId[q] \in Slots /\ stream[recFilerId[q]].pid = q
                              /\ stream[recFilerId[q]].fd # None
        /\ \A j \in Slots : stream[j].fd # None => stream[j].pid # None
        BY <2>2 DEF Agreement, SlotsAgree, FilterKeepsItsSlot
  <2> QED
      BY <2>3, <2>4
\* An action that leaves pid, filter and token of every slot alone.
<1>k. ASSUME events \subseteq events', current' = current, recFilerId' = recFilerId, scrambled' = scrambled,
             encrypt_pvr' = encrypt_pvr, state' = "closed" <=> state = "closed",
             \A j \in Slots : /\ stream'[j].pid = stream[j].pid /\ stream'[j].fd = stream[j].fd
                              /\ stream'[j].key_token = stream[j].key_token
      PROVE  Goal
  <2>1. (state' # "closed" => \A q \in scrambled' : HasToken(q)') /\ \A j \in Slots : Secure(j)'
        BY <1>h, <1>k
  <2>2. \A q \in current' \cap scrambled' : encrypt_pvr' => stream'[recFilerId'[q]].fd = "secure"
        BY <1>h, <1>k
  <2> QED
      BY <2>1, <2>2
\* A free slot gets a pid that has none, and a token.
<1>p. ASSUME NEW p \in Pids, NEW token \in Tokens, NEW i \in Slots, SlotOf(p) = {},
             events \subseteq events', current' = current, recFilerId' = recFilerId,
             encrypt_pvr' = encrypt_pvr, state' = state, scrambled' \in {scrambled, scrambled \cup {p}},
             \A j \in Slots \ {i} : Kept(j),
             stream[i].pid = None, stream'[i].pid = p, stream'[i].key_token = token,
             stream'[i].fd = stream[i].fd
      PROVE  Goal
  <2>1. state # "closed" => \A q \in scrambled : HasToken(q)'
        BY <1>h, <1>p, <1>t DEF Kept
  <2>2. HasToken(p)'
        BY <1>p, <1>t
  <2>3. Secure(i)'
        BY <1>h, <1>p, <1>t
  <2>4. \A j \in Slots \ {i} : Secure(j)'
        BY <1>h, <1>p DEF Kept
  <2>5. ASSUME NEW q \in current' \cap scrambled', encrypt_pvr'
        PROVE  stream'[recFilerId'[q]].fd = "secure"
    <3>1. q \in current /\ recFilerId[q] \in Slots /\ stream[recFilerId[q]].pid = q
          BY <1>h, <1>p
    <3>2. q # p /\ recFilerId[q] # i
          BY <1>p, <1>t, <3>1 DEF SlotOf
    <3> QED
        BY <1>h, <1>p, <2>5, <3>1, <3>2 DEF Kept
  <2> QED
      BY <1>p, <2>1, <2>2, <2>3, <2>4, <2>5
<1>1. CASE dvr_record_open
  <2>1. scrambled' = {} /\ \A j \in Slots : stream'[j].key_token = None
        BY <1>1 DEF dvr_record_open, Free
  <2> QED
      BY <2>1
<1>2. CASE dvr_record_close
  <2>1. /\ events \subseteq events' /\ state' = "closed" /\ current' = current
        /\ recFilerId' = recFilerId /\ scrambled' = scrambled /\ encrypt_pvr' = encrypt_pvr
        BY <1>2, CloseDoes DEF dvr_record_close, clients
  <2>2. \A j \in Slots : stream'[j].fd = stream[j].fd /\ stream'[j].key_token = None
        BY <1>2, CloseDoes
  <2> QED
      BY <1>h, <2>1, <2>2
<1>3. CASE dvr_record_read
  <2>1. /\ events \subseteq events' /\ state' = state /\ current' = current
        /\ recFilerId' = recFilerId /\ scrambled' = scrambled /\ encrypt_pvr' = encrypt_pvr
        BY <1>3, ReadDoes DEF dvr_record_read, clients
  <2>2. \A j \in Slots : Kept(j)
        BY <1>3, ReadDoes
  <2> HIDE DEF Goal
  <2> QED
      BY <1>k, <2>1, <2>2 DEF Kept
<1>4. CASE Elsewhere
  <2>1. scrambled' = scrambled
        BY <1>4, ElsewhereDoes DEF Copes
  <2> HIDE DEF Goal
  <2> QED
      BY <1>4, <1>k, <2>1, ElsewhereDoes
<1>5. ASSUME NEW p \in Pids, dvr_record_open_filter(p) PROVE Goal
  <2>1. PICK i \in Slots :
          /\ i \in SlotOf(p) \/ (SlotOf(p) = {} /\ stream[i].pid = None)
          /\ \A j \in Slots \ {i} : Kept(j)
          /\ stream'[i].pid = p /\ stream'[i].key_token = stream[i].key_token
          /\ stream'[i].fd = IF SlotOf(p) # {} /\ stream[i].key_token # None /\ encrypt_pvr
                            THEN "secure" ELSE "clear"
          /\ recFilerId' = [recFilerId EXCEPT ![p] = i]
        BY <1>5, OpenFilterDoes
  <2>2. /\ events' = events /\ state' = state /\ state # "closed" /\ current' = current \cup {p}
        /\ scrambled' = scrambled /\ encrypt_pvr' = encrypt_pvr /\ recFilerId[p] = None
        BY <1>5 DEF dvr_record_open_filter
  <2>3. stream[i].pid \in {p, None} /\ (SlotOf(p) # {} => stream[i].pid = p)
        BY <2>1 DEF SlotOf
  <2>4. \A q \in scrambled' : HasToken(q)'
    <3>1. ASSUME NEW q \in scrambled PROVE HasToken(q)'
      <4>1. PICK k \in Slots : stream[k].pid = q /\ stream[k].key_token # None
            BY <1>h, <2>2
      <4>2. stream'[k].pid = q /\ stream'[k].key_token # None
        <5>1. CASE k = i
              BY <1>t, <2>1, <2>3, <4>1, <5>1
        <5>2. CASE k # i
              BY <2>1, <4>1, <5>2 DEF Kept
        <5> QED
            BY <5>1, <5>2
      <4> QED
          BY <4>2
    <3> QED
        BY <2>2, <3>1
  <2>5. Secure(i)'
    <3>1. stream[i].key_token # None => SlotOf(p) # {}
          BY <1>h, <2>1, <2>2
    <3> QED
        BY <1>t, <2>1, <2>2, <3>1
  <2>6. \A j \in Slots \ {i} : Secure(j)'
        BY <1>h, <2>1, <2>2 DEF Kept
  <2>7. ASSUME NEW q \in current' \cap scrambled', encrypt_pvr'
        PROVE  stream'[recFilerId'[q]].fd = "secure"
    <3>1. CASE q = p
      <4>1. PICK k \in Slots : stream[k].pid = p /\ stream[k].key_token # None
            BY <1>h, <2>2, <2>7, <3>1
      <4>2. SlotOf(p) # {}
            BY <4>1 DEF SlotOf
      <4>3. k = i
            BY <1>t, <1>u, <2>3, <4>1, <4>2
      <4> QED
          BY <1>t, <2>1, <2>2, <2>7, <3>1, <4>1, <4>2, <4>3
    <3>2. CASE q # p
      <4>1. q \in current /\ recFilerId'[q] = recFilerId[q] /\ recFilerId[q] \in Slots
            /\ stream[recFilerId[q]].pid = q
            BY <1>h, <1>t, <2>1, <2>2, <3>2
      <4>2. recFilerId[q] # i
            BY <1>t, <2>3, <3>2, <4>1
      <4> QED
          BY <1>h, <2>1, <2>2, <2>7, <4>1, <4>2 DEF Kept
    <3> QED
        BY <3>1, <3>2
  <2> QED
      BY <2>4, <2>5, <2>6, <2>7
<1>6. ASSUME NEW p \in Pids, dvr_record_close_filter(p) PROVE Goal
  <2>1. /\ state' = state /\ current' = current \ {p} /\ recFilerId' = [recFilerId EXCEPT ![p] = None]
        /\ scrambled' = scrambled /\ encrypt_pvr' = encrypt_pvr /\ events \subseteq events'
        BY <1>6, CloseFilterDoes DEF dvr_record_close_filter
  <2>2. PICK i \in Slots : i = recFilerId[p]
        BY <1>6, CloseFilterDoes
  <2>3. \A q \in current' : q \in current /\ q # p /\ recFilerId'[q] = recFilerId[q]
        BY <1>t, <2>1
  <2>4. CASE stream[i].fd = None
    <3>1. stream' = stream
          BY <1>6, <2>2, <2>4, CloseFilterDoes
    <3>2. (state' # "closed" => \A q \in scrambled' : HasToken(q)') /\ \A j \in Slots : Secure(j)'
          BY <1>h, <2>1, <3>1
    <3>3. \A q \in current' \cap scrambled' : encrypt_pvr' => stream'[recFilerId'[q]].fd = "secure"
          BY <1>h, <2>1, <2>3, <3>1
    <3> QED
        BY <3>2, <3>3
  <2>5. CASE stream[i].fd # None
    <3>1. /\ \A j \in Slots \ {i} : stream'[j] = stream[j]
          /\ p \in current /\ stream[i].key_token = None /\ stream'[i].key_token = None
          BY <1>6, <2>2, <2>5, CloseFilterDoes DEF Copes
    <3>2. (state' # "closed" => \A q \in scrambled' : HasToken(q)') /\ \A j \in Slots : Secure(j)'
      <4>1. state # "closed" => \A q \in scrambled : HasToken(q)'
            BY <1>h, <2>1, <3>1
      <4>2. \A j \in Slots : Secure(j)'
            BY <1>h, <2>1, <3>1
      <4> QED
          BY <2>1, <4>1, <4>2
    <3>3. \A q \in current' : recFilerId[q] \in Slots \ {i}
          BY <1>h, <2>1, <2>2, <2>3, <3>1
    <3>4. \A q \in current' \cap scrambled' : encrypt_pvr' => stream'[recFilerId'[q]].fd = "secure"
          BY <1>h, <2>1, <2>3, <3>1, <3>3
    <3> QED
        BY <3>2, <3>4
  <2> QED
      BY <2>4, <2>5
<1>7. ASSUME NEW p \in Pids, dvr_record_start_filter(p) \/ dvr_record_stop_filter(p) PROVE Goal
  <2>1. /\ events \subseteq events'
        /\ \A j \in Slots : /\ stream'[j].pid = stream[j].pid /\ stream'[j].fd = stream[j].fd
                             /\ stream'[j].key_token = stream[j].key_token
        BY <1>7, RunFilterDoes DEF Kept
  <2>2. /\ state' = state /\ current' = current /\ recFilerId' = recFilerId /\ scrambled' = scrambled
        /\ encrypt_pvr' = encrypt_pvr
        BY <1>7 DEF dvr_record_start_filter, dvr_record_stop_filter, clients
  <2> HIDE DEF Goal
  <2> QED
      BY <1>k, <2>1, <2>2
<1>8. ASSUME NEW p \in Pids, NEW token \in Tokens, BindFails(p, token) PROVE Goal
  <2>1. /\ events \subseteq events' /\ state' = state /\ current' = current /\ recFilerId' = recFilerId
        /\ scrambled' = scrambled /\ encrypt_pvr' = encrypt_pvr
        BY <1>8, BindFailsDoes DEF BindFails, clients
  <2> HIDE DEF Goal
  <2>2. CASE stream' = stream
        BY <1>k, <2>1, <2>2
  <2>3. CASE stream' # stream
        BY <1>8, <1>p, <2>1, <2>3, BindFailsDoes
  <2> QED
      BY <2>2, <2>3
<1>9. ASSUME NEW p \in Pids, NEW token \in Tokens, ClearToScrambled(p, token) PROVE Goal
  <2>1. state' = state /\ current' = current /\ recFilerId' = recFilerId /\ encrypt_pvr' = encrypt_pvr
        BY <1>9 DEF ClearToScrambled
  <2>2. PICK i \in SlotOf(p), created \in BOOLEAN :
          /\ stream[i].key_token = None
          /\ \A j \in Slots \ {i} : Kept(j)
          /\ stream'[i].pid = p
          /\ stream'[i].fd = IF ~encrypt_pvr THEN stream[i].fd ELSE IF created THEN "secure" ELSE None
          /\ \/ stream'[i].key_token = token /\ scrambled' = scrambled \cup {p}
             \/ stream'[i].key_token = None /\ scrambled' = scrambled
          /\ events \subseteq events'
          /\ If(~created, "createFailed") \subseteq events'
        BY <1>9, ClearToScrambledDoes
  <2>3. i \in Slots /\ stream[i].pid = p
        BY <2>2 DEF SlotOf
  <2>4. created
        BY <2>2 DEF If, Copes
  <2>5. encrypt_pvr => stream'[i].fd = "secure"
        BY <2>2, <2>4
  <2>6. state # "closed" => \A q \in scrambled : HasToken(q)'
        BY <1>h, <2>2 DEF Kept
  <2>7. p \in scrambled' /\ p \notin scrambled => HasToken(p)'
        BY <1>t, <2>2, <2>3
  <2>8. Secure(i)'
        BY <1>t, <2>1, <2>2, <2>5
  <2>9. \A j \in Slots \ {i} : Secure(j)'
        BY <1>h, <2>1, <2>2 DEF Kept
  <2>10. ASSUME NEW q \in current' \cap scrambled', encrypt_pvr'
         PROVE  stream'[recFilerId'[q]].fd = "secure"
    <3>1. q \in current /\ recFilerId[q] \in Slots /\ stream[recFilerId[q]].pid = q
          BY <1>h, <2>1, <2>2
    <3>2. CASE recFilerId[q] = i
          BY <2>1, <2>5, <2>10, <3>2
    <3>3. CASE recFilerId[q] # i
      <4>1. q # p /\ q \in scrambled
            BY <1>t, <1>u, <2>2, <2>3, <3>1, <3>3
      <4> QED
          BY <1>h, <2>1, <2>2, <2>10, <3>1, <3>3, <4>1 DEF Kept
    <3> QED
        BY <3>2, <3>3
  <2> QED
      BY <2>1, <2>2, <2>6, <2>7, <2>8, <2>9, <2>10
<1>10. ASSUME NEW p \in Pids, NEW token \in Tokens, ScrambledAgain(p, token) PROVE Goal
  <2>1. /\ state' = state /\ current' = current /\ recFilerId' = recFilerId /\ encrypt_pvr' = encrypt_pvr
        /\ scrambled' = scrambled \cup {p}
        BY <1>10 DEF ScrambledAgain, Told
  <2>2. PICK i \in SlotOf(p) :
          /\ stream[i].key_token # None
          /\ \A j \in Slots \ {i} : Kept(j)
          /\ stream'[i].pid = stream[i].pid /\ stream'[i].fd = stream[i].fd
          /\ stream'[i].key_token = token
          /\ events \subseteq events'
        BY <1>10, ScrambledAgainDoes
  <2>3. i \in Slots /\ stream[i].pid = p
        BY <2>2 DEF SlotOf
  <2>4. state' # "closed" => \A q \in scrambled' : HasToken(q)'
    <3>1. HasToken(p)'
          BY <1>t, <2>2, <2>3
    <3>2. state # "closed" => \A q \in scrambled : HasToken(q)'
          BY <1>h, <1>t, <2>2 DEF Kept
    <3> QED
        BY <2>1, <3>1, <3>2
  <2>5. \A j \in Slots : Secure(j)'
        BY <1>h, <2>1, <2>2, <2>3 DEF Kept
  <2>6. ASSUME NEW q \in current' \cap scrambled', encrypt_pvr'
        PROVE  stream'[recFilerId'[q]].fd = "secure"
    <3>1. /\ q \in current /\ recFilerId[q] \in Slots /\ stream[recFilerId[q]].pid = q
          /\ stream[recFilerId[q]].fd # None
          BY <1>h, <2>1, <2>2
    <3>2. stream'[recFilerId[q]].fd = stream[recFilerId[q]].fd
          BY <2>2, <3>1 DEF Kept
    <3>3. CASE q = p
      <4>1. recFilerId[q] = i
            BY <1>t, <1>u, <2>3, <3>1, <3>3
      <4> QED
          BY <1>h, <2>1, <2>2, <2>3, <2>6, <3>1, <3>2, <4>1
    <3>4. CASE q # p
          BY <1>h, <2>1, <2>2, <2>6, <3>2, <3>4
    <3> QED
        BY <3>3, <3>4
  <2> QED
      BY <2>4, <2>5, <2>6
<1>11. ASSUME NEW p \in Pids, NEW token \in Tokens, NewPid(p, token) PROVE Goal
  <2>1. /\ events \subseteq events' /\ state' = state /\ current' = current /\ recFilerId' = recFilerId
        /\ encrypt_pvr' = encrypt_pvr /\ SlotOf(p) = {}
        /\ scrambled' \in {scrambled, scrambled \cup {p}}
        BY <1>11, NewPidDoes DEF NewPid
  <2> HIDE DEF Goal
  <2> QED
      BY <1>11, <1>p, <2>1, NewPidDoes
<1> QED
    BY <1>1, <1>2, <1>3, <1>4, <1>5, <1>6, <1>7, <1>8, <1>9, <1>10, <1>11, StepCases

\* In an encrypted recording the filters of pids whose token was set are on the secure
\* demux.
THEOREM SecureDemux == Spec => []ScrambledOnSecureDemux
<1>1. Init => TokensAgree /\ ScrambledOnSecureDemux
      BY DEF Init, TokensAgree, ScrambledOnSecureDemux, Free
<1> QED
    BY <1>1, SecureKept, Typing, Slotted, PTL DEF Spec, Agreement

-----------------------------------------------------------------------------
(* What a session holds, and gives back.                                    *)

\* The slots that have a descrambling channel.
Holders == {i \in Slots : stream[i].chans["des"] # None}

\* Encrypted: a DSM session only in secure mode, and each ca device is used once and by
\* the session that will close it.
SessionLedger == (dsm_sess => is_secure_mode) /\ dsmSessions = IF dsm_sess THEN 1 ELSE 0
DeviceLedger ==
    \A d \in Demuxes : IF Closes(d) THEN useCount[d] = 1 ELSE useCount[d] = 0 /\ channels[d] = 0

\* Not encrypted: every channel is one of a slot with a token, on the clear demux.
ClearLedger ==
    /\ ~is_secure_mode /\ ca_flags \subseteq {"des"}
    /\ \A i \in Slots : stream[i].chans["enc"] = None
    /\ \A i \in Holders : stream[i].key_token # None /\ "des" \in stream[i].flags
    /\ state = "closed" => Holders = {}
    /\ channels["secure"] = 0 /\ channels["inject"] = 0 /\ channels["clear"] = Cardinality(Holders)

\* What a failure to give back the secure resources breaks, and what one to prepare a
\* channel does.
SessionBooks == encrypt_pvr => SessionLedger /\ (state = "closed" => ~is_secure_mode)
DeviceBooks ==
    /\ state = "closed" => ca_flags = {}
    /\ IF encrypt_pvr THEN DeviceLedger ELSE ClearLedger
SessionKeptBooks == events \cap {"lateToken", "releaseFailed"} = {} => SessionBooks
DevicesKeptBooks == events \cap {"lateToken", "caFailed"} = {} => DeviceBooks

\* Nothing that has happened is forgotten.
LEMMA EventsKept == [Next]_vars => events \subseteq events'
<1> SUFFICES ASSUME [Next]_vars
             PROVE  events \subseteq events'
  OBVIOUS
<1> USE DEF Record, Fail
<1>1. CASE Elsewhere \/ dvr_record_open \/ dvr_record_close \/ dvr_record_read
  BY <1>1 DEF Elsewhere, dvr_record_start, dvr_record_stop, setRecordHandle, SlotReady,
     PrepareFails, vars, clients, dvr_record_open, dvr_record_close, dvr_record_read
<1>2. ASSUME NEW p \in Pids, Filter(p)
      PROVE  events \subseteq events'
  BY <1>2 DEF Filter, dvr_record_open_filter, dvr_record_start_filter, dvr_record_stop_filter,
              dvr_record_close_filter
<1>3. ASSUME NEW p \in Pids, NEW token \in Tokens,
             BindFails(p, token) \/ ClearToScrambled(p, token) \/ ScrambledAgain(p, token)
             \/ NewPid(p, token)
      PROVE  events \subseteq events'
  BY <1>3 DEF BindFails, ClearToScrambled, ScrambledAgain, NewPid
<1> QED BY <1>1, <1>2, <1>3, StepCases DEF Filter

\* Of some slots one comes first.
LEMMA FirstSlot ==
    ASSUME NEW S \in SUBSET Slots, S # {}
    PROVE  \E i \in S : {k \in S : \A j \in S : j >= k} = {i}
<1>1. S \subseteq Nat
  BY BoundsAssumption DEF Slots
<1>2. PICK i \in S : \A j \in S : ~(j < i)
  <2>1. PICK i \in S : \A j \in S : <<j, i>> \notin OpToRel(<, Nat)
    BY <1>1, NatLessThanWellFounded, WFMin
  <2> QED BY <1>1, <2>1 DEF OpToRel
<1>3. \A j \in S : j >= i
  BY <1>1, <1>2
<1>4. \A k \in S : (\A j \in S : j >= k) => k = i
  BY <1>1, <1>3
<1> QED BY <1>3, <1>4

\* What preparing does to the devices when nothing fails half-way.
Smooth == [Slots -> [Usages -> {Later, Nothing, Done}]]

\* Preparing channels of an encrypted session uses each device once.
LEMMA PreparingSecure ==
    ASSUME TypeOK, encrypt_pvr, DeviceLedger, NEW s, NEW fate \in Smooth, ca_prepare(s, fate)
    PROVE  DeviceLedger'
<1> DEFINE Opens(u) == {i \in Slots :
               fate[i][u] >= Opened /\ u \notin ca_flags /\ \A j \in Slots : fate[j][u] = Done => j >= i}
           Allocs(u) == {i \in Slots : fate[i][u] >= Allocated /\ s[i].chans[u] = None}
           Uses(d) == {u \in Usages : DeviceOf(u) = d}
           Prepares(u) == {i \in Slots : fate[i][u] = Done}
<1>1. /\ ca_flags' = ca_flags \cup {u \in Usages : \E i \in Slots : fate[i][u] = Done}
      /\ useCount' = [d \in Demuxes |-> useCount[d] + Cardinality(UNION {Opens(u) : u \in Uses(d)})]
      /\ channels' = [d \in Demuxes |-> channels[d] + Cardinality(UNION {Allocs(u) : u \in Uses(d)})]
  BY DEF ca_prepare
<1>2. Uses("clear") = {} /\ Uses("secure") = {"des"} /\ Uses("inject") = {"enc"}
  BY DEF DeviceOf, Usages
<1>3. /\ UNION {Opens(u) : u \in Uses("clear")} = {} /\ UNION {Allocs(u) : u \in Uses("clear")} = {}
      /\ UNION {Opens(u) : u \in Uses("secure")} = Opens("des")
      /\ UNION {Allocs(u) : u \in Uses("secure")} = Allocs("des")
      /\ UNION {Opens(u) : u \in Uses("inject")} = Opens("enc")
      /\ UNION {Allocs(u) : u \in Uses("inject")} = Allocs("enc")
  <2> HIDE DEF Opens, Allocs, Uses
  <2> QED BY <1>2
<1>4. /\ useCount'["clear"] = useCount["clear"] + Cardinality({})
      /\ channels'["clear"] = channels["clear"] + Cardinality({})
      /\ useCount'["secure"] = useCount["secure"] + Cardinality(Opens("des"))
      /\ channels'["secure"] = channels["secure"] + Cardinality(Allocs("des"))
      /\ useCount'["inject"] = useCount["inject"] + Cardinality(Opens("enc"))
      /\ channels'["inject"] = channels["inject"] + Cardinality(Allocs("enc"))
  <2> HIDE DEF Opens, Allocs, Uses
  <2> QED BY <1>1, <1>3 DEF Demuxes
<1>t. \A d \in Demuxes : useCount[d] \in Nat /\ channels[d] \in Int
  BY BoundsAssumption DEF TypeOK
\* Who gets anywhere gets to the end, and the first of them opens the device.
<1>5. ASSUME NEW u \in Usages
      PROVE  /\ Prepares(u) = {} => Opens(u) = {} /\ Allocs(u) = {}
             /\ u \in ca_flags => Opens(u) = {}
             /\ u \notin ca_flags /\ Prepares(u) # {} => Cardinality(Opens(u)) = 1
             /\ u \in ca_flags' <=> u \in ca_flags \/ Prepares(u) # {}
  <2>1. ASSUME NEW i \in Slots
        PROVE  /\ fate[i][u] >= Opened <=> fate[i][u] = Done
               /\ fate[i][u] >= Allocated => fate[i][u] = Done
    <3>1. fate[i][u] \in {Later, Nothing, Done}
      BY DEF Smooth
    <3> QED BY <3>1, Stages
  <2>2. Prepares(u) = {} => Opens(u) = {} /\ Allocs(u) = {}
    BY <2>1
  <2>3. ASSUME u \notin ca_flags, Prepares(u) # {}
        PROVE  Cardinality(Opens(u)) = 1
    <3>1. PICK i \in Prepares(u) :
            {k \in Prepares(u) : \A j \in Prepares(u) : j >= k} = {i}
      <4>1. Prepares(u) \in SUBSET Slots
        OBVIOUS
      <4> HIDE DEF Prepares
      <4> QED BY <2>3, <4>1, FirstSlot
    <3>2. Opens(u) = {k \in Prepares(u) : \A j \in Prepares(u) : j >= k}
      BY <2>1, <2>3
    <3> HIDE DEF Opens, Prepares
    <3> QED BY <3>1, <3>2, FS_Singleton
  <2>4. u \in ca_flags' <=> u \in ca_flags \/ Prepares(u) # {}
    BY <1>1
  <2> QED BY <2>2, <2>3, <2>4
<1> HIDE DEF Opens, Allocs, Uses, Prepares
<1>6. Cardinality({}) = 0
  BY FS_EmptySet
<1> USE DEF DeviceLedger, Closes, Demuxes, Usages
<1>7. useCount'["clear"] = 0 /\ channels'["clear"] = 0
  BY <1>4, <1>6
<1>8. IF "des" \in ca_flags' THEN useCount'["secure"] = 1
                              ELSE useCount'["secure"] = 0 /\ channels'["secure"] = 0
  <2>1. CASE "des" \in ca_flags
    BY <1>4, <1>5, <1>6, <2>1
  <2>2. CASE "des" \notin ca_flags
    BY <1>4, <1>5, <1>6, <2>2
  <2> QED BY <2>1, <2>2
<1>9. IF "enc" \in ca_flags' THEN useCount'["inject"] = 1
                              ELSE useCount'["inject"] = 0 /\ channels'["inject"] = 0
  <2>1. CASE "enc" \in ca_flags
    BY <1>4, <1>5, <1>6, <2>1
  <2>2. CASE "enc" \notin ca_flags
    BY <1>4, <1>5, <1>6, <2>2
  <2> QED BY <2>1, <2>2
<1> QED BY <1>7, <1>8, <1>9

\* Preparing the channel of one stream of a session that does not encrypt.
LEMMA PreparingClear ==
    ASSUME TypeOK, ~encrypt_pvr, ClearLedger, state # "closed", state' = state,
           NEW s \in [Slots -> Streams], NEW i \in Slots, s[i].pid # None, s[i].key_token # None,
           \A j \in Slots : s[j].chans = stream[j].chans /\ s[j].flags = stream[j].flags,
           \A j \in Slots \ {i} : s[j].key_token = stream[j].key_token,
           NEW fate \in Smooth, ca_prepare(s, fate),
           \A j \in Slots, u \in Usages :
              fate[j][u] = Done => j = i /\ u = "des" /\ "des" \notin stream[i].flags,
           ~is_secure_mode'
    PROVE  ClearLedger'
<1> DEFINE Allocs(u) == {j \in Slots : fate[j][u] >= Allocated /\ s[j].chans[u] = None}
           Uses(d) == {u \in Usages : DeviceOf(u) = d}
           keyed(j) == {u \in Usages : fate[j][u] >= Keyed}
<1>1. /\ stream' = [j \in Slots |->
            [s[j] EXCEPT !.flags = @ \cup keyed(j),
                         !.chans = [u \in Usages |->
                             IF fate[j][u] >= Stored /\ @[u] = None THEN s[j].pid ELSE @[u]]]]
      /\ ca_flags' = ca_flags \cup {u \in Usages : \E j \in Slots : fate[j][u] = Done}
      /\ channels' = [d \in Demuxes |-> channels[d] + Cardinality(UNION {Allocs(u) : u \in Uses(d)})]
  BY DEF ca_prepare
<1>2. ASSUME NEW j \in Slots, NEW u \in Usages
      PROVE  /\ fate[j][u] >= Allocated <=> fate[j][u] = Done
             /\ fate[j][u] >= Stored <=> fate[j][u] = Done
             /\ fate[j][u] >= Keyed <=> fate[j][u] = Done
  <2>1. fate[j][u] \in {Later, Nothing, Done}
    BY DEF Smooth
  <2> QED BY <2>1, Stages
<1> DEFINE done == fate[i]["des"] = Done
           Gains == IF done THEN {i} ELSE {}
<1>3. Uses("clear") = {"des"} /\ Uses("secure") = {} /\ Uses("inject") = {"enc"}
  BY DEF DeviceOf, Usages
<1>4. done => stream[i].chans["des"] = None
  BY DEF ClearLedger, Holders, Usages
<1>5. Allocs("des") = Gains /\ Allocs("enc") = {}
  BY <1>2, <1>4 DEF Usages
<1>6. ca_flags' \subseteq {"des"}
  BY <1>1 DEF ClearLedger
<1>7. /\ UNION {Allocs(u) : u \in Uses("clear")} = Gains
      /\ UNION {Allocs(u) : u \in Uses("secure")} = {}
      /\ UNION {Allocs(u) : u \in Uses("inject")} = {}
  <2> HIDE DEF Allocs, Uses, Gains
  <2> QED BY <1>3, <1>5
<1>8. /\ channels'["clear"] = channels["clear"] + Cardinality(Gains)
      /\ channels'["secure"] = channels["secure"] + Cardinality({})
      /\ channels'["inject"] = channels["inject"] + Cardinality({})
  <2> HIDE DEF Allocs, Uses, Gains
  <2> QED BY <1>1, <1>7 DEF Demuxes
<1>9. ASSUME NEW j \in Slots
      PROVE  /\ stream'[j].flags = s[j].flags \cup keyed(j)
             /\ stream'[j].key_token = s[j].key_token
             /\ stream'[j].chans["enc"] = stream[j].chans["enc"]
             /\ stream'[j].chans["des"] = IF j = i /\ done THEN s[j].pid ELSE stream[j].chans["des"]
  <2> DEFINE chans(c) == [u \in Usages |-> IF fate[j][u] >= Stored /\ c[u] = None THEN s[j].pid ELSE c[u]]
  <2>1. /\ stream'[j].flags = s[j].flags \cup keyed(j) /\ stream'[j].chans = chans(s[j].chans)
        /\ stream'[j].key_token = s[j].key_token
    <3>1. stream'[j] = [s[j] EXCEPT !.flags = s[j].flags \cup keyed(j), !.chans = chans(s[j].chans)]
      BY <1>1
    <3> HIDE DEF keyed, chans
    <3> QED BY <3>1 DEF Streams
  <2>2. stream'[j].chans = chans(stream[j].chans)
    <3> HIDE DEF chans
    <3>1. s[j].chans = stream[j].chans
      OBVIOUS
    <3> QED BY <2>1, <3>1
  <2>3. stream'[j].chans["enc"] = stream[j].chans["enc"]
    BY <1>2, <2>2 DEF Usages
  <2>4. stream'[j].chans["des"] = IF j = i /\ done THEN s[j].pid ELSE stream[j].chans["des"]
    BY <1>2, <1>4, <2>2 DEF Usages
  <2> QED BY <2>1, <2>3, <2>4
<1>10. done => "des" \in keyed(i)
  BY <1>2 DEF Usages
<1> HIDE DEF Allocs, Uses, keyed, done
<1>11. Holders' = Holders \cup Gains /\ Holders \cap Gains = {}
  BY <1>4, <1>9 DEF Holders
<1>12. channels'["secure"] = 0 /\ channels'["inject"] = 0
  BY <1>8, FS_EmptySet DEF ClearLedger
<1>13. channels'["clear"] = Cardinality(Holders')
  <2>1. IsFiniteSet(Holders) /\ Cardinality(Holders) \in Nat
    BY Finite DEF Holders
  <2>2. channels'["clear"] = Cardinality(Holders) + Cardinality(Gains)
    BY <1>8 DEF ClearLedger
  <2>3. CASE ~done
    <3>1. Holders' = Holders
      BY <1>11, <2>3
    <3>2. channels'["clear"] = Cardinality(Holders) + 0
      BY <2>2, <2>3, FS_EmptySet
    <3> QED BY <2>1, <3>1, <3>2
  <2>4. CASE done
    <3>1. Gains = {i} /\ i \notin Holders
      BY <1>11, <2>4
    <3>2. Cardinality({i}) = 1
      BY FS_Singleton
    <3>3. Cardinality(Holders \cup {i}) = Cardinality(Holders) + 1
      BY <2>1, <3>1, FS_AddElement
    <3> QED BY <1>11, <2>2, <3>1, <3>2, <3>3
  <2> QED BY <2>3, <2>4
<1>14. \A j \in Holders' : stream'[j].key_token # None /\ "des" \in stream'[j].flags
  <2> SUFFICES ASSUME NEW j \in Slots, j \in Holders \/ (done /\ j = i)
               PROVE  stream'[j].key_token # None /\ "des" \in stream'[j].flags
    BY <1>11 DEF Holders
  <2>1. CASE j \in Holders
    BY <1>9, <2>1 DEF ClearLedger
  <2>2. CASE done /\ j = i
    BY <1>9, <1>10, <2>2
  <2> QED BY <2>1, <2>2
<1> QED BY <1>6, <1>9, <1>12, <1>13, <1>14 DEF ClearLedger

\* A step that moves no channel and takes no token keeps the books.
SameAccount(j) ==
    /\ stream'[j].chans = stream[j].chans /\ stream'[j].flags = stream[j].flags
    /\ stream[j].key_token # None => stream'[j].key_token # None

\* It writes one slot, whose account stays the same.
LEMMA OneSlotAccount ==
    ASSUME stream \in [Slots -> Streams], NEW i \in Slots, NEW r,
           stream' = [stream EXCEPT ![i] = r],
           r.chans = stream[i].chans, r.flags = stream[i].flags,
           stream[i].key_token # None => r.key_token # None
    PROVE  \A j \in Slots : SameAccount(j)
<1>1. stream'[i] = r /\ \A j \in Slots \ {i} : stream'[j] = stream[j]
  OBVIOUS
<1> QED BY <1>1 DEF SameAccount

LEMMA FiltersAccount ==
    ASSUME TypeOK, NEW p \in Pids, Filter(p)
    PROVE  \A j \in Slots : SameAccount(j)
<1>t. stream \in [Slots -> Streams]
  BY DEF TypeOK, Streams
<1>1. CASE dvr_record_open_filter(p)
  <2>1. PICK i \in IF SlotOf(p) # {} THEN SlotOf(p) ELSE FirstFree :
          stream' = [stream EXCEPT
              ![i].fd = IF SlotOf(p) # {} /\ stream[i].key_token # None /\ encrypt_pvr
                        THEN "secure" ELSE "clear",
              ![i].running = FALSE, ![i].pid = p]
    BY <1>1 DEF dvr_record_open_filter
  <2>2. i \in Slots
    <3>1. SlotOf(p) \subseteq Slots /\ FirstFree \subseteq Slots
      BY DEF SlotOf, FirstFree
    <3> QED BY <2>1, <3>1
  <2> DEFINE fd == IF SlotOf(p) # {} /\ stream[i].key_token # None /\ encrypt_pvr
                   THEN "secure" ELSE "clear"
             r == [stream[i] EXCEPT !.fd = fd, !.running = FALSE, !.pid = p]
  <2>3. stream' = [stream EXCEPT ![i] = r]
    BY <2>1
  <2> HIDE DEF fd
  <2>4. r.chans = stream[i].chans /\ r.flags = stream[i].flags /\ r.key_token = stream[i].key_token
    BY <1>t, <2>2 DEF Streams
  <2> HIDE DEF r
  <2> QED BY <1>t, <2>2, <2>3, <2>4, OneSlotAccount
<1>2. ASSUME NEW b \in BOOLEAN, NEW i \in Slots, i = recFilerId[p],
             stream' = [stream EXCEPT ![i].running = b, ![i].started = b]
      PROVE  \A j \in Slots : SameAccount(j)
  <2> DEFINE r == [stream[i] EXCEPT !.running = b, !.started = b]
  <2>1. stream' = [stream EXCEPT ![i] = r]
    BY <1>2
  <2>2. r.chans = stream[i].chans /\ r.flags = stream[i].flags /\ r.key_token = stream[i].key_token
    BY <1>t DEF Streams
  <2> HIDE DEF r
  <2> QED BY <1>t, <2>1, <2>2, OneSlotAccount
<1>3. CASE dvr_record_start_filter(p)
  <2>1. recFilerId[p] \in Slots
    BY <1>3 DEF dvr_record_start_filter, TypeOK
  <2> QED BY <1>2, <1>3, <2>1 DEF dvr_record_start_filter
<1>4. CASE dvr_record_stop_filter(p)
  <2>1. recFilerId[p] \in Slots
    BY <1>4 DEF dvr_record_stop_filter, TypeOK
  <2> QED BY <1>2, <1>4, <2>1 DEF dvr_record_stop_filter
<1>5. CASE dvr_record_close_filter(p)
  <2>1. PICK i \in Slots : i = recFilerId[p]
    BY <1>5 DEF dvr_record_close_filter, TypeOK
  <2>2. CASE stream' = stream
    BY <2>2 DEF SameAccount
  <2>3. CASE stream' = [stream EXCEPT ![i] = Cleared(@)]
    <3> DEFINE r == Cleared(stream[i])
    <3>1. stream' = [stream EXCEPT ![i] = r]
      BY <2>3
    <3>2. r.chans = stream[i].chans /\ r.flags = stream[i].flags /\ r.key_token = stream[i].key_token
      BY <1>t DEF Streams, Cleared
    <3> HIDE DEF r
    <3> QED BY <1>t, <3>1, <3>2, OneSlotAccount
  <2> QED BY <1>5, <2>1, <2>2, <2>3 DEF dvr_record_close_filter
<1> QED BY <1>1, <1>3, <1>4, <1>5 DEF Filter

\* A token for a free slot, or in the place of another one.
LEMMA TokensAccount ==
    ASSUME TypeOK, NEW p \in Pids, NEW token \in Tokens,
           BindFails(p, token) \/ ScrambledAgain(p, token)
    PROVE  \A j \in Slots : SameAccount(j)
<1>t. stream \in [Slots -> Streams] /\ token # None
  BY NoneAssumption DEF TypeOK, Streams
<1>1. CASE stream' = stream
  BY <1>1 DEF SameAccount
<1>2. ASSUME NEW i \in FirstFree, stream' = [stream EXCEPT ![i].pid = p, ![i].key_token = token]
      PROVE  \A j \in Slots : SameAccount(j)
  <2> DEFINE r == [stream[i] EXCEPT !.pid = p, !.key_token = token]
  <2>1. i \in Slots /\ stream' = [stream EXCEPT ![i] = r]
    BY <1>2 DEF FirstFree, SlotOf
  <2>2. r.chans = stream[i].chans /\ r.flags = stream[i].flags /\ r.key_token = token
    BY <1>t, <2>1 DEF Streams
  <2> HIDE DEF r
  <2> QED BY <1>t, <2>1, <2>2, OneSlotAccount
<1>3. ASSUME NEW i \in SlotOf(p), stream' = [stream EXCEPT ![i].key_token = token]
      PROVE  \A j \in Slots : SameAccount(j)
  <2> DEFINE r == [stream[i] EXCEPT !.key_token = token]
  <2>1. i \in Slots /\ stream' = [stream EXCEPT ![i] = r]
    BY <1>3 DEF SlotOf
  <2>2. r.chans = stream[i].chans /\ r.flags = stream[i].flags /\ r.key_token = token
    BY <1>t, <2>1 DEF Streams
  <2> HIDE DEF r
  <2> QED BY <1>t, <2>1, <2>2, OneSlotAccount
<1> QED BY <1>1, <1>2, <1>3 DEF BindFails, ScrambledAgain

LEMMA SessionKept ==
    ASSUME TypeOK, encrypt_pvr, SessionLedger,
           OpenSession \/ UNCHANGED <<dsm_sess, dsmSessions, is_secure_mode>>
    PROVE  SessionLedger'
<1>1. encrypt_pvr = TRUE /\ dsmSessions \in Int
  BY DEF TypeOK
<1>2. CASE OpenSession
  BY <1>1, <1>2 DEF SessionLedger, OpenSession
<1>3. CASE UNCHANGED <<dsm_sess, dsmSessions, is_secure_mode>>
  BY <1>3 DEF SessionLedger
<1> QED BY <1>2, <1>3

LEMMA SessionFrame ==
    ASSUME TypeOK, SessionBooks, encrypt_pvr' = encrypt_pvr,
           \/ UNCHANGED <<dsm_sess, dsmSessions, is_secure_mode>>
           \/ OpenSession /\ state' # "closed",
           state' = "closed" => state = "closed"
    PROVE  SessionBooks'
<1> SUFFICES ASSUME encrypt_pvr
             PROVE  SessionLedger' /\ (state' = "closed" => ~is_secure_mode')
  BY DEF SessionBooks
<1>1. SessionLedger'
  BY SessionKept DEF SessionBooks
<1> QED BY <1>1 DEF SessionBooks

LEMMA DevicesFrame ==
    ASSUME TypeOK, DeviceBooks, UNCHANGED ca, encrypt_pvr' = encrypt_pvr, \A j \in Slots : SameAccount(j),
           OpenSession \/ UNCHANGED is_secure_mode,
           state' = "closed" <=> state = "closed"
    PROVE  DeviceBooks'
<1>1. ca_flags' = ca_flags /\ useCount' = useCount /\ channels' = channels
  BY DEF ca
<1>2. state' = "closed" => ca_flags' = {}
  BY <1>1 DEF DeviceBooks
<1>3. CASE encrypt_pvr
  <2>1. DeviceLedger'
    BY <1>1, <1>3 DEF DeviceBooks, DeviceLedger, Closes
  <2> QED BY <1>2, <1>3, <2>1 DEF DeviceBooks
<1>4. CASE ~encrypt_pvr
  <2>1. Holders' = Holders
    BY DEF Holders, SameAccount
  <2>2. ~is_secure_mode'
    BY <1>4 DEF DeviceBooks, ClearLedger, OpenSession
  <2>3. ClearLedger'
    BY <1>1, <1>4, <2>1, <2>2 DEF DeviceBooks, ClearLedger, SameAccount, Holders
  <2> QED BY <1>2, <1>4, <2>3 DEF DeviceBooks
<1> QED BY <1>3, <1>4

\* Closing gives the channels and the devices back.
LEMMA CloseDevices ==
    ASSUME TypeOK, DeviceBooks, dvr_record_close
    PROVE  DeviceBooks'
<1>1. /\ state' = "closed" /\ ca_flags' = {} /\ encrypt_pvr' = encrypt_pvr
      /\ useCount' = [d \in Demuxes |->
            IF Closes(d) /\ useCount[d] > 0 THEN useCount[d] - 1 ELSE useCount[d]]
      /\ channels' = [d \in Demuxes |->
            IF useCount'[d] = 0 THEN 0 ELSE channels[d] - Cardinality(Released(d))]
  BY DEF dvr_record_close
<1>2. \A d \in Demuxes : ~Closes(d)'
  BY <1>1 DEF Closes
<1>3. CASE encrypt_pvr
  <2>1. \A d \in Demuxes : useCount'[d] = 0 /\ channels'[d] = 0
    BY <1>1, <1>3 DEF DeviceBooks, DeviceLedger
  <2>2. DeviceLedger'
    BY <1>2, <2>1 DEF DeviceLedger
  <2> QED BY <1>1, <1>3, <2>2 DEF DeviceBooks
<1>4. CASE ~encrypt_pvr
  <2>1. ClearLedger
    BY <1>4 DEF DeviceBooks
  <2>2. ASSUME NEW j \in Slots
        PROVE  stream'[j].chans["des"] = None /\ stream'[j].chans["enc"] = None
    <3>1. CASE j \in Scrambled
      <4>1. stream'[j] = [stream[j] EXCEPT !.key_token = None, !.chans = NoChannels]
        BY <3>1 DEF dvr_record_close
      <4>2. stream'[j].chans = NoChannels
        BY <4>1 DEF TypeOK
      <4> QED BY <4>2 DEF NoChannels, Usages
    <3>2. CASE j \notin Scrambled
      <4>1. stream'[j] = stream[j]
        BY <3>2 DEF dvr_record_close
      <4> QED BY <2>1, <3>2, <4>1 DEF ClearLedger, Holders, Scrambled
    <3> QED BY <3>1, <3>2
  <2>3. Holders' = {}
    BY <2>2 DEF Holders
  <2>4. /\ DeviceOf("des") = "clear" /\ DeviceOf("enc") = "inject"
    BY <1>4 DEF DeviceOf
  <2>5. Released("clear") = Holders \X {"des"} /\ Released("secure") = {} /\ Released("inject") = {}
    <3>1. Holders \subseteq Scrambled
      BY <2>1 DEF ClearLedger, Holders, Scrambled
    <3>2. \A i \in Scrambled : stream[i].chans["enc"] = None
      BY <2>1 DEF ClearLedger, Scrambled
    <3>3. ASSUME NEW x \in Released("clear")
          PROVE  x \in Holders \X {"des"}
      BY <2>4, <3>2 DEF Released, Usages, Scrambled, Holders
    <3>4. ASSUME NEW x \in Holders \X {"des"}
          PROVE  x \in Released("clear")
      BY <2>4, <3>1 DEF Released, Usages, Holders
    <3>5. Released("secure") = {} /\ Released("inject") = {}
      BY <2>4, <3>2 DEF Released, Usages
    <3> QED BY <3>3, <3>4, <3>5
  <2>6. Cardinality(Released("clear")) = Cardinality(Holders)
    <3>1. IsFiniteSet(Holders) /\ Cardinality(Holders) \in Nat
      BY Finite DEF Holders
    <3>2. IsFiniteSet({"des"}) /\ Cardinality({"des"}) = 1
      BY FS_Singleton
    <3>3. Cardinality(Holders \X {"des"}) = Cardinality(Holders) * Cardinality({"des"})
      BY <3>1, <3>2, FS_Product
    <3>4. Cardinality(Holders) * Cardinality({"des"}) = Cardinality(Holders) * 1
      BY <3>2
    <3>5. Cardinality(Holders) * 1 = Cardinality(Holders)
      BY <3>1
    <3>6. Cardinality(Released("clear")) = Cardinality(Holders \X {"des"})
      BY <2>5
    <3> QED BY <3>3, <3>4, <3>5, <3>6
  <2>7. Cardinality(Released("secure")) = 0 /\ Cardinality(Released("inject")) = 0
    BY <2>5, FS_EmptySet
  <2>8. Cardinality(Holders) \in Nat
    BY Finite DEF Holders
  <2>9. channels'["clear"] = 0 /\ channels'["secure"] = 0 /\ channels'["inject"] = 0
    BY <1>1, <2>1, <2>6, <2>7, <2>8 DEF ClearLedger, Demuxes
  <2>10. ~is_secure_mode'
    BY <2>1 DEF ClearLedger, dvr_record_close
  <2>11. ClearLedger'
    BY <1>1, <2>2, <2>3, <2>9, <2>10, FS_EmptySet DEF ClearLedger
  <2> QED BY <1>1, <1>4, <2>11 DEF DeviceBooks
<1> QED BY <1>3, <1>4

\* The tokens that prepare channels, for the stream of one slot.
Prepares(s, i) ==
    \E f \in Failures(Asking({i}, Wanted)) :
        /\ "caFailed" \notin events' => DOMAIN f = {}
        /\ ca_prepare(s, InTurn(Fate(Asking({i}, Wanted), f)))

LEMMA TokenPrepares ==
    ASSUME TypeOK, NEW p \in Pids, NEW token \in Tokens, ClearToScrambled(p, token) \/ NewPid(p, token)
    PROVE  \E i \in Slots, s \in [Slots -> Streams] :
             /\ Prepares(s, i)
             /\ s[i].pid # None
             /\ ~encrypt_pvr /\ "caFailed" \notin events' => s[i].key_token # None
             /\ \A j \in Slots : s[j].chans = stream[j].chans /\ s[j].flags = stream[j].flags
             /\ \A j \in Slots \ {i} : s[j].key_token = stream[j].key_token
<1>t. stream \in [Slots -> Streams] /\ None \notin Pids /\ None \notin Tokens
  BY NoneAssumption DEF TypeOK, Streams
<1>1. CASE ClearToScrambled(p, token)
  <2>1. PICK i \in SlotOf(p), created \in BOOLEAN, runs \in BOOLEAN :
          /\ stream[i].key_token = None
          /\ encrypt_pvr \/ created
          /\ ~runs => encrypt_pvr /\ created /\ stream[i].started
          /\ IF is_secure_mode THEN UNCHANGED <<dsm_sess, dsmSessions, is_secure_mode>> ELSE OpenSession
          /\ BindUnless(is_secure_mode, token)
          /\ \E f \in Failures(Asking({i}, Wanted)) :
             LET fate == InTurn(Fate(Asking({i}, Wanted), f))
                 s == IF encrypt_pvr THEN Moved(stream[i], created, runs) ELSE stream[i]
                 ok == Prepared(fate, i) IN
             /\ Fail(f, Late \cup Other(token) \cup If(~created, "createFailed")
                          \cup If(~runs, "startFailed"))
             /\ ca_prepare([stream EXCEPT ![i] = [s EXCEPT !.key_token = IF ok THEN token ELSE None]], fate)
             /\ Told(p, ok)
    BY <1>1 DEF ClearToScrambled
  <2> DEFINE A == Asking({i}, Wanted)
             r == IF encrypt_pvr THEN Moved(stream[i], created, runs) ELSE stream[i]
  <2>2. PICK f \in Failures(A) :
          LET fate == InTurn(Fate(A, f))
              ok == Prepared(fate, i) IN
          /\ Fail(f, Late \cup Other(token) \cup If(~created, "createFailed") \cup If(~runs, "startFailed"))
          /\ ca_prepare([stream EXCEPT ![i] = [r EXCEPT !.key_token = IF ok THEN token ELSE None]], fate)
    BY <2>1
  <2> DEFINE fate == InTurn(Fate(A, f))
             ok == Prepared(fate, i)
             key == IF ok THEN token ELSE None
             s == [stream EXCEPT ![i] = [r EXCEPT !.key_token = key]]
             e == Late \cup Other(token) \cup If(~created, "createFailed") \cup If(~runs, "startFailed")
  <2>3. i \in Slots /\ stream[i].pid = p /\ stream[i] \in Streams
    BY <1>t DEF SlotOf
  <2>4. A \in Asked
    BY <2>3, AskingTyped, WantedTyped
  <2>5. e \in SUBSET Events
    BY HeldEvents
  <2>6. "caFailed" \notin events' => DOMAIN f = {}
    <3>1. Fail(f, e)
      BY <2>2
    <3> HIDE DEF A, e
    <3> QED BY <2>4, <2>5, <3>1, FailDoes
  <2>7. ca_prepare(s, fate)
    BY <2>2
  <2>8. ~encrypt_pvr /\ "caFailed" \notin events' => ok
    <3> SUFFICES ASSUME ~encrypt_pvr, DOMAIN f = {}
                 PROVE  ok
      BY <2>6
    <3>1. \A u \in Usages : fate[i][u] = IF <<i, u>> \in A THEN Usual(u) ELSE Later
      <4> HIDE DEF A
      <4> QED BY <2>3, <2>4, NoFailure
    <3>2. A \subseteq {<<i, "des">>}
      BY DEF Asking, Wanted
    <3> QED BY <3>1, <3>2 DEF Prepared, Usual
  <2>9. Prepares(s, i)
    BY <2>6, <2>7 DEF Prepares
  <2>10. /\ r \in Streams /\ r.pid = p /\ r.chans = stream[i].chans /\ r.flags = stream[i].flags
    BY <2>3 DEF Streams, Moved
  <2> HIDE DEF r, A, fate, ok
  <2>11. /\ s \in [Slots -> Streams] /\ s[i].pid = p /\ s[i].key_token = key
         /\ \A j \in Slots : s[j].chans = stream[j].chans /\ s[j].flags = stream[j].flags
         /\ \A j \in Slots \ {i} : s[j].key_token = stream[j].key_token
    BY <1>t, <2>3, <2>10 DEF Streams
  <2> HIDE DEF s
  <2> QED BY <1>t, <2>3, <2>8, <2>9, <2>11
<1>2. CASE NewPid(p, token)
  <2>1. PICK i \in FirstFree :
          \E f \in Failures(Asking({i}, Wanted)) :
             /\ Fail(f, Late \cup Other(token))
             /\ ca_prepare([stream EXCEPT ![i] = [stream[i] EXCEPT !.pid = p, !.key_token = token]],
                           InTurn(Fate(Asking({i}, Wanted), f)))
    BY <1>2 DEF NewPid
  <2> DEFINE A == Asking({i}, Wanted)
             s == [stream EXCEPT ![i] = [stream[i] EXCEPT !.pid = p, !.key_token = token]]
  <2>2. PICK f \in Failures(A) :
          Fail(f, Late \cup Other(token)) /\ ca_prepare(s, InTurn(Fate(A, f)))
    BY <2>1
  <2>3. i \in Slots /\ stream[i] \in Streams
    BY <1>t DEF FirstFree, SlotOf
  <2>4. A \in Asked
    BY <2>3, AskingTyped, WantedTyped
  <2>5. Late \cup Other(token) \in SUBSET Events
    BY HeldEvents
  <2>6. "caFailed" \notin events' => DOMAIN f = {}
    <3> HIDE DEF A, s
    <3> QED BY <2>2, <2>4, <2>5, FailDoes
  <2>7. Prepares(s, i)
    BY <2>2, <2>6 DEF Prepares
  <2>8. /\ s \in [Slots -> Streams] /\ s[i].pid = p /\ s[i].key_token = token
        /\ \A j \in Slots : s[j].chans = stream[j].chans /\ s[j].flags = stream[j].flags
        /\ \A j \in Slots \ {i} : s[j].key_token = stream[j].key_token
    BY <1>t, <2>3 DEF Streams
  <2> HIDE DEF s
  <2> QED BY <1>t, <2>3, <2>7, <2>8
<1> QED BY <1>1, <1>2

\* Where nothing fails, who asks gets to the end or nowhere.
LEMMA SmoothFate ==
    ASSUME NEW A \in Asked, NEW f, DOMAIN f = {}
    PROVE  /\ Fate(A, f) \in Smooth
           /\ \A i \in Slots, u \in Usages : Fate(A, f)[i][u] = Done => <<i, u>> \in A
<1>1. \A i \in Slots, u \in Usages : Fate(A, f)[i][u] = IF <<i, u>> \in A THEN Usual(u) ELSE Later
  BY NoFailure
<1>2. ASSUME NEW i \in Slots, NEW u \in Usages
      PROVE  (IF <<i, u>> \in DOMAIN f THEN f[<<i, u>>] ELSE IF <<i, u>> \in A THEN Usual(u) ELSE Later)
                \in {Later, Nothing, Done}
  BY DEF Usual
<1>3. Fate(A, f) \in Smooth
  BY <1>2 DEF Fate, Smooth
<1>4. Later # Done
  BY Stages
<1> QED BY <1>1, <1>3, <1>4

\* The steps that only the close and the record thread tell from the other ones.
Others ==
    \/ Elsewhere
    \/ \E p \in Pids : Filter(p)
    \/ \E p \in Pids, token \in Tokens : BindFails(p, token) \/ ScrambledAgain(p, token)

LEMMA OthersDo ==
    ASSUME TypeOK, Others, "lateToken" \notin events'
    PROVE  /\ UNCHANGED <<ca, encrypt_pvr>> /\ (state' = "closed" <=> state = "closed")
           /\ \A j \in Slots : SameAccount(j)
           /\ \/ UNCHANGED <<dsm_sess, dsmSessions, is_secure_mode>>
              \/ OpenSession /\ state' # "closed"
<1>1. CASE Elsewhere
  <2>1. /\ UNCHANGED <<stream, ca, encrypt_pvr, dsm_sess, dsmSessions, is_secure_mode>>
        /\ state' = "closed" <=> state = "closed"
    BY <1>1 DEF Elsewhere, dvr_record_start, dvr_record_stop, setRecordHandle, SlotReady,
                PrepareFails, vars, dsm, ca
  <2> QED BY <2>1 DEF SameAccount
<1>2. ASSUME NEW p \in Pids, Filter(p)
      PROVE  /\ UNCHANGED <<ca, encrypt_pvr, dsm_sess, dsmSessions, is_secure_mode, state>>
             /\ \A j \in Slots : SameAccount(j)
  <2>1. UNCHANGED <<ca, encrypt_pvr, dsm_sess, dsmSessions, is_secure_mode, state>>
    BY <1>2 DEF Filter, dvr_record_open_filter, dvr_record_start_filter, dvr_record_stop_filter,
                dvr_record_close_filter, dsm
  <2> QED BY <1>2, <2>1, FiltersAccount
<1>3. ASSUME NEW p \in Pids, NEW token \in Tokens, BindFails(p, token)
      PROVE  /\ UNCHANGED <<ca, encrypt_pvr, state>> /\ \A j \in Slots : SameAccount(j)
             /\ \/ UNCHANGED <<dsm_sess, dsmSessions, is_secure_mode>>
                \/ OpenSession /\ state' # "closed"
  <2>1. UNCHANGED <<ca, encrypt_pvr, state>> /\ Late \subseteq events'
    BY <1>3 DEF BindFails, Record
  <2>2. OpenSession \/ UNCHANGED <<dsm_sess, dsmSessions, is_secure_mode>>
    BY <1>3 DEF BindFails
  <2> QED BY <1>3, <2>1, <2>2, TokensAccount DEF Late, If
<1>4. ASSUME NEW p \in Pids, NEW token \in Tokens, ScrambledAgain(p, token)
      PROVE  /\ UNCHANGED <<ca, encrypt_pvr, dsm_sess, dsmSessions, is_secure_mode, state>>
             /\ \A j \in Slots : SameAccount(j)
  <2>1. UNCHANGED <<ca, encrypt_pvr, dsm_sess, dsmSessions, is_secure_mode, state>>
    BY <1>4 DEF ScrambledAgain, dsm
  <2> QED BY <1>4, <2>1, TokensAccount
<1> QED BY <1>1, <1>2, <1>3, <1>4 DEF Others

\* Tokens that prepare channels are set before the close, or recorded.
LEMMA TokensEarly ==
    ASSUME NEW p \in Pids, NEW token \in Tokens, ClearToScrambled(p, token) \/ NewPid(p, token),
           "lateToken" \notin events'
    PROVE  /\ state # "closed" /\ state' = state /\ encrypt_pvr' = encrypt_pvr
           /\ OpenSession \/ UNCHANGED <<dsm_sess, dsmSessions, is_secure_mode>>
<1>1. Late \subseteq events' /\ state' = state /\ encrypt_pvr' = encrypt_pvr
  BY DEF ClearToScrambled, NewPid, Fail, Record
<1>2. OpenSession \/ UNCHANGED <<dsm_sess, dsmSessions, is_secure_mode>>
  BY DEF ClearToScrambled, NewPid
<1> QED BY <1>1, <1>2 DEF Late, If

\* Each step keeps the session's books, unless a token is set after the close or secure
\* resources cannot be given back.
LEMMA SessionBooksKept == TypeOK /\ SessionCounted /\ SessionKeptBooks /\ [Next]_vars => SessionKeptBooks'
<1> SUFFICES ASSUME TypeOK, SessionCounted, SessionBooks, [Next]_vars,
                    events' \cap {"lateToken", "releaseFailed"} = {}
             PROVE  SessionBooks'
  BY EventsKept DEF SessionKeptBooks
<1>1. CASE dvr_record_open
  BY <1>1 DEF dvr_record_open, SessionBooks, SessionLedger
<1>2. CASE dvr_record_close
  <2>1. encrypt_pvr' = encrypt_pvr
    BY <1>2 DEF dvr_record_close
  <2>2. CASE ~is_secure_mode /\ UNCHANGED <<is_secure_mode, dsm>>
    BY <2>1, <2>2 DEF SessionBooks, SessionLedger, dsm
  <2>3. CASE is_secure_mode /\ is_secure_mode' = FALSE /\ dsm_sess' = FALSE /\ dsmSessions' = dsmSessions - 1
    BY <2>1, <2>3 DEF SessionBooks, SessionLedger, SessionCounted
  <2>4. CASE Record({"releaseFailed"})
    BY <2>4 DEF Record
  <2> QED BY <1>2, <2>2, <2>3, <2>4 DEF dvr_record_close
<1>3. CASE dvr_record_read
  <2>1. UNCHANGED <<state, encrypt_pvr, dsm_sess, dsmSessions, is_secure_mode>>
    BY <1>3 DEF dvr_record_read, dsm
  <2> QED BY <2>1, SessionFrame
<1>4. CASE Others
  BY <1>4, OthersDo, SessionFrame
<1>5. ASSUME NEW p \in Pids, NEW token \in Tokens, ClearToScrambled(p, token) \/ NewPid(p, token)
      PROVE  SessionBooks'
  BY <1>5, SessionFrame, TokensEarly
<1> QED BY <1>1, <1>2, <1>3, <1>4, <1>5, StepCases DEF Filter, Others

\* Each step keeps the devices' books, unless a token is set after the close or preparing a
\* channel fails.
LEMMA DeviceBooksKept == TypeOK /\ DevicesKeptBooks /\ [Next]_vars => DevicesKeptBooks'
<1> SUFFICES ASSUME TypeOK, DeviceBooks, [Next]_vars, events' \cap {"lateToken", "caFailed"} = {}
             PROVE  DeviceBooks'
  BY EventsKept DEF DevicesKeptBooks
<1>1. CASE dvr_record_open
  <2>1. /\ state = "closed" /\ state' # "closed" /\ ca_flags' = {} /\ is_secure_mode' = FALSE
        /\ UNCHANGED <<encrypt_pvr, useCount, channels>>
        /\ \A j \in Slots : stream'[j] = Free
    BY <1>1 DEF dvr_record_open
  <2>2. ca_flags = {}
    BY <2>1 DEF DeviceBooks
  <2>3. CASE encrypt_pvr
    BY <2>1, <2>2, <2>3 DEF DeviceBooks, DeviceLedger, Closes
  <2>4. CASE ~encrypt_pvr
    <3>1. Holders' = {} /\ Holders = {} /\ \A j \in Slots : stream'[j].chans["enc"] = None
      BY <2>1, <2>4 DEF DeviceBooks, ClearLedger, Holders, Free, NoChannels, Usages
    <3> QED BY <2>1, <2>4, <3>1 DEF DeviceBooks, ClearLedger
  <2> QED BY <2>3, <2>4
<1>2. CASE dvr_record_close
  BY <1>2, CloseDevices
<1>3. CASE dvr_record_read
  <2> DEFINE A == Asking(Scrambled, Usages)
  <2>1. /\ is_secure_mode /\ state = "started" /\ UNCHANGED <<state, encrypt_pvr, is_secure_mode>>
        /\ \E f \in Failures(A) : Fail(f, {}) /\ ca_prepare(stream, Fate(A, f))
    BY <1>3 DEF dvr_record_read
  <2>2. encrypt_pvr /\ DeviceLedger
    BY <2>1 DEF DeviceBooks, ClearLedger
  <2>3. A \in Asked
    BY AskingTyped DEF Scrambled
  <2> HIDE DEF A
  <2>4. PICK f \in Failures(A) : Fail(f, {}) /\ ca_prepare(stream, Fate(A, f))
    BY <2>1
  <2>5. DOMAIN f = {}
    BY <2>3, <2>4, FailDoes
  <2>6. DeviceLedger'
    BY <2>2, <2>3, <2>4, <2>5, PreparingSecure, SmoothFate
  <2> QED BY <2>1, <2>2, <2>6 DEF DeviceBooks
<1>4. CASE Others
  BY <1>4, OthersDo, DevicesFrame
<1>5. ASSUME NEW p \in Pids, NEW token \in Tokens, ClearToScrambled(p, token) \/ NewPid(p, token)
      PROVE  DeviceBooks'
  <2>1. /\ state # "closed" /\ state' = state /\ encrypt_pvr' = encrypt_pvr
        /\ OpenSession \/ UNCHANGED <<dsm_sess, dsmSessions, is_secure_mode>>
    BY <1>5, TokensEarly
  <2>2. PICK i \in Slots, s \in [Slots -> Streams] :
          /\ Prepares(s, i)
          /\ s[i].pid # None
          /\ ~encrypt_pvr /\ "caFailed" \notin events' => s[i].key_token # None
          /\ \A j \in Slots : s[j].chans = stream[j].chans /\ s[j].flags = stream[j].flags
          /\ \A j \in Slots \ {i} : s[j].key_token = stream[j].key_token
    BY <1>5, TokenPrepares
  <2> DEFINE A == Asking({i}, Wanted)
  <2>3. PICK f \in Failures(A) : DOMAIN f = {} /\ ca_prepare(s, InTurn(Fate(A, f)))
    BY <2>2 DEF Prepares
  <2>4. A \in Asked
    BY AskingTyped, WantedTyped
  <2>5. /\ ca_prepare(s, Fate(A, f)) /\ Fate(A, f) \in Smooth
        /\ \A j \in Slots, u \in Usages : Fate(A, f)[j][u] = Done => <<j, u>> \in A
    <3> HIDE DEF A
    <3> QED BY <2>3, <2>4, NoFailure, SmoothFate
  <2>6. CASE encrypt_pvr
    <3>1. DeviceLedger'
      <4> HIDE DEF A
      <4> QED BY <2>5, <2>6, PreparingSecure DEF DeviceBooks
    <3> QED BY <2>1, <2>6, <3>1 DEF DeviceBooks
  <2>7. CASE ~encrypt_pvr
    <3>1. ClearLedger /\ ~is_secure_mode'
      BY <2>1, <2>7 DEF DeviceBooks, ClearLedger, OpenSession
    <3>2. \A x \in A : x[1] = i /\ x[2] = "des" /\ "des" \notin stream[i].flags
      BY <2>7 DEF Asking, Wanted
    <3>3. \A j \in Slots, u \in Usages :
            Fate(A, f)[j][u] = Done => j = i /\ u = "des" /\ "des" \notin stream[i].flags
      <4> HIDE DEF A
      <4> QED BY <2>5, <3>2
    <3>4. ClearLedger'
      <4> HIDE DEF A
      <4> QED BY <2>1, <2>2, <2>5, <2>7, <3>1, <3>3, PreparingClear
    <3> QED BY <2>1, <2>7, <3>4 DEF DeviceBooks
  <2> QED BY <2>6, <2>7
<1> QED BY <1>1, <1>2, <1>3, <1>4, <1>5, StepCases DEF Filter, Others

\* Unless a token was set after the close, a closed session leaves no channel, and one that
\* encrypts no user of a ca device, where preparing channels never failed, and no DSM
\* session, where its secure resources could be given back.
THEOREM GivenBack == Spec => []ReleasedOnClose
<1>1. Init => SessionKeptBooks /\ DevicesKeptBooks
  <2> SUFFICES ASSUME Init
               PROVE  SessionBooks /\ DeviceBooks
    BY DEF SessionKeptBooks, DevicesKeptBooks
  <2>1. Holders = {} /\ \A i \in Slots : stream[i].chans["enc"] = None
    BY DEF Init, Holders, Free, NoChannels, Usages
  <2>2. ClearLedger
    BY <2>1, FS_EmptySet DEF Init, ClearLedger, Demuxes
  <2>3. SessionBooks
    BY DEF Init, SessionBooks, SessionLedger
  <2> QED BY <2>2, <2>3 DEF Init, DeviceBooks, DeviceLedger, Closes
<1>2. SessionKeptBooks /\ DevicesKeptBooks => ReleasedOnClose
  <2> SUFFICES ASSUME SessionKeptBooks, DevicesKeptBooks, "lateToken" \notin events, state = "closed"
               PROVE  /\ "caFailed" \notin events =>
                            \A d \in Demuxes : channels[d] = 0 /\ (encrypt_pvr => useCount[d] = 0)
                      /\ "releaseFailed" \notin events /\ encrypt_pvr => dsmSessions = 0
    BY DEF ReleasedOnClose
  <2>1. ASSUME "caFailed" \notin events
        PROVE  \A d \in Demuxes : channels[d] = 0 /\ (encrypt_pvr => useCount[d] = 0)
    <3>1. DeviceBooks /\ ca_flags = {}
      BY <2>1 DEF DevicesKeptBooks, DeviceBooks
    <3>2. CASE encrypt_pvr
      BY <3>1, <3>2 DEF DeviceBooks, DeviceLedger, Closes
    <3>3. CASE ~encrypt_pvr
      BY <3>1, <3>3, FS_EmptySet DEF DeviceBooks, ClearLedger, Demuxes
    <3> QED BY <3>2, <3>3
  <2>2. ASSUME "releaseFailed" \notin events, encrypt_pvr
        PROVE  dsmSessions = 0
    BY <2>2 DEF SessionKeptBooks, SessionBooks, SessionLedger
  <2> QED BY <2>1, <2>2
<1> QED BY <1>1, <1>2, SessionBooksKept, DeviceBooksKept, Typing, PTL DEF Spec
=============================================================================
