------------------------- MODULE TunerRegistry_proof -------------------------
(***************************************************************************)
(* Proofs about TunerRegistry, for every number of clients, demuxes and    *)
(* frontends and every combination of misuses: type correctness, that      *)
(* demuxes return to the pool, and what holds as long as callers keep to   *)
(* what the code copes with.                                               *)
(***************************************************************************)
EXTENDS TunerRegistry, TLAPS

\* A call records nothing but misuses.
LEMMA RecordTyped ==
    ASSUME misuse \in SUBSET Misuses, NEW m \in SUBSET Misuses, Record(m)
    PROVE  misuse' \in SUBSET Misuses
BY DEF Record

LEMMA OverlapTyped == Overlap \in SUBSET Misuses
BY DEF Overlap, If, Misuses

LEMMA BeginTyped == misuse \in SUBSET Misuses /\ Begin => misuse' \in SUBSET Misuses
BY OverlapTyped, RecordTyped DEF Begin

LEMMA MidCloseTyped ==
    /\ \A d : ClosedMidCall(d) \in SUBSET Misuses
    /\ \A f : CalledMidClose(f) \in SUBSET Misuses
BY DEF ClosedMidCall, CalledMidClose, If, Misuses

\* What a client's call leaves of the types.
LEMMA ReturnTyped ==
    ASSUME TypeOK, NEW c \in Clients, Return(c)
    PROVE  /\ pc' \in [Clients -> Steps] /\ choice' \in [Clients -> Demuxes \cup {None}]
           /\ feeding' \in [Clients -> Frontends \cup {None}]
           /\ \A b \in Clients : /\ pc'[b] = "idle" <=> choice'[b] = None
                                 /\ pc'[b] \in FeedSteps <=> feeding'[b] # None
BY NoneAssumption DEF TypeOK, Return, Continue, Steps, FeedSteps

LEMMA FrontendAtTyped ==
    ASSUME TypeOK, NEW f \in Frontends, NEW p \in FrontendSteps, NEW d \in Demuxes \cup {None},
           p \in {"join", "start", "stop", "free"} <=> d # None, FrontendAt(f, p, d)
    PROVE  /\ fpc' \in [Frontends -> FrontendSteps] /\ found' \in [Frontends -> Demuxes \cup {None}]
           /\ \A g \in Frontends : fpc'[g] \in {"join", "start", "stop", "free"} <=> found'[g] # None
BY DEF TypeOK, FrontendAt

LEMMA InputTyped ==
    ASSUME TypeOK, NEW d, NEW f \in Frontends, Joined(d) \/ Started(d, f)
    PROVE  input' \in [Demuxes -> Frontends \cup {None}]
BY DEF TypeOK, Joined, Started

LEMMA JoinTyped ==
    ASSUME TypeOK, NEW d, Joined(d)
    PROVE  input' \in [Demuxes -> Frontends \cup {None}]
BY DEF TypeOK, Joined

\* Every step of a client keeps the types.
LEMMA ClientTypesKept ==
    ASSUME TypeOK, NEW c \in Clients,
           openDemux(c) \/ Step(c) \/ \E d \in Demuxes : DemuxCall(c, d)
    PROVE  TypeOK'
<1> USE NoneAssumption DEF TypeOK, Steps, OpenSteps, FeedSteps, CloseSteps
<1>1. CASE openDemux(c)
  <2>1. PICK d \in Demuxes : choice' = [choice EXCEPT ![c] = d]
        BY <1>1 DEF openDemux
  <2>2. misuse' \in SUBSET Misuses
        BY <1>1, BeginTyped DEF openDemux
  <2> QED
        BY <1>1, <2>1, <2>2 DEF openDemux, Continue, demuxes, frontends
<1>2. ASSUME NEW d \in Demuxes, openDemuxById(c, d) PROVE TypeOK'
    BY <1>2, BeginTyped DEF openDemuxById, Continue, demuxes, frontends
<1>3. CASE testInUse(c)
  <2>1. UNCHANGED <<mFrontendToDemux, mInUse, device, lost, playback, input, frontend, mIsLocked,
                    fpc, found, holds, source, misuse>>
        BY <1>3 DEF testInUse, demuxes, frontends
  <2>2. CASE Return(c)
        BY <2>1, <2>2, ReturnTyped
  <2>3. CASE Continue(c, "service") /\ UNCHANGED <<choice, feeding>>
        BY <1>3, <2>1, <2>3 DEF testInUse, Continue
  <2> QED
        BY <1>3, <2>2, <2>3 DEF testInUse
<1>4. CASE setTunerService(c)
    BY <1>4 DEF setTunerService, Continue, frontends
<1>5. CASE setInUse(c)
  <2>1. Return(c) /\ mInUse' \in [Demuxes -> BOOLEAN] /\ holds' \in [Clients -> SUBSET Demuxes]
        BY <1>5 DEF setInUse
  <2> QED
        BY <1>5, <2>1, ReturnTyped DEF setInUse, frontends
<1>6. ASSUME NEW d \in Demuxes, NEW f \in Frontends, setFrontendDataSource(c, d, f)
      PROVE  TypeOK'
  <2>1. misuse' \in SUBSET Misuses
        BY <1>6, OverlapTyped DEF setFrontendDataSource, Record, If, Misuses
  <2> QED
        BY <1>6, <2>1 DEF setFrontendDataSource, Continue, demuxes, frontends
<1>7. CASE isLocked(c)
  <2>1. UNCHANGED <<mFrontendToDemux, mInUse, device, lost, playback, input, frontend, mIsLocked,
                    fpc, found, holds, source, misuse>>
        BY <1>7 DEF isLocked, demuxes, frontends
  <2>2. CASE Return(c)
        BY <2>1, <2>2, ReturnTyped
  <2>3. CASE Continue(c, "join") /\ UNCHANGED <<choice, feeding>>
        BY <1>7, <2>1, <2>3 DEF isLocked, Continue
  <2> QED
        BY <1>7, <2>2, <2>3 DEF isLocked
<1>8. CASE joinInput(c)
    BY <1>8, JoinTyped DEF joinInput, Continue, demuxes, frontends
<1>9. CASE startInput(c)
  <2>1. feeding[c] \in Frontends
        BY <1>9 DEF startInput
  <2>2. input' \in [Demuxes -> Frontends \cup {None}]
        BY <1>9, <2>1, InputTyped DEF startInput
  <2>3. Return(c)
        BY <1>9 DEF startInput
  <2> QED
        BY <1>9, <2>2, <2>3, ReturnTyped DEF startInput, demuxes, frontends
<1>10. ASSUME NEW d \in Demuxes, openDvr(c, d) PROVE TypeOK'
    BY <1>10, BeginTyped DEF openDvr, frontends, calls
<1>11. ASSUME NEW d \in Demuxes, close(c, d) PROVE TypeOK'
  <2>1. misuse' \in SUBSET Misuses
        BY <1>11, OverlapTyped, MidCloseTyped DEF close, BeginClose, Record
  <2>2. input' \in [Demuxes -> Frontends \cup {None}]
        BY <1>11, JoinTyped DEF close
  <2> QED
        BY <1>11, <2>1, <2>2 DEF close, BeginClose, Continue, demuxes, frontends
<1>12. CASE closeDevice(c)
    BY <1>12 DEF closeDevice, Continue, frontends
<1>13. CASE removeDemux(c)
    BY <1>13 DEF removeDemux, Unmapped, Continue, demuxes, frontends
<1>14. CASE giveBack(c)
  <2>1. Return(c) /\ mInUse' \in [Demuxes -> BOOLEAN] /\ holds' \in [Clients -> SUBSET Demuxes]
        BY <1>14 DEF giveBack
  <2> QED
        BY <1>14, <2>1, ReturnTyped DEF giveBack, frontends
<1> QED
    BY <1>1, <1>2, <1>3, <1>4, <1>5, <1>6, <1>7, <1>8, <1>9, <1>10, <1>11, <1>12, <1>13, <1>14
       DEF Step, DemuxCall

\* Every step of a frontend keeps the types.
LEMMA FrontendTypesKept ==
    ASSUME TypeOK, NEW f \in Frontends, FrontendCall(f)
    PROVE  TypeOK'
<1> USE NoneAssumption DEF TypeOK
<1>m. ASSUME Record(CalledMidClose(f)) PROVE misuse' \in SUBSET Misuses
    BY <1>m, MidCloseTyped, RecordTyped
<1>1. CASE openFrontendById(f)
    BY <1>1 DEF openFrontendById, demuxes, calls
<1>2. CASE lockChanges(f)
    BY <1>2 DEF lockChanges, demuxes, calls
<1>3. CASE tune(f)
  <2>1. misuse' \in SUBSET Misuses
        BY <1>3, <1>m DEF tune
  <2>2. CASE FrontendAt(f, "join", mFrontendToDemux[f]) /\ UNCHANGED frontend /\ mFrontendToDemux[f] # None
    <3>1. "join" \in FrontendSteps /\ mFrontendToDemux[f] \in Demuxes \cup {None}
          BY DEF FrontendSteps
    <3> QED
          BY <1>3, <2>1, <2>2, <3>1, FrontendAtTyped DEF tune, demuxes, calls
  <2>3. CASE frontend' = [frontend EXCEPT ![f] = "tuned"] /\ UNCHANGED <<fpc, found>>
        BY <1>3, <2>1, <2>3 DEF tune, demuxes, calls
  <2> QED
        BY <1>3, <2>2, <2>3 DEF tune
<1>4. CASE tuneJoins(f)
  <2>1. "start" \in FrontendSteps /\ FrontendAt(f, "start", found[f]) /\ found[f] # None
        BY <1>4 DEF tuneJoins, FrontendSteps
  <2>2. input' \in [Demuxes -> Frontends \cup {None}]
        BY <1>4, JoinTyped DEF tuneJoins
  <2> QED
        BY <1>4, <2>1, <2>2, FrontendAtTyped DEF tuneJoins, demuxes, calls
<1>5. CASE tuneStarts(f)
  <2>1. "idle" \in FrontendSteps /\ FrontendAt(f, "idle", None)
        BY <1>5 DEF tuneStarts, FrontendSteps
  <2>2. input' \in [Demuxes -> Frontends \cup {None}]
        BY <1>5, InputTyped DEF tuneStarts
  <2> QED
        BY <1>5, <2>1, <2>2, FrontendAtTyped DEF tuneStarts, demuxes, calls
<1>6. CASE stopTune(f)
  <2>1. misuse' \in SUBSET Misuses
        BY <1>6, <1>m DEF stopTune
  <2> DEFINE p == IF mFrontendToDemux[f] = None THEN "unlock" ELSE "stop"
  <2>2. p \in FrontendSteps /\ FrontendAt(f, p, mFrontendToDemux[f])
        BY <1>6 DEF stopTune, FrontendSteps
  <2>3. p \in {"join", "start", "stop", "free"} <=> mFrontendToDemux[f] # None
        OBVIOUS
  <2> HIDE DEF p
  <2> QED
        BY <1>6, <2>1, <2>2, <2>3, FrontendAtTyped DEF stopTune, demuxes, calls
<1>7. CASE stopInput(f)
  <2>1. "unlock" \in FrontendSteps /\ FrontendAt(f, "unlock", None)
        BY <1>7 DEF stopInput, FrontendSteps
  <2>2. input' \in [Demuxes -> Frontends \cup {None}]
        BY <1>7, JoinTyped DEF stopInput
  <2> QED
        BY <1>7, <2>1, <2>2, FrontendAtTyped DEF stopInput, demuxes, calls
<1>8. CASE unlock(f)
  <2>1. "idle" \in FrontendSteps /\ FrontendAt(f, "idle", None)
        BY <1>8 DEF unlock, FrontendSteps
  <2> QED
        BY <1>8, <2>1, FrontendAtTyped DEF unlock, demuxes, calls
<1>9. CASE closeFrontend(f)
  <2>1. misuse' \in SUBSET Misuses
        BY <1>9, MidCloseTyped DEF closeFrontend, Record, If, Misuses
  <2>2. "find" \in FrontendSteps /\ FrontendAt(f, "find", None)
        BY <1>9 DEF closeFrontend, FrontendSteps
  <2> QED
        BY <1>9, <2>1, <2>2, FrontendAtTyped DEF closeFrontend, demuxes, calls
<1>10. CASE removeFrontend(f)
  <2> DEFINE p == IF mFrontendToDemux[f] = None THEN "forget" ELSE "free"
  <2>2. p \in FrontendSteps /\ FrontendAt(f, p, mFrontendToDemux[f])
        BY <1>10 DEF removeFrontend, FrontendSteps
  <2>3. p \in {"join", "start", "stop", "free"} <=> mFrontendToDemux[f] # None
        OBVIOUS
  <2> HIDE DEF p
  <2> QED
        BY <1>10, <2>2, <2>3, FrontendAtTyped DEF removeFrontend, demuxes, calls
<1>11. CASE freeDemux(f)
  <2>1. "forget" \in FrontendSteps /\ FrontendAt(f, "forget", None)
        BY <1>11 DEF freeDemux, FrontendSteps
  <2> QED
        BY <1>11, <2>1, FrontendAtTyped DEF freeDemux, calls
<1>12. CASE forgetDemux(f)
  <2>1. "idle" \in FrontendSteps /\ FrontendAt(f, "idle", None)
        BY <1>12 DEF forgetDemux, FrontendSteps
  <2> QED
        BY <1>12, <2>1, FrontendAtTyped DEF forgetDemux, demuxes, calls
<1> QED
    BY <1>1, <1>2, <1>3, <1>4, <1>5, <1>6, <1>7, <1>8, <1>9, <1>10, <1>11, <1>12 DEF FrontendCall

LEMMA TypesKept == TypeOK /\ [Next]_vars => TypeOK'
<1> SUFFICES ASSUME TypeOK, [Next]_vars PROVE TypeOK'
    OBVIOUS
<1>1. ASSUME NEW d \in Demuxes, inputEnds(d) PROVE TypeOK'
    BY <1>1 DEF TypeOK, inputEnds, demuxes, frontends, calls
<1>2. CASE UNCHANGED vars
    BY <1>2 DEF TypeOK, vars, demuxes, frontends, calls
<1> QED
    BY <1>1, <1>2, ClientTypesKept, FrontendTypesKept DEF Next

LEMMA InitTyped == Init => TypeOK
BY NoneAssumption DEF Init, TypeOK, Steps, FeedSteps, FrontendSteps, Misuses

\* Every variable keeps its type, and an idle client is about no demux.
THEOREM Typing == Spec => []TypeOK
BY InitTyped, TypesKept, PTL DEF Spec

-----------------------------------------------------------------------------
(* ReturnsToPool is inductive on typed states.                             *)

\* The steps that lend nothing and take nothing back.
LEMMA LendsNothing ==
    /\ \A c \in Clients : openDemux(c) \/ testInUse(c) \/ setTunerService(c) \/ isLocked(c) \/ joinInput(c)
                          \/ startInput(c) \/ closeDevice(c) \/ removeDemux(c)
            => UNCHANGED <<mInUse, holds>>
    /\ \A c \in Clients, d \in Demuxes : DemuxCall(c, d) => UNCHANGED <<mInUse, holds>>
    /\ \A d \in Demuxes : inputEnds(d) => UNCHANGED <<mInUse, holds>>
    /\ UNCHANGED vars => UNCHANGED <<mInUse, holds>>
<1>1. ASSUME NEW c \in Clients, openDemux(c) \/ testInUse(c) \/ setTunerService(c) \/ isLocked(c)
      PROVE  UNCHANGED <<mInUse, holds>>
    BY <1>1 DEF openDemux, testInUse, setTunerService, isLocked, demuxes
<1>2. ASSUME NEW c \in Clients, joinInput(c) \/ startInput(c) \/ closeDevice(c) \/ removeDemux(c)
      PROVE  UNCHANGED <<mInUse, holds>>
    BY <1>2 DEF joinInput, startInput, closeDevice, removeDemux, demuxes
<1>3. ASSUME NEW c \in Clients, NEW d \in Demuxes, DemuxCall(c, d)
      PROVE  UNCHANGED <<mInUse, holds>>
    BY <1>3 DEF DemuxCall, openDemuxById, openDvr, close, BeginClose, setFrontendDataSource, demuxes
<1> QED
    BY <1>1, <1>2, <1>3 DEF inputEnds, vars, demuxes

LEMMA FrontendLendsNothing ==
    ASSUME NEW f \in Frontends, FrontendCall(f), ~freeDemux(f)
    PROVE  UNCHANGED <<mInUse, holds>>
<1>1. CASE openFrontendById(f) \/ lockChanges(f) \/ tune(f) \/ tuneJoins(f) \/ tuneStarts(f) \/ stopTune(f)
    BY <1>1 DEF openFrontendById, lockChanges, tune, tuneJoins, tuneStarts, stopTune, demuxes
<1>2. CASE stopInput(f) \/ unlock(f) \/ closeFrontend(f) \/ removeFrontend(f) \/ forgetDemux(f)
    BY <1>2 DEF stopInput, unlock, closeFrontend, removeFrontend, forgetDemux, demuxes
<1> QED
    BY <1>1, <1>2 DEF FrontendCall

\* However calls overlap and whatever callers misuse, a demux marked in use has a
\* client that will close it.
THEOREM Pool == Spec => []ReturnsToPool
<1>1. Init => ReturnsToPool
    BY DEF Init, ReturnsToPool
<1>2. TypeOK /\ ReturnsToPool /\ [Next]_vars => ReturnsToPool'
  <2> SUFFICES ASSUME TypeOK, ReturnsToPool, [Next]_vars PROVE ReturnsToPool'
      OBVIOUS
  <2>1. ASSUME UNCHANGED <<mInUse, holds>> PROVE ReturnsToPool'
        BY <2>1 DEF ReturnsToPool, Held
  <2>2. ASSUME NEW c \in Clients, setInUse(c) PROVE ReturnsToPool'
        BY <2>2 DEF ReturnsToPool, Held, setInUse, TypeOK
  <2>3. ASSUME NEW c \in Clients, giveBack(c) PROVE ReturnsToPool'
        BY <2>3 DEF ReturnsToPool, Held, giveBack, TypeOK
  <2>4. ASSUME NEW f \in Frontends, freeDemux(f) PROVE ReturnsToPool'
        BY <2>4 DEF ReturnsToPool, Held, freeDemux, TypeOK
  <2> QED
        BY <2>1, <2>2, <2>3, <2>4, LendsNothing, FrontendLendsNothing DEF Next, Step
<1> QED
    BY <1>1, <1>2, Typing, PTL DEF Spec

-----------------------------------------------------------------------------
(* Where the map leads: unless a frontend feeds two demuxes or shares one, *)
(* the mappings are one to one, so that a removeDemux erases every one to  *)
(* its demux.                                                              *)

OneToOne ==
    \A f, g \in Frontends :
        f # g /\ mFrontendToDemux[f] \in Demuxes => mFrontendToDemux[f] # mFrontendToDemux[g]

OwnMappings ==
    "secondSource" \notin misuse =>
        /\ OneToOne
        /\ \A f \in Frontends : mFrontendToDemux[f] \in Demuxes => f \in source[mFrontendToDemux[f]]

\* When a demux has one mapping, removeDemux erases it.
LEMMA UnmappedGone ==
    ASSUME TypeOK, OneToOne, NEW d \in Demuxes, NEW f \in Frontends
    PROVE  Unmapped(d)[f] = IF mFrontendToDemux[f] = d THEN None ELSE mFrontendToDemux[f]
<1>1. CASE mFrontendToDemux[f] = d
  <2>1. f <= f
        BY SizeAssumption DEF Frontends
  <2>2. \A g \in Mapped(d) : g = f
        BY <1>1 DEF Mapped, OneToOne
  <2> QED
        BY <1>1, <2>1, <2>2 DEF Unmapped
<1>2. CASE mFrontendToDemux[f] # d
    BY <1>2 DEF Unmapped
<1> QED
    BY <1>1, <1>2

\* The steps that leave the map and the sources alone.
LEMMA MapsNothing ==
    /\ \A c \in Clients : openDemux(c) \/ (Step(c) /\ ~removeDemux(c)) => UNCHANGED <<mFrontendToDemux, source>>
    /\ \A c \in Clients, d \in Demuxes : openDemuxById(c, d) \/ openDvr(c, d) \/ close(c, d)
            => UNCHANGED <<mFrontendToDemux, source>>
    /\ \A d \in Demuxes : inputEnds(d) => UNCHANGED <<mFrontendToDemux, source>>
    /\ UNCHANGED vars => UNCHANGED <<mFrontendToDemux, source>>
<1>1. ASSUME NEW c \in Clients, openDemux(c) \/ testInUse(c) \/ setTunerService(c) \/ setInUse(c) \/ isLocked(c)
      PROVE  UNCHANGED <<mFrontendToDemux, source>>
    BY <1>1 DEF openDemux, testInUse, setTunerService, setInUse, isLocked
<1>2. ASSUME NEW c \in Clients, joinInput(c) \/ startInput(c) \/ closeDevice(c) \/ giveBack(c)
      PROVE  UNCHANGED <<mFrontendToDemux, source>>
    BY <1>2 DEF joinInput, startInput, closeDevice, giveBack
<1>3. ASSUME NEW c \in Clients, NEW d \in Demuxes, openDemuxById(c, d) \/ openDvr(c, d) \/ close(c, d)
      PROVE  UNCHANGED <<mFrontendToDemux, source>>
    BY <1>3 DEF openDemuxById, openDvr, close, BeginClose
<1> QED
    BY <1>1, <1>2, <1>3 DEF Step, inputEnds, vars

LEMMA FrontendMapsNothing ==
    ASSUME NEW f \in Frontends, FrontendCall(f), ~forgetDemux(f)
    PROVE  UNCHANGED <<mFrontendToDemux, source>>
<1>1. CASE openFrontendById(f) \/ lockChanges(f) \/ tune(f) \/ tuneJoins(f) \/ tuneStarts(f) \/ stopTune(f)
    BY <1>1 DEF openFrontendById, lockChanges, tune, tuneJoins, tuneStarts, stopTune
<1>2. CASE stopInput(f) \/ unlock(f) \/ closeFrontend(f) \/ removeFrontend(f) \/ freeDemux(f)
    BY <1>2 DEF stopInput, unlock, closeFrontend, removeFrontend, freeDemux
<1> QED
    BY <1>1, <1>2 DEF FrontendCall

\* No call forgets a misuse.
LEMMA MisuseKept == [Next]_vars => misuse \subseteq misuse'
<1>1. ASSUME NEW m, Record(m) PROVE misuse \subseteq misuse'
    BY <1>1 DEF Record
<1>2. ASSUME NEW c \in Clients, openDemux(c) \/ Step(c) PROVE misuse \subseteq misuse'
    BY <1>1, <1>2 DEF openDemux, Step, testInUse, setTunerService, setInUse, isLocked, joinInput, startInput,
                      closeDevice, removeDemux, giveBack, Begin
<1>3. ASSUME NEW c \in Clients, NEW d \in Demuxes, DemuxCall(c, d) PROVE misuse \subseteq misuse'
    BY <1>1, <1>3 DEF DemuxCall, openDemuxById, openDvr, close, BeginClose, setFrontendDataSource, Begin
<1>4. ASSUME NEW f \in Frontends, FrontendCall(f) PROVE misuse \subseteq misuse'
    BY <1>1, <1>4 DEF FrontendCall, openFrontendById, tune, tuneJoins, tuneStarts, stopTune, stopInput, unlock,
                      lockChanges, closeFrontend, removeFrontend, freeDemux, forgetDemux
<1>5. ASSUME NEW d \in Demuxes, inputEnds(d) PROVE misuse \subseteq misuse'
    BY <1>5 DEF inputEnds
<1> QED
    BY <1>2, <1>3, <1>4, <1>5 DEF Next, vars

LEMMA OwnMappingsKept == ASSUME TypeOK, OwnMappings, [Next]_vars PROVE OwnMappings'
<1> SUFFICES ASSUME "secondSource" \notin misuse' PROVE OwnMappings'
    BY DEF OwnMappings
<1>0. "secondSource" \notin misuse
    BY MisuseKept
<1> USE <1>0, NoneAssumption DEF OwnMappings, OneToOne
<1>1. ASSUME UNCHANGED <<mFrontendToDemux, source>> PROVE OwnMappings'
    BY <1>1
<1>2. ASSUME NEW c \in Clients, NEW d \in Demuxes, NEW f \in Frontends,
             setFrontendDataSource(c, d, f)
      PROVE  OwnMappings'
  <2> DEFINE second == If(mFrontendToDemux[f] \notin {None, d} \/ Mapped(d) \ {f} # {}, "secondSource")
  <2>1. "secondSource" \notin second
        BY <1>2 DEF setFrontendDataSource, Record
  <2>2. \A g \in Frontends : g # f => mFrontendToDemux[g] # d
        BY <2>1 DEF If, Mapped
  <2>3. /\ mFrontendToDemux' = [mFrontendToDemux EXCEPT ![f] = d]
        /\ source' = [source EXCEPT ![d] = @ \cup {f}]
        BY <1>2 DEF setFrontendDataSource
  <2> QED
        BY <2>2, <2>3 DEF TypeOK
<1>3. ASSUME NEW c \in Clients, removeDemux(c) PROVE OwnMappings'
  <2> DEFINE d == choice[c]
  <2>1. /\ mFrontendToDemux' = Unmapped(d)
        /\ source' = [source EXCEPT ![d] = {}]
        BY <1>3 DEF removeDemux
  <2>2. d \in Demuxes
        BY <1>3 DEF removeDemux, TypeOK
  <2>3. \A f \in Frontends :
            mFrontendToDemux'[f] = IF mFrontendToDemux[f] = d THEN None ELSE mFrontendToDemux[f]
        BY <2>1, <2>2, UnmappedGone
  <2> QED
        BY <2>1, <2>2, <2>3 DEF TypeOK
<1>4. ASSUME NEW f \in Frontends, forgetDemux(f) PROVE OwnMappings'
    BY <1>4 DEF forgetDemux, TypeOK
<1> QED
    BY <1>1, <1>2, <1>3, <1>4, MapsNothing, FrontendMapsNothing DEF Next, Step, DemuxCall

-----------------------------------------------------------------------------
(* What a frontend's call acts on and what a demux reads, while clients'   *)
(* calls do not overlap and no demux is closed during a call of a frontend *)
(* it has as its source: then such a frontend rests while its demux        *)
(* closes, and the demux it has found keeps it as its source.              *)

Tame == misuse \subseteq {"earlyClose"}

Serial == \A c1, c2 \in Clients : c1 # c2 => pc[c1] = "idle" \/ pc[c2] = "idle"

CallsOwn == \A f \in Frontends : found[f] \in Demuxes => f \in source[found[f]]
ReadsOwn == \A d \in Demuxes : input[d] \in Frontends => input[d] \in source[d]
FeedsOwn == \A c \in Clients : pc[c] \in FeedSteps => feeding[c] \in source[choice[c]]
ClosesAtRest ==
    \A c \in Clients : pc[c] \in CloseSteps =>
        input[choice[c]] = None /\ \A f \in source[choice[c]] : fpc[f] = "idle"

Sourced == Serial /\ CallsOwn /\ ReadsOwn /\ FeedsOwn /\ ClosesAtRest

SInv == Tame => Sourced

\* A client's call that begins and leaves callers tame begins alone.
LEMMA BeginsAlone ==
    ASSUME NEW m, Record(Overlap \cup m), Tame'
    PROVE  Tame /\ m \subseteq {"earlyClose"} /\ \A c \in Clients : pc[c] = "idle"
<1>1. misuse \cup (Overlap \cup m) \subseteq {"earlyClose"}
    BY DEF Record, Tame
<1>2. Tame /\ m \subseteq {"earlyClose"} /\ "overlap" \notin Overlap
    BY <1>1 DEF Tame
<1> QED
    BY <1>2 DEF Overlap, If

LEMMA BeginAlone ==
    ASSUME Begin, Tame' PROVE Tame /\ \A c \in Clients : pc[c] = "idle"
<1>1. Record(Overlap \cup {})
  <2>1. Overlap = Overlap \cup {}
        OBVIOUS
  <2> QED
        BY <2>1 DEF Begin
<1> QED
    BY <1>1, BeginsAlone

\* A frontend's call that leaves callers tame does not begin while its demux closes.
LEMMA CalledAtRest ==
    ASSUME NEW f, NEW m, Record(CalledMidClose(f) \cup m), Tame'
    PROVE  \A c \in Clients : pc[c] \in CloseSteps => f \notin source[choice[c]]
<1>1. "midClose" \notin CalledMidClose(f)
    BY DEF Record, Tame
<1> QED
    BY <1>1 DEF CalledMidClose, If

\* What only moves clients on and ends input keeps it.
LEMMA ClientMoves ==
    ASSUME TypeOK, Sourced, Serial', UNCHANGED <<source, fpc, found>>,
           \A d \in Demuxes : input'[d] \in {input[d], None},
           \A c \in Clients : pc'[c] \in FeedSteps =>
               pc[c] \in FeedSteps /\ choice'[c] = choice[c] /\ feeding'[c] = feeding[c],
           \A c \in Clients : pc'[c] \in CloseSteps => pc[c] \in CloseSteps /\ choice'[c] = choice[c]
    PROVE  Sourced'
<1> USE NoneAssumption DEF Sourced
<1>1. CallsOwn'
    BY DEF CallsOwn
<1>2. ReadsOwn'
    BY DEF ReadsOwn
<1>3. FeedsOwn'
    BY DEF FeedsOwn
<1>4. ClosesAtRest'
  <2> SUFFICES ASSUME NEW c \in Clients, pc'[c] \in CloseSteps
               PROVE  input'[choice'[c]] = None /\ \A f \in source'[choice'[c]] : fpc'[f] = "idle"
        BY DEF ClosesAtRest
  <2>1. pc[c] \in CloseSteps /\ choice'[c] = choice[c] /\ choice[c] \in Demuxes
        BY DEF TypeOK, CloseSteps
  <2> QED
        BY <2>1 DEF ClosesAtRest
<1> QED
    BY <1>1, <1>2, <1>3, <1>4

\* A step of a frontend's call keeps it when it looks up a demux that has the frontend as
\* its source, starts only such a demux's input, and does not begin while it closes.
LEMMA FrontendMoves ==
    ASSUME TypeOK, Sourced, UNCHANGED <<source, pc, choice, feeding>>,
           NEW f \in Frontends, NEW p, NEW d,
           FrontendAt(f, p, d), d \in Demuxes => f \in source[d],
           fpc[f] = "idle" => \A c \in Clients : pc[c] \in CloseSteps => f \notin source[choice[c]],
           \A e \in Demuxes : \/ input'[e] \in {input[e], None}
                              \/ input'[e] = f /\ f \in source[e] /\ fpc[f] # "idle"
    PROVE  Sourced'
<1> USE NoneAssumption DEF Sourced
<1>1. /\ \A g \in Frontends \ {f} : fpc'[g] = fpc[g] /\ found'[g] = found[g]
      /\ found'[f] = d
    BY DEF FrontendAt, TypeOK
<1>2. CallsOwn'
    BY <1>1 DEF CallsOwn
<1>3. ReadsOwn' /\ FeedsOwn' /\ Serial'
    BY DEF ReadsOwn, FeedsOwn, Serial
<1>4. ClosesAtRest'
  <2> SUFFICES ASSUME NEW c \in Clients, pc[c] \in CloseSteps
               PROVE  input'[choice[c]] = None /\ \A g \in source[choice[c]] : fpc'[g] = "idle"
        BY DEF ClosesAtRest
  <2>1. choice[c] \in Demuxes /\ source[choice[c]] \subseteq Frontends
        BY DEF TypeOK, CloseSteps
  <2>2. input[choice[c]] = None /\ f \notin source[choice[c]]
        BY DEF ClosesAtRest
  <2> QED
        BY <1>1, <2>1, <2>2 DEF ClosesAtRest
<1> QED
    BY <1>2, <1>3, <1>4

\* Every step of a client keeps it.
LEMMA ClientSourced ==
    ASSUME TypeOK, SInv, Tame', NEW c \in Clients,
           openDemux(c) \/ Step(c) \/ \E d \in Demuxes : DemuxCall(c, d)
    PROVE  Sourced'
<1> USE NoneAssumption DEF FeedSteps, CloseSteps
<1>a. ASSUME Tame PROVE Sourced
    BY <1>a DEF SInv
<1>1. CASE openDemux(c)
  <2>1. Sourced /\ \A b \in Clients : pc[b] = "idle"
        BY <1>1, <1>a, BeginAlone DEF openDemux
  <2>2. /\ UNCHANGED <<source, fpc, found, input>> /\ pc' = [pc EXCEPT ![c] = "test"]
        BY <1>1 DEF openDemux, Continue, frontends
  <2> QED
        BY <2>1, <2>2, ClientMoves DEF Serial, TypeOK
<1>2. ASSUME NEW d \in Demuxes, openDemuxById(c, d) PROVE Sourced'
  <2>1. Sourced /\ \A b \in Clients : pc[b] = "idle"
        BY <1>2, <1>a, BeginAlone DEF openDemuxById
  <2>2. /\ UNCHANGED <<source, fpc, found, input>> /\ pc' = [pc EXCEPT ![c] = "test"]
        BY <1>2 DEF openDemuxById, Continue, frontends
  <2> QED
        BY <2>1, <2>2, ClientMoves DEF Serial, TypeOK
<1>3. CASE testInUse(c) \/ setTunerService(c) \/ setInUse(c) \/ isLocked(c) \/ joinInput(c)
           \/ closeDevice(c) \/ giveBack(c)
  <2>0. UNCHANGED misuse
        BY <1>3 DEF testInUse, setTunerService, setInUse, isLocked, joinInput, closeDevice, giveBack
  <2>1. Sourced
        BY <1>a, <2>0 DEF Tame
  <2>2. UNCHANGED <<source, fpc, found>>
        BY <1>3 DEF testInUse, setTunerService, setInUse, isLocked, joinInput, closeDevice, giveBack, frontends
  <2>3. \A d \in Demuxes : input'[d] \in {input[d], None}
        BY <1>3 DEF testInUse, setTunerService, setInUse, isLocked, joinInput, closeDevice, giveBack, Joined, TypeOK
  <2>4. \A b \in Clients \ {c} : pc'[b] = pc[b] /\ choice'[b] = choice[b] /\ feeding'[b] = feeding[b]
        BY <1>3 DEF testInUse, setTunerService, setInUse, isLocked, joinInput, closeDevice, giveBack,
                    Return, Continue, TypeOK
  <2>5. /\ pc[c] # "idle"
        /\ pc'[c] \in FeedSteps => pc[c] \in FeedSteps /\ choice'[c] = choice[c] /\ feeding'[c] = feeding[c]
        /\ pc'[c] \in CloseSteps => pc[c] \in CloseSteps /\ choice'[c] = choice[c]
        BY <1>3 DEF testInUse, setTunerService, setInUse, isLocked, joinInput, closeDevice, giveBack,
                    Return, Continue, TypeOK
  <2>6. Serial'
        BY <2>1, <2>4, <2>5 DEF Sourced, Serial
  <2> QED
        BY <2>1, <2>2, <2>3, <2>4, <2>5, <2>6, ClientMoves
<1>4. ASSUME NEW d \in Demuxes, NEW f \in Frontends, setFrontendDataSource(c, d, f)
      PROVE  Sourced'
  <2>1. Sourced /\ \A b \in Clients : pc[b] = "idle"
    <3> DEFINE m == If(mFrontendToDemux[f] \notin {None, d} \/ Mapped(d) \ {f} # {}, "secondSource")
                      \cup If(fpc[f] \in {"find", "free", "forget"}, "earlyClose")
    <3>1. Record(Overlap \cup m)
      <4>1. Overlap \cup m = (Overlap
              \cup If(mFrontendToDemux[f] \notin {None, d} \/ Mapped(d) \ {f} # {}, "secondSource"))
              \cup If(fpc[f] \in {"find", "free", "forget"}, "earlyClose")
            OBVIOUS
      <4> QED
            BY <1>4, <4>1 DEF setFrontendDataSource
    <3> HIDE DEF m
    <3> QED
          BY <3>1, <1>a, BeginsAlone
  <2>2. /\ source' = [source EXCEPT ![d] = @ \cup {f}]
        /\ choice' = [choice EXCEPT ![c] = d] /\ feeding' = [feeding EXCEPT ![c] = f]
        /\ pc' = [pc EXCEPT ![c] = "locked"]
        /\ UNCHANGED <<input, fpc, found>>
        BY <1>4 DEF setFrontendDataSource, Continue, frontends
  <2>3. \A e \in Demuxes : source[e] \subseteq source'[e]
        BY <2>2 DEF TypeOK
  <2>4. Serial' /\ FeedsOwn' /\ ClosesAtRest'
        BY <2>1, <2>2 DEF Serial, FeedsOwn, ClosesAtRest, TypeOK
  <2>5. CallsOwn' /\ ReadsOwn'
        BY <2>1, <2>2, <2>3 DEF Sourced, CallsOwn, ReadsOwn
  <2> QED
        BY <2>4, <2>5 DEF Sourced
<1>5. CASE startInput(c)
  <2>1. Sourced /\ feeding[c] \in source[choice[c]] /\ pc[c] = "start"
        BY <1>5, <1>a DEF startInput, Tame, Sourced, FeedsOwn
  <2>2. /\ UNCHANGED <<source, fpc, found>>
        /\ pc' = [pc EXCEPT ![c] = "idle"]
        /\ \A b \in Clients \ {c} : pc[b] = "idle"
        BY <1>5, <2>1 DEF startInput, Return, Continue, frontends, Sourced, Serial
  <2>3. \A e \in Demuxes : input'[e] \in {input[e], None} \/ (e = choice[c] /\ input'[e] = feeding[c])
        BY <1>5 DEF startInput, Started, TypeOK
  <2>4. ReadsOwn' /\ CallsOwn'
        BY <2>1, <2>2, <2>3 DEF Sourced, ReadsOwn, CallsOwn
  <2>5. \A b \in Clients : pc'[b] = "idle"
        BY <2>2 DEF TypeOK
  <2> QED
        BY <2>4, <2>5 DEF Sourced, Serial, FeedsOwn, ClosesAtRest
<1>6. ASSUME NEW d \in Demuxes, openDvr(c, d) PROVE Sourced'
  <2>1. Sourced /\ \A b \in Clients : pc[b] = "idle"
        BY <1>6, <1>a, BeginAlone DEF openDvr
  <2>2. UNCHANGED <<source, fpc, found, input, pc, choice, feeding>>
        BY <1>6 DEF openDvr, calls, frontends
  <2> QED
        BY <2>1, <2>2, ClientMoves DEF Serial
<1>7. ASSUME NEW d \in Demuxes, close(c, d) PROVE Sourced'
  <2>1. Sourced /\ (\A b \in Clients : pc[b] = "idle") /\ ClosedMidCall(d) \subseteq {"earlyClose"}
        BY <1>7, <1>a, BeginsAlone DEF close, BeginClose
  <2>2. \A f \in source[d] : fpc[f] = "idle"
        BY <2>1 DEF ClosedMidCall, If
  <2>3. /\ UNCHANGED <<source, fpc, found>>
        /\ input' = [input EXCEPT ![d] = None]
        /\ choice' = [choice EXCEPT ![c] = d] /\ pc' = [pc EXCEPT ![c] = "clear"]
        BY <1>7 DEF close, BeginClose, Continue, Joined, frontends
  <2>4. \A b \in Clients : pc'[b] \in {"idle", "clear"} /\ (pc'[b] = "clear" => b = c)
        BY <2>1, <2>3 DEF TypeOK
  <2>5. Serial' /\ FeedsOwn'
        BY <2>4 DEF Serial, FeedsOwn
  <2>6. ClosesAtRest'
        BY <2>2, <2>3, <2>4 DEF ClosesAtRest, TypeOK
  <2>7. CallsOwn' /\ ReadsOwn'
        BY <2>1, <2>3 DEF Sourced, CallsOwn, ReadsOwn, TypeOK
  <2> QED
        BY <2>5, <2>6, <2>7 DEF Sourced
<1>8. CASE removeDemux(c)
  <2> DEFINE d == choice[c]
  <2>1. Sourced /\ pc[c] = "remove" /\ d \in Demuxes
        BY <1>8, <1>a DEF removeDemux, Tame, TypeOK
  <2>2. input[d] = None /\ \A f \in source[d] : fpc[f] = "idle"
        BY <2>1 DEF Sourced, ClosesAtRest
  <2>3. \A f \in Frontends : found[f] # d
    <3> SUFFICES ASSUME NEW f \in Frontends, found[f] = d PROVE FALSE
        OBVIOUS
    <3>1. fpc[f] = "idle"
          BY <2>1, <2>2 DEF Sourced, CallsOwn
    <3> QED
          BY <2>1, <3>1 DEF TypeOK
  <2>4. /\ source' = [source EXCEPT ![d] = {}] /\ pc' = [pc EXCEPT ![c] = "return"]
        /\ UNCHANGED <<input, fpc, found>>
        BY <1>8 DEF removeDemux, Continue, frontends
  <2>5. \A b \in Clients : pc'[b] \in {"idle", "return"} /\ (pc'[b] = "return" => b = c)
        BY <2>1, <2>4 DEF Sourced, Serial, TypeOK
  <2>6. Serial' /\ FeedsOwn' /\ ClosesAtRest'
        BY <2>5 DEF Serial, FeedsOwn, ClosesAtRest
  <2>7. CallsOwn' /\ ReadsOwn'
        BY <2>1, <2>2, <2>3, <2>4 DEF Sourced, CallsOwn, ReadsOwn, TypeOK
  <2> QED
        BY <2>6, <2>7 DEF Sourced
<1> QED
    BY <1>1, <1>2, <1>3, <1>4, <1>5, <1>6, <1>7, <1>8 DEF Step, DemuxCall

\* Every step of a frontend keeps it.
LEMMA FrontendSourced ==
    ASSUME TypeOK, OwnMappings, SInv, Tame', NEW f \in Frontends, FrontendCall(f)
    PROVE  Sourced'
<1> USE NoneAssumption
<1>a. ASSUME Tame PROVE Sourced /\ (mFrontendToDemux[f] \in Demuxes => f \in source[mFrontendToDemux[f]])
    BY <1>a DEF SInv, OwnMappings, Tame
<1>b. ASSUME NEW m, Record(CalledMidClose(f) \cup m)
      PROVE  Tame /\ \A c \in Clients : pc[c] \in CloseSteps => f \notin source[choice[c]]
    BY <1>b, CalledAtRest DEF Record, Tame
<1>c. ASSUME Record(CalledMidClose(f))
      PROVE  Tame /\ \A c \in Clients : pc[c] \in CloseSteps => f \notin source[choice[c]]
  <2>1. CalledMidClose(f) = CalledMidClose(f) \cup {}
        OBVIOUS
  <2> QED
        BY <1>b, <1>c, <2>1
<1>d. ASSUME UNCHANGED misuse PROVE Sourced /\ (mFrontendToDemux[f] \in Demuxes => f \in source[mFrontendToDemux[f]])
    BY <1>a, <1>d DEF Tame
<1>e. ASSUME found[f] \in Demuxes, UNCHANGED misuse PROVE f \in source[found[f]]
    BY <1>d, <1>e DEF Sourced, CallsOwn
<1>1. CASE openFrontendById(f) \/ lockChanges(f)
  <2>1. UNCHANGED <<source, fpc, found, input, pc, choice, feeding, misuse>>
        BY <1>1 DEF openFrontendById, lockChanges, calls
  <2> QED
        BY <1>d, <2>1, ClientMoves DEF Sourced, Serial
<1>2. CASE tune(f)
  <2>1. Sourced /\ \A c \in Clients : pc[c] \in CloseSteps => f \notin source[choice[c]]
        BY <1>2, <1>a, <1>c DEF tune
  <2>2. UNCHANGED <<source, pc, choice, feeding, input>>
        BY <1>2 DEF tune, calls
  <2>3. CASE FrontendAt(f, "join", mFrontendToDemux[f])
        BY <1>2, <1>a, <1>c, <2>1, <2>2, <2>3, FrontendMoves DEF tune
  <2>4. CASE UNCHANGED <<fpc, found>>
        BY <2>1, <2>2, <2>4, ClientMoves DEF Sourced, Serial
  <2> QED
        BY <1>2, <2>3, <2>4 DEF tune
<1>3. CASE tuneJoins(f)
  <2>1. /\ UNCHANGED <<source, pc, choice, feeding, misuse>> /\ fpc[f] = "join"
        /\ FrontendAt(f, "start", found[f])
        /\ \A e \in Demuxes : input'[e] \in {input[e], None}
        BY <1>3 DEF tuneJoins, calls, Joined, TypeOK
  <2> QED
        BY <1>d, <1>e, <2>1, FrontendMoves
<1>4. CASE tuneStarts(f)
  <2>1. /\ UNCHANGED <<source, pc, choice, feeding, misuse>> /\ fpc[f] = "start"
        /\ FrontendAt(f, "idle", None) /\ found[f] \in Demuxes
        /\ \A e \in Demuxes : input'[e] \in {input[e], None} \/ (e = found[f] /\ input'[e] = f)
        BY <1>4 DEF tuneStarts, calls, Started, TypeOK
  <2> QED
        BY <1>d, <1>e, <2>1, FrontendMoves
<1>5. CASE stopTune(f)
  <2>1. Sourced /\ \A c \in Clients : pc[c] \in CloseSteps => f \notin source[choice[c]]
        BY <1>5, <1>a, <1>c DEF stopTune
  <2>2. /\ UNCHANGED <<source, pc, choice, feeding, input>>
        /\ FrontendAt(f, IF mFrontendToDemux[f] = None THEN "unlock" ELSE "stop", mFrontendToDemux[f])
        /\ Tame
        BY <1>5, <1>c DEF stopTune, calls
  <2> QED
        BY <1>a, <2>1, <2>2, FrontendMoves
<1>6. CASE stopInput(f)
  <2>1. /\ UNCHANGED <<source, pc, choice, feeding, misuse>> /\ fpc[f] = "stop"
        /\ FrontendAt(f, "unlock", None)
        /\ \A e \in Demuxes : input'[e] \in {input[e], None}
        BY <1>6 DEF stopInput, calls, Joined, TypeOK
  <2> QED
        BY <1>d, <2>1, FrontendMoves
<1>7. CASE unlock(f)
  <2>1. /\ UNCHANGED <<source, pc, choice, feeding, misuse, input>> /\ fpc[f] = "unlock"
        /\ FrontendAt(f, "idle", None)
        BY <1>7 DEF unlock, calls
  <2> QED
        BY <1>d, <2>1, FrontendMoves
<1>8. CASE closeFrontend(f)
  <2>1. Sourced /\ \A c \in Clients : pc[c] \in CloseSteps => f \notin source[choice[c]]
        BY <1>8, <1>a, <1>b DEF closeFrontend
  <2>2. /\ UNCHANGED <<source, pc, choice, feeding, input>>
        /\ FrontendAt(f, "find", None)
        BY <1>8 DEF closeFrontend, calls
  <2> QED
        BY <2>1, <2>2, FrontendMoves
<1>9. CASE removeFrontend(f)
  <2>1. /\ UNCHANGED <<source, pc, choice, feeding, misuse, input>> /\ fpc[f] = "find"
        /\ FrontendAt(f, IF mFrontendToDemux[f] = None THEN "forget" ELSE "free", mFrontendToDemux[f])
        BY <1>9 DEF removeFrontend, calls
  <2> QED
        BY <1>d, <2>1, FrontendMoves
<1>10. CASE freeDemux(f)
  <2>1. /\ UNCHANGED <<source, pc, choice, feeding, misuse, input>> /\ fpc[f] = "free"
        /\ FrontendAt(f, "forget", None)
        BY <1>10 DEF freeDemux, calls
  <2> QED
        BY <1>d, <2>1, FrontendMoves
<1>11. CASE forgetDemux(f)
  <2>1. /\ UNCHANGED <<source, pc, choice, feeding, misuse, input>> /\ fpc[f] = "forget"
        /\ FrontendAt(f, "idle", None)
        BY <1>11 DEF forgetDemux, calls
  <2> QED
        BY <1>d, <2>1, FrontendMoves
<1> QED
    BY <1>1, <1>2, <1>3, <1>4, <1>5, <1>6, <1>7, <1>8, <1>9, <1>10, <1>11 DEF FrontendCall

LEMMA SInvKept == ASSUME TypeOK, OwnMappings, SInv, [Next]_vars PROVE SInv'
<1> SUFFICES ASSUME Tame' PROVE Sourced'
    BY DEF SInv
<1>1. ASSUME UNCHANGED <<source, fpc, found, pc, choice, feeding, misuse>>,
             \A d \in Demuxes : input'[d] \in {input[d], None}
      PROVE  Sourced'
  <2>1. Sourced
        BY <1>1 DEF SInv, Tame
  <2> QED
        BY <1>1, <2>1, ClientMoves DEF Sourced, Serial
<1>2. ASSUME NEW d \in Demuxes, inputEnds(d) PROVE Sourced'
    BY <1>1, <1>2 DEF inputEnds, calls, frontends, TypeOK
<1>3. CASE UNCHANGED vars
    BY <1>1, <1>3 DEF vars, calls, frontends
<1> QED
    BY <1>2, <1>3, ClientSourced, FrontendSourced DEF Next

LEMMA SourcedInvariance == Spec => [](TypeOK /\ OwnMappings /\ SInv)
<1>1. Init => OwnMappings /\ SInv
    BY NoneAssumption
       DEF Init, OwnMappings, OneToOne, SInv, Sourced, Serial, CallsOwn, ReadsOwn, FeedsOwn, ClosesAtRest,
           FeedSteps, CloseSteps
<1>2. TypeOK /\ OwnMappings /\ SInv /\ [Next]_vars => OwnMappings' /\ SInv'
    BY OwnMappingsKept, SInvKept
<1> QED
    BY <1>1, <1>2, Typing, PTL DEF Spec

\* The map leads from a frontend only to a demux whose present client has set it as its
\* source, however calls overlap, unless one feeds two demuxes or shares one.  As long as
\* clients' calls do not overlap and no demux is closed during a call of its frontend, what
\* a frontend's call acts on, and what a demux reads from, is what that client has set.
THEOREM OwnSource == Spec => []FedByItsSource
<1>1. TypeOK /\ OwnMappings /\ SInv => FedByItsSource
    BY DEF OwnMappings, SInv, Tame, Sourced, CallsOwn, ReadsOwn, FedByItsSource
<1> QED
    BY <1>1, SourcedInvariance, PTL

-----------------------------------------------------------------------------
(* Leased.  Without any misuse at most one client's call is under way, so  *)
(* that nobody else takes the demux it has found free; and a frontend that *)
(* is closing is no demux's source, so that it frees none.                 *)

Free(c) == pc[c] \in {"service", "mark"} => ~mInUse[choice[c]]

Closing(c) ==
    /\ pc[c] \in CloseSteps \cup {"return"} => choice[c] \in holds[c]
    /\ pc[c] \in {"remove", "return"} => ~device[choice[c]]

NoSpareDevice ==
    \A d \in Demuxes : device[d] => Held(d) \/ \E c \in Clients : pc[c] = "mark" /\ choice[c] = d

Lease ==
    /\ \A c1, c2 \in Clients : c1 # c2 => holds[c1] \cap holds[c2] = {}
    /\ \A d \in Demuxes : Held(d) => mInUse[d]
    /\ lost = {}

Lending == Lease /\ NoSpareDevice /\ \A c \in Clients : Free(c) /\ Closing(c)

ClosesUnused ==
    \A f \in Frontends : fpc[f] \in {"find", "free", "forget"} => \A d \in Demuxes : f \notin source[d]

LInv == misuse = {} => Lending /\ ClosesUnused

\* A step that begins or ends no lease and leaves the demuxes alone.
LEMMA LendingFrame ==
    ASSUME TypeOK, Lending, UNCHANGED <<mInUse, device, lost, holds>>,
           \A c \in Clients :
               /\ pc'[c] \in {"service", "mark", "clear", "remove", "return"} =>
                      pc'[c] = pc[c] /\ choice'[c] = choice[c]
               /\ pc[c] = "mark" => pc'[c] = "mark" /\ choice'[c] = choice[c]
    PROVE  Lending'
<1> USE DEF Lending, Lease, Free, Closing, NoSpareDevice, Held, CloseSteps
<1>1. Lease'
    OBVIOUS
<1>2. NoSpareDevice'
    OBVIOUS
<1>3. ASSUME NEW c \in Clients PROVE Free(c)' /\ Closing(c)'
    BY <1>3
<1> QED
    BY <1>1, <1>2, <1>3

\* Every step of a client without misuse keeps what is known of leases.
LEMMA ClientLending ==
    ASSUME TypeOK, SInv, LInv, misuse' = {}, NEW c \in Clients,
           openDemux(c) \/ Step(c) \/ \E d \in Demuxes : DemuxCall(c, d)
    PROVE  Lending'
<1> USE NoneAssumption
<1>t. Tame'
    BY DEF Tame
<1>a. ASSUME misuse = {} PROVE Lending /\ Sourced
    BY <1>a DEF LInv, SInv, Tame
<1>b. ASSUME NEW m, Record(Overlap \cup m) PROVE misuse = {} /\ \A b \in Clients : pc[b] = "idle"
    BY <1>b, <1>t, BeginsAlone DEF Record
<1>c. ASSUME Begin PROVE misuse = {} /\ \A b \in Clients : pc[b] = "idle"
    BY <1>c, <1>t, BeginAlone DEF Begin, Record
<1>1. CASE openDemux(c)
  <2>1. Lending /\ \A b \in Clients : pc[b] = "idle"
        BY <1>1, <1>a, <1>c DEF openDemux
  <2>2. UNCHANGED <<mInUse, device, lost, holds>> /\ pc' = [pc EXCEPT ![c] = "test"]
        BY <1>1 DEF openDemux, Continue, demuxes
  <2> QED
        BY <2>1, <2>2, LendingFrame DEF TypeOK
<1>2. ASSUME NEW d \in Demuxes, openDemuxById(c, d) PROVE Lending'
  <2>1. Lending /\ \A b \in Clients : pc[b] = "idle"
        BY <1>2, <1>a, <1>c DEF openDemuxById
  <2>2. UNCHANGED <<mInUse, device, lost, holds>> /\ pc' = [pc EXCEPT ![c] = "test"]
        BY <1>2 DEF openDemuxById, Continue, demuxes
  <2> QED
        BY <2>1, <2>2, LendingFrame DEF TypeOK
<1>3. CASE testInUse(c)
  <2>1. Lending
        BY <1>3, <1>a DEF testInUse
  <2>2. CASE mInUse[choice[c]]
    <3>1. /\ UNCHANGED <<mInUse, device, lost, holds>> /\ pc[c] = "test"
          /\ pc' = [pc EXCEPT ![c] = "idle"] /\ choice' = [choice EXCEPT ![c] = None]
          BY <1>3, <2>2 DEF testInUse, Return, Continue, demuxes
    <3> QED
          BY <2>1, <3>1, LendingFrame DEF TypeOK
  <2>3. CASE ~mInUse[choice[c]]
    <3>1. /\ UNCHANGED <<mInUse, device, lost, holds, choice>> /\ pc[c] = "test"
          /\ pc' = [pc EXCEPT ![c] = "service"]
          BY <1>3, <2>3 DEF testInUse, Continue, demuxes
    <3>2. \A b \in Clients : Free(b)' /\ Closing(b)'
          BY <2>1, <2>3, <3>1 DEF Lending, Free, Closing, CloseSteps, TypeOK
    <3>3. Lease' /\ NoSpareDevice'
          BY <2>1, <3>1 DEF Lending, Lease, NoSpareDevice, Held, TypeOK
    <3> QED
          BY <3>2, <3>3 DEF Lending
  <2> QED
        BY <2>2, <2>3
<1>4. CASE setTunerService(c)
  <2> USE DEF Lending, Lease, Free, Closing, NoSpareDevice, Held, CloseSteps
  <2>1. Lending /\ Serial
        BY <1>4, <1>a DEF setTunerService, Sourced
  <2>2. choice[c] \in Demuxes /\ ~mInUse[choice[c]] /\ ~device[choice[c]]
        BY <1>4, <2>1 DEF setTunerService, TypeOK, Serial
  <2> QED
        BY <1>4, <2>1, <2>2 DEF setTunerService, Continue, TypeOK, Serial
<1>5. CASE setInUse(c)
  <2> USE DEF Lending, Lease, Free, Closing, NoSpareDevice, Held, CloseSteps
  <2>1. Lending /\ Serial
        BY <1>5, <1>a DEF setInUse, Sourced
  <2>2. choice[c] \in Demuxes /\ ~mInUse[choice[c]] /\ ~Held(choice[c])
        BY <1>5, <2>1 DEF setInUse, TypeOK
  <2>3. \A b \in Clients : pc'[b] = "idle"
        BY <1>5, <2>1 DEF setInUse, Return, Continue, TypeOK, Serial
  <2>4. NoSpareDevice'
    <3>1. device' = device /\ holds' = [holds EXCEPT ![c] = @ \cup {choice[c]}]
          BY <1>5 DEF setInUse
    <3>2. ASSUME NEW d \in Demuxes, device'[d] PROVE \E b \in Clients : d \in holds'[b]
      <4>1. CASE d = choice[c]
            BY <3>1, <4>1 DEF TypeOK
      <4>2. CASE \E b \in Clients : d \in holds[b]
            BY <3>1, <4>2 DEF TypeOK
      <4>3. CASE \E b \in Clients : pc[b] = "mark" /\ choice[b] = d
            BY <1>5, <2>1, <4>1, <4>3 DEF setInUse, Serial
      <4> QED
            BY <2>1, <3>1, <3>2, <4>1, <4>2, <4>3
    <3> QED
          BY <3>2
  <2>5. Lease'
        BY <1>5, <2>1, <2>2 DEF setInUse, TypeOK
  <2> QED
        BY <2>3, <2>4, <2>5
<1>6. ASSUME NEW d \in Demuxes, NEW f \in Frontends, setFrontendDataSource(c, d, f)
      PROVE  Lending'
  <2>1. Lending /\ \A b \in Clients : pc[b] = "idle"
    <3>1. misuse = {} /\ Overlap = {}
          BY <1>6 DEF setFrontendDataSource, Record
    <3> QED
          BY <3>1, <1>a DEF Overlap, If
  <2>2. UNCHANGED <<mInUse, device, lost, holds>> /\ pc' = [pc EXCEPT ![c] = "locked"]
        BY <1>6 DEF setFrontendDataSource, Continue, demuxes
  <2> QED
        BY <2>1, <2>2, LendingFrame DEF TypeOK
<1>7. CASE isLocked(c) \/ joinInput(c) \/ startInput(c)
  <2>1. Lending
        BY <1>7, <1>a DEF isLocked, joinInput, startInput
  <2>2. /\ UNCHANGED <<mInUse, device, lost, holds>>
        /\ \A b \in Clients \ {c} : pc'[b] = pc[b] /\ choice'[b] = choice[b]
        /\ pc[c] \in {"locked", "join", "start"} /\ pc'[c] \in {"join", "start", "idle"}
        BY <1>7 DEF isLocked, joinInput, startInput, Return, Continue, demuxes, TypeOK
  <2> QED
        BY <2>1, <2>2, LendingFrame
<1>8. ASSUME NEW d \in Demuxes, openDvr(c, d) PROVE Lending'
  <2>1. Lending
        BY <1>8, <1>a, <1>c DEF openDvr
  <2> QED
        BY <1>8, <2>1, LendingFrame DEF openDvr, calls
<1>9. ASSUME NEW d \in Demuxes, close(c, d) PROVE Lending'
  <2>1. Lending /\ \A b \in Clients : pc[b] = "idle"
        BY <1>9, <1>a, <1>b DEF close, BeginClose
  <2>2. /\ UNCHANGED <<mInUse, device, lost, holds>> /\ d \in holds[c]
        /\ pc' = [pc EXCEPT ![c] = "clear"] /\ choice' = [choice EXCEPT ![c] = d]
        BY <1>9 DEF close, BeginClose, Continue, demuxes
  <2>3. \A b \in Clients : Free(b)' /\ Closing(b)'
        BY <2>1, <2>2 DEF Free, Closing, CloseSteps, TypeOK
  <2>4. Lease' /\ NoSpareDevice'
        BY <2>1, <2>2 DEF Lending, Lease, NoSpareDevice, Held, TypeOK
  <2> QED
        BY <2>3, <2>4 DEF Lending
<1>10. CASE closeDevice(c)
  <2> USE DEF Lending, Lease, Free, Closing, NoSpareDevice, Held, CloseSteps
  <2>1. Lending
        BY <1>10, <1>a DEF closeDevice
  <2> QED
        BY <1>10, <2>1 DEF closeDevice, Continue, TypeOK
<1>11. CASE removeDemux(c)
  <2> USE DEF Lending, Lease, Free, Closing, NoSpareDevice, Held, CloseSteps
  <2>1. Lending
        BY <1>11, <1>a DEF removeDemux
  <2>2. UNCHANGED <<mInUse, device, lost, holds, choice>> /\ pc[c] = "remove" /\ pc' = [pc EXCEPT ![c] = "return"]
        BY <1>11 DEF removeDemux, Continue, demuxes
  <2>3. \A b \in Clients : Free(b)' /\ Closing(b)'
        BY <2>1, <2>2 DEF TypeOK
  <2>4. Lease' /\ NoSpareDevice'
        BY <2>1, <2>2 DEF TypeOK
  <2> QED
        BY <2>3, <2>4
<1>12. CASE giveBack(c)
  <2> USE DEF Lending, Lease, Free, Closing, NoSpareDevice, Held, CloseSteps
  <2>1. Lending /\ Serial
        BY <1>12, <1>a DEF giveBack, Sourced
  <2>2. choice[c] \in holds[c] /\ choice[c] \in Demuxes /\ ~device[choice[c]]
        BY <1>12, <2>1 DEF giveBack, TypeOK
  <2>3. \A b \in Clients : pc'[b] = "idle"
        BY <1>12, <2>1 DEF giveBack, Return, Continue, TypeOK, Serial
  <2>4. NoSpareDevice'
    <3>1. device' = device /\ holds' = [holds EXCEPT ![c] = @ \ {choice[c]}]
          BY <1>12 DEF giveBack
    <3>2. ASSUME NEW d \in Demuxes, device'[d] PROVE \E b \in Clients : d \in holds'[b]
      <4>1. d # choice[c]
            BY <2>2, <3>1, <3>2
      <4>2. CASE \E b \in Clients : d \in holds[b]
            BY <3>1, <4>1, <4>2 DEF TypeOK
      <4>3. CASE \E b \in Clients : pc[b] = "mark" /\ choice[b] = d
            BY <1>12, <2>1, <4>3 DEF giveBack, Serial
      <4> QED
            BY <2>1, <3>1, <3>2, <4>2, <4>3
    <3> QED
          BY <3>2
  <2>5. Lease'
        BY <1>12, <2>1, <2>2 DEF giveBack, TypeOK
  <2> QED
        BY <2>3, <2>4, <2>5
<1> QED
    BY <1>1, <1>2, <1>3, <1>4, <1>5, <1>6, <1>7, <1>8, <1>9, <1>10, <1>11, <1>12 DEF Step, DemuxCall

\* A frontend frees no demux, for one that is closing is no demux's source.
LEMMA FrontendLending ==
    ASSUME TypeOK, SInv, LInv, misuse' = {}, NEW f \in Frontends, FrontendCall(f)
    PROVE  Lending'
<1>1. misuse = {}
  <2>1. ASSUME NEW m, Record(m) PROVE misuse = {}
        BY <2>1 DEF Record
  <2> QED
        BY <2>1 DEF FrontendCall, openFrontendById, tune, tuneJoins, tuneStarts, stopTune, stopInput, unlock,
                    lockChanges, closeFrontend, removeFrontend, freeDemux, forgetDemux
<1>2. Lending /\ Sourced /\ ClosesUnused
    BY <1>1 DEF LInv, SInv, Tame
<1>3. ~freeDemux(f)
  <2> SUFFICES ASSUME freeDemux(f) PROVE FALSE
      OBVIOUS
  <2>1. found[f] \in Demuxes /\ f \notin source[found[f]]
        BY <1>2 DEF freeDemux, TypeOK, ClosesUnused
  <2> QED
        BY <1>2, <2>1 DEF Sourced, CallsOwn
<1>4. CASE openFrontendById(f) \/ lockChanges(f) \/ tune(f) \/ tuneJoins(f) \/ tuneStarts(f) \/ stopTune(f)
  <2>1. UNCHANGED <<mInUse, device, lost, holds, pc, choice>>
        BY <1>4 DEF openFrontendById, lockChanges, tune, tuneJoins, tuneStarts, stopTune, demuxes, calls
  <2> QED
        BY <1>2, <2>1, LendingFrame
<1>5. CASE stopInput(f) \/ unlock(f) \/ closeFrontend(f) \/ removeFrontend(f) \/ forgetDemux(f)
  <2>1. UNCHANGED <<mInUse, device, lost, holds, pc, choice>>
        BY <1>5 DEF stopInput, unlock, closeFrontend, removeFrontend, forgetDemux, demuxes, calls
  <2> QED
        BY <1>2, <2>1, LendingFrame
<1> QED
    BY <1>3, <1>4, <1>5 DEF FrontendCall

LEMMA ClosesUnusedKept ==
    ASSUME TypeOK, LInv, misuse' = {}, [Next]_vars
    PROVE  ClosesUnused'
<1>1. misuse = {}
    BY MisuseKept
<1>2. ClosesUnused
    BY <1>1 DEF LInv
<1> USE <1>2 DEF ClosesUnused
<1>3. ASSUME UNCHANGED fpc, \A d \in Demuxes : source'[d] \subseteq source[d] PROVE ClosesUnused'
    BY <1>3
<1>4. ASSUME NEW c \in Clients, openDemux(c) \/ Step(c) PROVE ClosesUnused'
  <2>1. UNCHANGED fpc
        BY <1>4 DEF openDemux, Step, testInUse, setTunerService, setInUse, isLocked, joinInput, startInput,
                    closeDevice, removeDemux, giveBack, frontends
  <2>2. \A d \in Demuxes : source'[d] \subseteq source[d]
        BY <1>4, MapsNothing DEF removeDemux, TypeOK
  <2> QED
        BY <1>3, <2>1, <2>2
<1>5. ASSUME NEW c \in Clients, NEW d \in Demuxes, openDemuxById(c, d) \/ openDvr(c, d) \/ close(c, d)
      PROVE  ClosesUnused'
    BY <1>3, <1>5 DEF openDemuxById, openDvr, close, BeginClose, frontends
<1>6. ASSUME NEW c \in Clients, NEW d \in Demuxes, NEW f \in Frontends, setFrontendDataSource(c, d, f)
      PROVE  ClosesUnused'
  <2>1. fpc[f] \notin {"find", "free", "forget"}
        BY <1>6 DEF setFrontendDataSource, Record, If
  <2>2. UNCHANGED fpc /\ source' = [source EXCEPT ![d] = @ \cup {f}]
        BY <1>6 DEF setFrontendDataSource, frontends
  <2> QED
        BY <2>1, <2>2 DEF TypeOK
<1>7. ASSUME NEW f \in Frontends, openFrontendById(f) \/ lockChanges(f) \/ tune(f) \/ tuneJoins(f) \/ tuneStarts(f)
      PROVE  ClosesUnused'
  <2>1. UNCHANGED source /\ \A g \in Frontends : fpc'[g] \in {fpc[g], "join", "start", "idle"}
        BY <1>7 DEF openFrontendById, lockChanges, tune, tuneJoins, tuneStarts, FrontendAt, TypeOK
  <2> QED
        BY <2>1
<1>8. ASSUME NEW f \in Frontends, stopTune(f) \/ stopInput(f) \/ unlock(f) \/ forgetDemux(f) PROVE ClosesUnused'
  <2>1. UNCHANGED source /\ \A g \in Frontends : fpc'[g] \in {fpc[g], "stop", "unlock", "idle"}
        BY <1>8 DEF stopTune, stopInput, unlock, forgetDemux, FrontendAt, TypeOK
  <2> QED
        BY <2>1
<1>9. ASSUME NEW f \in Frontends, closeFrontend(f) PROVE ClosesUnused'
  <2>1. \A d \in Demuxes : f \notin source[d]
        BY <1>9 DEF closeFrontend, Record, If
  <2>2. UNCHANGED source /\ \A g \in Frontends \ {f} : fpc'[g] = fpc[g]
        BY <1>9 DEF closeFrontend, FrontendAt, TypeOK
  <2> QED
        BY <2>1, <2>2
<1>10. ASSUME NEW f \in Frontends, removeFrontend(f) \/ freeDemux(f) PROVE ClosesUnused'
  <2>1. UNCHANGED source /\ fpc[f] \in {"find", "free"} /\ \A g \in Frontends \ {f} : fpc'[g] = fpc[g]
        BY <1>10 DEF removeFrontend, freeDemux, FrontendAt, TypeOK
  <2> QED
        BY <2>1
<1>11. ASSUME NEW d \in Demuxes, inputEnds(d) PROVE ClosesUnused'
    BY <1>3, <1>11 DEF inputEnds, frontends
<1>12. CASE UNCHANGED vars
    BY <1>3, <1>12 DEF vars, frontends
<1> QED
    BY <1>4, <1>5, <1>6, <1>7, <1>8, <1>9, <1>10, <1>11, <1>12 DEF Next, DemuxCall, FrontendCall

LEMMA LInvKept == ASSUME TypeOK, SInv, LInv, [Next]_vars PROVE LInv'
<1> SUFFICES ASSUME misuse' = {} PROVE Lending'
    BY ClosesUnusedKept DEF LInv
<1>1. misuse = {}
    BY MisuseKept
<1>2. Lending
    BY <1>1 DEF LInv
<1>3. ASSUME NEW d \in Demuxes, inputEnds(d) PROVE Lending'
    BY <1>2, <1>3, LendingFrame DEF inputEnds, demuxes, calls
<1>4. CASE UNCHANGED vars
    BY <1>2, <1>4, LendingFrame DEF vars, demuxes, calls
<1> QED
    BY <1>3, <1>4, ClientLending, FrontendLending DEF Next

\* As long as the calls of clients do not overlap, no frontend is closed before the demux it
\* feeds, none feeds two demuxes or shares one, and no demux is closed during a call of its
\* frontend, a demux has at most one client, is marked in use while it has one, and no
\* hardware demux is replaced while it runs.
THEOREM Leasing == Spec => []Leased
<1>1. Init => LInv
    BY DEF Init, LInv, Lending, Lease, Free, Closing, NoSpareDevice, Held, ClosesUnused, CloseSteps
<1>2. (TypeOK /\ OwnMappings /\ SInv) /\ LInv /\ [Next]_vars => LInv'
    BY LInvKept
<1>3. LInv => Leased
    BY DEF LInv, Lending, Lease, Leased
<1> QED
    BY <1>1, <1>2, <1>3, SourcedInvariance, PTL DEF Spec
=============================================================================
