-------------------------- MODULE DemuxFilters_proof --------------------------
(***************************************************************************)
(* Proofs about DemuxFilters, for every number of hardware ids and every   *)
(* set of filters.                                                         *)
(***************************************************************************)
EXTENDS DemuxFilters, TLAPS

\* A filter was given a hardware id when it was opened.
IdsGiven == \A f \in Filters : phase[f] # "none" => mFilterId[f] \in Ids

\* A filter is entered under its own id, and under that of a filter that still has it
\* there is no other one.
EntriesMatch ==
    /\ \A i \in Ids : Found(i) => mFilterId[mFilters[i]] = i /\ phase[mFilters[i]] # "none"
    /\ \A f \in Filters :
          Holds(f) => mFilters[mFilterId[f]] \in {f, Null, NoEntry}

\* An id without an owner has no callback, nor has one that is about to be freed.
CallbacksCleared ==
    /\ \A i \in Ids : ~used[i] => ~cb[i]
    /\ \A f \in Filters : phase[f] = "callbackCleared" => ~cb[mFilterId[f]]

\* The data of the callback under way was read from the id it was called for.
DatumOfCall ==
    /\ step = "idle" <=> calling = 0
    /\ step \in {"idle", "read"} <=> datum = Null
    /\ \A f \in Filters : datum = f => mFilterId[f] = calling /\ phase[f] # "none"

\* Between the read and the filing, what is found under the id is the filter the data is of,
\* or one that was opened since and inherits it.
Heir ==
    step = "update" => \A g \in Filters :
        mFilters[calling] = g => g = datum \/ (inherits[g] = datum /\ ~Holds(datum))

IInv ==
    /\ TypeOK
    /\ IdsGiven /\ EntriesMatch /\ CallbacksCleared /\ DatumOfCall /\ Heir
    /\ OneOwner
    /\ RegisteredHasQueue
    /\ PlaybackIdsFound /\ AttachedFound
    /\ DvrFollowsPlaybackIds
    /\ NoInheritedCallback
    /\ NoMixedData

\* The variables of the invariant, one by one.
LEMMA Frame ==
    ASSUME UNCHANGED vars
    PROVE  UNCHANGED <<used, enable, cb, calling, phase, mFilterId, mFilterMQ,
                       mFilterOutput, mFilters, mPlaybackFilterIds, mRecordFilterIds,
                       mDvrPlayback, mDvrRecord, dvrFilters, mMediaSync, step, datum,
                       overlapped, inherits>>
BY DEF vars, hardware, objects, sets, dvrs, callback

LEMMA InitIInv == Init => IInv
<1> SUFFICES ASSUME Init
             PROVE  IInv
  OBVIOUS
<1>1. /\ used \in [Ids -> BOOLEAN] /\ enable \in [Ids -> BOOLEAN] /\ cb \in [Ids -> BOOLEAN]
      /\ \A i \in Ids : ~used[i] /\ ~cb[i]
  BY DEF Init
<1>2. /\ phase \in [Filters -> {"none", "open", "callbackCleared", "freed", "closed"}]
      /\ mFilterMQ \in [Filters -> BOOLEAN]
      /\ mFilterOutput \in [Filters -> SUBSET Filters]
      /\ \A f \in Filters : ~Holds(f) /\ phase[f] = "none" /\ mFilterOutput[f] = {}
  BY DEF Init, Holds
<1>3. mFilterId \in [Filters -> 0..FilterCount] /\ calling \in 0..FilterCount
  BY FilterCountAssumption DEF Init
<1>4. /\ mFilters \in [Ids -> Entries] /\ dvrFilters \in [Ids -> Entries]
      /\ \A i \in Ids : ~Found(i)
  BY NullAssumption DEF Init, Found, Nowhere, Entries
<1>5. /\ mPlaybackFilterIds = {} /\ mRecordFilterIds = {}
      /\ mDvrPlayback = FALSE /\ mDvrRecord = FALSE /\ mMediaSync = FALSE
      /\ step = "idle" /\ datum = Null /\ calling = 0
  BY DEF Init
<1>o. overlapped \in BOOLEAN /\ inherits \in [Filters -> Filters \cup {Null}]
  BY DEF Init
<1>6. TypeOK
  BY <1>1, <1>2, <1>3, <1>4, <1>5, <1>o DEF TypeOK
<1>7. IdsGiven /\ EntriesMatch /\ CallbacksCleared /\ OneOwner /\ NoMixedData
  BY <1>1, <1>2, <1>4 DEF IdsGiven, EntriesMatch, CallbacksCleared, OneOwner, NoMixedData
<1>8. NoInheritedCallback
  BY <1>2, FiltersAssumption DEF NoInheritedCallback
<1>9. DatumOfCall /\ Heir
  BY <1>5, NullAssumption DEF DatumOfCall, Heir
<1>10. RegisteredHasQueue /\ PlaybackIdsFound /\ AttachedFound /\ DvrFollowsPlaybackIds
  BY <1>4, <1>5 DEF RegisteredHasQueue, PlaybackIdsFound, AttachedFound, DvrFollowsPlaybackIds
<1> QED BY <1>6, <1>7, <1>8, <1>9, <1>10 DEF IInv

-----------------------------------------------------------------------------
(* Opening a filter.                                                       *)

\* An id that is free has no filter that is still open and is found under it.
LEMMA FreeIdHasNoOwner ==
    ASSUME IInv, NEW i \in Ids, ~used[i], NEW g \in Filters, Holds(g)
    PROVE  mFilterId[g] # i
BY DEF IInv, OneOwner

LEMMA OpenStep ==
    ASSUME IInv, NEW f \in Filters, openFilter(f)
    PROVE  IInv'
<1>1. PICK i \in Ids :
          /\ ~used[i]
          /\ used' = [used EXCEPT ![i] = TRUE]
          /\ cb' = IF f \in RecordFilters THEN cb ELSE [cb EXCEPT ![i] = TRUE]
          /\ phase' = [phase EXCEPT ![f] = "open"]
          /\ mFilterId' = [mFilterId EXCEPT ![f] = i]
          /\ mFilterMQ' = [mFilterMQ EXCEPT ![f] = TRUE]
          /\ mFilterOutput' = [mFilterOutput EXCEPT ![f] = {}]
          /\ inherits' = [inherits EXCEPT ![f] = IF step = "update" /\ calling = i THEN datum
                                                 ELSE Null]
          /\ mFilters' = [mFilters EXCEPT ![i] = f]
          /\ IF f \in RecordFilters
             THEN UNCHANGED <<mPlaybackFilterIds, dvrFilters>>
             ELSE /\ mPlaybackFilterIds' = mPlaybackFilterIds \cup {i}
                  /\ dvrFilters' = IF mDvrPlayback THEN [dvrFilters EXCEPT ![i] = f]
                                   ELSE dvrFilters
  BY DEF openFilter, Hw!LowestFree, RegisterCallback, Register, AddPlaybackFilter
<1>2. UNCHANGED <<enable, mRecordFilterIds, mDvrPlayback, mDvrRecord, mMediaSync, calling,
                  step, datum>>
  BY DEF openFilter, callback
<1>o. overlapped' \in BOOLEAN
  BY DEF openFilter, Overlaps, IInv, TypeOK
<1>3. /\ phase[f] \in {"none", "closed"}
      /\ datum # f
      /\ \A j \in Ids : mFilters[j] # f
      /\ \A g \in Filters \ {f} : f \notin mFilterOutput[g]
  BY DEF openFilter, Unreferenced
<1>4. TypeOK
  BY DEF IInv
<1>5. TypeOK'
  <2>1. Ids \subseteq 0..FilterCount
    BY FilterCountAssumption DEF Ids
  <2>2. /\ used' \in [Ids -> BOOLEAN] /\ cb' \in [Ids -> BOOLEAN]
        /\ phase' \in [Filters -> {"none", "open", "callbackCleared", "freed", "closed"}]
        /\ mFilterMQ' \in [Filters -> BOOLEAN]
    BY <1>1, <1>4 DEF TypeOK
  <2>3. mFilterId' \in [Filters -> 0..FilterCount]
    BY <1>1, <1>4, <2>1 DEF TypeOK
  <2>4. mFilterOutput' \in [Filters -> SUBSET Filters]
    BY <1>1, <1>4 DEF TypeOK
  <2>5. mFilters' \in [Ids -> Entries] /\ dvrFilters' \in [Ids -> Entries]
    BY <1>1, <1>4 DEF TypeOK, Entries
  <2>6. mPlaybackFilterIds' \subseteq Ids
    BY <1>1, <1>4 DEF TypeOK
  <2>7. inherits' \in [Filters -> Filters \cup {Null}]
    BY <1>1, <1>4 DEF TypeOK
  <2> QED BY <1>2, <1>4, <1>o, <2>2, <2>3, <2>4, <2>5, <2>6, <2>7 DEF TypeOK
<1>6. /\ phase'[f] = "open" /\ mFilterId'[f] = i /\ mFilterMQ'[f] /\ mFilterOutput'[f] = {}
      /\ mFilters'[i] = f
      /\ \A g \in Filters \ {f} : /\ phase'[g] = phase[g] /\ mFilterId'[g] = mFilterId[g]
                                  /\ mFilterMQ'[g] = mFilterMQ[g]
                                  /\ mFilterOutput'[g] = mFilterOutput[g]
                                  /\ inherits'[g] = inherits[g]
      /\ \A j \in Ids \ {i} : mFilters'[j] = mFilters[j] /\ used'[j] = used[j]
                              /\ cb'[j] = cb[j]
      /\ used'[i] /\ (f \in RecordFilters => cb'[i] = cb[i])
  BY <1>1, <1>4 DEF TypeOK
<1>7. \A g \in Filters \ {f} : Holds(g) => mFilterId[g] # i
  BY <1>1, FreeIdHasNoOwner
<1>8. OneOwner' /\ IdsGiven'
  BY <1>6, <1>7 DEF IInv, OneOwner, IdsGiven, Holds
<1>9. EntriesMatch'
  BY <1>3, <1>6, <1>7, NullAssumption DEF IInv, EntriesMatch, Found, Holds, IdsGiven
<1>10. CallbacksCleared'
  BY <1>6, <1>7 DEF IInv, CallbacksCleared, Holds, IdsGiven
<1>11. NoInheritedCallback'
  <2> SUFFICES ASSUME NEW g \in RecordFilters, Holds(g)'
               PROVE  ~cb'[mFilterId'[g]]
    BY DEF NoInheritedCallback
  <2>1. CASE g = f
    BY <1>1, <1>6, <2>1 DEF IInv, CallbacksCleared
  <2>2. CASE g # f
    <3>1. g \in Filters \ {f}
      BY <2>2, FiltersAssumption
    <3>2. Holds(g) /\ mFilterId[g] \in Ids \ {i} /\ ~cb[mFilterId[g]]
      BY <1>6, <1>7, <3>1 DEF IInv, NoInheritedCallback, Holds, IdsGiven
    <3> QED BY <1>6, <3>1, <3>2
  <2> QED BY <2>1, <2>2
<1>12. DatumOfCall'
  BY <1>2, <1>3, <1>6 DEF IInv, DatumOfCall
<1>13. RegisteredHasQueue'
  BY <1>3, <1>6 DEF IInv, RegisteredHasQueue, Found
<1>14. PlaybackIdsFound' /\ AttachedFound'
  BY <1>1, <1>2, <1>6 DEF IInv, PlaybackIdsFound, AttachedFound, Found
<1>15. DvrFollowsPlaybackIds'
  BY <1>1, <1>2, <1>4, NullAssumption DEF IInv, DvrFollowsPlaybackIds, TypeOK
<1>16. NoMixedData'
  BY <1>3, <1>6 DEF IInv, NoMixedData, Holds
<1>17. Heir'
  <2> SUFFICES ASSUME step = "update", NEW g \in Filters, mFilters'[calling] = g
               PROVE  g = datum \/ (inherits'[g] = datum /\ ~Holds(datum)')
    BY <1>2 DEF Heir
  <2>1. calling \in Ids /\ datum \in Filters \ {f} /\ mFilterId[datum] = calling
    BY <1>3, FilterCountAssumption DEF IInv, TypeOK, DatumOfCall, Ids
  <2>2. CASE calling = i
    <3>1. g = f /\ inherits'[f] = datum
      BY <1>1, <1>4, <1>6, <2>2 DEF TypeOK
    <3>2. ~Holds(datum) /\ phase'[datum] = phase[datum]
      BY <1>6, <1>7, <2>1, <2>2
    <3> QED BY <1>2, <3>1, <3>2 DEF Holds
  <2>3. CASE calling # i
    <3>1. mFilters[calling] = g /\ g # f
      BY <1>3, <1>6, <2>1, <2>3
    <3>2. inherits'[g] = inherits[g] /\ phase'[datum] = phase[datum]
      BY <1>6, <2>1, <3>1
    <3> QED BY <1>2, <3>1, <3>2 DEF IInv, Heir, Holds
  <2> QED BY <2>2, <2>3
<1> QED BY <1>5, <1>8, <1>9, <1>10, <1>11, <1>12, <1>13, <1>14, <1>15,
        <1>16, <1>17 DEF IInv

LEMMA OpenWithoutQueueStep ==
    ASSUME IInv, openFilterWithoutQueue
    PROVE  IInv'
<1>1. PICK i \in Ids : ~used[i] /\ used' = [used EXCEPT ![i] = TRUE]
  BY DEF openFilterWithoutQueue, Hw!Allocate, Hw!LowestFree
<1>2. UNCHANGED <<enable, cb, calling, phase, mFilterId, mFilterMQ, mFilterOutput, mFilters,
                  mPlaybackFilterIds, mRecordFilterIds, mDvrPlayback, mDvrRecord,
                  dvrFilters, mMediaSync, step, datum, overlapped, inherits>>
  BY DEF openFilterWithoutQueue, Hw!Allocate, objects, sets, dvrs
<1>3. TypeOK' /\ \A j \in Ids : used[j] => used'[j]
  BY <1>1, <1>2 DEF IInv, TypeOK
<1>4. OneOwner'
  BY <1>2, <1>3 DEF IInv, OneOwner, Holds, IdsGiven
<1>5. CallbacksCleared'
  BY <1>2, <1>3 DEF IInv, CallbacksCleared
<1> QED BY <1>2, <1>3, <1>4, <1>5
        DEF IInv, IdsGiven, EntriesMatch, DatumOfCall, Heir, RegisteredHasQueue, Found, Holds,
            PlaybackIdsFound, AttachedFound, DvrFollowsPlaybackIds, NoInheritedCallback,
            NoMixedData

-----------------------------------------------------------------------------
(* Starting, stopping and closing a filter.                                *)

LEMMA StartStopStep ==
    ASSUME IInv, NEW f \in Filters, start(f) \/ stop(f)
    PROVE  IInv'
<1>1. UNCHANGED <<used, cb, calling, phase, mFilterId, mFilterMQ, mFilterOutput, mFilters,
                  mPlaybackFilterIds, mRecordFilterIds, mDvrPlayback, mDvrRecord,
                  dvrFilters, mMediaSync, step, datum, overlapped, inherits>>
  BY DEF start, stop, Hw!Start, Hw!Stop, tables_unchanged, sets, dvrs
<1>2. enable' \in [Ids -> BOOLEAN]
  BY DEF start, stop, Hw!Start, Hw!Stop, IInv, TypeOK
<1> QED BY <1>1, <1>2
        DEF IInv, TypeOK, IdsGiven, EntriesMatch, CallbacksCleared, DatumOfCall, Heir, OneOwner,
            RegisteredHasQueue, Found, Holds, PlaybackIdsFound, AttachedFound,
            DvrFollowsPlaybackIds, NoInheritedCallback, NoMixedData

LEMMA ClearCallbackStep ==
    ASSUME IInv, NEW f \in Filters, clearCallback(f)
    PROVE  IInv'
<1>1. /\ phase[f] = "open"
      /\ cb' = [cb EXCEPT ![mFilterId[f]] = FALSE]
      /\ phase' = [phase EXCEPT ![f] = "callbackCleared"]
      /\ UNCHANGED <<used, enable, calling, mFilterId, mFilterMQ, mFilterOutput, mFilters,
                     mPlaybackFilterIds, mRecordFilterIds, mDvrPlayback, mDvrRecord,
                     dvrFilters, mMediaSync, step, datum, inherits>>
  BY DEF clearCallback, Hw!SetCallback, tables_unchanged, sets, dvrs
<1>o. overlapped' \in BOOLEAN
  BY DEF clearCallback, Overlaps, IInv, TypeOK
<1>2. TypeOK'
  BY <1>1, <1>o DEF IInv, TypeOK
<1>3. /\ \A g \in Filters \ {f} : phase'[g] = phase[g]
      /\ phase'[f] = "callbackCleared"
      /\ \A i \in Ids : cb'[i] => cb[i]
      /\ ~cb'[mFilterId[f]]
  BY <1>1 DEF IInv, TypeOK, IdsGiven
<1>4. /\ IdsGiven' /\ EntriesMatch' /\ OneOwner' /\ DatumOfCall' /\ Heir' /\ NoMixedData'
      /\ RegisteredHasQueue' /\ PlaybackIdsFound' /\ AttachedFound' /\ DvrFollowsPlaybackIds'
  BY <1>1, <1>3
     DEF IInv, IdsGiven, EntriesMatch, OneOwner, Holds, Found, DatumOfCall, Heir, NoMixedData,
         RegisteredHasQueue, PlaybackIdsFound, AttachedFound, DvrFollowsPlaybackIds
<1>5. CallbacksCleared' /\ NoInheritedCallback'
  BY <1>1, <1>3, FiltersAssumption
     DEF IInv, CallbacksCleared, NoInheritedCallback, Holds, IdsGiven
<1> QED BY <1>2, <1>4, <1>5 DEF IInv

LEMMA FreeStep ==
    ASSUME IInv, NEW f \in Filters, freeFilter(f)
    PROVE  IInv'
<1>1. /\ phase[f] = "callbackCleared"
      /\ phase' = [phase EXCEPT ![f] = "freed"]
      /\ \/ used' = [used EXCEPT ![mFilterId[f]] = FALSE]
         \/ used' = used
      /\ enable' = [enable EXCEPT ![mFilterId[f]] = FALSE]
      /\ UNCHANGED <<cb, calling, mFilterId, mFilterMQ, mFilterOutput, mFilters,
                     mPlaybackFilterIds, mRecordFilterIds, mDvrPlayback, mDvrRecord,
                     dvrFilters, mMediaSync, step, datum, overlapped, inherits>>
  BY DEF freeFilter, Hw!Free, Hw!Stop, tables_unchanged, sets, dvrs
<1>2. TypeOK'
  BY <1>1 DEF IInv, TypeOK
<1>3. /\ \A g \in Filters \ {f} : phase'[g] = phase[g]
      /\ phase'[f] = "freed"
      /\ mFilterId[f] \in Ids
      /\ \A i \in Ids \ {mFilterId[f]} : used'[i] = used[i]
      /\ ~cb[mFilterId[f]]
  BY <1>1 DEF IInv, TypeOK, IdsGiven, CallbacksCleared
<1>4. OneOwner'
  BY <1>1, <1>3 DEF IInv, OneOwner, Holds, IdsGiven
<1>5. /\ IdsGiven' /\ EntriesMatch' /\ DatumOfCall' /\ Heir' /\ NoMixedData'
      /\ RegisteredHasQueue' /\ PlaybackIdsFound' /\ AttachedFound' /\ DvrFollowsPlaybackIds'
  BY <1>1, <1>3
     DEF IInv, IdsGiven, EntriesMatch, Holds, Found, DatumOfCall, Heir, NoMixedData,
         RegisteredHasQueue, PlaybackIdsFound, AttachedFound, DvrFollowsPlaybackIds
<1>6. CallbacksCleared' /\ NoInheritedCallback'
  BY <1>1, <1>3, FiltersAssumption DEF IInv, CallbacksCleared, NoInheritedCallback, Holds
<1> QED BY <1>2, <1>4, <1>5, <1>6 DEF IInv

LEMMA RemoveStep ==
    ASSUME IInv, NEW f \in Filters, removeFilter(f)
    PROVE  IInv'
<1> DEFINE i == mFilterId[f]
<1>1. /\ phase[f] = "freed"
      /\ phase' = [phase EXCEPT ![f] = "closed"]
      /\ mFilterMQ' = [g \in Filters |-> mFilterMQ[g] /\ mFilters[i] # g]
      /\ mFilters' = [mFilters EXCEPT ![i] = NoEntry]
      /\ mPlaybackFilterIds' = mPlaybackFilterIds \ {i}
      /\ mRecordFilterIds' = mRecordFilterIds \ {i}
      /\ dvrFilters' = IF mDvrPlayback THEN [dvrFilters EXCEPT ![i] = NoEntry]
                       ELSE dvrFilters
      /\ UNCHANGED <<used, enable, cb, calling, mFilterId, mFilterOutput, mDvrPlayback,
                     mDvrRecord, step, datum, overlapped, inherits>>
  BY DEF removeFilter, EraseId, hardware, callback
<1>2. mMediaSync' \in BOOLEAN
  BY DEF removeFilter, DestroyMediaSync, IInv, TypeOK
<1>3. i \in Ids
  BY <1>1 DEF IInv, IdsGiven
<1>4. TypeOK'
  <2>1. mFilters' \in [Ids -> Entries] /\ dvrFilters' \in [Ids -> Entries]
    BY <1>1 DEF IInv, TypeOK, Entries
  <2>2. mFilterMQ' \in [Filters -> BOOLEAN]
    BY <1>1 DEF IInv, TypeOK
  <2>3. phase' \in [Filters -> {"none", "open", "callbackCleared", "freed", "closed"}]
    BY <1>1 DEF IInv, TypeOK
  <2>4. mPlaybackFilterIds' \subseteq Ids /\ mRecordFilterIds' \subseteq Ids
    BY <1>1 DEF IInv, TypeOK
  <2> QED BY <1>1, <1>2, <2>1, <2>2, <2>3, <2>4 DEF IInv, TypeOK
<1>5. /\ \A g \in Filters \ {f} : phase'[g] = phase[g]
      /\ phase'[f] = "closed"
      /\ mFilters'[i] = NoEntry
      /\ \A j \in Ids \ {i} : mFilters'[j] = mFilters[j]
  BY <1>1, <1>3 DEF IInv, TypeOK
<1>6. IdsGiven' /\ OneOwner' /\ DatumOfCall' /\ NoMixedData'
  BY <1>1, <1>5 DEF IInv, IdsGiven, OneOwner, Holds, DatumOfCall, NoMixedData
<1>7. EntriesMatch'
  BY <1>1, <1>5, NullAssumption DEF IInv, EntriesMatch, Found, Holds, IdsGiven
<1>h. Heir'
  <2> SUFFICES ASSUME step = "update", NEW g \in Filters, mFilters'[calling] = g
               PROVE  g = datum \/ (inherits[g] = datum /\ ~Holds(datum)')
    BY <1>1 DEF Heir
  <2>1. calling \in Ids /\ datum \in Filters
    BY FilterCountAssumption DEF IInv, TypeOK, DatumOfCall, Ids
  <2>2. mFilters[calling] = g
    BY <1>5, <2>1, NullAssumption
  <2> QED BY <1>1, <1>5, <2>1, <2>2 DEF IInv, Heir, Holds
<1>8. CallbacksCleared' /\ NoInheritedCallback'
  BY <1>1, <1>5, FiltersAssumption DEF IInv, CallbacksCleared, NoInheritedCallback, Holds
<1>9. RegisteredHasQueue'
  <2> SUFFICES ASSUME NEW j \in Ids, Found(j)'
               PROVE  mFilterMQ'[mFilters'[j]]
    BY DEF RegisteredHasQueue
  <2>1. j # i /\ mFilters'[j] = mFilters[j] /\ Found(j)
    BY <1>5, NullAssumption DEF Found
  <2>2. mFilters[i] # mFilters[j]
    BY <1>3, <2>1 DEF IInv, EntriesMatch, Found
  <2> QED BY <1>1, <2>1, <2>2 DEF IInv, RegisteredHasQueue, Found
<1>10. PlaybackIdsFound' /\ AttachedFound'
  BY <1>1, <1>5 DEF IInv, TypeOK, PlaybackIdsFound, AttachedFound, Found
<1>11. DvrFollowsPlaybackIds'
  BY <1>1, <1>3 DEF IInv, TypeOK, DvrFollowsPlaybackIds
<1> QED BY <1>4, <1>6, <1>7, <1>h, <1>8, <1>9, <1>10, <1>11 DEF IInv

-----------------------------------------------------------------------------
(* The operations on the demux's tables.  A lookup only adds null entries. *)

LEMMA FindFacts ==
    ASSUME TypeOK,
           NEW S,
           mFilters' = [i \in Ids |-> IF i \in S /\ mFilters[i] = NoEntry THEN Null
                                      ELSE mFilters[i]]
    PROVE  /\ mFilters' \in [Ids -> Entries]
           /\ \A i \in Ids : /\ Found(i)' <=> Found(i)
                             /\ Found(i) => mFilters'[i] = mFilters[i]
                             /\ mFilters'[i] \in {mFilters[i], Null}
BY NullAssumption DEF TypeOK, Entries, Found

LEMMA FindIsLookup ==
    ASSUME TypeOK, NEW j \in Ids, Find(j)
    PROVE  mFilters' = [i \in Ids |-> IF i \in {j} /\ mFilters[i] = NoEntry THEN Null
                                      ELSE mFilters[i]]
<1>1. mFilters = [i \in Ids |-> mFilters[i]]
  BY DEF TypeOK
<1> QED BY <1>1 DEF Find

\* What a lookup keeps, whatever else changes of the demux's sets and Dvrs.
LEMMA LookupKeeps ==
    ASSUME IInv, NEW S,
           mFilters' = [i \in Ids |-> IF i \in S /\ mFilters[i] = NoEntry THEN Null
                                      ELSE mFilters[i]],
           UNCHANGED <<used, enable, cb, phase, mFilterId, mFilterMQ>>
    PROVE  /\ IdsGiven' /\ EntriesMatch' /\ CallbacksCleared' /\ OneOwner'
           /\ RegisteredHasQueue' /\ NoInheritedCallback'
<1>1. TypeOK
  BY DEF IInv
<1>2. \A i \in Ids : /\ Found(i)' <=> Found(i)
                     /\ Found(i) => mFilters'[i] = mFilters[i]
                     /\ mFilters'[i] \in {mFilters[i], Null}
  BY <1>1, FindFacts
<1>3. IdsGiven' /\ CallbacksCleared' /\ OneOwner' /\ NoInheritedCallback'
  BY DEF IInv, IdsGiven, CallbacksCleared, OneOwner, NoInheritedCallback, Holds
<1>4. EntriesMatch'
  BY <1>2 DEF IInv, EntriesMatch, IdsGiven, Holds
<1>5. RegisteredHasQueue'
  BY <1>2 DEF IInv, RegisteredHasQueue
<1> QED BY <1>3, <1>4, <1>5

\* And what it leaves to the data that waits to be filed.
LEMMA LookupKeepsHeir ==
    ASSUME IInv, NEW S,
           mFilters' = [i \in Ids |-> IF i \in S /\ mFilters[i] = NoEntry THEN Null
                                      ELSE mFilters[i]],
           UNCHANGED <<phase, inherits, calling, datum>>,
           step' = "update" => step = "update"
    PROVE  Heir'
<1> SUFFICES ASSUME step = "update", NEW g \in Filters, mFilters'[calling] = g
             PROVE  g = datum \/ (inherits[g] = datum /\ ~Holds(datum))
  BY DEF Heir, Holds
<1>1. calling \in Ids
  BY FilterCountAssumption DEF IInv, TypeOK, DatumOfCall, Ids
<1>2. mFilters[calling] = g
  BY <1>1, NullAssumption
<1> QED BY <1>2 DEF IInv, Heir

LEMMA AttachStep ==
    ASSUME IInv, NEW f \in Filters,
           attachRecordFilter(f) \/ detachRecordFilter(f) \/ getAvSyncHwId(f)
    PROVE  IInv'
<1> DEFINE j == mFilterId[f]
<1>1. /\ phase[f] # "none"
      /\ Find(j)
      /\ UNCHANGED <<used, enable, cb, calling, phase, mFilterId, mFilterMQ, mFilterOutput,
                     mPlaybackFilterIds, mDvrPlayback, mDvrRecord, dvrFilters, step, datum,
                     overlapped, inherits>>
      /\ mMediaSync' \in {mMediaSync, TRUE}
      /\ \/ mRecordFilterIds' \subseteq mRecordFilterIds
         \/ Found(j) /\ mRecordFilterIds' = mRecordFilterIds \cup {j}
  BY FiltersAssumption
     DEF attachRecordFilter, detachRecordFilter, getAvSyncHwId, Found, hardware, objects,
         sets, dvrs, callback
<1>2. TypeOK /\ j \in Ids
  BY <1>1 DEF IInv, IdsGiven
<1>3. mFilters' = [i \in Ids |-> IF i \in {j} /\ mFilters[i] = NoEntry THEN Null
                                 ELSE mFilters[i]]
  BY <1>1, <1>2, FindIsLookup
<1>4. /\ mFilters' \in [Ids -> Entries]
      /\ \A i \in Ids : Found(i)' <=> Found(i)
  BY <1>2, <1>3, FindFacts
<1>5. /\ IdsGiven' /\ EntriesMatch' /\ CallbacksCleared' /\ OneOwner'
      /\ RegisteredHasQueue' /\ NoInheritedCallback'
  BY <1>1, <1>3, LookupKeeps
<1>6. TypeOK'
  BY <1>1, <1>2, <1>4 DEF TypeOK
<1>7. PlaybackIdsFound' /\ AttachedFound'
  BY <1>1, <1>2, <1>4 DEF IInv, TypeOK, PlaybackIdsFound, AttachedFound
<1>8. DatumOfCall' /\ NoMixedData' /\ DvrFollowsPlaybackIds'
  BY <1>1 DEF IInv, DatumOfCall, NoMixedData, Holds, DvrFollowsPlaybackIds
<1>9. Heir'
  BY <1>1, <1>3, LookupKeepsHeir
<1> QED BY <1>5, <1>6, <1>7, <1>8, <1>9 DEF IInv

LEMMA OpenDvrStep ==
    ASSUME IInv, openPlaybackDvr \/ openRecordDvr
    PROVE  IInv'
<1>1. UNCHANGED <<used, enable, cb, calling, phase, mFilterId, mFilterMQ, mFilterOutput,
                  mPlaybackFilterIds, mRecordFilterIds, mMediaSync, step, datum, overlapped,
                  inherits>>
  BY DEF openPlaybackDvr, openRecordDvr, hardware, objects, sets, callback
<1>2. mDvrPlayback' \in BOOLEAN /\ mDvrRecord' \in BOOLEAN
  BY DEF openPlaybackDvr, openRecordDvr, IInv, TypeOK
<1>3. PICK S \in {{}, mPlaybackFilterIds} :
          mFilters' = [i \in Ids |-> IF i \in S /\ mFilters[i] = NoEntry THEN Null
                                     ELSE mFilters[i]]
  <2>1. mFilters = [i \in Ids |-> mFilters[i]]
    BY DEF IInv, TypeOK
  <2> QED BY <2>1 DEF openPlaybackDvr, openRecordDvr
<1>4. /\ mFilters' \in [Ids -> Entries]
      /\ \A i \in Ids : Found(i)' <=> Found(i)
  BY <1>3, FindFacts DEF IInv
<1>5. dvrFilters' \in [Ids -> Entries] /\ DvrFollowsPlaybackIds'
  <2>1. CASE openPlaybackDvr /\ mDvrPlayback'
    <3>1. dvrFilters' = [i \in Ids |-> IF i \in mPlaybackFilterIds THEN mFilters[i]
                                       ELSE NoEntry]
      BY <2>1 DEF openPlaybackDvr
    <3>2. \A i \in mPlaybackFilterIds : mFilters[i] # NoEntry
      BY NullAssumption DEF IInv, PlaybackIdsFound, Found
    <3> QED BY <1>1, <3>1, <3>2 DEF IInv, TypeOK, Entries, DvrFollowsPlaybackIds
  <2>2. CASE openPlaybackDvr /\ ~mDvrPlayback'
    BY <2>2 DEF openPlaybackDvr, Nowhere, Entries, DvrFollowsPlaybackIds
  <2>3. CASE openRecordDvr
    BY <1>1, <2>3 DEF openRecordDvr, IInv, TypeOK, DvrFollowsPlaybackIds
  <2> QED BY <2>1, <2>2, <2>3
<1>6. /\ IdsGiven' /\ EntriesMatch' /\ CallbacksCleared' /\ OneOwner'
      /\ RegisteredHasQueue' /\ NoInheritedCallback'
  BY <1>1, <1>3, LookupKeeps
<1>7. TypeOK'
  BY <1>1, <1>2, <1>4, <1>5 DEF IInv, TypeOK
<1>8. PlaybackIdsFound' /\ AttachedFound'
  BY <1>1, <1>4 DEF IInv, TypeOK, PlaybackIdsFound, AttachedFound
<1>9. DatumOfCall' /\ NoMixedData'
  BY <1>1 DEF IInv, DatumOfCall, NoMixedData, Holds
<1>10. Heir'
  BY <1>1, <1>3, LookupKeepsHeir
<1> QED BY <1>5, <1>6, <1>7, <1>8, <1>9, <1>10 DEF IInv

-----------------------------------------------------------------------------
(* The data callback.                                                      *)

LEMMA CallbackStep ==
    ASSUME IInv, postData
    PROVE  IInv'
<1>1. UNCHANGED <<used, enable, cb, phase, mFilterId, mFilterMQ, mPlaybackFilterIds,
                  mRecordFilterIds, mDvrPlayback, mDvrRecord, dvrFilters, mMediaSync, overlapped,
                  inherits>>
  BY DEF postData, beginCallback, readData, updateFilterOutput, startFilterHandler,
         endCallback, callback_unchanged, Hw!BeginCall, Hw!EndCall, Hw!table, hardware,
         objects, sets, dvrs
<1>2. TypeOK /\ DatumOfCall
  BY DEF IInv
<1>3. step \in {"update", "deliver"} => calling \in Ids
  BY <1>2, FilterCountAssumption DEF TypeOK, DatumOfCall, Ids
<1>4. PICK S \in {{}, {calling}} :
          mFilters' = [i \in Ids |-> IF i \in S /\ mFilters[i] = NoEntry THEN Null
                                     ELSE mFilters[i]]
  <2>1. CASE beginCallback \/ readData \/ endCallback
    <3>1. mFilters' = mFilters
      BY <2>1 DEF beginCallback, readData, endCallback
    <3>2. mFilters' = [i \in Ids |-> IF i \in {} /\ mFilters[i] = NoEntry THEN Null
                                     ELSE mFilters[i]]
      BY <1>2, <3>1 DEF TypeOK
    <3> QED BY <3>2
  <2>2. CASE updateFilterOutput \/ startFilterHandler
    <3>1. calling \in Ids /\ Find(calling)
      BY <1>3, <2>2 DEF updateFilterOutput, startFilterHandler
    <3> QED BY <1>2, <3>1, FindIsLookup
  <2> QED BY <2>1, <2>2 DEF postData
<1>5. /\ mFilters' \in [Ids -> Entries]
      /\ \A i \in Ids : Found(i)' <=> Found(i)
  BY <1>2, <1>4, FindFacts
<1>6. /\ IdsGiven' /\ EntriesMatch' /\ CallbacksCleared' /\ OneOwner'
      /\ RegisteredHasQueue' /\ NoInheritedCallback'
  BY <1>1, <1>4, LookupKeeps
<1>7. PlaybackIdsFound' /\ AttachedFound' /\ DvrFollowsPlaybackIds'
  BY <1>1, <1>2, <1>5
     DEF IInv, TypeOK, PlaybackIdsFound, AttachedFound, DvrFollowsPlaybackIds
<1>8. /\ calling' \in 0..FilterCount
      /\ step' \in {"idle", "read", "update", "deliver", "done"}
      /\ datum' \in Filters \cup {Null}
      /\ DatumOfCall'
  <2>1. CASE beginCallback
    <3>1. PICK i \in Ids : calling = 0 /\ calling' = i
      BY <2>1 DEF beginCallback, Hw!BeginCall, Hw!FilterIds, Ids
    <3>2. step' = "read" /\ datum' = datum /\ i # 0 /\ i \in 0..FilterCount
      BY <2>1, FilterCountAssumption DEF beginCallback, Ids
    <3>3. step = "idle" /\ datum = Null
      BY <1>2, <3>1 DEF DatumOfCall
    <3>4. \A f \in Filters : datum' # f
      BY <3>2, <3>3, NullAssumption
    <3>5. calling' # 0 /\ calling' \in 0..FilterCount
      BY <3>1, <3>2
    <3> QED BY <3>2, <3>3, <3>4, <3>5 DEF DatumOfCall
  <2>2. CASE readData
    <3>1. PICK f \in Filters : Holds(f) /\ mFilterId[f] = calling /\ datum' = f
      BY <2>2 DEF readData
    <3>2. step = "read" /\ step' = "update" /\ calling' = calling
      BY <2>2 DEF readData
    <3> QED BY <1>1, <1>2, <3>1, <3>2, NullAssumption DEF DatumOfCall, TypeOK, Holds
  <2>3. CASE updateFilterOutput \/ startFilterHandler
    <3>1. /\ step \in {"update", "deliver"} /\ step' \in {"deliver", "done"}
          /\ UNCHANGED <<calling, datum>>
      BY <2>3 DEF updateFilterOutput, startFilterHandler
    <3> QED BY <1>1, <1>2, <3>1 DEF DatumOfCall, TypeOK
  <2>4. CASE endCallback
    <3>1. step' = "idle" /\ calling' = 0 /\ datum' = Null
      BY <2>4 DEF endCallback, Hw!EndCall
    <3> QED BY <3>1, FilterCountAssumption, NullAssumption DEF DatumOfCall
  <2> QED BY <2>1, <2>2, <2>3, <2>4 DEF postData
<1>9. mFilterOutput' \in [Filters -> SUBSET Filters] /\ NoMixedData'
  <2>1. CASE updateFilterOutput
    <3>1. /\ step = "update"
          /\ mFilterOutput' = [f \in Filters |-> IF mFilters[calling] = f
                                                 THEN mFilterOutput[f] \cup {datum}
                                                 ELSE mFilterOutput[f]]
      BY <2>1 DEF updateFilterOutput
    <3>2. datum \in Filters
      BY <1>2, <3>1 DEF DatumOfCall, TypeOK
    <3>4. NoMixedData'
      <4> SUFFICES ASSUME NEW f \in Filters, NEW g \in Filters, f \in mFilterOutput'[g]
                   PROVE  f = g \/ (f = inherits[g] /\ ~Holds(f))
        BY <1>1 DEF NoMixedData, Holds
      <4>1. CASE f \in mFilterOutput[g]
        BY <4>1 DEF IInv, NoMixedData
      <4>2. CASE f \notin mFilterOutput[g]
        <5>1. mFilters[calling] = g /\ datum = f
          BY <3>1, <4>2
        <5> QED BY <3>1, <5>1 DEF IInv, Heir
      <4> QED BY <4>1, <4>2
    <3> QED BY <1>2, <3>1, <3>2, <3>4 DEF TypeOK
  <2>2. CASE startFilterHandler
    <3>1. mFilterOutput' = [f \in Filters |-> IF mFilters[calling] = f THEN {}
                                              ELSE mFilterOutput[f]]
      BY <2>2 DEF startFilterHandler
    <3> QED BY <1>1, <1>2, <3>1 DEF IInv, NoMixedData, Holds, TypeOK
  <2>3. CASE beginCallback \/ readData \/ endCallback
    <3>1. mFilterOutput' = mFilterOutput
      BY <2>3 DEF beginCallback, readData, endCallback
    <3> QED BY <1>1, <1>2, <3>1 DEF IInv, NoMixedData, Holds, TypeOK
  <2> QED BY <2>1, <2>2, <2>3 DEF postData
<1>10. TypeOK'
  BY <1>1, <1>2, <1>5, <1>8, <1>9 DEF TypeOK
<1>11. Heir'
  <2>1. CASE readData
    <3>1. PICK f \in Filters : Holds(f) /\ mFilterId[f] = calling /\ datum' = f
      BY <2>1 DEF readData
    <3>2. mFilters[calling] \in {f, Null, NoEntry} /\ mFilters' = mFilters /\ calling' = calling
      BY <2>1, <3>1 DEF IInv, EntriesMatch, readData
    <3> QED BY <3>1, <3>2, NullAssumption DEF Heir
  <2>2. CASE beginCallback \/ updateFilterOutput \/ startFilterHandler \/ endCallback
    BY <2>2 DEF beginCallback, updateFilterOutput, startFilterHandler, endCallback, Heir
  <2> QED BY <2>1, <2>2 DEF postData
<1> QED BY <1>6, <1>7, <1>8, <1>9, <1>10, <1>11 DEF IInv

-----------------------------------------------------------------------------

\* IInv holds initially and every step preserves it.
LEMMA Invariance == Spec => []IInv
<1>1. ASSUME IInv, [Next]_vars
      PROVE  IInv'
  <2>1. CASE UNCHANGED vars
    BY <1>1, <2>1, Frame
       DEF IInv, TypeOK, IdsGiven, EntriesMatch, CallbacksCleared, DatumOfCall, Heir, OneOwner,
           RegisteredHasQueue, Found, Holds, PlaybackIdsFound, AttachedFound,
           DvrFollowsPlaybackIds, NoInheritedCallback, NoMixedData
  <2>2. CASE openFilterWithoutQueue
    BY <1>1, <2>2, OpenWithoutQueueStep
  <2>3. CASE openPlaybackDvr \/ openRecordDvr
    BY <1>1, <2>3, OpenDvrStep
  <2>4. ASSUME NEW f \in Filters, FilterCall(f)
        PROVE  IInv'
    BY <1>1, <2>4, OpenStep, StartStopStep, ClearCallbackStep, FreeStep, RemoveStep,
       AttachStep
       DEF FilterCall
  <2>5. CASE postData
    BY <1>1, <2>5, CallbackStep
  <2> QED BY <1>1, <2>1, <2>2, <2>3, <2>4, <2>5 DEF Next
<1> QED BY InitIInv, <1>1, PTL DEF Spec

\* The types of DemuxFilters.
THEOREM Typing == Spec => []TypeOK
BY Invariance, PTL DEF IInv

\* A hardware id has one owner until Filter::close frees it, although ids are
\* given out and freed without a common lock.
THEOREM OwnersAreDistinct == Spec => []OneOwner
BY Invariance, PTL DEF IInv

\* What handlers, dispatchers and the playback Dvr take from the tables without a test
\* is there, and no handler delivers through a filter stripped of its queue.
THEOREM TablesHold == Spec => []TablesAgree
BY Invariance, PTL DEF IInv, TablesAgree

\* A filter delivers data of its own and what was read from its id just before it was
\* opened; a filter that still has its id loses no data to another one; and a record filter
\* has no callback, although its open does not clear one.
THEOREM DataStaysWithItsFilter == Spec => []OwnDataOnly
BY Invariance, PTL DEF IInv, OwnDataOnly

-----------------------------------------------------------------------------
(* When no open and no close overlaps a close.                             *)

\* Open filters are registered, and no filter that is closing has an open one's id.
Serial ==
    ~overlapped =>
        /\ OpenFilterRegistered
        /\ \A f, g \in Filters : Closing(f) /\ phase[g] = "open" => mFilterId[f] # mFilterId[g]

\* What leaves ids and phases alone and only looks filters up.
LEMMA SerialLookup ==
    ASSUME IInv, Serial, UNCHANGED <<phase, mFilterId, overlapped>>,
           \A i \in Ids : Found(i) => mFilters'[i] = mFilters[i]
    PROVE  Serial'
<1>1. \A f \in Filters : phase[f] = "open" => mFilterId[f] \in Ids
  BY DEF IInv, IdsGiven
<1> QED BY <1>1 DEF Serial, OpenFilterRegistered, Closing, Found

LEMMA FindKeeps == \A j : Find(j) => \A i \in Ids : Found(i) => mFilters'[i] = mFilters[i]
BY NullAssumption DEF Find, Found

\* Nobody closes, or the step overlaps.
LEMMA NobodyCloses == Overlaps /\ ~overlapped' => ~overlapped /\ \A g \in Filters : ~Closing(g)
BY DEF Overlaps

LEMMA SerialKept ==
    ASSUME IInv, Serial, [Next]_vars, ~overlapped'
    PROVE  Serial' /\ (mMediaSync /\ ~mMediaSync' => \A f \in Filters : phase[f] # "open")
<1> USE DEF IInv
<1>1. ASSUME NEW f \in Filters, openFilter(f)
      PROVE  Serial' /\ mMediaSync' = mMediaSync
  <2>1. PICK i \in Ids : /\ ~used[i]
                         /\ mFilterId' = [mFilterId EXCEPT ![f] = i]
                         /\ mFilters' = [mFilters EXCEPT ![i] = f]
                         /\ phase' = [phase EXCEPT ![f] = "open"]
    BY <1>1 DEF openFilter, Hw!LowestFree, Register
  <2>2. ~overlapped /\ \A g \in Filters : ~Closing(g)
    BY <1>1, NobodyCloses DEF openFilter
  <2>3. \A g \in Filters \ {f} : phase'[g] = phase[g] /\ mFilterId'[g] = mFilterId[g]
    BY <2>1 DEF TypeOK
  <2>4. phase'[f] = "open" /\ mFilterId'[f] = i /\ mFilters'[i] = f
    BY <2>1 DEF TypeOK
  <2>5. \A g \in Filters \ {f} : phase[g] = "open" => /\ mFilterId[g] \in Ids /\ mFilterId[g] # i
                                                      /\ mFilters[mFilterId[g]] = g
    BY <2>1, <2>2 DEF OneOwner, Holds, IdsGiven, Serial, OpenFilterRegistered
  <2>6. \A g \in Filters \ {f} : phase[g] = "open" => mFilters'[mFilterId[g]] = g
    BY <2>1, <2>5 DEF TypeOK
  <2>7. \A g \in Filters : ~Closing(g)'
    BY <2>2, <2>3, <2>4 DEF Closing
  <2>8. mMediaSync' = mMediaSync
    BY <1>1 DEF openFilter
  <2> QED BY <2>3, <2>4, <2>6, <2>7, <2>8 DEF Serial, OpenFilterRegistered
<1>2. ASSUME NEW f \in Filters, clearCallback(f)
      PROVE  Serial' /\ mMediaSync' = mMediaSync
  <2>1. /\ phase[f] = "open" /\ phase' = [phase EXCEPT ![f] = "callbackCleared"]
        /\ UNCHANGED <<mFilterId, mFilters, mMediaSync>>
    BY <1>2 DEF clearCallback, tables_unchanged
  <2>2. ~overlapped /\ \A g \in Filters : ~Closing(g)
    BY <1>2, NobodyCloses DEF clearCallback
  <2>3. phase'[f] = "callbackCleared" /\ \A g \in Filters \ {f} : phase'[g] = phase[g]
    BY <2>1 DEF TypeOK
  <2>4. \A g \in Filters \ {f} : phase[g] = "open" => mFilterId[f] # mFilterId[g]
    BY <2>1 DEF OneOwner, Holds
  <2> QED BY <2>1, <2>2, <2>3, <2>4 DEF Serial, OpenFilterRegistered, Closing
<1>3. ASSUME NEW f \in Filters, freeFilter(f)
      PROVE  Serial' /\ mMediaSync' = mMediaSync
  <2>1. /\ phase[f] = "callbackCleared" /\ phase' = [phase EXCEPT ![f] = "freed"]
        /\ UNCHANGED <<mFilterId, mFilters, mMediaSync, overlapped>>
    BY <1>3 DEF freeFilter, tables_unchanged
  <2>2. phase'[f] = "freed" /\ \A g \in Filters \ {f} : phase'[g] = phase[g]
    BY <2>1 DEF TypeOK
  <2> QED BY <2>1, <2>2 DEF Serial, OpenFilterRegistered, Closing
<1>4. ASSUME NEW f \in Filters, removeFilter(f)
      PROVE  Serial' /\ (mMediaSync /\ ~mMediaSync' => \A g \in Filters : phase[g] # "open")
  <2>1. /\ phase[f] = "freed" /\ phase' = [phase EXCEPT ![f] = "closed"]
        /\ mFilters' = [mFilters EXCEPT ![mFilterId[f]] = NoEntry]
        /\ UNCHANGED <<mFilterId, overlapped>>
        /\ mMediaSync /\ ~mMediaSync' => mFilters' = Nowhere
    BY <1>4 DEF removeFilter, EraseId, DestroyMediaSync
  <2>2. phase'[f] = "closed" /\ \A g \in Filters \ {f} : phase'[g] = phase[g]
    BY <2>1 DEF TypeOK
  <2>3. \A g \in Filters : phase[g] = "open" =>
            /\ mFilterId[g] \in Ids /\ mFilterId[g] # mFilterId[f] /\ mFilters[mFilterId[g]] = g
    BY <2>1 DEF Serial, OpenFilterRegistered, Closing, IdsGiven
  <2>4. \A g \in Filters : phase[g] = "open" => mFilterId[g] \in Ids /\ mFilters'[mFilterId[g]] = g
    BY <2>1, <2>3 DEF TypeOK
  <2>5. \A g \in Filters : phase[g] = "open" => mFilters' # Nowhere
    BY <2>4, NullAssumption DEF Nowhere
  <2>6. Serial'
    BY <2>1, <2>2, <2>4 DEF Serial, OpenFilterRegistered, Closing
  <2> QED BY <2>1, <2>5, <2>6
<1>5. ASSUME NEW f \in Filters, start(f) \/ stop(f)
      PROVE  Serial' /\ mMediaSync' = mMediaSync
  BY <1>5, SerialLookup DEF start, stop, tables_unchanged
<1>6. ASSUME NEW f \in Filters, attachRecordFilter(f) \/ detachRecordFilter(f) \/ getAvSyncHwId(f)
      PROVE  Serial' /\ (mMediaSync => mMediaSync')
  BY <1>6, SerialLookup, FindKeeps DEF attachRecordFilter, detachRecordFilter, getAvSyncHwId, objects
<1>7. CASE openFilterWithoutQueue \/ openRecordDvr
  BY <1>7, SerialLookup DEF openFilterWithoutQueue, openRecordDvr, objects
<1>8. CASE openPlaybackDvr
  <2>1. /\ UNCHANGED <<phase, mFilterId, mMediaSync, overlapped>>
        /\ \A i \in Ids : Found(i) => mFilters'[i] = mFilters[i]
    BY <1>8, NullAssumption DEF openPlaybackDvr, objects, Found
  <2> QED BY <2>1, SerialLookup
<1>9. CASE postData
  <2>1. /\ UNCHANGED <<phase, mFilterId, mMediaSync, overlapped>>
        /\ mFilters' = mFilters \/ Find(calling)
    BY <1>9 DEF postData, beginCallback, readData, endCallback, updateFilterOutput, startFilterHandler,
                callback_unchanged, objects
  <2> QED BY <2>1, SerialLookup, FindKeeps
<1>10. CASE UNCHANGED vars
  BY <1>10, SerialLookup, Frame
<1> QED BY <1>1, <1>2, <1>3, <1>4, <1>5, <1>6, <1>7, <1>8, <1>9, <1>10 DEF Next, FilterCall

LEMMA SerialInvariance == Spec => []Serial
<1>1. Init => Serial
  BY DEF Init, Serial, OpenFilterRegistered, Closing
<1>2. IInv /\ Serial /\ [Next]_vars => Serial'
  BY SerialKept DEF Serial
<1> QED BY <1>1, <1>2, Invariance, PTL DEF Spec

\* As long as no filter is opened or closed while another one closes, a filter that is
\* open is found under its id.
THEOREM SerialFiltersRegistered == Spec => []SerialFilterRegistered
<1>1. Serial => SerialFilterRegistered
  BY DEF Serial, SerialFilterRegistered
<1> QED BY <1>1, SerialInvariance, PTL

\* And the media sync is not taken from it.
THEOREM MediaSyncStays == Spec => MediaSyncKept
<1>1. IInv /\ Serial /\ [Next]_vars =>
         [~overlapped' /\ mMediaSync /\ ~mMediaSync' => \A f \in Filters : phase[f] # "open"]_vars
  BY SerialKept
<1> QED BY <1>1, Invariance, SerialInvariance, PTL DEF Spec, MediaSyncKept
=============================================================================
