---------------------------- MODULE DemuxFilters ----------------------------
(***************************************************************************)
(* The filters of one demux: the Filter objects clients hold, the tables   *)
(* the Demux finds them in by hardware id, and the callback that carries   *)
(* data from a hardware filter to its object (aidl/Demux.cpp, Filter.cpp,  *)
(* Dvr.cpp).  The hardware's own table is FilterTable.                     *)
(*                                                                         *)
(* What runs under mFilterLock is one step.  Filter::close is three:       *)
(* AM_DMX_SetCallback(NULL), AM_DMX_FreeFilter, Demux::removeFilter; only  *)
(* the last one takes mFilterLock, openFilter holds it throughout.  The    *)
(* data callback reads, then takes the lock twice: to append the data to   *)
(* the filter it finds under the id, and to have that filter deliver it.   *)
(*                                                                         *)
(* A filter is of one of two kinds, for the tables treat them differently: *)
(* a section filter stands for all that have a callback and play back, a   *)
(* record filter has neither.                                              *)
(***************************************************************************)
EXTENDS Integers, FiniteSets

CONSTANTS
    FilterCount,        \* hardware ids are 1..FilterCount
    Filters,            \* Filter objects
    RecordFilters,      \* those of subtype RECORD
    Null,               \* a null shared_ptr
    NoEntry             \* no entry in a map

ASSUME FilterCountAssumption == FilterCount \in Nat \ {0}
ASSUME FiltersAssumption == RecordFilters \subseteq Filters /\ IsFiniteSet(Filters)
ASSUME NullAssumption == Null \notin Filters /\ NoEntry \notin Filters /\ Null # NoEntry

VARIABLES
    used, enable, cb, calling,          \* the hardware's table
    phase,                              \* of a Filter object's life
    mFilterId,                          \* its hardware id
    mFilterMQ,                          \* it has its message queue
    mFilterOutput,                      \* filters whose data waits in it
    mFilters,                           \* map from ids to Filter objects
    mPlaybackFilterIds, mRecordFilterIds,
    mDvrPlayback, mDvrRecord,           \* the demux has such a Dvr
    dvrFilters,                         \* mFilters of the playback Dvr
    mMediaSync,                         \* the demux has a media sync
    step,                               \* of the callback under way
    datum,                              \* filter whose data it has read
    overlapped,                         \* history: a filter was opened or closed while
                                        \* another one was closing
    inherits                            \* history: the filter whose data had been read from
                                        \* this one's id, and not yet filed, as it was opened

Ids == 1..FilterCount
Hw == INSTANCE FilterTable WITH device <- "open"

hardware == <<used, enable, cb>>
objects == <<phase, mFilterId, mFilterMQ, inherits>>
sets == <<mPlaybackFilterIds, mRecordFilterIds>>
dvrs == <<mDvrPlayback, mDvrRecord, dvrFilters>>
callback == <<calling, step, datum>>
vars == <<hardware, objects, mFilterOutput, mFilters, sets, dvrs, mMediaSync, callback, overlapped>>

Nowhere == [i \in Ids |-> NoEntry]

Init ==
    /\ used = [i \in Ids |-> FALSE] /\ enable = used /\ cb = used
    /\ calling = 0
    /\ phase = [f \in Filters |-> "none"]
    /\ mFilterId = [f \in Filters |-> 0]
    /\ mFilterMQ = [f \in Filters |-> FALSE]
    /\ mFilterOutput = [f \in Filters |-> {}]
    /\ mFilters = Nowhere
    /\ mPlaybackFilterIds = {} /\ mRecordFilterIds = {}
    /\ mDvrPlayback = FALSE /\ mDvrRecord = FALSE
    /\ dvrFilters = Nowhere
    /\ mMediaSync = FALSE
    /\ step = "idle"
    /\ datum = Null
    /\ overlapped = FALSE
    /\ inherits = [f \in Filters |-> Null]

\* A filter whose hardware id is still its own.
Holds(f) == phase[f] \in {"open", "callbackCleared"}
Closing(f) == phase[f] \in {"callbackCleared", "freed"}
Overlaps == overlapped' = (overlapped \/ \E g \in Filters : Closing(g))

\* mFilters[i] != nullptr, where operator[] adds a null entry for a missing one.
Find(i) == mFilters' = IF mFilters[i] = NoEntry THEN [mFilters EXCEPT ![i] = Null]
                       ELSE mFilters
Found(i) == mFilters[i] \in Filters

\* An object nothing refers to any more, so that a new one may take its name.
Unreferenced(f) ==
    /\ phase[f] \in {"none", "closed"}
    /\ datum # f
    /\ \A i \in Ids : mFilters[i] # f /\ dvrFilters[i] # f
    /\ \A g \in Filters \ {f} : f \notin mFilterOutput[g]

-----------------------------------------------------------------------------
(* Opening a filter.  A failing createFilterMQ leaves the id allocated for *)
(* ever: nobody holds the object that would free it.                       *)

\* Mutant: insert() instead of operator[], which keeps an entry that is there.
InsertEntry(f, i) ==
    mFilters' = IF mFilters[i] = NoEntry THEN [mFilters EXCEPT ![i] = f] ELSE mFilters

Register(f, i) == mFilters' = [mFilters EXCEPT ![i] = f]

\* A filter that plays back is entered in mPlaybackFilterIds and in the Dvr.
AddPlaybackFilter(f, i) ==
    /\ mPlaybackFilterIds' = mPlaybackFilterIds \cup {i}
    /\ dvrFilters' = IF mDvrPlayback THEN [dvrFilters EXCEPT ![i] = f] ELSE dvrFilters

\* A record filter leaves the id's callback as it is.
RegisterCallback(f, i) ==
    cb' = IF f \in RecordFilters THEN cb ELSE [cb EXCEPT ![i] = TRUE]

openFilter(f) ==
    /\ Unreferenced(f)
    /\ Overlaps
    /\ \E i \in Ids :
          /\ Hw!LowestFree(i)
          /\ used' = [used EXCEPT ![i] = TRUE]
          /\ RegisterCallback(f, i)
          /\ phase' = [phase EXCEPT ![f] = "open"]
          /\ mFilterId' = [mFilterId EXCEPT ![f] = i]
          /\ mFilterMQ' = [mFilterMQ EXCEPT ![f] = TRUE]
          /\ mFilterOutput' = [mFilterOutput EXCEPT ![f] = {}]
          /\ inherits' = [inherits EXCEPT ![f] = IF step = "update" /\ calling = i THEN datum
                                                 ELSE Null]
          /\ Register(f, i)
          /\ IF f \in RecordFilters THEN UNCHANGED <<mPlaybackFilterIds, dvrFilters>>
             ELSE AddPlaybackFilter(f, i)
    /\ UNCHANGED <<enable, mRecordFilterIds, mDvrPlayback, mDvrRecord, mMediaSync, callback>>

openFilterWithoutQueue ==
    /\ \E i \in Ids : Hw!Allocate(i)
    /\ UNCHANGED <<objects, mFilterOutput, mFilters, sets, dvrs, mMediaSync, step, datum, overlapped>>

-----------------------------------------------------------------------------
(* A client's calls on a filter it has open.                               *)

tables_unchanged ==
    UNCHANGED <<mFilterId, mFilterMQ, mFilterOutput, mFilters, sets, dvrs, mMediaSync,
                step, datum, inherits>>

start(f) ==
    /\ phase[f] = "open"
    /\ Hw!Start(mFilterId[f])
    /\ UNCHANGED <<phase, overlapped>> /\ tables_unchanged

\* Mutant: stopping a filter gives its id back.
StopAndFree(f) ==
    /\ phase[f] = "open"
    /\ Hw!Free(mFilterId[f])
    /\ UNCHANGED <<phase, overlapped>> /\ tables_unchanged

\* configure stops the hardware filter too, to set its parameters.
stop(f) ==
    /\ phase[f] = "open"
    /\ Hw!Stop(mFilterId[f])
    /\ UNCHANGED <<phase, overlapped>> /\ tables_unchanged

\* Mutant: the callback stays registered.
KeepCallback(f) ==
    /\ phase[f] = "open"
    /\ phase' = [phase EXCEPT ![f] = "callbackCleared"]
    /\ Overlaps
    /\ UNCHANGED <<hardware, calling>> /\ tables_unchanged

\* Filter::close.
clearCallback(f) ==
    /\ phase[f] = "open"
    /\ Overlaps
    /\ Hw!SetCallback(mFilterId[f], FALSE)
    /\ phase' = [phase EXCEPT ![f] = "callbackCleared"]
    /\ tables_unchanged

\* A filter the kernel refuses to stop keeps its id allocated.
freeFilter(f) ==
    /\ phase[f] = "callbackCleared"
    /\ Hw!Free(mFilterId[f]) \/ Hw!Stop(mFilterId[f])
    /\ phase' = [phase EXCEPT ![f] = "freed"]
    /\ UNCHANGED overlapped /\ tables_unchanged

\* Mutant: the media sync is destroyed with the first filter.
DestroyAlways == mMediaSync' = FALSE

\* mFilters.size() == 0 counts the null entries too.
DestroyMediaSync == mMediaSync' = (mMediaSync /\ mFilters' # Nowhere)

\* Mutant: the id stays one of a playback filter.
EraseOnlyRecord(i) ==
    /\ mFilters' = [mFilters EXCEPT ![i] = NoEntry]
    /\ mRecordFilterIds' = mRecordFilterIds \ {i}
    /\ UNCHANGED mPlaybackFilterIds

EraseId(i) ==
    /\ mFilters' = [mFilters EXCEPT ![i] = NoEntry]
    /\ mPlaybackFilterIds' = mPlaybackFilterIds \ {i}
    /\ mRecordFilterIds' = mRecordFilterIds \ {i}

\* Clears and erases whatever filter is found under the id.
removeFilter(f) ==
    LET i == mFilterId[f] IN
    /\ phase[f] = "freed"
    /\ phase' = [phase EXCEPT ![f] = "closed"]
    /\ mFilterMQ' = [g \in Filters |-> mFilterMQ[g] /\ mFilters[i] # g]
    /\ EraseId(i)
    /\ dvrFilters' = IF mDvrPlayback THEN [dvrFilters EXCEPT ![i] = NoEntry]
                     ELSE dvrFilters
    /\ DestroyMediaSync
    /\ UNCHANGED <<hardware, mFilterId, mFilterOutput, mDvrPlayback, mDvrRecord, callback,
                   overlapped, inherits>>

-----------------------------------------------------------------------------
(* The other operations on the demux's tables.                             *)

\* createDvrMQ may fail, which leaves the demux without a playback Dvr.
openPlaybackDvr ==
    /\ mDvrPlayback' \in BOOLEAN
    /\ IF mDvrPlayback'
       THEN /\ dvrFilters' = [i \in Ids |-> IF i \in mPlaybackFilterIds THEN mFilters[i]
                                            ELSE NoEntry]
            /\ mFilters' = [i \in Ids |-> IF i \in mPlaybackFilterIds /\ mFilters[i] = NoEntry
                                          THEN Null ELSE mFilters[i]]
       ELSE dvrFilters' = Nowhere /\ UNCHANGED mFilters
    /\ UNCHANGED <<hardware, objects, mFilterOutput, sets, mDvrRecord, mMediaSync, callback,
                   overlapped>>

openRecordDvr ==
    /\ mDvrRecord' \in BOOLEAN
    /\ UNCHANGED <<hardware, objects, mFilterOutput, mFilters, sets, mDvrPlayback, dvrFilters,
                   mMediaSync, callback, overlapped>>

\* Dvr::attachFilter; a client may still hold a filter it has closed.
attachRecordFilter(f) ==
    LET i == mFilterId[f] IN
    /\ phase[f] # "none"
    /\ Find(i)
    /\ mRecordFilterIds' = IF mFilters[i] \in RecordFilters /\ mDvrRecord
                           THEN mRecordFilterIds \cup {i} ELSE mRecordFilterIds
    /\ UNCHANGED <<hardware, objects, mFilterOutput, mPlaybackFilterIds, dvrs, mMediaSync,
                   callback, overlapped>>

detachRecordFilter(f) ==
    LET i == mFilterId[f] IN
    /\ phase[f] # "none"
    /\ Find(i)
    /\ mRecordFilterIds' = IF Found(i) /\ mDvrRecord THEN mRecordFilterIds \ {i}
                           ELSE mRecordFilterIds
    /\ UNCHANGED <<hardware, objects, mFilterOutput, mPlaybackFilterIds, dvrs, mMediaSync,
                   callback, overlapped>>

\* The media sync is made before the lock is taken; then mFilters is read, of the
\* playback filters without a test for null, and of the filter asked for.
getAvSyncHwId(f) ==
    /\ phase[f] # "none"
    /\ mMediaSync' = TRUE
    /\ Find(mFilterId[f])
    /\ UNCHANGED <<hardware, objects, mFilterOutput, sets, dvrs, callback, overlapped>>

-----------------------------------------------------------------------------
(* The data callback.                                                      *)

callback_unchanged == UNCHANGED <<objects, sets, dvrs, mMediaSync, overlapped>>

beginCallback ==
    /\ \E i \in Ids : Hw!BeginCall(i)
    /\ step' = "read"
    /\ UNCHANGED <<mFilterOutput, mFilters, datum>> /\ callback_unchanged

\* A filter that is not in use or not started has nothing to read, and postData
\* returns.  The data is of the filter that owns the id now.
readData ==
    /\ step = "read"
    /\ \E f \in Filters : /\ Holds(f) /\ mFilterId[f] = calling /\ enable[calling]
                          /\ datum' = f
    /\ step' = "update"
    /\ UNCHANGED <<hardware, calling, mFilterOutput, mFilters>> /\ callback_unchanged

endCallback ==
    /\ step \in {"read", "done"}
    /\ Hw!EndCall
    /\ step' = "idle" /\ datum' = Null
    /\ UNCHANGED <<mFilterOutput, mFilters>> /\ callback_unchanged

updateFilterOutput ==
    /\ step = "update"
    /\ Find(calling)
    /\ mFilterOutput' = [f \in Filters |-> IF mFilters[calling] = f
                                           THEN mFilterOutput[f] \cup {datum}
                                           ELSE mFilterOutput[f]]
    /\ step' = "deliver"
    /\ UNCHANGED <<hardware, calling, datum>> /\ callback_unchanged

\* The filter found now writes its output to its queue.
startFilterHandler ==
    /\ step = "deliver"
    /\ Find(calling)
    /\ mFilterOutput' = [f \in Filters |-> IF mFilters[calling] = f THEN {}
                                           ELSE mFilterOutput[f]]
    /\ step' = "done"
    /\ UNCHANGED <<hardware, calling, datum>> /\ callback_unchanged

postData ==
    beginCallback \/ readData \/ updateFilterOutput \/ startFilterHandler \/ endCallback

FilterCall(f) ==
    \/ openFilter(f) \/ start(f) \/ stop(f)
    \/ clearCallback(f) \/ freeFilter(f) \/ removeFilter(f)
    \/ attachRecordFilter(f) \/ detachRecordFilter(f) \/ getAvSyncHwId(f)

Next ==
    \/ openFilterWithoutQueue \/ openPlaybackDvr \/ openRecordDvr
    \/ \E f \in Filters : FilterCall(f)
    \/ postData

Spec == Init /\ [][Next]_vars

-----------------------------------------------------------------------------

Entries == Filters \cup {Null, NoEntry}

\* Every variable has its type.
TypeOK ==
    /\ used \in [Ids -> BOOLEAN] /\ enable \in [Ids -> BOOLEAN] /\ cb \in [Ids -> BOOLEAN]
    /\ calling \in 0..FilterCount
    /\ phase \in [Filters -> {"none", "open", "callbackCleared", "freed", "closed"}]
    /\ mFilterId \in [Filters -> 0..FilterCount]
    /\ mFilterMQ \in [Filters -> BOOLEAN]
    /\ mFilterOutput \in [Filters -> SUBSET Filters]
    /\ mFilters \in [Ids -> Entries] /\ dvrFilters \in [Ids -> Entries]
    /\ mPlaybackFilterIds \subseteq Ids /\ mRecordFilterIds \subseteq Ids
    /\ mDvrPlayback \in BOOLEAN /\ mDvrRecord \in BOOLEAN
    /\ mMediaSync \in BOOLEAN
    /\ step \in {"idle", "read", "update", "deliver", "done"}
    /\ datum \in Filters \cup {Null}
    /\ overlapped \in BOOLEAN
    /\ inherits \in [Filters -> Filters \cup {Null}]

\* A filter that has not freed its hardware id is its only owner: what a client
\* does to its filter (start, stop, close) reaches no other client's filter.
OneOwner ==
    \A f, g \in Filters :
        /\ Holds(f) => used[mFilterId[f]]
        /\ Holds(f) /\ Holds(g) /\ mFilterId[f] = mFilterId[g] => f = g

\* What the users of the tables take without a test: a filter found in mFilters has its
\* queue, so that a handler never writes to one that was reset; every id in
\* mPlaybackFilterIds, which getAvSyncHwId and openDvr dereference, and every id
\* attached to the record Dvr has its filter; and the playback Dvr's ids are the
\* demux's.  In whatever order filters and Dvrs are opened and closed, and while closes
\* and opens of one id overlap.
RegisteredHasQueue == \A i \in Ids : Found(i) => mFilterMQ[mFilters[i]]
PlaybackIdsFound == \A i \in mPlaybackFilterIds : Found(i)
AttachedFound == \A i \in mRecordFilterIds : Found(i)
DvrFollowsPlaybackIds ==
    mDvrPlayback => \A i \in Ids : i \in mPlaybackFilterIds <=> dvrFilters[i] # NoEntry

TablesAgree == RegisteredHasQueue /\ PlaybackIdsFound /\ AttachedFound /\ DvrFollowsPlaybackIds

\* Whose data a filter delivers, though the data is filed by id, the id is looked up twice
\* and it changes hands while callbacks run.  Data that was read from the id before the
\* filter was opened is filed to it all the same (Demux.cpp:1439): it may be handed what is
\* left of the id's last owner, but of no other filter and of none that still has its id.
\* And a record filter, which registers no callback and clears none, never has the one of
\* the id's last owner, to read its data away from the record Dvr.
NoInheritedCallback ==
    \A f \in RecordFilters : Holds(f) => ~cb[mFilterId[f]]
NoMixedData ==
    \A f, g \in Filters : f \in mFilterOutput[g] => f = g \/ (f = inherits[g] /\ ~Holds(f))

OwnDataOnly == NoInheritedCallback /\ NoMixedData

\* "A list of created Filter sp. The array number is the filter ID."
\* (aidl/Demux.h): a filter that is open is found under its id.
OpenFilterRegistered ==
    \A f \in Filters : phase[f] = "open" => mFilters[mFilterId[f]] = f

\* As long as no filter was opened or closed while another one was closing, the table
\* is what its comment says: null entries left by lookups, ids that are lost and
\* refused stops included.
SerialFilterRegistered == overlapped \/ OpenFilterRegistered

\* Nor is the media sync then taken from a filter that is open.
MediaSyncKept ==
    [][~overlapped' /\ mMediaSync /\ ~mMediaSync' => \A f \in Filters : phase[f] # "open"]_vars
=============================================================================
