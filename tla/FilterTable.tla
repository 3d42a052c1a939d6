----------------------------- MODULE FilterTable -----------------------------
(***************************************************************************)
(* What a demux device promises of its filter ids, whatever its data       *)
(* thread does in between: an id belongs to one owner until it is freed,   *)
(* and a callback starts only for an id that is allocated, enabled and has *)
(* a callback registered.  It may outlive all three.  AmDmx implements     *)
(* this module, DemuxFilters is built on it.                               *)
(***************************************************************************)
EXTENDS Integers

CONSTANT FilterCount        \* ids are 1..FilterCount

VARIABLES device,           \* "new", "open" or "closed"
          used, enable, cb, \* by id: allocated, started, callback registered
          calling           \* id whose callback is running, or 0

table == <<used, enable, cb>>
tableVars == <<device, used, enable, cb, calling>>

FilterIds == 1..FilterCount
NoIds == [i \in FilterIds |-> FALSE]

TableInit ==
    /\ device = "new"
    /\ used = NoIds /\ enable = NoIds /\ cb = NoIds
    /\ calling = 0

OpenTable ==
    /\ device = "new"
    /\ device' = "open"
    /\ UNCHANGED <<table, calling>>

Owned(i) == device = "open" /\ used[i]

LowestFree(i) == ~used[i] /\ \A j \in FilterIds : j < i => used[j]

\* Ids are handed out lowest first; a callback registered by the last owner of
\* the id is still there.
Allocate(i) ==
    /\ device = "open"
    /\ LowestFree(i)
    /\ used' = [used EXCEPT ![i] = TRUE]
    /\ UNCHANGED <<device, enable, cb, calling>>

Free(i) ==
    /\ Owned(i)
    /\ used' = [used EXCEPT ![i] = FALSE]
    /\ enable' = [enable EXCEPT ![i] = FALSE]
    /\ UNCHANGED <<device, cb, calling>>

Start(i) ==
    /\ Owned(i)
    /\ enable' = [enable EXCEPT ![i] = TRUE]
    /\ UNCHANGED <<device, used, cb, calling>>

Stop(i) ==
    /\ Owned(i)
    /\ enable' = [enable EXCEPT ![i] = FALSE]
    /\ UNCHANGED <<device, used, cb, calling>>

SetCallback(i, registered) ==
    /\ Owned(i)
    /\ cb' = [cb EXCEPT ![i] = registered]
    /\ UNCHANGED <<device, used, enable, calling>>

BeginCall(i) ==
    /\ Owned(i) /\ enable[i] /\ cb[i]
    /\ calling = 0
    /\ calling' = i
    /\ UNCHANGED <<device, table>>

EndCall ==
    /\ calling # 0
    /\ calling' = 0
    /\ UNCHANGED <<device, table>>

\* Waits for the callback.  Ids the kernel would not stop are not freed.
CloseTable ==
    /\ device = "open"
    /\ calling = 0
    /\ device' = "closed"
    /\ enable' = NoIds
    /\ \E refused \in SUBSET FilterIds :
          used' = [i \in FilterIds |-> used[i] /\ i \in refused]
    /\ UNCHANGED <<cb, calling>>

RenewTable ==
    /\ device = "closed"
    /\ device' = "new"
    /\ used' = NoIds /\ enable' = NoIds /\ cb' = NoIds
    /\ UNCHANGED calling

TableNext ==
    \/ OpenTable \/ CloseTable \/ RenewTable \/ EndCall
    \/ \E i \in FilterIds :
          \/ Allocate(i) \/ Free(i) \/ Start(i) \/ Stop(i) \/ BeginCall(i)
          \/ \E registered \in BOOLEAN : SetCallback(i, registered)

TableSpec == TableInit /\ [][TableNext]_tableVars
=============================================================================
