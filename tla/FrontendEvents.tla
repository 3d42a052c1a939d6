--------------------------- MODULE FrontendEvents ---------------------------
(***************************************************************************)
(* What a frontend promises its client about the events it calls back      *)
(* with, the thread that tunes, its states and flags forgotten.  A request *)
(* begins when no callback of the one before is under way.  A tune is      *)
(* answered once, by LOCKED or NO_SIGNAL; then lost locks and locks        *)
(* alternate.  A scan is told how it goes, and a stopped frontend is       *)
(* silent.                                                                 *)
(***************************************************************************)
EXTENDS Naturals

VARIABLES
    request,        \* number of the current request
    kind,           \* "tune", "scan", "blind" or "stop"
    told,           \* the last event of the current request, or "none"
    calling         \* the client is in a callback

vars == <<request, kind, told, calling>>

Init == request = 0 /\ kind = "stop" /\ told = "none" /\ calling = FALSE

Begin(k) ==
    /\ ~calling
    /\ request' = request + 1 /\ kind' = k /\ told' = "none"
    /\ UNCHANGED calling

Tell(e) ==
    /\ ~calling
    /\ told' = e /\ calling' = TRUE
    /\ UNCHANGED <<request, kind>>

Answer == kind = "tune" /\ told = "none" /\ \E e \in {"LOCKED", "NO_SIGNAL"} : Tell(e)

Change ==
    /\ kind = "tune"
    /\ \/ told \in {"NO_SIGNAL", "LOST_LOCK"} /\ Tell("LOCKED")
       \/ told = "LOCKED" /\ Tell("LOST_LOCK")

\* A tune is told of a scan, too, when a blind scan was not stopped before it.
Progress == kind # "stop" /\ Tell("SCANNED")

Returns ==
    /\ calling
    /\ calling' = FALSE
    /\ UNCHANGED <<request, kind, told>>

Next ==
    \/ \E k \in {"tune", "scan", "blind", "stop"} : Begin(k)
    \/ Answer \/ Change \/ Progress \/ Returns

Spec == Init /\ [][Next]_vars
=============================================================================
