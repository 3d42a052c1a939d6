---------------------------- MODULE EventStream ----------------------------
(***************************************************************************)
(* What a filter promises its client about events, with the delay hints,   *)
(* locks and threads forgotten: events are handed over in the order they   *)
(* were posted, in batches that take everything pending, each event at     *)
(* most once and never after a flush that dropped it; once the stream is   *)
(* shut nothing is handed over any more.                                   *)
(***************************************************************************)
EXTENDS Sequences

CONSTANT Event                \* the events a filter can post

VARIABLES
    pending,                  \* posted, neither delivered nor flushed, in order
    delivered,                \* everything the client has received, in order
    open                      \* the stream has not been shut

vars == <<pending, delivered, open>>

Init ==
    /\ pending = << >>
    /\ delivered = << >>
    /\ open = TRUE

Post(e) ==
    /\ open
    /\ pending' = Append(pending, e)
    /\ UNCHANGED <<delivered, open>>

Flush ==
    /\ open
    /\ pending' = << >>
    /\ UNCHANGED <<delivered, open>>

Deliver ==
    /\ open
    /\ pending # << >>
    /\ delivered' = delivered \o pending
    /\ pending' = << >>
    /\ UNCHANGED open

Shut ==
    /\ open
    /\ open' = FALSE
    /\ UNCHANGED <<pending, delivered>>

Next ==
    \/ \E e \in Event : Post(e)
    \/ Flush
    \/ Deliver
    \/ Shut

Spec == Init /\ [][Next]_vars
=============================================================================
