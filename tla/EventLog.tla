------------------------------ MODULE EventLog ------------------------------
(***************************************************************************)
(* What event_store and projector promise of an incident, without          *)
(* transactions, locks or stale reads: a request appends its events in one *)
(* step, at the next numbers and with keys that are free, once, and the    *)
(* row takes from these events what they set and nothing else.             *)
(***************************************************************************)
EXTENDS Integers

CONSTANTS
    Event,      \* [seq, type, from, to, key, by]
    NoKey,      \* key of an event without one
    NoTxn       \* author of the events that opened the incident

VARIABLES row, log

vars == <<row, log>>

Numbers(events) == {e.seq : e \in events}

\* The events have the numbers that follow those of the log, without a gap.
Follows(events, before) ==
    /\ \A e, f \in events : e.seq = f.seq => e = f
    /\ \E last \in Numbers(before) \cup {0}, new \in Numbers(events) :
         /\ \A n \in Numbers(before) : n <= last
         /\ Numbers(events) = last + 1 .. new

\* Each key is used once, and each request appends once.
Fresh(events, before) ==
    \A e \in events :
        /\ e.key # NoKey => \A f \in before \cup (events \ {e}) : f.key # e.key
        /\ \A f \in events : f.by = e.by
        /\ e.by # NoTxn => \A f \in before : f.by # e.by

Last(events, e) == e \in events /\ \A n \in Numbers(events) : n <= e.seq

\* The status is the one that the last of the events sets; the version is the
\* number of the last one that is projected.
Projection(events, before, after) ==
    LET sets == {e \in events : e.type \in {"status", "resolved"}}
        shown == {e \in events : e.type # "note"}
    IN /\ IF sets = {} THEN after.status = before.status
          ELSE \E e \in sets : Last(sets, e) /\ after.status = e.to
       /\ IF shown = {} THEN after.version = before.version
          ELSE \E e \in shown : Last(shown, e) /\ after.version = e.seq

Init ==
    /\ log \subseteq Event /\ Follows(log, {}) /\ Fresh(log, {})
    /\ Projection(log, [status |-> "open", version |-> 0], row)

AppendEvents ==
    /\ log \subseteq log'
    /\ LET events == log' \ log IN
         /\ events \subseteq Event
         /\ Follows(events, log) /\ Fresh(events, log)
         /\ Projection(events, row, row')

\* The row is left as it is, and number and key may be given again.
DeleteEvent ==
    /\ \E e \in log : log' = log \ {e}
    /\ UNCHANGED row

Next == AppendEvents \/ DeleteEvent

Spec == Init /\ [][Next]_vars
=============================================================================
