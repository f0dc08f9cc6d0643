------------------------- MODULE CheckpointedReader -------------------------
(***************************************************************************)
(* What the partition service promises about its position in the event     *)
(* stream, without replicas, epochs or connections: events are handled in  *)
(* any order and as often as needed, and now and then a checkpoint is      *)
(* stored.  A checkpoint never moves back, never disappears, and never     *)
(* moves over an event that has not been handled.                          *)
(*                                                                         *)
(* The events of one partition are numbered 1, 2, 3, ... in stream order.  *)
(***************************************************************************)
EXTENDS Integers

CONSTANT Positions   \* the positions of the stream, a set of natural numbers

VARIABLES handled,     \* the events handled at least once
          origin,      \* where the first stored checkpoint started counting
          checkpoint   \* the stored position; None before the first save

vars == <<handled, origin, checkpoint>>

None == -1

Init == /\ handled = {}
        /\ origin = None
        /\ checkpoint = None

HandleEvent(e) == /\ handled' = handled \union {e}
                  /\ UNCHANGED <<origin, checkpoint>>

\* The first checkpoint fixes where the promise begins: the service does not
\* start at the beginning of the stream but at the time it comes up.
FirstCheckpoint(start, position) ==
    /\ checkpoint = None
    /\ (start + 1) .. position \subseteq handled
    /\ origin' = start
    /\ checkpoint' = position
    /\ UNCHANGED handled

MoveCheckpoint(position) ==
    /\ checkpoint # None
    /\ position >= checkpoint
    /\ (checkpoint + 1) .. position \subseteq handled
    /\ checkpoint' = position
    /\ UNCHANGED <<handled, origin>>

Next == \/ \E e \in Positions : HandleEvent(e)
        \/ \E start, position \in Positions : FirstCheckpoint(start, position)
        \/ \E position \in Positions : MoveCheckpoint(position)

Spec == Init /\ [][Next]_vars
=============================================================================
