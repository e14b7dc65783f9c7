------------------------------ MODULE ReadOrder ------------------------------
(***************************************************************************)
(* The ReadOrder bookkeeping of AssFilter::Receive for ASS samples.        *)
(*                                                                         *)
(* A Matroska ASS sample is "ReadOrder,Layer,Style,...": a number, then    *)
(* the rest of the line.  libass keeps one event per ReadOrder and drops a *)
(* chunk whose ReadOrder the track already holds.  Files with ordered      *)
(* chapters reuse ReadOrders for different lines, so the filter remembers  *)
(* every line it passed on (mapSubLine) and moves a new line that reuses a *)
(* ReadOrder up by a multiple of 30000.                                    *)
(*                                                                         *)
(* This module has the data and the pure operators; SubLines is the state  *)
(* machine around them and AssFilter uses them in its Receive.             *)
(***************************************************************************)
EXTENDS Integers, FiniteSets

CONSTANTS
  ReadOrders,  \* the ReadOrders that occur in the stream
  Texts,       \* what follows the ReadOrder in a line
  Stride       \* 30000 in the code

ASSUME ReadOrderAssumption ==
  /\ ReadOrders \subseteq Nat
  /\ Stride \in Nat \ {0}

\* A line as it arrives: the payload of one ASS sample.
Line == [readOrder : ReadOrders, text : Texts]

\* An event of a libass track.
Event == [readOrder : Nat, text : Texts]

\* An entry of the multimap mapSubLine: key is the ReadOrder the line arrived
\* with, readOrder the one it was given to libass with.  The code never stores
\* the same line twice, so the multimap is a set.
Entry == [key : ReadOrders, readOrder : Nat, text : Texts]

-----------------------------------------------------------------------------

Occurrences(map, ro) == {m \in map : m.key = ro}

KnownByOrder(map, line) == Occurrences(map, line.readOrder) # {}

KnownNever(map, line) == FALSE

Known(map, line) ==
  \E m \in Occurrences(map, line.readOrder) : m.text = line.text

RemappedOnce(map, line) ==
  line.readOrder + IF Occurrences(map, line.readOrder) = {} THEN 0 ELSE Stride

RemappedDown(map, line) ==
  line.readOrder - Cardinality(Occurrences(map, line.readOrder)) * Stride

Remapped(map, line) ==
  line.readOrder + Cardinality(Occurrences(map, line.readOrder)) * Stride

\* The entry emplaced for a line that is not Known.  When the map is empty the
\* code passes the sample on untouched, which is the same: no occurrence, so
\* the ReadOrder stays what it is.
EntryOf(map, line) ==
  [key |-> line.readOrder, readOrder |-> Remapped(map, line), text |-> line.text]

\* libass, as the filter relies on it: a ReadOrder the track holds is a
\* duplicate and the chunk is dropped.
ProcessChunk(events, ro, text) ==
  IF \E e \in events : e.readOrder = ro
  THEN events
  ELSE events \cup {[readOrder |-> ro, text |-> text]}

=============================================================================
