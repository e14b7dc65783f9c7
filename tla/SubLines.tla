------------------------------ MODULE SubLines -------------------------------
(***************************************************************************)
(* The ASS branch of AssFilter::Receive, for a filter that stays connected *)
(* to its consumer: lines arrive in any order and any number of times, and *)
(* a new media type flushes the track and the map together.                *)
(*                                                                         *)
(* The handler runs under the filter's lock, so one sample is one step.    *)
(***************************************************************************)
EXTENDS ReadOrder

VARIABLES
  mapSubLine,  \* the lines passed on to libass
  events,      \* the events of the libass track m_track
  received     \* history: the lines received since the track was made

vars == <<mapSubLine, events, received>>

Init ==
  /\ mapSubLine = {}
  /\ events = {}
  /\ received = {}

\* A line not seen before is stored under a ReadOrder of its own.
ReceiveNew(line) ==
  /\ ~Known(mapSubLine, line)
  /\ LET entry == EntryOf(mapSubLine, line)
     IN  /\ events' = ProcessChunk(events, entry.readOrder, entry.text)
         /\ mapSubLine' = mapSubLine \cup {entry}
  /\ received' = received \cup {line}

\* A line seen before (the stream was seeked, or a chapter is played again) is
\* dropped.
ReceiveAgain(line) ==
  /\ Known(mapSubLine, line)
  /\ received' = received \cup {line}
  /\ UNCHANGED <<mapSubLine, events>>

\* The pin connects with an ASS media type: flush, then a new track.
SetMediaType ==
  /\ mapSubLine' = {}
  /\ events' = {}
  /\ received' = {}

Next ==
  \/ \E line \in Line : ReceiveNew(line) \/ ReceiveAgain(line)
  \/ SetMediaType

Spec == Init /\ [][Next]_vars

-----------------------------------------------------------------------------

\* Type invariant: the map holds entries, the track events, the history lines.
TypeOK ==
  /\ mapSubLine \subseteq Entry
  /\ IsFiniteSet(mapSubLine)
  /\ events \subseteq Event
  /\ received \subseteq Line

\* Every entry was moved by a number of strides smaller than the number of
\* entries with its key.
MovedByOccurrence ==
  \A m \in mapSubLine :
    \E i \in 0 .. Cardinality(Occurrences(mapSubLine, m.key)) - 1 :
      m.readOrder = m.key + i * Stride

\* Of two entries with one key neither the new ReadOrder nor the text is the
\* same: the move at AssFilter.cpp:326 never lands on a ReadOrder that a line
\* with the same number uses.
DistinctPerKey ==
  \A m, n \in mapSubLine :
    m.key = n.key /\ (m.readOrder = n.readOrder \/ m.text = n.text) => m = n

EventOf(m) == [readOrder |-> m.readOrder, text |-> m.text]

\* The map and the libass track, which are flushed in different calls, agree:
\* an event is one of an entry, and an entry without its event has one with its
\* ReadOrder in the way.
EventsAreEntries ==
  /\ \A e \in events : \E m \in mapSubLine : e = EventOf(m)
  /\ \A m \in mapSubLine :
       \E n \in mapSubLine : n.readOrder = m.readOrder /\ EventOf(n) \in events

\* Every line received is in the map, and nothing else is.
ReceivedAreEntries ==
  received = {[readOrder |-> m.key, text |-> m.text] : m \in mapSubLine}

\* The inductive invariant.
IInv ==
  /\ TypeOK
  /\ MovedByOccurrence
  /\ DistinctPerKey
  /\ EventsAreEntries
  /\ ReceivedAreEntries

-----------------------------------------------------------------------------

\* ro is `from` moved up by strides.
MovedUp(from, ro) == \E i \in 0 .. ro : ro = from + i * Stride

\* Two numbers of the stream that a move can bring to the same ReadOrder.
Collide(a, b) == MovedUp(a, b) \/ MovedUp(b, a)

\* The copies of a line in the track, looked for in the track alone.
Copies(line) == {e \in events : e.text = line.text /\ MovedUp(line.readOrder, e.readOrder)}

\* The comment at AssFilter.cpp:289-292: a new line with a duplicate ReadOrder
\* is made valid.  A line received is missing from the track only if one with
\* another number, a multiple of the stride away, has been received and has
\* taken its place.
NoLineLost ==
  \A line \in received :
    \/ Copies(line) # {}
    \/ \E other \in received :
         /\ other.readOrder # line.readOrder
         /\ Collide(line.readOrder, other.readOrder)
         /\ Copies(other) # {}

\* The lines whose number is no multiple of the stride away from another one of
\* the stream: all of them in a file with fewer lines than the stride.
ApartLines ==
  {line \in Line :
     \A ro \in ReadOrders \ {line.readOrder} : ~Collide(line.readOrder, ro)}

Store == INSTANCE LineStore
           WITH Lines <- ApartLines,
                sent <- received \cap ApartLines,
                stored <- [line \in ApartLines |-> Cardinality(Copies(line))]

\* For these lines the ReadOrder handling implements the plain store: one copy
\* of each, however often it is repeated (AssFilter.cpp:313-322), and no line
\* of another number adds or hides one.
ImplementsLineStore == Store!Spec

=============================================================================
