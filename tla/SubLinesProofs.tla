---------------------------- MODULE SubLinesProofs ----------------------------
(***************************************************************************)
(* Proofs about SubLines, for any ReadOrders, texts and stride: a line is  *)
(* lost only to one whose number is a multiple of the stride away, and for *)
(* the lines that have no such other the handler implements LineStore.     *)
(***************************************************************************)
EXTENDS SubLines, FiniteSetTheorems, TLAPS

-----------------------------------------------------------------------------
(* Lemmas about the operators of ReadOrder.                                *)

\* multimap::count is a natural number.
LEMMA OccurrencesFinite ==
  ASSUME NEW map, IsFiniteSet(map), NEW k
  PROVE  /\ IsFiniteSet(Occurrences(map, k))
         /\ Cardinality(Occurrences(map, k)) \in Nat
<1>1. Occurrences(map, k) \in SUBSET map
  BY DEF Occurrences
<1>2. IsFiniteSet(Occurrences(map, k))
  BY <1>1, FS_Subset
<1> QED
  BY <1>2, FS_CardinalityType

\* An entry that is added is counted under its own key, and only there.
LEMMA OccurrencesAdd ==
  ASSUME NEW map, IsFiniteSet(map), NEW e, e \notin map, NEW k
  PROVE  Cardinality(Occurrences(map \cup {e}, k)) =
           Cardinality(Occurrences(map, k)) + IF e.key = k THEN 1 ELSE 0
<1>1. IsFiniteSet(Occurrences(map, k)) /\ Cardinality(Occurrences(map, k)) \in Nat
  BY OccurrencesFinite
<1>2. CASE e.key = k
  <2>1. Occurrences(map \cup {e}, k) = Occurrences(map, k) \cup {e}
    BY <1>2 DEF Occurrences
  <2>2. e \notin Occurrences(map, k)
    BY DEF Occurrences
  <2> QED
    BY <1>1, <1>2, <2>1, <2>2, FS_AddElement
<1>3. CASE e.key # k
  <2>1. Occurrences(map \cup {e}, k) = Occurrences(map, k)
    BY <1>3 DEF Occurrences
  <2> QED
    BY <1>1, <1>3, <2>1
<1> QED
  BY <1>2, <1>3

\* The strides of a move can be counted.
LEMMA MoveWithin ==
  ASSUME NEW S \in Nat \ {0}, NEW k \in Nat, NEW i \in Nat
  PROVE  k + i * S \in Nat /\ i \in 0 .. k + i * S
<1>1. i * S \in Nat /\ i <= i * S
  <2>1. S - 1 \in Nat
    OBVIOUS
  <2>2. i * (S - 1) \in Nat
    BY <2>1, Z3
  <2>3. i * S = i + i * (S - 1)
    BY Z3
  <2> QED
    BY <2>2, <2>3
<1> QED
  BY <1>1

\* Different numbers of strides lead to different places.
LEMMA StridesDiffer ==
  ASSUME NEW S \in Nat \ {0}, NEW k \in Nat, NEW i \in Nat, NEW n \in Nat, i < n
  PROVE  k + i * S # k + n * S
<1>1. PICK d \in Nat : n = i + d + 1
  <2>1. n - i - 1 \in Nat /\ n = i + (n - i - 1) + 1
    OBVIOUS
  <2> QED
    BY <2>1
<1>2. n * S = i * S + d * S + S
  BY <1>1, Z3
<1>3. i * S \in Nat /\ d * S \in Nat
  BY Z3
<1> QED
  BY <1>2, <1>3

\* Two numbers that moves bring to the same place are a multiple of the stride
\* apart.
LEMMA StridesMeet ==
  ASSUME NEW S \in Nat \ {0}, NEW k \in Nat, NEW l \in Nat, NEW i \in Nat, NEW j \in Nat,
         k + i * S = l + j * S, j <= i
  PROVE  l = k + (i - j) * S /\ i - j \in 0 .. l
<1>1. (i - j) * S = i * S - j * S
  BY Z3
<1>2. i * S \in Int /\ j * S \in Int
  BY Z3
<1>3. l = k + (i - j) * S
  BY <1>1, <1>2
<1>4. i - j \in Nat
  OBVIOUS
<1> QED
  BY <1>3, <1>4, MoveWithin

-----------------------------------------------------------------------------
(* The invariant.                                                          *)

\* What a line that is not known adds to the map.
LEMMA NewEntry ==
  ASSUME TypeOK, NEW line \in Line, ~Known(mapSubLine, line)
  PROVE  /\ EntryOf(mapSubLine, line) \in Entry
         /\ EntryOf(mapSubLine, line) \notin mapSubLine
         /\ EntryOf(mapSubLine, line).key = line.readOrder
         /\ EntryOf(mapSubLine, line).text = line.text
         /\ EntryOf(mapSubLine, line).readOrder =
              line.readOrder + Cardinality(Occurrences(mapSubLine, line.readOrder)) * Stride
<1> DEFINE n == Cardinality(Occurrences(mapSubLine, line.readOrder))
<1>1. n \in Nat
  BY OccurrencesFinite DEF TypeOK
<1>2. line.readOrder \in ReadOrders /\ line.readOrder \in Nat /\ line.text \in Texts
  BY ReadOrderAssumption DEF Line
<1>3. n * Stride \in Nat
  BY <1>1, ReadOrderAssumption, Z3
<1>4. EntryOf(mapSubLine, line) \in Entry
  BY <1>2, <1>3 DEF EntryOf, Remapped, Entry
<1>5. EntryOf(mapSubLine, line) \notin mapSubLine
  BY DEF EntryOf, Known, Occurrences
<1> QED
  BY <1>4, <1>5 DEF EntryOf, Remapped

\* Type correctness, whatever the stride.
THEOREM TypeCorrect == Spec => []TypeOK
<1>1. Init => TypeOK
  BY FS_EmptySet DEF Init, TypeOK
<1>2. TypeOK /\ [Next]_vars => TypeOK'
  <2> SUFFICES ASSUME TypeOK, [Next]_vars PROVE TypeOK'
    OBVIOUS
  <2>1. ASSUME NEW line \in Line, ReceiveNew(line) PROVE TypeOK'
    <3> DEFINE entry == EntryOf(mapSubLine, line)
    <3>1. entry \in Entry
      BY <2>1, NewEntry DEF ReceiveNew
    <3>2. mapSubLine' = mapSubLine \cup {entry}
      BY <2>1 DEF ReceiveNew
    <3>3. IsFiniteSet(mapSubLine')
      BY <3>2, FS_AddElement DEF TypeOK
    <3>4. events' \subseteq Event
      BY <2>1, <3>1 DEF ReceiveNew, ProcessChunk, TypeOK, Event, Entry
    <3> QED
      BY <2>1, <3>1, <3>2, <3>3, <3>4 DEF ReceiveNew, TypeOK
  <2>2. ASSUME NEW line \in Line, ReceiveAgain(line) PROVE TypeOK'
    BY <2>2 DEF ReceiveAgain, TypeOK
  <2>3. CASE SetMediaType
    BY <2>3, FS_EmptySet DEF SetMediaType, TypeOK
  <2>4. CASE UNCHANGED vars
    BY <2>4 DEF vars, TypeOK
  <2> QED
    BY <2>1, <2>2, <2>3, <2>4 DEF Next
<1> QED
  BY <1>1, <1>2, PTL DEF Spec

\* An entry's ReadOrder is its key moved up.
LEMMA EntryMovedUp ==
  ASSUME TypeOK, MovedByOccurrence, NEW m \in mapSubLine
  PROVE  m.key \in ReadOrders /\ m.key \in Nat /\ MovedUp(m.key, m.readOrder)
<1>1. m.key \in ReadOrders /\ m.key \in Nat
  BY ReadOrderAssumption DEF TypeOK, Entry
<1>2. Cardinality(Occurrences(mapSubLine, m.key)) \in Nat
  BY OccurrencesFinite DEF TypeOK
<1>3. PICK i \in Nat : m.readOrder = m.key + i * Stride
  BY <1>2 DEF MovedByOccurrence
<1>4. i \in 0 .. m.readOrder
  BY <1>1, <1>3, MoveWithin, ReadOrderAssumption
<1> QED
  BY <1>1, <1>3, <1>4 DEF MovedUp

\* Numbers that can be moved to the same place collide.
LEMMA MovesMeet ==
  ASSUME NEW k \in Nat, NEW l \in Nat, NEW ro \in Nat, MovedUp(k, ro), MovedUp(l, ro)
  PROVE  Collide(k, l)
<1>1. PICK i \in 0 .. ro : ro = k + i * Stride
  BY DEF MovedUp
<1>2. PICK j \in 0 .. ro : ro = l + j * Stride
  BY DEF MovedUp
<1>3. CASE j <= i
  <2>1. l = k + (i - j) * Stride /\ i - j \in 0 .. l
    BY <1>1, <1>2, <1>3, StridesMeet, ReadOrderAssumption
  <2> QED
    BY <2>1 DEF Collide, MovedUp
<1>4. CASE i <= j
  <2>1. k = l + (j - i) * Stride /\ j - i \in 0 .. k
    BY <1>1, <1>2, <1>4, StridesMeet, ReadOrderAssumption
  <2> QED
    BY <2>1 DEF Collide, MovedUp
<1> QED
  BY <1>1, <1>2, <1>3, <1>4

\* A new line.  The heart is that its new ReadOrder is in use by no
\* other line with its number.
LEMMA ReceiveNewKeepsIInv ==
  ASSUME IInv, TypeOK', NEW line \in Line, ReceiveNew(line)
  PROVE  IInv'
<1> DEFINE entry == EntryOf(mapSubLine, line)
           n == Cardinality(Occurrences(mapSubLine, line.readOrder))
<1>1. /\ entry \in Entry
      /\ entry \notin mapSubLine
      /\ entry.key = line.readOrder
      /\ entry.text = line.text
      /\ entry.readOrder = line.readOrder + n * Stride
  BY NewEntry DEF ReceiveNew, IInv
<1>2. mapSubLine' = mapSubLine \cup {entry}
  BY DEF ReceiveNew
<1>3. n \in Nat
  BY OccurrencesFinite DEF IInv, TypeOK
<1>4. ASSUME NEW k
      PROVE  /\ Cardinality(Occurrences(mapSubLine', k)) =
                  Cardinality(Occurrences(mapSubLine, k)) + IF entry.key = k THEN 1 ELSE 0
             /\ Cardinality(Occurrences(mapSubLine, k)) \in Nat
  BY <1>1, <1>2, OccurrencesAdd, OccurrencesFinite DEF IInv, TypeOK
<1>5. MovedByOccurrence'
  <2> SUFFICES ASSUME NEW m \in mapSubLine'
               PROVE  \E i \in 0 .. Cardinality(Occurrences(mapSubLine', m.key)) - 1 :
                        m.readOrder = m.key + i * Stride
    BY DEF MovedByOccurrence
  <2>1. CASE m = entry
    <3>1. n \in 0 .. Cardinality(Occurrences(mapSubLine', m.key)) - 1
      BY <1>1, <1>3, <1>4, <2>1
    <3> QED
      BY <1>1, <2>1, <3>1
  <2>2. CASE m \in mapSubLine
    <3>1. PICK i \in 0 .. Cardinality(Occurrences(mapSubLine, m.key)) - 1 :
            m.readOrder = m.key + i * Stride
      BY <2>2 DEF IInv, MovedByOccurrence
    <3>2. i \in 0 .. Cardinality(Occurrences(mapSubLine', m.key)) - 1
      BY <1>4
    <3> QED
      BY <3>1, <3>2
  <2> QED
    BY <1>2, <2>1, <2>2
<1>6. ASSUME NEW m \in mapSubLine, m.key = entry.key
      PROVE  m.readOrder # entry.readOrder /\ m.text # entry.text
  <2>1. PICK i \in 0 .. n - 1 : m.readOrder = m.key + i * Stride
    BY <1>1, <1>6 DEF IInv, MovedByOccurrence
  <2>2. i \in Nat /\ i < n /\ m.key \in Nat
    <3>1. i \in Nat /\ i < n
      BY <1>3
    <3>2. m.key \in Nat
      BY <1>1, <1>6, ReadOrderAssumption DEF Line
    <3> QED
      BY <3>1, <3>2
  <2>3. m.key + i * Stride # m.key + n * Stride
    BY <1>3, <2>2, StridesDiffer, ReadOrderAssumption
  <2>4. m.readOrder # entry.readOrder
    BY <1>1, <1>6, <2>1, <2>3
  <2>5. m.text # line.text
    BY <1>1, <1>6 DEF ReceiveNew, Known, Occurrences
  <2> QED
    BY <1>1, <2>4, <2>5
<1>7. DistinctPerKey'
  BY <1>2, <1>6 DEF IInv, DistinctPerKey
<1>8. EventsAreEntries'
  <2>1. CASE \E e \in events : e.readOrder = entry.readOrder
    <3>1. events' = events
      BY <2>1 DEF ReceiveNew, ProcessChunk
    <3>2. PICK e \in events : e.readOrder = entry.readOrder
      BY <2>1
    <3>3. PICK o \in mapSubLine : e = EventOf(o)
      BY DEF IInv, EventsAreEntries
    <3>4. o.readOrder = entry.readOrder /\ EventOf(o) \in events'
      BY <3>1, <3>2, <3>3 DEF EventOf
    <3> QED
      BY <1>2, <3>1, <3>4 DEF IInv, EventsAreEntries
  <2>2. CASE ~\E e \in events : e.readOrder = entry.readOrder
    <3>1. events' = events \cup {EventOf(entry)}
      BY <2>2 DEF ReceiveNew, ProcessChunk, EventOf
    <3> QED
      BY <1>2, <3>1 DEF IInv, EventsAreEntries
  <2> QED
    BY <2>1, <2>2
<1>9. ReceivedAreEntries'
  <2>1. line = [readOrder |-> entry.key, text |-> entry.text]
    BY <1>1 DEF Line
  <2>2. received' = received \cup {line}
    BY DEF ReceiveNew
  <2> QED
    BY <1>2, <2>1, <2>2 DEF IInv, ReceivedAreEntries
<1> QED
  BY <1>5, <1>7, <1>8, <1>9 DEF IInv

\* The map, the libass track and the lines received agree, and no two lines
\* with the same number share a ReadOrder.
THEOREM Invariance == Spec => []IInv
<1>1. Init => IInv
  BY FS_EmptySet
     DEF Init, IInv, TypeOK, MovedByOccurrence, DistinctPerKey, EventsAreEntries,
         ReceivedAreEntries
<1>2. IInv /\ TypeOK' /\ [Next]_vars => IInv'
  <2> SUFFICES ASSUME IInv, TypeOK', [Next]_vars PROVE IInv'
    OBVIOUS
  <2>1. ASSUME NEW line \in Line, ReceiveNew(line) PROVE IInv'
    BY <2>1, ReceiveNewKeepsIInv
  <2>2. ASSUME NEW line \in Line, ReceiveAgain(line) PROVE IInv'
    <3>1. PICK m \in mapSubLine : m.key = line.readOrder /\ m.text = line.text
      BY <2>2 DEF ReceiveAgain, Known, Occurrences
    <3>2. line = [readOrder |-> m.key, text |-> m.text]
      BY <3>1 DEF Line
    <3>3. received' = received
      BY <2>2, <3>2 DEF ReceiveAgain, IInv, ReceivedAreEntries
    <3> QED
      BY <2>2, <3>3
         DEF ReceiveAgain, IInv, MovedByOccurrence, DistinctPerKey, EventsAreEntries,
             ReceivedAreEntries
  <2>3. CASE SetMediaType
    BY <2>3
       DEF SetMediaType, IInv, MovedByOccurrence, DistinctPerKey, EventsAreEntries,
           ReceivedAreEntries
  <2>4. CASE UNCHANGED vars
    BY <2>4
       DEF vars, IInv, TypeOK, MovedByOccurrence, DistinctPerKey, EventsAreEntries,
           ReceivedAreEntries
  <2> QED
    BY <2>1, <2>2, <2>3, <2>4 DEF Next
<1> QED
  BY <1>1, <1>2, TypeCorrect, PTL DEF Spec

-----------------------------------------------------------------------------
(* What follows from the invariant.                                        *)

\* An event of an entry is a copy of the line the entry was made of.
LEMMA EntryIsCopied ==
  ASSUME IInv, NEW m \in mapSubLine, NEW line \in Line,
         line.readOrder = m.key, line.text = m.text, EventOf(m) \in events
  PROVE  EventOf(m) \in Copies(line)
<1>1. MovedUp(line.readOrder, m.readOrder)
  BY EntryMovedUp DEF IInv
<1> QED
  BY <1>1 DEF Copies, EventOf

\* Either the line is one of the events, or one that is has taken its ReadOrder.
LEMMA InvariantLosesNone == IInv => NoLineLost
<1> SUFFICES ASSUME IInv, NEW line \in received,
                    Copies(line) = {}
             PROVE  \E other \in received :
                      /\ other.readOrder # line.readOrder
                      /\ Collide(line.readOrder, other.readOrder)
                      /\ Copies(other) # {}
  BY DEF NoLineLost
<1>1. PICK m \in mapSubLine : line = [readOrder |-> m.key, text |-> m.text]
  BY DEF IInv, ReceivedAreEntries
<1>2. PICK n \in mapSubLine : n.readOrder = m.readOrder /\ EventOf(n) \in events
  BY DEF IInv, EventsAreEntries
<1> DEFINE other == [readOrder |-> n.key, text |-> n.text]
<1>3. line \in Line /\ other \in received /\ other \in Line
  BY <1>2 DEF IInv, ReceivedAreEntries, TypeOK
<1>4. Copies(other) # {}
  BY <1>2, <1>3, EntryIsCopied
<1>5. n.key # m.key
  <2> SUFFICES ASSUME n.key = m.key PROVE FALSE
    OBVIOUS
  <2>1. n = m
    BY <1>2 DEF IInv, DistinctPerKey
  <2> QED
    BY <1>1, <1>2, <1>3, <2>1, EntryIsCopied
<1>6. Collide(m.key, n.key)
  <2>1. m.readOrder \in Nat
    BY DEF IInv, TypeOK, Entry
  <2>2. MovedUp(n.key, m.readOrder) /\ MovedUp(m.key, m.readOrder) /\ n.key \in Nat /\ m.key \in Nat
    BY <1>2, EntryMovedUp DEF IInv
  <2> QED
    BY <2>1, <2>2, MovesMeet
<1> QED
  BY <1>1, <1>3, <1>4, <1>5, <1>6

\* The comment at AssFilter.cpp:289-292 holds but for lines whose numbers are a
\* multiple of the stride apart.
THEOREM NoLineIsLost == Spec => []NoLineLost
<1> QED
  BY Invariance, InvariantLosesNone, PTL

\* A line without such another has one copy once it was received, none before.
LEMMA CopiesCounted ==
  ASSUME IInv, NEW line \in ApartLines
  PROVE  Cardinality(Copies(line)) = IF line \in received THEN 1 ELSE 0
<1>1. line \in Line /\ \A ro \in ReadOrders \ {line.readOrder} : ~Collide(line.readOrder, ro)
  BY DEF ApartLines
<1>2. line.readOrder \in Nat
  BY <1>1, ReadOrderAssumption DEF Line
<1>3. ASSUME NEW e \in Copies(line)
      PROVE  \E m \in mapSubLine :
               m.key = line.readOrder /\ m.text = line.text /\ e = EventOf(m)
  <2>1. PICK m \in mapSubLine : e = EventOf(m)
    BY DEF Copies, IInv, EventsAreEntries
  <2>2. m.text = line.text /\ MovedUp(line.readOrder, m.readOrder) /\ m.readOrder \in Nat
    BY <2>1 DEF Copies, EventOf, IInv, TypeOK, Entry
  <2>3. MovedUp(m.key, m.readOrder) /\ m.key \in ReadOrders /\ m.key \in Nat
    BY EntryMovedUp DEF IInv
  <2>4. Collide(line.readOrder, m.key)
    BY <1>2, <2>2, <2>3, MovesMeet
  <2>5. m.key = line.readOrder
    BY <1>1, <2>3, <2>4
  <2> QED
    BY <2>1, <2>2, <2>5
<1>4. CASE line \in received
  <2>1. PICK m \in mapSubLine : m.key = line.readOrder /\ m.text = line.text
    BY <1>4 DEF IInv, ReceivedAreEntries
  <2>2. PICK n \in mapSubLine : n.readOrder = m.readOrder /\ EventOf(n) \in events
    BY DEF IInv, EventsAreEntries
  <2>3. m.readOrder \in Nat /\ n.key \in ReadOrders /\ Collide(m.key, n.key)
    <3>1. m.readOrder \in Nat
      BY DEF IInv, TypeOK, Entry
    <3>2. MovedUp(n.key, m.readOrder) /\ MovedUp(m.key, m.readOrder)
      BY <2>2, EntryMovedUp DEF IInv
    <3>3. n.key \in ReadOrders /\ n.key \in Nat /\ m.key \in Nat
      BY EntryMovedUp DEF IInv
    <3> QED
      BY <3>1, <3>2, <3>3, MovesMeet
  <2>4. n = m
    BY <1>1, <2>1, <2>2, <2>3 DEF IInv, DistinctPerKey
  <2>5. EventOf(m) \in Copies(line)
    BY <1>1, <2>1, <2>2, <2>4, EntryIsCopied
  <2>6. ASSUME NEW e \in Copies(line) PROVE e = EventOf(m)
    BY <1>3, <2>1 DEF IInv, DistinctPerKey
  <2>7. Copies(line) = {EventOf(m)}
    BY <2>5, <2>6
  <2> QED
    BY <1>4, <2>7, FS_Singleton
<1>5. CASE line \notin received
  <2>1. ASSUME NEW m \in mapSubLine, m.key = line.readOrder, m.text = line.text
        PROVE  line \in received
    <3>1. line = [readOrder |-> m.key, text |-> m.text]
      BY <1>1, <2>1 DEF Line
    <3> QED
      BY <3>1 DEF IInv, ReceivedAreEntries
  <2>2. Copies(line) = {}
    BY <1>3, <1>5, <2>1
  <2> QED
    BY <1>5, <2>2, FS_EmptySet
<1> QED
  BY <1>4, <1>5

\* Counting one element more.
LEMMA OneMore ==
  ASSUME NEW A, NEW R, NEW line \in A \ R
  PROVE  [l \in A |-> IF l \in R \cup {line} THEN 1 ELSE 0] =
           [[l \in A |-> IF l \in R THEN 1 ELSE 0] EXCEPT ![line] = @ + 1]
<1> DEFINE f == [l \in A |-> IF l \in R THEN 1 ELSE 0]
           g == [l \in A |-> IF l \in R \cup {line} THEN 1 ELSE 0]
           h == [f EXCEPT ![line] = f[line] + 1]
<1>1. f[line] + 1 = 1
  OBVIOUS
<1>2. ASSUME NEW l \in A PROVE g[l] = h[l]
  BY <1>1
<1>3. DOMAIN g = A /\ DOMAIN h = A /\ g = [l \in A |-> g[l]] /\ h = [l \in A |-> h[l]]
  OBVIOUS
<1>4. g = h
  <2> HIDE DEF f, g, h
  <2> QED
    BY <1>2, <1>3
<1> QED
  BY <1>4

\* ... and for those lines the handler is the plain store: a new line gets a
\* copy, a repeated one and one of another number change nothing, a new media
\* type empties the store.
THEOREM ImplementsStore == Spec => ImplementsLineStore
<1> DEFINE stored == [line \in ApartLines |-> Cardinality(Copies(line))]
           Counted == stored = [line \in ApartLines |-> IF line \in received THEN 1 ELSE 0]
<1>1. IInv => Counted
  BY CopiesCounted
<1> HIDE DEF Counted
<1>2. Init /\ Counted => Store!Empty
  <2> SUFFICES ASSUME Init, Counted PROVE Store!Empty
    OBVIOUS
  <2>1. received = {}
    BY DEF Init
  <2> QED
    BY <2>1 DEF Store!Empty, Counted
<1>3. Counted /\ Counted' /\ TypeOK' /\ [Next]_vars => [Store!Next]_Store!vars
  <2> SUFFICES ASSUME Counted, Counted', TypeOK', [Next]_vars
               PROVE  [Store!Next]_Store!vars
    OBVIOUS
  <2>1. stored = [line \in ApartLines |-> IF line \in received THEN 1 ELSE 0]
    BY DEF Counted
  <2>2. /\ ApartLines' = ApartLines
        /\ stored' = [line \in ApartLines |-> IF line \in received' THEN 1 ELSE 0]
    BY DEF Counted, ApartLines, Collide, MovedUp
  <2>3. CASE received' \cap ApartLines = received \cap ApartLines
    <3>1. stored' = stored
      BY <2>1, <2>2, <2>3
    <3> QED
      BY <2>2, <2>3, <3>1 DEF Store!vars
  <2>4. ASSUME NEW line \in Line, ReceiveNew(line) \/ ReceiveAgain(line),
               line \in ApartLines \ received
        PROVE  Store!Deliver(line)
    <3>1. received' = received \cup {line}
      BY <2>4 DEF ReceiveNew, ReceiveAgain
    <3>2. stored' = [stored EXCEPT ![line] = @ + 1]
      BY <2>1, <2>2, <2>4, <3>1, OneMore
    <3> QED
      BY <2>2, <2>4, <3>1, <3>2 DEF Store!Deliver
  <2>5. ASSUME SetMediaType PROVE Store!Reset
    <3>1. received' = {}
      BY <2>5 DEF SetMediaType
    <3> QED
      BY <2>2, <3>1 DEF Store!Reset, Store!Empty
  <2>6. ASSUME NEW line \in Line, ReceiveNew(line) \/ ReceiveAgain(line),
               line \notin ApartLines \ received
        PROVE  received' \cap ApartLines = received \cap ApartLines
    BY <2>6 DEF ReceiveNew, ReceiveAgain
  <2>7. CASE UNCHANGED vars
    BY <2>3, <2>7 DEF vars
  <2> QED
    BY <2>3, <2>4, <2>5, <2>6, <2>7 DEF Next, Store!Next
<1>4. Spec => [](IInv /\ TypeOK)
  BY Invariance, TypeCorrect, PTL
<1> QED
  BY <1>1, <1>2, <1>3, <1>4, PTL DEF Spec, ImplementsLineStore, Store!Spec

=============================================================================
