--------------------------- MODULE AllocatorProofs ---------------------------
(***************************************************************************)
(* The allocator for every number of threads and of buffers: its samples,  *)
(* its semaphore and its reference count.                                  *)
(***************************************************************************)
EXTENDS Allocator, FiniteSetTheorems, TLAPS

AtPlace(place) == {t \in Threads : pc[t] = place}

\* The reference that Commit took, until the decommit is complete.
CommitRef == IF committed \/ decommitting THEN 1 ELSE 0

TypeInv ==
  /\ count \in 0 .. MaxBuffers
  /\ changed \in BOOLEAN
  /\ allocated \in 0 .. MaxBuffers
  /\ free \in Seq(Samples)
  /\ committed \in BOOLEAN
  /\ decommitting \in BOOLEAN
  /\ waiting \in Nat
  /\ semaphore \in Nat
  /\ refs \in Nat
  /\ pins \in Nat
  /\ owners \in [Samples -> SUBSET Threads]
  /\ pc \in [Threads -> {"idle", "waiting", "woken", "unlocked", "completed", "fault"}]
  /\ noWaits \in Nat

FlagsInv ==
  /\ ~(committed /\ decommitting)
  /\ committed => pins > 0
  /\ InGetBuffer # {} => pins > 0

\* Every thread that waits, and every call that did not, is counted in m_lWaiting
\* or has its count in the semaphore; the former only while there is no sample.
WakeInv ==
  /\ semaphore + waiting = Cardinality(AtPlace("waiting")) + noWaits
  /\ free # <<>> \/ ~committed => waiting = 0

\* The references are those of the pins, that of Commit, and that of a release that
\* has completed a decommit and not given it up yet.
RefsInv == refs = pins + CommitRef + Cardinality(AtPlace("completed"))

AllocatorInv ==
  /\ TypeInv
  /\ FlagsInv
  /\ SamplesAccountedFor
  /\ DecommitPendsOnBuffers
  /\ WakeInv
  /\ RefsInv

-----------------------------------------------------------------------------
(* The free list, and counting threads.                                    *)

\* As many samples are out as the free list lacks.
LEMMA CountOut ==
  ASSUME TypeInv, SamplesAccountedFor
  PROVE  /\ IsFiniteSet(Out)
         /\ Cardinality(Out) \in Nat
         /\ Len(free) + Cardinality(Out) = allocated
<1>1. Len(free) \in Nat /\ allocated \in Nat
  BY MaxBuffersAssumption DEF TypeInv
<1>2. IsFiniteSet(1 .. Len(free)) /\ Cardinality(1 .. Len(free)) = Len(free)
  BY <1>1, FS_Interval, SMTT(30)
<1>3. IsFiniteSet(1 .. allocated) /\ Cardinality(1 .. allocated) = allocated
  BY <1>1, FS_Interval
<1>4. [i \in 1 .. Len(free) |-> free[i]] \in Bijection(1 .. Len(free), OnList)
  BY DEF SamplesAccountedFor, OnList, Bijection, Injection, Surjection, IsInjective
<1>5. IsFiniteSet(OnList) /\ Cardinality(OnList) = Len(free)
  BY <1>2, <1>4, FS_Bijection DEF ExistsBijection
<1>6. Out \subseteq 1 .. allocated
  BY DEF SamplesAccountedFor
<1>7. IsFiniteSet(Out) /\ Cardinality(Out) \in Nat
  BY <1>3, <1>6, FS_Subset, FS_CardinalityType
<1>8. OnList \cap Out = {} /\ OnList \cup Out = 1 .. allocated
  BY DEF SamplesAccountedFor
<1>9. Cardinality(OnList \cup Out) =
        Cardinality(OnList) + Cardinality(Out) - Cardinality(OnList \cap Out)
  BY <1>5, <1>7, FS_Union
<1>10. Cardinality(OnList \cup Out) = allocated /\ Cardinality(OnList \cap Out) = 0
  BY <1>3, <1>8, FS_EmptySet
<1> QED
  BY <1>1, <1>5, <1>7, <1>9, <1>10

LEMMA AllBack ==
  ASSUME TypeInv, SamplesAccountedFor
  PROVE  /\ Len(free) <= allocated
         /\ Len(free) = allocated <=> Out = {}
         /\ \A s : Out = {s} <=> (s \in Out /\ Len(free) + 1 = allocated)
<1>1. Len(free) \in Nat /\ allocated \in Nat
  BY MaxBuffersAssumption DEF TypeInv
<1>2. Cardinality(Out) = 0 <=> Out = {}
  BY CountOut, FS_EmptySet
<1>3. ASSUME NEW s
      PROVE  Out = {s} <=> (s \in Out /\ Cardinality(Out) = 1)
  <2>1. CASE Out = {s}
    BY <2>1, FS_Singleton
  <2>2. CASE s \in Out /\ Cardinality(Out) = 1
    BY <2>2, CountOut, FS_Singleton
  <2> QED
    BY <2>1, <2>2
<1>4. Cardinality(Out) \in Nat /\ Len(free) + Cardinality(Out) = allocated
  BY CountOut
<1>5. Len(free) <= allocated /\ (Len(free) = allocated <=> Out = {})
  BY <1>1, <1>2, <1>4
<1>6. Cardinality(Out) = 1 <=> Len(free) + 1 = allocated
  BY <1>1, <1>4
<1> QED
  BY <1>3, <1>5, <1>6

LEMMA CountThreads ==
  ASSUME TypeInv, NEW place
  PROVE  IsFiniteSet(AtPlace(place)) /\ Cardinality(AtPlace(place)) \in Nat
<1>1. AtPlace(place) \in SUBSET Threads
  BY DEF AtPlace
<1> QED
  BY <1>1, ThreadsAssumption, FS_Subset, FS_CardinalityType

\* A thread that goes elsewhere leaves one place and enters another.
LEMMA CountMove ==
  ASSUME TypeInv, NEW t \in Threads, NEW to, At(t, to), NEW place
  PROVE  Cardinality(AtPlace(place))' =
           Cardinality(AtPlace(place))
             + (IF to = place THEN 1 ELSE 0) - (IF pc[t] = place THEN 1 ELSE 0)
<1>1. IsFiniteSet(AtPlace(place)) /\ Cardinality(AtPlace(place)) \in Nat
  BY CountThreads
<1>2. t \in AtPlace(place) <=> pc[t] = place
  BY DEF AtPlace
<1>3. CASE to = place
  <2>1. AtPlace(place)' = AtPlace(place) \cup {t}
    BY <1>3 DEF AtPlace, At, TypeInv
  <2> QED
    BY <1>1, <1>2, <1>3, <2>1, FS_AddElement
<1>4. CASE to # place
  <2>1. AtPlace(place)' = AtPlace(place) \ {t}
    BY <1>4 DEF AtPlace, At, TypeInv
  <2>2. Cardinality(AtPlace(place) \ {t}) =
          IF t \in AtPlace(place) THEN Cardinality(AtPlace(place)) - 1
          ELSE Cardinality(AtPlace(place))
    BY <1>1, FS_RemoveElement
  <2> QED
    BY <1>1, <1>2, <1>4, <2>1, <2>2
<1> QED
  BY <1>3, <1>4

\* Steps of the pins, and of threads that do not move.
LEMMA CountStays ==
  ASSUME pc' = pc, NEW place
  PROVE  Cardinality(AtPlace(place))' = Cardinality(AtPlace(place))
<1>1. AtPlace(place)' = AtPlace(place)
  BY DEF AtPlace
<1> QED
  BY <1>1

-----------------------------------------------------------------------------

LEMMA AllocatorInvInit == Init => AllocatorInv
<1> SUFFICES ASSUME Init
             PROVE  AllocatorInv
  OBVIOUS
<1>1. TypeInv
  <2>1. 0 \in 0 .. MaxBuffers
    BY MaxBuffersAssumption
  <2>2. <<>> \in Seq(Samples)
    OBVIOUS
  <2>3. owners \in [Samples -> SUBSET Threads]
    BY DEF Init
  <2>4. pc \in [Threads -> {"idle", "waiting", "woken", "unlocked", "completed", "fault"}]
    BY DEF Init
  <2> QED
    BY <2>1, <2>2, <2>3, <2>4 DEF Init, TypeInv
<1>2. AtPlace("waiting") = {} /\ AtPlace("completed") = {} /\ InGetBuffer = {}
  BY DEF Init, AtPlace, InGetBuffer
<1>3. FlagsInv
  BY <1>2 DEF Init, FlagsInv
<1>6. Cardinality(AtPlace("waiting")) = 0 /\ Cardinality(AtPlace("completed")) = 0
  BY <1>2, FS_EmptySet
<1>7. WakeInv /\ RefsInv
  BY <1>6 DEF Init, WakeInv, RefsInv, CommitRef
<1>4. OnList = {} /\ Out = {}
  BY DEF Init, OnList, Out
<1>5. SamplesAccountedFor /\ DecommitPendsOnBuffers
  BY <1>4 DEF Init, SamplesAccountedFor, DecommitPendsOnBuffers
<1> QED
  BY <1>1, <1>3, <1>5, <1>7 DEF AllocatorInv

LEMMA SetPropertiesKeeps ==
  ASSUME AllocatorInv, NEW n \in Samples, SetProperties(n)
  PROVE  AllocatorInv'
<1> USE DEF SetProperties, lists, signals
<1>1. TypeInv' /\ FlagsInv'
  BY MaxBuffersAssumption DEF AllocatorInv, TypeInv, FlagsInv, Samples, InGetBuffer
<1>2. SamplesAccountedFor' /\ DecommitPendsOnBuffers'
  BY DEF AllocatorInv, SamplesAccountedFor, DecommitPendsOnBuffers, OnList, Out
<1>3. WakeInv' /\ RefsInv'
  BY CountStays DEF AllocatorInv, WakeInv, RefsInv, CommitRef
<1> QED
  BY <1>1, <1>2, <1>3 DEF AllocatorInv

\* When the allocator is neither committed nor pending, no sample is out.
LEMMA CommitKeeps ==
  ASSUME AllocatorInv, NEW n \in 0 .. count, Commit(n)
  PROVE  AllocatorInv'
<1> USE DEF Commit, signals
<1>1. Out = {} /\ Out' = {}
  BY DEF AllocatorInv, DecommitPendsOnBuffers, Out
<1>2. n \in Nat /\ n <= MaxBuffers
  BY MaxBuffersAssumption DEF AllocatorInv, TypeInv
<1>3. TypeInv'
  <2>1. [i \in 1 .. n |-> n + 1 - i] \in Seq(Samples)
    BY <1>2, MaxBuffersAssumption DEF Samples
  <2> QED
    BY <1>2, <2>1, MaxBuffersAssumption DEF AllocatorInv, TypeInv, Alloc
<1>4. FlagsInv'
  BY DEF AllocatorInv, FlagsInv, InGetBuffer
<1>5. SamplesAccountedFor'
  <2>1. CASE changed
    <3>1. free' = [i \in 1 .. n |-> n + 1 - i] /\ allocated' = n /\ Len(free') = n
      BY <1>2, <2>1 DEF Alloc
    <3>2. \A i, j \in 1 .. n : n + 1 - i = n + 1 - j => i = j
      BY <1>2
    <3>3. OnList' = 1 .. n
      <4>1. OnList' = {n + 1 - i : i \in 1 .. n}
        BY <3>1 DEF OnList
      <4>2. \A k \in 1 .. n : n + 1 - k \in 1 .. n /\ k = n + 1 - (n + 1 - k)
        BY <1>2
      <4> QED
        BY <4>1, <4>2
    <3> QED
      BY <1>1, <3>1, <3>2, <3>3 DEF SamplesAccountedFor
  <2>2. CASE ~changed
    BY <1>1, <2>2 DEF AllocatorInv, SamplesAccountedFor, OnList
  <2> QED
    BY <2>1, <2>2 DEF AllocatorInv, TypeInv
<1>6. DecommitPendsOnBuffers'
  BY <1>1 DEF DecommitPendsOnBuffers
<1>7. WakeInv'
  BY CountStays DEF AllocatorInv, WakeInv
<1>8. RefsInv'
  <2>1. Cardinality(AtPlace("completed"))' = Cardinality(AtPlace("completed"))
    BY CountStays
  <2>2. Cardinality(AtPlace("completed")) \in Nat
    BY CountThreads DEF AllocatorInv
  <2>3. CommitRef = 0 /\ CommitRef' = IF n = count THEN 1 ELSE 0
    BY DEF CommitRef
  <2> QED
    BY <2>1, <2>2, <2>3 DEF AllocatorInv, TypeInv, RefsInv
<1> QED
  BY <1>3, <1>4, <1>5, <1>6, <1>7, <1>8 DEF AllocatorInv

LEMMA CommitAgainKeeps ==
  ASSUME AllocatorInv, CommitAgain
  PROVE  AllocatorInv'
<1> USE DEF CommitAgain, properties, lists, signals
<1>1. TypeInv' /\ FlagsInv'
  BY DEF AllocatorInv, TypeInv, FlagsInv, InGetBuffer
<1>2. SamplesAccountedFor' /\ DecommitPendsOnBuffers'
  BY DEF AllocatorInv, SamplesAccountedFor, DecommitPendsOnBuffers, OnList, Out
<1>3. WakeInv' /\ RefsInv'
  BY CountStays DEF AllocatorInv, TypeInv, FlagsInv, WakeInv, RefsInv, CommitRef
<1> QED
  BY <1>1, <1>2, <1>3 DEF AllocatorInv

LEMMA DecommitKeeps ==
  ASSUME AllocatorInv, Decommit
  PROVE  AllocatorInv'
<1> USE DEF Decommit, properties, lists, NotifySample
<1>1. Out' = Out /\ OnList' = OnList
  BY DEF Out, OnList
<1>2. Len(free) <= allocated /\ (Len(free) = allocated <=> Out = {})
  BY AllBack DEF AllocatorInv
<1>3. Len(free) < allocated <=> Out # {}
  BY <1>2, MaxBuffersAssumption DEF AllocatorInv, TypeInv
<1>4. refs >= 1
  BY CountThreads DEF AllocatorInv, TypeInv, RefsInv, CommitRef
<1>5. TypeInv' /\ FlagsInv'
  <2>1. refs' \in Nat /\ semaphore' \in Nat
    BY <1>4 DEF AllocatorInv, TypeInv
  <2>2. decommitting' \in BOOLEAN
    OBVIOUS
  <2>3. TypeInv'
    BY <2>1, <2>2 DEF AllocatorInv, TypeInv
  <2>4. FlagsInv'
    BY DEF AllocatorInv, FlagsInv, InGetBuffer
  <2> QED
    BY <2>3, <2>4
<1>6. SamplesAccountedFor' /\ DecommitPendsOnBuffers'
  BY <1>1, <1>3 DEF AllocatorInv, SamplesAccountedFor, DecommitPendsOnBuffers
<1>7. WakeInv'
  BY CountStays, CountThreads DEF AllocatorInv, TypeInv, WakeInv
<1>8. RefsInv'
  <2>1. Cardinality(AtPlace("completed"))' = Cardinality(AtPlace("completed"))
    BY CountStays
  <2>2. Cardinality(AtPlace("completed")) \in Nat
    BY CountThreads DEF AllocatorInv
  <2>3. CommitRef = 1 /\ CommitRef' = IF Len(free) < allocated THEN 1 ELSE 0
    BY DEF CommitRef
  <2> QED
    BY <2>1, <2>2, <2>3 DEF AllocatorInv, TypeInv, RefsInv
<1> QED
  BY <1>5, <1>6, <1>7, <1>8 DEF AllocatorInv

LEMMA DisconnectKeeps ==
  ASSUME AllocatorInv, Disconnect
  PROVE  AllocatorInv'
<1> USE DEF Disconnect, properties, lists, signals
<1>1. refs >= 1
  BY CountThreads DEF AllocatorInv, TypeInv, RefsInv, CommitRef
<1>2. TypeInv' /\ FlagsInv'
  BY <1>1 DEF AllocatorInv, TypeInv, FlagsInv, InGetBuffer
<1>3. SamplesAccountedFor' /\ DecommitPendsOnBuffers'
  BY DEF AllocatorInv, SamplesAccountedFor, DecommitPendsOnBuffers, OnList, Out
<1>4. WakeInv' /\ RefsInv'
  BY CountStays, CountThreads DEF AllocatorInv, TypeInv, WakeInv, RefsInv, CommitRef
<1> QED
  BY <1>2, <1>3, <1>4 DEF AllocatorInv

-----------------------------------------------------------------------------
(* Steps of the threads.                                                   *)

\* A thread that only moves, and not to or from a place that is counted.
LEMMA RejectedKeeps ==
  ASSUME AllocatorInv, NEW t \in Threads, Rejected(t)
  PROVE  AllocatorInv'
<1> USE DEF Rejected, Asks, properties, lists, signals
<1>1. At(t, "idle") /\ pc[t] \in {"idle", "woken"}
  OBVIOUS
<1>2. TypeInv'
  BY <1>1 DEF AllocatorInv, TypeInv, At
<1>3. FlagsInv'
  <2>1. InGetBuffer' \subseteq InGetBuffer
    BY <1>1 DEF InGetBuffer, At, AllocatorInv, TypeInv
  <2> QED
    BY <2>1 DEF AllocatorInv, FlagsInv
<1>4. SamplesAccountedFor' /\ DecommitPendsOnBuffers'
  BY DEF AllocatorInv, SamplesAccountedFor, DecommitPendsOnBuffers, OnList, Out
<1>5. /\ Cardinality(AtPlace("waiting"))' = Cardinality(AtPlace("waiting"))
      /\ Cardinality(AtPlace("completed"))' = Cardinality(AtPlace("completed"))
  BY <1>1, CountMove, CountThreads DEF AllocatorInv
<1>6. WakeInv' /\ RefsInv'
  BY <1>5 DEF AllocatorInv, WakeInv, RefsInv, CommitRef
<1> QED
  BY <1>2, <1>3, <1>4, <1>6 DEF AllocatorInv

LEMMA TakeSampleKeeps ==
  ASSUME AllocatorInv, NEW t \in Threads, TakeSample(t)
  PROVE  AllocatorInv'
<1> USE DEF TakeSample, Asks, properties, signals
<1>1. At(t, "idle") /\ pc[t] \in {"idle", "woken"}
  OBVIOUS
<1>2. free \in Seq(Samples) /\ free # <<>> /\ Len(free) \in Nat /\ Len(free) >= 1
  BY DEF AllocatorInv, TypeInv
<1>3. /\ Head(free) = free[1] /\ Head(free) \in Samples
      /\ Tail(free) \in Seq(Samples)
      /\ Len(Tail(free)) = Len(free) - 1
      /\ \A i \in 1 .. Len(free) - 1 : Tail(free)[i] = free[i + 1]
  BY <1>2
<1>4. TypeInv'
  BY <1>1, <1>3 DEF AllocatorInv, TypeInv, At
<1>5. FlagsInv'
  <2>1. InGetBuffer' \subseteq InGetBuffer
    BY <1>1 DEF InGetBuffer, At, AllocatorInv, TypeInv
  <2> QED
    BY <2>1 DEF AllocatorInv, FlagsInv
<1>6. SamplesAccountedFor'
  <2>1. \A i, j \in 1 .. Len(free) : free[i] = free[j] => i = j
    BY DEF AllocatorInv, SamplesAccountedFor
  <2>2. \A i, j \in 1 .. Len(free') : free'[i] = free'[j] => i = j
    <3>1. \A i \in 1 .. Len(free') : free'[i] = free[i + 1] /\ i + 1 \in 1 .. Len(free)
      BY <1>2, <1>3
    <3> QED
      BY <2>1, <3>1, <1>2, <1>3
  <2>3. OnList' = OnList \ {Head(free)}
    <3>1. OnList' = {free[i + 1] : i \in 1 .. Len(free) - 1}
      BY <1>3 DEF OnList
    <3>2. \A k \in 1 .. Len(free) : k # 1 => k - 1 \in 1 .. Len(free) - 1 /\ k = (k - 1) + 1
      BY <1>2
    <3>3. \A i \in 1 .. Len(free) - 1 : i + 1 \in 1 .. Len(free) /\ i + 1 # 1
      BY <1>2
    <3>4. 1 \in 1 .. Len(free)
      BY <1>2
    <3> QED
      BY <1>3, <2>1, <3>1, <3>2, <3>3, <3>4 DEF OnList
  <2>4. Out' = Out \cup {Head(free)}
    BY <1>3 DEF AllocatorInv, TypeInv, Out
  <2>5. Head(free) \in OnList
    BY <1>2, <1>3 DEF OnList
  <2> QED
    BY <2>2, <2>3, <2>4, <2>5 DEF AllocatorInv, SamplesAccountedFor
<1>7. DecommitPendsOnBuffers'
  BY DEF DecommitPendsOnBuffers
<1>8. /\ Cardinality(AtPlace("waiting"))' = Cardinality(AtPlace("waiting"))
      /\ Cardinality(AtPlace("completed"))' = Cardinality(AtPlace("completed"))
  BY <1>1, CountMove, CountThreads DEF AllocatorInv
<1>9. WakeInv' /\ RefsInv'
  BY <1>8 DEF AllocatorInv, WakeInv, RefsInv, CommitRef
<1> QED
  BY <1>4, <1>5, <1>6, <1>7, <1>9 DEF AllocatorInv

LEMMA StartWaitingKeeps ==
  ASSUME AllocatorInv, NEW t \in Threads, StartWaiting(t)
  PROVE  AllocatorInv'
<1> USE DEF StartWaiting, Asks, properties, lists
<1>1. At(t, "waiting") /\ pc[t] \in {"idle", "woken"}
  OBVIOUS
<1>2. TypeInv'
  BY <1>1 DEF AllocatorInv, TypeInv, At
<1>3. FlagsInv'
  <2>1. pins > 0
    BY DEF AllocatorInv, FlagsInv, InGetBuffer
  <2> QED
    BY <2>1 DEF AllocatorInv, FlagsInv
<1>4. SamplesAccountedFor' /\ DecommitPendsOnBuffers'
  BY DEF AllocatorInv, SamplesAccountedFor, DecommitPendsOnBuffers, OnList, Out
<1>5. /\ Cardinality(AtPlace("waiting"))' = Cardinality(AtPlace("waiting")) + 1
      /\ Cardinality(AtPlace("completed"))' = Cardinality(AtPlace("completed"))
      /\ Cardinality(AtPlace("waiting")) \in Nat
  BY <1>1, CountMove, CountThreads DEF AllocatorInv
<1>6. WakeInv'
  BY <1>5 DEF AllocatorInv, TypeInv, WakeInv
<1>7. RefsInv'
  BY <1>5 DEF AllocatorInv, RefsInv, CommitRef
<1> QED
  BY <1>2, <1>3, <1>4, <1>6, <1>7 DEF AllocatorInv

LEMMA NoSampleNoWaitKeeps ==
  ASSUME AllocatorInv, NEW t \in Threads, NoSampleNoWait(t)
  PROVE  AllocatorInv'
<1> USE DEF NoSampleNoWait, properties, lists
<1>1. TypeInv' /\ FlagsInv'
  BY DEF AllocatorInv, TypeInv, FlagsInv, InGetBuffer
<1>2. SamplesAccountedFor' /\ DecommitPendsOnBuffers'
  BY DEF AllocatorInv, SamplesAccountedFor, DecommitPendsOnBuffers, OnList, Out
<1>3. /\ Cardinality(AtPlace("waiting"))' = Cardinality(AtPlace("waiting"))
      /\ Cardinality(AtPlace("completed"))' = Cardinality(AtPlace("completed"))
      /\ Cardinality(AtPlace("waiting")) \in Nat
  BY CountStays, CountThreads DEF AllocatorInv
<1>4. WakeInv' /\ RefsInv'
  BY <1>3 DEF AllocatorInv, TypeInv, WakeInv, RefsInv, CommitRef
<1> QED
  BY <1>1, <1>2, <1>4 DEF AllocatorInv

LEMMA WakeKeeps ==
  ASSUME AllocatorInv, NEW t \in Threads, Wake(t)
  PROVE  AllocatorInv'
<1> USE DEF Wake, properties, lists
<1>1. At(t, "woken") /\ pc[t] = "waiting"
  OBVIOUS
<1>2. TypeInv'
  BY <1>1 DEF AllocatorInv, TypeInv, At
<1>3. FlagsInv'
  <2>1. pins > 0
    BY DEF AllocatorInv, FlagsInv, InGetBuffer
  <2> QED
    BY <2>1 DEF AllocatorInv, FlagsInv
<1>4. SamplesAccountedFor' /\ DecommitPendsOnBuffers'
  BY DEF AllocatorInv, SamplesAccountedFor, DecommitPendsOnBuffers, OnList, Out
<1>5. /\ Cardinality(AtPlace("waiting"))' = Cardinality(AtPlace("waiting")) - 1
      /\ Cardinality(AtPlace("completed"))' = Cardinality(AtPlace("completed"))
      /\ Cardinality(AtPlace("waiting")) \in Nat
  BY <1>1, CountMove, CountThreads DEF AllocatorInv
<1>6. WakeInv'
  BY <1>5 DEF AllocatorInv, TypeInv, WakeInv
<1>7. RefsInv'
  BY <1>5 DEF AllocatorInv, RefsInv, CommitRef
<1> QED
  BY <1>2, <1>3, <1>4, <1>6, <1>7 DEF AllocatorInv

\* Adding a reference to a sample, or giving one up that is not the last.
LEMMA RefsOfSampleKeep ==
  ASSUME AllocatorInv, NEW t \in Threads, NEW s \in Samples,
         Release(t, s) \/ \E u \in Threads : AddRef(t, u, s)
  PROVE  AllocatorInv'
<1> USE DEF properties, signals
<1>1. PICK o \in SUBSET Threads : owners' = [owners EXCEPT ![s] = o] /\ o # {} /\ owners[s] # {}
  <2>1. CASE Release(t, s)
    <3>1. owners[s] \in SUBSET Threads
      BY DEF AllocatorInv, TypeInv
    <3> QED
      BY <2>1, <3>1 DEF Release
  <2>2. CASE \E u \in Threads : AddRef(t, u, s)
    <3>1. PICK u \in Threads : AddRef(t, u, s)
      BY <2>2
    <3>2. owners[s] \cup {u} \in SUBSET Threads
      BY DEF AllocatorInv, TypeInv
    <3> QED
      BY <3>1, <3>2 DEF AddRef
  <2> QED
    BY <2>1, <2>2
<1>2. UNCHANGED <<count, changed, allocated, free, committed, decommitting, waiting, semaphore,
                  refs, pins, pc, noWaits>>
  BY DEF Release, AddRef
<1>3. TypeInv' /\ FlagsInv'
  BY <1>1, <1>2 DEF AllocatorInv, TypeInv, FlagsInv, InGetBuffer
<1>4. Out' = Out /\ OnList' = OnList
  BY <1>1, <1>2 DEF AllocatorInv, TypeInv, Out, OnList
<1>5. SamplesAccountedFor' /\ DecommitPendsOnBuffers'
  BY <1>2, <1>4 DEF AllocatorInv, SamplesAccountedFor, DecommitPendsOnBuffers
<1>6. WakeInv' /\ RefsInv'
  BY <1>2, CountStays DEF AllocatorInv, WakeInv, RefsInv, CommitRef
<1> QED
  BY <1>3, <1>5, <1>6 DEF AllocatorInv

LEMMA ReleaseBufferKeeps ==
  ASSUME AllocatorInv, NEW t \in Threads, NEW s \in Samples, ReleaseBuffer(t, s)
  PROVE  AllocatorInv'
<1> DEFINE last == decommitting /\ Len(free) + 1 = allocated
<1> USE DEF ReleaseBuffer, NotifySample, properties
<1>1. /\ pc[t] = "idle"
      /\ At(t, IF last THEN "completed" ELSE "unlocked")
      /\ decommitting' = (decommitting /\ ~last)
  OBVIOUS
<1>2. free \in Seq(Samples) /\ Len(free) \in Nat
  BY DEF AllocatorInv, TypeInv
<1>3. /\ free' \in Seq(Samples) /\ Len(free') = Len(free) + 1 /\ free'[1] = s
      /\ \A i \in 2 .. Len(free) + 1 : free'[i] = free[i - 1]
  BY <1>2
<1>4. TypeInv'
  <2>1. decommitting' \in BOOLEAN
    BY <1>1
  <2>2. pc' \in [Threads -> {"idle", "waiting", "woken", "unlocked", "completed", "fault"}]
    BY <1>1 DEF AllocatorInv, TypeInv, At
  <2>3. owners' \in [Samples -> SUBSET Threads]
    BY DEF AllocatorInv, TypeInv
  <2>4. semaphore' \in Nat /\ waiting' \in Nat
    BY DEF AllocatorInv, TypeInv
  <2> QED
    BY <1>3, <2>1, <2>2, <2>3, <2>4 DEF AllocatorInv, TypeInv
<1>5. FlagsInv'
  <2>1. InGetBuffer' \subseteq InGetBuffer
    BY <1>1 DEF InGetBuffer, At, AllocatorInv, TypeInv
  <2> QED
    BY <1>1, <2>1 DEF AllocatorInv, FlagsInv
<1>6. s \in Out /\ Out' = Out \ {s}
  BY DEF AllocatorInv, TypeInv, Out
<1>7. SamplesAccountedFor'
  <2>1. /\ \A i, j \in 1 .. Len(free) : free[i] = free[j] => i = j
        /\ \A i \in 1 .. Len(free) : free[i] # s
    BY <1>6 DEF AllocatorInv, SamplesAccountedFor, OnList
  <2>2. \A i \in 1 .. Len(free) + 1 : i # 1 => i - 1 \in 1 .. Len(free) /\ i \in 2 .. Len(free) + 1
    BY <1>2
  <2>3. ASSUME NEW i \in 1 .. Len(free'), NEW j \in 1 .. Len(free'), free'[i] = free'[j]
        PROVE  i = j
    <3>1. CASE i = 1 \/ j = 1
      BY <1>3, <2>1, <2>2, <2>3, <3>1
    <3>2. CASE i # 1 /\ j # 1
      <4>1. free[i - 1] = free[j - 1] /\ i - 1 \in 1 .. Len(free) /\ j - 1 \in 1 .. Len(free)
        BY <1>3, <2>2, <2>3, <3>2
      <4>2. i - 1 = j - 1
        BY <2>1, <4>1
      <4> QED
        BY <1>2, <1>3, <4>2
    <3> QED
      BY <3>1, <3>2
  <2>4. OnList' = OnList \cup {s}
    <3>1. \A i \in 1 .. Len(free) : i + 1 \in 2 .. Len(free) + 1 /\ (i + 1) - 1 = i
      BY <1>2
    <3>2. 1 \in 1 .. Len(free) + 1
      BY <1>2
    <3>3. \A i \in 1 .. Len(free) : free'[i + 1] = free[i] /\ i + 1 \in 1 .. Len(free')
      BY <1>2, <1>3, <3>1
    <3> QED
      BY <1>3, <2>2, <3>2, <3>3 DEF OnList
  <2> QED
    BY <1>6, <2>3, <2>4 DEF AllocatorInv, SamplesAccountedFor
<1>8. DecommitPendsOnBuffers'
  <2>1. Out = {s} <=> (s \in Out /\ Len(free) + 1 = allocated)
    BY AllBack DEF AllocatorInv
  <2> QED
    BY <1>1, <1>6, <2>1 DEF AllocatorInv, DecommitPendsOnBuffers
<1>9. /\ Cardinality(AtPlace("waiting"))' = Cardinality(AtPlace("waiting"))
      /\ Cardinality(AtPlace("completed"))' =
           Cardinality(AtPlace("completed")) + IF last THEN 1 ELSE 0
      /\ Cardinality(AtPlace("waiting")) \in Nat
      /\ Cardinality(AtPlace("completed")) \in Nat
  <2>1. ASSUME NEW place
        PROVE  Cardinality(AtPlace(place)) \in Nat
    BY CountThreads DEF AllocatorInv
  <2>2. CASE last
    <3>1. At(t, "completed") /\ pc[t] = "idle"
      BY <1>1, <2>2
    <3>2. ASSUME NEW place
          PROVE  Cardinality(AtPlace(place))' =
                   Cardinality(AtPlace(place))
                     + (IF "completed" = place THEN 1 ELSE 0) - (IF "idle" = place THEN 1 ELSE 0)
      <4> HIDE DEF ReleaseBuffer, last
      <4> QED
        BY <3>1, CountMove DEF AllocatorInv
    <3> QED
      BY <2>1, <2>2, <3>2
  <2>3. CASE ~last
    <3>1. At(t, "unlocked") /\ pc[t] = "idle"
      BY <1>1, <2>3
    <3>2. ASSUME NEW place
          PROVE  Cardinality(AtPlace(place))' =
                   Cardinality(AtPlace(place))
                     + (IF "unlocked" = place THEN 1 ELSE 0) - (IF "idle" = place THEN 1 ELSE 0)
      <4> HIDE DEF ReleaseBuffer, last
      <4> QED
        BY <3>1, CountMove DEF AllocatorInv
    <3>3. Cardinality(AtPlace("completed"))' = Cardinality(AtPlace("completed"))
      BY <2>1, <3>2
    <3>4. Cardinality(AtPlace("waiting"))' = Cardinality(AtPlace("waiting"))
      BY <2>1, <3>2
    <3> HIDE DEF ReleaseBuffer, last
    <3> QED
      BY <2>1, <2>3, <3>3, <3>4
  <2> QED
    BY <2>1, <2>2, <2>3
<1>10. WakeInv'
  BY <1>9 DEF AllocatorInv, TypeInv, WakeInv
<1>11. RefsInv'
  <2>1. last => CommitRef = 1 /\ CommitRef' = 0
    BY <1>1 DEF AllocatorInv, FlagsInv, CommitRef
  <2>2. ~last => CommitRef' = CommitRef
    BY <1>1 DEF AllocatorInv, TypeInv, CommitRef
  <2>3. refs' = refs /\ pins' = pins /\ refs \in Nat /\ pins \in Nat /\ CommitRef \in Nat
    BY DEF AllocatorInv, TypeInv, CommitRef
  <2>4. CASE last
    BY <1>9, <2>1, <2>3, <2>4 DEF AllocatorInv, RefsInv
  <2>5. CASE ~last
    BY <1>9, <2>2, <2>3, <2>5 DEF AllocatorInv, RefsInv
  <2> QED
    BY <2>4, <2>5
<1> QED
  BY <1>4, <1>5, <1>7, <1>8, <1>10, <1>11 DEF AllocatorInv

LEMMA LeaveReleaseBufferKeeps ==
  ASSUME AllocatorInv, NEW t \in Threads, LeaveReleaseBuffer(t)
  PROVE  AllocatorInv'
<1> USE DEF LeaveReleaseBuffer, properties, lists, signals
<1>1. At(t, IF refs = 0 THEN "fault" ELSE "idle") /\ pc[t] \in {"unlocked", "completed"}
  OBVIOUS
<1>2. /\ Cardinality(AtPlace("waiting"))' = Cardinality(AtPlace("waiting"))
      /\ Cardinality(AtPlace("completed"))' =
           Cardinality(AtPlace("completed")) - IF pc[t] = "completed" THEN 1 ELSE 0
      /\ Cardinality(AtPlace("completed")) \in Nat
  BY <1>1, CountMove, CountThreads DEF AllocatorInv
<1>3. pc[t] = "completed" => Cardinality(AtPlace("completed")) # 0
  <2>1. pc[t] = "completed" => t \in AtPlace("completed")
    BY DEF AtPlace
  <2> QED
    BY <2>1, CountThreads, FS_EmptySet DEF AllocatorInv
<1>4. pc[t] = "completed" => refs > 0
  BY <1>2, <1>3 DEF AllocatorInv, TypeInv, RefsInv, CommitRef
<1>5. TypeInv'
  <2>1. refs' \in Nat
    BY <1>4 DEF AllocatorInv, TypeInv
  <2> QED
    BY <1>1, <2>1 DEF AllocatorInv, TypeInv, At
<1>6. FlagsInv'
  <2>1. InGetBuffer' \subseteq InGetBuffer
    BY <1>1 DEF InGetBuffer, At, AllocatorInv, TypeInv
  <2> QED
    BY <2>1 DEF AllocatorInv, FlagsInv
<1>7. SamplesAccountedFor' /\ DecommitPendsOnBuffers'
  BY DEF AllocatorInv, SamplesAccountedFor, DecommitPendsOnBuffers, OnList, Out
<1>8. WakeInv'
  BY <1>2 DEF AllocatorInv, WakeInv
<1>9. RefsInv'
  <2>1. CommitRef' = CommitRef /\ CommitRef \in Nat
    BY DEF CommitRef
  <2> QED
    BY <1>2, <1>4, <2>1 DEF AllocatorInv, TypeInv, RefsInv
<1> QED
  BY <1>5, <1>6, <1>7, <1>8, <1>9 DEF AllocatorInv

-----------------------------------------------------------------------------

LEMMA AllocatorInvStep == AllocatorInv /\ [Next]_vars => AllocatorInv'
<1> SUFFICES ASSUME AllocatorInv, [Next]_vars
             PROVE  AllocatorInv'
  OBVIOUS
<1>1. CASE \E n \in Samples : SetProperties(n)
  BY <1>1, SetPropertiesKeeps
<1>2. CASE \E n \in 0 .. count : Commit(n)
  BY <1>2, CommitKeeps
<1>3. CASE CommitAgain \/ Decommit \/ Disconnect
  BY <1>3, CommitAgainKeeps, DecommitKeeps, DisconnectKeeps
<1>4. ASSUME NEW t \in Threads,
             Rejected(t) \/ TakeSample(t) \/ StartWaiting(t) \/ NoSampleNoWait(t) \/ Wake(t)
      PROVE  AllocatorInv'
  BY <1>4, RejectedKeeps, TakeSampleKeeps, StartWaitingKeeps, NoSampleNoWaitKeeps, WakeKeeps
<1>5. ASSUME NEW t \in Threads, LeaveReleaseBuffer(t)
      PROVE  AllocatorInv'
  BY <1>5, LeaveReleaseBufferKeeps
<1>6. ASSUME NEW t \in Threads, NEW s \in Samples, ReleaseBuffer(t, s)
      PROVE  AllocatorInv'
  BY <1>6, ReleaseBufferKeeps
<1>7. ASSUME NEW t \in Threads, NEW s \in Samples,
             Release(t, s) \/ \E u \in Threads : AddRef(t, u, s)
      PROVE  AllocatorInv'
  BY <1>7, RefsOfSampleKeep
<1>8. CASE UNCHANGED vars
  <2> USE <1>8 DEF vars, properties, lists, signals
  <2>1. TypeInv' /\ FlagsInv'
    BY DEF AllocatorInv, TypeInv, FlagsInv, InGetBuffer
  <2>2. SamplesAccountedFor' /\ DecommitPendsOnBuffers'
    BY DEF AllocatorInv, SamplesAccountedFor, DecommitPendsOnBuffers, OnList, Out
  <2>3. WakeInv' /\ RefsInv'
    BY CountStays DEF AllocatorInv, WakeInv, RefsInv, CommitRef
  <2> QED
    BY <2>1, <2>2, <2>3 DEF AllocatorInv
<1> QED
  BY <1>1, <1>2, <1>3, <1>4, <1>5, <1>6, <1>7, <1>8 DEF Next

LEMMA AllocatorInvariant == Spec => []AllocatorInv
  BY AllocatorInvInit, AllocatorInvStep, PTL DEF Spec

\* No sample is lost, or both free and in use, for any number of buffers.
THEOREM AllocatorAccounts == Spec => []SamplesAccountedFor
<1>1. AllocatorInv => SamplesAccountedFor
  BY DEF AllocatorInv
<1> QED
  BY <1>1, AllocatorInvariant, PTL

\* A decommit is pending exactly until the last of the buffers is back.
THEOREM AllocatorDecommitPends == Spec => []DecommitPendsOnBuffers
<1>1. AllocatorInv => DecommitPendsOnBuffers
  BY DEF AllocatorInv
<1> QED
  BY <1>1, AllocatorInvariant, PTL

\* The semaphore has a count for every thread that could go on, however many wait.
THEOREM AllocatorWakes == Spec => []NoLostWakeUp
<1>1. AllocatorInv => NoLostWakeUp
  <2> SUFFICES ASSUME AllocatorInv, free # <<>> \/ ~committed
               PROVE  semaphore >= Cardinality(AtPlace("waiting"))
    BY DEF NoLostWakeUp, AtPlace
  <2>1. Cardinality(AtPlace("waiting")) \in Nat
    BY CountThreads DEF AllocatorInv
  <2> QED
    BY <2>1 DEF AllocatorInv, TypeInv, WakeInv
<1> QED
  BY <1>1, AllocatorInvariant, PTL

\* The count reaches 0 only when no sample is out and no call that holds on to the
\* allocator is under way.
THEOREM AllocatorDeletion == Spec => []SafeDeletion
<1>1. AllocatorInv => SafeDeletion
  <2> SUFFICES ASSUME AllocatorInv, refs = 0
               PROVE  /\ Out = {} /\ InGetBuffer = {}
                      /\ \A t \in Threads : pc[t] # "completed"
                      /\ ~committed /\ ~decommitting
    BY DEF SafeDeletion
  <2>1. IsFiniteSet(AtPlace("completed")) /\ Cardinality(AtPlace("completed")) \in Nat
    BY CountThreads DEF AllocatorInv
  <2>2. pins = 0 /\ CommitRef = 0 /\ Cardinality(AtPlace("completed")) = 0
    BY <2>1 DEF AllocatorInv, TypeInv, RefsInv, CommitRef
  <2>3. ~committed /\ ~decommitting
    BY <2>2 DEF CommitRef
  <2>4. AtPlace("completed") = {}
    BY <2>1, <2>2, FS_EmptySet
  <2>5. Out = {} /\ InGetBuffer = {}
    BY <2>2, <2>3 DEF AllocatorInv, DecommitPendsOnBuffers, FlagsInv
  <2> QED
    BY <2>3, <2>4, <2>5 DEF AtPlace
<1> QED
  BY <1>1, AllocatorInvariant, PTL

=============================================================================
