------------------------------ MODULE Allocator ------------------------------
(***************************************************************************)
(* The allocator the input pin offers to the filter upstream: CMemAllocator*)
(* with the free list, the semaphore and the life of CBaseAllocator, and   *)
(* the reference count of CMediaSample.                                    *)
(*                                                                         *)
(* The threads are those of the filters: they get samples, hand them on    *)
(* and release them.  The two pins of the connection commit, decommit and  *)
(* let go of the allocator; a sample may outlive both.  What happens under *)
(* the allocator's lock is one step.                                       *)
(***************************************************************************)
EXTENDS Naturals, Sequences, FiniteSets

CONSTANTS
  Threads,     \* the threads that use samples
  MaxBuffers,  \* bound: the number of buffers SetProperties may ask for
  MaxNoWaits   \* bound: the calls with AM_GBF_NOWAIT that find no sample

ASSUME ThreadsAssumption == IsFiniteSet(Threads)
ASSUME MaxBuffersAssumption == MaxBuffers \in Nat
ASSUME MaxNoWaitsAssumption == MaxNoWaits \in Nat

Samples == 1 .. MaxBuffers

VARIABLES
  count,        \* m_lCount
  changed,      \* m_bChanged
  allocated,    \* m_lAllocated: the samples are 1 .. allocated
  free,         \* m_lFree
  committed,    \* m_bCommitted
  decommitting, \* m_bDecommitInProgress
  waiting,      \* m_lWaiting
  semaphore,    \* the count of m_hSem
  refs,         \* the allocator's reference count; at 0 it is deleted
  pins,         \* the pins that hold a reference
  owners,       \* for every sample, the threads that hold a reference to it
  pc,           \* "idle", or where in a call the thread is: "waiting" or "woken" in
                \* GetBuffer, "unlocked" or "completed" at the end of ReleaseBuffer;
                \* "fault" when it used the allocator after its deletion
  noWaits       \* the calls with AM_GBF_NOWAIT that found no sample

properties == <<count, changed>>
lists == <<allocated, free, owners>>
signals == <<waiting, semaphore>>
vars == <<properties, lists, committed, decommitting, signals, refs, pins, pc, noWaits>>

Init ==
  /\ count = 0
  /\ changed = FALSE
  /\ allocated = 0
  /\ free = <<>>
  /\ committed = FALSE
  /\ decommitting = FALSE
  /\ waiting = 0
  /\ semaphore = 0
  /\ refs = 2
  /\ pins = 2
  /\ owners = [s \in Samples |-> {}]
  /\ pc = [t \in Threads |-> "idle"]
  /\ noWaits = 0

InGetBuffer == {t \in Threads : pc[t] \in {"waiting", "woken"}}

At(t, place) == pc' = [pc EXCEPT ![t] = place]

NotifyOne ==
  /\ semaphore' = IF waiting > 0 THEN semaphore + 1 ELSE semaphore
  /\ waiting' = 0

\* NotifySample: the semaphore is released once for every thread that waits.
NotifySample ==
  /\ semaphore' = semaphore + waiting
  /\ waiting' = 0

-----------------------------------------------------------------------------
(* The pins.                                                               *)

\* What is asked for must be a number of buffers, and all buffers must be back.
SetProperties(n) ==
  /\ pins > 0
  /\ ~committed
  /\ Len(free) = allocated
  /\ count' = n
  /\ changed' = TRUE
  /\ UNCHANGED <<lists, committed, decommitting, signals, refs, pins, pc, noWaits>>

AllocKeepsList(n) ==
  /\ allocated' = n
  /\ free' = free \o [i \in 1 .. n |-> n + 1 - i]
  /\ changed' = (n < count)

\* Alloc makes n samples.  With fewer than asked for the memory was short: none if
\* that of the buffers was, and the next Commit starts again.
Alloc(n) ==
  /\ allocated' = n
  /\ free' = [i \in 1 .. n |-> n + 1 - i]
  /\ changed' = (n < count)

\* A decommit that is pending is cancelled: the buffers are there and the reference
\* of the last Commit is, too.
CommitAgain ==
  /\ pins > 0
  /\ decommitting
  /\ decommitting' = FALSE
  /\ committed' = TRUE
  /\ UNCHANGED <<properties, lists, signals, refs, pins, pc, noWaits>>

Commit(n) ==
  /\ pins > 0
  /\ ~committed /\ ~decommitting
  /\ count > 0
  /\ IF changed
     THEN Alloc(n)
     ELSE n = count /\ UNCHANGED <<allocated, free, changed>>
  /\ committed' = (n = count)
  /\ refs' = IF n = count THEN refs + 1 ELSE refs
  /\ UNCHANGED <<count, decommitting, signals, pins, owners, pc, noWaits>>

DecommitSilently ==
  /\ pins > 0
  /\ committed \/ decommitting
  /\ committed' = FALSE
  /\ decommitting' = (Len(free) < allocated)
  /\ refs' = IF Len(free) < allocated THEN refs ELSE refs - 1
  /\ UNCHANGED <<properties, lists, signals, pins, pc, noWaits>>

DecommitReleases ==
  /\ pins > 0
  /\ committed \/ decommitting
  /\ committed' = FALSE
  /\ decommitting' = (Len(free) < allocated)
  /\ NotifySample
  /\ refs' = refs - 1
  /\ UNCHANGED <<properties, lists, pins, pc, noWaits>>

\* The memory stays; the reference of Commit goes with the last buffer that comes
\* back, which may be now.  Whoever waits is woken to have his call rejected.
Decommit ==
  /\ pins > 0
  /\ committed \/ decommitting
  /\ committed' = FALSE
  /\ decommitting' = (Len(free) < allocated)
  /\ NotifySample
  /\ refs' = IF Len(free) < allocated THEN refs ELSE refs - 1
  /\ UNCHANGED <<properties, lists, pins, pc, noWaits>>

\* A pin is disconnected: BreakConnect has decommitted the allocator, and releases
\* it.  The streaming thread has been stopped, so that nobody asks for a buffer.
Disconnect ==
  /\ pins > 0
  /\ ~committed
  /\ InGetBuffer = {}
  /\ pins' = pins - 1
  /\ refs' = refs - 1
  /\ UNCHANGED <<properties, lists, committed, decommitting, signals, pc, noWaits>>

-----------------------------------------------------------------------------
(* GetBuffer.                                                              *)

\* The loop is entered, by a call or after a wait.
Asks(t) == pc[t] = "woken" \/ (pc[t] = "idle" /\ pins > 0)

Rejected(t) ==
  /\ Asks(t)
  /\ ~committed
  /\ At(t, "idle")
  /\ UNCHANGED <<properties, lists, committed, decommitting, signals, refs, pins, noWaits>>

TakeSample(t) ==
  /\ Asks(t)
  /\ committed
  /\ free # <<>>
  /\ free' = Tail(free)
  /\ owners' = [owners EXCEPT ![Head(free)] = {t}]
  /\ At(t, "idle")
  /\ UNCHANGED <<properties, allocated, committed, decommitting, signals, refs, pins, noWaits>>

StartWaiting(t) ==
  /\ Asks(t)
  /\ committed
  /\ free = <<>>
  /\ waiting' = waiting + 1
  /\ At(t, "waiting")
  /\ UNCHANGED <<properties, lists, committed, decommitting, semaphore, refs, pins, noWaits>>

\* AM_GBF_NOWAIT: the call counts as a waiting one, and does not wait.
NoSampleNoWait(t) ==
  /\ pc[t] = "idle" /\ pins > 0
  /\ noWaits < MaxNoWaits
  /\ committed
  /\ free = <<>>
  /\ waiting' = waiting + 1
  /\ noWaits' = noWaits + 1
  /\ UNCHANGED <<properties, lists, committed, decommitting, semaphore, refs, pins, pc>>

Wake(t) ==
  /\ pc[t] = "waiting"
  /\ semaphore > 0
  /\ semaphore' = semaphore - 1
  /\ At(t, "woken")
  /\ UNCHANGED <<properties, lists, committed, decommitting, waiting, refs, pins, noWaits>>

-----------------------------------------------------------------------------
(* Samples.                                                                *)

\* A thread hands a sample on, to a queue or another filter, which add references.
AddRef(t, u, s) ==
  /\ pc[t] = "idle"
  /\ t \in owners[s] /\ u \notin owners[s]
  /\ owners' = [owners EXCEPT ![s] = @ \cup {u}]
  /\ UNCHANGED <<properties, allocated, free, committed, decommitting, signals, refs, pins, pc, noWaits>>

Release(t, s) ==
  /\ pc[t] = "idle"
  /\ t \in owners[s] /\ owners[s] # {t}
  /\ owners' = [owners EXCEPT ![s] = @ \ {t}]
  /\ UNCHANGED <<properties, allocated, free, committed, decommitting, signals, refs, pins, pc, noWaits>>

ReleaseBufferCountFirst(t, s) ==
  LET last == decommitting /\ Len(free) = allocated IN
  /\ pc[t] = "idle"
  /\ owners[s] = {t}
  /\ owners' = [owners EXCEPT ![s] = {}]
  /\ free' = <<s>> \o free
  /\ NotifySample
  /\ decommitting' = (decommitting /\ ~last)
  /\ At(t, IF last THEN "completed" ELSE "unlocked")
  /\ UNCHANGED <<properties, allocated, committed, refs, pins, noWaits>>

\* The last reference: the sample goes back to the free list, and the last buffer to
\* come back completes a pending decommit.
ReleaseBuffer(t, s) ==
  LET last == decommitting /\ Len(free) + 1 = allocated IN
  /\ pc[t] = "idle"
  /\ owners[s] = {t}
  /\ owners' = [owners EXCEPT ![s] = {}]
  /\ free' = <<s>> \o free
  /\ NotifySample
  /\ decommitting' = (decommitting /\ ~last)
  /\ At(t, IF last THEN "completed" ELSE "unlocked")
  /\ UNCHANGED <<properties, allocated, committed, refs, pins, noWaits>>

\* Outside the lock ReleaseBuffer reads m_pNotify; the call that completed the
\* decommit then gives up the reference of Commit.
LeaveReleaseBuffer(t) ==
  /\ pc[t] \in {"unlocked", "completed"}
  /\ At(t, IF refs = 0 THEN "fault" ELSE "idle")
  /\ refs' = IF pc[t] = "completed" /\ refs > 0 THEN refs - 1 ELSE refs
  /\ UNCHANGED <<properties, lists, committed, decommitting, signals, pins, noWaits>>

Next ==
  \/ \E n \in Samples : SetProperties(n)
  \/ \E n \in 0 .. count : Commit(n)
  \/ CommitAgain
  \/ Decommit
  \/ Disconnect
  \/ \E t \in Threads :
       \/ Rejected(t) \/ TakeSample(t) \/ StartWaiting(t) \/ NoSampleNoWait(t) \/ Wake(t)
       \/ LeaveReleaseBuffer(t)
       \/ \E s \in Samples : Release(t, s) \/ ReleaseBuffer(t, s)
       \/ \E u \in Threads, s \in Samples : AddRef(t, u, s)

Spec == Init /\ [][Next]_vars

\* A thread in GetBuffer is scheduled, and leaves WaitForSingleObject when it can.
GoesOn(t) == Wake(t) \/ (pc[t] = "woken" /\ (Rejected(t) \/ TakeSample(t) \/ StartWaiting(t)))

FairSpec == Spec /\ \A t \in Threads : WF_vars(GoesOn(t))

-----------------------------------------------------------------------------
(* Properties.                                                             *)

Out == {s \in Samples : owners[s] # {}}
OnList == {free[i] : i \in 1 .. Len(free)}

\* Every sample is either on the free list, once, or somebody's, whatever order
\* allocations that fail half way, cancelled decommits and releases come in
\* (amfilter.cpp:4791-4842, 5123-5225).
SamplesAccountedFor ==
  /\ \A i, j \in 1 .. Len(free) : free[i] = free[j] => i = j
  /\ OnList \cap Out = {}
  /\ OnList \cup Out = 1 .. allocated

\* No wake-up is lost: when a thread waits although there is a sample or the
\* allocator is decommitted, the semaphore has a count for every thread that waits,
\* so that none stays; calls that do not wait only leave counts too many
\* (amfilter.h:1412-1425, amfilter.cpp:4872).
NoLostWakeUp ==
  (free # <<>> \/ ~committed) =>
    semaphore >= Cardinality({t \in Threads : pc[t] = "waiting"})

\* A decommit is pending exactly as long as the allocator is not committed and a
\* buffer is out, so that it completes with the last one and SetProperties and Alloc
\* never change samples that are in use (amfilter.cpp:4922-4966, 4995).
DecommitPendsOnBuffers == ~committed => (decommitting <=> Out # {})

\* The allocator is deleted only after every sample has come back and nobody is in
\* a call that goes on to use it, except for a ReleaseBuffer that has left the lock:
\* that one holds no reference, although the comment says that there is one for each
\* buffer, and reads m_pNotify of an allocator whose last sample another thread has
\* released meanwhile (amfilter.cpp:4826-4840).
SafeDeletion ==
  refs = 0 => /\ Out = {} /\ InGetBuffer = {}
              /\ \A t \in Threads : pc[t] # "completed"
              /\ ~committed /\ ~decommitting

\* Whoever waits for a buffer when the allocator is decommitted has his call
\* rejected, if the allocator is not committed again (amfilter.cpp:4950-4952).
WaitersAreRejected ==
  \A t \in Threads : (pc[t] = "waiting" /\ ~committed) ~> (pc[t] = "idle" \/ committed)

=============================================================================
