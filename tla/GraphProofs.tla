----------------------------- MODULE GraphProofs -----------------------------
(***************************************************************************)
(* The graph for every number of pins, filters and types: its connections  *)
(* are those of PinConnection, and which AssFilters are in it.             *)
(***************************************************************************)
EXTENDS Graph, TLAPS

-----------------------------------------------------------------------------
(* The connections of the pins, whatever the graph does.                   *)

\* The two pins of a call, while there is one.
CallInv ==
  /\ stage \in {"idle", "type", "receive", "theirs", "ours", "failed"}
  /\ stage # "idle" => /\ Out \in Outputs
                       /\ In \in Inputs
                       /\ attempt.at \in Nat \ {0}
                       /\ attempt = [out |-> Out, in |-> In, at |-> attempt.at]

TypeInv ==
  /\ offers \in [Outputs -> Seq(Types)]
  /\ peer \in [Pins -> Pins \cup {NoPin}]
  /\ \A o \in Outputs : peer[o] \in Inputs \cup {NoPin}
  /\ \A p \in Inputs : peer[p] \in Outputs \cup {NoPin}
  /\ type \in [Pins -> Types \cup {NoType}]
  /\ allocator \in [Pins -> Pins \cup {NoPin}]
  /\ memInput \in [Outputs -> Inputs \cup {NoPin}]

\* Only the output pin of a call looks connected before its peer is.
PeersInv ==
  /\ \A o \in Outputs, p \in Inputs :
       (stage = "receive" => o # Out) => (peer[o] = p <=> peer[p] = o)
  /\ \A o \in Outputs : memInput[o] = peer[o]
  /\ stage \in {"type", "failed"} => peer[Out] = NoPin
  /\ stage = "receive" => /\ peer[Out] = In
                          /\ \A p \in Inputs : peer[p] # Out
  /\ stage \in {"theirs", "ours"} => peer[Out] = In /\ peer[In] = Out

Offered(o) == \E i \in 1 .. Len(offers[o]) : offers[o][i] = type[o]

TypesInv ==
  /\ \A o \in Outputs, p \in Inputs : Connected(o, p) => type[o] = type[p] /\ Offered(o)
  /\ stage = "receive" => /\ attempt.at \in 1 .. Len(offers[Out])
                          /\ type[Out] = Proposed

\* Only the output pin of a call is connected without an allocator.
AllocatorsInv ==
  /\ \A o \in Outputs, p \in Inputs :
       Connected(o, p) /\ (stage \in {"theirs", "ours"} => o # Out) =>
         allocator[o] = allocator[p] /\ allocator[o] # NoPin
  /\ \A p \in Pins : peer[p] = NoPin => allocator[p] = NoPin
  /\ stage \in {"receive", "theirs", "ours"} => allocator[Out] = NoPin
  /\ stage = "theirs" => allocator[In] = NoPin

PinInv == CallInv /\ TypeInv /\ PeersInv /\ TypesInv /\ AllocatorsInv

-----------------------------------------------------------------------------

LEMMA PinInvInit == PinInit /\ offers \in [Outputs -> Seq(Types)] => PinInv
  BY PinsAssumption
  DEF PinInit, PinInv, CallInv, TypeInv, PeersInv, TypesInv, AllocatorsInv, Pins, Connected

LEMMA ConnectKeepsPinInv ==
  ASSUME PinInv, NEW o \in Outputs, NEW p \in Inputs, Connect(o, p)
  PROVE  PinInv'
<1> USE PinsAssumption DEF PinInv, CallInv, TypeInv, Pins, Connect, connection, Out, In, Proposed
<1>1. CallInv' /\ TypeInv'
  OBVIOUS
<1>2. PeersInv'
  BY DEF PeersInv
<1>3. TypesInv'
  BY DEF TypesInv, Connected, Offered
<1>4. AllocatorsInv'
  BY DEF AllocatorsInv, Connected
<1> QED
  BY <1>1, <1>2, <1>3, <1>4

LEMMA AttemptKeepsPinInv ==
  ASSUME PinInv, AttemptConnection
  PROVE  PinInv'
<1> USE PinsAssumption DEF PinInv, CallInv, TypeInv, Pins, AttemptConnection, Out, In, Proposed
<1>1. offers[Out][attempt.at] \in Types
  OBVIOUS
<1>2. CallInv' /\ TypeInv'
  BY <1>1
<1>3. PeersInv'
  BY DEF PeersInv
<1>4. TypesInv'
  BY <1>1 DEF TypesInv, Connected, Offered, PeersInv
<1>5. AllocatorsInv'
  BY DEF AllocatorsInv, Connected, PeersInv
<1> QED
  BY <1>2, <1>3, <1>4, <1>5

LEMMA NoMoreTypesKeepsPinInv ==
  ASSUME PinInv, NoMoreTypes
  PROVE  PinInv'
<1> USE DEF PinInv, CallInv, TypeInv, NoMoreTypes, connection, Out, In, Proposed
<1>1. CallInv' /\ TypeInv'
  OBVIOUS
<1>2. PeersInv' /\ TypesInv' /\ AllocatorsInv'
  BY DEF PeersInv, TypesInv, AllocatorsInv, Connected, Offered
<1> QED
  BY <1>1, <1>2

LEMMA RefuseKeepsPinInv ==
  ASSUME PinInv, NEW accepted \in BOOLEAN, Refuse(accepted)
  PROVE  PinInv'
<1> USE PinsAssumption
    DEF PinInv, CallInv, TypeInv, Pins, Refuse, BreakConnect, TryType, Out, In, Proposed
<1>1. CallInv' /\ TypeInv'
  OBVIOUS
<1>2. PeersInv'
  BY DEF PeersInv
<1>3. TypesInv'
  BY DEF TypesInv, Connected, Offered
<1>4. AllocatorsInv'
  BY DEF AllocatorsInv, Connected
<1> QED
  BY <1>1, <1>2, <1>3, <1>4

LEMMA ReceiveKeepsPinInv ==
  ASSUME PinInv, NEW accepted \in BOOLEAN, ReceiveConnection(accepted)
  PROVE  PinInv'
<1> USE PinsAssumption DEF PinInv, CallInv, TypeInv, Pins, ReceiveConnection, Out, In, Proposed
<1>1. offers[Out][attempt.at] \in Types /\ attempt.at \in 1 .. Len(offers[Out])
  BY DEF TypesInv
<1>2. CallInv' /\ TypeInv'
  BY <1>1
<1>3. PeersInv'
  BY DEF PeersInv
<1>4. TypesInv'
  <2>1. \A o \in Outputs, p \in Inputs : Connected(o, p)' =>
          \/ o = Out /\ p = In
          \/ Connected(o, p) /\ o # Out /\ p # In
    BY DEF Connected, PeersInv
  <2>2. type[Out]' = type[In]' /\ Offered(Out)'
    BY <1>1 DEF TypesInv, Offered
  <2> QED
    BY <2>1, <2>2 DEF TypesInv, Offered
<1>5. AllocatorsInv'
  BY DEF AllocatorsInv, Connected, PeersInv
<1> QED
  BY <1>2, <1>3, <1>4, <1>5

LEMMA UseAllocatorKeepsPinInv ==
  ASSUME PinInv, stage \in {"theirs", "ours"}, NEW a \in Pins, UseAllocator(a)
  PROVE  PinInv'
<1> USE PinsAssumption DEF PinInv, CallInv, TypeInv, Pins, UseAllocator, Out, In, Proposed
<1>1. CallInv' /\ TypeInv'
  OBVIOUS
<1>2. PeersInv'
  BY DEF PeersInv
<1>3. TypesInv'
  BY DEF TypesInv, Connected, Offered
<1>4. AllocatorsInv'
  <2>1. \A o \in Outputs, p \in Inputs : Connected(o, p)' =>
          \/ o = Out /\ p = In
          \/ Connected(o, p) /\ o # Out /\ p # In
    BY DEF Connected, PeersInv
  <2> QED
    BY <2>1 DEF AllocatorsInv, PeersInv
<1> QED
  BY <1>1, <1>2, <1>3, <1>4

LEMMA RefuseTheirsKeepsPinInv ==
  ASSUME PinInv, RefuseTheirAllocator
  PROVE  PinInv'
<1> USE PinsAssumption DEF PinInv, CallInv, TypeInv, Pins, RefuseTheirAllocator, Out, In, Proposed
<1>1. CallInv' /\ TypeInv'
  OBVIOUS
<1>2. PeersInv'
  BY DEF PeersInv
<1>3. TypesInv'
  BY DEF TypesInv, Connected, Offered
<1>4. AllocatorsInv'
  BY DEF AllocatorsInv, Connected, PeersInv
<1> QED
  BY <1>1, <1>2, <1>3, <1>4

LEMMA FailToCompleteKeepsPinInv ==
  ASSUME PinInv, FailToComplete
  PROVE  PinInv'
<1> USE PinsAssumption
    DEF PinInv, CallInv, TypeInv, Pins, FailToComplete, BreakConnect, TryType, Out, In, Proposed
<1>1. CallInv' /\ TypeInv'
  BY SMTT(30)
<1>2. PeersInv'
  BY DEF PeersInv
<1>3. TypesInv'
  BY DEF TypesInv, Connected, Offered
<1>4. AllocatorsInv'
  BY DEF AllocatorsInv, Connected, PeersInv
<1> QED
  BY <1>1, <1>2, <1>3, <1>4

LEMMA ReturnKeepsPinInv ==
  ASSUME PinInv, Return
  PROVE  PinInv'
<1> USE DEF PinInv, CallInv, TypeInv, Return, connection, Out, In, Proposed
<1>1. CallInv' /\ TypeInv'
  OBVIOUS
<1>2. PeersInv' /\ TypesInv' /\ AllocatorsInv'
  BY DEF PeersInv, TypesInv, AllocatorsInv, Connected, Offered
<1> QED
  BY <1>1, <1>2

LEMMA DisconnectKeepsPinInv ==
  ASSUME PinInv, NEW p \in Inputs, Disconnect(p)
  PROVE  PinInv'
<1> USE PinsAssumption
    DEF PinInv, CallInv, TypeInv, Pins, Disconnect, call, Out, In, Proposed
<1>1. CallInv' /\ TypeInv'
  OBVIOUS
<1>2. PeersInv'
  BY DEF PeersInv
<1>3. TypesInv'
  BY DEF TypesInv, Connected, Offered
<1>4. AllocatorsInv'
  BY DEF AllocatorsInv, Connected, PeersInv
<1> QED
  BY <1>1, <1>2, <1>3, <1>4

LEMMA PinInvStep == PinInv /\ [PinNext]_pinVars => PinInv'
<1> SUFFICES ASSUME PinInv, [PinNext]_pinVars
             PROVE  PinInv'
  OBVIOUS
<1>1. ASSUME NEW o \in Outputs, NEW p \in Inputs, Connect(o, p)
      PROVE  PinInv'
  BY <1>1, ConnectKeepsPinInv
<1>2. CASE AttemptConnection
  BY <1>2, AttemptKeepsPinInv
<1>3. CASE NoMoreTypes
  BY <1>3, NoMoreTypesKeepsPinInv
<1>4. ASSUME NEW accepted \in BOOLEAN, Refuse(accepted) \/ ReceiveConnection(accepted)
      PROVE  PinInv'
  BY <1>4, RefuseKeepsPinInv, ReceiveKeepsPinInv
<1>5. CASE UseTheirAllocator
  <2>1. (IF allocator[In] = NoPin THEN In ELSE allocator[In]) \in Pins
    BY <1>5 DEF UseTheirAllocator, PinInv, CallInv, TypeInv, Pins
  <2> QED
    BY <1>5, <2>1, UseAllocatorKeepsPinInv DEF UseTheirAllocator
<1>6. CASE RefuseTheirAllocator
  BY <1>6, RefuseTheirsKeepsPinInv
<1>7. CASE UseOurAllocator
  <2>1. Out \in Pins
    BY <1>7 DEF UseOurAllocator, PinInv, CallInv, Pins
  <2> QED
    BY <1>7, <2>1, UseAllocatorKeepsPinInv DEF UseOurAllocator
<1>8. CASE FailToComplete
  BY <1>8, FailToCompleteKeepsPinInv
<1>9. CASE Return
  BY <1>9, ReturnKeepsPinInv
<1>10. ASSUME NEW p \in Inputs, Disconnect(p)
       PROVE  PinInv'
  BY <1>10, DisconnectKeepsPinInv
<1>11. CASE UNCHANGED pinVars
  BY <1>11 DEF PinInv, CallInv, TypeInv, PeersInv, TypesInv, AllocatorsInv, Connected, Offered,
               Out, In, Proposed, pinVars, connection, call
<1> QED
  BY <1>1, <1>2, <1>3, <1>4, <1>5, <1>6, <1>7, <1>8, <1>9, <1>10, <1>11 DEF PinNext

\* While no call is under way there is no exception left.
LEMMA PinInvAgrees == PinInv => ConnectionAgrees
  BY DEF PinInv, PeersInv, TypesInv, AllocatorsInv, Offered, ConnectionAgrees

\* Two pins agree on their connection, its type and its allocator, and pins that
\* are not connected hold nothing, whatever was refused before.
THEOREM PinsAgree == PinSpec => []ConnectionAgrees
<1>1. PinSpec => []PinInv
  BY PinInvInit, PinInvStep, PTL DEF PinSpec
<1> QED
  BY <1>1, PinInvAgrees, PTL

-----------------------------------------------------------------------------
(* The graph.                                                              *)

PinsUnchanged == UNCHANGED pinVars

\* Every step of the graph is a step of one call of Connect, a disconnection, or
\* leaves the pins alone.
LEMMA PinStep == PinInv /\ [Next]_vars => [PinNext]_pinVars
<1> SUFFICES ASSUME PinInv, [Next]_vars
             PROVE  PinNext \/ PinsUnchanged
  BY DEF PinsUnchanged
<1>1. ASSUME NEW o \in Outputs, NEW p \in Inputs, TryFreePin(o, p)
      PROVE  PinNext
  BY <1>1 DEF TryFreePin, Try, PinNext
<1>2. ASSUME NEW o \in Outputs, TryLoader(o)
      PROVE  PinNext
  BY <1>2, LoaderAssumption DEF TryLoader, Try, PinNext
<1>3. ASSUME NEW o \in Outputs, TryAssFilter(o)
      PROVE  PinNext
  <2>1. NewFilter \in Inputs
    BY <1>3 DEF TryAssFilter, Spare, NewFilter, Filters
  <2> QED
    BY <1>3, <2>1 DEF TryAssFilter, Try, PinNext
<1>4. ASSUME NEW o \in Outputs, LoaderRefused(o) \/ RenderOther(o)
      PROVE  PinsUnchanged
  BY <1>4 DEF LoaderRefused, RenderOther, PinsUnchanged
<1>5. CASE Receive
  <2>1. Accepts \in BOOLEAN
    BY DEF Accepts
  <2> QED
    BY <1>5, <2>1 DEF Receive, PinNext
<1>6. CASE Negotiate
  BY <1>6 DEF Negotiate, PinNext
<1>7. CASE Succeed
  BY <1>7 DEF Succeed, PinNext
<1>8. CASE GiveUp
  BY <1>8 DEF GiveUp, PinNext
<1>9. ASSUME NEW f \in Filters, RemoveFilter(f)
      PROVE  PinNext
  BY <1>9 DEF RemoveFilter, Filters, PinNext
<1>10. CASE Run \/ \E f \in Filters : Pause(f)
  BY <1>10 DEF Run, Pause, PinsUnchanged
<1>11. CASE UNCHANGED vars
  BY <1>11 DEF vars, PinsUnchanged
<1> QED
  BY <1>1, <1>2, <1>3, <1>4, <1>5, <1>6, <1>7, <1>8, <1>9, <1>10, <1>11 DEF Next

\* The calls in a graph are connections as PinConnection has them.
THEOREM GraphConnects == Spec => PinSpec
<1>1. Init => PinInit /\ offers \in [Outputs -> Seq(Types)]
  BY MediaAssumption DEF Init
<1>2. PinInit /\ offers \in [Outputs -> Seq(Types)] => PinInv
  BY PinInvInit
<1> QED
  BY <1>1, <1>2, PinInvStep, PinStep, PTL DEF Spec, PinSpec

\* The pins of a graph agree, whatever the loader and the application do.
THEOREM GraphPinsAgree == Spec => []ConnectionAgrees
  BY GraphConnects, PinsAgree, PTL

-----------------------------------------------------------------------------
(* Which AssFilters are in the graph.                                      *)

FiltersType ==
  /\ inGraph \subseteq Inputs
  /\ external \in [Filters -> BOOLEAN]
  /\ paused \in [Filters -> BOOLEAN]
  /\ sink \in [Filters -> BOOLEAN]
  /\ provider \in Filters \cup {NoPin}
  /\ loaded \in BOOLEAN
  /\ history = [key |-> history.key, inGraph |-> history.inGraph,
                consumer |-> history.consumer, removed |-> history.removed]
  /\ history.consumer \in BOOLEAN
  /\ history.removed \in BOOLEAN

\* A filter that is being tried was added, and not paused; the auto loader is
\* in the graph while it is tried.
AddedInv ==
  /\ added \in Inputs \cup {NoPin}
  /\ stage = "idle" => added = NoPin
  /\ stage # "idle" => /\ In \in inGraph
                       /\ ~running
                       /\ added \in Filters => added \in inGraph /\ ~paused[added]

\* What is not in the graph is as a new one is.
FreshInv == \A f \in Filters : paused[f] \/ external[f] => f \in inGraph

\* An auto loader that may still act is in a graph without an auto-loaded filter.
LoadedInv == Loader \in inGraph /\ ~loaded => AutoLoaded = {}

ConsumerInv == history.consumer => consumer

GraphInv ==
  /\ FiltersType
  /\ AddedInv
  /\ FreshInv
  /\ LoadedInv
  /\ ConsumerInv
  /\ OneAutoLoaded
  /\ OneProvider

Fixed == <<offers, fileSource, fileFound>>

LEMMA FixedStep == [Next]_vars => Fixed' = Fixed
  BY DEF Next, vars, Fixed, pinVars, Try, Connect, TryFreePin, TryLoader, LoaderRefused,
         TryAssFilter, RenderOther, Receive, Refuse, ReceiveConnection, Negotiate,
         AttemptConnection, NoMoreTypes, RefuseTheirAllocator, FailToComplete, Succeed,
         UseTheirAllocator, UseOurAllocator, UseAllocator, GiveUp, Return, Run, Pause,
         RemoveFilter, Disconnect

LEMMA NewFilterIsNew == Spare => NewFilter \in Filters \ inGraph
  BY DEF Spare, NewFilter

LEMMA FilterPins == Filters \subseteq Inputs /\ Loader \notin Filters /\ NoPin \notin Inputs
  BY PinsAssumption DEF Filters

LEMMA GraphInvInit == Init => GraphInv
<1> SUFFICES ASSUME Init
             PROVE  GraphInv
  OBVIOUS
<1> USE LoaderAssumption, FilterPins DEF Init
<1>1. FiltersType /\ AddedInv /\ FreshInv
  BY DEF PinInit, FiltersType, AddedInv, FreshInv
<1>2. ConsumerInv
  BY DEF ConsumerInv
<1>3. AutoLoaded = {}
  BY DEF AutoLoaded, AssFilters
<1>4. LoadedInv /\ OneAutoLoaded
  BY <1>3 DEF LoadedInv, OneAutoLoaded
<1>5. OneProvider
  BY DEF OneProvider, AssFilters
<1> QED
  BY <1>1, <1>2, <1>4, <1>5 DEF GraphInv

LEMMA TryFreePinKeeps ==
  ASSUME GraphInv, NEW o \in Outputs, NEW p \in Inputs, TryFreePin(o, p)
  PROVE  GraphInv'
  BY FilterPins
  DEF TryFreePin, Try, Connect, Rendering, FreePins, GraphInv, FiltersType, AddedInv, FreshInv,
      LoadedInv, ConsumerInv, AutoLoaded, AssFilters, OneAutoLoaded,
      OneProvider, Offers, In

LEMMA TryLoaderKeeps ==
  ASSUME GraphInv, NEW o \in Outputs, TryLoader(o)
  PROVE  GraphInv'
<1> USE FilterPins, LoaderAssumption
    DEF TryLoader, Try, Connect, Rendering, MayJoin, AutoLoaded, AssFilters
<1>1. FiltersType' /\ AddedInv' /\ FreshInv' /\ ConsumerInv'
  BY DEF GraphInv, FiltersType, AddedInv, FreshInv, ConsumerInv, In
<1>2. AssFilters' = {}
  OBVIOUS
<1>3. LoadedInv' /\ OneAutoLoaded'
  BY <1>2 DEF LoadedInv, OneAutoLoaded
<1>4. OneProvider'
  BY DEF GraphInv, OneProvider
<1> QED
  BY <1>1, <1>3, <1>4 DEF GraphInv

LEMMA TryAssFilterKeeps ==
  ASSUME GraphInv, NEW o \in Outputs, TryAssFilter(o)
  PROVE  GraphInv'
<1> USE FilterPins, NewFilterIsNew DEF TryAssFilter, Try, Connect, Rendering, Join, AssFilters
<1>1. FiltersType' /\ FreshInv' /\ ConsumerInv'
  BY DEF GraphInv, FiltersType, FreshInv, ConsumerInv
<1>2. AddedInv'
  BY DEF GraphInv, FiltersType, FreshInv, AddedInv, In
<1>3. AutoLoaded' \subseteq AutoLoaded
  BY DEF GraphInv, FiltersType, AutoLoaded
<1>4. LoadedInv' /\ OneAutoLoaded'
  BY <1>3 DEF GraphInv, LoadedInv, OneAutoLoaded
<1>5. OneProvider'
  BY DEF GraphInv, FiltersType, FreshInv, OneProvider
<1> QED
  BY <1>1, <1>2, <1>4, <1>5 DEF GraphInv

\* The auto loader adds an AssFilter only while it may still act.
LEMMA CheckInputKeeps ==
  ASSUME GraphInv, Loader \in inGraph, NEW t, CheckInput(t), Fixed' = Fixed,
         UNCHANGED <<paused, sink, provider, builder, consumer, running, history, In>>,
         stage = "receive", stage' # "idle"
  PROVE  GraphInv'
<1> USE FilterPins DEF AssFilters
<1>1. CASE inGraph' = inGraph /\ external' = external /\ key' = key
  BY <1>1
  DEF CheckInput, GraphInv, FiltersType, AddedInv, FreshInv, LoadedInv, ConsumerInv,
      AutoLoaded, OneAutoLoaded, OneProvider, Offers, Fixed, builder
<1>2. CASE /\ ~loaded
           /\ AutoLoad
           /\ \E disabled \in DisableAutoLoad : ~disabled
           /\ Spare
           /\ inGraph' = inGraph \cup {NewFilter}
           /\ Join(NewFilter, TRUE)
  <2> USE <1>2, NewFilterIsNew DEF Join
  <2>1. FiltersType' /\ AddedInv' /\ FreshInv' /\ ConsumerInv'
    BY DEF CheckInput, GraphInv, FiltersType, AddedInv, FreshInv, ConsumerInv, builder
  <2>2. loaded' = TRUE
    BY DEF CheckInput
  <2>3. AutoLoaded' \subseteq {NewFilter}
    BY DEF GraphInv, FiltersType, LoadedInv, AutoLoaded
  <2>4. LoadedInv' /\ OneAutoLoaded'
    BY <2>2, <2>3 DEF LoadedInv, OneAutoLoaded
  <2>5. OneProvider'
    BY DEF GraphInv, FiltersType, FreshInv, OneProvider, Fixed
  <2> QED
    BY <2>1, <2>4, <2>5 DEF GraphInv
<1> QED
  BY <1>1, <1>2 DEF CheckInput

LEMMA ReceiveKeeps ==
  ASSUME GraphInv, CallInv, Receive
  PROVE  GraphInv'
<1>1. stage = "receive" /\ stage' # "idle" /\ In' = In
  BY DEF Receive, Refuse, BreakConnect, TryType, ReceiveConnection, In, CallInv
<1>2. Fixed' = Fixed
  BY FixedStep DEF Next
<1>3. CASE In = Loader /\ peer[Loader] = NoPin
  <2>1. Loader \in inGraph
    BY <1>1, <1>3 DEF GraphInv, AddedInv
  <2> QED
    BY <1>1, <1>2, <1>3, <2>1, CheckInputKeeps DEF Receive
<1>4. CASE UNCHANGED <<inGraph, loaded, external, key>>
  BY <1>1, <1>2, <1>4
  DEF Receive, GraphInv, FiltersType, AddedInv, FreshInv, LoadedInv, ConsumerInv,
      AutoLoaded, AssFilters, OneAutoLoaded, OneProvider, Offers, Fixed, builder
<1> QED
  BY <1>3, <1>4 DEF Receive

\* A step that leaves the filters alone need only keep what is being tried.
LEMMA QuietKeeps ==
  ASSUME GraphInv, UNCHANGED <<filters, history>>, Fixed' = Fixed, consumer => consumer', AddedInv'
  PROVE  GraphInv'
  BY DEF filters, GraphInv, FiltersType, FreshInv, LoadedInv, ConsumerInv, AutoLoaded,
         AssFilters, OneAutoLoaded, OneProvider, Offers, Fixed

LEMMA NegotiateKeeps ==
  ASSUME GraphInv, CallInv, Negotiate
  PROVE  GraphInv'
<1>1. stage # "idle" /\ stage' # "idle" /\ In' = In
  <2>1. CASE AttemptConnection \/ NoMoreTypes \/ RefuseTheirAllocator
    BY <2>1 DEF AttemptConnection, NoMoreTypes, RefuseTheirAllocator, In
  <2>2. CASE FailToComplete
    BY <2>2 DEF FailToComplete, BreakConnect, TryType, In, CallInv
  <2> QED
    BY <2>1, <2>2 DEF Negotiate
<1>2. AddedInv'
  BY <1>1 DEF Negotiate, filters, builder, GraphInv, AddedInv
<1> QED
  BY <1>2, FixedStep, QuietKeeps DEF Negotiate, Next

LEMMA SucceedKeeps ==
  ASSUME GraphInv, Succeed
  PROVE  GraphInv'
<1>1. AddedInv'
  BY DEF Succeed, UseTheirAllocator, UseOurAllocator, UseAllocator, AddedInv
<1> QED
  BY <1>1, FixedStep, QuietKeeps DEF Succeed, Next

LEMMA BuilderKeeps ==
  ASSUME GraphInv, NEW o \in Outputs, LoaderRefused(o) \/ RenderOther(o)
  PROVE  GraphInv'
<1>1. AddedInv'
  BY DEF LoaderRefused, RenderOther, Rendering, pinVars, call, filters, GraphInv, AddedInv, In
<1>2. consumer => consumer'
  BY DEF LoaderRefused, RenderOther
<1> QED
  BY <1>1, <1>2, FixedStep, QuietKeeps DEF LoaderRefused, RenderOther, Next

LEMMA RunKeeps ==
  ASSUME GraphInv, Run
  PROVE  GraphInv'
<1>1. AddedInv'
  BY DEF Run, pinVars, call, filters, builder, GraphInv, AddedInv
<1> QED
  BY <1>1, FixedStep, QuietKeeps DEF Run, Next

LEMMA GiveUpKeeps ==
  ASSUME GraphInv, GiveUp
  PROVE  GraphInv'
<1> USE FilterPins DEF AssFilters
<1>1. Fixed' = Fixed
  BY FixedStep DEF Next
<1>2. CASE added \notin Filters
  <2>1. UNCHANGED <<external, paused, sink, provider>>
    BY <1>2 DEF GiveUp, GraphInv, AddedInv, Filters
  <2>2. \/ added = Loader /\ inGraph' = inGraph \ {Loader}
        \/ inGraph' = inGraph /\ loaded' = loaded
    BY <1>2 DEF GiveUp, GraphInv, AddedInv, Filters, FiltersType
  <2>3. FiltersType' /\ AddedInv' /\ FreshInv' /\ ConsumerInv'
    BY <2>1, <2>2
    DEF GiveUp, Return, GraphInv, FiltersType, AddedInv, FreshInv, ConsumerInv
  <2>4. inGraph' \cap Filters = inGraph \cap Filters
    BY <2>2
  <2>5. LoadedInv' /\ OneAutoLoaded'
    BY <1>1, <2>1, <2>2, <2>4
    DEF GiveUp, GraphInv, LoadedInv, AutoLoaded, OneAutoLoaded, Offers, Fixed
  <2>6. OneProvider'
    BY <1>1, <2>1, <2>4 DEF GiveUp, GraphInv, OneProvider, Fixed
  <2> QED
    BY <2>3, <2>5, <2>6 DEF GraphInv
<1>3. CASE added \in Filters
  <2>1. Leave(added) /\ loaded' = loaded
    BY <1>3 DEF GiveUp, GraphInv, FiltersType, AddedInv
  <2>2. ~sink[added]
    BY <1>3 DEF GiveUp, Return, GraphInv, AddedInv, OneProvider
  <2>3. FiltersType' /\ AddedInv' /\ FreshInv' /\ ConsumerInv'
    BY <1>3, <2>1, <2>2
    DEF GiveUp, Return, Leave, GraphInv, FiltersType, AddedInv, FreshInv, ConsumerInv
  <2>4. AutoLoaded' \subseteq AutoLoaded
    BY <1>3, <2>1 DEF Leave, GraphInv, FiltersType, AutoLoaded
  <2>5. LoadedInv' /\ OneAutoLoaded'
    BY <1>1, <1>3, <2>1, <2>4
    DEF GiveUp, Leave, GraphInv, LoadedInv, OneAutoLoaded, Offers, Fixed
  <2>6. OneProvider'
    BY <1>1, <1>3, <2>1, <2>2 DEF GiveUp, Leave, GraphInv, FiltersType, OneProvider, Fixed
  <2> QED
    BY <2>3, <2>5, <2>6 DEF GraphInv
<1> QED
  BY <1>2, <1>3

LEMMA RemoveFilterKeeps ==
  ASSUME GraphInv, NEW f \in Filters, RemoveFilter(f)
  PROVE  GraphInv'
<1> USE FilterPins DEF AssFilters
<1>1. Fixed' = Fixed
  BY FixedStep DEF Next
<1>2. FiltersType' /\ AddedInv' /\ FreshInv' /\ ConsumerInv'
  BY DEF RemoveFilter, Disconnect, call, builder, Leave, GraphInv, FiltersType, AddedInv,
         FreshInv, ConsumerInv
<1>3. AutoLoaded' \subseteq AutoLoaded
  BY DEF RemoveFilter, Leave, GraphInv, FiltersType, AutoLoaded
<1>4. LoadedInv' /\ OneAutoLoaded'
  BY <1>1, <1>3
  DEF RemoveFilter, Leave, GraphInv, FiltersType, LoadedInv, OneAutoLoaded,
      Offers, Fixed
<1>5. OneProvider'
  BY DEF RemoveFilter, Leave, GraphInv, FiltersType, OneProvider
<1> QED
  BY <1>2, <1>4, <1>5 DEF GraphInv

LEMMA PauseKeeps ==
  ASSUME GraphInv, NEW f \in Filters, Pause(f)
  PROVE  GraphInv'
<1> USE FilterPins DEF AssFilters
<1>1. Fixed' = Fixed
  BY FixedStep DEF Next
<1>2. FiltersType' /\ AddedInv' /\ FreshInv' /\ ConsumerInv'
  BY DEF Pause, ConnectToConsumer, pinVars, call, builder, In, GraphInv, FiltersType, AddedInv,
         FreshInv, ConsumerInv
<1>3. LoadedInv' /\ OneAutoLoaded'
  BY <1>1
  DEF Pause, GraphInv, LoadedInv, AutoLoaded, OneAutoLoaded, Offers, Fixed
<1>4. OneProvider'
  BY <1>1 DEF Pause, ConnectToConsumer, GraphInv, FiltersType, ConsumerInv, OneProvider, Fixed
<1> QED
  BY <1>2, <1>3, <1>4 DEF GraphInv

LEMMA GraphInvStep == PinInv /\ GraphInv /\ [Next]_vars => GraphInv'
<1> SUFFICES ASSUME CallInv, GraphInv, [Next]_vars
             PROVE  GraphInv'
  BY DEF PinInv
<1>1. ASSUME NEW o \in Outputs, NEW p \in Inputs, TryFreePin(o, p)
      PROVE  GraphInv'
  BY <1>1, TryFreePinKeeps
<1>2. ASSUME NEW o \in Outputs, TryLoader(o)
      PROVE  GraphInv'
  BY <1>2, TryLoaderKeeps
<1>3. ASSUME NEW o \in Outputs, TryAssFilter(o)
      PROVE  GraphInv'
  BY <1>3, TryAssFilterKeeps
<1>4. ASSUME NEW o \in Outputs, LoaderRefused(o) \/ RenderOther(o)
      PROVE  GraphInv'
  BY <1>4, BuilderKeeps
<1>5. CASE Receive
  BY <1>5, ReceiveKeeps
<1>6. CASE Negotiate
  BY <1>6, NegotiateKeeps
<1>7. CASE Succeed
  BY <1>7, SucceedKeeps
<1>8. CASE GiveUp
  BY <1>8, GiveUpKeeps
<1>9. CASE Run
  BY <1>9, RunKeeps
<1>10. ASSUME NEW f \in Filters, Pause(f) \/ RemoveFilter(f)
       PROVE  GraphInv'
  BY <1>10, PauseKeeps, RemoveFilterKeeps
<1>11. CASE UNCHANGED vars
  <2>1. AddedInv'
    BY <1>11 DEF vars, pinVars, call, filters, builder, GraphInv, AddedInv, In
  <2> QED
    BY <1>11, <2>1, FixedStep, QuietKeeps DEF vars
<1> QED
  BY <1>1, <1>2, <1>3, <1>4, <1>5, <1>6, <1>7, <1>8, <1>9, <1>10, <1>11 DEF Next

LEMMA GraphInvariant == Spec => []GraphInv
<1>1. PinSpec => []PinInv
  BY PinInvInit, PinInvStep, PTL DEF PinSpec
<1> QED
  BY <1>1, GraphConnects, GraphInvInit, GraphInvStep, PTL DEF Spec

\* There is never a second auto-loaded AssFilter, in a graph of any size.
THEOREM GraphHasOneAutoLoaded == Spec => []OneAutoLoaded
<1>1. GraphInv => OneAutoLoaded
  BY DEF GraphInv
<1> QED
  BY <1>1, GraphInvariant, PTL

\* The consumer and the AssFilters agree on who is shown, however many there are.
THEOREM GraphHasOneProvider == Spec => []OneProvider
<1>1. GraphInv => OneProvider
  BY DEF GraphInv
<1> QED
  BY <1>1, GraphInvariant, PTL

-----------------------------------------------------------------------------
(* An auto-loaded AssFilter is there when it is due.                       *)

\* The auto loader acts on the first type of the pin, the only one it is sure to be
\* asked for.
Acts(o) == Len(offers[o]) > 0 /\ offers[o][1] \in Streams

\* It will have acted when the pin is done: it comes anew for the pin, or acts on
\* whatever pin it is asked for first.
DueFor(o) == Acts(o) /\ (Loader \notin history.inGraph \/ \A q \in Outputs : Acts(q))

\* Nothing keeps the auto loader from loading or the filters from staying.
MayLoad == ~history.removed /\ history.key \in {"absent", "off"} /\ AutoLoad

\* The AssFilters that stay when the call fails.
Staying == AssFilters \ {added}

\* The auto loader is never connected.
LoaderFree ==
  /\ peer[Loader] = NoPin
  /\ stage \in {"theirs", "ours"} => In \in Filters

KeyKept == history.key # "none" => key = history.key

\* A filter is added to be tried at once, and an auto loader that was not in the graph
\* at first is there only while it is tried.
PlacedInv ==
  /\ added # NoPin => In = added
  /\ Loader \in inGraph => Loader \in history.inGraph \/ added = Loader

\* The auto loader has spent its chance once it was asked for a type.
AskedInv ==
  /\ stage # "idle" /\ In = Loader /\ attempt.at > 1 => loaded
  /\ stage = "failed" => attempt.at > Len(offers[Out])

\* When it has, on a type it acts on, there is an AssFilter.
SpentInv ==
  MayLoad /\ Loader \in inGraph /\ loaded
    /\ ((\A o \in Outputs : Acts(o)) \/ (stage # "idle" /\ In = Loader /\ DueFor(Out)))
  => Staying # {}

\* So it is for every pin that the auto loader was tried for, and for every pin that
\* is done.
TriedInv ==
  MayLoad =>
    /\ \A o \in Outputs :
         Loader \in tried[o] /\ DueFor(o) => Staying # {} \/ (stage # "idle" /\ Out = o /\ In = Loader)
    /\ \A o \in rendered \cap Outputs : DueFor(o) => Staying # {}

TriedType == tried \in [Outputs -> SUBSET (Inputs \cup {NoPin})]

DueInv ==
  TriedType /\ LoaderFree /\ KeyKept /\ PlacedInv /\ AskedInv /\ SpentInv /\ TriedInv

LEMMA DueInit == Init => DueInv
<1> SUFFICES ASSUME Init
             PROVE  DueInv
  OBVIOUS
<1>1. /\ PinInit /\ added = NoPin /\ loaded = FALSE /\ rendered = {}
      /\ tried = [o \in Outputs |-> {}]
      /\ history = [key |-> key, inGraph |-> inGraph, consumer |-> consumer, removed |-> FALSE]
  BY DEF Init
<1>2. LoaderFree
  BY <1>1, LoaderAssumption DEF LoaderFree, PinInit, Pins
<1>3. TriedType /\ KeyKept /\ PlacedInv /\ AskedInv
  BY <1>1 DEF TriedType, KeyKept, PlacedInv, AskedInv, PinInit
<1>4. SpentInv /\ TriedInv
  BY <1>1 DEF SpentInv, TriedInv
<1> QED
  BY <1>2, <1>3, <1>4 DEF DueInv

\* The media stay, and so does what keeps the auto loader from loading.
LEMMA MediaKept ==
  ASSUME Fixed' = Fixed, history' = history
  PROVE  /\ MayLoad' => MayLoad
         /\ \A o : Acts(o)' <=> Acts(o)
         /\ \A o : DueFor(o)' <=> DueFor(o)
<1>1. MayLoad' => MayLoad
  BY DEF MayLoad, AutoLoad, Offers, Fixed
<1>2. ASSUME NEW o
      PROVE  Acts(o)' <=> Acts(o)
  BY DEF Acts, Fixed
<1>3. ASSUME NEW o
      PROVE  DueFor(o)' <=> DueFor(o)
  BY <1>2 DEF DueFor
<1> QED
  BY <1>1, <1>2, <1>3

\* A step that does not begin a call and leaves the loader and what was tried alone.
LEMMA StillDue ==
  ASSUME DueInv, Fixed' = Fixed, history' = history, UNCHANGED <<loaded, tried, rendered>>,
         LoaderFree', KeyKept', PlacedInv', AskedInv',
         Loader \in inGraph' => Loader \in inGraph,
         Staying \subseteq Staying',
         stage # "idle" /\ In = Loader => stage' # "idle" /\ In' = Loader /\ Out' = Out,
         stage' # "idle" /\ In' = Loader => stage # "idle" /\ In = Loader
  PROVE  DueInv'
<1>1. /\ MayLoad' => MayLoad
      /\ \A o : Acts(o)' <=> Acts(o)
      /\ \A o : DueFor(o)' <=> DueFor(o)
  BY MediaKept
<1>2. stage' # "idle" /\ In' = Loader => (DueFor(Out)' <=> DueFor(Out))
  BY <1>1 DEF DueFor, Acts, Fixed
<1>3. SpentInv'
  BY <1>1, <1>2 DEF DueInv, SpentInv
<1>4. TriedInv'
  BY <1>1 DEF DueInv, TriedInv
<1>5. TriedType'
  BY DEF DueInv, TriedType
<1> QED
  BY <1>3, <1>4, <1>5 DEF DueInv

LEMMA TryFreePinDue ==
  ASSUME GraphInv, DueInv, NEW o \in Outputs, NEW p \in Inputs, TryFreePin(o, p)
  PROVE  DueInv'
<1>1. /\ stage = "idle" /\ stage' = "type" /\ attempt' = [out |-> o, in |-> p, at |-> 1]
      /\ added' = NoPin /\ p \in inGraph
      /\ tried' = [tried EXCEPT ![o] = @ \cup {p} \cup (IF NoPin \in Filters THEN {NoPin} ELSE {})]
      /\ UNCHANGED <<peer, inGraph, loaded, key, history, rendered>>
  BY DEF TryFreePin, Try, Connect, connection, FreePins
<1>2. Fixed' = Fixed
  BY FixedStep DEF Next
<1>3. added = NoPin /\ Loader \notin Filters /\ Loader # NoPin /\ NoPin \notin Filters
  BY <1>1, FilterPins, LoaderAssumption DEF GraphInv, AddedInv
<1>4. LoaderFree' /\ KeyKept' /\ PlacedInv' /\ AskedInv'
  BY <1>1, <1>3 DEF DueInv, LoaderFree, KeyKept, PlacedInv, AskedInv, In
<1>5. /\ MayLoad' => MayLoad
      /\ \A q : Acts(q)' <=> Acts(q)
      /\ \A q : DueFor(q)' <=> DueFor(q)
  BY <1>1, <1>2, MediaKept
<1>6. Staying' = Staying
  BY <1>1, <1>3 DEF Staying, AssFilters
<1>7. Out' = o /\ In' = p
  BY <1>1 DEF Out, In
<1>8. SpentInv'
  <2> SUFFICES ASSUME MayLoad, Loader \in inGraph, loaded,
                      (\A q \in Outputs : Acts(q)) \/ (p = Loader /\ DueFor(o))
               PROVE  Staying # {}
    BY <1>1, <1>2, <1>5, <1>6, <1>7 DEF SpentInv, DueFor, Acts, Fixed
  <2>1. \A q \in Outputs : Acts(q)
    BY <1>3 DEF DueInv, PlacedInv, DueFor
  <2> QED
    BY <2>1 DEF DueInv, SpentInv
<1>9. TriedInv'
  <2> SUFFICES ASSUME MayLoad
               PROVE  /\ \A q \in Outputs :
                           Loader \in tried'[q] /\ DueFor(q) =>
                             Staying # {} \/ (o = q /\ p = Loader)
                      /\ \A q \in rendered \cap Outputs : DueFor(q) => Staying # {}
    BY <1>1, <1>5, <1>6, <1>7 DEF TriedInv
  <2>1. ASSUME NEW q \in Outputs, Loader \in tried'[q]
        PROVE  Loader \in tried[q] \/ (o = q /\ p = Loader)
    BY <1>1, <1>3, <2>1 DEF DueInv, TriedType
  <2> QED
    BY <1>1, <2>1 DEF DueInv, TriedInv
<1>10. TriedType'
  BY <1>1, <1>3 DEF DueInv, TriedType
<1> QED
  BY <1>4, <1>8, <1>9, <1>10 DEF DueInv

LEMMA TryLoaderDue ==
  ASSUME GraphInv, DueInv, NEW o \in Outputs, TryLoader(o)
  PROVE  DueInv'
<1>1. /\ stage = "idle" /\ stage' = "type" /\ attempt' = [out |-> o, in |-> Loader, at |-> 1]
      /\ added' = Loader /\ inGraph' = inGraph \cup {Loader} /\ loaded' = FALSE
      /\ tried' = [tried EXCEPT ![o] = @ \cup {Loader} \cup (IF Loader \in Filters THEN {NoPin} ELSE {})]
      /\ UNCHANGED <<peer, key, history, rendered>>
  BY DEF TryLoader, Try, Connect, connection
<1>2. Fixed' = Fixed
  BY FixedStep DEF Next
<1>3. added = NoPin /\ Loader \notin Filters /\ Loader # NoPin /\ NoPin \notin Filters
  BY <1>1, FilterPins, LoaderAssumption DEF GraphInv, AddedInv
<1>4. TriedType' /\ LoaderFree' /\ KeyKept' /\ PlacedInv' /\ AskedInv' /\ SpentInv'
  BY <1>1, <1>3, LoaderAssumption
  DEF DueInv, TriedType, LoaderFree, KeyKept, PlacedInv, AskedInv, SpentInv, In
<1>5. /\ MayLoad' => MayLoad
      /\ \A q : DueFor(q)' <=> DueFor(q)
  BY <1>1, <1>2, MediaKept
<1>6. Staying' = Staying
  BY <1>1, <1>3 DEF Staying, AssFilters
<1>7. Out' = o /\ In' = Loader
  BY <1>1 DEF Out, In
<1>8. ASSUME NEW q \in Outputs, Loader \in tried'[q]
      PROVE  Loader \in tried[q] \/ o = q
  BY <1>1, <1>3, <1>8 DEF DueInv, TriedType
<1>9. TriedInv'
  BY <1>1, <1>5, <1>6, <1>7, <1>8 DEF DueInv, TriedInv
<1> QED
  BY <1>4, <1>9 DEF DueInv

LEMMA TryAssFilterDue ==
  ASSUME GraphInv, DueInv, NEW o \in Outputs, TryAssFilter(o)
  PROVE  DueInv'
<1>1. /\ stage = "idle" /\ stage' = "type" /\ attempt' = [out |-> o, in |-> NewFilter, at |-> 1]
      /\ added' = NewFilter /\ inGraph' = inGraph \cup {NewFilter} /\ loaded' = loaded
      /\ tried' = [tried EXCEPT ![o] = @ \cup {NewFilter}
                                         \cup (IF NewFilter \in Filters THEN {NoPin} ELSE {})]
      /\ key' = IF key = "none" THEN "off" ELSE key
      /\ UNCHANGED <<peer, history, rendered>>
      /\ Spare
  BY DEF TryAssFilter, Try, Connect, connection, Join
<1>2. Fixed' = Fixed
  BY FixedStep DEF Next
<1>3. /\ added = NoPin /\ Loader \notin Filters /\ Loader # NoPin /\ Filters \subseteq Inputs
      /\ NewFilter \in Filters \ inGraph /\ NewFilter # Loader
  BY <1>1, FilterPins, NewFilterIsNew, LoaderAssumption DEF GraphInv, AddedInv
<1>4. TriedType' /\ LoaderFree' /\ KeyKept' /\ PlacedInv' /\ AskedInv'
  BY <1>1, <1>3 DEF DueInv, TriedType, LoaderFree, KeyKept, PlacedInv, AskedInv, In
<1>5. /\ MayLoad' => MayLoad
      /\ \A q : Acts(q)' <=> Acts(q)
      /\ \A q : DueFor(q)' <=> DueFor(q)
  BY <1>1, <1>2, MediaKept
<1>6. Staying' = Staying
  BY <1>1, <1>3, PinsAssumption DEF Staying, AssFilters, Filters
<1>7. Out' = o /\ In' # Loader
  BY <1>1, <1>3 DEF Out, In
<1>8. ASSUME NEW q \in Outputs, Loader \in tried'[q]
      PROVE  Loader \in tried[q]
  BY <1>1, <1>3, <1>8 DEF DueInv, TriedType
<1>9. SpentInv'
  BY <1>1, <1>3, <1>5, <1>6, <1>7 DEF DueInv, SpentInv
<1>10. TriedInv'
  BY <1>1, <1>5, <1>6, <1>8 DEF DueInv, TriedInv
<1> QED
  BY <1>4, <1>9, <1>10 DEF DueInv

\* The builder goes past the auto loader only if it may not join, and then there is an
\* AssFilter: one in the graph would have been tried.
LEMMA LoaderRefusedDue ==
  ASSUME GraphInv, DueInv, NEW o \in Outputs, LoaderRefused(o)
  PROVE  DueInv'
<1>1. /\ stage = "idle" /\ FreePins \subseteq tried[o] /\ Loader \notin tried[o] /\ ~MayJoin
      /\ tried' = [tried EXCEPT ![o] = @ \cup {Loader}]
      /\ UNCHANGED <<peer, attempt, stage, inGraph, loaded, key, added, history, rendered>>
  BY DEF LoaderRefused, Rendering, pinVars, connection, call, filters
<1>2. Fixed' = Fixed
  BY FixedStep DEF Next
<1>3. added = NoPin /\ Loader \notin Filters /\ NoPin \notin Filters
  BY <1>1, FilterPins DEF GraphInv, AddedInv
<1>4. Staying # {}
  <2>1. Loader \notin inGraph
    BY <1>1, <1>3 DEF FreePins, DueInv, LoaderFree
  <2> QED
    BY <1>1, <1>3, <2>1 DEF MayJoin, Staying, AssFilters
<1>5. TriedType' /\ LoaderFree' /\ KeyKept' /\ PlacedInv' /\ AskedInv'
  BY <1>1, <1>2, LoaderAssumption
  DEF DueInv, TriedType, LoaderFree, KeyKept, PlacedInv, AskedInv, In, Out, Fixed
<1>6. Staying' = Staying
  BY <1>1 DEF Staying, AssFilters
<1>7. SpentInv' /\ TriedInv'
  BY <1>4, <1>6 DEF SpentInv, TriedInv
<1> QED
  BY <1>5, <1>7 DEF DueInv

LEMMA RenderOtherDue ==
  ASSUME GraphInv, DueInv, NEW o \in Outputs, RenderOther(o)
  PROVE  DueInv'
<1>1. /\ stage = "idle" /\ Loader \in tried[o]
      /\ rendered' = rendered \cup {o}
      /\ UNCHANGED <<peer, attempt, stage, inGraph, loaded, key, added, tried, history>>
  BY DEF RenderOther, Rendering, pinVars, connection, call, filters
<1>2. Fixed' = Fixed
  BY FixedStep DEF Next
<1>3. TriedType' /\ LoaderFree' /\ KeyKept' /\ PlacedInv' /\ AskedInv'
  BY <1>1, <1>2 DEF DueInv, TriedType, LoaderFree, KeyKept, PlacedInv, AskedInv, In, Out, Fixed
<1>4. Staying' = Staying
  BY <1>1 DEF Staying, AssFilters
<1>5. /\ MayLoad' => MayLoad
      /\ \A q : Acts(q)' <=> Acts(q)
      /\ \A q : DueFor(q)' <=> DueFor(q)
  BY <1>1, <1>2, MediaKept
<1>6. SpentInv'
  BY <1>1, <1>4, <1>5 DEF DueInv, SpentInv
<1>7. TriedInv'
  BY <1>1, <1>4, <1>5 DEF DueInv, TriedInv
<1> QED
  BY <1>3, <1>6, <1>7 DEF DueInv

\* The auto loader refuses whatever it is asked for, and adds its AssFilter when it is
\* asked for the first time.
LEMMA ReceiveDue ==
  ASSUME CallInv, TypeInv, GraphInv, DueInv, Receive
  PROVE  DueInv'
<1>1. /\ stage = "receive" /\ Out \in Outputs /\ In \in Inputs /\ attempt.at \in Nat \ {0}
      /\ UNCHANGED <<added, tried, rendered, history>>
  BY DEF Receive, Refuse, ReceiveConnection, builder, CallInv
<1>2. Fixed' = Fixed
  BY FixedStep DEF Next
<1>3. In' = In /\ Out' = Out /\ attempt'.at \in {attempt.at, attempt.at + 1}
  BY DEF Receive, Refuse, BreakConnect, TryType, ReceiveConnection, In, Out, CallInv
<1>4. /\ stage' \in {"type", "theirs"}
      /\ stage' = "theirs" => In \in Filters
  BY DEF Receive, Refuse, BreakConnect, TryType, ReceiveConnection, Accepts
<1>5. TriedType'
  BY <1>1 DEF DueInv, TriedType
<1>6. LoaderFree'
  <2>1. Loader \in Pins /\ Loader \notin Filters /\ Loader \notin Outputs
    BY FilterPins, LoaderAssumption, PinsAssumption DEF Pins
  <2>2. peer' = [peer EXCEPT ![Out] = NoPin] \/ (In \in Filters /\ peer' = [peer EXCEPT ![In] = Out])
    BY DEF Receive, Refuse, ReceiveConnection, Accepts
  <2>3. peer'[Loader] = NoPin
    BY <1>1, <2>1, <2>2 DEF TypeInv, DueInv, LoaderFree
  <2> QED
    BY <1>3, <1>4, <2>3 DEF LoaderFree
<1>7. added \in Filters => added \in inGraph
  BY <1>1 DEF GraphInv, AddedInv
<1>8. CASE In # Loader
  <2>1. UNCHANGED <<inGraph, loaded, key>>
    BY <1>8 DEF Receive
  <2>2. KeyKept' /\ PlacedInv' /\ AskedInv'
    BY <1>1, <1>3, <1>4, <1>8, <2>1 DEF DueInv, KeyKept, PlacedInv, AskedInv
  <2>3. Staying' = Staying
    BY <1>1, <2>1 DEF Staying, AssFilters
  <2> QED
    BY <1>1, <1>2, <1>3, <1>6, <1>8, <2>1, <2>2, <2>3, StillDue
<1>9. CASE In = Loader
  <2>1. CheckInput(Proposed) /\ Loader \in inGraph
    BY <1>1, <1>9 DEF Receive, DueInv, LoaderFree, GraphInv, AddedInv
  <2>2. /\ loaded'
        /\ inGraph \subseteq inGraph'
        /\ Loader \in inGraph' => Loader \in inGraph
        /\ history.key # "none" => key' = key
    <3>1. CASE UNCHANGED <<inGraph, external, key>>
      BY <2>1, <3>1 DEF CheckInput
    <3>2. CASE /\ inGraph' = inGraph \cup {NewFilter}
               /\ Join(NewFilter, TRUE)
      <4>1. history.key # "none" => key # "none"
        BY DEF DueInv, KeyKept
      <4> QED
        BY <2>1, <3>2, <4>1 DEF CheckInput, Join
    <3> QED
      BY <2>1, <3>1, <3>2 DEF CheckInput
  <2>3. KeyKept' /\ PlacedInv' /\ AskedInv'
    BY <1>1, <1>3, <1>4, <2>2 DEF DueInv, KeyKept, PlacedInv, AskedInv
  <2>4. Staying \subseteq Staying'
    BY <1>1, <2>2 DEF Staying, AssFilters
  <2>5. /\ MayLoad' => MayLoad
        /\ \A q : Acts(q)' <=> Acts(q)
        /\ \A q : DueFor(q)' <=> DueFor(q)
    BY <1>1, <1>2, MediaKept
  <2>6. SpentInv'
    <3> SUFFICES ASSUME MayLoad, DueFor(Out) \/ \A q \in Outputs : Acts(q)
                 PROVE  Staying' # {}
      BY <1>1, <1>2, <1>3, <2>5 DEF SpentInv, DueFor, Acts, Fixed
    <3>1. CASE loaded
      BY <1>1, <1>9, <2>1, <2>4, <3>1 DEF DueInv, SpentInv
    <3>2. CASE ~loaded
      <4>1. attempt.at = 1
        BY <1>1, <1>9, <3>2 DEF DueInv, AskedInv
      <4>2. Proposed \in Streams
        BY <1>1, <4>1 DEF Proposed, DueFor, Acts
      <4>3. DisableAutoLoad = {FALSE}
        BY DEF DueInv, KeyKept, MayLoad, DisableAutoLoad
      <4>4. Spare /\ inGraph' = inGraph \cup {NewFilter}
        BY <2>1, <3>2, <4>2, <4>3 DEF CheckInput, MayLoad
      <4>5. NewFilter \in Filters \ inGraph
        BY <4>4, NewFilterIsNew
      <4> QED
        BY <1>1, <1>7, <4>4, <4>5 DEF Staying, AssFilters
    <3> QED
      BY <3>1, <3>2
  <2>7. TriedInv'
    BY <1>1, <1>3, <1>4, <2>4, <2>5 DEF DueInv, TriedInv
  <2> QED
    BY <1>5, <1>6, <2>3, <2>6, <2>7 DEF DueInv
<1> QED
  BY <1>8, <1>9

LEMMA NegotiateDue ==
  ASSUME CallInv, TypeInv, GraphInv, DueInv, Negotiate
  PROVE  DueInv'
<1>1. /\ stage # "idle" /\ Out \in Outputs /\ In \in Inputs /\ attempt.at \in Nat \ {0}
      /\ UNCHANGED <<added, tried, rendered, history, inGraph, loaded, key>>
  BY DEF Negotiate, AttemptConnection, NoMoreTypes, RefuseTheirAllocator, FailToComplete,
         builder, filters, CallInv
<1>2. Fixed' = Fixed
  BY FixedStep DEF Next
<1>3. Loader \in Pins /\ Loader \notin Filters /\ Loader \notin Outputs /\ Outputs \subseteq Pins
  BY FilterPins, LoaderAssumption, PinsAssumption DEF Pins
<1>4. In' = In /\ Out' = Out /\ stage' # "idle" /\ LoaderFree' /\ AskedInv'
  <2>1. CASE AttemptConnection
    <3>1. attempt' = attempt /\ stage' = "receive" /\ peer' = [peer EXCEPT ![Out] = In]
      BY <2>1 DEF AttemptConnection
    <3> QED
      BY <1>1, <1>3, <3>1 DEF In, Out, TypeInv, DueInv, LoaderFree, AskedInv
  <2>2. CASE NoMoreTypes
    <3>1. attempt' = attempt /\ stage' = "failed" /\ peer' = peer /\ attempt.at > Len(offers[Out])
      BY <2>2 DEF NoMoreTypes, connection
    <3> QED
      BY <1>1, <1>2, <3>1 DEF In, Out, Fixed, DueInv, LoaderFree, AskedInv
  <2>3. CASE RefuseTheirAllocator
    <3>1. attempt' = attempt /\ stage = "theirs" /\ stage' = "ours" /\ peer' = peer
      BY <2>3 DEF RefuseTheirAllocator
    <3> QED
      BY <1>1, <3>1 DEF In, Out, DueInv, LoaderFree, AskedInv
  <2>4. CASE FailToComplete
    <3>1. /\ stage = "ours" /\ stage' = "type" /\ attempt' = [attempt EXCEPT !.at = attempt.at + 1]
          /\ peer' = [p \in Pins |-> IF p \in {Out, In} THEN NoPin ELSE peer[p]]
      BY <2>4 DEF FailToComplete, BreakConnect, TryType
    <3>2. In' = In /\ Out' = Out
      BY <1>1, <3>1 DEF In, Out, CallInv
    <3>3. In # Loader
      BY <1>3, <3>1 DEF DueInv, LoaderFree
    <3> QED
      BY <1>3, <3>1, <3>2, <3>3 DEF DueInv, LoaderFree, AskedInv
  <2> QED
    BY <2>1, <2>2, <2>3, <2>4 DEF Negotiate
<1>5. KeyKept' /\ PlacedInv'
  BY <1>1, <1>4 DEF DueInv, KeyKept, PlacedInv
<1>6. Staying' = Staying
  BY <1>1 DEF Staying, AssFilters
<1> QED
  BY <1>1, <1>2, <1>4, <1>5, <1>6, StillDue

\* A call that succeeds leaves its AssFilter in the graph.
LEMMA SucceedDue ==
  ASSUME CallInv, GraphInv, DueInv, Succeed
  PROVE  DueInv'
<1>1. /\ stage \in {"theirs", "ours"} /\ stage' = "idle" /\ Out \in Outputs
      /\ added' = NoPin /\ rendered' = rendered \cup {Out}
      /\ UNCHANGED <<peer, inGraph, loaded, key, tried, history>>
  BY DEF Succeed, UseTheirAllocator, UseOurAllocator, UseAllocator, filters, CallInv
<1>2. Fixed' = Fixed
  BY FixedStep DEF Next
<1>3. In \in Filters /\ In \in inGraph /\ In # Loader
  BY <1>1, FilterPins DEF DueInv, LoaderFree, GraphInv, AddedInv
<1>4. Staying' # {}
  BY <1>1, <1>3, FilterPins DEF Staying, AssFilters
<1>5. added # Loader
  BY <1>3, FilterPins, LoaderAssumption DEF DueInv, PlacedInv
<1>6. TriedType' /\ LoaderFree' /\ KeyKept' /\ PlacedInv' /\ AskedInv'
  BY <1>1, <1>5 DEF DueInv, TriedType, LoaderFree, KeyKept, PlacedInv, AskedInv
<1>7. SpentInv' /\ TriedInv'
  BY <1>4 DEF SpentInv, TriedInv
<1> QED
  BY <1>6, <1>7 DEF DueInv

\* A call with the auto loader fails after it was asked for the pin's first type.
LEMMA GiveUpDue ==
  ASSUME CallInv, TypeInv, GraphInv, DueInv, GiveUp
  PROVE  DueInv'
<1>1. /\ stage = "failed" /\ stage' = "idle" /\ Out \in Outputs /\ In \in inGraph /\ added' = NoPin
      /\ loaded' = (loaded /\ added # Loader)
      /\ UNCHANGED <<peer, key, tried, rendered, history>>
  BY DEF GiveUp, Return, connection, CallInv, GraphInv, AddedInv
<1>2. Fixed' = Fixed
  BY FixedStep DEF Next
<1>3. inGraph' = inGraph \ {added}
  BY FilterPins DEF GiveUp, Leave, GraphInv, FiltersType, AddedInv
<1>4. Staying' = Staying
  BY <1>1, <1>3, FilterPins DEF Staying, AssFilters
<1>5. /\ MayLoad' => MayLoad
      /\ \A q : Acts(q)' <=> Acts(q)
      /\ \A q : DueFor(q)' <=> DueFor(q)
  BY <1>1, <1>2, MediaKept
<1>6. TriedType' /\ LoaderFree' /\ KeyKept' /\ PlacedInv' /\ AskedInv'
  BY <1>1, <1>3, FilterPins
  DEF DueInv, TriedType, LoaderFree, KeyKept, PlacedInv, AskedInv
<1>7. SpentInv'
  BY <1>1, <1>3, <1>4, <1>5 DEF DueInv, SpentInv
<1>8. ASSUME MayLoad, DueFor(Out), In = Loader
      PROVE  Staying # {}
  <2>1. Len(offers[Out]) \in Nat /\ attempt.at \in Nat
    BY <1>1 DEF TypeInv, CallInv
  <2>2. loaded
    BY <1>1, <1>8, <2>1 DEF DueInv, AskedInv, DueFor, Acts
  <2> QED
    BY <1>1, <1>8, <2>2 DEF DueInv, SpentInv
<1>9. TriedInv'
  BY <1>1, <1>4, <1>5, <1>8 DEF DueInv, TriedInv
<1> QED
  BY <1>6, <1>7, <1>9 DEF DueInv

\* The graph runs, a filter is paused, or nothing happens.
LEMMA QuietDue ==
  ASSUME DueInv, Fixed' = Fixed,
         UNCHANGED <<peer, call, inGraph, loaded, key, added, tried, rendered, history>>
  PROVE  DueInv'
<1>1. In' = In /\ Out' = Out /\ stage' = stage
  BY DEF call, In, Out
<1>2. LoaderFree' /\ KeyKept' /\ PlacedInv' /\ AskedInv'
  BY <1>1 DEF DueInv, LoaderFree, KeyKept, PlacedInv, AskedInv, call, Fixed
<1>3. Staying' = Staying
  BY DEF Staying, AssFilters
<1> QED
  BY <1>1, <1>2, <1>3, StillDue

LEMMA RemoveFilterDue ==
  ASSUME TypeInv, GraphInv, DueInv, NEW f \in Filters, RemoveFilter(f)
  PROVE  DueInv'
<1>1. /\ stage = "idle" /\ f \in inGraph /\ inGraph' = inGraph \ {f}
      /\ peer' = [q \in Pins |-> IF q \in {f, peer[f]} THEN NoPin ELSE peer[q]]
      /\ history' = [history EXCEPT !.removed = TRUE]
      /\ UNCHANGED <<attempt, stage, loaded, key, added, tried, rendered>>
  BY DEF RemoveFilter, Disconnect, Leave, builder, call, AssFilters
<1>2. Fixed' = Fixed
  BY FixedStep DEF Next
<1>3. /\ history'.removed /\ history'.key = history.key /\ history'.inGraph = history.inGraph
  BY <1>1 DEF GraphInv, FiltersType
<1>4. Loader \in Pins
  BY LoaderAssumption DEF Pins
<1>5. TriedType' /\ LoaderFree' /\ KeyKept' /\ PlacedInv' /\ AskedInv'
  BY <1>1, <1>2, <1>3, <1>4
  DEF DueInv, TriedType, LoaderFree, KeyKept, PlacedInv, AskedInv, In, Out, Fixed
<1>6. SpentInv' /\ TriedInv'
  BY <1>3 DEF SpentInv, TriedInv, MayLoad
<1> QED
  BY <1>5, <1>6 DEF DueInv

LEMMA DueStep == PinInv /\ GraphInv /\ DueInv /\ [Next]_vars => DueInv'
<1> SUFFICES ASSUME CallInv, TypeInv, GraphInv, DueInv, [Next]_vars
             PROVE  DueInv'
  BY DEF PinInv
<1>1. ASSUME NEW o \in Outputs, NEW p \in Inputs, TryFreePin(o, p)
      PROVE  DueInv'
  BY <1>1, TryFreePinDue
<1>2. ASSUME NEW o \in Outputs, TryLoader(o) \/ LoaderRefused(o)
      PROVE  DueInv'
  BY <1>2, TryLoaderDue, LoaderRefusedDue
<1>3. ASSUME NEW o \in Outputs, TryAssFilter(o) \/ RenderOther(o)
      PROVE  DueInv'
  BY <1>3, TryAssFilterDue, RenderOtherDue
<1>4. CASE Receive
  BY <1>4, ReceiveDue
<1>5. CASE Negotiate
  BY <1>5, NegotiateDue
<1>6. CASE Succeed
  BY <1>6, SucceedDue
<1>7. CASE GiveUp
  BY <1>7, GiveUpDue
<1>8. CASE Run \/ UNCHANGED vars
  BY <1>8, FixedStep, QuietDue DEF Run, pinVars, connection, filters, builder, vars
<1>9. ASSUME NEW f \in Filters, Pause(f)
      PROVE  DueInv'
  BY <1>9, FixedStep, QuietDue DEF Pause, pinVars, connection, builder, Next
<1>10. ASSUME NEW f \in Filters, RemoveFilter(f)
       PROVE  DueInv'
  BY <1>10, RemoveFilterDue
<1> QED
  BY <1>1, <1>2, <1>3, <1>4, <1>5, <1>6, <1>7, <1>8, <1>9, <1>10 DEF Next

\* However the graph builder tries the pins, and whatever their types, the auto loader
\* does not miss its one chance where it is due.
THEOREM GraphAutoLoadsWhenDue == Spec => []AutoLoadedWhenDue
<1>1. DueInv => AutoLoadedWhenDue
  <2> SUFFICES ASSUME DueInv, stage = "idle", rendered = Outputs, MayLoad,
                      NEW o \in Outputs, DueFor(o)
               PROVE  AssFilters # {}
    BY DEF AutoLoadedWhenDue, MayLoad, AutoLoad, DueFor, Acts
  <2> QED
    BY DEF DueInv, TriedInv, Staying
<1>2. PinSpec => []PinInv
  BY PinInvInit, PinInvStep, PTL DEF PinSpec
<1>3. Spec => []DueInv
  BY <1>2, GraphConnects, GraphInvariant, DueInit, DueStep, PTL DEF Spec
<1> QED
  BY <1>1, <1>3, PTL

=============================================================================
