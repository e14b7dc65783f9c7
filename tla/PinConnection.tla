---------------------------- MODULE PinConnection ----------------------------
(***************************************************************************)
(* How two pins of the base classes are connected: CBasePin::Connect on an *)
(* output pin tries each media type it offers with an input pin, and for   *)
(* each type the two pins agree on an allocator.  Whatever fails, both     *)
(* pins must let go of what they hold, and the next type is tried.         *)
(*                                                                         *)
(* The pins of this filter offer no media types of their own, so the types *)
(* of the input pin, which CBasePin would try first, are none.  The locks  *)
(* of the filters are held throughout a call.                              *)
(***************************************************************************)
EXTENDS Naturals, Sequences

CONSTANTS
  Outputs,  \* the output pins of the splitter
  Inputs,   \* the input pins of the filters that may join the graph
  NoPin,    \* no pin
  Types,    \* the media types
  NoType    \* the type of a pin that was never connected

ASSUME PinsAssumption ==
  /\ Outputs \cap Inputs = {}
  /\ NoPin \notin Outputs \cup Inputs

Pins == Outputs \cup Inputs

VARIABLES
  offers,    \* the media types an output pin offers, in order
  peer,      \* m_Connected
  type,      \* m_mt of a pin, the type of its connection
  allocator, \* m_pAllocator: the pin that created it, or NoPin
  memInput,  \* m_pInputPin of an output pin: its peer's IMemInputPin
  attempt,   \* the call of Connect: the two pins and the number of the type
  stage      \* "idle": no call; where the call is: "type", "receive",
             \* "theirs", "ours"; or that it "failed"

connection == <<peer, type, allocator, memInput>>
call == <<attempt, stage>>
pinVars == <<offers, connection, call>>

NoAttempt == [out |-> NoPin, in |-> NoPin, at |-> 0]

PinInit ==
  /\ peer = [p \in Pins |-> NoPin]
  /\ type = [p \in Pins |-> NoType]
  /\ allocator = [p \in Pins |-> NoPin]
  /\ memInput = [o \in Outputs |-> NoPin]
  /\ attempt = NoAttempt
  /\ stage = "idle"

\* The pins of the call, and the type it is at.
Out == attempt.out
In == attempt.in
Proposed == offers[Out][attempt.at]

TryType(n) ==
  /\ attempt' = [attempt EXCEPT !.at = n]
  /\ stage' = "type"

-----------------------------------------------------------------------------
(* The steps of CBasePin::Connect.                                         *)

Connect(o, p) ==
  /\ stage = "idle"
  /\ peer[o] = NoPin
  /\ attempt' = [out |-> o, in |-> p, at |-> 1]
  /\ stage' = "type"
  /\ UNCHANGED <<offers, connection>>

\* CheckConnect takes the other pin's IMemInputPin, and the output pin makes
\* itself look connected.
AttemptConnection ==
  /\ stage = "type"
  /\ attempt.at <= Len(offers[Out])
  /\ memInput' = [memInput EXCEPT ![Out] = In]
  /\ peer' = [peer EXCEPT ![Out] = In]
  /\ type' = [type EXCEPT ![Out] = Proposed]
  /\ stage' = "receive"
  /\ UNCHANGED <<offers, allocator, attempt>>

NoMoreTypes ==
  /\ stage = "type"
  /\ attempt.at > Len(offers[Out])
  /\ stage' = "failed"
  /\ UNCHANGED <<offers, connection, attempt>>

\* What the output pin does after a type that failed.
BreakConnect ==
  /\ memInput' = [memInput EXCEPT ![Out] = NoPin]
  /\ TryType(attempt.at + 1)

\* ReceiveConnection on a connected pin, or with a type it does not accept.
Refuse(accepted) ==
  /\ stage = "receive"
  /\ peer[In] # NoPin \/ ~accepted
  /\ peer' = [peer EXCEPT ![Out] = NoPin]
  /\ BreakConnect
  /\ UNCHANGED <<offers, type, allocator>>

ReceiveConnection(accepted) ==
  /\ stage = "receive"
  /\ peer[In] = NoPin
  /\ accepted
  /\ peer' = [peer EXCEPT ![In] = Out]
  /\ type' = [type EXCEPT ![In] = Proposed]
  /\ stage' = "theirs"
  /\ UNCHANGED <<offers, allocator, memInput, attempt>>

\* NotifyAllocator tells the input pin which allocator is used.
UseAllocator(a) ==
  /\ allocator' = [p \in Pins |-> IF p \in {Out, In} THEN a ELSE allocator[p]]
  /\ attempt' = NoAttempt
  /\ stage' = "idle"
  /\ UNCHANGED <<offers, peer, type, memInput>>

\* The input pin's allocator, which it makes and keeps, suits the output pin.
UseTheirAllocator ==
  /\ stage = "theirs"
  /\ UseAllocator(IF allocator[In] = NoPin THEN In ELSE allocator[In])

\* It does not, or could not be made.
RefuseTheirAllocator ==
  /\ stage = "theirs"
  /\ \E a \in {allocator[In], IF allocator[In] = NoPin THEN In ELSE allocator[In]} :
       allocator' = [allocator EXCEPT ![In] = a]
  /\ stage' = "ours"
  /\ UNCHANGED <<offers, peer, type, memInput, attempt>>

UseOurAllocator ==
  /\ stage = "ours"
  /\ UseAllocator(Out)

FailToCompleteOneSided ==
  /\ stage = "ours"
  /\ peer' = [peer EXCEPT ![Out] = NoPin]
  /\ allocator' = [allocator EXCEPT ![Out] = NoPin]
  /\ BreakConnect
  /\ UNCHANGED <<offers, type>>

\* CompleteConnect fails: the input pin is disconnected, which also releases
\* the allocator it made.
FailToComplete ==
  /\ stage = "ours"
  /\ peer' = [p \in Pins |-> IF p \in {Out, In} THEN NoPin ELSE peer[p]]
  /\ allocator' = [p \in Pins |-> IF p \in {Out, In} THEN NoPin ELSE allocator[p]]
  /\ BreakConnect
  /\ UNCHANGED <<offers, type>>

\* Connect returns the error of the last type.
Return ==
  /\ stage = "failed"
  /\ attempt' = NoAttempt
  /\ stage' = "idle"
  /\ UNCHANGED <<offers, connection>>

\* The graph disconnects an input pin and its peer.
Disconnect(p) ==
  LET both == {p, peer[p]}
  IN /\ stage = "idle"
     /\ peer' = [q \in Pins |-> IF q \in both THEN NoPin ELSE peer[q]]
     /\ allocator' = [q \in Pins |-> IF q \in both THEN NoPin ELSE allocator[q]]
     /\ memInput' = [o \in Outputs |-> IF o \in both THEN NoPin ELSE memInput[o]]
     /\ UNCHANGED <<offers, type, call>>

PinNext ==
  \/ \E o \in Outputs, p \in Inputs : Connect(o, p)
  \/ AttemptConnection
  \/ NoMoreTypes
  \/ \E accepted \in BOOLEAN : Refuse(accepted) \/ ReceiveConnection(accepted)
  \/ UseTheirAllocator
  \/ RefuseTheirAllocator
  \/ UseOurAllocator
  \/ FailToComplete
  \/ Return
  \/ \E p \in Inputs : Disconnect(p)

PinSpec == PinInit /\ offers \in [Outputs -> Seq(Types)] /\ [][PinNext]_pinVars

-----------------------------------------------------------------------------
(* The property.                                                           *)

Connected(o, p) == peer[o] = p /\ peer[p] = o

\* When no call is under way, an output pin is connected to an input pin only
\* if that pin is connected to it, and then both have one of the types the
\* output pin offers and one allocator; a pin that is not connected holds
\* neither an allocator nor the other pin's interface.  This is after any number
\* of types that the input pin, or the choice of an allocator, refused.
ConnectionAgrees ==
  stage = "idle" =>
    /\ \A o \in Outputs, p \in Inputs : peer[o] = p <=> peer[p] = o
    /\ \A o \in Outputs, p \in Inputs : Connected(o, p) =>
         /\ type[o] = type[p]
         /\ \E i \in 1 .. Len(offers[o]) : offers[o][i] = type[o]
         /\ allocator[o] = allocator[p]
         /\ allocator[o] # NoPin
    /\ \A p \in Pins : peer[p] = NoPin => allocator[p] = NoPin
    /\ \A o \in Outputs : memInput[o] = peer[o]

=============================================================================
