------------------------------ MODULE LineStore ------------------------------
(***************************************************************************)
(* What the ReadOrder handling promises: a subtitle track has one copy of  *)
(* every line that was sent to it and none of any other, in whatever order *)
(* they came and however often they were repeated.                         *)
(***************************************************************************)
EXTENDS Naturals

CONSTANT Lines

VARIABLES
  sent,    \* the lines sent since the track was made
  stored   \* how many copies of each line the track has

vars == <<sent, stored>>

Empty ==
  /\ sent = {}
  /\ stored = [line \in Lines |-> 0]

\* A line that was not sent before gets a copy.  One that was is a stutter.
Deliver(line) ==
  /\ line \notin sent
  /\ sent' = sent \cup {line}
  /\ stored' = [stored EXCEPT ![line] = @ + 1]

\* The next subtitle stream starts from an empty track.
Reset == Empty'

Next == (\E line \in Lines : Deliver(line)) \/ Reset

Spec == Empty /\ [][Next]_vars

=============================================================================
