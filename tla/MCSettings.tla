----------------------------- MODULE MCSettings ------------------------------
(***************************************************************************)
(* The states of the registry key that TLC starts from: no key, a new one, *)
(* one with other values everywhere, one of an older version, which lacks  *)
(* a field or all of them, and one with a value out of its range.          *)
(***************************************************************************)
EXTENDS Settings

Others == [f \in Fields |->
  CASE f = "ScaledBorderAndShadow" -> "off" [] f = "DisableAutoLoad" -> "on"
    [] f = "LineAlignment" -> "7" [] OTHER -> "other"]

OutOfRange ==
  {<<"FontScaleX", "zero">>, <<"FontScaleX", "tooBig">>, <<"FontSize", "bad">>,
   <<"LineAlignment", "bad">>, <<"CustomRes", "bad">>}

MCStartKeys ==
  {NoKey, Default, Others, [f \in Fields |-> "absent"]}
  \cup {[Others EXCEPT ![f] = "absent"] : f \in Fields}
  \cup {[Others EXCEPT ![o[1]] = o[2]] : o \in OutOfRange}

=============================================================================
