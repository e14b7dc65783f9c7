------------------------------- MODULE MCGraph -------------------------------
(***************************************************************************)
(* The media TLC renders: two pins, each with one or two types.  Together  *)
(* they have subtitles the auto loader and the AssFilter's pin both know,  *)
(* those only one of them knows, a type that is accepted before or after   *)
(* one that is not, and pins that begin with a type of another kind.       *)
(***************************************************************************)
EXTENDS Graph

CONSTANTS o1, o2

MCTypes == {"video", "ass", "ssa", "utf8", "text", "vobsub", "data"}

MCMedia ==
  {[o \in Outputs |-> IF o = o1 THEN m[1] ELSE m[2]] : m \in
     {<<<<"video">>, <<"video">>>>, <<<<"video">>, <<"ass">>>>, <<<<"ssa">>, <<"video">>>>,
      <<<<"data">>, <<"video">>>>, <<<<"video">>, <<"data", "ssa">>>>,
      <<<<"ssa">>, <<"ssa">>>>, <<<<"text", "ssa">>, <<"video">>>>,
      <<<<"vobsub", "ass">>, <<"utf8">>>>, <<<<"video">>, <<"text">>>>,
      <<<<"data">>, <<"data">>>>, <<<<"video">>, <<"data", "utf8">>>>}}

MCInit == Init /\ inGraph \subseteq {Loader, CHOOSE f \in Filters : TRUE}
MCSpec == MCInit /\ [][Next]_vars

=============================================================================
