------------------------------ MODULE MCAnswers -----------------------------
EXTENDS Answers

Intent(asn, prefix, routed, neighbors) ==
  [asn |-> asn, prefix |-> prefix, routed |-> routed, neighbors |-> neighbors]
MCIntents ==
  {Intent("a1", 1, {"e1"}, {"n1"}), Intent("a2", 2, {"e1"}, {"n1"}),
   Intent("a1", 1, {"e1"}, {"n1", "n2"}), Intent("a1", 1, {"e1", "e2"}, {"n1"}),
   Intent("a1", 1, {"system0"}, {"n1"})}

MCPort ==
  {<<"a", 1>>, <<"a", 2>>, <<"b", 1>>, <<"c", 1>>, <<"c", 2>>, <<"c", 3>>, <<"d", 1>>}
MCCable(d, m, e, n) == {<<d, m>>, <<e, n>>}
MCConnectable ==
  {MCCable("a", 1, "b", 1), MCCable("a", 2, "b", 1), MCCable("a", 1, "a", 2),
   MCCable("a", 1, "d", 1), MCCable("a", 2, "c", 1), MCCable("b", 1, "c", 2)}
MCCabled == {{MCCable("a", 1, "b", 1), MCCable("a", 2, "c", 1)}}
MCListed == {"a", "b", "c"}
MCAssignable ==
  {<<<<"b", 1>>, "x">>, <<<<"c", 1>>, "x">>, <<<<"a", 1>>, "y">>, <<<<"a", 2>>, "y">>,
   <<<<"b", 1>>, "z">>}
MCNeighbors == [d \in MCListed |->
  CASE d = "a" -> <<"x", "z", "z">> [] d = "b" -> <<"y">> [] d = "c" -> None]
=============================================================================
