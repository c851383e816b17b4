----------------------------- MODULE MCMessages -----------------------------
(* Messages, for TLC: numbers of one and of ten groups, and texts whose sizes lie on both *)
(* sides of every bound.                                                                 *)
EXTENDS Messages

Wide == <<127, 127, 127, 127, 127, 127, 127, 127, 127, 1>>

MCNumbers == {One, <<0, 1>>, Wide}
MCTexts == {Text("t", 1), Text("u", 130)}
MCKeys == {<<>>, Text("k", 49)}
MCValues ==
  {<<>>} \union
  {Text("v", n) : n \in {49, 50, 127, 128, Limit - 100, Limit - 99, Limit - 16, Limit - 15, Limit}}
=============================================================================
