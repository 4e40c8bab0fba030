---------------------------- MODULE MCSerializer ----------------------------
(* Objects of every type, at the borders of the sizes, and nested. *)
EXTENDS Serializer

i(n) == <<"int", n>>
s(t) == <<"str", t>>
b(t) == <<"bytes", t>>

Flat == {<<"none">>, <<"bool", TRUE>>, <<"bool", FALSE>>, i(0), i(15), i(16), i(205), i(-16), i(-17),
  <<"float", 9>>, <<"complex", 1, 28>>, b(<<>>), b(<<28, 3>>), s(<<5, 16, 31>>), s(<<32>>),
  b([n \in 1..16 |-> 3]), s([n \in 1..8 |-> 20]), <<"channel", 3>>, <<"object">>}

Nested == {
  <<"list", <<>>>>, <<"list", <<i(1), <<"list", <<>>>>>>>>, <<"list", [n \in 1..16 |-> i(0)]>>,
  <<"list", <<b(<<1>>), <<"object">>>>>>,
  <<"tuple", <<i(1), <<"tuple", <<>>>>, i(3)>>>>, <<"tuple", [n \in 1..16 |-> i(0)]>>,
  <<"dict", <<<<i(1), s(<<1>>)>>, <<s(<<1>>), <<"list", <<>>>>>>>>>>,
  <<"dict", <<<<s(<<1>>), i(1)>>, <<b(<<1>>), i(2)>>>>>>,
  <<"set", <<i(2), s(<<1>>)>>>>, <<"set", <<s(<<1>>), b(<<1>>)>>>>,
  <<"frozenset", <<<<"tuple", <<i(-1)>>>>, <<"frozenset", <<>>>>>>>>,
  <<"tuple", <<<<"channel", 1>>, <<"dict", <<<<i(0), <<"none">>>>>>>>>>>>}

AllObjects == Flat \cup Nested
AllConfigs == [p2 : BOOLEAN, p3 : BOOLEAN, internal : BOOLEAN]
=============================================================================
