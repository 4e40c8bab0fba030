------------------------------- MODULE MCRSync -------------------------------
(* Constants of RSync for model checking: a directory with a file or a link   *)
(* in it, and a file beside it.                                               *)
EXTENDS RSync

SmallPath == {<<>>, <<"a">>, <<"a", "x">>, <<"b">>}

SmallKinds ==
  [p \in SmallPath |->
     CASE p = <<>> -> {"dir"}
       [] p = <<"a">> -> {"dir", "link", "absent"}
       [] p = <<"a", "x">> -> {"file", "link"}
       [] OTHER -> {"file", "absent", "other"}]

\* An absolute link into the source, and a relative one.
SmallLink == [base : {"source", "relative"}, at : {<<"b">>}]

\* Where the current directory is: out of the source, or the source itself (README, section 6).
Outside == {}
Inside == {<<>>}
=============================================================================
