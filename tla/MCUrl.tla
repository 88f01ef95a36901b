---------------------------------- MODULE MCUrl ----------------------------------
(* URLs with the strings of the run: every scheme in front of every combination
   of an authority and a tail. *)
EXTENDS FetchTarget

Join(A, B) == {a \o b : a \in A, b \in B}

Schemes == {<<>>, <<"HTTP", ":">>, <<"file", ":">>, <<"p", ":">>}
Authorities ==
  {<<>>, <<"/">>, <<"/", "/">>, <<"/", "\\", "u", "@">>,
   <<"/", "/", "u", ":", "%", "2", "f", "@", "@", "x">>,
   <<"/", "/", "x", ":", "8", "0">>, <<"/", "/", "1", ".", "3">>,
   <<"/", "/", "[", ":", ":", "1", "]", ":", "9">>, <<"/", "/", "C", "|">>,
   <<"/", "/", "eacute", "fullstop", "X">>, <<"/", "/", "u", "%", "3", "a", "@", "1", ".", "x">>}
Tails ==
  {<<>>, <<"/", ".", ".", "/", "/", "x">>, <<"x", "/", "%", "2", "e">>,
   <<"/", "C", ":", "/", ".", ".">>, <<" ", "?", "u", "=", "x">>, <<"#", "u">>,
   <<"/", "?", "%", "f", "f">>, <<"/", "%", "c", "3", "%", "a", "9", "?", "x", "\\", "%", "c", "3", "%", "a", "9">>}
AllInputs == Join(Schemes, Join(Authorities, Tails))

AllBases ==
  {<<"http", ":", "/", "/", "u", "@", "x", ":", "9", "/", "x", "?", "x">>,
   <<"file", ":", "/", "/", "/", "C", ":", "/", "x">>,
   <<"file", ":", "/", "/", "x">>, <<"p", ":", "x", " ", "#">>,
   <<"p", ":", "/", "/", "x", ":", "8", "0">>}

AllValues ==
  {<<>>, <<"x">>, <<"ws">>, <<"file">>, <<"x", ":", "8", "0", "/", "?", "x">>,
   <<"?", "x", "=", "%", "f", "f">>, <<"#", "x", " ">>, <<".", ".", "/", "x", "?", "#">>,
   <<"[", "1", ":", ":", "]", "/", "/">>}

AllPairs == {<<<<"u">>, <<"x", "=">>>>, <<<<"x">>, <<"p", "&">>>>, <<<<>>, <<>>>>}
=============================================================================
