--------------------------------- MODULE MCNaming ---------------------------------
(* Titles of up to three characters among a letter, a dot, a blank and a path  *)
(* separator; file names of up to three among the first three.  The qualifiers *)
(* are absent, plain, or need sanitizing.                                      *)
EXTENDS Naming

Texts(Chars, n) == UNION {[1..k -> Chars] : k \in 1..n}

Qualifiers ==
  {<<None, None, None>>, <<<<"r", "/">>, <<1, 2>>, <<"v">>>>, <<<<" ">>, <<1, 1>>, <<".">>>>,
   <<<<"r">>, <<3, 2>>, <<"0">>>>}

MCResults ==
  {[title |-> t, structured |-> s, agrees |-> a, identifier |-> i,
    region |-> q[1], disc |-> q[2], revision |-> q[3]] :
     t \in Texts({"a", ".", " ", "/"}, 3), s \in BOOLEAN, a \in BOOLEAN,
     i \in {None, <<"/", "i">>}, q \in Qualifiers}

MCNames == Texts({"a", ".", " "}, 3) \ {<<".">>, <<".", ".">>}
===================================================================================
