------------------------------ MODULE MCAnswers -----------------------------
(* The patterns, paths, disks and drives TLC checks Answers with.            *)
EXTENDS Answers, Regexp

A == Lit("a")
B == Lit("b")
Nothing == [op |-> "empty"]
AnyPath == Rep(Dot, 1, INT_MAX, "greedy")   \* ".+", the default of IncludePaths
NoPath == Cat(At0, AtN)                     \* "^$", the default of ExcludePaths

Counts == {<<0, INT_MAX>>, <<1, INT_MAX>>, <<0, 1>>, <<2, 2>>, <<1, 2>>, <<2, INT_MAX>>}
Bodies == {A, Dot, Cat(A, B), Alt(A, Cat(A, B)), Alt(Cat(A, B), A), Alt(A, B), Rep(A, 1, INT_MAX, "reluctant")}
Repeats(bodies, modes) ==
  {r \in {Rep(body, n[1], n[2], mode) : body \in bodies, n \in Counts, mode \in modes} :
     ~(r.mode = "possessive" /\ r.min = r.max)}
Modes == {"greedy", "reluctant", "possessive"}

(* A repetition and what follows it, which may send the search back into it. *)
Patterns ==
  {Cat(r, tail) : r \in Repeats(Bodies, Modes), tail \in {B, Cat(A, B), Look(A, TRUE), Cat(A, AtN)}} \cup
  {Cat(r, tail) : r \in Repeats({Grp(1, body) : body \in Bodies}, Modes), tail \in {Back(1), IfGrp(1, A, B), Nothing}}

(* What does not repeat, what looks back or ahead, and groups in groups. *)
Words == {A, Dot, Cat(A, B), Alt(A, Cat(A, B)), Alt(Cat(A, B), A), Rep(Dot, 0, 1, "greedy"), Rep(A, 1, INT_MAX, "reluctant"),
          Rep(Alt(B, Cat(B, A)), 0, INT_MAX, "greedy"), Cat(Dot, AtN), Cat(At0, A)}
Others ==
  {Cat(AnyPath, Cat(Behind(w, yes), tail)) : w \in Words, yes \in BOOLEAN, tail \in {Nothing, B}} \cup
  {Cat(Look(w, yes), AnyPath) : w \in Words, yes \in BOOLEAN} \cup
  {Cat(Atomic(w), tail) : w \in Words, tail \in {Nothing, B, Cat(A, B)}} \cup
  {Cat(Alt(Grp(1, v), Grp(2, w)), IfGrp(2, A, Back(1))) : v, w \in Words} \cup
  {Cat(Rep(Grp(1, Cat(v, Grp(2, w))), 1, INT_MAX, "greedy"), Rep(Back(2), 0, 1, "reluctant")) : v \in {A, Dot}, w \in Words}

Texts(n) == UNION {[1..k -> {"a", "B"}] : k \in 0..n}
Path(o, i, c) == [object |-> o, instance |-> i, counter |-> c]

(* Three paths, one of them without an instance, and the two patterns a section can have. *)
Listing == <<Path(<<"a">>, <<"B">>, <<>>), Path(<<"a">>, <<>>, <<"B">>), Path(<<"B">>, <<"a">>, <<"B">>)>>
Filters == {AnyPath, NoPath, A, Cat(A, B), Cat(AnyPath, B), Rep(Cat(Dot, B), 1, 2, "reluctant")}

MCSections ==
  {[include |-> r, exclude |-> NoPath, english |-> FALSE, listing |-> <<Path(t, <<>>, <<>>)>>] :
     r \in Patterns \cup Others, t \in Texts(3)} \cup
  {[include |-> r, exclude |-> x, english |-> yes, listing |-> Listing] : r, x \in Filters, yes \in BOOLEAN}
MCUnwritten == {<<>>, <<"\n">>}
MCDriveLists == {<<>>, <<"C">>, <<"C", "E">>, <<"C", "D", "E">>}
MCInstances == {<<>>, <<"_Total">>, <<"C:", "_Total">>, <<"C:", "D:", "_Total">>, <<"C:", "D", "E:", "_Total">>, <<"D", "_Total">>}
MCOneLetter == {"C", "D", "E"}
=============================================================================
