------------------------------- MODULE Regexp -------------------------------
(***************************************************************************)
(* The expressions a section's patterns stand for, each as the tree its    *)
(* author means.  Printed writes one as the pattern that DeelxBuilder      *)
(* compiles and Deelx matches: with them the parameters of Search have     *)
(* their values.  Ways is the reference: what an expression matches, in    *)
(* the order of preference, without a stack or a position to come back to. *)
(***************************************************************************)
EXTENDS DeelxBuilder, Search

(* What OpenCounter compiles its two patterns with. *)
Flags == {"IGNORECASE"}

----------------------------------------------------------------------------
(* Expressions. *)
Lit(ch) == [op |-> "lit", ch |-> ch]
Dot == [op |-> "any"]
Cat(l, r) == [op |-> "cat", l |-> l, r |-> r]
Alt(l, r) == [op |-> "alt", l |-> l, r |-> r]
Rep(l, min, max, mode) == [op |-> "rep", l |-> l, min |-> min, max |-> max, mode |-> mode]
Grp(n, l) == [op |-> "group", n |-> n, l |-> l]
At0 == [op |-> "begin"]
AtN == [op |-> "end"]
Look(l, yes) == [op |-> "look", l |-> l, yes |-> yes]
Behind(l, yes) == [op |-> "behind", l |-> l, yes |-> yes]
Atomic(l) == [op |-> "atomic", l |-> l]
Back(n) == [op |-> "back", n |-> n]
IfGrp(n, l, r) == [op |-> "if", n |-> n, l |-> l, r |-> r]

Mode(mode) == CASE mode = "greedy" -> "" [] mode = "reluctant" -> "?" [] mode = "possessive" -> "+"
Digit(n) == SubSeq("0123456789", n + 1, n + 1)
Braced(r) == "{" \o Digit(r.min) \o (IF r.max = r.min THEN "" ELSE IF r.max = INT_MAX THEN "," ELSE "," \o Digit(r.max)) \o "}"
Quantifier(r) ==
  CASE r.max = INT_MAX /\ r.min = 0 -> "*" [] r.max = INT_MAX /\ r.min = 1 -> "+"
    [] r.max = 1 /\ r.min = 0 -> "?" [] OTHER -> Braced(r)

RECURSIVE Printed(_)
Atom(r) == IF r.op \in {"lit", "any", "group"} THEN Printed(r) ELSE "(?:" \o Printed(r) \o ")"
Printed(r) ==
  CASE r.op = "lit" -> r.ch
    [] r.op = "any" -> "."
    [] r.op = "begin" -> "^"
    [] r.op = "end" -> "$"
    [] r.op = "back" -> "\\" \o Digit(r.n)
    [] r.op = "cat" -> (IF r.l.op = "alt" THEN Atom(r.l) ELSE Printed(r.l)) \o (IF r.r.op = "alt" THEN Atom(r.r) ELSE Printed(r.r))
    [] r.op = "alt" -> Printed(r.l) \o "|" \o Printed(r.r)
    [] r.op = "rep" -> Atom(r.l) \o Quantifier(r) \o Mode(r.mode)
    [] r.op = "group" -> "(" \o Printed(r.l) \o ")"
    [] r.op = "look" -> (IF r.yes THEN "(?=" ELSE "(?!") \o Printed(r.l) \o ")"
    [] r.op = "behind" -> (IF r.yes THEN "(?<=" ELSE "(?<!") \o Printed(r.l) \o ")"
    [] r.op = "atomic" -> "(?>" \o Printed(r.l) \o ")"
    [] r.op = "if" -> "(?(" \o Digit(r.n) \o ")" \o Printed(r.l) \o "|" \o Printed(r.r) \o ")"
    [] r.op = "empty" -> ""

(* The ways to match r from a position, with the groups matched so far, in the order of preference. *)
RECURSIVE Ways(_, _, _), Times(_, _, _, _)
First(s) == IF s = <<>> THEN <<>> ELSE <<Head(s)>>
Each(s, Op(_)) == FlattenSeq([i \in DOMAIN s |-> Op(s[i])])
Word(t, span) == SubSeq(t, span[1] + 1, span[2])
SameWord(s, t) == Len(s) = Len(t) /\ Same(s, t, "IGNORECASE" \in Flags)
Ways(r, t, s) ==
  CASE r.op = "lit" -> IF s.pos < Len(t) /\ SameWord(<<r.ch>>, <<t[s.pos + 1]>>) THEN <<[s EXCEPT !.pos = @ + 1]>> ELSE <<>>
    [] r.op = "any" -> IF s.pos < Len(t) /\ t[s.pos + 1] # "\n" THEN <<[s EXCEPT !.pos = @ + 1]>> ELSE <<>>
    [] r.op = "begin" -> IF s.pos = 0 THEN <<s>> ELSE <<>>
    [] r.op = "end" -> IF s.pos = Len(t) THEN <<s>> ELSE <<>>
    [] r.op = "empty" -> <<s>>
    [] r.op = "cat" -> Each(Ways(r.l, t, s), LAMBDA w : Ways(r.r, t, w))
    [] r.op = "alt" -> Ways(r.l, t, s) \o Ways(r.r, t, s)
    [] r.op = "rep" -> IF r.mode = "possessive" THEN First(Times(r, t, s, 0)) ELSE Times(r, t, s, 0)
    [] r.op = "group" -> Each(Ways(r.l, t, s), LAMBDA w : <<[w EXCEPT !.groups = (r.n :> <<s.pos, w.pos>>) @@ @]>>)
    [] r.op = "look" -> LET w == First(Ways(r.l, t, s))
                        IN IF (w # <<>>) # r.yes THEN <<>> ELSE IF r.yes THEN <<[s EXCEPT !.groups = w[1].groups]>> ELSE <<s>>
    [] r.op = "behind" -> LET w == {j \in 0..s.pos : \E v \in ToSet(Ways(r.l, t, [s EXCEPT !.pos = j])) : v.pos = s.pos}
                          IN IF (w # {}) = r.yes THEN <<s>> ELSE <<>>
    [] r.op = "atomic" -> First(Ways(r.l, t, s))
    [] r.op = "back" -> LET n == s.groups[r.n][2] - s.groups[r.n][1]
                        IN IF r.n \in DOMAIN s.groups /\ s.pos + n <= Len(t)
                                /\ SameWord(Word(t, s.groups[r.n]), Word(t, <<s.pos, s.pos + n>>))
                           THEN <<[s EXCEPT !.pos = @ + n]>> ELSE <<>>
    [] r.op = "if" -> Ways(IF r.n \in DOMAIN s.groups THEN r.l ELSE r.r, t, s)

(* Iterations of r.l, of which `done` are done; those beyond the least number are not empty. *)
Times(r, t, s, done) ==
  LET step == SelectSeq(Ways(r.l, t, s), LAMBDA w : done < r.min \/ w.pos # s.pos)
      more == IF done < r.max THEN Each(step, LAMBDA w : Times(r, t, w, done + 1)) ELSE <<>>
      stop == IF done >= r.min THEN <<s>> ELSE <<>>
  IN IF r.mode = "reluctant" THEN stop \o more ELSE more \o stop

----------------------------------------------------------------------------
(* The parameters of Search. *)
BuiltOf(r) == Build(Chars(Printed(r)), Flags)
FirstMatchOf(p, c) == Match(p.objs, p.top, c)
NextMatchOf(p, c) == MatchNext(p.objs, p.top, c)

WaysFrom0(r, t) == Ways(r, t, [pos |-> 0, groups |-> <<>>])
MeansOf(r, t) == \E w \in ToSet(WaysFrom0(r, t)) : w.pos = Len(t)

----------------------------------------------------------------------------
(* MatchResult: where a group lies, <<-1, -1>> when it took no part. *)
GroupOf(n) ==
  LET i == IndexOf(ctx, n)
  IN IF i < 0 THEN <<-1, -1>>
     ELSE LET g == ctx.groups[i + 1] IN IF g.start < g.end THEN <<g.start, g.end>> ELSE <<g.end, g.start>>

AllWays == WaysFrom0(re, text)
FullWays == SelectSeq(AllWays, LAMBDA w : w.pos = Len(text))

(* Of several ways to match the whole text the groups tell the preferred one: what was tried before and   *)
(* given up has left no trace in them.                                                                    *)
GroupsOfPreferred ==
  phase = "matched" /\ FullWays # <<>> =>
    \A n \in 1..prog.max :
      GroupOf(n) = (IF n \in DOMAIN Head(FullWays).groups THEN Head(FullWays).groups[n] ELSE <<-1, -1>>)

(* Where in `all`, after place n, position p comes next; past the end when it does not. *)
After(all, n, p) ==
  LET later == {k \in (n + 1)..Len(all) : all[k].pos = p} IN IF later = {} THEN Len(all) + 1 ELSE Min(later)

(* The matches MatchNext gives one after the other come in the order of preference, each at most once: a  *)
(* greedy repetition first takes all it can, a reluctant one as little as it has to.                      *)
VisitsInOrder == LET all == AllWays IN FoldLeft(LAMBDA n, p : After(all, n, p), 0, visited) <= Len(all)
=============================================================================
