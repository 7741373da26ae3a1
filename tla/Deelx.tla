------------------------------- MODULE Deelx -------------------------------
(***************************************************************************)
(* The backtracking matcher of plugins/deelx.h, which decides which        *)
(* performance counters a plugin reports.  A compiled pattern P is the     *)
(* builder's m_objlist, a sequence of elements that name each other by     *)
(* their index in it.  An element changes the context c and says in c.ok   *)
(* whether it matched: Match finds its first match from c.pos, MatchNext   *)
(* undoes the match that is on top of the stack and finds the next one.    *)
(***************************************************************************)
EXTENDS DeelxContext

RECURSIVE Match(_, _, _), MatchNext(_, _, _)

(* A list matches its elements one after the other and goes back to the last that can match otherwise. *)
(* A repeated element is a list of that many copies of it.                                             *)
RECURSIVE Advance(_, _, _, _), Retreat(_, _, _, _)

Proceed(P, es, n, m) == IF m.ok THEN Advance(P, es, n + 1, m) ELSE Retreat(P, es, n - 1, m)
Advance(P, es, n, c) == IF n > Len(es) THEN Yes(c) ELSE Proceed(P, es, n, Match(P, es[n], c))
Retreat(P, es, n, c) == IF n = 0 THEN No(c) ELSE Proceed(P, es, n, MatchNext(P, es[n], c))

InOrder(e) == IF e.rightleft THEN Reverse(e.list) ELSE e.list
Copies(e) == [i \in 1..e.min |-> e.elx]

RECURSIVE TryRest(_, _, _, _)
OrRest(P, es, n, m) == IF m.ok THEN Push(m, <<n>>) ELSE TryRest(P, es, n + 1, m)
TryRest(P, es, n, c) == IF n > Len(es) THEN No(c) ELSE OrRest(P, es, n, Match(P, es[n], c))

MatchNextAlternative(P, e, c) == LET n == Top(c, 0) IN OrRest(P, e.list, n, MatchNext(P, e.list[n], Pop(c, 1)))

(* CRepeatElxT::MatchForward: one more iteration, which must not be empty. *)
NotEmpty(P, e, c, m) == IF ~m.ok \/ m.pos # c.pos THEN m ELSE NotTwiceEmpty(c, MatchNext(P, e.elx, m))
MatchForward(P, e, c) == NotEmpty(P, e, c, Match(P, e.elx, c))

(* As many iterations as there are: <<how many, the context after the attempt that failed>>. *)
RECURSIVE Forward(_, _, _, _)
OnceMore(P, e, n, m) == IF m.ok THEN Forward(P, e, n + 1, m) ELSE <<n, m>>

ForwardOneTooMany(P, e, n, c) ==   \* mutant: one iteration too many
  IF n > e.max - e.min THEN <<n, c>> ELSE OnceMore(P, e, n, MatchForward(P, e, c))

Forward(P, e, n, c) == IF n >= e.max - e.min THEN <<n, c>> ELSE OnceMore(P, e, n, MatchForward(P, e, c))

GreedyVart(P, e, c) == GreedyStarts(c, Forward(P, e, 0, c))

(* One iteration matches in another way, m; f is what can follow it. *)
GreedyGoesOn(c, m, f) ==
  IF f[2].pos \in ToSet(Ends(c)) THEN Greedy(c, Restore(f[2], m), Ends(c), Top(c, 0))
  ELSE Greedy(c, f[2], Append(Ends(c), f[2].pos), f[1])

GreedyNext(P, e, c, m) ==
  IF ~m.ok THEN Greedy(c, m, Ends(c), Top(c, 0) - 1)
  ELSE IF m.pos = Top(c, 1) THEN GivenUp(c, m) ELSE GreedyGoesOn(c, m, Forward(P, e, Top(c, 0), m))

GreedyNextVart(P, e, c) ==
  LET rest == Pop(c, Top(c, 2) + 5)
  IN IF Top(c, 0) = 0 THEN No(rest) ELSE GreedyNext(P, e, c, MatchNext(P, e.elx, rest))

(* Another match of an iteration that began at `from` and does not end there. *)
RECURSIVE MovedOn(_, _, _, _)
MovedOn(P, e, from, c) == IF ~c.ok \/ c.pos # from THEN c ELSE MovedOn(P, e, from, MatchNext(P, e.elx, c))

RECURSIVE ReluctantBack(_, _, _, _)
OrBack(P, e, from, n, m) == IF m.ok THEN Push(m, <<from, n>>) ELSE ReluctantBack(P, e, n - 1, m)
ReluctantBack(P, e, n, c) ==
  IF n = 0 THEN No(c)
  ELSE OrBack(P, e, Top(c, 0), n, MovedOn(P, e, Top(c, 0), MatchNext(P, e.elx, Pop(c, 1))))

ReluctantNextVart(P, e, c) ==
  LET n == Top(c, 0)
      popped == Pop(c, 1)
  IN OrBack(P, e, c.pos, n + 1,
            IF n < e.max - e.min THEN MovedOn(P, e, c.pos, Match(P, e.elx, popped)) ELSE No(popped))

(* A repetition is its fixed part, followed by its variable one. *)
Vart(P, e, c) == IF e.kind = "reluctant" THEN ReluctantVart(c) ELSE GreedyVart(P, e, c)
NextVart(P, e, c) == IF e.kind = "reluctant" THEN ReluctantNextVart(P, e, c) ELSE GreedyNextVart(P, e, c)

AndVart(P, e, m) == IF m.ok THEN Vart(P, e, m) ELSE m
OrFixed(P, e, m) == IF m.ok THEN m ELSE AndVart(P, e, Retreat(P, Copies(e), e.min, m))

MatchRepeat(P, e, c) == AndVart(P, e, Advance(P, Copies(e), 1, c))
MatchNextRepeat(P, e, c) == OrFixed(P, e, NextVart(P, e, c))

MatchAssert(P, e, c) == Asserted(e, c, PutBack(Match(P, e.elx, c), c))

(* A condition on a group, on an assertion, or on nothing, which leaves m.ok; a branch is 0 when it is missing. *)
Branch(P, id, yes, c, ncsize) == Chosen(IF id = 0 THEN Yes(c) ELSE Match(P, id, c), ncsize, yes)
Decide(P, e, m, ncsize) == Branch(P, IF m.ok THEN e.yes ELSE e.no, IF m.ok THEN 1 ELSE 0, m, ncsize)

MatchCondition(P, e, c) ==
  LET seen == [c EXCEPT !.ok = e.number < Len(c.index) /\ c.index[e.number + 1] >= 0]
      asked == IF e.ask = 0 THEN Yes(c) ELSE PutBack(Match(P, e.ask, c), c)
  IN Decide(P, e, IF e.number >= 0 THEN seen ELSE asked, c.size)

MatchNextCondition(P, e, c) ==
  LET branch == IF Top(c, 0) = 1 THEN e.yes ELSE e.no
  IN Chosen(IF branch = 0 THEN No(Pop(c, 2)) ELSE MatchNext(P, branch, Pop(c, 2)), Top(c, 1), Top(c, 0))

(* A set of characters, with sets inside it that are asked after its own. *)
HasChar(P, e, c) ==
  \/ Ahead(e, c, 1)[1] \in e.chars
  \/ \E i \in DOMAIN e.embeds : Match(P, e.embeds[i], c).ok

MatchRange(P, e, c) == IF HasRoom(e, c, 1) /\ (HasChar(P, e, c) <=> e.yes) THEN Move(e, c, 1) ELSE No(c)

MatchDelegate(P, e, c) ==
  IF e.elx = 0 THEN Yes(c)
  ELSE IF c.limit <= 0 THEN No(c)
  ELSE [Match(P, e.elx, [c EXCEPT !.limit = @ - 1]) EXCEPT !.limit = @ + 1]

----------------------------------------------------------------------------
Match(P, id, c) ==
  LET e == P[id]
  IN CASE e.kind = "empty" -> Yes(c)
       [] e.kind = "global" -> [c EXCEPT !.ok = (c.pos = c.begin)]
       [] e.kind = "string" -> MatchString(e, c)
       [] e.kind = "range" -> MatchRange(P, e, c)
       [] e.kind = "boundary" -> MatchBoundary(e, c)
       [] e.kind = "bracket" -> MatchBracket(e, c)
       [] e.kind = "backref" -> MatchBackref(e, c)
       [] e.kind = "delegate" -> MatchDelegate(P, e, c)
       [] e.kind = "alternative" -> TryRest(P, e.list, 1, c)
       [] e.kind = "list" -> Advance(P, InOrder(e), 1, c)
       [] e.kind = "repeat" -> Advance(P, Copies(e), 1, c)
       [] e.kind \in {"greedy", "reluctant"} -> MatchRepeat(P, e, c)
       [] e.kind = "possessive" -> Keep1(MatchRepeat(P, e, c), c)
       [] e.kind = "independent" -> Keep1(Match(P, e.elx, c), c)
       [] e.kind = "assert" -> MatchAssert(P, e, c)
       [] e.kind = "condition" -> MatchCondition(P, e, c)

MatchNext(P, id, c) ==
  LET e == P[id]
  IN CASE e.kind \in {"empty", "global", "boundary"} -> No(c)
       [] e.kind = "string" -> MatchNextString(e, c)
       [] e.kind = "range" -> No(Move(e, c, -1))
       [] e.kind = "bracket" -> MatchNextBracket(e, c)
       [] e.kind = "backref" -> MatchNextBackref(c)
       [] e.kind = "delegate" -> IF e.elx = 0 THEN No(c) ELSE MatchNext(P, e.elx, c)
       [] e.kind = "alternative" -> MatchNextAlternative(P, e, c)
       [] e.kind = "list" -> Retreat(P, InOrder(e), Len(e.list), c)
       [] e.kind = "repeat" -> Retreat(P, Copies(e), e.min, c)
       [] e.kind \in {"greedy", "reluctant"} -> MatchNextRepeat(P, e, c)
       [] e.kind \in {"possessive", "independent"} -> Forget(c)
       [] e.kind = "assert" -> MatchNextAssert(c)
       [] e.kind = "condition" -> MatchNextCondition(P, e, c)
=============================================================================
