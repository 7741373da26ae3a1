------------------------------- MODULE Search -------------------------------
(***************************************************************************)
(* One call of CRegexpT::MatchExact: the loop that asks for one match      *)
(* after the other until one of them takes the whole text.  What compiles  *)
(* a pattern and what finds the next match are parameters: the loop sees   *)
(* of them only the context they hand back.                                *)
(***************************************************************************)
EXTENDS DeelxContext

CONSTANTS
  Built(_),          \* the elements that an expression's pattern is compiled to
  FirstMatch(_, _),  \* the context after the first match of such elements in a prepared context
  NextMatch(_, _),   \* the context after the next one
  Means(_, _)        \* is the whole text one of those the author of an expression means?

VARIABLES re,        \* the expression that is being matched
          prog,      \* m_builder: its elements, as compiled from the pattern
          text,      \* the argument of MatchExact
          ctx,       \* the CContext of MatchExact
          visited,   \* the ends of the matches MatchExact has seen
          phase      \* "idle", "running", "matched" or "failed"

matchVars == <<re, prog, text, ctx, visited, phase>>

Compiled(r) == [re |-> r, prog |-> Built(r)]

(* A CRegexpT that has compiled nothing yet: it has no elements. *)
Unset == [re |-> [op |-> "empty"], prog |-> <<>>]

Idle ==
  /\ re = Unset.re /\ prog = Unset.prog
  /\ text = <<>> /\ ctx = Context(<<>>, 0) /\ visited = <<>>
  /\ phase = "idle"

Release ==
  /\ re' = Unset.re /\ prog' = Unset.prog
  /\ text' = <<>> /\ ctx' = Context(<<>>, 0) /\ visited' = <<>>
  /\ phase' = "idle"

----------------------------------------------------------------------------
(* MatchExact up to its loop: group 0 lies at the bottom of the groups. *)
Prepared(p, t) ==
  LET start == IF "RIGHTTOLEFT" \in p.flags THEN Len(t) ELSE 0
      c == PrepareIndex(Context(t, start), p.max)
  IN [PushGroup(c, 0, -1) EXCEPT !.index[1] = 0]

EndPos(p, t) == IF "RIGHTTOLEFT" \in p.flags THEN 0 ELSE Len(t)

(* What MatchExact does with a match, or with none. *)
Settle(p, t, seen, c) ==
  /\ visited' = IF c.ok THEN Append(seen, c.pos) ELSE seen
  /\ ctx' = IF c.ok /\ c.pos = EndPos(p, t) THEN [c EXCEPT !.groups[1].end = c.pos] ELSE c
  /\ phase' = IF ~c.ok THEN "failed" ELSE IF c.pos = EndPos(p, t) THEN "matched" ELSE "running"

MatchExact(compiled, t) ==
  /\ re' = compiled.re
  /\ prog' = compiled.prog
  /\ text' = t
  /\ LET p == compiled.prog IN Settle(p, t, <<>>, FirstMatch(p, Prepared(p, t)))

(* Two empty matches in a row at the beginning end the search. *)
WentOn(c) ==
  IF c.ok /\ c.lastBegin = c.begin /\ c.begin = c.pos
  THEN ctx' = c /\ phase' = "failed" /\ UNCHANGED visited
  ELSE Settle(prog, text, visited, [c EXCEPT !.lastBegin = IF c.ok THEN c.pos ELSE @])

GoOn ==
  /\ phase = "running"
  /\ WentOn(NextMatch(prog, ctx))
  /\ UNCHANGED <<re, prog, text>>

----------------------------------------------------------------------------
(* MatchExact answers for the whole text what the author of the pattern means: it neither stops at a      *)
(* match that could still be continued or given up for another, nor takes a part for the whole.           *)
SearchIsRight ==
  /\ phase = "matched" => Means(re, text)
  /\ phase = "failed" => ~Means(re, text)

(* A search that finds nothing has taken back all it has tried: whatever the elements put on the stack    *)
(* and whichever groups they opened on the way, at the end there is what there was at the beginning.      *)
TakenBack ==
  phase = "failed" /\ ~ctx.ok =>
    LET c == Prepared(prog, text)
    IN ctx.pos = c.pos /\ ctx.stack = c.stack /\ SubSeq(ctx.groups, 1, ctx.size) = c.groups
=============================================================================
