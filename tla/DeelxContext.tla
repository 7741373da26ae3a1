---------------------------- MODULE DeelxContext ----------------------------
(***************************************************************************)
(* The context of a match of plugins/deelx.h: the position in the text, a  *)
(* stack of integers and the groups.  Here is what an element does with it *)
(* that asks no other element, and what those that hold others leave on    *)
(* the stack for MatchNext to find.                                        *)
(***************************************************************************)
EXTENDS Integers, Sequences, SequencesExt, FiniteSets

Letters == [upper |-> "ABCDEFGHIJKLMNOPQRSTUVWXYZ", lower |-> "abcdefghijklmnopqrstuvwxyz"]

(* The characters of a string. *)
Chars(s) == [i \in 1..Len(s) |-> SubSeq(s, i, i)]

Digits == ToSet(Chars("0123456789"))
WordChars == ToSet(Chars(Letters.upper)) \cup ToSet(Chars(Letters.lower)) \cup Digits \cup {"_"}
UpperOf == [i \in ToSet(Chars(Letters.lower)) |->
              Chars(Letters.upper)[CHOOSE k \in 1..26 : Chars(Letters.lower)[k] = i]]
LowerOf == [i \in ToSet(Chars(Letters.upper)) |->
              Chars(Letters.lower)[CHOOSE k \in 1..26 : Chars(Letters.upper)[k] = i]]
toupper(ch) == IF ch \in DOMAIN UpperOf THEN UpperOf[ch] ELSE ch
tolower(ch) == IF ch \in DOMAIN LowerOf THEN LowerOf[ch] ELSE ch

----------------------------------------------------------------------------
(* CContext.  `groups` is m_capturestack in units of four integers, of which only the first `size` are  *)
(* in use: Restore shortens a buffer without clearing it, and a back reference may read what is left    *)
(* behind.  `index` is m_captureindex in the same units, from group 0 on; a negative one is no group.   *)
Context(text, start) ==
  [ok |-> TRUE, pos |-> start, text |-> text, stack |-> <<>>, groups |-> <<>>, size |-> 0, index |-> <<>>,
   begin |-> start, lastBegin |-> -1, z |-> 0, limit |-> 100]

Yes(c) == [c EXCEPT !.ok = TRUE]
No(c) == [c EXCEPT !.ok = FALSE]
Push(c, ints) == [c EXCEPT !.stack = @ \o ints]
Top(c, k) == c.stack[Len(c.stack) - k]
Pop(c, k) == [c EXCEPT !.stack = SubSeq(@, 1, Len(@) - k)]

RestoreKeepsPosition(c, shot) ==   \* mutant: the position is not put back
  [c EXCEPT !.stack = SubSeq(@, 1, Len(shot.stack)), !.size = shot.size]

(* CContextShot::Restore, and the same three assignments where elements make them one by one. *)
Restore(c, shot) == [c EXCEPT !.stack = SubSeq(@, 1, Len(shot.stack)), !.size = shot.size, !.pos = shot.pos]

(* Elements that match at most once step over what they matched, and back. *)
Step(e, n) == IF e.rightleft THEN -n ELSE n
Move(e, c, n) == [c EXCEPT !.pos = @ + Step(e, n), !.ok = TRUE]

(* The n characters before the position, or after it; in a match from the right, before it. *)
HasRoom(e, c, n) == IF e.rightleft THEN c.pos >= n ELSE c.pos + n <= Len(c.text)
Ahead(e, c, n) == IF e.rightleft THEN SubSeq(c.text, c.pos - n + 1, c.pos) ELSE SubSeq(c.text, c.pos + 1, c.pos + n)

(* CBufferRefT::nCompare and nCompareNoCase, as equality. *)
Same(s, t, ignorecase) == \A i \in DOMAIN s : s[i] = t[i] \/ (ignorecase /\ toupper(s[i]) = toupper(t[i]))

MatchString(e, c) ==
  LET n == Len(e.chars) IN
  IF HasRoom(e, c, n) /\ Same(e.chars, Ahead(e, c, n), e.ignorecase) THEN Move(e, c, n) ELSE No(c)

MatchNextString(e, c) == No(Move(e, c, -Len(e.chars)))

(* What lies on both sides of the position; 0 past the ends of the text. *)
Left(c) == IF c.pos > 0 THEN c.text[c.pos] ELSE "NUL"
Right(c) == IF c.pos < Len(c.text) THEN c.text[c.pos + 1] ELSE "NUL"

Boundary(type, c) ==
  LET n == Len(c.text)
  IN CASE type = "FILE_BEGIN" -> c.pos <= 0
       [] type = "FILE_END" -> c.pos >= n
       [] type = "FILE_END_N" -> \/ c.pos >= n
                                 \/ c.text[n] = "\n" /\ \/ c.pos = n - 1
                                                        \/ c.pos = n - 2 /\ c.text[n - 1] = "\r"
       [] type = "LINE_BEGIN" -> c.pos <= 0 \/ Left(c) = "\n" \/ (Left(c) = "\r" /\ Right(c) # "\n")
       [] type = "LINE_END" -> c.pos >= n \/ Right(c) = "\r" \/ (Right(c) = "\n" /\ Left(c) # "\r")
       [] type = "WORD_EDGE" -> (Left(c) \in WordChars) # (Right(c) \in WordChars)

MatchBoundary(e, c) == [c EXCEPT !.ok = (Boundary(e.type, c) <=> e.yes)]

----------------------------------------------------------------------------
(* Groups.  CheckCaptureIndex looks down from `index` for an entry of the group that is in use. *)
CheckCaptureIndex(c, index, number) ==
  LET from == IF index >= c.size THEN c.size - 1 ELSE index
      found == {i \in 0..from : c.groups[i + 1].number = number}
  IN IF found = {} THEN -1 ELSE CHOOSE i \in found : \A j \in found : j <= i

IndexOf(c, number) == CheckCaptureIndex(c, c.index[number + 1], number)

(* CBufferT::Prepare(n, -1). *)
PrepareIndex(c, n) == [c EXCEPT !.index = [i \in 1..Max({n + 1, Len(@)}) |-> IF i <= Len(@) THEN @[i] ELSE -1]]

(* Pushing an entry overwrites what an entry given back has left in its place. *)
PushGroup(c, number, z) ==
  [c EXCEPT !.groups = SubSeq(@, 1, c.size) \o <<[number |-> number, start |-> c.pos, end |-> -1, z |-> z]>>
                       \o SubSeq(@, c.size + 2, Len(@)),
            !.size = @ + 1]

Entry(c, i) == c.groups[i + 1]
WithEntry(c, i, g) == [c EXCEPT !.groups = [@ EXCEPT ![i + 1] = g]]

OpenGroup(e, c0) ==
  LET c == PrepareIndex(c0, e.number)
      i == IndexOf(c, e.number)
  IN IF i >= 0 /\ Entry(c, i).end < 0
     THEN Yes(WithEntry(c, i, [Entry(c, i) EXCEPT !.z = @ - 1]))
     ELSE Yes(PushGroup([c EXCEPT !.index[e.number + 1] = c.size], e.number, 0))

CloseGroup(e, c) ==
  LET i == IndexOf(c, e.number)
  IN IF i < 0 THEN Yes(c)
     ELSE IF Entry(c, i).z < 0 THEN Yes(WithEntry(c, i, [Entry(c, i) EXCEPT !.z = @ + 1]))
     ELSE Yes([WithEntry(c, i, [Entry(c, i) EXCEPT !.end = c.pos, !.z = c.z]) EXCEPT !.z = @ + 1])

MatchBracket(e, c) == IF e.number < 0 THEN No(c) ELSE IF e.right THEN CloseGroup(e, c) ELSE OpenGroup(e, c)

(* What MatchNext does of a bracket: an entry counts back, or is opened again, or is given back. *)
Reopen(c, i) ==
  IF Entry(c, i).end >= 0 THEN WithEntry(c, i, [Entry(c, i) EXCEPT !.end = -1, !.z = 0])
  ELSE WithEntry(c, i, [Entry(c, i) EXCEPT !.z = @ - 1])

GiveBack(e, c, i) ==
  LET left == [c EXCEPT !.size = @ - 1] IN [left EXCEPT !.index[e.number + 1] = CheckCaptureIndex(left, i, e.number)]

UnopenKeeps(e, c, i) ==   \* mutant: a group that is given back stays
  IF Entry(c, i).z < 0 THEN WithEntry(c, i, [Entry(c, i) EXCEPT !.z = @ + 1]) ELSE c

Unopen(e, c, i) ==
  IF Entry(c, i).z < 0 THEN WithEntry(c, i, [Entry(c, i) EXCEPT !.z = @ + 1]) ELSE GiveBack(e, c, i)

MatchNextBracket(e, c) ==
  LET i == IndexOf(c, e.number)
  IN IF i < 0 THEN No(c) ELSE IF e.right THEN No(Reopen(c, i)) ELSE No(Unopen(e, c, i))

(* A back reference does not look whether the group is still in use. *)
MatchBackref(e, c) ==
  IF e.number < 0 \/ e.number >= Len(c.index) \/ c.index[e.number + 1] < 0 THEN No(c)
  ELSE LET g == c.groups[c.index[e.number + 1] + 1]
           end == IF g.end < 0 THEN c.pos ELSE g.end
           word == IF g.start < end THEN SubSeq(c.text, g.start + 1, end) ELSE SubSeq(c.text, end + 1, g.start)
           n == Len(word)
       IN IF HasRoom(e, c, n) /\ Same(word, Ahead(e, c, n), e.ignorecase)
          THEN Move(e, Push(c, <<c.pos>>), n) ELSE No(c)

MatchNextBackref(c) == No([Pop(c, 1) EXCEPT !.pos = Top(c, 0)])

----------------------------------------------------------------------------
(* A greedy repetition.  f is <<how many iterations there were, the context after the one that failed>>. *)
GreedyStarts(c, f) == Yes(Push(f[2], <<c.size, Len(c.stack), f[2].pos, 1, c.pos, f[1]>>))
(* The next match of the iterations.  nbegin99 is the list of positions at which they have ended before; *)
(* it lies on the stack below its length.                                                                *)
Ends(c) == SubSeq(c.stack, Len(c.stack) - 2 - Top(c, 2), Len(c.stack) - 3)

Greedy(c, d, ends, n) == Yes(Push(d, <<Top(c, Top(c, 2) + 4), Top(c, Top(c, 2) + 3)>> \o ends \o <<Len(ends), Top(c, 1), n>>))

(* Every iteration has been given back: the repetition is given back too. *)
GivenUp(c, m) == No([m EXCEPT !.stack = SubSeq(@, 1, Top(c, Top(c, 2) + 3)), !.size = Top(c, Top(c, 2) + 4)])

(* An iteration must not be empty. *)
NotTwiceEmpty(c, m) == IF ~m.ok \/ m.pos # c.pos THEN m ELSE No(Restore(m, c))

ReluctantVart(c) == Yes(Push(c, <<0>>))

(* Assertions, independent groups and possessive repetitions keep the first match of what they hold and   *)
(* forget how it was found; MatchNext gives back its groups.                                              *)
PutBack(m, c) == [m EXCEPT !.stack = SubSeq(@, 1, Len(c.stack)), !.pos = c.pos]
Asserted(e, c, m) == IF m.ok = e.yes THEN Yes(Push(m, <<c.size>>)) ELSE No([m EXCEPT !.size = c.size])
MatchNextAssert(c) == No([Pop(c, 1) EXCEPT !.size = Top(c, 0)])

Keep1(m, c) ==
  LET kept == [m EXCEPT !.stack = SubSeq(@, 1, Len(c.stack))]
  IN IF m.ok THEN Push(kept, <<c.pos, c.size>>) ELSE kept

ForgetKeepsGroups(c) == No([Pop(c, 2) EXCEPT !.pos = Top(c, 1)])   \* mutant: the groups inside are not given back

Forget(c) == No([Pop(c, 2) EXCEPT !.size = Top(c, 0), !.pos = Top(c, 1)])

(* A condition leaves where it began and which branch it took. *)
Chosen(m, ncsize, yes) == IF m.ok THEN Push(m, <<ncsize, yes>>) ELSE [m EXCEPT !.size = ncsize]
=============================================================================
