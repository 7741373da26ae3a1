--------------------------- MODULE DeelxBuilder ---------------------------
(***************************************************************************)
(* The compiler of plugins/deelx.h: CBuilderT reads a pattern character    *)
(* by character, three tokens ahead, and builds the elements of Deelx.     *)
(* `b` is the builder: the pattern and the next position in it, the token  *)
(* window, the flags that inline options may change, the elements built so *)
(* far, and in b.e the element a Build function returns.                   *)
(***************************************************************************)
EXTENDS Deelx, TLC

Nul == ""               \* what lies past the end of the pattern
DigitLimit == 6         \* sizeof(CHART) * 3, of a build with 16-bit characters

Printable == Chars(" !\"#$%&'()*+,-./0123456789:;<=>?@ABCDEFGHIJKLMNOPQRSTUVWXYZ[\\]^_")
             \o <<"BACKQUOTE">> \o Chars("abcdefghijklmnopqrstuvwxyz{|}~")
Spaces == {" ", "\t", "\n", "\r", "\f", "VT"}
ByCode == [n \in 32..126 |-> Printable[n - 31]]
          @@ (9 :> "\t") @@ (10 :> "\n") @@ (11 :> "VT") @@ (12 :> "\f") @@ (13 :> "\r")
Ord == AntiFunction(ByCode)

(* The escapes that name a control character. *)
Control == [a |-> "BEL", f |-> "\f", n |-> "\n", r |-> "\r", t |-> "\t", v |-> "VT", e |-> "ESC"]

(* The letters that have a meaning after a backslash, and the characters that have one outside of a set. *)
Classes == ToSet(Chars("AZzwWsSBdDkg"))
Metas == ToSet(Chars("*+?.{})|$("))

HexDigits == Chars("0123456789abcdef")
HexValue(s) == FoldLeft(LAMBDA n, ch : (16 * n + SelectInSeq(HexDigits, LAMBDA d : d = tolower(ch)) - 1) % 65536, 0, s)
HexChar(n) == IF n \in DOMAIN ByCode THEN ByCode[n] ELSE "other"

----------------------------------------------------------------------------
(* Tokens: type 1 has a meaning of its own, type 0 is itself. *)
Token(ch, type) == [ch |-> ch, type |-> type, pos |-> 1]
Is(t, ch) == t.type = 1 /\ t.ch = ch
IsAny(t, chs) == t.type = 1 /\ t.ch \in chs
AtEnd(b) == Is(b.curr, Nul)

At(b, k) == IF b.pos + k <= Len(b.pattern) THEN b.pattern[b.pos + k] ELSE Nul
Took(b, ch, type, n) == [b EXCEPT !.nex2 = [ch |-> ch, type |-> type, pos |-> b.pos], !.pos = @ + n]
InCharset(b) == b.depth > 0

(* The length of the longest run of characters of a set from the k-th on, of n at most. *)
Run(b, k, set, n) == CHOOSE i \in 0..n : /\ \A j \in 0..(i - 1) : At(b, k + j) \in set
                                         /\ i = n \/ At(b, k + i) \notin set
RunTo(b, k, stop) == CHOOSE i \in k..(k + Len(b.pattern)) :
                       /\ At(b, i) \in stop \cup {Nul}
                       /\ \A j \in k..(i - 1) : At(b, j) \notin stop \cup {Nul}
IsHex == ToSet(HexDigits) \cup {toupper(ch) : ch \in ToSet(HexDigits)}
HexFrom(b, k, n) == HexChar(HexValue(SubSeq(b.pattern, b.pos + k, b.pos + k + n - 1)))

TakeHex(b, max) ==
  LET red == Run(b, 2, IsHex, max)
  IN IF red > 0 THEN Took(b, HexFrom(b, 2, red), 0, 2 + red) ELSE Took(b, At(b, 1), 0, 2)

TakeBracedHex(b) ==
  LET red == Run(b, 3, IsHex, 8) IN Took(b, HexFrom(b, 3, red), 0, RunTo(b, 2 + red, {"}"}) + 1)

RECURSIVE GetNext2(_)
Skip(b, n) == GetNext2([b EXCEPT !.pos = @ + n])
Unquote(b) == Skip([b EXCEPT !.quoted = FALSE, !.quoteFun = "none"], 2)
Quote(b, fun) == Skip([b EXCEPT !.quoted = TRUE, !.quoteFun = IF @ = "none" THEN fun ELSE @], 2)

TakeEscape(b) ==
  LET ch1 == At(b, 1)
  IN CASE ch1 \in Digits -> Took(b, "\\", 1, 1)
       [] ch1 \in Classes -> Took(b, ch1, 1, 2)
       [] ch1 = "b" -> IF InCharset(b) THEN Took(b, "BS", 0, 2) ELSE Took(b, "b", 1, 2)
       [] ch1 \in {"x", "u"} -> IF At(b, 2) = "{" THEN TakeBracedHex(b) ELSE TakeHex(b, IF ch1 = "x" THEN 2 ELSE 4)
       [] ch1 \in DOMAIN Control -> Took(b, Control[ch1], 0, 2)
       [] ch1 = "G" -> IF InCharset(b) THEN Skip(b, 2) ELSE Took(b, "G", 1, 2)
       [] ch1 = "L" -> Quote(b, "tolower")
       [] ch1 = "U" -> Quote(b, "toupper")
       [] ch1 = "Q" -> Quote(b, "none")
       [] ch1 = "E" -> Unquote(b)
       [] ch1 = Nul -> Took(b, "\\", 0, 1)
       [] OTHER -> Took(b, ch1, 0, 2)

Quoted(b) ==
  LET ch == At(b, 0)
  IN IF ch = "\\" /\ At(b, 1) = "E" THEN Unquote(b)
     ELSE Took(b, CASE b.quoteFun = "tolower" -> tolower(ch) [] b.quoteFun = "toupper" -> toupper(ch)
                    [] OTHER -> ch, 0, 1)

(* A remark without its ')' takes the rest of the pattern and leaves the token before it in place. *)
SkipRemark(b) ==
  LET n == RunTo(b, 2, {")"}) IN IF At(b, n) = ")" THEN Skip(b, n + 1) ELSE [b EXCEPT !.pos = @ + n + 1]

(* Whether a special character has its meaning here. *)
Special(b, ch) ==
  CASE ch \in Metas -> ~InCharset(b)
    [] ch = "-" -> InCharset(b)
    [] ch = "[" -> ~InCharset(b) \/ At(b, 1) = ":"
    [] ch = "]" -> InCharset(b)
    [] ch = ":" -> Is(b.next, "[")
    [] ch = "^" -> ~InCharset(b) \/ Is(b.next, "[") \/ (Is(b.curr, "[") /\ Is(b.next, ":"))
    [] OTHER -> FALSE

Depth(b, ch) == IF ~Special(b, ch) THEN 0 ELSE IF ch = "[" THEN 1 ELSE IF ch = "]" THEN -1 ELSE 0

GetNext2(b) ==
  LET ch == At(b, 0)
  IN CASE b.pos > Len(b.pattern) -> Took(b, Nul, 1, 0)
       [] b.pos <= Len(b.pattern) /\ b.quoted -> Quoted(b)
       [] ~b.quoted /\ ch = "\\" -> TakeEscape(b)
       [] ~b.quoted /\ ch = "(" /\ At(b, 1) = "?" /\ At(b, 2) = "#" -> SkipRemark(b)
       [] ~b.quoted /\ ch = "#" /\ "EXTENDED" \in b.global -> Skip(b, RunTo(b, 1, {"\n", "\r"}))
       [] ~b.quoted /\ ch \in Spaces /\ "EXTENDED" \in b.global -> Skip(b, 1)
       [] OTHER -> Took([b EXCEPT !.depth = @ + Depth(b, ch)], ch, IF Special(b, ch) THEN 1 ELSE 0, 1)

MoveNext(b) == GetNext2([b EXCEPT !.curr = b.next, !.next = b.nex2])

RECURSIVE SkipSpaces(_)
SkipSpaces(b) == IF b.curr.ch \in Spaces THEN SkipSpaces(MoveNext(b)) ELSE b

(* The characters up to one of `stop`, in b.word; where `typed`, a quoted one does not stop. *)
RECURSIVE Collect(_, _, _)
Collect(b, stop, typed) ==
  IF b.curr.ch \in stop \cup {Nul} /\ (typed => b.curr.type = 1) THEN b
  ELSE Collect(MoveNext([b EXCEPT !.word = Append(@, b.curr.ch)]), stop, typed)

(* ReadDec: whether there is a number, the number, and what follows it. *)
ReadDec(s) ==
  LET Trim(t) == LET n == CHOOSE i \in 0..Len(t) : /\ \A j \in 1..i : t[j] \in Spaces
                                                   /\ i = Len(t) \/ t[i + 1] \notin Spaces
                 IN SubSeq(t, n + 1, Len(t))
      d == Trim(s)
      n == CHOOSE i \in 0..DigitLimit : /\ i <= Len(d) /\ \A j \in 1..i : d[j] \in Digits
                                        /\ i = DigitLimit \/ i = Len(d) \/ d[i + 1] \notin Digits
  IN [ok |-> n > 0, value |-> FoldLeft(LAMBDA k, ch : 10 * k + Ord[ch] - 48, 0, SubSeq(d, 1, n)),
      rest |-> Trim(SubSeq(d, n + 1, Len(d)))]

(* A name that is a number, and nothing else. *)
IsNumber(s) == ReadDec(s).ok /\ ReadDec(s).rest = <<>>

----------------------------------------------------------------------------
(* Keep: one more element.  An element of the stock is built anew where the code shares one: no element *)
(* of the stock ever changes.                                                                           *)
Keep(b, elx) == [b EXCEPT !.objs = Append(@, elx), !.e = Len(b.objs) + 1]

RightLeft(b) == "RIGHTTOLEFT" \in b.flags
Nocase(b) == "IGNORECASE" \in b.flags
Empty == [kind |-> "empty"]
CharRange(b, chars, yes, embeds) ==
  [kind |-> "range", chars |-> chars, yes |-> yes, embeds |-> embeds, rightleft |-> RightLeft(b)]

(* GetStockElx.  A match from the right counts two more characters as space. *)
Stock(b, ch) ==
  CASE ch = "." -> Keep(b, CharRange(b, IF "SINGLELINE" \in b.flags THEN {} ELSE {"\n"}, FALSE, <<>>))
    [] ch \in {"w", "W"} -> Keep(b, CharRange(b, WordChars, ch = "w", <<>>))
    [] ch \in {"d", "D"} -> Keep(b, CharRange(b, Digits, ch = "d", <<>>))
    [] ch \in {"s", "S"} -> Keep(b, CharRange(b, {" ", "\t", "\r", "\n"} \cup (IF RightLeft(b) THEN {"\f", "VT"} ELSE {}),
                                          ch = "s", <<>>))

(* CPosixElx's functions, external. *)
Posix ==
  LET Letter == DOMAIN UpperOf \cup DOMAIN LowerOf
      Graph == ToSet(Printable) \ {" "}
  IN [alnum |-> Letter \cup Digits, alpha |-> Letter, ascii |-> DOMAIN Ord,
      cntrl |-> DOMAIN Ord \ ToSet(Printable), digit |-> Digits, graph |-> Graph, lower |-> DOMAIN UpperOf,
      print |-> ToSet(Printable), punct |-> Graph \ (Letter \cup Digits), space |-> Spaces,
      upper |-> DOMAIN LowerOf, xdigit |-> IsHex, blank |-> {" ", "\t"}]

(* The class that ":alpha:" or ":^alpha:" names; "" when there is none. *)
PosixName(word) ==
  LET name == SubSeq(word, IF Len(word) > 1 /\ word[2] = "^" THEN 3 ELSE 2, Len(word))
      named == {f \in DOMAIN Posix : LET t == Append(Chars(f), ":") IN IsPrefix(t, name)}
  IN IF named = {} THEN "" ELSE CHOOSE f \in named : TRUE

BothCases(chars) == chars \cup {tolower(ch) : ch \in chars} \cup {toupper(ch) : ch \in chars}

RECURSIVE BuildCharset(_), CharsetRest(_, _, _, _)
Embed(b, yes, chars, embeds) == CharsetRest(b, yes, chars, Append(embeds, b.e))

CharsetRest(b, yes, chars, embeds) ==
  IF AtEnd(b) \/ Is(b.curr, "]")
  THEN Keep(MoveNext(b), CharRange(b, IF Nocase(b) THEN BothCases(chars) ELSE chars, yes, embeds))
  ELSE IF IsAny(b.curr, {"w", "W", "s", "S", "d", "D"}) \/ (Is(b.curr, "[") /\ Is(b.next, ":"))
  THEN Embed(BuildCharset(b), yes, chars, embeds)
  ELSE IF Is(b.next, "-") /\ b.nex2.type = 0
  THEN LET between == {ch \in DOMAIN Ord : Ord[b.curr.ch] <= Ord[ch] /\ Ord[ch] <= Ord[b.nex2.ch]}
       IN CharsetRest(MoveNext(MoveNext(MoveNext(b))), yes, chars \cup between, embeds)
  ELSE CharsetRest(MoveNext(b), yes, chars \cup {b.curr.ch}, embeds)

(* A class in brackets that is not one is read again as a set.  c is at what follows the "[", p at the   *)
(* next "]".                                                                                            *)
IsNegated(word) == Len(word) > 1 /\ word[2] = "^"

Bracketed(c, p) ==
  IF Is(c.curr, ":") /\ PosixName(p.word) # ""
  THEN Keep(MoveNext(p), CharRange(p, Posix[PosixName(p.word)], ~IsNegated(p.word), <<>>))
  ELSE CharsetRest(IF Is(c.curr, "^") THEN MoveNext(c) ELSE c, ~Is(c.curr, "^"), {}, <<>>)

CharsetAt(ch, c) ==
  IF ch # "[" THEN Stock(c, ch) ELSE Bracketed(c, Collect([c EXCEPT !.word = <<>>], {"]"}, TRUE))

BuildCharset(b) == CharsetAt(b.curr.ch, MoveNext(b))

Edge(b, type, yes) == Keep(MoveNext(b), [kind |-> "boundary", type |-> type, yes |-> yes])

BuildBoundary(b) ==
  LET ch == b.curr.ch
      multi == "MULTILINE" \in b.flags
  IN IF ch = "G" THEN Keep(MoveNext(b), IF "GLOBAL" \in b.flags THEN [kind |-> "global"] ELSE Empty)
     ELSE Edge(b, CASE ch = "^" -> IF multi THEN "LINE_BEGIN" ELSE "FILE_BEGIN"
                    [] ch = "$" -> IF multi THEN "LINE_END" ELSE "FILE_END"
                    [] ch \in {"b", "B"} -> "WORD_EDGE"
                    [] ch = "A" -> "FILE_BEGIN"
                    [] ch = "Z" -> "FILE_END_N"
                    [] ch = "z" -> "FILE_END",
               ch # "B")

(* A name or a number up to the mark that closes it; b.curr is the mark that opens it. *)
NameAt(b, closing) == MoveNext(Collect([MoveNext(b) EXCEPT !.word = <<>>], {closing}, FALSE))
Closing(ch) == IF ch = "<" THEN ">" ELSE "'"

(* An element that names a group by its number, or by a name that Build looks up in the end. *)
Named(elx, word) ==
  IF IsNumber(word) THEN [elx EXCEPT !.number = ReadDec(word).value, !.name = <<>>] ELSE [elx EXCEPT !.name = word]

KeepNamed(b, elx) == Keep(b, Named(elx, b.word))

RECURSIVE MoveOn(_, _)
MoveOn(b, n) == IF n = 0 THEN b ELSE MoveOn(MoveNext(b), n - 1)

(* As many digits as the token window holds. *)
NumberedBackref(b, elx) ==
  LET digit == [k \in 0..2 |-> IF k = 0 THEN b.curr ELSE IF k = 1 THEN b.next ELSE b.nex2]
      n == CHOOSE k \in 0..3 : /\ \A j \in 0..(k - 1) : digit[j].ch \in Digits
                               /\ k = 3 \/ digit[k].ch \notin Digits
      number == FoldLeft(LAMBDA m, k : 10 * m + Ord[digit[k - 1].ch] - 48, 0, [k \in 1..n |-> k])
  IN MoveOn(Keep([b EXCEPT !.word = <<>>], [elx EXCEPT !.number = number]), n)

BackrefAt(b) ==
  LET elx == [kind |-> "backref", number |-> -1, name |-> <<>>, rightleft |-> RightLeft(b), ignorecase |-> Nocase(b)]
  IN IF b.curr.ch \in {"<", "'"} THEN KeepNamed(NameAt(b, Closing(b.curr.ch)), elx) ELSE NumberedBackref(b, elx)

BuildBackref(b) == BackrefAt(MoveNext(b))

----------------------------------------------------------------------------
RECURSIVE BuildAlternative(_, _), BuildList(_), BuildRepeat(_), BuildRecursive(_)
RECURSIVE MoreAlternatives(_, _), MoreOfList(_, _), SimpleRest(_, _), InlineFlags(_, _, _)

ListEnds(b) == AtEnd(b) \/ IsAny(b.curr, {"|", ")"})
Quantifiers == {"{", "?", "*", "+"}

AddAlternative(b, list) == MoreAlternatives(b, Append(list, b.e))
MoreAlternatives(b, list) ==
  IF Is(b.curr, "|") THEN AddAlternative(BuildList(MoveNext(b)), list) ELSE Keep(b, [kind |-> "alternative", list |-> list])

Alternatives(b) == IF Is(b.curr, "|") THEN MoreAlternatives(b, <<b.e>>) ELSE b

(* The flags are the parts' own: inline options end with the group they are in. *)
BuildAlternative(b, flags) ==
  IF AtEnd(b) THEN Keep(b, Empty)
  ELSE [Alternatives(BuildList([b EXCEPT !.flags = flags])) EXCEPT !.flags = b.flags]

AddToList(b, list) == MoreOfList(b, Append(list, b.e))
MoreOfList(b, list) ==
  IF ListEnds(b) THEN Keep(b, [kind |-> "list", list |-> list, rightleft |-> RightLeft(b)])
  ELSE AddToList(BuildRepeat(b), list)

ListFrom(b) == IF ListEnds(b) THEN b ELSE MoreOfList(b, <<b.e>>)
BuildList(b) == IF ListEnds(b) THEN Keep(b, Empty) ELSE ListFrom(BuildRepeat(b))

(* A run of characters; the last one before a quantifier stands alone. *)
KeepString(b, chars) ==
  Keep(b, [kind |-> "string", chars |-> chars, rightleft |-> RightLeft(b), ignorecase |-> Nocase(b)])

OneSimple(b) ==
  CASE b.curr.ch = "(" -> BuildRecursive(b)
    [] b.curr.ch \in {"[", ".", "w", "W", "s", "S", "d", "D"} -> BuildCharset(b)
    [] b.curr.ch \in {"^", "$", "A", "Z", "z", "b", "B", "G"} -> BuildBoundary(b)
    [] b.curr.ch \in {"\\", "k", "g"} -> BuildBackref(b)
    [] OTHER -> SimpleRest(MoveNext(b), <<b.curr.ch>>)

SimpleRest(b, fixed) ==
  LET plain == b.curr.type = 0
      last == IF plain THEN IsAny(b.next, Quantifiers) ELSE ListEnds(b)
  IN IF fixed # <<>> /\ (last \/ ~plain) THEN KeepString(b, fixed)
     ELSE IF plain /\ last THEN KeepString(MoveNext(b), <<b.curr.ch>>)
     ELSE IF plain THEN SimpleRest(MoveNext(b), Append(fixed, b.curr.ch))
     ELSE IF last THEN Keep(b, Empty) ELSE OneSimple(b)

INT_MAX == 2147483647

(* {n}, {n,} and {n,m}: the numbers, or 0 when there is none. *)
Braces(word) ==
  LET min == ReadDec(word)
      comma == min.ok /\ min.rest # <<>> /\ min.rest[1] = ","
      max == ReadDec(Tail(min.rest))
  IN IF ~comma THEN <<min.value, min.value>>
     ELSE IF ~max.ok THEN <<min.value, INT_MAX>>
     ELSE <<min.value, IF max.value < min.value THEN min.value ELSE max.value>>

Quantified(b, elx, min, max) ==
  LET e(kind) == [kind |-> kind, elx |-> elx, min |-> min, max |-> max]
  IN IF max = 0 THEN Keep(b, Empty)
     ELSE IF min = max THEN Keep(IF IsAny(b.curr, {"?", "+"}) THEN MoveNext(b) ELSE b, e("repeat"))
     ELSE IF Is(b.curr, "?") THEN Keep(MoveNext(b), e("reluctant"))
     ELSE IF Is(b.curr, "+") THEN Keep(MoveNext(b), e("possessive"))
     ELSE Keep(b, e("greedy"))

RepeatBraces(b, e) == LET range == Braces(b.word) IN Quantified(MoveNext(b), e, range[1], range[2])

Repeated(b) ==
  CASE Is(b.curr, "{") -> RepeatBraces(Collect([MoveNext(b) EXCEPT !.word = <<>>], {"}"}, TRUE), b.e)
    [] Is(b.curr, "?") -> Quantified(MoveNext(b), b.e, 0, 1)
    [] Is(b.curr, "*") -> Quantified(MoveNext(b), b.e, 0, INT_MAX)
    [] Is(b.curr, "+") -> Quantified(MoveNext(b), b.e, 1, INT_MAX)
    [] OTHER -> b

BuildRepeat(b) == Repeated(SimpleRest(b, <<>>))

----------------------------------------------------------------------------
(* What "(" begins; every branch but the numbered group leaves its ")" to BuildRecursive. *)
KeepHolding(b, elx) == Keep(b, elx @@ [elx |-> b.e])
BuildAssert(b, yes, flags) == KeepHolding(BuildAlternative(b, flags), [kind |-> "assert", yes |-> yes])

(* A group is a list of a bracket, what is in it, and a bracket; from the right, the right one comes first. *)
GroupOfThree(b, e) == Keep(b, [kind |-> "list", list |-> <<b.e - 1, e, b.e>>, rightleft |-> RightLeft(b)])
Group(b, bracket, e) ==
  GroupOfThree(Keep(Keep(b, bracket @@ [right |-> RightLeft(b)]), bracket @@ [right |-> ~RightLeft(b)]), e)

Enlist(b, number) == [b EXCEPT !.groups = (number :> b.e) @@ @]
GroupAround(b, number) == Enlist(Group(b, [kind |-> "bracket", number |-> number, name |-> <<>>], b.e), number)

BuildNumberedGroup(b) ==
  MoveNext(GroupAround(BuildAlternative([b EXCEPT !.maxNumber = @ + 1], b.flags), b.maxNumber + 1))

EnlistNamed(b, this) == [b EXCEPT !.named = (this :> b.e) @@ @]
NamedAround(b, this, word) ==
  EnlistNamed(Group(b, Named([kind |-> "bracket", number |-> -1, name |-> <<>>], word), b.e), this)
NamedBody(b, word) ==
  NamedAround(BuildAlternative([b EXCEPT !.nextNamed = @ + 1], b.flags), b.nextNamed, word)
NamedFrom(b) == NamedBody(b, b.word)

BuildNamedGroup(b) ==
  LET c == IF b.curr.ch = "P" THEN MoveNext(b) ELSE b IN NamedFrom(NameAt(c, IF c.curr.ch = "'" THEN "'" ELSE ">"))

Delegate(b, elx) ==
  Keep(b, elx @@ [kind |-> "delegate", elx |-> 0, name |-> <<>>])

(* (?R), (?Rn), (?n): a number, or else 0, the whole pattern. *)
ToNumber(b) == Delegate(b, [number |-> IF ReadDec(b.word).ok THEN ReadDec(b.word).value ELSE 0])
BuildRecursion(b) == ToNumber(Collect([b EXCEPT !.word = <<>>], {")"}, FALSE))

ToName(b) == Delegate(b, Named([number |-> -3, name |-> <<>>], b.word))
BuildNamedRecursion(b) == ToName(NameAt(b, Closing(b.curr.ch)))

NoName == <<Nul>>

(* (?(condition)yes|no): an assertion, a group's number, or a word that may be a pattern or a name. *)
KeepCondition(b, word, ask, yes) ==
  LET elx == [kind |-> "condition", number |-> -1, name |-> NoName, ask |-> ask, yes |-> yes, no |-> b.e]
  IN IF word = NoName THEN Keep(b, elx)
     ELSE IF IsNumber(word) THEN Keep(b, [elx EXCEPT !.number = ReadDec(word).value, !.ask = 0])
     ELSE Keep(b, [elx EXCEPT !.name = word])

ElseBranch(b, flags, word, ask) ==
  KeepCondition(IF b.curr.ch = "|" THEN BuildAlternative([MoveNext(b) EXCEPT !.flags = flags], flags)
                ELSE [b EXCEPT !.flags = flags, !.e = 0],
                word, ask, b.e)

Branches(b, flags, word) == ElseBranch(BuildList([b EXCEPT !.flags = flags]), flags, word, b.e)

CloseWord(b, word) == Branches(MoveNext(KeepHolding(b, [kind |-> "assert", yes |-> TRUE])), b.flags, word)
AskWord(b, from) == CloseWord(b, SubSeq(b.pattern, from, b.curr.pos - 1))
BuildWord(b) == AskWord(BuildAlternative(b, b.flags), b.curr.pos)

BuildCondition(b) ==
  IF Is(b.next, "?") THEN Branches(BuildRecursive(b), b.flags, NoName) ELSE BuildWord(MoveNext(b))

Option(ch) == CASE ch \in {"i", "I"} -> {"IGNORECASE"} [] ch \in {"s", "S"} -> {"SINGLELINE"}
                [] ch \in {"m", "M"} -> {"MULTILINE"} [] ch \in {"g", "G"} -> {"GLOBAL"} [] OTHER -> {}

(* (?i-s:...), or (?i-s) for what follows in the group that is open. *)
InlineFlags(b, flags, negative) ==
  LET new == IF negative THEN flags \ Option(b.curr.ch) ELSE flags \cup Option(b.curr.ch)
  IN IF b.curr.ch = ":" THEN BuildAlternative(MoveNext(b), flags)
     ELSE IF Is(b.curr, "(") THEN BuildAlternative(b, flags)
     ELSE IF AtEnd(b) \/ b.curr.ch = ")" THEN [Keep(b, Empty) EXCEPT !.flags = flags]
     ELSE InlineFlags(MoveNext(b), new, negative \/ b.curr.ch = "-")

RecursionAt(b) == IF b.curr.ch \in {"<", "'"} THEN BuildNamedRecursion(b) ELSE BuildRecursion(b)
FlagsAt(b) == IF b.curr.ch \in Digits THEN BuildRecursion(b) ELSE InlineFlags(b, b.flags, FALSE)

BuildExtension(b) ==
  LET ch == b.curr.ch
      behind == ch = "<" /\ b.next.ch \in {"!", "="}
  IN CASE ch \in {"!", "="} -> BuildAssert(MoveNext(b), ch = "=", b.flags \ {"RIGHTTOLEFT"})
       [] behind -> BuildAssert(MoveOn(b, 2), b.next.ch = "=", b.flags \cup {"RIGHTTOLEFT"})
       [] ch \in {"P", "'"} \/ (ch = "<" /\ ~behind) -> BuildNamedGroup(b)
       [] ch = ">" -> KeepHolding(BuildAlternative(MoveNext(b), b.flags), [kind |-> "independent"])
       [] ch = "R" -> RecursionAt(SkipSpaces(MoveNext(b)))
       [] ch = "(" -> BuildCondition(b)
       [] OTHER -> FlagsAt(SkipSpaces(b))

AfterBracket(b) == IF Is(b.curr, "?") THEN MoveNext(BuildExtension(MoveNext(b))) ELSE BuildNumberedGroup(b)
BuildRecursive(b) == AfterBracket(MoveNext(b))

----------------------------------------------------------------------------
(* The number of the first group with a name; -3 when there is none. *)
GetNamedNumber(b, name) ==
  LET Opening(i) == b.objs[b.objs[b.named[i]].list[1]]
      same == {i \in DOMAIN b.named : Len(Opening(i).name) = Len(name) /\ Same(Opening(i).name, name, TRUE)}
  IN IF same = {} THEN -3 ELSE Opening(CHOOSE i \in same : \A j \in same : i <= j).number

(* Named groups get a number after the numbered ones; groups of one name share it. *)
RECURSIVE NumberNamed(_, _)
ShareNumber(b, i, found) ==
  LET list == b.objs[b.named[i]].list
      number == IF found >= 0 THEN found ELSE b.maxNumber + 1
  IN NumberNamed([b EXCEPT !.objs[list[1]].number = number, !.objs[list[3]].number = number,
                           !.maxNumber = IF found >= 0 THEN @ ELSE number], i + 1)

NumberNamed(b, i) ==
  IF i \notin DOMAIN b.named THEN b
  ELSE LET left == b.objs[b.objs[b.named[i]].list[1]]
       IN IF left.number > 0 THEN NumberNamed(b, i + 1) ELSE ShareNumber(b, i, GetNamedNumber(b, left.name))

(* The element a recursion goes to: the first group with its number, in the order of the group list. *)
Target(b, groups, number) ==
  LET own == {i \in DOMAIN groups : b.objs[b.objs[groups[i]].list[1]].number = number}
  IN IF number < 0 \/ number > b.maxNumber THEN 0
     ELSE IF number = 0 THEN b.top
     ELSE IF own = {} THEN 0 ELSE groups[CHOOSE i \in own : \A j \in own : i <= j]

(* Names are looked up, and recursions connected, when the whole pattern has been read. *)
Connected(b, groups, e, named) ==
  CASE e.kind = "delegate" -> [e EXCEPT !.number = named, !.elx = Target(b, groups, named)]
    [] e.kind = "backref" -> [e EXCEPT !.number = named]
    [] e.kind = "condition" /\ named >= 0 -> [e EXCEPT !.number = named, !.ask = 0]
    [] OTHER -> e

Connect(b, groups) ==
  [id \in DOMAIN b.objs |->
     LET e == b.objs[id]
     IN Connected(b, groups, e, IF e.number >= 0 THEN e.number ELSE GetNamedNumber(b, e.name))]

(* The groups that recursions are looked up in: the numbered ones, then the named ones. *)
GroupList(b) == [i \in DOMAIN b.groups |-> b.groups[i]] \o [i \in DOMAIN b.named |-> b.named[i]]

Finished(b, groups, max) ==
  [objs |-> Connect([b EXCEPT !.maxNumber = max], groups), top |-> b.top, max |-> max, flags |-> b.global]

Finish(b, groups) ==
  Finished(b, groups, Max({b.objs[b.objs[groups[i]].list[1]].number : i \in DOMAIN groups} \cup {b.maxNumber}))

Numbered(b) == Finish(NumberNamed([b EXCEPT !.top = b.e], 1), GroupList(b))

Build(pattern, flags) ==
  LET none == [ch |-> "", type |-> 0, pos |-> 0]
      new == [pattern |-> pattern, pos |-> 1, depth |-> 0, quoted |-> FALSE, quoteFun |-> "none", global |-> flags,
              flags |-> flags, curr |-> none, next |-> none, nex2 |-> none, word |-> <<>>, objs |-> <<>>, e |-> 0,
              maxNumber |-> 0, nextNamed |-> 1, groups |-> <<>>, named |-> <<>>, top |-> 0]
  IN Numbered(BuildAlternative(MoveOn(new, 3), flags))
=============================================================================
