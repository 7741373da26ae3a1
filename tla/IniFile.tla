------------------------------ MODULE IniFile -------------------------------
(***************************************************************************)
(* CIniFile: the settings, as the vectors that hold them, read from a file *)
(* line by line and written back.  munin-node reads its file once and then *)
(* only asks; the other calls are the class's own.                         *)
(*                                                                         *)
(* A word is <<text, form>>: names that differ in case have the same text  *)
(* and different forms.  Indices start at 1, and 0 is noID.                *)
(***************************************************************************)
EXTENDS Integers, Sequences, SequencesExt

CONSTANTS
  Sections,     \* words that name sections
  Names,        \* words that name values
  Values,
  Nothing,      \* no value, no answer
  MaxSections,  \* bound: how many sections there may be
  MaxComments,  \* bound: how many comments there may be
  MaxIndex      \* bound: the indices asked for

NoWord == <<"", "">>

ASSUME WordsAssumption ==
  /\ NoWord \notin Sections /\ <<"", "idle">> \notin Sections
  /\ \A w \in Sections \cup Names : w = <<w[1], w[2]>>

ASSUME ValuesAssumption == Nothing \notin Values \cup BOOLEAN

ASSUME BoundsAssumption ==
  MaxSections \in Nat /\ MaxComments \in Nat /\ MaxIndex \in Nat

VARIABLES
  ini,     \* names, keys and comments (of the header, which are counted)
  key,     \* while the file is read: the section it is at
  answer   \* what the last call has returned, or Nothing

vars == <<ini, key, answer>>

Idle == <<"", "idle">>   \* the file is not being read

(* A section called "" is one whose values come before any section.        *)
Word == Sections \cup {NoWord}

Key == [names : Seq(Names), values : Seq(Values), comments : Nat]

TypeOK ==
  /\ ini.names \in Seq(Word) /\ ini.keys \in Seq(Key) /\ ini.comments \in Nat
  /\ Len(ini.names) = Len(ini.keys)
  /\ \A i \in DOMAIN ini.keys : Len(ini.keys[i].names) = Len(ini.keys[i].values)
  /\ key \in Word \cup {Idle}
  /\ answer \in Values \cup BOOLEAN \cup {Nothing}

Empty == [names |-> <<>>, keys |-> <<>>, comments |-> 0]

Init == ini = Empty /\ key = Idle /\ answer = Nothing

-----------------------------------------------------------------------------
(* What the calls do to the vectors s.                                     *)

Fold(w) == w[1]   \* CheckCase

EmptyKey == [names |-> <<>>, values |-> <<>>, comments |-> 0]

FindLastKey(s, k) ==   \* mutant: the vector is searched from its end
  LET found == {i \in DOMAIN s.names : Fold(s.names[i]) = Fold(k)}
  IN  IF found = {} THEN 0 ELSE Max(found)

FindKey(s, k) == SelectInSeq(s.names, LAMBDA w : Fold(w) = Fold(k))

FindValue(s, i, n) ==
  IF i \notin DOMAIN s.keys THEN 0
  ELSE SelectInSeq(s.keys[i].names, LAMBDA w : Fold(w) = Fold(n))

Has(s, i, j) == i \in DOMAIN s.keys /\ j \in DOMAIN s.keys[i].names

(* A section is appended, even if there is one of that name.               *)
AddKeyName(s, k) ==
  [s EXCEPT !.names = Append(@, k), !.keys = Append(@, EmptyKey)]

AddValue(s, i, n, v) ==
  [s EXCEPT !.keys[i].names = Append(@, n), !.keys[i].values = Append(@, v)]

PutValue(s, i, j, v) == [s EXCEPT !.keys[i].values[j] = v]

(* SetValue(keyname, valuename, value) with create.                        *)
SetValue(s, k, n, v) ==
  LET t == IF FindKey(s, k) = 0 THEN AddKeyName(s, k) ELSE s
      i == FindKey(t, k)
      j == FindValue(t, i, n)
  IN  IF j = 0 THEN AddValue(t, i, n, v) ELSE PutValue(t, i, j, v)

EraseValue(s, i, j) ==
  [s EXCEPT !.keys[i].names = RemoveAt(@, j), !.keys[i].values = RemoveAt(@, j)]

EraseWrongKey(s, i) ==   \* mutant: the vectors get out of step
  [s EXCEPT !.names = RemoveAt(@, i), !.keys = RemoveAt(@, Len(@))]

EraseKey(s, i) == [s EXCEPT !.names = RemoveAt(@, i), !.keys = RemoveAt(@, i)]

(* KeyComment: lost if there is no such section.                           *)
Comment(s, i) ==
  IF i \in DOMAIN s.keys THEN [s EXCEPT !.keys[i].comments = @ + 1] ELSE s

-----------------------------------------------------------------------------
(* Lines of the file, by the first of ; # [ and = in them; "other" is      *)
(* blank, or has none of them, or a [ that is not closed.                  *)
SectionLine(k)  == [kind |-> "section", word |-> k, value |-> Nothing]
ValueLine(n, v) == [kind |-> "value", word |-> n, value |-> v]
CommentLine     == [kind |-> "comment", word |-> NoWord, value |-> Nothing]
OtherLine       == [kind |-> "other", word |-> NoWord, value |-> Nothing]

Line ==
  {SectionLine(k) : k \in Sections} \cup {ValueLine(n, v) : n \in Names, v \in Values}
  \cup {CommentLine, OtherLine}

(* One turn of ReadFile's loop, from what is there and the section it is   *)
(* at to the same two things.                                              *)
TakeLine(r, line) ==
  CASE line.kind = "section" -> [ini |-> AddKeyName(r.ini, line.word), key |-> line.word]
    [] line.kind = "value" ->
         [r EXCEPT !.ini = SetValue(r.ini, r.key, line.word, line.value)]
    [] line.kind = "comment" ->
         [r EXCEPT !.ini = IF r.ini.names = <<>> THEN [r.ini EXCEPT !.comments = @ + 1]
                           ELSE Comment(r.ini, FindKey(r.ini, r.key))]
    [] line.kind = "other" -> r

TakeLines(s, lines) == FoldLeft(TakeLine, [ini |-> s, key |-> NoWord], lines).ini

CommentLines(n) == [c \in 1 .. n |-> CommentLine]

ValueLines(s, i) ==
  [j \in DOMAIN s.keys[i].names |-> ValueLine(s.keys[i].names[j], s.keys[i].values[j])]

WriteSkipsEmpty(s) ==   \* mutant: a section without values is not written
  CommentLines(s.comments) \o
  FlattenSeq([i \in DOMAIN s.keys |->
                IF s.keys[i].names = <<>> THEN <<>>
                ELSE <<SectionLine(s.names[i])>> \o CommentLines(s.keys[i].comments)
                     \o ValueLines(s, i)])

(* The lines WriteFile writes, without the blank ones.                     *)
WriteFile(s) ==
  CommentLines(s.comments) \o
  FlattenSeq([i \in DOMAIN s.keys |->
                <<SectionLine(s.names[i])>> \o CommentLines(s.keys[i].comments)
                \o ValueLines(s, i)])

-----------------------------------------------------------------------------
(* The calls.                                                              *)

Total(s) == FoldLeft(LAMBDA n, k : n + k.comments, s.comments, s.keys)

Bounded(s) == Len(s.names) <= MaxSections /\ Total(s) <= MaxComments

Return(s, a) ==
  /\ key = Idle /\ UNCHANGED key
  /\ Bounded(s)
  /\ ini' = s /\ answer' = a

AddSection(k) == Return(AddKeyName(ini, k), Nothing)

(* SetValue(keyname, valuename, value, create).                            *)
Set(k, n, v, create) ==
  IF create \/ FindValue(ini, FindKey(ini, k), n) # 0
  THEN Return(SetValue(ini, k, n, v), TRUE)
  ELSE Return(ini, FALSE)

(* SetValueI, SetValueB, SetValueF and SetValueV do not pass create on.    *)
SetNumber(k, n, v) == Set(k, n, v, TRUE)

(* SetValue(keyID, valueID, value), which returns false whatever it does.  *)
SetAt(i, j, v) == Return(IF Has(ini, i, j) THEN PutValue(ini, i, j, v) ELSE ini, FALSE)

(* GetValue(keyname, valuename, defValue).                                 *)
Get(k, n, default) ==
  LET i == FindKey(ini, k)
      j == FindValue(ini, i, n)
  IN  IF i = 0 \/ j = 0
      THEN Return(SetValue(ini, k, n, default), default)
      ELSE Return(ini, ini.keys[i].values[j])

DeleteValue(k, n) ==
  LET i == FindKey(ini, k)
      j == FindValue(ini, i, n)
  IN  IF i = 0 \/ j = 0 THEN Return(ini, FALSE)
      ELSE Return(EraseValue(ini, i, j), TRUE)

DeleteKey(k) ==
  LET i == FindKey(ini, k)
  IN  IF i = 0 THEN Return(ini, FALSE) ELSE Return(EraseKey(ini, i), TRUE)

Erase == Return(Empty, Nothing)

HeaderComment == Return([ini EXCEPT !.comments = @ + 1], Nothing)

DeleteHeaderComment ==
  IF ini.comments > 0 THEN Return([ini EXCEPT !.comments = @ - 1], TRUE)
  ELSE Return(ini, FALSE)

(* By a section's index, or the index of its name.                         *)
KeyComment(i) == Return(Comment(ini, i), i \in DOMAIN ini.keys)

DeleteKeyComment(i) ==
  IF i \in DOMAIN ini.keys /\ ini.keys[i].comments > 0
  THEN Return([ini EXCEPT !.keys[i].comments = @ - 1], TRUE)
  ELSE Return(ini, FALSE)

DeleteKeyComments(i) ==
  IF i \in DOMAIN ini.keys
  THEN Return([ini EXCEPT !.keys[i].comments = 0], TRUE)
  ELSE Return(ini, FALSE)

-----------------------------------------------------------------------------
(* ReadFile, which adds to what is there, a line at a time.                *)

ReadFails == Return(ini, FALSE)

ReadBegins ==
  /\ key = Idle /\ key' = NoWord
  /\ answer' = Nothing /\ UNCHANGED ini

ReadLine ==
  /\ key # Idle
  /\ \E line \in Line :
       LET r == TakeLine([ini |-> ini, key |-> key], line)
       IN  Bounded(r.ini) /\ ini' = r.ini /\ key' = r.key
  /\ answer' = Nothing

(* The end of the file; or a line whose first character is not printable,  *)
(* be it a tab or the mark of UTF-8, after which nothing more is read.     *)
ReadEnds ==
  /\ key # Idle /\ key' = Idle
  /\ answer' \in {ini.names # <<>>, FALSE}
  /\ UNCHANGED ini

-----------------------------------------------------------------------------
Index == 0 .. MaxIndex

Ask ==
  \E k \in Sections :
    \/ AddSection(k) \/ DeleteKey(k)
    \/ \E n \in Names :
         \/ DeleteValue(k, n)
         \/ \E v \in Values :
              \/ Get(k, n, v) \/ SetNumber(k, n, v)
              \/ \E create \in BOOLEAN : Set(k, n, v, create)

AskAt ==
  \E i \in Index :
    \/ KeyComment(i) \/ DeleteKeyComment(i) \/ DeleteKeyComments(i)
    \/ \E j \in Index, v \in Values : SetAt(i, j, v)

Next ==
  \/ Ask \/ AskAt
  \/ Erase \/ HeaderComment \/ DeleteHeaderComment
  \/ ReadFails \/ ReadBegins \/ ReadLine \/ ReadEnds

Spec == Init /\ [][Next]_vars

-----------------------------------------------------------------------------
(* Every value in the vectors is the one a search by its names finds:      *)
(* whoever added it (a line, a call or a default), a section has one value *)
(* of a name, however it is written, and of the sections with one name the *)
(* first has the values, also after sections have been deleted.            *)
ValuesFound ==
  \A i \in DOMAIN ini.keys : \A j \in DOMAIN ini.keys[i].names :
    FindKey(ini, ini.names[i]) = i /\ FindValue(ini, i, ini.keys[i].names[j]) = j

(* A file that is written and read again has the same sections, in their   *)
(* order, the same values, and as many comments.                           *)
RoundTrip ==
  LET again == TakeLines(Empty, WriteFile(ini))
  IN  /\ again.names = ini.names
      /\ \A i \in DOMAIN ini.keys :
           /\ again.keys[i].names = ini.keys[i].names
           /\ again.keys[i].values = ini.keys[i].values
      /\ again.comments = ini.comments /\ Total(again) = Total(ini)

(* The vectors implement a dictionary: what a search from their beginnings  *)
(* finds, by names as they compare.                                        *)
EntryAt(i, j) ==
  <<Fold(ini.names[i]), Fold(ini.keys[i].names[j]), ini.keys[i].values[j]>>

FirstValues(i) ==
  {j \in DOMAIN ini.keys[i].names : FindValue(ini, i, ini.keys[i].names[j]) = j}

Entries ==
  UNION {{EntryAt(i, j) : j \in FirstValues(i)} :
           i \in {l \in DOMAIN ini.keys : FindKey(ini, ini.names[l]) = l}}

Map == INSTANCE ConfigMap WITH
  sections <- {Fold(ini.names[i]) : i \in DOMAIN ini.names}, entries <- Entries

IsConfigMap == Map!Spec
=============================================================================
