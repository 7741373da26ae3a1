---------------------------- MODULE IniFileProofs ----------------------------
(***************************************************************************)
(* Theorems about CIniFile, for any words, values and bounds: a value that *)
(* was set is the one a search finds, the vectors implement a dictionary,  *)
(* and a file that is written and read again has the same contents.        *)
(*                                                                         *)
(* The invariant is Good: names and values are in step (Vectors), and no   *)
(* two values can be asked for by the same names (Unique).  AddKeyName and *)
(* DeleteKey let two sections have one name, but then only the first has   *)
(* values.  The calls keep Good, and each is one of Puts, Adds, Keeps or   *)
(* an erasure of the entries, which are the dictionary's steps.            *)
(*                                                                         *)
(* ReadFile folds TakeLine over the lines, WriteFile flattens the lines of *)
(* the sections; what they do is shown by induction over sequences, from   *)
(* the library's fact that strict inclusion is well founded on the finite  *)
(* sets of a set.                                                          *)
(***************************************************************************)
EXTENDS Integers, IniFile, SequenceTheorems, FiniteSetTheorems, WellFoundedInduction, TLAPS

(* A set of numbers has a least one: the sets of numbers below each of     *)
(* them are finite, and strict inclusion is well founded on finite sets.   *)
LEMMA LeastNumber ==
  ASSUME NEW T \in SUBSET Nat, T # {}
  PROVE  \E x \in T : \A y \in T : x <= y
<1> DEFINE below(n) == 0 .. n - 1
           S == {below(n) : n \in T}
<1>1. \A n \in Nat : below(n) \in FiniteSubsetsOf(Nat)
  <2> SUFFICES ASSUME NEW n \in Nat PROVE below(n) \in FiniteSubsetsOf(Nat)
    OBVIOUS
  <2>1. IsFiniteSet(below(n))
    BY FS_Interval
  <2>2. QED
    BY <2>1 DEF FiniteSubsetsOf
<1>2. S \subseteq FiniteSubsetsOf(Nat) /\ S # {}
  BY <1>1
<1>3. PICK s \in S : \A r \in S : <<r, s>> \notin StrictSubsetOrdering(Nat)
  BY <1>2, FS_StrictSubsetOrderingWellFounded, WFMin
<1>4. PICK x \in T : s = below(x)
  OBVIOUS
<1>5. ASSUME NEW y \in T, y < x PROVE FALSE
  <2>1. y \in below(x) /\ y \notin below(y)
    BY <1>5
  <2>2. below(y) \subseteq below(x) /\ below(x) # below(y)
    BY <1>5, <2>1
  <2>3. below(y) \in S /\ below(y) \subseteq Nat /\ below(x) \subseteq Nat
    OBVIOUS
  <2>4. <<below(y), below(x)>> \in StrictSubsetOrdering(Nat)
    BY <2>2, <2>3 DEF StrictSubsetOrdering
  <2>5. QED
    BY <2>3, <2>4, <1>3, <1>4
<1>6. QED
  BY <1>5

(* Induction, for a set of numbers in the place of a property.             *)
LEMMA Induction ==
  ASSUME NEW T \in SUBSET Nat, 0 \in T, \A n \in T : n + 1 \in T
  PROVE  \A n \in Nat : n \in T
<1>1. SUFFICES ASSUME Nat \ T # {} PROVE FALSE
  OBVIOUS
<1>2. PICK x \in Nat \ T : \A y \in Nat \ T : x <= y
  BY <1>1, LeastNumber
<1>3. x # 0 /\ x - 1 \in Nat /\ x - 1 \in T
  BY <1>2
<1>4. QED
  BY <1>2, <1>3

(* The largest of the first numbers, by which a fold goes.                 *)
LEMMA LargestIs ==
  ASSUME NEW k \in Nat, NEW s \in SUBSET (1 .. k), k \in s
  PROVE  Max(s) = k
<1>1. \A x \in s : x \in Int /\ k >= x
  OBVIOUS
<1>2. \A x \in s : (\A y \in s : x >= y) => x = k
  BY <1>1
<1>3. (CHOOSE x \in s : \A y \in s : x >= y) = k
  BY <1>1, <1>2
<1>4. QED
  BY <1>3 DEF Max

(* Induction over sequences, for a set of sequences.                       *)
LEMMA SequenceInduction ==
  ASSUME NEW S, NEW T \in SUBSET Seq(S), <<>> \in T,
         \A t \in T : \A e \in S : Append(t, e) \in T
  PROVE  \A t \in Seq(S) : t \in T
<1> DEFINE K == {k \in Nat : \A t \in Seq(S) : Len(t) = k => t \in T}
<1>1. 0 \in K
  BY EmptySeq
<1>2. ASSUME NEW k \in K PROVE k + 1 \in K
  <2> SUFFICES ASSUME NEW t \in Seq(S), Len(t) = k + 1 PROVE t \in T
    OBVIOUS
  <2>1. t # <<>>
    OBVIOUS
  <2>2. PICK u \in Seq(S), e \in S : t = Append(u, e)
    BY <2>1, SequenceEmptyOrAppend
  <2>3. u \in T
    BY <2>2
  <2>4. QED
    BY <2>2, <2>3
<1> HIDE DEF K
<1>3. \A k \in Nat : k \in K
  <2>1. K \in SUBSET Nat
    BY DEF K
  <2>2. QED
    BY <1>1, <1>2, <2>1, Induction
<1>4. QED
  BY <1>3 DEF K

(* What FlattenSeq has put together after each of its parts.               *)
Flattens(at, parts) ==
  /\ DOMAIN at = 1 .. Len(parts)
  /\ \A i \in 1 .. Len(parts) : at[i] = IF i = 1 THEN parts[i] ELSE at[i - 1] \o parts[i]

(* FlattenSeq of something goes through its parts, one after the other.    *)
LEMMA FlattenGoes ==
  ASSUME NEW S, NEW parts \in Seq(S), parts # <<>>
  PROVE  \E at : Flattens(at, parts) /\ FlattenSeq(parts) = at[Len(parts)]
<1> DEFINE n == Len(parts)
           step(f, i) == IF i = 1 THEN parts[i] ELSE f[i - 1] \o parts[i]
           Is(f, k) == f = [i \in 1 .. k |-> step(f, i)]
           flatten == CHOOSE f : Is(f, n)
           K == {k \in Nat : \E f : Is(f, k)}
<1>0. n \in Nat /\ n # 0
  OBVIOUS
<1>1. FlattenSeq(parts) = flatten[n]
  BY <1>0 DEF FlattenSeq
<1> HIDE DEF step
<1>2. 0 \in K
  <2> DEFINE f0 == [i \in 1 .. 0 |-> <<>>]
  <2>1. Is(f0, 0)
    OBVIOUS
  <2> HIDE DEF f0
  <2>2. QED
    BY <2>1
<1>3. ASSUME NEW k \in K PROVE k + 1 \in K
  <2>1. PICK f : Is(f, k)
    OBVIOUS
  <2> DEFINE g == [i \in 1 .. k + 1 |->
                     IF i <= k THEN f[i] ELSE step(f, k + 1)]
  <2>2. ASSUME NEW i \in 1 .. k + 1 PROVE g[i] = step(g, i)
    <3>1. i # 1 => i - 1 \in 1 .. k /\ g[i - 1] = f[i - 1]
      OBVIOUS
    <3>2. step(g, i) = step(f, i)
      BY <3>1 DEF step
    <3>3. CASE i <= k
      <4>1. g[i] = f[i] /\ i \in 1 .. k
        BY <3>3
      <4>2. f[i] = step(f, i)
        BY <2>1, <4>1
      <4> HIDE DEF g
      <4>3. QED
        BY <3>2, <4>1, <4>2
    <3>4. CASE i = k + 1
      <4>1. g[i] = step(f, i)
        BY <3>4
      <4> HIDE DEF g
      <4>2. QED
        BY <3>2, <4>1
    <3>5. QED
      BY <3>3, <3>4
  <2>3. Is(g, k + 1)
    BY <2>2
  <2> HIDE DEF g
  <2>4. QED
    BY <2>3
<1>4. n \in K
  BY <1>0, <1>2, <1>3, Induction
<1>5. Is(flatten, n)
  BY <1>4
<1> HIDE DEF flatten
<1>6. Flattens(flatten, parts)
  BY <1>5 DEF Flattens, step
<1>7. QED
  BY <1>1, <1>6

(* Of no parts it is the empty sequence.                                   *)
LEMMA FlattenEmpty == FlattenSeq(<<>>) = <<>>
<1>1. Len(<<>>) = 0
  OBVIOUS
<1>2. QED
  BY <1>1 DEF FlattenSeq

(* One more part is appended to what the others gave.                      *)
LEMMA FlattenAppend ==
  ASSUME NEW S, NEW parts \in Seq(Seq(S)), NEW p \in Seq(S)
  PROVE  FlattenSeq(Append(parts, p)) = FlattenSeq(parts) \o p
<1> DEFINE n == Len(parts)
           longer == Append(parts, p)
<1>1. /\ n \in Nat /\ n + 1 \in Nat /\ n + 1 \in 1 .. n + 1
      /\ Len(longer) = n + 1 /\ longer # <<>> /\ longer \in Seq(Seq(S))
      /\ longer[n + 1] = p
      /\ \A i \in 1 .. n : longer[i] = parts[i]
  OBVIOUS
<1> HIDE DEF longer
<1>2. PICK whole : Flattens(whole, longer) /\ FlattenSeq(longer) = whole[n + 1]
  BY <1>1, FlattenGoes
<1>3. CASE parts = <<>>
  <2>1. n = 0
    BY <1>3
  <2>2. whole[n + 1] = p
    BY <1>1, <1>2, <2>1 DEF Flattens
  <2>3. <<>> \o p = p
    OBVIOUS
  <2>4. QED
    BY <1>2, <1>3, <2>2, <2>3, FlattenEmpty DEF longer
<1>4. CASE parts # <<>>
  <2>1. n # 0
    BY <1>4
  <2>2. PICK first : Flattens(first, parts) /\ FlattenSeq(parts) = first[n]
    BY <1>4, FlattenGoes
  <2> HIDE DEF n
  <2> DEFINE T == {i \in Nat : i \in 1 .. n => whole[i] = first[i]}
  <2>3. 0 \in T
    BY <1>1
  <2>4. ASSUME NEW i \in T PROVE i + 1 \in T
    <3> SUFFICES ASSUME i + 1 <= n PROVE whole[i + 1] = first[i + 1]
      OBVIOUS
    <3>1. i + 1 \in 1 .. n /\ i + 1 \in 1 .. n + 1 /\ (i + 1) - 1 = i
      BY <1>1
    <3>2. whole[i + 1] = IF i + 1 = 1 THEN parts[i + 1] ELSE whole[i] \o parts[i + 1]
      BY <3>1, <1>1, <1>2 DEF Flattens
    <3>3. first[i + 1] = IF i + 1 = 1 THEN parts[i + 1] ELSE first[i] \o parts[i + 1]
      BY <3>1, <2>2 DEF Flattens, n
    <3>4. i + 1 = 1 \/ i \in 1 .. n
      BY <3>1, <1>1
    <3>5. i + 1 = 1 \/ whole[i] = first[i]
      BY <3>4
    <3> HIDE DEF T
    <3>6. QED
      BY <3>2, <3>3, <3>5
  <2> HIDE DEF T
  <2>5. n \in T
    <3>1. T \in SUBSET Nat
      BY DEF T
    <3>2. QED
      BY <1>1, <2>3, <2>4, <3>1, Induction
  <2>6. whole[n] = first[n]
    BY <1>1, <2>1, <2>5 DEF T
  <2>7. whole[n + 1] = whole[n] \o p
    <3>1. n + 1 # 1 /\ (n + 1) - 1 = n
      BY <1>1, <2>1
    <3>2. QED
      BY <3>1, <1>1, <1>2 DEF Flattens
  <2>8. QED
    BY <1>2, <2>2, <2>6, <2>7 DEF longer
<1>5. QED
  BY <1>3, <1>4

(* Its elements are those of the parts.                                    *)
LEMMA FlattenTyped ==
  ASSUME NEW S
  PROVE  \A parts \in Seq(Seq(S)) : FlattenSeq(parts) \in Seq(S)
<1> DEFINE T == {parts \in Seq(Seq(S)) : FlattenSeq(parts) \in Seq(S)}
<1>1. <<>> \in T
  <2>1. <<>> \in Seq(S) /\ <<>> \in Seq(Seq(S))
    OBVIOUS
  <2>2. QED
    BY <2>1, FlattenEmpty
<1>2. ASSUME NEW parts \in T, NEW p \in Seq(S) PROVE Append(parts, p) \in T
  <2>1. FlattenSeq(Append(parts, p)) = FlattenSeq(parts) \o p
    BY FlattenAppend
  <2>2. Append(parts, p) \in Seq(Seq(S)) /\ FlattenSeq(parts) \o p \in Seq(S)
    OBVIOUS
  <2>3. QED
    BY <2>1, <2>2
<1> HIDE DEF T
<1>3. T \in SUBSET Seq(Seq(S))
  BY DEF T
<1>4. \A parts \in Seq(Seq(S)) : parts \in T
  BY <1>1, <1>2, <1>3, SequenceInduction
<1>5. QED
  BY <1>4 DEF T

-----------------------------------------------------------------------------
(* The first word of a vector that compares equal to w, or 0.              *)
First(seq, w) ==
  LET found == {i \in 1 .. Len(seq) : Fold(seq[i]) = Fold(w)}
  IN  IF found # {} THEN Min(found) ELSE 0

(* FindKey and FindValue are First, of the section names and of a          *)
(* section's value names.                                                  *)
LEMMA FindsFirst ==
  ASSUME NEW s, NEW i, NEW w
  PROVE  /\ FindKey(s, w) = First(s.names, w)
         /\ FindValue(s, i, w) = IF i \in DOMAIN s.keys THEN First(s.keys[i].names, w) ELSE 0
BY DEF FindKey, FindValue, First, SelectInSeq

(* It is one that compares equal, and none before it does; or there is     *)
(* none.                                                                   *)
LEMMA FirstIs ==
  ASSUME NEW S, NEW seq \in Seq(S), NEW w
  PROVE  LET f == First(seq, w)
         IN  \/ f = 0 /\ \A i \in 1 .. Len(seq) : Fold(seq[i]) # Fold(w)
             \/ /\ f \in 1 .. Len(seq) /\ Fold(seq[f]) = Fold(w)
                /\ \A i \in 1 .. f - 1 : Fold(seq[i]) # Fold(w)
<1> DEFINE found == {i \in 1 .. Len(seq) : Fold(seq[i]) = Fold(w)}
<1>0. Len(seq) \in Nat
  OBVIOUS
<1>1. CASE found = {}
  <2>1. First(seq, w) = 0
    BY <1>1 DEF First
  <2>2. QED
    BY <1>1, <2>1
<1>2. CASE found # {}
  <2>1. found \in SUBSET Nat
    BY <1>0
  <2>2. PICK x \in found : \A y \in found : x <= y
    BY <1>2, <2>1, LeastNumber
  <2>3. \A y \in found : (\A z \in found : y <= z) => y = x
    BY <2>1, <2>2
  <2>4. Min(found) = x
    <3> HIDE DEF found
    <3>1. QED
      BY <2>2, <2>3 DEF Min
  <2>5. First(seq, w) = x
    BY <1>2, <2>4 DEF First
  <2>6. \A i \in 1 .. x - 1 : i \notin found
    BY <2>1, <2>2
  <2>7. QED
    BY <1>0, <2>2, <2>5, <2>6
<1>3. QED
  BY <1>1, <1>2

(* A name that matches and that no earlier one matches is what the search  *)
(* returns.                                                                *)
LEMMA FirstUnique ==
  ASSUME NEW S, NEW seq \in Seq(S), NEW w, NEW f \in 1 .. Len(seq),
         Fold(seq[f]) = Fold(w), \A i \in 1 .. f - 1 : Fold(seq[i]) # Fold(w)
  PROVE  First(seq, w) = f
<1> DEFINE g == First(seq, w)
<1>0. Len(seq) \in Nat
  OBVIOUS
<1>1. \/ g = 0 /\ \A i \in 1 .. Len(seq) : Fold(seq[i]) # Fold(w)
      \/ /\ g \in 1 .. Len(seq) /\ Fold(seq[g]) = Fold(w)
         /\ \A i \in 1 .. g - 1 : Fold(seq[i]) # Fold(w)
  BY FirstIs
<1> HIDE DEF g
<1>2. g \in 1 .. Len(seq) /\ ~(g < f) /\ ~(f < g)
  BY <1>0, <1>1
<1>3. QED
  BY <1>0, <1>2 DEF g

-----------------------------------------------------------------------------
(* The vectors: as many names as sections, as many names as values.        *)
File == [names : Seq(Word), keys : Seq(Key), comments : Nat]

Vectors(s) ==
  /\ s \in File
  /\ Len(s.names) = Len(s.keys)
  /\ \A i \in DOMAIN s.keys : Len(s.keys[i].names) = Len(s.keys[i].values)

(* A section with values is the first of its name, and no two of its       *)
(* values have one name.                                                   *)
Unique(s) ==
  \A i \in DOMAIN s.keys :
    /\ s.keys[i].names # <<>> =>
         \A l \in 1 .. i - 1 : Fold(s.names[l]) # Fold(s.names[i])
    /\ \A j, l \in DOMAIN s.keys[i].names :
         Fold(s.keys[i].names[j]) = Fold(s.keys[i].names[l]) => j = l

Good(s) == Vectors(s) /\ Unique(s)

(* What the parts of the vectors are, for the provers to cite.             *)
LEMMA VectorsAre ==
  ASSUME NEW s, Vectors(s)
  PROVE  /\ s.names \in Seq(Word) /\ s.keys \in Seq(Key) /\ s.comments \in Nat
         /\ s = [names |-> s.names, keys |-> s.keys, comments |-> s.comments]
         /\ Len(s.keys) \in Nat /\ Len(s.names) = Len(s.keys)
         /\ DOMAIN s.keys = 1 .. Len(s.keys) /\ DOMAIN s.names = DOMAIN s.keys
         /\ \A i \in DOMAIN s.keys :
              /\ s.keys[i] \in Key /\ s.names[i] \in Word
              /\ s.keys[i].names \in Seq(Names) /\ s.keys[i].values \in Seq(Values)
              /\ s.keys[i].comments \in Nat
              /\ Len(s.keys[i].names) \in Nat
              /\ Len(s.keys[i].names) = Len(s.keys[i].values)
              /\ DOMAIN s.keys[i].names = 1 .. Len(s.keys[i].names)
              /\ DOMAIN s.keys[i].values = DOMAIN s.keys[i].names
<1>1. /\ s.names \in Seq(Word) /\ s.keys \in Seq(Key) /\ s.comments \in Nat
      /\ s = [names |-> s.names, keys |-> s.keys, comments |-> s.comments]
  BY DEF Vectors, File
<1>2. /\ Len(s.keys) \in Nat /\ Len(s.names) = Len(s.keys)
      /\ DOMAIN s.keys = 1 .. Len(s.keys) /\ DOMAIN s.names = DOMAIN s.keys
  BY <1>1 DEF Vectors
<1>3. ASSUME NEW i \in DOMAIN s.keys
      PROVE  /\ s.keys[i] \in Key /\ s.names[i] \in Word
             /\ s.keys[i].names \in Seq(Names) /\ s.keys[i].values \in Seq(Values)
             /\ s.keys[i].comments \in Nat
             /\ Len(s.keys[i].names) \in Nat
             /\ Len(s.keys[i].names) = Len(s.keys[i].values)
             /\ DOMAIN s.keys[i].names = 1 .. Len(s.keys[i].names)
             /\ DOMAIN s.keys[i].values = DOMAIN s.keys[i].names
  <2>1. s.keys[i] \in Key /\ s.names[i] \in Word
    BY <1>1, <1>2
  <2>2. /\ s.keys[i].names \in Seq(Names) /\ s.keys[i].values \in Seq(Values)
        /\ s.keys[i].comments \in Nat
    BY <2>1 DEF Key
  <2>3. Len(s.keys[i].names) = Len(s.keys[i].values)
    BY DEF Vectors
  <2>4. QED
    BY <2>1, <2>2, <2>3
<1>4. QED
  BY <1>1, <1>2, <1>3

(* Every value of such vectors is found by its names, and every value that *)
(* is found by names has them.                                             *)
LEMMA GoodIsFound ==
  ASSUME NEW s, Good(s), NEW i \in DOMAIN s.keys, NEW j \in DOMAIN s.keys[i].names
  PROVE  /\ FindKey(s, s.names[i]) = i
         /\ FindValue(s, i, s.keys[i].names[j]) = j
<1>1. Vectors(s) /\ Unique(s)
  BY DEF Good
<1>2. First(s.names, s.names[i]) = i
  <2>1. s.keys[i].names # <<>>
    BY <1>1, VectorsAre
  <2>2. \A l \in 1 .. i - 1 : Fold(s.names[l]) # Fold(s.names[i])
    BY <1>1, <2>1 DEF Unique
  <2>3. s.names \in Seq(Word) /\ i \in 1 .. Len(s.names)
    BY <1>1, VectorsAre
  <2>4. QED
    BY <2>2, <2>3, FirstUnique
<1>3. First(s.keys[i].names, s.keys[i].names[j]) = j
  <2> DEFINE ns == s.keys[i].names
  <2>1. ns \in Seq(Names) /\ j \in 1 .. Len(ns) /\ Len(ns) \in Nat /\ DOMAIN ns = 1 .. Len(ns)
    BY <1>1, VectorsAre
  <2>2. \A l \in DOMAIN ns : Fold(ns[l]) = Fold(ns[j]) => l = j
    BY <1>1 DEF Unique
  <2> HIDE DEF ns
  <2>3. \A l \in 1 .. j - 1 : Fold(ns[l]) # Fold(ns[j])
    BY <2>1, <2>2
  <2>4. First(ns, ns[j]) = j
    BY <2>1, <2>3, FirstUnique
  <2>5. QED
    BY <2>4 DEF ns
<1>4. QED
  BY <1>2, <1>3, FindsFirst

(* A call that changes one section.                                        *)
WithKey(s, i, k) ==
  [names |-> s.names, keys |-> [s.keys EXCEPT ![i] = k], comments |-> s.comments]

(* A section in the place of another: the others stay, and so does the     *)
(* type.                                                                   *)
LEMMA WithKeyIs ==
  ASSUME NEW s, Vectors(s), NEW i \in DOMAIN s.keys,
         NEW k \in Key, Len(k.names) = Len(k.values)
  PROVE  LET t == WithKey(s, i, k)
         IN  /\ Vectors(t) /\ t.names = s.names /\ t.comments = s.comments
             /\ Len(t.keys) = Len(s.keys) /\ DOMAIN t.keys = DOMAIN s.keys /\ t.keys[i] = k
             /\ \A l \in DOMAIN s.keys : l # i => t.keys[l] = s.keys[l]
<1> DEFINE t == WithKey(s, i, k)
           ks == [s.keys EXCEPT ![i] = k]
<1>1. /\ ks \in Seq(Key) /\ Len(ks) = Len(s.keys) /\ DOMAIN ks = DOMAIN s.keys /\ ks[i] = k
      /\ \A l \in DOMAIN s.keys : l # i => ks[l] = s.keys[l]
  BY VectorsAre
<1>2. t.names = s.names /\ t.keys = ks /\ t.comments = s.comments
  BY DEF WithKey
<1>3. t \in File
  <2> HIDE DEF ks
  <2>1. t = [names |-> s.names, keys |-> ks, comments |-> s.comments]
    BY DEF WithKey, ks
  <2> HIDE DEF t
  <2>2. QED
    BY <1>1, <2>1, VectorsAre DEF File
<1> HIDE DEF t, ks
<1>4. Vectors(t)
  BY <1>1, <1>2, <1>3 DEF Vectors
<1>5. QED
  BY <1>1, <1>2, <1>4 DEF t

(* A new section is a section.                                             *)
LEMMA EmptyTyped == EmptyKey \in Key /\ Len(EmptyKey.names) = Len(EmptyKey.values)
<1>1. <<>> \in Seq(Names) /\ <<>> \in Seq(Values)
  OBVIOUS
<1>2. QED
  BY <1>1 DEF EmptyKey, Key

(* No sections at all are good: what Erase and the constructor leave.      *)
LEMMA EmptyGood == Good(Empty)
<1>1. <<>> \in Seq(Word) /\ <<>> \in Seq(Key) /\ DOMAIN <<>> = {}
  OBVIOUS
<1>2. Empty.names = <<>> /\ Empty.keys = <<>> /\ Empty \in File
  BY <1>1 DEF Empty, File
<1>3. QED
  BY <1>1, <1>2 DEF Good, Vectors, Unique

(* A section that is appended, without values.                             *)
LEMMA AddKeyNameIs ==
  ASSUME NEW s, Vectors(s), NEW k \in Word
  PROVE  LET t == AddKeyName(s, k)
             n == Len(s.keys)
         IN  /\ Vectors(t) /\ t.names = Append(s.names, k) /\ t.keys = Append(s.keys, EmptyKey)
             /\ t.comments = s.comments
             /\ Len(t.keys) = n + 1 /\ DOMAIN t.keys = 1 .. n + 1
             /\ \A i \in DOMAIN s.keys :
                  i \in DOMAIN t.keys /\ t.names[i] = s.names[i] /\ t.keys[i] = s.keys[i]
             /\ n + 1 \in DOMAIN t.keys /\ t.names[n + 1] = k /\ t.keys[n + 1] = EmptyKey
<1> DEFINE t == AddKeyName(s, k)
           n == Len(s.keys)
           ns == Append(s.names, k)
           ks == Append(s.keys, EmptyKey)
<1>1. /\ s.names \in Seq(Word) /\ s.keys \in Seq(Key) /\ n \in Nat /\ Len(s.names) = n
      /\ DOMAIN s.keys = 1 .. n
      /\ s = [names |-> s.names, keys |-> s.keys, comments |-> s.comments] /\ s.comments \in Nat
  BY VectorsAre
<1>2. t = [names |-> ns, keys |-> ks, comments |-> s.comments]
  <2>1. s \in File
    BY DEF Vectors
  <2>2. t = [s EXCEPT !.names = ns, !.keys = ks]
    BY DEF AddKeyName
  <2> HIDE DEF t, ns, ks
  <2>3. QED
    BY <2>1, <2>2 DEF File
<1> HIDE DEF n
<1>3. /\ ns \in Seq(Word) /\ ks \in Seq(Key) /\ Len(ns) = n + 1 /\ Len(ks) = n + 1
      /\ DOMAIN ks = 1 .. n + 1
      /\ \A i \in 1 .. n : ns[i] = s.names[i] /\ ks[i] = s.keys[i]
      /\ ns[n + 1] = k /\ ks[n + 1] = EmptyKey
  BY <1>1, EmptyTyped DEF n
<1> HIDE DEF t, ns, ks
<1>4. t.names = ns /\ t.keys = ks /\ t.comments = s.comments /\ t \in File
  BY <1>1, <1>2, <1>3 DEF File
<1>5. \A i \in 1 .. n + 1 : Len(ks[i].names) = Len(ks[i].values)
  <2> SUFFICES ASSUME NEW i \in 1 .. n + 1 PROVE Len(ks[i].names) = Len(ks[i].values)
    OBVIOUS
  <2>1. CASE i = n + 1
    BY <1>3, <2>1, EmptyTyped
  <2>2. CASE i \in 1 .. n
    BY <1>1, <1>3, <2>2 DEF Vectors
  <2>3. QED
    BY <1>1, <2>1, <2>2
<1>6. Vectors(t)
  BY <1>3, <1>4, <1>5 DEF Vectors
<1>7. n + 1 \in 1 .. n + 1 /\ \A i \in 1 .. n : i \in 1 .. n + 1
  BY <1>1
<1>8. QED
  BY <1>1, <1>3, <1>4, <1>6, <1>7 DEF t, ns, ks, n

(* AddKeyName may add a section of a name that there is; the second is     *)
(* empty, so the names stay unique.                                        *)
LEMMA AddKeyNameGood ==
  ASSUME NEW s, Good(s), NEW k \in Word
  PROVE  Good(AddKeyName(s, k))
<1> DEFINE t == AddKeyName(s, k)
           n == Len(s.keys)
<1>1. Vectors(s) /\ Unique(s) /\ n \in Nat /\ DOMAIN s.keys = 1 .. n
  BY VectorsAre DEF Good
<1>2. /\ Vectors(t) /\ DOMAIN t.keys = 1 .. n + 1
      /\ \A i \in DOMAIN s.keys : t.names[i] = s.names[i] /\ t.keys[i] = s.keys[i]
      /\ t.keys[n + 1] = EmptyKey
  BY <1>1, AddKeyNameIs
<1> HIDE DEF t, n
<1>3. ASSUME NEW i \in DOMAIN t.keys
      PROVE  /\ t.keys[i].names # <<>> =>
                  \A l \in 1 .. i - 1 : Fold(t.names[l]) # Fold(t.names[i])
             /\ \A j, l \in DOMAIN t.keys[i].names :
                  Fold(t.keys[i].names[j]) = Fold(t.keys[i].names[l]) => j = l
  <2>1. CASE i = n + 1
    <3>1. t.keys[i].names = <<>>
      BY <1>2, <2>1 DEF EmptyKey
    <3>2. QED
      BY <3>1
  <2>2. CASE i \in DOMAIN s.keys
    <3>1. \A l \in 1 .. i - 1 : l \in DOMAIN s.keys
      BY <1>1, <2>2
    <3>2. QED
      BY <1>1, <1>2, <2>2, <3>1 DEF Unique
  <2>3. QED
    BY <1>1, <1>2, <2>1, <2>2
<1>4. QED
  BY <1>2, <1>3 DEF Good, Unique, t

SectionOf(k, ns, vs) == [names |-> ns, values |-> vs, comments |-> k.comments]

BothOf(k, ns, vs) == [[k EXCEPT !.names = ns] EXCEPT !.values = vs]

ValuesOf(k, vs) == [k EXCEPT !.values = vs]

(* The two ways to write a section with other vectors: as the updates of   *)
(* the model, and as a record.                                             *)
LEMMA KeyExcept ==
  ASSUME NEW k \in Key, NEW ns, NEW vs
  PROVE  /\ BothOf(k, ns, vs) = SectionOf(k, ns, vs)
         /\ ValuesOf(k, vs) = SectionOf(k, k.names, vs)
<1> DEFINE named == [k EXCEPT !.names = ns]
<1>1. named = [names |-> ns, values |-> k.values, comments |-> k.comments]
  BY DEF Key
<1>2. ValuesOf(k, vs) = SectionOf(k, k.names, vs)
  BY DEF Key, ValuesOf, SectionOf
<1>3. BothOf(k, ns, vs) = [named EXCEPT !.values = vs]
  BY DEF BothOf
<1> HIDE DEF named
<1>4. [named EXCEPT !.values = vs] = SectionOf(k, ns, vs)
  BY <1>1 DEF SectionOf
<1>5. QED
  BY <1>2, <1>3, <1>4

BothAt(keys, i, ns, vs) == [keys EXCEPT ![i].names = ns, ![i].values = vs]

ValuesAt(keys, i, vs) == [keys EXCEPT ![i].values = vs]

(* The same, in a vector of sections.                                      *)
LEMMA SectionExcept ==
  ASSUME NEW keys \in Seq(Key), NEW i \in DOMAIN keys, NEW ns, NEW vs
  PROVE  /\ BothAt(keys, i, ns, vs) = [keys EXCEPT ![i] = SectionOf(keys[i], ns, vs)]
         /\ ValuesAt(keys, i, vs) = [keys EXCEPT ![i] = SectionOf(keys[i], keys[i].names, vs)]
<1>1. keys[i] \in Key /\ keys = [l \in DOMAIN keys |-> keys[l]]
  OBVIOUS
<1>2. ValuesAt(keys, i, vs) = [keys EXCEPT ![i] = ValuesOf(keys[i], vs)]
  BY DEF ValuesAt, ValuesOf
<1>3. BothAt(keys, i, ns, vs) = [keys EXCEPT ![i] = BothOf(keys[i], ns, vs)]
  <2> DEFINE a == [keys EXCEPT ![i].names = ns]
             b == [a EXCEPT ![i].values = vs]
             c == [keys EXCEPT ![i] = BothOf(keys[i], ns, vs)]
  <2>1. /\ a = [l \in DOMAIN a |-> a[l]] /\ DOMAIN a = DOMAIN keys
        /\ a[i] = [keys[i] EXCEPT !.names = ns]
        /\ \A l \in DOMAIN keys : l # i => a[l] = keys[l]
    BY <1>1
  <2>2. /\ b = [l \in DOMAIN b |-> b[l]] /\ DOMAIN b = DOMAIN a
        /\ b[i] = [a[i] EXCEPT !.values = vs]
        /\ \A l \in DOMAIN keys : l # i => b[l] = a[l]
    <3> HIDE DEF a
    <3>1. QED
      BY <2>1
  <2>3. /\ c = [l \in DOMAIN c |-> c[l]] /\ DOMAIN c = DOMAIN keys
        /\ c[i] = BothOf(keys[i], ns, vs)
        /\ \A l \in DOMAIN keys : l # i => c[l] = keys[l]
    BY <1>1
  <2>4. b[i] = c[i]
    <3> HIDE DEF a, b, c
    <3>1. b[i] = [[keys[i] EXCEPT !.names = ns] EXCEPT !.values = vs]
      BY <2>1, <2>2, Zenon
    <3>2. QED
      BY <2>3, <3>1, Zenon DEF BothOf
  <2>5. b = c
    <3> HIDE DEF a, b, c
    <3>1. QED
      BY <2>1, <2>2, <2>3, <2>4
  <2>6. BothAt(keys, i, ns, vs) = b
    BY DEF BothAt
  <2>7. QED
    BY <2>5, <2>6
<1>4. /\ BothOf(keys[i], ns, vs) = SectionOf(keys[i], ns, vs)
      /\ ValuesOf(keys[i], vs) = SectionOf(keys[i], keys[i].names, vs)
  BY <1>1, KeyExcept
<1>5. QED
  BY <1>2, <1>3, <1>4, Zenon

(* A value that is appended to a section.                                  *)
LEMMA AddValueIs ==
  ASSUME NEW s, Vectors(s), NEW i \in DOMAIN s.keys, NEW n \in Names, NEW v \in Values
  PROVE  LET k == SectionOf(s.keys[i], Append(s.keys[i].names, n), Append(s.keys[i].values, v))
         IN  AddValue(s, i, n, v) = WithKey(s, i, k) /\ k \in Key /\ Len(k.names) = Len(k.values)
<1> DEFINE ns == Append(s.keys[i].names, n)
           vs == Append(s.keys[i].values, v)
           k == SectionOf(s.keys[i], ns, vs)
<1>1. /\ ns \in Seq(Names) /\ vs \in Seq(Values) /\ s.keys[i].comments \in Nat
      /\ Len(ns) = Len(vs)
  <2>1. /\ s.keys[i].names \in Seq(Names) /\ s.keys[i].values \in Seq(Values)
        /\ s.keys[i].comments \in Nat /\ Len(s.keys[i].names) = Len(s.keys[i].values)
    BY VectorsAre
  <2>2. QED
    BY <2>1
<1>2. s = [names |-> s.names, keys |-> s.keys, comments |-> s.comments]
      /\ s.keys \in Seq(Key) /\ s.keys[i] \in Key
  BY VectorsAre
<1>3. AddValue(s, i, n, v) = [s EXCEPT !.keys = BothAt(s.keys, i, ns, vs)]
  BY <1>2 DEF AddValue, BothAt
<1> HIDE DEF ns, vs
<1>4. BothAt(s.keys, i, ns, vs) = [s.keys EXCEPT ![i] = k]
  BY <1>2, SectionExcept
<1>5. AddValue(s, i, n, v) = WithKey(s, i, k)
  <2> HIDE DEF k
  <2>1. QED
    BY <1>2, <1>3, <1>4 DEF WithKey
<1>6. k \in Key /\ Len(k.names) = Len(k.values)
  BY <1>1 DEF Key, SectionOf
<1>7. QED
  BY <1>5, <1>6 DEF ns, vs

(* PutValue gives one section another value in one place.                  *)
LEMMA PutValueIs ==
  ASSUME NEW s, Vectors(s), NEW i \in DOMAIN s.keys, NEW j \in DOMAIN s.keys[i].names,
         NEW v \in Values
  PROVE  LET k == SectionOf(s.keys[i], s.keys[i].names, [s.keys[i].values EXCEPT ![j] = v])
         IN  PutValue(s, i, j, v) = WithKey(s, i, k) /\ k \in Key /\ Len(k.names) = Len(k.values)
<1> DEFINE vs == [s.keys[i].values EXCEPT ![j] = v]
           k == SectionOf(s.keys[i], s.keys[i].names, vs)
<1>1. /\ vs \in Seq(Values) /\ s.keys[i].comments \in Nat /\ s.keys[i].names \in Seq(Names)
      /\ Len(s.keys[i].names) = Len(vs)
  BY VectorsAre
<1>2. s = [names |-> s.names, keys |-> s.keys, comments |-> s.comments]
      /\ s.keys \in Seq(Key) /\ s.keys[i] \in Key
  BY VectorsAre
<1>3. PutValue(s, i, j, v) = [s EXCEPT !.keys = ValuesAt(s.keys, i, vs)]
  BY <1>2 DEF PutValue, ValuesAt
<1> HIDE DEF vs
<1>4. ValuesAt(s.keys, i, vs) = [s.keys EXCEPT ![i] = k]
  BY <1>2, SectionExcept
<1>5. PutValue(s, i, j, v) = WithKey(s, i, k)
  <2> HIDE DEF k
  <2>1. QED
    BY <1>2, <1>3, <1>4 DEF WithKey
<1>6. k \in Key /\ Len(k.names) = Len(k.values)
  BY <1>1 DEF Key, SectionOf
<1>7. QED
  BY <1>5, <1>6 DEF vs

(* A vector from which one element has been removed.                       *)
LEMMA RemoveAtIs ==
  ASSUME NEW S, NEW seq \in Seq(S), NEW i \in DOMAIN seq
  PROVE  LET rest == RemoveAt(seq, i)
         IN  /\ rest \in Seq(S) /\ Len(seq) \in Nat /\ Len(rest) = Len(seq) - 1
             /\ DOMAIN rest = 1 .. Len(seq) - 1
             /\ \A l \in 1 .. Len(seq) - 1 : rest[l] = IF l < i THEN seq[l] ELSE seq[l + 1]
<1> DEFINE n == Len(seq)
           before == SubSeq(seq, 1, i - 1)
           after == SubSeq(seq, i + 1, n)
<1>1. n \in Nat /\ i \in 1 .. n /\ \A l \in 1 .. n : seq[l] \in S
  OBVIOUS
<1> HIDE DEF n
<1>2. /\ before \in Seq(S) /\ Len(before) = i - 1
      /\ \A l \in 1 .. i - 1 : before[l] = seq[l]
  BY <1>1 DEF n
<1>3. /\ after \in Seq(S) /\ Len(after) = n - i
      /\ \A l \in 1 .. n - i : after[l] = seq[i + l]
  <2>1. \A x \in i + 1 .. n : seq[x] \in S
    BY <1>1
  <2>2. i + 1 \in Int /\ n \in Int
    BY <1>1
  <2>3. /\ after \in Seq(S) /\ Len(after) = IF i + 1 <= n THEN n - (i + 1) + 1 ELSE 0
        /\ \A l \in 1 .. n - (i + 1) + 1 : after[l] = seq[i + 1 + l - 1]
    BY <2>1, <2>2, SubSeqProperties
  <2> HIDE DEF after
  <2>4. \A l \in 1 .. n - i : i + 1 + l - 1 = i + l
    BY <1>1
  <2>5. n - (i + 1) + 1 = n - i
    BY <1>1
  <2>6. QED
    BY <1>1, <2>3, <2>4, <2>5
<1>4. RemoveAt(seq, i) = before \o after
  BY DEF RemoveAt, n
<1> HIDE DEF before, after
<1>5. /\ before \o after \in Seq(S) /\ Len(before \o after) = n - 1
      /\ DOMAIN (before \o after) = 1 .. n - 1
      /\ \A l \in 1 .. n - 1 :
           (before \o after)[l] = IF l < i THEN before[l] ELSE after[l - (i - 1)]
  <2> DEFINE both == before \o after
  <2>1. Len(before) + Len(after) = n - 1
    BY <1>1, <1>2, <1>3
  <2>2. /\ both \in Seq(S) /\ Len(both) = n - 1
        /\ \A l \in 1 .. n - 1 :
             both[l] = IF l <= Len(before) THEN before[l] ELSE after[l - Len(before)]
    BY <1>2, <1>3, <2>1, ConcatProperties
  <2> HIDE DEF both
  <2>3. \A l \in 1 .. n - 1 : both[l] = IF l < i THEN before[l] ELSE after[l - (i - 1)]
    BY <1>1, <1>2, <2>2
  <2>4. DOMAIN both = 1 .. n - 1
    BY <2>2
  <2>5. QED
    BY <2>2, <2>3, <2>4 DEF both
<1>6. \A l \in 1 .. n - 1 :
        (IF l < i THEN before[l] ELSE after[l - (i - 1)])
          = IF l < i THEN seq[l] ELSE seq[l + 1]
  <2> SUFFICES ASSUME NEW l \in 1 .. n - 1
               PROVE  (IF l < i THEN before[l] ELSE after[l - (i - 1)])
                        = IF l < i THEN seq[l] ELSE seq[l + 1]
    OBVIOUS
  <2>1. CASE l < i
    BY <1>1, <1>2, <2>1
  <2>2. CASE ~(l < i)
    <3>1. l - (i - 1) \in 1 .. n - i /\ i + (l - (i - 1)) = l + 1
      BY <1>1, <2>2
    <3>2. QED
      BY <1>3, <2>2, <3>1
  <2>3. QED
    BY <2>1, <2>2
<1>7. QED
  BY <1>1, <1>4, <1>5, <1>6 DEF n

-----------------------------------------------------------------------------
(* The dictionary the vectors s hold.                                      *)
At(s, i, j) == <<Fold(s.names[i]), Fold(s.keys[i].names[j]), s.keys[i].values[j]>>

IsAt(s, e, i, j) ==
  i \in DOMAIN s.keys /\ j \in DOMAIN s.keys[i].names /\ e = At(s, i, j)

EntriesOf(s) == UNION {{At(s, i, j) : j \in DOMAIN s.keys[i].names} : i \in DOMAIN s.keys}

NamesOf(s) == {Fold(s.names[i]) : i \in DOMAIN s.names}

(* An entry is one at some place of the vectors.                           *)
LEMMA EntriesAre ==
  ASSUME NEW s, NEW e
  PROVE  e \in EntriesOf(s) <=> \E i, j : IsAt(s, e, i, j)
BY DEF EntriesOf, IsAt

(* Entries of one section are at one index, and those of one name at one   *)
(* place in it.                                                            *)
LEMMA OnePlace ==
  ASSUME NEW s, Good(s), NEW e, NEW i, NEW j, IsAt(s, e, i, j),
         NEW f, NEW l, NEW m, IsAt(s, f, l, m), e[1] = f[1]
  PROVE  i = l /\ (e[2] = f[2] => j = m)
<1>1. /\ Vectors(s) /\ Unique(s)
      /\ i \in DOMAIN s.keys /\ j \in DOMAIN s.keys[i].names
      /\ l \in DOMAIN s.keys /\ m \in DOMAIN s.keys[l].names
      /\ e[1] = Fold(s.names[i]) /\ e[2] = Fold(s.keys[i].names[j])
      /\ f[1] = Fold(s.names[l]) /\ f[2] = Fold(s.keys[l].names[m])
  BY DEF Good, IsAt, At
<1>2. DOMAIN s.keys = 1 .. Len(s.keys) /\ Len(s.keys) \in Nat
  BY <1>1, VectorsAre
<1>3. s.keys[i].names # <<>> /\ s.keys[l].names # <<>>
  <2>1. DOMAIN <<>> = {}
    OBVIOUS
  <2>2. QED
    BY <1>1, <2>1
<1>4. \A x \in 1 .. i - 1 : Fold(s.names[x]) # Fold(s.names[i])
  BY <1>1, <1>3 DEF Unique
<1>5. \A x \in 1 .. l - 1 : Fold(s.names[x]) # Fold(s.names[l])
  BY <1>1, <1>3 DEF Unique
<1>6. i = l
  <2>1. i \in Int /\ l \in Int /\ 1 <= i /\ 1 <= l
    BY <1>1, <1>2
  <2>2. i \notin 1 .. l - 1 /\ l \notin 1 .. i - 1
    BY <1>1, <1>4, <1>5
  <2>3. QED
    BY <2>1, <2>2
<1>7. e[2] = f[2] => j = m
  BY <1>1, <1>6 DEF Unique
<1>8. QED
  BY <1>6, <1>7

(* A section may get other values if their names differ and it is the      *)
(* first of its name, or had values.                                       *)
LEMMA WithKeyGood ==
  ASSUME NEW s, Good(s), NEW i \in DOMAIN s.keys,
         NEW k \in Key, Len(k.names) = Len(k.values),
         \A j, l \in DOMAIN k.names : Fold(k.names[j]) = Fold(k.names[l]) => j = l,
         \/ k.names = <<>>
         \/ s.keys[i].names # <<>>
         \/ \A l \in 1 .. i - 1 : Fold(s.names[l]) # Fold(s.names[i])
  PROVE  Good(WithKey(s, i, k))
<1> DEFINE t == WithKey(s, i, k)
<1>1. Vectors(s) /\ Unique(s)
  BY DEF Good
<1>2. /\ Vectors(t) /\ t.names = s.names /\ DOMAIN t.keys = DOMAIN s.keys /\ t.keys[i] = k
      /\ \A l \in DOMAIN s.keys : l # i => t.keys[l] = s.keys[l]
  BY <1>1, WithKeyIs
<1> HIDE DEF t
<1>3. ASSUME NEW x \in DOMAIN t.keys
      PROVE  /\ t.keys[x].names # <<>> =>
                  \A l \in 1 .. x - 1 : Fold(t.names[l]) # Fold(t.names[x])
             /\ \A j, l \in DOMAIN t.keys[x].names :
                  Fold(t.keys[x].names[j]) = Fold(t.keys[x].names[l]) => j = l
  <2>1. CASE x = i
    <3>1. s.keys[i].names # <<>> => \A l \in 1 .. i - 1 : Fold(s.names[l]) # Fold(s.names[i])
      BY <1>1 DEF Unique
    <3>2. t.keys[x] = k
      BY <1>2, <2>1
    <3>3. k.names # <<>> => \A l \in 1 .. i - 1 : Fold(s.names[l]) # Fold(s.names[i])
      BY <3>1
    <3>4. QED
      BY <1>2, <2>1, <3>2, <3>3
  <2>2. CASE x # i
    <3>1. t.keys[x] = s.keys[x] /\ x \in DOMAIN s.keys
      BY <1>2, <2>2
    <3>2. QED
      BY <1>1, <1>2, <3>1 DEF Unique
  <2>3. QED
    BY <2>1, <2>2
<1>4. QED
  BY <1>2, <1>3 DEF Good, Unique, t

(* What it means that e takes the place of what its name had.              *)
Puts(s, t, e) ==
  /\ Good(t) /\ e \in EntriesOf(t)
  /\ EntriesOf(t) = (EntriesOf(s) \ {f \in EntriesOf(s) : f[1] = e[1] /\ f[2] = e[2]}) \cup {e}
  /\ NamesOf(t) = NamesOf(s) \cup {e[1]}

(* A value added to the first section of its name, which has none of that  *)
(* name, puts one entry.                                                   *)
LEMMA AddValuePuts ==
  ASSUME NEW s, Good(s), NEW i \in DOMAIN s.keys, NEW n \in Names, NEW v \in Values,
         \A l \in 1 .. i - 1 : Fold(s.names[l]) # Fold(s.names[i]),
         \A j \in DOMAIN s.keys[i].names : Fold(s.keys[i].names[j]) # Fold(n)
  PROVE  Puts(s, AddValue(s, i, n, v), <<Fold(s.names[i]), Fold(n), v>>)
<1> DEFINE old == s.keys[i]
           k == SectionOf(old, Append(old.names, n), Append(old.values, v))
           t == WithKey(s, i, k)
           e == <<Fold(s.names[i]), Fold(n), v>>
           m == Len(old.names)
<1>1. Vectors(s) /\ AddValue(s, i, n, v) = t /\ k \in Key /\ Len(k.names) = Len(k.values)
  BY AddValueIs DEF Good
<1>2. /\ old.names \in Seq(Names) /\ old.values \in Seq(Values) /\ m \in Nat
      /\ Len(old.values) = m /\ DOMAIN old.names = 1 .. m
  BY <1>1, VectorsAre
<1>3. k.names = Append(old.names, n) /\ k.values = Append(old.values, v)
  BY DEF SectionOf
<1> HIDE DEF k, old
<1>4. /\ DOMAIN k.names = 1 .. m + 1
      /\ \A j \in 1 .. m : k.names[j] = old.names[j] /\ k.values[j] = old.values[j]
      /\ k.names[m + 1] = n /\ k.values[m + 1] = v
  BY <1>2, <1>3
<1>5. \A j \in 1 .. m : Fold(old.names[j]) # Fold(n)
  BY <1>2 DEF old
<1>6. \A j, l \in 1 .. m : Fold(old.names[j]) = Fold(old.names[l]) => j = l
  BY <1>2 DEF Good, Unique, old
<1> HIDE DEF m
<1>7. \A j, l \in DOMAIN k.names : Fold(k.names[j]) = Fold(k.names[l]) => j = l
  <2> SUFFICES ASSUME NEW j \in 1 .. m + 1, NEW l \in 1 .. m + 1,
                      Fold(k.names[j]) = Fold(k.names[l])
               PROVE  j = l
    BY <1>4
  <2>1. (j \in 1 .. m \/ j = m + 1) /\ (l \in 1 .. m \/ l = m + 1)
    BY <1>2
  <2>2. QED
    BY <1>4, <1>5, <1>6, <2>1
<1>8. Good(t)
  BY <1>1, <1>7, WithKeyGood
<1>9. /\ t.names = s.names /\ DOMAIN t.keys = DOMAIN s.keys /\ t.keys[i] = k
      /\ \A l \in DOMAIN s.keys : l # i => t.keys[l] = s.keys[l]
  BY <1>1, WithKeyIs
<1> HIDE DEF t
<1>10. IsAt(t, e, i, m + 1)
  BY <1>2, <1>4, <1>9 DEF IsAt, At
<1>11. \A f, l, j : IsAt(s, f, l, j) => IsAt(t, f, l, j)
  <2> SUFFICES ASSUME NEW f, NEW l, NEW j, IsAt(s, f, l, j) PROVE IsAt(t, f, l, j)
    OBVIOUS
  <2>1. CASE l = i
    BY <1>2, <1>4, <1>9, <2>1 DEF IsAt, At, old
  <2>2. CASE l # i
    BY <1>9, <2>2 DEF IsAt, At
  <2>3. QED
    BY <2>1, <2>2
<1>12. \A f, l, j : IsAt(t, f, l, j) => f = e \/ IsAt(s, f, l, j)
  <2> SUFFICES ASSUME NEW f, NEW l, NEW j, IsAt(t, f, l, j) PROVE f = e \/ IsAt(s, f, l, j)
    OBVIOUS
  <2>1. CASE l # i
    BY <1>9, <2>1 DEF IsAt, At
  <2>2. CASE l = i
    <3>1. j \in 1 .. m \/ j = m + 1
      BY <1>2, <1>4, <1>9, <2>2 DEF IsAt
    <3>2. QED
      BY <1>2, <1>4, <1>9, <2>2, <3>1 DEF IsAt, At, old
  <2>3. QED
    BY <2>1, <2>2
<1>13. \A f \in EntriesOf(s) : ~(f[1] = e[1] /\ f[2] = e[2])
  <2> SUFFICES ASSUME NEW f \in EntriesOf(s), f[1] = e[1], f[2] = e[2] PROVE FALSE
    OBVIOUS
  <2>1. PICK l, j : IsAt(s, f, l, j)
    BY EntriesAre
  <2>2. IsAt(t, f, l, j)
    BY <1>11, <2>1
  <2>3. l = i /\ j = m + 1
    BY <1>8, <1>10, <2>2, OnePlace
  <2>4. j \in 1 .. m
    BY <1>2, <2>1, <2>3 DEF IsAt, old
  <2>5. QED
    BY <1>2, <2>3, <2>4
<1>14. EntriesOf(t) = EntriesOf(s) \cup {e}
  BY <1>10, <1>11, <1>12, EntriesAre
<1>15. NamesOf(t) = NamesOf(s) \cup {e[1]}
  <2>1. e[1] \in NamesOf(s) /\ i \in DOMAIN s.names
    BY <1>1, VectorsAre DEF NamesOf
  <2>2. NamesOf(t) = NamesOf(s)
    BY <1>9 DEF NamesOf
  <2>3. QED
    BY <2>1, <2>2
<1> HIDE DEF e
<1>16. Puts(s, t, e)
  BY <1>8, <1>13, <1>14, <1>15 DEF Puts
<1>17. QED
  BY <1>1, <1>16 DEF e

(* A value in the place of another puts one entry, of a name that had one. *)
LEMMA PutValuePuts ==
  ASSUME NEW s, Good(s), NEW i \in DOMAIN s.keys, NEW j \in DOMAIN s.keys[i].names,
         NEW v \in Values
  PROVE  LET e == <<Fold(s.names[i]), Fold(s.keys[i].names[j]), v>>
         IN  /\ Puts(s, PutValue(s, i, j, v), e)
             /\ \E f \in EntriesOf(s) : f[1] = e[1] /\ f[2] = e[2]
<1> DEFINE old == s.keys[i]
           k == SectionOf(old, old.names, [old.values EXCEPT ![j] = v])
           t == WithKey(s, i, k)
           e == <<Fold(s.names[i]), Fold(old.names[j]), v>>
<1>1. Vectors(s) /\ PutValue(s, i, j, v) = t /\ k \in Key /\ Len(k.names) = Len(k.values)
  BY PutValueIs DEF Good
<1>2. /\ old.names \in Seq(Names) /\ old.values \in Seq(Values)
      /\ DOMAIN old.values = DOMAIN old.names
  BY <1>1, VectorsAre
<1>3. k.names = old.names /\ k.values = [old.values EXCEPT ![j] = v]
  BY DEF SectionOf
<1> HIDE DEF k, old
<1>4. k.values[j] = v /\ \A l \in DOMAIN old.names : l # j => k.values[l] = old.values[l]
  BY <1>2, <1>3 DEF old
<1>5. \A l, x \in DOMAIN k.names : Fold(k.names[l]) = Fold(k.names[x]) => l = x
  BY <1>3 DEF Good, Unique, old
<1>6. old.names # <<>>
  <2>1. DOMAIN <<>> = {}
    OBVIOUS
  <2>2. QED
    BY <2>1 DEF old
<1>7. Good(t)
  BY <1>1, <1>5, <1>6, WithKeyGood DEF old
<1>8. /\ t.names = s.names /\ DOMAIN t.keys = DOMAIN s.keys /\ t.keys[i] = k
      /\ \A l \in DOMAIN s.keys : l # i => t.keys[l] = s.keys[l]
  BY <1>1, WithKeyIs
<1> HIDE DEF t
<1>9. IsAt(t, e, i, j)
  BY <1>3, <1>4, <1>8 DEF IsAt, At, old
<1>10. IsAt(s, At(s, i, j), i, j)
  BY DEF IsAt
<1>11. \A f, l, x : (l # i \/ x # j) => (IsAt(s, f, l, x) <=> IsAt(t, f, l, x))
  <2> SUFFICES ASSUME NEW f, NEW l, NEW x, l # i \/ x # j
               PROVE  IsAt(s, f, l, x) <=> IsAt(t, f, l, x)
    OBVIOUS
  <2>1. CASE l = i
    BY <1>3, <1>4, <1>8, <2>1 DEF IsAt, At, old
  <2>2. CASE l # i
    BY <1>8, <2>2 DEF IsAt, At
  <2>3. QED
    BY <2>1, <2>2
<1>12. At(s, i, j)[1] = e[1] /\ At(s, i, j)[2] = e[2] /\ At(s, i, j) \in EntriesOf(s)
  BY <1>10, EntriesAre DEF At, old
<1>13. \A f \in EntriesOf(s) : f[1] = e[1] /\ f[2] = e[2] => f = At(s, i, j)
  <2> SUFFICES ASSUME NEW f \in EntriesOf(s), f[1] = e[1], f[2] = e[2] PROVE f = At(s, i, j)
    OBVIOUS
  <2>1. PICK l, x : IsAt(s, f, l, x)
    BY EntriesAre
  <2>2. l = i /\ x = j
    BY <1>10, <1>12, <2>1, OnePlace
  <2>3. QED
    BY <2>1, <2>2 DEF IsAt
<1> DEFINE rest == EntriesOf(s) \ {f \in EntriesOf(s) : f[1] = e[1] /\ f[2] = e[2]}
<1>14. EntriesOf(t) \subseteq rest \cup {e}
  <2> SUFFICES ASSUME NEW f \in EntriesOf(t), f # e PROVE f \in rest
    OBVIOUS
  <2>1. PICK l, x : IsAt(t, f, l, x)
    BY EntriesAre
  <2>2. l # i \/ x # j
    BY <1>9, <2>1 DEF IsAt
  <2>3. f \in EntriesOf(s) /\ IsAt(s, f, l, x)
    BY <1>11, <2>1, <2>2, EntriesAre
  <2>4. ~(f[1] = e[1] /\ f[2] = e[2])
    BY <1>7, <1>9, <2>1, <2>2, OnePlace
  <2>5. QED
    BY <2>3, <2>4
<1>15. rest \cup {e} \subseteq EntriesOf(t)
  <2> SUFFICES ASSUME NEW f \in rest \cup {e}, f # e PROVE f \in EntriesOf(t)
    BY <1>9, EntriesAre
  <2>1. f \in EntriesOf(s) /\ f # At(s, i, j)
    BY <1>12
  <2>2. PICK l, x : IsAt(s, f, l, x)
    BY <2>1, EntriesAre
  <2>3. l # i \/ x # j
    BY <2>1, <2>2 DEF IsAt
  <2>4. QED
    BY <1>11, <2>2, <2>3, EntriesAre
<1>16. NamesOf(t) = NamesOf(s) \cup {e[1]}
  <2>1. e[1] \in NamesOf(s) /\ i \in DOMAIN s.names
    BY <1>1, VectorsAre DEF NamesOf
  <2>2. NamesOf(t) = NamesOf(s)
    BY <1>8 DEF NamesOf
  <2>3. QED
    BY <2>1, <2>2
<1>17. e \in EntriesOf(t)
  BY <1>9, EntriesAre
<1> HIDE DEF e
<1>18. Puts(s, t, e)
  BY <1>7, <1>14, <1>15, <1>16, <1>17 DEF Puts
<1>19. \E f \in EntriesOf(s) : f[1] = e[1] /\ f[2] = e[2]
  BY <1>12
<1>20. QED
  BY <1>1, <1>18, <1>19 DEF e, old

(* A section added changes no entry, and adds its name.                    *)
LEMMA AddKeyNameAdds ==
  ASSUME NEW s, Good(s), NEW k \in Word
  PROVE  LET t == AddKeyName(s, k)
         IN  Good(t) /\ EntriesOf(t) = EntriesOf(s) /\ NamesOf(t) = NamesOf(s) \cup {Fold(k)}
<1> DEFINE t == AddKeyName(s, k)
           n == Len(s.keys)
<1>1. Vectors(s) /\ n \in Nat /\ DOMAIN s.keys = 1 .. n /\ DOMAIN s.names = 1 .. n
  BY VectorsAre DEF Good
<1>2. /\ Vectors(t) /\ DOMAIN t.keys = 1 .. n + 1
      /\ \A i \in DOMAIN s.keys : t.names[i] = s.names[i] /\ t.keys[i] = s.keys[i]
      /\ t.names[n + 1] = k /\ t.keys[n + 1] = EmptyKey
  BY <1>1, AddKeyNameIs
<1>3. Good(t)
  BY AddKeyNameGood
<1> HIDE DEF t, n
<1>4. DOMAIN t.names = 1 .. n + 1
  BY <1>2, VectorsAre
<1>5. NamesOf(t) = NamesOf(s) \cup {Fold(k)}
  <2>1. NamesOf(t) \subseteq NamesOf(s) \cup {Fold(k)}
    <3> SUFFICES ASSUME NEW i \in 1 .. n + 1
                 PROVE  Fold(t.names[i]) \in NamesOf(s) \cup {Fold(k)}
      BY <1>4 DEF NamesOf
    <3>1. i \in 1 .. n \/ i = n + 1
      BY <1>1
    <3>2. QED
      BY <1>1, <1>2, <3>1 DEF NamesOf
  <2>2. Fold(k) \in NamesOf(t)
    <3>1. n + 1 \in DOMAIN t.names
      BY <1>1, <1>4
    <3>2. QED
      BY <1>2, <3>1 DEF NamesOf
  <2>3. NamesOf(s) \subseteq NamesOf(t)
    <3> SUFFICES ASSUME NEW i \in 1 .. n PROVE Fold(s.names[i]) \in NamesOf(t)
      BY <1>1 DEF NamesOf
    <3>1. i \in DOMAIN t.names /\ Fold(t.names[i]) = Fold(s.names[i])
      BY <1>1, <1>2, <1>4
    <3>2. Fold(t.names[i]) \in NamesOf(t)
      BY <3>1 DEF NamesOf
    <3>3. QED
      BY <3>1, <3>2
  <2>4. QED
    BY <2>1, <2>2, <2>3
<1>6. \A e, i, j : IsAt(t, e, i, j) <=> IsAt(s, e, i, j)
  <2> SUFFICES ASSUME NEW e, NEW i, NEW j PROVE IsAt(t, e, i, j) <=> IsAt(s, e, i, j)
    OBVIOUS
  <2>1. CASE i \in 1 .. n
    <3>1. i \in 1 .. n + 1
      BY <1>1, <2>1
    <3>2. QED
      BY <1>1, <1>2, <2>1, <3>1 DEF IsAt, At
  <2>2. CASE i \notin 1 .. n
    <3>1. ~IsAt(s, e, i, j)
      BY <1>1, <2>2 DEF IsAt
    <3>2. IsAt(t, e, i, j) => i = n + 1
      BY <1>1, <1>2, <2>2 DEF IsAt
    <3>3. DOMAIN EmptyKey.names = {}
      BY DEF EmptyKey
    <3>4. QED
      BY <1>2, <3>1, <3>2, <3>3 DEF IsAt
  <2>3. QED
    BY <2>1, <2>2
<1>7. EntriesOf(t) = EntriesOf(s)
  BY <1>6, EntriesAre
<1>8. QED
  BY <1>3, <1>5, <1>7 DEF t

(* SetValue puts the value under its names, which are those of a section   *)
(* that is there or is added.                                              *)
LEMMA SetValuePuts ==
  ASSUME NEW s, Good(s), NEW k \in Word, NEW n \in Names, NEW v \in Values
  PROVE  /\ Puts(s, SetValue(s, k, n, v), <<Fold(k), Fold(n), v>>)
         /\ FindValue(s, FindKey(s, k), n) # 0 =>
              FindKey(s, k) \in DOMAIN s.keys
              /\ \E e \in EntriesOf(s) : e[1] = Fold(k) /\ e[2] = Fold(n)
         /\ FindKey(s, k) = 0 \/ FindValue(s, FindKey(s, k), n) = 0 =>
              \A e \in EntriesOf(s) : ~(e[1] = Fold(k) /\ e[2] = Fold(n))
<1> DEFINE x == FindKey(s, k)
           t == IF x = 0 THEN AddKeyName(s, k) ELSE s
           i == FindKey(t, k)
           j == FindValue(t, i, n)
           e == <<Fold(k), Fold(n), v>>
           len == Len(s.keys)
<1>1. /\ Vectors(s) /\ len \in Nat /\ DOMAIN s.keys = 1 .. len /\ DOMAIN s.names = 1 .. len
      /\ s.names \in Seq(Word) /\ Len(s.names) = len
  BY VectorsAre DEF Good
<1>2. \/ x = 0 /\ \A l \in 1 .. len : Fold(s.names[l]) # Fold(k)
      \/ /\ x \in 1 .. len /\ Fold(s.names[x]) = Fold(k)
         /\ \A l \in 1 .. x - 1 : Fold(s.names[l]) # Fold(k)
  <2>1. x = First(s.names, k)
    BY FindsFirst
  <2> HIDE DEF x, len
  <2>2. QED
    BY <1>1, <2>1, FirstIs
<1>2a. /\ Vectors(AddKeyName(s, k)) /\ len + 1 \in DOMAIN AddKeyName(s, k).keys
       /\ \A l \in DOMAIN s.keys : AddKeyName(s, k).names[l] = s.names[l]
       /\ AddKeyName(s, k).names[len + 1] = k /\ AddKeyName(s, k).keys[len + 1] = EmptyKey
  <2>1. Vectors(s)
    BY <1>1
  <2> HIDE DEF x
  <2>2. QED
    BY <2>1, AddKeyNameIs
<1>3. SetValue(s, k, n, v) = IF j = 0 THEN AddValue(t, i, n, v) ELSE PutValue(t, i, j, v)
  BY DEF SetValue
<1> HIDE DEF x, len
<1>4. CASE x = 0
  <2>1. t = AddKeyName(s, k)
    BY <1>4
  <2> HIDE DEF t
  <2>2. Good(t) /\ EntriesOf(t) = EntriesOf(s) /\ NamesOf(t) = NamesOf(s) \cup {Fold(k)}
    BY <2>1, AddKeyNameAdds
  <2>3. /\ Vectors(t) /\ len + 1 \in DOMAIN t.keys
        /\ \A l \in 1 .. len : t.names[l] = s.names[l]
        /\ t.names[len + 1] = k /\ t.keys[len + 1] = EmptyKey
    BY <1>1, <1>2a, <2>1
  <2>4. t.names \in Seq(Word) /\ len + 1 \in 1 .. Len(t.names)
    BY <2>3, VectorsAre
  <2>5. \A l \in 1 .. len : Fold(t.names[l]) # Fold(k)
    BY <1>1, <1>2, <1>4, <2>3
  <2>6. i = len + 1
    <3>1. \A l \in 1 .. (len + 1) - 1 : Fold(t.names[l]) # Fold(k)
      BY <1>1, <2>5
    <3>2. First(t.names, k) = len + 1
      BY <2>3, <2>4, <3>1, FirstUnique
    <3>3. QED
      BY <3>2, FindsFirst
  <2>7. EmptyKey.names \in Seq(Names) /\ Len(EmptyKey.names) = 0 /\ DOMAIN EmptyKey.names = {}
    BY DEF EmptyKey
  <2> HIDE DEF i
  <2>8. j = 0
    <3>1. j = First(EmptyKey.names, n)
      BY <2>3, <2>6, FindsFirst
    <3>2. First(EmptyKey.names, n) = 0
      BY <2>7, FirstIs
    <3>3. QED
      BY <3>1, <3>2
  <2> HIDE DEF j
  <2>9. Puts(t, AddValue(t, i, n, v), <<Fold(t.names[i]), Fold(n), v>>)
    <3>1. i \in DOMAIN t.keys
      BY <2>3, <2>6
    <3>2. \A l \in 1 .. i - 1 : Fold(t.names[l]) # Fold(t.names[i])
      BY <1>1, <2>3, <2>5, <2>6
    <3>3. \A l \in DOMAIN t.keys[i].names : Fold(t.keys[i].names[l]) # Fold(n)
      BY <2>3, <2>6, <2>7
    <3>4. QED
      BY <2>2, <3>1, <3>2, <3>3, AddValuePuts
  <2>10. <<Fold(t.names[i]), Fold(n), v>> = e
    BY <2>3, <2>6
  <2>11. Puts(s, SetValue(s, k, n, v), e)
    BY <1>3, <2>2, <2>8, <2>9, <2>10 DEF Puts
  <2>12. \A f \in EntriesOf(s) : f[1] # Fold(k)
    <3> SUFFICES ASSUME NEW f \in EntriesOf(s) PROVE f[1] # Fold(k)
      OBVIOUS
    <3>1. PICK l, m : IsAt(s, f, l, m)
      BY EntriesAre
    <3>2. QED
      BY <1>1, <1>2, <1>4, <3>1 DEF IsAt, At
  <2>13. FindValue(s, x, n) = 0
    BY <1>1, <1>4 DEF FindValue
  <2>14. QED
    BY <2>11, <2>12, <2>13 DEF x
<1>5. CASE x # 0
  <2>1. t = s
    BY <1>5
  <2>2. i = x
    BY <2>1 DEF x
  <2>3. /\ x \in DOMAIN s.keys /\ Fold(s.names[x]) = Fold(k)
        /\ \A l \in 1 .. x - 1 : Fold(s.names[l]) # Fold(s.names[x])
    BY <1>1, <1>2, <1>5
  <2> HIDE DEF t, i
  <2> DEFINE names == s.keys[x].names
  <2>4. names \in Seq(Names) /\ DOMAIN names = 1 .. Len(names)
    BY <1>1, <2>3, VectorsAre
  <2>5. j = First(names, n)
    BY <2>1, <2>2, <2>3, FindsFirst
  <2> HIDE DEF names, j
  <2>6. \/ j = 0 /\ \A l \in DOMAIN names : Fold(names[l]) # Fold(n)
        \/ j \in DOMAIN names /\ Fold(names[j]) = Fold(n) /\ j # 0
    BY <2>4, <2>5, FirstIs
  <2>7. FindValue(s, x, n) = j
    BY <2>1, <2>2 DEF j
  <2>8. CASE j = 0
    <3>1. \A l \in DOMAIN s.keys[x].names : Fold(s.keys[x].names[l]) # Fold(n)
      BY <2>6, <2>8 DEF names
    <3>2. Puts(s, AddValue(s, x, n, v), <<Fold(s.names[x]), Fold(n), v>>)
      BY <2>3, <3>1, AddValuePuts
    <3>3. SetValue(s, k, n, v) = AddValue(s, x, n, v)
      BY <1>3, <2>1, <2>2, <2>8
    <3>4. \A f \in EntriesOf(s) : ~(f[1] = Fold(k) /\ f[2] = Fold(n))
      <4> SUFFICES ASSUME NEW f \in EntriesOf(s), f[1] = Fold(k), f[2] = Fold(n) PROVE FALSE
        OBVIOUS
      <4>1. PICK l, m : IsAt(s, f, l, m)
        BY EntriesAre
      <4>2. /\ l \in 1 .. len /\ Fold(s.names[l]) = Fold(s.names[x])
            /\ m \in DOMAIN s.keys[l].names /\ Fold(s.keys[l].names[m]) = Fold(n)
        BY <1>1, <2>3, <4>1 DEF IsAt, At
      <4>3. l # x
        BY <3>1, <4>2
      <4>4. s.keys[l].names # <<>>
        <5>1. DOMAIN <<>> = {}
          OBVIOUS
        <5>2. QED
          BY <4>2, <5>1
      <4>5. \A y \in 1 .. l - 1 : Fold(s.names[y]) # Fold(s.names[l])
        BY <1>1, <4>2, <4>4 DEF Good, Unique
      <4>6. l \notin 1 .. x - 1 /\ x \notin 1 .. l - 1
        BY <2>3, <4>2, <4>5
      <4>7. QED
        BY <1>1, <2>3, <4>2, <4>3, <4>6
    <3>5. QED
      BY <2>3, <2>7, <2>8, <3>2, <3>3, <3>4 DEF x
  <2>9. CASE j # 0
    <3>1. j \in DOMAIN s.keys[x].names /\ Fold(s.keys[x].names[j]) = Fold(n)
      BY <2>6, <2>9 DEF names
    <3>2. /\ Puts(s, PutValue(s, x, j, v), <<Fold(s.names[x]), Fold(s.keys[x].names[j]), v>>)
          /\ At(s, x, j) \in EntriesOf(s)
      <4>1. IsAt(s, At(s, x, j), x, j)
        BY <2>3, <3>1 DEF IsAt
      <4>2. QED
        BY <2>3, <3>1, <4>1, EntriesAre, PutValuePuts
    <3>3. SetValue(s, k, n, v) = PutValue(s, x, j, v)
      BY <1>3, <2>1, <2>2, <2>9
    <3>4. At(s, x, j)[1] = Fold(k) /\ At(s, x, j)[2] = Fold(n)
      BY <2>3, <3>1 DEF At
    <3>5. x # 0
      BY <1>5
    <3>6. QED
      BY <2>3, <2>7, <2>9, <3>1, <3>2, <3>3, <3>4, <3>5 DEF x
  <2>10. QED
    BY <2>8, <2>9
<1>6. QED
  BY <1>4, <1>5

(* EraseValue takes out the entry at its place, and nothing else.          *)
LEMMA EraseValueErases ==
  ASSUME NEW s, Good(s), NEW i \in DOMAIN s.keys, NEW j \in DOMAIN s.keys[i].names
  PROVE  LET t == EraseValue(s, i, j)
         IN  /\ Good(t) /\ EntriesOf(t) = EntriesOf(s) \ {At(s, i, j)}
             /\ NamesOf(t) = NamesOf(s)
<1> DEFINE old == s.keys[i]
           ns == RemoveAt(old.names, j)
           vs == RemoveAt(old.values, j)
           k == SectionOf(old, ns, vs)
           t == WithKey(s, i, k)
           m == Len(old.names)
           e == At(s, i, j)
<1>1. /\ Vectors(s) /\ Unique(s) /\ s.keys \in Seq(Key) /\ s.keys[i] \in Key
      /\ s = [names |-> s.names, keys |-> s.keys, comments |-> s.comments]
  BY VectorsAre DEF Good
<1>2. /\ old.names \in Seq(Names) /\ old.values \in Seq(Values) /\ m \in Nat
      /\ DOMAIN old.values = DOMAIN old.names /\ DOMAIN old.names = 1 .. m
      /\ Len(old.values) = m /\ old.comments \in Nat
  BY <1>1, VectorsAre
<1> HIDE DEF old, m
<1>3. /\ ns \in Seq(Names) /\ Len(ns) = m - 1 /\ DOMAIN ns = 1 .. m - 1
      /\ \A l \in 1 .. m - 1 : ns[l] = IF l < j THEN old.names[l] ELSE old.names[l + 1]
  BY <1>2, RemoveAtIs DEF old, m
<1>4. /\ vs \in Seq(Values) /\ Len(vs) = m - 1
      /\ \A l \in 1 .. m - 1 : vs[l] = IF l < j THEN old.values[l] ELSE old.values[l + 1]
  <2>1. j \in DOMAIN old.values
    BY <1>2 DEF old
  <2>2. QED
    BY <1>2, <2>1, RemoveAtIs
<1>5. EraseValue(s, i, j) = [s EXCEPT !.keys = BothAt(s.keys, i, ns, vs)]
  BY <1>1 DEF EraseValue, BothAt, old
<1> HIDE DEF ns, vs
<1>6. k.names = ns /\ k.values = vs /\ k \in Key /\ Len(k.names) = Len(k.values)
  BY <1>2, <1>3, <1>4 DEF SectionOf, Key
<1>7. BothAt(s.keys, i, ns, vs) = [s.keys EXCEPT ![i] = k]
  BY <1>1, SectionExcept DEF old
<1> HIDE DEF k
<1>8. EraseValue(s, i, j) = t
  BY <1>1, <1>5, <1>7 DEF WithKey
<1>9. j \in 1 .. m /\ m \in Nat
  BY <1>2 DEF old
<1> DEFINE from(l) == IF l < j THEN l ELSE l + 1
<1>10. \A l \in 1 .. m - 1 :
         from(l) \in 1 .. m /\ from(l) # j /\ ns[l] = old.names[from(l)] /\ vs[l] = old.values[from(l)]
  BY <1>3, <1>4, <1>9
<1>11. \A l, x \in 1 .. m - 1 : from(l) = from(x) => l = x
  BY <1>9
<1>12. \A x \in 1 .. m : x # j => \E l \in 1 .. m - 1 : from(l) = x
  <2> SUFFICES ASSUME NEW x \in 1 .. m, x # j PROVE \E l \in 1 .. m - 1 : from(l) = x
    OBVIOUS
  <2>1. CASE x < j
    BY <1>9, <2>1
  <2>2. CASE ~(x < j)
    <3>1. x - 1 \in 1 .. m - 1 /\ from(x - 1) = x
      BY <1>9, <2>2
    <3>2. QED
      BY <3>1
  <2>3. QED
    BY <2>1, <2>2
<1> HIDE DEF from
<1>13. \A l, x \in 1 .. m : Fold(old.names[l]) = Fold(old.names[x]) => l = x
  BY <1>1, <1>2 DEF Unique, old
<1>14. \A l, x \in DOMAIN k.names : Fold(k.names[l]) = Fold(k.names[x]) => l = x
  <2> SUFFICES ASSUME NEW l \in 1 .. m - 1, NEW x \in 1 .. m - 1, Fold(ns[l]) = Fold(ns[x])
               PROVE  l = x
    BY <1>3, <1>6
  <2>1. from(l) = from(x)
    BY <1>10, <1>13
  <2>2. QED
    BY <1>11, <2>1
<1>15. old.names # <<>>
  <2>1. DOMAIN <<>> = {}
    OBVIOUS
  <2>2. QED
    BY <2>1 DEF old
<1>16. Good(t)
  BY <1>6, <1>14, <1>15, WithKeyGood DEF old
<1>17. /\ t.names = s.names /\ DOMAIN t.keys = DOMAIN s.keys /\ t.keys[i] = k
       /\ \A l \in DOMAIN s.keys : l # i => t.keys[l] = s.keys[l]
  BY <1>1, <1>6, WithKeyIs
<1> HIDE DEF t
<1>18. \A f, l, x : l # i => (IsAt(s, f, l, x) <=> IsAt(t, f, l, x))
  BY <1>17 DEF IsAt, At
<1>19. \A f, l : IsAt(t, f, i, l) => IsAt(s, f, i, from(l)) /\ from(l) # j
  <2> SUFFICES ASSUME NEW f, NEW l, IsAt(t, f, i, l)
               PROVE  IsAt(s, f, i, from(l)) /\ from(l) # j
    OBVIOUS
  <2>1. l \in 1 .. m - 1 /\ f = <<Fold(s.names[i]), Fold(ns[l]), vs[l]>>
    BY <1>3, <1>6, <1>17 DEF IsAt, At
  <2>2. /\ from(l) \in DOMAIN s.keys[i].names /\ from(l) # j
        /\ f = <<Fold(s.names[i]), Fold(s.keys[i].names[from(l)]), s.keys[i].values[from(l)]>>
    BY <1>2, <1>10, <2>1 DEF old
  <2>3. QED
    BY <2>2 DEF IsAt, At
<1>20. \A f, x : IsAt(s, f, i, x) /\ x # j => \E l : IsAt(t, f, i, l)
  <2> SUFFICES ASSUME NEW f, NEW x, IsAt(s, f, i, x), x # j PROVE \E l : IsAt(t, f, i, l)
    OBVIOUS
  <2>1. x \in 1 .. m /\ f = <<Fold(s.names[i]), Fold(old.names[x]), old.values[x]>>
    BY <1>2 DEF IsAt, At, old
  <2>2. PICK l \in 1 .. m - 1 : from(l) = x
    BY <1>12, <2>1
  <2>3. f = <<Fold(t.names[i]), Fold(t.keys[i].names[l]), t.keys[i].values[l]>>
    BY <1>6, <1>10, <1>17, <2>1, <2>2
  <2>4. IsAt(t, f, i, l)
    BY <1>3, <1>6, <1>17, <2>3 DEF IsAt, At
  <2>5. QED
    BY <2>4
<1>21. IsAt(s, e, i, j)
  BY DEF IsAt
<1>22. \A f, x : IsAt(s, f, i, x) /\ f = e => x = j
  BY <1>21, OnePlace
<1> HIDE DEF e
<1>23. EntriesOf(t) = EntriesOf(s) \ {e}
  <2>1. ASSUME NEW f \in EntriesOf(t) PROVE f \in EntriesOf(s) /\ f # e
    <3>1. PICK l, x : IsAt(t, f, l, x)
      BY EntriesAre
    <3>2. CASE l = i
      BY <1>19, <1>22, <3>1, <3>2, EntriesAre
    <3>3. CASE l # i
      <4>1. IsAt(s, f, l, x)
        BY <1>18, <3>1, <3>3
      <4>2. f # e
        BY <1>21, <3>3, <4>1, OnePlace
      <4>3. QED
        BY <4>1, <4>2, EntriesAre
    <3>4. QED
      BY <3>2, <3>3
  <2>2. ASSUME NEW f \in EntriesOf(s), f # e PROVE f \in EntriesOf(t)
    <3>1. PICK l, x : IsAt(s, f, l, x)
      BY EntriesAre
    <3>2. CASE l = i
      <4>1. x # j
        BY <1>21, <2>2, <3>1, <3>2 DEF IsAt
      <4>2. QED
        BY <1>20, <3>1, <3>2, <4>1, EntriesAre
    <3>3. CASE l # i
      BY <1>18, <3>1, <3>3, EntriesAre
    <3>4. QED
      BY <3>2, <3>3
  <2>3. QED
    BY <2>1, <2>2
<1>24. NamesOf(t) = NamesOf(s)
  BY <1>17 DEF NamesOf
<1>25. QED
  BY <1>8, <1>16, <1>23, <1>24 DEF e

(* EraseKey takes out the entries of the first section of a name; the name *)
(* goes unless a second, empty section has it.                             *)
LEMMA EraseKeyErases ==
  ASSUME NEW s, Good(s), NEW i \in DOMAIN s.keys,
         \A l \in 1 .. i - 1 : Fold(s.names[l]) # Fold(s.names[i])
  PROVE  LET t == EraseKey(s, i)
             k == Fold(s.names[i])
         IN  /\ Good(t) /\ EntriesOf(t) = {e \in EntriesOf(s) : e[1] # k}
             /\ NamesOf(t) \in {NamesOf(s), NamesOf(s) \ {k}}
<1> DEFINE t == EraseKey(s, i)
           k == Fold(s.names[i])
           n == Len(s.keys)
           ns == RemoveAt(s.names, i)
           ks == RemoveAt(s.keys, i)
           from(l) == IF l < i THEN l ELSE l + 1
<1>1. /\ Vectors(s) /\ Unique(s) /\ s.keys \in Seq(Key) /\ s.names \in Seq(Word)
      /\ s = [names |-> s.names, keys |-> s.keys, comments |-> s.comments]
      /\ n \in Nat /\ Len(s.names) = n /\ DOMAIN s.keys = 1 .. n /\ DOMAIN s.names = 1 .. n
      /\ s.comments \in Nat
  BY VectorsAre DEF Good
<1>2. i \in 1 .. n
  BY <1>1
<1>3. /\ ns \in Seq(Word) /\ Len(ns) = n - 1 /\ DOMAIN ns = 1 .. n - 1
      /\ \A l \in 1 .. n - 1 : ns[l] = IF l < i THEN s.names[l] ELSE s.names[l + 1]
  <2>1. i \in DOMAIN s.names
    BY <1>1
  <2> HIDE DEF n
  <2>2. QED
    BY <1>1, <2>1, RemoveAtIs
<1>4. /\ ks \in Seq(Key) /\ Len(ks) = n - 1 /\ DOMAIN ks = 1 .. n - 1
      /\ \A l \in 1 .. n - 1 : ks[l] = IF l < i THEN s.keys[l] ELSE s.keys[l + 1]
  BY <1>1, RemoveAtIs
<1>5. t = [s EXCEPT !.names = ns, !.keys = ks]
  BY DEF EraseKey
<1> HIDE DEF t, ns, ks, n
<1>6. t = [names |-> ns, keys |-> ks, comments |-> s.comments]
  <2>1. s \in File
    BY <1>1 DEF Vectors
  <2>2. QED
    BY <1>5, <2>1 DEF File
<1>7. t \in File /\ t.names = ns /\ t.keys = ks
  BY <1>1, <1>3, <1>4, <1>6 DEF File
<1>8. \A l \in 1 .. n - 1 :
        from(l) \in 1 .. n /\ from(l) # i /\ ns[l] = s.names[from(l)] /\ ks[l] = s.keys[from(l)]
  BY <1>1, <1>2, <1>3, <1>4
<1>9. \A l, x \in 1 .. n - 1 : l < x => from(l) < from(x)
  BY <1>1, <1>2
<1>10. \A x \in 1 .. n : x # i => \E l \in 1 .. n - 1 : from(l) = x
  <2> SUFFICES ASSUME NEW x \in 1 .. n, x # i PROVE \E l \in 1 .. n - 1 : from(l) = x
    OBVIOUS
  <2>1. CASE x < i
    BY <1>1, <1>2, <2>1
  <2>2. CASE ~(x < i)
    <3>1. x - 1 \in 1 .. n - 1 /\ from(x - 1) = x
      BY <1>1, <1>2, <2>2
    <3>2. QED
      BY <3>1
  <2>3. QED
    BY <2>1, <2>2
<1> HIDE DEF from
<1>11. Vectors(t)
  <2>1. \A l \in DOMAIN t.keys : Len(t.keys[l].names) = Len(t.keys[l].values)
    BY <1>1, <1>4, <1>7, <1>8 DEF Vectors
  <2>2. QED
    BY <1>3, <1>4, <1>7, <2>1 DEF Vectors
<1>12. Unique(t)
  <2> SUFFICES ASSUME NEW x \in 1 .. n - 1
               PROVE  /\ t.keys[x].names # <<>> =>
                           \A l \in 1 .. x - 1 : Fold(t.names[l]) # Fold(t.names[x])
                      /\ \A j, l \in DOMAIN t.keys[x].names :
                           Fold(t.keys[x].names[j]) = Fold(t.keys[x].names[l]) => j = l
    BY <1>4, <1>7 DEF Unique
  <2>1. /\ from(x) \in DOMAIN s.keys /\ t.keys[x] = s.keys[from(x)]
        /\ t.names[x] = s.names[from(x)]
    BY <1>1, <1>7, <1>8
  <2>2. ASSUME t.keys[x].names # <<>>, NEW l \in 1 .. x - 1
        PROVE  Fold(t.names[l]) # Fold(t.names[x])
    <3>1. l \in 1 .. n - 1 /\ l < x
      BY <1>1
    <3>2. from(l) \in 1 .. n /\ from(l) < from(x) /\ t.names[l] = s.names[from(l)]
      BY <1>7, <1>8, <1>9, <3>1
    <3>3. from(l) \in 1 .. from(x) - 1
      BY <1>1, <2>1, <3>2
    <3>4. QED
      BY <1>1, <2>1, <2>2, <3>2, <3>3 DEF Unique
  <2>3. \A j, l \in DOMAIN t.keys[x].names :
          Fold(t.keys[x].names[j]) = Fold(t.keys[x].names[l]) => j = l
    BY <1>1, <2>1 DEF Unique
  <2>4. QED
    BY <2>2, <2>3
<1>13. \A f, l, j : IsAt(t, f, l, j) => IsAt(s, f, from(l), j) /\ from(l) # i
  <2> SUFFICES ASSUME NEW f, NEW l, NEW j, IsAt(t, f, l, j)
               PROVE  IsAt(s, f, from(l), j) /\ from(l) # i
    OBVIOUS
  <2>1. l \in 1 .. n - 1
    BY <1>4, <1>7 DEF IsAt
  <2>2. QED
    BY <1>1, <1>7, <1>8, <2>1 DEF IsAt, At
<1>14. \A f, x, j : IsAt(s, f, x, j) /\ x # i => \E l : IsAt(t, f, l, j)
  <2> SUFFICES ASSUME NEW f, NEW x, NEW j, IsAt(s, f, x, j), x # i PROVE \E l : IsAt(t, f, l, j)
    OBVIOUS
  <2>1. x \in 1 .. n
    BY <1>1 DEF IsAt
  <2>2. PICK l \in 1 .. n - 1 : from(l) = x
    BY <1>10, <2>1
  <2>3. IsAt(t, f, l, j)
    BY <1>4, <1>7, <1>8, <2>2 DEF IsAt, At
  <2>4. QED
    BY <2>3
<1>15. \A f, x, j : IsAt(s, f, x, j) => (f[1] = k <=> x = i)
  <2> SUFFICES ASSUME NEW f, NEW x, NEW j, IsAt(s, f, x, j) PROVE f[1] = k <=> x = i
    OBVIOUS
  <2>1. x \in 1 .. n /\ f[1] = Fold(s.names[x]) /\ j \in DOMAIN s.keys[x].names
    BY <1>1 DEF IsAt, At
  <2>2. s.keys[x].names # <<>>
    <3>1. DOMAIN <<>> = {}
      OBVIOUS
    <3>2. QED
      BY <2>1, <3>1
  <2>3. \A l \in 1 .. x - 1 : Fold(s.names[l]) # Fold(s.names[x])
    BY <1>1, <2>1, <2>2 DEF Unique
  <2>4. f[1] = k => x \notin 1 .. i - 1 /\ i \notin 1 .. x - 1
    BY <2>1, <2>3
  <2>5. QED
    BY <1>1, <1>2, <2>1, <2>4
<1> HIDE DEF k
<1>16. EntriesOf(t) = {e \in EntriesOf(s) : e[1] # k}
  <2>1. ASSUME NEW f \in EntriesOf(t) PROVE f \in EntriesOf(s) /\ f[1] # k
    <3>1. PICK l, j : IsAt(t, f, l, j)
      BY EntriesAre
    <3>2. IsAt(s, f, from(l), j) /\ from(l) # i
      BY <1>13, <3>1
    <3>3. QED
      BY <1>15, <3>2, EntriesAre
  <2>2. ASSUME NEW f \in EntriesOf(s), f[1] # k PROVE f \in EntriesOf(t)
    <3>1. PICK x, j : IsAt(s, f, x, j)
      BY EntriesAre
    <3>2. x # i
      BY <1>15, <2>2, <3>1
    <3>3. PICK l : IsAt(t, f, l, j)
      BY <1>14, <3>1, <3>2
    <3>4. QED
      BY <3>3, EntriesAre
  <2>3. QED
    BY <2>1, <2>2
<1>17. NamesOf(t) \in {NamesOf(s), NamesOf(s) \ {k}}
  <2>1. NamesOf(t) = {Fold(s.names[x]) : x \in {y \in 1 .. n : y # i}}
    <3>1. NamesOf(t) = {Fold(ns[l]) : l \in 1 .. n - 1}
      BY <1>3, <1>7 DEF NamesOf
    <3>2. \A l \in 1 .. n - 1 : Fold(ns[l]) \in {Fold(s.names[x]) : x \in {y \in 1 .. n : y # i}}
      BY <1>8
    <3>3. \A x \in 1 .. n : x # i => Fold(s.names[x]) \in {Fold(ns[l]) : l \in 1 .. n - 1}
      BY <1>8, <1>10
    <3>4. QED
      BY <3>1, <3>2, <3>3
  <2>2. NamesOf(s) = {Fold(s.names[x]) : x \in 1 .. n}
    BY <1>1 DEF NamesOf
  <2>3. CASE \E x \in 1 .. n : x # i /\ Fold(s.names[x]) = k
    <3>1. NamesOf(t) = NamesOf(s)
      BY <2>1, <2>2, <2>3 DEF k
    <3>2. QED
      BY <3>1
  <2>4. CASE ~\E x \in 1 .. n : x # i /\ Fold(s.names[x]) = k
    <3>1. NamesOf(t) = NamesOf(s) \ {k}
      BY <2>1, <2>2, <2>4 DEF k
    <3>2. QED
      BY <3>1
  <2>5. QED
    BY <2>3, <2>4
<1>18. QED
  BY <1>11, <1>12, <1>16, <1>17 DEF t, k, Good

-----------------------------------------------------------------------------
(* What leaves the names and the values as they are.                       *)
SameValues(s, t) ==
  /\ Vectors(t) /\ t.names = s.names /\ DOMAIN t.keys = DOMAIN s.keys
  /\ \A i \in DOMAIN s.keys :
       t.keys[i].names = s.keys[i].names /\ t.keys[i].values = s.keys[i].values

(* What changes only comments changes no entry.                            *)
LEMMA SameValuesHold ==
  ASSUME NEW s, Good(s), NEW t, SameValues(s, t)
  PROVE  Good(t) /\ EntriesOf(t) = EntriesOf(s) /\ NamesOf(t) = NamesOf(s)
<1>1. \A e, i, j : IsAt(t, e, i, j) <=> IsAt(s, e, i, j)
  BY DEF SameValues, IsAt, At
<1>2. EntriesOf(t) = EntriesOf(s)
  BY <1>1, EntriesAre
<1>3. Unique(s)
  BY DEF Good
<1>4. Unique(t)
  BY <1>3 DEF Unique, SameValues
<1>5. NamesOf(t) = NamesOf(s)
  BY DEF NamesOf, SameValues
<1>6. QED
  BY <1>2, <1>4, <1>5 DEF Good, SameValues

(* A change of a section's comments, and one of the header's.              *)
LEMMA CommentsChange ==
  ASSUME NEW s, Vectors(s), NEW i \in DOMAIN s.keys, NEW c \in Nat
  PROVE  SameValues(s, [s EXCEPT !.keys[i].comments = c])
<1> DEFINE old == s.keys[i]
           k == [names |-> old.names, values |-> old.values, comments |-> c]
           t == WithKey(s, i, k)
<1>1. /\ s = [names |-> s.names, keys |-> s.keys, comments |-> s.comments]
      /\ s.keys \in Seq(Key) /\ s.keys[i] \in Key /\ Len(old.names) = Len(old.values)
  BY VectorsAre
<1>2. [old EXCEPT !.comments = c] = k /\ k \in Key /\ Len(k.names) = Len(k.values)
  <2> HIDE DEF old
  <2>1. old \in Key
    BY <1>1 DEF old
  <2>2. [old EXCEPT !.comments = c] = k
    BY <2>1 DEF Key
  <2>3. k \in Key
    BY <2>1 DEF Key
  <2>4. QED
    BY <1>1, <2>2, <2>3
<1>3. [s EXCEPT !.keys[i].comments = c]
        = [s EXCEPT !.keys = [s.keys EXCEPT ![i] = [old EXCEPT !.comments = c]]]
  OBVIOUS
<1> HIDE DEF k
<1>4. [s EXCEPT !.keys[i].comments = c] = [s EXCEPT !.keys = [s.keys EXCEPT ![i] = k]]
  BY <1>2, <1>3, Zenon
<1>5. [s EXCEPT !.keys = [s.keys EXCEPT ![i] = k]] = t
  <2> DEFINE r == [s.keys EXCEPT ![i] = k]
  <2>1. t = [names |-> s.names, keys |-> r, comments |-> s.comments]
    BY Zenon DEF WithKey
  <2> HIDE DEF r, t
  <2>2. s = [names |-> s.names, keys |-> s.keys, comments |-> s.comments]
    BY <1>1
  <2>3. [s EXCEPT !.keys = r] = [names |-> s.names, keys |-> r, comments |-> s.comments]
    BY <2>2
  <2>4. [s EXCEPT !.keys = r] = t
    BY <2>1, <2>3
  <2>5. QED
    BY <2>4 DEF r
<1>6. /\ Vectors(t) /\ t.names = s.names /\ DOMAIN t.keys = DOMAIN s.keys /\ t.keys[i] = k
      /\ \A l \in DOMAIN s.keys : l # i => t.keys[l] = s.keys[l]
  BY <1>2, WithKeyIs
<1> HIDE DEF t
<1>7. \A l \in DOMAIN s.keys : t.keys[l].names = s.keys[l].names /\ t.keys[l].values = s.keys[l].values
  BY <1>6 DEF k
<1>8. SameValues(s, t)
  BY <1>6, <1>7 DEF SameValues
<1>9. QED
  BY <1>4, <1>5, <1>8

(* The header's comments are not the sections'.                            *)
LEMMA HeaderChange ==
  ASSUME NEW s, Vectors(s), NEW c \in Nat
  PROVE  SameValues(s, [s EXCEPT !.comments = c])
<1> DEFINE t == [s EXCEPT !.comments = c]
<1>1. s.names \in Seq(Word) /\ s.keys \in Seq(Key) /\ s \in File
  BY VectorsAre DEF Vectors
<1>2. t = [names |-> s.names, keys |-> s.keys, comments |-> c]
  BY <1>1 DEF File
<1> HIDE DEF t
<1>3. t \in File /\ t.names = s.names /\ t.keys = s.keys
  BY <1>1, <1>2 DEF File
<1>4. SameValues(s, t)
  BY <1>3 DEF SameValues, Vectors
<1>5. QED
  BY <1>4 DEF t

-----------------------------------------------------------------------------
(* What a call does to the dictionary.                                     *)
Keeps(s, t) == Good(t) /\ EntriesOf(t) = EntriesOf(s) /\ NamesOf(t) = NamesOf(s)

Adds(s, t) ==
  /\ Good(t) /\ EntriesOf(t) = EntriesOf(s)
  /\ \E k \in NamesOf(t) : NamesOf(t) = NamesOf(s) \cup {k}

PutsSome(s, t) == \E e \in EntriesOf(t) : Puts(s, t, e)

(* The vectors as they were.                                               *)
LEMMA NothingChanges ==
  ASSUME NEW s, Good(s)
  PROVE  Keeps(s, s)
BY DEF Keeps

(* AddSection, as the dictionary sees it.                                  *)
LEMMA SectionAdded ==
  ASSUME NEW s, Good(s), NEW k \in Word
  PROVE  Adds(s, AddKeyName(s, k))
<1> DEFINE t == AddKeyName(s, k)
<1>1. Good(t) /\ EntriesOf(t) = EntriesOf(s) /\ NamesOf(t) = NamesOf(s) \cup {Fold(k)}
  BY AddKeyNameAdds
<1> HIDE DEF t
<1>2. Fold(k) \in NamesOf(t)
  BY <1>1
<1>3. Adds(s, t)
  BY <1>1, <1>2 DEF Adds
<1>4. QED
  BY <1>3 DEF t

(* SetValue puts the entry of its names and its value, whether it finds    *)
(* the section and the value or adds them.                                 *)
LEMMA ValueSet ==
  ASSUME NEW s, Good(s), NEW k \in Word, NEW n \in Names, NEW v \in Values
  PROVE  LET t == SetValue(s, k, n, v)
         IN  PutsSome(s, t)
<1>1. Puts(s, SetValue(s, k, n, v), <<Fold(k), Fold(n), v>>)
  BY SetValuePuts
<1>2. QED
  BY <1>1, Zenon DEF PutsSome, Puts

(* A comment changes no entry, if it is lost or kept.                      *)
LEMMA CommentKeeps ==
  ASSUME NEW s, Good(s), NEW i
  PROVE  Keeps(s, Comment(s, i))
<1>1. Vectors(s)
  BY DEF Good
<1>2. CASE i \in DOMAIN s.keys
  <2> DEFINE c == s.keys[i].comments + 1
  <2>1. c \in Nat
    BY <1>1, <1>2, VectorsAre
  <2>2. Comment(s, i) = [s EXCEPT !.keys[i].comments = c]
    BY <1>2 DEF Comment
  <2> HIDE DEF c
  <2>3. SameValues(s, [s EXCEPT !.keys[i].comments = c])
    BY <1>1, <1>2, <2>1, CommentsChange
  <2>4. SameValues(s, Comment(s, i))
    BY <2>2, <2>3, Zenon
  <2>5. QED
    BY <2>4, SameValuesHold DEF Keeps
<1>3. CASE i \notin DOMAIN s.keys
  <2>1. Comment(s, i) = s
    BY <1>3 DEF Comment
  <2>2. QED
    BY <2>1, NothingChanges
<1>4. QED
  BY <1>2, <1>3

(* Nor do other changes of a section's comments.                           *)
LEMMA SectionCommentsKeep ==
  ASSUME NEW s, Good(s), NEW i \in DOMAIN s.keys, NEW c \in Nat
  PROVE  Keeps(s, [s EXCEPT !.keys[i].comments = c])
<1>1. Vectors(s)
  BY DEF Good
<1> DEFINE t == [s EXCEPT !.keys[i].comments = c]
<1>2. SameValues(s, t)
  BY <1>1, CommentsChange
<1> HIDE DEF t
<1>3. Keeps(s, t)
  BY <1>2, SameValuesHold DEF Keeps
<1>4. QED
  BY <1>3 DEF t

(* Nor of the header's.                                                    *)
LEMMA HeaderCommentsKeep ==
  ASSUME NEW s, Good(s), NEW c \in Nat
  PROVE  Keeps(s, [s EXCEPT !.comments = c])
<1>1. Vectors(s)
  BY DEF Good
<1> DEFINE t == [s EXCEPT !.comments = c]
<1>2. SameValues(s, t)
  BY <1>1, HeaderChange
<1> HIDE DEF t
<1>3. Keeps(s, t)
  BY <1>2, SameValuesHold DEF Keeps
<1>4. QED
  BY <1>3 DEF t

(* A line of the file: a section is added, a value put, or nothing.        *)
LEMMA LineTaken ==
  ASSUME NEW s, Good(s), NEW k \in Word, NEW line \in Line
  PROVE  LET r == TakeLine([ini |-> s, key |-> k], line)
         IN  /\ r = [ini |-> r.ini, key |-> r.key] /\ r.key \in Word
             /\ Adds(s, r.ini) \/ PutsSome(s, r.ini) \/ Keeps(s, r.ini)
<1> DEFINE from == [ini |-> s, key |-> k]
           r == TakeLine(from, line)
<1>0. from.ini = s /\ from.key = k
  OBVIOUS
<1> HIDE DEF from
<1>1. CASE \E w \in Sections : line = SectionLine(w)
  <2>1. PICK w \in Sections : line = SectionLine(w)
    BY <1>1
  <2>2. line.kind = "section" /\ line.word = w
    BY <2>1 DEF SectionLine
  <2>3. r = [ini |-> AddKeyName(s, w), key |-> w]
    BY <1>0, <2>2 DEF TakeLine
  <2> HIDE DEF r
  <2>4. r.ini = AddKeyName(s, w) /\ r.key = w /\ w \in Word
    BY <2>3 DEF Word
  <2>5. QED
    BY <2>3, <2>4, SectionAdded DEF r, from
<1>2. CASE \E n \in Names, v \in Values : line = ValueLine(n, v)
  <2>1. PICK n \in Names, v \in Values : line = ValueLine(n, v)
    BY <1>2
  <2>2. line.kind = "value" /\ line.word = n /\ line.value = v
    BY <2>1 DEF ValueLine
  <2>3. r = [from EXCEPT !.ini = SetValue(s, k, n, v)]
    BY <1>0, <2>2 DEF TakeLine
  <2>4. r = [ini |-> SetValue(s, k, n, v), key |-> k]
    <3> HIDE DEF r
    <3>1. QED
      BY <2>3 DEF from
  <2> HIDE DEF r
  <2>5. r.ini = SetValue(s, k, n, v) /\ r.key = k
    BY <2>4
  <2>6. PutsSome(s, r.ini)
    BY <2>5, ValueSet
  <2>7. QED
    BY <2>4, <2>5, <2>6 DEF r, from
<1>3. CASE line = CommentLine
  <2>1. line.kind = "comment"
    BY <1>3 DEF CommentLine
  <2> DEFINE t == IF s.names = <<>> THEN [s EXCEPT !.comments = @ + 1]
                  ELSE Comment(s, FindKey(s, k))
  <2>2. r = [from EXCEPT !.ini = t]
    BY <1>0, <2>1 DEF TakeLine
  <2>3. Keeps(s, t)
    <3>1. s.comments + 1 \in Nat
      BY VectorsAre DEF Good
    <3>2. Keeps(s, [s EXCEPT !.comments = s.comments + 1])
      BY <3>1, HeaderCommentsKeep
    <3>3. Keeps(s, [s EXCEPT !.comments = @ + 1])
      BY <3>2
    <3>4. Keeps(s, Comment(s, FindKey(s, k)))
      BY CommentKeeps
    <3>5. CASE s.names = <<>>
      <4>1. t = [s EXCEPT !.comments = @ + 1]
        BY <3>5
      <4>2. QED
        BY <3>3, <4>1, Zenon
    <3>6. CASE s.names # <<>>
      <4>1. t = Comment(s, FindKey(s, k))
        BY <3>6
      <4>2. QED
        BY <3>4, <4>1, Zenon
    <3>7. QED
      BY <3>5, <3>6
  <2> HIDE DEF t, r
  <2>4. r = [ini |-> t, key |-> k]
    BY <2>2 DEF from
  <2>5. r.ini = t /\ r.key = k
    BY <2>4
  <2>6. QED
    BY <2>3, <2>4, <2>5 DEF r, from
<1>4. CASE line = OtherLine
  <2>1. line.kind = "other"
    BY <1>4 DEF OtherLine
  <2>2. r = from
    BY <2>1 DEF TakeLine
  <2> HIDE DEF r
  <2>3. r = [ini |-> s, key |-> k] /\ r.ini = s /\ r.key = k
    BY <2>2 DEF from
  <2>4. QED
    BY <2>3, NothingChanges DEF r, from
<1>5. QED
  BY <1>1, <1>2, <1>3, <1>4 DEF Line

-----------------------------------------------------------------------------
IInv ==
  /\ Good(ini)
  /\ key \in Word \cup {Idle}
  /\ answer \in Values \cup BOOLEAN \cup {Nothing}

(* The dictionary of the refinement is the vectors' one.                   *)
FoundIn(s) ==
  UNION {{At(s, i, j) : j \in {m \in DOMAIN s.keys[i].names :
                                 FindValue(s, i, s.keys[i].names[m]) = m}} :
           i \in {l \in DOMAIN s.keys : FindKey(s, s.names[l]) = l}}

(* Searched from their beginnings, good vectors show every entry they      *)
(* have: none is hidden by another.                                        *)
LEMMA AllFound ==
  ASSUME NEW s, Good(s)
  PROVE  FoundIn(s) = EntriesOf(s)
<1> DEFINE found(i) == {m \in DOMAIN s.keys[i].names : FindValue(s, i, s.keys[i].names[m]) = m}
           keys == {l \in DOMAIN s.keys : FindKey(s, s.names[l]) = l}
<1>1. \A i \in DOMAIN s.keys : found(i) = DOMAIN s.keys[i].names
  BY GoodIsFound
<1>2. FoundIn(s) = UNION {{At(s, i, j) : j \in found(i)} : i \in keys}
  BY DEF FoundIn
<1> HIDE DEF found
<1>3. FoundIn(s) \subseteq EntriesOf(s)
  <2> SUFFICES ASSUME NEW i \in keys, NEW j \in found(i) PROVE At(s, i, j) \in EntriesOf(s)
    BY <1>2
  <2>1. IsAt(s, At(s, i, j), i, j)
    BY <1>1 DEF IsAt
  <2>2. QED
    BY <2>1, EntriesAre
<1>4. EntriesOf(s) \subseteq FoundIn(s)
  <2> SUFFICES ASSUME NEW e \in EntriesOf(s) PROVE e \in FoundIn(s)
    OBVIOUS
  <2>1. PICK i, j : IsAt(s, e, i, j)
    BY EntriesAre
  <2>2. i \in DOMAIN s.keys /\ j \in DOMAIN s.keys[i].names /\ e = At(s, i, j)
    BY <2>1 DEF IsAt
  <2>3. i \in keys /\ j \in found(i)
    BY <1>1, <2>2, GoodIsFound
  <2>4. QED
    BY <1>2, <2>2, <2>3
<1>5. QED
  BY <1>3, <1>4

(* The two variables of the dictionary, from the vectors.                  *)
LEMMA MapIs ==
  ASSUME Good(ini)
  PROVE  {Fold(ini.names[i]) : i \in DOMAIN ini.names} = NamesOf(ini) /\ Entries = EntriesOf(ini)
<1>1. Entries = FoundIn(ini)
  BY DEF Entries, EntryAt, FirstValues, FoundIn, At
<1>2. QED
  BY <1>1, AllFound DEF NamesOf

(* And after a step.                                                       *)
LEMMA NextMapIs ==
  ASSUME Good(ini')
  PROVE  /\ {Fold(ini.names[i]) : i \in DOMAIN ini.names}' = NamesOf(ini')
         /\ Entries' = EntriesOf(ini')
<1>1. Entries' = FoundIn(ini')
  BY DEF Entries, EntryAt, FirstValues, FoundIn, At
<1>2. QED
  BY <1>1, AllFound DEF NamesOf

(* A step that puts an entry is the dictionary's Put.                      *)
LEMMA PutIs ==
  ASSUME Good(ini), NEW e, Puts(ini, ini', e)
  PROVE  Map!Put(e) /\ e \in Entries'
         /\ (Map!Of(e) # {} <=> \E f \in EntriesOf(ini) : f[1] = e[1] /\ f[2] = e[2])
<1>1. Good(ini')
  BY DEF Puts
<1>2. /\ {Fold(ini.names[i]) : i \in DOMAIN ini.names} = NamesOf(ini)
      /\ Entries = EntriesOf(ini)
      /\ {Fold(ini.names[i]) : i \in DOMAIN ini.names}' = NamesOf(ini')
      /\ Entries' = EntriesOf(ini')
  BY <1>1, MapIs, NextMapIs
<1>3. Map!Of(e) = {f \in EntriesOf(ini) : f[1] = e[1] /\ f[2] = e[2]}
  BY <1>2 DEF Map!Of
<1>4. Map!Put(e)
  BY <1>2, <1>3 DEF Map!Put, Puts
<1>5. QED
  BY <1>2, <1>3, <1>4 DEF Puts

(* A step that keeps the entries and names stutters on them.               *)
LEMMA KeptIs ==
  ASSUME Good(ini), Keeps(ini, ini')
  PROVE  UNCHANGED <<{Fold(ini.names[i]) : i \in DOMAIN ini.names}, Entries>>
<1>1. Good(ini')
  BY DEF Keeps
<1>2. QED
  BY <1>1, MapIs, NextMapIs DEF Keeps

(* So it is the dictionary's Other, whatever it answers.                   *)
LEMMA OtherIs ==
  ASSUME Good(ini), Keeps(ini, ini'), answer' \in BOOLEAN \cup {Nothing}
  PROVE  Map!Other
BY KeptIs DEF Map!Other, Map!dictionary

(* A step that adds a section is the dictionary's Add.                     *)
LEMMA AddIs ==
  ASSUME Good(ini), Adds(ini, ini'), answer' = Nothing
  PROVE  Map!Add
<1>1. Good(ini')
  BY DEF Adds
<1>2. QED
  BY <1>1, MapIs, NextMapIs DEF Adds, Map!Add

(* The constructor's vectors are good, and its dictionary empty.           *)
LEMMA InitHolds == ASSUME Init PROVE IInv /\ Map!Init
<1>1. ini = Empty /\ key = Idle /\ answer = Nothing
  BY DEF Init
<1>2. Good(ini)
  BY <1>1, EmptyGood
<1>3. ini.names = <<>> /\ ini.keys = <<>> /\ DOMAIN <<>> = {}
  BY <1>1 DEF Empty
<1>4. NamesOf(ini) = {} /\ EntriesOf(ini) = {}
  BY <1>3 DEF NamesOf, EntriesOf
<1>5. Map!Init
  BY <1>1, <1>2, <1>4, MapIs DEF Map!Init
<1>6. QED
  BY <1>1, <1>2, <1>5 DEF IInv

(* What a step does: the invariant holds after it, and the dictionary has  *)
(* taken a step of its own.                                                *)
MapStep == IInv' /\ Map!Next

Kept(a) ==
  /\ Keeps(ini, ini') /\ key' \in Word \cup {Idle}
  /\ answer' = a /\ a \in BOOLEAN \cup {Nothing}

(* A call that does nothing to the vectors.                                *)
LEMMA KeptSteps ==
  ASSUME IInv, NEW a, Kept(a)
  PROVE  MapStep
<1>1. Good(ini) /\ Good(ini') /\ Keeps(ini, ini')
  BY DEF IInv, Kept, Keeps
<1>2. IInv'
  BY <1>1 DEF IInv, Kept
<1>3. Map!Other
  BY <1>1, OtherIs DEF Kept
<1>4. QED
  BY <1>2, <1>3 DEF MapStep, Map!Next

(* Calls that answer FALSE, or nothing, and change nothing.                *)
LEMMA ReturnedKept ==
  ASSUME IInv, NEW s, Keeps(ini, s), NEW a \in BOOLEAN \cup {Nothing}, Return(s, a)
  PROVE  MapStep
<1>1. Kept(a)
  BY DEF Return, Kept, IInv
<1>2. QED
  BY <1>1, KeptSteps

(* AddSection (AddKeyName).                                                *)
LEMMA AddSectionSteps ==
  ASSUME IInv, NEW k \in Sections, AddSection(k)
  PROVE  MapStep
<1>1. k \in Word /\ Good(ini)
  BY DEF Word, IInv
<1>2. ini' = AddKeyName(ini, k) /\ answer' = Nothing /\ key' = key
  BY DEF AddSection, Return
<1>3. Adds(ini, ini')
  BY <1>1, <1>2, SectionAdded
<1>4. Map!Add
  BY <1>1, <1>2, <1>3, AddIs
<1>5. IInv'
  BY <1>2, <1>3 DEF IInv, Adds
<1>6. QED
  BY <1>4, <1>5 DEF MapStep, Map!Next

(* SetValue by names, and SetValueI, SetValueB and the others, which       *)
(* create.                                                                 *)
LEMMA SetSteps ==
  ASSUME IInv, NEW k \in Sections, NEW n \in Names, NEW v \in Values,
         NEW create \in BOOLEAN, Set(k, n, v, create)
  PROVE  MapStep
<1>1. k \in Word /\ Good(ini)
  BY DEF Word, IInv
<1>2. CASE create \/ FindValue(ini, FindKey(ini, k), n) # 0
  <2> DEFINE e == <<Fold(k), Fold(n), v>>
  <2>1. ini' = SetValue(ini, k, n, v) /\ answer' = TRUE /\ key' = key
    BY <1>2 DEF Set, Return
  <2>2. Puts(ini, ini', e)
    BY <1>1, <2>1, SetValuePuts
  <2> HIDE DEF e
  <2>3. Map!Put(e) /\ e \in Entries'
    BY <1>1, <2>2, PutIs
  <2>4. Map!Set
    BY <2>1, <2>3 DEF Map!Set
  <2>5. IInv'
    BY <2>1, <2>2 DEF IInv, Puts
  <2>6. QED
    BY <2>4, <2>5 DEF MapStep, Map!Next
<1>3. CASE ~(create \/ FindValue(ini, FindKey(ini, k), n) # 0)
  <2>1. Return(ini, FALSE)
    BY <1>3 DEF Set
  <2>2. QED
    BY <1>1, <2>1, NothingChanges, ReturnedKept
<1>4. QED
  BY <1>2, <1>3

(* GetValue by names, which sets the default it is given if it finds       *)
(* nothing.                                                                *)
LEMMA GetSteps ==
  ASSUME IInv, NEW k \in Sections, NEW n \in Names, NEW v \in Values, Get(k, n, v)
  PROVE  MapStep
<1> DEFINE i == FindKey(ini, k)
           j == FindValue(ini, i, n)
<1>1. k \in Word /\ Good(ini) /\ Vectors(ini)
  BY DEF Word, IInv, Good
<1>2. CASE i = 0 \/ j = 0
  <2> DEFINE e == <<Fold(k), Fold(n), v>>
  <2>1. ini' = SetValue(ini, k, n, v) /\ answer' = v /\ key' = key
    BY <1>2 DEF Get, Return
  <2>2. Puts(ini, ini', e) /\ \A f \in EntriesOf(ini) : ~(f[1] = e[1] /\ f[2] = e[2])
    BY <1>1, <1>2, <2>1, SetValuePuts
  <2>3. e[3] = v
    OBVIOUS
  <2> HIDE DEF e
  <2>4. Map!Put(e) /\ e \in Entries' /\ Map!Of(e) = {}
    BY <1>1, <2>2, PutIs
  <2>5. Map!Get
    BY <2>1, <2>3, <2>4 DEF Map!Get
  <2>6. IInv'
    BY <2>1, <2>2 DEF IInv, Puts
  <2>7. QED
    BY <2>5, <2>6 DEF MapStep, Map!Next
<1>3. CASE i # 0 /\ j # 0
  <2> DEFINE e == At(ini, i, j)
  <2>1. ini' = ini /\ answer' = ini.keys[i].values[j] /\ key' = key
    BY <1>3 DEF Get, Return
  <2>2. i \in DOMAIN ini.keys /\ j \in DOMAIN ini.keys[i].names
    <3>1. i \in DOMAIN ini.keys
      BY <1>3 DEF FindValue
    <3> DEFINE names == ini.keys[i].names
    <3>2. names \in Seq(Names) /\ DOMAIN names = 1 .. Len(names)
      BY <1>1, <3>1, VectorsAre
    <3>3. j = First(names, n)
      BY <3>1, FindsFirst
    <3> HIDE DEF names, j
    <3>4. j \in DOMAIN names
      BY <1>3, <3>2, <3>3, FirstIs
    <3>5. QED
      BY <3>1, <3>4 DEF names
  <2>3. e[3] = ini.keys[i].values[j] /\ IsAt(ini, e, i, j)
    BY <2>2 DEF At, IsAt
  <2>4. ini.keys[i].values[j] \in Values
    <3>1. /\ ini.keys[i].values \in Seq(Values)
          /\ DOMAIN ini.keys[i].values = DOMAIN ini.keys[i].names
      BY <1>1, <2>2, VectorsAre
    <3> HIDE DEF i, j
    <3>2. QED
      BY <2>2, <3>1
  <2> HIDE DEF e, i, j
  <2>5. e \in EntriesOf(ini)
    BY <2>3, EntriesAre
  <2>6. Keeps(ini, ini')
    BY <1>1, <2>1, NothingChanges
  <2>7. Map!Get
    BY <1>1, <2>1, <2>3, <2>5, <2>6, MapIs, KeptIs DEF Map!Get, Map!dictionary
  <2>8. IInv'
    BY <2>1, <2>4 DEF IInv
  <2>9. QED
    BY <2>7, <2>8 DEF MapStep, Map!Next
<1>4. QED
  BY <1>2, <1>3

(* SetValue by indices.                                                    *)
LEMMA SetAtSteps ==
  ASSUME IInv, NEW i, NEW j, NEW v \in Values, SetAt(i, j, v)
  PROVE  MapStep
<1>1. Good(ini)
  BY DEF IInv
<1>2. CASE Has(ini, i, j)
  <2> DEFINE e == <<Fold(ini.names[i]), Fold(ini.keys[i].names[j]), v>>
  <2>1. ini' = PutValue(ini, i, j, v) /\ answer' = FALSE /\ key' = key
    BY <1>2 DEF SetAt, Return
  <2>2. Puts(ini, ini', e) /\ \E f \in EntriesOf(ini) : f[1] = e[1] /\ f[2] = e[2]
    BY <1>1, <1>2, <2>1, PutValuePuts DEF Has
  <2> HIDE DEF e
  <2>3. Map!Put(e) /\ e \in Entries' /\ Map!Of(e) # {}
    BY <1>1, <2>2, PutIs
  <2>4. Map!SetAt
    BY <2>1, <2>3 DEF Map!SetAt
  <2>5. IInv'
    BY <2>1, <2>2 DEF IInv, Puts
  <2>6. QED
    BY <2>4, <2>5 DEF MapStep, Map!Next
<1>3. CASE ~Has(ini, i, j)
  <2>1. Return(ini, FALSE)
    BY <1>3 DEF SetAt
  <2>2. QED
    BY <1>1, <2>1, NothingChanges, ReturnedKept
<1>4. QED
  BY <1>2, <1>3

(* DeleteValue.                                                            *)
LEMMA DeleteValueSteps ==
  ASSUME IInv, NEW k \in Sections, NEW n \in Names, DeleteValue(k, n)
  PROVE  MapStep
<1> DEFINE i == FindKey(ini, k)
           j == FindValue(ini, i, n)
<1>1. Good(ini) /\ Vectors(ini)
  BY DEF IInv, Good
<1>2. CASE i = 0 \/ j = 0
  <2>1. Return(ini, FALSE)
    BY <1>2 DEF DeleteValue
  <2>2. QED
    BY <1>1, <2>1, NothingChanges, ReturnedKept
<1>3. CASE i # 0 /\ j # 0
  <2> DEFINE e == At(ini, i, j)
  <2>1. ini' = EraseValue(ini, i, j) /\ answer' = TRUE /\ key' = key
    BY <1>3 DEF DeleteValue, Return
  <2>2. i \in DOMAIN ini.keys /\ j \in DOMAIN ini.keys[i].names
    <3>1. i \in DOMAIN ini.keys
      BY <1>3 DEF FindValue
    <3> DEFINE names == ini.keys[i].names
    <3>2. names \in Seq(Names) /\ DOMAIN names = 1 .. Len(names)
      BY <1>1, <3>1, VectorsAre
    <3>3. j = First(names, n)
      BY <3>1, FindsFirst
    <3> HIDE DEF names, j
    <3>4. j \in DOMAIN names
      BY <1>3, <3>2, <3>3, FirstIs
    <3>5. QED
      BY <3>1, <3>4 DEF names
  <2>3. IsAt(ini, e, i, j)
    BY <2>2 DEF IsAt
  <2> HIDE DEF i, j
  <2>4. Good(ini') /\ EntriesOf(ini') = EntriesOf(ini) \ {e} /\ NamesOf(ini') = NamesOf(ini)
    BY <1>1, <2>1, <2>2, EraseValueErases
  <2> HIDE DEF e
  <2>5. e \in EntriesOf(ini)
    BY <2>3, EntriesAre
  <2>6. Map!DeleteValue
    BY <1>1, <2>1, <2>4, <2>5, MapIs, NextMapIs DEF Map!DeleteValue
  <2>7. IInv'
    BY <2>1, <2>4 DEF IInv
  <2>8. QED
    BY <2>6, <2>7 DEF MapStep, Map!Next
<1>4. QED
  BY <1>2, <1>3

(* DeleteKey.                                                              *)
LEMMA DeleteKeySteps ==
  ASSUME IInv, NEW k \in Sections, DeleteKey(k)
  PROVE  MapStep
<1> DEFINE i == FindKey(ini, k)
<1>1. Good(ini) /\ Vectors(ini)
  BY DEF IInv, Good
<1>2. CASE i = 0
  <2>1. Return(ini, FALSE)
    BY <1>2 DEF DeleteKey
  <2>2. QED
    BY <1>1, <2>1, NothingChanges, ReturnedKept
<1>3. CASE i # 0
  <2>1. ini' = EraseKey(ini, i) /\ answer' = TRUE /\ key' = key
    BY <1>3 DEF DeleteKey, Return
  <2>2. i = First(ini.names, k)
    BY FindsFirst
  <2>3. ini.names \in Seq(Word) /\ DOMAIN ini.keys = 1 .. Len(ini.names) /\ DOMAIN ini.names = DOMAIN ini.keys
    BY <1>1, VectorsAre
  <2> HIDE DEF i
  <2>4. /\ i \in DOMAIN ini.keys
        /\ \A l \in 1 .. i - 1 : Fold(ini.names[l]) # Fold(ini.names[i])
    BY <1>3, <2>2, <2>3, FirstIs
  <2> DEFINE w == Fold(ini.names[i])
  <2>5. /\ Good(ini') /\ EntriesOf(ini') = {e \in EntriesOf(ini) : e[1] # w}
        /\ NamesOf(ini') \in {NamesOf(ini), NamesOf(ini) \ {w}}
    BY <1>1, <2>1, <2>4, EraseKeyErases
  <2>6. w \in NamesOf(ini)
    BY <2>3, <2>4 DEF NamesOf
  <2> HIDE DEF w
  <2>7. Map!DeleteKey
    BY <1>1, <2>1, <2>5, <2>6, MapIs, NextMapIs DEF Map!DeleteKey
  <2>8. IInv'
    BY <2>1, <2>5 DEF IInv
  <2>9. QED
    BY <2>7, <2>8 DEF MapStep, Map!Next
<1>4. QED
  BY <1>2, <1>3

(* Erase.                                                                  *)
LEMMA EraseSteps ==
  ASSUME IInv, Erase
  PROVE  MapStep
<1>1. ini' = Empty /\ answer' = Nothing /\ key' = key
  BY DEF Erase, Return
<1>2. Good(ini')
  BY <1>1, EmptyGood
<1>3. ini'.names = <<>> /\ ini'.keys = <<>> /\ DOMAIN <<>> = {}
  BY <1>1 DEF Empty
<1>4. NamesOf(ini') = {} /\ EntriesOf(ini') = {}
  BY <1>3 DEF NamesOf, EntriesOf
<1>5. Map!Erase
  BY <1>1, <1>2, <1>4, NextMapIs DEF Map!Erase, Map!Init
<1>6. IInv'
  BY <1>1, <1>2 DEF IInv
<1>7. QED
  BY <1>5, <1>6 DEF MapStep, Map!Next

(* The calls on comments.                                                  *)
LEMMA CommentSteps ==
  ASSUME IInv,
         \/ HeaderComment \/ DeleteHeaderComment
         \/ \E i : KeyComment(i) \/ DeleteKeyComment(i) \/ DeleteKeyComments(i)
  PROVE  MapStep
<1>1. Good(ini) /\ Vectors(ini) /\ ini.comments \in Nat
  BY VectorsAre DEF IInv, Good
<1>2. CASE HeaderComment
  <2>1. Return([ini EXCEPT !.comments = ini.comments + 1], Nothing)
    BY <1>2 DEF HeaderComment
  <2>2. Keeps(ini, [ini EXCEPT !.comments = ini.comments + 1])
    BY <1>1, HeaderCommentsKeep
  <2>3. QED
    BY <2>1, <2>2, ReturnedKept
<1>3. CASE DeleteHeaderComment
  <2>1. CASE ini.comments > 0
    <3>1. Return([ini EXCEPT !.comments = ini.comments - 1], TRUE)
      BY <1>3, <2>1 DEF DeleteHeaderComment
    <3>2. Keeps(ini, [ini EXCEPT !.comments = ini.comments - 1])
      BY <1>1, <2>1, HeaderCommentsKeep
    <3>3. QED
      BY <3>1, <3>2, ReturnedKept
  <2>2. CASE ~(ini.comments > 0)
    <3>1. Return(ini, FALSE)
      BY <1>3, <2>2 DEF DeleteHeaderComment
    <3>2. QED
      BY <1>1, <3>1, NothingChanges, ReturnedKept
  <2>3. QED
    BY <2>1, <2>2
<1>4. ASSUME NEW i, KeyComment(i) PROVE MapStep
  <2>1. Return(Comment(ini, i), i \in DOMAIN ini.keys)
    BY <1>4 DEF KeyComment
  <2>2. (i \in DOMAIN ini.keys) \in BOOLEAN
    OBVIOUS
  <2>3. Keeps(ini, Comment(ini, i))
    BY <1>1, CommentKeeps
  <2>4. QED
    BY <2>1, <2>2, <2>3, ReturnedKept
<1>5. ASSUME NEW i, DeleteKeyComment(i) PROVE MapStep
  <2>1. CASE i \in DOMAIN ini.keys /\ ini.keys[i].comments > 0
    <3> DEFINE c == ini.keys[i].comments - 1
    <3>1. c \in Nat
      BY <1>1, <2>1, VectorsAre
    <3>2. Return([ini EXCEPT !.keys[i].comments = c], TRUE)
      BY <1>5, <2>1 DEF DeleteKeyComment
    <3> HIDE DEF c
    <3>3. Keeps(ini, [ini EXCEPT !.keys[i].comments = c])
      BY <1>1, <2>1, <3>1, SectionCommentsKeep
    <3> DEFINE s == [ini EXCEPT !.keys[i].comments = c]
    <3> HIDE DEF s
    <3>4. Return(s, TRUE) /\ Keeps(ini, s)
      BY <3>2, <3>3, Zenon DEF s
    <3>5. QED
      BY <3>4, ReturnedKept
  <2>2. CASE ~(i \in DOMAIN ini.keys /\ ini.keys[i].comments > 0)
    <3>1. Return(ini, FALSE)
      BY <1>5, <2>2 DEF DeleteKeyComment
    <3>2. QED
      BY <1>1, <3>1, NothingChanges, ReturnedKept
  <2>3. QED
    BY <2>1, <2>2
<1>6. ASSUME NEW i, DeleteKeyComments(i) PROVE MapStep
  <2>1. CASE i \in DOMAIN ini.keys
    <3> DEFINE s == [ini EXCEPT !.keys[i].comments = 0]
    <3>1. Return(s, TRUE)
      BY <1>6, <2>1 DEF DeleteKeyComments
    <3>2. Keeps(ini, s)
      BY <1>1, <2>1, SectionCommentsKeep
    <3> HIDE DEF s
    <3>3. QED
      BY <3>1, <3>2, ReturnedKept
  <2>2. CASE i \notin DOMAIN ini.keys
    <3>1. Return(ini, FALSE)
      BY <1>6, <2>2 DEF DeleteKeyComments
    <3>2. QED
      BY <1>1, <3>1, NothingChanges, ReturnedKept
  <2>3. QED
    BY <2>1, <2>2
<1>7. QED
  BY <1>2, <1>3, <1>4, <1>5, <1>6

(* ReadFile: its start, a line of each kind, its end.                      *)
LEMMA ReadSteps ==
  ASSUME IInv, ReadFails \/ ReadBegins \/ ReadLine \/ ReadEnds
  PROVE  MapStep
<1>1. Good(ini)
  BY DEF IInv
<1>2. CASE ReadFails
  BY <1>1, <1>2, NothingChanges, ReturnedKept DEF ReadFails
<1>3. CASE ReadBegins
  <2>1. Kept(Nothing)
    BY <1>1, <1>3, NothingChanges DEF ReadBegins, Kept, Word
  <2>2. QED
    BY <2>1, KeptSteps
<1>4. CASE ReadEnds
  <2>1. key' = Idle /\ answer' \in BOOLEAN /\ ini' = ini
    BY <1>4 DEF ReadEnds
  <2>2. Kept(answer')
    BY <1>1, <2>1, NothingChanges DEF Kept
  <2>3. QED
    BY <2>2, KeptSteps
<1>5. CASE ReadLine
  <2>1. PICK line \in Line :
          LET r == TakeLine([ini |-> ini, key |-> key], line)
          IN  Bounded(r.ini) /\ ini' = r.ini /\ key' = r.key
    BY <1>5 DEF ReadLine
  <2>2. key \in Word /\ answer' = Nothing
    BY <1>5 DEF ReadLine, IInv
  <2>3. key' \in Word /\ (Adds(ini, ini') \/ PutsSome(ini, ini') \/ Keeps(ini, ini'))
    <3> DEFINE r == TakeLine([ini |-> ini, key |-> key], line)
    <3>1. r.key \in Word /\ (Adds(ini, r.ini) \/ PutsSome(ini, r.ini) \/ Keeps(ini, r.ini))
      BY <1>1, <2>2, LineTaken
    <3>2. ini' = r.ini /\ key' = r.key
      BY <2>1
    <3> HIDE DEF r
    <3>3. QED
      BY <3>1, <3>2
  <2>4. Good(ini')
    BY <2>3 DEF Adds, PutsSome, Puts, Keeps
  <2>5. IInv'
    BY <2>2, <2>3, <2>4 DEF IInv
  <2>6. Map!Next
    <3>1. CASE Adds(ini, ini')
      BY <1>1, <2>2, <3>1, AddIs DEF Map!Next
    <3>2. CASE Keeps(ini, ini')
      BY <1>1, <2>2, <3>2, OtherIs DEF Map!Next
    <3>3. CASE PutsSome(ini, ini')
      <4>1. PICK e : Puts(ini, ini', e)
        BY <3>3 DEF PutsSome
      <4>2. Map!Put(e) /\ e \in Entries'
        BY <1>1, <4>1, PutIs
      <4>3. Map!Learn
        BY <2>2, <4>2 DEF Map!Learn
      <4>4. QED
        BY <4>3 DEF Map!Next
    <3>4. QED
      BY <2>3, <3>1, <3>2, <3>3
  <2>7. QED
    BY <2>5, <2>6 DEF MapStep
<1>6. QED
  BY <1>2, <1>3, <1>4, <1>5

(* Every step of the vectors is one of the dictionary, or a stutter.       *)
LEMMA StepIsMap ==
  ASSUME IInv, [Next]_vars
  PROVE  IInv' /\ [Map!Next]_(Map!vars)
<1>1. CASE Ask
  <2>1. PICK k \in Sections :
          \/ AddSection(k) \/ DeleteKey(k)
          \/ \E n \in Names :
               \/ DeleteValue(k, n)
               \/ \E v \in Values :
                    \/ Get(k, n, v) \/ SetNumber(k, n, v)
                    \/ \E create \in BOOLEAN : Set(k, n, v, create)
    BY <1>1 DEF Ask
  <2>2. CASE AddSection(k)
    BY <2>2, AddSectionSteps DEF MapStep
  <2>3. CASE DeleteKey(k)
    BY <2>3, DeleteKeySteps DEF MapStep
  <2>4. ASSUME NEW n \in Names, DeleteValue(k, n) PROVE MapStep
    BY <2>4, DeleteValueSteps
  <2>5. ASSUME NEW n \in Names, NEW v \in Values, Get(k, n, v) PROVE MapStep
    BY <2>5, GetSteps
  <2>6. ASSUME NEW n \in Names, NEW v \in Values, NEW create \in BOOLEAN, Set(k, n, v, create)
        PROVE  MapStep
    BY <2>6, SetSteps
  <2>7. ASSUME NEW n \in Names, NEW v \in Values, SetNumber(k, n, v) PROVE MapStep
    BY <2>7, SetSteps DEF SetNumber
  <2>8. QED
    BY <2>1, <2>2, <2>3, <2>4, <2>5, <2>6, <2>7 DEF MapStep
<1>2. CASE AskAt
  <2>1. PICK i \in Index :
          \/ KeyComment(i) \/ DeleteKeyComment(i) \/ DeleteKeyComments(i)
          \/ \E j \in Index, v \in Values : SetAt(i, j, v)
    BY <1>2 DEF AskAt
  <2>2. CASE KeyComment(i) \/ DeleteKeyComment(i) \/ DeleteKeyComments(i)
    BY <2>2, CommentSteps DEF MapStep
  <2>3. ASSUME NEW j \in Index, NEW v \in Values, SetAt(i, j, v) PROVE MapStep
    BY <2>3, SetAtSteps
  <2>4. QED
    BY <2>1, <2>2, <2>3 DEF MapStep
<1>3. CASE Erase
  BY <1>3, EraseSteps DEF MapStep
<1>4. CASE HeaderComment \/ DeleteHeaderComment
  BY <1>4, CommentSteps DEF MapStep
<1>5. CASE ReadFails \/ ReadBegins \/ ReadLine \/ ReadEnds
  BY <1>5, ReadSteps DEF MapStep
<1>6. CASE UNCHANGED vars
  <2>1. ini' = ini /\ key' = key /\ answer' = answer
    BY <1>6 DEF vars
  <2>2. Good(ini)
    BY DEF IInv
  <2>3. IInv'
    BY <2>1 DEF IInv
  <2>4. UNCHANGED Map!vars
    BY <2>1, <2>2, NothingChanges, KeptIs DEF Map!vars, Map!dictionary
  <2>5. QED
    BY <2>3, <2>4
<1>7. QED
  BY <1>1, <1>2, <1>3, <1>4, <1>5, <1>6 DEF Next

(* In every reachable state the vectors are in step, no name is twice in a *)
(* section, and of the sections with one name only the first has values.   *)
THEOREM Invariance == Spec => []IInv
<1>1. Init => IInv
  BY InitHolds
<1>2. IInv /\ [Next]_vars => IInv'
  BY StepIsMap
<1>3. QED
  BY <1>1, <1>2, PTL DEF Spec

(* The variables keep their types, for any words, values and bounds.       *)
THEOREM IniFileTyped == Spec => []TypeOK
<1>1. IInv => TypeOK
  BY VectorsAre DEF IInv, Good, Vectors, TypeOK
<1>2. QED
  BY <1>1, Invariance, PTL

(* Every value in the vectors is the one that a search by its names finds, *)
(* after any calls of the class and any file it reads: a value that was    *)
(* set is never hidden behind another.                                     *)
THEOREM ValuesFoundHolds == Spec => []ValuesFound
<1>1. IInv => ValuesFound
  BY GoodIsFound DEF IInv, ValuesFound
<1>2. QED
  BY <1>1, Invariance, PTL

(* CIniFile implements a dictionary: its vectors, searched from the        *)
(* beginning, change and answer as a map from section and value names to   *)
(* values does.                                                            *)
THEOREM IsConfigMapHolds == Spec => IsConfigMap
<1>1. Init => Map!Init
  BY InitHolds
<1>2. IInv /\ [Next]_vars => [Map!Next]_(Map!vars)
  BY StepIsMap
<1>3. QED
  BY <1>1, <1>2, Invariance, PTL DEF Spec, Map!Spec, IsConfigMap

ReadAll(base, lines) == FoldLeft(TakeLine, base, lines)

Reads(at, base, n, lines) ==
  /\ at[0] = base
  /\ \A i \in 1 .. n : at[i] = TakeLine(at[i - 1], lines[i])
  /\ ReadAll(base, lines) = at[n]

(* The states a fold of TakeLine goes through, from line to line.         *)
LEMMA ReadGoes ==
  ASSUME NEW base, NEW n \in Nat, NEW lines, DOMAIN lines = 1 .. n
  PROVE  \E at : Reads(at, base, n, lines)
<1> DEFINE step(f, s) == IF s = {} THEN base ELSE TakeLine(f[s \ {Max(s)}], lines[Max(s)])
           Is(f, k) == f = [s \in SUBSET (1 .. k) |-> step(f, s)]
           fold == CHOOSE f : Is(f, n)
           K == {k \in Nat : \E f : Is(f, k)}
<1> HIDE DEF step
<1>1. ReadAll(base, lines) = fold[1 .. n]
  BY DEF ReadAll, FoldLeft, MapThenFoldSet, step
<1>2. 0 \in K
  <2> DEFINE f0 == [s \in SUBSET (1 .. 0) |-> base]
  <2>1. \A s \in SUBSET (1 .. 0) : step(f0, s) = base
    BY DEF step
  <2>2. Is(f0, 0)
    BY <2>1
  <2>3. QED
    BY <2>2
<1>3. ASSUME NEW k \in K PROVE k + 1 \in K
  <2>1. PICK f : Is(f, k)
    OBVIOUS
  <2> DEFINE g == [s \in SUBSET (1 .. k + 1) |->
                     IF s \subseteq 1 .. k THEN f[s] ELSE TakeLine(f[s \ {k + 1}], lines[k + 1])]
  <2>2. ASSUME NEW s \in SUBSET (1 .. k + 1) PROVE g[s] = step(g, s)
    <3>1. CASE k + 1 \in s
      <4>1. Max(s) = k + 1 /\ s \ {k + 1} \in SUBSET (1 .. k) /\ s # {} /\ ~(s \subseteq 1 .. k)
        BY <3>1, LargestIs
      <4>2. SUBSET (1 .. k) \subseteq SUBSET (1 .. k + 1)
        OBVIOUS
      <4>3. g[s \ {k + 1}] = f[s \ {k + 1}]
        BY <4>1, <4>2
      <4>4. QED
        BY <4>1, <4>3 DEF step
    <3>2. CASE k + 1 \notin s
      <4>1. s \in SUBSET (1 .. k)
        BY <3>2
      <4>2. g[s] = f[s]
        BY <4>1
      <4>3. f[s] = step(f, s)
        BY <2>1, <4>1
      <4>4. s # {} => g[s \ {Max(s)}] = f[s \ {Max(s)}]
        BY <4>1
      <4>5. step(f, s) = step(g, s)
        BY <4>4 DEF step
      <4> HIDE DEF g
      <4>6. QED
        BY <4>2, <4>3, <4>5
    <3>3. QED
      BY <3>1, <3>2
  <2>3. Is(g, k + 1)
    BY <2>2
  <2> HIDE DEF g
  <2>4. QED
    BY <2>3
<1>4. n \in K
  BY <1>2, <1>3, Induction
<1>5. Is(fold, n)
  BY <1>4
<1> DEFINE at == [i \in 0 .. n |-> fold[1 .. i]]
<1>6. at[0] = base
  <2>1. 1 .. 0 = {} /\ {} \in SUBSET (1 .. n)
    OBVIOUS
  <2>2. fold[{}] = step(fold, {})
    BY <1>5, <2>1
  <2>3. step(fold, {}) = base
    BY DEF step
  <2>4. at[0] = fold[1 .. 0]
    OBVIOUS
  <2> HIDE DEF fold, at
  <2>5. QED
    BY <2>1, <2>2, <2>3, <2>4
<1> HIDE DEF fold
<1>7. ASSUME NEW i \in 1 .. n PROVE at[i] = TakeLine(at[i - 1], lines[i])
  <2>0. at[i] = fold[1 .. i] /\ at[i - 1] = fold[1 .. i - 1]
    OBVIOUS
  <2>1. /\ i \in Nat /\ i \in 1 .. i /\ 1 .. i \in SUBSET (1 .. n)
        /\ (1 .. i) \ {i} = 1 .. i - 1
    OBVIOUS
  <2>2. Max(1 .. i) = i
    BY <2>1, LargestIs
  <2>3. fold[1 .. i] = step(fold, 1 .. i)
    BY <1>5, <2>1
  <2>4. step(fold, 1 .. i) = TakeLine(fold[1 .. i - 1], lines[i])
    BY <2>1, <2>2 DEF step
  <2>5. QED
    BY <2>0, <2>3, <2>4
<1>8. QED
  <2>1. at[n] = fold[1 .. n]
    OBVIOUS
  <2> HIDE DEF at
  <2>2. QED
    BY <1>1, <1>6, <1>7, <2>1 DEF Reads

(* What a fold of TakeLine is, by the last of its lines.                  *)
LEMMA ReadAllEmpty ==
  ASSUME NEW base
  PROVE  ReadAll(base, <<>>) = base
<1>1. DOMAIN <<>> = 1 .. 0 /\ 0 \in Nat
  OBVIOUS
<1>2. PICK at : Reads(at, base, 0, <<>>)
  BY <1>1, ReadGoes
<1>3. QED
  BY <1>2 DEF Reads

(* One more line is one more turn of ReadFile's loop.                      *)
LEMMA ReadAllAppend ==
  ASSUME NEW S, NEW s \in Seq(S), NEW e, NEW base
  PROVE  ReadAll(base, Append(s, e)) = TakeLine(ReadAll(base, s), e)
<1> DEFINE n == Len(s)
           t == Append(s, e)
<1>1. /\ n \in Nat /\ n + 1 \in Nat /\ DOMAIN s = 1 .. n
      /\ DOMAIN t = 1 .. n + 1 /\ t[n + 1] = e
      /\ \A i \in 1 .. n : t[i] = s[i]
  OBVIOUS
<1> HIDE DEF n, t
<1>2. PICK first : Reads(first, base, n, s)
  BY <1>1, ReadGoes
<1>3. PICK whole : Reads(whole, base, n + 1, t)
  BY <1>1, ReadGoes
<1> DEFINE T == {i \in Nat : i <= n => whole[i] = first[i]}
<1>4. 0 \in T
  BY <1>2, <1>3 DEF Reads
<1>5. ASSUME NEW i \in T PROVE i + 1 \in T
  <2> SUFFICES ASSUME i + 1 <= n PROVE whole[i + 1] = first[i + 1]
    OBVIOUS
  <2>1. i + 1 \in 1 .. n /\ i + 1 \in 1 .. n + 1 /\ (i + 1) - 1 = i /\ i <= n
    BY <1>1
  <2>2. whole[i + 1] = TakeLine(whole[i], s[i + 1])
    BY <2>1, <1>1, <1>3 DEF Reads
  <2>3. first[i + 1] = TakeLine(first[i], s[i + 1])
    BY <2>1, <1>2 DEF Reads
  <2>4. QED
    BY <2>1, <2>2, <2>3
<1> HIDE DEF T
<1>6. n \in T
  <2>1. T \in SUBSET Nat
    BY DEF T
  <2>2. QED
    BY <1>1, <1>4, <1>5, <2>1, Induction
<1>7. whole[n] = first[n]
  BY <1>1, <1>6 DEF T
<1>8. n + 1 \in 1 .. n + 1 /\ (n + 1) - 1 = n
  BY <1>1
<1>9. whole[n + 1] = TakeLine(first[n], e)
  BY <1>1, <1>3, <1>7, <1>8 DEF Reads
<1>10. QED
  BY <1>2, <1>3, <1>9 DEF t, Reads

(* A fold over two sequences, one after the other.                         *)
LEMMA ReadOfConcat ==
  ASSUME NEW S, NEW s \in Seq(S), NEW base
  PROVE  \A t \in Seq(S) : ReadAll(base, s \o t) = ReadAll(ReadAll(base, s), t)
<1> DEFINE T == {t \in Seq(S) : ReadAll(base, s \o t) = ReadAll(ReadAll(base, s), t)}
<1>1. <<>> \in T
  <2>1. s \o <<>> = s /\ <<>> \in Seq(S)
    OBVIOUS
  <2>2. QED
    BY <2>1, ReadAllEmpty
<1>2. ASSUME NEW t \in T, NEW e \in S PROVE Append(t, e) \in T
  <2>1. s \o Append(t, e) = Append(s \o t, e) /\ s \o t \in Seq(S) /\ Append(t, e) \in Seq(S)
    OBVIOUS
  <2>2. ReadAll(base, Append(s \o t, e)) = TakeLine(ReadAll(base, s \o t), e)
    BY <2>1, ReadAllAppend
  <2>3. ReadAll(ReadAll(base, s), Append(t, e)) = TakeLine(ReadAll(ReadAll(base, s), t), e)
    BY ReadAllAppend
  <2>4. QED
    BY <2>1, <2>2, <2>3
<1> HIDE DEF T
<1>3. T \in SUBSET Seq(S)
  BY DEF T
<1>4. \A t \in Seq(S) : t \in T
  BY <1>1, <1>2, <1>3, SequenceInduction
<1>5. QED
  BY <1>4 DEF T

CommentSum(base, keys) == FoldLeft(LAMBDA n, k : n + k.comments, base, keys)

Sums(at, base, n, keys) ==
  /\ at[0] = base
  /\ \A i \in 1 .. n : at[i] = at[i - 1] + keys[i].comments
  /\ CommentSum(base, keys) = at[n]

(* The sums a count of comments goes through, from section to section.         *)
LEMMA SumGoes ==
  ASSUME NEW base, NEW n \in Nat, NEW keys, DOMAIN keys = 1 .. n
  PROVE  \E at : Sums(at, base, n, keys)
<1> DEFINE step(f, s) == IF s = {} THEN base ELSE (f[s \ {Max(s)}] + keys[Max(s)].comments)
           Is(f, k) == f = [s \in SUBSET (1 .. k) |-> step(f, s)]
           fold == CHOOSE f : Is(f, n)
           K == {k \in Nat : \E f : Is(f, k)}
<1> HIDE DEF step
<1>1. CommentSum(base, keys) = fold[1 .. n]
  BY DEF CommentSum, FoldLeft, MapThenFoldSet, step
<1>2. 0 \in K
  <2> DEFINE f0 == [s \in SUBSET (1 .. 0) |-> base]
  <2>1. \A s \in SUBSET (1 .. 0) : step(f0, s) = base
    BY DEF step
  <2>2. Is(f0, 0)
    BY <2>1
  <2>3. QED
    BY <2>2
<1>3. ASSUME NEW k \in K PROVE k + 1 \in K
  <2>1. PICK f : Is(f, k)
    OBVIOUS
  <2> DEFINE g == [s \in SUBSET (1 .. k + 1) |->
                     IF s \subseteq 1 .. k THEN f[s] ELSE (f[s \ {k + 1}] + keys[k + 1].comments)]
  <2>2. ASSUME NEW s \in SUBSET (1 .. k + 1) PROVE g[s] = step(g, s)
    <3>1. CASE k + 1 \in s
      <4>1. Max(s) = k + 1 /\ s \ {k + 1} \in SUBSET (1 .. k) /\ s # {} /\ ~(s \subseteq 1 .. k)
        BY <3>1, LargestIs
      <4>2. SUBSET (1 .. k) \subseteq SUBSET (1 .. k + 1)
        OBVIOUS
      <4>3. g[s \ {k + 1}] = f[s \ {k + 1}]
        BY <4>1, <4>2
      <4>4. QED
        BY <4>1, <4>3 DEF step
    <3>2. CASE k + 1 \notin s
      <4>1. s \in SUBSET (1 .. k)
        BY <3>2
      <4>2. g[s] = f[s]
        BY <4>1
      <4>3. f[s] = step(f, s)
        BY <2>1, <4>1
      <4>4. s # {} => g[s \ {Max(s)}] = f[s \ {Max(s)}]
        BY <4>1
      <4>5. step(f, s) = step(g, s)
        BY <4>4 DEF step
      <4> HIDE DEF g
      <4>6. QED
        BY <4>2, <4>3, <4>5
    <3>3. QED
      BY <3>1, <3>2
  <2>3. Is(g, k + 1)
    BY <2>2
  <2> HIDE DEF g
  <2>4. QED
    BY <2>3
<1>4. n \in K
  BY <1>2, <1>3, Induction
<1>5. Is(fold, n)
  BY <1>4
<1> DEFINE at == [i \in 0 .. n |-> fold[1 .. i]]
<1>6. at[0] = base
  <2>1. 1 .. 0 = {} /\ {} \in SUBSET (1 .. n)
    OBVIOUS
  <2>2. fold[{}] = step(fold, {})
    BY <1>5, <2>1
  <2>3. step(fold, {}) = base
    BY DEF step
  <2>4. at[0] = fold[1 .. 0]
    OBVIOUS
  <2> HIDE DEF fold, at
  <2>5. QED
    BY <2>1, <2>2, <2>3, <2>4
<1> HIDE DEF fold
<1>7. ASSUME NEW i \in 1 .. n PROVE at[i] = at[i - 1] + keys[i].comments
  <2>0. at[i] = fold[1 .. i] /\ at[i - 1] = fold[1 .. i - 1]
    OBVIOUS
  <2>1. /\ i \in Nat /\ i \in 1 .. i /\ 1 .. i \in SUBSET (1 .. n)
        /\ (1 .. i) \ {i} = 1 .. i - 1
    OBVIOUS
  <2>2. Max(1 .. i) = i
    BY <2>1, LargestIs
  <2>3. fold[1 .. i] = step(fold, 1 .. i)
    BY <1>5, <2>1
  <2>4. step(fold, 1 .. i) = fold[1 .. i - 1] + keys[i].comments
    BY <2>1, <2>2 DEF step
  <2>5. QED
    BY <2>0, <2>3, <2>4
<1>8. QED
  <2>1. at[n] = fold[1 .. n]
    OBVIOUS
  <2> HIDE DEF at
  <2>2. QED
    BY <1>1, <1>6, <1>7, <2>1 DEF Sums

(* Total is such a sum, from the header's comments.                        *)
LEMMA TotalIs ==
  ASSUME NEW s
  PROVE  Total(s) = CommentSum(s.comments, s.keys)
BY DEF Total, CommentSum

(* Sums over sections of which the x-th has one comment more, or none has. *)
LEMMA SumCompare ==
  ASSUME NEW base \in Nat, NEW a \in Seq(Key), NEW b \in Seq(Key), Len(a) = Len(b),
         NEW x \in 0 .. Len(a),
         \A l \in DOMAIN a : b[l].comments = a[l].comments + (IF l = x THEN 1 ELSE 0)
  PROVE  CommentSum(base, a) \in Nat /\ CommentSum(base, b) = CommentSum(base, a) + (IF x = 0 THEN 0 ELSE 1)
<1> DEFINE n == Len(a)
<1>1. /\ n \in Nat /\ DOMAIN a = 1 .. n /\ DOMAIN b = 1 .. n
      /\ \A l \in 1 .. n : a[l].comments \in Nat
  <2>1. n \in Nat /\ DOMAIN a = 1 .. n /\ DOMAIN b = 1 .. n /\ \A l \in 1 .. n : a[l] \in Key
    OBVIOUS
  <2>2. QED
    BY <2>1 DEF Key
<1> HIDE DEF n
<1>2. PICK p : Sums(p, base, n, a)
  BY <1>1, SumGoes
<1>3. PICK q : Sums(q, base, n, b)
  BY <1>1, SumGoes
<1> DEFINE more(i) == IF x = 0 \/ i < x THEN 0 ELSE 1
           T == {i \in Nat : i <= n => p[i] \in Nat /\ q[i] = p[i] + more(i)}
<1>4. x \in 0 .. n
  BY DEF n
<1>5. 0 \in T
  <2>1. p[0] = base /\ q[0] = base
    BY <1>2, <1>3 DEF Sums
  <2>2. more(0) = 0
    BY <1>1, <1>4
  <2>3. QED
    BY <2>1, <2>2
<1>6. ASSUME NEW i \in T PROVE i + 1 \in T
  <2> SUFFICES ASSUME i + 1 <= n
               PROVE  p[i + 1] \in Nat /\ q[i + 1] = p[i + 1] + more(i + 1)
    OBVIOUS
  <2>1. i + 1 \in 1 .. n /\ (i + 1) - 1 = i /\ i <= n /\ i \in Nat
    BY <1>1
  <2>2. p[i] \in Nat /\ q[i] = p[i] + more(i)
    BY <2>1
  <2>3. p[i + 1] = p[i] + a[i + 1].comments
    BY <1>2, <2>1 DEF Sums
  <2>4. q[i + 1] = q[i] + b[i + 1].comments
    BY <1>3, <2>1 DEF Sums
  <2>5. b[i + 1].comments = a[i + 1].comments + (IF i + 1 = x THEN 1 ELSE 0)
    BY <1>1, <2>1
  <2>6. a[i + 1].comments \in Nat
    BY <1>1, <2>1
  <2>7. more(i + 1) = more(i) + (IF i + 1 = x THEN 1 ELSE 0)
    BY <1>4, <2>1
  <2>8. more(i) \in Nat /\ (IF i + 1 = x THEN 1 ELSE 0) \in Nat
    OBVIOUS
  <2> HIDE DEF more
  <2> DEFINE one == IF i + 1 = x THEN 1 ELSE 0
             c == a[i + 1].comments
             m == more(i)
             pi == p[i]
  <2>9. /\ p[i + 1] = pi + c /\ q[i + 1] = (pi + m) + (c + one) /\ more(i + 1) = m + one
        /\ pi \in Nat /\ c \in Nat /\ m \in Nat /\ one \in Nat
    BY <2>2, <2>3, <2>4, <2>5, <2>6, <2>7, <2>8
  <2> HIDE DEF one, c, m, pi
  <2>10. QED
    BY <2>9
<1>7. n \in T
  <2> HIDE DEF T
  <2>1. T \in SUBSET Nat
    BY DEF T
  <2>2. QED
    BY <1>1, <1>5, <1>6, <2>1, Induction
<1>8. more(n) = IF x = 0 THEN 0 ELSE 1
  BY <1>1, <1>4
<1>9. CommentSum(base, a) = p[n] /\ CommentSum(base, b) = q[n]
  BY <1>2, <1>3 DEF Sums
<1>10. p[n] \in Nat /\ q[n] = p[n] + more(n)
  BY <1>1, <1>7
<1>11. QED
  BY <1>8, <1>9, <1>10

(* The sum when a section without comments is appended.                    *)
LEMMA SumAppend ==
  ASSUME NEW base \in Nat, NEW a \in Seq(Key)
  PROVE  CommentSum(base, Append(a, EmptyKey)) = CommentSum(base, a)
<1> DEFINE n == Len(a)
           b == Append(a, EmptyKey)
<1>1. /\ n \in Nat /\ n + 1 \in Nat /\ DOMAIN a = 1 .. n /\ DOMAIN b = 1 .. n + 1
      /\ b[n + 1] = EmptyKey /\ \A l \in 1 .. n : b[l] = a[l]
  OBVIOUS
<1> HIDE DEF n, b
<1>2. PICK p : Sums(p, base, n, a)
  BY <1>1, SumGoes
<1>3. PICK q : Sums(q, base, n + 1, b)
  BY <1>1, SumGoes
<1> DEFINE T == {i \in Nat : i <= n => q[i] = p[i]}
<1>4. 0 \in T
  BY <1>2, <1>3 DEF Sums
<1>5. ASSUME NEW i \in T PROVE i + 1 \in T
  <2> SUFFICES ASSUME i + 1 <= n PROVE q[i + 1] = p[i + 1]
    OBVIOUS
  <2>1. i + 1 \in 1 .. n /\ i + 1 \in 1 .. n + 1 /\ (i + 1) - 1 = i /\ i <= n
    BY <1>1
  <2>2. p[i + 1] = p[i] + a[i + 1].comments
    BY <1>2, <2>1 DEF Sums
  <2>3. q[i + 1] = q[i] + a[i + 1].comments
    BY <1>1, <1>3, <2>1 DEF Sums
  <2>4. QED
    BY <2>1, <2>2, <2>3
<1> HIDE DEF T
<1>6. n \in T
  <2>1. T \in SUBSET Nat
    BY DEF T
  <2>2. QED
    BY <1>1, <1>4, <1>5, <2>1, Induction
<1>7. q[n] = p[n]
  BY <1>1, <1>6 DEF T
<1>8. n + 1 \in 1 .. n + 1 /\ (n + 1) - 1 = n
  BY <1>1
<1>9. q[n + 1] = p[n] + 0
  BY <1>1, <1>3, <1>7, <1>8 DEF Sums, EmptyKey
<1>10. CommentSum(base, a) \in Nat
  <2>1. \A l \in DOMAIN a : a[l].comments = a[l].comments + (IF l = 0 THEN 1 ELSE 0)
    <3>1. \A l \in 1 .. n : a[l] \in Key
      BY <1>1
    <3>2. QED
      BY <1>1, <3>1 DEF Key
  <2>2. 0 \in 0 .. Len(a)
    BY <1>1 DEF n
  <2>3. QED
    BY <2>1, <2>2, SumCompare
<1>11. QED
  BY <1>2, <1>3, <1>9, <1>10 DEF Sums, b

(* The sum over no sections.                                               *)
LEMMA SumEmpty ==
  ASSUME NEW base
  PROVE  CommentSum(base, <<>>) = base
<1>1. DOMAIN <<>> = 1 .. 0 /\ 0 \in Nat
  OBVIOUS
<1>2. PICK at : Sums(at, base, 0, <<>>)
  BY <1>1, SumGoes
<1>3. QED
  BY <1>2 DEF Sums

(* A comment that is added to a section.                                   *)
LEMMA CommentIs ==
  ASSUME NEW s, Vectors(s), NEW i \in DOMAIN s.keys
  PROVE  LET t == Comment(s, i)
             k == [names |-> s.keys[i].names, values |-> s.keys[i].values,
                   comments |-> s.keys[i].comments + 1]
         IN  /\ t = WithKey(s, i, k) /\ k \in Key /\ Len(k.names) = Len(k.values)
             /\ Total(s) \in Nat /\ Total(t) = Total(s) + 1
<1> DEFINE t == Comment(s, i)
           old == s.keys[i]
           c == old.comments + 1
           k == [names |-> old.names, values |-> old.values, comments |-> c]
<1>1. /\ s = [names |-> s.names, keys |-> s.keys, comments |-> s.comments]
      /\ s.keys \in Seq(Key) /\ old \in Key /\ Len(old.names) = Len(old.values)
      /\ s.comments \in Nat /\ Len(s.keys) \in Nat /\ DOMAIN s.keys = 1 .. Len(s.keys)
      /\ old.comments \in Nat /\ \A l \in DOMAIN s.keys : s.keys[l].comments \in Nat
  BY VectorsAre
<1>2. [old EXCEPT !.comments = c] = k /\ k \in Key
  <2> HIDE DEF old
  <2>1. old \in Key /\ c \in Nat
    BY <1>1
  <2>2. [old EXCEPT !.comments = c] = k
    BY <2>1 DEF Key
  <2>3. k \in Key
    BY <2>1 DEF Key
  <2>4. QED
    BY <2>2, <2>3
<1>3. Len(k.names) = Len(k.values)
  BY <1>1
<1>4. t = [s EXCEPT !.keys = [s.keys EXCEPT ![i] = [old EXCEPT !.comments = c]]]
  BY DEF Comment
<1> HIDE DEF t
<1>5. t = WithKey(s, i, k)
  <2> HIDE DEF k
  <2>1. t = [s EXCEPT !.keys = [s.keys EXCEPT ![i] = k]]
    BY <1>2, <1>4, Zenon
  <2>2. QED
    BY <1>1, <2>1 DEF WithKey
<1>6. k.comments = s.keys[i].comments + 1
  OBVIOUS
<1> HIDE DEF k
<1>7. /\ t.comments = s.comments /\ t.keys[i] = k /\ Len(t.keys) = Len(s.keys)
      /\ t.keys \in Seq(Key)
      /\ \A l \in DOMAIN s.keys : l # i => t.keys[l] = s.keys[l]
  <2>1. LET u == WithKey(s, i, k)
        IN  /\ Vectors(u) /\ u.names = s.names /\ u.comments = s.comments
            /\ Len(u.keys) = Len(s.keys) /\ DOMAIN u.keys = DOMAIN s.keys /\ u.keys[i] = k
            /\ \A l \in DOMAIN s.keys : l # i => u.keys[l] = s.keys[l]
    BY <1>2, <1>3, WithKeyIs
  <2>2. QED
    BY <1>5, <2>1, VectorsAre
<1>8. \A l \in DOMAIN s.keys :
        t.keys[l].comments = s.keys[l].comments + (IF l = i THEN 1 ELSE 0)
  BY <1>1, <1>6, <1>7
<1>9. i \in 0 .. Len(s.keys) /\ i # 0
  BY <1>1
<1>10. CommentSum(s.comments, s.keys) \in Nat /\ CommentSum(s.comments, t.keys) = CommentSum(s.comments, s.keys) + 1
  <2> DEFINE base == s.comments
             a == s.keys
             b == t.keys
  <2>1. /\ base \in Nat /\ a \in Seq(Key) /\ b \in Seq(Key) /\ Len(a) = Len(b)
        /\ i \in 0 .. Len(a) /\ i # 0
        /\ \A l \in DOMAIN a : b[l].comments = a[l].comments + (IF l = i THEN 1 ELSE 0)
    BY <1>1, <1>7, <1>8, <1>9
  <2> HIDE DEF base, a, b
  <2>2. CommentSum(base, a) \in Nat /\ CommentSum(base, b) = CommentSum(base, a) + (IF i = 0 THEN 0 ELSE 1)
    BY <2>1, SumCompare
  <2>3. CommentSum(base, b) = CommentSum(base, a) + 1
    BY <2>1, <2>2
  <2>4. QED
    BY <2>2, <2>3 DEF base, a, b
<1>11. Total(s) \in Nat /\ Total(t) = Total(s) + 1
  BY <1>7, <1>10, TotalIs
<1>12. QED
  BY <1>2, <1>3, <1>5, <1>11 DEF t, k

(* What c comment lines do where the section w is read.                    *)
Commented(s, w, c, r) ==
  /\ r = [ini |-> r.ini, key |-> w]
  /\ SameValues(s, r.ini) /\ r.ini.comments = s.comments
  /\ Total(r.ini) = Total(s) + c

(* Lines of comments, once a section has been read, go to the first        *)
(* section of its name.                                                    *)
LEMMA CommentsRead ==
  ASSUME NEW s, Vectors(s), NEW w \in Word, FindKey(s, w) \in DOMAIN s.keys, NEW c \in Nat
  PROVE  Commented(s, w, c, ReadAll([ini |-> s, key |-> w], CommentLines(c)))
<1> DEFINE base == [ini |-> s, key |-> w]
           lines == CommentLines(c)
           f == FindKey(s, w)
<1>1. DOMAIN lines = 1 .. c /\ \A m \in 1 .. c : lines[m] = CommentLine
  BY DEF CommentLines
<1>2. base.ini = s /\ base.key = w
  OBVIOUS
<1>3. base = [ini |-> base.ini, key |-> w]
  OBVIOUS
<1>4. s.names # <<>> /\ f = First(s.names, w) /\ Total(s) \in Nat
  <2>1. DOMAIN s.names = DOMAIN s.keys /\ DOMAIN <<>> = {}
    BY VectorsAre
  <2>2. Total(s) \in Nat
    BY CommentIs
  <2>3. QED
    BY <2>1, <2>2, FindsFirst
<1> HIDE DEF base, lines, f
<1>5. PICK at : Reads(at, base, c, lines)
  BY <1>1, ReadGoes
<1> DEFINE T == {m \in Nat : m <= c => Commented(s, w, m, at[m])}
<1>6. 0 \in T
  <2>1. at[0] = base
    BY <1>5 DEF Reads
  <2>2. SameValues(s, s)
    BY DEF SameValues
  <2>3. Commented(s, w, 0, base)
    BY <1>2, <1>3, <1>4, <2>2 DEF Commented
  <2>4. QED
    BY <2>1, <2>3
<1>7. ASSUME NEW m \in T PROVE m + 1 \in T
  <2> SUFFICES ASSUME m + 1 <= c PROVE Commented(s, w, m + 1, at[m + 1])
    OBVIOUS
  <2>1. m \in Nat /\ m + 1 \in 1 .. c /\ (m + 1) - 1 = m /\ m <= c
    OBVIOUS
  <2>2. at[m + 1] = TakeLine(at[m], CommentLine)
    BY <1>1, <1>5, <2>1 DEF Reads
  <2>3. Commented(s, w, m, at[m])
    BY <2>1
  <2> DEFINE u == at[m].ini
  <2>4. at[m] = [ini |-> u, key |-> w] /\ SameValues(s, u) /\ u.comments = s.comments
        /\ Total(u) = Total(s) + m
    BY <2>3 DEF Commented
  <2> HIDE DEF u
  <2>5. Vectors(u) /\ u.names = s.names /\ DOMAIN u.keys = DOMAIN s.keys
    BY <2>4 DEF SameValues
  <2>6. FindKey(u, w) = f
    BY <1>4, <2>5, FindsFirst
  <2>7. at[m + 1] = [ini |-> Comment(u, f), key |-> w]
    <3>1. CommentLine.kind = "comment"
      BY DEF CommentLine
    <3>2. at[m].ini = u /\ at[m].key = w
      BY <2>4
    <3>3. at[m + 1] = [at[m] EXCEPT !.ini = Comment(u, f)]
      BY <1>4, <2>2, <2>5, <2>6, <3>1, <3>2 DEF TakeLine
    <3>4. QED
      BY <2>4, <3>3
  <2> DEFINE t == Comment(u, f)
             k == [names |-> u.keys[f].names, values |-> u.keys[f].values,
                   comments |-> u.keys[f].comments + 1]
  <2>8. /\ t = WithKey(u, f, k) /\ k \in Key /\ Len(k.names) = Len(k.values)
        /\ Total(t) = Total(u) + 1 /\ f \in DOMAIN u.keys
    <3>1. f \in DOMAIN u.keys
      BY <2>5 DEF f
    <3>2. QED
      BY <2>5, <3>1, CommentIs
  <2>9. k.names = u.keys[f].names /\ k.values = u.keys[f].values
    OBVIOUS
  <2> HIDE DEF t, k
  <2>10. /\ Vectors(t) /\ t.names = u.names /\ t.comments = u.comments
         /\ DOMAIN t.keys = DOMAIN u.keys /\ t.keys[f] = k
         /\ \A l \in DOMAIN u.keys : l # f => t.keys[l] = u.keys[l]
    BY <2>5, <2>8, WithKeyIs
  <2>11. \A l \in DOMAIN s.keys : t.keys[l].names = s.keys[l].names /\ t.keys[l].values = s.keys[l].values
    BY <2>4, <2>5, <2>9, <2>10 DEF SameValues
  <2>12. SameValues(s, t)
    BY <2>5, <2>10, <2>11 DEF SameValues
  <2>13. Total(t) = Total(s) + (m + 1)
    BY <1>4, <2>1, <2>4, <2>8
  <2>14. at[m + 1].ini = t /\ at[m + 1] = [ini |-> t, key |-> w]
    BY <2>7 DEF t
  <2>15. QED
    BY <2>4, <2>10, <2>12, <2>13, <2>14 DEF Commented
<1>8. c \in T
  <2> HIDE DEF T
  <2>1. T \in SUBSET Nat
    BY DEF T
  <2>2. QED
    BY <1>6, <1>7, <2>1, Induction
<1>9. Commented(s, w, c, at[c])
  BY <1>8
<1>10. QED
  BY <1>5, <1>9 DEF Reads, base, lines

(* Comments before the first section are the header's.                     *)
HeaderOf(c) == [names |-> <<>>, keys |-> <<>>, comments |-> c]

(* Before any section has been read they go to the header.                 *)
LEMMA HeaderRead ==
  ASSUME NEW c \in Nat
  PROVE  ReadAll([ini |-> Empty, key |-> NoWord], CommentLines(c))
           = [ini |-> HeaderOf(c), key |-> NoWord]
<1> DEFINE base == [ini |-> Empty, key |-> NoWord]
           lines == CommentLines(c)
<1>1. DOMAIN lines = 1 .. c /\ \A m \in 1 .. c : lines[m] = CommentLine
  BY DEF CommentLines
<1>2. base = [ini |-> HeaderOf(0), key |-> NoWord]
  BY DEF Empty, HeaderOf
<1> HIDE DEF base, lines
<1>3. PICK at : Reads(at, base, c, lines)
  BY <1>1, ReadGoes
<1> DEFINE T == {m \in Nat : m <= c => at[m] = [ini |-> HeaderOf(m), key |-> NoWord]}
<1>4. 0 \in T
  BY <1>2, <1>3 DEF Reads
<1>5. ASSUME NEW m \in T PROVE m + 1 \in T
  <2> SUFFICES ASSUME m + 1 <= c PROVE at[m + 1] = [ini |-> HeaderOf(m + 1), key |-> NoWord]
    OBVIOUS
  <2>1. m \in Nat /\ m + 1 \in 1 .. c /\ (m + 1) - 1 = m /\ m <= c
    OBVIOUS
  <2>2. at[m + 1] = TakeLine(at[m], CommentLine)
    BY <1>1, <1>3, <2>1 DEF Reads
  <2>3. at[m] = [ini |-> HeaderOf(m), key |-> NoWord]
    BY <2>1
  <2>4. CommentLine.kind = "comment"
    BY DEF CommentLine
  <2>5. HeaderOf(m).names = <<>> /\ HeaderOf(m).comments = m
    BY DEF HeaderOf
  <2>6. [HeaderOf(m) EXCEPT !.comments = HeaderOf(m).comments + 1] = HeaderOf(m + 1)
    BY <2>5 DEF HeaderOf
  <2>7. at[m].ini = HeaderOf(m)
    BY <2>3
  <2>8. at[m + 1] = [at[m] EXCEPT !.ini = HeaderOf(m + 1)]
    BY <2>2, <2>4, <2>5, <2>6, <2>7 DEF TakeLine
  <2>9. QED
    BY <2>3, <2>8
<1>6. c \in T
  <2> HIDE DEF T
  <2>1. T \in SUBSET Nat
    BY DEF T
  <2>2. QED
    BY <1>4, <1>5, <2>1, Induction
<1>7. at[c] = [ini |-> HeaderOf(c), key |-> NoWord]
  BY <1>6
<1>8. QED
  BY <1>3, <1>7 DEF Reads, base, lines

(* What the first m value lines of the i-th section of s do where section  *)
(* w is read, which is the i-th of t and has no values there.              *)
Valued(s, t, i, w, m, r) ==
  /\ r = [ini |-> r.ini, key |-> w]
  /\ Vectors(r.ini) /\ r.ini.names = t.names /\ r.ini.comments = t.comments
  /\ DOMAIN r.ini.keys = DOMAIN t.keys
  /\ \A l \in DOMAIN t.keys : l # i => r.ini.keys[l] = t.keys[l]
  /\ DOMAIN r.ini.keys[i].names = 1 .. m
  /\ \A j \in 1 .. m : /\ r.ini.keys[i].names[j] = s.keys[i].names[j]
                       /\ r.ini.keys[i].values[j] = s.keys[i].values[j]
  /\ Total(r.ini) = Total(t)

(* A value that is added changes no number of comments.                    *)
LEMMA AddValueTotal ==
  ASSUME NEW s, Vectors(s), NEW i \in DOMAIN s.keys, NEW n \in Names, NEW v \in Values
  PROVE  LET t == AddValue(s, i, n, v)
             k == SectionOf(s.keys[i], Append(s.keys[i].names, n), Append(s.keys[i].values, v))
         IN  /\ Vectors(t) /\ t.names = s.names /\ t.comments = s.comments
             /\ DOMAIN t.keys = DOMAIN s.keys /\ t.keys[i] = k
             /\ \A l \in DOMAIN s.keys : l # i => t.keys[l] = s.keys[l]
             /\ Total(t) = Total(s)
<1> DEFINE t == AddValue(s, i, n, v)
           k == SectionOf(s.keys[i], Append(s.keys[i].names, n), Append(s.keys[i].values, v))
<1>1. t = WithKey(s, i, k) /\ k \in Key /\ Len(k.names) = Len(k.values)
  BY AddValueIs
<1>2. k.comments = s.keys[i].comments
  BY DEF SectionOf
<1> HIDE DEF t, k
<1>3. /\ Vectors(t) /\ t.names = s.names /\ t.comments = s.comments
      /\ Len(t.keys) = Len(s.keys) /\ DOMAIN t.keys = DOMAIN s.keys /\ t.keys[i] = k
      /\ \A l \in DOMAIN s.keys : l # i => t.keys[l] = s.keys[l]
  BY <1>1, WithKeyIs
<1>4. Total(t) = Total(s)
  <2> DEFINE base == s.comments
             a == s.keys
             b == t.keys
  <2>1. /\ base \in Nat /\ a \in Seq(Key) /\ DOMAIN a = 1 .. Len(a) /\ Len(a) \in Nat
        /\ \A l \in DOMAIN a : a[l].comments \in Nat
    BY VectorsAre
  <2>2. b \in Seq(Key) /\ Len(a) = Len(b)
    BY <1>3, VectorsAre
  <2>3. \A l \in DOMAIN a : b[l].comments = a[l].comments
    BY <1>2, <1>3
  <2>4. Total(s) = CommentSum(base, a) /\ Total(t) = CommentSum(base, b)
    BY <1>3, TotalIs
  <2> HIDE DEF base, a, b
  <2>5. 0 \in 0 .. Len(a)
    BY <2>1
  <2>6. \A l \in DOMAIN a : b[l].comments = a[l].comments + (IF l = 0 THEN 1 ELSE 0)
    BY <2>1, <2>3
  <2>7. CommentSum(base, a) \in Nat /\ CommentSum(base, b) = CommentSum(base, a) + (IF 0 = 0 THEN 0 ELSE 1)
    BY <2>1, <2>2, <2>5, <2>6, SumCompare
  <2>8. QED
    BY <2>4, <2>7
<1>5. QED
  BY <1>3, <1>4 DEF t, k

(* The values written for a section, read into an empty one, are there     *)
(* again in their order.                                                   *)
LEMMA ValuesRead ==
  ASSUME NEW s, Good(s), NEW t, Vectors(t), NEW i \in DOMAIN s.keys, i \in DOMAIN t.keys,
         NEW w \in Word, FindKey(t, w) = i, t.keys[i].names = <<>>
  PROVE  Valued(s, t, i, w, Len(s.keys[i].names),
                ReadAll([ini |-> t, key |-> w], ValueLines(s, i)))
<1> DEFINE base == [ini |-> t, key |-> w]
           lines == ValueLines(s, i)
           names == s.keys[i].names
           values == s.keys[i].values
           c == Len(names)
<1>1. /\ names \in Seq(Names) /\ values \in Seq(Values) /\ c \in Nat
      /\ DOMAIN names = 1 .. c /\ DOMAIN values = 1 .. c
  <2>1. Vectors(s)
    BY DEF Good
  <2>2. QED
    BY <2>1, VectorsAre
<1>2. DOMAIN lines = 1 .. c /\ \A m \in 1 .. c : lines[m] = ValueLine(names[m], values[m])
  BY <1>1 DEF ValueLines
<1>3. base.ini = t /\ base = [ini |-> base.ini, key |-> w]
  OBVIOUS
<1>4. \A j, l \in 1 .. c : Fold(names[j]) = Fold(names[l]) => j = l
  BY <1>1 DEF Good, Unique
<1>5. DOMAIN t.names = DOMAIN t.keys /\ DOMAIN t.keys = 1 .. Len(t.keys) /\ i # 0
      /\ i = First(t.names, w)
  <2>1. DOMAIN t.names = DOMAIN t.keys /\ DOMAIN t.keys = 1 .. Len(t.keys)
    BY VectorsAre
  <2>2. i # 0
    BY <2>1
  <2>3. FindKey(t, w) = First(t.names, w)
    BY FindsFirst
  <2>4. QED
    BY <2>1, <2>2, <2>3
<1> HIDE DEF base, lines, c, names, values
<1>6. PICK at : Reads(at, base, c, lines)
  BY <1>1, <1>2, ReadGoes
<1> DEFINE T == {m \in Nat : m <= c => Valued(s, t, i, w, m, at[m])}
<1>7. 0 \in T
  <2>1. at[0] = base
    BY <1>6 DEF Reads
  <2>2. DOMAIN t.keys[i].names = 1 .. 0
    OBVIOUS
  <2>3. Valued(s, t, i, w, 0, base)
    BY <1>3, <2>2 DEF Valued
  <2>4. QED
    BY <2>1, <2>3
<1>8. ASSUME NEW m \in T PROVE m + 1 \in T
  <2> SUFFICES ASSUME m + 1 <= c PROVE Valued(s, t, i, w, m + 1, at[m + 1])
    OBVIOUS
  <2>1. m \in Nat /\ m + 1 \in 1 .. c /\ (m + 1) - 1 = m /\ m <= c
    BY <1>1
  <2> DEFINE n == names[m + 1]
             v == values[m + 1]
             u == at[m].ini
  <2>2. n \in Names /\ v \in Values
    BY <1>1, <2>1
  <2>3. at[m + 1] = TakeLine(at[m], ValueLine(n, v))
    BY <1>2, <1>6, <2>1 DEF Reads
  <2>4. Valued(s, t, i, w, m, at[m])
    BY <2>1
  <2>5. /\ at[m] = [ini |-> u, key |-> w]
        /\ Vectors(u) /\ u.names = t.names /\ u.comments = t.comments
        /\ DOMAIN u.keys = DOMAIN t.keys
        /\ \A l \in DOMAIN t.keys : l # i => u.keys[l] = t.keys[l]
        /\ DOMAIN u.keys[i].names = 1 .. m
        /\ \A j \in 1 .. m : u.keys[i].names[j] = names[j] /\ u.keys[i].values[j] = values[j]
        /\ Total(u) = Total(t)
    BY <2>4 DEF Valued, names, values
  <2> HIDE DEF n, v, u
  <2>6. at[m + 1] = [ini |-> SetValue(u, w, n, v), key |-> w]
    <3>1. LET line == ValueLine(n, v)
          IN  line.kind = "value" /\ line.word = n /\ line.value = v
      BY DEF ValueLine
    <3>2. at[m].ini = u /\ at[m].key = w
      BY <2>5
    <3> DEFINE new == SetValue(u, w, n, v)
               line == ValueLine(n, v)
    <3>3. at[m + 1] = [at[m] EXCEPT !.ini = new]
      <4> HIDE DEF line
      <4>1. TakeLine(at[m], line) = [at[m] EXCEPT !.ini = SetValue(at[m].ini, at[m].key, line.word, line.value)]
        BY <3>1 DEF TakeLine, line
      <4>2. line.word = n /\ line.value = v
        BY <3>1 DEF line
      <4>3. QED
        BY <2>3, <3>2, <4>1, <4>2 DEF line
    <3> HIDE DEF new
    <3>4. at[m + 1] = [ini |-> new, key |-> w]
      BY <2>5, <3>3
    <3>5. QED
      BY <3>4 DEF new
  <2>7. FindKey(u, w) = i /\ i \in DOMAIN u.keys
    BY <1>5, <2>5, FindsFirst
  <2> DEFINE seq == u.keys[i].names
  <2>8. seq \in Seq(Names) /\ Len(seq) = m /\ u.keys[i].values \in Seq(Values)
        /\ Len(u.keys[i].values) = m
    <3>1. /\ seq \in Seq(Names) /\ DOMAIN seq = 1 .. Len(seq) /\ Len(seq) \in Nat
          /\ u.keys[i].values \in Seq(Values) /\ Len(u.keys[i].values) = Len(seq)
      BY <2>5, <2>7, VectorsAre
    <3>2. Len(seq) = m
      BY <2>1, <2>5, <3>1
    <3>3. QED
      BY <3>1, <3>2
  <2>9. FindValue(u, i, n) = 0
    <3>1. \A j \in 1 .. m : Fold(seq[j]) # Fold(n)
      <4> SUFFICES ASSUME NEW j \in 1 .. m, Fold(names[j]) = Fold(n) PROVE FALSE
        BY <2>5
      <4>1. j \in 1 .. c /\ j # m + 1
        BY <1>1, <2>1
      <4>2. QED
        BY <1>4, <2>1, <4>1 DEF n
    <3>2. FindValue(u, i, n) = First(seq, n)
      BY <2>7, FindsFirst
    <3> HIDE DEF seq
    <3>3. QED
      BY <2>1, <2>8, <3>1, <3>2, FirstIs
  <2> DEFINE new == AddValue(u, i, n, v)
             k == SectionOf(u.keys[i], Append(seq, n), Append(u.keys[i].values, v))
  <2>10. SetValue(u, w, n, v) = new
    BY <1>5, <2>7, <2>9 DEF SetValue
  <2>11. /\ Vectors(new) /\ new.names = u.names /\ new.comments = u.comments
         /\ DOMAIN new.keys = DOMAIN u.keys /\ new.keys[i] = k
         /\ \A l \in DOMAIN u.keys : l # i => new.keys[l] = u.keys[l]
         /\ Total(new) = Total(u)
    BY <2>2, <2>5, <2>7, AddValueTotal
  <2>12. k.names = Append(seq, n) /\ k.values = Append(u.keys[i].values, v)
    BY DEF SectionOf
  <2> HIDE DEF new, k
  <2>13. /\ DOMAIN k.names = 1 .. m + 1
         /\ \A j \in 1 .. m : k.names[j] = seq[j] /\ k.values[j] = u.keys[i].values[j]
         /\ k.names[m + 1] = n /\ k.values[m + 1] = v
    <3> DEFINE vals == u.keys[i].values
    <3>1. /\ seq \in Seq(Names) /\ Len(seq) = m /\ vals \in Seq(Values) /\ Len(vals) = m
          /\ k.names = Append(seq, n) /\ k.values = Append(vals, v)
      BY <2>8, <2>12
    <3> HIDE DEF seq, vals
    <3>2. /\ DOMAIN k.names = 1 .. m + 1 /\ k.names[m + 1] = n
          /\ \A j \in 1 .. m : k.names[j] = seq[j]
      BY <2>2, <3>1
    <3>3. k.values[m + 1] = v /\ \A j \in 1 .. m : k.values[j] = vals[j]
      BY <2>2, <3>1
    <3>4. QED
      BY <3>2, <3>3 DEF vals
  <2>14. \A j \in 1 .. m + 1 : k.names[j] = names[j] /\ k.values[j] = values[j]
    <3> SUFFICES ASSUME NEW j \in 1 .. m + 1
                 PROVE  k.names[j] = names[j] /\ k.values[j] = values[j]
      OBVIOUS
    <3>1. j \in 1 .. m \/ j = m + 1
      BY <2>1
    <3>2. QED
      BY <2>5, <2>13, <3>1 DEF n, v
  <2>15. at[m + 1] = [ini |-> new, key |-> w] /\ at[m + 1].ini = new
    BY <2>6, <2>10
  <2>16. QED
    BY <2>5, <2>7, <2>11, <2>13, <2>14, <2>15 DEF Valued, names, values
<1>9. c \in T
  <2> HIDE DEF T
  <2>1. T \in SUBSET Nat
    BY DEF T
  <2>2. QED
    BY <1>1, <1>7, <1>8, <2>1, Induction
<1>10. Valued(s, t, i, w, c, at[c])
  BY <1>1, <1>9
<1>11. QED
  BY <1>6, <1>10 DEF Reads, base, lines, c, names

(* The lines a file is written in, and those of its i-th section.          *)
Written ==
  {SectionLine(k) : k \in Word} \cup {ValueLine(n, v) : n \in Names, v \in Values}
  \cup {CommentLine}

Part(s, i) ==
  <<SectionLine(s.names[i])>> \o CommentLines(s.keys[i].comments) \o ValueLines(s, i)

(* What WriteFile writes are lines.                                        *)
LEMMA PartsTyped ==
  ASSUME NEW s, Vectors(s)
  PROVE  /\ CommentLines(s.comments) \in Seq(Written)
         /\ \A i \in DOMAIN s.keys :
              /\ <<SectionLine(s.names[i])>> \in Seq(Written)
              /\ CommentLines(s.keys[i].comments) \in Seq(Written)
              /\ ValueLines(s, i) \in Seq(Written)
              /\ Part(s, i) \in Seq(Written)
<1>1. \A c \in Nat : CommentLines(c) \in Seq(Written)
  <2> SUFFICES ASSUME NEW c \in Nat PROVE CommentLines(c) \in Seq(Written)
    OBVIOUS
  <2>1. CommentLine \in Written
    BY DEF Written
  <2> HIDE DEF Written
  <2>2. QED
    BY <2>1 DEF CommentLines
<1>2. s.comments \in Nat
  BY VectorsAre
<1>3. ASSUME NEW i \in DOMAIN s.keys
      PROVE  /\ <<SectionLine(s.names[i])>> \in Seq(Written)
             /\ CommentLines(s.keys[i].comments) \in Seq(Written)
             /\ ValueLines(s, i) \in Seq(Written)
             /\ Part(s, i) \in Seq(Written)
  <2>1. /\ s.names[i] \in Word /\ s.keys[i].comments \in Nat
        /\ s.keys[i].names \in Seq(Names) /\ s.keys[i].values \in Seq(Values)
        /\ DOMAIN s.keys[i].values = DOMAIN s.keys[i].names
        /\ DOMAIN s.keys[i].names = 1 .. Len(s.keys[i].names)
        /\ Len(s.keys[i].names) \in Nat
    BY VectorsAre
  <2>2. SectionLine(s.names[i]) \in Written
    BY <2>1 DEF Written
  <2>3. <<SectionLine(s.names[i])>> \in Seq(Written)
    <3> DEFINE line == SectionLine(s.names[i])
    <3>1. line \in Written
      BY <2>2
    <3> HIDE DEF line
    <3>2. <<line>> \in Seq(Written)
      BY <3>1
    <3>3. QED
      BY <3>2 DEF line
  <2>4. ValueLines(s, i) \in Seq(Written)
    <3> DEFINE c == Len(s.keys[i].names)
               line(j) == ValueLine(s.keys[i].names[j], s.keys[i].values[j])
    <3>1. \A j \in 1 .. c : s.keys[i].names[j] \in Names /\ s.keys[i].values[j] \in Values
      BY <2>1
    <3>2. \A j \in 1 .. c : line(j) \in Written
      BY <3>1 DEF Written
    <3>3. ValueLines(s, i) = [j \in 1 .. c |-> line(j)]
      BY <2>1 DEF ValueLines
    <3>4. c \in Nat
      BY <2>1
    <3> HIDE DEF c, line
    <3>5. QED
      BY <3>2, <3>3, <3>4
  <2> DEFINE a == <<SectionLine(s.names[i])>>
             b == CommentLines(s.keys[i].comments)
             c == ValueLines(s, i)
  <2>5. a \in Seq(Written) /\ b \in Seq(Written) /\ c \in Seq(Written)
    BY <1>1, <2>1, <2>3, <2>4
  <2>6. Part(s, i) = (a \o b) \o c
    BY DEF Part
  <2> HIDE DEF a, b, c
  <2>7. (a \o b) \o c \in Seq(Written)
    BY <2>5
  <2>8. QED
    BY <2>5, <2>6, <2>7 DEF a, b, c
<1>4. QED
  BY <1>1, <1>2, <1>3

(* What there is when k sections of s have been read; p is the number of   *)
(* comments section by section.                                            *)
Copied(s, p, k, r) ==
  /\ r = [ini |-> r.ini, key |-> r.key]
  /\ Vectors(r.ini) /\ DOMAIN r.ini.keys = 1 .. k
  /\ r.ini.comments = s.comments /\ Total(r.ini) = p[k]
  /\ \A i \in 1 .. k :
       /\ r.ini.names[i] = s.names[i]
       /\ r.ini.keys[i].names = s.keys[i].names /\ r.ini.keys[i].values = s.keys[i].values

(* Reading one line is one turn of the loop.                               *)
LEMMA ReadOne ==
  ASSUME NEW r, NEW line
  PROVE  ReadAll(r, <<line>>) = TakeLine(r, line)
<1>1. <<>> \in Seq({}) /\ Append(<<>>, line) = <<line>>
  OBVIOUS
<1>2. ReadAll(r, Append(<<>>, line)) = TakeLine(ReadAll(r, <<>>), line)
  BY <1>1, ReadAllAppend
<1>3. QED
  BY <1>1, <1>2, ReadAllEmpty

(* A section that is named: its vectors are empty.                         *)
LEMMA NameRead ==
  ASSUME NEW s, NEW p, NEW k \in Nat, NEW r, Copied(s, p, k, r), NEW w \in Word
  PROVE  LET t == AddKeyName(r.ini, w)
         IN  /\ ReadAll(r, <<SectionLine(w)>>) = [ini |-> t, key |-> w]
             /\ Vectors(t) /\ DOMAIN t.keys = 1 .. k + 1 /\ t.comments = s.comments
             /\ Total(t) = p[k]
             /\ \A i \in 1 .. k : t.names[i] = r.ini.names[i] /\ t.keys[i] = r.ini.keys[i]
             /\ t.names[k + 1] = w /\ t.keys[k + 1] = EmptyKey
             /\ FindKey(t, w) \in DOMAIN t.keys
<1> DEFINE t == AddKeyName(r.ini, w)
           u == r.ini
<1>1. Vectors(u) /\ DOMAIN u.keys = 1 .. k /\ u.comments = s.comments /\ Total(u) = p[k]
  BY DEF Copied
<1>2. ReadAll(r, <<SectionLine(w)>>) = [ini |-> t, key |-> w]
  <2>1. LET line == SectionLine(w) IN line.kind = "section" /\ line.word = w
    BY DEF SectionLine
  <2> DEFINE line == SectionLine(w)
  <2> HIDE DEF line
  <2>2. TakeLine(r, line) = [ini |-> t, key |-> w]
    BY <2>1 DEF TakeLine, line
  <2>3. QED
    BY <2>2, ReadOne DEF line
<1>3. Len(u.keys) = k
  <2>1. Len(u.keys) \in Nat /\ DOMAIN u.keys = 1 .. Len(u.keys)
    BY <1>1, VectorsAre
  <2> HIDE DEF u
  <2>2. QED
    BY <1>1, <2>1
<1>4. t = AddKeyName(u, w)
  OBVIOUS
<1> HIDE DEF t, u
<1>5. /\ Vectors(t) /\ t.keys = Append(u.keys, EmptyKey) /\ t.comments = u.comments
      /\ DOMAIN t.keys = 1 .. k + 1
      /\ \A i \in DOMAIN u.keys : t.names[i] = u.names[i] /\ t.keys[i] = u.keys[i]
      /\ t.names[k + 1] = w /\ t.keys[k + 1] = EmptyKey
  BY <1>1, <1>3, <1>4, AddKeyNameIs
<1>6. Total(t) = p[k]
  <2>1. u.comments \in Nat /\ u.keys \in Seq(Key)
    BY <1>1, VectorsAre
  <2>2. CommentSum(u.comments, t.keys) = CommentSum(u.comments, u.keys)
    BY <1>5, <2>1, SumAppend
  <2>3. QED
    BY <1>1, <1>5, <2>2, TotalIs
<1>7. FindKey(t, w) \in DOMAIN t.keys
  <2>1. t.names \in Seq(Word) /\ DOMAIN t.keys = 1 .. Len(t.names)
    BY <1>5, VectorsAre
  <2>2. k + 1 \in 1 .. Len(t.names) /\ Fold(t.names[k + 1]) = Fold(w)
    BY <1>5, <2>1
  <2>3. First(t.names, w) \in 1 .. Len(t.names)
    BY <2>1, <2>2, FirstIs
  <2>4. QED
    BY <2>1, <2>3, FindsFirst
<1>8. QED
  BY <1>1, <1>2, <1>5, <1>6, <1>7 DEF t, u

(* A section that is read, of a file of which the sections before it were: *)
(* its name, its comments and its values.                                  *)
LEMMA SectionRead ==
  ASSUME NEW s, Good(s), NEW p, Sums(p, s.comments, Len(s.keys), s.keys),
         NEW k \in Nat, k + 1 \in DOMAIN s.keys, NEW r, Copied(s, p, k, r)
  PROVE  Copied(s, p, k + 1, ReadAll(r, Part(s, k + 1)))
<1> DEFINE i == k + 1
           w == s.names[i]
           c == s.keys[i].comments
           a == <<SectionLine(w)>>
           b == CommentLines(c)
           d == ValueLines(s, i)
           t == AddKeyName(r.ini, w)
           r1 == [ini |-> t, key |-> w]
           r2 == ReadAll(r1, b)
           r3 == ReadAll(r2, d)
           u == r2.ini
<1>1. /\ Vectors(s) /\ w \in Word /\ c \in Nat /\ i \in DOMAIN s.keys
      /\ DOMAIN s.keys = 1 .. Len(s.keys) /\ Len(s.keys) \in Nat
      /\ s.keys[i].names \in Seq(Names) /\ s.keys[i].values \in Seq(Values)
      /\ Len(s.keys[i].names) = Len(s.keys[i].values)
      /\ DOMAIN s.keys[i].names = 1 .. Len(s.keys[i].names)
      /\ DOMAIN s.keys[i].values = 1 .. Len(s.keys[i].names)
      /\ Len(s.keys[i].names) \in Nat
  BY VectorsAre DEF Good
<1>2. a \in Seq(Written) /\ b \in Seq(Written) /\ d \in Seq(Written)
  BY <1>1, PartsTyped
<1>3. ReadAll(r, Part(s, i)) = ReadAll(ReadAll(ReadAll(r, a), b), d)
  <2>1. Part(s, i) = (a \o b) \o d
    BY DEF Part
  <2> HIDE DEF a, b, d, i
  <2> DEFINE ab == a \o b
  <2>2. ab \in Seq(Written) /\ ReadAll(r, ab) = ReadAll(ReadAll(r, a), b)
    BY <1>2, ReadOfConcat
  <2>3. Part(s, i) = ab \o d
    BY <2>1
  <2> HIDE DEF ab
  <2>4. ReadAll(r, ab \o d) = ReadAll(ReadAll(r, ab), d)
    BY <1>2, <2>2, ReadOfConcat
  <2>5. QED
    BY <2>2, <2>3, <2>4
<1>4. /\ ReadAll(r, a) = r1
      /\ Vectors(t) /\ DOMAIN t.keys = 1 .. i /\ t.comments = s.comments /\ Total(t) = p[k]
      /\ \A l \in 1 .. k : t.names[l] = r.ini.names[l] /\ t.keys[l] = r.ini.keys[l]
      /\ t.names[i] = w /\ t.keys[i] = EmptyKey /\ FindKey(t, w) \in DOMAIN t.keys
  <2> HIDE DEF w
  <2>1. LET x == AddKeyName(r.ini, w)
        IN  /\ ReadAll(r, <<SectionLine(w)>>) = [ini |-> x, key |-> w]
            /\ Vectors(x) /\ DOMAIN x.keys = 1 .. k + 1 /\ x.comments = s.comments
            /\ Total(x) = p[k]
            /\ \A l \in 1 .. k : x.names[l] = r.ini.names[l] /\ x.keys[l] = r.ini.keys[l]
            /\ x.names[k + 1] = w /\ x.keys[k + 1] = EmptyKey
            /\ FindKey(x, w) \in DOMAIN x.keys
    BY <1>1, NameRead, Zenon
  <2> HIDE DEF i
  <2>2. i = k + 1
    BY DEF i
  <2> HIDE DEF t
  <2>3. QED
    BY <2>1, <2>2, Zenon DEF t
<1>5. /\ \A l \in 1 .. k : /\ r.ini.names[l] = s.names[l]
                           /\ r.ini.keys[l].names = s.keys[l].names
                           /\ r.ini.keys[l].values = s.keys[l].values
  BY DEF Copied
<1> HIDE DEF t
<1>6. Commented(t, w, c, r2)
  <2> HIDE DEF w, c
  <2>1. QED
    BY <1>1, <1>4, CommentsRead
<1> HIDE DEF r1, r2
<1>7. r2 = [ini |-> u, key |-> w]
      /\ SameValues(t, u) /\ u.comments = t.comments /\ Total(u) = Total(t) + c
  BY <1>6 DEF Commented
<1> HIDE DEF u
<1>8. /\ Vectors(u) /\ u.names = t.names /\ DOMAIN u.keys = 1 .. i
      /\ \A l \in 1 .. i : u.keys[l].names = t.keys[l].names /\ u.keys[l].values = t.keys[l].values
  BY <1>4, <1>7 DEF SameValues
<1>9. p[i] = p[k] + c
  <2>1. i \in 1 .. Len(s.keys) /\ i - 1 = k
    BY <1>1
  <2>2. QED
    BY <2>1 DEF Sums
<1>10. /\ u.comments = s.comments /\ Total(u) = p[i] /\ i \in 1 .. i
       /\ \A l \in 1 .. i : l # i => l \in 1 .. k
  BY <1>4, <1>7, <1>9
<1>11. /\ EmptyKey.names = <<>> /\ EmptyKey.values = <<>>
  BY DEF EmptyKey
<1>12. \A l \in 1 .. i : u.names[l] = s.names[l]
  BY <1>4, <1>5, <1>8, <1>10
<1>13. CASE s.keys[i].names = <<>>
  <2>1. s.keys[i].values = <<>>
    <3>1. Len(s.keys[i].values) = 0
      BY <1>1, <1>13
    <3>2. QED
      BY <1>1, <3>1
  <2>2. d = <<>>
    <3>1. DOMAIN <<>> = {}
      OBVIOUS
    <3>2. DOMAIN d = {}
      BY <1>13, <3>1 DEF ValueLines
    <3> HIDE DEF d
    <3>3. Len(d) = 0
      BY <1>2, <3>2
    <3>4. QED
      BY <1>2, <3>3
  <2>3. r3 = r2
    BY <2>2, ReadAllEmpty
  <2>4. \A l \in 1 .. i : u.keys[l].names = s.keys[l].names /\ u.keys[l].values = s.keys[l].values
    <3> SUFFICES ASSUME NEW l \in 1 .. i
                 PROVE  u.keys[l].names = s.keys[l].names /\ u.keys[l].values = s.keys[l].values
      OBVIOUS
    <3> HIDE DEF i
    <3>1. CASE l = i
      BY <1>4, <1>8, <1>11, <1>13, <2>1, <3>1
    <3>2. CASE l # i
      BY <1>4, <1>5, <1>8, <1>10, <3>2
    <3>3. QED
      BY <3>1, <3>2
  <2>5. r2 = [ini |-> r2.ini, key |-> r2.key] /\ r2.ini = u
    BY <1>7
  <2> HIDE DEF i, d, r3
  <2>6. Copied(s, p, i, r2)
    BY <1>8, <1>10, <1>12, <2>4, <2>5 DEF Copied
  <2>7. ReadAll(r, Part(s, i)) = r3
    BY <1>3, <1>4 DEF r3, r2
  <2>8. QED
    BY <2>3, <2>6, <2>7 DEF i
<1>14. CASE s.keys[i].names # <<>>
  <2>1. FindKey(u, w) = i
    <3>1. \A l \in 1 .. i - 1 : Fold(s.names[l]) # Fold(s.names[i])
      BY <1>1, <1>14 DEF Good, Unique
    <3>2. \A l \in 1 .. i - 1 : Fold(u.names[l]) # Fold(w)
      BY <1>12, <3>1
    <3>3. u.names \in Seq(Word) /\ i \in 1 .. Len(u.names) /\ Fold(u.names[i]) = Fold(w)
      <4>1. u.names \in Seq(Word) /\ DOMAIN u.keys = 1 .. Len(u.names)
        BY <1>8, VectorsAre
      <4>2. QED
        BY <1>8, <1>10, <1>12, <4>1
    <3> HIDE DEF i, w
    <3>4. First(u.names, w) = i
      BY <3>2, <3>3, FirstUnique
    <3>5. QED
      BY <3>4, FindsFirst
  <2>2. u.keys[i].names = <<>> /\ i \in DOMAIN u.keys
    BY <1>4, <1>8, <1>10, <1>11
  <2> DEFINE m == Len(s.keys[i].names)
  <2>3. Valued(s, u, i, w, m, r3)
    <3>1. r3 = ReadAll([ini |-> u, key |-> w], ValueLines(s, i))
      BY <1>7
    <3> HIDE DEF i, w, r3
    <3>2. QED
      BY <1>1, <1>8, <2>1, <2>2, <3>1, ValuesRead
  <2> HIDE DEF r3, m
  <2> DEFINE v == r3.ini
  <2>4. /\ r3 = [ini |-> v, key |-> w]
        /\ Vectors(v) /\ v.names = u.names /\ v.comments = u.comments
        /\ DOMAIN v.keys = DOMAIN u.keys
        /\ \A l \in DOMAIN u.keys : l # i => v.keys[l] = u.keys[l]
        /\ DOMAIN v.keys[i].names = 1 .. m
        /\ \A j \in 1 .. m : /\ v.keys[i].names[j] = s.keys[i].names[j]
                             /\ v.keys[i].values[j] = s.keys[i].values[j]
        /\ Total(v) = Total(u)
    BY <2>3 DEF Valued
  <2> HIDE DEF v
  <2>5. v.keys[i].names = s.keys[i].names /\ v.keys[i].values = s.keys[i].values
    <3> DEFINE x == v.keys[i].names
               y == v.keys[i].values
               x1 == s.keys[i].names
               y1 == s.keys[i].values
    <3>1. /\ x \in Seq(Names) /\ y \in Seq(Values) /\ DOMAIN x = 1 .. Len(x) /\ Len(x) \in Nat
          /\ Len(x) = Len(y)
      BY <2>2, <2>4, VectorsAre
    <3>2. x1 \in Seq(Names) /\ y1 \in Seq(Values) /\ Len(x1) = m /\ Len(y1) = m /\ m \in Nat
      BY <1>1 DEF m
    <3>3. \A j \in 1 .. m : x[j] = x1[j] /\ y[j] = y1[j]
      BY <2>4
    <3>4. Len(x) = m
      <4>1. DOMAIN x = 1 .. m /\ DOMAIN x = 1 .. Len(x) /\ Len(x) \in Nat /\ m \in Nat
        BY <2>4, <3>1, <3>2
      <4> DEFINE z == Len(x)
      <4>2. 1 .. z = 1 .. m /\ z \in Nat /\ m \in Nat
        BY <4>1
      <4> HIDE DEF z
      <4>3. z = m
        BY <4>2
      <4>4. QED
        BY <4>3 DEF z
    <3> HIDE DEF x, y, x1, y1
    <3>5. x = x1
      BY <3>1, <3>2, <3>3, <3>4, SeqEqual
    <3>6. y = y1
      BY <3>1, <3>2, <3>3, <3>4, SeqEqual
    <3>7. QED
      BY <3>5, <3>6 DEF x, y, x1, y1
  <2>6. \A l \in 1 .. i : v.keys[l].names = s.keys[l].names /\ v.keys[l].values = s.keys[l].values
    <3> SUFFICES ASSUME NEW l \in 1 .. i
                 PROVE  v.keys[l].names = s.keys[l].names /\ v.keys[l].values = s.keys[l].values
      OBVIOUS
    <3> HIDE DEF i
    <3>1. CASE l = i
      BY <2>5, <3>1
    <3>2. CASE l # i
      <4>1. l \in 1 .. k /\ l \in DOMAIN u.keys
        BY <1>8, <1>10, <3>2
      <4>2. v.keys[l] = u.keys[l]
        BY <2>4, <3>2, <4>1
      <4>3. /\ u.keys[l].names = t.keys[l].names /\ u.keys[l].values = t.keys[l].values
            /\ t.keys[l] = r.ini.keys[l]
        BY <1>4, <1>8, <4>1
      <4>4. r.ini.keys[l].names = s.keys[l].names /\ r.ini.keys[l].values = s.keys[l].values
        BY <1>5, <4>1
      <4>5. QED
        BY <4>2, <4>3, <4>4
    <3>3. QED
      BY <3>1, <3>2
  <2>7. r3 = [ini |-> r3.ini, key |-> r3.key] /\ r3.ini = v
    BY <2>4
  <2> HIDE DEF i, d
  <2>8. Copied(s, p, i, r3)
    BY <1>8, <1>10, <1>12, <2>4, <2>6, <2>7 DEF Copied
  <2>9. ReadAll(r, Part(s, i)) = r3
    BY <1>3, <1>4 DEF r3, r2
  <2>10. QED
    BY <2>8, <2>9 DEF i
<1>15. QED
  BY <1>13, <1>14

(* Nothing but the header has been read.                                   *)
LEMMA HeaderCopied ==
  ASSUME NEW s, Vectors(s), NEW p, Sums(p, s.comments, Len(s.keys), s.keys)
  PROVE  Copied(s, p, 0, [ini |-> HeaderOf(s.comments), key |-> NoWord])
<1> DEFINE h == HeaderOf(s.comments)
           r == [ini |-> h, key |-> NoWord]
<1>1. h.names = <<>> /\ h.keys = <<>> /\ h.comments = s.comments
  BY DEF HeaderOf
<1>2. /\ <<>> \in Seq(Word) /\ <<>> \in Seq(Key) /\ DOMAIN <<>> = {} /\ 1 .. 0 = {}
      /\ s.comments \in Nat
  BY VectorsAre
<1>3. h \in File
  BY <1>2 DEF HeaderOf, File
<1>4. r = [ini |-> r.ini, key |-> r.key] /\ r.ini = h
  OBVIOUS
<1> HIDE DEF h, r
<1>5. Vectors(h)
  BY <1>1, <1>2, <1>3 DEF Vectors
<1>6. Total(h) = p[0]
  <2>1. Total(h) = s.comments
    BY <1>1, TotalIs, SumEmpty
  <2>2. p[0] = s.comments
    BY DEF Sums
  <2>3. QED
    BY <2>1, <2>2
<1>7. Copied(s, p, 0, r)
  BY <1>1, <1>2, <1>4, <1>5, <1>6 DEF Copied
<1>8. QED
  BY <1>7 DEF r, h

(* All sections, one after the other.                                      *)
Parts(s) == [i \in DOMAIN s.keys |-> Part(s, i)]

(* By induction, all the sections are read as they were written.           *)
LEMMA SectionsRead ==
  ASSUME NEW s, Good(s), NEW p, Sums(p, s.comments, Len(s.keys), s.keys),
         NEW r, Copied(s, p, 0, r)
  PROVE  /\ FlattenSeq(Parts(s)) \in Seq(Written)
         /\ Copied(s, p, Len(s.keys), ReadAll(r, FlattenSeq(Parts(s))))
<1> DEFINE n == Len(s.keys)
           parts == Parts(s)
<1>1. /\ Vectors(s) /\ n \in Nat /\ DOMAIN s.keys = 1 .. n
      /\ \A i \in 1 .. n : Part(s, i) \in Seq(Written)
  <2>1. Vectors(s)
    BY DEF Good
  <2>2. QED
    BY <2>1, VectorsAre, PartsTyped
<1>2. DOMAIN parts = 1 .. n /\ \A i \in 1 .. n : parts[i] = Part(s, i)
  BY <1>1 DEF Parts
<1>3. parts \in Seq(Seq(Written)) /\ Len(parts) = n
  <2>1. parts = [i \in 1 .. n |-> Part(s, i)]
    BY <1>1 DEF Parts
  <2> HIDE DEF parts, n
  <2>2. QED
    BY <1>1, <2>1
<1> HIDE DEF parts, n
<1>4. CASE n = 0
  <2>1. parts = <<>>
    BY <1>3, <1>4
  <2>2. FlattenSeq(parts) = <<>>
    BY <2>1, FlattenEmpty
  <2>3. ReadAll(r, FlattenSeq(parts)) = r
    BY <2>2, ReadAllEmpty
  <2>4. <<>> \in Seq(Written)
    OBVIOUS
  <2>5. QED
    BY <1>4, <2>2, <2>3, <2>4 DEF parts, n
<1>5. CASE n # 0
  <2>1. parts # <<>>
    BY <1>3, <1>5
  <2>2. PICK at : Flattens(at, parts) /\ FlattenSeq(parts) = at[Len(parts)]
    BY <1>3, <2>1, FlattenGoes
  <2>3. /\ FlattenSeq(parts) = at[n]
        /\ \A i \in 1 .. n : at[i] = IF i = 1 THEN parts[i] ELSE at[i - 1] \o parts[i]
    BY <1>3, <2>2 DEF Flattens
  <2> DEFINE T == {i \in Nat : 1 <= i /\ i <= n =>
                     at[i] \in Seq(Written) /\ Copied(s, p, i, ReadAll(r, at[i]))}
  <2>4. 0 \in T
    OBVIOUS
  <2>5. ASSUME NEW i \in T PROVE i + 1 \in T
    <3> SUFFICES ASSUME i + 1 <= n
                 PROVE  at[i + 1] \in Seq(Written) /\ Copied(s, p, i + 1, ReadAll(r, at[i + 1]))
      OBVIOUS
    <3> DEFINE part == Part(s, i + 1)
    <3>1. /\ i \in Nat /\ i + 1 \in 1 .. n /\ (i + 1) - 1 = i /\ i + 1 \in DOMAIN s.keys
          /\ part \in Seq(Written)
      BY <1>1
    <3>2. parts[i + 1] = part
      BY <1>2, <3>1
    <3>3. CASE i = 0
      <4>1. at[i + 1] = part
        BY <2>3, <3>1, <3>2, <3>3
      <4>2. Copied(s, p, i + 1, ReadAll(r, part))
        BY <3>1, <3>3, SectionRead
      <4>3. QED
        BY <3>1, <4>1, <4>2
    <3>4. CASE i # 0
      <4> DEFINE before == at[i]
      <4>1. before \in Seq(Written) /\ Copied(s, p, i, ReadAll(r, before))
        <5>1. 1 <= i /\ i <= n
          BY <1>1, <3>1, <3>4
        <5>2. QED
          BY <5>1
      <4>2. at[i + 1] = before \o part
        <5>1. i + 1 # 1
          BY <3>1, <3>4
        <5>2. at[i + 1] = at[(i + 1) - 1] \o parts[i + 1]
          BY <2>3, <3>1, <5>1
        <5> HIDE DEF part
        <5>3. QED
          BY <3>1, <3>2, <5>2, Zenon
      <4>3. Copied(s, p, i + 1, ReadAll(ReadAll(r, before), part))
        <5> HIDE DEF before
        <5>1. QED
          BY <3>1, <4>1, SectionRead
      <4> HIDE DEF before, part
      <4>4. before \o part \in Seq(Written)
        BY <3>1, <4>1
      <4>5. ReadAll(r, before \o part) = ReadAll(ReadAll(r, before), part)
        BY <3>1, <4>1, ReadOfConcat
      <4>6. QED
        BY <4>2, <4>3, <4>4, <4>5
    <3>5. QED
      BY <3>3, <3>4
  <2>6. n \in T
    <3> HIDE DEF T
    <3>1. T \in SUBSET Nat
      BY DEF T
    <3>2. QED
      BY <1>1, <2>4, <2>5, <3>1, Induction
  <2>7. at[n] \in Seq(Written) /\ Copied(s, p, n, ReadAll(r, at[n]))
    BY <1>1, <1>5, <2>6
  <2>8. QED
    BY <2>3, <2>7 DEF parts, n
<1>6. QED
  BY <1>4, <1>5

(* A file that is written and read again, for any vectors in which values  *)
(* are found.                                                              *)
LEMMA ReadAgain ==
  ASSUME NEW s, Good(s)
  PROVE  LET again == TakeLines(Empty, WriteFile(s))
         IN  /\ again.names = s.names
             /\ \A i \in DOMAIN s.keys :
                  /\ again.keys[i].names = s.keys[i].names
                  /\ again.keys[i].values = s.keys[i].values
             /\ again.comments = s.comments /\ Total(again) = Total(s)
<1> DEFINE n == Len(s.keys)
           start == [ini |-> Empty, key |-> NoWord]
           header == CommentLines(s.comments)
           rest == FlattenSeq(Parts(s))
           r == ReadAll(start, header \o rest)
           again == TakeLines(Empty, WriteFile(s))
           read == [ini |-> HeaderOf(s.comments), key |-> NoWord]
<1>1. /\ Vectors(s) /\ n \in Nat /\ DOMAIN s.keys = 1 .. n /\ s.comments \in Nat
      /\ s.names \in Seq(Word) /\ Len(s.names) = n
  BY VectorsAre DEF Good
<1>2. PICK p : Sums(p, s.comments, n, s.keys)
  BY <1>1, SumGoes
<1>3. WriteFile(s) = header \o rest
  BY DEF WriteFile, Parts, Part
<1>4. again = r.ini
  BY <1>3 DEF TakeLines, ReadAll
<1>5. ReadAll(start, header) = read
  BY <1>1, HeaderRead
<1>6. Copied(s, p, 0, read)
  BY <1>1, <1>2, HeaderCopied
<1> HIDE DEF read
<1>7. rest \in Seq(Written) /\ Copied(s, p, n, ReadAll(read, rest))
  BY <1>2, <1>6, SectionsRead
<1>8. header \in Seq(Written)
  BY <1>1, PartsTyped
<1> HIDE DEF again, header, rest, start
<1>9. r = ReadAll(read, rest)
  BY <1>5, <1>7, <1>8, ReadOfConcat
<1> HIDE DEF r
<1>10. /\ Vectors(again) /\ DOMAIN again.keys = 1 .. n
       /\ again.comments = s.comments /\ Total(again) = p[n]
       /\ \A i \in 1 .. n :
            /\ again.names[i] = s.names[i]
            /\ again.keys[i].names = s.keys[i].names /\ again.keys[i].values = s.keys[i].values
  BY <1>4, <1>7, <1>9 DEF Copied
<1>11. again.names = s.names
  <2>1. again.names \in Seq(Word) /\ DOMAIN again.names = 1 .. n
    BY <1>10, VectorsAre
  <2> DEFINE a == again.names
             b == s.names
  <2>2. a \in Seq(Word) /\ b \in Seq(Word) /\ DOMAIN a = 1 .. n /\ DOMAIN b = 1 .. n
        /\ \A i \in 1 .. n : a[i] = b[i]
    BY <1>1, <1>10, <2>1, VectorsAre
  <2> HIDE DEF a, b, n
  <2>3. a = [i \in 1 .. n |-> a[i]] /\ b = [i \in 1 .. n |-> b[i]]
    BY <2>2
  <2>4. a = b
    BY <2>2, <2>3
  <2>5. QED
    BY <2>4 DEF a, b
<1>12. Total(s) = p[n]
  BY <1>2, TotalIs DEF Sums
<1>13. QED
  BY <1>1, <1>10, <1>11, <1>12 DEF again

(* RoundTrip: what WriteFile writes and ReadFile reads again has the same  *)
(* sections in their order, the same values, and as many comments, for any *)
(* vectors the class can come to hold.                                     *)
THEOREM RoundTripHolds == Spec => []RoundTrip
<1>1. IInv => RoundTrip
  BY ReadAgain DEF IInv, RoundTrip
<1>2. QED
  BY <1>1, Invariance, PTL

=============================================================================
