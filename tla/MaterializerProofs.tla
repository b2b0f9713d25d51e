-------------------------- MODULE MaterializerProofs --------------------------
(***************************************************************************)
(* That a pending update always has its row, that the rows stay within     *)
(* MaxRows, that the order array and its index describe the rows through   *)
(* every deletion and compaction, that the array stays bounded, and that   *)
(* all this implements the table of ChangelogTable: for any keys, values   *)
(* and limits and any length of the changelog.                             *)
(***************************************************************************)
EXTENDS Materializer, FiniteSetTheorems, SequenceTheorems, WellFoundedInduction, TLAPS

(***************************************************************************)
(* Induction, and what the loop over an array keeps                        *)
(***************************************************************************)
\* A set of naturals has a least element.
LEMMA LeastElement ==
  ASSUME NEW T, T \subseteq Nat, T # {}
  PROVE  \E n \in T : \A m \in T : n <= m
<1> DEFINE R == OpToRel(<, Nat)
<1>1. IsWellFoundedOn(R, Nat)
  BY NatLessThanWellFounded
<1>3. \A x, y \in Nat : y < x => << y, x >> \in R
  BY DEF OpToRel
<1> HIDE DEF R
<1>2. PICK x \in T : \A y \in T : ~(<< y, x >> \in R)
  BY <1>1, WFMin, Zenon
<1>4. ASSUME NEW y \in T PROVE x <= y
  <2>1. x \in Nat /\ y \in Nat
    OBVIOUS
  <2>2. ~(y < x)
    BY <1>2, <1>3, <2>1, Zenon
  <2> QED BY <2>1, <2>2
<1> QED BY <1>2, <1>4

\* Induction, for a set of naturals instead of a predicate.
LEMMA SetInduction ==
  ASSUME NEW T, T \subseteq Nat, 0 \in T, \A n \in T : n + 1 \in T
  PROVE  T = Nat
<1> SUFFICES ASSUME Nat \ T # {} PROVE FALSE
  OBVIOUS
<1>1. PICK n \in Nat \ T : \A m \in Nat \ T : n <= m
  <2>1. Nat \ T \subseteq Nat
    OBVIOUS
  <2> QED BY <2>1, LeastElement, Zenon
<1>2. n # 0 /\ n - 1 \in Nat /\ n - 1 \in T
  BY <1>1
<1> QED BY <1>1, <1>2

\* f[n] is what the loop of Kept has kept of the first n entries.
StepOf(entries, S, f, n) ==
  f[n] = IF n = 0 THEN << >>
         ELSE IF entries[n] \in S THEN Append(f[n - 1], entries[n]) ELSE f[n - 1]

Keeps(entries, S, f) == \A n \in 0..Len(entries) : StepOf(entries, S, f, n)

KeepsExactly(entries, S, f) ==
  f = [n \in 0..Len(entries) |-> IF n = 0 THEN << >>
                                 ELSE IF entries[n] \in S THEN Append(f[n - 1], entries[n])
                                 ELSE f[n - 1]]

LEMMA KeepsExists ==
  ASSUME NEW entries, NEW S, Len(entries) \in Nat
  PROVE  \E f : KeepsExactly(entries, S, f)
<1> DEFINE G(f, n) == \A i \in 0..n : StepOf(entries, S, f, i)
           T == {n \in Nat : \E f : G(f, n)}
<1>1. 0 \in T
  <2>1. G([i \in {0} |-> << >>], 0)
    BY DEF StepOf
  <2> QED BY <2>1
<1>2. ASSUME NEW n \in T PROVE n + 1 \in T
  <2>1. n \in Nat /\ n + 1 \in Nat
    OBVIOUS
  <2>2. PICK f : G(f, n)
    OBVIOUS
  <2> HIDE DEF T
  <2> DEFINE g == [i \in 0..(n + 1) |-> IF i <= n THEN f[i]
                                        ELSE IF entries[i] \in S THEN Append(f[i - 1], entries[i])
                                        ELSE f[i - 1]]
  <2>3. ASSUME NEW i \in 0..(n + 1) PROVE StepOf(entries, S, g, i)
    <3>1. i # 0 => i - 1 \in 0..n /\ g[i - 1] = f[i - 1]
      BY <2>1
    <3>2. i <= n => StepOf(entries, S, f, i) /\ g[i] = f[i]
      BY <2>1, <2>2
    <3>3. ~(i <= n) => i # 0 /\ g[i] = IF entries[i] \in S THEN Append(f[i - 1], entries[i])
                                       ELSE f[i - 1]
      BY <2>1
    <3> HIDE DEF g
    <3> QED BY <3>1, <3>2, <3>3 DEF StepOf
  <2> HIDE DEF g
  <2> QED BY <2>1, <2>3 DEF T
<1> HIDE DEF T
<1>3. T = Nat
  <2>1. T \subseteq Nat
    BY DEF T
  <2> QED BY <1>1, <1>2, <2>1, SetInduction, Zenon
<1>4. PICK f : G(f, Len(entries))
  BY <1>3 DEF T
<1> DEFINE g == [i \in 0..Len(entries) |-> f[i]]
<1>5. \A i \in 0..Len(entries) : StepOf(entries, S, g, i)
  BY <1>4 DEF StepOf
<1>6. KeepsExactly(entries, S, g)
  BY <1>5 DEF KeepsExactly, StepOf
<1> QED BY <1>6

LEMMA KeptIs ==
  ASSUME NEW entries, NEW S, Len(entries) \in Nat
  PROVE  \E f : Keeps(entries, S, f) /\ Kept(entries, S) = f[Len(entries)]
<1> DEFINE f == CHOOSE f : KeepsExactly(entries, S, f)
<1>1. KeepsExactly(entries, S, f)
  BY KeepsExists, Zenon
<1>2. Kept(entries, S) = f[Len(entries)]
  BY DEF Kept, KeepsExactly
<1> HIDE DEF f
<1>3. Keeps(entries, S, f)
  BY <1>1 DEF KeepsExactly, Keeps, StepOf
<1> QED BY <1>2, <1>3

\* The loop depends on the entries it has seen only, and on which it keeps.
LEMMA KeepsAgree ==
  ASSUME NEW d, NEW S, NEW f, NEW e, NEW T, NEW g, NEW m \in Nat,
         Len(d) \in Nat, Len(e) \in Nat, m <= Len(d), m <= Len(e),
         Keeps(d, S, f), Keeps(e, T, g),
         \A i \in 1..m : (d[i] \in S <=> e[i] \in T) /\ (d[i] \in S => d[i] = e[i])
  PROVE  f[m] = g[m]
<1> DEFINE I == {n \in Nat : n <= m => f[n] = g[n]}
<1>1. 0 \in I
  <2>1. 0 \in 0..Len(d) /\ 0 \in 0..Len(e)
    OBVIOUS
  <2>2. f[0] = << >> /\ g[0] = << >>
    BY <2>1 DEF Keeps, StepOf
  <2> QED BY <2>2
<1>2. ASSUME NEW n \in I PROVE n + 1 \in I
  <2>1. n \in Nat /\ n + 1 \in Nat /\ n + 1 # 0 /\ (n + 1) - 1 = n
    OBVIOUS
  <2>2. CASE n + 1 <= m
    <3>1. n + 1 \in 1..m /\ n + 1 \in 0..Len(d) /\ n + 1 \in 0..Len(e) /\ f[n] = g[n]
      BY <2>1, <2>2
    <3>2. f[n + 1] = IF d[n + 1] \in S THEN Append(f[n], d[n + 1]) ELSE f[n]
      BY <2>1, <3>1 DEF Keeps, StepOf
    <3>3. g[n + 1] = IF e[n + 1] \in T THEN Append(g[n], e[n + 1]) ELSE g[n]
      BY <2>1, <3>1 DEF Keeps, StepOf
    <3>4. /\ d[n + 1] \in S <=> e[n + 1] \in T
          /\ d[n + 1] \in S => d[n + 1] = e[n + 1]
      BY <3>1
    <3>5. f[n + 1] = g[n + 1]
      BY <3>1, <3>2, <3>3, <3>4, Zenon
    <3> QED BY <2>1, <3>5
  <2> QED BY <2>1, <2>2
<1>3. I = Nat
  <2>1. I \subseteq Nat
    OBVIOUS
  <2> HIDE DEF I
  <2> QED BY <1>1, <1>2, <2>1, SetInduction, Zenon
<1> QED BY <1>3

\* What is kept is kept again, or kept by any set with the same entries.
LEMMA KeptSame ==
  ASSUME NEW entries, NEW S, NEW T, Len(entries) \in Nat,
         \A i \in 1..Len(entries) : entries[i] \in S <=> entries[i] \in T
  PROVE  Kept(entries, S) = Kept(entries, T)
<1>1. PICK f : Keeps(entries, S, f) /\ Kept(entries, S) = f[Len(entries)]
  BY KeptIs
<1>2. PICK g : Keeps(entries, T, g) /\ Kept(entries, T) = g[Len(entries)]
  BY KeptIs
<1>3. f[Len(entries)] = g[Len(entries)]
  BY <1>1, <1>2, KeepsAgree
<1> QED BY <1>1, <1>2, <1>3

LEMMA KeptWhole ==
  ASSUME NEW S, NEW entries \in Seq(S)
  PROVE  Kept(entries, S) = entries
<1>0. Len(entries) \in Nat
  OBVIOUS
<1>1. PICK f : Keeps(entries, S, f) /\ Kept(entries, S) = f[Len(entries)]
  BY <1>0, KeptIs
<1> DEFINE Same(n) == /\ f[n] \in Seq(S) /\ Len(f[n]) = n
                      /\ \A i \in 1..n : f[n][i] = entries[i]
           I == {n \in Nat : n <= Len(entries) => Same(n)}
<1>2. 0 \in I
  <2>1. 0 \in 0..Len(entries)
    BY <1>0
  <2>2. f[0] = << >>
    BY <1>1, <2>1 DEF Keeps, StepOf
  <2>3. Same(0)
    BY <2>2, EmptySeq
  <2> QED BY <2>3
<1>3. ASSUME NEW n \in I PROVE n + 1 \in I
  <2>1. n \in Nat /\ n + 1 \in Nat /\ n + 1 # 0 /\ (n + 1) - 1 = n
    OBVIOUS
  <2>2. CASE n + 1 <= Len(entries)
    <3>1. n + 1 \in 1..Len(entries) /\ n + 1 \in 0..Len(entries) /\ Same(n)
      BY <1>0, <2>1, <2>2
    <3>2. entries[n + 1] \in S
      BY <3>1
    <3>3. f[n + 1] = Append(f[n], entries[n + 1])
      BY <1>1, <2>1, <3>1, <3>2 DEF Keeps, StepOf
    <3> DEFINE s == f[n]
               x == entries[n + 1]
    <3>4. s \in Seq(S) /\ Len(s) = n /\ \A i \in 1..n : s[i] = entries[i]
      BY <3>1
    <3>5. x \in S /\ f[n + 1] = Append(s, x)
      BY <3>2, <3>3
    <3> HIDE DEF s
    <3>6. /\ Append(s, x) \in Seq(S) /\ Len(Append(s, x)) = n + 1
          /\ \A i \in 1..n : Append(s, x)[i] = s[i]
          /\ Append(s, x)[n + 1] = x
      BY <3>4, <3>5, AppendProperties
    <3>7. ASSUME NEW i \in 1..(n + 1) PROVE Append(s, x)[i] = entries[i]
      BY <2>1, <3>4, <3>6
    <3>8. Same(n + 1)
      BY <3>5, <3>6, <3>7, Zenon
    <3> QED BY <2>1, <3>8
  <2> QED BY <2>1, <2>2
<1>4. I = Nat
  <2>1. I \subseteq Nat
    OBVIOUS
  <2> HIDE DEF I
  <2> QED BY <1>2, <1>3, <2>1, SetInduction, Zenon
<1>5. Same(Len(entries))
  BY <1>0, <1>4
<1> QED BY <1>1, <1>5, SeqEqual

\* A new entry is kept at the end.
LEMMA KeptAppend ==
  ASSUME NEW D, NEW entries \in Seq(D), NEW x \in D, NEW S, NEW T, x \in S,
         \A i \in 1..Len(entries) : entries[i] \in S <=> entries[i] \in T
  PROVE  Kept(Append(entries, x), S) = Append(Kept(entries, T), x)
<1> DEFINE longer == Append(entries, x)
           m == Len(entries)
<1>1. /\ m \in Nat /\ longer \in Seq(D) /\ Len(longer) = m + 1 /\ longer[m + 1] = x
      /\ \A i \in 1..m : longer[i] = entries[i]
  BY AppendProperties
<1> HIDE DEF longer
<1>2. PICK f : Keeps(longer, S, f) /\ Kept(longer, S) = f[m + 1]
  <2>1. Len(longer) \in Nat
    BY <1>1
  <2> QED BY <1>1, <2>1, KeptIs
<1>3. PICK g : Keeps(entries, T, g) /\ Kept(entries, T) = g[m]
  BY <1>1, KeptIs
<1> HIDE DEF m
<1>4. f[m] = g[m]
  <2>1. Len(longer) \in Nat /\ Len(entries) \in Nat /\ m <= Len(longer) /\ m <= Len(entries)
    BY <1>1 DEF m
  <2>2. \A i \in 1..m : (longer[i] \in S <=> entries[i] \in T)
                       /\ (longer[i] \in S => longer[i] = entries[i])
    BY <1>1 DEF m
  <2>3. m \in Nat /\ Keeps(longer, S, f) /\ Keeps(entries, T, g)
    BY <1>1, <1>2, <1>3
  <2> QED BY <2>1, <2>2, <2>3, KeepsAgree
<1>5. f[m + 1] = Append(f[m], x)
  <2>1. m + 1 \in 0..Len(longer) /\ m + 1 # 0 /\ (m + 1) - 1 = m
    BY <1>1
  <2> QED BY <1>1, <1>2, <2>1 DEF Keeps, StepOf
<1> QED BY <1>2, <1>3, <1>4, <1>5 DEF longer

Once(entries, S) ==
  \A i, j \in 1..Len(entries) : entries[i] = entries[j] /\ entries[i] \in S => i = j

\* c are the entries in S among the first n entries, each once.
LiveOf(c, entries, S, n) ==
  /\ c \in Seq(S)
  /\ \A i, j \in 1..Len(c) : c[i] = c[j] => i = j
  /\ \A i \in 1..Len(c) : \E j \in 1..n : entries[j] = c[i]
  /\ \A j \in 1..n : entries[j] \in S => \E i \in 1..Len(c) : c[i] = entries[j]

LEMMA LiveStep ==
  ASSUME NEW D, NEW entries \in Seq(D), NEW S, Once(entries, S),
         NEW n \in 1..Len(entries), NEW c, LiveOf(c, entries, S, n - 1)
  PROVE  IF entries[n] \in S THEN LiveOf(Append(c, entries[n]), entries, S, n)
         ELSE LiveOf(c, entries, S, n)
<1>0. n \in Nat /\ n - 1 \in Nat /\ Len(entries) \in Nat /\ 1..n = (1..(n - 1)) \cup {n}
  OBVIOUS
<1>1. CASE entries[n] \notin S
  <2>1. \A i \in 1..Len(c) : \E j \in 1..n : entries[j] = c[i]
    BY <1>0 DEF LiveOf
  <2>2. \A j \in 1..n : entries[j] \in S => \E i \in 1..Len(c) : c[i] = entries[j]
    BY <1>0, <1>1 DEF LiveOf
  <2> QED BY <1>1, <2>1, <2>2 DEF LiveOf
<1>2. CASE entries[n] \in S
  <2> DEFINE d == Append(c, entries[n])
  <2>1. c \in Seq(S) /\ Len(c) \in Nat
    BY DEF LiveOf
  <2>2. /\ d \in Seq(S) /\ Len(d) = Len(c) + 1 /\ d[Len(c) + 1] = entries[n]
        /\ \A i \in 1..Len(c) : d[i] = c[i]
    BY <1>2, <2>1, AppendProperties
  <2> HIDE DEF d
  <2>3. \A i \in 1..Len(c) : c[i] # entries[n]
    <3> SUFFICES ASSUME NEW i \in 1..Len(c), c[i] = entries[n] PROVE FALSE
      OBVIOUS
    <3>1. PICK j \in 1..(n - 1) : entries[j] = c[i]
      BY DEF LiveOf
    <3>2. j \in 1..Len(entries) /\ n \in 1..Len(entries) /\ j # n
      BY <1>0
    <3> QED BY <1>2, <3>1, <3>2 DEF Once
  <2>4. 1..Len(d) = (1..Len(c)) \cup {Len(c) + 1}
    BY <2>1, <2>2
  <2>5. ASSUME NEW i \in 1..Len(d), NEW j \in 1..Len(d), d[i] = d[j] PROVE i = j
    <3>1. CASE i \in 1..Len(c) /\ j \in 1..Len(c)
      <4>1. d[i] = c[i] /\ d[j] = c[j]
        BY <2>2, <3>1
      <4> QED BY <2>5, <3>1, <4>1 DEF LiveOf
    <3>2. CASE i = Len(c) + 1 /\ j \in 1..Len(c)
      BY <2>2, <2>3, <2>5, <3>2
    <3>3. CASE i \in 1..Len(c) /\ j = Len(c) + 1
      BY <2>2, <2>3, <2>5, <3>3
    <3> QED BY <2>4, <3>1, <3>2, <3>3
  <2>6. ASSUME NEW i \in 1..Len(d) PROVE \E j \in 1..n : entries[j] = d[i]
    <3>1. CASE i = Len(c) + 1
      BY <1>0, <2>2, <3>1
    <3>2. CASE i \in 1..Len(c)
      <4>1. PICK j \in 1..(n - 1) : entries[j] = c[i]
        BY <3>2 DEF LiveOf
      <4> QED BY <1>0, <2>2, <3>2, <4>1
    <3> QED BY <2>4, <3>1, <3>2
  <2>7. ASSUME NEW j \in 1..n, entries[j] \in S PROVE \E i \in 1..Len(d) : d[i] = entries[j]
    <3>1. CASE j = n
      BY <2>2, <2>4, <3>1
    <3>2. CASE j \in 1..(n - 1)
      <4>1. PICK i \in 1..Len(c) : c[i] = entries[j]
        BY <2>7, <3>2 DEF LiveOf
      <4> QED BY <2>2, <2>4, <4>1
    <3> QED BY <1>0, <3>1, <3>2
  <2>8. LiveOf(d, entries, S, n)
    BY <2>2, <2>5, <2>6, <2>7 DEF LiveOf
  <2> QED BY <1>2, <2>8 DEF d
<1> QED BY <1>1, <1>2

\* Each entry in S is kept once, and nothing else.
LEMMA KeepsLive ==
  ASSUME NEW D, NEW entries \in Seq(D), NEW S, Once(entries, S), NEW f, Keeps(entries, S, f)
  PROVE  \A n \in 0..Len(entries) : LiveOf(f[n], entries, S, n)
<1>0. Len(entries) \in Nat
  OBVIOUS
<1> DEFINE I == {n \in Nat : n <= Len(entries) => LiveOf(f[n], entries, S, n)}
<1>2. 0 \in I
  <2>0. 0 \in 0..Len(entries)
    BY <1>0
  <2>1. f[0] = << >>
    BY <2>0 DEF Keeps, StepOf
  <2>2. LiveOf(<< >>, entries, S, 0)
    BY EmptySeq DEF LiveOf
  <2> QED BY <2>1, <2>2
<1>3. ASSUME NEW n \in I PROVE n + 1 \in I
  <2>1. n \in Nat /\ n + 1 \in Nat /\ n + 1 # 0 /\ (n + 1) - 1 = n
    OBVIOUS
  <2>2. CASE n + 1 <= Len(entries)
    <3>1. LiveOf(f[n], entries, S, n) /\ n + 1 \in 1..Len(entries) /\ n + 1 \in 0..Len(entries)
      BY <1>0, <2>1, <2>2
    <3>2. f[n + 1] = IF entries[n + 1] \in S THEN Append(f[n], entries[n + 1]) ELSE f[n]
      BY <2>1, <3>1 DEF Keeps, StepOf
    <3>3. IF entries[n + 1] \in S THEN LiveOf(Append(f[n], entries[n + 1]), entries, S, n + 1)
          ELSE LiveOf(f[n], entries, S, n + 1)
      BY <2>1, <3>1, LiveStep
    <3>4. LiveOf(f[n + 1], entries, S, n + 1)
      BY <3>2, <3>3, Zenon
    <3> QED BY <2>1, <3>4
  <2> QED BY <2>1, <2>2
<1>4. I = Nat
  <2>1. I \subseteq Nat
    OBVIOUS
  <2> HIDE DEF I
  <2> QED BY <1>2, <1>3, <2>1, SetInduction, Zenon
<1> QED BY <1>0, <1>4

LEMMA KeptLive ==
  ASSUME NEW D, NEW entries \in Seq(D), NEW S, Once(entries, S)
  PROVE  LiveOf(Kept(entries, S), entries, S, Len(entries))
<1>0. Len(entries) \in Nat /\ Len(entries) \in 0..Len(entries)
  OBVIOUS
<1>1. PICK f : Keeps(entries, S, f) /\ Kept(entries, S) = f[Len(entries)]
  BY <1>0, KeptIs
<1>2. LiveOf(f[Len(entries)], entries, S, Len(entries))
  BY <1>0, <1>1, KeepsLive
<1> QED BY <1>1, <1>2

\* A sequence without its place q.
Without(s, q) == [j \in 1..(Len(s) - 1) |-> IF j < q THEN s[j] ELSE s[j + 1]]

LEMMA WithoutFacts ==
  ASSUME NEW X, NEW s \in Seq(X), NEW q \in 1..Len(s)
  PROVE  /\ Without(s, q) \in Seq(X) /\ Len(Without(s, q)) = Len(s) - 1
         /\ \A j \in 1..(Len(s) - 1) : Without(s, q)[j] = IF j < q THEN s[j] ELSE s[j + 1]
<1>1. Len(s) \in Nat /\ Len(s) - 1 \in Nat
  OBVIOUS
<1>2. \A j \in 1..(Len(s) - 1) : j \in 1..Len(s) /\ j + 1 \in 1..Len(s)
  BY <1>1
<1>3. \A j \in 1..(Len(s) - 1) : (IF j < q THEN s[j] ELSE s[j + 1]) \in X
  BY <1>2, ElementOfSeq
<1>4. Without(s, q) \in Seq(X)
  BY <1>1, <1>3 DEF Without
<1>5. Len(Without(s, q)) = Len(s) - 1
  BY <1>1 DEF Without
<1> QED BY <1>4, <1>5 DEF Without

LEMMA WithoutAppend ==
  ASSUME NEW X, NEW s \in Seq(X), NEW x \in X, NEW q \in 1..(Len(s) + 1)
  PROVE  Without(Append(s, x), q) = IF q <= Len(s) THEN Append(Without(s, q), x) ELSE s
<1> DEFINE t == Append(s, x)
           u == Without(t, q)
           w == Without(s, q)
           v == Append(w, x)
<1>1. /\ Len(s) \in Nat /\ t \in Seq(X) /\ Len(t) = Len(s) + 1 /\ t[Len(s) + 1] = x
      /\ \A i \in 1..Len(s) : t[i] = s[i]
  BY AppendProperties
<1> HIDE DEF t
<1>2. u \in Seq(X) /\ Len(u) = Len(s)
      /\ \A j \in 1..Len(s) : u[j] = IF j < q THEN t[j] ELSE t[j + 1]
  <2>1. q \in 1..Len(t) /\ Len(t) - 1 = Len(s)
    BY <1>1
  <2>2. /\ u \in Seq(X) /\ Len(u) = Len(t) - 1
        /\ \A j \in 1..(Len(t) - 1) : u[j] = IF j < q THEN t[j] ELSE t[j + 1]
    BY <1>1, <2>1, WithoutFacts
  <2> QED BY <2>1, <2>2
<1>3. q \in Nat /\ q >= 1
  BY <1>1
<1> HIDE DEF u
<1>4. CASE q <= Len(s)
  <2>1. /\ w \in Seq(X) /\ Len(w) = Len(s) - 1
        /\ \A j \in 1..(Len(s) - 1) : w[j] = IF j < q THEN s[j] ELSE s[j + 1]
    <3>1. q \in 1..Len(s)
      BY <1>1, <1>3, <1>4
    <3> QED BY <3>1, WithoutFacts
  <2> HIDE DEF w
  <2>2. /\ v \in Seq(X) /\ Len(v) = Len(s) /\ v[Len(s)] = x
        /\ \A j \in 1..(Len(s) - 1) : v[j] = w[j]
    <3>1. /\ v \in Seq(X) /\ Len(v) = Len(w) + 1 /\ v[Len(w) + 1] = x
          /\ \A j \in 1..Len(w) : v[j] = w[j]
      BY <2>1, AppendProperties
    <3>2. Len(w) + 1 = Len(s)
      BY <1>1, <2>1
    <3> QED BY <2>1, <3>1, <3>2
  <2> HIDE DEF v
  <2>3. ASSUME NEW j \in 1..Len(s) PROVE u[j] = v[j]
    <3>1. CASE j = Len(s)
      <4>1. ~(j < q) /\ j + 1 = Len(s) + 1
        BY <1>1, <1>3, <1>4, <3>1
      <4> QED BY <1>1, <1>2, <2>2, <3>1, <4>1
    <3>2. CASE j # Len(s)
      <4>1. j \in 1..(Len(s) - 1) /\ j + 1 \in 1..Len(s)
        BY <1>1, <3>2
      <4>2. v[j] = IF j < q THEN s[j] ELSE s[j + 1]
        BY <2>1, <2>2, <4>1
      <4>3. t[j] = s[j] /\ t[j + 1] = s[j + 1]
        BY <1>1, <4>1
      <4> QED BY <1>2, <4>2, <4>3
    <3> QED BY <3>1, <3>2
  <2>4. u = v
    BY <1>2, <2>2, <2>3, SeqEqual
  <2> QED BY <1>4, <2>4 DEF u, v, w, t
<1>5. CASE ~(q <= Len(s))
  <2>1. ASSUME NEW j \in 1..Len(s) PROVE u[j] = s[j]
    <3>1. j < q
      BY <1>1, <1>3, <1>5
    <3> QED BY <1>1, <1>2, <3>1
  <2>2. u = s
    BY <1>2, <2>1, SeqEqual
  <2> QED BY <1>5, <2>2 DEF u, t
<1> QED BY <1>4, <1>5

\* Blotting out one place drops one entry of what is kept.
LEMMA KeptBlot ==
  ASSUME NEW D, NEW d \in Seq(D), NEW S, Once(d, S), NEW p \in 1..Len(d), d[p] \in S,
         NEW e \in Seq(D), Len(e) = Len(d), e[p] \notin S,
         \A i \in 1..Len(d) : i # p => e[i] = d[i]
  PROVE  \E q \in 1..Len(Kept(d, S)) : /\ Kept(d, S)[q] = d[p]
                                       /\ Kept(e, S \ {d[p]}) = Without(Kept(d, S), q)
<1> DEFINE T == S \ {d[p]}
<1>0. Len(d) \in Nat /\ Len(e) \in Nat /\ p \in Nat /\ p >= 1 /\ p <= Len(d) /\ p - 1 \in Nat
  OBVIOUS
<1>1. PICK f : Keeps(d, S, f) /\ Kept(d, S) = f[Len(d)]
  BY <1>0, KeptIs
<1>2. PICK g : Keeps(e, T, g) /\ Kept(e, T) = g[Len(d)]
  BY <1>0, KeptIs
<1>3. \A i \in 1..Len(d) : i # p => d[i] # d[p]
  BY DEF Once
<1>4. \A i \in 1..Len(d) : i # p => (d[i] \in S <=> e[i] \in T)
  BY <1>3
<1>5. e[p] \notin T
  OBVIOUS
<1> HIDE DEF T
<1>6. \A n \in 0..Len(d) : f[n] \in Seq(S)
  BY <1>1, KeepsLive DEF LiveOf
<1> DEFINE q == Len(f[p - 1]) + 1
<1>7. f[p - 1] = g[p - 1]
  <2>1. p - 1 <= Len(d) /\ p - 1 <= Len(e)
    BY <1>0
  <2>2. \A i \in 1..(p - 1) : i \in 1..Len(d) /\ i # p
    BY <1>0
  <2>3. \A i \in 1..(p - 1) : (d[i] \in S <=> e[i] \in T) /\ (d[i] \in S => d[i] = e[i])
    BY <1>4, <2>2
  <2> QED BY <1>0, <1>1, <1>2, <2>1, <2>3, KeepsAgree
<1>8. f[p] = Append(f[p - 1], d[p]) /\ g[p] = f[p - 1]
  <2>1. p \in 0..Len(d) /\ p \in 0..Len(e) /\ p # 0
    BY <1>0
  <2> QED BY <1>1, <1>2, <1>5, <1>7, <2>1 DEF Keeps, StepOf
<1>9. f[p - 1] \in Seq(S) /\ Len(f[p - 1]) \in Nat /\ q \in Nat
  <2>1. p - 1 \in 0..Len(d)
    BY <1>0
  <2>2. f[p - 1] \in Seq(S)
    BY <1>6, <2>1
  <2> QED BY <2>2
<1> HIDE DEF q
<1> DEFINE Has(n) == q \in 1..Len(f[n]) /\ f[n][q] = d[p] /\ g[n] = Without(f[n], q)
           I == {n \in Nat : p + n <= Len(d) => Has(p + n)}
<1>10. 0 \in I
  <2> DEFINE s == f[p - 1]
  <2>1. s \in Seq(S) /\ Len(s) \in Nat /\ q = Len(s) + 1 /\ d[p] \in S
    BY <1>9 DEF q
  <2>2. f[p] = Append(s, d[p]) /\ g[p] = s
    BY <1>8
  <2> HIDE DEF s
  <2>3. Len(f[p]) = q /\ f[p][q] = d[p]
    BY <2>1, <2>2, AppendProperties
  <2>4. Without(f[p], q) = s
    <3>1. q \in 1..(Len(s) + 1) /\ ~(q <= Len(s))
      BY <2>1
    <3>2. Without(Append(s, d[p]), q) = IF q <= Len(s) THEN Append(Without(s, q), d[p]) ELSE s
      BY <2>1, <3>1, WithoutAppend
    <3> QED BY <2>2, <3>1, <3>2
  <2>5. Has(p)
    BY <2>1, <2>2, <2>3, <2>4
  <2>6. p + 0 = p
    BY <1>0
  <2> QED BY <2>5, <2>6
<1>11. ASSUME NEW n \in I PROVE n + 1 \in I
  <2> DEFINE m == p + n
  <2>1. n \in Nat /\ n + 1 \in Nat /\ m \in Nat /\ p + (n + 1) = m + 1 /\ (m + 1) - 1 = m
        /\ m + 1 # 0 /\ m + 1 # p
    BY <1>0
  <2>2. CASE m + 1 <= Len(d)
    <3>1. Has(m) /\ m + 1 \in 1..Len(d) /\ m + 1 \in 0..Len(d) /\ m + 1 \in 0..Len(e)
          /\ m \in 0..Len(d)
      BY <1>0, <2>1, <2>2
    <3> HIDE DEF m
    <3>2. f[m + 1] = IF d[m + 1] \in S THEN Append(f[m], d[m + 1]) ELSE f[m]
      BY <1>1, <2>1, <3>1 DEF Keeps, StepOf
    <3>3. g[m + 1] = IF e[m + 1] \in T THEN Append(g[m], e[m + 1]) ELSE g[m]
      BY <1>2, <2>1, <3>1 DEF Keeps, StepOf
    <3>4. e[m + 1] = d[m + 1] /\ (d[m + 1] \in S <=> e[m + 1] \in T)
      BY <1>4, <2>1, <3>1
    <3>5. CASE d[m + 1] \notin S
      <4>1. f[m + 1] = f[m] /\ g[m + 1] = g[m]
        BY <3>2, <3>3, <3>4, <3>5, Zenon
      <4>2. Has(m + 1)
        BY <3>1, <4>1, Zenon
      <4> QED BY <2>1, <4>2
    <3>6. CASE d[m + 1] \in S
      <4> DEFINE s == f[m]
                 x == d[m + 1]
      <4>1. f[m + 1] = Append(s, x) /\ g[m + 1] = Append(g[m], x) /\ x \in S
        BY <3>2, <3>3, <3>4, <3>6, Zenon
      <4>2. s \in Seq(S) /\ q \in 1..Len(s) /\ s[q] = d[p] /\ g[m] = Without(s, q)
        BY <1>6, <3>1, Zenon
      <4> HIDE DEF s, x
      <4>3. /\ Len(s) \in Nat /\ Len(Append(s, x)) = Len(s) + 1
            /\ \A i \in 1..Len(s) : Append(s, x)[i] = s[i]
        BY <4>1, <4>2, AppendProperties
      <4>4. q \in 1..(Len(s) + 1) /\ q <= Len(s) /\ q \in 1..Len(Append(s, x))
        BY <4>2, <4>3
      <4>5. Without(Append(s, x), q) = IF q <= Len(s) THEN Append(Without(s, q), x) ELSE s
        BY <4>1, <4>2, <4>4, WithoutAppend
      <4>6. /\ q \in 1..Len(f[m + 1]) /\ f[m + 1][q] = d[p]
            /\ g[m + 1] = Without(f[m + 1], q)
        BY <4>1, <4>2, <4>3, <4>4, <4>5, Zenon
      <4> QED BY <2>1, <4>6
    <3> QED BY <3>5, <3>6
  <2> QED BY <2>1, <2>2
<1>12. I = Nat
  <2>1. I \subseteq Nat
    OBVIOUS
  <2> HIDE DEF I
  <2> QED BY <1>10, <1>11, <2>1, SetInduction, Zenon
<1>13. Has(Len(d))
  <2> DEFINE last == Len(d)
  <2>3. last \in Nat /\ p \in Nat /\ p <= last
    BY <1>0
  <2> HIDE DEF last
  <2>1. last - p \in Nat /\ p + (last - p) = last /\ p + (last - p) <= last
    BY <2>3
  <2>2. ASSUME NEW n \in Nat, p + n = last, p + n <= last PROVE Has(last)
    BY <1>12, <2>2 DEF last
  <2>4. Has(last)
    BY <2>1, <2>2
  <2> QED BY <2>4 DEF last
<1>14. /\ q \in 1..Len(Kept(d, S)) /\ Kept(d, S)[q] = d[p]
       /\ Kept(e, T) = Without(Kept(d, S), q)
  BY <1>1, <1>2, <1>13, Zenon
<1> QED BY <1>14, Zenon DEF T

Bounded == IsFiniteSet(Stored) /\ Cardinality(Stored) <= MaxRows

IInv == Bounded /\ PendingPresent

\* What putting and dropping a key do to the stored keys.
LEMMA StoredAfter ==
  ASSUME NEW k
  PROVE /\ \A v : rows' = Put(rows, k, v) => Stored' = Stored \cup {k}
        /\ rows' = Drop(rows, k) => Stored' = Stored \ {k}
<1>1. ASSUME NEW v, rows' = Put(rows, k, v) PROVE Stored' = Stored \cup {k}
  BY <1>1 DEF Put, Stored
<1>2. ASSUME rows' = Drop(rows, k) PROVE Stored' = Stored \ {k}
  BY <1>2 DEF Drop, Restrict, Stored
<1> QED BY <1>1, <1>2

LEMMA InitInv == Init => IInv
<1>1. Init => Stored = {} /\ pending = {}
  BY DEF Init, Stored
<1>2. IsFiniteSet({}) /\ Cardinality({}) = 0
  BY FS_EmptySet
<1> QED BY <1>1, <1>2, LimitsAreNat DEF IInv, Bounded, PendingPresent

\* A row that is refused changes nothing.
LEMMA RefusalKeeps ==
  ASSUME IInv, NEW why, Fail(why)
  PROVE IInv'
BY DEF IInv, Bounded, PendingPresent, Fail, Stored

\* INSERT: the row is new, there is room for it, and no update of it pends.
LEMMA InsertKeeps ==
  ASSUME IInv, NEW k \in Keys, NEW v \in Values, Insert(k, v)
  PROVE IInv'
<1>1. CASE \E why : Fail(why)
  BY <1>1, RefusalKeeps
<1>2. CASE /\ k \notin Stored \cup pending /\ Cardinality(Stored) < MaxRows
           /\ rows' = Put(rows, k, v) /\ UNCHANGED pending
  <2>1. Stored' = Stored \cup {k}
    BY <1>2, StoredAfter
  <2>2. /\ IsFiniteSet(Stored') /\ Cardinality(Stored') = Cardinality(Stored) + 1
        /\ Cardinality(Stored) \in Nat
    BY <1>2, <2>1, FS_AddElement, FS_CardinalityType DEF IInv, Bounded
  <2> QED BY <1>2, <2>1, <2>2, LimitsAreNat DEF IInv, Bounded, PendingPresent
<1> QED BY <1>1, <1>2 DEF Insert

\* UPDATE_BEFORE and UPDATE_AFTER: the row exists and stays.
LEMMA UpdateKeeps ==
  ASSUME IInv, NEW k \in Keys, NEW v \in Values, Before(k, v) \/ After(k, v)
  PROVE IInv'
<1>1. CASE \E why : Fail(why)
  BY <1>1, RefusalKeeps
<1>2. CASE k \in Stored /\ pending' = pending \cup {k} /\ UNCHANGED rows
  BY <1>2 DEF IInv, Bounded, PendingPresent, Stored
<1>3. CASE k \in Stored /\ rows' = Put(rows, k, v) /\ pending' = pending \ {k}
  <2>1. Stored' = Stored
    BY <1>3, StoredAfter
  <2> QED BY <1>3, <2>1 DEF IInv, Bounded, PendingPresent
<1> QED BY <1>1, <1>2, <1>3 DEF Before, After

\* DELETE: the row goes, but not while an update of it pends.
LEMMA DeleteKeeps ==
  ASSUME IInv, NEW k \in Keys, Delete(k)
  PROVE IInv'
<1>1. CASE \E why : Fail(why)
  BY <1>1, RefusalKeeps
<1>2. CASE k \in Stored /\ k \notin pending /\ rows' = Drop(rows, k) /\ UNCHANGED pending
  <2>1. Stored' = Stored \ {k}
    BY <1>2, StoredAfter
  <2>2. IsFiniteSet(Stored') /\ Cardinality(Stored') <= Cardinality(Stored)
    BY <2>1, FS_Subset DEF IInv, Bounded
  <2>3. Cardinality(Stored) \in Nat /\ Cardinality(Stored') \in Nat
    BY <2>2, FS_CardinalityType DEF IInv, Bounded
  <2> QED BY <1>2, <2>1, <2>2, <2>3, LimitsAreNat DEF IInv, Bounded, PendingPresent
<1> QED BY <1>1, <1>2 DEF Delete

LEMMA ApplyUpdateKeeps ==
  ASSUME IInv, NEW k \in Keys, NEW old \in Values, NEW new \in Values, ApplyUpdate(k, old, new)
  PROVE IInv'
<1>1. CASE \E why : Fail(why)
  BY <1>1, RefusalKeeps
<1>2. CASE k \in Stored /\ rows' = Put(rows, k, new) /\ UNCHANGED pending
  <2>1. Stored' = Stored
    BY <1>2, StoredAfter
  <2> QED BY <1>2, <2>1 DEF IInv, Bounded, PendingPresent
<1> QED BY <1>1, <1>2 DEF ApplyUpdate

LEMMA TypeInit == Init => TypeOK
<1> SUFFICES ASSUME Init PROVE TypeOK
  OBVIOUS
<1>1. Stored = {} /\ DOMAIN orderIndex = {}
  BY DEF Init, Stored
<1> QED BY <1>1 DEF Init, TypeOK

\* The index of a key that is removed goes, whether the order is compacted
\* or not (changelog/materializer.go removeOrder).
LEMMA RemovedFromIndex ==
  ASSUME TypeOK, NEW k, RemoveOrder(k)
  PROVE DOMAIN orderIndex' = Stored \ {k} /\ tombstones' \in Nat
<1>1. DOMAIN Drop(orderIndex, k) = Stored \ {k}
  BY DEF TypeOK, Drop, Restrict
<1>2. \A entries : DOMAIN Reindexed(Drop(orderIndex, k), entries) = Stored \ {k}
  BY <1>1 DEF Reindexed
<1>3. orderIndex' = Drop(orderIndex, k)
        \/ \E entries : orderIndex' = Reindexed(Drop(orderIndex, k), entries)
  BY DEF RemoveOrder
<1>4. tombstones' \in {0, tombstones + 1}
  BY DEF RemoveOrder
<1> QED BY <1>1, <1>2, <1>3, <1>4 DEF TypeOK

LEMMA TypeStep == TypeOK /\ [Next]_vars => TypeOK'
<1> SUFFICES ASSUME TypeOK, [Next]_vars PROVE TypeOK'
  OBVIOUS
<1>1. ASSUME NEW why \in {"duplicate", "maxRows", "notFound", "order", "key", "kind"}, Fail(why)
      PROVE TypeOK'
  BY <1>1 DEF TypeOK, Fail, orderVars, Stored
<1>2. ASSUME NEW k \in Keys, NEW v \in Values, rows' = Put(rows, k, v), reply' = "ok",
             DOMAIN orderIndex' = Stored \cup {k}, UNCHANGED tombstones,
             pending' \subseteq Keys
      PROVE TypeOK'
  <2>1. Stored' = Stored \cup {k}
    BY <1>2, StoredAfter
  <2>2. \A x \in Stored' : rows'[x] \in Values
    BY <1>2, <2>1 DEF Put, TypeOK, Stored
  <2> QED BY <1>2, <2>1, <2>2 DEF TypeOK
<1>3. ASSUME NEW k \in Keys, NEW v \in Values, Insert(k, v) PROVE TypeOK'
  <2>1. CASE \E why \in {"duplicate", "maxRows"} : Fail(why)
    BY <1>1, <2>1
  <2>2. CASE /\ rows' = Put(rows, k, v) /\ orderIndex' = Put(orderIndex, k, Len(order) + 1)
             /\ reply' = "ok" /\ UNCHANGED << tombstones, pending >>
    BY <1>2, <2>2 DEF Put, TypeOK
  <2> QED BY <1>3, <2>1, <2>2 DEF Insert
<1>4. ASSUME NEW k \in Keys, NEW v \in Values, Before(k, v) PROVE TypeOK'
  <2>1. CASE \E why \in {"notFound", "order"} : Fail(why)
    BY <1>1, <2>1
  <2>2. CASE pending' = pending \cup {k} /\ reply' = "ok" /\ UNCHANGED << rows, orderVars >>
    BY <2>2 DEF TypeOK, orderVars, Stored
  <2> QED BY <1>4, <2>1, <2>2 DEF Before
<1>5. ASSUME NEW k \in Keys, NEW v \in Values, After(k, v) PROVE TypeOK'
  <2>1. CASE \E why \in {"notFound", "order"} : Fail(why)
    BY <1>1, <2>1
  <2>2. CASE /\ k \in Stored /\ rows' = Put(rows, k, v) /\ pending' = pending \ {k}
             /\ reply' = "ok" /\ UNCHANGED orderVars
    BY <1>2, <2>2 DEF TypeOK, orderVars
  <2> QED BY <1>5, <2>1, <2>2 DEF After
<1>6. ASSUME NEW k \in Keys, Delete(k) PROVE TypeOK'
  <2>1. CASE \E why \in {"notFound", "order"} : Fail(why)
    BY <1>1, <2>1
  <2>2. CASE rows' = Drop(rows, k) /\ RemoveOrder(k) /\ reply' = "ok" /\ UNCHANGED pending
    <3>1. Stored' = Stored \ {k}
      BY <2>2, StoredAfter
    <3>2. \A x \in Stored' : rows'[x] \in Values
      BY <2>2, <3>1 DEF Drop, Restrict, TypeOK, Stored
    <3> QED BY <2>2, <3>1, <3>2, RemovedFromIndex DEF TypeOK
  <2> QED BY <1>6, <2>1, <2>2 DEF Delete
<1>7. ASSUME NEW k \in Keys, NEW old \in Values, NEW new \in Values, ApplyUpdate(k, old, new)
      PROVE TypeOK'
  <2>1. CASE \E why \in {"notFound", "order"} : Fail(why)
    BY <1>1, <2>1
  <2>2. CASE /\ k \in Stored /\ rows' = Put(rows, k, new) /\ reply' = "ok"
             /\ UNCHANGED << orderVars, pending >>
    BY <1>2, <2>2 DEF TypeOK, orderVars
  <2> QED BY <1>7, <2>1, <2>2 DEF ApplyUpdate
<1>8. CASE RollbackPending \/ UNCHANGED vars
  BY <1>8 DEF RollbackPending, vars, orderVars, TypeOK, Stored
<1>9. CASE Malformed
  BY <1>1, <1>9 DEF Malformed
<1> QED BY <1>3, <1>4, <1>5, <1>6, <1>7, <1>8, <1>9 DEF Next

LEMMA Inductive == IInv /\ [Next]_vars => IInv'
<1> SUFFICES ASSUME IInv, [Next]_vars PROVE IInv'
  OBVIOUS
<1>1. ASSUME NEW k \in Keys, NEW v \in Values, Insert(k, v) \/ Before(k, v) \/ After(k, v)
      PROVE IInv'
  BY <1>1, InsertKeeps, UpdateKeeps
<1>2. ASSUME NEW k \in Keys, Delete(k) PROVE IInv'
  BY <1>2, DeleteKeeps
<1>3. ASSUME NEW k \in Keys, NEW old \in Values, NEW new \in Values, ApplyUpdate(k, old, new)
      PROVE IInv'
  BY <1>3, ApplyUpdateKeeps
<1>4. CASE RollbackPending \/ UNCHANGED vars
  BY <1>4 DEF RollbackPending, vars, IInv, Bounded, PendingPresent, Stored
<1>5. CASE Malformed
  BY <1>5, RefusalKeeps DEF Malformed
<1> QED BY <1>1, <1>2, <1>3, <1>4, <1>5 DEF Next

LEMMA Invariance == Spec => []IInv
<1> QED BY InitInv, Inductive, PTL DEF Spec

(***************************************************************************)
(* The order array                                                         *)
(***************************************************************************)
Tombs(entries) == {i \in 1..Len(entries) : entries[i] = Tombstone}

\* The array and the index of the keys S describe each other.
Describes(S, entries, index) ==
  /\ entries \in Seq(Keys \cup {Tombstone})
  /\ \A k \in S : index[k] \in 1..Len(entries) /\ entries[index[k]] = k
  /\ \A i \in 1..Len(entries) :
       entries[i] # Tombstone => entries[i] \in S /\ index[entries[i]] = i

\* The array has a place for each row and for each tombstone.
Counted(S, entries, t) ==
  /\ IsFiniteSet(Tombs(entries)) /\ t = Cardinality(Tombs(entries))
  /\ Len(entries) = Cardinality(S) + t

Compact(t, entries) == t <= CompactAbove \/ 2 * t <= Len(entries)

OrderInv ==
  /\ Describes(Stored, order, orderIndex)
  /\ Counted(Stored, order, tombstones)
  /\ Compact(tombstones, order)

LEMMA OrderInit == Init => OrderInv
<1> SUFFICES ASSUME Init PROVE OrderInv
  OBVIOUS
<1>1. Stored = {} /\ order = << >> /\ tombstones = 0 /\ Len(order) = 0
  BY DEF Init, Stored
<1>2. order \in Seq(Keys \cup {Tombstone})
  BY <1>1
<1>3. Tombs(order) = {}
  BY <1>1 DEF Tombs
<1>4. Cardinality({}) = 0 /\ IsFiniteSet({})
  BY FS_EmptySet
<1>5. Describes(Stored, order, orderIndex)
  BY <1>1, <1>2 DEF Describes
<1>6. Counted(Stored, order, tombstones)
  BY <1>1, <1>3, <1>4 DEF Counted
<1>7. Compact(tombstones, order)
  BY <1>1, LimitsAreNat DEF Compact
<1> QED BY <1>5, <1>6, <1>7 DEF OrderInv

\* A new row takes a place of its own at the end.
LEMMA OrderInsert ==
  ASSUME TypeOK, IInv, OrderInv, NEW k \in Keys, NEW v \in Values, k \notin Stored,
         rows' = Put(rows, k, v), order' = Append(order, k),
         orderIndex' = Put(orderIndex, k, Len(order) + 1), tombstones' = tombstones
  PROVE  OrderInv'
<1>1. /\ order \in Seq(Keys \cup {Tombstone}) /\ Len(order) \in Nat
      /\ k \in Keys \cup {Tombstone} /\ k # Tombstone
  BY TombstoneIsNoKey DEF OrderInv, Describes
<1>2. /\ order' \in Seq(Keys \cup {Tombstone}) /\ Len(order') = Len(order) + 1
      /\ order'[Len(order) + 1] = k /\ \A i \in 1..Len(order) : order'[i] = order[i]
      /\ 1..Len(order') = (1..Len(order)) \cup {Len(order) + 1}
  BY <1>1
<1>3. Stored' = Stored \cup {k} /\ DOMAIN orderIndex = Stored
  BY StoredAfter DEF TypeOK
<1>4. orderIndex'[k] = Len(order) + 1 /\ \A x \in Stored : orderIndex'[x] = orderIndex[x]
  BY <1>3 DEF Put
<1>5. Describes(Stored', order', orderIndex')
  <2>1. ASSUME NEW x \in Stored'
        PROVE  orderIndex'[x] \in 1..Len(order') /\ order'[orderIndex'[x]] = x
    BY <1>2, <1>3, <1>4 DEF OrderInv, Describes
  <2>2. ASSUME NEW i \in 1..Len(order'), order'[i] # Tombstone
        PROVE  order'[i] \in Stored' /\ orderIndex'[order'[i]] = i
    BY <1>2, <1>3, <1>4, <2>2 DEF OrderInv, Describes
  <2> QED BY <1>2, <2>1, <2>2 DEF Describes
<1>6. Tombs(order') = Tombs(order)
  BY <1>1, <1>2 DEF Tombs
<1>7. Cardinality(Stored') = Cardinality(Stored) + 1 /\ Cardinality(Stored) \in Nat
  BY <1>3, FS_AddElement, FS_CardinalityType DEF IInv, Bounded
<1>8. tombstones \in Nat /\ Len(order') = Cardinality(Stored') + tombstones
  BY <1>2, <1>7 DEF OrderInv, Counted, TypeOK
<1>9. Counted(Stored', order', tombstones')
  BY <1>6, <1>8 DEF OrderInv, Counted
<1>10. Compact(tombstones', order')
  BY <1>1, <1>2, <1>8, LimitsAreNat DEF OrderInv, Compact
<1> QED BY <1>5, <1>9, <1>10 DEF OrderInv

\* removeOrder before it compacts: the place of the key holds a tombstone.
LEMMA OrderBlot ==
  ASSUME TypeOK, IInv, OrderInv, NEW k \in Stored,
         NEW entries, entries = [order EXCEPT ![orderIndex[k]] = Tombstone]
  PROVE  /\ Describes(Stored \ {k}, entries, Drop(orderIndex, k))
         /\ Counted(Stored \ {k}, entries, tombstones + 1)
         /\ Len(entries) = Len(order)
<1> DEFINE p == orderIndex[k]
<1>1. /\ order \in Seq(Keys \cup {Tombstone}) /\ Len(order) \in Nat
      /\ p \in 1..Len(order) /\ order[p] = k /\ k # Tombstone
  BY TombstoneIsNoKey DEF OrderInv, Describes, TypeOK
<1>2. /\ entries \in Seq(Keys \cup {Tombstone}) /\ Len(entries) = Len(order)
      /\ \A j \in 1..Len(order) : entries[j] = IF j = p THEN Tombstone ELSE order[j]
  BY <1>1, ExceptSeq
<1> HIDE DEF p
<1>3. DOMAIN orderIndex = Stored
  BY DEF TypeOK
<1>4. \A x \in Stored \ {k} : Drop(orderIndex, k)[x] = orderIndex[x]
  BY <1>3 DEF Drop, Restrict
<1>5. Describes(Stored \ {k}, entries, Drop(orderIndex, k))
  <2>1. ASSUME NEW x \in Stored \ {k}
        PROVE  Drop(orderIndex, k)[x] \in 1..Len(entries) /\ entries[Drop(orderIndex, k)[x]] = x
    <3>1. orderIndex[x] \in 1..Len(order) /\ order[orderIndex[x]] = x
      BY DEF OrderInv, Describes
    <3> QED BY <1>1, <1>2, <1>4, <3>1
  <2>2. ASSUME NEW i \in 1..Len(entries), entries[i] # Tombstone
        PROVE  entries[i] \in Stored \ {k} /\ Drop(orderIndex, k)[entries[i]] = i
    <3>1. i \in 1..Len(order) /\ i # p /\ entries[i] = order[i]
      BY <1>2, <2>2
    <3>2. order[i] \in Stored /\ orderIndex[order[i]] = i
      BY <2>2, <3>1 DEF OrderInv, Describes
    <3>3. order[i] # k
      BY <3>1, <3>2 DEF p
    <3> QED BY <1>4, <3>1, <3>2, <3>3
  <2> QED BY <1>2, <2>1, <2>2 DEF Describes
<1>6. Tombs(entries) = Tombs(order) \cup {p} /\ p \notin Tombs(order)
  <2>1. ASSUME NEW i PROVE i \in Tombs(entries) <=> i = p \/ i \in Tombs(order)
    <3>1. CASE i = p
      BY <1>1, <1>2, <3>1 DEF Tombs
    <3>2. CASE i # p
      BY <1>2, <3>2 DEF Tombs
    <3> QED BY <3>1, <3>2
  <2>2. p \notin Tombs(order)
    BY <1>1 DEF Tombs
  <2> QED BY <2>1, <2>2
<1>7. /\ IsFiniteSet(Tombs(entries))
      /\ Cardinality(Tombs(entries)) = Cardinality(Tombs(order)) + 1
  <2> DEFINE X == Tombs(order)
  <2>1. IsFiniteSet(X)
    BY DEF OrderInv, Counted
  <2>2. Tombs(entries) = X \cup {p} /\ p \notin X
    BY <1>6
  <2> HIDE DEF X
  <2>3. IsFiniteSet(X \cup {p}) /\ Cardinality(X \cup {p}) = Cardinality(X) + 1
    BY <2>1, <2>2, FS_AddElement
  <2>4. IsFiniteSet(Tombs(entries)) /\ Cardinality(Tombs(entries)) = Cardinality(X) + 1
    BY <2>2, <2>3, Zenon
  <2> QED BY <2>4, Zenon DEF X
<1>8. Cardinality(Stored \ {k}) = Cardinality(Stored) - 1 /\ Cardinality(Stored) \in Nat
  BY FS_RemoveElement, FS_CardinalityType DEF IInv, Bounded
<1>9. tombstones \in Nat /\ Len(order) = Cardinality(Stored) + tombstones
      /\ tombstones = Cardinality(Tombs(order))
  BY DEF OrderInv, Counted, TypeOK
<1>10. Len(entries) = Cardinality(Stored \ {k}) + (tombstones + 1)
  BY <1>2, <1>8, <1>9
<1>11. Counted(Stored \ {k}, entries, tombstones + 1)
  BY <1>7, <1>9, <1>10 DEF Counted
<1> QED BY <1>2, <1>5, <1>11

\* A sequence that holds each element of S once is as long as S is large.
LEMMA PlacesCount ==
  ASSUME NEW S, NEW c \in Seq(S), \A i, j \in 1..Len(c) : c[i] = c[j] => i = j,
         \A k \in S : \E i \in 1..Len(c) : c[i] = k
  PROVE  Cardinality(S) = Len(c) /\ IsFiniteSet(S)
<1> DEFINE f == [i \in 1..Len(c) |-> c[i]]
<1>0. Len(c) \in Nat
  OBVIOUS
<1>1. f \in Bijection(1..Len(c), S)
  <2>1. f \in [1..Len(c) -> S]
    BY ElementOfSeq
  <2>2. \A i, j \in 1..Len(c) : f[i] = f[j] => i = j
    OBVIOUS
  <2>3. \A k \in S : \E i \in 1..Len(c) : f[i] = k
    OBVIOUS
  <2>4. DOMAIN f = 1..Len(c)
    OBVIOUS
  <2> HIDE DEF f
  <2>5. IsInjective(f)
    BY <2>2, <2>4 DEF IsInjective
  <2>6. f \in Injection(1..Len(c), S)
    BY <2>1, <2>5 DEF Injection
  <2>7. f \in Surjection(1..Len(c), S)
    BY <2>1, <2>3 DEF Surjection
  <2> QED BY <2>6, <2>7 DEF Bijection
<1>2. ExistsBijection(1..Len(c), S)
  BY <1>1 DEF ExistsBijection
<1> DEFINE places == 1..Len(c)
<1>3. IsFiniteSet(places) /\ Cardinality(places) = Len(c) /\ ExistsBijection(places, S)
  BY <1>0, <1>2, FS_Interval
<1> HIDE DEF places
<1>4. IsFiniteSet(S) /\ Cardinality(S) = Cardinality(places)
  BY ONLY <1>3, FS_Bijection
<1> QED BY <1>3, <1>4

\* The entries that are no tombstones are the described keys.
LEMMA LiveAreDescribed ==
  ASSUME NEW S, S \subseteq Keys, NEW entries, NEW index, Describes(S, entries, index)
  PROVE  /\ Len(entries) \in Nat /\ Compacted(entries) = Kept(entries, S)
         /\ LiveOf(Kept(entries, S), entries, S, Len(entries))
         /\ Once(entries, S)
         /\ \A k \in S : \E i \in 1..Len(Kept(entries, S)) : Kept(entries, S)[i] = k
<1>1. entries \in Seq(Keys \cup {Tombstone}) /\ Len(entries) \in Nat
      /\ DOMAIN entries = 1..Len(entries)
  BY DEF Describes
<1>2. \A i \in 1..Len(entries) : entries[i] \in S <=> entries[i] # Tombstone
  BY TombstoneIsNoKey DEF Describes
<1>3. \A i \in 1..Len(entries) :
        entries[i] \in Range(entries) \ {Tombstone} <=> entries[i] \in S
  BY <1>1, <1>2 DEF Range
<1>4. Compacted(entries) = Kept(entries, S)
  BY <1>1, <1>3, KeptSame DEF Compacted
<1>5. Once(entries, S)
  BY TombstoneIsNoKey DEF Describes, Once
<1>6. LiveOf(Kept(entries, S), entries, S, Len(entries))
  BY <1>1, <1>5, KeptLive
<1>7. ASSUME NEW k \in S PROVE \E i \in 1..Len(Kept(entries, S)) : Kept(entries, S)[i] = k
  <2>1. index[k] \in 1..Len(entries) /\ entries[index[k]] = k
    BY DEF Describes
  <2> QED BY <1>6, <2>1 DEF LiveOf
<1> QED BY <1>1, <1>4, <1>5, <1>6, <1>7

\* compactOrderLocked: the live keys keep one place each and the index finds it.
LEMMA OrderCompacted ==
  ASSUME NEW S, S \subseteq Keys, NEW entries, NEW index, DOMAIN index = S,
         Describes(S, entries, index)
  PROVE  /\ Describes(S, Compacted(entries), Reindexed(index, Compacted(entries)))
         /\ Counted(S, Compacted(entries), 0)
<1> DEFINE c == Compacted(entries)
<1>1. LiveOf(c, entries, S, Len(entries))
  BY LiveAreDescribed
<1>2. \A k \in S : \E i \in 1..Len(c) : c[i] = k
  BY LiveAreDescribed
<1> HIDE DEF c
<1>3. /\ c \in Seq(S) /\ Len(c) \in Nat /\ DOMAIN c = 1..Len(c)
      /\ \A i \in 1..Len(c) : c[i] \in S /\ c[i] \in Keys /\ c[i] # Tombstone
  <2>1. c \in Seq(S)
    BY <1>1 DEF LiveOf
  <2>2. \A i \in 1..Len(c) : c[i] \in S
    BY <2>1, ElementOfSeq
  <2>3. \A k \in S : k \in Keys /\ k # Tombstone
    BY TombstoneIsNoKey
  <2> QED BY <2>1, <2>2, <2>3
<1>4. c \in Seq(Keys \cup {Tombstone})
  BY <1>3
<1>5. \A i, j \in 1..Len(c) : c[i] = c[j] => i = j
  BY <1>1 DEF LiveOf
<1>6. \A k \in S : Reindexed(index, c)[k] \in 1..Len(c) /\ c[Reindexed(index, c)[k]] = k
  BY <1>2, <1>3 DEF Reindexed
<1>7. Describes(S, c, Reindexed(index, c))
  <2>1. ASSUME NEW i \in 1..Len(c) PROVE Reindexed(index, c)[c[i]] = i
    BY <1>3, <1>5, <1>6
  <2> QED BY <1>3, <1>4, <1>6, <2>1 DEF Describes
<1>8. Tombs(c) = {}
  BY <1>3 DEF Tombs
<1>9. Cardinality(S) = Len(c)
  <2>1. Cardinality(S) = Len(c) /\ IsFiniteSet(S)
    BY <1>2, <1>3, <1>5, PlacesCount
  <2> QED BY <2>1
<1>10. Counted(S, c, 0)
  BY <1>3, <1>8, <1>9, FS_EmptySet DEF Counted
<1> QED BY <1>7, <1>10 DEF c

LEMMA OrderDelete ==
  ASSUME TypeOK, IInv, OrderInv, NEW k \in Stored, rows' = Drop(rows, k), RemoveOrder(k)
  PROVE  OrderInv'
<1> DEFINE entries == [order EXCEPT ![orderIndex[k]] = Tombstone]
           index == Drop(orderIndex, k)
           compact == tombstones + 1 > CompactAbove /\ (tombstones + 1) * 2 > Len(entries)
<1>1. Stored' = Stored \ {k}
  BY StoredAfter
<1>2. /\ Describes(Stored \ {k}, entries, index)
      /\ Counted(Stored \ {k}, entries, tombstones + 1)
      /\ Len(entries) = Len(order)
  BY OrderBlot
<1>3. /\ order' = IF compact THEN Compacted(entries) ELSE entries
      /\ orderIndex' = IF compact THEN Reindexed(index, Compacted(entries)) ELSE index
      /\ tombstones' = IF compact THEN 0 ELSE tombstones + 1
  BY DEF RemoveOrder
<1>4. DOMAIN index = Stored \ {k} /\ Stored \ {k} \subseteq Keys
  BY DEF TypeOK, Drop, Restrict
<1>5. tombstones \in Nat
  BY DEF TypeOK
<1>6. Len(entries) \in Nat
  BY <1>2 DEF Describes
<1> HIDE DEF entries, index
<1>7. CASE compact
  <2>1. /\ Describes(Stored \ {k}, Compacted(entries), Reindexed(index, Compacted(entries)))
        /\ Counted(Stored \ {k}, Compacted(entries), 0)
    BY <1>2, <1>4, OrderCompacted
  <2>2. Compact(0, Compacted(entries))
    BY LimitsAreNat DEF Compact
  <2>3. /\ order' = Compacted(entries) /\ orderIndex' = Reindexed(index, Compacted(entries))
        /\ tombstones' = 0
    BY <1>3, <1>7, Zenon
  <2>4. Describes(Stored', order', orderIndex')
    BY <1>1, <2>1, <2>3, Zenon
  <2>5. Counted(Stored', order', tombstones') /\ Compact(tombstones', order')
    BY <1>1, <2>1, <2>2, <2>3, Zenon
  <2> QED BY <2>4, <2>5 DEF OrderInv
<1>8. CASE ~compact
  <2>1. Compact(tombstones + 1, entries)
    BY <1>5, <1>6, <1>8, LimitsAreNat DEF Compact
  <2>2. order' = entries /\ orderIndex' = index /\ tombstones' = tombstones + 1
    BY <1>3, <1>8, Zenon
  <2>4. Describes(Stored', order', orderIndex')
    BY <1>1, <1>2, <2>2, Zenon
  <2>5. Counted(Stored', order', tombstones') /\ Compact(tombstones', order')
    BY <1>1, <1>2, <2>1, <2>2, Zenon
  <2> QED BY <2>4, <2>5 DEF OrderInv
<1> QED BY <1>7, <1>8

LEMMA OrderSame ==
  ASSUME OrderInv, UNCHANGED orderVars, Stored' = Stored
  PROVE  OrderInv'
<1>1. order' = order /\ orderIndex' = orderIndex /\ tombstones' = tombstones
  BY DEF orderVars
<1> QED BY <1>1 DEF OrderInv

LEMMA OrderStep ==
  ASSUME TypeOK, IInv, OrderInv, [Next]_vars
  PROVE  OrderInv'
<1>1. ASSUME NEW why, Fail(why) PROVE OrderInv'
  BY <1>1, OrderSame DEF Fail, Stored
<1>2. ASSUME NEW k \in Keys, NEW v \in Values, Insert(k, v) PROVE OrderInv'
  <2>1. CASE \E why : Fail(why)
    BY <1>1, <2>1
  <2>2. CASE /\ k \notin Stored /\ rows' = Put(rows, k, v) /\ order' = Append(order, k)
             /\ orderIndex' = Put(orderIndex, k, Len(order) + 1) /\ tombstones' = tombstones
    BY <2>2, OrderInsert
  <2> QED BY <1>2, <2>1, <2>2 DEF Insert
<1>3. ASSUME NEW k \in Keys, NEW v \in Values, Before(k, v) PROVE OrderInv'
  <2>1. CASE \E why : Fail(why)
    BY <1>1, <2>1
  <2>2. CASE UNCHANGED << rows, orderVars >>
    BY <2>2, OrderSame DEF Stored
  <2> QED BY <1>3, <2>1, <2>2 DEF Before
<1>4. ASSUME NEW k \in Stored, NEW v \in Values, rows' = Put(rows, k, v), UNCHANGED orderVars
      PROVE OrderInv'
  <2>1. Stored' = Stored
    BY <1>4, StoredAfter
  <2> QED BY <1>4, <2>1, OrderSame
<1>5. ASSUME NEW k \in Keys, NEW v \in Values, After(k, v) PROVE OrderInv'
  BY <1>1, <1>4, <1>5 DEF After
<1>6. ASSUME NEW k \in Keys, Delete(k) PROVE OrderInv'
  BY <1>1, <1>6, OrderDelete DEF Delete
<1>7. ASSUME NEW k \in Keys, NEW old \in Values, NEW new \in Values, ApplyUpdate(k, old, new)
      PROVE OrderInv'
  BY <1>1, <1>4, <1>7 DEF ApplyUpdate
<1>8. CASE RollbackPending \/ UNCHANGED vars
  <2>1. UNCHANGED << rows, orderVars >>
    BY <1>8 DEF RollbackPending, vars
  <2> QED BY <2>1, OrderSame DEF Stored
<1>9. CASE Malformed
  BY <1>1, <1>9 DEF Malformed
<1> QED BY <1>2, <1>3, <1>5, <1>6, <1>7, <1>8, <1>9 DEF Next

LEMMA OrderInvariance == Spec => [](TypeOK /\ IInv /\ OrderInv)
<1>1. Init => TypeOK /\ IInv /\ OrderInv
  BY TypeInit, InitInv, OrderInit
<1>2. TypeOK /\ IInv /\ OrderInv /\ [Next]_vars => (TypeOK /\ IInv /\ OrderInv)'
  BY TypeStep, Inductive, OrderStep
<1> QED BY <1>1, <1>2, PTL DEF Spec

(***************************************************************************)
(* What Snapshot shows, and the table it implements                        *)
(***************************************************************************)
Live == Kept(order, Stored)

\* The rows r of the keys c, in the order of c.
Shows(c, r) == [i \in DOMAIN c |-> [key |-> c[i], value |-> r[c[i]]]]

TableRows == [key : Keys, value : Values]

LEMMA SnapshotShows == Snapshot = Shows(Live, rows) /\ Snapshot' = Shows(Live', rows')
BY Zenon DEF Snapshot, Shows, Live, Stored

LEMMA ShowsFacts ==
  ASSUME NEW S, S \subseteq Keys, NEW c \in Seq(S), NEW r, \A k \in S : r[k] \in Values
  PROVE  /\ Len(c) \in Nat /\ DOMAIN c = 1..Len(c) /\ \A i \in 1..Len(c) : c[i] \in S
         /\ Shows(c, r) \in Seq(TableRows) /\ Len(Shows(c, r)) = Len(c)
         /\ DOMAIN Shows(c, r) = 1..Len(c)
         /\ \A i \in 1..Len(c) : /\ Shows(c, r)[i] = [key |-> c[i], value |-> r[c[i]]]
                                 /\ Shows(c, r)[i].key = c[i]
                                 /\ Shows(c, r)[i].value = r[c[i]]
<1>1. Len(c) \in Nat /\ DOMAIN c = 1..Len(c)
  OBVIOUS
<1>2. \A i \in 1..Len(c) : c[i] \in S
  BY ElementOfSeq
<1>3. \A i \in 1..Len(c) : [key |-> c[i], value |-> r[c[i]]] \in TableRows
  BY <1>2 DEF TableRows
<1>4. Shows(c, r) \in Seq(TableRows)
  BY <1>1, <1>3 DEF Shows
<1>5. DOMAIN Shows(c, r) = 1..Len(c)
  BY <1>1 DEF Shows
<1>6. Len(Shows(c, r)) = Len(c)
  BY <1>1, <1>4, <1>5, LenProperties
<1>7. ASSUME NEW i \in 1..Len(c)
      PROVE  /\ Shows(c, r)[i] = [key |-> c[i], value |-> r[c[i]]]
             /\ Shows(c, r)[i].key = c[i] /\ Shows(c, r)[i].value = r[c[i]]
  BY <1>1 DEF Shows
<1> QED BY <1>1, <1>2, <1>4, <1>5, <1>6, <1>7

\* Snapshot shows each stored row once, and nothing else.
LEMMA SnapshotFacts ==
  ASSUME TypeOK, OrderInv
  PROVE  /\ Live \in Seq(Stored) /\ Len(Live) \in Nat
         /\ Len(Live) = Cardinality(Stored)
         /\ \A i, j \in 1..Len(Live) : Live[i] = Live[j] => i = j
         /\ \A k \in Stored : \E i \in 1..Len(Live) : Live[i] = k
         /\ Snapshot \in Seq(TableRows) /\ Len(Snapshot) = Len(Live)
         /\ DOMAIN Snapshot = 1..Len(Live)
         /\ \A i \in 1..Len(Live) :
              /\ Live[i] \in Stored
              /\ Snapshot[i] = [key |-> Live[i], value |-> rows[Live[i]]]
              /\ Snapshot[i].key = Live[i] /\ Snapshot[i].value = rows[Live[i]]
<1>1. Stored \subseteq Keys /\ \A k \in Stored : rows[k] \in Values
  BY DEF TypeOK
<1>2. /\ LiveOf(Live, order, Stored, Len(order))
      /\ \A k \in Stored : \E i \in 1..Len(Live) : Live[i] = k
  BY <1>1, LiveAreDescribed DEF OrderInv, Live
<1>3. Live \in Seq(Stored) /\ \A i, j \in 1..Len(Live) : Live[i] = Live[j] => i = j
  BY <1>2 DEF LiveOf
<1>4. Cardinality(Stored) = Len(Live)
  BY <1>2, <1>3, PlacesCount
<1>5. /\ Len(Live) \in Nat /\ \A i \in 1..Len(Live) : Live[i] \in Stored
      /\ Shows(Live, rows) \in Seq(TableRows) /\ Len(Shows(Live, rows)) = Len(Live)
      /\ DOMAIN Shows(Live, rows) = 1..Len(Live)
      /\ \A i \in 1..Len(Live) :
           /\ Shows(Live, rows)[i] = [key |-> Live[i], value |-> rows[Live[i]]]
           /\ Shows(Live, rows)[i].key = Live[i] /\ Shows(Live, rows)[i].value = rows[Live[i]]
  BY <1>1, <1>3, ShowsFacts
<1>6. Snapshot = Shows(Live, rows)
  BY SnapshotShows
<1> QED BY <1>2, <1>3, <1>4, <1>5, <1>6

LEMMA TableHolds ==
  ASSUME TypeOK, OrderInv
  PROVE  /\ Table!Stored = Stored
         /\ \A k, v : Table!Holds(k, v) <=> k \in Stored /\ rows[k] = v
<1>1. Table!Stored = Stored
  <2>1. ASSUME NEW k PROVE k \in Table!Stored <=> k \in Stored
    BY SnapshotFacts DEF Table!Stored
  <2> QED BY <2>1
<1>2. ASSUME NEW k, NEW v PROVE Table!Holds(k, v) <=> k \in Stored /\ rows[k] = v
  <2>1. ASSUME NEW i \in 1..Len(Live), Snapshot[i] = Table!Row(k, v)
        PROVE  k \in Stored /\ rows[k] = v
    <3>1. Table!Row(k, v).key = k /\ Table!Row(k, v).value = v
      BY DEF Table!Row
    <3> QED BY <2>1, <3>1, SnapshotFacts
  <2>2. ASSUME k \in Stored, rows[k] = v
        PROVE  \E i \in 1..Len(Live) : Snapshot[i] = Table!Row(k, v)
    <3>1. PICK i \in 1..Len(Live) : Live[i] = k
      BY <2>2, SnapshotFacts
    <3>2. Snapshot[i] = [key |-> k, value |-> v]
      BY <2>2, <3>1, SnapshotFacts
    <3> QED BY <3>2 DEF Table!Row
  <2>3. DOMAIN Snapshot = 1..Len(Live)
    BY SnapshotFacts
  <2>4. Table!Holds(k, v) <=> \E i \in 1..Len(Live) : Snapshot[i] = Table!Row(k, v)
    BY <2>3 DEF Table!Holds
  <2> QED BY <2>1, <2>2, <2>4
<1> QED BY <1>1, <1>2

LEMMA TableSame == UNCHANGED << rows, orderVars >> => Snapshot' = Snapshot
BY SnapshotShows DEF orderVars, Live, Stored

\* INSERT adds its row at the end of the table.
LEMMA TableAppend ==
  ASSUME TypeOK, OrderInv, TypeOK', OrderInv', NEW k \in Keys, NEW v \in Values, k \notin Stored,
         rows' = Put(rows, k, v), order' = Append(order, k)
  PROVE  Snapshot' = Append(Snapshot, Table!Row(k, v))
<1>1. Stored' = Stored \cup {k}
  BY StoredAfter
<1>2. /\ order \in Seq(Keys \cup {Tombstone}) /\ k \in Keys \cup {Tombstone} /\ k # Tombstone
      /\ \A i \in 1..Len(order) : order[i] # Tombstone => order[i] \in Stored /\ order[i] # k
  BY TombstoneIsNoKey DEF OrderInv, Describes
<1>3. \A i \in 1..Len(order) : order[i] \in Stored \cup {k} <=> order[i] \in Stored
  BY <1>2
<1>4. Live' = Append(Live, k)
  <2>1. k \in Stored \cup {k}
    OBVIOUS
  <2>2. Kept(Append(order, k), Stored \cup {k}) = Append(Kept(order, Stored), k)
    BY <1>2, <1>3, <2>1, KeptAppend
  <2> QED BY <1>1, <2>2 DEF Live
<1> DEFINE new == Table!Row(k, v)
           longer == Append(Snapshot, new)
<1>5. /\ Live \in Seq(Stored) /\ Len(Live) \in Nat
      /\ Snapshot \in Seq(TableRows) /\ Len(Snapshot) = Len(Live)
      /\ \A i \in 1..Len(Live) : /\ Live[i] \in Stored
                                 /\ Snapshot[i] = [key |-> Live[i], value |-> rows[Live[i]]]
  BY SnapshotFacts
<1>6. new \in TableRows /\ new = [key |-> k, value |-> v]
  BY DEF Table!Row, TableRows
<1> HIDE DEF new
<1>7. /\ longer \in Seq(TableRows) /\ Len(longer) = Len(Live) + 1
      /\ longer[Len(Live) + 1] = new /\ \A i \in 1..Len(Live) : longer[i] = Snapshot[i]
  <2>1. /\ longer \in Seq(TableRows) /\ Len(longer) = Len(Snapshot) + 1
        /\ longer[Len(Snapshot) + 1] = new /\ \A i \in 1..Len(Snapshot) : longer[i] = Snapshot[i]
    BY <1>5, <1>6, AppendProperties
  <2> QED BY <1>5, <2>1
<1> HIDE DEF longer
<1>8. /\ Live' \in Seq(Stored') /\ Len(Live') = Len(Live) + 1 /\ Live'[Len(Live) + 1] = k
      /\ \A i \in 1..Len(Live) : Live'[i] = Live[i]
  <2>1. Live \in Seq(Stored \cup {k}) /\ k \in Stored \cup {k}
    BY <1>5, SeqMonotonic
  <2> QED BY <1>1, <1>4, <2>1, AppendProperties
<1>9. /\ Snapshot' \in Seq(TableRows) /\ Len(Snapshot') = Len(Live) + 1
      /\ \A i \in 1..(Len(Live) + 1) :
           Snapshot'[i] = [key |-> Live'[i], value |-> rows'[Live'[i]]]
  <2>1. Stored' \subseteq Keys /\ \A x \in Stored' : rows'[x] \in Values
    BY DEF TypeOK
  <2>2. Snapshot' = Shows(Live', rows')
    BY SnapshotShows
  <2>3. /\ Shows(Live', rows') \in Seq(TableRows) /\ Len(Shows(Live', rows')) = Len(Live')
        /\ \A i \in 1..Len(Live') :
             Shows(Live', rows')[i] = [key |-> Live'[i], value |-> rows'[Live'[i]]]
    BY <1>8, <2>1, ShowsFacts
  <2> QED BY <1>8, <2>2, <2>3
<1>10. rows'[k] = v /\ \A x \in Stored : rows'[x] = rows[x]
  BY DEF Put, Stored
<1>11. ASSUME NEW i \in 1..(Len(Live) + 1) PROVE Snapshot'[i] = longer[i]
  <2>1. CASE i = Len(Live) + 1
    BY <1>6, <1>7, <1>8, <1>9, <1>10, <2>1
  <2>2. CASE i # Len(Live) + 1
    <3>1. i \in 1..Len(Live)
      BY <1>5, <2>2
    <3>2. Live'[i] = Live[i] /\ Live[i] \in Stored
      BY <1>5, <1>8, <3>1
    <3>3. rows'[Live'[i]] = rows[Live[i]]
      BY <1>10, <3>2
    <3> QED BY <1>5, <1>7, <1>9, <3>1, <3>2, <3>3
  <2> QED BY <2>1, <2>2
<1>12. Snapshot' = longer
  BY <1>7, <1>9, <1>11, SeqEqual
<1> QED BY <1>12 DEF longer, new

\* A stored row that changes does so in its place.
LEMMA TableReplaced ==
  ASSUME TypeOK, OrderInv, NEW k \in Stored, NEW v \in Values,
         rows' = Put(rows, k, v), UNCHANGED orderVars
  PROVE  Snapshot' = Table!Replaced(k, v)
<1>1. Stored' = Stored \cup {k} /\ Stored \cup {k} = Stored
  BY StoredAfter
<1>2. Live' = Live
  BY <1>1 DEF orderVars, Live
<1>3. rows'[k] = v /\ \A x \in Stored : x # k => rows'[x] = rows[x]
  BY DEF Put, Stored
<1>4. /\ DOMAIN Live = 1..Len(Live) /\ DOMAIN Snapshot = 1..Len(Live)
      /\ \A i \in 1..Len(Live) : /\ Live[i] \in Stored
                                 /\ Snapshot[i] = [key |-> Live[i], value |-> rows[Live[i]]]
                                 /\ Snapshot[i].key = Live[i]
  BY SnapshotFacts
<1>5. Snapshot' = [i \in 1..Len(Live) |-> [key |-> Live[i], value |-> rows'[Live[i]]]]
  BY <1>2, <1>4, SnapshotShows DEF Shows
<1>6. Table!Replaced(k, v) = [i \in 1..Len(Live) |->
        IF Snapshot[i].key = k THEN [key |-> k, value |-> v] ELSE Snapshot[i]]
  BY <1>4 DEF Table!Replaced, Table!Row
<1>7. ASSUME NEW i \in 1..Len(Live)
      PROVE  [key |-> Live[i], value |-> rows'[Live[i]]]
               = IF Snapshot[i].key = k THEN [key |-> k, value |-> v] ELSE Snapshot[i]
  BY <1>3, <1>4
<1> QED BY <1>5, <1>6, <1>7

\* DELETE takes its row out and the others close ranks, compacted or not.
LEMMA LiveDelete ==
  ASSUME TypeOK, IInv, OrderInv, NEW k \in Stored, rows' = Drop(rows, k), RemoveOrder(k)
  PROVE  \E q \in 1..Len(Live) : Live[q] = k /\ Live' = Without(Live, q)
<1> DEFINE entries == [order EXCEPT ![orderIndex[k]] = Tombstone]
           rest == Stored \ {k}
           p == orderIndex[k]
<1>1. Stored' = rest
  BY StoredAfter
<1>2. Describes(rest, entries, Drop(orderIndex, k)) /\ Len(entries) = Len(order)
  BY OrderBlot
<1>3. /\ order \in Seq(Keys \cup {Tombstone}) /\ Len(order) \in Nat
      /\ p \in 1..Len(order) /\ order[p] = k /\ Stored \subseteq Keys
  BY DEF OrderInv, Describes, TypeOK
<1>4. /\ entries \in Seq(Keys \cup {Tombstone})
      /\ \A j \in 1..Len(order) : entries[j] = IF j = p THEN Tombstone ELSE order[j]
  BY <1>3, ExceptSeq
<1>5. order' = Compacted(entries) \/ order' = entries
  BY DEF RemoveOrder
<1> HIDE DEF entries, p
<1>6. Once(order, Stored)
  BY <1>3, LiveAreDescribed DEF OrderInv
<1>7. entries[p] \notin Stored /\ \A j \in 1..Len(order) : j # p => entries[j] = order[j]
  BY <1>3, <1>4, TombstoneIsNoKey
<1>8. PICK q \in 1..Len(Kept(order, Stored)) :
        /\ Kept(order, Stored)[q] = order[p]
        /\ Kept(entries, Stored \ {order[p]}) = Without(Kept(order, Stored), q)
  BY <1>2, <1>3, <1>4, <1>6, <1>7, KeptBlot
<1>9. Kept(entries, rest) = Without(Live, q) /\ q \in 1..Len(Live) /\ Live[q] = k
  BY <1>3, <1>8 DEF Live
<1>10. rest \subseteq Keys
  BY <1>3
<1> HIDE DEF rest
<1>11. Compacted(entries) = Kept(entries, rest) /\ Kept(entries, rest) \in Seq(rest)
  BY <1>2, <1>10, LiveAreDescribed DEF LiveOf
<1>12. Kept(order', rest) = Kept(entries, rest)
  <2>1. CASE order' = entries
    BY <2>1
  <2>2. CASE order' = Compacted(entries)
    <3>1. order' \in Seq(rest)
      BY <1>11, <2>2
    <3>2. Kept(order', rest) = order'
      BY <3>1, KeptWhole
    <3> QED BY <1>11, <2>2, <3>2
  <2> QED BY <1>5, <2>1, <2>2
<1>13. Live' = Without(Live, q)
  BY <1>1, <1>9, <1>12 DEF Live
<1> QED BY <1>9, <1>13

LEMMA TableDelete ==
  ASSUME TypeOK, IInv, OrderInv, NEW k \in Stored, rows' = Drop(rows, k), RemoveOrder(k)
  PROVE  \E q \in DOMAIN Snapshot : Snapshot[q].key = k /\ Snapshot' = Table!Without(q)
<1>1. PICK q \in 1..Len(Live) : Live[q] = k /\ Live' = Without(Live, q)
  BY LiveDelete
<1>2. /\ Live \in Seq(Stored) /\ Len(Live) \in Nat
      /\ \A i, j \in 1..Len(Live) : Live[i] = Live[j] => i = j
      /\ Len(Snapshot) = Len(Live) /\ DOMAIN Snapshot = 1..Len(Live)
      /\ \A i \in 1..Len(Live) : /\ Live[i] \in Stored
                                 /\ Snapshot[i] = [key |-> Live[i], value |-> rows[Live[i]]]
                                 /\ Snapshot[i].key = Live[i]
  BY SnapshotFacts
<1>3. \A x \in Stored \ {k} : rows'[x] = rows[x]
  BY DEF Drop, Restrict, Stored
<1> DEFINE rest == 1..(Len(Live) - 1)
<1>4. DOMAIN Live' = rest /\ \A j \in rest : Live'[j] = IF j < q THEN Live[j] ELSE Live[j + 1]
  BY <1>1 DEF Without
<1>5. Snapshot' = [j \in rest |-> [key |-> Live'[j], value |-> rows'[Live'[j]]]]
  BY <1>4, SnapshotShows DEF Shows
<1>6. Table!Without(q) = [j \in rest |-> IF j < q THEN Snapshot[j] ELSE Snapshot[j + 1]]
  BY <1>2 DEF Table!Without
<1>7. ASSUME NEW j \in rest
      PROVE  [key |-> Live'[j], value |-> rows'[Live'[j]]]
               = IF j < q THEN Snapshot[j] ELSE Snapshot[j + 1]
  <2> DEFINE i == IF j < q THEN j ELSE j + 1
  <2>1. i \in 1..Len(Live) /\ i # q
    BY <1>2
  <2>2. Live'[j] = Live[i] /\ (IF j < q THEN Snapshot[j] ELSE Snapshot[j + 1]) = Snapshot[i]
    BY <1>4
  <2> HIDE DEF i
  <2>3. Live[i] \in Stored \ {k}
    BY <1>1, <1>2, <2>1
  <2>4. rows'[Live[i]] = rows[Live[i]]
    BY <1>3, <2>3
  <2>5. Snapshot[i] = [key |-> Live[i], value |-> rows[Live[i]]]
    BY <1>2, <2>1
  <2> QED BY <2>2, <2>4, <2>5
<1> HIDE DEF rest
<1>8. Snapshot' = Table!Without(q)
  BY <1>5, <1>6, <1>7
<1> QED BY <1>1, <1>2, <1>8

LEMMA TableInit == Init => Table!Init
<1> SUFFICES ASSUME Init PROVE Table!Init
  OBVIOUS
<1>1. order = << >> /\ Len(order) = 0 /\ Stored = {}
  BY DEF Init, Stored
<1>2. order \in Seq(Stored)
  BY <1>1
<1>3. Live = << >>
  BY <1>1, <1>2, KeptWhole DEF Live
<1>4. Snapshot = << >>
  BY <1>3, SnapshotShows DEF Shows
<1> QED BY <1>4 DEF Init, Table!Init

\* Every step of the materializer is the step of the table of the same name,
\* with the same reply.
LEMMA TableStep ==
  ASSUME TypeOK, IInv, OrderInv, TypeOK', OrderInv', [Next]_vars
  PROVE  [Table!Next]_(Table!vars)
<1>1. /\ Table!Stored = Stored /\ pending \subseteq Stored
      /\ \A k, v : Table!Holds(k, v) <=> k \in Stored /\ rows[k] = v
      /\ Len(Snapshot) = Cardinality(Stored)
  BY TableHolds, SnapshotFacts DEF IInv, PendingPresent
<1>2. ASSUME NEW why, Fail(why) PROVE Table!Fail(why)
  BY <1>2, TableSame DEF Fail, Table!Fail
<1>3. ASSUME NEW k \in Keys, NEW v \in Values, Insert(k, v) PROVE Table!Insert(k, v)
  BY <1>1, <1>2, <1>3, TableAppend DEF Insert, Table!Insert
<1>4. ASSUME NEW k \in Keys, NEW v \in Values, Before(k, v) PROVE Table!Before(k, v)
  BY <1>1, <1>2, <1>4, TableSame DEF Before, Table!Before
<1>5. ASSUME NEW k \in Keys, NEW v \in Values, After(k, v) PROVE Table!After(k, v)
  BY <1>1, <1>2, <1>5, TableReplaced DEF After, Table!After
<1>6. ASSUME NEW k \in Keys, Delete(k) PROVE Table!Delete(k)
  BY <1>1, <1>2, <1>6, TableDelete DEF Delete, Table!Delete
<1>7. ASSUME NEW k \in Keys, NEW old \in Values, NEW new \in Values, ApplyUpdate(k, old, new)
      PROVE  Table!Update(k, old, new)
  BY <1>1, <1>2, <1>7, TableReplaced DEF ApplyUpdate, Table!Update
<1>8. CASE RollbackPending
  <2>1. Table!Rollback
    BY <1>8, TableSame DEF RollbackPending, Table!Rollback
  <2> QED BY <2>1 DEF Table!Next
<1>9. CASE Malformed
  <2>1. Table!Malformed
    BY <1>2, <1>9 DEF Malformed, Table!Malformed
  <2> QED BY <2>1 DEF Table!Next
<1>10. CASE UNCHANGED vars
  <2>1. UNCHANGED << Snapshot, pending, reply >>
    BY <1>10, TableSame DEF vars
  <2> QED BY <2>1 DEF Table!vars
<1> QED BY <1>3, <1>4, <1>5, <1>6, <1>7, <1>8, <1>9, <1>10 DEF Next, Table!Next

-----------------------------------------------------------------------------
\* The types of the materializer; in particular the index has exactly the keys
\* of the rows.
THEOREM TypeCorrect == Spec => []TypeOK
<1> QED BY TypeInit, TypeStep, PTL DEF Spec

\* Whatever rows arrive in whatever order, an update that pends has its row, so
\* that its UPDATE_AFTER is accepted (changelog/materializer.go Apply).
THEOREM PendingHasRow == Spec => []PendingPresent
<1>1. IInv => PendingPresent
  BY DEF IInv
<1> QED BY <1>1, Invariance, PTL

\* Through every deletion and compaction the index finds the place of each row,
\* every other place is a tombstone, and the tombstones are counted right
\* (changelog/materializer.go removeOrder, compactOrderLocked).
THEOREM IndexIsConsistent == Spec => []IndexConsistent
<1>1. TypeOK /\ OrderInv => IndexConsistent
  <2> SUFFICES ASSUME TypeOK, OrderInv PROVE IndexConsistent
    OBVIOUS
  <2>1. DOMAIN order = 1..Len(order)
    BY DEF OrderInv, Describes
  <2>2. Tombs(order) = {i \in DOMAIN order : order[i] = Tombstone}
    BY <2>1, Zenon DEF Tombs
  <2>3. tombstones = Cardinality({i \in DOMAIN order : order[i] = Tombstone})
    BY <2>2, Zenon DEF OrderInv, Counted
  <2>4. /\ \A k \in Stored : order[orderIndex[k]] = k
        /\ \A i \in DOMAIN order :
             order[i] # Tombstone => order[i] \in Stored /\ orderIndex[order[i]] = i
    BY <2>1 DEF OrderInv, Describes
  <2> QED BY <2>3, <2>4, Zenon DEF IndexConsistent
<1> QED BY <1>1, OrderInvariance, PTL

\* However long the changelog, the materializer never holds more than MaxRows
\* rows, and the array is no longer than the rows with as many tombstones again,
\* or with CompactAbove of them (changelog/materializer.go removeOrder).
THEOREM OrderIsBounded == Spec => []OrderBounded
<1>1. TypeOK /\ IInv /\ OrderInv => OrderBounded
  <2> SUFFICES ASSUME TypeOK, IInv, OrderInv PROVE OrderBounded
    OBVIOUS
  <2>1. Cardinality(Stored) \in Nat /\ Cardinality(Stored) <= MaxRows
    BY FS_CardinalityType DEF IInv, Bounded
  <2>2. tombstones \in Nat /\ Len(order) = Cardinality(Stored) + tombstones
    BY DEF TypeOK, OrderInv, Counted
  <2>3. tombstones <= CompactAbove \/ 2 * tombstones <= Len(order)
    BY DEF OrderInv, Compact
  <2> QED BY <2>1, <2>2, <2>3, LimitsAreNat DEF OrderBounded
<1> QED BY <1>1, OrderInvariance, PTL

\* What Snapshot returns is the documented table through every sequence of rows,
\* corrections, rollbacks and refused rows: keyed, in insertion order, changed by
\* well-formed changelog rows only, with the reply the table gives
\* (changelog/materializer.go Apply, ApplyUpdate, RollbackPending, Snapshot).
THEOREM TableIsImplemented == Spec => ImplementsTable
<1>1. TypeOK /\ IInv /\ OrderInv /\ (TypeOK /\ IInv /\ OrderInv)' /\ [Next]_vars
        => [Table!Next]_(Table!vars)
  BY TableStep
<1> QED BY <1>1, TableInit, OrderInvariance, PTL DEF Spec, ImplementsTable, Table!Spec
=============================================================================
