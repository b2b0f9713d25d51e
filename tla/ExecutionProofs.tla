--------------------------- MODULE ExecutionProofs ---------------------------
(***************************************************************************)
(* Proofs about Execution, for every number of pages and rows, every limit *)
(* and every capacity of the channel.                                      *)
(***************************************************************************)
EXTENDS Execution, SequenceTheorems, WellFoundedInduction, TLAPS

(***************************************************************************)
(* Induction, and what FlattenSeq computes                                 *)
(***************************************************************************)
\* A set of naturals has a least element.
LEMMA LeastElement ==
  ASSUME NEW T, T \subseteq Nat, T # {}
  PROVE  \E n \in T : \A m \in T : n <= m
<1> DEFINE R == OpToRel(<, Nat)
<1>1. IsWellFoundedOn(R, Nat)
  BY NatLessThanWellFounded
<1>3. \A x, y \in Nat : y < x => << y, x >> \in R
  BY DEF OpToRel
<1> HIDE DEF R
<1>2. PICK x \in T : \A y \in T : ~(<< y, x >> \in R)
  BY <1>1, WFMin, Zenon
<1>4. ASSUME NEW y \in T PROVE x <= y
  <2>1. x \in Nat /\ y \in Nat
    OBVIOUS
  <2>2. ~(y < x)
    BY <1>2, <1>3, <2>1, Zenon
  <2> QED BY <2>1, <2>2
<1> QED BY <1>2, <1>4

\* Induction, for a set of naturals instead of a predicate.
LEMMA SetInduction ==
  ASSUME NEW T, T \subseteq Nat, 0 \in T, \A n \in T : n + 1 \in T
  PROVE  T = Nat
<1> SUFFICES ASSUME Nat \ T # {} PROVE FALSE
  OBVIOUS
<1>1. PICK n \in Nat \ T : \A m \in Nat \ T : n <= m
  <2>1. Nat \ T \subseteq Nat
    OBVIOUS
  <2> QED BY <2>1, LeastElement, Zenon
<1>2. n # 0 /\ n - 1 \in Nat /\ n - 1 \in T
  BY <1>1
<1> QED BY <1>1, <1>2

\* f holds what FlattenSeq makes of the first sequences of s.
Flattens(s, f) == f = [i \in 1..Len(s) |-> IF i = 1 THEN s[i] ELSE f[i - 1] \o s[i]]

LEMMA FlattenExists ==
  ASSUME NEW s, Len(s) \in Nat
  PROVE  \E f : Flattens(s, f)
<1> DEFINE G(f, n) == \A i \in 1..n : f[i] = IF i = 1 THEN s[i] ELSE f[i - 1] \o s[i]
           T == {n \in Nat : \E f : G(f, n)}
<1>1. 0 \in T
  OBVIOUS
<1>2. ASSUME NEW n \in T PROVE n + 1 \in T
  <2>1. n \in Nat /\ n + 1 \in Nat
    OBVIOUS
  <2>2. PICK f : G(f, n)
    OBVIOUS
  <2> HIDE DEF T
  <2> DEFINE g == [i \in 1..(n + 1) |-> IF i <= n THEN f[i]
                                        ELSE IF i = 1 THEN s[i] ELSE f[i - 1] \o s[i]]
  <2>3. ASSUME NEW i \in 1..(n + 1) PROVE g[i] = IF i = 1 THEN s[i] ELSE g[i - 1] \o s[i]
    <3>1. i # 1 => i - 1 \in 1..n /\ g[i - 1] = f[i - 1]
      BY <2>1
    <3>2. i <= n => f[i] = IF i = 1 THEN s[i] ELSE f[i - 1] \o s[i]
      BY <2>1, <2>2
    <3> QED BY <3>1, <3>2
  <2> HIDE DEF g
  <2> QED BY <2>1, <2>3 DEF T
<1> HIDE DEF T
<1>3. T = Nat
  <2>1. T \subseteq Nat
    BY DEF T
  <2> QED BY <1>1, <1>2, <2>1, SetInduction, Zenon
<1>4. PICK f : G(f, Len(s))
  BY <1>3 DEF T
<1> DEFINE g == [i \in 1..Len(s) |-> f[i]]
<1>5. \A i \in 1..Len(s) : g[i] = IF i = 1 THEN s[i] ELSE g[i - 1] \o s[i]
  BY <1>4
<1>6. Flattens(s, g)
  BY <1>5 DEF Flattens
<1> QED BY <1>6

LEMMA FlattenIs ==
  ASSUME NEW s, Len(s) \in Nat \ {0}
  PROVE  \E f : Flattens(s, f) /\ FlattenSeq(s) = f[Len(s)]
<1> DEFINE f == CHOOSE f : Flattens(s, f)
<1>1. Flattens(s, f)
  BY FlattenExists, Zenon
<1>2. FlattenSeq(s) = f[Len(s)]
  BY DEF FlattenSeq, Flattens
<1> QED BY <1>1, <1>2

\* e[k] is where the k-th sequence of s ends in FlattenSeq(s).
Places(s, e) ==
  /\ e \in [0..Len(s) -> Nat] /\ e[0] = 0 /\ e[Len(s)] = Len(FlattenSeq(s))
  /\ \A k \in 1..Len(s) :
       /\ e[k] = e[k - 1] + Len(s[k]) /\ e[k] <= e[Len(s)]
       /\ \A i \in 1..Len(s[k]) : FlattenSeq(s)[e[k - 1] + i] = s[k][i]

LEMMA Joined ==
  ASSUME NEW S, NEW a \in Seq(S), NEW b \in Seq(S)
  PROVE  /\ a \o b \in Seq(S) /\ Len(a) \in Nat /\ Len(b) \in Nat
         /\ Len(a \o b) \in Nat /\ Len(a \o b) = Len(a) + Len(b)
         /\ \A i \in 1..Len(a) : (a \o b)[i] = a[i]
         /\ \A i \in 1..Len(b) : (a \o b)[Len(a) + i] = b[i]
<1>1. PICK c : c = a \o b
  OBVIOUS
<1>2. /\ c \in Seq(S) /\ Len(c) = Len(a) + Len(b)
      /\ \A i \in 1..(Len(a) + Len(b)) : c[i] = IF i <= Len(a) THEN a[i] ELSE b[i - Len(a)]
  BY <1>1, ConcatProperties, Zenon
<1>3. Len(a) \in Nat /\ Len(b) \in Nat
  BY LenProperties
<1>4. ASSUME NEW i \in 1..Len(b) PROVE c[Len(a) + i] = b[i]
  <2>1. /\ Len(a) + i \in 1..(Len(a) + Len(b)) /\ ~(Len(a) + i <= Len(a))
        /\ (Len(a) + i) - Len(a) = i
    BY <1>3
  <2> QED BY <1>2, <2>1
<1>5. \A i \in 1..Len(a) : c[i] = a[i]
  BY <1>2, <1>3
<1>6. Len(c) \in Nat
  BY <1>2, <1>3
<1> QED BY <1>1, <1>2, <1>3, <1>4, <1>5, <1>6, Zenon

LEMMA FlattenPlaces ==
  ASSUME NEW S, NEW s \in Seq(Seq(S)), s # << >>
  PROVE  FlattenSeq(s) \in Seq(S) /\ \E e : Places(s, e)
<1>1. PICK N : N = Len(s) /\ N \in Nat \ {0} /\ \A k \in 1..N : s[k] \in Seq(S)
  BY EmptySeq, LenProperties, ElementOfSeq
<1>2. PICK f : Flattens(s, f) /\ FlattenSeq(s) = f[N]
  BY <1>1, FlattenIs
<1>3. f[1] = s[1] /\ \A k \in 1..N : k # 1 => f[k] = f[k - 1] \o s[k]
  <2> DEFINE g == [i \in 1..N |-> IF i = 1 THEN s[i] ELSE f[i - 1] \o s[i]]
  <2>1. f = g
    BY <1>1, <1>2 DEF Flattens
  <2>2. \A k \in 1..N : g[k] = IF k = 1 THEN s[k] ELSE f[k - 1] \o s[k]
    OBVIOUS
  <2> HIDE DEF g
  <2>3. \A k \in 1..N : f[k] = IF k = 1 THEN s[k] ELSE f[k - 1] \o s[k]
    BY <2>1, <2>2, Zenon
  <2>4. 1 \in 1..N
    BY <1>1
  <2> QED BY <2>3, <2>4, Zenon
<1> DEFINE Extends(k, n) == /\ Len(f[k]) \in Nat /\ Len(f[k]) <= Len(f[n])
                            /\ \A i \in 1..Len(f[k]) : f[n][i] = f[k][i]
           Good(n) == f[n] \in Seq(S) /\ \A k \in 1..n : Extends(k, n)
           T == {n \in Nat : n \in 1..N => Good(n)}
<1>4. 0 \in T
  BY <1>1
<1>5. ASSUME NEW n \in T PROVE n + 1 \in T
  <2>1. PICK m : m = n + 1
    OBVIOUS
  <2>2. n \in Nat /\ m \in Nat /\ n = m - 1 /\ (n \in 1..N => Good(n))
    BY <2>1
  <2> HIDE DEF T, Good
  <2>3. ASSUME m \in 1..N, m = 1
        PROVE  Good(m)
    <3>1. f[1] \in Seq(S) /\ Len(f[1]) \in Nat
      BY <1>1, <1>3, LenProperties
    <3>2. \A k \in 1..m : k = 1 /\ Extends(k, m)
      BY <2>3, <3>1
    <3> QED BY <2>3, <3>1, <3>2, Zenon DEF Good
  <2>4. ASSUME m \in 1..N, m # 1
        PROVE  Good(m)
    <3>1. f[n] \in Seq(S) /\ \A k \in 1..n : Extends(k, n)
      <4>1. n \in 1..N
        BY <1>1, <2>2, <2>4
      <4>2. Good(n)
        BY <2>2, <4>1, Zenon
      <4> QED BY <4>2 DEF Good
    <3>2. f[m] = f[n] \o s[m] /\ s[m] \in Seq(S)
      BY <1>1, <1>3, <2>2, <2>4
    <3>3. /\ f[m] \in Seq(S) /\ Len(f[n]) \in Nat /\ Len(f[m]) \in Nat
          /\ Len(f[n]) <= Len(f[m])
          /\ \A i \in 1..Len(f[n]) : f[m][i] = f[n][i]
      <4>1. PICK a \in Seq(S), b \in Seq(S) : a = f[n] /\ b = s[m] /\ f[m] = a \o b
        BY <3>1, <3>2
      <4>2. PICK c : c = f[m] /\ c = a \o b
        BY <4>1, Zenon
      <4>3. /\ c \in Seq(S) /\ Len(a) \in Nat /\ Len(b) \in Nat /\ Len(c) \in Nat
            /\ Len(c) = Len(a) + Len(b) /\ \A i \in 1..Len(a) : c[i] = a[i]
        <5>1. /\ a \o b \in Seq(S) /\ Len(a) \in Nat /\ Len(b) \in Nat /\ Len(a \o b) \in Nat
              /\ Len(a \o b) = Len(a) + Len(b) /\ \A i \in 1..Len(a) : (a \o b)[i] = a[i]
          BY Joined
        <5> QED BY <4>2, <5>1, Zenon
      <4>4. Len(a) <= Len(c)
        BY <4>3
      <4> QED BY <4>1, <4>2, <4>3, <4>4, Zenon
    <3>4. ASSUME NEW k \in 1..m PROVE Extends(k, m)
      <4>1. CASE k = m
        <5>1. Len(f[m]) \in Nat
          BY <3>3
        <5> QED BY <4>1, <5>1
      <4>2. CASE k \in 1..n
        <5>1. Len(f[k]) \in Nat /\ Len(f[k]) <= Len(f[n]) /\ \A i \in 1..Len(f[k]) : f[n][i] = f[k][i]
          BY <3>1, <4>2
        <5>2. \A i \in 1..Len(f[k]) : f[m][i] = f[k][i]
          BY <3>3, <5>1
        <5>3. Len(f[k]) <= Len(f[m])
          BY <3>3, <5>1
        <5> QED BY <5>1, <5>2, <5>3
      <4> QED BY <2>2, <4>1, <4>2
    <3> HIDE DEF Extends
    <3> QED BY <3>3, <3>4 DEF Good
  <2> QED BY <2>1, <2>2, <2>3, <2>4 DEF T
<1> HIDE DEF T
<1>6. T = Nat
  <2>1. T \subseteq Nat
    BY DEF T
  <2> QED BY <1>4, <1>5, <2>1, SetInduction, Zenon
<1>7. \A n \in 1..N : Good(n)
  BY <1>6 DEF T
<1>8. ASSUME NEW n \in 1..N
      PROVE  /\ f[n] \in Seq(S) /\ Len(f[n]) \in Nat /\ Len(f[n]) <= Len(f[N])
             /\ \A i \in 1..Len(f[n]) : f[N][i] = f[n][i]
  <2>1. N \in 1..N
    BY <1>1
  <2> QED BY <1>7, <2>1
<1> HIDE DEF Good, Extends
<1> DEFINE e == [k \in 0..N |-> IF k = 0 THEN 0 ELSE Len(f[k])]
<1>9. ASSUME NEW k \in 1..N
      PROVE  /\ e[k] = e[k - 1] + Len(s[k]) /\ e[k] <= e[N]
             /\ \A i \in 1..Len(s[k]) : f[N][e[k - 1] + i] = s[k][i]
  <2>1. PICK j : j = k - 1
    OBVIOUS
  <2>2. /\ e[k] = Len(f[k]) /\ e[N] = Len(f[N]) /\ e[j] = (IF k = 1 THEN 0 ELSE Len(f[j]))
        /\ Len(s[k]) \in Nat
    BY <1>1, <2>1, LenProperties
  <2> HIDE DEF e
  <2>3. CASE k = 1
    BY <1>3, <1>8, <2>1, <2>2, <2>3
  <2>4. CASE k # 1
    <3>1. j \in 1..N /\ f[k] = f[j] \o s[k] /\ f[j] \in Seq(S) /\ s[k] \in Seq(S)
      <4>1. j \in 1..N /\ f[k] = f[j] \o s[k]
        <5>1. j \in 1..N
          BY <1>1, <2>1, <2>4
        <5>2. f[k] = f[k - 1] \o s[k]
          BY <1>3, <2>4
        <5> QED BY <2>1, <5>1, <5>2, Zenon
      <4> QED BY <1>1, <1>8, <4>1
    <3>2. /\ Len(f[j]) \in Nat /\ Len(f[k]) = Len(f[j]) + Len(s[k])
          /\ \A i \in 1..Len(s[k]) : /\ f[k][Len(f[j]) + i] = s[k][i]
                                    /\ Len(f[j]) + i \in 1..Len(f[k])
      <4>1. PICK a \in Seq(S), b \in Seq(S) : a = f[j] /\ b = s[k] /\ f[k] = a \o b
        BY <3>1
      <4>0. PICK c : c = f[k] /\ c = a \o b
        BY <4>1, Zenon
      <4>2. /\ Len(a) \in Nat /\ Len(b) \in Nat /\ Len(c) = Len(a) + Len(b)
            /\ \A i \in 1..Len(b) : c[Len(a) + i] = b[i]
        <5>1. Len(a) \in Nat /\ Len(b) \in Nat /\ Len(a \o b) = Len(a) + Len(b)
          BY Joined
        <5>2. \A i \in 1..Len(b) : (a \o b)[Len(a) + i] = b[i]
          BY Joined
        <5> QED BY <4>0, <5>1, <5>2, Zenon
      <4>3. \A i \in 1..Len(b) : Len(a) + i \in 1..Len(c)
        BY <4>2
      <4> QED BY <4>0, <4>1, <4>2, <4>3, Zenon
    <3>3. ASSUME NEW i \in 1..Len(s[k]) PROVE f[N][Len(f[j]) + i] = s[k][i]
      <4>1. Len(f[j]) + i \in 1..Len(f[k])
        BY <3>2
      <4>2. f[N][Len(f[j]) + i] = f[k][Len(f[j]) + i]
        BY <1>8, <4>1
      <4> QED BY <3>2, <4>2
    <3> QED BY <1>8, <2>1, <2>2, <2>4, <3>2, <3>3
  <2> QED BY <2>3, <2>4
<1>10. e \in [0..N -> Nat] /\ e[0] = 0 /\ e[N] = Len(f[N]) /\ f[N] \in Seq(S)
  <2>1. \A k \in 0..N : k # 0 => k \in 1..N
    BY <1>1
  <2> QED BY <1>1, <1>8, <2>1
<1> HIDE DEF e
<1>11. Places(s, e)
  BY <1>1, <1>2, <1>9, <1>10 DEF Places
<1> QED BY <1>2, <1>10, <1>11

(***************************************************************************)
(* The invariant                                                           *)
(***************************************************************************)
EventSet == [type : {"operation", "page", "row", "eos"}, row : Nat]
Running == {"check", "fetch", "classify", "sleep"}
Ending == {"report", "shut", "end", "done"}

Types ==
  /\ closed \in BOOLEAN /\ active \in Nat /\ idle \in Nat /\ shut \subseteq 0..idle
  /\ ServerTypeOK /\ call \in Calls
  /\ ppc \in {"start", "submit", "deliver", "cancel", "cleanup", "close"} \cup Running \cup Ending
  /\ next \in Nat /\ polls \in Nat /\ lastPage \in BOOLEAN /\ cleanupErr \in BOOLEAN
  /\ pending \in Seq(EventSet) /\ received \in Seq(Nat)
  /\ events \in Seq(EventSet) /\ taken \in Seq(EventSet)
  /\ eventsShut \in BOOLEAN /\ errsShut \in BOOLEAN

\* The execution is one activity of the group, and Close waits for it.
GroupInv ==
  /\ active = IF ppc \in {"start", "done"} THEN 0 ELSE 1
  /\ idle \in shut <=> ppc \in {"start", "done"}
  /\ kpc # "idle" => closed
  /\ ClientCloseWaits

\* An execution that fails has a reason from then on, and what it has
\* submitted is released at its end.
ReleaseInv ==
  /\ ppc \in {"start", "submit", "deliver", "close"} \cup Running => reason = "none"
  /\ ppc \in {"cancel", "cleanup"} => reason # "none"
  /\ ppc \in {"start", "submit"} => op = "none"
  /\ ppc \in Ending =>
       /\ ~faulty /\ (reason # "none" \/ ~closed) => op \in {"none", "closed"}
       /\ reason = "none" /\ ~cleanupErr => op = "closed"

\* The error is there before the channel of events is closed.
ReportInv ==
  /\ ppc \in {"shut", "end", "done"} => err = Verdict /\ (Streaming => errsShut)
  /\ eventsShut => ppc \in {"end", "done"} /\ errsShut
  /\ consumer = "finished" => eventsShut /\ events = << >>

\* The transcript is made of batches: the operation event, and the items of
\* each page.  StartOf(k) events of a stream come before batch k, and RowsUpTo(k, i) rows
\* before its event i + 1.
Heading == IF Streaming THEN 1 ELSE 0
Batch(k) == IF k = 0 THEN << Event("operation", 0) >> ELSE Items(k)
StartOf(k) == IF k = 0 THEN 0 ELSE k + Before(k)
RowsUpTo(k, i) ==
  IF k = 0 THEN 0
  ELSE IF i <= Heading THEN Before(k)
  ELSE IF i <= Heading + Len(Page(k)) THEN Before(k) + (i - Heading) ELSE Ends[k]

Sent == taken \o events
At(k) == k = IF polls = 0 THEN 0 ELSE next + 1

\* The first m events of batch k have been delivered; the rest is pending.
Delivering(k, m) ==
  /\ Len(Batch(k)) = m + Len(pending)
  /\ \A i \in 1..Len(pending) : pending[i] = Batch(k)[m + i]
  /\ Len(received) = RowsUpTo(k, m)
  /\ Streaming => Len(Sent) = StartOf(k) + m

\* How far the execution has come with its pages, rows and events.
ProgressInv ==
  /\ ppc \in {"start", "submit"} =>
       next = 0 /\ polls = 0 /\ ~lastPage /\ received = << >> /\ taken = << >> /\ events = << >>
  /\ ppc \in Running \cup {"deliver"} => next < LastPage /\ (polls = 0 => next = 0)
  /\ ppc \in Running =>
       /\ ~lastPage /\ Len(received) = Before(next + 1)
       /\ Streaming => Len(Sent) = StartOf(next + 1)
  /\ ppc = "deliver" =>
       \E k \in 0..LastPage, m \in Nat : At(k) /\ (lastPage <=> k = LastPage) /\ Delivering(k, m)
  /\ ppc \in {"close"} \cup Ending /\ reason = "none" =>
       Len(received) = Ends[LastPage] /\ (Streaming => Len(Sent) = Len(Transcript))

\* What was delivered is what the server has sent, in order.
OrderInv ==
  /\ Len(received) <= Ends[LastPage] /\ \A i \in 1..Len(received) : received[i] = i
  /\ Streaming =>
       Len(Sent) <= Len(Transcript) /\ \A i \in 1..Len(Sent) : Sent[i] = Transcript[i]

\* The limits are kept, and are exhausted when they are the reason.
LimitsInv ==
  /\ Len(received) <= call.maxRows
  /\ polls <= call.maxPolls /\ (ppc = "fetch" => polls < call.maxPolls)
  /\ reason = "rowLimit" => Len(received) = call.maxRows /\ Len(received) < Ends[LastPage]
  /\ reason = "pollLimit" => polls = call.maxPolls

IInv == Types /\ GroupInv /\ ReleaseInv /\ ReportInv /\ ProgressInv /\ OrderInv /\ LimitsInv

(***************************************************************************)
(* Pages, items and the transcript                                         *)
(***************************************************************************)
LEMMA PageFacts ==
  /\ LastPage \in Nat \ {0} /\ Before(1) = 0
  /\ \A k \in 1..LastPage :
       /\ Before(k) \in Nat /\ Ends[k] \in Nat /\ Before(k) <= Ends[k] /\ Ends[k] <= Ends[LastPage]
       /\ k # LastPage => Before(k + 1) = Ends[k]
       /\ Page(k) \in Seq(Nat) /\ Len(Page(k)) = Ends[k] - Before(k)
       /\ DOMAIN Page(k) = 1..Len(Page(k))
       /\ \A j \in 1..Len(Page(k)) : Page(k)[j] = Before(k) + j
<1>1. LastPage \in Nat \ {0} /\ DOMAIN Ends = 1..LastPage /\ \A k \in 1..LastPage : Ends[k] \in Nat
  BY PagesAreOrdered, EmptySeq, LenProperties, ElementOfSeq DEF LastPage
<1>2. \A i, j \in 1..LastPage : i <= j => Ends[i] <= Ends[j]
  BY <1>1, PagesAreOrdered
<1>3. Before(1) = 0
  BY DEF Before
<1>4. ASSUME NEW k \in 1..LastPage
      PROVE  /\ Before(k) \in Nat /\ Before(k) <= Ends[k] /\ Ends[k] <= Ends[LastPage]
             /\ k # LastPage => Before(k + 1) = Ends[k]
  <2>1. Before(k) \in Nat /\ Before(k) <= Ends[k]
    <3>1. CASE k = 1
      BY <1>1, <1>3, <3>1
    <3>2. CASE k # 1
      <4>1. k - 1 \in 1..LastPage /\ k - 1 <= k
        BY <1>1, <3>2
      <4> QED BY <1>1, <1>2, <3>2, <4>1 DEF Before
    <3> QED BY <3>1, <3>2
  <2>2. Ends[k] <= Ends[LastPage]
    BY <1>1, <1>2
  <2>3. Before(k + 1) = Ends[k]
    <3>1. k + 1 # 1 /\ (k + 1) - 1 = k
      BY <1>1
    <3> QED BY <3>1 DEF Before
  <2> QED BY <2>1, <2>2, <2>3
<1>5. ASSUME NEW k \in 1..LastPage
      PROVE  /\ Page(k) \in Seq(Nat) /\ Len(Page(k)) = Ends[k] - Before(k)
             /\ DOMAIN Page(k) = 1..Len(Page(k))
             /\ \A j \in 1..Len(Page(k)) : Page(k)[j] = Before(k) + j
  <2>1. PICK n, b : n = Ends[k] - Before(k) /\ b = Before(k)
    OBVIOUS
  <2>2. n \in Nat /\ b \in Nat
    BY <1>1, <1>4, <2>1
  <2>3. Page(k) = [j \in 1..n |-> b + j]
    BY <2>1 DEF Page
  <2> QED BY <2>1, <2>2, <2>3
<1> QED BY <1>1, <1>3, <1>4, <1>5

\* What page k makes the execution deliver.
LEMMA ItemsFacts ==
  ASSUME NEW k \in 1..LastPage
  PROVE  /\ Items(k) \in Seq(EventSet)
         /\ Len(Items(k)) = Heading + Len(Page(k)) + (IF Streaming /\ k = LastPage THEN 1 ELSE 0)
         /\ \A i \in 1..Len(Items(k)) :
              /\ i <= Heading \/ i > Heading + Len(Page(k)) => Items(k)[i].type # "row"
              /\ i > Heading /\ i <= Heading + Len(Page(k)) =>
                   Items(k)[i] = Event("row", Before(k) + (i - Heading))
<1> DEFINE rows == [j \in DOMAIN Page(k) |-> Event("row", Page(k)[j])]
           eos  == IF k = LastPage THEN << Event("eos", 0) >> ELSE << >>
           page == << Event("page", 0) >>
<1>1. /\ Len(Page(k)) \in Nat /\ Before(k) \in Nat /\ DOMAIN Page(k) = 1..Len(Page(k))
      /\ \A j \in 1..Len(Page(k)) : Page(k)[j] = Before(k) + j
  BY PageFacts, LenProperties
<1>2. /\ rows \in Seq(EventSet) /\ Len(rows) = Len(Page(k))
      /\ \A j \in 1..Len(Page(k)) : rows[j] = Event("row", Before(k) + j)
  BY <1>1 DEF Event, EventSet
<1>3. /\ eos \in Seq(EventSet) /\ Len(eos) = (IF k = LastPage THEN 1 ELSE 0)
      /\ \A j \in 1..Len(eos) : eos[j].type # "row"
  <2>1. CASE k = LastPage
    <3>1. eos = << Event("eos", 0) >>
      BY <2>1
    <3> HIDE DEF eos
    <3> QED BY <2>1, <3>1 DEF Event, EventSet
  <2>2. CASE k # LastPage
    <3>1. eos = << >>
      BY <2>2
    <3> HIDE DEF eos
    <3> QED BY <2>2, <3>1
  <2> QED BY <2>1, <2>2
<1>4. page \in Seq(EventSet) /\ Len(page) = 1 /\ page[1].type # "row"
  BY DEF Event, EventSet
<1>5. Items(k) = IF Streaming THEN (page \o rows) \o eos ELSE rows
  BY DEF Items
<1> HIDE DEF rows, eos, page
<1>8. PICK p \in Seq(EventSet), r \in Seq(EventSet), e \in Seq(EventSet) :
           p = page /\ r = rows /\ e = eos
  BY <1>2, <1>3, <1>4
<1>6. CASE ~Streaming
  BY <1>1, <1>2, <1>5, <1>6 DEF Heading
<1>7. CASE Streaming
  <2>1. PICK a \in Seq(EventSet) :
             /\ a = p \o r
             /\ Len(a) = 1 + Len(Page(k)) /\ a[1].type # "row"
             /\ \A j \in 1..Len(Page(k)) : a[1 + j] = Event("row", Before(k) + j)
    <3>1. PICK a \in Seq(EventSet) : a = p \o r
      BY Joined
    <3>2. /\ Len(p) \in Nat /\ Len(r) \in Nat /\ Len(a) = Len(p) + Len(r)
          /\ \A i \in 1..Len(p) : a[i] = p[i]
          /\ \A i \in 1..Len(r) : a[Len(p) + i] = r[i]
      <4>1. /\ Len(p) \in Nat /\ Len(r) \in Nat
            /\ Len(p \o r) = Len(p) + Len(r)
            /\ \A i \in 1..Len(p) : (p \o r)[i] = p[i]
            /\ \A i \in 1..Len(r) : (p \o r)[Len(p) + i] = r[i]
        BY Joined
      <4> QED BY <3>1, <4>1, Zenon
    <3>3. Len(p) = 1 /\ p[1].type # "row" /\ Len(r) = Len(Page(k))
      BY <1>2, <1>4, <1>8
    <3>4. a[1] = p[1]
      BY <3>2, <3>3
    <3>5. ASSUME NEW j \in 1..Len(Page(k)) PROVE a[1 + j] = Event("row", Before(k) + j)
      BY <1>2, <1>8, <3>2, <3>3
    <3> QED BY <3>1, <3>2, <3>3, <3>4, <3>5
  <2>2. PICK b \in Seq(EventSet) : b = a \o e /\ b = Items(k)
    <3>1. Items(k) = (p \o r) \o e
      BY <1>5, <1>7, <1>8, Zenon
    <3>2. a \o e \in Seq(EventSet)
      BY Joined
    <3> QED BY <2>1, <3>1, <3>2, Zenon
  <2>3. /\ Len(b) = Len(a) + Len(eos) /\ Len(eos) \in Nat /\ Len(a) \in Nat /\ Len(b) \in Nat
        /\ \A i \in 1..Len(a) : b[i] = a[i]
        /\ \A i \in 1..Len(eos) : b[Len(a) + i] = eos[i]
    <3>1. /\ Len(a \o e) = Len(a) + Len(e) /\ Len(e) \in Nat /\ Len(a) \in Nat
          /\ Len(a \o e) \in Nat
          /\ \A i \in 1..Len(a) : (a \o e)[i] = a[i]
          /\ \A i \in 1..Len(e) : (a \o e)[Len(a) + i] = e[i]
      BY Joined
    <3> QED BY <1>8, <2>2, <3>1, Zenon
  <2>4. ASSUME NEW i \in 1..Len(b)
        PROVE  /\ i <= 1 \/ i > 1 + Len(Page(k)) => b[i].type # "row"
               /\ i > 1 /\ i <= 1 + Len(Page(k)) => b[i] = Event("row", Before(k) + (i - 1))
    <3>1. CASE i > Len(a)
      <4>1. PICK j \in 1..Len(eos) : i = Len(a) + j
        <5>1. i - Len(a) \in 1..Len(eos) /\ i = Len(a) + (i - Len(a))
          BY <2>3, <3>1
        <5> QED BY <5>1
      <4>2. b[i] = eos[j]
        BY <2>3, <4>1
      <4> QED BY <1>1, <1>3, <2>1, <3>1, <4>2
    <3>2. CASE i <= Len(a)
      <4>1. b[i] = a[i]
        BY <2>3, <3>2
      <4>2. CASE i = 1
        <5>1. b[i].type # "row"
          BY <2>1, <4>1, <4>2, Zenon
        <5> QED BY <4>2, <5>1
      <4>3. CASE i # 1
        <5>1. PICK j \in 1..Len(Page(k)) : i = 1 + j
          <6>1. i - 1 \in 1..Len(Page(k)) /\ i = 1 + (i - 1)
            BY <1>1, <2>1, <3>2, <4>3
          <6> QED BY <6>1
        <5>2. b[i] = Event("row", Before(k) + j)
          BY <2>1, <4>1, <5>1, Zenon
        <5>3. i - 1 = j /\ ~(i <= 1) /\ ~(i > 1 + Len(Page(k)))
          BY <1>1, <5>1
        <5> QED BY <5>2, <5>3
      <4> QED BY <4>2, <4>3
    <3> QED BY <2>3, <3>1, <3>2
  <2> QED BY <1>1, <1>3, <1>7, <2>1, <2>2, <2>3, <2>4 DEF Heading
<1> QED BY <1>6, <1>7

LEMMA One ==
  ASSUME NEW S, NEW x \in S
  PROVE  << x >> \in Seq(S) /\ Len(<< x >>) = 1 /\ << x >>[1] = x
OBVIOUS

LEMMA FirstEvent ==
  /\ Event("operation", 0) \in EventSet /\ Event("operation", 0).type # "row"
  /\ << Event("operation", 0) >> \in Seq(EventSet) /\ Len(<< Event("operation", 0) >>) = 1
  /\ << Event("operation", 0) >>[1] = Event("operation", 0)
<1>1. Event("operation", 0) \in EventSet /\ Event("operation", 0).type # "row"
  BY DEF Event, EventSet
<1> QED BY <1>1, One

LEMMA BatchFacts ==
  ASSUME NEW k \in 0..LastPage
  PROVE  /\ Batch(k) \in Seq(EventSet) /\ Len(Batch(k)) \in Nat /\ StartOf(k) \in Nat
         /\ RowsUpTo(k, 0) = IF k = 0 THEN 0 ELSE Before(k)
         /\ RowsUpTo(k, Len(Batch(k))) = IF k = 0 THEN 0 ELSE Ends[k]
         /\ \A i \in 0..Len(Batch(k)) : RowsUpTo(k, i) \in Nat /\ RowsUpTo(k, i) <= Ends[LastPage]
         /\ \A i \in 1..Len(Batch(k)) :
              IF Batch(k)[i].type = "row"
                THEN RowsUpTo(k, i) = RowsUpTo(k, i - 1) + 1 /\ Batch(k)[i].row = RowsUpTo(k, i)
                ELSE RowsUpTo(k, i) = RowsUpTo(k, i - 1)
<1>1. CASE k = 0
  <2>1. /\ Batch(k) = << Event("operation", 0) >> /\ StartOf(k) = 0
        /\ \A i : RowsUpTo(k, i) = 0
    BY <1>1 DEF Batch, StartOf, RowsUpTo
  <2>2. Ends[LastPage] \in Nat
    BY PageFacts
  <2>3. Batch(k) \in Seq(EventSet) /\ Len(Batch(k)) = 1 /\ Batch(k)[1].type # "row"
    BY <2>1, FirstEvent, Zenon
  <2>4. \A i \in 1..Len(Batch(k)) : i = 1
    BY <2>3
  <2> QED BY <1>1, <2>1, <2>2, <2>3, <2>4
<1>2. CASE k # 0
  <2>0. k \in 1..LastPage
    BY <1>2, PageFacts
  <2>1. PICK b \in Nat, n \in Nat, h \in {0, 1}, x \in {0, 1} :
          /\ b = Before(k) /\ n = Len(Page(k)) /\ Ends[k] = b + n /\ h = Heading
          /\ x = (IF Streaming /\ k = LastPage THEN 1 ELSE 0)
    <3>1. Before(k) \in Nat /\ Ends[k] \in Nat /\ Before(k) <= Ends[k]
          /\ Len(Page(k)) = Ends[k] - Before(k)
      BY <2>0, PageFacts
    <3>2. Len(Page(k)) \in Nat /\ Ends[k] = Before(k) + Len(Page(k))
      BY <3>1
    <3>3. Heading \in {0, 1} /\ (IF Streaming /\ k = LastPage THEN 1 ELSE 0) \in {0, 1}
      BY DEF Heading
    <3> QED BY <3>1, <3>2, <3>3, Zenon
  <2>2. PICK s \in Seq(EventSet) :
          /\ s = Batch(k) /\ Len(s) \in Nat /\ Len(s) = h + n + x
          /\ \A i \in 1..Len(s) :
               /\ i <= h \/ i > h + n => s[i].type # "row"
               /\ i > h /\ i <= h + n => s[i] = Event("row", b + (i - h))
    <3>1. Batch(k) = Items(k)
      BY <1>2 DEF Batch
    <3>2. Items(k) \in Seq(EventSet) /\ Len(Items(k)) \in Nat
      BY <2>0, ItemsFacts, LenProperties
    <3> QED BY <2>0, <2>1, <3>1, <3>2, ItemsFacts
  <2>3. \A i : RowsUpTo(k, i) = IF i <= h THEN b ELSE IF i <= h + n THEN b + (i - h) ELSE b + n
    BY <1>2, <2>1 DEF RowsUpTo
  <2>4. b + n <= Ends[LastPage] /\ Ends[LastPage] \in Nat
    BY <2>0, <2>1, PageFacts
  <2>5. StartOf(k) \in Nat
    BY <1>2, <2>0, <2>1 DEF StartOf
  <2>6. ASSUME NEW i \in 1..Len(s)
        PROVE  IF s[i].type = "row"
                 THEN RowsUpTo(k, i) = RowsUpTo(k, i - 1) + 1 /\ s[i].row = RowsUpTo(k, i)
                 ELSE RowsUpTo(k, i) = RowsUpTo(k, i - 1)
    <3>1. CASE i > h /\ i <= h + n
      <4>1. s[i].type = "row" /\ s[i].row = b + (i - h)
        BY <2>2, <3>1 DEF Event
      <4> QED BY <2>2, <2>3, <3>1, <4>1
    <3>2. CASE ~(i > h /\ i <= h + n)
      <4>1. s[i].type # "row"
        BY <2>2, <3>2
      <4>2. RowsUpTo(k, i) = RowsUpTo(k, i - 1)
        <5>1. CASE i <= h
          <6>1. i - 1 <= h
            BY <5>1
          <6> QED BY <2>3, <5>1, <6>1
        <5>2. CASE i > h + n
          <6>1. i - 1 <= h => n = 0 /\ i - 1 = h
            BY <5>2
          <6>2. ~(i <= h) /\ ~(i <= h + n)
            BY <5>2
          <6>3. i - 1 > h /\ i - 1 <= h + n => b + ((i - 1) - h) = b + n
            BY <5>2
          <6> QED BY <2>3, <6>1, <6>2, <6>3
        <5> QED BY <3>2, <5>1, <5>2
      <4> QED BY <4>1, <4>2
    <3> QED BY <3>1, <3>2
  <2>7. ASSUME NEW i \in 0..Len(s)
        PROVE  RowsUpTo(k, i) \in Nat /\ RowsUpTo(k, i) <= Ends[LastPage]
    <3>1. i \in Nat
      BY <2>2
    <3>2. RowsUpTo(k, i) = IF i <= h THEN b ELSE IF i <= h + n THEN b + (i - h) ELSE b + n
      BY <2>3
    <3> QED BY <2>4, <3>1, <3>2
  <2>8. RowsUpTo(k, 0) = b /\ RowsUpTo(k, Len(s)) = b + n
    <3>1. RowsUpTo(k, 0) = b
      BY <2>3
    <3>2. PICK l \in Nat : l = Len(s) /\ l = h + n + x
      BY <2>2
    <3>3. RowsUpTo(k, l) = IF l <= h THEN b ELSE IF l <= h + n THEN b + (l - h) ELSE b + n
      BY <2>3
    <3>4. RowsUpTo(k, l) = b + n
      BY <3>2, <3>3
    <3> QED BY <3>1, <3>2, <3>4
  <2> QED BY <1>2, <2>1, <2>2, <2>5, <2>6, <2>7, <2>8
<1> QED BY <1>1, <1>2

\* The batches are laid end to end in the transcript.
LEMMA TranscriptFacts ==
  ASSUME Streaming
  PROVE  /\ Transcript \in Seq(EventSet) /\ Len(Transcript) \in Nat
         /\ \A k \in 0..LastPage :
              /\ StartOf(k) + Len(Batch(k)) = IF k = LastPage THEN Len(Transcript) ELSE StartOf(k + 1)
              /\ StartOf(k) + Len(Batch(k)) <= Len(Transcript)
              /\ \A i \in 1..Len(Batch(k)) : Transcript[StartOf(k) + i] = Batch(k)[i]
<1> DEFINE s == [i \in 1..LastPage |-> Items(i)]
           first == << Event("operation", 0) >>
<1>1. LastPage \in Nat \ {0} /\ Before(1) = 0
  BY PageFacts
<1>2. s \in Seq(Seq(EventSet)) /\ Len(s) = LastPage /\ s # << >>
  <2>1. \A i \in 1..LastPage : Items(i) \in Seq(EventSet)
    BY ItemsFacts
  <2>2. s \in Seq(Seq(EventSet)) /\ Len(s) = LastPage
    BY <1>1, <2>1
  <2> HIDE DEF s
  <2> QED BY <1>1, <2>2, EmptySeq
<1>3. \A k \in 1..LastPage : s[k] = Items(k)
  OBVIOUS
<1>4. Transcript = first \o FlattenSeq(s)
  BY DEF Transcript
<1> HIDE DEF s
<1>5. PICK F \in Seq(EventSet) : F = FlattenSeq(s)
  BY <1>2, FlattenPlaces
<1>6. PICK e : Places(s, e)
  BY <1>2, FlattenPlaces
<1>7. /\ e \in [0..LastPage -> Nat] /\ e[0] = 0 /\ e[LastPage] = Len(F)
      /\ \A k \in 1..LastPage :
           /\ e[k] = e[k - 1] + Len(Items(k)) /\ e[k] <= Len(F)
           /\ \A i \in 1..Len(Items(k)) : F[e[k - 1] + i] = Items(k)[i]
  <2>1. /\ e \in [0..LastPage -> Nat] /\ e[0] = 0 /\ e[LastPage] = Len(F)
        /\ \A k \in 1..LastPage :
             /\ e[k] = e[k - 1] + Len(s[k]) /\ e[k] <= Len(F)
             /\ \A i \in 1..Len(s[k]) : F[e[k - 1] + i] = s[k][i]
    BY <1>2, <1>5, <1>6 DEF Places
  <2> QED BY <1>3, <2>1
<1>8. \A k \in 1..LastPage : Len(Items(k)) = 1 + (Ends[k] - Before(k)) + (IF k = LastPage THEN 1 ELSE 0)
  BY ItemsFacts, PageFacts DEF Heading
<1> DEFINE T == {j \in Nat : j < LastPage => e[j] = j + Before(j + 1)}
<1>9. T = Nat
  <2>1. 0 \in T
    BY <1>1, <1>7
  <2>2. ASSUME NEW j \in T PROVE j + 1 \in T
    <3>0. j \in Nat /\ (j < LastPage => e[j] = j + Before(j + 1))
      OBVIOUS
    <3>1. CASE j + 1 < LastPage
      <4>1. PICK k \in 1..LastPage : k = j + 1
        <5>1. j + 1 \in 1..LastPage
          BY <1>1, <3>0, <3>1
        <5> QED BY <5>1
      <4>2. j < LastPage /\ k - 1 = j /\ k # LastPage /\ j \in Nat
        BY <1>1, <3>0, <3>1, <4>1
      <4>3. e[j] = j + Before(k)
        BY <3>0, <4>1, <4>2
      <4>4. e[k] = e[j] + Len(Items(k))
        <5>1. e[k] = e[k - 1] + Len(Items(k))
          BY <1>7
        <5> QED BY <4>2, <5>1, Zenon
      <4>5. Len(Items(k)) = 1 + (Ends[k] - Before(k)) /\ Before(k + 1) = Ends[k]
            /\ Ends[k] \in Nat /\ Before(k) \in Nat
        <5>2. Before(k + 1) = Ends[k] /\ Ends[k] \in Nat /\ Before(k) \in Nat
          BY <4>2, PageFacts
        <5>1. Len(Items(k)) = 1 + (Ends[k] - Before(k)) + 0 /\ Ends[k] - Before(k) \in Int
          BY <1>8, <4>2, <5>2
        <5> QED BY <5>1, <5>2
      <4>6. e[k] = k + Before(k + 1)
        BY <4>1, <4>2, <4>3, <4>4, <4>5
      <4> QED BY <4>1, <4>6
    <3>2. CASE ~(j + 1 < LastPage)
      BY <3>2
    <3> QED BY <3>1, <3>2
  <2>3. T \subseteq Nat
    OBVIOUS
  <2> HIDE DEF T
  <2> QED BY <2>1, <2>2, <2>3, SetInduction, Zenon
<1>10. ASSUME NEW k \in 1..LastPage
       PROVE  e[k - 1] = (k - 1) + Before(k) /\ StartOf(k) = 1 + e[k - 1] /\ e[k - 1] \in Nat
  <2>1. k - 1 \in Nat /\ k - 1 < LastPage /\ (k - 1) + 1 = k /\ k # 0
    BY <1>1
  <2>2. e[k - 1] = (k - 1) + Before(k)
    <3>1. k - 1 \in T
      BY <1>9, <2>1
    <3> QED BY <2>1, <3>1
  <2>3. Before(k) \in Nat
    BY PageFacts
  <2> HIDE DEF T
  <2> QED BY <2>1, <2>2, <2>3 DEF StartOf
<1> HIDE DEF T
<1>11. PICK o \in Seq(EventSet) : o = first /\ Len(o) = 1 /\ o[1] = Event("operation", 0)
  BY FirstEvent
<1>12. PICK t \in Seq(EventSet) : t = Transcript /\ t = o \o F
  <2>1. o \o F \in Seq(EventSet)
    BY Joined
  <2> QED BY <1>4, <1>5, <1>11, <2>1, Zenon
<1>13. /\ Len(t) = 1 + Len(F) /\ Len(F) \in Nat /\ Len(t) \in Nat
       /\ t[1] = Event("operation", 0)
       /\ \A i \in 1..Len(F) : t[1 + i] = F[i]
  <2>1. /\ Len(o \o F) = Len(o) + Len(F) /\ Len(F) \in Nat /\ Len(o \o F) \in Nat
        /\ \A i \in 1..Len(o) : (o \o F)[i] = o[i]
        /\ \A i \in 1..Len(F) : (o \o F)[Len(o) + i] = F[i]
    BY Joined
  <2>2. /\ Len(t) = Len(o) + Len(F) /\ Len(F) \in Nat /\ Len(t) \in Nat
        /\ \A i \in 1..Len(o) : t[i] = o[i]
        /\ \A i \in 1..Len(F) : t[Len(o) + i] = F[i]
    BY <1>12, <2>1, Zenon
  <2> QED BY <1>11, <2>2
<1>14. ASSUME NEW k \in 0..LastPage
       PROVE  /\ StartOf(k) + Len(Batch(k)) = IF k = LastPage THEN Len(t) ELSE StartOf(k + 1)
              /\ StartOf(k) + Len(Batch(k)) <= Len(t)
              /\ \A i \in 1..Len(Batch(k)) : t[StartOf(k) + i] = Batch(k)[i]
  <2>1. CASE k = 0
    <3>1. /\ StartOf(k) = 0 /\ Batch(k) = << Event("operation", 0) >>
          /\ StartOf(1) = 1
      BY <1>1, <2>1 DEF StartOf, Batch
    <3>2. Len(Batch(k)) = 1 /\ Batch(k)[1] = Event("operation", 0)
      BY <3>1, FirstEvent, Zenon
    <3>3. \A i \in 1..Len(Batch(k)) : i = 1 /\ StartOf(k) + i = 1
      BY <3>1, <3>2
    <3>4. k # LastPage /\ StartOf(k) + Len(Batch(k)) = StartOf(k + 1)
      <4>1. k + 1 = 1 /\ k # LastPage
        BY <1>1, <2>1
      <4>2. StartOf(k + 1) = 1
        BY <3>1, <4>1, Zenon
      <4> QED BY <3>1, <3>2, <4>1, <4>2
    <3>5. StartOf(k) + Len(Batch(k)) <= Len(t)
      BY <1>13, <3>1, <3>2
    <3> QED BY <1>13, <3>2, <3>3, <3>4, <3>5, Zenon
  <2>2. CASE k # 0
    <3>1. k \in 1..LastPage /\ Batch(k) = Items(k)
      BY <1>1, <2>2 DEF Batch
    <3>2. PICK n \in Nat, x \in Nat : n = Len(Items(k)) /\ x = e[k - 1]
      BY <1>10, <3>1, ItemsFacts, LenProperties
    <3>3. /\ StartOf(k) = 1 + x /\ e[k] = x + n /\ e[k] <= Len(F)
          /\ \A i \in 1..n : F[x + i] = Items(k)[i]
      BY <1>7, <1>10, <3>1, <3>2
    <3>4. StartOf(k) + n = IF k = LastPage THEN Len(t) ELSE StartOf(k + 1)
      <4>1. CASE k = LastPage
        BY <1>7, <1>13, <3>3, <4>1
      <4>2. CASE k # LastPage
        <5>1. k + 1 \in 1..LastPage /\ (k + 1) - 1 = k
          BY <1>1, <3>1, <4>2
        <5>2. StartOf(k + 1) = 1 + e[k]
          BY <1>10, <5>1
        <5> QED BY <3>3, <4>2, <5>2
      <4> QED BY <4>1, <4>2
    <3>5. ASSUME NEW i \in 1..n PROVE t[StartOf(k) + i] = Items(k)[i]
      <4>1. x + i \in 1..Len(F) /\ StartOf(k) + i = 1 + (x + i)
        BY <1>13, <3>3
      <4>2. t[1 + (x + i)] = F[x + i]
        BY <1>13, <4>1
      <4> QED BY <3>3, <4>1, <4>2
    <3>6. StartOf(k) + n <= Len(t)
      BY <1>13, <3>3
    <3> QED BY <3>1, <3>2, <3>4, <3>5, <3>6
  <2> QED BY <2>1, <2>2
<1> QED BY <1>12, <1>13, <1>14

(***************************************************************************)
(* One step, conjunct by conjunct                                          *)
(***************************************************************************)
LEMMA TypesKeep ==
  ASSUME Types, ProgressInv, [Next]_vars
  PROVE  Types'
<1>1. CASE BeginExecution
  BY <1>1 DEF Types, ServerTypeOK, Running, Ending, BeginExecution, Begin, GoTo, serverVars,
         runVars, ctxVars, chanVars, consumerVars
<1>2. CASE RefuseExecution
  BY <1>2 DEF Types, ServerTypeOK, Running, Ending, RefuseExecution, Refuse, GoTo, serverVars,
         ctxVars, consumerVars, groupVars
<1>3. CASE Submit
  <2>1. << Event("operation", 0) >> \in Seq(EventSet)
    BY FirstEvent
  <2> QED BY <1>3, <2>1 DEF Types, ServerTypeOK, Running, Ending, Submit, Submitted, SubmitLost,
              GoTo, groupVars, serverVars, ctxVars, chanVars, consumerVars
<1>4. CASE CheckLimits
  BY <1>4 DEF Types, ServerTypeOK, Running, Ending, CheckLimits, GoTo, Fails, executionDone,
         groupVars, serverVars, ctxVars, chanVars, consumerVars
<1>5. CASE FetchNotReady
  BY <1>5 DEF Types, ServerTypeOK, Running, Ending, FetchNotReady, GoTo, groupVars, serverVars,
         ctxVars, chanVars, consumerVars
<1>6. CASE FetchPage
  <2>1. next + 1 \in 1..LastPage
    BY <1>6, PageFacts DEF Types, ProgressInv, Running, FetchPage
  <2>2. Items(next + 1) \in Seq(EventSet) /\ (next + 1 = LastPage) \in BOOLEAN
    BY <2>1, ItemsFacts
  <2>3. lastPage' \in BOOLEAN /\ pending' \in Seq(EventSet)
    BY <1>6, <2>2, Zenon DEF FetchPage
  <2> QED BY <1>6, <2>3 DEF Types, ServerTypeOK, Running, Ending, FetchPage, GoTo, groupVars,
              serverVars, ctxVars, chanVars, consumerVars
<1>7. CASE FetchInvalid
  BY <1>7 DEF Types, ServerTypeOK, Running, Ending, FetchInvalid, Fails, GoTo, groupVars,
         serverVars, ctxVars, chanVars, consumerVars
<1>8. CASE FetchFails
  BY <1>8 DEF Types, ServerTypeOK, Running, Ending, FetchFails, GoTo, Fails, executionDone,
         groupVars, serverVars, ctxVars, chanVars, consumerVars
<1>9. CASE Classify
  BY <1>9 DEF Types, ServerTypeOK, Running, Ending, Classify, Fails, GoTo, groupVars, serverVars,
         ctxVars, chanVars, consumerVars
<1>10. CASE Sleep
  BY <1>10 DEF Types, ServerTypeOK, Running, Ending, Sleep, GoTo, Fails, executionDone, groupVars,
         serverVars, ctxVars, chanVars, consumerVars
<1>11. CASE DeliverOverLimit
  BY <1>11 DEF Types, ServerTypeOK, Running, Ending, DeliverOverLimit, Fails, OverLimit, GoTo,
         groupVars, serverVars, ctxVars, chanVars, consumerVars
<1>12. CASE DeliverCancelled
  <2>1. Head(pending) \in EventSet
    BY <1>12, HeadTailProperties DEF Types, DeliverCancelled
  <2>2. received' \in Seq(Nat)
    BY <1>12, <2>1 DEF Types, EventSet, DeliverCancelled, Count
  <2> QED BY <1>12, <2>2 DEF Types, ServerTypeOK, Running, Ending, DeliverCancelled, Fails, Count,
              OverLimit, GoTo, groupVars, serverVars, ctxVars, chanVars, consumerVars
<1>13. CASE Deliver
  <2>1. Head(pending) \in EventSet /\ Tail(pending) \in Seq(EventSet)
    BY <1>13, HeadTailProperties DEF Types, Deliver
  <2>2. received' \in Seq(Nat)
    BY <1>13, <2>1 DEF Types, EventSet, Deliver, Count
  <2>3. events' \in Seq(EventSet) /\ pending' \in Seq(EventSet)
    BY <1>13, <2>1 DEF Types, Deliver
  <2> QED BY <1>13, <2>2, <2>3 DEF Types, ServerTypeOK, Running, Ending, Deliver, Count,
              OverLimit, groupVars, serverVars, ctxVars, consumerVars
<1>14. CASE PageDelivered
  BY <1>14 DEF Types, ServerTypeOK, Running, Ending, PageDelivered, GoTo, Fails, groupVars,
         serverVars, ctxVars, chanVars, consumerVars
<1>15. CASE CleanupCancel
  BY <1>15 DEF Types, ServerTypeOK, Running, Ending, CleanupCancel, CancelAnswered, CancelLost,
         GoTo, Cancels, AfterCancel, groupVars, serverVars, ctxVars, chanVars, consumerVars
<1>16. CASE CleanupClose
  BY <1>16 DEF Types, ServerTypeOK, Running, Ending, CleanupClose, CloseAnswered, CloseLost, GoTo,
         groupVars, ctxVars, chanVars, consumerVars
<1>17. CASE CloseAfterSuccess
  BY <1>17 DEF Types, ServerTypeOK, Running, Ending, CloseAfterSuccess, CloseAnswered,
         CloseAborted, CloseLost, GoTo, groupVars, ctxVars, chanVars, consumerVars
<1>18. CASE Report
  <2>1. Streaming \in BOOLEAN
    BY DEF Streaming
  <2>2. errsShut' \in BOOLEAN
    BY <1>18, <2>1, Zenon DEF Report
  <2> QED BY <1>18, <2>2 DEF Types, ServerTypeOK, Running, Ending, Report, GoTo, Verdict,
              groupVars, serverVars, runVars, ctxVars, consumerVars
<1>19. CASE ShutEvents
  <2>1. Streaming \in BOOLEAN
    BY DEF Streaming
  <2>2. eventsShut' \in BOOLEAN
    BY <1>19, <2>1, Zenon DEF ShutEvents
  <2> QED BY <1>19, <2>2 DEF Types, ServerTypeOK, Running, Ending, ShutEvents, GoTo, groupVars,
              serverVars, runVars, ctxVars, consumerVars
<1>20. CASE EndExecution
  BY <1>20 DEF Types, ServerTypeOK, Running, Ending, EndExecution, End, GoTo, serverVars, runVars,
         ctxVars, chanVars, consumerVars
<1>21. CASE ReadEvent
  BY <1>21 DEF Types, ServerTypeOK, Running, Ending, ReadEvent, groupVars, serverVars, runVars,
         ctxVars
<1>22. CASE SeeEnd
  BY <1>22 DEF Types, ServerTypeOK, Running, Ending, SeeEnd, groupVars, serverVars, runVars,
         ctxVars, chanVars
<1>23. CASE StopReading
  BY <1>23 DEF Types, ServerTypeOK, Running, Ending, StopReading, groupVars, serverVars, runVars,
         ctxVars, chanVars
<1>24. CASE ContextEnds
  BY <1>24 DEF Types, ServerTypeOK, Running, Ending, ContextEnds, groupVars, serverVars, runVars,
         chanVars, consumerVars
<1>25. CASE LifecycleEnds
  BY <1>25 DEF Types, ServerTypeOK, Running, Ending, LifecycleEnds, groupVars, serverVars,
         runVars, chanVars, consumerVars
<1>26. CASE TimesOut
  BY <1>26 DEF Types, ServerTypeOK, Running, Ending, TimesOut, groupVars, serverVars, runVars,
         chanVars, consumerVars
<1>27. CASE ServerFails
  BY <1>27 DEF Types, ServerTypeOK, Running, Ending, ServerFails, OperationFails, groupVars,
         runVars, ctxVars, chanVars, consumerVars
<1>28. CASE CloseClient
  BY <1>28 DEF Types, ServerTypeOK, Running, Ending, CloseClient, Stop, serverVars, runVars,
         ctxVars, chanVars, consumerVars
<1>29. CASE CloseReturns
  BY <1>29 DEF Types, ServerTypeOK, Running, Ending, CloseReturns, Released, groupVars,
         serverVars, runVars, ctxVars, chanVars, consumerVars
<1>30. CASE CloseTimesOut
  BY <1>30 DEF Types, ServerTypeOK, Running, Ending, CloseTimesOut, groupVars, serverVars,
         runVars, ctxVars, chanVars, consumerVars
<1>31. CASE UNCHANGED vars
  BY <1>31 DEF Types, ServerTypeOK, Running, Ending, vars, groupVars, serverVars, runVars,
         ctxVars, chanVars, consumerVars
<1> QED BY <1>1, <1>2, <1>3, <1>4, <1>5, <1>6, <1>7, <1>8, <1>9, <1>10, <1>11, <1>12, <1>13,
            <1>14, <1>15, <1>16, <1>17, <1>18, <1>19, <1>20, <1>21, <1>22, <1>23, <1>24, <1>25,
            <1>26, <1>27, <1>28, <1>29, <1>30, <1>31 DEF Next, ProducerStep

LEMMA GroupKeeps ==
  ASSUME Types, GroupInv, [Next]_vars
  PROVE  GroupInv'
<1>1. CASE BeginExecution
  BY <1>1 DEF Types, Running, Ending, GroupInv, ClientCloseWaits, BeginExecution, Begin, GoTo,
         serverVars, runVars, ctxVars, chanVars, consumerVars
<1>2. CASE RefuseExecution
  BY <1>2 DEF Types, Running, Ending, GroupInv, ClientCloseWaits, RefuseExecution, Refuse, GoTo,
         serverVars, ctxVars, consumerVars, groupVars
<1>3. CASE Submit
  BY <1>3 DEF Types, Running, Ending, GroupInv, ClientCloseWaits, Submit, Submitted, SubmitLost,
         GoTo, groupVars, serverVars, ctxVars, chanVars, consumerVars
<1>4. CASE CheckLimits
  BY <1>4 DEF Types, Running, Ending, GroupInv, ClientCloseWaits, CheckLimits, GoTo, Fails,
         executionDone, groupVars, serverVars, ctxVars, chanVars, consumerVars
<1>5. CASE FetchNotReady
  BY <1>5 DEF Types, Running, Ending, GroupInv, ClientCloseWaits, FetchNotReady, GoTo, groupVars,
         serverVars, ctxVars, chanVars, consumerVars
<1>6. CASE FetchPage
  BY <1>6 DEF Types, Running, Ending, GroupInv, ClientCloseWaits, FetchPage, GoTo, groupVars,
         serverVars, ctxVars, chanVars, consumerVars
<1>7. CASE FetchInvalid
  BY <1>7 DEF Types, Running, Ending, GroupInv, ClientCloseWaits, FetchInvalid, Fails, GoTo,
         groupVars, serverVars, ctxVars, chanVars, consumerVars
<1>8. CASE FetchFails
  BY <1>8 DEF Types, Running, Ending, GroupInv, ClientCloseWaits, FetchFails, GoTo, Fails,
         executionDone, groupVars, serverVars, ctxVars, chanVars, consumerVars
<1>9. CASE Classify
  BY <1>9 DEF Types, Running, Ending, GroupInv, ClientCloseWaits, Classify, Fails, GoTo,
         groupVars, serverVars, ctxVars, chanVars, consumerVars
<1>10. CASE Sleep
  BY <1>10 DEF Types, Running, Ending, GroupInv, ClientCloseWaits, Sleep, GoTo, Fails,
         executionDone, groupVars, serverVars, ctxVars, chanVars, consumerVars
<1>11. CASE DeliverOverLimit
  BY <1>11 DEF Types, Running, Ending, GroupInv, ClientCloseWaits, DeliverOverLimit, Fails,
         OverLimit, GoTo, groupVars, serverVars, ctxVars, chanVars, consumerVars
<1>12. CASE DeliverCancelled
  BY <1>12 DEF Types, Running, Ending, GroupInv, ClientCloseWaits, DeliverCancelled, Fails, Count,
         OverLimit, GoTo, groupVars, serverVars, ctxVars, chanVars, consumerVars
<1>13. CASE Deliver
  BY <1>13 DEF Types, Running, Ending, GroupInv, ClientCloseWaits, Deliver, Count, OverLimit,
         groupVars, serverVars, ctxVars, consumerVars
<1>14. CASE PageDelivered
  BY <1>14 DEF Types, Running, Ending, GroupInv, ClientCloseWaits, PageDelivered, GoTo, Fails,
         groupVars, serverVars, ctxVars, chanVars, consumerVars
<1>15. CASE CleanupCancel
  BY <1>15 DEF Types, Running, Ending, GroupInv, ClientCloseWaits, CleanupCancel, CancelAnswered,
         CancelLost, GoTo, Cancels, AfterCancel, groupVars, serverVars, ctxVars, chanVars,
         consumerVars
<1>16. CASE CleanupClose
  BY <1>16 DEF Types, Running, Ending, GroupInv, ClientCloseWaits, CleanupClose, CloseAnswered,
         CloseLost, GoTo, groupVars, ctxVars, chanVars, consumerVars
<1>17. CASE CloseAfterSuccess
  BY <1>17 DEF Types, Running, Ending, GroupInv, ClientCloseWaits, CloseAfterSuccess,
         CloseAnswered, CloseAborted, CloseLost, GoTo, groupVars, ctxVars, chanVars, consumerVars
<1>18. CASE Report
  BY <1>18 DEF Types, Running, Ending, GroupInv, ClientCloseWaits, Report, GoTo, Verdict,
         groupVars, serverVars, runVars, ctxVars, consumerVars
<1>19. CASE ShutEvents
  BY <1>19 DEF Types, Running, Ending, GroupInv, ClientCloseWaits, ShutEvents, GoTo, groupVars,
         serverVars, runVars, ctxVars, consumerVars
<1>20. CASE EndExecution
  BY <1>20 DEF Types, Running, Ending, GroupInv, ClientCloseWaits, EndExecution, End, GoTo,
         serverVars, runVars, ctxVars, chanVars, consumerVars
<1>21. CASE ReadEvent
  BY <1>21 DEF Types, Running, Ending, GroupInv, ClientCloseWaits, ReadEvent, groupVars,
         serverVars, runVars, ctxVars
<1>22. CASE SeeEnd
  BY <1>22 DEF Types, Running, Ending, GroupInv, ClientCloseWaits, SeeEnd, groupVars, serverVars,
         runVars, ctxVars, chanVars
<1>23. CASE StopReading
  BY <1>23 DEF Types, Running, Ending, GroupInv, ClientCloseWaits, StopReading, groupVars,
         serverVars, runVars, ctxVars, chanVars
<1>24. CASE ContextEnds
  BY <1>24 DEF Types, Running, Ending, GroupInv, ClientCloseWaits, ContextEnds, groupVars,
         serverVars, runVars, chanVars, consumerVars
<1>25. CASE LifecycleEnds
  BY <1>25 DEF Types, Running, Ending, GroupInv, ClientCloseWaits, LifecycleEnds, groupVars,
         serverVars, runVars, chanVars, consumerVars
<1>26. CASE TimesOut
  BY <1>26 DEF Types, Running, Ending, GroupInv, ClientCloseWaits, TimesOut, groupVars,
         serverVars, runVars, chanVars, consumerVars
<1>27. CASE ServerFails
  BY <1>27 DEF Types, Running, Ending, GroupInv, ClientCloseWaits, ServerFails, OperationFails,
         groupVars, runVars, ctxVars, chanVars, consumerVars
<1>28. CASE CloseClient
  BY <1>28 DEF Types, Running, Ending, GroupInv, ClientCloseWaits, CloseClient, Stop, serverVars,
         runVars, ctxVars, chanVars, consumerVars
<1>29. CASE CloseReturns
  BY <1>29 DEF Types, Running, Ending, GroupInv, ClientCloseWaits, CloseReturns, Released,
         groupVars, serverVars, runVars, ctxVars, chanVars, consumerVars
<1>30. CASE CloseTimesOut
  BY <1>30 DEF Types, Running, Ending, GroupInv, ClientCloseWaits, CloseTimesOut, groupVars,
         serverVars, runVars, ctxVars, chanVars, consumerVars
<1>31. CASE UNCHANGED vars
  BY <1>31 DEF Types, Running, Ending, GroupInv, ClientCloseWaits, vars, groupVars, serverVars,
         runVars, ctxVars, chanVars, consumerVars
<1> QED BY <1>1, <1>2, <1>3, <1>4, <1>5, <1>6, <1>7, <1>8, <1>9, <1>10, <1>11, <1>12, <1>13,
            <1>14, <1>15, <1>16, <1>17, <1>18, <1>19, <1>20, <1>21, <1>22, <1>23, <1>24, <1>25,
            <1>26, <1>27, <1>28, <1>29, <1>30, <1>31 DEF Next, ProducerStep

LEMMA ReleaseKeeps ==
  ASSUME Types, ReleaseInv, [Next]_vars
  PROVE  ReleaseInv'
<1>1. CASE BeginExecution
  BY <1>1 DEF Types, ServerTypeOK, Running, Ending, ReleaseInv, BeginExecution, Begin, GoTo,
         serverVars, runVars, ctxVars, chanVars, consumerVars
<1>2. CASE RefuseExecution
  BY <1>2 DEF Types, ServerTypeOK, Running, Ending, ReleaseInv, RefuseExecution, Refuse, GoTo,
         serverVars, ctxVars, consumerVars, groupVars
<1>3. CASE Submit
  BY <1>3 DEF Types, ServerTypeOK, Running, Ending, ReleaseInv, Submit, Submitted, SubmitLost,
         GoTo, groupVars, serverVars, ctxVars, chanVars, consumerVars
<1>4. CASE CheckLimits
  BY <1>4 DEF Types, ServerTypeOK, Running, Ending, ReleaseInv, CheckLimits, GoTo, Fails,
         executionDone, groupVars, serverVars, ctxVars, chanVars, consumerVars
<1>5. CASE FetchNotReady
  BY <1>5 DEF Types, ServerTypeOK, Running, Ending, ReleaseInv, FetchNotReady, GoTo, groupVars,
         serverVars, ctxVars, chanVars, consumerVars
<1>6. CASE FetchPage
  BY <1>6 DEF Types, ServerTypeOK, Running, Ending, ReleaseInv, FetchPage, GoTo, groupVars,
         serverVars, ctxVars, chanVars, consumerVars
<1>7. CASE FetchInvalid
  BY <1>7 DEF Types, ServerTypeOK, Running, Ending, ReleaseInv, FetchInvalid, Fails, GoTo,
         groupVars, serverVars, ctxVars, chanVars, consumerVars
<1>8. CASE FetchFails
  BY <1>8 DEF Types, ServerTypeOK, Running, Ending, ReleaseInv, FetchFails, GoTo, Fails,
         executionDone, groupVars, serverVars, ctxVars, chanVars, consumerVars
<1>9. CASE Classify
  BY <1>9 DEF Types, ServerTypeOK, Running, Ending, ReleaseInv, Classify, Fails, GoTo, groupVars,
         serverVars, ctxVars, chanVars, consumerVars
<1>10. CASE Sleep
  BY <1>10 DEF Types, ServerTypeOK, Running, Ending, ReleaseInv, Sleep, GoTo, Fails,
         executionDone, groupVars, serverVars, ctxVars, chanVars, consumerVars
<1>11. CASE DeliverOverLimit
  BY <1>11 DEF Types, ServerTypeOK, Running, Ending, ReleaseInv, DeliverOverLimit, Fails,
         OverLimit, GoTo, groupVars, serverVars, ctxVars, chanVars, consumerVars
<1>12. CASE DeliverCancelled
  BY <1>12 DEF Types, ServerTypeOK, Running, Ending, ReleaseInv, DeliverCancelled, Fails, Count,
         OverLimit, GoTo, groupVars, serverVars, ctxVars, chanVars, consumerVars
<1>13. CASE Deliver
  BY <1>13 DEF Types, ServerTypeOK, Running, Ending, ReleaseInv, Deliver, Count, OverLimit,
         groupVars, serverVars, ctxVars, consumerVars
<1>14. CASE PageDelivered
  BY <1>14 DEF Types, ServerTypeOK, Running, Ending, ReleaseInv, PageDelivered, GoTo, Fails,
         groupVars, serverVars, ctxVars, chanVars, consumerVars
<1>15. CASE CleanupCancel
  BY <1>15 DEF Types, ServerTypeOK, Running, Ending, ReleaseInv, CleanupCancel, CancelAnswered,
         CancelLost, GoTo, Cancels, AfterCancel, groupVars, serverVars, ctxVars, chanVars,
         consumerVars
<1>16. CASE CleanupClose
  BY <1>16 DEF Types, ServerTypeOK, Running, Ending, ReleaseInv, CleanupClose, CloseAnswered,
         CloseLost, GoTo, groupVars, ctxVars, chanVars, consumerVars
<1>17. CASE CloseAfterSuccess
  BY <1>17 DEF Types, ServerTypeOK, Running, Ending, ReleaseInv, CloseAfterSuccess, CloseAnswered,
         CloseAborted, CloseLost, GoTo, groupVars, ctxVars, chanVars, consumerVars
<1>18. CASE Report
  BY <1>18 DEF Types, ServerTypeOK, Running, Ending, ReleaseInv, Report, GoTo, Verdict, groupVars,
         serverVars, runVars, ctxVars, consumerVars
<1>19. CASE ShutEvents
  BY <1>19 DEF Types, ServerTypeOK, Running, Ending, ReleaseInv, ShutEvents, GoTo, groupVars,
         serverVars, runVars, ctxVars, consumerVars
<1>20. CASE EndExecution
  BY <1>20 DEF Types, ServerTypeOK, Running, Ending, ReleaseInv, EndExecution, End, GoTo,
         serverVars, runVars, ctxVars, chanVars, consumerVars
<1>21. CASE ReadEvent
  BY <1>21 DEF Types, ServerTypeOK, Running, Ending, ReleaseInv, ReadEvent, groupVars, serverVars,
         runVars, ctxVars
<1>22. CASE SeeEnd
  BY <1>22 DEF Types, ServerTypeOK, Running, Ending, ReleaseInv, SeeEnd, groupVars, serverVars,
         runVars, ctxVars, chanVars
<1>23. CASE StopReading
  BY <1>23 DEF Types, ServerTypeOK, Running, Ending, ReleaseInv, StopReading, groupVars,
         serverVars, runVars, ctxVars, chanVars
<1>24. CASE ContextEnds
  BY <1>24 DEF Types, ServerTypeOK, Running, Ending, ReleaseInv, ContextEnds, groupVars,
         serverVars, runVars, chanVars, consumerVars
<1>25. CASE LifecycleEnds
  BY <1>25 DEF Types, ServerTypeOK, Running, Ending, ReleaseInv, LifecycleEnds, groupVars,
         serverVars, runVars, chanVars, consumerVars
<1>26. CASE TimesOut
  BY <1>26 DEF Types, ServerTypeOK, Running, Ending, ReleaseInv, TimesOut, groupVars, serverVars,
         runVars, chanVars, consumerVars
<1>27. CASE ServerFails
  BY <1>27 DEF Types, ServerTypeOK, Running, Ending, ReleaseInv, ServerFails, OperationFails,
         groupVars, runVars, ctxVars, chanVars, consumerVars
<1>28. CASE CloseClient
  BY <1>28 DEF Types, ServerTypeOK, Running, Ending, ReleaseInv, CloseClient, Stop, serverVars,
         runVars, ctxVars, chanVars, consumerVars
<1>29. CASE CloseReturns
  BY <1>29 DEF Types, ServerTypeOK, Running, Ending, ReleaseInv, CloseReturns, Released,
         groupVars, serverVars, runVars, ctxVars, chanVars, consumerVars
<1>30. CASE CloseTimesOut
  BY <1>30 DEF Types, ServerTypeOK, Running, Ending, ReleaseInv, CloseTimesOut, groupVars,
         serverVars, runVars, ctxVars, chanVars, consumerVars
<1>31. CASE UNCHANGED vars
  BY <1>31 DEF Types, ServerTypeOK, Running, Ending, ReleaseInv, vars, groupVars, serverVars,
         runVars, ctxVars, chanVars, consumerVars
<1> QED BY <1>1, <1>2, <1>3, <1>4, <1>5, <1>6, <1>7, <1>8, <1>9, <1>10, <1>11, <1>12, <1>13,
            <1>14, <1>15, <1>16, <1>17, <1>18, <1>19, <1>20, <1>21, <1>22, <1>23, <1>24, <1>25,
            <1>26, <1>27, <1>28, <1>29, <1>30, <1>31 DEF Next, ProducerStep

LEMMA ReportKeeps ==
  ASSUME Types, ReleaseInv, ReportInv, [Next]_vars
  PROVE  ReportInv'
<1>1. CASE BeginExecution
  BY <1>1 DEF Types, ServerTypeOK, Running, Ending, ReleaseInv, ReportInv, Verdict, Streaming,
         BeginExecution, Begin, GoTo, serverVars, runVars, ctxVars, chanVars, consumerVars
<1>2. CASE RefuseExecution
  BY <1>2 DEF Types, ServerTypeOK, Running, Ending, ReleaseInv, ReportInv, Verdict, Streaming,
         RefuseExecution, Refuse, GoTo, serverVars, ctxVars, consumerVars, groupVars
<1>3. CASE Submit
  BY <1>3 DEF Types, ServerTypeOK, Running, Ending, ReleaseInv, ReportInv, Verdict, Streaming,
         Submit, Submitted, SubmitLost, GoTo, groupVars, serverVars, ctxVars, chanVars, consumerVars
<1>4. CASE CheckLimits
  BY <1>4 DEF Types, ServerTypeOK, Running, Ending, ReleaseInv, ReportInv, Verdict, Streaming,
         CheckLimits, GoTo, Fails, executionDone, groupVars, serverVars, ctxVars, chanVars,
         consumerVars
<1>5. CASE FetchNotReady
  BY <1>5 DEF Types, ServerTypeOK, Running, Ending, ReleaseInv, ReportInv, Verdict, Streaming,
         FetchNotReady, GoTo, groupVars, serverVars, ctxVars, chanVars, consumerVars
<1>6. CASE FetchPage
  BY <1>6 DEF Types, ServerTypeOK, Running, Ending, ReleaseInv, ReportInv, Verdict, Streaming,
         FetchPage, GoTo, groupVars, serverVars, ctxVars, chanVars, consumerVars
<1>7. CASE FetchInvalid
  BY <1>7 DEF Types, ServerTypeOK, Running, Ending, ReleaseInv, ReportInv, Verdict, Streaming,
         FetchInvalid, Fails, GoTo, groupVars, serverVars, ctxVars, chanVars, consumerVars
<1>8. CASE FetchFails
  BY <1>8 DEF Types, ServerTypeOK, Running, Ending, ReleaseInv, ReportInv, Verdict, Streaming,
         FetchFails, GoTo, Fails, executionDone, groupVars, serverVars, ctxVars, chanVars,
         consumerVars
<1>9. CASE Classify
  BY <1>9 DEF Types, ServerTypeOK, Running, Ending, ReleaseInv, ReportInv, Verdict, Streaming,
         Classify, Fails, GoTo, groupVars, serverVars, ctxVars, chanVars, consumerVars
<1>10. CASE Sleep
  BY <1>10 DEF Types, ServerTypeOK, Running, Ending, ReleaseInv, ReportInv, Verdict, Streaming,
         Sleep, GoTo, Fails, executionDone, groupVars, serverVars, ctxVars, chanVars, consumerVars
<1>11. CASE DeliverOverLimit
  BY <1>11 DEF Types, ServerTypeOK, Running, Ending, ReleaseInv, ReportInv, Verdict, Streaming,
         DeliverOverLimit, Fails, OverLimit, GoTo, groupVars, serverVars, ctxVars, chanVars,
         consumerVars
<1>12. CASE DeliverCancelled
  BY <1>12 DEF Types, ServerTypeOK, Running, Ending, ReleaseInv, ReportInv, Verdict, Streaming,
         DeliverCancelled, Fails, Count, OverLimit, GoTo, groupVars, serverVars, ctxVars,
         chanVars, consumerVars
<1>13. CASE Deliver
  BY <1>13 DEF Types, ServerTypeOK, Running, Ending, ReleaseInv, ReportInv, Verdict, Streaming,
         Deliver, Count, OverLimit, groupVars, serverVars, ctxVars, consumerVars
<1>14. CASE PageDelivered
  BY <1>14 DEF Types, ServerTypeOK, Running, Ending, ReleaseInv, ReportInv, Verdict, Streaming,
         PageDelivered, GoTo, Fails, groupVars, serverVars, ctxVars, chanVars, consumerVars
<1>15. CASE CleanupCancel
  BY <1>15 DEF Types, ServerTypeOK, Running, Ending, ReleaseInv, ReportInv, Verdict, Streaming,
         CleanupCancel, CancelAnswered, CancelLost, GoTo, Cancels, AfterCancel, groupVars,
         serverVars, ctxVars, chanVars, consumerVars
<1>16. CASE CleanupClose
  BY <1>16 DEF Types, ServerTypeOK, Running, Ending, ReleaseInv, ReportInv, Verdict, Streaming,
         CleanupClose, CloseAnswered, CloseLost, GoTo, groupVars, ctxVars, chanVars, consumerVars
<1>17. CASE CloseAfterSuccess
  BY <1>17 DEF Types, ServerTypeOK, Running, Ending, ReleaseInv, ReportInv, Verdict, Streaming,
         CloseAfterSuccess, CloseAnswered, CloseAborted, CloseLost, GoTo, groupVars, ctxVars,
         chanVars, consumerVars
<1>18. CASE Report
  <2>1. errsShut' <=> Streaming
    BY <1>18, Zenon DEF Report
  <2>2. Streaming' <=> Streaming
    BY <1>18 DEF Streaming, Report, runVars
  <2> QED BY <1>18, <2>1, <2>2 DEF Types, ServerTypeOK, Running, Ending, ReportInv, Verdict,
              Report, GoTo, runVars, consumerVars
<1>19. CASE ShutEvents
  <2>1. eventsShut' <=> Streaming
    BY <1>19, Zenon DEF ShutEvents
  <2>2. errsShut' <=> errsShut
    BY <1>19 DEF ShutEvents
  <2>3. Streaming => errsShut
    BY <1>19 DEF ReportInv, ShutEvents
  <2>4. Streaming' <=> Streaming
    BY <1>19 DEF Streaming, ShutEvents, runVars
  <2> QED BY <1>19, <2>1, <2>2, <2>3, <2>4 DEF Types, ServerTypeOK, Running, Ending, ReportInv,
              Verdict, ShutEvents, GoTo, runVars, consumerVars
<1>20. CASE EndExecution
  BY <1>20 DEF Types, ServerTypeOK, Running, Ending, ReleaseInv, ReportInv, Verdict, Streaming,
         EndExecution, End, GoTo, serverVars, runVars, ctxVars, chanVars, consumerVars
<1>21. CASE ReadEvent
  BY <1>21 DEF Types, ServerTypeOK, Running, Ending, ReleaseInv, ReportInv, Verdict, Streaming,
         ReadEvent, groupVars, serverVars, runVars, ctxVars
<1>22. CASE SeeEnd
  BY <1>22 DEF Types, ServerTypeOK, Running, Ending, ReleaseInv, ReportInv, Verdict, Streaming,
         SeeEnd, groupVars, serverVars, runVars, ctxVars, chanVars
<1>23. CASE StopReading
  BY <1>23 DEF Types, ServerTypeOK, Running, Ending, ReleaseInv, ReportInv, Verdict, Streaming,
         StopReading, groupVars, serverVars, runVars, ctxVars, chanVars
<1>24. CASE ContextEnds
  BY <1>24 DEF Types, ServerTypeOK, Running, Ending, ReleaseInv, ReportInv, Verdict, Streaming,
         ContextEnds, groupVars, serverVars, runVars, chanVars, consumerVars
<1>25. CASE LifecycleEnds
  BY <1>25 DEF Types, ServerTypeOK, Running, Ending, ReleaseInv, ReportInv, Verdict, Streaming,
         LifecycleEnds, groupVars, serverVars, runVars, chanVars, consumerVars
<1>26. CASE TimesOut
  BY <1>26 DEF Types, ServerTypeOK, Running, Ending, ReleaseInv, ReportInv, Verdict, Streaming,
         TimesOut, groupVars, serverVars, runVars, chanVars, consumerVars
<1>27. CASE ServerFails
  BY <1>27 DEF Types, ServerTypeOK, Running, Ending, ReleaseInv, ReportInv, Verdict, Streaming,
         ServerFails, OperationFails, groupVars, runVars, ctxVars, chanVars, consumerVars
<1>28. CASE CloseClient
  BY <1>28 DEF Types, ServerTypeOK, Running, Ending, ReleaseInv, ReportInv, Verdict, Streaming,
         CloseClient, Stop, serverVars, runVars, ctxVars, chanVars, consumerVars
<1>29. CASE CloseReturns
  BY <1>29 DEF Types, ServerTypeOK, Running, Ending, ReleaseInv, ReportInv, Verdict, Streaming,
         CloseReturns, Released, groupVars, serverVars, runVars, ctxVars, chanVars, consumerVars
<1>30. CASE CloseTimesOut
  BY <1>30 DEF Types, ServerTypeOK, Running, Ending, ReleaseInv, ReportInv, Verdict, Streaming,
         CloseTimesOut, groupVars, serverVars, runVars, ctxVars, chanVars, consumerVars
<1>31. CASE UNCHANGED vars
  BY <1>31 DEF Types, ServerTypeOK, Running, Ending, ReleaseInv, ReportInv, Verdict, Streaming,
         vars, groupVars, serverVars, runVars, ctxVars, chanVars, consumerVars
<1> QED BY <1>1, <1>2, <1>3, <1>4, <1>5, <1>6, <1>7, <1>8, <1>9, <1>10, <1>11, <1>12, <1>13,
            <1>14, <1>15, <1>16, <1>17, <1>18, <1>19, <1>20, <1>21, <1>22, <1>23, <1>24, <1>25,
            <1>26, <1>27, <1>28, <1>29, <1>30, <1>31 DEF Next, ProducerStep

(***************************************************************************)
(* What a step does to the events that are sent                            *)
(***************************************************************************)
LEMMA SentAppend ==
  ASSUME NEW S, NEW a \in Seq(S), NEW b \in Seq(S), NEW x \in S
  PROVE  a \o Append(b, x) = Append(a \o b, x)
<1>1. PICK c \in Seq(S) : c = << x >>
  BY One
<1>2. (a \o b) \o c = a \o (b \o c)
  BY ConcatAssociative
<1>3. Append(b, x) = b \o c
  BY <1>1, AppendIsConcat, Zenon
<1>4. Append(a \o b, x) = (a \o b) \o c
  <2>1. a \o b \in Seq(S)
    BY Joined
  <2>2. PICK d \in Seq(S) : d = a \o b
    BY <2>1
  <2>3. Append(d, x) = d \o << x >>
    BY AppendIsConcat
  <2> QED BY <1>1, <2>2, <2>3, Zenon
<1> QED BY <1>2, <1>3, <1>4, Zenon

LEMMA SentMoves ==
  ASSUME NEW S, NEW a \in Seq(S), NEW b \in Seq(S), b # << >>
  PROVE  Append(a, Head(b)) \o Tail(b) = a \o b
<1>1. PICK h \in S, t \in Seq(S) :
        /\ h = Head(b) /\ t = Tail(b) /\ Len(t) = Len(b) - 1
        /\ \A i \in 1..Len(t) : t[i] = b[i + 1]
  <2>1. /\ Head(b) \in S /\ Tail(b) \in Seq(S) /\ Len(Tail(b)) = Len(b) - 1
        /\ \A i \in 1..Len(Tail(b)) : Tail(b)[i] = b[i + 1]
    BY HeadTailProperties
  <2>2. PICK t \in Seq(S) : t = Tail(b)
    BY <2>1
  <2>3. Len(t) = Len(b) - 1 /\ \A i \in 1..Len(t) : t[i] = b[i + 1]
    BY <2>1, <2>2, Zenon
  <2> QED BY <2>1, <2>2, <2>3, Zenon
<1>2. PICK c \in Seq(S) : c = << h >> /\ Len(c) = 1 /\ c[1] = h
  BY One
<1>3. c \o t = b
  <2>1. PICK d \in Seq(S) : d = c \o t
    BY Joined
  <2>2. /\ Len(d) = Len(c) + Len(t) /\ Len(t) \in Nat
        /\ \A i \in 1..Len(c) : d[i] = c[i]
        /\ \A i \in 1..Len(t) : d[Len(c) + i] = t[i]
    <3>1. Len(c \o t) = Len(c) + Len(t) /\ Len(t) \in Nat
      BY Joined
    <3>2. \A i \in 1..Len(c) : (c \o t)[i] = c[i]
      BY Joined
    <3>3. \A i \in 1..Len(t) : (c \o t)[Len(c) + i] = t[i]
      BY Joined
    <3> QED BY <2>1, <3>1, <3>2, <3>3, Zenon
  <2>3. b[1] = h /\ Len(b) \in Nat
    BY <1>1, LenProperties
  <2>4. Len(d) = Len(b)
    BY <1>1, <1>2, <2>2, <2>3
  <2>5. ASSUME NEW i \in 1..Len(d) PROVE d[i] = b[i]
    <3>1. CASE i = 1
      BY <1>2, <2>2, <2>3, <3>1
    <3>2. CASE i # 1
      <4>1. i - 1 \in 1..Len(t) /\ Len(c) + (i - 1) = i /\ (i - 1) + 1 = i
        BY <1>2, <2>2, <3>2
      <4>2. d[Len(c) + (i - 1)] = t[i - 1] /\ t[i - 1] = b[(i - 1) + 1]
        BY <1>1, <2>2, <4>1
      <4> QED BY <4>1, <4>2
    <3> QED BY <3>1, <3>2
  <2>6. d = b
    BY <2>4, <2>5, SeqEqual
  <2> QED BY <2>1, <2>6, Zenon
<1>4. Append(a, h) = a \o c
  BY <1>2, AppendIsConcat, Zenon
<1>5. (a \o c) \o t = a \o (c \o t)
  BY ConcatAssociative
<1> QED BY <1>1, <1>3, <1>4, <1>5, Zenon

\* Which steps touch the call, the events and the rows.
LEMMA Frame ==
  ASSUME [Next]_vars
  PROVE  /\ call' = call
         /\ UNCHANGED << taken, events >> \/ Deliver \/ ReadEvent
         /\ UNCHANGED received \/ Deliver \/ DeliverCancelled
<1>1. CASE BeginExecution
  BY <1>1 DEF BeginExecution, runVars, chanVars, consumerVars
<1>2. CASE RefuseExecution
  BY <1>2 DEF RefuseExecution, runVars, chanVars, consumerVars
<1>3. CASE Submit
  BY <1>3 DEF Submit, runVars, chanVars, consumerVars
<1>4. CASE CheckLimits
  BY <1>4 DEF CheckLimits, runVars, chanVars, consumerVars
<1>5. CASE FetchNotReady
  BY <1>5 DEF FetchNotReady, runVars, chanVars, consumerVars
<1>6. CASE FetchPage
  BY <1>6 DEF FetchPage, runVars, chanVars, consumerVars
<1>7. CASE FetchInvalid
  BY <1>7 DEF FetchInvalid, runVars, chanVars, consumerVars
<1>8. CASE FetchFails
  BY <1>8 DEF FetchFails, runVars, chanVars, consumerVars
<1>9. CASE Classify
  BY <1>9 DEF Classify, runVars, chanVars, consumerVars
<1>10. CASE Sleep
  BY <1>10 DEF Sleep, runVars, chanVars, consumerVars
<1>11. CASE DeliverOverLimit
  BY <1>11 DEF DeliverOverLimit, runVars, chanVars, consumerVars
<1>12. CASE DeliverCancelled
  BY <1>12 DEF DeliverCancelled, runVars, chanVars, consumerVars
<1>13. CASE Deliver
  BY <1>13 DEF Deliver
<1>14. CASE PageDelivered
  BY <1>14 DEF PageDelivered, runVars, chanVars, consumerVars
<1>15. CASE CleanupCancel
  BY <1>15 DEF CleanupCancel, runVars, chanVars, consumerVars
<1>16. CASE CleanupClose
  BY <1>16 DEF CleanupClose, runVars, chanVars, consumerVars
<1>17. CASE CloseAfterSuccess
  BY <1>17 DEF CloseAfterSuccess, runVars, chanVars, consumerVars
<1>18. CASE Report
  BY <1>18 DEF Report, runVars, chanVars, consumerVars
<1>19. CASE ShutEvents
  BY <1>19 DEF ShutEvents, runVars, chanVars, consumerVars
<1>20. CASE EndExecution
  BY <1>20 DEF EndExecution, runVars, chanVars, consumerVars
<1>21. CASE ReadEvent
  BY <1>21 DEF ReadEvent, runVars, chanVars, consumerVars
<1>22. CASE SeeEnd
  BY <1>22 DEF SeeEnd, runVars, chanVars, consumerVars
<1>23. CASE StopReading
  BY <1>23 DEF StopReading, runVars, chanVars, consumerVars
<1>24. CASE ContextEnds
  BY <1>24 DEF ContextEnds, runVars, chanVars, consumerVars
<1>25. CASE LifecycleEnds
  BY <1>25 DEF LifecycleEnds, runVars, chanVars, consumerVars
<1>26. CASE TimesOut
  BY <1>26 DEF TimesOut, runVars, chanVars, consumerVars
<1>27. CASE ServerFails
  BY <1>27 DEF ServerFails, runVars, chanVars, consumerVars
<1>28. CASE CloseClient
  BY <1>28 DEF CloseClient, runVars, chanVars, consumerVars
<1>29. CASE CloseReturns
  BY <1>29 DEF CloseReturns, runVars, chanVars, consumerVars
<1>30. CASE CloseTimesOut
  BY <1>30 DEF CloseTimesOut, runVars, chanVars, consumerVars
<1>31. CASE UNCHANGED vars
  BY <1>31 DEF vars, runVars, chanVars, consumerVars
<1> QED BY <1>1, <1>2, <1>3, <1>4, <1>5, <1>6, <1>7, <1>8, <1>9, <1>10, <1>11, <1>12, <1>13,
            <1>14, <1>15, <1>16, <1>17, <1>18, <1>19, <1>20, <1>21, <1>22, <1>23, <1>24, <1>25,
            <1>26, <1>27, <1>28, <1>29, <1>30, <1>31 DEF Next, ProducerStep

\* Nothing that depends on the call alone ever changes.
LEMMA SameCall ==
  ASSUME [Next]_vars
  PROVE  /\ call' = call /\ (Streaming' <=> Streaming) /\ Transcript' = Transcript
         /\ \A k, i : Batch(k)' = Batch(k) /\ RowsUpTo(k, i)' = RowsUpTo(k, i)
<1>1. call' = call
  BY Frame
<1>2. (Streaming' <=> Streaming) /\ Heading' = Heading
  BY <1>1 DEF Streaming, Heading
<1>3. \A k : Items(k)' = Items(k)
  BY <1>1 DEF Items, Streaming
<1>4. Transcript' = Transcript
  BY <1>3 DEF Transcript
<1> QED BY <1>1, <1>2, <1>3, <1>4 DEF Batch, RowsUpTo

\* The next event to deliver, and the rows that have then been counted.
LEMMA NextEvent ==
  ASSUME Types, ProgressInv, ppc = "deliver", pending # << >>
  PROVE  \E k \in 0..LastPage, m \in Nat :
           /\ At(k) /\ (lastPage <=> k = LastPage) /\ Delivering(k, m)
           /\ m + 1 \in 1..Len(Batch(k)) /\ Head(pending) = Batch(k)[m + 1]
           /\ Tail(pending) \in Seq(EventSet) /\ Len(Tail(pending)) = Len(pending) - 1
           /\ \A i \in 1..Len(Tail(pending)) : Tail(pending)[i] = Batch(k)[(m + 1) + i]
           /\ IF Head(pending).type = "row"
                THEN /\ RowsUpTo(k, m + 1) = Len(received) + 1
                     /\ Head(pending).row = Len(received) + 1 /\ Len(received) < Ends[LastPage]
                ELSE RowsUpTo(k, m + 1) = Len(received)
<1>1. PICK k \in 0..LastPage, m \in Nat : At(k) /\ (lastPage <=> k = LastPage) /\ Delivering(k, m)
  BY DEF ProgressInv
<1>2. Len(pending) \in Nat \ {0} /\ Head(pending) = pending[1]
  BY EmptySeq DEF Types
<1>3. /\ Tail(pending) \in Seq(EventSet) /\ Len(Tail(pending)) = Len(pending) - 1
      /\ \A i \in 1..Len(Tail(pending)) : Tail(pending)[i] = pending[i + 1]
  BY HeadTailProperties DEF Types
<1>4. /\ Len(Batch(k)) = m + Len(pending) /\ Len(received) = RowsUpTo(k, m)
      /\ \A i \in 1..Len(pending) : pending[i] = Batch(k)[m + i]
  BY <1>1 DEF Delivering
<1>5. m + 1 \in 1..Len(Batch(k)) /\ (m + 1) - 1 = m
  BY <1>2, <1>4
<1>6. Head(pending) = Batch(k)[m + 1]
  BY <1>2, <1>4
<1>7. IF Batch(k)[m + 1].type = "row"
        THEN RowsUpTo(k, m + 1) = RowsUpTo(k, m) + 1 /\ Batch(k)[m + 1].row = RowsUpTo(k, m + 1)
        ELSE RowsUpTo(k, m + 1) = RowsUpTo(k, m)
  BY <1>5, BatchFacts
<1>8. RowsUpTo(k, m + 1) \in Nat /\ RowsUpTo(k, m + 1) <= Ends[LastPage] /\ Len(received) \in Nat
      /\ Ends[LastPage] \in Nat
  <2>1. m + 1 \in 0..Len(Batch(k))
    BY <1>5
  <2>2. Len(received) \in Nat
    BY LenProperties DEF Types
  <2> QED BY <2>1, <2>2, BatchFacts, PageFacts
<1>9. ASSUME NEW i \in 1..Len(Tail(pending)) PROVE Tail(pending)[i] = Batch(k)[(m + 1) + i]
  <2>1. i + 1 \in 1..Len(pending) /\ m + (i + 1) = (m + 1) + i
    BY <1>2, <1>3
  <2>2. pending[i + 1] = Batch(k)[m + (i + 1)]
    BY <1>4, <2>1
  <2> QED BY <1>3, <2>1, <2>2
<1>10. IF Head(pending).type = "row"
         THEN /\ RowsUpTo(k, m + 1) = Len(received) + 1
              /\ Head(pending).row = Len(received) + 1 /\ Len(received) < Ends[LastPage]
         ELSE RowsUpTo(k, m + 1) = Len(received)
  BY <1>4, <1>6, <1>7, <1>8
<1> QED BY <1>1, <1>3, <1>5, <1>6, <1>9, <1>10

(***************************************************************************)
(* The execution goes forward                                              *)
(***************************************************************************)
\* A step that leaves the position of the execution alone.
LEMMA ProgressStays ==
  ASSUME [Next]_vars, ProgressInv, Sent' = Sent,
         UNCHANGED << next, polls, pending, lastPage, received, reason >>,
         \/ ppc' = ppc /\ (ppc \in {"start", "submit"} => UNCHANGED << taken, events >>)
         \/ ppc = "start" /\ ppc' = "submit" /\ UNCHANGED << taken, events >>
         \/ ppc \in Running /\ ppc' \in Running
         \/ ppc \in {"close"} \cup Ending /\ ppc' \in Ending
  PROVE  ProgressInv'
<1>1. /\ (Streaming' <=> Streaming) /\ Transcript' = Transcript
      /\ \A k, i : Batch(k)' = Batch(k) /\ RowsUpTo(k, i)' = RowsUpTo(k, i)
  BY SameCall
<1>2. ASSUME NEW k \in 0..LastPage, NEW m \in Nat
      PROVE  (At(k)' <=> At(k)) /\ (Delivering(k, m)' <=> Delivering(k, m))
  BY <1>1 DEF At, Delivering
<1>3. ASSUME ppc = "deliver"
      PROVE  \E k \in 0..LastPage, m \in Nat :
               At(k)' /\ (lastPage' <=> k = LastPage) /\ Delivering(k, m)'
  <2>1. PICK k \in 0..LastPage, m \in Nat : At(k) /\ (lastPage <=> k = LastPage) /\ Delivering(k, m)
    BY <1>3 DEF ProgressInv
  <2> QED BY <1>2, <2>1
<1>4. ppc' = "deliver" => ppc = "deliver"
  BY DEF Running, Ending
<1>5. ASSUME ppc' \in {"start", "submit"}
      PROVE  /\ next' = 0 /\ polls' = 0 /\ ~lastPage'
             /\ received' = << >> /\ taken' = << >> /\ events' = << >>
  BY <1>5 DEF ProgressInv, Running, Ending
<1>6. ASSUME ppc' \in Running \cup {"deliver"}
      PROVE  next' < LastPage /\ (polls' = 0 => next' = 0)
  BY <1>6 DEF ProgressInv, Running, Ending
<1>7. ASSUME ppc' \in Running
      PROVE  /\ ~lastPage' /\ Len(received') = Before(next' + 1)
             /\ Streaming' => Len(Sent') = StartOf(next' + 1)
  <2>1. ppc \in Running
    BY <1>7 DEF Running, Ending
  <2> QED BY <1>1, <2>1 DEF ProgressInv
<1>8. ASSUME ppc' \in {"close"} \cup Ending, reason' = "none"
      PROVE  /\ Len(received') = Ends[LastPage]
             /\ Streaming' => Len(Sent') = Len(Transcript')
  <2>1. ppc \in {"close"} \cup Ending /\ reason = "none"
    BY <1>8 DEF Running, Ending
  <2> QED BY <1>1, <2>1 DEF ProgressInv
<1> QED BY <1>3, <1>4, <1>5, <1>6, <1>7, <1>8 DEF ProgressInv

\* Once the execution fails, no promise about its progress is left.
LEMMA ProgressEnds ==
  ASSUME ppc' \in {"cancel", "cleanup"} \cup Ending, reason' # "none"
  PROVE  ProgressInv'
BY DEF ProgressInv, Running, Ending

\* What is left of the invariant when a batch is to be delivered.
LEMMA ProgressDelivers ==
  ASSUME ppc' = "deliver", next' < LastPage, polls' = 0 => next' = 0,
         NEW k \in 0..LastPage, NEW m \in Nat,
         At(k)', lastPage' <=> k = LastPage, Delivering(k, m)'
  PROVE  ProgressInv'
BY DEF ProgressInv, Running, Ending

LEMMA SubmitProgress ==
  ASSUME Types, ProgressInv, Submit, [Next]_vars
  PROVE  ProgressInv'
<1>1. /\ next = 0 /\ polls = 0 /\ ~lastPage /\ received = << >> /\ taken = << >> /\ events = << >>
      /\ UNCHANGED << next, polls, lastPage, received, taken, events >>
  BY DEF ProgressInv, Submit, chanVars, consumerVars
<1>2. LastPage \in Nat \ {0} /\ Before(1) = 0
  BY PageFacts
<1>3. Len(received') = 0 /\ Len(Sent') = 0 /\ StartOf(0) = 0 /\ StartOf(1) = 1
  BY <1>1, <1>2, ConcatEmptySeq, EmptySeq DEF Sent, StartOf
<1>4. CASE ~Streaming /\ GoTo("check")
  <2>1. ~Streaming'
    BY <1>4, SameCall
  <2>2. next' + 1 = 1 /\ next' < LastPage
    BY <1>1, <1>2
  <2>3. Before(next' + 1) = 0
    BY <1>2, <2>2, Zenon
  <2> QED BY <1>1, <1>3, <1>4, <2>1, <2>2, <2>3 DEF ProgressInv, GoTo, Running, Ending
<1>5. CASE Streaming /\ pending' = << Event("operation", 0) >> /\ GoTo("deliver")
  <2>1. Batch(0)' = << Event("operation", 0) >> /\ RowsUpTo(0, 0)' = 0
    BY <1>2, SameCall, BatchFacts DEF Batch
  <2>2. Delivering(0, 0)'
    <3>1. Len(pending') = 1 /\ pending' = Batch(0)'
      BY <1>5, <2>1, FirstEvent, Zenon
    <3> QED BY <1>3, <2>1, <3>1 DEF Delivering
  <2>3. At(0)' /\ (lastPage' <=> 0 = LastPage) /\ 0 \in 0..LastPage /\ 0 \in Nat
    BY <1>1, <1>2 DEF At
  <2>4. ppc' = "deliver" /\ next' < LastPage /\ (polls' = 0 => next' = 0)
    BY <1>1, <1>2, <1>5 DEF GoTo
  <2> QED BY <2>2, <2>3, <2>4, ProgressDelivers
<1>6. CASE reason' = "submit" /\ GoTo("report")
  BY <1>6, ProgressEnds DEF GoTo, Ending
<1> QED BY <1>4, <1>5, <1>6 DEF Submit

LEMMA FetchProgress ==
  ASSUME Types, ProgressInv, FetchPage, [Next]_vars
  PROVE  ProgressInv'
<1>1. PICK k \in 1..LastPage : k = next + 1
  <2>1. next + 1 \in 1..LastPage
    BY PageFacts DEF Types, ProgressInv, Running, FetchPage
  <2> QED BY <2>1
<1>2. /\ next \in Nat /\ next < LastPage /\ Len(received) = Before(k)
      /\ Streaming => Len(Sent) = StartOf(k)
  BY <1>1 DEF Types, ProgressInv, Running, FetchPage
<1>3. /\ polls' = polls + 1 /\ pending' = Items(k) /\ (lastPage' <=> k = LastPage)
      /\ ppc' = "deliver" /\ UNCHANGED << next, received, taken, events >>
  BY <1>1 DEF FetchPage, GoTo, chanVars, consumerVars
<1>4. Sent' = Sent /\ polls' # 0 /\ k # 0 /\ k \in 0..LastPage
  BY <1>1, <1>3 DEF Sent, Types
<1>5. Batch(k)' = Items(k) /\ RowsUpTo(k, 0)' = Before(k) /\ (Streaming' <=> Streaming)
  <2>1. Batch(k) = Items(k) /\ RowsUpTo(k, 0) = Before(k)
    BY <1>4, BatchFacts DEF Batch
  <2> QED BY <2>1, SameCall
<1>6. Len(Items(k)) \in Nat
  BY <1>1, ItemsFacts, LenProperties
<1>7. StartOf(k) \in Nat
  BY <1>4, BatchFacts
<1>8. Delivering(k, 0)'
  <2>1. pending' = Batch(k)' /\ Len(pending') \in Nat
    BY <1>3, <1>5, <1>6
  <2>2. Len(received') = RowsUpTo(k, 0)'
    BY <1>2, <1>3, <1>5
  <2>3. Streaming' => Len(Sent') = StartOf(k) + 0
    BY <1>2, <1>4, <1>5, <1>7
  <2> QED BY <2>1, <2>2, <2>3 DEF Delivering
<1>9. At(k)' /\ next' < LastPage /\ (polls' = 0 => next' = 0) /\ 0 \in Nat
  BY <1>1, <1>2, <1>3, <1>4 DEF At
<1> QED BY <1>3, <1>4, <1>8, <1>9, ProgressDelivers

LEMMA DeliverProgress ==
  ASSUME Types, ProgressInv, Deliver, [Next]_vars
  PROVE  ProgressInv'
<1>1. ppc = "deliver" /\ pending # << >> /\ ppc' = "deliver" /\ UNCHANGED << next, polls, lastPage, taken >>
  BY DEF Deliver, consumerVars
<1>2. PICK k \in 0..LastPage, m \in Nat :
        /\ At(k) /\ (lastPage <=> k = LastPage) /\ Delivering(k, m)
        /\ m + 1 \in 1..Len(Batch(k)) /\ Head(pending) = Batch(k)[m + 1]
        /\ Tail(pending) \in Seq(EventSet) /\ Len(Tail(pending)) = Len(pending) - 1
        /\ \A i \in 1..Len(Tail(pending)) : Tail(pending)[i] = Batch(k)[(m + 1) + i]
        /\ IF Head(pending).type = "row"
             THEN /\ RowsUpTo(k, m + 1) = Len(received) + 1
                  /\ Head(pending).row = Len(received) + 1 /\ Len(received) < Ends[LastPage]
             ELSE RowsUpTo(k, m + 1) = Len(received)
  BY <1>1, NextEvent
<1>3. PICK n \in Nat : n = m + 1
  OBVIOUS
<1>4. Head(pending) \in EventSet /\ Len(pending) \in Nat \ {0} /\ Len(received) \in Nat
  BY <1>1, EmptySeq, LenProperties, HeadTailProperties DEF Types
<1>5. Len(received') = RowsUpTo(k, n)
  <2>1. CASE Head(pending).type = "row"
    <3>1. received' = Append(received, Head(pending).row) /\ Head(pending).row \in Nat
      BY <1>4, <2>1 DEF Deliver, Count, EventSet
    <3>2. Len(received') = Len(received) + 1
      BY <3>1, AppendProperties DEF Types
    <3> QED BY <1>2, <1>3, <2>1, <3>2
  <2>2. CASE Head(pending).type # "row"
    BY <1>2, <1>3, <2>2 DEF Deliver, Count
  <2> QED BY <2>1, <2>2
<1>6. pending' = Tail(pending)
  BY DEF Deliver
<1>7. Streaming => Len(Sent') = StartOf(k) + n
  <2>1. ASSUME Streaming PROVE Len(Sent') = Len(Sent) + 1
    <3>1. PICK x \in EventSet : x = Head(pending)
      BY <1>4
    <3>2. Sent' = taken \o Append(events, x)
      BY <1>1, <2>1, <3>1 DEF Deliver, Sent
    <3>3. taken \o Append(events, x) = Append(taken \o events, x)
      BY SentAppend DEF Types
    <3>4. Sent \in Seq(EventSet)
      BY Joined DEF Types, Sent
    <3>5. Len(Append(Sent, x)) = Len(Sent) + 1
      BY <3>4, AppendProperties
    <3>6. Sent' = Append(Sent, x)
      BY <3>2, <3>3, Zenon DEF Sent
    <3> QED BY <3>5, <3>6, Zenon
  <2>2. StartOf(k) \in Nat
    BY BatchFacts
  <2> QED BY <1>2, <1>3, <2>1, <2>2 DEF Delivering
<1>8. Delivering(k, n)'
  <2>1. (Streaming' <=> Streaming) /\ Batch(k)' = Batch(k) /\ RowsUpTo(k, n)' = RowsUpTo(k, n)
    BY SameCall
  <2>2. Len(Batch(k)) = n + Len(pending')
    BY <1>2, <1>3, <1>4, <1>6 DEF Delivering
  <2>3. \A i \in 1..Len(pending') : pending'[i] = Batch(k)[n + i]
    BY <1>2, <1>3, <1>6
  <2> QED BY <1>5, <1>7, <2>1, <2>2, <2>3 DEF Delivering
<1>9. At(k)' /\ (lastPage' <=> k = LastPage) /\ next' < LastPage /\ (polls' = 0 => next' = 0)
  BY <1>1, <1>2 DEF At, ProgressInv
<1> QED BY <1>1, <1>8, <1>9, ProgressDelivers

LEMMA PageDeliveredProgress ==
  ASSUME Types, ProgressInv, ReleaseInv, PageDelivered, [Next]_vars
  PROVE  ProgressInv'
<1>1. ppc = "deliver" /\ pending = << >> /\ UNCHANGED << polls, lastPage, received, taken, events >>
  BY DEF PageDelivered, chanVars, consumerVars
<1>2. PICK k \in 0..LastPage, m \in Nat : At(k) /\ (lastPage <=> k = LastPage) /\ Delivering(k, m)
  BY <1>1 DEF ProgressInv
<1>3. m = Len(Batch(k)) /\ Sent' = Sent
  <2>1. Len(pending) = 0 /\ Len(Batch(k)) \in Nat
    BY <1>1, BatchFacts, EmptySeq
  <2> QED BY <1>1, <1>2, <2>1 DEF Delivering, Sent
<1>4. /\ Len(received') = IF k = 0 THEN 0 ELSE Ends[k]
      /\ Streaming => Len(Sent') = IF k = LastPage THEN Len(Transcript) ELSE StartOf(k + 1)
  BY <1>1, <1>2, <1>3, BatchFacts, TranscriptFacts DEF Delivering
<1>5. LastPage \in Nat \ {0} /\ Before(1) = 0 /\ (k # 0 /\ k # LastPage => Before(k + 1) = Ends[k])
  BY PageFacts
<1>6. (Streaming' <=> Streaming) /\ Transcript' = Transcript
  BY SameCall
<1>7. CASE lastPage /\ GoTo("close")
  <2>1. k = LastPage /\ k # 0
    BY <1>2, <1>5, <1>7
  <2>2. Len(received') = Ends[LastPage] /\ (Streaming' => Len(Sent') = Len(Transcript'))
    BY <1>4, <1>6, <2>1
  <2> QED BY <1>7, <2>2 DEF ProgressInv, GoTo, Running, Ending
<1>8. CASE /\ ~lastPage /\ GoTo("check")
           /\ ((polls > 0 /\ next' = next + 1) \/ (polls = 0 /\ next' = next))
  <2>1. k # LastPage /\ next' = k /\ next' < LastPage /\ (polls' = 0 => next' = 0)
    BY <1>1, <1>2, <1>5, <1>8 DEF At, ProgressInv, Types
  <2>2. Len(received') = Before(k + 1)
    BY <1>4, <1>5, <2>1
  <2>3. Streaming' => Len(Sent') = StartOf(k + 1)
    BY <1>4, <1>6, <2>1
  <2>4. next' + 1 = k + 1
    BY <2>1
  <2> QED BY <1>1, <1>8, <2>1, <2>2, <2>3, <2>4 DEF ProgressInv, GoTo, Running, Ending
<1>9. CASE Fails("protocol")
  BY <1>9, ProgressEnds DEF Fails, GoTo
<1>10. \/ lastPage /\ GoTo("close")
       \/ /\ ~lastPage /\ GoTo("check")
          /\ ((polls > 0 /\ next' = next + 1) \/ (polls = 0 /\ next' = next))
       \/ Fails("protocol")
  BY DEF PageDelivered
<1> QED BY <1>7, <1>8, <1>9, <1>10

LEMMA ProgressKeeps ==
  ASSUME Types, ProgressInv, ReleaseInv, [Next]_vars
  PROVE  ProgressInv'
<1>1. CASE BeginExecution
  BY <1>1, ProgressStays DEF BeginExecution, Running, Ending, GoTo, Fails, executionDone, runVars,
         chanVars, consumerVars, ctxVars, Sent
<1>2. CASE RefuseExecution
  BY <1>2, ProgressEnds DEF RefuseExecution, Running, Ending, GoTo, Fails, executionDone, runVars,
         chanVars, consumerVars, ctxVars, Sent
<1>3. CASE Submit
  BY <1>3, SubmitProgress
<1>4. CASE CheckLimits
  <2>1. CASE \E why \in {"context", "pollLimit"} : Fails(why)
    BY <2>1, ProgressEnds DEF Fails, GoTo
  <2>2. CASE UNCHANGED reason /\ ppc' \in Running
    BY <1>4, <2>2, ProgressStays DEF CheckLimits, Running, Ending, GoTo, Fails, executionDone,
           runVars, chanVars, consumerVars, ctxVars, Sent
  <2> QED BY <1>4, <2>1, <2>2 DEF CheckLimits, GoTo, Running
<1>5. CASE FetchNotReady
  <2>1. ppc \in Running /\ ppc' \in Running /\ Sent' = Sent /\ polls' # 0
        /\ UNCHANGED << next, lastPage, received >>
    BY <1>5 DEF FetchNotReady, Types, Running, Ending, GoTo, Fails, executionDone, runVars,
           chanVars, consumerVars, ctxVars, Sent
  <2>2. (Streaming' <=> Streaming)
    BY SameCall
  <2> QED BY <2>1, <2>2 DEF ProgressInv, Running, Ending
<1>6. CASE FetchPage
  BY <1>6, FetchProgress
<1>7. CASE FetchInvalid
  BY <1>7, ProgressEnds DEF FetchInvalid, Running, Ending, GoTo, Fails, executionDone, runVars,
         chanVars, consumerVars, ctxVars, Sent
<1>8. CASE FetchFails
  <2>1. CASE Fails("context") \/ Fails("closedClient")
    BY <1>8, <2>1, ProgressEnds DEF Fails, GoTo
  <2>2. CASE GoTo("classify")
    <3>1. ppc \in Running /\ ppc' \in Running /\ Sent' = Sent /\ polls' # 0
          /\ UNCHANGED << next, lastPage, received >>
      BY <1>8, <2>2 DEF FetchFails, Types, Running, Ending, GoTo, Fails, executionDone, runVars,
             chanVars, consumerVars, ctxVars, Sent
    <3>2. (Streaming' <=> Streaming)
      BY SameCall
    <3> QED BY <3>1, <3>2 DEF ProgressInv, Running, Ending
  <2> QED BY <1>8, <2>1, <2>2 DEF FetchFails
<1>9. CASE Classify
  <2>1. PICK why \in {"failed", "fetch"} : Fails(why)
    BY <1>9 DEF Classify
  <2> QED BY <2>1, ProgressEnds DEF Fails, GoTo
<1>10. CASE Sleep
  <2>1. CASE \E why \in {"context", "pollLimit"} : Fails(why)
    BY <2>1, ProgressEnds DEF Fails, GoTo
  <2>2. CASE UNCHANGED reason /\ ppc' \in Running
    BY <1>10, <2>2, ProgressStays DEF Sleep, Running, Ending, GoTo, Fails, executionDone, runVars,
           chanVars, consumerVars, ctxVars, Sent
  <2> QED BY <1>10, <2>1, <2>2 DEF Sleep, GoTo, Running
<1>11. CASE DeliverOverLimit
  BY <1>11, ProgressEnds DEF DeliverOverLimit, Running, Ending, GoTo, Fails, executionDone,
         runVars, chanVars, consumerVars, ctxVars, Sent
<1>12. CASE DeliverCancelled
  BY <1>12, ProgressEnds DEF DeliverCancelled, Running, Ending, GoTo, Fails, executionDone,
         runVars, chanVars, consumerVars, ctxVars, Sent
<1>13. CASE Deliver
  BY <1>13, DeliverProgress
<1>14. CASE PageDelivered
  BY <1>14, PageDeliveredProgress
<1>15. CASE CleanupCancel
  BY <1>15, ProgressEnds DEF CleanupCancel, Running, Ending, GoTo, Fails, executionDone, runVars,
         chanVars, consumerVars, ctxVars, Sent, ReleaseInv
<1>16. CASE CleanupClose
  BY <1>16, ProgressEnds DEF CleanupClose, Running, Ending, GoTo, Fails, executionDone, runVars,
         chanVars, consumerVars, ctxVars, Sent, ReleaseInv
<1>17. CASE CloseAfterSuccess
  BY <1>17, ProgressStays DEF CloseAfterSuccess, Running, Ending, GoTo, Fails, executionDone,
         runVars, chanVars, consumerVars, ctxVars, Sent
<1>18. CASE Report
  BY <1>18, ProgressStays DEF Report, Running, Ending, GoTo, Fails, executionDone, runVars,
         chanVars, consumerVars, ctxVars, Sent
<1>19. CASE ShutEvents
  BY <1>19, ProgressStays DEF ShutEvents, Running, Ending, GoTo, Fails, executionDone, runVars,
         chanVars, consumerVars, ctxVars, Sent
<1>20. CASE EndExecution
  BY <1>20, ProgressStays DEF EndExecution, Running, Ending, GoTo, Fails, executionDone, runVars,
         chanVars, consumerVars, ctxVars, Sent
<1>21. CASE ReadEvent
  <2>1. Sent' = Sent
    BY <1>21, SentMoves DEF ReadEvent, Types, Sent
  <2>2. ppc \notin {"start", "submit"}
    BY <1>21 DEF ProgressInv, ReadEvent
  <2> QED BY <1>21, <2>1, <2>2, ProgressStays DEF ReadEvent, runVars
<1>22. CASE SeeEnd
  BY <1>22, ProgressStays DEF SeeEnd, Running, Ending, GoTo, Fails, executionDone, runVars,
         chanVars, consumerVars, ctxVars, Sent
<1>23. CASE StopReading
  BY <1>23, ProgressStays DEF StopReading, Running, Ending, GoTo, Fails, executionDone, runVars,
         chanVars, consumerVars, ctxVars, Sent
<1>24. CASE ContextEnds
  BY <1>24, ProgressStays DEF ContextEnds, Running, Ending, GoTo, Fails, executionDone, runVars,
         chanVars, consumerVars, ctxVars, Sent
<1>25. CASE LifecycleEnds
  BY <1>25, ProgressStays DEF LifecycleEnds, Running, Ending, GoTo, Fails, executionDone, runVars,
         chanVars, consumerVars, ctxVars, Sent
<1>26. CASE TimesOut
  BY <1>26, ProgressStays DEF TimesOut, Running, Ending, GoTo, Fails, executionDone, runVars,
         chanVars, consumerVars, ctxVars, Sent
<1>27. CASE ServerFails
  BY <1>27, ProgressStays DEF ServerFails, Running, Ending, GoTo, Fails, executionDone, runVars,
         chanVars, consumerVars, ctxVars, Sent
<1>28. CASE CloseClient
  BY <1>28, ProgressStays DEF CloseClient, Running, Ending, GoTo, Fails, executionDone, runVars,
         chanVars, consumerVars, ctxVars, Sent
<1>29. CASE CloseReturns
  BY <1>29, ProgressStays DEF CloseReturns, Running, Ending, GoTo, Fails, executionDone, runVars,
         chanVars, consumerVars, ctxVars, Sent
<1>30. CASE CloseTimesOut
  BY <1>30, ProgressStays DEF CloseTimesOut, Running, Ending, GoTo, Fails, executionDone, runVars,
         chanVars, consumerVars, ctxVars, Sent
<1>31. CASE UNCHANGED vars
  BY <1>31, ProgressStays DEF Sent, vars, groupVars, serverVars, runVars, ctxVars, chanVars,
         consumerVars
<1> QED BY <1>1, <1>2, <1>3, <1>4, <1>5, <1>6, <1>7, <1>8, <1>9, <1>10, <1>11, <1>12, <1>13,
            <1>14, <1>15, <1>16, <1>17, <1>18, <1>19, <1>20, <1>21, <1>22, <1>23, <1>24, <1>25,
            <1>26, <1>27, <1>28, <1>29, <1>30, <1>31 DEF Next, ProducerStep

LEMMA OrderKeeps ==
  ASSUME Types, ProgressInv, OrderInv, [Next]_vars
  PROVE  OrderInv'
<1>1. Len(received) \in Nat /\ Ends[LastPage] \in Nat
  BY PageFacts, LenProperties DEF Types
<1>2. (Streaming' <=> Streaming) /\ Transcript' = Transcript
  BY SameCall
<1>3. Len(received') <= Ends[LastPage] /\ \A i \in 1..Len(received') : received'[i] = i
  <2>1. CASE UNCHANGED received
    BY <2>1 DEF OrderInv
  <2>2. CASE Deliver \/ DeliverCancelled
    <3>1. ppc = "deliver" /\ pending # << >>
      BY <2>2 DEF Deliver, DeliverCancelled
    <3>2. Head(pending) \in EventSet
      BY <3>1, HeadTailProperties DEF Types
    <3>3. CASE Head(pending).type # "row"
      BY <2>2, <3>3 DEF OrderInv, Deliver, DeliverCancelled, Count
    <3>4. CASE Head(pending).type = "row"
      <4>1. Head(pending).row = Len(received) + 1 /\ Len(received) < Ends[LastPage]
        BY <3>1, <3>4, NextEvent
      <4>2. received' = Append(received, Len(received) + 1)
        BY <2>2, <3>4, <4>1 DEF Deliver, DeliverCancelled, Count
      <4>3. PICK n \in Nat : n = Len(received) + 1
        BY <1>1
      <4>4. /\ Len(received') = Len(received) + 1 /\ received'[Len(received) + 1] = n
            /\ \A i \in 1..Len(received) : received'[i] = received[i]
        BY <4>2, <4>3, AppendProperties DEF Types
      <4>5. ASSUME NEW i \in 1..Len(received') PROVE received'[i] = i
        <5>1. CASE i = n
          BY <4>3, <4>4, <5>1
        <5>2. CASE i # n
          <6>1. i \in 1..Len(received)
            BY <1>1, <4>3, <4>4, <5>2
          <6> QED BY <4>4, <6>1 DEF OrderInv
        <5> QED BY <5>1, <5>2
      <4> QED BY <1>1, <4>1, <4>4, <4>5
    <3> QED BY <3>3, <3>4
  <2> QED BY <2>1, <2>2, Frame
<1>4. ASSUME Streaming
      PROVE  Len(Sent') <= Len(Transcript) /\ \A i \in 1..Len(Sent') : Sent'[i] = Transcript[i]
  <2>1. CASE Sent' = Sent
    BY <1>4, <2>1 DEF OrderInv
  <2>2. CASE Deliver
    <3>1. ppc = "deliver" /\ pending # << >> /\ taken' = taken
      BY <2>2 DEF Deliver, consumerVars
    <3>2. PICK k \in 0..LastPage, m \in Nat :
            Delivering(k, m) /\ m + 1 \in 1..Len(Batch(k)) /\ Head(pending) = Batch(k)[m + 1]
      BY <3>1, NextEvent
    <3>3. PICK x \in EventSet : x = Head(pending)
      BY <3>1, HeadTailProperties DEF Types
    <3>4. Sent \in Seq(EventSet) /\ Len(Sent) \in Nat
      <4>1. Sent \in Seq(EventSet)
        BY Joined DEF Types, Sent
      <4> QED BY <4>1, LenProperties
    <3>5. Sent' = Append(Sent, x)
      <4>1. Sent' = taken \o Append(events, x)
        BY <1>4, <2>2, <3>1, <3>3 DEF Deliver, Sent
      <4>2. taken \o Append(events, x) = Append(taken \o events, x)
        BY SentAppend DEF Types
      <4> QED BY <4>1, <4>2, Zenon DEF Sent
    <3>6. PICK n \in Nat : n = Len(Sent) + 1
      BY <3>4
    <3>7. /\ Len(Sent') = n /\ Sent'[n] = x
          /\ \A i \in 1..Len(Sent) : Sent'[i] = Sent[i]
      <4>1. /\ Len(Append(Sent, x)) = Len(Sent) + 1
            /\ \A i \in 1..Len(Sent) : Append(Sent, x)[i] = Sent[i]
            /\ Append(Sent, x)[Len(Sent) + 1] = x
        BY <3>4, AppendProperties
      <4> QED BY <3>5, <3>6, <4>1, Zenon
    <3>8. n = StartOf(k) + (m + 1) /\ n <= Len(Transcript) /\ Transcript[n] = x
      <4>1. Len(Sent) = StartOf(k) + m /\ StartOf(k) \in Nat /\ Len(Batch(k)) \in Nat
        BY <1>4, <3>2, BatchFacts DEF Delivering
      <4>2. n = StartOf(k) + (m + 1)
        BY <3>6, <4>1
      <4>3. /\ StartOf(k) + Len(Batch(k)) <= Len(Transcript) /\ Len(Transcript) \in Nat
            /\ Transcript[StartOf(k) + (m + 1)] = Batch(k)[m + 1]
        BY <1>4, <3>2, TranscriptFacts
      <4>4. n <= Len(Transcript)
        BY <3>2, <4>1, <4>2, <4>3
      <4> QED BY <3>2, <3>3, <4>2, <4>3, <4>4
    <3>9. ASSUME NEW i \in 1..Len(Sent') PROVE Sent'[i] = Transcript[i]
      <4>1. CASE i = n
        BY <3>7, <3>8, <4>1
      <4>2. CASE i # n
        <5>1. i \in 1..Len(Sent)
          BY <3>4, <3>6, <3>7, <4>2
        <5> QED BY <1>4, <3>7, <5>1 DEF OrderInv
      <4> QED BY <4>1, <4>2
    <3> QED BY <3>7, <3>8, <3>9
  <2>3. CASE ReadEvent
    <3>1. Sent' = Sent
      BY <2>3, SentMoves DEF ReadEvent, Types, Sent
    <3> QED BY <2>1, <3>1
  <2>4. CASE UNCHANGED << taken, events >>
    <3>1. Sent' = Sent
      BY <2>4 DEF Sent
    <3> QED BY <2>1, <3>1
  <2> QED BY <2>2, <2>3, <2>4, Frame
<1> QED BY <1>2, <1>3, <1>4 DEF OrderInv

LEMMA LimitsKeep ==
  ASSUME Types, ReleaseInv, ProgressInv, LimitsInv, [Next]_vars
  PROVE  LimitsInv'
<1>0. /\ call.maxRows \in Nat /\ call.maxPolls \in Nat /\ Len(received) \in Nat /\ Ends[LastPage] \in Nat
      /\ call' = call
  <2>1. call.maxRows \in Nat /\ call.maxPolls \in Nat
    BY LimitsAreNumbers DEF Types, Calls
  <2>2. Len(received) \in Nat
    BY LenProperties DEF Types
  <2> QED BY <2>1, <2>2, PageFacts, Frame
<1>1. CASE BeginExecution
  BY <1>1, <1>0 DEF Types, Running, Ending, LimitsInv, ReleaseInv, BeginExecution, Begin, GoTo,
         serverVars, runVars, ctxVars, chanVars, consumerVars
<1>2. CASE RefuseExecution
  BY <1>2, <1>0 DEF Types, Running, Ending, LimitsInv, ReleaseInv, RefuseExecution, Refuse, GoTo,
         serverVars, ctxVars, consumerVars, groupVars
<1>3. CASE Submit
  BY <1>3, <1>0 DEF Types, Running, Ending, LimitsInv, ReleaseInv, Submit, Submitted, SubmitLost,
         GoTo, groupVars, serverVars, ctxVars, chanVars, consumerVars
<1>4. CASE CheckLimits
  BY <1>4, <1>0 DEF Types, Running, Ending, LimitsInv, ReleaseInv, CheckLimits, GoTo, Fails,
         executionDone, groupVars, serverVars, ctxVars, chanVars, consumerVars
<1>5. CASE FetchNotReady
  BY <1>5, <1>0 DEF Types, Running, Ending, LimitsInv, ReleaseInv, FetchNotReady, GoTo, groupVars,
         serverVars, ctxVars, chanVars, consumerVars
<1>6. CASE FetchPage
  BY <1>6, <1>0 DEF Types, Running, Ending, LimitsInv, ReleaseInv, FetchPage, GoTo, groupVars,
         serverVars, ctxVars, chanVars, consumerVars
<1>7. CASE FetchInvalid
  BY <1>7, <1>0 DEF Types, Running, Ending, LimitsInv, ReleaseInv, FetchInvalid, Fails, GoTo,
         groupVars, serverVars, ctxVars, chanVars, consumerVars
<1>8. CASE FetchFails
  BY <1>8, <1>0 DEF Types, Running, Ending, LimitsInv, ReleaseInv, FetchFails, GoTo, Fails,
         executionDone, groupVars, serverVars, ctxVars, chanVars, consumerVars
<1>9. CASE Classify
  BY <1>9, <1>0 DEF Types, Running, Ending, LimitsInv, ReleaseInv, Classify, Fails, GoTo,
         groupVars, serverVars, ctxVars, chanVars, consumerVars
<1>10. CASE Sleep
  BY <1>10, <1>0 DEF Types, Running, Ending, LimitsInv, ReleaseInv, Sleep, GoTo, Fails,
         executionDone, groupVars, serverVars, ctxVars, chanVars, consumerVars
<1>11. CASE DeliverOverLimit
  <2>1. Len(received) < Ends[LastPage]
    BY <1>11, NextEvent DEF DeliverOverLimit, OverLimit
  <2> QED BY <1>11, <1>0, <2>1 DEF Types, Running, Ending, LimitsInv, ReleaseInv,
              DeliverOverLimit, Fails, OverLimit, GoTo, groupVars, serverVars, ctxVars, chanVars,
              consumerVars
<1>12. CASE DeliverCancelled
  <2>1. Head(pending) \in EventSet
    BY <1>12, HeadTailProperties DEF Types, DeliverCancelled
  <2>2. received' = received \/ (Len(received') = Len(received) + 1 /\ Len(received) < call.maxRows)
    <3>1. CASE Head(pending).type = "row"
      <4>1. received' = Append(received, Head(pending).row) /\ Head(pending).row \in Nat
        BY <1>12, <2>1, <3>1 DEF DeliverCancelled, Count, EventSet
      <4>2. Len(received') = Len(received) + 1
        BY <4>1, AppendProperties DEF Types
      <4> QED BY <1>12, <1>0, <3>1, <4>2 DEF DeliverCancelled, OverLimit
    <3> QED BY <1>12, <3>1 DEF DeliverCancelled, Count
  <2>3. reason = "none"
    BY <1>12 DEF ReleaseInv, DeliverCancelled
  <2> QED BY <1>12, <1>0, <2>2, <2>3 DEF Types, Running, Ending, LimitsInv, ReleaseInv,
              DeliverCancelled, Fails, GoTo, groupVars, serverVars, ctxVars, chanVars, consumerVars
<1>13. CASE Deliver
  <2>1. Head(pending) \in EventSet
    BY <1>13, HeadTailProperties DEF Types, Deliver
  <2>2. received' = received \/ (Len(received') = Len(received) + 1 /\ Len(received) < call.maxRows)
    <3>1. CASE Head(pending).type = "row"
      <4>1. received' = Append(received, Head(pending).row) /\ Head(pending).row \in Nat
        BY <1>13, <2>1, <3>1 DEF Deliver, Count, EventSet
      <4>2. Len(received') = Len(received) + 1
        BY <4>1, AppendProperties DEF Types
      <4> QED BY <1>13, <1>0, <3>1, <4>2 DEF Deliver, OverLimit
    <3> QED BY <1>13, <3>1 DEF Deliver, Count
  <2>3. reason = "none"
    BY <1>13 DEF ReleaseInv, Deliver
  <2> QED BY <1>13, <1>0, <2>2, <2>3 DEF Types, Running, Ending, LimitsInv, ReleaseInv, Deliver,
              groupVars, serverVars, ctxVars, consumerVars
<1>14. CASE PageDelivered
  BY <1>14, <1>0 DEF Types, Running, Ending, LimitsInv, ReleaseInv, PageDelivered, GoTo, Fails,
         groupVars, serverVars, ctxVars, chanVars, consumerVars
<1>15. CASE CleanupCancel
  BY <1>15, <1>0 DEF Types, Running, Ending, LimitsInv, ReleaseInv, CleanupCancel, CancelAnswered,
         CancelLost, GoTo, Cancels, AfterCancel, groupVars, serverVars, ctxVars, chanVars,
         consumerVars
<1>16. CASE CleanupClose
  BY <1>16, <1>0 DEF Types, Running, Ending, LimitsInv, ReleaseInv, CleanupClose, CloseAnswered,
         CloseLost, GoTo, groupVars, ctxVars, chanVars, consumerVars
<1>17. CASE CloseAfterSuccess
  BY <1>17, <1>0 DEF Types, Running, Ending, LimitsInv, ReleaseInv, CloseAfterSuccess,
         CloseAnswered, CloseAborted, CloseLost, GoTo, groupVars, ctxVars, chanVars, consumerVars
<1>18. CASE Report
  BY <1>18, <1>0 DEF Types, Running, Ending, LimitsInv, ReleaseInv, Report, GoTo, Verdict,
         groupVars, serverVars, runVars, ctxVars, consumerVars
<1>19. CASE ShutEvents
  BY <1>19, <1>0 DEF Types, Running, Ending, LimitsInv, ReleaseInv, ShutEvents, GoTo, groupVars,
         serverVars, runVars, ctxVars, consumerVars
<1>20. CASE EndExecution
  BY <1>20, <1>0 DEF Types, Running, Ending, LimitsInv, ReleaseInv, EndExecution, End, GoTo,
         serverVars, runVars, ctxVars, chanVars, consumerVars
<1>21. CASE ReadEvent
  BY <1>21, <1>0 DEF Types, Running, Ending, LimitsInv, ReleaseInv, ReadEvent, groupVars,
         serverVars, runVars, ctxVars
<1>22. CASE SeeEnd
  BY <1>22, <1>0 DEF Types, Running, Ending, LimitsInv, ReleaseInv, SeeEnd, groupVars, serverVars,
         runVars, ctxVars, chanVars
<1>23. CASE StopReading
  BY <1>23, <1>0 DEF Types, Running, Ending, LimitsInv, ReleaseInv, StopReading, groupVars,
         serverVars, runVars, ctxVars, chanVars
<1>24. CASE ContextEnds
  BY <1>24, <1>0 DEF Types, Running, Ending, LimitsInv, ReleaseInv, ContextEnds, groupVars,
         serverVars, runVars, chanVars, consumerVars
<1>25. CASE LifecycleEnds
  BY <1>25, <1>0 DEF Types, Running, Ending, LimitsInv, ReleaseInv, LifecycleEnds, groupVars,
         serverVars, runVars, chanVars, consumerVars
<1>26. CASE TimesOut
  BY <1>26, <1>0 DEF Types, Running, Ending, LimitsInv, ReleaseInv, TimesOut, groupVars,
         serverVars, runVars, chanVars, consumerVars
<1>27. CASE ServerFails
  BY <1>27, <1>0 DEF Types, Running, Ending, LimitsInv, ReleaseInv, ServerFails, OperationFails,
         groupVars, runVars, ctxVars, chanVars, consumerVars
<1>28. CASE CloseClient
  BY <1>28, <1>0 DEF Types, Running, Ending, LimitsInv, ReleaseInv, CloseClient, Stop, serverVars,
         runVars, ctxVars, chanVars, consumerVars
<1>29. CASE CloseReturns
  BY <1>29, <1>0 DEF Types, Running, Ending, LimitsInv, ReleaseInv, CloseReturns, Released,
         groupVars, serverVars, runVars, ctxVars, chanVars, consumerVars
<1>30. CASE CloseTimesOut
  BY <1>30, <1>0 DEF Types, Running, Ending, LimitsInv, ReleaseInv, CloseTimesOut, groupVars,
         serverVars, runVars, ctxVars, chanVars, consumerVars
<1>31. CASE UNCHANGED vars
  BY <1>31, <1>0 DEF Types, Running, Ending, LimitsInv, ReleaseInv, vars, groupVars, serverVars,
         runVars, ctxVars, chanVars, consumerVars
<1> QED BY <1>1, <1>2, <1>3, <1>4, <1>5, <1>6, <1>7, <1>8, <1>9, <1>10, <1>11, <1>12, <1>13,
            <1>14, <1>15, <1>16, <1>17, <1>18, <1>19, <1>20, <1>21, <1>22, <1>23, <1>24, <1>25,
            <1>26, <1>27, <1>28, <1>29, <1>30, <1>31 DEF Next, ProducerStep

LEMMA InitInv ==
  ASSUME Init
  PROVE  IInv
<1>1. LastPage \in Nat \ {0} /\ Ends[LastPage] \in Nat
  BY PageFacts
<1>2. Types
  <2>1. \A S : << >> \in Seq(S)
    BY EmptySeq
  <2>2. shut \subseteq 0..idle
    BY DEF Init, GroupInit
  <2> QED BY <2>1, <2>2 DEF Init, GroupInit, ServerInit, Types, ServerTypeOK
<1>3. GroupInv /\ ReleaseInv /\ ReportInv
  BY DEF Init, GroupInit, ServerInit, GroupInv, ReleaseInv, ReportInv, ClientCloseWaits, Running,
         Ending
<1>4. ProgressInv
  BY DEF Init, ProgressInv, Running, Ending
<1>5. OrderInv
  <2>1. Len(received) = 0
    BY EmptySeq DEF Init
  <2>2. Len(Sent) = 0
    BY ConcatEmptySeq, EmptySeq DEF Init, Sent
  <2> QED BY <1>1, <2>1, <2>2, TranscriptFacts DEF OrderInv
<1>6. LimitsInv
  <2>1. Len(received) = 0 /\ call.maxRows \in Nat /\ call.maxPolls \in Nat
    BY LimitsAreNumbers, EmptySeq DEF Init, Calls
  <2> QED BY <2>1 DEF Init, LimitsInv
<1> QED BY <1>2, <1>3, <1>4, <1>5, <1>6 DEF IInv

THEOREM Invariance == Spec => []IInv
<1>1. Init => IInv
  BY InitInv
<1>2. IInv /\ [Next]_vars => IInv'
  <2> SUFFICES ASSUME IInv, [Next]_vars PROVE IInv'
    OBVIOUS
  <2> QED BY TypesKeep, GroupKeeps, ReleaseKeeps, ReportKeeps, ProgressKeeps, OrderKeeps, LimitsKeep
          DEF IInv
<1> QED BY <1>1, <1>2, PTL DEF Spec

LEMMA Prefix ==
  ASSUME NEW S, NEW s \in Seq(S), NEW t \in Seq(S),
         Len(s) <= Len(t), \A i \in 1..Len(s) : s[i] = t[i]
  PROVE  IsPrefix(s, t)
<1>1. Len(s) \in Nat /\ Len(t) \in Nat
  BY LenProperties
<1>2. PICK n \in Nat : n = Len(s)
  BY <1>1
<1>3. \A i \in 1..n : t[i] \in S
  BY <1>1, <1>2, ElementOfSeq
<1>4. /\ SubSeq(t, 1, n) \in Seq(S) /\ Len(SubSeq(t, 1, n)) = (IF 1 <= n THEN n - 1 + 1 ELSE 0)
      /\ \A i \in 1..(n - 1 + 1) : SubSeq(t, 1, n)[i] = t[1 + i - 1]
  <2>1. 1 \in Int /\ n \in Int
    BY <1>2
  <2> QED BY <1>3, <2>1, SubSeqProperties
<1>5. PICK u \in Seq(S) : u = SubSeq(t, 1, n)
  BY <1>4
<1>6. Len(u) = n /\ \A i \in 1..n : u[i] = t[i]
  <2>1. (IF 1 <= n THEN n - 1 + 1 ELSE 0) = n /\ n - 1 + 1 = n
    BY <1>2
  <2>2. \A i \in 1..n : 1 + i - 1 = i
    BY <1>2
  <2> QED BY <1>4, <1>5, <2>1, <2>2
<1>7. u = s
  BY <1>2, <1>6, SeqEqual
<1>8. SubSeq(s, 1, Len(s)) = s
  BY SubSeqFull
<1> QED BY <1>2, <1>5, <1>7, <1>8 DEF IsPrefix

(***************************************************************************)
(* The theorems                                                            *)
(***************************************************************************)
\* Whatever the pages, the limits and the capacity of the channel, what the
\* consumer gets is a prefix of the one right transcript, and the rows that
\* are counted a prefix of the result.
THEOREM NothingLostOrRepeated == Spec => []EventsInOrder
<1>1. IInv => EventsInOrder
  <2> SUFFICES ASSUME IInv PROVE EventsInOrder
    OBVIOUS
  <2>1. Ends[LastPage] \in Nat
    BY PageFacts
  <2>2. PICK n \in Nat : n = Ends[LastPage]
    BY <2>1
  <2>3. Rows \in Seq(Nat) /\ Len(Rows) = n /\ \A i \in 1..n : Rows[i] = i
    BY <2>2 DEF Rows
  <2>4. IsPrefix(received, Rows)
    <3>1. /\ received \in Seq(Nat) /\ Len(received) <= Len(Rows) /\ Len(received) \in Nat
          /\ \A i \in 1..Len(received) : received[i] = Rows[i]
      BY <2>2, <2>3, LenProperties DEF IInv, Types, OrderInv
    <3> QED BY <2>3, <3>1, Prefix
  <2>5. ASSUME Streaming PROVE IsPrefix(taken \o events, Transcript)
    <3>1. /\ Sent \in Seq(EventSet) /\ Len(Sent) <= Len(Transcript)
          /\ \A i \in 1..Len(Sent) : Sent[i] = Transcript[i]
      <4>1. Sent \in Seq(EventSet)
        BY Joined DEF IInv, Types, Sent
      <4> QED BY <2>5, <4>1 DEF IInv, OrderInv
    <3>2. IsPrefix(Sent, Transcript)
      BY <2>5, <3>1, TranscriptFacts, Prefix
    <3> QED BY <3>2 DEF Sent
  <2> QED BY <2>4, <2>5 DEF EventsInOrder
<1> QED BY <1>1, Invariance, PTL

\* The caller can trust the outcome: no error means the whole result, complete
\* and released; the errors of MaxRows and MaxPolls mean that the limit was met.
THEOREM VerdictIsHonest == Spec => []VerdictHonest
<1>1. IInv => VerdictHonest
  <2> SUFFICES ASSUME IInv, Over PROVE
        /\ Streaming => errsShut
        /\ err = "none" => received = Rows /\ op = "closed" /\ (Streaming => taken = Transcript)
        /\ err = "rowLimit" => Len(received) = call.maxRows /\ received # Rows
        /\ err = "pollLimit" => polls = call.maxPolls
    BY DEF VerdictHonest
  <2>1. /\ ppc \in {"end", "done"} /\ err = Verdict /\ (Streaming => errsShut)
        /\ Streaming => events = << >>
    BY DEF Over, IInv, ReportInv
  <2>2. ppc \in Ending
    BY <2>1 DEF Ending
  <2>3. PICK n \in Nat : n = Ends[LastPage]
    BY PageFacts
  <2>4. Rows \in Seq(Nat) /\ Len(Rows) = n /\ \A i \in 1..n : Rows[i] = i
    BY <2>3 DEF Rows
  <2>5. ASSUME err = "none" PROVE received = Rows /\ op = "closed" /\ (Streaming => taken = Transcript)
    <3>1. reason = "none" /\ ~cleanupErr
      BY <2>1, <2>5 DEF Verdict
    <3>2. op = "closed"
      BY <2>2, <3>1 DEF IInv, ReleaseInv
    <3>3. Len(received) = n /\ (Streaming => Len(Sent) = Len(Transcript))
      BY <2>2, <2>3, <3>1 DEF IInv, ProgressInv
    <3>4. received = Rows
      <4>1. received \in Seq(Nat) /\ \A i \in 1..Len(received) : received[i] = Rows[i]
        BY <2>4, <3>3 DEF IInv, Types, OrderInv
      <4> QED BY <2>4, <3>3, <4>1, SeqEqual
    <3>5. ASSUME Streaming PROVE taken = Transcript
      <4>1. taken \in Seq(EventSet) /\ taken \o << >> = taken
        BY ConcatEmptySeq DEF IInv, Types
      <4>2. Sent = taken
        BY <2>1, <3>5, <4>1, Zenon DEF Sent
      <4>3. Len(taken) = Len(Transcript) /\ \A i \in 1..Len(taken) : taken[i] = Transcript[i]
        BY <3>3, <3>5, <4>2 DEF IInv, OrderInv
      <4> QED BY <3>5, <4>1, <4>3, TranscriptFacts, SeqEqual
    <3> QED BY <3>2, <3>4, <3>5
  <2>6. ASSUME err = "rowLimit" PROVE Len(received) = call.maxRows /\ received # Rows
    <3>1. Len(received) = call.maxRows /\ Len(received) < n
      BY <2>1, <2>3, <2>6 DEF Verdict, IInv, LimitsInv
    <3> QED BY <2>4, <3>1
  <2>7. err = "pollLimit" => polls = call.maxPolls
    BY <2>1 DEF Verdict, IInv, LimitsInv
  <2> QED BY <2>1, <2>5, <2>6, <2>7
<1> QED BY <1>1, Invariance, PTL

\* An execution that ends, and did not succeed on a closed client, leaves no
\* operation on the server as long as no request was lost.
THEOREM FailedExecutionReleases == Spec => []FailureReleases
<1>1. IInv => FailureReleases
  BY DEF IInv, ReleaseInv, FailureReleases, Ending
<1> QED BY <1>1, Invariance, PTL

\* GatewayClient.Close returns without error only when no execution runs, and
\* none begins afterwards.
THEOREM CloseWaits == Spec => []ClientCloseWaits
<1>1. IInv => ClientCloseWaits
  BY DEF IInv, GroupInv
<1> QED BY <1>1, Invariance, PTL
=============================================================================
