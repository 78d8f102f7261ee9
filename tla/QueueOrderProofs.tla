-------------------------- MODULE QueueOrderProofs --------------------------
(***************************************************************************)
(* Proofs about QueueOrder, for lists of any length.  The library has no   *)
(* principle of induction that the provers can use, so an induction over a *)
(* list is a proof that no smallest counterexample exists.                 *)
(***************************************************************************)
EXTENDS QueueOrder, SequenceTheorems, FunctionTheorems, FiniteSetTheorems, TLAPS

(* Every set of numbers has a smallest one.                                *)
LEMMA LeastElement == ASSUME NEW T \in SUBSET Nat, T # {} PROVE \E x \in T : \A y \in T : x <= y
<1> DEFINE R == {ss \in Nat \X Nat : ss[1] < ss[2]}
<1>1. IsWellFoundedOn(R, Nat)
  BY NatLessThanWellFounded DEF OpToRel
<1>2. \E x \in T : \A y \in T : ~ (<<y, x>> \in R)
  <2> HIDE DEF R
  <2> QED BY <1>1, WFMin
<1>3. PICK x \in T : \A y \in T : ~ (<<y, x>> \in R)
  BY <1>2
<1>4. \A y \in T : ~(y < x)
  BY <1>3
<1> QED BY <1>4

(* Induction: what holds at 0 and passes on from each number below n to    *)
(* the next holds up to n.                                                 *)
LEMMA Induct ==
    ASSUME NEW n \in Nat, NEW G \in SUBSET Nat, 0 \in G,
           \A i \in 1..n : i - 1 \in G => i \in G
    PROVE  \A i \in 0..n : i \in G
<1> DEFINE Bad == {i \in 0..n : i \notin G}
<1> SUFFICES ASSUME Bad # {} PROVE FALSE
  OBVIOUS
<1>0. Bad \in SUBSET Nat
  OBVIOUS
<1>1. PICK x \in Bad : \A y \in Bad : x <= y
  <2> HIDE DEF Bad
  <2> QED BY <1>0, LeastElement
<1>2. x # 0 /\ x - 1 \in 0..n
  BY <1>1
<1>3. x - 1 \in G
  BY <1>1, <1>2
<1> QED
  BY <1>1, <1>2, <1>3

-----------------------------------------------------------------------------
(* The recursion of Kept is well founded: the function it describes        *)
(* exists.                                                                 *)
LEMMA KeptStep ==
    ASSUME NEW X, NEW s \in Seq(X), NEW S
    PROVE  /\ Kept(s, S)[0] = <<>>
           /\ \A i \in 1..Len(s) :
                Kept(s, S)[i] = IF s[i] \in S THEN Append(Kept(s, S)[i - 1], s[i])
                                ELSE Kept(s, S)[i - 1]
<1> DEFINE Body(f, n) == [i \in 0..n |-> IF i = 0 THEN <<>>
                                       ELSE IF s[i] \in S THEN Append(f[i - 1], s[i])
                                       ELSE f[i - 1]]
           G == {n \in Nat : \E f : f = Body(f, n)}
<1>1. 0 \in G
  <2>1. [i \in 0..0 |-> <<>>] = Body([i \in 0..0 |-> <<>>], 0)
    OBVIOUS
  <2> QED BY <2>1
<1>2. ASSUME NEW n \in 1..Len(s), n - 1 \in G PROVE n \in G
  <2>1. PICK f : f = Body(f, n - 1)
    BY <1>2
  <2> DEFINE g == [i \in 0..n |-> IF i = n THEN IF s[n] \in S THEN Append(f[n - 1], s[n])
                                                              ELSE f[n - 1]
                                 ELSE f[i]]
  <2>2. \A i \in 0..n : g[i] = IF i = 0 THEN <<>>
                               ELSE IF s[i] \in S THEN Append(g[i - 1], s[i])
                               ELSE g[i - 1]
    <3> SUFFICES ASSUME NEW i \in 0..n
                 PROVE  g[i] = IF i = 0 THEN <<>>
                               ELSE IF s[i] \in S THEN Append(g[i - 1], s[i])
                               ELSE g[i - 1]
      OBVIOUS
    <3>1. i # 0 => g[i - 1] = f[i - 1]
      OBVIOUS
    <3>2. CASE i = n
      BY <3>1, <3>2
    <3>3. CASE i # n
      <4>1. g[i] = f[i] /\ i \in 0..(n - 1)
        BY <3>3
      <4>2. f[i] = Body(f, n - 1)[i]
        BY <2>1
      <4> QED BY <3>1, <4>1, <4>2
    <3> QED BY <3>2, <3>3
  <2>3. g = Body(g, n)
    BY <2>2
  <2>4. \E h : h = Body(h, n)
    <3> HIDE DEF g, Body
    <3> QED BY <2>3
  <2> QED
    BY <2>4
<1>3. Len(s) \in G
  <2>1. G \in SUBSET Nat /\ Len(s) \in Nat
    OBVIOUS
  <2> HIDE DEF G
  <2>2. \A i \in 0..Len(s) : i \in G
    BY <1>1, <1>2, <2>1, Induct
  <2> QED BY <2>1, <2>2
<1>4. PICK f : f = Body(f, Len(s))
  BY <1>3
<1>5. Kept(s, S) = Body(Kept(s, S), Len(s))
  BY <1>4 DEF Kept
<1>6. \A i \in 0..Len(s) : Kept(s, S)[i] = Body(Kept(s, S), Len(s))[i]
  BY <1>5
<1> QED
  BY <1>6

-----------------------------------------------------------------------------
(* Sequences: one element more, and one list after another.                *)
LEMMA Appended ==
    ASSUME NEW X, NEW s \in Seq(X), NEW x \in X
    PROVE  /\ Append(s, x) \in Seq(X)
           /\ Elems(Append(s, x)) = Elems(s) \cup {x}
           /\ NoRepeats(s) /\ x \notin Elems(s) => NoRepeats(Append(s, x))
<1>1. /\ Append(s, x) \in Seq(X) /\ Len(Append(s, x)) = Len(s) + 1
      /\ \A i \in 1..Len(s) : Append(s, x)[i] = s[i]
      /\ Append(s, x)[Len(s) + 1] = x /\ Len(s) \in Nat
  OBVIOUS
<1> DEFINE t == Append(s, x)
<1> HIDE DEF t
<1> QED
  BY <1>1 DEF Elems, NoRepeats, t

(* A list after another has the elements of both.                          *)
LEMMA Concatenated ==
    ASSUME NEW X, NEW s \in Seq(X), NEW t \in Seq(X)
    PROVE  /\ s \o t \in Seq(X) /\ Len(s \o t) = Len(s) + Len(t)
           /\ \A i \in 1..Len(s) : (s \o t)[i] = s[i]
           /\ \A i \in 1..Len(t) : (s \o t)[Len(s) + i] = t[i]
           /\ Elems(s \o t) = Elems(s) \cup Elems(t)
           /\ NoRepeats(s) /\ NoRepeats(t) /\ Elems(s) \cap Elems(t) = {}
                => NoRepeats(s \o t)
<1>1. /\ s \o t \in Seq(X) /\ Len(s \o t) = Len(s) + Len(t)
      /\ \A i \in 1..Len(s) : (s \o t)[i] = s[i]
      /\ \A i \in 1..Len(t) : (s \o t)[Len(s) + i] = t[i]
      /\ \A i \in 1..Len(s \o t) : i \notin 1..Len(s) => (s \o t)[i] = t[i - Len(s)]
      /\ Len(s) \in Nat /\ Len(t) \in Nat
  OBVIOUS
<1> DEFINE u == s \o t
<1>2. /\ \A i \in 1..Len(u) : \/ i \in 1..Len(s) /\ u[i] = s[i]
                              \/ i - Len(s) \in 1..Len(t) /\ u[i] = t[i - Len(s)]
      /\ \A i \in 1..Len(s) : i \in 1..Len(u) /\ u[i] = s[i]
      /\ \A i \in 1..Len(t) : Len(s) + i \in 1..Len(u) /\ u[Len(s) + i] = t[i]
  BY <1>1
<1> HIDE DEF u
<1>3. Elems(u) = Elems(s) \cup Elems(t)
  <2>1. Elems(u) \subseteq Elems(s) \cup Elems(t)
    BY <1>2 DEF Elems
  <2>2. Elems(s) \subseteq Elems(u)
    BY <1>2 DEF Elems
  <2>3. Elems(t) \subseteq Elems(u)
    BY <1>2 DEF Elems
  <2> QED BY <2>1, <2>2, <2>3
<1>4. ASSUME NoRepeats(s), NoRepeats(t), Elems(s) \cap Elems(t) = {} PROVE NoRepeats(u)
  <2> SUFFICES ASSUME NEW i \in 1..Len(u), NEW j \in 1..Len(u), u[i] = u[j] PROVE i = j
    BY DEF NoRepeats
  <2>1. CASE i \in 1..Len(s) /\ j \in 1..Len(s)
    BY <1>2, <1>4, <2>1 DEF NoRepeats
  <2>2. CASE i \notin 1..Len(s) /\ j \notin 1..Len(s)
    <3>1. /\ i - Len(s) \in 1..Len(t) /\ j - Len(s) \in 1..Len(t)
          /\ t[i - Len(s)] = t[j - Len(s)]
      BY <1>2, <2>2
    <3>2. i - Len(s) = j - Len(s)
      BY <1>4, <3>1 DEF NoRepeats
    <3> QED BY <3>2, <1>1
  <2>3. CASE i \in 1..Len(s) /\ j \notin 1..Len(s)
    <3>1. u[i] \in Elems(s) /\ u[j] \in Elems(t)
      BY <1>2, <2>3 DEF Elems
    <3> QED BY <1>4, <3>1
  <2>4. CASE i \notin 1..Len(s) /\ j \in 1..Len(s)
    <3>1. u[j] \in Elems(s) /\ u[i] \in Elems(t)
      BY <1>2, <2>4 DEF Elems
    <3> QED BY <1>4, <3>1
  <2> QED BY <2>1, <2>2, <2>3, <2>4
<1> QED
  BY <1>1, <1>3, <1>4 DEF u

(* A list cut in two.                                                      *)
Disjoint(a, b) == NoRepeats(a) /\ NoRepeats(b) /\ Elems(a) \cap Elems(b) = {}
CutAt(s, k, a, b) ==
    /\ s = a \o b /\ Len(a) = k /\ Len(b) = Len(s) - k
    /\ NoRepeats(s) => Disjoint(a, b)

LEMMA CutInTwo ==
    ASSUME NEW X, NEW s \in Seq(X), NEW k \in 0..Len(s)
    PROVE  /\ SubSeq(s, 1, k) \in Seq(X) /\ SubSeq(s, k + 1, Len(s)) \in Seq(X)
           /\ CutAt(s, k, SubSeq(s, 1, k), SubSeq(s, k + 1, Len(s)))
<1> DEFINE a == SubSeq(s, 1, k)
           b == SubSeq(s, k + 1, Len(s))
<1>1. /\ a \in Seq(X) /\ b \in Seq(X) /\ Len(a) = k /\ Len(b) = Len(s) - k
      /\ \A i \in 1..k : a[i] = s[i]
      /\ \A i \in 1..(Len(s) - k) : b[i] = s[k + i]
      /\ Len(s) \in Nat
  OBVIOUS
<1>2. s = a \o b
  <2>1. 1 \in 1..Len(s) + 1 /\ k \in (1 - 1)..Len(s) /\ Len(s) \in k..Len(s)
    BY <1>1
  <2>2. SubSeq(s, 1, k) \o SubSeq(s, k + 1, Len(s)) = SubSeq(s, 1, Len(s))
    BY <2>1, ConcatAdjacentSubSeq, Zenon
  <2> QED BY <2>2, SubSeqFull
<1> HIDE DEF a, b
<1>3. ASSUME NoRepeats(s)
      PROVE  NoRepeats(a) /\ NoRepeats(b) /\ Elems(a) \cap Elems(b) = {}
  <2>1. NoRepeats(a)
    BY <1>1, <1>3 DEF NoRepeats
  <2>2. NoRepeats(b)
    <3> SUFFICES ASSUME NEW i \in 1..Len(b), NEW j \in 1..Len(b), b[i] = b[j] PROVE i = j
      BY DEF NoRepeats
    <3>1. s[k + i] = s[k + j] /\ k + i \in 1..Len(s) /\ k + j \in 1..Len(s)
      BY <1>1
    <3>2. k + i = k + j
      BY <1>3, <3>1 DEF NoRepeats
    <3> QED BY <3>2, <1>1
  <2>3. ASSUME NEW i \in 1..Len(a), NEW j \in 1..Len(b), a[i] = b[j] PROVE FALSE
    <3>1. s[i] = s[k + j] /\ i \in 1..Len(s) /\ k + j \in 1..Len(s) /\ i # k + j
      BY <1>1, <2>3
    <3> QED BY <1>3, <3>1 DEF NoRepeats
  <2> QED BY <2>1, <2>2, <2>3 DEF Elems
<1> QED
  BY <1>1, <1>2, <1>3 DEF CutAt, Disjoint, a, b

-----------------------------------------------------------------------------
(* What Filter returns.                                                    *)

(* The elements of the list that are wanted, none twice.                   *)
LEMMA FilterElems ==
    ASSUME NEW X, NEW s \in Seq(X), NEW S
    PROVE  /\ Filter(s, S) \in Seq(X)
           /\ Elems(Filter(s, S)) = Elems(s) \cap S
           /\ NoRepeats(s) => NoRepeats(Filter(s, S))
<1> DEFINE k == Kept(s, S)
           Seen(i) == {s[j] : j \in 1..i}
           G == {i \in Nat : /\ k[i] \in Seq(X) /\ Elems(k[i]) = Seen(i) \cap S
                             /\ NoRepeats(s) => NoRepeats(k[i])}
<1>1. 0 \in G
  <2>1. k[0] = <<>>
    BY KeptStep
  <2>2. Seen(0) = {} /\ Elems(<<>>) = {} /\ NoRepeats(<<>>)
    BY DEF Elems, NoRepeats
  <2>3. <<>> \in Seq(X)
    OBVIOUS
  <2> HIDE DEF k, Seen
  <2>4. k[0] \in Seq(X) /\ Elems(k[0]) = Seen(0) \cap S /\ NoRepeats(k[0])
    BY <2>1, <2>2, <2>3, Zenon
  <2> QED BY <2>4
<1>2. ASSUME NEW i \in 1..Len(s), i - 1 \in G PROVE i \in G
  <2>1. k[i] = IF s[i] \in S THEN Append(k[i - 1], s[i]) ELSE k[i - 1]
    BY KeptStep
  <2> HIDE DEF k
  <2>2. k[i - 1] \in Seq(X) /\ Elems(k[i - 1]) = Seen(i - 1) \cap S /\ s[i] \in X /\ i \in Nat
    BY <1>2
  <2>3. Seen(i) = Seen(i - 1) \cup {s[i]}
    <3>1. 1..i = (1..(i - 1)) \cup {i}
      OBVIOUS
    <3> QED BY <3>1
  <2>4. NoRepeats(s) => s[i] \notin Seen(i - 1)
    BY DEF NoRepeats
  <2> HIDE DEF Seen
  <2>5. CASE s[i] \in S
    <3>1. /\ Append(k[i - 1], s[i]) \in Seq(X)
          /\ Elems(Append(k[i - 1], s[i])) = Elems(k[i - 1]) \cup {s[i]}
          /\ NoRepeats(k[i - 1]) /\ s[i] \notin Elems(k[i - 1])
               => NoRepeats(Append(k[i - 1], s[i]))
      BY <2>2, Appended
    <3>2. /\ k[i] \in Seq(X) /\ Elems(k[i]) = Seen(i) \cap S
          /\ NoRepeats(s) => NoRepeats(k[i])
      BY <1>2, <2>1, <2>2, <2>3, <2>4, <2>5, <3>1
    <3> QED BY <2>2, <3>2
  <2>6. CASE s[i] \notin S
    BY <1>2, <2>1, <2>2, <2>3, <2>6
  <2> QED BY <2>5, <2>6
<1>3. Len(s) \in G
  <2>1. G \in SUBSET Nat /\ Len(s) \in Nat
    OBVIOUS
  <2> HIDE DEF G
  <2>2. \A i \in 0..Len(s) : i \in G
    BY <1>1, <1>2, <2>1, Induct
  <2> QED BY <2>1, <2>2
<1> QED
  BY <1>3 DEF Filter, Elems

(* A list of which everything is wanted.                                   *)
LEMMA FilterAll ==
    ASSUME NEW X, NEW s \in Seq(X), NEW S, Elems(s) \subseteq S
    PROVE  Filter(s, S) = s
<1> DEFINE k == Kept(s, S)
           G == {i \in Nat : i <= Len(s) /\ k[i] = SubSeq(s, 1, i)}
<1>1. 0 \in G
  <2>1. k[0] = <<>>
    BY KeptStep
  <2>2. SubSeq(s, 1, 0) = <<>>
    BY SubSeqEmpty
  <2>3. k[0] = SubSeq(s, 1, 0) /\ 0 <= Len(s)
    BY <2>1, <2>2
  <2> HIDE DEF k
  <2> QED BY <2>3
<1>2. ASSUME NEW i \in 1..Len(s), i - 1 \in G PROVE i \in G
  <2>1. k[i] = IF s[i] \in S THEN Append(k[i - 1], s[i]) ELSE k[i - 1]
    BY KeptStep
  <2> HIDE DEF k
  <2>2. s[i] \in S
    BY DEF Elems
  <2>3. k[i] = Append(SubSeq(s, 1, i - 1), s[i])
    BY <1>2, <2>1, <2>2
  <2>4. /\ SubSeq(s, 1, i - 1) \in Seq(X) /\ Len(SubSeq(s, 1, i - 1)) = i - 1
        /\ SubSeq(s, 1, i) \in Seq(X) /\ Len(SubSeq(s, 1, i)) = i
        /\ \A j \in 1..i : SubSeq(s, 1, i)[j] = s[j]
        /\ \A j \in 1..(i - 1) : SubSeq(s, 1, i - 1)[j] = s[j]
        /\ s[i] \in X
    OBVIOUS
  <2>5. /\ k[i] \in Seq(X) /\ Len(k[i]) = i
        /\ \A j \in 1..(i - 1) : k[i][j] = s[j]
        /\ k[i][i] = s[i]
    BY <2>3, <2>4
  <2>6. \A j \in 1..i : k[i][j] = SubSeq(s, 1, i)[j]
    BY <2>4, <2>5
  <2>7. k[i] = SubSeq(s, 1, i)
    <3> DEFINE u == SubSeq(s, 1, i)
    <3>1. u \in Seq(X) /\ Len(u) = Len(k[i]) /\ \A j \in 1..Len(k[i]) : k[i][j] = u[j]
      BY <2>4, <2>5, <2>6
    <3> HIDE DEF u
    <3>2. k[i] = u
      BY <2>5, <3>1, SeqEqual
    <3> QED BY <3>2 DEF u
  <2> QED BY <2>7
<1>3. Len(s) \in G
  <2>1. G \in SUBSET Nat /\ Len(s) \in Nat
    OBVIOUS
  <2> HIDE DEF G
  <2>2. \A i \in 0..Len(s) : i \in G
    BY <1>1, <1>2, <2>1, Induct
  <2> QED BY <2>1, <2>2
<1> QED
  BY <1>3, SubSeqFull DEF Filter

(* A list of which nothing is wanted.                                      *)
LEMMA FilterNone ==
    ASSUME NEW X, NEW s \in Seq(X), NEW S, Elems(s) \cap S = {}
    PROVE  Filter(s, S) = <<>>
<1>1. Filter(s, S) \in Seq(X) /\ Elems(Filter(s, S)) = {}
  BY FilterElems
<1> DEFINE t == Filter(s, S)
<1> HIDE DEF t
<1>2. ASSUME Len(t) # 0 PROVE FALSE
  <2>1. 1 \in 1..Len(t)
    BY <1>1, <1>2 DEF t
  <2> QED BY <1>1, <2>1 DEF Elems, t
<1> QED
  BY <1>1, <1>2 DEF t

(* The wanted elements of a list after another are those of the first,     *)
(* then those of the second.                                               *)
LEMMA FilterConcat ==
    ASSUME NEW X, NEW s \in Seq(X), NEW t \in Seq(X), NEW S
    PROVE  Filter(s \o t, S) = Filter(s, S) \o Filter(t, S)
<1>0. \A a \in Seq(X), b \in Seq(X), x \in X : Append(a \o b, x) = a \o Append(b, x)
  <2> TAKE a \in Seq(X), b \in Seq(X), x \in X
  <2> DEFINE c == <<x>>
  <2>1. c \in Seq(X) /\ a \o b \in Seq(X)
    OBVIOUS
  <2>2. Append(a \o b, x) = (a \o b) \o c /\ Append(b, x) = b \o c
    BY <2>1, AppendIsConcat, Zenon
  <2> HIDE DEF c
  <2>3. (a \o b) \o c = a \o (b \o c)
    BY <2>1, ConcatAssociative
  <2> QED BY <2>2, <2>3, Zenon
<1> DEFINE u == s \o t
           ku == Kept(u, S)
           ks == Kept(s, S)
           kt == Kept(t, S)
           G == {i \in Nat : i <= Len(s) /\ ku[i] = ks[i]}
           H == {i \in Nat : kt[i] \in Seq(X) /\ ku[Len(s) + i] = ks[Len(s)] \o kt[i]}
<1>1. /\ u \in Seq(X) /\ Len(u) = Len(s) + Len(t)
      /\ \A i \in 1..Len(s) : u[i] = s[i]
      /\ \A i \in 1..Len(t) : u[Len(s) + i] = t[i]
      /\ Len(s) \in Nat /\ Len(t) \in Nat
  BY Concatenated
<1>2. /\ ku[0] = <<>> /\ ks[0] = <<>> /\ kt[0] = <<>>
      /\ \A i \in 1..Len(u) : ku[i] = IF u[i] \in S THEN Append(ku[i - 1], u[i]) ELSE ku[i - 1]
      /\ \A i \in 1..Len(s) : ks[i] = IF s[i] \in S THEN Append(ks[i - 1], s[i]) ELSE ks[i - 1]
      /\ \A i \in 1..Len(t) : kt[i] = IF t[i] \in S THEN Append(kt[i - 1], t[i]) ELSE kt[i - 1]
  <2> HIDE DEF u
  <2> QED BY <1>1, KeptStep, SMTT(30)
<1>3. Filter(s, S) \in Seq(X) /\ ks[Len(s)] = Filter(s, S)
  BY FilterElems DEF Filter
<1> HIDE DEF u, ku, ks, kt
<1>4. \A i \in 0..Len(s) : i \in G
  <2>1. 0 \in G /\ G \in SUBSET Nat
    BY <1>1, <1>2
  <2>2. ASSUME NEW i \in 1..Len(s), i - 1 \in G PROVE i \in G
    <3>1. i \in 1..Len(u) /\ u[i] = s[i] /\ ku[i - 1] = ks[i - 1]
      BY <1>1, <2>2
    <3>2. ku[i] = ks[i]
      BY <1>2, <3>1, Zenon
    <3> QED BY <3>2
  <2> HIDE DEF G
  <2> QED BY <1>1, <2>1, <2>2, Induct
<1>5. \A i \in 0..Len(t) : i \in H
  <2>1. ku[Len(s)] = ks[Len(s)] /\ Len(s) + 0 = Len(s)
    <3>1. Len(s) \in G
      <4> HIDE DEF G
      <4> QED BY <1>1, <1>4
    <3> QED BY <1>1, <3>1
  <2>2. 0 \in H /\ H \in SUBSET Nat
    <3>1. ks[Len(s)] \o kt[0] = ks[Len(s)] /\ kt[0] \in Seq(X)
      BY <1>2, <1>3, ConcatEmptySeq
    <3>2. ku[Len(s) + 0] = ks[Len(s)] \o kt[0]
      BY <2>1, <3>1
    <3> QED BY <1>1, <3>1, <3>2
  <2>3. ASSUME NEW i \in 1..Len(t), i - 1 \in H PROVE i \in H
    <3>1. /\ Len(s) + i \in 1..Len(u) /\ u[Len(s) + i] = t[i] /\ t[i] \in X
          /\ (Len(s) + i) - 1 = Len(s) + (i - 1)
      BY <1>1
    <3>2. ku[Len(s) + (i - 1)] = ks[Len(s)] \o kt[i - 1] /\ kt[i - 1] \in Seq(X)
      BY <2>3
    <3>3. ku[Len(s) + i] = IF t[i] \in S THEN Append(ks[Len(s)] \o kt[i - 1], t[i])
                           ELSE ks[Len(s)] \o kt[i - 1]
      BY <1>2, <3>1, <3>2
    <3>4. Append(ks[Len(s)] \o kt[i - 1], t[i]) = ks[Len(s)] \o Append(kt[i - 1], t[i])
      <4>1. ks[Len(s)] \in Seq(X)
        BY <1>3
      <4> QED BY <1>0, <3>1, <3>2, <4>1
    <3>5. kt[i] = IF t[i] \in S THEN Append(kt[i - 1], t[i]) ELSE kt[i - 1]
      BY <1>2
    <3>6. kt[i] \in Seq(X)
      BY <3>1, <3>2, <3>5, AppendProperties
    <3>7. ku[Len(s) + i] = ks[Len(s)] \o kt[i]
      BY <3>3, <3>4, <3>5, Zenon
    <3>8. i \in Nat
      OBVIOUS
    <3> QED BY <3>6, <3>7, <3>8, Zenon
  <2> HIDE DEF H
  <2> QED BY <1>1, <2>2, <2>3, Induct
<1>6. ku[Len(s) + Len(t)] = ks[Len(s)] \o kt[Len(t)]
  <2>1. Len(t) \in H
    <3> HIDE DEF H
    <3> QED BY <1>1, <1>5
  <2> QED BY <2>1
<1> QED
  BY <1>1, <1>6 DEF Filter, u, ku, ks, kt

(* The position of an element.                                             *)
LEMMA IndexOfElement ==
    ASSUME NEW X, NEW s \in Seq(X), NEW x \in Elems(s)
    PROVE  /\ Index(s, x) \in 1..Len(s) /\ s[Index(s, x)] = x
           /\ \A i \in 1..Len(s) : NoRepeats(s) /\ s[i] = x => Index(s, x) = i
<1>1. \E i \in 1..Len(s) : s[i] = x
  BY DEF Elems
<1>2. Index(s, x) \in 1..Len(s) /\ s[Index(s, x)] = x
  BY <1>1 DEF Index
<1> QED
  BY <1>2 DEF NoRepeats

-----------------------------------------------------------------------------
(* Both operations cut the list of the other tasks in two and put a block  *)
(* in between.                                                             *)
Between(a, m, b, t) ==
    /\ Len(t) = Len(a) + Len(m) + Len(b)
    /\ \A i \in 1..Len(a) : t[i] = a[i]
    /\ \A i \in 1..Len(m) : t[Len(a) + i] = m[i]
    /\ \A i \in 1..Len(b) : t[Len(a) + Len(m) + i] = b[i]
    /\ Elems(t) = Elems(a) \cup Elems(m) \cup Elems(b)
    /\ NoRepeats(m) /\ Disjoint(a, b) /\ (Elems(a) \cup Elems(b)) \cap Elems(m) = {}
         => NoRepeats(t)

LEMMA BlockBetween ==
    ASSUME NEW X, NEW a \in Seq(X), NEW m \in Seq(X), NEW b \in Seq(X)
    PROVE  (a \o m) \o b \in Seq(X) /\ Between(a, m, b, (a \o m) \o b)
<1> DEFINE am == a \o m
           t == am \o b
<1>1. /\ am \in Seq(X) /\ Len(am) = Len(a) + Len(m)
      /\ \A i \in 1..Len(a) : am[i] = a[i]
      /\ \A i \in 1..Len(m) : am[Len(a) + i] = m[i]
      /\ Elems(am) = Elems(a) \cup Elems(m)
      /\ NoRepeats(a) /\ NoRepeats(m) /\ Elems(a) \cap Elems(m) = {} => NoRepeats(am)
  BY Concatenated
<1> HIDE DEF am
<1>2. /\ t \in Seq(X) /\ Len(t) = Len(am) + Len(b)
      /\ \A i \in 1..Len(am) : t[i] = am[i]
      /\ \A i \in 1..Len(b) : t[Len(am) + i] = b[i]
      /\ Elems(t) = Elems(am) \cup Elems(b)
      /\ NoRepeats(am) /\ NoRepeats(b) /\ Elems(am) \cap Elems(b) = {} => NoRepeats(t)
  BY <1>1, Concatenated
<1>3. Len(a) \in Nat /\ Len(m) \in Nat /\ Len(b) \in Nat
  OBVIOUS
<1> HIDE DEF t
<1>4. \A i \in 1..Len(a) : t[i] = a[i]
  BY <1>1, <1>2, <1>3
<1>5. \A i \in 1..Len(m) : t[Len(a) + i] = m[i]
  BY <1>1, <1>2, <1>3
<1>6. \A i \in 1..Len(b) : t[Len(a) + Len(m) + i] = b[i]
  BY <1>1, <1>2, <1>3
<1>7. Elems(t) = Elems(a) \cup Elems(m) \cup Elems(b)
  BY <1>1, <1>2
<1>8. NoRepeats(m) /\ Disjoint(a, b) /\ (Elems(a) \cup Elems(b)) \cap Elems(m) = {}
        => NoRepeats(t)
  BY <1>1, <1>2 DEF Disjoint
<1>9. t \in Seq(X) /\ Between(a, m, b, t)
  BY <1>1, <1>2, <1>3, <1>4, <1>5, <1>6, <1>7, <1>8 DEF Between
<1> QED
  BY <1>9 DEF t, am

(* What is wanted of a list with a block in between.                       *)
Around(a, m, b) == (a \o m) \o b

LEMMA FilterBetween ==
    ASSUME NEW X, NEW a \in Seq(X), NEW m \in Seq(X), NEW b \in Seq(X), NEW S
    PROVE  /\ Filter(Around(a, m, b), S)
                = Around(Filter(a, S), Filter(m, S), Filter(b, S))
           /\ Elems(m) \cap S = {} => Filter((a \o m) \o b, S) = Filter(a \o b, S)
<1> DEFINE am == a \o m
<1>0. am \in Seq(X)
  OBVIOUS
<1>1. Filter(am, S) = Filter(a, S) \o Filter(m, S)
  BY FilterConcat
<1> HIDE DEF am
<1>2. Filter(am \o b, S) = Filter(am, S) \o Filter(b, S)
  BY <1>0, FilterConcat
<1>3. Filter(am \o b, S) = (Filter(a, S) \o Filter(m, S)) \o Filter(b, S)
  BY <1>1, <1>2, Zenon
<1>4. ASSUME Elems(m) \cap S = {} PROVE Filter(am \o b, S) = Filter(a \o b, S)
  <2>1. Filter(m, S) = <<>>
    BY <1>4, FilterNone
  <2>2. Filter(a, S) \in Seq(X)
    BY FilterElems
  <2>3. Filter(a, S) \o <<>> = Filter(a, S)
    BY <2>2, ConcatEmptySeq
  <2>4. Filter(a \o b, S) = Filter(a, S) \o Filter(b, S)
    BY FilterConcat
  <2> QED BY <1>3, <2>1, <2>3, <2>4, Zenon
<1> QED
  BY <1>3, <1>4, Zenon DEF Around, am

-----------------------------------------------------------------------------
(* The list that move_tasks returns: the other tasks cut in two, in front  *)
(* of the target or behind it, and the moved ones in between.              *)
MoveCut(s, S, target, after, a, b) ==
    /\ MoveTasks(s, S, target, after) = (a \o Filter(s, S)) \o b
    /\ Without(s, S) = a \o b
    /\ Disjoint(a, b)
    /\ Elems(a) \cup Elems(b) = Elems(s) \ S
    /\ after => Len(a) # 0 /\ a[Len(a)] = target
    /\ ~after => Len(b) # 0 /\ b[1] = target

LEMMA MoveCuts ==
    ASSUME NEW X, NEW s \in Seq(X), NEW S, NEW target, NEW after \in BOOLEAN,
           NoRepeats(s), CanMove(s, S, target)
    PROVE  \E a \in Seq(X), b \in Seq(X) : MoveCut(s, S, target, after, a, b)
<1> DEFINE r == Without(s, S)
           m == Filter(s, S)
           k == Index(r, target) - (IF after THEN 0 ELSE 1)
           a == SubSeq(r, 1, k)
           b == SubSeq(r, k + 1, Len(r))
<1>1. r \in Seq(X) /\ Elems(r) = Elems(s) \ S /\ NoRepeats(r)
  <2> DEFINE T == Elems(s) \ S
  <2>1. r = Filter(s, T)
    BY DEF Without
  <2>2. Elems(s) \cap T = Elems(s) \ S
    OBVIOUS
  <2> HIDE DEF T, r
  <2> QED BY <2>1, <2>2, FilterElems
<1>2. target \in Elems(r)
  BY <1>1 DEF CanMove
<1>3. MoveTasks(s, S, target, after) = (a \o m) \o b
  BY DEF MoveTasks
<1> HIDE DEF r
<1>4. Index(r, target) \in 1..Len(r) /\ r[Index(r, target)] = target
  BY <1>1, <1>2, IndexOfElement
<1>5. k \in 0..Len(r) /\ Len(r) \in Nat
  BY <1>1, <1>4
<1> HIDE DEF k
<1>6a. a \in Seq(X) /\ b \in Seq(X) /\ CutAt(r, k, a, b)
  BY <1>1, <1>5, CutInTwo
<1>6. Len(a) = k /\ Len(b) = Len(r) - k /\ r = a \o b /\ Disjoint(a, b)
  BY <1>1, <1>6a DEF CutAt
<1> HIDE DEF a, b, m
<1>7. /\ \A i \in 1..Len(a) : (a \o b)[i] = a[i]
      /\ \A i \in 1..Len(b) : (a \o b)[Len(a) + i] = b[i]
      /\ Elems(a \o b) = Elems(a) \cup Elems(b)
  BY <1>6a, Concatenated
<1>8. after => Len(a) # 0 /\ a[Len(a)] = target
  <2> SUFFICES ASSUME after PROVE Len(a) # 0 /\ a[Len(a)] = target
    OBVIOUS
  <2>1. k = Index(r, target)
    BY <1>4 DEF k
  <2>2. k \in 1..Len(a) /\ r[k] = target
    BY <1>4, <1>6, <2>1
  <2> QED BY <1>6, <1>7, <2>2
<1>9. ~after => Len(b) # 0 /\ b[1] = target
  <2> SUFFICES ASSUME ~after PROVE Len(b) # 0 /\ b[1] = target
    OBVIOUS
  <2>1. k + 1 = Index(r, target)
    BY <1>4 DEF k
  <2>2. 1 \in 1..Len(b) /\ r[k + 1] = target
    BY <1>4, <1>5, <1>6, <2>1
  <2> QED BY <1>6, <1>7, <2>2
<1>10. MoveTasks(s, S, target, after) = (a \o Filter(s, S)) \o b
  BY <1>3 DEF m
<1>11. Without(s, S) = a \o b /\ Elems(a) \cup Elems(b) = Elems(s) \ S
  <2>1. r = a \o b /\ Elems(r) = Elems(a) \cup Elems(b)
    BY <1>6, <1>7, Zenon
  <2> QED BY <1>1, <2>1 DEF r
<1> QED
  BY <1>6, <1>6a, <1>8, <1>9, <1>10, <1>11, Zenon DEF MoveCut

(* move_tasks keeps its promise for every list without repetition, every   *)
(* selection and every target: the moved tasks form one block, in list     *)
(* order, right before or right after the target; the others keep their    *)
(* order; no task is lost or doubled.                                      *)
THEOREM MoveIsExact ==
    ASSUME NEW X, NEW s \in Seq(X), NEW S, NEW target, NEW after \in BOOLEAN,
           NoRepeats(s), CanMove(s, S, target)
    PROVE  BlockIsAdjacent(s, S, target, after)
<1>0. PICK a \in Seq(X), b \in Seq(X) : MoveCut(s, S, target, after, a, b)
  BY MoveCuts
<1>1. /\ Without(s, S) = a \o b /\ Disjoint(a, b)
      /\ Elems(a) \cup Elems(b) = Elems(s) \ S
      /\ after => Len(a) # 0 /\ a[Len(a)] = target
      /\ ~after => Len(b) # 0 /\ b[1] = target
  BY <1>0 DEF MoveCut
<1> DEFINE m == Filter(s, S)
           t == (a \o m) \o b
           T == Elems(t) \ S
           lo == Index(t, target) + (IF after THEN 1 ELSE -Len(m))
<1>2. m \in Seq(X) /\ Elems(m) = Elems(s) \cap S /\ NoRepeats(m)
  BY FilterElems
<1>3. target \in Elems(s)
  BY DEF CanMove
<1> HIDE DEF m
<1>4a. t \in Seq(X) /\ Between(a, m, b, t)
  BY <1>2, BlockBetween
<1>5. Filter(t, T) = Filter(a \o b, T)
  <2>1. Elems(m) \cap T = {}
    BY <1>2
  <2> HIDE DEF T
  <2> QED BY <1>2, <2>1, FilterBetween
<1> HIDE DEF t
<1>4. /\ Len(t) = Len(a) + Len(m) + Len(b)
      /\ \A i \in 1..Len(a) : t[i] = a[i]
      /\ \A i \in 1..Len(m) : t[Len(a) + i] = m[i]
      /\ \A i \in 1..Len(b) : t[Len(a) + Len(m) + i] = b[i]
      /\ Elems(t) = Elems(a) \cup Elems(m) \cup Elems(b)
      /\ NoRepeats(m) /\ Disjoint(a, b) /\ (Elems(a) \cup Elems(b)) \cap Elems(m) = {}
           => NoRepeats(t)
  BY <1>4a DEF Between
<1>6. Elems(t) = Elems(s) /\ NoRepeats(t)
  BY <1>1, <1>2, <1>4
<1>7. Len(a) \in Nat /\ Len(m) \in Nat /\ Len(b) \in Nat
  BY <1>2
<1>8. lo = Len(a) + 1
  <2>0. target \in Elems(t)
    BY <1>3, <1>6
  <2>1. CASE after
    <3>0. Len(a) \in 1..Len(a) /\ a[Len(a)] = target
      BY <1>1, <1>7, <2>1
    <3>1. Len(a) \in 1..Len(t) /\ t[Len(a)] = target
      <4>1. t[Len(a)] = a[Len(a)]
        BY <1>4, <3>0, Zenon
      <4>2. Len(t) = Len(a) + Len(m) + Len(b)
        BY <1>4
      <4> QED BY <1>7, <3>0, <4>1, <4>2
    <3>2. Index(t, target) = Len(a)
      BY <1>4a, <1>6, <2>0, <3>1, IndexOfElement
    <3> QED BY <1>7, <2>1, <3>2
  <2>2. CASE ~after
    <3>1. Len(a) + Len(m) + 1 \in 1..Len(t) /\ t[Len(a) + Len(m) + 1] = target
      BY <1>1, <1>4, <1>7, <2>2
    <3>2. Index(t, target) = Len(a) + Len(m) + 1
      BY <1>4a, <1>6, <2>0, <3>1, IndexOfElement
    <3> QED BY <1>7, <2>2, <3>2
  <2> QED BY <2>1, <2>2
<1> HIDE DEF lo
<1>9. SubSeq(t, lo, lo + Len(m) - 1) = m
  <2> DEFINE u == SubSeq(t, Len(a) + 1, Len(a) + Len(m))
  <2>1. /\ u \in Seq(X) /\ Len(u) = Len(m)
        /\ \A i \in 1..Len(m) : u[i] = t[Len(a) + i]
    BY <1>4, <1>4a, <1>7
  <2>2. lo + Len(m) - 1 = Len(a) + Len(m)
    BY <1>7, <1>8
  <2> HIDE DEF u
  <2>3. \A i \in 1..Len(u) : u[i] = m[i]
    BY <1>4, <2>1
  <2>4. u = m
    BY <1>2, <2>1, <2>3, SeqEqual
  <2> QED BY <1>8, <2>2, <2>4 DEF u
<1>10. lo >= 1 /\ lo + Len(m) - 1 <= Len(t)
  BY <1>4, <1>7, <1>8
<1>11. Without(t, S) = Without(s, S)
  <2>1. Without(t, S) = Filter(a \o b, T)
    BY <1>5 DEF Without
  <2> DEFINE u == a \o b
  <2>2. u \in Seq(X) /\ Elems(u) = Elems(a) \cup Elems(b)
    BY Concatenated
  <2>3. Elems(u) \subseteq T
    BY <1>1, <1>6, <2>2
  <2> HIDE DEF u, T
  <2>4. Filter(u, T) = u
    BY <2>2, <2>3, FilterAll
  <2> QED BY <1>1, <2>1, <2>4, Zenon DEF u
<1>12. MoveTasks(s, S, target, after) = t
  BY <1>0 DEF MoveCut, t, m
<1> QED
  BY <1>6, <1>9, <1>10, <1>11, <1>12 DEF BlockIsAdjacent, lo, m

-----------------------------------------------------------------------------
(* A list without repetition is as long as it has elements.                *)
LEMMA LengthCounts ==
    ASSUME NEW X, NEW s \in Seq(X), NoRepeats(s)
    PROVE  IsFiniteSet(Elems(s)) /\ Cardinality(Elems(s)) = Len(s)
<1> DEFINE E == Elems(s)
           D == 1..Len(s)
<1>1. /\ s \in [D -> E] /\ \A i, j \in D : s[i] = s[j] => i = j
      /\ \A x \in E : \E i \in D : s[i] = x
  BY DEF Elems, NoRepeats
<1>2. IsFiniteSet(D) /\ Cardinality(D) = Len(s)
  <2>1. Len(s) \in Nat /\ 1 \in Int /\ Len(s) \in Int
    OBVIOUS
  <2>2. /\ IsFiniteSet(1..Len(s))
        /\ Cardinality(1..Len(s)) = IF 1 > Len(s) THEN 0 ELSE Len(s) - 1 + 1
    BY <2>1, FS_Interval
  <2> QED BY <2>1, <2>2
<1> HIDE DEF E, D
<1>3. s \in Bijection(D, E)
  BY <1>1, Fun_IsBij, Zenon
<1>4. ExistsBijection(D, E)
  BY <1>3 DEF ExistsBijection
<1>5. IsFiniteSet(E) /\ Cardinality(E) = Cardinality(D)
  BY <1>2, <1>4, FS_Bijection
<1> QED
  BY <1>2, <1>5 DEF E

(* The list that change_position returns: the list itself, or the other    *)
(* tasks cut in two in front of the task that holds the position, or at    *)
(* the end, and the task in between.                                       *)
PositionCut(s, W, g, target, a, b) ==
    LET rest == Without(s, {g})
        queue == Filter(rest, W)
    IN  /\ \/ ChangePosition(s, W, g, target) = (a \o <<g>>) \o b
           \/ /\ ChangePosition(s, W, g, target) = s
              /\ Index(Filter(s, W), g) = target + 1
        /\ rest = a \o b
        /\ Disjoint(a, b)
        /\ Elems(a) \cup Elems(b) = Elems(s) \ {g}
        /\ target < Len(queue) => Len(b) # 0 /\ b[1] = queue[target + 1]
        /\ target >= Len(queue) => Len(b) = 0

LEMMA PositionCuts ==
    ASSUME NEW X, NEW s \in Seq(X), NEW W, NEW g, NEW target \in Nat, NoRepeats(s)
    PROVE  \E a \in Seq(X), b \in Seq(X) : PositionCut(s, W, g, target, a, b)
<1> DEFINE r == Without(s, {g})
           q == Filter(r, W)
           k == IF target < Len(q) THEN Index(r, q[target + 1]) - 1 ELSE Len(r)
           a == SubSeq(r, 1, k)
           b == SubSeq(r, k + 1, Len(r))
<1>1. r \in Seq(X) /\ Elems(r) = Elems(s) \ {g} /\ NoRepeats(r)
  <2> DEFINE T == Elems(s) \ {g}
  <2>1. r = Filter(s, T)
    BY DEF Without
  <2>2. Elems(s) \cap T = Elems(s) \ {g}
    OBVIOUS
  <2> HIDE DEF T, r
  <2> QED BY <2>1, <2>2, FilterElems
<1>2. \/ ChangePosition(s, W, g, target) = (a \o <<g>>) \o b
      \/ ChangePosition(s, W, g, target) = s /\ Index(Filter(s, W), g) = target + 1
  BY DEF ChangePosition
<1> HIDE DEF r
<1>3. q \in Seq(X) /\ Elems(q) = Elems(r) \cap W
  BY <1>1, FilterElems
<1> HIDE DEF q
<1>4. target < Len(q) => /\ Index(r, q[target + 1]) \in 1..Len(r)
                         /\ r[Index(r, q[target + 1])] = q[target + 1]
  <2> SUFFICES ASSUME target < Len(q)
               PROVE  /\ Index(r, q[target + 1]) \in 1..Len(r)
                      /\ r[Index(r, q[target + 1])] = q[target + 1]
    OBVIOUS
  <2>1. target + 1 \in 1..Len(q)
    BY <1>3
  <2> DEFINE x == q[target + 1]
  <2>2. x \in Elems(q)
    BY <1>3, <2>1 DEF Elems
  <2>3. x \in Elems(r)
    BY <1>3, <2>2
  <2> HIDE DEF x
  <2>4. Index(r, x) \in 1..Len(r) /\ r[Index(r, x)] = x
    BY <1>1, <2>3, IndexOfElement
  <2> QED BY <2>4 DEF x
<1>5. k \in 0..Len(r) /\ Len(r) \in Nat /\ Len(q) \in Nat
  BY <1>1, <1>3, <1>4
<1> HIDE DEF k
<1>6. a \in Seq(X) /\ b \in Seq(X) /\ CutAt(r, k, a, b)
  BY <1>1, <1>5, CutInTwo
<1>7. Len(a) = k /\ Len(b) = Len(r) - k /\ r = a \o b /\ Disjoint(a, b)
  BY <1>1, <1>6 DEF CutAt
<1> HIDE DEF a, b
<1>8. /\ \A i \in 1..Len(b) : (a \o b)[Len(a) + i] = b[i]
      /\ Elems(a \o b) = Elems(a) \cup Elems(b)
  BY <1>6, Concatenated
<1>9. target < Len(q) => Len(b) # 0 /\ b[1] = q[target + 1]
  <2> SUFFICES ASSUME target < Len(q) PROVE Len(b) # 0 /\ b[1] = q[target + 1]
    OBVIOUS
  <2>1. k + 1 = Index(r, q[target + 1])
    BY <1>4 DEF k
  <2>2. 1 \in 1..Len(b) /\ r[k + 1] = q[target + 1]
    BY <1>4, <1>5, <1>7, <2>1, SMTT(30)
  <2> QED BY <1>7, <1>8, <2>2
<1>10. target >= Len(q) => Len(b) = 0
  BY <1>5, <1>7 DEF k
<1>11. Elems(a) \cup Elems(b) = Elems(s) \ {g}
  BY <1>1, <1>7, <1>8, Zenon
<1>12. PositionCut(s, W, g, target, a, b)
  BY <1>2, <1>7, <1>9, <1>10, <1>11 DEF PositionCut, r, q
<1> QED
  BY <1>6, <1>12

(* A list that begins with a wanted element.                               *)
LEMMA FilterFirst ==
    ASSUME NEW X, NEW s \in Seq(X), NEW S, Len(s) # 0, s[1] \in S
    PROVE  1 \in 1..Len(Filter(s, S)) /\ Filter(s, S)[1] = s[1]
<1> DEFINE a == SubSeq(s, 1, 1)
           b == SubSeq(s, 1 + 1, Len(s))
           f == Filter(b, S)
<1>1. 1 \in 0..Len(s)
  OBVIOUS
<1>2. a \in Seq(X) /\ b \in Seq(X) /\ CutAt(s, 1, a, b)
  BY <1>1, CutInTwo
<1>3. s = a \o b /\ Len(a) = 1 /\ a[1] = s[1]
  BY <1>2 DEF CutAt
<1> HIDE DEF a, b
<1>4. Filter(a, S) = a
  <2>1. Elems(a) \subseteq S
    BY <1>3 DEF Elems
  <2> QED BY <1>2, <2>1, FilterAll
<1>5. Filter(s, S) = a \o f
  <2>1. Filter(a \o b, S) = Filter(a, S) \o Filter(b, S)
    BY <1>2, FilterConcat
  <2> QED BY <1>3, <1>4, <2>1, Zenon
<1>6. f \in Seq(X)
  BY <1>2, FilterElems
<1> HIDE DEF f
<1>7. /\ Len(a \o f) = Len(a) + Len(f) /\ Len(f) \in Nat
      /\ \A i \in 1..Len(a) : (a \o f)[i] = a[i]
  BY <1>2, <1>6, Concatenated
<1> DEFINE u == a \o f
<1>8. Len(u) = 1 + Len(f) /\ u[1] = s[1]
  <2> HIDE DEF u
  <2> QED BY <1>3, <1>7 DEF u
<1> HIDE DEF u
<1>9. Filter(s, S) = u
  BY <1>5 DEF u
<1> QED
  BY <1>7, <1>8, <1>9

(* One task less.                                                          *)
LEMMA OneLess ==
    ASSUME NEW X, NEW s \in Seq(X), NEW W, NEW g \in W \cap Elems(s), NoRepeats(s)
    PROVE  Len(Filter(s, W)) = Len(Filter(Without(s, {g}), W)) + 1
<1> DEFINE T == Elems(s) \ {g}
           r == Filter(s, T)
           p == Filter(s, W)
           q == Filter(r, W)
<1>1. r \in Seq(X) /\ Elems(r) = Elems(s) \cap T /\ NoRepeats(r)
  <2> HIDE DEF T
  <2> QED BY FilterElems
<1>2. p \in Seq(X) /\ Elems(p) = Elems(s) \cap W /\ NoRepeats(p)
  BY FilterElems
<1> HIDE DEF r
<1>3. q \in Seq(X) /\ Elems(q) = Elems(r) \cap W /\ NoRepeats(q)
  BY <1>1, FilterElems
<1>4. g \in Elems(p) /\ Elems(q) = Elems(p) \ {g}
  BY <1>1, <1>2, <1>3
<1> HIDE DEF p, q
<1>5. IsFiniteSet(Elems(p)) /\ Cardinality(Elems(p)) = Len(p) /\ Cardinality(Elems(q)) = Len(q)
  BY <1>2, <1>3, LengthCounts
<1>6. Cardinality(Elems(p) \ {g}) = Cardinality(Elems(p)) - 1
  BY <1>4, <1>5, FS_RemoveElement
<1>7. Len(q) = Len(p) - 1
  BY <1>4, <1>5, <1>6
<1>8. Len(p) \in Nat
  BY <1>2
<1>9. Len(p) = Len(q) + 1
  BY <1>7, <1>8
<1> QED
  BY <1>9 DEF Without, p, q, r

(* change_position keeps its promise for every list without repetition,    *)
(* every set of waiting and paused tasks and every position among them:    *)
(* the task is at the position the caller is told; the others keep their   *)
(* order; no task is lost or doubled.                                      *)
THEOREM PositionIsExact ==
    ASSUME NEW X, NEW s \in Seq(X), NEW W, NEW g \in W \cap Elems(s), NoRepeats(s),
           NEW target \in Nat, target < Len(Filter(s, W))
    PROVE  TaskIsAt(s, W, g, target)
<1>1. PICK a \in Seq(X), b \in Seq(X) : PositionCut(s, W, g, target, a, b)
  BY PositionCuts
<1> DEFINE m == <<g>>
           t == (a \o m) \o b
           p == Filter(s, W)
           q == Filter(Without(s, {g}), W)
           fa == Filter(a, W)
           fb == Filter(b, W)
<1>2. /\ \/ ChangePosition(s, W, g, target) = t
         \/ ChangePosition(s, W, g, target) = s /\ Index(p, g) = target + 1
      /\ Without(s, {g}) = a \o b /\ Disjoint(a, b)
      /\ Elems(a) \cup Elems(b) = Elems(s) \ {g}
      /\ target < Len(q) => Len(b) # 0 /\ b[1] = q[target + 1]
      /\ target >= Len(q) => Len(b) = 0
  BY <1>1 DEF PositionCut
<1>3. CASE ChangePosition(s, W, g, target) = s /\ Index(p, g) = target + 1
  <2>1. p \in Seq(X) /\ g \in Elems(p)
    BY FilterElems
  <2> HIDE DEF p
  <2>2. p[target + 1] = g
    BY <1>3, <2>1, IndexOfElement
  <2> QED BY <1>3, <2>2 DEF TaskIsAt, p
<1>4. CASE ChangePosition(s, W, g, target) = t
  <2>1. m \in Seq(X) /\ Elems(m) = {g} /\ NoRepeats(m) /\ Len(m) = 1 /\ m[1] = g
    <3>1. g \in X
      BY DEF Elems
    <3> QED BY <3>1 DEF Elems, NoRepeats
  <2> HIDE DEF m
  <2>2. t \in Seq(X) /\ Between(a, m, b, t)
    BY <2>1, BlockBetween
  <2>3. Elems(t) = Elems(s) /\ NoRepeats(t)
    <3> HIDE DEF t
    <3> QED BY <1>2, <2>1, <2>2 DEF Between
  <2>4. Without(t, {g}) = Without(s, {g})
    <3> DEFINE T == Elems(t) \ {g}
               u == a \o b
    <3>1. Elems(m) \cap T = {}
      BY <2>1
    <3>2. Elems(u) = Elems(a) \cup Elems(b) /\ u \in Seq(X)
      BY Concatenated
    <3>3. Elems(u) \subseteq T
      BY <1>2, <2>3, <3>2
    <3> HIDE DEF T
    <3>4. Filter(t, T) = Filter(u, T)
      BY <2>1, <3>1, FilterBetween
    <3> HIDE DEF u
    <3>5. Filter(u, T) = u
      BY <3>2, <3>3, FilterAll
    <3> HIDE DEF t
    <3> QED BY <1>2, <3>4, <3>5, Zenon DEF Without, T, u
  <2>5. Filter(m, W) = m
    BY <2>1, FilterAll
  <2>6. Filter(t, W) = (fa \o m) \o fb
    <3>1. Filter(t, W) = (fa \o Filter(m, W)) \o fb
      <4>1. Filter(Around(a, m, b), W) = Around(Filter(a, W), Filter(m, W), Filter(b, W))
        BY <2>1, FilterBetween
      <4> QED BY <4>1, Zenon DEF Around
    <3> QED BY <2>5, <3>1, Zenon
  <2>7. fa \in Seq(X) /\ fb \in Seq(X)
    BY FilterElems
  <2>8. q = fa \o fb
    <3>1. Filter(a \o b, W) = Filter(a, W) \o Filter(b, W)
      BY FilterConcat
    <3> QED BY <1>2, <3>1, Zenon
  <2>9. NoRepeats(q) /\ q \in Seq(X) /\ Elems(q) = (Elems(a) \cup Elems(b)) \cap W
    <3> DEFINE T == Elems(s) \ {g}
               r == Filter(s, T)
    <3>1. r \in Seq(X) /\ NoRepeats(r) /\ Elems(r) = Elems(s) \cap T
      <4> HIDE DEF T
      <4> QED BY FilterElems
    <3> HIDE DEF r
    <3>2. /\ Filter(r, W) \in Seq(X) /\ NoRepeats(Filter(r, W))
          /\ Elems(Filter(r, W)) = Elems(r) \cap W
      BY <3>1, FilterElems
    <3> QED BY <1>2, <3>1, <3>2 DEF Without, r
  <2>10. Len(p) = Len(q) + 1 /\ p \in Seq(X)
    BY OneLess, FilterElems
  <2>11. Len(b) # 0 /\ b[1] \in W => 1 \in 1..Len(fb) /\ fb[1] = b[1]
    BY FilterFirst
  <2>12. Len(b) = 0 => Len(fb) = 0
    <3> SUFFICES ASSUME Len(b) = 0 PROVE Len(fb) = 0
      OBVIOUS
    <3>1. Elems(b) \cap W = {}
      BY DEF Elems
    <3>2. fb = <<>>
      BY <3>1, FilterNone
    <3> QED BY <3>2
  <2> HIDE DEF t, p, q, fa, fb
  <2>13. /\ Len(fa \o fb) = Len(fa) + Len(fb)
         /\ \A i \in 1..Len(fb) : (fa \o fb)[Len(fa) + i] = fb[i]
         /\ Len(fa) \in Nat /\ Len(fb) \in Nat /\ Len(q) \in Nat
    BY <2>7, <2>9, Concatenated
  <2>14. Len(fa) = target
    <3>1. CASE target < Len(q)
      <4>1. target + 1 \in 1..Len(q)
        BY <2>13, <3>1
      <4>2. q[target + 1] \in W
        BY <2>9, <4>1 DEF Elems
      <4>3. 1 \in 1..Len(fb) /\ fb[1] = q[target + 1]
        BY <1>2, <2>11, <3>1, <4>2
      <4>4. Len(fa) + 1 \in 1..Len(q) /\ q[Len(fa) + 1] = q[target + 1]
        <5> DEFINE n == Len(fa)
        <5>1. (fa \o fb)[n + 1] = fb[1]
          BY <2>13, <4>3, Zenon
        <5>2. Len(q) = n + Len(fb)
          BY <2>8, <2>13
        <5> QED BY <2>8, <2>13, <4>3, <5>1, <5>2
      <4>5. Len(fa) + 1 = target + 1
        BY <2>9, <4>1, <4>4 DEF NoRepeats
      <4> QED BY <2>13, <4>5
    <3>2. CASE ~(target < Len(q))
      <4>1. Len(fb) = 0
        BY <1>2, <2>12, <2>13, <3>2
      <4>2. Len(q) = Len(fa)
        BY <2>8, <2>13, <4>1
      <4>3. target < Len(p)
        BY DEF p
      <4> QED BY <2>10, <2>13, <3>2, <4>2, <4>3
    <3> QED BY <3>1, <3>2
  <2>15. Filter(t, W)[target + 1] = g
    <3>1. Between(fa, m, fb, (fa \o m) \o fb)
      BY <2>1, <2>7, BlockBetween
    <3>2. ((fa \o m) \o fb)[Len(fa) + 1] = m[1]
      BY <2>1, <3>1 DEF Between
    <3> QED BY <2>1, <2>6, <2>14, <3>2
  <2> QED BY <1>4, <2>3, <2>4, <2>15 DEF TaskIsAt
<1> HIDE DEF t
<1> QED
  BY <1>2, <1>3, <1>4

(* The position that change_position computes is one of the n positions,   *)
(* for every offset and word size, the sums that wrap around included.     *)
InRange(cur, n, pos, how, half, at) ==
    /\ at \in Nat /\ at < n
    /\ how = "POS_CUR" /\ Wrap(cur + pos, half) = cur + pos =>
         /\ pos > 0 => at >= cur
         /\ pos < 0 => at <= cur
         /\ pos = 0 => at = cur

LEMMA TargetInRange ==
    ASSUME NEW n \in Nat, NEW cur \in 0..(n - 1), NEW pos \in Int, NEW how \in Modes,
           NEW half \in Nat, half > 0
    PROVE  InRange(cur, n, pos, how, half, TargetPosition(cur, n, pos, how, half))
<1>1. ASSUME NEW x \in Int PROVE Wrap(x, half) \in Int
  <2> DEFINE m == 2 * half
  <2>1. m \in Nat /\ m > 0 /\ x + half \in Int
    OBVIOUS
  <2> HIDE DEF m
  <2>2. (x + half) % m \in Int
    BY <2>1
  <2> QED BY <2>2 DEF Wrap, m
<1>2. Wrap(cur + pos, half) \in Int /\ Wrap(n - 1 + pos, half) \in Int
  BY <1>1
<1> DEFINE a == Wrap(cur + pos, half)
           b == Wrap(n - 1 + pos, half)
<1> HIDE DEF a, b
<1>3. CASE how = "POS_SET"
  BY <1>3 DEF InRange, TargetPosition, NonNegative
<1>4. CASE how = "POS_CUR"
  <2>1. TargetPosition(cur, n, pos, how, half)
          = IF NonNegative(a) < n - 1 THEN NonNegative(a) ELSE n - 1
    BY <1>4 DEF TargetPosition, a
  <2>2. a \in Int
    BY <1>2 DEF a
  <2> QED BY <1>4, <2>1, <2>2 DEF InRange, NonNegative, a
<1>5. CASE how = "POS_END"
  <2>1. TargetPosition(cur, n, pos, how, half)
          = LET w == IF pos >= 0 THEN n - 1 ELSE NonNegative(b)
            IN  IF w < n - 1 THEN w ELSE n - 1
    BY <1>5 DEF TargetPosition, b
  <2>2. b \in Int
    BY <1>2 DEF b
  <2> QED BY <1>5, <2>1, <2>2 DEF InRange, NonNegative
<1> QED
  BY <1>3, <1>4, <1>5 DEF Modes

(* change_position puts the task where it tells the caller, for every list *)
(* without repetition, every set of waiting and paused tasks, every offset *)
(* and every word size; a relative move whose sum fits the word goes the   *)
(* way it was asked to.                                                    *)
THEOREM PositionIsToldHolds ==
    ASSUME NEW X, NEW s \in Seq(X), NEW W, NEW g \in W \cap Elems(s), NoRepeats(s),
           NEW pos \in Int, NEW how \in Modes, NEW half \in Nat, half > 0
    PROVE  PositionIsTold(s, W, g, pos, how, half)
<1> DEFINE p == Filter(s, W)
           n == Len(p)
           from == Index(p, g) - 1
           at == TargetPosition(from, n, pos, how, half)
<1>1. p \in Seq(X) /\ g \in Elems(p)
  BY FilterElems
<1> HIDE DEF p
<1>2. Index(p, g) \in 1..Len(p)
  BY <1>1, IndexOfElement
<1>3. n \in Nat /\ from \in 0..(n - 1) /\ from + 1 = Index(p, g)
  BY <1>1, <1>2
<1> HIDE DEF n, from
<1>4. /\ at \in Nat /\ at < n
      /\ how = "POS_CUR" /\ Wrap(from + pos, half) = from + pos =>
           /\ pos > 0 => at >= from
           /\ pos < 0 => at <= from
           /\ pos = 0 => at = from
  <2>1. InRange(from, n, pos, how, half, at)
    BY <1>3, TargetInRange
  <2> HIDE DEF at
  <2> QED BY <2>1 DEF InRange
<1> HIDE DEF at
<1>5. TaskIsAt(s, W, g, at)
  BY <1>4, PositionIsExact DEF n, p
<1>6. at = from => ChangePosition(s, W, g, at) = s
  BY <1>3 DEF ChangePosition, p
<1> QED
  BY <1>4, <1>5, <1>6 DEF PositionIsTold, p, n, from, at

-----------------------------------------------------------------------------
(* The list keeps its tasks under both operations, and loses just the      *)
(* dropped ones under Without.                                             *)
LEMMA MoveKeeps ==
    ASSUME NEW X, NEW s \in Seq(X), NEW S, NEW target, NEW after \in BOOLEAN,
           NoRepeats(s), CanMove(s, S, target), NEW t, t = MoveTasks(s, S, target, after)
    PROVE  t \in Seq(X) /\ Elems(t) = Elems(s) /\ NoRepeats(t)
<1>1. BlockIsAdjacent(s, S, target, after)
  BY MoveIsExact
<1>2. PICK a \in Seq(X), b \in Seq(X) : MoveCut(s, S, target, after, a, b)
  BY MoveCuts
<1> DEFINE m == Filter(s, S)
<1>3. m \in Seq(X)
  BY FilterElems
<1>4. t = (a \o m) \o b
  BY <1>2 DEF MoveCut
<1> HIDE DEF m
<1>5. t \in Seq(X)
  BY <1>3, <1>4
<1> QED
  BY <1>1, <1>5 DEF BlockIsAdjacent

(* The same of change_position, even for a position past the end.          *)
LEMMA PositionKeeps ==
    ASSUME NEW X, NEW s \in Seq(X), NEW W, NEW g \in Elems(s), NEW target \in Nat,
           NoRepeats(s), NEW t, t = ChangePosition(s, W, g, target)
    PROVE  t \in Seq(X) /\ Elems(t) = Elems(s) /\ NoRepeats(t)
<1>1. PICK a \in Seq(X), b \in Seq(X) : PositionCut(s, W, g, target, a, b)
  BY PositionCuts
<1> DEFINE m == <<g>>
<1>2. m \in Seq(X) /\ Elems(m) = {g} /\ NoRepeats(m)
  <2>1. g \in X
    BY DEF Elems
  <2> QED BY <2>1 DEF Elems, NoRepeats
<1>3. /\ t = (a \o m) \o b \/ t = s
      /\ Disjoint(a, b) /\ Elems(a) \cup Elems(b) = Elems(s) \ {g}
  BY <1>1 DEF PositionCut
<1> HIDE DEF m
<1> DEFINE u == (a \o m) \o b
<1>4. u \in Seq(X) /\ Between(a, m, b, u)
  BY <1>2, BlockBetween
<1> HIDE DEF u
<1>5. Elems(u) = Elems(s) /\ NoRepeats(u)
  BY <1>2, <1>3, <1>4 DEF Between
<1>6. t = u \/ t = s
  BY <1>3 DEF u
<1> QED
  BY <1>4, <1>5, <1>6

(* Dropping tasks.                                                         *)
LEMMA DropKeeps ==
    ASSUME NEW X, NEW s \in Seq(X), NEW S, NoRepeats(s), NEW t, t = Without(s, S)
    PROVE  t \in Seq(X) /\ Elems(t) = Elems(s) \ S /\ NoRepeats(t)
<1> DEFINE T == Elems(s) \ S
<1>1. t = Filter(s, T)
  BY DEF Without
<1>2. Elems(s) \cap T = Elems(s) \ S
  OBVIOUS
<1> HIDE DEF T
<1> QED BY <1>1, <1>2, FilterElems
=============================================================================
