---------------------- MODULE WorkflowSecurity_proofs ----------------------
(***************************************************************************)
(* Theorems about WorkflowSecurity, for any set of workflow files: of any  *)
(* number of steps, entries and children.                                  *)
(*                                                                         *)
(* First, where each step, entry and child of a file stands among its      *)
(* rendered lines; then, what the blocks are that the validator cuts out   *)
(* of these lines; then, what it means that every block was found right.   *)
(* Last, that the release job goes on with such files only.                *)
(***************************************************************************)
EXTENDS ReleaseGate, TLAPS, SequenceTheorems, FiniteSetTheorems, WellFoundedInduction

----------------------------------------------------------------------------
(* Numbers and flattened sequences *)

\* A set of numbers has a least one.
LEMMA LeastNumber ==
    ASSUME NEW T, T \subseteq Nat, T # {}
    PROVE  \E x \in T : \A y \in T : x <= y
<1> DEFINE R == OpToRel(<, Nat)
<1>1. IsWellFoundedOn(R, Nat)
  BY NatLessThanWellFounded
<1>2. \A x, y \in Nat : x < y => <<x, y>> \in R
  BY DEF OpToRel
<1> HIDE DEF R
<1>3. PICK x \in T : \A y \in T : ~ (<<y, x>> \in R)
  BY <1>1, WFMin
<1>4. ASSUME NEW y \in T PROVE x <= y
  <2>1. x \in Nat /\ y \in Nat /\ ~ (y < x)
    BY <1>2, <1>3
  <2> QED BY <2>1
<1> QED BY <1>4

\* A set of numbers that is closed under successors up to n reaches n.
LEMMA Reaches ==
    ASSUME NEW n \in Nat, NEW P, 0 \in P, \A m \in 1 .. n : m - 1 \in P => m \in P
    PROVE  \A m \in 0 .. n : m \in P
<1> DEFINE T == {m \in 0 .. n : m \notin P}
<1>1. SUFFICES ASSUME T # {} PROVE FALSE
  OBVIOUS
<1>2. T \subseteq Nat
  OBVIOUS
<1> HIDE DEF T
<1>3. PICK m \in T : \A k \in T : m <= k
  BY <1>1, <1>2, LeastNumber
<1>4. m \in 1 .. n /\ m - 1 \in 0 .. n /\ m \notin P
  BY <1>3 DEF T
<1>5. m - 1 \notin T
  BY <1>3, <1>4
<1> QED BY <1>4, <1>5 DEF T

\* FlattenSeq by its recursive function.
Flattens(ss, n, g) == g = [i \in 1 .. n |-> IF i = 1 THEN ss[i] ELSE g[i - 1] \o ss[i]]

LEMMA FlattensExists ==
    ASSUME NEW ss, NEW n \in Nat
    PROVE  \E g : Flattens(ss, n, g)
<1> DEFINE P == {m \in 0 .. n : \E g : Flattens(ss, m, g)}
<1>1. 0 \in P
  <2>1. Flattens(ss, 0, [i \in 1 .. 0 |-> ss[i]])
    BY DEF Flattens
  <2> QED BY <2>1
<1>2. ASSUME NEW m \in 1 .. n, m - 1 \in P PROVE m \in P
  <2>1. PICK g : Flattens(ss, m - 1, g)
    BY <1>2
  <2> DEFINE h == [i \in 1 .. m |-> IF i = m THEN (IF i = 1 THEN ss[i] ELSE g[i - 1] \o ss[i]) ELSE g[i]]
  <2>2. ASSUME NEW i \in 1 .. m PROVE h[i] = IF i = 1 THEN ss[i] ELSE h[i - 1] \o ss[i]
    <3>1. CASE i = m
      BY <3>1
    <3>2. CASE i # m
      <4>1. i \in 1 .. m - 1 /\ h[i] = g[i] /\ (i # 1 => h[i - 1] = g[i - 1])
        BY <3>2
      <4> QED BY <2>1, <4>1 DEF Flattens
    <3> QED BY <3>1, <3>2
  <2>3. h = [i \in 1 .. m |-> IF i = 1 THEN ss[i] ELSE h[i - 1] \o ss[i]]
    BY <2>2
  <2>4. Flattens(ss, m, h)
    <3> HIDE DEF h
    <3> QED BY <2>3 DEF Flattens
  <2> QED BY <2>4
<1> HIDE DEF P
<1>3. n \in P
  BY <1>1, <1>2, Reaches
<1> QED BY <1>3 DEF P

LEMMA FlattenSeqIs ==
    ASSUME NEW ss, Len(ss) \in Nat \ {0}
    PROVE  \E g : Flattens(ss, Len(ss), g) /\ FlattenSeq(ss) = g[Len(ss)]
<1>1. PICK g : Flattens(ss, Len(ss), g)
  BY FlattensExists
<1> DEFINE c == CHOOSE f : f = [i \in 1 .. Len(ss) |-> IF i = 1 THEN ss[i] ELSE f[i - 1] \o ss[i]]
<1>2. c = [i \in 1 .. Len(ss) |-> IF i = 1 THEN ss[i] ELSE c[i - 1] \o ss[i]]
  BY <1>1 DEF Flattens
<1>3. FlattenSeq(ss) = c[Len(ss)]
  BY DEF FlattenSeq
<1> HIDE DEF c
<1> QED BY <1>2, <1>3 DEF Flattens

----------------------------------------------------------------------------
(* Where the parts of a sequence stand *)

\* F stands in L behind the first p elements.
Window(L, p, F) == /\ p \in Nat /\ p + Len(F) <= Len(L)
                   /\ \A j \in 1 .. Len(F) : L[p + j] = F[j]

\* The parts of ss stand in L one after the other, the i-th behind the first at[i - 1].
Laid(L, ss, at, n) ==
    /\ at \in [0 .. n -> Nat]
    /\ \A i \in 1 .. n : at[i] = at[i - 1] + Len(ss[i]) /\ Window(L, at[i - 1], ss[i])

Joined(u, s, t) == u = s \o t

LEMMA WindowConcat ==
    ASSUME NEW S, NEW L, NEW p \in Nat, NEW s \in Seq(S), NEW t \in Seq(S), NEW u, Joined(u, s, t),
           Window(L, p, u), Len(L) \in Nat
    PROVE  /\ Window(L, p, s) /\ Window(L, p + Len(s), t)
           /\ Len(u) \in Nat /\ Len(s) \in Nat /\ Len(t) \in Nat /\ Len(u) = Len(s) + Len(t)
           /\ p + Len(u) = p + Len(s) + Len(t)
<1> DEFINE v == s \o t
<1>1. /\ v \in Seq(S) /\ Len(v) = Len(s) + Len(t) /\ Len(s) \in Nat /\ Len(t) \in Nat
      /\ \A j \in 1 .. Len(s) : v[j] = s[j]
      /\ \A j \in 1 .. Len(t) : v[Len(s) + j] = t[j]
  BY ConcatProperties
<1>2. u = v /\ p \in Nat
  BY DEF Joined, Window
<1> HIDE DEF v
<1>3. /\ Len(u) = Len(s) + Len(t) /\ \A j \in 1 .. Len(s) : u[j] = s[j]
      /\ \A j \in 1 .. Len(t) : u[Len(s) + j] = t[j]
  BY <1>1, <1>2
<1>4. ASSUME NEW j \in 1 .. Len(s) PROVE L[p + j] = s[j]
  BY <1>1, <1>3 DEF Window
<1>5. ASSUME NEW j \in 1 .. Len(t) PROVE L[p + Len(s) + j] = t[j]
  <2>1. Len(s) + j \in 1 .. Len(u) /\ p + (Len(s) + j) = p + Len(s) + j
    BY <1>1, <1>2, <1>3
  <2>2. L[p + (Len(s) + j)] = u[Len(s) + j]
    BY <2>1 DEF Window
  <2> QED BY <1>3, <2>1, <2>2
<1> QED BY <1>1, <1>2, <1>3, <1>4, <1>5 DEF Window

LEMMA PrefixTypes ==
    ASSUME NEW S, NEW ss \in Seq(Seq(S)), NEW g, Len(ss) # 0, Flattens(ss, Len(ss), g)
    PROVE  \A i \in 1 .. Len(ss) : /\ ss[i] \in Seq(S) /\ g[i] \in Seq(S)
                                   /\ g[i] = IF i = 1 THEN ss[i] ELSE g[i - 1] \o ss[i]
<1> DEFINE n == Len(ss)
<1>0. n \in Nat \ {0}
  OBVIOUS
<1>1. ASSUME NEW i \in 1 .. n
      PROVE  ss[i] \in Seq(S) /\ (g[i] = IF i = 1 THEN ss[i] ELSE g[i - 1] \o ss[i])
  <2>1. ss[i] \in Seq(S)
    BY ElementOfSeq
  <2>2. g = [k \in 1 .. n |-> IF k = 1 THEN ss[k] ELSE g[k - 1] \o ss[k]]
    BY DEF Flattens
  <2> HIDE DEF n
  <2> QED BY <2>1, <2>2
<1> DEFINE P == {m \in 0 .. n : m # 0 => g[m] \in Seq(S)}
<1>2. 0 \in P
  OBVIOUS
<1>3. ASSUME NEW k \in 1 .. n, k - 1 \in P PROVE k \in P
  <2>1. ss[k] \in Seq(S) /\ (g[k] = IF k = 1 THEN ss[k] ELSE g[k - 1] \o ss[k])
    BY <1>1
  <2>2. CASE k = 1
    BY <2>1, <2>2
  <2>3. CASE k # 1
    <3>1. k - 1 # 0 /\ g[k - 1] \in Seq(S)
      BY <1>3, <2>3
    <3>2. g[k] \in Seq(S)
      BY <2>1, <2>3, <3>1, ConcatProperties
    <3> QED BY <3>2
  <2> QED BY <2>2, <2>3
<1> HIDE DEF P, n
<1>4. \A k \in 0 .. n : k \in P
  BY <1>0, <1>2, <1>3, Reaches
<1>5. ASSUME NEW i \in 1 .. n PROVE g[i] \in Seq(S)
  BY <1>0, <1>4 DEF P
<1> QED BY <1>1, <1>5 DEF n

LEMMA FlattenType ==
    ASSUME NEW S, NEW ss \in Seq(Seq(S))
    PROVE  FlattenSeq(ss) \in Seq(S)
<1>1. CASE Len(ss) = 0
  BY <1>1 DEF FlattenSeq
<1>2. CASE Len(ss) # 0
  <2>0. Len(ss) \in Nat \ {0}
    BY <1>2
  <2>1. PICK g : Flattens(ss, Len(ss), g) /\ FlattenSeq(ss) = g[Len(ss)]
    BY <2>0, FlattenSeqIs
  <2>2. g[Len(ss)] \in Seq(S)
    BY <2>0, <2>1, PrefixTypes
  <2> QED BY <2>1, <2>2
<1> QED BY <1>1, <1>2

LEMMA WindowFlatten ==
    ASSUME NEW S, NEW ss \in Seq(Seq(S)), NEW L, NEW p \in Nat, Window(L, p, FlattenSeq(ss)), Len(L) \in Nat
    PROVE  \E at : /\ Laid(L, ss, at, Len(ss)) /\ at[0] = p
                   /\ at[Len(ss)] = p + Len(FlattenSeq(ss))
<1>0. p \in Nat
  BY DEF Window
<1>1. CASE Len(ss) = 0
  <2>1. ss = << >> /\ FlattenSeq(ss) = << >>
    BY <1>1 DEF FlattenSeq
  <2>2. Laid(L, ss, [i \in 0 .. 0 |-> p], 0)
    BY <1>0 DEF Laid
  <2> QED BY <1>0, <1>1, <2>1, <2>2
<1>2. CASE Len(ss) # 0
  <2> DEFINE n == Len(ss)
  <2>0. n \in Nat \ {0}
    BY <1>2
  <2>1. PICK g : Flattens(ss, n, g) /\ FlattenSeq(ss) = g[n]
    BY <2>0, FlattenSeqIs
  <2>2. \A i \in 1 .. n : ss[i] \in Seq(S) /\ (g[i] = IF i = 1 THEN ss[i] ELSE g[i - 1] \o ss[i])
    BY <1>2, <2>1, PrefixTypes
  <2>3. \A i \in 1 .. n : g[i] \in Seq(S)
    BY <1>2, <2>1, PrefixTypes
  \* From the last part to the first: a window on a prefix lays out its parts.
  <2> DEFINE Q == {m \in 1 .. n : Window(L, p, g[m]) =>
                      \E at : Laid(L, ss, at, m) /\ at[0] = p /\ at[m] = p + Len(g[m])}
             R == Q \cup {0}
  <2>4. 0 \in R
    OBVIOUS
  <2>5. ASSUME NEW m \in 1 .. n, m - 1 \in R PROVE m \in R
    <3> SUFFICES ASSUME Window(L, p, g[m])
                 PROVE  \E at : Laid(L, ss, at, m) /\ at[0] = p /\ at[m] = p + Len(g[m])
      OBVIOUS
    <3>1. CASE m = 1
      <4> DEFINE at == [i \in 0 .. 1 |-> IF i = 0 THEN p ELSE p + Len(ss[1])]
      <4>1. g[1] = ss[1] /\ Len(ss[1]) \in Nat
        BY <2>0, <2>2
      <4>2. at \in [0 .. 1 -> Nat] /\ at[0] = p /\ at[1] = p + Len(ss[1])
        BY <1>0, <4>1
      <4>3. Laid(L, ss, at, 1)
        <5> HIDE DEF at
        <5> QED BY <3>1, <4>1, <4>2 DEF Laid
      <4> QED BY <3>1, <4>1, <4>2, <4>3
    <3>2. CASE m # 1
      <4>1. m - 1 \in 1 .. n /\ m - 1 \in Q /\ g[m] = g[m - 1] \o ss[m]
        <5>1. m - 1 \in 1 .. n
          BY <2>0, <3>2
        <5>2. m - 1 \in Q
          <6> HIDE DEF Q
          <6> QED BY <2>5, <5>1
        <5> QED BY <2>2, <3>2, <5>1, <5>2
      <4>0. g[m - 1] \in Seq(S) /\ ss[m] \in Seq(S)
        BY <2>2, <2>3, <4>1
      <4>2. /\ Window(L, p, g[m - 1]) /\ Window(L, p + Len(g[m - 1]), ss[m])
            /\ p + Len(g[m]) = p + Len(g[m - 1]) + Len(ss[m])
        <5> DEFINE s == g[m - 1]
                   t == ss[m]
                   u == g[m]
        <5>1. s \in Seq(S) /\ t \in Seq(S) /\ Joined(u, s, t) /\ Window(L, p, u) /\ p \in Nat
          BY <4>0, <4>1 DEF Joined
        <5> HIDE DEF s, t, u, n, Q, R
        <5>2. /\ Window(L, p, s) /\ Window(L, p + Len(s), t)
              /\ Len(u) \in Nat /\ Len(s) \in Nat /\ Len(t) \in Nat
              /\ p + Len(u) = p + Len(s) + Len(t)
          BY <5>1, WindowConcat
        <5> QED BY <5>2 DEF s, t, u
      <4>3. PICK old : Laid(L, ss, old, m - 1) /\ old[0] = p /\ old[m - 1] = p + Len(g[m - 1])
        BY <4>1, <4>2
      <4> DEFINE at == [i \in 0 .. m |-> IF i = m THEN p + Len(g[m]) ELSE old[i]]
      <4>4. Len(g[m - 1]) \in Nat /\ Len(ss[m]) \in Nat /\ Len(g[m]) \in Nat
        <5>1. g[m] \in Seq(S)
          BY <2>3
        <5> QED BY <4>0, <5>1, LenProperties
      <4>5. /\ at \in [0 .. m -> Nat] /\ at[m] = p + Len(g[m])
            /\ \A i \in 0 .. m - 1 : at[i] = old[i]
        <5>1. m \in Nat \ {0} /\ n \in Nat
          BY <2>0
        <5>2. p + Len(g[m]) \in Nat
          BY <1>0, <4>4
        <5>3. old \in [0 .. m - 1 -> Nat]
          BY <4>3 DEF Laid
        <5> HIDE DEF Q, R, n
        <5>4. ASSUME NEW i \in 0 .. m PROVE (IF i = m THEN p + Len(g[m]) ELSE old[i]) \in Nat
          <6>1. i = m \/ i \in 0 .. m - 1
            BY <5>1
          <6> QED BY <5>2, <5>3, <6>1
        <5> QED BY <5>1, <5>4
      <4> HIDE DEF at
      <4>6. ASSUME NEW i \in 1 .. m PROVE at[i] = at[i - 1] + Len(ss[i]) /\ Window(L, at[i - 1], ss[i])
        <5>1. CASE i = m
          <6>1. at[m - 1] = p + Len(g[m - 1])
            BY <4>1, <4>3, <4>5
          <6>2. p + Len(g[m]) = (p + Len(g[m - 1])) + Len(ss[m])
            BY <4>2
          <6>3. at[m] = at[m - 1] + Len(ss[m])
            BY <4>5, <6>1, <6>2
          <6> QED BY <4>2, <5>1, <6>1, <6>3
        <5>2. CASE i # m
          <6>1. i \in 1 .. m - 1 /\ i \in 0 .. m - 1 /\ i - 1 \in 0 .. m - 1
            BY <5>2
          <6> QED BY <4>3, <4>5, <6>1 DEF Laid
        <5> QED BY <5>1, <5>2
      <4>7. Laid(L, ss, at, m)
        BY <4>5, <4>6 DEF Laid
      <4>8. at[0] = p
        BY <4>3, <4>5
      <4> QED BY <4>5, <4>7, <4>8
    <3> QED BY <3>1, <3>2
  <2>6. n \in R
    <3> HIDE DEF R, n
    <3>1. \A m \in 0 .. n : m \in R
      BY <2>0, <2>4, <2>5, Reaches
    <3> QED BY <2>0, <3>1
  <2> HIDE DEF Q
  <2>7. n \in Q
    BY <2>0, <2>6
  <2> QED BY <2>0, <2>1, <2>3, <2>7 DEF Q
<1> QED BY <1>1, <1>2

\* Steps that only go up: each element lies between two of them.
LEMMA Rising ==
    ASSUME NEW n \in Nat, NEW at \in [0 .. n -> Nat], \A i \in 1 .. n : at[i - 1] <= at[i]
    PROVE  /\ \A i, j \in 0 .. n : i <= j => at[i] <= at[j]
           /\ \A x \in Nat : at[0] < x /\ x <= at[n] => \E i \in 1 .. n : at[i - 1] < x /\ x <= at[i]
<1>1. ASSUME NEW i \in 0 .. n PROVE \A j \in 0 .. n : i <= j => at[i] <= at[j]
  <2> DEFINE P == {j \in 0 .. n : i <= j => at[i] <= at[j]}
  <2>1. 0 \in P
    OBVIOUS
  <2>2. ASSUME NEW j \in 1 .. n, j - 1 \in P PROVE j \in P
    <3>1. j - 1 \in 0 .. n /\ at[j - 1] <= at[j] /\ at[j - 1] \in Nat /\ at[j] \in Nat /\ at[i] \in Nat
      OBVIOUS
    <3>2. i <= j - 1 => at[i] <= at[j - 1]
      BY <2>2
    <3>3. i <= j => (i = j \/ i <= j - 1)
      OBVIOUS
    <3> QED BY <3>1, <3>2, <3>3
  <2> HIDE DEF P
  <2>3. \A j \in 0 .. n : j \in P
    BY <2>1, <2>2, Reaches
  <2> QED BY <2>3 DEF P
<1>2. ASSUME NEW x \in Nat, at[0] < x, x <= at[n]
      PROVE  \E i \in 1 .. n : at[i - 1] < x /\ x <= at[i]
  <2> DEFINE T == {i \in 0 .. n : x <= at[i]}
  <2>1. T \subseteq Nat /\ n \in T
    BY <1>2
  <2>2. PICK i \in T : \A j \in T : i <= j
    <3> HIDE DEF T
    <3> QED BY <2>1, LeastNumber
  <2>3. i \in 1 .. n /\ i - 1 \in 0 .. n
    BY <1>2, <2>2
  <2>4. i - 1 \notin T
    BY <2>2, <2>3
  <2> QED BY <2>2, <2>3, <2>4
<1> QED BY <1>1, <1>2

\* at cuts at[0] + 1 .. at[n] into n consecutive parts.
Ordered(at, n) ==
    /\ at \in [0 .. n -> Nat]
    /\ \A i, j \in 0 .. n : i <= j => at[i] <= at[j]
    /\ \A x \in Nat : at[0] < x /\ x <= at[n] => \E i \in 1 .. n : at[i - 1] < x /\ x <= at[i]

LEMMA FlattenLaid ==
    ASSUME NEW S, NEW ss \in Seq(Seq(S)), NEW L, NEW p \in Nat, Window(L, p, FlattenSeq(ss)), Len(L) \in Nat
    PROVE  \E at : /\ Ordered(at, Len(ss)) /\ at[0] = p /\ at[Len(ss)] = p + Len(FlattenSeq(ss))
                   /\ \A i \in 1 .. Len(ss) : /\ at[i] = at[i - 1] + Len(ss[i])
                                              /\ Window(L, at[i - 1], ss[i])
<1>1. PICK at : /\ Laid(L, ss, at, Len(ss)) /\ at[0] = p /\ at[Len(ss)] = p + Len(FlattenSeq(ss))
  BY WindowFlatten
<1>2. at \in [0 .. Len(ss) -> Nat] /\ Len(ss) \in Nat
  BY <1>1 DEF Laid
<1> DEFINE n == Len(ss)
<1>3. ASSUME NEW i \in 1 .. n PROVE at[i - 1] <= at[i]
  <2>1. ss[i] \in Seq(S)
    BY ElementOfSeq
  <2>2. Len(ss[i]) \in Nat
    BY <2>1, LenProperties
  <2>3. at[i] = at[i - 1] + Len(ss[i])
    BY <1>1 DEF Laid
  <2>4. at[i - 1] \in Nat
    <3>1. n \in Nat /\ at \in [0 .. n -> Nat]
      BY <1>2
    <3> HIDE DEF n
    <3> QED BY <3>1
  <2> QED BY <2>2, <2>3, <2>4
<1>4. Ordered(at, Len(ss))
  BY <1>2, <1>3, Rising DEF Ordered
<1> QED BY <1>1, <1>4 DEF Laid

----------------------------------------------------------------------------
(* Where the lines of a workflow stand *)

LineKeys == Keys \cup {"none", "blank"}
LineValues == UsesValues \cup {"true", "false", ""}
LineSet == [indent : 0 .. 4, dash : BOOLEAN, key : LineKeys, value : LineValues]

BlankLine == Line(0, FALSE, "blank", "")
NestedLine == Line(4, FALSE, "persist", "false")
ChildLine(c) == IF c.key = "nest" THEN Line(3, FALSE, "other", "") ELSE Line(3, FALSE, c.key, c.value)
EntryLine(e, first) ==
    IF first THEN Line(1, TRUE, e.key, e.value) ELSE Line(2, FALSE, e.key, e.value)

\* The lines p + 1 .. q are those of an entry, its child c on line ch[c].
EntryLaid(L, e, first, p, q, ch) ==
    /\ p \in Nat /\ q \in Nat /\ p < q
    /\ L[p + 1] = EntryLine(e, first)
    /\ ch \in [DOMAIN e.children -> p + 2 .. q]
    /\ \A c, d \in DOMAIN e.children : ch[c] = ch[d] => c = d
    /\ \A c \in DOMAIN e.children : L[ch[c]] = ChildLine(e.children[c])
    /\ \A j \in p + 2 .. q :
          \/ L[j] = BlankLine
          \/ \E c \in DOMAIN e.children : j = ch[c]
          \/ \E c \in DOMAIN e.children : e.children[c].key = "nest" /\ j = ch[c] + 1 /\ L[j] = NestedLine

LEMMA LineIn ==
    ASSUME NEW k \in LineKeys, NEW v \in LineValues
    PROVE  Line(1, TRUE, k, v) \in LineSet /\ Line(2, FALSE, k, v) \in LineSet /\ Line(3, FALSE, k, v) \in LineSet
BY DEF Line, LineSet

LEMMA ChildIs ==
    ASSUME NEW c \in Child
    PROVE  /\ RenderedChild(c) \in Seq(LineSet)
           /\ Len(RenderedChild(c)) \in 1 .. 2 /\ RenderedChild(c)[1] = ChildLine(c)
           /\ Len(RenderedChild(c)) = 2 => c.key = "nest" /\ RenderedChild(c)[2] = NestedLine
<1>0. /\ c.key \in {"persist", "murky", "other", "nest"} /\ c.value \in {"true", "false", ""}
  BY DEF Child
<1>1. Line(3, FALSE, "other", "") \in LineSet
  BY DEF Line, LineSet, LineKeys, LineValues, Keys
<1>2. NestedLine \in LineSet
  BY DEF Line, LineSet, NestedLine, LineKeys, LineValues, Keys
<1>3. CASE c.key = "nest"
  <2> DEFINE x == Line(3, FALSE, "other", "")
             y == NestedLine
  <2>1. RenderedChild(c) = <<x, y>> /\ x \in LineSet /\ y \in LineSet
    BY <1>1, <1>2, <1>3 DEF RenderedChild, NestedLine
  <2>2. ChildLine(c) = x
    BY <1>3 DEF ChildLine
  <2> HIDE DEF x
  <2> QED BY <1>3, <2>1, <2>2
<1>4. CASE c.key # "nest"
  <2> DEFINE x == Line(3, FALSE, c.key, c.value)
  <2>1. RenderedChild(c) = <<x>> /\ ChildLine(c) = x
    BY <1>4 DEF RenderedChild, ChildLine
  <2>2. x \in LineSet
    <3>1. c.key \in LineKeys /\ c.value \in LineValues
      BY <1>0, <1>4 DEF LineKeys, LineValues, Keys
    <3> QED BY <3>1, LineIn
  <2> HIDE DEF x
  <2> QED BY <2>1, <2>2
<1> QED BY <1>3, <1>4

GapLines(gaps) == IF gaps THEN <<BlankLine>> ELSE <<>>

LEMMA GapIs ==
    ASSUME NEW gaps \in BOOLEAN
    PROVE  /\ GapLines(gaps) \in Seq(LineSet) /\ Len(GapLines(gaps)) \in 0 .. 1
           /\ \A j \in 1 .. Len(GapLines(gaps)) : j = 1 /\ GapLines(gaps)[j] = BlankLine
<1>1. BlankLine \in LineSet
  BY DEF BlankLine, Line, LineSet, LineKeys, LineValues
<1>2. CASE gaps
  BY <1>1, <1>2 DEF GapLines
<1>3. CASE ~gaps
  BY <1>3 DEF GapLines
<1> QED BY <1>2, <1>3

\* The children of an entry, line by line.
ChildParts(e) == [i \in DOMAIN e.children |-> RenderedChild(e.children[i])]

LEMMA ChildPartsAre ==
    ASSUME NEW e \in StepEntry
    PROVE  /\ ChildParts(e) \in Seq(Seq(LineSet)) /\ DOMAIN e.children = 1 .. Len(ChildParts(e))
           /\ Len(ChildParts(e)) \in Nat
           /\ \A i \in DOMAIN e.children : e.children[i] \in Child /\ ChildParts(e)[i] = RenderedChild(e.children[i])
<1> DEFINE n == Len(e.children)
<1>1. e.children \in Seq(Child)
  BY DEF StepEntry
<1>2. n \in Nat /\ DOMAIN e.children = 1 .. n
  BY <1>1
<1>3. ASSUME NEW i \in 1 .. n PROVE e.children[i] \in Child /\ RenderedChild(e.children[i]) \in Seq(LineSet)
  <2>1. e.children[i] \in Child
    BY <1>1, ElementOfSeq
  <2> QED BY <2>1, ChildIs
<1> HIDE DEF n
<1>4. ChildParts(e) = [i \in 1 .. n |-> RenderedChild(e.children[i])]
  BY <1>2 DEF ChildParts
<1>5. ChildParts(e) \in Seq(Seq(LineSet)) /\ Len(ChildParts(e)) = n
  <2>1. ChildParts(e) \in [1 .. n -> Seq(LineSet)]
    BY <1>3, <1>4
  <2> QED BY <1>2, <2>1
<1> QED BY <1>2, <1>3, <1>4, <1>5

LEMMA EntryType ==
    ASSUME NEW e \in StepEntry, NEW first \in BOOLEAN
    PROVE  /\ RenderedEntry(e, first) \in Seq(LineSet)
           /\ Joined(RenderedEntry(e, first), <<EntryLine(e, first)>>, FlattenSeq(ChildParts(e)))
           /\ <<EntryLine(e, first)>> \in Seq(LineSet)
<1>1. EntryLine(e, first) \in LineSet
  <2>1. e.key \in LineKeys /\ e.value \in LineValues
    BY DEF StepEntry, LineKeys, LineValues
  <2> QED BY <2>1, LineIn DEF EntryLine
<1>2. FlattenSeq(ChildParts(e)) \in Seq(LineSet)
  BY ChildPartsAre, FlattenType
<1>3. RenderedEntry(e, first) = <<EntryLine(e, first)>> \o FlattenSeq(ChildParts(e))
  BY DEF RenderedEntry, EntryLine, ChildParts
<1>4. <<EntryLine(e, first)>> \in Seq(LineSet)
  BY <1>1
<1> HIDE DEF EntryLine
<1>5. <<EntryLine(e, first)>> \o FlattenSeq(ChildParts(e)) \in Seq(LineSet)
  BY <1>2, <1>4, ConcatProperties
<1> QED BY <1>3, <1>4, <1>5 DEF Joined

LEMMA EntryIsLaid ==
    ASSUME NEW e \in StepEntry, NEW first \in BOOLEAN, NEW gaps \in BOOLEAN,
           NEW L, Len(L) \in Nat, NEW p \in Nat, NEW r,
           Joined(r, RenderedEntry(e, first), GapLines(gaps)), Window(L, p, r)
    PROVE  \E ch : EntryLaid(L, e, first, p, p + Len(r), ch)
<1> DEFINE re == RenderedEntry(e, first)
           gl == GapLines(gaps)
           own == <<EntryLine(e, first)>>
           cs == ChildParts(e)
           fl == FlattenSeq(cs)
           n == Len(cs)
           q == p + Len(r)
<1>1. /\ re \in Seq(LineSet) /\ Joined(re, own, fl) /\ own \in Seq(LineSet)
      /\ gl \in Seq(LineSet) /\ Len(gl) \in 0 .. 1
      /\ \A j \in 1 .. Len(gl) : j = 1 /\ gl[j] = BlankLine
      /\ cs \in Seq(Seq(LineSet)) /\ fl \in Seq(LineSet) /\ p \in Nat /\ Joined(r, re, gl)
  BY EntryType, GapIs, ChildPartsAre, FlattenType DEF Window
<1>2. Len(own) = 1 /\ own[1] = EntryLine(e, first)
  OBVIOUS
<1>3. /\ DOMAIN e.children = 1 .. n /\ n \in Nat
      /\ \A i \in 1 .. n : e.children[i] \in Child /\ cs[i] = RenderedChild(e.children[i])
  BY ChildPartsAre
<1> HIDE DEF re, gl, own, cs, fl
<1>4. /\ Window(L, p, re) /\ Window(L, p + Len(re), gl)
      /\ Len(r) \in Nat /\ p + Len(r) = p + Len(re) + Len(gl)
  BY <1>1, WindowConcat
<1>5. /\ Window(L, p, own) /\ Window(L, p + Len(own), fl)
      /\ Len(re) \in Nat /\ p + Len(re) = p + Len(own) + Len(fl)
  BY <1>1, <1>4, WindowConcat
<1> DEFINE b == p + 1
<1>b. b \in Nat /\ Window(L, b, fl) /\ b = p + 1 /\ b + Len(fl) = p + Len(re)
  BY <1>2, <1>5
<1> HIDE DEF b
<1>6. PICK at : /\ Ordered(at, n) /\ at[0] = b /\ at[n] = b + Len(fl)
                /\ \A i \in 1 .. n : at[i] = at[i - 1] + Len(cs[i]) /\ Window(L, at[i - 1], cs[i])
  <2>1. fl = FlattenSeq(cs)
    BY DEF fl
  <2>2. cs \in Seq(Seq(LineSet))
    BY <1>1
  <2> QED BY <1>b, <2>1, <2>2, FlattenLaid
<1>7. /\ at \in [0 .. n -> Nat] /\ p \in Nat /\ q \in Nat /\ p < q /\ at[n] <= q /\ q <= at[n] + 1
      /\ Len(re) \in Nat /\ q = at[n] + Len(gl)
  <2>1. at \in [0 .. n -> Nat] /\ at[0] <= at[n] /\ at[n] \in Nat
    BY <1>3, <1>6 DEF Ordered
  <2>2. q = at[n] + Len(gl)
    BY <1>4, <1>6, <1>b
  <2> DEFINE z == at[n]
             k == Len(gl)
  <2>3. z \in Nat /\ k \in 0 .. 1 /\ q = z + k /\ p + 1 <= z /\ p \in Nat
    BY <1>1, <1>6, <1>b, <2>1, <2>2
  <2> HIDE DEF q, n, z, k
  <2>4. q \in Nat /\ p < q /\ z <= q /\ q <= z + 1
    BY <2>3
  <2> QED BY <1>5, <2>1, <2>3, <2>4 DEF z, k
<1>8. L[p + 1] = EntryLine(e, first)
  <2>1. L[p + 1] = own[1]
    BY <1>2, <1>5 DEF Window
  <2> QED BY <1>2, <2>1
<1> DEFINE ch == [c \in 1 .. n |-> at[c - 1] + 1]
<1> HIDE DEF n, q
\* Each child has one line or two.
<1>9. ASSUME NEW c \in 1 .. n
      PROVE  /\ at[c - 1] \in Nat /\ at[c] \in Nat /\ at[c] - at[c - 1] \in 1 .. 2
             /\ p + 1 <= at[c - 1] /\ at[c] <= at[n]
             /\ L[at[c - 1] + 1] = ChildLine(e.children[c])
             /\ at[c] = at[c - 1] + 2 => e.children[c].key = "nest" /\ L[at[c - 1] + 2] = NestedLine
  <2> DEFINE w == cs[c]
             x == at[c - 1]
  <2>1. /\ Len(w) \in 1 .. 2 /\ w[1] = ChildLine(e.children[c])
        /\ Len(w) = 2 => e.children[c].key = "nest" /\ w[2] = NestedLine
    BY <1>3, ChildIs
  <2>2. at[c] = x + Len(w) /\ Window(L, x, w)
    BY <1>6
  <2>3. x \in Nat /\ at[c] \in Nat /\ c \in 0 .. n /\ c - 1 \in 0 .. n /\ n \in 0 .. n /\ 0 \in 0 .. n
    BY <1>3, <1>7
  <2>4. p + 1 <= x /\ at[c] <= at[n]
    BY <1>6, <1>b, <2>3 DEF Ordered
  <2> HIDE DEF w, x
  <2>6. at[c] - x \in 1 .. 2
    BY <2>1, <2>2, <2>3
  <2>7. L[x + 1] = w[1]
    BY <2>1, <2>2, <2>3 DEF Window
  <2>8. at[c] = x + 2 => Len(w) = 2 /\ L[x + 2] = w[2]
    BY <2>1, <2>2, <2>3 DEF Window
  <2> QED BY <2>1, <2>3, <2>4, <2>6, <2>7, <2>8 DEF x
<1>10. ch \in [1 .. n -> p + 2 .. q]
  <2> SUFFICES ASSUME NEW c \in 1 .. n PROVE at[c - 1] + 1 \in p + 2 .. q
    OBVIOUS
  <2> DEFINE x == at[c - 1]
             y == at[c]
             z == at[n]
  <2>1. x \in Nat /\ y \in Nat /\ y - x \in 1 .. 2 /\ p + 1 <= x /\ y <= z /\ z <= q
        /\ p \in Nat /\ q \in Nat /\ z \in Nat
    BY <1>3, <1>7, <1>9
  <2> HIDE DEF x, y, z
  <2>2. x + 1 \in p + 2 .. q
    BY <2>1
  <2> QED BY <2>2 DEF x
<1>11. ASSUME NEW c \in 1 .. n, NEW d \in 1 .. n, ch[c] = ch[d] PROVE c = d
  <2>1. ASSUME NEW x \in 1 .. n, NEW y \in 1 .. n, x < y PROVE at[x - 1] < at[y - 1]
    <3>1. x \in 0 .. n /\ y - 1 \in 0 .. n /\ x <= y - 1
      BY <1>3, <2>1
    <3>2. at[x] <= at[y - 1]
      BY <1>6, <3>1 DEF Ordered
    <3> DEFINE f == at[x - 1]
               g == at[x]
               h == at[y - 1]
    <3>3. f \in Nat /\ g \in Nat /\ h \in Nat /\ g - f \in 1 .. 2 /\ g <= h
      BY <1>9, <3>2
    <3> HIDE DEF f, g, h
    <3>4. f < h
      BY <3>3
    <3> QED BY <3>4 DEF f, h
  <2>2. at[c - 1] = at[d - 1]
    BY <1>9, <1>11
  <2>3. ~ (c < d) /\ ~ (d < c)
    BY <1>9, <2>1, <2>2
  <2> QED BY <1>3, <2>3
<1>12. ASSUME NEW j \in p + 2 .. q
       PROVE  \/ L[j] = BlankLine
              \/ \E c \in 1 .. n : j = ch[c]
              \/ \E c \in 1 .. n : e.children[c].key = "nest" /\ j = ch[c] + 1 /\ L[j] = NestedLine
  <2>0. j \in Nat /\ at[n] \in Nat
    BY <1>3, <1>7
  <2>1. CASE j <= at[n]
    <3>1. PICK c \in 1 .. n : at[c - 1] < j /\ j <= at[c]
      <4>1. at[0] < j
        BY <1>1, <1>6, <1>7, <1>b, <2>0
      <4> QED BY <1>6, <2>0, <2>1, <4>1 DEF Ordered
    <3>2. j = at[c - 1] + 1 \/ (j = at[c - 1] + 2 /\ at[c] = at[c - 1] + 2)
      <4> DEFINE x == at[c - 1]
                 y == at[c]
      <4>1. x \in Nat /\ y \in Nat /\ y - x \in 1 .. 2 /\ x < j /\ j <= y
        BY <1>9, <3>1
      <4> HIDE DEF x, y
      <4>2. j = x + 1 \/ (j = x + 2 /\ y = x + 2)
        BY <2>0, <4>1
      <4> QED BY <4>2 DEF x, y
    <3>3. ch[c] = at[c - 1] + 1
      OBVIOUS
    <3>4. CASE j = at[c - 1] + 1
      BY <3>3, <3>4
    <3>5. CASE j = at[c - 1] + 2 /\ at[c] = at[c - 1] + 2
      <4>1. e.children[c].key = "nest" /\ L[at[c - 1] + 2] = NestedLine /\ at[c - 1] \in Nat
        BY <1>9, <3>5
      <4>2. j = ch[c] + 1
        BY <3>3, <3>5, <4>1
      <4> QED BY <3>5, <4>1, <4>2
    <3> QED BY <3>2, <3>4, <3>5
  <2>2. CASE ~ (j <= at[n])
    <3>1. Len(gl) = 1 /\ j = at[n] + 1
      BY <1>1, <1>7, <2>0, <2>2
    <3>2. L[at[n] + 1] = gl[1]
      <4>1. Window(L, at[n], gl)
        BY <1>4, <1>6, <1>b
      <4> QED BY <3>1, <4>1 DEF Window
    <3> QED BY <1>1, <3>1, <3>2
  <2> QED BY <2>1, <2>2
<1>13. ASSUME NEW c \in 1 .. n PROVE L[ch[c]] = ChildLine(e.children[c])
  BY <1>9
<1> HIDE DEF ch
<1>14. EntryLaid(L, e, first, p, q, ch)
  BY <1>3, <1>7, <1>8, <1>10, <1>11, <1>12, <1>13 DEF EntryLaid
<1> QED BY <1>14 DEF q

\* Whether the k-th entry stands on the line of the step's dash.
First(s, k) == k = 1 /\ ~s.bare

DashLine == Line(1, TRUE, "none", "")
\* The lines p + 1 .. q are those of a step, its k-th entry on at[k - 1] + 1 .. at[k].
StepLaid(L, s, p, q, at) ==
    /\ p \in Nat /\ q \in Nat /\ Len(s.entries) \in Nat /\ DOMAIN s.entries = 1 .. Len(s.entries)
    /\ Ordered(at, Len(s.entries)) /\ at[Len(s.entries)] = q
    /\ s.bare => at[0] = p + 1 /\ L[p + 1] = DashLine
    /\ ~s.bare => at[0] = p
    /\ \A k \in DOMAIN s.entries :
          \E ch : EntryLaid(L, s.entries[k], First(s, k), at[k - 1], at[k], ch)

StepDash(s) == IF s.bare THEN <<DashLine>> ELSE <<>>
EntryPart(s, gaps, k) == RenderedEntry(s.entries[k], First(s, k)) \o GapLines(gaps)
StepParts(s, gaps) == [k \in DOMAIN s.entries |-> EntryPart(s, gaps, k)]

LEMMA StepPartsAre ==
    ASSUME NEW s \in Step, NEW gaps \in BOOLEAN
    PROVE  /\ s.bare \in BOOLEAN /\ Len(s.entries) \in Nat /\ DOMAIN s.entries = 1 .. Len(s.entries)
           /\ StepParts(s, gaps) \in Seq(Seq(LineSet)) /\ Len(StepParts(s, gaps)) = Len(s.entries)
           /\ \A k \in 1 .. Len(s.entries) :
                 /\ s.entries[k] \in StepEntry
                 /\ StepParts(s, gaps)[k] = EntryPart(s, gaps, k)
                 /\ Joined(StepParts(s, gaps)[k], RenderedEntry(s.entries[k], First(s, k)), GapLines(gaps))
<1> DEFINE n == Len(s.entries)
<1>1. s.entries \in Seq(StepEntry) /\ s.bare \in BOOLEAN
  BY DEF Step
<1>2. n \in Nat /\ DOMAIN s.entries = 1 .. n
  BY <1>1
<1>3. ASSUME NEW k \in 1 .. n PROVE s.entries[k] \in StepEntry /\ EntryPart(s, gaps, k) \in Seq(LineSet)
  <2>1. s.entries[k] \in StepEntry
    BY <1>1, ElementOfSeq
  <2>2. First(s, k) \in BOOLEAN
    BY Zenon DEF First
  <2>3. RenderedEntry(s.entries[k], First(s, k)) \in Seq(LineSet)
    BY <2>1, <2>2, EntryType, Zenon
  <2>4. GapLines(gaps) \in Seq(LineSet)
    BY GapIs
  <2> QED BY <2>1, <2>3, <2>4, ConcatProperties, Zenon DEF EntryPart
<1> HIDE DEF n
<1>4. StepParts(s, gaps) = [k \in 1 .. n |-> EntryPart(s, gaps, k)]
  BY <1>2 DEF StepParts
<1>5. StepParts(s, gaps) \in Seq(Seq(LineSet)) /\ Len(StepParts(s, gaps)) = n
  BY <1>2, <1>3, <1>4
<1>6. ASSUME NEW k \in 1 .. n PROVE StepParts(s, gaps)[k] = EntryPart(s, gaps, k)
  BY <1>4
<1>7. ASSUME NEW k \in 1 .. n
      PROVE  Joined(StepParts(s, gaps)[k], RenderedEntry(s.entries[k], First(s, k)), GapLines(gaps))
  BY <1>6, Zenon DEF Joined, EntryPart
<1> QED BY <1>1, <1>2, <1>3, <1>5, <1>6, <1>7 DEF n

LEMMA StepType ==
    ASSUME NEW s \in Step, NEW gaps \in BOOLEAN
    PROVE  /\ RenderedStep(s, gaps) \in Seq(LineSet)
           /\ Joined(RenderedStep(s, gaps), StepDash(s), FlattenSeq(StepParts(s, gaps)))
           /\ StepDash(s) \in Seq(LineSet)
<1>1. StepDash(s) \in Seq(LineSet)
  <2>1. DashLine \in LineSet
    BY DEF DashLine, Line, LineSet, LineKeys, LineValues
  <2> QED BY <2>1 DEF StepDash
<1>2. FlattenSeq(StepParts(s, gaps)) \in Seq(LineSet)
  BY StepPartsAre, FlattenType
<1>3. RenderedStep(s, gaps) = StepDash(s) \o FlattenSeq(StepParts(s, gaps))
  BY Zenon DEF First, RenderedStep, StepDash, StepParts, EntryPart, GapLines, BlankLine, DashLine
<1>4. StepDash(s) \o FlattenSeq(StepParts(s, gaps)) \in Seq(LineSet)
  BY <1>1, <1>2, ConcatProperties
<1> QED BY <1>1, <1>3, <1>4, Zenon DEF Joined

LEMMA StepIsLaid ==
    ASSUME NEW s \in Step, NEW gaps \in BOOLEAN, NEW L, Len(L) \in Nat, NEW p \in Nat, NEW r,
           r = RenderedStep(s, gaps), Window(L, p, r)
    PROVE  \E at : StepLaid(L, s, p, p + Len(r), at)
<1> DEFINE sd == StepDash(s)
           cs == StepParts(s, gaps)
           fl == FlattenSeq(cs)
           n == Len(cs)
           b == p + Len(sd)
           q == p + Len(r)
<1>1. /\ sd \in Seq(LineSet) /\ Joined(r, sd, fl)
      /\ cs \in Seq(Seq(LineSet)) /\ fl \in Seq(LineSet) /\ s.bare \in BOOLEAN
  BY StepType, StepPartsAre, FlattenType
<1>2. /\ Len(s.entries) = n /\ n \in Nat /\ DOMAIN s.entries = 1 .. n
      /\ \A k \in 1 .. n : /\ s.entries[k] \in StepEntry
                           /\ Joined(cs[k], RenderedEntry(s.entries[k], First(s, k)), GapLines(gaps))
  BY StepPartsAre
<1>3. /\ s.bare => Len(sd) = 1 /\ sd[1] = DashLine
      /\ ~s.bare => Len(sd) = 0
  BY DEF StepDash
<1> HIDE DEF sd, cs, fl
<1>4. /\ Window(L, p, sd) /\ Window(L, b, fl) /\ b \in Nat /\ q \in Nat /\ q = b + Len(fl)
  <2>1. /\ Window(L, p, sd) /\ Window(L, p + Len(sd), fl)
        /\ Len(r) \in Nat /\ Len(sd) \in Nat /\ Len(fl) \in Nat /\ Len(r) = Len(sd) + Len(fl)
    BY <1>1, WindowConcat
  <2>2. b \in Nat /\ q \in Nat /\ q = b + Len(fl)
    BY <2>1
  <2> QED BY <2>1, <2>2
<1>5. /\ s.bare => b = p + 1 /\ L[p + 1] = DashLine
      /\ ~s.bare => b = p
  <2>1. ASSUME Len(sd) = 1 PROVE L[p + 1] = sd[1]
    BY <1>4, <2>1 DEF Window
  <2>2. ASSUME s.bare PROVE b = p + 1 /\ L[p + 1] = DashLine
    BY <1>3, <2>1, <2>2
  <2>3. ASSUME ~s.bare PROVE b = p
    BY <1>3, <2>3
  <2> QED BY <2>2, <2>3
<1> HIDE DEF b, q
<1>6. PICK at : /\ Ordered(at, n) /\ at[0] = b /\ at[n] = b + Len(fl)
                /\ \A i \in 1 .. n : at[i] = at[i - 1] + Len(cs[i]) /\ Window(L, at[i - 1], cs[i])
  BY <1>1, <1>4, FlattenLaid DEF fl
<1>7. ASSUME NEW k \in 1 .. n
      PROVE  \E ch : EntryLaid(L, s.entries[k], First(s, k), at[k - 1], at[k], ch)
  <2> DEFINE x == at[k - 1]
             w == cs[k]
             first == First(s, k)
             e == s.entries[k]
  <2>1. x \in Nat
    <3>1. n \in Nat /\ at \in [0 .. n -> Nat]
      BY <1>2, <1>6 DEF Ordered
    <3> HIDE DEF n
    <3> QED BY <3>1
  <2>2. /\ e \in StepEntry /\ Joined(w, RenderedEntry(e, first), GapLines(gaps)) /\ Window(L, x, w)
        /\ at[k] = x + Len(w)
    BY <1>2, <1>6
  <2>3. first \in BOOLEAN
    BY Zenon DEF First
  <2> HIDE DEF x, w, first, e
  <2>4. \E ch : EntryLaid(L, e, first, x, x + Len(w), ch)
    BY <2>1, <2>2, <2>3, EntryIsLaid, Zenon
  <2> QED BY <2>2, <2>4 DEF x, first, e
<1> HIDE DEF n
<1>8. StepLaid(L, s, p, q, at)
  BY <1>2, <1>4, <1>5, <1>6, <1>7 DEF StepLaid
<1> QED BY <1>8 DEF q

TopLine == Line(0, FALSE, "other", "")
CalledLine(f) == Line(1, FALSE, "uses", f.called)
\* The lines of a file: its own, then those of its i-th step on a[i - 1] + 1 .. a[i].
FileLaid(L, f, a) ==
    /\ L \in Seq(LineSet) /\ Len(f.steps) \in Nat /\ DOMAIN f.steps = 1 .. Len(f.steps)
    /\ Ordered(a, Len(f.steps)) /\ a[Len(f.steps)] = Len(L)
    /\ f.called = "none" => a[0] = 1 /\ L[1] = TopLine
    /\ f.called # "none" => a[0] = 3 /\ L[1] = TopLine /\ L[2] = CalledLine(f) /\ L[3] = TopLine
    /\ \A i \in DOMAIN f.steps : \E at : StepLaid(L, f.steps[i], a[i - 1], a[i], at)

Header(f) == IF f.called = "none" THEN <<TopLine>> ELSE <<TopLine, CalledLine(f), TopLine>>
FileParts(f) == [i \in DOMAIN f.steps |-> RenderedStep(f.steps[i], f.gaps)]

LEMMA FilePartsAre ==
    ASSUME NEW f \in Files
    PROVE  /\ f.gaps \in BOOLEAN /\ Len(f.steps) \in Nat /\ DOMAIN f.steps = 1 .. Len(f.steps)
           /\ FileParts(f) \in Seq(Seq(LineSet)) /\ Len(FileParts(f)) = Len(f.steps)
           /\ \A i \in 1 .. Len(f.steps) :
                 f.steps[i] \in Step /\ FileParts(f)[i] = RenderedStep(f.steps[i], f.gaps)
<1> DEFINE n == Len(f.steps)
<1>1. f.steps \in Seq(Step) /\ f.gaps \in BOOLEAN
  BY DEF Files
<1>2. n \in Nat /\ DOMAIN f.steps = 1 .. n
  BY <1>1
<1>3. ASSUME NEW i \in 1 .. n PROVE f.steps[i] \in Step /\ RenderedStep(f.steps[i], f.gaps) \in Seq(LineSet)
  <2>1. f.steps[i] \in Step
    BY <1>1, ElementOfSeq
  <2> QED BY <1>1, <2>1, StepType
<1> HIDE DEF n
<1>4. FileParts(f) = [i \in 1 .. n |-> RenderedStep(f.steps[i], f.gaps)]
  BY <1>2 DEF FileParts
<1>5. FileParts(f) \in Seq(Seq(LineSet)) /\ Len(FileParts(f)) = n
  BY <1>2, <1>3, <1>4
<1>6. ASSUME NEW i \in 1 .. n PROVE FileParts(f)[i] = RenderedStep(f.steps[i], f.gaps)
  BY <1>4
<1> QED BY <1>1, <1>2, <1>3, <1>5, <1>6 DEF n

LEMMA FileIsLaid ==
    ASSUME NEW f \in Files
    PROVE  \E a : FileLaid(Rendered(f), f, a)
<1> DEFINE L == Rendered(f)
           h == Header(f)
           cs == FileParts(f)
           fl == FlattenSeq(cs)
           n == Len(cs)
           b == Len(h)
<1>1. h \in Seq(LineSet)
  <2>1. TopLine \in LineSet
    BY DEF TopLine, Line, LineSet, LineKeys, LineValues, Keys
  <2>2. f.called # "none" => CalledLine(f) \in LineSet
    <3>1. f.called # "none" => f.called \in LineValues
      BY DEF Files, LineValues, UsesValues
    <3>2. "uses" \in LineKeys
      BY DEF LineKeys, Keys
    <3> QED BY <3>1, <3>2 DEF CalledLine, Line, LineSet
  <2>3. CASE f.called = "none"
    BY <2>1, <2>3 DEF Header
  <2>4. CASE f.called # "none"
    BY <2>1, <2>2, <2>4 DEF Header
  <2> QED BY <2>3, <2>4
<1>2. L = h \o fl
  <2> DEFINE x == TopLine
             y == CalledLine(f)
  <2>1. CASE f.called = "none"
    <3>1. L = (<<>> \o <<x>>) \o fl
      BY <2>1 DEF Rendered, TopLine, FileParts
    <3> HIDE DEF x
    <3>2. <<>> \o <<x>> = <<x>>
      OBVIOUS
    <3>3. h = <<x>>
      BY <2>1 DEF Header, x
    <3> QED BY <3>1, <3>2, <3>3, Zenon
  <2>2. CASE f.called # "none"
    <3>1. L = (<<x, y>> \o <<x>>) \o fl
      BY <2>2 DEF Rendered, TopLine, CalledLine, FileParts
    <3> HIDE DEF x, y
    <3>2. <<x, y>> \o <<x>> = <<x, y, x>>
      <4> DEFINE S == {x, y}
                 k == <<x, y>>
                 m == <<x>>
                 l == k \o m
                 r == <<x, y, x>>
      <4>1. /\ k \in Seq(S) /\ Len(k) = 2 /\ k[1] = x /\ k[2] = y
            /\ m \in Seq(S) /\ Len(m) = 1 /\ m[1] = x
            /\ r \in Seq(S) /\ Len(r) = 3 /\ r[1] = x /\ r[2] = y /\ r[3] = x
        OBVIOUS
      <4> HIDE DEF S, k, m, r
      <4>2. /\ l \in Seq(S) /\ Len(l) = Len(k) + Len(m)
            /\ \A i \in 1 .. Len(k) + Len(m) : l[i] = IF i <= Len(k) THEN k[i] ELSE m[i - Len(k)]
        BY <4>1, ConcatProperties
      <4> HIDE DEF l
      <4>3. Len(l) = 3 /\ l[1] = x /\ l[2] = y /\ l[3] = x
        BY <4>1, <4>2
      <4>4. Len(l) = Len(r) /\ \A i \in 1 .. Len(l) : l[i] = r[i]
        <5>1. \A i \in 1 .. 3 : i = 1 \/ i = 2 \/ i = 3
          OBVIOUS
        <5> QED BY <4>1, <4>3, <5>1
      <4>5. l = r
        BY <4>1, <4>2, <4>4, SeqEqual
      <4> QED BY <4>5 DEF l, k, m, r
    <3>3. h = <<x, y, x>>
      BY <2>2 DEF Header, x, y
    <3> QED BY <3>1, <3>2, <3>3, Zenon
  <2> QED BY <2>1, <2>2
<1>3. /\ cs \in Seq(Seq(LineSet)) /\ fl \in Seq(LineSet)
      /\ Len(f.steps) = n /\ n \in Nat /\ DOMAIN f.steps = 1 .. n
      /\ \A i \in 1 .. n : f.steps[i] \in Step /\ f.gaps \in BOOLEAN /\ cs[i] = RenderedStep(f.steps[i], f.gaps)
  BY FilePartsAre, FlattenType
<1>4. /\ f.called = "none" => Len(h) = 1 /\ h[1] = TopLine
      /\ f.called # "none" => Len(h) = 3 /\ h[1] = TopLine /\ h[2] = CalledLine(f) /\ h[3] = TopLine
  BY DEF Header
<1> HIDE DEF h, cs, fl, L
<1>5. L \in Seq(LineSet)
  <2>1. h \o fl \in Seq(LineSet)
    BY <1>1, <1>3, ConcatProperties
  <2> QED BY <1>2, <2>1, Zenon
<1>6. Joined(L, h, fl)
  BY <1>2, Zenon DEF Joined
<1>7. Len(L) \in Nat /\ Window(L, 0, L)
  BY <1>5 DEF Window
<1>8. /\ Window(L, 0, h) /\ Window(L, b, fl) /\ b \in Nat /\ Len(L) = b + Len(fl)
  <2>1. /\ Window(L, 0, h) /\ Window(L, 0 + Len(h), fl)
        /\ Len(h) \in Nat /\ Len(fl) \in Nat /\ Len(L) = Len(h) + Len(fl)
    BY <1>1, <1>3, <1>6, <1>7, WindowConcat
  <2>2. 0 + Len(h) = b
    BY <2>1
  <2> QED BY <2>1, <2>2
<1>9. /\ f.called = "none" => b = 1 /\ L[1] = TopLine
      /\ f.called # "none" => b = 3 /\ L[1] = TopLine /\ L[2] = CalledLine(f) /\ L[3] = TopLine
  <2>1. \A j \in 1 .. Len(h) : L[j] = h[j]
    <3>1. \A j \in 1 .. Len(h) : L[0 + j] = h[j]
      BY <1>8 DEF Window
    <3> QED BY <1>1, <3>1
  <2>2. ASSUME f.called = "none" PROVE b = 1 /\ L[1] = TopLine
    BY <1>4, <2>1, <2>2
  <2>3. ASSUME f.called # "none"
        PROVE  b = 3 /\ L[1] = TopLine /\ L[2] = CalledLine(f) /\ L[3] = TopLine
    BY <1>4, <2>1, <2>3
  <2> QED BY <2>2, <2>3
<1> HIDE DEF b
<1>10. PICK a : /\ Ordered(a, n) /\ a[0] = b /\ a[n] = b + Len(fl)
                /\ \A i \in 1 .. n : a[i] = a[i - 1] + Len(cs[i]) /\ Window(L, a[i - 1], cs[i])
  BY <1>3, <1>7, <1>8, FlattenLaid DEF fl
<1>11. ASSUME NEW i \in 1 .. n
       PROVE  \E at : StepLaid(L, f.steps[i], a[i - 1], a[i], at)
  <2> DEFINE x == a[i - 1]
             w == cs[i]
             s == f.steps[i]
  <2>1. x \in Nat
    <3>1. n \in Nat /\ a \in [0 .. n -> Nat]
      BY <1>3, <1>10 DEF Ordered
    <3> HIDE DEF n
    <3> QED BY <3>1
  <2>2. /\ s \in Step /\ f.gaps \in BOOLEAN /\ w = RenderedStep(s, f.gaps) /\ Window(L, x, w)
        /\ a[i] = x + Len(w)
    BY <1>3, <1>10
  <2> HIDE DEF x, w, s
  <2>3. \E at : StepLaid(L, s, x, x + Len(w), at)
    BY <1>7, <2>1, <2>2, StepIsLaid
  <2> QED BY <2>2, <2>3 DEF x, s
<1> HIDE DEF n
<1>12. FileLaid(L, f, a)
  BY <1>3, <1>5, <1>8, <1>9, <1>10, <1>11 DEF FileLaid
<1> QED BY <1>12 DEF L

----------------------------------------------------------------------------
(* What the lines of a step look like *)

LEMMA EntryLineIs ==
    ASSUME NEW l, NEW e, NEW first \in BOOLEAN, l = EntryLine(e, first)
    PROVE  /\ l.key = e.key /\ l.value = e.value
           /\ l.dash <=> first
           /\ l.indent = IF first THEN 1 ELSE 2
<1>1. l.key = e.key /\ l.value = e.value
  BY DEF EntryLine, Line
<1>2. l.dash <=> first
  BY DEF EntryLine, Line
<1>3. l.indent = IF first THEN 1 ELSE 2
  BY DEF EntryLine, Line
<1> QED BY <1>1, <1>2, <1>3

LEMMA ChildLineIs ==
    ASSUME NEW l, NEW c \in Child, l = ChildLine(c)
    PROVE  /\ l.key = (IF c.key = "nest" THEN "other" ELSE c.key) /\ l.key \in {"persist", "murky", "other"}
           /\ c.key # "nest" => l.value = c.value
           /\ ~l.dash
           /\ l.indent = 3
<1>1. l.key = IF c.key = "nest" THEN "other" ELSE c.key
  BY DEF ChildLine, Line
<1>2. c.key # "nest" => l.value = c.value
  BY DEF ChildLine, Line
<1>3. ~l.dash
  BY DEF ChildLine, Line
<1>4. l.indent = 3
  BY DEF ChildLine, Line
<1>5. c.key \in {"persist", "murky", "other", "nest"}
  BY DEF Child
<1> QED BY <1>1, <1>2, <1>3, <1>4, <1>5

LEMMA PlainLineIs ==
    ASSUME NEW l
    PROVE  /\ l = BlankLine => l.key = "blank" /\ ~l.dash /\ l.indent = 0
           /\ l = NestedLine => l.key = "persist" /\ ~l.dash /\ l.indent = 4
           /\ l = DashLine => l.key = "none" /\ l.dash /\ l.indent = 1
           /\ l = TopLine => l.key = "other" /\ ~l.dash /\ l.indent = 0
<1>1. ASSUME l = BlankLine PROVE l.key = "blank" /\ ~l.dash /\ l.indent = 0
  <2>1. l.key = "blank"
    BY <1>1 DEF BlankLine, Line
  <2>2. ~l.dash
    BY <1>1 DEF BlankLine, Line
  <2>3. l.indent = 0
    BY <1>1 DEF BlankLine, Line
  <2> QED BY <2>1, <2>2, <2>3
<1>2. ASSUME l = NestedLine PROVE l.key = "persist" /\ ~l.dash /\ l.indent = 4
  <2>1. l.key = "persist"
    BY <1>2 DEF NestedLine, Line
  <2>2. ~l.dash
    BY <1>2 DEF NestedLine, Line
  <2>3. l.indent = 4
    BY <1>2 DEF NestedLine, Line
  <2> QED BY <2>1, <2>2, <2>3
<1>3. ASSUME l = DashLine PROVE l.key = "none" /\ l.dash /\ l.indent = 1
  <2>1. l.key = "none"
    BY <1>3 DEF DashLine, Line
  <2>2. l.dash
    BY <1>3 DEF DashLine, Line
  <2>3. l.indent = 1
    BY <1>3 DEF DashLine, Line
  <2> QED BY <2>1, <2>2, <2>3
<1>4. ASSUME l = TopLine PROVE l.key = "other" /\ ~l.dash /\ l.indent = 0
  <2>1. l.key = "other"
    BY <1>4 DEF TopLine, Line
  <2>2. ~l.dash
    BY <1>4 DEF TopLine, Line
  <2>3. l.indent = 0
    BY <1>4 DEF TopLine, Line
  <2> QED BY <2>1, <2>2, <2>3
<1> QED BY <1>1, <1>2, <1>3, <1>4

LEMMA EntryLines ==
    ASSUME NEW L, NEW e \in StepEntry, NEW first \in BOOLEAN, NEW p, NEW q, NEW ch,
           EntryLaid(L, e, first, p, q, ch)
    PROVE  /\ L[p + 1].key = e.key /\ L[p + 1].value = e.value /\ (L[p + 1].dash <=> first)
           /\ L[p + 1].indent = IF first THEN 1 ELSE 2
           /\ \A j \in p + 2 .. q :
                 /\ ~L[j].dash /\ L[j].key \in {"blank", "persist", "murky", "other"}
                 /\ Blank(L[j]) \/ L[j].indent \in 3 .. 4
                 /\ L[j].key = "murky" => \E c \in DOMAIN e.children : e.children[c].key = "murky"
<1>1. /\ L[p + 1].key = e.key /\ L[p + 1].value = e.value /\ (L[p + 1].dash <=> first)
      /\ L[p + 1].indent = IF first THEN 1 ELSE 2
  <2>1. L[p + 1] = EntryLine(e, first)
    BY DEF EntryLaid
  <2> QED BY <2>1, EntryLineIs
<1>2. ASSUME NEW j \in p + 2 .. q
      PROVE  /\ ~L[j].dash /\ L[j].key \in {"blank", "persist", "murky", "other"}
             /\ Blank(L[j]) \/ L[j].indent \in 3 .. 4
             /\ L[j].key = "murky" => \E c \in DOMAIN e.children : e.children[c].key = "murky"
  <2>1. CASE L[j] = BlankLine
    BY <2>1, PlainLineIs DEF Blank
  <2>2. CASE \E c \in DOMAIN e.children : j = ch[c]
    <3>1. PICK c \in DOMAIN e.children : L[j] = ChildLine(e.children[c])
      BY <2>2 DEF EntryLaid
    <3>2. e.children[c] \in Child
      BY ChildPartsAre
    <3> QED BY <3>1, <3>2, ChildLineIs
  <2>3. CASE L[j] = NestedLine
    BY <2>3, PlainLineIs
  <2> QED BY <2>1, <2>2, <2>3 DEF EntryLaid
<1> QED BY <1>1, <1>2

\* A line of a step is the dash alone, the line of an entry, or below an entry.
LEMMA StepLines ==
    ASSUME NEW L, NEW s \in Step, NEW p, NEW q, NEW at, StepLaid(L, s, p, q, at), NEW j \in p + 1 .. q
    PROVE  \/ s.bare /\ j = p + 1 /\ L[j] = DashLine
           \/ \E k \in DOMAIN s.entries : j \in at[k - 1] + 1 .. at[k]
<1>1. p \in Nat /\ q \in Nat /\ at[Len(s.entries)] = q /\ DOMAIN s.entries = 1 .. Len(s.entries)
  BY DEF StepLaid
<1>2. CASE at[0] < j
  <2>1. \E k \in 1 .. Len(s.entries) : at[k - 1] < j /\ j <= at[k]
    BY <1>1, <1>2 DEF StepLaid, Ordered
  <2>2. ASSUME NEW k \in 1 .. Len(s.entries) PROVE at[k - 1] \in Nat /\ at[k] \in Nat
    <3> DEFINE n == Len(s.entries)
    <3>1. at \in [0 .. n -> Nat] /\ n \in Nat /\ k \in 1 .. n
      BY DEF StepLaid, Ordered
    <3> HIDE DEF n
    <3> QED BY <3>1
  <2>3. PICK k \in 1 .. Len(s.entries) : at[k - 1] < j /\ j <= at[k]
    BY <2>1
  <2>4. j \in Nat
    BY <1>1
  <2>5. j \in at[k - 1] + 1 .. at[k]
    BY <2>2, <2>3, <2>4
  <2> QED BY <1>1, <2>5
<1>3. CASE ~ (at[0] < j)
  BY <1>1, <1>3 DEF StepLaid, Step
<1> QED BY <1>2, <1>3

LEMMA StepSpan ==
    ASSUME NEW L, NEW s \in Step, NEW p, NEW q, NEW at, StepLaid(L, s, p, q, at), NEW k \in DOMAIN s.entries
    PROVE  /\ at[k - 1] \in Nat /\ at[k] \in Nat /\ p \in Nat /\ q \in Nat
           /\ p <= at[k - 1] /\ at[k - 1] < at[k] /\ at[k] <= q
           /\ s.entries[k] \in StepEntry /\ s.bare \in BOOLEAN
           /\ First(s, k) \in BOOLEAN
           /\ \E ch : EntryLaid(L, s.entries[k], First(s, k), at[k - 1], at[k], ch)
<1> DEFINE n == Len(s.entries)
<1>1. /\ at \in [0 .. n -> Nat] /\ n \in Nat /\ k \in 1 .. n /\ p \in Nat /\ q \in Nat /\ at[n] = q
      /\ \A x, y \in 0 .. n : x <= y => at[x] <= at[y]
      /\ s.bare => at[0] = p + 1
      /\ ~s.bare => at[0] = p
  BY DEF StepLaid, Ordered
<1>2. s.bare \in BOOLEAN /\ s.entries[k] \in StepEntry
  <2>1. s.bare \in BOOLEAN /\ s.entries \in Seq(StepEntry)
    BY DEF Step
  <2> QED BY <1>1, <2>1, ElementOfSeq
<1>3. /\ \E ch : EntryLaid(L, s.entries[k], First(s, k), at[k - 1], at[k], ch)
      /\ \A x \in 1 .. n : at[x - 1] < at[x]
  BY <1>1 DEF StepLaid, EntryLaid
<1> HIDE DEF n
<1>4. at[k - 1] \in Nat /\ at[k] \in Nat /\ at[0] \in Nat /\ at[0] <= at[k - 1] /\ at[k] <= at[n]
  BY <1>1
<1>5. p <= at[0]
  BY <1>1, <1>2, <1>4
<1>7. p <= at[k - 1] /\ at[k] <= q
  BY <1>1, <1>4, <1>5
<1>8. First(s, k) \in BOOLEAN
  BY Zenon DEF First
<1> QED BY <1>1, <1>2, <1>3, <1>4, <1>7, <1>8

LEMMA FirstEntry ==
    ASSUME NEW L, NEW s \in Step, NEW p, NEW q, NEW at, StepLaid(L, s, p, q, at), NEW k \in DOMAIN s.entries
    PROVE  at[k - 1] = p <=> First(s, k)
<1> DEFINE n == Len(s.entries)
<1>1. /\ at \in [0 .. n -> Nat] /\ n \in Nat /\ k \in 1 .. n /\ p \in Nat
      /\ \A x, y \in 0 .. n : x <= y => at[x] <= at[y]
      /\ s.bare => at[0] = p + 1
      /\ ~s.bare => at[0] = p
  BY DEF StepLaid, Ordered
<1>2. s.bare \in BOOLEAN
  BY DEF Step
<1>3. \A x \in 1 .. n : at[x - 1] < at[x]
  BY DEF StepLaid, EntryLaid
<1> HIDE DEF n
<1>4. at[k - 1] \in Nat /\ at[0] \in Nat /\ at[0] <= at[k - 1]
  BY <1>1
<1>5. at[k - 1] = p => k = 1 /\ ~s.bare
  <2>1. ASSUME k # 1 PROVE at[0] < at[k - 1]
    <3>1. 1 \in 1 .. n /\ 0 \in 0 .. n /\ 1 \in 0 .. n /\ k - 1 \in 0 .. n /\ 1 <= k - 1
      BY <1>1, <2>1
    <3>2. at[1 - 1] < at[1] /\ at[1] <= at[k - 1] /\ at[1] \in Nat
      BY <1>1, <1>3, <3>1
    <3> QED BY <1>4, <3>2
  <2> QED BY <1>1, <1>2, <1>4, <2>1
<1>6. k = 1 /\ ~s.bare => at[k - 1] = p
  BY <1>1
<1> QED BY <1>5, <1>6, Zenon DEF First

LEMMA KeyLineIs ==
    ASSUME NEW L, NEW s \in Step, NEW p, NEW q, NEW at, StepLaid(L, s, p, q, at), NEW k \in DOMAIN s.entries
    PROVE  /\ at[k - 1] + 1 \in p + 1 .. q
           /\ L[at[k - 1] + 1].key = s.entries[k].key /\ L[at[k - 1] + 1].value = s.entries[k].value
           /\ L[at[k - 1] + 1].dash <=> First(s, k)
           /\ L[at[k - 1] + 1].indent = IF First(s, k) THEN 1 ELSE 2
           /\ s.entries[k].key \in Keys
           /\ \A j \in at[k - 1] + 2 .. at[k] :
                 /\ ~L[j].dash /\ L[j].key \in {"blank", "persist", "murky", "other"}
                 /\ Blank(L[j]) \/ L[j].indent \in 3 .. 4
<1> DEFINE x == at[k - 1]
           y == at[k]
           e == s.entries[k]
           first == First(s, k)
<1>1. /\ x \in Nat /\ y \in Nat /\ p \in Nat /\ q \in Nat /\ p <= x /\ x < y /\ y <= q
      /\ e \in StepEntry /\ \E ch : EntryLaid(L, e, first, x, y, ch)
  BY StepSpan
<1>2. first \in BOOLEAN
  BY StepSpan
<1> HIDE DEF x, y, e, first
<1>3. x + 1 \in p + 1 .. q
  BY <1>1
<1>4. /\ L[x + 1].key = e.key /\ L[x + 1].value = e.value /\ (L[x + 1].dash <=> first)
      /\ L[x + 1].indent = IF first THEN 1 ELSE 2
      /\ \A j \in x + 2 .. y : /\ ~L[j].dash /\ L[j].key \in {"blank", "persist", "murky", "other"}
                               /\ Blank(L[j]) \/ L[j].indent \in 3 .. 4
  BY <1>1, <1>2, EntryLines
<1>5. e.key \in Keys
  BY <1>1 DEF StepEntry
<1> QED BY <1>3, <1>4, <1>5 DEF x, y, e, first

LEMMA StepShape ==
    ASSUME NEW L, NEW s \in Step, NEW p, NEW q, NEW at, StepLaid(L, s, p, q, at)
    PROVE  /\ p \in Nat /\ q \in Nat /\ p <= q
           /\ s.bare => p < q
           /\ p < q => /\ L[p + 1].dash /\ L[p + 1].indent = 1 /\ ~Blank(L[p + 1])
                       /\ s.bare <=> L[p + 1].key = "none"
           /\ \A j \in p + 2 .. q : /\ ~L[j].dash /\ L[j].key # "none"
                                    /\ Blank(L[j]) \/ L[j].indent \in 2 .. 4
<1>1. p \in Nat /\ q \in Nat /\ p <= q /\ (s.bare => p < q) /\ s.bare \in BOOLEAN
  <2> DEFINE n == Len(s.entries)
  <2>1. /\ at \in [0 .. n -> Nat] /\ n \in Nat /\ p \in Nat /\ q \in Nat /\ at[n] = q
        /\ \A x, y \in 0 .. n : x <= y => at[x] <= at[y]
        /\ s.bare => at[0] = p + 1
        /\ ~s.bare => at[0] = p
    BY DEF StepLaid, Ordered
  <2>2. s.bare \in BOOLEAN
    BY DEF Step
  <2> HIDE DEF n
  <2>3. at[0] <= q
    BY <2>1
  <2> QED BY <2>1, <2>2, <2>3
<1>2. ASSUME p < q
      PROVE  /\ L[p + 1].dash /\ L[p + 1].indent = 1 /\ ~Blank(L[p + 1])
             /\ s.bare <=> L[p + 1].key = "none"
  <2>1. CASE s.bare
    <3>1. L[p + 1] = DashLine
      BY <2>1 DEF StepLaid
    <3> QED BY <2>1, <3>1, PlainLineIs DEF Blank
  <2>2. CASE ~s.bare
    <3> DEFINE i == p + 1
    <3>1. i \in p + 1 .. q
      BY <1>1, <1>2
    <3> HIDE DEF i
    <3>2. PICK k \in DOMAIN s.entries : i \in at[k - 1] + 1 .. at[k]
      BY <2>2, <3>1, StepLines
    <3>3. at[k - 1] = p
      <4>1. at[k - 1] \in Nat /\ at[k] \in Nat /\ p <= at[k - 1]
        BY StepSpan
      <4> QED BY <1>1, <3>2, <4>1 DEF i
    <3>4. First(s, k)
      BY <3>3, FirstEntry
    <3>5. L[p + 1].dash /\ L[p + 1].indent = 1 /\ L[p + 1].key \in Keys
      <4> HIDE DEF Keys
      <4>1. /\ L[at[k - 1] + 1].dash <=> First(s, k)
            /\ L[at[k - 1] + 1].indent = IF First(s, k) THEN 1 ELSE 2
            /\ L[at[k - 1] + 1].key \in Keys
        BY KeyLineIs
      <4> QED BY <3>3, <3>4, <4>1
    <3> QED BY <2>2, <3>5 DEF Keys, Blank
  <2> QED BY <1>1, <2>1, <2>2
<1>3. ASSUME NEW j \in p + 2 .. q
      PROVE  ~L[j].dash /\ L[j].key # "none" /\ (Blank(L[j]) \/ L[j].indent \in 2 .. 4)
  <2>1. j \in p + 1 .. q /\ j # p + 1 /\ j \in Nat
    BY <1>1
  <2>2. PICK k \in DOMAIN s.entries : j \in at[k - 1] + 1 .. at[k]
    BY <2>1, StepLines
  <2>3. at[k - 1] \in Nat /\ at[k] \in Nat
    BY StepSpan
  <2>4. CASE j = at[k - 1] + 1
    <3>1. at[k - 1] # p
      BY <2>1, <2>4
    <3>2. ~ First(s, k)
      BY <3>1, FirstEntry
    <3>3. ~L[j].dash /\ L[j].indent = 2 /\ L[j].key \in Keys
      <4>1. /\ L[j].dash <=> First(s, k)
            /\ L[j].indent = IF First(s, k) THEN 1 ELSE 2
            /\ L[j].key \in Keys
        BY <2>4, KeyLineIs
      <4> QED BY <3>2, <4>1
    <3> QED BY <3>3 DEF Keys
  <2>5. CASE j # at[k - 1] + 1
    <3>1. j \in at[k - 1] + 2 .. at[k]
      BY <2>1, <2>2, <2>3, <2>5
    <3>2. /\ ~L[j].dash /\ L[j].key \in {"blank", "persist", "murky", "other"}
          /\ Blank(L[j]) \/ L[j].indent \in 3 .. 4
      BY <3>1, KeyLineIs
    <3>3. L[j].indent \in 3 .. 4 => L[j].indent \in 2 .. 4
      BY SMT
    <3> QED BY <3>2, <3>3
  <2> QED BY <2>4, <2>5
<1> QED BY <1>1, <1>2, <1>3

\* uses and with are the keys of entries only.
LEMMA KeyLines ==
    ASSUME NEW L, NEW s \in Step, NEW p, NEW q, NEW at, StepLaid(L, s, p, q, at),
           NEW j \in p + 1 .. q, NEW key \in {"uses", "with"}
    PROVE  L[j].key = key <=> \E k \in Of(s, key) : j = at[k - 1] + 1
<1>1. ASSUME L[j].key = key PROVE \E k \in Of(s, key) : j = at[k - 1] + 1
  <2>1. ~ (s.bare /\ j = p + 1 /\ L[j] = DashLine)
    BY <1>1, PlainLineIs
  <2>2. PICK k \in DOMAIN s.entries : j \in at[k - 1] + 1 .. at[k]
    BY <2>1, StepLines
  <2>3. at[k - 1] \in Nat /\ at[k] \in Nat
    BY StepSpan
  <2>4. j \notin at[k - 1] + 2 .. at[k]
    BY <1>1, KeyLineIs
  <2>5. j = at[k - 1] + 1
    BY <2>2, <2>3, <2>4
  <2>6. s.entries[k].key = key
    BY <1>1, <2>5, KeyLineIs
  <2> QED BY <2>5, <2>6 DEF Of
<1>2. ASSUME NEW k \in Of(s, key), j = at[k - 1] + 1 PROVE L[j].key = key
  BY <1>2, KeyLineIs DEF Of
<1> QED BY <1>1, <1>2

----------------------------------------------------------------------------
(* Where the steps of a file are *)

LEMMA FileStep ==
    ASSUME NEW f \in Files, NEW L, NEW a, FileLaid(L, f, a), NEW i \in DOMAIN f.steps
    PROVE  /\ f.steps[i] \in Step /\ Len(L) \in Nat
           /\ a[0] \in Nat /\ a[i - 1] \in Nat /\ a[i] \in Nat
           /\ 1 <= a[0] /\ a[0] <= a[i - 1] /\ a[i - 1] <= a[i] /\ a[i] <= Len(L)
           /\ \E at : StepLaid(L, f.steps[i], a[i - 1], a[i], at)
<1> DEFINE n == Len(f.steps)
<1>1. /\ a \in [0 .. n -> Nat] /\ n \in Nat /\ i \in 1 .. n /\ a[n] = Len(L)
      /\ \A x, y \in 0 .. n : x <= y => a[x] <= a[y]
      /\ a[0] = 1 \/ a[0] = 3
  BY DEF FileLaid, Ordered
<1>2. Len(L) \in Nat
  BY DEF FileLaid
<1>3. f.steps[i] \in Step
  BY FilePartsAre
<1>4. \E at : StepLaid(L, f.steps[i], a[i - 1], a[i], at)
  BY DEF FileLaid
<1> HIDE DEF n
<1>5. /\ a[0] \in Nat /\ a[i - 1] \in Nat /\ a[i] \in Nat
      /\ a[0] <= a[i - 1] /\ a[i - 1] <= a[i] /\ a[i] <= a[n] /\ 1 <= a[0]
  BY <1>1
<1> QED BY <1>1, <1>2, <1>3, <1>4, <1>5

LEMMA FileLines ==
    ASSUME NEW f \in Files, NEW L, NEW a, FileLaid(L, f, a), NEW j \in 1 .. Len(L)
    PROVE  /\ \/ j <= a[0]
              \/ \E i \in DOMAIN f.steps : j \in a[i - 1] + 1 .. a[i]
           /\ j <= a[0] => \/ L[j] = TopLine
                           \/ f.called # "none" /\ j = 2 /\ L[j] = CalledLine(f)
<1>1. /\ Len(L) \in Nat /\ Ordered(a, Len(f.steps)) /\ a[Len(f.steps)] = Len(L)
      /\ DOMAIN f.steps = 1 .. Len(f.steps)
  BY DEF FileLaid
<1>2. ASSUME ~ (j <= a[0]) PROVE \E i \in DOMAIN f.steps : j \in a[i - 1] + 1 .. a[i]
  <2>0. a[0] < j
    BY <1>1, <1>2 DEF Ordered, FileLaid
  <2>1. PICK i \in 1 .. Len(f.steps) : a[i - 1] < j /\ j <= a[i]
    BY <1>1, <2>0 DEF Ordered
  <2>2. a[i - 1] \in Nat /\ a[i] \in Nat
    BY <1>1, FileStep
  <2>3. j \in a[i - 1] + 1 .. a[i]
    BY <1>1, <2>1, <2>2
  <2> QED BY <1>1, <2>3
<1>3. ASSUME j <= a[0]
      PROVE  L[j] = TopLine \/ (f.called # "none" /\ j = 2 /\ L[j] = CalledLine(f))
  <2>1. CASE f.called = "none"
    <3>1. a[0] = 1 /\ L[1] = TopLine
      BY <2>1 DEF FileLaid
    <3>2. j = 1
      BY <1>1, <1>3, <3>1
    <3> QED BY <3>1, <3>2
  <2>2. CASE f.called # "none"
    <3>1. a[0] = 3 /\ L[1] = TopLine /\ L[2] = CalledLine(f) /\ L[3] = TopLine
      BY <2>2 DEF FileLaid
    <3>2. j = 1 \/ j = 2 \/ j = 3
      BY <1>1, <1>3, <3>1
    <3> QED BY <2>2, <3>1, <3>2
  <2> QED BY <2>1, <2>2
<1> QED BY <1>2, <1>3

\* The line behind a step opens a later one.
LEMMA NextStep ==
    ASSUME NEW f \in Files, NEW L, NEW a, FileLaid(L, f, a), NEW i \in DOMAIN f.steps, a[i] < Len(L)
    PROVE  L[a[i] + 1].dash /\ L[a[i] + 1].indent = 1 /\ ~Blank(L[a[i] + 1])
<1>1. /\ a[i] \in Nat /\ a[0] <= a[i] /\ a[0] \in Nat /\ Len(L) \in Nat
  BY FileStep
<1> DEFINE x == a[i] + 1
<1>2. x \in 1 .. Len(L) /\ ~ (x <= a[0])
  BY <1>1
<1> HIDE DEF x
<1>3. PICK m \in DOMAIN f.steps : x \in a[m - 1] + 1 .. a[m]
  BY <1>2, FileLines
<1>4. a[m - 1] \in Nat /\ a[m] \in Nat /\ f.steps[m] \in Step
  BY FileStep
<1>5. a[m - 1] = a[i] /\ a[m - 1] < a[m]
  <2> DEFINE n == Len(f.steps)
  <2>1. /\ \A u, v \in 0 .. n : u <= v => a[u] <= a[v]
        /\ i \in 1 .. n /\ m \in 1 .. n /\ n \in Nat
    BY DEF FileLaid, Ordered
  <2> HIDE DEF n
  <2>2. a[m - 1] <= a[i] /\ a[i] < a[m]
    BY <1>1, <1>3, <1>4 DEF x
  <2>3. ~ (m <= i)
    BY <1>1, <1>4, <2>1, <2>2
  <2>4. a[i] <= a[m - 1]
    BY <2>1, <2>3
  <2> QED BY <1>1, <1>4, <2>2, <2>4
<1>6. PICK at : StepLaid(L, f.steps[m], a[m - 1], a[m], at)
  BY FileStep
<1>7. L[a[m - 1] + 1].dash /\ L[a[m - 1] + 1].indent = 1 /\ ~Blank(L[a[m - 1] + 1])
  <2> DEFINE p == a[m - 1]
             q == a[m]
             s == f.steps[m]
  <2>1. StepLaid(L, s, p, q, at) /\ s \in Step /\ p < q
    BY <1>4, <1>5, <1>6
  <2> HIDE DEF p, q, s
  <2>2. L[p + 1].dash /\ L[p + 1].indent = 1 /\ ~Blank(L[p + 1])
    BY <2>1, StepShape
  <2> QED BY <2>2 DEF p
<1> QED BY <1>5, <1>7

\* A line with the dash of a step.
Opening(l) == l.dash /\ l.indent = 1 /\ ~Blank(l)

\* The shape of the i-th step.
LEMMA FileShape ==
    ASSUME NEW f \in Files, NEW L, NEW a, FileLaid(L, f, a), NEW i \in DOMAIN f.steps
    PROVE  /\ f.steps[i].bare => a[i - 1] < a[i]
           /\ a[i - 1] < a[i] => Opening(L[a[i - 1] + 1])
           /\ a[i - 1] < a[i] /\ L[a[i - 1] + 1].key = "none" => f.steps[i].bare
           /\ \A j \in a[i - 1] + 2 .. a[i] : /\ ~L[j].dash /\ L[j].key # "none"
                                              /\ Blank(L[j]) \/ L[j].indent \in 2 .. 4
<1> DEFINE p == a[i - 1]
           q == a[i]
           s == f.steps[i]
<1>1. PICK at : StepLaid(L, s, p, q, at)
  BY FileStep
<1>2. s \in Step
  BY FileStep
<1> HIDE DEF p, q, s
<1>3. /\ s.bare => p < q
      /\ p < q => Opening(L[p + 1])
      /\ p < q /\ L[p + 1].key = "none" => s.bare
      /\ \A j \in p + 2 .. q : /\ ~L[j].dash /\ L[j].key # "none"
                               /\ Blank(L[j]) \/ L[j].indent \in 2 .. 4
  <2>1. s.bare => p < q
    BY <1>1, <1>2, StepShape
  <2>2. p < q => Opening(L[p + 1])
    BY <1>1, <1>2, StepShape DEF Opening
  <2>3. p < q => (s.bare <=> L[p + 1].key = "none")
    BY <1>1, <1>2, StepShape
  <2>4. \A j \in p + 2 .. q : /\ ~L[j].dash /\ L[j].key # "none"
                              /\ Blank(L[j]) \/ L[j].indent \in 2 .. 4
    BY <1>1, <1>2, StepShape
  <2> QED BY <2>1, <2>2, <2>3, <2>4
<1> QED BY <1>3 DEF p, q, s

----------------------------------------------------------------------------
(* The block of a step *)

\* The indices from x up to the first line that ends a step at the level of steps.
BlockFrom(L, x) == {j \in x .. Len(L) : \A k \in x + 1 .. j : EndsStep(L[k], 1) => Blank(L[k])}

LEMMA BoundsAre ==
    ASSUME NEW L, NEW s \in Step, NEW p, NEW q, NEW at, StepLaid(L, s, p, q, at), ~s.bare,
           NEW u \in p + 1 .. q, UsesLine(L[u])
    PROVE  StepBounds(L, u) = BlockFrom(L, p + 1)
<1>0. p \in Nat /\ q \in Nat /\ u \in Nat /\ p < q
  BY StepShape
<1> DEFINE x == p + 1
<1>1. /\ x \in Nat /\ x = p + 1 /\ L[x].dash /\ L[x].indent = 1 /\ L[x].key # "none" /\ ~Blank(L[x])
      /\ \A j \in x + 1 .. q : /\ ~L[j].dash
                               /\ Blank(L[j]) \/ L[j].indent \in 2 .. 4
  <2>1. L[p + 1].dash /\ L[p + 1].indent = 1 /\ ~Blank(L[p + 1])
    BY <1>0, StepShape
  <2>2. L[p + 1].key # "none"
    BY <1>0, StepShape
  <2>3. \A j \in p + 2 .. q : /\ ~L[j].dash
                              /\ Blank(L[j]) \/ L[j].indent \in 2 .. 4
    BY StepShape
  <2> QED BY <1>0, <2>1, <2>2, <2>3
<1>2. u \in x .. q
  BY <1>0
<1> HIDE DEF x
<1>3. StepFirst(L, u) = {x}
  <2>1. CASE u = x
    BY <1>1, <2>1 DEF StepFirst
  <2>2. CASE u # x
    <3>1. u \in x + 1 .. q
      BY <1>0, <1>1, <1>2, <2>2
    <3>2. ~L[u].dash /\ L[u].indent \in 2 .. 4
      BY <1>1, <3>1 DEF UsesLine, Blank
    <3> DEFINE Opens(k) == /\ ~Blank(L[k]) /\ StepStart(L[k]) /\ L[k].indent < L[u].indent
                           /\ \A j \in k + 1 .. u - 1 : Blank(L[j]) \/ L[j].indent >= L[u].indent
    <3>3. StepFirst(L, u) = {k \in 1 .. u - 1 : Opens(k)}
      BY <3>2 DEF StepFirst
    <3>4. L[u].indent = 2
      <4>1. L[u].key = "uses"
        BY DEF UsesLine
      <4>2. PICK k \in Of(s, "uses") : u = at[k - 1] + 1
        BY <4>1, KeyLines
      <4>3. k \in DOMAIN s.entries
        BY DEF Of
      <4>4. L[u].indent = IF First(s, k) THEN 1 ELSE 2
        BY <4>2, <4>3, KeyLineIs
      <4> QED BY <3>2, <4>4
    <3>5. x \in 1 .. u - 1 /\ Opens(x)
      <4>1. x \in 1 .. u - 1
        BY <1>0, <1>1, <3>1
      <4>2. StepStart(L[x]) /\ L[x].indent < L[u].indent
        BY <1>1, <3>4 DEF StepStart
      <4>3. ASSUME NEW j \in x + 1 .. u - 1 PROVE Blank(L[j]) \/ L[j].indent >= L[u].indent
        <5>1. j \in x + 1 .. q
          BY <1>0, <1>1, <1>2
        <5>2. Blank(L[j]) \/ L[j].indent \in 2 .. 4
          BY <1>1, <5>1
        <5> QED BY <3>4, <5>2
      <4> QED BY <1>1, <4>1, <4>2, <4>3
    <3>6. ASSUME NEW k \in 1 .. u - 1, Opens(k) PROVE k = x
      <4>1. ~ (k < x)
        <5>1. ASSUME k < x PROVE FALSE
          <6>1. x \in k + 1 .. u - 1
            BY <1>0, <1>1, <3>1, <5>1
          <6>2. Blank(L[x]) \/ L[x].indent >= L[u].indent
            BY <3>6, <6>1
          <6> QED BY <1>1, <3>4, <6>2
        <5> QED BY <5>1
      <4>2. ~ (k > x)
        <5>1. ASSUME k > x PROVE FALSE
          <6>1. k \in x + 1 .. q
            BY <1>0, <1>1, <1>2, <5>1
          <6> QED BY <1>1, <3>6, <6>1 DEF StepStart
        <5> QED BY <5>1
      <4> QED BY <1>0, <1>1, <4>1, <4>2
    <3> HIDE DEF Opens
    <3> QED BY <3>3, <3>5, <3>6
  <2> QED BY <2>1, <2>2
<1>4. (CHOOSE k \in StepFirst(L, u) : TRUE) = x
  BY <1>3
<1>5. StepFirst(L, u) # {}
  BY <1>3
<1>6. StepBounds(L, u) = BlockFrom(L, x)
  BY <1>1, <1>4, <1>5 DEF StepBounds, Until, BlockFrom
<1> QED BY <1>1, <1>6

\* It holds the step's lines, and the rest of it is steps behind a bare dash.
LEMMA BlockHolds ==
    ASSUME NEW f \in Files, NEW L, NEW a, FileLaid(L, f, a), NEW i \in DOMAIN f.steps,
           a[i - 1] < a[i]
    PROVE  /\ \A j \in a[i - 1] + 1 .. a[i] : j \in BlockFrom(L, a[i - 1] + 1)
           /\ \A j \in BlockFrom(L, a[i - 1] + 1) :
                 \/ j \in a[i - 1] + 1 .. a[i]
                 \/ \E m \in DOMAIN f.steps :
                       /\ f.steps[m].bare /\ j \in a[m - 1] + 1 .. a[m]
                       /\ a[i] <= a[m - 1]
                       /\ \A y \in a[m - 1] + 1 .. a[m] : y \in BlockFrom(L, a[i - 1] + 1)
<1> DEFINE x == a[i - 1] + 1
<1>1. /\ a[i - 1] \in Nat /\ a[i] \in Nat /\ Len(L) \in Nat /\ a[i] <= Len(L) /\ a[0] <= a[i - 1]
      /\ a[0] \in Nat
  BY FileStep
\* No line of a step but its first ends the block.
<1>2. ASSUME NEW m \in DOMAIN f.steps, NEW k \in a[m - 1] + 2 .. a[m]
      PROVE  EndsStep(L[k], 1) => Blank(L[k])
  <2>2. ~L[k].dash /\ (Blank(L[k]) \/ L[k].indent \in 2 .. 4)
    BY FileShape
  <2>3. L[k].indent \in 2 .. 4 => ~ (L[k].indent < 1)
    BY SMT
  <2> QED BY <2>2, <2>3 DEF EndsStep, StepStart
<1>3. x \in Nat /\ x = a[i - 1] + 1
  BY <1>1
<1> HIDE DEF x
<1>4. ASSUME NEW j \in x .. a[i] PROVE j \in BlockFrom(L, x)
  <2>1. j \in x .. Len(L)
    BY <1>1, <1>3
  <2>2. ASSUME NEW k \in x + 1 .. j PROVE EndsStep(L[k], 1) => Blank(L[k])
    <3>1. k \in a[i - 1] + 2 .. a[i]
      BY <1>1, <1>3
    <3> QED BY <1>2, <3>1
  <2> QED BY <2>1, <2>2 DEF BlockFrom
<1>5. ASSUME NEW j \in BlockFrom(L, x), j \notin x .. a[i]
      PROVE  \E m \in DOMAIN f.steps :
                /\ f.steps[m].bare /\ j \in a[m - 1] + 1 .. a[m] /\ a[i] <= a[m - 1]
                /\ \A y \in a[m - 1] + 1 .. a[m] : y \in BlockFrom(L, x)
  <2>1. j \in x .. Len(L) /\ \A k \in x + 1 .. j : EndsStep(L[k], 1) => Blank(L[k])
    BY DEF BlockFrom
  <2>2. j \in 1 .. Len(L) /\ ~ (j <= a[0]) /\ j > a[i] /\ j \in Nat
    BY <1>1, <1>3, <1>5, <2>1
  <2>3. PICK m \in DOMAIN f.steps : j \in a[m - 1] + 1 .. a[m]
    BY <2>2, FileLines
  <2>4. a[m - 1] \in Nat /\ a[m] \in Nat /\ a[m] <= Len(L) /\ f.steps[m] \in Step /\ a[m - 1] < a[m]
    <3>1. a[m - 1] \in Nat /\ a[m] \in Nat /\ a[m] <= Len(L) /\ f.steps[m] \in Step
      BY FileStep
    <3> QED BY <2>3, <3>1
  <2>5. a[i] <= a[m - 1]
    <3> DEFINE n == Len(f.steps)
    <3>1. /\ \A u, v \in 0 .. n : u <= v => a[u] <= a[v]
          /\ i \in 1 .. n /\ m \in 1 .. n /\ n \in Nat
      BY DEF FileLaid, Ordered
    <3> HIDE DEF n
    <3>2. ~ (m <= i)
      BY <1>1, <2>2, <2>3, <2>4, <3>1
    <3> QED BY <3>1, <3>2
  <2> DEFINE z == a[m - 1] + 1
  <2>6. z \in x + 1 .. j /\ z = a[m - 1] + 1 /\ z \in Nat
    <3> DEFINE g == a[i - 1]
               h == a[i]
               y == a[m - 1]
    <3>1. g \in Nat /\ h \in Nat /\ y \in Nat /\ g < h /\ h <= y /\ x = g + 1 /\ j \in Nat /\ y + 1 <= j
      BY <1>1, <1>3, <2>2, <2>3, <2>4, <2>5
    <3> HIDE DEF g, h, y
    <3>2. y + 1 \in x + 1 .. j /\ y + 1 \in Nat
      BY <3>1
    <3> QED BY <3>2 DEF y
  <2> HIDE DEF z
  <2>7. f.steps[m].bare
    <3>0. Opening(L[a[m - 1] + 1]) /\ (L[a[m - 1] + 1].key = "none" => f.steps[m].bare)
      BY <2>4, FileShape
    <3>1. Opening(L[z]) /\ (L[z].key = "none" => f.steps[m].bare)
      BY <2>6, <3>0
    <3>2. L[z].dash /\ L[z].indent = 1 /\ ~Blank(L[z])
      BY <3>1 DEF Opening
    <3>3. L[z].key = "none" => f.steps[m].bare
      BY <3>1
    <3>4. ~EndsStep(L[z], 1)
      BY <2>1, <2>6, <3>2
    <3> QED BY <3>2, <3>3, <3>4 DEF EndsStep, StepStart
  <2>8. ASSUME NEW y \in a[m - 1] + 1 .. a[m] PROVE y \in BlockFrom(L, x)
    <3>1. y \in x .. Len(L)
      <4> DEFINE g == a[m - 1]
                 h == a[m]
      <4>1. x \in Nat /\ g \in Nat /\ h \in Nat /\ h <= Len(L) /\ x <= g + 1 /\ y \in g + 1 .. h
        BY <1>3, <2>4, <2>6
      <4> HIDE DEF g, h
      <4> QED BY <1>1, <4>1
    <3>2. ASSUME NEW k \in x + 1 .. y PROVE EndsStep(L[k], 1) => Blank(L[k])
      <4>1. CASE k \in x + 1 .. j
        BY <2>1, <4>1
      <4>2. CASE k \notin x + 1 .. j
        <5>1. k \in a[m - 1] + 2 .. a[m]
          BY <1>3, <2>2, <2>3, <2>4, <4>2
        <5> QED BY <1>2, <5>1
      <4> QED BY <4>1, <4>2
    <3> QED BY <3>1, <3>2 DEF BlockFrom
  <2> QED BY <2>3, <2>5, <2>7, <2>8
<1> QED BY <1>3, <1>4, <1>5

----------------------------------------------------------------------------
(* The with mapping of a step *)

LEMMA GreatestIs ==
    ASSUME NEW S, S \subseteq Nat, S # {}, NEW n \in Nat, \A x \in S : x <= n
    PROVE  Max(S) \in S /\ \A x \in S : x <= Max(S)
<1> DEFINE T == {m \in Nat : \A x \in S : x <= m}
<1>1. T \subseteq Nat /\ n \in T
  OBVIOUS
<1> HIDE DEF T
<1>2. PICK m \in T : \A k \in T : m <= k
  BY <1>1, LeastNumber
<1>3. m \in Nat /\ \A x \in S : x <= m
  BY <1>2 DEF T
<1>4. m \in S
  <2> SUFFICES ASSUME m \notin S PROVE FALSE
    OBVIOUS
  <2>1. \A x \in S : x <= m - 1 /\ x \in Nat
    BY <1>3
  <2>2. m - 1 \in Nat
    <3>1. PICK x \in S : TRUE
      OBVIOUS
    <3>2. x \in Nat /\ x <= m - 1
      BY <2>1
    <3> QED BY <1>3, <3>2
  <2>3. m - 1 \in T
    BY <2>1, <2>2 DEF T
  <2> QED BY <1>2, <1>3, <2>3
<1>5. \E x \in S : \A y \in S : x >= y
  BY <1>3, <1>4
<1>6. Max(S) \in S /\ \A y \in S : Max(S) >= y
  BY <1>5 DEF Max
<1> QED BY <1>6

LEMMA AfterEntry ==
    ASSUME NEW f \in Files, NEW L, NEW a, FileLaid(L, f, a), NEW i \in DOMAIN f.steps,
           NEW at, StepLaid(L, f.steps[i], a[i - 1], a[i], at),
           NEW k \in DOMAIN f.steps[i].entries, at[k] < Len(L)
    PROVE  ~Blank(L[at[k] + 1]) /\ L[at[k] + 1].indent \in 1 .. 2
<1> DEFINE s == f.steps[i]
           n == Len(s.entries)
           m == k + 1
<1>1. /\ k \in 1 .. n /\ DOMAIN s.entries = 1 .. n /\ n \in Nat /\ at[n] = a[i]
  BY DEF StepLaid
<1>2. s \in Step
  BY FileStep
<1>3. CASE k = n
  <2>1. at[k] = a[i]
    BY <1>1, <1>3
  <2>2. L[a[i] + 1].indent = 1 /\ ~Blank(L[a[i] + 1])
    BY <2>1, NextStep
  <2> QED BY <2>1, <2>2
<1>4. CASE k # n
  <2>1. m \in DOMAIN s.entries /\ m - 1 = k
    BY <1>1, <1>4
  <2> HIDE DEF m, n, s
  <2>2. /\ L[at[m - 1] + 1].key = s.entries[m].key /\ s.entries[m].key \in Keys
        /\ L[at[m - 1] + 1].indent = IF First(s, m) THEN 1 ELSE 2
    BY <1>2, <2>1, KeyLineIs DEF s
  <2>3. ~Blank(L[at[m - 1] + 1]) /\ L[at[m - 1] + 1].indent \in 1 .. 2
    BY <2>2 DEF Keys, Blank
  <2> QED BY <2>1, <2>3
<1> QED BY <1>3, <1>4

LEMMA ContentIs ==
    ASSUME NEW f \in Files, NEW L, NEW a, FileLaid(L, f, a), NEW i \in DOMAIN f.steps,
           NEW at, StepLaid(L, f.steps[i], a[i - 1], a[i], at),
           NEW k \in DOMAIN f.steps[i].entries, ~First(f.steps[i], k)
    PROVE  MappingBounds(L, at[k - 1] + 1, BlockFrom(L, a[i - 1] + 1)) = at[k - 1] + 2 .. at[k]
<1> DEFINE s == f.steps[i]
           w == at[k - 1] + 1
           e == at[k]
           B == BlockFrom(L, a[i - 1] + 1)
           m == Max(B)
<1>1. s \in Step /\ Len(L) \in Nat /\ a[i] <= Len(L)
  BY FileStep
<1>2. /\ at[k - 1] \in Nat /\ at[k] \in Nat /\ a[i - 1] \in Nat /\ a[i] \in Nat
      /\ a[i - 1] <= at[k - 1] /\ at[k - 1] < at[k] /\ at[k] <= a[i]
  BY <1>1, StepSpan
<1>3. L[w].indent = 2
  <2>1. L[w].indent = IF First(s, k) THEN 1 ELSE 2
    BY <1>1, KeyLineIs
  <2> QED BY <2>1
<1>4. \A j \in at[k - 1] + 2 .. at[k] : Blank(L[j]) \/ L[j].indent \in 3 .. 4
  BY <1>1, KeyLineIs
<1>5. e \in B
  BY <1>2, BlockHolds
<1>6. B \subseteq Nat /\ \A x \in B : x <= Len(L)
  BY <1>1, <1>2 DEF BlockFrom
<1>7. w \in Nat /\ e \in Nat /\ w <= e /\ w + 1 = at[k - 1] + 2
  BY <1>2
<1> HIDE DEF B
<1>8. m \in Nat /\ m <= Len(L) /\ e <= m
  <2>1. m \in B /\ \A x \in B : x <= m
    BY <1>1, <1>5, <1>6, GreatestIs
  <2> QED BY <1>5, <1>6, <2>1
<1>9. e < Len(L) => ~Blank(L[e + 1]) /\ L[e + 1].indent \in 1 .. 2
  BY AfterEntry
<1>10. \A j \in w + 1 .. e : Blank(L[j]) \/ L[j].indent \in 3 .. 4
  BY <1>4, <1>7
<1> DEFINE M == {j \in w .. m : \A t \in w + 1 .. j : L[t].indent <= 2 => Blank(L[t])} \ {w}
<1>11. MappingBounds(L, w, B) = M
  BY <1>3 DEF MappingBounds, Until
<1> HIDE DEF w, e, m
<1>12. ASSUME NEW j \in w + 1 .. e PROVE j \in M
  <2>1. j \in w .. m /\ j # w
    BY <1>7, <1>8
  <2>2. ASSUME NEW t \in w + 1 .. j PROVE L[t].indent <= 2 => Blank(L[t])
    <3>1. t \in w + 1 .. e
      BY <1>7
    <3>2. L[t].indent \in 3 .. 4 => ~ (L[t].indent <= 2)
      BY SMT
    <3> QED BY <1>10, <3>1, <3>2
  <2> QED BY <2>1, <2>2
<1>13. ASSUME NEW j \in M PROVE j \in w + 1 .. e
  <2>1. j \in w .. m /\ j # w /\ \A t \in w + 1 .. j : L[t].indent <= 2 => Blank(L[t])
    OBVIOUS
  <2>2. ASSUME j > e PROVE FALSE
    <3>1. e + 1 \in w + 1 .. j /\ e < Len(L)
      BY <1>1, <1>7, <1>8, <2>1, <2>2
    <3>2. ~Blank(L[e + 1]) /\ L[e + 1].indent \in 1 .. 2
      BY <1>9, <3>1
    <3>3. L[e + 1].indent <= 2
      BY <3>2
    <3> QED BY <2>1, <3>1, <3>2, <3>3
  <2> QED BY <1>7, <1>8, <2>1, <2>2
<1> HIDE DEF M
<1>14. M = w + 1 .. e
  BY <1>12, <1>13
<1> QED BY <1>7, <1>11, <1>14 DEF w, e, B

Images(ch, S) == {ch[c] : c \in S}

LEMMA DirectIs ==
    ASSUME NEW L, NEW e \in StepEntry, NEW first \in BOOLEAN, NEW p \in Nat, NEW q \in Nat, NEW ch,
           EntryLaid(L, e, first, p, q, ch)
    PROVE  Direct(L, p + 2 .. q) = Images(ch, PersistIn(e))
<1> DEFINE C == p + 2 .. q
<1>0. \A j \in C : Blank(L[j]) \/ L[j].indent \in 3 .. 4
  BY EntryLines
<1>1. ASSUME NEW c \in DOMAIN e.children
      PROVE  /\ ch[c] \in C /\ e.children[c] \in Child /\ L[ch[c]] = ChildLine(e.children[c])
             /\ L[ch[c]].indent = 3 /\ ~L[ch[c]].dash
             /\ L[ch[c]].key = "persist" <=> e.children[c].key = "persist"
             /\ L[ch[c]].key # "blank"
  <2>1. ch[c] \in C /\ L[ch[c]] = ChildLine(e.children[c])
    BY DEF EntryLaid
  <2>2. e.children[c] \in Child
    BY ChildPartsAre
  <2> QED BY <2>1, <2>2, ChildLineIs
<1>2. ASSUME NEW j \in Direct(L, C) PROVE \E c \in PersistIn(e) : j = ch[c]
  <2>1. j \in C /\ PersistLine(L[j]) /\ \A t \in C : Blank(L[t]) \/ L[j].indent <= L[t].indent
    BY DEF Direct
  <2>2. L[j] # BlankLine
    BY <2>1, PlainLineIs DEF PersistLine
  <2>3. ASSUME NEW c \in DOMAIN e.children, L[j] = NestedLine PROVE FALSE
    <3>1. L[j].indent = 4
      BY <2>3, PlainLineIs
    <3>2. 4 <= 3
      BY <1>1, <2>1, <3>1 DEF Blank
    <3> QED BY <3>2
  <2>4. PICK c \in DOMAIN e.children : j = ch[c]
    BY <2>1, <2>2, <2>3 DEF EntryLaid
  <2>5. e.children[c].key = "persist"
    BY <1>1, <2>1, <2>4 DEF PersistLine
  <2> QED BY <2>4, <2>5 DEF PersistIn
<1>3. ASSUME NEW c \in PersistIn(e) PROVE ch[c] \in Direct(L, C)
  <2>1. c \in DOMAIN e.children /\ e.children[c].key = "persist"
    BY DEF PersistIn
  <2>2. ch[c] \in C /\ PersistLine(L[ch[c]]) /\ L[ch[c]].indent = 3
    BY <1>1, <2>1 DEF PersistLine
  <2>3. ASSUME NEW t \in C PROVE Blank(L[t]) \/ L[ch[c]].indent <= L[t].indent
    BY <1>0, <2>2
  <2> QED BY <2>2, <2>3 DEF Direct
<1> HIDE DEF C
<1> QED BY <1>2, <1>3 DEF C, Images

----------------------------------------------------------------------------
(* What an accepted file is like *)

LEMMA OneAtMost ==
    ASSUME NEW S, IsFiniteSet(S)
    PROVE  Cardinality(S) <= 1 <=> \A x, y \in S : x = y
<1>1. Cardinality(S) \in Nat
  BY FS_CardinalityType
<1>2. ASSUME Cardinality(S) <= 1 PROVE \A x, y \in S : x = y
  <2>1. Cardinality(S) = 0 \/ Cardinality(S) = 1
    BY <1>1, <1>2
  <2> QED BY <2>1, FS_EmptySet, FS_Singleton
<1>3. ASSUME \A x, y \in S : x = y PROVE Cardinality(S) <= 1
  <2>1. CASE S = {}
    BY <2>1, FS_EmptySet
  <2>2. CASE S # {}
    <3>1. PICK x \in S : TRUE
      BY <2>2
    <3>2. S = {x}
      BY <1>3, <3>1
    <3>3. Cardinality(S) = 1
      BY <3>2, FS_Singleton
    <3> QED BY <3>3
  <2> QED BY <2>1, <2>2
<1> QED BY <1>2, <1>3

\* Two entries do not share a line.
LEMMA EntryOrder ==
    ASSUME NEW L, NEW s, NEW p, NEW q, NEW at, StepLaid(L, s, p, q, at),
           NEW k \in DOMAIN s.entries, NEW m \in DOMAIN s.entries, at[k - 1] = at[m - 1]
    PROVE  k = m
<1> DEFINE n == Len(s.entries)
<1>1. /\ at \in [0 .. n -> Nat] /\ n \in Nat /\ k \in 1 .. n /\ m \in 1 .. n
      /\ \A x, y \in 0 .. n : x <= y => at[x] <= at[y]
      /\ \A x \in 1 .. n : at[x - 1] < at[x]
  BY DEF StepLaid, Ordered, EntryLaid
<1> HIDE DEF n
<1>2. ASSUME NEW x \in 1 .. n, NEW y \in 1 .. n, x < y PROVE at[x - 1] < at[y - 1]
  <2>1. x \in 0 .. n /\ y - 1 \in 0 .. n /\ x - 1 \in 0 .. n /\ x <= y - 1
    BY <1>1, <1>2
  <2>2. at[x] <= at[y - 1] /\ at[x - 1] < at[x]
    BY <1>1, <2>1
  <2>3. at[x] \in Nat /\ at[y - 1] \in Nat /\ at[x - 1] \in Nat
    BY <1>1, <2>1
  <2> QED BY <2>2, <2>3
<1>3. ~ (k < m) /\ ~ (m < k)
  <2>1. at[k - 1] \in Nat
    BY <1>1
  <2>2. ~ (at[k - 1] < at[m - 1]) /\ ~ (at[m - 1] < at[k - 1])
    BY <2>1
  <2>3. k < m => at[k - 1] < at[m - 1]
    BY <1>1, <1>2
  <2>4. m < k => at[m - 1] < at[k - 1]
    BY <1>1, <1>2
  <2> QED BY <2>2, <2>3, <2>4
<1> QED BY <1>1, <1>3

LEMMA FiniteBlock ==
    ASSUME NEW L, Len(L) \in Nat, NEW x \in Nat, NEW S, S \subseteq BlockFrom(L, x)
    PROVE  IsFiniteSet(S)
<1>1. IsFiniteSet(x .. Len(L))
  BY FS_Interval
<1>2. S \in SUBSET (x .. Len(L))
  BY DEF BlockFrom
<1> QED BY <1>1, <1>2, FS_Subset

LEMMA FiniteOf ==
    ASSUME NEW f \in Files, NEW i \in DOMAIN f.steps, NEW key
    PROVE  IsFiniteSet(Of(f.steps[i], key))
<1> DEFINE n == Len(f.steps[i].entries)
<1>1. n \in Nat /\ DOMAIN f.steps[i].entries = 1 .. n
  <2>1. f.steps[i] \in Step
    BY FilePartsAre
  <2>2. f.steps[i].entries \in Seq(StepEntry)
    BY <2>1 DEF Step
  <2> QED BY <2>2
<1> HIDE DEF n
<1>2. IsFiniteSet(1 .. n)
  BY <1>1, FS_Interval
<1>3. Of(f.steps[i], key) \in SUBSET (1 .. n)
  BY <1>1 DEF Of
<1> QED BY <1>2, <1>3, FS_Subset

\* What an accepted file is: no line is refused, and every block that was looked at is right.
Fine(L, block) == block = NoBlock \/ StepOK(L, block)
Accepted(L) == /\ \A j \in DOMAIN L : ~LineRefused(L[j])
               /\ \A u \in DOMAIN L : UsesLine(L[u]) => Fine(L, StepBounds(L, u))

\* The line of a uses entry, in a step that is found, lies in a block that holds no other uses.
LEMMA UsesBlock ==
    ASSUME NEW f \in Files, NEW L, NEW a, FileLaid(L, f, a), Accepted(L), NEW i \in DOMAIN f.steps,
           NEW at, StepLaid(L, f.steps[i], a[i - 1], a[i], at), ~f.steps[i].bare,
           NEW k \in Of(f.steps[i], "uses")
    PROVE  /\ a[i - 1] < a[i] /\ at[k - 1] + 1 \in a[i - 1] + 1 .. a[i]
           /\ at[k - 1] + 1 \in BlockFrom(L, a[i - 1] + 1)
           /\ UsesLine(L[at[k - 1] + 1])
           /\ L[at[k - 1] + 1].value = f.steps[i].entries[k].value
           /\ StepOK(L, BlockFrom(L, a[i - 1] + 1))
           /\ \A j \in BlockFrom(L, a[i - 1] + 1) : UsesLine(L[j]) => j = at[k - 1] + 1
<1> DEFINE s == f.steps[i]
           u == at[k - 1] + 1
           p == a[i - 1]
           q == a[i]
           B == BlockFrom(L, p + 1)
<1>1. /\ s \in Step /\ p \in Nat /\ q \in Nat /\ Len(L) \in Nat /\ q <= Len(L) /\ k \in DOMAIN s.entries
      /\ DOMAIN L = 1 .. Len(L)
  <2>1. s \in Step /\ p \in Nat /\ q \in Nat /\ Len(L) \in Nat /\ q <= Len(L)
    BY FileStep
  <2>2. DOMAIN L = 1 .. Len(L)
    BY DEF FileLaid
  <2>3. k \in DOMAIN s.entries
    BY DEF Of
  <2> QED BY <2>1, <2>2, <2>3
<1>2. /\ u \in p + 1 .. q /\ L[u].key = s.entries[k].key /\ L[u].value = s.entries[k].value
  BY <1>1, KeyLineIs
<1>3. UsesLine(L[u])
  BY <1>2 DEF Of, UsesLine
<1>4. p < q /\ u \in DOMAIN L
  BY <1>1, <1>2
<1>5. StepBounds(L, u) = B
  <2> HIDE DEF s, u, p, q
  <2>1. StepLaid(L, s, p, q, at) /\ ~s.bare
    BY DEF s, p, q
  <2> QED BY <1>1, <1>2, <1>3, <2>1, BoundsAre
<1>6. u \in B
  BY <1>2, <1>4, BlockHolds
<1> HIDE DEF B, u
<1>7. StepOK(L, B)
  BY <1>3, <1>4, <1>5, <1>6 DEF Accepted, Fine, NoBlock
<1>8. ASSUME NEW j \in B, UsesLine(L[j]) PROVE j = u
  <2> DEFINE S == {x \in B : UsesLine(L[x])}
  <2>1. Cardinality(S) <= 1
    BY <1>7 DEF StepOK
  <2>2. IsFiniteSet(S)
    <3>1. S \subseteq BlockFrom(L, p + 1) /\ p + 1 \in Nat
      BY <1>1 DEF B
    <3> HIDE DEF S, p
    <3> QED BY <1>1, <3>1, FiniteBlock
  <2>3. j \in S /\ u \in S
    BY <1>3, <1>6, <1>8
  <2> HIDE DEF S
  <2> QED BY <2>1, <2>2, <2>3, OneAtMost
<1> QED BY <1>2, <1>3, <1>4, <1>6, <1>7, <1>8 DEF B, u

\* One uses at most.
LEMMA OneUses ==
    ASSUME NEW f \in Files, NEW L, NEW a, FileLaid(L, f, a), Accepted(L), NEW i \in DOMAIN f.steps,
           ~f.steps[i].bare
    PROVE  Cardinality(Of(f.steps[i], "uses")) <= 1
<1>1. PICK at : StepLaid(L, f.steps[i], a[i - 1], a[i], at)
  BY FileStep
<1>2. ASSUME NEW k \in Of(f.steps[i], "uses"), NEW m \in Of(f.steps[i], "uses") PROVE k = m
  <2>1. at[m - 1] + 1 = at[k - 1] + 1
    <3>1. /\ at[m - 1] + 1 \in BlockFrom(L, a[i - 1] + 1)
          /\ UsesLine(L[at[m - 1] + 1])
      BY <1>1, UsesBlock
    <3>2. \A j \in BlockFrom(L, a[i - 1] + 1) : UsesLine(L[j]) => j = at[k - 1] + 1
      BY <1>1, UsesBlock
    <3> QED BY <3>1, <3>2
  <2>2. k \in DOMAIN f.steps[i].entries /\ m \in DOMAIN f.steps[i].entries
    BY DEF Of
  <2>3. at[m - 1] \in Nat /\ at[k - 1] \in Nat
    BY <1>1, <2>2, StepSpan, FileStep
  <2>4. at[k - 1] = at[m - 1]
    BY <2>1, <2>3
  <2> QED BY <1>1, <2>2, <2>4, EntryOrder
<1> QED BY <1>2, OneAtMost, FiniteOf

\* The with line that answers for a checkout is the step's own.
LEMMA OwnWith ==
    ASSUME NEW f \in Files, NEW L, NEW a, FileLaid(L, f, a), Accepted(L), NEW i \in DOMAIN f.steps,
           NEW at, StepLaid(L, f.steps[i], a[i - 1], a[i], at), ~f.steps[i].bare,
           NEW k \in Of(f.steps[i], "uses"), \A m \in DOMAIN f.steps : Readable(f.steps[m]),
           NEW w \in BlockFrom(L, a[i - 1] + 1), WithLine(L[w])
    PROVE  \E kw \in Of(f.steps[i], "with") : w = at[kw - 1] + 1 /\ ~First(f.steps[i], kw)
<1> DEFINE B == BlockFrom(L, a[i - 1] + 1)
           u == at[k - 1] + 1
<1>1. /\ a[i - 1] \in Nat /\ a[i] \in Nat /\ Len(L) \in Nat /\ f.steps[i] \in Step
  BY FileStep
<1>2. a[i - 1] < a[i] /\ u \in a[i - 1] + 1 .. a[i] /\ \A j \in B : UsesLine(L[j]) => j = u
  BY UsesBlock
<1>3. w \in 1 .. Len(L)
  BY <1>1 DEF BlockFrom
<1> HIDE DEF B, u
<1>4. w \in a[i - 1] + 1 .. a[i]
  <2> SUFFICES ASSUME w \notin a[i - 1] + 1 .. a[i] PROVE FALSE
    OBVIOUS
  <2>1. PICK m \in DOMAIN f.steps :
           /\ w \in a[m - 1] + 1 .. a[m] /\ a[i] <= a[m - 1]
           /\ \A y \in a[m - 1] + 1 .. a[m] : y \in B
    BY <1>2, BlockHolds DEF B
  <2>2. PICK am : StepLaid(L, f.steps[m], a[m - 1], a[m], am)
    BY FileStep
  <2>3. f.steps[m] \in Step /\ a[m - 1] \in Nat /\ a[m] \in Nat
    BY FileStep
  <2>4. L[w].key = "with"
    BY DEF WithLine
  <2>5. Of(f.steps[m], "with") # {}
    BY <2>1, <2>2, <2>3, <2>4, KeyLines
  <2>6. PICK km \in Of(f.steps[m], "uses") : TRUE
    BY <2>5 DEF Readable
  <2> DEFINE v == am[km - 1] + 1
  <2>7. v \in a[m - 1] + 1 .. a[m]
    BY <2>2, <2>3, KeyLineIs DEF Of
  <2>8. UsesLine(L[v])
    <3> HIDE DEF v
    <3>1. L[v].key = "uses"
      BY <2>2, <2>3, <2>7, KeyLines DEF v
    <3> QED BY <3>1 DEF UsesLine
  <2> HIDE DEF v
  <2>9. v = u
    BY <1>2, <2>1, <2>7, <2>8
  <2> QED BY <1>1, <1>2, <2>1, <2>3, <2>7, <2>9
<1>5. PICK kw \in Of(f.steps[i], "with") : w = at[kw - 1] + 1
  <2>1. L[w].key = "with"
    BY DEF WithLine
  <2> QED BY <1>1, <1>4, <2>1, KeyLines
<1>6. ~First(f.steps[i], kw)
  <2>1. L[at[kw - 1] + 1].dash <=> First(f.steps[i], kw)
    BY <1>1, KeyLineIs DEF Of
  <2> QED BY <1>5, <2>1 DEF WithLine
<1> QED BY <1>5, <1>6

\* One persist-credentials: false, among the lines D and among the children of e.
OneFalse(L, D) == Cardinality(D) = 1 /\ \A d \in D : L[d].value = "false"
Drops(e) == \E c \in PersistIn(e) : PersistIn(e) = {c} /\ e.children[c].value = "false"

LEMMA OwnPersist ==
    ASSUME NEW f \in Files, NEW L, NEW a, FileLaid(L, f, a), NEW i \in DOMAIN f.steps,
           NEW at, StepLaid(L, f.steps[i], a[i - 1], a[i], at),
           NEW kw \in DOMAIN f.steps[i].entries, ~First(f.steps[i], kw)
    PROVE  OneFalse(L, Direct(L, MappingBounds(L, at[kw - 1] + 1, BlockFrom(L, a[i - 1] + 1))))
           <=> Drops(f.steps[i].entries[kw])
<1> DEFINE D == Direct(L, MappingBounds(L, at[kw - 1] + 1, BlockFrom(L, a[i - 1] + 1)))
<1> DEFINE e == f.steps[i].entries[kw]
           p == at[kw - 1]
           q == at[kw]
           first == First(f.steps[i], kw)
<1>1. f.steps[i] \in Step
  BY FileStep
<1>2. p \in Nat /\ q \in Nat /\ e \in StepEntry /\ first \in BOOLEAN
  BY <1>1, StepSpan
<1>3. PICK ch : EntryLaid(L, e, first, p, q, ch)
  BY <1>1, StepSpan
<1>4. D = Direct(L, p + 2 .. q)
  BY ContentIs
<1> HIDE DEF e, p, q, first, D
<1>0. D = Images(ch, PersistIn(e))
  BY <1>2, <1>3, <1>4, DirectIs
<1>5. D = {ch[c] : c \in PersistIn(e)}
  BY <1>0 DEF Images
<1>6. ASSUME NEW c \in PersistIn(e)
      PROVE  c \in DOMAIN e.children /\ L[ch[c]].value = e.children[c].value
  <2>1. c \in DOMAIN e.children /\ e.children[c].key = "persist"
    BY DEF PersistIn
  <2>2. e.children[c] \in Child /\ L[ch[c]] = ChildLine(e.children[c])
    BY <1>2, <1>3, <2>1, ChildPartsAre DEF EntryLaid
  <2> QED BY <2>1, <2>2, ChildLineIs
<1>7. \A c, d \in DOMAIN e.children : ch[c] = ch[d] => c = d
  BY <1>3 DEF EntryLaid
<1>8. IsFiniteSet(D)
  <2>1. D \in SUBSET (p + 2 .. q)
    BY <1>4 DEF Direct
  <2>2. IsFiniteSet(p + 2 .. q)
    <3> DEFINE x == p + 2
    <3>1. x \in Int /\ q \in Int
      BY <1>2
    <3> HIDE DEF x
    <3>2. IsFiniteSet(x .. q)
      BY <3>1, FS_Interval
    <3> QED BY <3>2 DEF x
  <2> QED BY <2>1, <2>2, FS_Subset
<1>9. ASSUME OneFalse(L, D) PROVE Drops(e)
  <2>1. PICK d : D = {d}
    BY <1>8, <1>9, FS_Singleton DEF OneFalse
  <2>2. PICK c \in PersistIn(e) : d = ch[c]
    BY <1>5, <2>1
  <2>3. \A b \in PersistIn(e) : ch[b] = ch[c]
    BY <1>5, <2>1, <2>2
  <2>4. PersistIn(e) = {c}
    BY <1>6, <1>7, <2>3
  <2>5. e.children[c].value = "false"
    BY <1>6, <1>9, <2>1, <2>2 DEF OneFalse
  <2> QED BY <2>4, <2>5 DEF Drops
<1>10. ASSUME Drops(e) PROVE OneFalse(L, D)
  <2>1. PICK c \in PersistIn(e) : PersistIn(e) = {c} /\ e.children[c].value = "false"
    BY <1>10 DEF Drops
  <2>2. D = {ch[c]}
    BY <1>5, <2>1
  <2>3. Cardinality(D) = 1
    BY <2>2, FS_Singleton
  <2> QED BY <1>6, <2>1, <2>2, <2>3 DEF OneFalse
<1>11. OneFalse(L, D) <=> Drops(e)
  BY <1>9, <1>10
<1> QED BY <1>11 DEF e, D

\* A refused line would have been seen.
LEMMA NoneRefused ==
    ASSUME NEW f \in Files, NEW L, NEW a, FileLaid(L, f, a), Accepted(L), NEW i \in DOMAIN f.steps,
           NEW k \in DOMAIN f.steps[i].entries
    PROVE  /\ f.steps[i].entries[k].key # "murky"
           /\ f.steps[i].entries[k].key = "uses" => f.steps[i].entries[k].value # "loose"
<1>1. PICK at : StepLaid(L, f.steps[i], a[i - 1], a[i], at)
  BY FileStep
<1> DEFINE u == at[k - 1] + 1
<1>2. /\ a[i - 1] \in Nat /\ a[i] \in Nat /\ Len(L) \in Nat /\ f.steps[i] \in Step /\ a[i] <= Len(L)
      /\ DOMAIN L = 1 .. Len(L)
  <2>1. DOMAIN L = 1 .. Len(L)
    BY DEF FileLaid
  <2> QED BY <2>1, FileStep
<1>3. /\ u \in a[i - 1] + 1 .. a[i]
      /\ L[u].key = f.steps[i].entries[k].key /\ L[u].value = f.steps[i].entries[k].value
  BY <1>1, <1>2, KeyLineIs
<1> HIDE DEF u
<1>4. ~LineRefused(L[u])
  BY <1>2, <1>3 DEF Accepted
<1> QED BY <1>3, <1>4 DEF LineRefused, UsesLine

LEMMA AcceptedStep ==
    ASSUME NEW f \in Files, NEW L, NEW a, FileLaid(L, f, a), Accepted(L), NEW i \in DOMAIN f.steps,
           Found(f.steps[i]), \A m \in DOMAIN f.steps : Readable(f.steps[m])
    PROVE  StepSafe(f.steps[i])
<1> DEFINE s == f.steps[i]
<1>1. PICK at : StepLaid(L, f.steps[i], a[i - 1], a[i], at)
  BY FileStep
<1>2. ~s.bare
  BY DEF Found
<1>3. Of(s, "murky") = {} /\ \A u \in Of(s, "uses") : s.entries[u].value # "loose"
  BY NoneRefused DEF Of
<1>4. Cardinality(Of(s, "uses")) <= 1
  BY <1>2, OneUses
<1>5. ASSUME NEW k \in Of(s, "uses"), s.entries[k].value = "checkout"
      PROVE  \E kw \in DOMAIN s.entries :
                /\ Of(s, "with") = {kw}
                /\ Drops(s.entries[kw])
  <2> DEFINE u == at[k - 1] + 1
             B == BlockFrom(L, a[i - 1] + 1)
  <2>1. /\ u \in B /\ UsesLine(L[u]) /\ L[u].value = "checkout" /\ StepOK(L, B)
    BY <1>1, <1>2, <1>5, UsesBlock
  <2> HIDE DEF u
  <2>2. CheckoutInputsOK(L, u, B)
    <3> HIDE DEF B
    <3> QED BY <2>1 DEF StepOK
  <2>3. PICK w \in B : WithLine(L[w]) /\ OneFalse(L, Direct(L, MappingBounds(L, w, B)))
    <3> HIDE DEF B
    <3> QED BY <2>2 DEF CheckoutInputsOK, OneFalse
  <2>4. PICK kw \in Of(s, "with") : w = at[kw - 1] + 1 /\ ~First(s, kw)
    <3>1. w \in BlockFrom(L, a[i - 1] + 1) /\ WithLine(L[w]) /\ k \in Of(f.steps[i], "uses")
          /\ ~f.steps[i].bare
      BY <1>2, <2>3
    <3>2. \E kw \in Of(f.steps[i], "with") : w = at[kw - 1] + 1 /\ ~First(f.steps[i], kw)
      <4> HIDE DEF s, B
      <4> QED BY <1>1, <3>1, OwnWith DEF s
    <3> QED BY <3>2
  <2>5. kw \in DOMAIN s.entries
    BY DEF Of
  <2>6. Of(s, "with") = {kw}
    <3>1. Cardinality(Of(s, "with")) <= 1
      BY DEF Readable
    <3>2. IsFiniteSet(Of(s, "with"))
      BY FiniteOf
    <3> QED BY <2>4, <3>1, <3>2, OneAtMost
  <2>7. Drops(s.entries[kw])
    BY <1>1, <2>3, <2>4, <2>5, OwnPersist
  <2> QED BY <2>5, <2>6, <2>7
<1> HIDE DEF s
<1>6. StepSafe(s)
  BY <1>3, <1>4, <1>5 DEF StepSafe, Drops
<1> QED BY <1>6 DEF s

LEMMA CalledIsFine ==
    ASSUME NEW f \in Files, NEW L, NEW a, FileLaid(L, f, a), Accepted(L)
    PROVE  f.called # "loose"
<1> SUFFICES ASSUME f.called = "loose" PROVE FALSE
  OBVIOUS
<1>1. a[0] = 3 /\ L[2] = CalledLine(f)
  BY DEF FileLaid
<1>2. 2 \in DOMAIN L
  <2> DEFINE n == Len(f.steps)
  <2>1. /\ a \in [0 .. n -> Nat] /\ n \in Nat /\ a[n] = Len(L) /\ DOMAIN L = 1 .. Len(L)
        /\ \A x, y \in 0 .. n : x <= y => a[x] <= a[y]
    BY DEF FileLaid, Ordered
  <2> HIDE DEF n
  <2>2. a[0] <= a[n] /\ a[n] \in Nat
    BY <2>1
  <2> QED BY <1>1, <2>1, <2>2
<1>3. L[2].key = "uses" /\ L[2].value = "loose"
  BY <1>1 DEF CalledLine, Line
<1> QED BY <1>2, <1>3 DEF Accepted, LineRefused, UsesLine

----------------------------------------------------------------------------
(* What is written in house style is accepted *)

LEMMA FoundLines ==
    ASSUME NEW L, NEW s \in Step, NEW p, NEW q, NEW at, StepLaid(L, s, p, q, at), NEW j \in p + 1 .. q, ~s.bare
    PROVE  \E k \in DOMAIN s.entries : j \in at[k - 1] + 1 .. at[k]
<1>1. \/ s.bare /\ j = p + 1 /\ L[j] = DashLine
      \/ \E k \in DOMAIN s.entries : j \in at[k - 1] + 1 .. at[k]
  BY StepLines
<1> QED BY <1>1, Zenon

\* In house style the lines below an entry are neither murky nor, except under with,
\* persist-credentials.
LEMMA HouseLines ==
    ASSUME NEW L, NEW s \in Step, HouseStyle(s), NEW p, NEW q, NEW at, StepLaid(L, s, p, q, at),
           NEW k \in DOMAIN s.entries, NEW j \in at[k - 1] + 2 .. at[k]
    PROVE  /\ ~L[j].dash /\ L[j].key # "murky" /\ L[j].key # "uses"
           /\ L[j].key = "persist" => s.entries[k].key = "with"
<1> DEFINE e == s.entries[k]
           first == First(s, k)
           x == at[k - 1]
           y == at[k]
<1>1. x \in Nat /\ y \in Nat /\ e \in StepEntry /\ first \in BOOLEAN
  BY StepSpan
<1>2. PICK ch : EntryLaid(L, e, first, x, y, ch)
  BY StepSpan
<1>3. /\ e.key # "with" => PersistIn(e) = {}
      /\ \A c \in DOMAIN e.children : e.children[c].key \in {"persist", "other"}
  BY DEF HouseStyle
<1> HIDE DEF e, first, x, y
<1>4. /\ ~L[j].dash /\ L[j].key \in {"blank", "persist", "murky", "other"}
      /\ L[j].key = "murky" => \E c \in DOMAIN e.children : e.children[c].key = "murky"
  BY <1>1, <1>2, EntryLines DEF x, y
<1>5. ASSUME L[j].key = "persist" PROVE e.key = "with"
  <2>1. L[j] # BlankLine
    BY <1>5, PlainLineIs
  <2>2. PICK c \in DOMAIN e.children : j = ch[c]
    BY <1>2, <1>3, <2>1 DEF EntryLaid, x, y
  <2>3. e.children[c] \in Child /\ L[j] = ChildLine(e.children[c])
    BY <1>1, <1>2, <2>2, ChildPartsAre DEF EntryLaid
  <2>4. e.children[c].key = "persist"
    BY <1>3, <1>5, <2>3, ChildLineIs
  <2> QED BY <1>3, <2>4 DEF PersistIn
<1> QED BY <1>3, <1>4, <1>5 DEF e

LEMMA HouseStepLines ==
    ASSUME NEW L, NEW s \in Step, HouseStyle(s), StepSafe(s), NEW p, NEW q, NEW at, StepLaid(L, s, p, q, at),
           NEW j \in p + 1 .. q
    PROVE  ~LineRefused(L[j])
<1>1. ~s.bare
  BY DEF HouseStyle
<1>2. PICK k \in DOMAIN s.entries : j \in at[k - 1] + 1 .. at[k]
  BY <1>1, FoundLines
<1>3. at[k - 1] \in Nat /\ at[k] \in Nat
  BY StepSpan
<1>4. CASE j = at[k - 1] + 1
  <2>1. L[j].key = s.entries[k].key /\ L[j].value = s.entries[k].value
    BY <1>4, KeyLineIs
  <2>2. s.entries[k].key # "murky" /\ s.entries[k].key # "persist"
    BY DEF StepSafe, HouseStyle, Of
  <2>3. s.entries[k].key = "uses" => s.entries[k].value # "loose"
    BY DEF StepSafe, Of
  <2> QED BY <2>1, <2>2, <2>3 DEF LineRefused, UsesLine
<1>5. CASE j # at[k - 1] + 1
  <2>1. j \in at[k - 1] + 2 .. at[k]
    BY <1>2, <1>3, <1>5
  <2> QED BY <2>1, HouseLines DEF LineRefused, UsesLine
<1> QED BY <1>4, <1>5

House(f) == \A i \in DOMAIN f.steps : StepSafe(f.steps[i]) /\ HouseStyle(f.steps[i])

\* The block of a step is its lines.
LEMMA HouseBlock ==
    ASSUME NEW f \in Files, NEW L, NEW a, FileLaid(L, f, a), House(f), NEW i \in DOMAIN f.steps,
           a[i - 1] < a[i]
    PROVE  BlockFrom(L, a[i - 1] + 1) = a[i - 1] + 1 .. a[i]
<1> DEFINE p == a[i - 1]
           q == a[i]
           B == BlockFrom(L, p + 1)
<1>1. \A m \in DOMAIN f.steps : ~f.steps[m].bare
  BY DEF House, HouseStyle
<1>2. \A j \in p + 1 .. q : j \in B
  BY BlockHolds
<1>3. ASSUME NEW j \in B PROVE j \in p + 1 .. q
  <2>1. \/ j \in p + 1 .. q
        \/ \E m \in DOMAIN f.steps : f.steps[m].bare
    BY BlockHolds
  <2> QED BY <1>1, <2>1, Zenon
<1> HIDE DEF B, p, q
<1>4. B = p + 1 .. q
  BY <1>2, <1>3
<1> QED BY <1>4 DEF B, p, q

\* The with of a checkout answers for it.
LEMMA HouseCheckout ==
    ASSUME NEW f \in Files, NEW L, NEW a, FileLaid(L, f, a), House(f), NEW i \in DOMAIN f.steps,
           NEW at, StepLaid(L, f.steps[i], a[i - 1], a[i], at), a[i - 1] < a[i],
           NEW k \in Of(f.steps[i], "uses"), f.steps[i].entries[k].value = "checkout"
    PROVE  CheckoutInputsOK(L, at[k - 1] + 1, BlockFrom(L, a[i - 1] + 1))
<1> DEFINE s == f.steps[i]
           p == a[i - 1]
           q == a[i]
           B == BlockFrom(L, a[i - 1] + 1)
           u == at[k - 1] + 1
<1>1. s \in Step /\ p \in Nat /\ q \in Nat
  BY FileStep
<1>2. StepSafe(s) /\ HouseStyle(s) /\ ~s.bare /\ s.entries[1].key = "other"
  BY DEF House, HouseStyle
<1>3. B = p + 1 .. q
  BY HouseBlock
<1>4. PICK kw \in DOMAIN s.entries : Of(s, "with") = {kw} /\ Drops(s.entries[kw])
  BY <1>2 DEF StepSafe, Drops
<1>5. ~First(s, k) /\ ~First(s, kw) /\ k \in DOMAIN s.entries
  BY <1>2, <1>4 DEF First, Of
<1> DEFINE w == at[kw - 1] + 1
           content == MappingBounds(L, w, B)
<1>6. L[u].indent = 2
  <2>1. L[u].indent = IF First(s, k) THEN 1 ELSE 2
    BY <1>1, <1>5, KeyLineIs
  <2> QED BY <1>5, <2>1
<1>7. w \in p + 1 .. q /\ WithLine(L[w]) /\ L[w].indent = 2
  <2>1. /\ w \in p + 1 .. q /\ L[w].key = s.entries[kw].key
        /\ L[w].dash <=> First(s, kw)
        /\ L[w].indent = IF First(s, kw) THEN 1 ELSE 2
    BY <1>1, KeyLineIs
  <2>2. s.entries[kw].key = "with"
    BY <1>4 DEF Of
  <2> QED BY <1>5, <2>1, <2>2 DEF WithLine
<1>8. content = at[kw - 1] + 2 .. at[kw]
  BY <1>5, ContentIs
<1>9. OneFalse(L, Direct(L, content))
  BY <1>4, <1>5, OwnPersist
<1>10. ASSUME NEW j \in p + 1 .. q, WithLine(L[j]) PROVE j = w
  <2>1. L[j].key = "with"
    BY <1>10 DEF WithLine
  <2>2. PICK x \in Of(s, "with") : j = at[x - 1] + 1
    BY <1>1, <2>1, KeyLines
  <2> QED BY <1>4, <2>2
<1>11. ASSUME NEW j \in p + 1 .. q, PersistLine(L[j]) PROVE j \in content
  <2>1. PICK x \in DOMAIN s.entries : j \in at[x - 1] + 1 .. at[x]
    <3>1. StepLaid(L, s, p, q, at) /\ s \in Step /\ ~s.bare /\ j \in p + 1 .. q
      BY <1>1, <1>2, <1>11
    <3> HIDE DEF s, p, q
    <3> QED BY <3>1, FoundLines
  <2>2. at[x - 1] \in Nat /\ at[x] \in Nat
    BY <1>1, StepSpan
  <2>3. j # at[x - 1] + 1
    <3>1. L[at[x - 1] + 1].key = s.entries[x].key
      BY <1>1, KeyLineIs
    <3>2. s.entries[x].key # "persist"
      BY <1>2 DEF HouseStyle
    <3> QED BY <1>11, <3>1, <3>2 DEF PersistLine
  <2>4. j \in at[x - 1] + 2 .. at[x]
    BY <2>1, <2>2, <2>3
  <2>5. L[j].key = "persist" => s.entries[x].key = "with"
    BY <1>1, <1>2, <2>4, HouseLines
  <2>6. x = kw
    BY <1>4, <1>11, <2>5 DEF PersistLine, Of
  <2> QED BY <1>8, <2>4, <2>6
<1> HIDE DEF B, u, w, content, p, q
<1>12. {j \in B : WithLine(L[j]) /\ L[j].indent = L[u].indent} = {w}
  BY <1>3, <1>6, <1>7, <1>10
<1>13. {j \in B : PersistLine(L[j])} \subseteq content
  BY <1>3, <1>11
<1>14. CheckoutInputsOK(L, u, B)
  <2>1. w \in B
    BY <1>3, <1>7
  <2> QED BY <1>9, <1>12, <1>13, <2>1 DEF CheckoutInputsOK, OneFalse, content
<1> QED BY <1>14 DEF u, B

LEMMA HouseStepOK ==
    ASSUME NEW f \in Files, NEW L, NEW a, FileLaid(L, f, a), House(f), NEW i \in DOMAIN f.steps,
           NEW at, StepLaid(L, f.steps[i], a[i - 1], a[i], at), a[i - 1] < a[i]
    PROVE  StepOK(L, BlockFrom(L, a[i - 1] + 1))
<1> DEFINE s == f.steps[i]
           p == a[i - 1]
           q == a[i]
           B == BlockFrom(L, p + 1)
           S == {j \in B : UsesLine(L[j])}
<1>1. s \in Step /\ p \in Nat /\ q \in Nat /\ Len(L) \in Nat
  BY FileStep
<1>2. B = p + 1 .. q
  BY HouseBlock
<1>3. Cardinality(Of(s, "uses")) <= 1
  BY DEF House, StepSafe
<1>4. IsFiniteSet(Of(s, "uses"))
  BY FiniteOf
<1>5. ASSUME NEW j \in S
      PROVE  \E k \in Of(s, "uses") :
                /\ j = at[k - 1] + 1 /\ L[j].value = s.entries[k].value
                /\ s.entries[k].value = "checkout" => CheckoutInputsOK(L, j, B)
  <2>1. j \in p + 1 .. q /\ L[j].key = "uses"
    BY <1>2 DEF UsesLine
  <2>2. PICK k \in Of(s, "uses") : j = at[k - 1] + 1
    BY <1>1, <2>1, KeyLines
  <2>3. L[at[k - 1] + 1].value = s.entries[k].value
    BY <1>1, KeyLineIs DEF Of
  <2>4. s.entries[k].value = "checkout" => CheckoutInputsOK(L, at[k - 1] + 1, B)
    BY HouseCheckout
  <2> QED BY <2>2, <2>3, <2>4
<1>6. IsFiniteSet(S)
  <2>1. S \subseteq BlockFrom(L, p + 1) /\ p + 1 \in Nat
    BY <1>1
  <2> HIDE DEF S, p
  <2> QED BY <1>1, <2>1, FiniteBlock
<1> HIDE DEF S, B
<1>7. \A j, u \in S : j = u
  <2>1. \A k, m \in Of(s, "uses") : k = m
    BY <1>3, <1>4, OneAtMost
  <2> QED BY <1>5, <2>1
<1>8. Cardinality(S) <= 1
  BY <1>6, <1>7, OneAtMost
<1>9. \A u \in S : L[u].value = "checkout" => CheckoutInputsOK(L, u, B)
  BY <1>5
<1>10. StepOK(L, B)
  BY <1>8, <1>9 DEF StepOK, S
<1> QED BY <1>10 DEF B

\* The called workflow is in no step.
LEMMA CalledBounds ==
    ASSUME NEW f \in Files, NEW L, NEW a, FileLaid(L, f, a), L[2] = CalledLine(f), L[1] = TopLine
    PROVE  StepBounds(L, 2) = NoBlock
<1>1. ~L[2].dash
  BY DEF CalledLine, Line
<1>2. ~StepStart(L[1])
  BY PlainLineIs DEF StepStart
<1>3. \A k \in 1 .. 2 - 1 : k = 1
  OBVIOUS
<1>4. StepFirst(L, 2) = {}
  BY <1>1, <1>2, <1>3 DEF StepFirst
<1> QED BY <1>4 DEF StepBounds

\* Every file in house style passes.
LEMMA HouseAccepted ==
    ASSUME NEW f \in Files, NEW L, NEW a, FileLaid(L, f, a), f.called # "loose", House(f)
    PROVE  Accepted(L)
<1>1. DOMAIN L = 1 .. Len(L)
  BY DEF FileLaid
<1>2. ASSUME NEW j \in 1 .. Len(L), j <= a[0]
      PROVE  ~LineRefused(L[j]) /\ (UsesLine(L[j]) => Fine(L, StepBounds(L, j)))
  <2>1. \/ L[j] = TopLine
        \/ f.called # "none" /\ j = 2 /\ L[j] = CalledLine(f)
    BY <1>2, FileLines
  <2>2. CASE L[j] = TopLine
    BY <2>2, PlainLineIs DEF LineRefused, UsesLine
  <2>3. CASE f.called # "none" /\ j = 2 /\ L[j] = CalledLine(f)
    <3>1. L[j].key = "uses" /\ L[j].value = f.called
      BY <2>3 DEF CalledLine, Line
    <3>2. L[1] = TopLine
      BY <2>3 DEF FileLaid
    <3>3. StepBounds(L, j) = NoBlock
      BY <2>3, <3>2, CalledBounds
    <3> QED BY <3>1, <3>3 DEF LineRefused, Fine
  <2> QED BY <2>1, <2>2, <2>3
<1>3. ASSUME NEW j \in 1 .. Len(L), NEW i \in DOMAIN f.steps, j \in a[i - 1] + 1 .. a[i]
      PROVE  ~LineRefused(L[j]) /\ (UsesLine(L[j]) => Fine(L, StepBounds(L, j)))
  <2> DEFINE s == f.steps[i]
             p == a[i - 1]
             q == a[i]
  <2>1. s \in Step /\ p \in Nat /\ q \in Nat
    BY FileStep
  <2>2. PICK at : StepLaid(L, s, p, q, at)
    BY FileStep
  <2>3. StepSafe(s) /\ HouseStyle(s) /\ ~s.bare
    BY DEF House, HouseStyle
  <2>4. p < q
    BY <1>3, <2>1
  <2>5. StepOK(L, BlockFrom(L, p + 1))
    BY <2>2, <2>4, HouseStepOK
  <2>6. j \in p + 1 .. q
    BY <1>3
  <2> HIDE DEF s, p, q
  <2>7. ~LineRefused(L[j])
    BY <2>1, <2>2, <2>3, <2>6, HouseStepLines
  <2>8. UsesLine(L[j]) => StepBounds(L, j) = BlockFrom(L, p + 1)
    BY <2>1, <2>2, <2>3, <2>6, BoundsAre
  <2> QED BY <2>5, <2>7, <2>8 DEF Fine
<1>4. \A j \in 1 .. Len(L) : j <= a[0] \/ \E i \in DOMAIN f.steps : j \in a[i - 1] + 1 .. a[i]
  BY FileLines
<1>5. \A j \in 1 .. Len(L) : ~LineRefused(L[j]) /\ (UsesLine(L[j]) => Fine(L, StepBounds(L, j)))
  BY <1>2, <1>3, <1>4
<1> QED BY <1>1, <1>5 DEF Accepted

----------------------------------------------------------------------------
(* The validator's run *)

UsesAt == {u \in DOMAIN lines : UsesLine(lines[u])}

\* What the failures stand for, at every point of the run.
RunSound ==
    /\ file \in Workflows /\ lines = Rendered(file)
    /\ read \in BOOLEAN /\ failed \in BOOLEAN /\ toCheck \subseteq UsesAt
    /\ ~read => failed = FALSE /\ toCheck = {} /\ checked = {}
    /\ read /\ ~failed => /\ \A j \in DOMAIN lines : ~LineRefused(lines[j])
                          /\ \A block \in checked : StepOK(lines, block)
    /\ read => \A u \in UsesAt \ toCheck : Known(StepBounds(lines, u))
    /\ failed => ~Accepted(lines)

LEMMA LeastToCheck ==
    ASSUME RunSound, toCheck # {}
    PROVE  Min(toCheck) \in toCheck
<1>1. DOMAIN lines = 1 .. Len(lines) /\ Len(lines) \in Nat
  <2>1. file \in Files
    BY WorkflowsAssumption DEF RunSound
  <2>2. PICK a : FileLaid(lines, file, a)
    BY <2>1, FileIsLaid DEF RunSound
  <2> QED BY <2>2 DEF FileLaid
<1>2. toCheck \subseteq Nat
  BY <1>1 DEF RunSound, UsesAt
<1>3. \E x \in toCheck : \A y \in toCheck : x <= y
  BY <1>2, LeastNumber
<1> QED BY <1>3 DEF Min

LEMMA StepSound == RunSound /\ [WorkflowNext]_workflowVars => RunSound'
<1>2. ASSUME RunSound, ReadLines PROVE RunSound'
  <2>1. /\ file' = file /\ lines' = lines /\ checked' = checked /\ checked = {}
        /\ toCheck' = UsesAt /\ UsesAt' = UsesAt /\ read' = TRUE
        /\ failed' = \E i \in DOMAIN lines : LineRefused(lines[i])
    BY <1>2 DEF ReadLines, RunSound, UsesAt
  <2>2. failed' \in BOOLEAN
    BY <2>1
  <2>3. failed' => ~Accepted(lines)
    BY <2>1 DEF Accepted
  <2>4. ~failed' => \A j \in DOMAIN lines : ~LineRefused(lines[j])
    BY <2>1
  <2>5. file \in Workflows /\ lines = Rendered(file)
    BY <1>2 DEF RunSound
  <2> HIDE DEF UsesAt
  <2> QED BY <2>1, <2>2, <2>3, <2>4, <2>5 DEF RunSound
<1>3. ASSUME RunSound, CheckUses PROVE RunSound'
  <2> DEFINE u == Min(toCheck)
             block == StepBounds(lines, u)
  <2>1. u \in toCheck
    BY <1>3, LeastToCheck DEF CheckUses
  <2>2. /\ file' = file /\ lines' = lines /\ read' = read /\ toCheck' = toCheck \ {u} /\ read = TRUE
        /\ UsesAt' = UsesAt
    BY <1>3, <2>1 DEF CheckUses, RunSound, UsesAt
  <2>3. /\ file \in Workflows /\ lines = Rendered(file) /\ failed \in BOOLEAN /\ toCheck \subseteq UsesAt
        /\ ~failed => /\ \A j \in DOMAIN lines : ~LineRefused(lines[j])
                      /\ \A b \in checked : StepOK(lines, b)
        /\ \A x \in UsesAt \ toCheck : Known(StepBounds(lines, x))
        /\ failed => ~Accepted(lines)
    BY <1>3, <2>2 DEF RunSound
  <2>4. CASE Known(block)
    <3>1. failed' = failed /\ checked' = checked
      BY <1>3, <2>4 DEF CheckUses
    <3>2. \A x \in UsesAt \ toCheck' : Known(StepBounds(lines, x))
      BY <2>2, <2>3, <2>4
    <3>3. \A b : Known(b) => Known(b)'
      BY <3>1 DEF Known
    <3> HIDE DEF UsesAt, u, block
    <3> QED BY <2>2, <2>3, <3>1, <3>2 DEF RunSound, Known
  <2>5. CASE ~Known(block)
    <3>1. checked' = checked \cup {block} /\ failed' = (failed \/ ~StepOK(lines, block))
      BY <1>3, <2>5 DEF CheckUses
    <3>2. block # NoBlock
      BY <2>5 DEF Known
    <3>3. ~StepOK(lines, block) => ~Accepted(lines)
      BY <2>1, <2>3, <3>2 DEF Accepted, Fine, UsesAt
    <3>4. failed' \in BOOLEAN /\ (failed' => ~Accepted(lines))
      BY <2>3, <3>1, <3>3
    <3>5. ASSUME NEW x \in UsesAt \ toCheck' PROVE StepBounds(lines, x) = NoBlock \/ StepBounds(lines, x) \in checked'
      <4>1. x = u \/ x \in UsesAt \ toCheck
        BY <2>2
      <4> QED BY <2>3, <3>1, <4>1 DEF Known
    <3>6. ~failed' => \A b \in checked' : StepOK(lines, b)
      BY <2>3, <3>1
    <3> HIDE DEF UsesAt, u, block
    <3> QED BY <2>2, <2>3, <3>1, <3>4, <3>5, <3>6 DEF RunSound, Known
  <2> QED BY <2>4, <2>5
<1>4. ASSUME RunSound, UNCHANGED workflowVars PROVE RunSound'
  BY <1>4 DEF RunSound, UsesAt, Known, workflowVars
<1> QED BY <1>2, <1>3, <1>4 DEF WorkflowNext

LEMMA RunSoundInv == WorkflowSpec => []RunSound
<1>1. WorkflowInit => RunSound
  BY DEF WorkflowInit, RunSound
<1> QED BY <1>1, StepSound, PTL DEF WorkflowSpec

\* A validated file that did not fail is one whose every line and block is right.
LEMMA Decided ==
    ASSUME RunSound, Validated, ~failed
    PROVE  Accepted(lines)
<1>1. ASSUME NEW u \in DOMAIN lines, UsesLine(lines[u]) PROVE Fine(lines, StepBounds(lines, u))
  <2>1. Known(StepBounds(lines, u))
    BY <1>1 DEF RunSound, Validated, UsesAt
  <2> QED BY <2>1 DEF RunSound, Validated, Known, Fine
<1>2. \A j \in DOMAIN lines : ~LineRefused(lines[j])
  BY DEF RunSound, Validated
<1> QED BY <1>1, <1>2 DEF Accepted

LEMMA SoundFailsClosed == RunSound => FailClosed
<1> SUFFICES ASSUME RunSound, Validated, ~failed PROVE
       /\ file.called # "loose"
       /\ \A i \in DOMAIN file.steps : \A u \in Of(file.steps[i], "uses") :
             file.steps[i].entries[u].value # "loose"
       /\ (\A i \in DOMAIN file.steps : Readable(file.steps[i])) =>
             \A i \in DOMAIN file.steps : Found(file.steps[i]) => StepSafe(file.steps[i])
  BY DEF FailClosed
<1>1. file \in Files
  BY WorkflowsAssumption DEF RunSound
<1>2. PICK a : FileLaid(lines, file, a)
  BY <1>1, FileIsLaid DEF RunSound
<1>3. Accepted(lines)
  BY Decided
<1>4. file.called # "loose"
  BY <1>1, <1>2, <1>3, CalledIsFine
<1>5. \A i \in DOMAIN file.steps : \A u \in Of(file.steps[i], "uses") :
             file.steps[i].entries[u].value # "loose"
  BY <1>1, <1>2, <1>3, NoneRefused DEF Of
<1>6. ASSUME \A i \in DOMAIN file.steps : Readable(file.steps[i])
      PROVE  \A i \in DOMAIN file.steps : Found(file.steps[i]) => StepSafe(file.steps[i])
  BY <1>1, <1>2, <1>3, <1>6, AcceptedStep
<1> QED BY <1>4, <1>5, <1>6

\* FailClosed: what the validator accepts runs pinned code only and drops the credentials
\* of every checkout in a step it finds, whatever the file (validate_workflow_text).
THEOREM ValidatorFailsClosed == WorkflowSpec => []FailClosed
BY RunSoundInv, SoundFailsClosed, PTL

\* AcceptsHouseStyle: what is safe and written the way the repository's own workflows
\* are is never refused (validate_workflow_text).
THEOREM ValidatorAcceptsHouseStyle == WorkflowSpec => []AcceptsHouseStyle
<1>1. RunSound => AcceptsHouseStyle
  <2> SUFFICES ASSUME RunSound, file.called # "loose", House(file) PROVE ~failed
    BY DEF AcceptsHouseStyle, House
  <2>1. file \in Files
    BY WorkflowsAssumption DEF RunSound
  <2>2. PICK a : FileLaid(lines, file, a)
    BY <2>1, FileIsLaid DEF RunSound
  <2>3. Accepted(lines)
    BY <2>1, <2>2, HouseAccepted
  <2> QED BY <2>3 DEF RunSound
<1> QED BY <1>1, RunSoundInv, PTL

----------------------------------------------------------------------------
(* The release job *)

WorkflowsPassed == step \notin {"workflows", "failed"} => Validated /\ ~failed

\* The job of sentinel-release.yml runs the validator first: whatever it does after
\* that, up to CANDIDATE_VALIDATED, it does with workflows for which FailClosed holds
\* and that have passed.
THEOREM GateFailsClosed == GateSpec => [](FailClosed /\ WorkflowsPassed)
<1>1. WorkflowInit /\ GateInit => RunSound /\ WorkflowsPassed
  BY DEF WorkflowInit, GateInit, RunSound, WorkflowsPassed
<1>2. ASSUME RunSound, [GateNext]_<<gateVars, workflowVars>> PROVE RunSound'
  <2>1. [WorkflowNext]_workflowVars
    BY <1>2 DEF GateNext
  <2> QED BY <1>2, <2>1, StepSound
<1>3. ASSUME WorkflowsPassed, [GateNext]_<<gateVars, workflowVars>> PROVE WorkflowsPassed'
  <2>1. CASE WorkflowNext /\ step = "workflows" /\ UNCHANGED gateVars
    BY <2>1 DEF gateVars, WorkflowsPassed
  <2>2. CASE UNCHANGED workflowVars
    <3>1. (Validated /\ ~failed)' <=> Validated /\ ~failed
      BY <2>2 DEF workflowVars, Validated
    <3>2. CASE ValidateWorkflows
      BY <3>1, <3>2 DEF ValidateWorkflows, Abort, WorkflowsPassed
    <3>3. CASE RunTests \/ ListTracked \/ HashRest \/ WriteManifest \/ FinalResult
      BY <1>3, <3>1, <3>3 DEF RunTests, ListTracked, HashRest, WriteManifest, FinalResult,
                              Abort, WorkflowsPassed
    <3>4. ASSUME NEW p \in Paths, Build(p) \/ HashFirst(p) \/ Compare(p) \/ Meddle(p)
          PROVE  WorkflowsPassed'
      BY <1>3, <3>1, <3>4 DEF Build, HashFirst, Compare, Meddle, Running, Abort, WorkflowsPassed
    <3>5. CASE UNCHANGED gateVars
      BY <1>3, <3>1, <3>5 DEF gateVars, WorkflowsPassed
    <3>6. GateStep \/ UNCHANGED gateVars
      BY <1>3, <2>1, <2>2 DEF GateNext
    <3> QED BY <3>2, <3>3, <3>4, <3>5, <3>6 DEF GateStep
  <2> QED BY <1>3, <2>1, <2>2 DEF GateNext
<1>4. RunSound /\ WorkflowsPassed => FailClosed /\ WorkflowsPassed
  BY SoundFailsClosed
<1> QED BY <1>1, <1>2, <1>3, <1>4, PTL DEF GateSpec
============================================================================
