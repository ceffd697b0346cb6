------------------------------ MODULE ShimProofs ------------------------------
(***************************************************************************)
(* Theorems about Shim, for command lines, lists and outputs of any        *)
(* length.  Each of its loops is a fold: it is shown first that the fold   *)
(* of a sequence adds the next element to the fold of the elements before  *)
(* it, and then, for each loop, what holds of every prefix.                *)
(***************************************************************************)
EXTENDS ShimCases, FiniteSetTheorems, SequenceTheorems, TLAPS

------------------------------------------------------------------------------
(* Folds.  A fold is a recursive function on the subsets of a domain; that   *)
(* there is one, and what it is on the prefixes of a sequence, is shown for  *)
(* the folds of Shim at once: o says which.                            *)

\* What Write() makes of a capWriter.
WriteTo(max, w, p) ==
    IF w.overflow THEN w
    ELSE IF Len(p) > max - Len(w.buf)
    THEN [buf |-> w.buf \o SubSeq(p, 1, max - Len(w.buf)), overflow |-> TRUE]
    ELSE [w EXCEPT !.buf = @ \o p]

\* What buildArgv() makes of a command line with its i-th element.
ElementTo(cfg, input, acc, i) == IF acc.err THEN acc ELSE WithElement(cfg, input, acc, i)

\* What Split() makes of the lines so far and of a byte, and Joined of a text and a line.
SplitTo(lines, c) == IF c = "n" THEN Append(lines, <<>>) ELSE [lines EXCEPT ![Len(lines)] = Append(@, c)]
JoinTo(text, l) == text \o <<"n">> \o l

\* What a fold makes of acc and of the next element x.
Step(o, acc, x) ==
    CASE o.of = "writes" -> WriteTo(o.max, acc, x)
      [] o.of = "items" -> WithArgument(o.cfg, acc, o.i, x, TRUE)
      [] o.of = "elements" -> ElementTo(o.cfg, o.input, acc, x)
      [] o.of = "bytes" -> SplitTo(acc, x)
      [] o.of = "lines" -> JoinTo(acc, x)

Body(o, base, q, g, s) == IF s = {} THEN base ELSE Step(o, g[s \ {Max(s)}], q[Max(s)])

\* g is the fold of a sequence of n elements, on any of their indices.
IsFold(o, base, q, n, g) == g = [s \in SUBSET (1..n) |-> Body(o, base, q, g, s)]

\* A set of numbers that is not empty has a least one.
LEMMA LeastIn == ASSUME NEW S, S \subseteq Nat, S # {} PROVE \E i \in S : \A k \in S : i <= k
<1>. DEFINE Less == {ss \in Nat \X Nat : ss[1] < ss[2]}
<1>1. IsWellFoundedOn(Less, Nat)
    BY NatLessThanWellFounded DEF OpToRel
<1>. HIDE DEF Less
<1>2. PICK i \in S : \A k \in S : ~(<<k, i>> \in Less)
    BY <1>1, WFMin
<1>3. ASSUME NEW k \in S PROVE i <= k
    <2>1. k \in Nat /\ i \in Nat
        OBVIOUS
    <2>2. k < i => <<k, i>> \in Less
        BY <2>1 DEF Less
    <2>. QED
        BY <1>2, <2>1, <2>2
<1>. QED
    BY <1>3

LEMMA MaxIs ==
    ASSUME NEW n \in Nat, NEW s, s \subseteq 1..n, s # {}
    PROVE  Max(s) \in s /\ \A i \in s : i <= Max(s)
<1>. DEFINE above == {k \in 0..n : \A i \in s : i <= k}
<1>1. n \in above
    OBVIOUS
<1>2. PICK m \in above : \A k \in above : m <= k
    <2>1. above \subseteq Nat
        OBVIOUS
    <2>. HIDE DEF above
    <2>. QED
        BY <1>1, <2>1, LeastIn
<1>3. m \in s
    <2>1. SUFFICES ASSUME m \notin s PROVE FALSE
        OBVIOUS
    <2>2. m \in Nat /\ m > 0 /\ \A i \in s : i <= m - 1
        <3>1. m \in 0..n /\ \A i \in s : i \in 1..n /\ i <= m
            BY <1>2
        <3>2. \A i \in s : i # m
            BY <2>1
        <3>3. PICK i \in s : TRUE
            OBVIOUS
        <3>4. m \in Nat /\ \A k \in s : k \in Nat /\ k >= 1 /\ k <= m /\ k # m
            BY <3>1, <3>2
        <3>. HIDE DEF above
        <3>. QED
            BY <3>3, <3>4
    <2>3. m - 1 \in above
        BY <2>2
    <2>. QED
        BY <1>2, <2>3
<1>4. \E x \in s : \A y \in s : x >= y
    BY <1>2, <1>3
<1>. QED
    BY <1>4 DEF Max

LEMMA FoldExists ==
    ASSUME NEW o, NEW base, NEW q, NEW n \in Nat, DOMAIN q = 1..n
    PROVE  \E g : IsFold(o, base, q, n, g)
<1>. DEFINE D == SUBSET (1..n)
            Upto(g, m) == /\ g = [s \in D |-> g[s]]
                          /\ \A s \in D : Cardinality(s) <= m => g[s] = Body(o, base, q, g, s)
            bad == {m \in 0..n : ~\E g : Upto(g, m)}
<1>0. \A s \in D : IsFiniteSet(s) /\ Cardinality(s) \in 0..n
    <2>1. IsFiniteSet(1..n) /\ Cardinality(1..n) = n
        BY FS_Interval
    <2>2. ASSUME NEW s \in D
          PROVE  IsFiniteSet(s) /\ Cardinality(s) \in Nat /\ Cardinality(s) <= n
        <3>1. IsFiniteSet(s) /\ Cardinality(s) <= Cardinality(1..n)
            BY <2>1, FS_Subset
        <3>. QED
            BY <2>1, <3>1, FS_CardinalityType
    <2>. QED
        BY <2>2
<1>1. \E g : Upto(g, 0)
    <2>. DEFINE g0 == [s \in D |-> base]
    <2>1. \A s \in D : Cardinality(s) <= 0 => s = {}
        BY <1>0, FS_EmptySet
    <2>2. Upto(g0, 0)
        BY <2>1 DEF Body
    <2>. QED
        BY <2>2
<1>2. ASSUME NEW m \in 0..n, NEW g, Upto(g, m)
      PROVE  \E h : Upto(h, m + 1)
    <2>. DEFINE h == [s \in D |-> Body(o, base, q, g, s)]
    <2>1. ASSUME NEW s \in D, Cardinality(s) <= m + 1
          PROVE  Body(o, base, q, h, s) = Body(o, base, q, g, s)
        <3>1. CASE s = {}
            BY <3>1 DEF Body
        <3>2. CASE s # {}
            <4>1. Max(s) \in s
                BY <3>2, MaxIs
            <4>2. s \ {Max(s)} \in D /\ Cardinality(s \ {Max(s)}) <= m
                BY <1>0, <2>1, <4>1, FS_RemoveElement
            <4>3. h[s \ {Max(s)}] = g[s \ {Max(s)}]
                BY <1>2, <4>2
            <4>. QED
                BY <4>3 DEF Body
        <3>. QED
            BY <3>1, <3>2
    <2>2. Upto(h, m + 1)
        BY <2>1
    <2>. QED
        BY <2>2
<1>. HIDE DEF Upto, D
<1>3. bad = {}
    <2>1. SUFFICES ASSUME bad # {} PROVE FALSE
        OBVIOUS
    <2>2. PICK m \in bad : \A k \in bad : m <= k
        <3>1. bad \subseteq Nat
            OBVIOUS
        <3>. HIDE DEF bad
        <3>. QED
            BY <2>1, <3>1, LeastIn
    <2>3. m # 0
        BY <1>1
    <2>4. m - 1 \in 0..n /\ m - 1 \notin bad
        BY <2>2, <2>3
    <2>5. \E g : Upto(g, m - 1)
        BY <2>4
    <2>6. \E h : Upto(h, (m - 1) + 1)
        BY <1>2, <2>4, <2>5
    <2>. QED
        BY <2>2, <2>6
<1>4. PICK g : Upto(g, n)
    <2>1. n \in 0..n /\ n \notin bad
        BY <1>3
    <2>. QED
        BY <2>1
<1>5. \A s \in D : g[s] = Body(o, base, q, g, s)
    BY <1>0, <1>4 DEF Upto
<1>6. g = [s \in D |-> Body(o, base, q, g, s)]
    BY <1>4, <1>5 DEF Upto
<1>. QED
    BY <1>6 DEF IsFold, D

\* On the prefixes of the sequence the fold takes one element after the other.
LEMMA FoldSteps ==
    ASSUME NEW o, NEW base, NEW q, NEW n \in Nat, DOMAIN q = 1..n,
           NEW g, IsFold(o, base, q, n, g)
    PROVE  /\ g[1..0] = base
           /\ \A k \in 1..n : g[1..k] = Step(o, g[1..(k - 1)], q[k])
<1>0. \A s \in SUBSET (1..n) : g[s] = Body(o, base, q, g, s)
    BY DEF IsFold
<1>1. g[1..0] = base
    <2>1. 1..0 = {} /\ {} \in SUBSET (1..n)
        OBVIOUS
    <2>2. g[{}] = Body(o, base, q, g, {})
        BY <1>0, <2>1
    <2>. QED
        BY <2>1, <2>2 DEF Body
<1>2. ASSUME NEW k \in 1..n
      PROVE  g[1..k] = Step(o, g[1..(k - 1)], q[k])
    <2>1. Max(1..k) = k
        <3>1. 1..k \subseteq 1..n /\ k \in 1..k
            OBVIOUS
        <3>2. Max(1..k) \in 1..k /\ k <= Max(1..k)
            BY <3>1, MaxIs
        <3>. QED
            BY <3>2
    <2>2. (1..k) \ {k} = 1..(k - 1) /\ 1..k # {}
        OBVIOUS
    <2>3. 1..k \in SUBSET (1..n)
        OBVIOUS
    <2>4. g[1..k] = Body(o, base, q, g, 1..k)
        BY <1>0, <2>3
    <2>. QED
        BY <2>1, <2>2, <2>4 DEF Body
<1>. QED
    BY <1>1, <1>2
Empty == [buf |-> <<>>, overflow |-> FALSE]

Written(max, writes, n, g) ==
    /\ g[1..0] = Empty /\ CapWriter(max, writes) = g[1..n]
    /\ \A k \in 1..n : g[1..k] = WriteTo(max, g[1..(k - 1)], writes[k])

LEMMA CapWriterSteps ==
    ASSUME NEW max, NEW writes, NEW n \in Nat, DOMAIN writes = 1..n
    PROVE  \E g : Written(max, writes, n, g)
<1>. DEFINE o == [of |-> "writes", max |-> max]
            Is(g) == g = [s \in SUBSET (1..n) |-> IF s = {} THEN Empty
                                                  ELSE WriteTo(max, g[s \ {Max(s)}], writes[Max(s)])]
            g == CHOOSE h : Is(h)
<1>1. CapWriter(max, writes) = g[1..n]
    BY DEF CapWriter, FoldLeft, MapThenFoldSet, WriteTo, Empty
<1>2. \A w, p : Step(o, w, p) = WriteTo(max, w, p)
    BY DEF Step
<1>. HIDE DEF o
<1>3. ASSUME NEW h
      PROVE  Is(h) <=> IsFold(o, Empty, writes, n, h)
    BY <1>2 DEF Body, IsFold
<1>. HIDE DEF Is
<1>4. Is(g)
    BY <1>3, FoldExists
<1>. HIDE DEF g
<1>5. /\ g[1..0] = Empty
      /\ \A k \in 1..n : g[1..k] = Step(o, g[1..(k - 1)], writes[k])
    BY <1>3, <1>4, FoldSteps
<1>6. Written(max, writes, n, g)
    BY <1>1, <1>2, <1>5 DEF Written
<1>. QED
    BY <1>6

------------------------------------------------------------------------------
(* The cap.                                                                  *)

\* An invariant of the numbers up to n.
LEMMA UpTo ==
    ASSUME NEW n \in Nat, NEW T, 0 \in T, \A k \in 1..n : k - 1 \in T => k \in T
    PROVE  n \in T
<1>. DEFINE bad == {k \in 0..n : k \notin T}
<1>1. SUFFICES ASSUME n \notin T PROVE FALSE
    OBVIOUS
<1>2. bad \subseteq Nat /\ n \in bad
    BY <1>1
<1>3. PICK m \in bad : \A k \in bad : m <= k
    <2>. HIDE DEF bad
    <2>. QED
        BY <1>2, LeastIn
<1>4. m \in 1..n /\ m - 1 \in 0..n
    BY <1>3
<1>5. m - 1 \notin bad
    BY <1>3, <1>4
<1>. QED
    BY <1>3, <1>4, <1>5

LEMMA FlattenSteps ==
    ASSUME NEW P, NEW q \in Seq(Seq(P))
    PROVE  \E h : /\ h[0] = <<>> /\ FlattenSeq(q) = h[Len(q)]
                  /\ \A k \in 1..Len(q) : h[k] = h[k - 1] \o q[k]
                  /\ \A k \in 0..Len(q) : h[k] \in Seq(P)
<1>. DEFINE n == Len(q)
            Flat(f, i) == IF i = 1 THEN q[i] ELSE f[i - 1] \o q[i]
            Is(f) == f = [i \in 1..n |-> Flat(f, i)]
            Upto(f, m) == f = [i \in 1..n |-> f[i]] /\ \A i \in 1..m : f[i] = Flat(f, i)
            T == {m \in 0..n : \E f : Upto(f, m)}
            f == CHOOSE e : Is(e)
<1>0. n \in Nat /\ DOMAIN q = 1..n /\ \A k \in 1..n : q[k] \in Seq(P)
    OBVIOUS
<1>. HIDE DEF n
<1>1. 0 \in T
    <2>. DEFINE e == [i \in 1..n |-> <<>>]
    <2>1. Upto(e, 0)
        OBVIOUS
    <2>. HIDE DEF Upto, e
    <2>. QED
        BY <1>0, <2>1
<1>2. ASSUME NEW m \in 1..n, m - 1 \in T
      PROVE  m \in T
    <2>1. PICK e : Upto(e, m - 1)
        BY <1>2
    <2>. DEFINE e1 == [i \in 1..n |-> IF i = m THEN Flat(e, m) ELSE e[i]]
    <2>2. \A i \in 1..m : e1[i] = Flat(e1, i)
        <3>1. ASSUME NEW i \in 1..(m - 1) PROVE e1[i] = Flat(e1, i)
            <4>1. i \in 1..n /\ i # m /\ e1[i] = e[i]
                BY <1>0
            <4>2. e[i] = Flat(e, i)
                <5>. HIDE DEF Flat
                <5>. QED
                    BY <2>1
            <4>3. i # 1 => e1[i - 1] = e[i - 1]
                BY <1>0
            <4>. QED
                BY <4>1, <4>2, <4>3
        <3>2. e1[m] = Flat(e1, m)
            <4>1. m # 1 => e1[m - 1] = e[m - 1]
                BY <1>0
            <4>. QED
                BY <4>1
        <3>. HIDE DEF Flat, e1
        <3>. QED
            BY <1>0, <3>1, <3>2
    <2>3. Upto(e1, m)
        BY <2>2
    <2>. HIDE DEF Upto, e1
    <2>. QED
        BY <1>0, <2>3
<1>3. n \in T
    <2>. HIDE DEF T
    <2>. QED
        BY <1>0, <1>1, <1>2, UpTo
<1>4. \E e : Is(e)
    <2>1. PICK e : Upto(e, n)
        BY <1>3
    <2>2. Is(e)
        BY <2>1
    <2>. QED
        BY <2>2
<1>5. Is(f)
    <2>. HIDE DEF Is
    <2>. QED
        BY <1>4
<1>6. FlattenSeq(q) = IF n = 0 THEN <<>> ELSE f[n]
    BY <1>0 DEF FlattenSeq, n
<1>. HIDE DEF f
<1>7. \A k \in 1..n : f[k] = IF k = 1 THEN q[1] ELSE f[k - 1] \o q[k]
    BY <1>5
<1>. DEFINE h == [k \in 0..n |-> IF k = 0 THEN <<>> ELSE f[k]]
            U == {k \in 0..n : h[k] \in Seq(P)}
<1>8. h[0] = <<>> /\ FlattenSeq(q) = h[n]
    BY <1>0, <1>6
<1>9. \A k \in 1..n : h[k] = h[k - 1] \o q[k]
    <2>1. h[1] = h[0] \o q[1] \/ n = 0
        BY <1>0, <1>7
    <2>2. ASSUME NEW k \in 2..n PROVE h[k] = h[k - 1] \o q[k]
        <3>1. k \in 1..n /\ k # 1 /\ k - 1 \in 0..n /\ k - 1 # 0
            BY <1>0
        <3>2. h[k] = f[k] /\ h[k - 1] = f[k - 1]
            BY <3>1
        <3>. HIDE DEF h
        <3>. QED
            BY <1>7, <3>1, <3>2
    <2>. HIDE DEF h
    <2>3. ASSUME NEW k \in 1..n, k = 1 PROVE h[k] = h[k - 1] \o q[k]
        <3>1. k - 1 = 0 /\ n # 0
            BY <2>3
        <3>. QED
            BY <2>1, <2>3, <3>1
    <2>4. \A k \in 1..n : k = 1 \/ k \in 2..n
        BY <1>0
    <2>. QED
        BY <2>2, <2>3, <2>4
<1>. HIDE DEF h, f, Flat, Is, Upto, T
<1>10. \A k \in 0..n : h[k] \in Seq(P)
    <2>0. 0 \in U
        <3>1. <<>> \in Seq(P) /\ 0 \in 0..n
            BY <1>0
        <3>. QED
            BY <1>8, <3>1
    <2>1. ASSUME NEW k \in 1..n, k - 1 \in U PROVE k \in U
        <3>1. h[k - 1] \in Seq(P) /\ q[k] \in Seq(P) /\ k \in 0..n
            BY <1>0, <2>1
        <3>2. h[k - 1] \o q[k] \in Seq(P)
            BY <3>1
        <3>3. h[k] \in Seq(P)
            BY <1>9, <3>2
        <3>. QED
            BY <3>1, <3>3
    <2>2. ASSUME NEW k \in 0..n PROVE k \in U
        <3>1. \A j \in 1..k : j - 1 \in U => j \in U
            BY <1>0, <2>1
        <3>. HIDE DEF U
        <3>. QED
            BY <2>0, <3>1, UpTo
    <2>. QED
        BY <2>2
<1>. QED
    BY <1>8, <1>9, <1>10 DEF n

\* What a capWriter has of a text.
Capped(max, a) == IF Len(a) > max THEN [buf |-> SubSeq(a, 1, max), overflow |-> TRUE]
                  ELSE [buf |-> a, overflow |-> FALSE]

LEMMA MoreWritten ==
    ASSUME NEW a, NEW b
    PROVE  [[buf |-> a, overflow |-> FALSE] EXCEPT !.buf = b] = [buf |-> b, overflow |-> FALSE]
<1>. DEFINE w == [buf |-> a, overflow |-> FALSE]
            v == [w EXCEPT !.buf = b]
<1>1. v \in [buf : {b}, overflow : {FALSE}]
    OBVIOUS
<1>2. ASSUME NEW r \in [buf : {b}, overflow : {FALSE}] PROVE r = [buf |-> b, overflow |-> FALSE]
    OBVIOUS
<1>. HIDE DEF v
<1>3. v = [buf |-> b, overflow |-> FALSE]
    BY <1>1, <1>2
<1>. QED
    BY <1>3 DEF v

LEMMA CapIsKept ==
    ASSUME NEW P, NEW max \in Nat, NEW a \in Seq(P), NEW p \in Seq(P)
    PROVE  WriteTo(max, Capped(max, a), p) = Capped(max, a \o p)
<1>. DEFINE w == Capped(max, a)
<1>1. a \o p \in Seq(P) /\ Len(a \o p) = Len(a) + Len(p)
    OBVIOUS
<1>2. CASE Len(a) > max
    <2>1. SubSeq(a \o p, 1, max) = SubSeq(a, 1, max)
        BY <1>2
    <2>2. w = [buf |-> SubSeq(a, 1, max), overflow |-> TRUE]
        BY <1>2 DEF Capped
    <2>3. Capped(max, a \o p) = [buf |-> SubSeq(a, 1, max), overflow |-> TRUE]
        <3>1. Len(a \o p) > max
            BY <1>1, <1>2
        <3>. QED
            BY <2>1, <3>1 DEF Capped
    <2>. HIDE DEF w
    <2>4. WriteTo(max, w, p) = w
        BY <2>2 DEF WriteTo
    <2>. QED
        BY <2>2, <2>3, <2>4 DEF w
<1>3. CASE Len(a) <= max /\ Len(a) + Len(p) > max
    <2>1. SubSeq(a \o p, 1, max) = a \o SubSeq(p, 1, max - Len(a))
        BY <1>3
    <2>2. w = [buf |-> a, overflow |-> FALSE]
        BY <1>3 DEF Capped
    <2>3. Capped(max, a \o p) = [buf |-> a \o SubSeq(p, 1, max - Len(a)), overflow |-> TRUE]
        BY <1>1, <1>3, <2>1 DEF Capped
    <2>. HIDE DEF w
    <2>4. WriteTo(max, w, p) = [buf |-> a \o SubSeq(p, 1, max - Len(a)), overflow |-> TRUE]
        <3>1. Len(p) > max - Len(a)
            BY <1>3
        <3>. QED
            BY <2>2, <3>1 DEF WriteTo
    <2>. QED
        BY <2>3, <2>4 DEF w
<1>4. CASE Len(a) + Len(p) <= max
    <2>1. w = [buf |-> a, overflow |-> FALSE]
        BY <1>4 DEF Capped
    <2>2. Capped(max, a \o p) = [buf |-> a \o p, overflow |-> FALSE]
        BY <1>1, <1>4 DEF Capped
    <2>. HIDE DEF w
    <2>3. WriteTo(max, w, p) = [w EXCEPT !.buf = a \o p]
        <3>1. ~(Len(p) > max - Len(a))
            BY <1>4
        <3>. QED
            BY <2>1, <3>1 DEF WriteTo
    <2>4. [w EXCEPT !.buf = a \o p] = [buf |-> a \o p, overflow |-> FALSE]
        BY <2>1, MoreWritten
    <2>. QED
        BY <2>2, <2>3, <2>4 DEF w
<1>. QED
    BY <1>2, <1>3, <1>4

LEMMA CapIsExact ==
    ASSUME NEW P, NEW max \in Nat, NEW writes \in Seq(Seq(P))
    PROVE  CapExact(max, writes)
<1>. DEFINE n == Len(writes)
<1>0. n \in Nat /\ DOMAIN writes = 1..n /\ \A k \in 1..n : writes[k] \in Seq(P)
    OBVIOUS
<1>. HIDE DEF n
<1>1. PICK g : Written(max, writes, n, g)
    BY <1>0, CapWriterSteps
<1>2. PICK h : /\ h[0] = <<>> /\ FlattenSeq(writes) = h[n]
               /\ \A k \in 1..n : h[k] = h[k - 1] \o writes[k]
               /\ \A k \in 0..n : h[k] \in Seq(P)
    BY FlattenSteps DEF n
<1>. DEFINE T == {k \in 0..n : g[1..k] = Capped(max, h[k])}
<1>3. 0 \in T
    <2>1. h[0] = <<>> /\ g[1..0] = Empty
        BY <1>1, <1>2 DEF Written
    <2>2. Capped(max, <<>>) = Empty
        BY DEF Capped, Empty
    <2>. QED
        BY <1>0, <2>1, <2>2
<1>4. ASSUME NEW k \in 1..n, k - 1 \in T PROVE k \in T
    <2>1. k - 1 \in 0..n /\ h[k - 1] \in Seq(P) /\ writes[k] \in Seq(P)
        BY <1>0, <1>2
    <2>2. WriteTo(max, Capped(max, h[k - 1]), writes[k]) = Capped(max, h[k - 1] \o writes[k])
        BY <2>1, CapIsKept
    <2>3. g[1..k] = WriteTo(max, g[1..(k - 1)], writes[k]) /\ g[1..(k - 1)] = Capped(max, h[k - 1])
        BY <1>1, <1>4 DEF Written
    <2>4. g[1..k] = Capped(max, h[k])
        BY <1>2, <2>2, <2>3
    <2>. QED
        BY <1>0, <2>4
<1>5. n \in T
    <2>. HIDE DEF T
    <2>. QED
        BY <1>0, <1>3, <1>4, UpTo
<1>6. CapWriter(max, writes) = Capped(max, FlattenSeq(writes))
    BY <1>1, <1>2, <1>5 DEF Written
<1>7. FlattenSeq(writes) \in Seq(P)
    BY <1>0, <1>2
<1>. QED
    BY <1>6, <1>7 DEF CapExact, Capped
------------------------------------------------------------------------------
(* The command line.                                                         *)

Start == [argv |-> <<>>, afterDoubleDash |-> FALSE, err |-> FALSE]

Built(cfg, input, n, g) ==
    /\ g[1..0] = Start /\ BuildArgv(cfg, input) = g[1..n]
    /\ \A k \in 1..n : g[1..k] = ElementTo(cfg, input, g[1..(k - 1)], k)

LEMMA BuildArgvSteps ==
    ASSUME NEW cfg, NEW input, NEW n \in Nat, DOMAIN cfg.exec = 1..n
    PROVE  \E g : Built(cfg, input, n, g)
<1>. DEFINE o == [of |-> "elements", cfg |-> cfg, input |-> input]
            q == [i \in DOMAIN cfg.exec |-> i]
            Is(g) == g = [s \in SUBSET (1..n) |-> IF s = {} THEN Start
                                                  ELSE ElementTo(cfg, input, g[s \ {Max(s)}], q[Max(s)])]
            g == CHOOSE h : Is(h)
<1>0. DOMAIN q = 1..n /\ \A k \in 1..n : q[k] = k
    OBVIOUS
<1>1. BuildArgv(cfg, input) = g[1..n]
    BY DEF BuildArgv, FoldLeft, MapThenFoldSet, ElementTo, Start
<1>2. \A a, i : Step(o, a, i) = ElementTo(cfg, input, a, i)
    BY DEF Step
<1>. HIDE DEF o, q
<1>3. ASSUME NEW h
      PROVE  Is(h) <=> IsFold(o, Start, q, n, h)
    BY <1>2 DEF Body, IsFold
<1>. HIDE DEF Is
<1>4. Is(g)
    BY <1>0, <1>3, FoldExists
<1>. HIDE DEF g
<1>5. /\ g[1..0] = Start
      /\ \A k \in 1..n : g[1..k] = Step(o, g[1..(k - 1)], q[k])
    BY <1>0, <1>3, <1>4, FoldSteps
<1>6. Built(cfg, input, n, g)
    BY <1>0, <1>1, <1>2, <1>5 DEF Built
<1>. QED
    BY <1>6

Spread(cfg, acc, i, items, n, g) ==
    /\ g[1..0] = acc /\ WithItems(cfg, acc, i, items) = g[1..n]
    /\ \A k \in 1..n : g[1..k] = WithArgument(cfg, g[1..(k - 1)], i, items[k], TRUE)

LEMMA WithItemsSteps ==
    ASSUME NEW cfg, NEW acc, NEW i, NEW items, NEW n \in Nat, DOMAIN items = 1..n
    PROVE  \E g : Spread(cfg, acc, i, items, n, g)
<1>. DEFINE o == [of |-> "items", cfg |-> cfg, i |-> i]
            Is(g) == g = [s \in SUBSET (1..n) |-> IF s = {} THEN acc
                                                  ELSE WithArgument(cfg, g[s \ {Max(s)}], i, items[Max(s)], TRUE)]
            g == CHOOSE h : Is(h)
<1>1. WithItems(cfg, acc, i, items) = g[1..n]
    BY DEF WithItems, FoldLeft, MapThenFoldSet
<1>2. \A a, t : Step(o, a, t) = WithArgument(cfg, a, i, t, TRUE)
    BY DEF Step
<1>. HIDE DEF o
<1>3. ASSUME NEW h
      PROVE  Is(h) <=> IsFold(o, acc, items, n, h)
    BY <1>2 DEF Body, IsFold
<1>. HIDE DEF Is
<1>4. Is(g)
    BY <1>3, FoldExists
<1>. HIDE DEF g
<1>5. /\ g[1..0] = acc
      /\ \A k \in 1..n : g[1..k] = Step(o, g[1..(k - 1)], items[k])
    BY <1>3, <1>4, FoldSteps
<1>6. Spread(cfg, acc, i, items, n, g)
    BY <1>1, <1>2, <1>5 DEF Spread
<1>. QED
    BY <1>6

------------------------------------------------------------------------------
(* What the command line depends on.                                         *)

\* What a reference is found to refer to, or is not.
LEMMA ReferenceIsCovered ==
    ASSUME NEW cfg, ~ReadsWhole(cfg), NEW e, NEW r \in Refs(e), r \in RefType, r # NoRef,
           ~IsSpread(e), Refs(e) \subseteq References(cfg)
    PROVE  r.how # "whole" /\ r.f \in ReferencedFields(e) \union Missed(cfg)
<1>1. r \in References(cfg)
    OBVIOUS
<1>2. r.how # "whole"
    BY <1>1 DEF ReadsWhole
<1>3. r.how # "none"
    BY DEF RefType, NoRef
<1>4. r.how \in {"field", "nested"} => r.f \in ReferencedFields(e)
    BY DEF ReferencedFields, FoundIn
<1>5. r.how \in {"variable", "other"} => r.f \in Missed(cfg)
    BY <1>1 DEF Missed
<1>6. r.how \in {"field", "variable", "nested", "other", "none", "whole"}
    BY DEF RefType
<1>. QED
    BY <1>2, <1>3, <1>4, <1>5, <1>6

LEMMA SameElement ==
    ASSUME NEW cfg, cfg.exec \in Seq(ElementType), ~ReadsWhole(cfg),
           NEW declared, declared # {}, ValidateTemplates(cfg, declared), NEW input, NEW other,
           Agree(input, other, declared \union Missed(cfg)),
           NEW acc, NEW i \in DOMAIN cfg.exec
    PROVE  WithElement(cfg, input, acc, i) = WithElement(cfg, other, acc, i)
<1>. DEFINE e == cfg.exec[i]
<1>1. e \in ElementType /\ ReferencedFields(e) \subseteq declared /\ Refs(e) \subseteq References(cfg)
    BY DEF ValidateTemplates, References
<1>. HIDE DEF e
<1>2. CASE IsSpread(e)
    <2>1. e.spread \in declared
        BY <1>1, <1>2 DEF ReferencedFields
    <2>. QED
        BY <1>2, <2>1 DEF WithElement, Agree, e
<1>3. CASE ~IsSpread(e)
    <2>1. Refs(e) = {e.if, e.data} /\ e.if \in RefType /\ e.data \in RefType
        BY <1>1, <1>3 DEF Refs, ElementType, IsSpread
    <2>2. ASSUME NEW r \in Refs(e), r # NoRef
          PROVE  Truth(input, r) = Truth(other, r) /\ Printed(input, r) = Printed(other, r)
        <3>1. r.how # "whole" /\ r.f \in ReferencedFields(e) \union Missed(cfg)
            BY <1>1, <1>3, <2>1, <2>2, ReferenceIsCovered
        <3>2. r.f \in declared \union Missed(cfg)
            BY <1>1, <3>1
        <3>3. (r.f \in DOMAIN input <=> r.f \in DOMAIN other) /\ (r.f \in DOMAIN input => input[r.f] = other[r.f])
            BY <3>2 DEF Agree
        <3>. QED
            BY <3>1, <3>3 DEF Truth, Printed
    <2>3. RenderTemplate(e, input) = RenderTemplate(e, other)
        BY <2>1, <2>2 DEF RenderTemplate
    <2>. QED
        BY <1>3, <2>3 DEF WithElement, e
<1>. QED
    BY <1>2, <1>3

LEMMA DeclaredIsRead ==
    ASSUME NEW cfg, cfg.exec \in Seq(ElementType), NEW declared, NEW input, NEW other
    PROVE  ReadsDeclared(cfg, declared, input, other)
<1>. SUFFICES ASSUME declared # {}, ValidateTemplates(cfg, declared), ~ReadsWhole(cfg),
                     Agree(input, other, declared \union Missed(cfg))
              PROVE  BuildArgv(cfg, input) = BuildArgv(cfg, other)
    BY DEF ReadsDeclared
<1>1. PICK n \in Nat : DOMAIN cfg.exec = 1..n
    OBVIOUS
<1>2. \A acc : \A k \in 1..n : ElementTo(cfg, input, acc, k) = ElementTo(cfg, other, acc, k)
    BY <1>1, SameElement DEF ElementTo
<1>3. PICK g : Built(cfg, input, n, g)
    BY <1>1, BuildArgvSteps
<1>4. PICK h : Built(cfg, other, n, h)
    BY <1>1, BuildArgvSteps
<1>. DEFINE T == {k \in 0..n : g[1..k] = h[1..k]}
<1>5. 0 \in T
    BY <1>3, <1>4 DEF Built
<1>6. ASSUME NEW k \in 1..n, k - 1 \in T PROVE k \in T
    <2>1. g[1..k] = ElementTo(cfg, input, g[1..(k - 1)], k)
        BY <1>3 DEF Built
    <2>2. h[1..k] = ElementTo(cfg, other, h[1..(k - 1)], k)
        BY <1>4 DEF Built
    <2>. QED
        BY <1>2, <1>6, <2>1, <2>2
<1>7. n \in T
    <2>. HIDE DEF T
    <2>. QED
        BY <1>5, <1>6, UpTo
<1>. QED
    BY <1>3, <1>4, <1>7 DEF Built
------------------------------------------------------------------------------
(* Flags.                                                                    *)

\* What this element makes is not checked: the author wrote the whole of it, or the walk
\* that looks for the input in it finds none.
Unguarded(e) == ~IsSpread(e) /\ (e.data = NoRef \/ e.data.how \in {"nested", "other", "whole"})

Argument(cfg) == [text : Seq(Chars), from : DOMAIN cfg.exec]

\* A "--" at k that ends the flags.
Ends(cfg, argv, k) == Unguarded(cfg.exec[argv[k].from]) /\ argv[k].text = DoubleDash

\* A command line so far, in which every flag is unguarded or behind a "--" that is.
Clean(cfg, acc) ==
    /\ acc \in [argv : Seq(Argument(cfg)), afterDoubleDash : BOOLEAN, err : BOOLEAN]
    /\ acc.afterDoubleDash => \E k \in 1..Len(acc.argv) : Ends(cfg, acc.argv, k)
    /\ \A i \in 1..Len(acc.argv) :
          Dashes(acc.argv[i].text) => \/ Unguarded(cfg.exec[acc.argv[i].from])
                                      \/ \E k \in 1..(i - 1) : Ends(cfg, acc.argv, k)

LEMMA ArgumentIsClean ==
    ASSUME NEW cfg, ~cfg.allow, NEW acc, Clean(cfg, acc), NEW i \in DOMAIN cfg.exec,
           NEW text \in Seq(Chars), NEW derived \in BOOLEAN, derived <=> ~Unguarded(cfg.exec[i])
    PROVE  Clean(cfg, WithArgument(cfg, acc, i, text, derived))
<1>. DEFINE refused == acc.err \/ (derived /\ ~acc.afterDoubleDash /\ ~CheckFlagValue(cfg, text))
            a == [text |-> text, from |-> i]
            argv == Append(acc.argv, a)
            after == acc.afterDoubleDash \/ (~derived /\ text = DoubleDash)
            new == WithArgument(cfg, acc, i, text, derived)
<1>0. acc \in [argv : Seq(Argument(cfg)), afterDoubleDash : BOOLEAN, err : BOOLEAN]
    BY DEF Clean
<1>1. CASE refused
    <2>1. new = [acc EXCEPT !.err = TRUE]
        BY <1>1 DEF WithArgument
    <2>2. /\ new \in [argv : Seq(Argument(cfg)), afterDoubleDash : BOOLEAN, err : BOOLEAN]
          /\ new.argv = acc.argv /\ new.afterDoubleDash = acc.afterDoubleDash
        BY <1>0, <2>1
    <2>. HIDE DEF new
    <2>3. Clean(cfg, new)
        BY <2>2 DEF Clean
    <2>. QED
        BY <2>3 DEF new
<1>2. CASE ~refused
    <2>1. new = [acc EXCEPT !.argv = argv, !.afterDoubleDash = after]
        BY <1>2 DEF WithArgument
    <2>2. a \in Argument(cfg) /\ argv \in Seq(Argument(cfg)) /\ after \in BOOLEAN
        BY <1>0 DEF Argument
    <2>. HIDE DEF after, argv
    <2>3. /\ new \in [argv : Seq(Argument(cfg)), afterDoubleDash : BOOLEAN, err : BOOLEAN]
          /\ new.argv = argv /\ new.afterDoubleDash = after
        BY <1>0, <2>1, <2>2
    <2>. HIDE DEF new, a, refused
    <2>4. /\ Len(acc.argv) \in Nat /\ Len(argv) = Len(acc.argv) + 1
          /\ \A k \in 1..Len(acc.argv) : argv[k] = acc.argv[k]
          /\ argv[Len(acc.argv) + 1] = a
        BY <1>0, <2>2 DEF argv
    <2>5. a.text = text /\ a.from = i
        BY DEF a
    <2>. DEFINE n == Len(acc.argv)
    <2>6. \A k \in 1..n : Ends(cfg, acc.argv, k) => Ends(cfg, argv, k)
        BY <2>4 DEF Ends
    <2>7. ASSUME after PROVE \E k \in 1..Len(argv) : Ends(cfg, argv, k)
        <3>1. CASE acc.afterDoubleDash
            <4>1. PICK k \in 1..n : Ends(cfg, acc.argv, k)
                BY <3>1 DEF Clean
            <4>. QED
                BY <2>4, <2>6, <4>1
        <3>2. CASE ~derived /\ text = DoubleDash
            <4>1. n + 1 \in 1..Len(argv)
                BY <2>4
            <4>2. Ends(cfg, argv, n + 1)
                BY <2>4, <2>5, <3>2 DEF Ends
            <4>. QED
                BY <4>1, <4>2
        <3>. QED
            BY <2>7, <3>1, <3>2 DEF after
    <2>8. ASSUME NEW j \in 1..Len(argv), Dashes(argv[j].text)
          PROVE  \/ Unguarded(cfg.exec[argv[j].from])
                 \/ \E k \in 1..(j - 1) : Ends(cfg, argv, k)
        <3>1. CASE j \in 1..n
            <4>1. \/ Unguarded(cfg.exec[acc.argv[j].from])
                  \/ \E k \in 1..(j - 1) : Ends(cfg, acc.argv, k)
                BY <2>4, <2>8, <3>1 DEF Clean
            <4>2. \A k \in 1..(j - 1) : k \in 1..n
                BY <2>4, <3>1
            <4>. QED
                BY <2>4, <2>6, <3>1, <4>1, <4>2
        <3>2. CASE j = n + 1
            <4>1. argv[j].text = text /\ argv[j].from = i
                BY <2>4, <2>5, <3>2
            <4>2. CASE ~derived
                BY <4>1, <4>2
            <4>3. CASE acc.afterDoubleDash
                <5>1. PICK k \in 1..n : Ends(cfg, acc.argv, k)
                    BY <4>3 DEF Clean
                <5>2. k \in 1..(j - 1)
                    BY <2>4, <3>2
                <5>. QED
                    BY <2>6, <5>1, <5>2
            <4>4. CASE CheckFlagValue(cfg, text)
                BY <2>8, <4>1, <4>4 DEF CheckFlagValue, Dashes
            <4>. QED
                BY <1>2, <4>2, <4>3, <4>4 DEF refused
        <3>. QED
            BY <2>4, <3>1, <3>2
    <2>9. Clean(cfg, new)
        BY <2>3, <2>7, <2>8 DEF Clean
    <2>. QED
        BY <2>9 DEF new
<1>. QED
    BY <1>1, <1>2

LEMMA ItemsAreClean ==
    ASSUME NEW cfg, ~cfg.allow, NEW acc, Clean(cfg, acc), NEW i \in DOMAIN cfg.exec,
           IsSpread(cfg.exec[i]), NEW items \in Seq(Seq(Chars))
    PROVE  Clean(cfg, WithItems(cfg, acc, i, items))
<1>. DEFINE n == Len(items)
<1>0. n \in Nat /\ DOMAIN items = 1..n /\ \A k \in 1..n : items[k] \in Seq(Chars)
    OBVIOUS
<1>. HIDE DEF n
<1>1. PICK g : Spread(cfg, acc, i, items, n, g)
    BY <1>0, WithItemsSteps
<1>. DEFINE T == {k \in 0..n : Clean(cfg, g[1..k])}
<1>2. 0 \in T
    BY <1>0, <1>1 DEF Spread
<1>3. ASSUME NEW k \in 1..n, k - 1 \in T PROVE k \in T
    <2>1. g[1..k] = WithArgument(cfg, g[1..(k - 1)], i, items[k], TRUE)
        BY <1>1 DEF Spread
    <2>2. Clean(cfg, g[1..k])
        BY <1>0, <1>3, <2>1, ArgumentIsClean DEF Unguarded
    <2>. QED
        BY <1>0, <2>2
<1>4. n \in T
    <2>. HIDE DEF T
    <2>. QED
        BY <1>0, <1>2, <1>3, UpTo
<1>. QED
    BY <1>1, <1>4 DEF Spread

\* What a template prints for a field that is not there, for a list and for the whole input.
LEMMA NotesAreText ==
    /\ <<"<no value>">> \in Seq(Chars) /\ <<"[...]">> \in Seq(Chars)
    /\ <<"map[]">> \in Seq(Chars) /\ <<"map[...]">> \in Seq(Chars)
<1>1. \A S : \A x \in S : <<x>> \in Seq(S)
    OBVIOUS
<1>2. "<no value>" \in Chars /\ "[...]" \in Chars /\ "map[]" \in Chars /\ "map[...]" \in Chars
    BY ShimAssumption
<1>. QED
    BY <1>1, <1>2

LEMMA PrintedIsText ==
    ASSUME NEW input, \A f \in DOMAIN input : input[f] \in ValueType, NEW r
    PROVE  Printed(input, r) \in Seq(Chars)
<1>1. CASE r.how = "whole"
    <2>1. Printed(input, r) \in {<<"map[]">>, <<"map[...]">>}
        BY <1>1 DEF Printed
    <2>. QED
        BY <2>1, NotesAreText
<1>2. CASE r.how # "whole" /\ r.f \notin DOMAIN input
    <2>1. Printed(input, r) = <<"<no value>">>
        BY <1>2 DEF Printed
    <2>. QED
        BY <2>1, NotesAreText
<1>3. CASE r.how # "whole" /\ r.f \in DOMAIN input
    <2>1. Printed(input, r) \in {<<"[...]">>, input[r.f].text}
        BY <1>3 DEF Printed
    <2>2. input[r.f].text \in Seq(Chars)
        BY <1>3 DEF ValueType
    <2>. QED
        BY <2>1, <2>2, NotesAreText
<1>. QED
    BY <1>1, <1>2, <1>3

LEMMA ElementIsClean ==
    ASSUME NEW cfg, ~cfg.allow, cfg.exec \in Seq(ElementType), NEW acc, Clean(cfg, acc),
           NEW i \in DOMAIN cfg.exec, NEW input, \A f \in DOMAIN input : input[f] \in ValueType
    PROVE  Clean(cfg, ElementTo(cfg, input, acc, i))
<1>. DEFINE e == cfg.exec[i]
            text == RenderTemplate(e, input)
<1>1. e \in ElementType
    OBVIOUS
<1>2. CASE acc.err
    BY <1>2 DEF ElementTo
<1>3. CASE ~acc.err /\ IsSpread(e)
    <2>1. CASE e.spread \notin DOMAIN input
        BY <1>3, <2>1 DEF ElementTo, WithElement
    <2>2. CASE e.spread \in DOMAIN input /\ ~input[e.spread].list
        <3>. DEFINE new == [acc EXCEPT !.err = TRUE]
        <3>1. ElementTo(cfg, input, acc, i) = new
            BY <1>3, <2>2 DEF ElementTo, WithElement
        <3>2. /\ new \in [argv : Seq(Argument(cfg)), afterDoubleDash : BOOLEAN, err : BOOLEAN]
              /\ new.argv = acc.argv /\ new.afterDoubleDash = acc.afterDoubleDash
            BY DEF Clean
        <3>. HIDE DEF new
        <3>3. Clean(cfg, new)
            BY <3>2 DEF Clean
        <3>. QED
            BY <3>1, <3>3
    <2>3. CASE e.spread \in DOMAIN input /\ input[e.spread].list
        <3>1. ElementTo(cfg, input, acc, i) = WithItems(cfg, acc, i, input[e.spread].items)
            BY <1>3, <2>3 DEF ElementTo, WithElement
        <3>2. input[e.spread].items \in Seq(Seq(Chars))
            BY <2>3 DEF ValueType
        <3>. QED
            BY <1>3, <3>1, <3>2, ItemsAreClean
    <2>. QED
        BY <2>1, <2>2, <2>3
<1>4. CASE ~acc.err /\ ~IsSpread(e)
    <2>1. e.text \in Seq(Chars)
        BY <1>1, <1>4 DEF ElementType, IsSpread
    <2>2. Printed(input, e.data) \in Seq(Chars)
        BY PrintedIsText
    <2>3. text \in Seq(Chars)
        <3>. DEFINE printed == Printed(input, e.data)
        <3>1. text \in {<<>>, e.text \o <<>>, e.text \o printed}
            BY DEF RenderTemplate
        <3>2. printed \in Seq(Chars)
            BY <2>2
        <3>. HIDE DEF printed, text, e
        <3>3. /\ <<>> \in Seq(Chars)
              /\ e.text \o <<>> \in Seq(Chars)
              /\ e.text \o printed \in Seq(Chars)
            BY <2>1, <3>2
        <3>. QED
            BY <3>1, <3>3
    <2>4. ElementTo(cfg, input, acc, i)
          = IF text = <<>> THEN acc ELSE WithArgument(cfg, acc, i, text, InterpolatesInputData(e))
        BY <1>4 DEF ElementTo, WithElement
    <2>5. InterpolatesInputData(e) \in BOOLEAN /\ (InterpolatesInputData(e) <=> ~Unguarded(e))
        <3>1. e.data \in RefType
            BY <1>1, <1>4 DEF ElementType, IsSpread
        <3>. QED
            BY <1>4, <3>1 DEF InterpolatesInputData, Unguarded, RefType, NoRef
    <2>. HIDE DEF text
    <2>6. Clean(cfg, WithArgument(cfg, acc, i, text, InterpolatesInputData(e)))
        BY <2>3, <2>5, ArgumentIsClean
    <2>. QED
        BY <2>4, <2>6
<1>. QED
    BY <1>2, <1>3, <1>4

LEMMA FlagsAreClean ==
    ASSUME NEW cfg, cfg.exec \in Seq(ElementType),
           NEW input, \A f \in DOMAIN input : input[f] \in ValueType
    PROVE  FlagsAreTheAuthors(cfg, input)
<1>. DEFINE r == BuildArgv(cfg, input)
<1>. SUFFICES ASSUME ~cfg.allow
              PROVE  \A i \in DOMAIN r.argv :
                        Dashes(r.argv[i].text) => \/ Unguarded(cfg.exec[r.argv[i].from])
                                                  \/ \E k \in 1..(i - 1) : Ends(cfg, r.argv, k)
    <2>1. \A i : (Authors(cfg, r.argv, i) \/ Overlooked(cfg, r.argv, i)) <=> Unguarded(cfg.exec[r.argv[i].from])
        BY DEF Authors, Overlooked, Unguarded
    <2>. QED
        BY <2>1 DEF FlagsAreTheAuthors, Ends
<1>1. PICK n \in Nat : DOMAIN cfg.exec = 1..n
    OBVIOUS
<1>2. PICK g : Built(cfg, input, n, g)
    BY <1>1, BuildArgvSteps
<1>. DEFINE T == {k \in 0..n : Clean(cfg, g[1..k])}
<1>3. 0 \in T
    <2>1. Clean(cfg, Start)
        BY DEF Clean, Start
    <2>. QED
        BY <1>2, <2>1 DEF Built
<1>4. ASSUME NEW k \in 1..n, k - 1 \in T PROVE k \in T
    <2>1. g[1..k] = ElementTo(cfg, input, g[1..(k - 1)], k)
        BY <1>2 DEF Built
    <2>2. Clean(cfg, g[1..k])
        BY <1>1, <1>4, <2>1, ElementIsClean
    <2>. QED
        BY <2>2
<1>5. n \in T
    <2>. HIDE DEF T
    <2>. QED
        BY <1>3, <1>4, UpTo
<1>6. Clean(cfg, r)
    BY <1>2, <1>5 DEF Built
<1>. HIDE DEF r
<1>7. DOMAIN r.argv = 1..Len(r.argv)
    BY <1>6 DEF Clean
<1>. QED
    BY <1>6, <1>7 DEF Clean

------------------------------------------------------------------------------
(* The lines of a text.                                                      *)

Splits(s, n, g) ==
    /\ g[1..0] = << <<>> >> /\ Split(s) = g[1..n]
    /\ \A k \in 1..n : g[1..k] = SplitTo(g[1..(k - 1)], s[k])

LEMMA SplitSteps ==
    ASSUME NEW s, NEW n \in Nat, DOMAIN s = 1..n
    PROVE  \E g : Splits(s, n, g)
<1>. DEFINE o == [of |-> "bytes"]
            Is(g) == g = [t \in SUBSET (1..n) |-> IF t = {} THEN << <<>> >>
                                                  ELSE SplitTo(g[t \ {Max(t)}], s[Max(t)])]
            g == CHOOSE h : Is(h)
<1>1. Split(s) = g[1..n]
    BY DEF Split, FoldLeft, MapThenFoldSet, SplitTo
<1>2. \A a, c : Step(o, a, c) = SplitTo(a, c)
    BY DEF Step
<1>. HIDE DEF o
<1>3. ASSUME NEW h
      PROVE  Is(h) <=> IsFold(o, << <<>> >>, s, n, h)
    BY <1>2 DEF Body, IsFold
<1>. HIDE DEF Is
<1>4. Is(g)
    BY <1>3, FoldExists
<1>. HIDE DEF g
<1>5. IsFold(o, << <<>> >>, s, n, g)
    BY <1>3, <1>4
<1>6. /\ g[1..0] = << <<>> >>
      /\ \A k \in 1..n : g[1..k] = Step(o, g[1..(k - 1)], s[k])
    BY <1>5, FoldSteps
<1>7. Splits(s, n, g)
    BY <1>1, <1>2, <1>6 DEF Splits
<1>. QED
    BY <1>7

Joins(lines, n, g) ==
    /\ g[1..0] = Head(lines) /\ Joined(lines) = g[1..n]
    /\ \A k \in 1..n : g[1..k] = JoinTo(g[1..(k - 1)], Tail(lines)[k])

LEMMA JoinSteps ==
    ASSUME NEW lines, lines # <<>>, NEW n \in Nat, DOMAIN Tail(lines) = 1..n
    PROVE  \E g : Joins(lines, n, g)
<1>. DEFINE o == [of |-> "lines"]
            base == Head(lines)
            q == Tail(lines)
            Is(g) == g = [t \in SUBSET (1..n) |-> IF t = {} THEN base
                                                  ELSE JoinTo(g[t \ {Max(t)}], q[Max(t)])]
            g == CHOOSE h : Is(h)
<1>0. DOMAIN q = 1..n
    OBVIOUS
<1>. HIDE DEF q, base
<1>1. Joined(lines) = g[1..n]
    BY <1>0 DEF Joined, FoldLeft, MapThenFoldSet, JoinTo, q, base
<1>2. \A a, l : Step(o, a, l) = JoinTo(a, l)
    BY DEF Step
<1>. HIDE DEF o
<1>3. ASSUME NEW h
      PROVE  Is(h) <=> IsFold(o, base, q, n, h)
    BY <1>2 DEF Body, IsFold
<1>. HIDE DEF Is
<1>4. Is(g)
    BY <1>0, <1>3, FoldExists
<1>. HIDE DEF g
<1>5. IsFold(o, base, q, n, g)
    BY <1>3, <1>4
<1>6. /\ g[1..0] = base
      /\ \A k \in 1..n : g[1..k] = Step(o, g[1..(k - 1)], q[k])
    BY <1>0, <1>5, FoldSteps
<1>7. Joins(lines, n, g)
    BY <1>1, <1>2, <1>6 DEF Joins, q, base
<1>. QED
    BY <1>7

LEMMA JoinedOne == ASSUME NEW l PROVE Joined(<<l>>) = l
<1>1. <<l>> # <<>> /\ DOMAIN Tail(<<l>>) = 1..0 /\ Head(<<l>>) = l
    OBVIOUS
<1>2. PICK g : Joins(<<l>>, 0, g)
    BY <1>1, JoinSteps
<1>. QED
    BY <1>1, <1>2 DEF Joins

\* One more line goes to the end of the text.
LEMMA JoinedMore ==
    ASSUME NEW P, NEW ls \in Seq(P), ls # <<>>, NEW l \in P
    PROVE  Joined(Append(ls, l)) = JoinTo(Joined(ls), l)
<1>. DEFINE n == Len(ls) - 1
            more == Append(ls, l)
            q == Tail(ls)
            r == Tail(more)
<1>1. n \in Nat /\ more # <<>> /\ Head(more) = Head(ls)
    OBVIOUS
<1>2. DOMAIN q = 1..n /\ DOMAIN r = 1..(n + 1)
    OBVIOUS
<1>3. r[n + 1] = l /\ \A k \in 1..n : r[k] = q[k]
    OBVIOUS
<1>. HIDE DEF n, more
<1>4. PICK g : Joins(ls, n, g)
    BY <1>1, <1>2, JoinSteps
<1>5. PICK h : Joins(more, n + 1, h)
    BY <1>1, <1>2, JoinSteps
<1>. HIDE DEF q, r
<1>. DEFINE T == {k \in 0..n : g[1..k] = h[1..k]}
<1>6. 0 \in T
    BY <1>1, <1>4, <1>5 DEF Joins
<1>7. ASSUME NEW k \in 1..n, k - 1 \in T PROVE k \in T
    <2>1. g[1..k] = JoinTo(g[1..(k - 1)], q[k])
        BY <1>4 DEF Joins, q
    <2>2. h[1..k] = JoinTo(h[1..(k - 1)], r[k])
        <3>1. k \in 1..(n + 1)
            BY <1>1
        <3>. QED
            BY <1>5, <3>1 DEF Joins, r
    <2>. QED
        BY <1>3, <1>7, <2>1, <2>2
<1>8. n \in T
    <2>. HIDE DEF T
    <2>. QED
        BY <1>1, <1>6, <1>7, UpTo
<1>9. h[1..(n + 1)] = JoinTo(h[1..((n + 1) - 1)], r[n + 1])
    <2>1. n + 1 \in 1..(n + 1)
        BY <1>1
    <2>. QED
        BY <1>5, <2>1 DEF Joins, r
<1>10. (n + 1) - 1 = n
    BY <1>1
<1>. QED
    BY <1>3, <1>4, <1>5, <1>8, <1>9, <1>10 DEF Joins, more

LEMMA JoinedIn ==
    ASSUME NEW P, NEW ls \in Seq(Seq(P)), ls # <<>>
    PROVE  Joined(ls) \in Seq(P \union {"n"})
<1>. DEFINE n == Len(ls) - 1
            q == Tail(ls)
            Q == P \union {"n"}
<1>1. n \in Nat /\ DOMAIN q = 1..n /\ Head(ls) \in Seq(Q) /\ \A k \in 1..n : q[k] \in Seq(Q)
    <2>1. \A l \in Seq(P) : l \in Seq(Q)
        OBVIOUS
    <2>. HIDE DEF Q
    <2>2. Head(ls) \in Seq(P) /\ \A k \in 1..n : q[k] \in Seq(P)
        OBVIOUS
    <2>. QED
        BY <2>1, <2>2
<1>2. "n" \in Q
    OBVIOUS
<1>. HIDE DEF n, Q
<1>3. PICK g : Joins(ls, n, g)
    BY <1>1, JoinSteps
<1>. HIDE DEF q
<1>. DEFINE T == {k \in 0..n : g[1..k] \in Seq(Q)}
<1>4. 0 \in T
    BY <1>1, <1>3 DEF Joins
<1>5. ASSUME NEW k \in 1..n, k - 1 \in T PROVE k \in T
    <2>1. g[1..k] = JoinTo(g[1..(k - 1)], q[k])
        BY <1>3 DEF Joins, q
    <2>2. \A text, l \in Seq(Q) : JoinTo(text, l) \in Seq(Q)
        BY <1>2 DEF JoinTo
    <2>. QED
        BY <1>1, <1>5, <2>1, <2>2
<1>6. n \in T
    <2>. HIDE DEF T
    <2>. QED
        BY <1>1, <1>4, <1>5, UpTo
<1>. QED
    BY <1>3, <1>6 DEF Joins, Q

\* Lines, of a text.
LinesOf(P, ls, t) == ls \in Seq(Seq(P)) /\ ls # <<>> /\ Joined(ls) = t

LEMMA OneMoreByte ==
    ASSUME NEW P, NEW ls, NEW t \in Seq(P), LinesOf(P, ls, t), NEW c \in P
    PROVE  LinesOf(P, SplitTo(ls, c), Append(t, c))
<1>. DEFINE front == SubSeq(ls, 1, Len(ls) - 1)
            l == ls[Len(ls)]
<1>0. ls \in Seq(Seq(P)) /\ ls # <<>> /\ Joined(ls) = t
    BY DEF LinesOf
<1>1. front \in Seq(Seq(P)) /\ l \in Seq(P) /\ ls = Append(front, l)
    BY <1>0
<1>2. CASE c = "n"
    <2>1. SplitTo(ls, c) = Append(ls, <<>>)
        BY <1>2 DEF SplitTo
    <2>2. <<>> \in Seq(P)
        OBVIOUS
    <2>3. Joined(Append(ls, <<>>)) = JoinTo(t, <<>>)
        BY <1>0, <2>2, JoinedMore
    <2>4. JoinTo(t, <<>>) = Append(t, c)
        BY <1>2 DEF JoinTo
    <2>5. Append(ls, <<>>) \in Seq(Seq(P)) /\ Append(ls, <<>>) # <<>>
        BY <1>0, <2>2
    <2>. QED
        BY <2>1, <2>3, <2>4, <2>5 DEF LinesOf
<1>3. CASE c # "n"
    <2>. DEFINE longer == Append(l, c)
    <2>1. longer \in Seq(P)
        BY <1>1
    <2>2. SplitTo(ls, c) = Append(front, longer)
        <3>. DEFINE e == [ls EXCEPT ![Len(ls)] = longer]
                    d == Append(front, longer)
        <3>1. e = d
            <4>1. Len(ls) \in Nat /\ Len(ls) > 0
                BY <1>0
            <4>2. e \in Seq(Seq(P)) /\ Len(e) = Len(ls)
                BY <1>0, <2>1, <4>1
            <4>3. \A i \in 1..Len(ls) : e[i] = IF i = Len(ls) THEN longer ELSE ls[i]
                BY <1>0
            <4>4. Len(front) = Len(ls) - 1 /\ \A i \in 1..(Len(ls) - 1) : front[i] = ls[i]
                <5>. DEFINE m == Len(ls) - 1
                <5>1. m \in Nat /\ m <= Len(ls)
                    BY <4>1
                <5>. HIDE DEF m
                <5>2. Len(SubSeq(ls, 1, m)) = m /\ \A i \in 1..m : SubSeq(ls, 1, m)[i] = ls[i]
                    BY <1>0, <5>1
                <5>. QED
                    BY <5>2 DEF m
            <4>. HIDE DEF e, front, longer
            <4>5. d \in Seq(Seq(P)) /\ Len(d) = Len(ls)
                BY <1>1, <2>1, <4>1, <4>4
            <4>6. \A i \in 1..Len(ls) : d[i] = IF i = Len(ls) THEN longer ELSE ls[i]
                BY <1>1, <2>1, <4>1, <4>4
            <4>. HIDE DEF d
            <4>. QED
                BY <4>2, <4>3, <4>5, <4>6, SeqEqual
        <3>. QED
            BY <1>3, <3>1 DEF SplitTo
    <2>3. Joined(Append(front, longer)) = Append(t, c)
        <3>1. CASE front = <<>>
            <4>. HIDE DEF front, l, longer
            <4>1. Append(front, l) = <<l>> /\ Append(front, longer) = <<longer>>
                BY <3>1
            <4>2. longer = Append(l, c)
                BY DEF longer
            <4>. QED
                BY <1>0, <1>1, <4>1, <4>2, JoinedOne
        <3>2. CASE front # <<>>
            <4>. HIDE DEF front, l
            <4>1. Joined(ls) = JoinTo(Joined(front), l)
                BY <1>1, <3>2, JoinedMore
            <4>2. Joined(Append(front, longer)) = JoinTo(Joined(front), longer)
                BY <1>1, <2>1, <3>2, JoinedMore
            <4>3. Joined(front) \in Seq(P \union {"n"}) /\ l \in Seq(P \union {"n"})
                <5>1. Joined(front) \in Seq(P \union {"n"})
                    BY <1>1, <3>2, JoinedIn
                <5>2. \A x \in Seq(P) : x \in Seq(P \union {"n"})
                    OBVIOUS
                <5>. QED
                    BY <1>1, <5>1, <5>2
            <4>4. JoinTo(Joined(front), Append(l, c)) = Append(JoinTo(Joined(front), l), c)
                BY <4>3 DEF JoinTo
            <4>. QED
                BY <1>0, <4>1, <4>2, <4>4
        <3>. QED
            BY <3>1, <3>2
    <2>4. Append(front, longer) \in Seq(Seq(P)) /\ Append(front, longer) # <<>>
        BY <1>1, <2>1
    <2>. QED
        BY <2>2, <2>3, <2>4 DEF LinesOf
<1>. QED
    BY <1>2, <1>3

\* The lines of a text, put together, are the text.
LEMMA SplitIs ==
    ASSUME NEW P, NEW s \in Seq(P)
    PROVE  LinesOf(P, Split(s), s)
<1>. DEFINE n == Len(s)
<1>0. n \in Nat /\ DOMAIN s = 1..n /\ \A k \in 1..n : s[k] \in P
    OBVIOUS
<1>. HIDE DEF n
<1>1. PICK g : Splits(s, n, g)
    BY <1>0, SplitSteps
<1>. DEFINE T == {k \in 0..n : LinesOf(P, g[1..k], SubSeq(s, 1, k))}
<1>2. 0 \in T
    <2>1. <<>> \in Seq(P) /\ << <<>> >> \in Seq(Seq(P)) /\ << <<>> >> # <<>> /\ SubSeq(s, 1, 0) = <<>>
        OBVIOUS
    <2>2. LinesOf(P, << <<>> >>, <<>>)
        BY <2>1, JoinedOne DEF LinesOf
    <2>3. g[1..0] = << <<>> >> /\ 0 \in 0..n
        BY <1>0, <1>1 DEF Splits
    <2>. QED
        BY <2>1, <2>2, <2>3
<1>3. ASSUME NEW k \in 1..n, k - 1 \in T PROVE k \in T
    <2>. DEFINE t == SubSeq(s, 1, k - 1)
    <2>1. t \in Seq(P) /\ SubSeq(s, 1, k) = Append(t, s[k])
        BY <1>0 DEF n
    <2>. HIDE DEF t
    <2>2. LinesOf(P, g[1..(k - 1)], t)
        BY <1>3 DEF t
    <2>3. LinesOf(P, SplitTo(g[1..(k - 1)], s[k]), Append(t, s[k]))
        BY <1>0, <2>1, <2>2, OneMoreByte
    <2>4. g[1..k] = SplitTo(g[1..(k - 1)], s[k]) /\ k \in 0..n
        BY <1>0, <1>1 DEF Splits
    <2>. QED
        BY <2>1, <2>3, <2>4
<1>4. n \in T
    <2>. HIDE DEF T
    <2>. QED
        BY <1>0, <1>2, <1>3, UpTo
<1>5. SubSeq(s, 1, n) = s
    BY DEF n
<1>. QED
    BY <1>1, <1>4, <1>5 DEF Splits

------------------------------------------------------------------------------
(* The answer.                                                               *)

\* The lines that splitLines() returns are the lines of the text, of its bytes.
LEMMA LinesAre ==
    ASSUME NEW P, NEW b \in Seq(P)
    PROVE  /\ SplitLines(b) \in Seq(Seq(P))
           /\ AreLinesOf(SplitLines(b), b) \/ b = <<"n">>
<1>. DEFINE ends == b # <<>> /\ Last(b) = "n"
            s == IF ends THEN Front(b) ELSE b
<1>1. s \in Seq(P)
    BY DEF Front
<1>2. ends => b = s \o <<"n">>
    <2>1. ASSUME ends PROVE b = SubSeq(b, 1, Len(b) - 1) \o <<"n">>
        BY <2>1 DEF Last
    <2>. QED
        BY <2>1 DEF Front
<1>3. SplitLines(b) = IF s = <<>> THEN <<>> ELSE Split(s)
    BY DEF SplitLines
<1>4. ~ends => b = s /\ (b = <<>> \/ Last(b) # "n")
    OBVIOUS
<1>. HIDE DEF s, ends
<1>5. CASE s = <<>>
    <2>1. Joined(<<>>) = <<>>
        <3>1. <<>> = <<>>
            OBVIOUS
        <3>. QED
            BY ONLY <3>1 DEF Joined
    <2>2. <<>> \in Seq(Seq(P)) /\ <<>> \o <<"n">> = <<"n">>
        OBVIOUS
    <2>3. b = <<>> \/ b = <<"n">>
        BY <1>2, <1>4, <1>5, <2>2
    <2>. QED
        BY <1>3, <1>5, <2>1, <2>2, <2>3 DEF AreLinesOf
<1>6. CASE s # <<>>
    <2>1. LinesOf(P, Split(s), s)
        BY <1>1, SplitIs
    <2>2. /\ Split(s) \in Seq(Seq(P)) /\ Split(s) # <<>> /\ Joined(Split(s)) = s
          /\ SplitLines(b) = Split(s)
        BY <1>3, <1>6, <2>1 DEF LinesOf
    <2>. QED
        BY <1>2, <1>4, <2>2 DEF AreLinesOf
<1>. QED
    BY <1>5, <1>6

\* Decoding keeps all that is not lossy.
LEMMA UnmarshaledIs == ASSUME NEW b PROVE Unmarshal(b) = b \/ Lossy(b)
    BY DEF Unmarshal, Lossy

LEMMA LinesUnmarshaled ==
    ASSUME NEW lines
    PROVE  SameLines([k \in DOMAIN lines |-> Unmarshal(lines[k])], lines)
<1>. DEFINE items == [k \in DOMAIN lines |-> Unmarshal(lines[k])]
<1>1. DOMAIN items = DOMAIN lines /\ \A k \in DOMAIN lines : items[k] = Unmarshal(lines[k])
    OBVIOUS
<1>. HIDE DEF items
<1>2. SameLines(items, lines)
    BY <1>1, UnmarshaledIs DEF SameLines
<1>. QED
    BY <1>2 DEF items

\* What run() answers is made of what an output that was not too much is.
LEMMA RunAnswers ==
    ASSUME NEW cfg, NEW declared, NEW input, NEW child, Run(cfg, declared, input, child).err = ""
    PROVE  /\ child.starts /\ IsSuccess(child.code, cfg.success)
           /\ ~CapWriter(MaxOut(cfg), child.writes).overflow
           /\ Run(cfg, declared, input, child)
              = BuildOutput(cfg, CapWriter(MaxOut(cfg), child.writes).buf, child.code)
<1>. DEFINE args == BuildArgv(cfg, input)
            stdout == CapWriter(MaxOut(cfg), child.writes)
            doc == BuildOutput(cfg, stdout.buf, child.code)
            refused == ValidateTemplates(cfg, declared) /\ (args.err \/ args.argv = <<>>)
            r == Run(cfg, declared, input, child)
<1>1. r = CASE ~ValidateTemplates(cfg, declared) -> Fails("config")
            [] refused -> Fails("command line")
            [] OTHER -> IF ~child.starts THEN Fails("not started")
                        ELSE IF stdout.overflow THEN Fails("too much")
                        ELSE IF ~IsSuccess(child.code, cfg.success) THEN Fails("failed")
                        ELSE doc
    BY DEF Run
<1>2. /\ Fails("config").err # "" /\ Fails("command line").err # "" /\ Fails("not started").err # ""
      /\ Fails("too much").err # "" /\ Fails("failed").err # ""
    BY DEF Fails
<1>. HIDE DEF r, refused, stdout, doc
<1>3. r.err = ""
    BY DEF r
<1>4. ValidateTemplates(cfg, declared) /\ ~refused
    <2>1. ASSUME ~ValidateTemplates(cfg, declared) PROVE FALSE
        <3>1. ~refused
            BY <2>1 DEF refused
        <3>2. r = Fails("config")
            BY <1>1, <2>1, <3>1
        <3>. QED
            BY <1>2, <1>3, <3>2
    <2>2. ASSUME refused PROVE FALSE
        <3>1. r = Fails("command line")
            BY <1>1, <2>1, <2>2
        <3>. QED
            BY <1>2, <1>3, <3>1
    <2>. QED
        BY <2>1, <2>2
<1>5. r = IF ~child.starts THEN Fails("not started")
          ELSE IF stdout.overflow THEN Fails("too much")
          ELSE IF ~IsSuccess(child.code, cfg.success) THEN Fails("failed")
          ELSE doc
    BY <1>1, <1>4
<1>6. child.starts
    BY <1>2, <1>3, <1>5
<1>7. ~stdout.overflow
    BY <1>2, <1>3, <1>5
<1>8. IsSuccess(child.code, cfg.success)
    BY <1>2, <1>3, <1>5
<1>. QED
    BY <1>5, <1>6, <1>7, <1>8 DEF r, stdout, doc

\* The document of a mode that has a field, by what is under it.
LEMMA DocumentIs ==
    ASSUME NEW P, NEW b \in Seq(P), NEW cfg, cfg.mode # "json", NEW code, NEW data,
           cfg.mode \in {"raw", "base64"} => data = b,
           cfg.mode = "lines" => data = SplitLines(b),
           cfg.mode = "jsonl" => SameLines(data, SplitLines(b))
    PROVE  LET field == IF cfg.field = NoField THEN "data" ELSE cfg.field
           IN Holds(cfg, Document(cfg, field, data, code), b)
<1>. DEFINE field == IF cfg.field = NoField THEN "data" ELSE cfg.field
            taken == cfg.includeExitCode /\ field = "exit_code"
            doc == Document(cfg, field, data, code)
<1>1. doc[field] = data \/ taken
    BY DEF Document
<1>2. b = <<"n">> \/ AreLinesOf(SplitLines(b), b)
    BY LinesAre
<1>. HIDE DEF doc, field, taken
<1>3. /\ cfg.mode \in {"raw", "base64"} => taken \/ doc[field] = b
      /\ cfg.mode = "lines" => taken \/ doc[field] = SplitLines(b)
      /\ cfg.mode = "jsonl" => taken \/ SameLines(doc[field], SplitLines(b))
    BY <1>1
<1>. QED
    BY <1>2, <1>3 DEF Holds, doc, field, taken

\* What buildOutput() returns, if it is not an error.
LEMMA OutputHas ==
    ASSUME NEW P, NEW b \in Seq(P), NEW cfg, cfg.mode \in Modes, NEW code,
           BuildOutput(cfg, b, code).err = ""
    PROVE  LET doc == BuildOutput(cfg, b, code).doc
           IN /\ cfg.includeExitCode => doc["exit_code"] = code
              /\ Holds(cfg, doc, b)
<1>. DEFINE r == BuildOutput(cfg, b, code)
            field == IF cfg.field = NoField THEN "data" ELSE cfg.field
            lines == SplitLines(b)
            parsed == [k \in DOMAIN lines |-> Unmarshal(lines[k])]
            Under(d) == Document(cfg, field, d, code)
            whole == Document(cfg, "$", Unmarshal(TrimSpace(b)), code)
<1>1. Fails("output").err # "" /\ \A doc : Answer(doc).doc = doc
    BY DEF Fails, Answer
<1>2. \A key, d : cfg.includeExitCode => Document(cfg, key, d, code)["exit_code"] = code
    BY DEF Document
<1>3. CASE cfg.mode = "json"
    <2>1. r \in {Fails("output"), Answer(whole)}
        BY <1>3 DEF BuildOutput
    <2>2. whole["$"] = TrimSpace(b) \/ Lossy(TrimSpace(b))
        <3>1. whole["$"] = Unmarshal(TrimSpace(b))
            <4>1. "$" # "exit_code"
                OBVIOUS
            <4>. QED
                BY <4>1 DEF Document
        <3>. QED
            BY <3>1, UnmarshaledIs
    <2>3. cfg.includeExitCode => whole["exit_code"] = code
        BY <1>2
    <2>. HIDE DEF whole
    <2>4. r.doc = whole
        BY <1>1, <2>1
    <2>5. Holds(cfg, whole, b)
        BY <1>3, <2>2 DEF Holds
    <2>. HIDE DEF r
    <2>. QED
        BY <2>3, <2>4, <2>5 DEF r
<1>4. CASE cfg.mode \in {"raw", "base64"}
    <2>1. r \in {Fails("output"), Answer(Under(b))}
        BY <1>4 DEF BuildOutput
    <2>2. Holds(cfg, Under(b), b)
        BY <1>4, DocumentIs
    <2>3. cfg.includeExitCode => Under(b)["exit_code"] = code
        BY <1>2
    <2>. HIDE DEF Under
    <2>4. r.doc = Under(b)
        BY <1>1, <2>1
    <2>. HIDE DEF r
    <2>. QED
        BY <2>2, <2>3, <2>4 DEF r
<1>5. CASE cfg.mode = "lines"
    <2>1. r \in {Fails("output"), Answer(Under(lines))}
        BY <1>5 DEF BuildOutput
    <2>2. Holds(cfg, Under(lines), b)
        BY <1>5, DocumentIs
    <2>3. cfg.includeExitCode => Under(lines)["exit_code"] = code
        BY <1>2
    <2>. HIDE DEF Under
    <2>4. r.doc = Under(lines)
        BY <1>1, <2>1
    <2>. HIDE DEF r
    <2>. QED
        BY <2>2, <2>3, <2>4 DEF r
<1>6. CASE cfg.mode = "jsonl"
    <2>1. r \in {Fails("output"), Answer(Under(parsed))}
        BY <1>6 DEF BuildOutput
    <2>2. SameLines(parsed, lines)
        BY LinesUnmarshaled
    <2>3. Holds(cfg, Under(parsed), b)
        <3>. HIDE DEF parsed
        <3>. QED
            BY <1>6, <2>2, DocumentIs
    <2>4. cfg.includeExitCode => Under(parsed)["exit_code"] = code
        BY <1>2
    <2>. HIDE DEF Under
    <2>5. r.doc = Under(parsed)
        BY <1>1, <2>1
    <2>. HIDE DEF r
    <2>. QED
        BY <2>3, <2>4, <2>5 DEF r
<1>. QED
    BY <1>3, <1>4, <1>5, <1>6 DEF Modes

LEMMA FlattenIn ==
    ASSUME NEW P, NEW q \in Seq(Seq(P))
    PROVE  FlattenSeq(q) \in Seq(P)
<1>1. PICK h : FlattenSeq(q) = h[Len(q)] /\ \A k \in 0..Len(q) : h[k] \in Seq(P)
    BY FlattenSteps
<1>2. Len(q) \in 0..Len(q)
    OBVIOUS
<1>. QED
    BY <1>1, <1>2

LEMMA AllIsKept ==
    ASSUME NEW P, NEW max \in Nat, NEW writes \in Seq(Seq(P)), ~CapWriter(max, writes).overflow
    PROVE  CapWriter(max, writes).buf = FlattenSeq(writes) /\ Len(FlattenSeq(writes)) <= max
<1>. DEFINE w == CapWriter(max, writes)
            all == FlattenSeq(writes)
<1>1. /\ w.overflow <=> Len(all) > max
      /\ w.buf = IF Len(all) > max THEN SubSeq(all, 1, max) ELSE all
    BY CapIsExact DEF CapExact
<1>2. all \in Seq(P)
    BY FlattenIn
<1>. HIDE DEF w, all
<1>3. Len(all) \in Nat
    BY <1>2
<1>4. ~w.overflow
    BY DEF w
<1>. QED
    BY <1>1, <1>3, <1>4 DEF w, all

LEMMA CapIsThere == ASSUME NEW cfg, cfg.max \in Int PROVE MaxOut(cfg) \in Nat
<1>1. \A a, b, c \in Nat : \A m \in Int : (IF m <= 0 THEN a * b * c ELSE m) \in Nat
    OBVIOUS
<1>2. DefaultMaxOutput = 32 * 1024 * 1024 /\ 32 \in Nat /\ 1024 \in Nat
    BY DEF DefaultMaxOutput
<1>. QED
    BY <1>1, <1>2 DEF MaxOut

LEMMA AnswerIsFaithful ==
    ASSUME NEW P, NEW cfg, cfg.mode \in Modes, cfg.max \in Int,
           NEW input, NEW child, child.writes \in Seq(Seq(P))
    PROVE  AnswerFaithful(cfg, input, child)
<1>. DEFINE r == Run(cfg, {}, input, child)
            all == FlattenSeq(child.writes)
            w == CapWriter(MaxOut(cfg), child.writes)
<1>. SUFFICES ASSUME r.err = ""
              PROVE  /\ child.starts /\ IsSuccess(child.code, cfg.success) /\ Len(all) <= MaxOut(cfg)
                     /\ cfg.includeExitCode => r.doc["exit_code"] = child.code
                     /\ Holds(cfg, r.doc, all)
    BY DEF AnswerFaithful
<1>0. MaxOut(cfg) \in Nat
    BY CapIsThere
<1>1. /\ child.starts /\ IsSuccess(child.code, cfg.success) /\ ~w.overflow
      /\ r = BuildOutput(cfg, w.buf, child.code)
    BY RunAnswers
<1>2. all \in Seq(P)
    BY FlattenIn
<1>3. w.buf = all /\ Len(all) <= MaxOut(cfg)
    BY <1>0, <1>1, AllIsKept
<1>. HIDE DEF r, all, w
<1>4. r = BuildOutput(cfg, all, child.code)
    BY <1>1, <1>3
<1>5. (cfg.includeExitCode => r.doc["exit_code"] = child.code) /\ Holds(cfg, r.doc, all)
    BY <1>2, <1>4, OutputHas
<1>. QED
    BY <1>1, <1>3, <1>5

------------------------------------------------------------------------------
(* The theorems.                                                             *)

CasesOK == \/ in \in {ArgvCase(cfg) : cfg \in Configs}
           \/ in \in {OutputCase(w) : w \in Outputs}

LEMMA CasesAre == ShimSpec => []CasesOK
<1>1. ShimInit => CasesOK
    BY DEF ShimInit, CasesOK
<1>2. CasesOK /\ [Compute]_<<in, done>> => CasesOK'
    BY DEF CasesOK, Compute
<1>. QED
    BY <1>1, <1>2, PTL DEF ShimSpec

LEMMA CaseHas ==
    ASSUME CasesOK
    PROVE  /\ in.of = "argv" => in.cfg \in Configs
           /\ in.of = "output" => in.writes \in Outputs
    BY DEF CasesOK, ArgvCase, OutputCase

\* Whatever fields are empty, absent or lists, no argument of the command that is made of the
\* input begins with a dash, unless the configuration allows it, a "--" that is not checked is
\* before it, or the input is printed by an argument that interpolatesInputData does not look
\* into, which is checked as little as the author's text (checkFlagValue, buildArgv).
THEOREM FlagsHeld == ShimSpec => []ShimFlagsAreTheAuthors
<1>1. CasesOK => ShimFlagsAreTheAuthors
    BY CaseHas, ShimAssumption, FlagsAreClean DEF ShimFlagsAreTheAuthors, Case
<1>. QED
    BY <1>1, CasesAre, PTL

\* When a contract declares fields and no element prints the whole input, the command line is
\* the same for any two inputs that agree on the declared fields and on those that are read
\* through $ or as the argument of a function, where referencedFields finds none
\* (validateTemplates, referencedFields against renderTemplate).
THEOREM DeclaredHeld == ShimSpec => []ShimReadsDeclared
<1>1. CasesOK => ShimReadsDeclared
    BY CaseHas, ShimAssumption, DeclaredIsRead DEF ShimReadsDeclared, Case
<1>. QED
    BY <1>1, CasesAre, PTL

\* In whatever pieces a command writes, what is kept is the first max bytes of it, and
\* overflow is set if and only if there are more (capWriter.Write).
THEOREM CapHeld == ShimSpec => []ShimCapExact
<1>1. CasesOK => ShimCapExact
    BY CaseHas, ShimAssumption, CapIsExact DEF ShimCapExact, Case
<1>. QED
    BY <1>1, CasesAre, PTL

\* What tcs-shim answers is made of all that a command wrote that was started, wrote no more than
\* the cap and ended with a code that is allowed: the bytes, their lines, or the document they
\* are, with the code beside it if it is asked for; but for JSON that is changed as it is decoded:
\* a number of more digits than a float64 holds, a field that is there twice, a string that is no
\* UTF-8 (run, buildOutput, splitLines).
THEOREM AnswerHeld == ShimSpec => []ShimAnswerFaithful
<1>1. CasesOK => ShimAnswerFaithful
    <2>. SUFFICES ASSUME CasesOK, in.of = "output", NEW cfg \in Runs, NEW child \in Children(in.writes)
                  PROVE  AnswerFaithful(cfg, <<>>, child)
        BY DEF ShimAnswerFaithful, Case
    <2>1. child.writes \in Seq(Seq(Chars))
        BY CaseHas, ShimAssumption DEF Children
    <2>. QED
        BY <2>1, ShimAssumption, AnswerIsFaithful
<1>. QED
    BY <1>1, CasesAre, PTL
=============================================================================
