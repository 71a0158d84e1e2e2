---------------------------- MODULE PathsProofs ----------------------------
(***************************************************************************)
(* Proofs about the operators of Paths: what splitting a path and joining  *)
(* its parts give, what the characters that two paths begin with say about *)
(* their parts, and what the walk makes of a path: of an ordinary one, of  *)
(* any path (the theorem: none leads out of the roots of the entries), and *)
(* of clean names, which lose nothing but dots.                            *)
(*                                                                         *)
(* The operators are recursive functions. Recursion and induction are used *)
(* in a first-order form, over a set in place of a predicate: both follow  *)
(* from the fact that a nonempty set of numbers has a least element.       *)
(***************************************************************************)
EXTENDS Paths, Integers, SequenceTheorems, WellFoundedInduction, TLAPS

-----------------------------------------------------------------------------
(***************************************************************************)
(* Induction and recursion.                                                *)
(***************************************************************************)

\* A nonempty set of natural numbers has a least element.
LEMMA Least ==
    ASSUME NEW U \in SUBSET Nat, U # {}
    PROVE  \E m \in U : \A n \in U : m <= n
<1> DEFINE R == {ss \in Nat \X Nat : ss[1] < ss[2]}
<1>1. IsWellFoundedOn(R, Nat)
    BY NatLessThanWellFounded, Zenon DEF OpToRel
<1>2. \A x, y \in Nat : x < y => <<x, y>> \in R
    OBVIOUS
<1> HIDE DEF R
<1>3. U \subseteq Nat /\ U # {}
    OBVIOUS
<1>4. PICK x \in U : \A y \in U : ~(<<y, x>> \in R)
    BY <1>1, <1>3, WFMin
<1>5. ASSUME NEW y \in U PROVE x <= y
  <2>1. x \in Nat /\ y \in Nat
      BY <1>3
  <2>2. ~(y < x)
      BY <1>2, <1>4, <2>1
  <2> QED BY <2>1, <2>2
<1> QED BY <1>5

\* Induction over the natural numbers.
LEMMA Induction ==
    ASSUME NEW T \in SUBSET Nat, 0 \in T, \A n \in T : n + 1 \in T
    PROVE  T = Nat
<1>1. SUFFICES ASSUME Nat \ T # {} PROVE FALSE
    OBVIOUS
<1>2. PICK x \in Nat \ T : \A y \in Nat \ T : x <= y
    BY <1>1, Least
<1>3. x # 0 /\ x - 1 \in Nat /\ x - 1 < x
    OBVIOUS
<1>4. x - 1 \in T
    BY <1>2, <1>3
<1>5. (x - 1) + 1 \in T
    BY <1>4
<1> QED BY <1>5

\* Induction over the sequences on a set.
LEMMA SeqInduction ==
    ASSUME NEW S, NEW T \in SUBSET Seq(S), <<>> \in T,
           \A s \in T, e \in S : Append(s, e) \in T
    PROVE  T = Seq(S)
<1> DEFINE Q == {n \in Nat : \A s \in Seq(S) : Len(s) = n => s \in T}
<1>1. 0 \in Q
  <2>1. \A s \in Seq(S) : Len(s) = 0 => s = <<>>
      BY EmptySeq
  <2> QED BY <2>1
<1>2. ASSUME NEW n \in Q PROVE n + 1 \in Q
  <2>1. ASSUME NEW s \in Seq(S), Len(s) = n + 1 PROVE s \in T
    <3>1. s # <<>>
        BY <2>1, EmptySeq
    <3>2. PICK r \in Seq(S), e \in S : s = Append(r, e)
        BY <3>1, SequenceEmptyOrAppend
    <3>3. Len(s) = Len(r) + 1 /\ Len(r) \in Nat
        BY <3>2, AppendProperties, LenProperties
    <3>4. r \in T
        BY <2>1, <3>3
    <3> QED BY <3>2, <3>4
  <2> QED BY <2>1
<1>3. Q = Nat
  <2> HIDE DEF Q
  <2>1. Q \subseteq Nat BY DEF Q
  <2> QED BY <1>1, <1>2, <2>1, Induction
<1>4. ASSUME NEW s \in Seq(S) PROVE s \in T
  <2>1. Len(s) \in Q
      BY <1>3, LenProperties
  <2> QED BY <2>1
<1> QED BY <1>4

\* A function that is defined by its first value and by how the next follows
\* from the one before, with what is invariant along it: G[k] has the values
\* that are possible at k.
Keeps(f, G, n) == \A k \in 1..n : \A a \in G[k - 1] : f[k][a] \in G[k]
Follows(w, f, n) == \A k \in 1..n : w[k] = f[k][w[k - 1]]
Within(w, G, n) == \A k \in 0..n : w[k] \in G[k]

LEMMA Recursion ==
    ASSUME NEW S, NEW n \in Nat, NEW G \in [0..n -> SUBSET S], NEW x \in G[0],
           NEW f, Keeps(f, G, n)
    PROVE  \E w \in [0..n -> S] :
               w[0] = x /\ Follows(w, f, n) /\ Within(w, G, n)
<1> DEFINE Good(m, w) ==
               /\ w \in [0..m -> S]
               /\ w[0] = x /\ \A k \in 1..m : w[k] = f[k][w[k - 1]]
               /\ \A k \in 0..m : w[k] \in G[k]
           T == {m \in Nat : m <= n => \E w : Good(m, w)}
<1>1. 0 \in T
  <2> DEFINE v == [k \in 0..0 |-> x]
  <2>1. Good(0, v)
      OBVIOUS
  <2> HIDE DEF Good
  <2> QED BY <2>1
<1>2. ASSUME NEW m \in T PROVE m + 1 \in T
  <2>0. m \in Nat /\ m + 1 \in Nat
      OBVIOUS
  <2>1. SUFFICES ASSUME m + 1 <= n PROVE \E w : Good(m + 1, w)
    <3> HIDE DEF Good
    <3> QED BY <2>0
  <2>2. PICK w : Good(m, w)
    <3> HIDE DEF Good
    <3> QED BY <2>0, <2>1
  <2>3. w[m] \in G[m] /\ m + 1 \in 1..n
      BY <2>0, <2>1, <2>2
  <2>4. f[m + 1][w[m]] \in G[m + 1] /\ G[m + 1] \subseteq S
      BY <2>0, <2>1, <2>3 DEF Keeps
  <2> DEFINE v == [k \in 0..(m + 1) |->
                      IF k = m + 1 THEN f[m + 1][w[m]] ELSE w[k]]
  <2>5. v \in [0..(m + 1) -> S]
      BY <2>0, <2>2, <2>4
  <2>6. v[0] = x
      BY <2>0, <2>2
  <2>7. ASSUME NEW k \in 1..(m + 1) PROVE v[k] = f[k][v[k - 1]]
    <3>1. CASE k = m + 1 BY <2>0, <3>1
    <3>2. CASE k \in 1..m BY <2>0, <2>2, <3>2
    <3> QED BY <2>0, <3>1, <3>2
  <2>8. ASSUME NEW k \in 0..(m + 1) PROVE v[k] \in G[k]
      BY <2>0, <2>2, <2>4
  <2>9. Good(m + 1, v)
    <3> HIDE DEF v
    <3> QED BY <2>5, <2>6, <2>7, <2>8
  <2> HIDE DEF Good, v
  <2> QED BY <2>9
<1>3. n \in T
  <2> HIDE DEF T
  <2>1. T \subseteq Nat BY DEF T
  <2>2. T = Nat BY <1>1, <1>2, <2>1, Induction
  <2> QED BY <2>2
<1> QED BY <1>3 DEF Follows, Within

\* Two functions are the same up to n if they begin with the same value and
\* each value follows from the one before.
LEMMA Agree ==
    ASSUME NEW n \in Nat, NEW v, NEW w, v[0] = w[0],
           \A k \in 1..n : v[k - 1] = w[k - 1] => v[k] = w[k]
    PROVE  \A k \in 0..n : v[k] = w[k]
<1> DEFINE T == {m \in Nat : m <= n => v[m] = w[m]}
<1>1. 0 \in T
    OBVIOUS
<1>2. ASSUME NEW m \in T PROVE m + 1 \in T
  <2>1. ASSUME m + 1 <= n PROVE v[m + 1] = w[m + 1]
    <3>1. m + 1 \in 1..n /\ (m + 1) - 1 = m /\ m <= n
        BY <2>1
    <3>2. v[m] = w[m]
        BY <3>1
    <3> QED BY <3>1, <3>2
  <2> QED BY <2>1
<1>3. T = Nat
  <2> HIDE DEF T
  <2>1. T \subseteq Nat BY DEF T
  <2> QED BY <1>1, <1>2, <2>1, Induction
<1> QED BY <1>3

SameSteps(v, w, n) == \A k \in 1..n : v[k - 1] = w[k - 1] => v[k] = w[k]

LEMMA AgreeAtEnd ==
    ASSUME NEW n \in Nat, NEW v, NEW w, v[0] = w[0], SameSteps(v, w, n)
    PROVE  v[n] = w[n]
<1>1. \A k \in 0..n : v[k] = w[k]
    BY Agree DEF SameSteps
<1> QED BY <1>1

-----------------------------------------------------------------------------
(***************************************************************************)
(* The first elements of a sequence and its last.                          *)
(***************************************************************************)
LEMMA FrontLast ==
    ASSUME NEW S, NEW s \in Seq(S), s # <<>>
    PROVE  /\ Front(s) \in Seq(S) /\ Len(Front(s)) = Len(s) - 1
           /\ \A i \in 1..(Len(s) - 1) : Front(s)[i] = s[i]
           /\ Last(s) \in S
           /\ s = Append(Front(s), Last(s))
<1>1. Len(s) \in Nat \ {0} /\ \A i \in 1..Len(s) : s[i] \in S
    BY EmptySeq, LenProperties, ElementOfSeq
<1>2. /\ Front(s) \in Seq(S) /\ Len(Front(s)) = Len(s) - 1
      /\ \A i \in 1..(Len(s) - 1) : Front(s)[i] = s[i]
  <2>1. \A i \in 1..(Len(s) - 1) : s[i] \in S
      BY <1>1
  <2>2. 1 \in Int /\ Len(s) - 1 \in Int
      BY <1>1
  <2> DEFINE n == Len(s) - 1
             t == SubSeq(s, 1, n)
  <2>3. /\ t \in Seq(S) /\ Len(t) = IF 1 <= n THEN n - 1 + 1 ELSE 0
        /\ \A i \in 1..(n - 1 + 1) : t[i] = s[1 + i - 1]
    <3> HIDE DEF n
    <3> QED BY <2>1, <2>2, SubSeqProperties DEF n
  <2>4. Front(s) = t
      BY DEF Front
  <2> HIDE DEF t
  <2> QED BY <1>1, <2>3, <2>4
<1>3. Last(s) \in S
    BY <1>1 DEF Last
<1>4. s = Append(Front(s), Last(s))
  <2> DEFINE t == Append(Front(s), Last(s))
  <2>1. /\ t \in Seq(S) /\ Len(t) = Len(s)
        /\ \A i \in 1..(Len(s) - 1) : t[i] = s[i]
        /\ t[Len(s)] = s[Len(s)]
      BY <1>1, <1>2, <1>3, AppendProperties DEF Last
  <2>2. \A i \in 1..Len(s) : s[i] = t[i]
      BY <1>1, <2>1
  <2> HIDE DEF t
  <2> QED BY <1>1, <2>1, <2>2, SeqEqual DEF t
<1> QED BY <1>2, <1>3, <1>4

LEMMA FrontOfAppend ==
    ASSUME NEW S, NEW s \in Seq(S), NEW e \in S
    PROVE  Front(Append(s, e)) = s /\ Last(Append(s, e)) = e
<1> DEFINE t == Append(s, e)
<1>1. t \in Seq(S) /\ t # <<>>
    BY AppendProperties
<1>2. Append(s, e) = Append(Front(t), Last(t)) /\ Front(t) \in Seq(S) /\ Last(t) \in S
    BY <1>1, FrontLast
<1> HIDE DEF t
<1>3. s = Front(t) /\ e = Last(t)
    BY <1>2, AppendInjective
<1> QED BY <1>3 DEF t

LEMMA ConcatAppend ==
    ASSUME NEW S, NEW s \in Seq(S), NEW t \in Seq(S), NEW e \in S
    PROVE  s \o Append(t, e) = Append(s \o t, e)
<1>1. <<e>> \in Seq(S)
    OBVIOUS
<1>2. Append(t, e) = t \o <<e>> /\ s \o t \in Seq(S)
    BY AppendIsConcat, ConcatProperties
<1>3. Append(s \o t, e) = (s \o t) \o <<e>>
    BY <1>2, AppendIsConcat
<1> QED BY <1>1, <1>2, <1>3, ConcatAssociative

LEMMA ConcatEnds ==
    ASSUME NEW S, NEW s \in Seq(S), NEW t \in Seq(S)
    PROVE  /\ s # <<>> => s \o t # <<>> /\ (s \o t)[1] = s[1]
           /\ t # <<>> => s \o t # <<>> /\ (s \o t)[Len(s \o t)] = t[Len(t)]
<1> DEFINE u == s \o t
<1>1. /\ u \in Seq(S) /\ Len(u) = Len(s) + Len(t)
      /\ \A i \in 1..(Len(s) + Len(t)) :
            u[i] = IF i <= Len(s) THEN s[i] ELSE t[i - Len(s)]
    BY ConcatProperties
<1>2. /\ Len(s) \in Nat /\ Len(t) \in Nat
      /\ s = <<>> <=> Len(s) = 0
      /\ t = <<>> <=> Len(t) = 0
      /\ u = <<>> <=> Len(u) = 0
    BY <1>1, LenProperties, EmptySeq
<1> HIDE DEF u
<1>3. s # <<>> => u # <<>> /\ u[1] = s[1]
    BY <1>1, <1>2
<1>4. t # <<>> => u # <<>> /\ u[Len(u)] = t[Len(t)]
    BY <1>1, <1>2
<1> QED BY <1>3, <1>4 DEF u

LEMMA ConcatMember ==
    ASSUME NEW S, NEW s \in Seq(S), NEW e \in S, NEW t \in Seq(S)
    PROVE  /\ s \o (<<e>> \o t) \in Seq(S)
           /\ Len(s) + 1 \in 1..Len(s \o (<<e>> \o t))
           /\ (s \o (<<e>> \o t))[Len(s) + 1] = e
<1> DEFINE one == <<e>>
           u == one \o t
           v == s \o u
<1>1. one \in Seq(S) /\ one # <<>> /\ one[1] = e
    OBVIOUS
<1> HIDE DEF one
<1>2. u \in Seq(S) /\ u # <<>> /\ u[1] = e
    BY <1>1, ConcatProperties, ConcatEnds
<1> HIDE DEF u
<1>3. /\ v \in Seq(S) /\ Len(v) = Len(s) + Len(u)
      /\ \A i \in 1..(Len(s) + Len(u)) :
            v[i] = IF i <= Len(s) THEN s[i] ELSE u[i - Len(s)]
    BY <1>2, ConcatProperties
<1>4. Len(s) \in Nat /\ Len(u) \in Nat \ {0}
    BY <1>2, LenProperties, EmptySeq
<1> HIDE DEF v
<1>5. /\ Len(s) + 1 \in 1..(Len(s) + Len(u))
      /\ ~(Len(s) + 1 <= Len(s)) /\ (Len(s) + 1) - Len(s) = 1
    BY <1>4
<1>6. Len(s) + 1 \in 1..Len(v) /\ v[Len(s) + 1] = e
    BY <1>2, <1>3, <1>5
<1> QED BY <1>3, <1>6 DEF v, u, one

\* Concatenation under a name: the provers take an equation of sequences that
\* are written with \o apart into their elements, and this one as it stands.
Cat(s, t) == s \o t

LEMMA CatType ==
    ASSUME NEW S, NEW a \in Seq(S), NEW b \in Seq(S)
    PROVE  Cat(a, b) \in Seq(S)
BY ConcatProperties DEF Cat

LEMMA CatAssociative ==
    ASSUME NEW S, NEW a \in Seq(S), NEW b \in Seq(S), NEW c \in Seq(S)
    PROVE  Cat(Cat(a, b), c) = Cat(a, Cat(b, c))
<1>1. (a \o b) \o c = a \o (b \o c)
    BY ConcatAssociative
<1> QED BY <1>1 DEF Cat

-----------------------------------------------------------------------------
(***************************************************************************)
(* DoSplit.                                                                *)
(***************************************************************************)

\* The parts of paths: they are not empty and have no slash in them.
Part(C) == {p \in Seq(C) : p # <<>> /\ \A i \in 1..Len(p) : p[i] # "/"}

LEMMA AddCharType ==
    ASSUME NEW C, NEW c \in C, NEW before, NEW parts \in Seq(Part(C)),
           before = "/" \/ c = "/" \/ parts # <<>>
    PROVE  /\ AddChar(parts, before, c) \in Seq(Part(C))
           /\ c # "/" => AddChar(parts, before, c) # <<>>
<1>1. CASE c = "/"
    BY <1>1 DEF AddChar
<1>2. CASE c # "/" /\ before = "/"
  <2>1. <<c>> \in Part(C)
      BY <1>2 DEF Part
  <2> QED BY <1>2, <2>1, AppendProperties DEF AddChar
<1>3. CASE c # "/" /\ before # "/"
  <2> DEFINE p == Last(parts)
  <2>1. parts # <<>>
      BY <1>3
  <2>2. Front(parts) \in Seq(Part(C)) /\ p \in Part(C)
      BY <2>1, FrontLast
  <2>3. Append(p, c) \in Part(C)
    <3> HIDE DEF p
    <3>1. p \in Seq(C) /\ Len(p) \in Nat
        BY <2>2, LenProperties DEF Part
    <3>2. /\ Append(p, c) \in Seq(C) /\ Append(p, c) # <<>>
          /\ Len(Append(p, c)) = Len(p) + 1
          /\ \A i \in 1..Len(p) : Append(p, c)[i] = p[i]
          /\ Append(p, c)[Len(p) + 1] = c
        BY <3>1, AppendProperties
    <3>3. \A i \in 1..Len(p) : p[i] # "/"
        BY <2>2 DEF Part
    <3>4. \A i \in 1..Len(Append(p, c)) : Append(p, c)[i] # "/"
        BY <1>3, <3>1, <3>2, <3>3
    <3> QED BY <3>2, <3>4 DEF Part
  <2>4. AddChar(parts, before, c) = Append(Front(parts), Append(p, c))
      BY <1>3 DEF AddChar
  <2> HIDE DEF p
  <2> QED BY <2>2, <2>3, <2>4, AppendProperties
<1> QED BY <1>1, <1>2, <1>3

\* The scan exists, and after k characters it has the parts that there are.
LEMMA Scan ==
    ASSUME NEW C, NEW s \in Seq(C)
    PROVE  \E w \in [0..Len(s) -> Seq(Part(C))] :
               /\ w[0] = <<>>
               /\ \A k \in 1..Len(s) :
                     w[k] = AddChar(w[k - 1], IF k = 1 THEN "/" ELSE s[k - 1], s[k])
               /\ \A k \in 1..Len(s) : s[k] # "/" => w[k] # <<>>
               /\ DoSplit(s) = w[Len(s)]
<1> DEFINE S == Seq(Part(C))
           B(k) == IF k = 1 THEN "/" ELSE s[k - 1]
           G == [k \in 0..Len(s) |->
                    {a \in S : k # 0 /\ s[k] # "/" => a # <<>>}]
           f == [k \in 1..Len(s) |-> [a \in S |-> AddChar(a, B(k), s[k])]]
           body(w) == [k \in 0..Len(s) |-> IF k = 0 THEN <<>>
                                           ELSE AddChar(w[k - 1], B(k), s[k])]
           rec == CHOOSE w : w = body(w)
<1>1. Len(s) \in Nat /\ \A k \in 1..Len(s) : s[k] \in C
    BY LenProperties, ElementOfSeq
<1>2. G \in [0..Len(s) -> SUBSET S] /\ <<>> \in G[0]
    BY <1>1, EmptySeq
<1>3. ASSUME NEW k \in 1..Len(s), NEW a \in G[k - 1] PROVE f[k][a] \in G[k]
  <2>1. k \in Nat /\ k - 1 \in 0..Len(s) /\ k \in 0..Len(s) /\ k # 0
      BY <1>1
  <2>2. a \in S /\ (k - 1 # 0 /\ s[k - 1] # "/" => a # <<>>)
      BY <2>1
  <2>3. B(k) = "/" \/ s[k] = "/" \/ a # <<>>
      BY <2>1, <2>2
  <2>4. /\ AddChar(a, B(k), s[k]) \in S
        /\ s[k] # "/" => AddChar(a, B(k), s[k]) # <<>>
    <3> HIDE DEF B
    <3> QED BY <1>1, <2>2, <2>3, AddCharType
  <2>5. f[k][a] = AddChar(a, B(k), s[k])
      BY <2>2
  <2> QED BY <2>1, <2>4, <2>5
<1>4. PICK w \in [0..Len(s) -> S] :
          /\ w[0] = <<>> /\ \A k \in 1..Len(s) : w[k] = f[k][w[k - 1]]
          /\ \A k \in 0..Len(s) : w[k] \in G[k]
  <2> HIDE DEF f, G, S
  <2>1. Keeps(f, G, Len(s))
      BY <1>3 DEF Keeps
  <2>2. \E w \in [0..Len(s) -> S] :
            w[0] = <<>> /\ Follows(w, f, Len(s)) /\ Within(w, G, Len(s))
      BY <1>1, <1>2, <2>1, Recursion
  <2> QED BY <2>2 DEF Follows, Within
<1>5. ASSUME NEW k \in 1..Len(s) PROVE w[k] = AddChar(w[k - 1], B(k), s[k])
  <2>1. w[k - 1] \in S
      BY <1>1
  <2>2. f[k][w[k - 1]] = AddChar(w[k - 1], B(k), s[k])
    <3> HIDE DEF S, B
    <3> QED BY <2>1
  <2> QED BY <1>4, <2>2
<1>6. w = body(w)
    BY <1>4, <1>5
<1>7. rec = body(rec)
  <2> HIDE DEF body
  <2> QED BY <1>6
<1>8. DoSplit(s) = rec[Len(s)]
    BY DEF DoSplit
<1>9. rec[Len(s)] = w[Len(s)]
  <2> HIDE DEF rec
  <2>1. rec[0] = w[0]
      BY <1>1, <1>4, <1>7
  <2>2. \A k \in 1..Len(s) : rec[k] = AddChar(rec[k - 1], B(k), s[k])
      BY <1>1, <1>7
  <2>3. SameSteps(rec, w, Len(s))
    <3> HIDE DEF B
    <3> QED BY <1>5, <2>2 DEF SameSteps
  <2>4. Len(s) \in Nat
      BY <1>1
  <2> QED BY <2>1, <2>3, <2>4, AgreeAtEnd
<1>10. \A k \in 1..Len(s) : s[k] # "/" => w[k] # <<>>
  <2>1. \A k \in 1..Len(s) : w[k] \in G[k] /\ k \in 0..Len(s) /\ k # 0
      BY <1>1, <1>4
  <2> QED BY <2>1
<1>11. DoSplit(s) = w[Len(s)]
  <2> HIDE DEF rec
  <2> QED BY <1>8, <1>9
<1> HIDE DEF rec, body, f, G
<1> QED BY <1>4, <1>5, <1>10, <1>11

\* What DoSplit gives for no characters, and for one more.
LEMMA DoSplitEmpty == DoSplit(<<>>) = <<>>
<1> DEFINE none == <<>>
<1>1. none \in Seq({}) /\ Len(none) = 0
    BY EmptySeq
<1> HIDE DEF none
<1>2. \E w \in [0..Len(none) -> Seq(Part({}))] :
          /\ w[0] = <<>>
          /\ \A k \in 1..Len(none) :
                w[k] = AddChar(w[k - 1], IF k = 1 THEN "/" ELSE none[k - 1], none[k])
          /\ \A k \in 1..Len(none) : none[k] # "/" => w[k] # <<>>
          /\ DoSplit(none) = w[Len(none)]
    BY <1>1, Scan
<1>3. DoSplit(none) = <<>>
    BY <1>1, <1>2
<1> QED BY <1>3 DEF none

LEMMA DoSplitAppend ==
    ASSUME NEW C, NEW s \in Seq(C), NEW c \in C
    PROVE  DoSplit(Append(s, c)) =
               AddChar(DoSplit(s), IF s = <<>> THEN "/" ELSE s[Len(s)], c)
<1> DEFINE t == Append(s, c)
           n == Len(s)
<1>1. /\ n \in Nat /\ t \in Seq(C) /\ Len(t) = n + 1 /\ t[n + 1] = c
      /\ \A i \in 1..n : t[i] = s[i]
      /\ s = <<>> <=> n = 0
    BY AppendProperties, LenProperties, EmptySeq
<1> HIDE DEF t, n
<1>2. PICK w : /\ w[0] = <<>> /\ DoSplit(s) = w[n]
               /\ \A k \in 1..n :
                     w[k] = AddChar(w[k - 1], IF k = 1 THEN "/" ELSE s[k - 1], s[k])
    BY Scan DEF n
<1>3. PICK v : /\ v[0] = <<>> /\ DoSplit(t) = v[n + 1]
               /\ \A k \in 1..(n + 1) :
                     v[k] = AddChar(v[k - 1], IF k = 1 THEN "/" ELSE t[k - 1], t[k])
  <2>1. t \in Seq(C) /\ Len(t) = n + 1
      BY <1>1
  <2>2. \E v \in [0..Len(t) -> Seq(Part(C))] :
            /\ v[0] = <<>>
            /\ \A k \in 1..Len(t) :
                  v[k] = AddChar(v[k - 1], IF k = 1 THEN "/" ELSE t[k - 1], t[k])
            /\ \A k \in 1..Len(t) : t[k] # "/" => v[k] # <<>>
            /\ DoSplit(t) = v[Len(t)]
      BY <2>1, Scan
  <2> QED BY <2>1, <2>2
<1>4. ASSUME NEW k \in 1..n, v[k - 1] = w[k - 1] PROVE v[k] = w[k]
  <2>1. t[k] = s[k] /\ (k = 1 \/ t[k - 1] = s[k - 1]) /\ k \in 1..(n + 1)
      BY <1>1
  <2>3. (IF k = 1 THEN "/" ELSE t[k - 1]) = (IF k = 1 THEN "/" ELSE s[k - 1])
      BY <2>1
  <2>4. /\ w[k] = AddChar(w[k - 1], IF k = 1 THEN "/" ELSE s[k - 1], s[k])
        /\ v[k] = AddChar(v[k - 1], IF k = 1 THEN "/" ELSE t[k - 1], t[k])
      BY <1>2, <1>3, <2>1
  <2> QED BY <1>4, <2>1, <2>3, <2>4
<1>5. v[n] = w[n]
  <2>1. n \in Nat /\ v[0] = w[0]
      BY <1>1, <1>2, <1>3
  <2>2. SameSteps(v, w, n)
      BY <1>4 DEF SameSteps
  <2> QED BY <2>1, <2>2, AgreeAtEnd
<1>6. v[n + 1] = AddChar(v[n], IF n + 1 = 1 THEN "/" ELSE t[n], t[n + 1])
    BY <1>1, <1>3
<1>7. (IF n + 1 = 1 THEN "/" ELSE t[n]) = (IF s = <<>> THEN "/" ELSE s[n])
    BY <1>1
<1>8. DoSplit(t) = AddChar(DoSplit(s), IF s = <<>> THEN "/" ELSE s[n], c)
    BY <1>1, <1>2, <1>3, <1>5, <1>6, <1>7
<1> QED BY <1>8 DEF t, n

\* DoSplit gives parts, and one at least for a path that does not end with a
\* slash.
LEMMA DoSplitType ==
    ASSUME NEW C, NEW s \in Seq(C)
    PROVE  /\ DoSplit(s) \in Seq(Part(C))
           /\ s # <<>> /\ s[Len(s)] # "/" => DoSplit(s) # <<>>
<1>1. PICK w \in [0..Len(s) -> Seq(Part(C))] :
          /\ \A k \in 1..Len(s) : s[k] # "/" => w[k] # <<>>
          /\ DoSplit(s) = w[Len(s)]
    BY Scan
<1>2. Len(s) \in Nat /\ (s # <<>> => Len(s) \in 1..Len(s))
    BY LenProperties, EmptySeq
<1> QED BY <1>1, <1>2

\* A slash, or nothing at all, between two paths separates their parts.
LEMMA AddCharConcat ==
    ASSUME NEW C, NEW a \in Seq(Part(C)), NEW b \in Seq(Part(C)), NEW c \in C,
           NEW before, before = "/" \/ c = "/" \/ b # <<>>
    PROVE  AddChar(a \o b, before, c) = a \o AddChar(b, before, c)
<1>1. CASE c = "/"
    BY <1>1 DEF AddChar
<1>2. CASE c # "/" /\ before = "/"
  <2> DEFINE p == <<c>>
  <2>1. p \in Part(C)
      BY <1>2 DEF Part
  <2>2. /\ AddChar(a \o b, before, c) = Append(a \o b, p)
        /\ AddChar(b, before, c) = Append(b, p)
      BY <1>2 DEF AddChar
  <2> HIDE DEF p
  <2>3. a \o Append(b, p) = Append(a \o b, p)
      BY <2>1, ConcatAppend
  <2> QED BY <2>2, <2>3
<1>3. CASE c # "/" /\ before # "/"
  <2> DEFINE l == Last(b)
             p == Append(l, c)
             f == Front(b)
  <2>1. b # <<>>
      BY <1>3
  <2>2. f \in Seq(Part(C)) /\ l \in Part(C) /\ b = Append(f, l)
      BY <2>1, FrontLast
  <2>3. a \o Append(f, l) = Append(a \o f, l)
    <3> HIDE DEF f, l
    <3> QED BY <2>2, ConcatAppend
  <2>4. a \o f \in Seq(Part(C))
    <3> HIDE DEF f
    <3> QED BY <2>2, ConcatProperties
  <2>5. Front(a \o b) = a \o f /\ Last(a \o b) = l
    <3> HIDE DEF f, l
    <3>1. /\ Front(Append(a \o f, l)) = a \o f
          /\ Last(Append(a \o f, l)) = l
        BY <2>2, <2>4, FrontOfAppend
    <3> QED BY <2>2, <2>3, <3>1
  <2>6. /\ AddChar(a \o b, before, c) = Append(a \o f, p)
        /\ AddChar(b, before, c) = Append(f, p)
      BY <1>3, <2>5 DEF AddChar
  <2>7. p \in Part(C)
    <3>1. Append(f, p) \in Seq(Part(C)) /\ Len(Append(f, p)) = Len(f) + 1
          /\ Append(f, p)[Len(f) + 1] = p /\ Len(f) \in Nat
      <4> HIDE DEF f, p
      <4>1. AddChar(b, before, c) \in Seq(Part(C))
          BY <2>1, AddCharType
      <4>2. f \in Seq(Part(C) \cup {p}) /\ p \in Part(C) \cup {p}
          BY <2>2, SeqMonotonic
      <4> QED BY <2>2, <2>6, <4>1, <4>2, AppendProperties, LenProperties
    <3> HIDE DEF f, p
    <3> QED BY <3>1, ElementOfSeq
  <2>8. a \o Append(f, p) = Append(a \o f, p)
    <3> HIDE DEF f, p
    <3> QED BY <2>2, <2>7, ConcatAppend
  <2> QED BY <2>6, <2>8
<1> QED BY <1>1, <1>2, <1>3

LEMMA DoSplitConcat ==
    ASSUME NEW C, NEW s \in Seq(C), NEW r \in Seq(C),
           s = <<>> \/ s[Len(s)] = "/" \/ r = <<>> \/ r[1] = "/"
    PROVE  DoSplit(s \o r) = DoSplit(s) \o DoSplit(r)
<1> DEFINE Separate(t) == s = <<>> \/ s[Len(s)] = "/" \/ t = <<>> \/ t[1] = "/"
           T == {t \in Seq(C) :
                    Separate(t) => DoSplit(s \o t) = DoSplit(s) \o DoSplit(t)}
<1>1. <<>> \in T
  <2>1. s \o <<>> = s /\ DoSplit(s) \o <<>> = DoSplit(s)
      BY ConcatEmptySeq, DoSplitType
  <2>2. DoSplit(s \o <<>>) = DoSplit(s) \o DoSplit(<<>>)
      BY <2>1, DoSplitEmpty
  <2> HIDE DEF Separate
  <2> QED BY <2>2, EmptySeq
<1>2. ASSUME NEW t \in T, NEW c \in C PROVE Append(t, c) \in T
  <2> DEFINE u == Append(t, c)
             BS == IF s \o t = <<>> THEN "/" ELSE (s \o t)[Len(s \o t)]
             B == IF t = <<>> THEN "/" ELSE t[Len(t)]
  <2>1. /\ t \in Seq(C) /\ u \in Seq(C) /\ s \o t \in Seq(C)
        /\ s \o u = Append(s \o t, c)
    <3>1. t \in Seq(C)
        OBVIOUS
    <3> HIDE DEF T
    <3>2. u \in Seq(C)
        BY <3>1, AppendProperties
    <3>3. s \o t \in Seq(C)
        BY <3>1, ConcatProperties
    <3>4. s \o u = Append(s \o t, c)
        BY <3>1, ConcatAppend
    <3> QED BY <3>1, <3>2, <3>3, <3>4
  <2>2. SUFFICES ASSUME Separate(u) PROVE DoSplit(s \o u) = DoSplit(s) \o DoSplit(u)
      BY <2>1
  <2>3. /\ DoSplit(s \o u) = AddChar(DoSplit(s \o t), BS, c)
        /\ DoSplit(u) = AddChar(DoSplit(t), B, c)
      BY <2>1, DoSplitAppend
  <2>4. DoSplit(s) \in Seq(Part(C)) /\ DoSplit(t) \in Seq(Part(C))
      BY <2>1, DoSplitType
  <2>5. CASE t = <<>>
    <3>1. s \o t = s /\ u = <<c>> /\ u[1] = c /\ u # <<>>
        BY <2>1, <2>5, ConcatEmptySeq, AppendProperties
    <3>2. BS = "/" \/ c = "/"
        BY <2>2, <3>1
    <3>3. B = "/" /\ DoSplit(t) = <<>> /\ DoSplit(s) \o <<>> = DoSplit(s)
        BY <2>4, <2>5, DoSplitEmpty, ConcatEmptySeq
    <3>4. AddChar(DoSplit(s), BS, c) = AddChar(DoSplit(s), "/", c)
        BY <3>2 DEF AddChar
    <3>5. AddChar(DoSplit(t), B, c) = AddChar(DoSplit(t), "/", c)
        BY <3>3
    <3>6. AddChar(DoSplit(s) \o DoSplit(t), "/", c) =
              DoSplit(s) \o AddChar(DoSplit(t), "/", c)
      <4> DEFINE a == DoSplit(s)
                 b == DoSplit(t)
      <4>1. a \in Seq(Part(C)) /\ b \in Seq(Part(C))
          BY <2>4
      <4> HIDE DEF a, b, T, u, BS, B
      <4>2. AddChar(a \o b, "/", c) = a \o AddChar(b, "/", c)
          BY <4>1, AddCharConcat
      <4> QED BY <4>2 DEF a, b
    <3> QED BY <2>3, <3>1, <3>3, <3>4, <3>5, <3>6
  <2>6. CASE t # <<>>
    <3>1. Len(t) \in Nat \ {0} /\ Len(s) \in Nat
        BY <2>1, <2>6, EmptySeq, LenProperties
    <3>2. u[1] = t[1] /\ u # <<>>
        BY <2>1, <3>1, AppendProperties
    <3>3. DoSplit(s \o t) = DoSplit(s) \o DoSplit(t)
        BY <2>2, <2>6, <3>2
    <3>4. s \o t # <<>> /\ (s \o t)[Len(s \o t)] = t[Len(t)]
        BY <2>1, <3>1, ConcatProperties, EmptySeq
    <3>5. BS = B
        BY <2>6, <3>4
    <3>6. B = "/" \/ c = "/" \/ DoSplit(t) # <<>>
        BY <2>1, <2>6, DoSplitType
    <3>7. AddChar(DoSplit(s) \o DoSplit(t), B, c) =
              DoSplit(s) \o AddChar(DoSplit(t), B, c)
      <4> DEFINE a == DoSplit(s)
                 b == DoSplit(t)
      <4>1. /\ a \in Seq(Part(C)) /\ b \in Seq(Part(C))
            /\ B = "/" \/ c = "/" \/ b # <<>>
          BY <2>4, <3>6
      <4> HIDE DEF a, b, T, u, BS, B
      <4>2. AddChar(a \o b, B, c) = a \o AddChar(b, B, c)
          BY <4>1, AddCharConcat
      <4> QED BY <4>2 DEF a, b
    <3> QED BY <2>3, <3>3, <3>5, <3>7
  <2> QED BY <2>5, <2>6
<1>3. T = Seq(C)
  <2> HIDE DEF T
  <2>1. T \subseteq Seq(C) BY DEF T
  <2> QED BY <1>1, <1>2, <2>1, SeqInduction
<1> QED BY <1>3

\* A part has only itself as a part.
LEMMA DoSplitPart ==
    ASSUME NEW C, NEW p \in Part(C)
    PROVE  DoSplit(p) = <<p>>
<1> DEFINE Free(t) == \A i \in 1..Len(t) : t[i] # "/"
           T == {t \in Seq(C) : t # <<>> /\ Free(t) => DoSplit(t) = <<t>>}
<1>1. <<>> \in T
    BY EmptySeq
<1>2. ASSUME NEW t \in T, NEW c \in C PROVE Append(t, c) \in T
  <2> DEFINE u == Append(t, c)
  <2>1. /\ t \in Seq(C) /\ u \in Seq(C) /\ Len(u) = Len(t) + 1 /\ Len(t) \in Nat
        /\ u[Len(t) + 1] = c /\ \A i \in 1..Len(t) : u[i] = t[i]
      BY AppendProperties, LenProperties
  <2>2. ASSUME Free(u) PROVE DoSplit(u) = <<u>>
    <3>1. c # "/" /\ Free(t)
        BY <2>1, <2>2
    <3>2. DoSplit(u) = AddChar(DoSplit(t), IF t = <<>> THEN "/" ELSE t[Len(t)], c)
        BY <2>1, DoSplitAppend
    <3>3. CASE t = <<>>
      <4>1. DoSplit(u) = AddChar(<<>>, "/", c)
          BY <3>2, <3>3, DoSplitEmpty
      <4>2. DoSplit(u) = Append(<<>>, <<c>>)
          BY <3>1, <4>1 DEF AddChar
      <4>3. Append(<<>>, <<c>>) = <<<<c>>>> /\ u = <<c>>
          BY <3>3
      <4> QED BY <4>2, <4>3
    <3>4. CASE t # <<>>
      <4>1. DoSplit(t) = <<t>> /\ t[Len(t)] # "/"
          BY <2>1, <3>1, <3>4, EmptySeq
      <4>2. DoSplit(u) = Append(Front(<<t>>), Append(Last(<<t>>), c))
          BY <3>1, <3>2, <3>4, <4>1 DEF AddChar
      <4>3. Front(<<t>>) = <<>> /\ Last(<<t>>) = t
          BY DEF Front, Last
      <4>4. Append(<<>>, u) = <<u>>
          OBVIOUS
      <4> QED BY <4>2, <4>3, <4>4
    <3> QED BY <3>3, <3>4
  <2> QED BY <2>1, <2>2
<1>3. T = Seq(C)
  <2> HIDE DEF T
  <2>1. T \subseteq Seq(C) BY DEF T
  <2> QED BY <1>1, <1>2, <2>1, SeqInduction
<1>4. p \in T
    BY <1>3 DEF Part
<1> QED BY <1>4 DEF Part

\* The places in a path where a part may begin and where one ends.
Ready(a) == a = <<>> \/ a[Len(a)] = "/"
Ended(b) == b = <<>> \/ b[1] = "/"

\* A path begins with a run without slashes, which may be empty.
LEMMA FirstRun ==
    ASSUME NEW C, NEW s \in Seq(C)
    PROVE  \E q \in Seq(C), b \in Seq(C) :
               s = Cat(q, b) /\ (q = <<>> \/ q \in Part(C)) /\ Ended(b)
<1> DEFINE Run(t, q, b) == /\ t = q \o b
                           /\ \A i \in 1..Len(q) : q[i] # "/"
                           /\ b = <<>> \/ b[1] = "/"
           T == {t \in Seq(C) : \E q \in Seq(C), b \in Seq(C) : Run(t, q, b)}
<1>1. <<>> \in T
  <2>1. Run(<<>>, <<>>, <<>>) /\ <<>> \in Seq(C)
      BY EmptySeq, ConcatEmptySeq
  <2> HIDE DEF Run
  <2> QED BY <2>1
<1>2. ASSUME NEW t \in T, NEW c \in C PROVE Append(t, c) \in T
  <2>1. PICK q \in Seq(C), b \in Seq(C) : Run(t, q, b)
      OBVIOUS
  <2>2. Append(t, c) = q \o Append(b, c) /\ Append(t, c) \in Seq(C)
    <3> HIDE DEF T
    <3>1. q \o Append(b, c) = Append(q \o b, c)
      <4> HIDE DEF Run
      <4> QED BY ConcatAppend
    <3>2. t \in Seq(C) /\ t = q \o b
        BY <2>1 DEF T
    <3> QED BY <3>1, <3>2, AppendProperties
  <2>3. CASE b # <<>> \/ c = "/"
    <3>1. Append(b, c) \in Seq(C) /\ Append(b, c)[1] = "/"
        BY <2>1, <2>3, AppendProperties, EmptySeq
    <3>2. Run(Append(t, c), q, Append(b, c))
        BY <2>1, <2>2, <3>1
    <3> HIDE DEF Run
    <3> QED BY <2>2, <3>1, <3>2
  <2>4. CASE b = <<>> /\ c # "/"
    <3> DEFINE u == Append(q, c)
    <3>1. /\ u \in Seq(C) /\ Len(u) = Len(q) + 1 /\ Len(q) \in Nat
          /\ u[Len(q) + 1] = c /\ \A i \in 1..Len(q) : u[i] = q[i]
        BY AppendProperties, LenProperties
    <3>2. t = q /\ Append(t, c) = u /\ u \o <<>> = u
        BY <2>1, <2>4, <3>1, ConcatEmptySeq
    <3>3. \A i \in 1..Len(u) : u[i] # "/"
        BY <2>1, <2>4, <3>1
    <3>4. Run(Append(t, c), u, <<>>) /\ <<>> \in Seq(C)
        BY <3>2, <3>3, EmptySeq
    <3> HIDE DEF Run, u
    <3> QED BY <2>2, <3>1, <3>4
  <2> QED BY <2>3, <2>4
<1>3. T = Seq(C)
  <2> HIDE DEF T
  <2>1. T \subseteq Seq(C) BY DEF T
  <2> QED BY <1>1, <1>2, <2>1, SeqInduction
<1>4. s \in T
    BY <1>3
<1>5. PICK q \in Seq(C), b \in Seq(C) : Run(s, q, b)
    BY <1>4
<1>6. s = Cat(q, b) /\ (q = <<>> \/ q \in Part(C)) /\ Ended(b)
    BY <1>5 DEF Cat, Part, Ended
<1> QED BY <1>6

LEMMA CatSplit ==
    ASSUME NEW C, NEW s \in Seq(C), NEW r \in Seq(C), Ready(s) \/ Ended(r)
    PROVE  DoSplit(Cat(s, r)) = Cat(DoSplit(s), DoSplit(r))
<1>1. DoSplit(s \o r) = DoSplit(s) \o DoSplit(r)
    BY DoSplitConcat DEF Ready, Ended
<1> QED BY <1>1 DEF Cat

\* A run without slashes that slashes, or the ends of the path, enclose is one
\* of the parts: the next one after those in what is before it.
LEMMA DoSplitRun ==
    ASSUME NEW C, NEW a \in Seq(C), NEW q \in Part(C), NEW b \in Seq(C),
           Ready(a), Ended(b)
    PROVE  /\ DoSplit(Cat(a, Cat(q, b))) = Cat(DoSplit(a), Cat(<<q>>, DoSplit(b)))
           /\ q \in ToSet(DoSplit(Cat(a, Cat(q, b))))
<1> DEFINE one == <<q>>
           d == DoSplit(Cat(a, Cat(q, b)))
<1>1. q \in Seq(C) /\ Cat(q, b) \in Seq(C)
    BY CatType DEF Part
<1>2. d = Cat(DoSplit(a), DoSplit(Cat(q, b)))
    BY <1>1, CatSplit
<1>3. DoSplit(Cat(q, b)) = Cat(DoSplit(q), DoSplit(b))
    BY <1>1, CatSplit
<1>4. DoSplit(q) = one
    BY DoSplitPart
<1>5. DoSplit(a) \in Seq(Part(C)) /\ DoSplit(b) \in Seq(Part(C))
    BY DoSplitType
<1> HIDE DEF one, d
<1>6. d = Cat(DoSplit(a), Cat(one, DoSplit(b)))
    BY <1>2, <1>3, <1>4
<1>7. q \in ToSet(d)
  <2> DEFINE da == DoSplit(a)
             db == DoSplit(b)
  <2>1. da \in Seq(Part(C)) /\ db \in Seq(Part(C))
      BY <1>5
  <2> HIDE DEF da, db
  <2> DEFINE p == da \o (<<q>> \o db)
  <2>2. p \in Seq(Part(C)) /\ Len(da) + 1 \in 1..Len(p) /\ p[Len(da) + 1] = q
      BY <2>1, ConcatMember
  <2> HIDE DEF p
  <2>3. q \in ToSet(p)
      BY <2>2, LenProperties DEF ToSet
  <2> QED BY <1>6, <2>3 DEF p, Cat, one, da, db
<1> QED BY <1>6, <1>7 DEF one, d

-----------------------------------------------------------------------------
(***************************************************************************)
(* ToVpath.                                                                *)
(***************************************************************************)
Strings(C) == Seq(C)

LEMMA DoSplitRoot == DoSplit(Root) = <<>>
<1>1. Root = Append(<<>>, "/") /\ <<>> \in Seq({"/"})
    BY EmptySeq DEF Root
<1>2. DoSplit(Root) = AddChar(DoSplit(<<>>), "/", "/")
    BY <1>1, DoSplitAppend
<1> QED BY <1>2, DoSplitEmpty DEF AddChar

LEMMA ToVpathEmpty == ToVpath(<<>>) = Root
    BY DEF ToVpath

LEMMA Join ==
    ASSUME NEW C, "/" \in C, NEW parts \in Seq(Strings(C))
    PROVE  \E w \in [0..Len(parts) -> Strings(C)] :
               /\ w[0] = <<>>
               /\ \A k \in 1..Len(parts) : w[k] = w[k - 1] \o Root \o parts[k]
               /\ parts # <<>> => ToVpath(parts) = w[Len(parts)]
<1> DEFINE S == Strings(C)
           G == [k \in 0..Len(parts) |-> S]
           f == [k \in 1..Len(parts) |-> [a \in S |-> a \o Root \o parts[k]]]
           body(w) == [k \in 0..Len(parts) |->
                          IF k = 0 THEN <<>> ELSE w[k - 1] \o Root \o parts[k]]
           rec == CHOOSE w : w = body(w)
<1>1. /\ Len(parts) \in Nat /\ Root \in S
      /\ \A k \in 1..Len(parts) : parts[k] \in S
    BY LenProperties, ElementOfSeq DEF Root, Strings
<1>2. G \in [0..Len(parts) -> SUBSET S] /\ <<>> \in G[0]
    BY <1>1, EmptySeq DEF Strings
<1>3. ASSUME NEW k \in 1..Len(parts), NEW a \in G[k - 1] PROVE f[k][a] \in G[k]
  <2>1. k - 1 \in 0..Len(parts) /\ k \in 0..Len(parts) /\ a \in S
      BY <1>1
  <2>2. a \o Root \o parts[k] \in S
      BY <1>1, <2>1, ConcatProperties DEF Strings
  <2> QED BY <2>1, <2>2
<1>4. PICK w \in [0..Len(parts) -> S] :
          /\ w[0] = <<>> /\ \A k \in 1..Len(parts) : w[k] = f[k][w[k - 1]]
          /\ \A k \in 0..Len(parts) : w[k] \in G[k]
  <2>1. Len(parts) \in Nat
      BY <1>1
  <2> HIDE DEF f, G, S
  <2>2. Keeps(f, G, Len(parts))
      BY <1>3 DEF Keeps
  <2>3. \E w \in [0..Len(parts) -> S] :
            w[0] = <<>> /\ Follows(w, f, Len(parts)) /\ Within(w, G, Len(parts))
      BY <1>2, <2>1, <2>2, Recursion
  <2> QED BY <2>3 DEF Follows, Within
<1>5. ASSUME NEW k \in 1..Len(parts) PROVE w[k] = w[k - 1] \o Root \o parts[k]
  <2>1. w[k - 1] \in S
    <3>1. Len(parts) \in Nat /\ k - 1 \in 0..Len(parts)
        BY <1>1
    <3> HIDE DEF S
    <3> QED BY <3>1
  <2>2. f[k][w[k - 1]] = w[k - 1] \o Root \o parts[k]
    <3> HIDE DEF S
    <3> QED BY <2>1
  <2> QED BY <1>4, <2>2
<1>6. w = body(w)
    BY <1>4, <1>5
<1>7. rec = body(rec)
  <2> HIDE DEF body
  <2> QED BY <1>6
<1>8. parts # <<>> => ToVpath(parts) = rec[Len(parts)]
    BY DEF ToVpath
<1>9. rec[Len(parts)] = w[Len(parts)]
  <2> HIDE DEF rec
  <2>1. rec[0] = w[0]
      BY <1>1, <1>4, <1>7
  <2>2. ASSUME NEW k \in 1..Len(parts)
        PROVE  rec[k] = rec[k - 1] \o Root \o parts[k]
    <3>1. k \in 0..Len(parts) /\ k # 0
        BY <1>1
    <3>2. body(rec)[k] = rec[k - 1] \o Root \o parts[k]
        BY <3>1
    <3> HIDE DEF body
    <3> QED BY <1>7, <3>2
  <2>3. SameSteps(rec, w, Len(parts))
      BY <1>5, <2>2 DEF SameSteps
  <2>4. Len(parts) \in Nat
      BY <1>1
  <2> QED BY <2>1, <2>3, <2>4, AgreeAtEnd
<1>10. parts # <<>> => ToVpath(parts) = w[Len(parts)]
  <2> HIDE DEF rec
  <2> QED BY <1>8, <1>9
<1> HIDE DEF rec, body, f, G
<1> QED BY <1>4, <1>5, <1>10

\* One more part.
LEMMA ToVpathAppend ==
    ASSUME NEW C, "/" \in C, NEW parts \in Seq(Strings(C)), NEW p \in Strings(C)
    PROVE  ToVpath(Append(parts, p)) =
               (IF parts = <<>> THEN <<>> ELSE ToVpath(parts)) \o Root \o p
<1> DEFINE t == Append(parts, p)
           n == Len(parts)
<1>1. /\ n \in Nat /\ t \in Seq(Strings(C)) /\ Len(t) = n + 1 /\ t[n + 1] = p
      /\ t # <<>> /\ \A i \in 1..n : t[i] = parts[i]
      /\ parts = <<>> <=> n = 0
    BY AppendProperties, LenProperties, EmptySeq
<1> HIDE DEF t, n
<1>2. PICK w : /\ w[0] = <<>>
               /\ parts # <<>> => ToVpath(parts) = w[n]
               /\ \A k \in 1..n : w[k] = w[k - 1] \o Root \o parts[k]
    BY Join DEF n
<1>3. PICK v : /\ v[0] = <<>> /\ ToVpath(t) = v[n + 1]
               /\ \A k \in 1..(n + 1) : v[k] = v[k - 1] \o Root \o t[k]
  <2>1. t \in Seq(Strings(C)) /\ Len(t) = n + 1 /\ t # <<>>
      BY <1>1
  <2>2. \E v \in [0..Len(t) -> Strings(C)] :
            /\ v[0] = <<>>
            /\ \A k \in 1..Len(t) : v[k] = v[k - 1] \o Root \o t[k]
            /\ t # <<>> => ToVpath(t) = v[Len(t)]
      BY <2>1, Join
  <2> QED BY <2>1, <2>2
<1>4. ASSUME NEW k \in 1..n, v[k - 1] = w[k - 1] PROVE v[k] = w[k]
  <2>1. t[k] = parts[k] /\ k \in 1..(n + 1)
      BY <1>1
  <2>2. w[k] = w[k - 1] \o Root \o parts[k] /\ v[k] = v[k - 1] \o Root \o t[k]
      BY <1>2, <1>3, <2>1
  <2> QED BY <1>4, <2>1, <2>2
<1>5. v[n] = w[n]
  <2>1. n \in Nat /\ v[0] = w[0]
      BY <1>1, <1>2, <1>3
  <2>2. \A k \in 1..n : v[k - 1] = w[k - 1] => v[k] = w[k]
      BY <1>4
  <2>3. \A k \in 0..n : v[k] = w[k]
      BY <2>1, <2>2, Agree, Z3
  <2> QED BY <2>1, <2>3
<1>6. v[n + 1] = v[n] \o Root \o p
  <2>1. n + 1 \in 1..(n + 1) /\ (n + 1) - 1 = n /\ t[n + 1] = p
      BY <1>1
  <2> QED BY <1>3, <2>1
<1>7. ToVpath(t) = (IF parts = <<>> THEN <<>> ELSE ToVpath(parts)) \o Root \o p
    BY <1>1, <1>2, <1>3, <1>5, <1>6
<1> QED BY <1>7 DEF t

\* Splitting gives back the parts that were joined.
LEMMA DoSplitToVpath ==
    ASSUME NEW C, "/" \in C, NEW parts \in Seq(Part(C))
    PROVE  /\ ToVpath(parts) \in Seq(C)
           /\ ToVpath(parts) # <<>> /\ ToVpath(parts)[1] = "/"
           /\ parts # <<>> => ToVpath(parts)[Len(ToVpath(parts))] # "/"
           /\ DoSplit(ToVpath(parts)) = parts
<1> DEFINE Good(t) == /\ ToVpath(t) \in Seq(C)
                      /\ ToVpath(t) # <<>> /\ ToVpath(t)[1] = "/"
                      /\ t # <<>> => ToVpath(t)[Len(ToVpath(t))] # "/"
                      /\ DoSplit(ToVpath(t)) = t
           T == {t \in Seq(Part(C)) : Good(t)}
<1>0. Root \in Seq(C) /\ Len(Root) = 1 /\ Root[1] = "/" /\ Root # <<>>
    BY DEF Root
<1>1. DoSplit(Root) = <<>>
    BY DoSplitRoot
<1>2. <<>> \in T
    BY <1>0, <1>1, ToVpathEmpty, EmptySeq
<1>3. ASSUME NEW t \in T, NEW p \in Part(C) PROVE Append(t, p) \in T
  <2> DEFINE x == IF t = <<>> THEN <<>> ELSE ToVpath(t)
             y == Root \o p
             v == ToVpath(Append(t, p))
  <2>1. /\ t \in Seq(Part(C)) /\ Good(t) /\ p \in Seq(C) /\ p # <<>>
        /\ Len(p) \in Nat \ {0} /\ p[Len(p)] # "/"
      BY EmptySeq DEF Part
  <2>2. t \in Seq(Strings(C)) /\ p \in Strings(C)
    <3>1. Part(C) \subseteq Strings(C) BY DEF Part, Strings
    <3> QED BY <2>1, <3>1, SeqMonotonic
  <2>3. x \in Seq(C) /\ DoSplit(x) = t
      BY <2>1, DoSplitEmpty, EmptySeq
  <2>4. /\ y \in Seq(C) /\ Len(y) = Len(p) + 1 /\ y[1] = "/" /\ y # <<>>
        /\ y[Len(y)] = p[Len(p)]
    <3>1. /\ y \in Seq(C) /\ Len(y) = Len(Root) + Len(p)
          /\ \A i \in 1..(Len(Root) + Len(p)) :
                y[i] = IF i <= Len(Root) THEN Root[i] ELSE p[i - Len(Root)]
        BY <1>0, <2>1, ConcatProperties
    <3> HIDE DEF y
    <3>2. y # <<>>
        BY <1>0, <2>1, <3>1, EmptySeq
    <3> QED BY <1>0, <2>1, <3>1, <3>2
  <2>5. v = x \o y
    <3>1. v = x \o Root \o p
        BY <2>2, ToVpathAppend
    <3>2. (x \o Root) \o p = x \o (Root \o p)
      <4>1. x \in Seq(C) /\ Root \in Seq(C) /\ p \in Seq(C)
          BY <1>0, <2>1, <2>3
      <4> HIDE DEF x, T
      <4> QED BY <4>1, ConcatAssociative
    <3> QED BY <3>1, <3>2
  <2>6. DoSplit(y) = <<p>>
    <3>1. DoSplit(y) = DoSplit(Root) \o DoSplit(p)
      <4>1. Root \in Seq(C) /\ p \in Seq(C) /\ Root[Len(Root)] = "/"
          BY <1>0, <2>1
      <4> HIDE DEF T
      <4> QED BY <4>1, DoSplitConcat
    <3>2. DoSplit(p) = <<p>> /\ <<p>> \in Seq(Part(C))
        BY DoSplitPart
    <3> QED BY <1>1, <3>1, <3>2, ConcatEmptySeq
  <2>7. DoSplit(v) = Append(t, p)
    <3> HIDE DEF x, y, v
    <3>1. DoSplit(v) = DoSplit(x) \o DoSplit(y)
        BY <2>3, <2>4, <2>5, DoSplitConcat
    <3>2. Append(t, p) = t \o <<p>>
        BY <2>1, AppendIsConcat
    <3> QED BY <2>3, <2>6, <3>1, <3>2
  <2>8. v \in Seq(C) /\ v # <<>> /\ v[Len(v)] # "/" /\ v[1] = "/"
    <3>1. CASE t = <<>>
      <4>1. v = y
          BY <2>4, <2>5, <3>1, ConcatEmptySeq
      <4> HIDE DEF y, v
      <4> QED BY <2>1, <2>4, <4>1
    <3>2. CASE t # <<>>
      <4>1. x = ToVpath(t) /\ x # <<>> /\ x[1] = "/" /\ Len(x) \in Nat \ {0}
          BY <2>1, <2>3, <3>2, EmptySeq
      <4> HIDE DEF x, y, v
      <4>2. /\ v \in Seq(C) /\ Len(v) = Len(x) + Len(y)
            /\ \A i \in 1..(Len(x) + Len(y)) :
                  v[i] = IF i <= Len(x) THEN x[i] ELSE y[i - Len(x)]
          BY <2>3, <2>4, <2>5, ConcatProperties
      <4>3. v # <<>>
          BY <2>1, <2>4, <4>1, <4>2, EmptySeq
      <4>4. v[1] = x[1] /\ v[Len(v)] = y[Len(y)]
        <5>1. Len(x) \in Nat \ {0} /\ Len(y) \in Nat \ {0} /\ Len(v) = Len(x) + Len(y)
            BY <2>1, <2>4, <4>1, <4>2
        <5>2. /\ 1 \in 1..(Len(x) + Len(y)) /\ 1 <= Len(x)
              /\ Len(v) \in 1..(Len(x) + Len(y)) /\ ~(Len(v) <= Len(x))
              /\ Len(v) - Len(x) = Len(y)
            BY <5>1
        <5> QED BY <4>2, <5>2
      <4> QED BY <2>1, <2>4, <4>1, <4>2, <4>3, <4>4
    <3> QED BY <3>1, <3>2
  <2>9. Append(t, p) \in Seq(Part(C))
      BY <2>1, AppendProperties
  <2> QED BY <2>7, <2>8, <2>9
<1>4. T = Seq(Part(C))
  <2> HIDE DEF T
  <2>1. T \subseteq Seq(Part(C)) BY DEF T
  <2> QED BY <1>2, <1>3, <2>1, SeqInduction
<1>5. parts \in T
    BY <1>4
<1> QED BY <1>5

-----------------------------------------------------------------------------
(***************************************************************************)
(* Prefixes, of paths and of their parts.                                  *)
(***************************************************************************)
LEMMA PrefixDef ==
    ASSUME NEW S, NEW s \in Seq(S), NEW t \in Seq(S)
    PROVE  IsPrefix(s, t) <=>
               Len(s) <= Len(t) /\ \A i \in 1..Len(s) : s[i] = t[i]
<1>1. /\ Len(s) \in Nat /\ Len(t) \in Nat
      /\ \A i \in 1..Len(s) : s[i] \in S
      /\ \A i \in 1..Len(t) : t[i] \in S
    BY LenProperties, ElementOfSeq
<1>2. SUFFICES ASSUME Len(s) <= Len(t)
               PROVE  SubSeq(s, 1, Len(s)) = SubSeq(t, 1, Len(s)) <=>
                          \A i \in 1..Len(s) : s[i] = t[i]
    BY DEF IsPrefix
<1> DEFINE n == Len(s)
           u == SubSeq(t, 1, n)
<1>3. u \in Seq(S) /\ Len(u) = n /\ \A i \in 1..n : u[i] = t[i]
  <2>1. n \in Int /\ 1 \in Int /\ \A i \in 1..n : t[i] \in S
      BY <1>1, <1>2
  <2>2. /\ u \in Seq(S) /\ Len(u) = IF 1 <= n THEN n - 1 + 1 ELSE 0
        /\ \A i \in 1..(n - 1 + 1) : u[i] = t[1 + i - 1]
    <3> HIDE DEF n
    <3> QED BY <2>1, SubSeqProperties
  <2> HIDE DEF u
  <2> QED BY <1>1, <2>2
<1>4. SubSeq(s, 1, n) = s
    BY SubSeqFull
<1> HIDE DEF u
<1>5. s = u <=> \A i \in 1..n : s[i] = t[i]
  <2>1. ASSUME s = u PROVE \A i \in 1..n : s[i] = t[i]
      BY <1>3, <2>1
  <2>2. ASSUME \A i \in 1..n : s[i] = t[i] PROVE s = u
      BY <1>3, <2>2, SeqEqual
  <2> QED BY <2>1, <2>2
<1> QED BY <1>4, <1>5 DEF u

LEMMA PrefixTransitive ==
    ASSUME NEW S, NEW s \in Seq(S), NEW t \in Seq(S), NEW u \in Seq(S),
           IsPrefix(s, t), IsPrefix(t, u)
    PROVE  IsPrefix(s, u)
<1>1. Len(s) \in Nat /\ Len(t) \in Nat /\ Len(u) \in Nat
    BY LenProperties
<1>2. /\ Len(s) <= Len(t) /\ \A i \in 1..Len(s) : s[i] = t[i]
      /\ Len(t) <= Len(u) /\ \A i \in 1..Len(t) : t[i] = u[i]
    BY PrefixDef
<1>3. Len(s) <= Len(u) /\ \A i \in 1..Len(s) : s[i] = u[i]
    BY <1>1, <1>2
<1> QED BY <1>3, PrefixDef

LEMMA ConcatPrefix ==
    ASSUME NEW S, NEW s \in Seq(S), NEW r \in Seq(S)
    PROVE  IsPrefix(s, s \o r)
<1>1. /\ s \o r \in Seq(S) /\ Len(s \o r) = Len(s) + Len(r)
      /\ \A i \in 1..(Len(s) + Len(r)) :
            (s \o r)[i] = IF i <= Len(s) THEN s[i] ELSE r[i - Len(s)]
    BY ConcatProperties
<1>2. Len(s) \in Nat /\ Len(r) \in Nat
    BY LenProperties
<1> DEFINE t == s \o r
<1>3. Len(s) <= Len(t) /\ \A i \in 1..Len(s) : s[i] = t[i]
    BY <1>1, <1>2
<1>4. t \in Seq(S)
    BY <1>1
<1> HIDE DEF t
<1>5. IsPrefix(s, t)
    BY <1>3, <1>4, PrefixDef
<1> QED BY <1>5 DEF t

\* What is left after a prefix.
Rest(s, t) == SubSeq(t, Len(s) + 1, Len(t))

LEMMA PrefixRest ==
    ASSUME NEW S, NEW s \in Seq(S), NEW t \in Seq(S), IsPrefix(s, t)
    PROVE  Rest(s, t) \in Seq(S) /\ t = s \o Rest(s, t)
<1> DEFINE n == Len(s)
           m == Len(t)
           r == SubSeq(t, n + 1, m)
<1>1. n \in Nat /\ m \in Nat /\ \A i \in 1..m : t[i] \in S
    BY LenProperties, ElementOfSeq
<1>2. n <= m /\ \A i \in 1..n : s[i] = t[i]
    BY PrefixDef
<1>3. /\ r \in Seq(S) /\ Len(r) = m - n
      /\ \A i \in 1..(m - n) : r[i] = t[n + i]
  <2>1. n + 1 \in Int /\ m \in Int /\ \A i \in (n + 1)..m : t[i] \in S
      BY <1>1
  <2>2. /\ r \in Seq(S) /\ Len(r) = IF n + 1 <= m THEN m - (n + 1) + 1 ELSE 0
        /\ \A i \in 1..(m - (n + 1) + 1) : r[i] = t[(n + 1) + i - 1]
    <3> HIDE DEF n, m
    <3> QED BY <2>1, SubSeqProperties
  <2> HIDE DEF r, n, m
  <2> QED BY <1>1, <1>2, <2>2
<1> DEFINE u == s \o r
<1>4. /\ u \in Seq(S) /\ Len(u) = n + (m - n)
      /\ \A i \in 1..(n + (m - n)) : u[i] = IF i <= n THEN s[i] ELSE r[i - n]
  <2> HIDE DEF r
  <2> QED BY <1>3, ConcatProperties
<1>5. t = u
  <2> HIDE DEF u, r, n
  <2>1. Len(t) = Len(u)
      BY <1>1, <1>4
  <2>2. \A i \in 1..Len(t) : t[i] = u[i]
      BY <1>1, <1>2, <1>3, <1>4
  <2> QED BY <1>4, <2>1, <2>2, SeqEqual
<1> QED BY <1>3, <1>5 DEF Rest

\* A sequence that is a prefix of one with one more element is that one itself
\* or a prefix of what is before the element.
LEMMA PrefixOfAppend ==
    ASSUME NEW S, NEW s \in Seq(S), NEW t \in Seq(S), NEW e \in S,
           IsPrefix(s, Append(t, e))
    PROVE  s = Append(t, e) \/ IsPrefix(s, t)
<1> DEFINE u == Append(t, e)
<1>1. /\ u \in Seq(S) /\ Len(u) = Len(t) + 1
      /\ \A i \in 1..Len(t) : u[i] = t[i]
    BY AppendProperties
<1>2. Len(s) \in Nat /\ Len(t) \in Nat
    BY LenProperties
<1> HIDE DEF u
<1>3. Len(s) <= Len(u) /\ \A i \in 1..Len(s) : s[i] = u[i]
  <2>1. IsPrefix(s, u) /\ u \in Seq(S)
      BY <1>1 DEF u
  <2> QED BY <2>1, PrefixDef
<1>4. CASE Len(s) = Len(u)
  <2>1. s = u
      BY <1>1, <1>3, <1>4, SeqEqual
  <2> QED BY <2>1 DEF u
<1>5. CASE Len(s) # Len(u)
  <2>1. Len(s) <= Len(t) /\ \A i \in 1..Len(s) : s[i] = t[i]
      BY <1>1, <1>2, <1>3, <1>5
  <2> QED BY <2>1, PrefixDef
<1> QED BY <1>4, <1>5

\* If the parts of a path begin with those of another one then so do its
\* characters.
LEMMA PrefixOfParts ==
    ASSUME NEW C, "/" \in C, NEW e \in Seq(Part(C)), NEW parts \in Seq(Part(C)),
           IsPrefix(e, parts)
    PROVE  IsPrefix(ToVpath(e), ToVpath(parts))
<1> DEFINE T == {p \in Seq(Part(C)) :
                    IsPrefix(e, p) => IsPrefix(ToVpath(e), ToVpath(p))}
<1>0. \A p \in Seq(Part(C)) :
          /\ ToVpath(p) \in Seq(C)
          /\ ToVpath(p) # <<>> /\ ToVpath(p)[1] = "/"
    BY DoSplitToVpath
<1>1. \A p \in Seq(Part(C)) : IsPrefix(p, p)
  <2>1. ASSUME NEW p \in Seq(Part(C)) PROVE IsPrefix(p, p)
    <3>1. p \o <<>> = p /\ <<>> \in Seq(Part(C))
        BY ConcatEmptySeq, EmptySeq
    <3>2. IsPrefix(p, p \o <<>>)
        BY <3>1, ConcatPrefix
    <3> QED BY <3>1, <3>2
  <2> QED BY <2>1
<1>2. \A s \in Seq(C) : IsPrefix(s, s)
  <2>1. ASSUME NEW s \in Seq(C) PROVE IsPrefix(s, s)
    <3>1. s \o <<>> = s /\ <<>> \in Seq(C)
        BY ConcatEmptySeq, EmptySeq
    <3>2. IsPrefix(s, s \o <<>>)
        BY <3>1, ConcatPrefix
    <3> QED BY <3>1, <3>2
  <2> QED BY <2>1
<1>3. \A p \in Seq(Part(C)) : p = e => IsPrefix(ToVpath(e), ToVpath(p))
    BY <1>0, <1>2
<1>4. <<>> \in T
  <2>1. IsPrefix(e, <<>>) => e = <<>>
    <3>1. Len(e) \in Nat /\ Len(<<>>) = 0 /\ <<>> \in Seq(Part(C))
        BY EmptySeq, LenProperties
    <3>2. IsPrefix(e, <<>>) => Len(e) <= 0
        BY <3>1 DEF IsPrefix
    <3> QED BY <3>1, <3>2, EmptySeq
  <2> QED BY <1>3, <2>1, EmptySeq
<1>5. ASSUME NEW p \in T, NEW c \in Part(C) PROVE Append(p, c) \in T
  <2> DEFINE u == Append(p, c)
             v == ToVpath(u)
  <2>1. p \in Seq(Part(C)) /\ u \in Seq(Part(C))
      BY AppendProperties
  <2>2. SUFFICES ASSUME IsPrefix(e, u) PROVE IsPrefix(ToVpath(e), v)
      BY <2>1
  <2>3. e = u \/ IsPrefix(e, p)
      BY <2>1, <2>2, PrefixOfAppend
  <2>4. CASE e = u
      BY <1>3, <2>1, <2>4
  <2>5. CASE IsPrefix(e, p) /\ p # <<>>
    <3> DEFINE y == Root \o c
    <3>1. Part(C) \subseteq Strings(C) /\ Root \in Seq(C) /\ c \in Seq(C)
        BY DEF Part, Strings, Root
    <3>2. v = ToVpath(p) \o Root \o c
      <4>1. p \in Seq(Strings(C)) /\ c \in Strings(C)
          BY <2>1, <3>1, SeqMonotonic
      <4> DEFINE x == IF p = <<>> THEN <<>> ELSE ToVpath(p)
      <4>2. v = x \o Root \o c
        <5> HIDE DEF T
        <5> QED BY <4>1, ToVpathAppend
      <4>3. x = ToVpath(p)
          BY <2>5
      <4> HIDE DEF x, v
      <4> QED BY <4>2, <4>3
    <3>3. v = ToVpath(p) \o (Root \o c) /\ Root \o c \in Seq(C)
      <4> DEFINE x == ToVpath(p)
      <4>1. x \in Seq(C)
          BY <1>0, <2>1
      <4> HIDE DEF x, T, v
      <4>2. (x \o Root) \o c = x \o (Root \o c)
        <5>1. Cat(Cat(x, Root), c) = Cat(x, Cat(Root, c))
            BY <3>1, <4>1, CatAssociative
        <5> QED BY <5>1, Zenon DEF Cat
      <4>3. Root \o c \in Seq(C)
          BY <3>1, ConcatProperties
      <4> QED BY <3>2, <4>2, <4>3 DEF x
    <3>4. IsPrefix(ToVpath(p), v)
        BY <1>0, <2>1, <3>3, ConcatPrefix
    <3>5. IsPrefix(ToVpath(e), ToVpath(p))
        BY <2>5
    <3>6. v \in Seq(C) /\ ToVpath(e) \in Seq(C) /\ ToVpath(p) \in Seq(C)
        BY <1>0, <2>1
    <3> HIDE DEF v, u, T
    <3> QED BY <3>4, <3>5, <3>6, PrefixTransitive
  <2>6. CASE IsPrefix(e, p) /\ p = <<>>
    <3>1. e = <<>>
      <4>1. Len(e) \in Nat /\ Len(<<>>) = 0
          BY EmptySeq, LenProperties
      <4>2. Len(e) <= 0
          BY <2>6, <4>1 DEF IsPrefix
      <4> QED BY <4>1, <4>2, EmptySeq
    <3>2. ToVpath(e) = Root /\ Root \in Seq(C) /\ Len(Root) = 1 /\ Root[1] = "/"
        BY <3>1, ToVpathEmpty DEF Root
    <3>3. v \in Seq(C) /\ v # <<>> /\ v[1] = "/"
        BY <1>0, <2>1
    <3>4. Len(v) \in Nat \ {0}
        BY <3>3, EmptySeq
    <3> HIDE DEF v
    <3>5. Len(Root) <= Len(v) /\ \A i \in 1..Len(Root) : Root[i] = v[i]
        BY <3>2, <3>3, <3>4
    <3>6. IsPrefix(Root, v)
        BY <3>2, <3>3, <3>5, PrefixDef
    <3> QED BY <3>2, <3>6
  <2> QED BY <2>3, <2>4, <2>5, <2>6
<1>6. T = Seq(Part(C))
  <2> HIDE DEF T
  <2>1. T \subseteq Seq(Part(C)) BY DEF T
  <2> QED BY <1>4, <1>5, <2>1, SeqInduction
<1>7. parts \in T
    BY <1>6
<1> QED BY <1>7

\* The path up to its last part.
LEMMA ToVpathOfAppend ==
    ASSUME NEW C, "/" \in C, NEW f \in Seq(Part(C))
    PROVE  \E a \in Seq(C) :
               Ready(a) /\ \A l \in Part(C) : ToVpath(Append(f, l)) = Cat(a, l)
<1> DEFINE x == IF f = <<>> THEN <<>> ELSE ToVpath(f)
           a == x \o Root
<1>1. Part(C) \subseteq Strings(C)
    BY DEF Part, Strings
<1>2. ASSUME NEW l \in Part(C) PROVE ToVpath(Append(f, l)) = x \o Root \o l
  <2>1. f \in Seq(Strings(C)) /\ l \in Strings(C)
      BY <1>1, SeqMonotonic
  <2> QED BY <2>1, ToVpathAppend
<1>3. x \in Seq(C)
    BY DoSplitToVpath, EmptySeq
<1>4. Root \in Seq(C) /\ Root # <<>> /\ Root[Len(Root)] = "/"
    BY DEF Root
<1> HIDE DEF x
<1>5. a \in Seq(C) /\ a # <<>> /\ a[Len(a)] = "/"
    BY <1>3, <1>4, ConcatProperties, ConcatEnds
<1>6. Ready(a) /\ \A l \in Part(C) : ToVpath(Append(f, l)) = Cat(a, l)
    BY <1>2, <1>5 DEF Ready, Cat
<1> HIDE DEF a
<1> QED BY <1>5, <1>6

\* A name that is continued by more characters becomes another part.
LEMMA PartConcat ==
    ASSUME NEW C, NEW l \in Part(C), NEW q \in Part(C)
    PROVE  l \o q \in Part(C) /\ IsStrictPrefix(l, l \o q)
<1> DEFINE n == l \o q
<1>1. /\ l \in Seq(C) /\ q \in Seq(C) /\ l # <<>> /\ q # <<>>
      /\ \A i \in 1..Len(l) : l[i] # "/"
      /\ \A i \in 1..Len(q) : q[i] # "/"
    BY DEF Part
<1>2. Len(l) \in Nat /\ Len(q) \in Nat \ {0}
    BY <1>1, EmptySeq, LenProperties
<1>3. /\ n \in Seq(C) /\ Len(n) = Len(l) + Len(q)
      /\ \A i \in 1..(Len(l) + Len(q)) :
            n[i] = IF i <= Len(l) THEN l[i] ELSE q[i - Len(l)]
    BY <1>1, ConcatProperties
<1>4. n # <<>> /\ IsPrefix(l, n)
    BY <1>1, ConcatEnds, ConcatPrefix
<1> HIDE DEF n
<1>5. \A i \in 1..Len(n) : n[i] # "/"
  <2>1. ASSUME NEW i \in 1..Len(n) PROVE n[i] # "/"
    <3>1. CASE i <= Len(l)
      <4>1. i \in 1..Len(l) /\ i \in 1..(Len(l) + Len(q))
          BY <1>2, <1>3, <3>1
      <4> QED BY <1>1, <1>3, <3>1, <4>1
    <3>2. CASE ~(i <= Len(l))
      <4>1. i - Len(l) \in 1..Len(q) /\ i \in 1..(Len(l) + Len(q))
          BY <1>2, <1>3, <3>2
      <4> QED BY <1>1, <1>3, <3>2, <4>1
    <3> QED BY <3>1, <3>2
  <2> QED BY <2>1
<1>6. n # l
    BY <1>2, <1>3
<1> QED BY <1>3, <1>4, <1>5, <1>6 DEF n, Part, IsStrictPrefix

\* The parts go on within the last one of e: by q, after which t follows.
GoesOn(C, e, parts, rest) ==
    \E f \in Seq(Part(C)), l \in Part(C), q \in Part(C), t \in Seq(Part(C)) :
        /\ e = Append(f, l) /\ rest = Cat(<<q>>, t)
        /\ parts = Cat(f, Cat(<<Cat(l, q)>>, t))

\* What is split where a name is cut in two.
LEMMA CutWithin ==
    ASSUME NEW C, NEW a \in Seq(C), NEW l \in Part(C), NEW q \in Part(C),
           NEW b \in Seq(C), Ready(a), Ended(b)
    PROVE  /\ DoSplit(Cat(a, l)) = Append(DoSplit(a), l)
           /\ DoSplit(Cat(q, b)) = Cat(<<q>>, DoSplit(b))
           /\ DoSplit(Cat(Cat(a, l), Cat(q, b))) =
                  Cat(DoSplit(a), Cat(<<Cat(l, q)>>, DoSplit(b)))
<1> DEFINE n == Cat(l, q)
<1>1. l \in Seq(C) /\ q \in Seq(C) /\ Cat(q, b) \in Seq(C)
    BY CatType DEF Part
<1>2. DoSplit(Cat(a, l)) = Append(DoSplit(a), l)
  <2>1. DoSplit(Cat(a, l)) = Cat(DoSplit(a), DoSplit(l)) /\ DoSplit(l) = <<l>>
      BY <1>1, CatSplit, DoSplitPart
  <2> DEFINE da == DoSplit(a)
  <2>2. da \in Seq(Part(C))
      BY DoSplitType
  <2> HIDE DEF da
  <2>3. Append(da, l) = Cat(da, <<l>>)
      BY <2>2, AppendIsConcat DEF Cat
  <2> QED BY <2>1, <2>3 DEF da
<1>3. DoSplit(Cat(q, b)) = Cat(<<q>>, DoSplit(b))
  <2>1. DoSplit(Cat(q, b)) = Cat(DoSplit(q), DoSplit(b)) /\ DoSplit(q) = <<q>>
      BY <1>1, CatSplit, DoSplitPart
  <2> QED BY <2>1
<1>4. Cat(Cat(a, l), Cat(q, b)) = Cat(a, Cat(n, b))
    BY <1>1, CatAssociative
<1>5. n \in Part(C)
    BY PartConcat DEF Cat
<1> HIDE DEF n
<1>6. DoSplit(Cat(a, Cat(n, b))) = Cat(DoSplit(a), Cat(<<n>>, DoSplit(b)))
    BY <1>5, DoSplitRun
<1> QED BY <1>2, <1>3, <1>4, <1>6 DEF n

\* Where the characters of a path begin with those of another one, that one has
\* the first of its parts, or it ends within a part.
LEMMA Boundary ==
    ASSUME NEW C, "/" \in C, NEW e \in Seq(Part(C)), NEW parts \in Seq(Part(C)),
           IsPrefix(ToVpath(e), ToVpath(parts)),
           NEW rest, rest = DoSplit(Rest(ToVpath(e), ToVpath(parts)))
    PROVE  /\ rest \in Seq(Part(C))
           /\ parts = Cat(e, rest) \/ GoesOn(C, e, parts, rest)
<1> DEFINE v == ToVpath(e)
           full == ToVpath(parts)
           r == Rest(v, full)
<1>1. /\ v \in Seq(C) /\ DoSplit(v) = e
      /\ full \in Seq(C) /\ DoSplit(full) = parts
    BY DoSplitToVpath
<1>2. r \in Seq(C) /\ full = Cat(v, r)
  <2> HIDE DEF v, full
  <2>1. IsPrefix(v, full)
      BY DEF v, full
  <2> QED BY <1>1, <2>1, PrefixRest DEF Cat
<1>3. rest = DoSplit(r)
    OBVIOUS
<1> HIDE DEF v, full, r
<1>4. rest \in Seq(Part(C))
    BY <1>2, <1>3, DoSplitType
<1>5. PICK q \in Seq(C), b \in Seq(C) :
          r = Cat(q, b) /\ (q = <<>> \/ q \in Part(C)) /\ Ended(b)
    BY <1>2, FirstRun
<1>6. ASSUME Ready(v) \/ Ended(r) PROVE parts = Cat(e, rest)
    BY <1>1, <1>2, <1>3, <1>6, CatSplit
<1>7. CASE e = <<>>
  <2>1. v = Root
      BY <1>7, ToVpathEmpty DEF v
  <2>2. Ready(v)
      BY <2>1 DEF Root, Ready
  <2> QED BY <1>4, <1>6, <2>2
<1>8. CASE q = <<>>
  <2>1. r = b
      BY <1>5, <1>8, ConcatEmptySeq DEF Cat
  <2> QED BY <1>4, <1>5, <1>6, <2>1
<1>9. CASE e # <<>> /\ q \in Part(C)
  <2> DEFINE f == Front(e)
             l == Last(e)
             t == DoSplit(b)
  <2>1. f \in Seq(Part(C)) /\ l \in Part(C) /\ e = Append(f, l)
      BY <1>9, FrontLast
  <2>2. t \in Seq(Part(C))
      BY DoSplitType
  <2> HIDE DEF f, l
  <2>3. PICK a \in Seq(C) : v = Cat(a, l) /\ Ready(a)
      BY <2>1, ToVpathOfAppend DEF v
  <2> DEFINE da == DoSplit(a)
  <2>4. /\ e = Append(da, l) /\ rest = Cat(<<q>>, t)
        /\ parts = Cat(da, Cat(<<Cat(l, q)>>, t))
      BY <1>1, <1>2, <1>3, <1>5, <1>9, <2>1, <2>3, CutWithin
  <2>5. da \in Seq(Part(C))
      BY DoSplitType
  <2> HIDE DEF t, da
  <2> QED BY <1>4, <1>9, <2>1, <2>2, <2>4, <2>5 DEF GoesOn
<1> QED BY <1>5, <1>7, <1>8, <1>9

\* The characters of a path begin with those of one that ends within its parts.
LEMMA WithinPart ==
    ASSUME NEW C, "/" \in C, NEW f \in Seq(Part(C)), NEW l \in Part(C),
           NEW n \in Part(C), IsPrefix(l, n),
           NEW parts \in Seq(Part(C)), IsPrefix(Append(f, n), parts)
    PROVE  IsPrefix(ToVpath(Append(f, l)), ToVpath(parts))
<1> DEFINE x == ToVpath(Append(f, l))
           y == ToVpath(Append(f, n))
           z == ToVpath(parts)
           g == Append(f, n)
           r == Rest(l, n)
<1>1. l \in Seq(C) /\ n \in Seq(C)
    BY DEF Part
<1>2. r \in Seq(C) /\ n = Cat(l, r)
    BY <1>1, PrefixRest DEF Cat
<1> HIDE DEF r
<1>3. Append(f, l) \in Seq(Part(C)) /\ g \in Seq(Part(C))
    BY AppendProperties
<1>4. x \in Seq(C) /\ y \in Seq(C) /\ z \in Seq(C)
    BY <1>3, DoSplitToVpath
<1>5. PICK a \in Seq(C) : \A p \in Part(C) : ToVpath(Append(f, p)) = Cat(a, p)
    BY ToVpathOfAppend
<1>6. x = Cat(a, l) /\ y = Cat(a, n)
    BY <1>5
<1>7. IsPrefix(y, z)
  <2>1. IsPrefix(g, parts)
      OBVIOUS
  <2> HIDE DEF g
  <2>2. IsPrefix(ToVpath(g), ToVpath(parts))
      BY <1>3, <2>1, PrefixOfParts
  <2> QED BY <2>2 DEF g
<1> HIDE DEF x, y, z
<1>8. y = Cat(x, r)
    BY <1>1, <1>2, <1>6, CatAssociative
<1>9. IsPrefix(x, y)
    BY <1>2, <1>4, <1>8, ConcatPrefix DEF Cat
<1>10. IsPrefix(x, z)
    BY <1>4, <1>7, <1>9, PrefixTransitive
<1> QED BY <1>10 DEF x, z

-----------------------------------------------------------------------------
(***************************************************************************)
(* The walk.                                                               *)
(***************************************************************************)
Joined(u, a, b) ==
    /\ Len(a) \in Nat /\ Len(b) \in Nat /\ Len(u) = Len(a) + Len(b)
    /\ \A i \in 1..Len(a) : u[i] = a[i]
    /\ \A i \in 1..Len(b) : u[Len(a) + i] = b[i]

LEMMA CatProperties ==
    ASSUME NEW S, NEW a \in Seq(S), NEW b \in Seq(S)
    PROVE  Cat(a, b) \in Seq(S) /\ Joined(Cat(a, b), a, b)
<1> DEFINE u == a \o b
<1>1. /\ u \in Seq(S) /\ Len(u) = Len(a) + Len(b)
      /\ \A i \in 1..(Len(a) + Len(b)) :
            u[i] = IF i <= Len(a) THEN a[i] ELSE b[i - Len(a)]
    BY ConcatProperties
<1>2. Len(a) \in Nat /\ Len(b) \in Nat
    BY LenProperties
<1> HIDE DEF u
<1>3. \A i \in 1..Len(a) : u[i] = a[i]
    BY <1>1, <1>2
<1>4. \A i \in 1..Len(b) : u[Len(a) + i] = b[i]
    BY <1>1, <1>2
<1>5. u = Cat(a, b)
    BY DEF u, Cat
<1>6. Joined(u, a, b)
    BY <1>1, <1>2, <1>3, <1>4 DEF Joined
<1> QED BY <1>1, <1>5, <1>6

\* The first n elements and the others.
LEMMA SplitAt ==
    ASSUME NEW S, NEW s \in Seq(S), NEW n \in Nat, n <= Len(s)
    PROVE  \E a \in Seq(S), r \in Seq(S) :
               s = Cat(a, r) /\ Joined(s, a, r) /\ Len(a) = n
<1> DEFINE a == SubSeq(s, 1, n)
           m == Len(s)
<1>1. m \in Nat /\ n <= m /\ \A i \in 1..m : s[i] \in S
    BY LenProperties, ElementOfSeq
<1>2. a \in Seq(S) /\ Len(a) = n /\ \A i \in 1..n : a[i] = s[i]
  <2>1. n \in Int /\ 1 \in Int /\ \A i \in 1..n : s[i] \in S
      BY <1>1
  <2>2. /\ a \in Seq(S) /\ Len(a) = IF 1 <= n THEN n - 1 + 1 ELSE 0
        /\ \A i \in 1..(n - 1 + 1) : a[i] = s[1 + i - 1]
      BY <2>1, SubSeqProperties
  <2> HIDE DEF a
  <2> QED BY <1>1, <2>2
<1> HIDE DEF a
<1>3. IsPrefix(a, s)
    BY <1>1, <1>2, PrefixDef
<1> DEFINE r == Rest(a, s)
<1>4. r \in Seq(S) /\ s = Cat(a, r)
    BY <1>2, <1>3, PrefixRest DEF Cat
<1> HIDE DEF r, m
<1>5. Joined(s, a, r)
    BY <1>2, <1>4, CatProperties
<1> QED BY <1>2, <1>4, <1>5

\* The part that begins at cur.
RunsFrom(cur, s, a, q, b) ==
    /\ s = Cat(a, Cat(q, b)) /\ Ready(a) /\ Ended(b)
    /\ Len(a) = cur - 1
    /\ Len(s) = cur - 1 + Len(q) + Len(b)
    /\ \A i \in 1..Len(q) : s[cur - 1 + i] = q[i]
    /\ b # <<>> => s[cur + Len(q)] = "/"

LEMMA RunAt ==
    ASSUME NEW C, NEW s \in Seq(C), NEW cur \in 1..Len(s),
           cur = 1 \/ s[cur - 1] = "/", s[cur] # "/"
    PROVE  \E a \in Seq(C), q \in Part(C), b \in Seq(C) :
               RunsFrom(cur, s, a, q, b)
<1> DEFINE n == cur - 1
<1>1. /\ Len(s) \in Nat /\ cur \in Nat \ {0} /\ cur <= Len(s)
      /\ n \in Nat /\ n <= Len(s) /\ cur = n + 1
    BY LenProperties
<1> HIDE DEF n
<1>2. PICK a \in Seq(C), r \in Seq(C) :
          s = Cat(a, r) /\ Joined(s, a, r) /\ Len(a) = n
    BY <1>1, SplitAt
<1>3. /\ Len(r) \in Nat \ {0} /\ Len(s) = n + Len(r)
      /\ \A i \in 1..n : s[i] = a[i]
      /\ \A i \in 1..Len(r) : s[n + i] = r[i]
    BY <1>1, <1>2 DEF Joined
<1>4. Ready(a)
  <2>1. CASE n = 0
      BY <1>2, <2>1, EmptySeq DEF Ready
  <2>2. CASE n # 0 /\ s[n] = "/"
      BY <1>1, <1>2, <1>3, <2>2 DEF Ready
  <2> QED BY <1>1, <2>1, <2>2
<1>5. PICK q \in Seq(C), b \in Seq(C) :
          r = Cat(q, b) /\ (q = <<>> \/ q \in Part(C)) /\ Ended(b)
    BY FirstRun
<1>6. Joined(r, q, b)
    BY <1>5, CatProperties
<1>7. /\ Len(q) \in Nat /\ Len(b) \in Nat /\ Len(r) = Len(q) + Len(b)
      /\ \A i \in 1..Len(q) : r[i] = q[i]
      /\ \A i \in 1..Len(b) : r[Len(q) + i] = b[i]
      /\ b # <<>> => Len(b) # 0 /\ b[1] = "/"
      /\ b = <<>> => Len(b) = 0
    BY <1>5, <1>6, EmptySeq DEF Ended, Joined
<1>8. q # <<>>
  <2>1. SUFFICES ASSUME q = <<>> PROVE FALSE
      OBVIOUS
  <2>2. Len(q) = 0
      BY <2>1
  <2>3. b # <<>> /\ 1 \in 1..Len(b)
      BY <1>3, <1>7, <2>2
  <2>4. r[0 + 1] = b[1] /\ s[n + 1] = r[1]
      BY <1>3, <1>7, <2>2, <2>3
  <2> QED BY <1>1, <1>7, <2>3, <2>4
<1>9. Len(s) = n + Len(q) + Len(b)
    BY <1>1, <1>3, <1>7
<1>10. \A i \in 1..Len(q) : s[n + i] = q[i]
    BY <1>3, <1>7
<1>11. ASSUME b # <<>> PROVE s[n + 1 + Len(q)] = "/"
  <2>1. Len(q) + 1 \in 1..Len(r) /\ 1 \in 1..Len(b)
      BY <1>7, <1>11
  <2>2. s[n + (Len(q) + 1)] = r[Len(q) + 1] /\ r[Len(q) + 1] = b[1]
      BY <1>3, <1>7, <2>1
  <2>3. n + (Len(q) + 1) = n + 1 + Len(q)
      BY <1>1, <1>7
  <2> QED BY <1>7, <1>11, <2>2, <2>3
<1>12. /\ q \in Part(C) /\ s = Cat(a, Cat(q, b)) /\ Ended(b) /\ Len(a) = n
    BY <1>2, <1>5, <1>8
<1>13. n = cur - 1 /\ n + 1 = cur
    BY <1>1
<1>14. RunsFrom(cur, s, a, q, b)
    BY <1>4, <1>9, <1>10, <1>11, <1>12, <1>13 DEF RunsFrom
<1> QED BY <1>12, <1>14

\* There is an end of the name that begins at cur.
LEMMA NameEndDef ==
    ASSUME NEW C, "end" \notin C, NEW s \in Seq(C), NEW cur \in 1..Len(s),
           s[cur] # "/"
    PROVE  /\ NameEnd(s, cur) \in cur..Len(s)
           /\ Stops(s, cur, NameEnd(s, cur) + 1)
           /\ \A p \in cur..NameEnd(s, cur) : ~Stops(s, cur, p)
<1>1. /\ Len(s) \in Nat /\ cur \in Nat \ {0} /\ cur <= Len(s)
      /\ DOMAIN s = 1..Len(s) /\ s[cur] \in C
    BY LenProperties, ElementOfSeq
<1>2. ~Stops(s, cur, cur)
    BY <1>1 DEF Stops, CharAt
<1>3. Stops(s, cur, Len(s) + 1)
    BY <1>1 DEF Stops, CharAt
<1> DEFINE U == {p \in Nat : p >= cur /\ Stops(s, cur, p)}
<1>4. Len(s) + 1 \in U
    BY <1>1, <1>3
<1>5. PICK m \in U : \A p \in U : m <= p
  <2> HIDE DEF U
  <2>1. U \subseteq Nat BY DEF U
  <2> QED BY <1>4, <2>1, Least
<1>6. m \in Nat /\ m >= cur /\ Stops(s, cur, m) /\ m <= Len(s) + 1 /\ m # cur
    BY <1>2, <1>4, <1>5
<1> DEFINE e == m - 1
<1>7. e \in cur..Len(s) /\ e + 1 = m
    BY <1>1, <1>6
<1>8. \A p \in cur..e : ~Stops(s, cur, p)
  <2>1. ASSUME NEW p \in cur..e, Stops(s, cur, p) PROVE FALSE
    <3>1. p \in Nat /\ p >= cur /\ p < m
        BY <1>1, <1>6, <1>7, <2>1
    <3>2. m <= p
        BY <1>5, <2>1, <3>1
    <3> QED BY <1>6, <3>1, <3>2
  <2> QED BY <2>1
<1> HIDE DEF e, U
<1>9. \E x \in cur..Len(s) :
          Stops(s, cur, x + 1) /\ \A p \in cur..x : ~Stops(s, cur, p)
    BY <1>6, <1>7, <1>8
<1> QED BY <1>9, Zenon DEF NameEnd

\* The names that the walk can take from a part q of the path.
Pieces(C, q) ==
    {p \in Part(C) :
        /\ IsPrefix(p, q)
        /\ p # Dot
        /\ \A i \in 1..Len(p) : p[i] # "\\"
        /\ \A i \in 1..(Len(p) - 1) : p[i] # "." \/ p[i + 1] # "."
        /\ p[Len(p)] = "." => p = q
        /\ PlainName(q) => p = q}

\* A name that the walk can take is taken from a part of the path that begins
\* where the name does.
LEMMA Piece ==
    ASSUME NEW C, "end" \notin C, NEW s \in Seq(C), NEW cur \in 1..Len(s),
           cur = 1 \/ s[cur - 1] = "/", s[cur] # "/",
           s[cur] = "." => CharAt(s, cur + 1) \notin {".", "/", "end"},
           NEW a \in Seq(C), NEW q \in Part(C), NEW b \in Seq(C),
           RunsFrom(cur, s, a, q, b)
    PROVE  /\ (\A i \in cur..NameEnd(s, cur) : s[i] # "\\") =>
                  SubSeq(s, cur, NameEnd(s, cur)) \in Pieces(C, q)
           /\ PlainName(q) =>
                  /\ \A i \in cur..NameEnd(s, cur) : s[i] # "\\"
                  /\ NameEnd(s, cur) = cur - 1 + Len(q)
<1> DEFINE n == cur - 1
           e == NameEnd(s, cur)
           p == SubSeq(s, cur, e)
           m == e - n
<1>1. /\ e \in cur..Len(s) /\ Stops(s, cur, e + 1)
      /\ \A i \in cur..e : ~Stops(s, cur, i)
    BY NameEndDef
<1>2. /\ Len(s) \in Nat /\ n \in Nat /\ cur = n + 1 /\ cur <= Len(s)
      /\ \A i \in 1..Len(s) : s[i] \in C /\ CharAt(s, i) = s[i]
      /\ CharAt(s, Len(s) + 1) = "end"
    BY LenProperties, ElementOfSeq DEF CharAt
<1> HIDE DEF n, e
<1>3. m \in Nat \ {0} /\ e = n + m /\ n + m <= Len(s)
    BY <1>1, <1>2
<1>4. p \in Seq(C) /\ Len(p) = m /\ \A i \in 1..m : p[i] = s[n + i]
  <2>1. cur \in Int /\ e \in Int /\ \A i \in cur..e : s[i] \in C
      BY <1>1, <1>2
  <2>2. /\ p \in Seq(C) /\ Len(p) = IF cur <= e THEN e - cur + 1 ELSE 0
        /\ \A i \in 1..(e - cur + 1) : p[i] = s[cur + i - 1]
      BY <2>1, SubSeqProperties
  <2> HIDE DEF p
  <2> QED BY <1>2, <1>3, <2>2
<1> HIDE DEF p, m
<1>5. /\ Len(s) = cur - 1 + Len(q) + Len(b)
      /\ \A i \in 1..Len(q) : s[cur - 1 + i] = q[i]
      /\ b # <<>> => s[cur + Len(q)] = "/"
    BY DEF RunsFrom
<1>6. /\ Len(q) \in Nat \ {0} /\ Len(b) \in Nat /\ Len(s) = n + Len(q) + Len(b)
      /\ \A i \in 1..Len(q) : s[n + i] = q[i]
      /\ \A i \in 1..Len(q) : q[i] # "/"
      /\ Len(b) # 0 => s[n + Len(q) + 1] = "/"
      /\ q \in Seq(C)
  <2>1. /\ q \in Seq(C) /\ q # <<>> /\ \A i \in 1..Len(q) : q[i] # "/"
        /\ Len(q) \in Nat /\ Len(b) \in Nat
      BY LenProperties DEF Part
  <2>2. Len(q) # 0 /\ (Len(b) # 0 => b # <<>>)
      BY <2>1, EmptySeq
  <2>3. cur + Len(q) = n + Len(q) + 1 /\ cur - 1 = n
      BY <1>2, <2>1
  <2> QED BY <1>5, <2>1, <2>2, <2>3
<1>7. \A i \in 1..m : ~Stops(s, cur, n + i) /\ n + i \in 1..Len(s)
  <2>1. ASSUME NEW i \in 1..m PROVE n + i \in cur..e /\ n + i \in 1..Len(s)
      BY <1>2, <1>3
  <2> QED BY <1>1, <2>1
<1>8. m <= Len(q)
  <2>1. SUFFICES ASSUME Len(q) + 1 <= m PROVE FALSE
      BY <1>3, <1>6
  <2>2. Len(q) + 1 \in 1..m /\ n + (Len(q) + 1) = n + Len(q) + 1
      BY <1>2, <1>3, <1>6, <2>1
  <2>3. Len(b) # 0
      BY <1>2, <1>3, <1>6, <2>1
  <2>4. CharAt(s, n + Len(q) + 1) = "/"
      BY <1>2, <1>6, <1>7, <2>2, <2>3
  <2> QED BY <1>7, <2>2, <2>4 DEF Stops
<1>9. \A i \in 1..m : i \in 1..Len(q) /\ p[i] = q[i]
  <2>1. ASSUME NEW i \in 1..m PROVE i \in 1..Len(q) /\ p[i] = q[i]
    <3>1. i \in 1..Len(q)
        BY <1>3, <1>6, <1>8
    <3>2. p[i] = s[n + i] /\ s[n + i] = q[i]
        BY <1>4, <1>6, <3>1
    <3> QED BY <3>1, <3>2
  <2> QED BY <2>1
<1>10. IsPrefix(p, q)
    BY <1>4, <1>6, <1>8, <1>9, PrefixDef
<1>11. p \in Part(C)
  <2>1. p # <<>>
      BY <1>3, <1>4
  <2>2. \A i \in 1..Len(p) : p[i] # "/"
      BY <1>4, <1>6, <1>9
  <2> QED BY <1>4, <2>1, <2>2 DEF Part
<1>12. \A i \in 1..(m - 1) : q[i] # "." \/ q[i + 1] # "."
  <2>1. SUFFICES ASSUME NEW i \in 1..(m - 1), q[i] = ".", q[i + 1] = "." PROVE FALSE
      OBVIOUS
  <2>2. i \in 1..m /\ i + 1 \in 1..m /\ i \in 1..Len(q) /\ i + 1 \in 1..Len(q)
      BY <1>3, <1>6, <1>8
  <2>3. s[n + i] = "." /\ s[n + (i + 1)] = "." /\ n + (i + 1) = (n + i) + 1
    <3>1. s[n + i] = q[i] /\ s[n + (i + 1)] = q[i + 1]
        BY <1>6, <2>2
    <3>2. n + (i + 1) = (n + i) + 1
        BY <1>2, <2>1
    <3> QED BY <2>1, <3>1, <3>2
  <2>4. CharAt(s, (n + i) + 1) = "." /\ CharAt(s, n + i) = "."
      BY <1>2, <1>7, <2>2, <2>3
  <2>5. CASE i = 1
    <3>1. n + i = cur
        BY <1>2, <2>5
    <3> QED BY <2>3, <2>4, <3>1
  <2>6. CASE i # 1
    <3>1. n + i # cur
        BY <1>2, <2>6
    <3> QED BY <1>7, <2>2, <2>3, <2>4, <3>1 DEF Stops
  <2> QED BY <2>5, <2>6
<1>13. p # Dot
  <2>1. SUFFICES ASSUME p = Dot PROVE FALSE
      OBVIOUS
  <2>2. m = 1 /\ s[cur] = "."
      BY <1>2, <1>3, <1>4, <2>1 DEF Dot
  <2>3. Stops(s, cur, cur + 1) /\ CharAt(s, cur + 1) \notin {".", "/", "end"}
      BY <1>1, <1>2, <1>3, <2>2
  <2>4. cur + 1 \in 1..Len(s)
      BY <1>2, <2>3
  <2> QED BY <1>2, <2>3, <2>4 DEF Stops
<1>14. m = Len(q) \/ (s[n + m + 1] = "." /\ CharAt(s, n + m + 2) \in {".", "/"})
  <2>1. ASSUME m # Len(q)
        PROVE  s[n + m + 1] = "." /\ CharAt(s, n + m + 2) \in {".", "/"}
    <3>1. m + 1 \in 1..Len(q) /\ n + (m + 1) = n + m + 1 /\ n + m + 1 \in 1..Len(s)
        BY <1>2, <1>3, <1>6, <1>8, <2>1
    <3>2. CharAt(s, n + m + 1) = q[m + 1]
        BY <1>2, <1>6, <3>1
    <3>3. q[m + 1] # "/" /\ q[m + 1] # "end"
        BY <1>2, <1>6, <3>1
    <3>4. Stops(s, cur, n + m + 1) /\ (n + m + 1) + 1 = n + m + 2
        BY <1>1, <1>2, <1>3
    <3> QED BY <3>2, <3>3, <3>4 DEF Stops
  <2> QED BY <2>1
<1>15. m = Len(q) => p = q
    BY <1>4, <1>6, <1>9, SeqEqual
<1>16. ASSUME p[Len(p)] = "." PROVE p = q
  <2>1. SUFFICES ASSUME m # Len(q) PROVE FALSE
      BY <1>15
  <2>2. s[n + m] = "." /\ n + m \in 1..Len(s) /\ n + m + 1 \in 1..Len(s)
      BY <1>2, <1>3, <1>4, <1>6, <1>8, <1>16, <2>1
  <2>3. CharAt(s, n + m) = "." /\ CharAt(s, n + m + 1) = "."
      BY <1>2, <1>14, <2>1, <2>2
  <2>4. CASE m = 1
    <3>1. n + m = cur /\ n + m + 1 = cur + 1
        BY <1>2, <2>4
    <3> QED BY <2>2, <2>3, <3>1
  <2>5. CASE m # 1
    <3>1. n + m # cur /\ m \in 1..m
        BY <1>2, <1>3, <2>5
    <3> QED BY <1>7, <2>2, <2>3, <3>1 DEF Stops
  <2> QED BY <2>4, <2>5
<1>17. ASSUME PlainName(q) PROVE p = q
  <2>1. SUFFICES ASSUME m # Len(q) PROVE FALSE
      BY <1>15
  <2>2. m + 1 \in 1..Len(q) /\ n + (m + 1) = n + m + 1
      BY <1>2, <1>3, <1>6, <1>8, <2>1
  <2>3. q[m + 1] = "."
      BY <1>6, <1>14, <2>1, <2>2
  <2>4. CASE m + 1 = Len(q)
      BY <1>17, <2>3, <2>4 DEF PlainName, Last
  <2>5. CASE m + 1 # Len(q)
    <3>1. /\ m + 2 \in 1..Len(q) /\ n + (m + 2) = n + m + 2
          /\ n + m + 2 \in 1..Len(s) /\ m + 1 \in 1..(Len(q) - 1)
          /\ (m + 1) + 1 = m + 2
      <4> DEFINE k == Len(q)
                 l == Len(s)
                 j == Len(b)
      <4>1. /\ k \in Nat /\ j \in Nat /\ n \in Nat /\ m \in Nat \ {0}
            /\ l = n + k + j /\ m <= k /\ m # k /\ m + 1 # k
          BY <1>2, <1>3, <1>6, <1>8, <2>1, <2>5
      <4> HIDE DEF k, l, j
      <4>2. /\ m + 2 \in 1..k /\ n + (m + 2) = n + m + 2 /\ n + m + 2 \in 1..l
            /\ m + 1 \in 1..(k - 1) /\ (m + 1) + 1 = m + 2
          BY <4>1
      <4> QED BY <4>2 DEF k, l
    <3>2. CharAt(s, n + m + 2) = q[m + 2] /\ q[m + 2] # "/"
        BY <1>2, <1>6, <3>1
    <3>3. q[m + 2] = "."
        BY <1>14, <2>1, <3>2
    <3> QED BY <1>17, <2>3, <3>1, <3>3 DEF PlainName
  <2> QED BY <2>4, <2>5
<1>18. ASSUME \A i \in cur..e : s[i] # "\\" PROVE p \in Pieces(C, q)
  <2>1. \A i \in 1..Len(p) : p[i] # "\\"
    <3>1. ASSUME NEW i \in 1..m PROVE p[i] # "\\"
      <4>1. n + i \in cur..e /\ p[i] = s[n + i]
          BY <1>2, <1>3, <1>4
      <4> QED BY <1>18, <4>1
    <3> QED BY <1>4, <3>1
  <2>2. \A i \in 1..(Len(p) - 1) : p[i] # "." \/ p[i + 1] # "."
      BY <1>3, <1>4, <1>9, <1>12
  <2> QED BY <1>10, <1>11, <1>13, <1>16, <1>17, <2>1, <2>2 DEF Pieces
<1>19. ASSUME PlainName(q)
       PROVE  e = cur - 1 + Len(q) /\ \A i \in cur..e : s[i] # "\\"
  <2>1. Len(q) = m /\ n = cur - 1
      BY <1>2, <1>4, <1>17, <1>19
  <2>2. ASSUME NEW i \in cur..e PROVE s[i] # "\\"
    <3>1. i - n \in 1..Len(q) /\ n + (i - n) = i
        BY <1>2, <1>3, <2>1
    <3>2. q[i - n] # "\\" /\ s[n + (i - n)] = q[i - n]
        BY <1>6, <1>19, <3>1 DEF PlainName
    <3> QED BY <3>1, <3>2
  <2> QED BY <1>3, <2>1, <2>2
<1> QED BY <1>18, <1>19 DEF p, e

\* The states of the walk, with the names from N, and where it can be.
WalkStates(N) == [ok : BOOLEAN, cur : Nat \ {0}, parts : Seq(N)]

Aligned(s, cur) ==
    \/ cur = 1
    \/ s[cur - 1] = "/"
    \/ CharAt(s, cur) \in {"/", "end"}
    \/ CharAt(s, cur) = "." /\ CharAt(s, cur + 1) \in {".", "/"}

LEMMA CharAtDef ==
    ASSUME NEW C, "end" \notin C, NEW s \in Seq(C), NEW i \in Nat \ {0}
    PROVE  /\ CharAt(s, i) = "end" <=> i > Len(s)
           /\ CharAt(s, i) # "end" => i \in 1..Len(s) /\ s[i] = CharAt(s, i)
           /\ i \in 1..Len(s) => CharAt(s, i) = s[i] /\ s[i] \in C
<1>1. Len(s) \in Nat /\ DOMAIN s = 1..Len(s) /\ \A k \in 1..Len(s) : s[k] \in C
    BY LenProperties, ElementOfSeq
<1>2. CASE i \in 1..Len(s)
    BY <1>1, <1>2 DEF CharAt
<1>3. CASE i \notin 1..Len(s)
    BY <1>1, <1>3 DEF CharAt
<1> QED BY <1>2, <1>3

\* Where the walk comes to by one step that does not refuse the path.
LEMMA StepAligned ==
    ASSUME NEW C, "end" \notin C, NEW s \in Seq(C), NEW cur \in Nat \ {0},
           CharAt(s, cur) # "end"
    PROVE  /\ CharAt(s, cur) = "/" => Aligned(s, cur + 1)
           /\ CharAt(s, cur + 1) \in {"/", "end"} => Aligned(s, cur + 2)
           /\ CharAt(s, cur + 2) \in {"/", "end"} => Aligned(s, cur + 3)
           /\ CharAt(s, cur) # "/" =>
                 /\ NameEnd(s, cur) + 1 \in Nat \ {0}
                 /\ Aligned(s, NameEnd(s, cur) + 1)
<1>1. Len(s) \in Nat /\ cur \in 1..Len(s) /\ s[cur] = CharAt(s, cur)
    BY CharAtDef, LenProperties
<1>2. ASSUME NEW i \in Nat \ {0}, CharAt(s, i) \in {"/", "end"}
      PROVE  Aligned(s, i + 1)
  <2>1. CASE CharAt(s, i) = "/"
    <3>1. s[i] = "/" /\ (i + 1) - 1 = i
        BY <2>1, CharAtDef
    <3> QED BY <3>1 DEF Aligned
  <2>2. CASE CharAt(s, i) = "end"
    <3>1. i > Len(s) /\ i + 1 \in Nat \ {0} /\ i + 1 > Len(s)
        BY <1>1, <2>2, CharAtDef
    <3>2. CharAt(s, i + 1) = "end"
        BY <3>1, CharAtDef
    <3> QED BY <3>2 DEF Aligned
  <2> QED BY <1>2, <2>1, <2>2
<1>3. /\ cur + 1 \in Nat \ {0} /\ (cur + 1) + 1 = cur + 2
      /\ cur + 2 \in Nat \ {0} /\ (cur + 2) + 1 = cur + 3
    BY <1>1
<1>4. ASSUME CharAt(s, cur) # "/"
      PROVE  /\ NameEnd(s, cur) + 1 \in Nat \ {0}
             /\ Aligned(s, NameEnd(s, cur) + 1)
  <2>1. NameEnd(s, cur) \in cur..Len(s) /\ Stops(s, cur, NameEnd(s, cur) + 1)
      BY <1>1, <1>4, NameEndDef
  <2> DEFINE i == NameEnd(s, cur) + 1
  <2>2. i \in Nat \ {0} /\ i # 0
      BY <1>1, <2>1
  <2>3. Stops(s, cur, i)
      BY <2>1
  <2> HIDE DEF i
  <2>4. CharAt(s, i) \notin {"/", "end"} =>
            CharAt(s, i) = "." /\ CharAt(s, i + 1) \in {".", "/"}
    <3>1. CharAt(s, i) \notin {"/", "end"} =>
              s[i] = "." /\ CharAt(s, i + 1) \in {".", "/"}
        BY <2>3 DEF Stops
    <3>2. CharAt(s, i) # "end" => s[i] = CharAt(s, i)
        BY <2>2, CharAtDef
    <3> QED BY <3>1, <3>2
  <2>5. Aligned(s, i)
      BY <2>4 DEF Aligned
  <2> QED BY <2>2, <2>5 DEF i
<1>5. CharAt(s, cur) = "/" => Aligned(s, cur + 1)
    BY <1>2
<1>6. CharAt(s, cur + 1) \in {"/", "end"} => Aligned(s, cur + 2)
    BY <1>2, <1>3
<1>7. CharAt(s, cur + 2) \in {"/", "end"} => Aligned(s, cur + 3)
    BY <1>2, <1>3
<1> QED BY <1>4, <1>5, <1>6, <1>7

\* A step of the walk adds a piece of a part of the path, or takes a name away.
LEMMA StepType ==
    ASSUME NEW C, "end" \notin C, NEW s \in Seq(C), NEW N,
           \A q \in ToSet(DoSplit(s)) : Pieces(C, q) \subseteq N,
           NEW st \in WalkStates(N), st.ok => Aligned(s, st.cur)
    PROVE  /\ Step(s, st) \in WalkStates(N)
           /\ Step(s, st).ok => Aligned(s, Step(s, st).cur)
<1> DEFINE cur == st.cur
           here == CharAt(s, cur)
           second == CharAt(s, cur + 1)
           third == CharAt(s, cur + 2)
           next == Step(s, st)
<1>1. st.ok \in BOOLEAN /\ cur \in Nat \ {0} /\ st.parts \in Seq(N)
    BY DEF WalkStates
<1>2. CASE ~st.ok \/ here = "end"
  <2>1. next = st
      BY <1>2 DEF Step
  <2> QED BY <2>1
<1>3. CASE st.ok /\ here = "/"
  <2>1. next = [st EXCEPT !.cur = cur + 1]
      BY <1>3 DEF Step
  <2>2. Aligned(s, cur + 1)
      BY <1>1, <1>3, StepAligned
  <2> QED BY <1>1, <2>1, <2>2 DEF WalkStates
<1>4. CASE st.ok /\ here = "." /\ second \in {"/", "end"}
  <2>1. next = [st EXCEPT !.cur = cur + 2]
      BY <1>4 DEF Step
  <2>2. Aligned(s, cur + 2)
      BY <1>1, <1>4, StepAligned
  <2> QED BY <1>1, <2>1, <2>2 DEF WalkStates
<1>5. CASE st.ok /\ here = "." /\ second = "." /\ third \in {"/", "end"}
  <2>1. next = Parent(st, cur + 3)
      BY <1>5 DEF Step
  <2>2. Aligned(s, cur + 3)
      BY <1>1, <1>5, StepAligned
  <2>3. CASE st.parts = <<>>
    <3>1. next = [st EXCEPT !.ok = FALSE]
        BY <2>1, <2>3 DEF Parent
    <3> QED BY <1>1, <3>1 DEF WalkStates
  <2>4. CASE st.parts # <<>>
    <3>1. next = [st EXCEPT !.cur = cur + 3, !.parts = Front(st.parts)]
        BY <2>1, <2>4 DEF Parent
    <3>2. Front(st.parts) \in Seq(N)
      <4> DEFINE parts == st.parts
      <4>1. parts \in Seq(N) /\ parts # <<>>
          BY <1>1, <2>4
      <4> HIDE DEF parts
      <4>2. Front(parts) \in Seq(N)
          BY <4>1, FrontLast
      <4> QED BY <4>2 DEF parts
    <3> DEFINE parts == Front(st.parts)
    <3> HIDE DEF parts
    <3>3. next = [st EXCEPT !.cur = cur + 3, !.parts = parts]
        BY <3>1 DEF parts
    <3>4. parts \in Seq(N) /\ cur + 3 \in Nat \ {0}
        BY <1>1, <3>2 DEF parts
    <3> QED BY <1>1, <2>2, <3>3, <3>4 DEF WalkStates
  <2> QED BY <2>3, <2>4
<1>6. CASE st.ok /\ here = "." /\ second = "." /\ third \notin {"/", "end"}
  <2>1. next = [st EXCEPT !.ok = FALSE]
      BY <1>6 DEF Step
  <2> QED BY <1>1, <2>1 DEF WalkStates
<1>7. CASE st.ok /\ here \notin {"/", "end"}
           /\ (here = "." => second \notin {".", "/", "end"})
  <2> DEFINE e == NameEnd(s, cur)
             p == SubSeq(s, cur, e)
  <2>1. next = NameStep(s, st)
      BY <1>7 DEF Step
  <2>2. CASE \E i \in cur..e : s[i] = "\\"
    <3>1. next = [st EXCEPT !.ok = FALSE]
        BY <2>1, <2>2 DEF NameStep
    <3> QED BY <1>1, <3>1 DEF WalkStates
  <2>3. CASE \A i \in cur..e : s[i] # "\\"
    <3>1. next = [st EXCEPT !.cur = e + 1, !.parts = Append(st.parts, p)]
        BY <2>1, <2>3 DEF NameStep
    <3>2. e + 1 \in Nat \ {0} /\ Aligned(s, e + 1)
        BY <1>1, <1>7, StepAligned
    <3>3. p \in N
      <4>1. /\ cur \in 1..Len(s) /\ s[cur] = here /\ s[cur] # "/"
            /\ s[cur] = "." => CharAt(s, cur + 1) \notin {".", "/", "end"}
          BY <1>1, <1>7, CharAtDef
      <4>2. cur = 1 \/ s[cur - 1] = "/"
          BY <1>7 DEF Aligned
      <4>3. PICK a \in Seq(C), q \in Part(C), b \in Seq(C) :
                RunsFrom(cur, s, a, q, b)
        <5> HIDE DEF cur
        <5> QED BY <4>1, <4>2, RunAt
      <4>4. p \in Pieces(C, q)
        <5> HIDE DEF cur
        <5> QED BY <2>3, <4>1, <4>2, <4>3, Piece
      <4>5. q \in ToSet(DoSplit(s))
          BY <4>3, DoSplitRun DEF RunsFrom
      <4> QED BY <4>4, <4>5
    <3>4. Append(st.parts, p) \in Seq(N)
        BY <1>1, <3>3, AppendProperties
    <3> HIDE DEF e, p
    <3> QED BY <1>1, <3>1, <3>2, <3>4 DEF WalkStates
  <2> QED BY <2>2, <2>3
<1> QED BY <1>1, <1>2, <1>3, <1>4, <1>5, <1>6, <1>7

\* Where the walk begins.
WalkStart(vpath, cwd) ==
    [ok |-> TRUE, cur |-> 1,
     parts |-> IF CharAt(vpath, 1) = "/" THEN <<>> ELSE DoSplit(cwd)]

\* What the steps keep holds at the end of the walk: G[k] has the states in
\* which it can be after k steps.
KeptBySteps(G, vpath, n) ==
    /\ n = Len(vpath)
    /\ \A k \in 1..n : \A a \in G[k - 1] : Step(vpath, a) \in G[k]

LEMMA WalkInvariant ==
    ASSUME NEW vpath, NEW n \in Nat, NEW cwd, NEW S,
           NEW G \in [0..n -> SUBSET S], WalkStart(vpath, cwd) \in G[0],
           KeptBySteps(G, vpath, n)
    PROVE  NormalizeAndSplit(vpath, cwd) \in G[n]
<1> DEFINE start == WalkStart(vpath, cwd)
           f == [k \in 1..n |-> [a \in S |-> Step(vpath, a)]]
           body(w) == [k \in 0..n |-> IF k = 0 THEN start
                                      ELSE Step(vpath, w[k - 1])]
           rec == CHOOSE w : w = body(w)
<1>1. n \in Nat /\ 0 \in 0..n /\ n \in 0..n
    OBVIOUS
<1>2. ASSUME NEW k \in 1..n, NEW a \in G[k - 1] PROVE f[k][a] \in G[k]
  <2>1. k - 1 \in 0..n /\ G[k - 1] \subseteq S /\ a \in S
      BY <1>1
  <2>2. f[k][a] = Step(vpath, a)
      BY <2>1
  <2> QED BY <1>1, <2>2 DEF KeptBySteps
<1>3. PICK w \in [0..n -> S] :
          /\ w[0] = start /\ \A k \in 1..n : w[k] = f[k][w[k - 1]]
          /\ \A k \in 0..n : w[k] \in G[k]
  <2>1. start \in G[0] /\ G \in [0..n -> SUBSET S]
      OBVIOUS
  <2> HIDE DEF f, start
  <2>2. Keeps(f, G, n)
      BY <1>2 DEF Keeps
  <2>3. \E w \in [0..n -> S] : w[0] = start /\ Follows(w, f, n) /\ Within(w, G, n)
      BY <2>1, <2>2, Recursion
  <2> QED BY <2>3 DEF Follows, Within
<1>4. ASSUME NEW k \in 1..n PROVE w[k] = Step(vpath, w[k - 1])
  <2>1. w[k - 1] \in S
      BY <1>1
  <2>2. f[k][w[k - 1]] = Step(vpath, w[k - 1])
      BY <2>1
  <2> HIDE DEF f
  <2> QED BY <1>3, <2>2
<1>5. w = body(w)
  <2> HIDE DEF start
  <2> QED BY <1>3, <1>4
<1>6. rec = body(rec)
  <2> HIDE DEF body
  <2> QED BY <1>5
<1>7. NormalizeAndSplit(vpath, cwd) = rec[n]
    BY DEF NormalizeAndSplit, WalkStart, KeptBySteps
<1>8. \A k \in 0..n : rec[k] = w[k]
  <2> HIDE DEF rec, start
  <2>1. rec[0] = w[0]
      BY <1>1, <1>3, <1>6
  <2>2. \A k \in 1..n : rec[k] = Step(vpath, rec[k - 1])
      BY <1>1, <1>6
  <2>3. \A k \in 1..n : rec[k - 1] = w[k - 1] => rec[k] = w[k]
      BY <1>4, <2>2
  <2> QED BY <1>1, <2>1, <2>3, Agree
<1>9. rec[n] = w[n] /\ w[n] \in G[n]
  <2> HIDE DEF rec, start, f
  <2> QED BY <1>1, <1>3, <1>8
<1> QED BY <1>7, <1>9

\* The names that a path is normalised to are pieces of its parts, or come
\* from the current directory.
LEMMA NormalizeType ==
    ASSUME NEW C, "end" \notin C, NEW s \in Seq(C), NEW N,
           \A q \in ToSet(DoSplit(s)) : Pieces(C, q) \subseteq N,
           NEW cwd, DoSplit(cwd) \in Seq(N)
    PROVE  NormalizeAndSplit(s, cwd) \in WalkStates(N)
<1> DEFINE S == WalkStates(N)
           I == {st \in S : st.ok => Aligned(s, st.cur)}
           G == [k \in 0..Len(s) |-> I]
           start == WalkStart(s, cwd)
<1>1. Len(s) \in Nat
    BY LenProperties
<1>2. start \in I
  <2>1. (IF CharAt(s, 1) = "/" THEN <<>> ELSE DoSplit(cwd)) \in Seq(N)
      BY EmptySeq
  <2>2. start \in S /\ start.cur = 1
      BY <2>1 DEF WalkStates, WalkStart
  <2> QED BY <2>2 DEF Aligned
<1>3. ASSUME NEW a \in I PROVE Step(s, a) \in I
    BY StepType
<1>4. G \in [0..Len(s) -> SUBSET S]
    OBVIOUS
<1>5. \A k \in 0..Len(s) : G[k] = I
    OBVIOUS
<1> HIDE DEF G, I, start
<1>6. start \in G[0]
    BY <1>1, <1>2, <1>5
<1>7. \A k \in 1..Len(s) : \A a \in G[k - 1] : Step(s, a) \in G[k]
  <2>1. ASSUME NEW k \in 1..Len(s), NEW a \in G[k - 1] PROVE Step(s, a) \in G[k]
    <3>1. k - 1 \in 0..Len(s) /\ k \in 0..Len(s)
        BY <1>1
    <3> QED BY <1>3, <1>5, <3>1
  <2> QED BY <2>1
<1>10. KeptBySteps(G, s, Len(s))
    BY <1>7 DEF KeptBySteps
<1>8. NormalizeAndSplit(s, cwd) \in G[Len(s)]
  <2> HIDE DEF S
  <2> QED BY <1>1, <1>4, <1>6, <1>10, WalkInvariant DEF start
<1>9. G[Len(s)] = I
    BY <1>1, <1>5
<1> QED BY <1>8, <1>9 DEF I

-----------------------------------------------------------------------------
(***************************************************************************)
(* The walk resolves ordinary paths as by their parts.                     *)
(***************************************************************************)
Resolutions(C) == [ok : BOOLEAN, parts : Seq(Part(C))]

LEMMA AddPartType ==
    ASSUME NEW C, NEW acc \in Resolutions(C), NEW part \in Part(C)
    PROVE  /\ AddPart(acc, part) \in Resolutions(C)
           /\ ~acc.ok => AddPart(acc, part) = acc
<1> DEFINE parts == acc.parts
<1>1. acc.ok \in BOOLEAN /\ parts \in Seq(Part(C))
    BY DEF Resolutions
<1>2. Dot # DotDot
    BY DEF Dot, DotDot
<1>3. CASE ~acc.ok \/ part = Dot
  <2>1. AddPart(acc, part) = acc
      BY <1>2, <1>3 DEF AddPart
  <2> QED BY <2>1
<1>4. CASE acc.ok /\ part = DotDot /\ parts = <<>>
  <2>1. AddPart(acc, part) = [acc EXCEPT !.ok = FALSE]
      BY <1>2, <1>4 DEF AddPart
  <2> QED BY <1>4, <2>1 DEF Resolutions
<1>5. CASE acc.ok /\ part = DotDot /\ parts # <<>>
  <2> DEFINE front == Front(parts)
  <2>1. front \in Seq(Part(C))
    <3> HIDE DEF parts
    <3> QED BY <1>1, <1>5, FrontLast
  <2>2. AddPart(acc, part) = [acc EXCEPT !.parts = front]
      BY <1>2, <1>5 DEF AddPart
  <2> HIDE DEF front
  <2> QED BY <1>5, <2>1, <2>2 DEF Resolutions
<1>6. CASE acc.ok /\ part # Dot /\ part # DotDot
  <2> DEFINE more == Append(parts, part)
  <2>1. more \in Seq(Part(C))
    <3> HIDE DEF parts
    <3> QED BY <1>1, AppendProperties
  <2>2. AddPart(acc, part) = [acc EXCEPT !.parts = more]
      BY <1>6 DEF AddPart
  <2> HIDE DEF more
  <2> QED BY <1>6, <2>1, <2>2 DEF Resolutions
<1> QED BY <1>1, <1>3, <1>4, <1>5, <1>6

\* The resolution goes over the parts in their order.
Resolving(w, start, parts) ==
    /\ w[0] = start
    /\ \A k \in 1..Len(parts) : w[k] = AddPart(w[k - 1], parts[k])
    /\ ResolveParts(start, parts) = w[Len(parts)]

LEMMA ResolveScan ==
    ASSUME NEW C, NEW start \in Resolutions(C), NEW parts \in Seq(Part(C))
    PROVE  \E w \in [0..Len(parts) -> Resolutions(C)] : Resolving(w, start, parts)
<1> DEFINE S == Resolutions(C)
           G == [k \in 0..Len(parts) |-> S]
           f == [k \in 1..Len(parts) |-> [a \in S |-> AddPart(a, parts[k])]]
           body(w) == [k \in 0..Len(parts) |-> IF k = 0 THEN start
                                               ELSE AddPart(w[k - 1], parts[k])]
           rec == CHOOSE w : w = body(w)
<1>1. Len(parts) \in Nat /\ \A k \in 1..Len(parts) : parts[k] \in Part(C)
    BY LenProperties, ElementOfSeq
<1>2. G \in [0..Len(parts) -> SUBSET S] /\ start \in G[0]
    BY <1>1
<1>3. ASSUME NEW k \in 1..Len(parts), NEW a \in G[k - 1] PROVE f[k][a] \in G[k]
  <2>1. k - 1 \in 0..Len(parts) /\ k \in 0..Len(parts) /\ a \in S
      BY <1>1
  <2>2. AddPart(a, parts[k]) \in S
      BY <1>1, <2>1, AddPartType
  <2> HIDE DEF S
  <2> QED BY <2>1, <2>2
<1>4. PICK w \in [0..Len(parts) -> S] :
          w[0] = start /\ Follows(w, f, Len(parts)) /\ Within(w, G, Len(parts))
  <2> HIDE DEF f, G, S
  <2>1. Keeps(f, G, Len(parts))
      BY <1>3 DEF Keeps
  <2> QED BY <1>1, <1>2, <2>1, Recursion
<1>5. ASSUME NEW k \in 1..Len(parts) PROVE w[k] = AddPart(w[k - 1], parts[k])
  <2>1. w[k - 1] \in S
    <3> HIDE DEF S
    <3> QED BY <1>1
  <2>2. f[k][w[k - 1]] = AddPart(w[k - 1], parts[k])
    <3> HIDE DEF S
    <3> QED BY <2>1
  <2>3. w[k] = f[k][w[k - 1]]
      BY <1>4 DEF Follows
  <2> HIDE DEF f
  <2> QED BY <2>2, <2>3
<1>6. w = body(w)
  <2> HIDE DEF S
  <2> QED BY <1>4, <1>5
<1>7. rec = body(rec)
  <2> HIDE DEF body
  <2> QED BY <1>6
<1>8. ResolveParts(start, parts) = rec[Len(parts)]
    BY DEF ResolveParts
<1>9. rec[Len(parts)] = w[Len(parts)]
  <2> HIDE DEF rec
  <2>1. rec[0] = w[0]
      BY <1>1, <1>4, <1>7
  <2>2. \A k \in 1..Len(parts) : rec[k] = AddPart(rec[k - 1], parts[k])
      BY <1>1, <1>7
  <2>3. \A k \in 1..Len(parts) : rec[k - 1] = w[k - 1] => rec[k] = w[k]
      BY <1>5, <2>2
  <2>4. SameSteps(rec, w, Len(parts))
      BY <2>3 DEF SameSteps
  <2> QED BY <1>1, <2>1, <2>4, AgreeAtEnd
<1> HIDE DEF rec, f, G, S
<1>10. Resolving(w, start, parts)
    BY <1>4, <1>5, <1>8, <1>9 DEF Resolving
<1> QED BY <1>10 DEF S

LEMMA ResolveEmpty ==
    ASSUME NEW C, NEW start \in Resolutions(C)
    PROVE  ResolveParts(start, <<>>) = start
<1>1. <<>> \in Seq(Part(C)) /\ Len(<<>>) = 0
    BY EmptySeq
<1>2. PICK w : Resolving(w, start, <<>>)
    BY <1>1, ResolveScan
<1> QED BY <1>1, <1>2 DEF Resolving

LEMMA ResolveAppend ==
    ASSUME NEW C, NEW start \in Resolutions(C), NEW parts \in Seq(Part(C)),
           NEW p \in Part(C)
    PROVE  /\ ResolveParts(start, parts) \in Resolutions(C)
           /\ ResolveParts(start, Append(parts, p)) =
                  AddPart(ResolveParts(start, parts), p)
<1> DEFINE t == Append(parts, p)
           n == Len(parts)
           S == Resolutions(C)
<1>1. /\ n \in Nat /\ t \in Seq(Part(C)) /\ Len(t) = n + 1 /\ t[n + 1] = p
      /\ \A i \in 1..n : t[i] = parts[i]
    BY AppendProperties, LenProperties
<1> HIDE DEF t, n
<1>2. PICK w \in [0..Len(parts) -> S] : Resolving(w, start, parts)
    BY ResolveScan
<1>3. PICK v : Resolving(v, start, t)
    BY <1>1, ResolveScan
<1>9. /\ w \in [0..n -> S]
      /\ w[0] = start /\ ResolveParts(start, parts) = w[n]
      /\ \A k \in 1..n : w[k] = AddPart(w[k - 1], parts[k])
    BY <1>2 DEF Resolving, n
<1>10. /\ v[0] = start /\ ResolveParts(start, t) = v[n + 1]
       /\ \A k \in 1..(n + 1) : v[k] = AddPart(v[k - 1], t[k])
    BY <1>1, <1>3 DEF Resolving
<1>4. ASSUME NEW k \in 1..n, v[k - 1] = w[k - 1] PROVE v[k] = w[k]
  <2>1. t[k] = parts[k] /\ k \in 1..(n + 1)
      BY <1>1
  <2>2. w[k] = AddPart(w[k - 1], parts[k]) /\ v[k] = AddPart(v[k - 1], t[k])
      BY <1>9, <1>10, <2>1
  <2> QED BY <1>4, <2>1, <2>2
<1>5. v[n] = w[n]
  <2>1. n \in Nat /\ v[0] = w[0]
      BY <1>1, <1>9, <1>10
  <2>2. SameSteps(v, w, n)
      BY <1>4 DEF SameSteps
  <2> QED BY <2>1, <2>2, AgreeAtEnd
<1>6. v[n + 1] = AddPart(v[n], p)
  <2>1. n + 1 \in 1..(n + 1) /\ (n + 1) - 1 = n /\ t[n + 1] = p
      BY <1>1
  <2> QED BY <1>10, <2>1
<1>7. ResolveParts(start, t) = AddPart(ResolveParts(start, parts), p)
    BY <1>5, <1>6, <1>9, <1>10
<1>8. ResolveParts(start, parts) \in S
  <2> HIDE DEF S
  <2> QED BY <1>1, <1>9
<1> QED BY <1>7, <1>8 DEF t

\* What leads above the top is refused, whatever follows.
LEMMA ResolveRefused ==
    ASSUME NEW C, NEW start \in Resolutions(C), NEW parts \in Seq(Part(C)),
           ~ResolveParts(start, parts).ok, NEW more \in Seq(Part(C))
    PROVE  ~ResolveParts(start, Cat(parts, more)).ok
<1> DEFINE T == {t \in Seq(Part(C)) : ~ResolveParts(start, Cat(parts, t)).ok}
<1>1. <<>> \in T
  <2>1. Cat(parts, <<>>) = parts
      BY ConcatEmptySeq DEF Cat
  <2> QED BY <2>1, EmptySeq
<1>2. ASSUME NEW t \in T, NEW p \in Part(C) PROVE Append(t, p) \in T
  <2> DEFINE u == Cat(parts, t)
             r == ResolveParts(start, u)
  <2>1. t \in Seq(Part(C)) /\ ~r.ok
      OBVIOUS
  <2>2. Append(t, p) \in Seq(Part(C))
      BY <2>1, AppendProperties
  <2>3. Cat(parts, Append(t, p)) = Append(u, p)
      BY <2>1, ConcatAppend DEF Cat
  <2>4. u \in Seq(Part(C))
      BY <2>1, CatType
  <2> HIDE DEF u
  <2>5. r \in Resolutions(C) /\ ResolveParts(start, Append(u, p)) = AddPart(r, p)
      BY <2>4, ResolveAppend
  <2>6. AddPart(r, p) = r
      BY <2>1, <2>5, AddPartType
  <2> HIDE DEF r
  <2> QED BY <2>1, <2>2, <2>3, <2>5, <2>6
<1>3. T = Seq(Part(C))
  <2> HIDE DEF T
  <2>1. T \subseteq Seq(Part(C)) BY DEF T
  <2> QED BY <1>1, <1>2, <2>1, SeqInduction
<1> QED BY <1>3

LEMMA CatUnique ==
    ASSUME NEW S, NEW a \in Seq(S), NEW b \in Seq(S), NEW c \in Seq(S),
           NEW d \in Seq(S), Cat(a, b) = Cat(c, d), Len(a) = Len(c)
    PROVE  a = c
<1> DEFINE u == Cat(a, b)
<1>1. Joined(u, a, b) /\ Joined(u, c, d)
  <2>1. Joined(Cat(c, d), c, d)
      BY CatProperties
  <2>2. Joined(u, a, b)
      BY CatProperties
  <2> QED BY <2>1, <2>2
<1> HIDE DEF u
<1>2. \A i \in 1..Len(a) : u[i] = a[i] /\ u[i] = c[i]
    BY <1>1 DEF Joined
<1>3. \A i \in 1..Len(a) : a[i] = c[i]
    BY <1>2
<1> QED BY <1>3, SeqEqual

\* The walk stands between a, which it has passed, and b.
Between(s, cur, a, b) ==
    /\ s = Cat(a, b) /\ (Ready(a) \/ Ended(b))
    /\ cur = Len(a) + 1 \/ (b = <<>> /\ cur > Len(s))

LEMMA PassSlash ==
    ASSUME NEW C, "end" \notin C, NEW s \in Seq(C),
           NEW cur \in Nat \ {0}, CharAt(s, cur) \in {"/", "end"},
           NEW a \in Seq(C), NEW b \in Seq(C), Between(s, cur, a, b)
    PROVE  \E c \in Seq(C), d \in Seq(C) :
               Between(s, cur + 1, c, d) /\ DoSplit(c) = DoSplit(a)
<1>1. s = Cat(a, b)
    BY DEF Between
<1>2. Joined(s, a, b)
    BY <1>1, CatProperties
<1>3. /\ Len(a) \in Nat /\ Len(b) \in Nat /\ Len(s) = Len(a) + Len(b)
      /\ \A i \in 1..Len(b) : s[Len(a) + i] = b[i]
      /\ b = <<>> <=> Len(b) = 0
    BY <1>2, EmptySeq DEF Joined
<1>4. CASE CharAt(s, cur) = "end"
  <2>1. cur > Len(s)
      BY <1>4, CharAtDef
  <2>2. b = <<>> /\ cur + 1 > Len(s)
      BY <1>3, <2>1 DEF Between
  <2>3. Between(s, cur + 1, a, b)
      BY <2>2 DEF Between
  <2> QED BY <2>3
<1>5. CASE CharAt(s, cur) = "/"
  <2>1. cur \in 1..Len(s) /\ s[cur] = "/"
      BY <1>5, CharAtDef
  <2>2. cur = Len(a) + 1
      BY <1>3, <2>1 DEF Between
  <2>3. b # <<>> /\ Len(b) \in Nat \ {0} /\ b[1] = "/"
      BY <1>3, <2>1, <2>2
  <2>4. PICK f \in Seq(C), d \in Seq(C) :
            b = Cat(f, d) /\ Joined(b, f, d) /\ Len(f) = 1
    <3> DEFINE n == 1
    <3>1. n \in Nat /\ n <= Len(b)
        BY <2>3
    <3> HIDE DEF n
    <3>2. \E f \in Seq(C), d \in Seq(C) :
              b = Cat(f, d) /\ Joined(b, f, d) /\ Len(f) = n
        BY <3>1, SplitAt
    <3> QED BY <3>2 DEF n
  <2>5. f[1] = "/"
      BY <2>3, <2>4 DEF Joined
  <2>6. f = Root
      BY <2>4, <2>5, SeqEqual DEF Root
  <2> DEFINE c == Cat(a, Root)
  <2>7. Root \in Seq(C) /\ c \in Seq(C) /\ Joined(c, a, Root)
    <3>1. Root \in Seq(C)
        BY <2>4, <2>6
    <3> QED BY <3>1, CatProperties
  <2>8. Len(c) = cur /\ c[Len(c)] = "/"
    <3>1. Len(Root) = 1 /\ Root[1] = "/"
        BY DEF Root
    <3> HIDE DEF c
    <3> QED BY <1>3, <2>2, <2>7, <3>1 DEF Joined
  <2>9. s = Cat(c, d)
      BY <1>1, <2>4, <2>6, <2>7, CatAssociative
  <2>10. DoSplit(c) = DoSplit(a)
    <3>1. Ended(Root)
        BY DEF Root, Ended
    <3>2. DoSplit(c) = Cat(DoSplit(a), DoSplit(Root))
        BY <2>7, <3>1, CatSplit
    <3>3. DoSplit(Root) = <<>>
        BY DoSplitRoot
    <3>4. DoSplit(a) \in Seq(Part(C))
        BY DoSplitType
    <3> DEFINE da == DoSplit(a)
    <3>5. Cat(da, <<>>) = da
      <4>1. da \in Seq(Part(C))
          BY <3>4
      <4> HIDE DEF da
      <4> QED BY <4>1, ConcatEmptySeq DEF Cat
    <3> QED BY <3>2, <3>3, <3>5
  <2> HIDE DEF c
  <2>11. Between(s, cur + 1, c, d)
      BY <2>8, <2>9 DEF Between, Ready
  <2> QED BY <2>4, <2>7, <2>10, <2>11
<1> QED BY <1>4, <1>5

\* The walk stands behind a, and has resolved it to the parts.
StandsAt(s, start, cur, parts, a, b) ==
    /\ Between(s, cur, a, b)
    /\ ResolveParts(start, DoSplit(a)) = [ok |-> TRUE, parts |-> parts]

LEMMA StandsBehindSlash ==
    ASSUME NEW C, "end" \notin C, NEW s \in Seq(C), NEW start, NEW parts,
           NEW cur \in Nat \ {0}, CharAt(s, cur) \in {"/", "end"},
           NEW a \in Seq(C), NEW b \in Seq(C), StandsAt(s, start, cur, parts, a, b)
    PROVE  \E c \in Seq(C), d \in Seq(C) :
               StandsAt(s, start, cur + 1, parts, c, d)
<1>1. Between(s, cur, a, b)
    BY DEF StandsAt
<1>2. PICK c \in Seq(C), d \in Seq(C) :
          Between(s, cur + 1, c, d) /\ DoSplit(c) = DoSplit(a)
    BY <1>1, PassSlash
<1> QED BY <1>2 DEF StandsAt

\* What is behind a part of the path.
LEMMA BehindPart ==
    ASSUME NEW C, NEW s \in Seq(C), NEW cur \in Nat \ {0}, NEW a \in Seq(C),
           NEW q \in Part(C), NEW b \in Seq(C), RunsFrom(cur, s, a, q, b),
           NEW c, c = Cat(a, q)
    PROVE  /\ c \in Seq(C) /\ Between(s, cur + Len(q), c, b)
           /\ DoSplit(c) = Append(DoSplit(a), q)
           /\ DoSplit(s) = Cat(DoSplit(c), DoSplit(b))
<1> DEFINE da == DoSplit(a)
<1>1. s = Cat(a, Cat(q, b)) /\ Ready(a) /\ Ended(b) /\ Len(a) = cur - 1
    BY DEF RunsFrom
<1>2. q \in Seq(C) /\ q # <<>> /\ c \in Seq(C) /\ Joined(c, a, q)
    BY CatProperties DEF Part
<1>3. s = Cat(c, b)
    BY <1>1, <1>2, CatAssociative
<1>4. DoSplit(c) = Append(da, q)
  <2>1. DoSplit(c) = Cat(da, DoSplit(q))
      BY <1>1, <1>2, CatSplit
  <2>2. DoSplit(q) = <<q>>
      BY DoSplitPart
  <2>3. da \in Seq(Part(C))
      BY DoSplitType
  <2> HIDE DEF da
  <2>4. Append(da, q) = da \o <<q>>
      BY <2>3, AppendIsConcat
  <2> QED BY <2>1, <2>2, <2>4 DEF Cat
<1>5. DoSplit(s) = Cat(DoSplit(c), DoSplit(b))
    BY <1>1, <1>2, <1>3, CatSplit
<1>6. Len(c) + 1 = cur + Len(q)
  <2> DEFINE lc == Len(c)
             la == Len(a)
             lq == Len(q)
  <2>1. lc = la + lq /\ la \in Nat /\ lq \in Nat
      BY <1>2 DEF Joined
  <2>2. la = cur - 1
      BY <1>1
  <2> HIDE DEF la, lc, lq
  <2>3. lc + 1 = cur + lq
      BY <2>1, <2>2
  <2> QED BY <2>3 DEF lc, lq
<1> QED BY <1>1, <1>2, <1>3, <1>4, <1>5, <1>6 DEF Between

\* The walk passes a part of the path.
LEMMA PassPart ==
    ASSUME NEW C, "end" \notin C, NEW s \in Seq(C), NEW start \in Resolutions(C),
           NEW parts \in Seq(Part(C)), NEW cur \in Nat \ {0},
           NEW a \in Seq(C), NEW r \in Seq(C), StandsAt(s, start, cur, parts, a, r),
           NEW q \in Part(C), NEW b \in Seq(C), RunsFrom(cur, s, a, q, b),
           NEW acc, acc = AddPart([ok |-> TRUE, parts |-> parts], q)
    PROVE  /\ ~acc.ok => ~ResolveParts(start, DoSplit(s)).ok
           /\ acc.ok => \E c \in Seq(C), d \in Seq(C) :
                            StandsAt(s, start, cur + Len(q), acc.parts, c, d)
<1> DEFINE c == Cat(a, q)
           da == DoSplit(a)
           one == [ok |-> TRUE, parts |-> parts]
<1>1. /\ c \in Seq(C) /\ Between(s, cur + Len(q), c, b)
      /\ DoSplit(c) = Append(da, q) /\ DoSplit(s) = Cat(DoSplit(c), DoSplit(b))
    BY BehindPart
<1>2. ResolveParts(start, DoSplit(c)) = acc /\ acc \in Resolutions(C)
  <2>1. da \in Seq(Part(C))
      BY DoSplitType
  <2>2. ResolveParts(start, da) = one
      BY DEF StandsAt
  <2> HIDE DEF da, c
  <2>3. ResolveParts(start, Append(da, q)) = AddPart(ResolveParts(start, da), q)
      BY <2>1, ResolveAppend
  <2>4. one \in Resolutions(C)
      BY DEF Resolutions
  <2>5. AddPart(one, q) \in Resolutions(C)
    <3> HIDE DEF one
    <3> QED BY <2>4, AddPartType
  <2> HIDE DEF one
  <2> QED BY <1>1, <2>2, <2>3, <2>5 DEF one
<1>3. DoSplit(c) \in Seq(Part(C)) /\ DoSplit(b) \in Seq(Part(C))
    BY <1>1, DoSplitType
<1> HIDE DEF c, da, one
<1>4. ASSUME ~acc.ok PROVE ~ResolveParts(start, DoSplit(s)).ok
    BY <1>1, <1>2, <1>3, <1>4, ResolveRefused
<1>5. ASSUME acc.ok PROVE StandsAt(s, start, cur + Len(q), acc.parts, c, b)
  <2>1. acc.ok = TRUE
      BY <1>2, <1>5 DEF Resolutions
  <2>2. acc = [ok |-> TRUE, parts |-> acc.parts]
      BY <1>2, <2>1 DEF Resolutions
  <2> QED BY <1>1, <1>2, <2>2 DEF StandsAt
<1> QED BY <1>1, <1>4, <1>5

LEMMA PartAhead ==
    ASSUME NEW C, "end" \notin C, NEW s \in Seq(C),
           NEW cur \in Nat \ {0}, CharAt(s, cur) \notin {"/", "end"},
           NEW a \in Seq(C), NEW r \in Seq(C), Between(s, cur, a, r)
    PROVE  \E q \in Part(C), b \in Seq(C) :
               RunsFrom(cur, s, a, q, b) /\ q \in ToSet(DoSplit(s))
<1>1. cur \in 1..Len(s) /\ s[cur] # "/"
    BY CharAtDef
<1>2. s = Cat(a, r) /\ Joined(s, a, r)
  <2>1. s = Cat(a, r)
      BY DEF Between
  <2> QED BY <2>1, CatProperties
<1>3. /\ Len(a) \in Nat /\ Len(r) \in Nat /\ Len(s) = Len(a) + Len(r)
      /\ \A i \in 1..Len(a) : s[i] = a[i]
      /\ \A i \in 1..Len(r) : s[Len(a) + i] = r[i]
      /\ r = <<>> <=> Len(r) = 0
      /\ a = <<>> <=> Len(a) = 0
    BY <1>2, EmptySeq DEF Joined
<1>4. cur = Len(a) + 1
    BY <1>1, <1>3 DEF Between
<1>5. Ready(a)
  <2>1. r # <<>> /\ 1 \in 1..Len(r)
      BY <1>1, <1>3, <1>4
  <2>2. r[1] # "/"
      BY <1>1, <1>3, <1>4, <2>1
  <2> QED BY <2>1, <2>2 DEF Between, Ended
<1>6. cur = 1 \/ s[cur - 1] = "/"
  <2>1. CASE a = <<>>
      BY <1>3, <1>4, <2>1
  <2>2. CASE a # <<>>
    <3>1. Len(a) \in 1..Len(a) /\ cur - 1 = Len(a)
        BY <1>3, <1>4, <2>2
    <3>2. s[Len(a)] = a[Len(a)] /\ a[Len(a)] = "/"
        BY <1>3, <1>5, <2>2, <3>1 DEF Ready
    <3> QED BY <3>1, <3>2
  <2> QED BY <2>1, <2>2
<1>7. PICK f \in Seq(C), q \in Part(C), b \in Seq(C) : RunsFrom(cur, s, f, q, b)
    BY <1>1, <1>6, RunAt
<1>8. q \in ToSet(DoSplit(s))
    BY <1>7, DoSplitRun DEF RunsFrom
<1>9. f = a
  <2> DEFINE d == Cat(q, b)
  <2>1. d \in Seq(C)
      BY CatType DEF Part
  <2>2. Cat(f, d) = Cat(a, r) /\ Len(f) = Len(a)
      BY <1>2, <1>3, <1>4, <1>7 DEF RunsFrom
  <2> HIDE DEF d
  <2> QED BY <2>1, <2>2, CatUnique
<1> QED BY <1>7, <1>8, <1>9

LEMMA RunsReady ==
    ASSUME NEW C, NEW s \in Seq(C), NEW cur \in Nat \ {0}, NEW a \in Seq(C),
           NEW q \in Part(C), NEW b \in Seq(C), RunsFrom(cur, s, a, q, b)
    PROVE  cur = 1 \/ s[cur - 1] = "/"
<1> DEFINE d == Cat(q, b)
<1>1. s = Cat(a, d) /\ Ready(a) /\ Len(a) = cur - 1 /\ d \in Seq(C)
    BY CatType DEF RunsFrom, Part
<1> HIDE DEF d
<1>2. Joined(s, a, d)
    BY <1>1, CatProperties
<1>3. CASE a = <<>>
  <2>1. Len(a) = 0
      BY <1>3
  <2> QED BY <1>1, <2>1
<1>4. CASE a # <<>>
  <2>1. Len(a) \in 1..Len(a)
      BY <1>4, EmptySeq, LenProperties
  <2>2. s[Len(a)] = a[Len(a)] /\ a[Len(a)] = "/"
      BY <1>1, <1>2, <1>4, <2>1 DEF Joined, Ready
  <2> QED BY <1>1, <2>2
<1> QED BY <1>3, <1>4

\* The characters of a part of the path, and what is behind it.
Spells(s, cur, q, n, b) ==
    /\ n \in Nat \ {0} /\ cur - 1 + n <= Len(s)
    /\ \A i \in 1..n :
          CharAt(s, cur - 1 + i) = q[i] /\ q[i] # "/" /\ q[i] # "end"
    /\ CharAt(s, cur + n) = IF b = <<>> THEN "end" ELSE "/"

LEMMA RunChars ==
    ASSUME NEW C, "end" \notin C, NEW s \in Seq(C), NEW cur \in Nat \ {0},
           NEW a \in Seq(C), NEW q \in Part(C), NEW b \in Seq(C),
           RunsFrom(cur, s, a, q, b), NEW n, n = Len(q)
    PROVE  Spells(s, cur, q, n, b)
<1>1. /\ q \in Seq(C) /\ q # <<>> /\ \A i \in 1..n : q[i] # "/"
      /\ n \in Nat /\ \A i \in 1..n : q[i] \in C
    BY LenProperties, ElementOfSeq DEF Part
<1>2. n # 0
    BY <1>1, EmptySeq
<1>3. /\ Len(s) = cur - 1 + n + Len(b) /\ Len(b) \in Nat /\ Len(s) \in Nat
      /\ \A i \in 1..n : s[cur - 1 + i] = q[i]
      /\ b # <<>> => s[cur + n] = "/"
    BY LenProperties DEF RunsFrom
<1>4. ASSUME NEW i \in 1..n PROVE CharAt(s, cur - 1 + i) = q[i]
  <2>1. cur - 1 + i \in Nat \ {0} /\ cur - 1 + i \in 1..Len(s)
      BY <1>1, <1>3
  <2>2. CharAt(s, cur - 1 + i) = s[cur - 1 + i]
      BY <2>1, CharAtDef
  <2> QED BY <1>3, <2>2
<1>5. cur + n \in Nat \ {0} /\ cur - 1 + n <= Len(s)
    BY <1>1, <1>3
<1>6. CASE b = <<>>
  <2>1. Len(b) = 0
      BY <1>6
  <2>2. cur + n > Len(s)
      BY <1>1, <1>3, <2>1
  <2>3. CharAt(s, cur + n) = "end"
      BY <1>5, <2>2, CharAtDef
  <2> QED BY <1>1, <1>2, <1>4, <1>5, <1>6, <2>3 DEF Spells
<1>7. CASE b # <<>>
  <2>1. Len(b) # 0
      BY <1>7, EmptySeq
  <2>2. cur + n \in 1..Len(s) /\ s[cur + n] = "/"
      BY <1>1, <1>3, <1>7, <2>1
  <2>3. CharAt(s, cur + n) = "/"
      BY <1>5, <2>2, CharAtDef
  <2> QED BY <1>1, <1>2, <1>4, <1>5, <1>7, <2>3 DEF Spells
<1> QED BY <1>6, <1>7

\* What a step over an ordinary path does: it resolves the next part or nothing.
Advances(C, s, start, cur, next) ==
    /\ next.ok =>
          /\ next.cur > cur
          /\ \E c \in Seq(C), d \in Seq(C) :
                StandsAt(s, start, next.cur, next.parts, c, d)
    /\ ~next.ok => ~ResolveParts(start, DoSplit(s)).ok

LEMMA Advance ==
    ASSUME NEW C, NEW s, NEW start, NEW cur, NEW next, NEW k, NEW p,
           next.ok, next.cur = k, next.parts = p, k > cur,
           \E c \in Seq(C), d \in Seq(C) : StandsAt(s, start, k, p, c, d)
    PROVE  Advances(C, s, start, cur, next)
BY DEF Advances

LEMMA Refuse ==
    ASSUME NEW C, NEW s, NEW start, NEW cur, NEW next,
           ~next.ok, ~ResolveParts(start, DoSplit(s)).ok
    PROVE  Advances(C, s, start, cur, next)
BY DEF Advances

LEMMA OrdinaryStep ==
    ASSUME NEW C, "end" \notin C, NEW s \in Seq(C), NEW start \in Resolutions(C),
           Ordinary(s), NEW st \in WalkStates(Part(C)), st.ok,
           CharAt(s, st.cur) # "end",
           NEW a \in Seq(C), NEW r \in Seq(C),
           StandsAt(s, start, st.cur, st.parts, a, r)
    PROVE  Advances(C, s, start, st.cur, Step(s, st))
<1> DEFINE cur == st.cur
           parts == st.parts
           next == Step(s, st)
           one == [ok |-> TRUE, parts |-> parts]
<1>1. cur \in Nat \ {0} /\ parts \in Seq(Part(C)) /\ Len(s) \in Nat
      /\ DOMAIN st = {"ok", "cur", "parts"}
    BY LenProperties DEF WalkStates
<1>2. CASE CharAt(s, cur) = "/"
  <2>1. next = [st EXCEPT !.cur = cur + 1]
      BY <1>2 DEF Step
  <2>2. next.ok /\ next.cur = cur + 1 /\ next.parts = parts
      BY <1>1, <2>1
  <2>3. \E c \in Seq(C), d \in Seq(C) : StandsAt(s, start, cur + 1, parts, c, d)
    <3> HIDE DEF cur, parts
    <3>1. StandsAt(s, start, cur, parts, a, r)
        BY DEF cur, parts
    <3> QED BY <1>1, <1>2, <3>1, StandsBehindSlash
  <2>4. cur + 1 > cur
      BY <1>1
  <2> DEFINE k == cur + 1
  <2> HIDE DEF next, parts, cur, k
  <2>5. Advances(C, s, start, cur, next)
    <3>1. next.ok /\ next.cur = k /\ next.parts = parts /\ k > cur
        BY <2>2, <2>4 DEF k
    <3>2. \E c \in Seq(C), d \in Seq(C) : StandsAt(s, start, k, parts, c, d)
        BY <2>3 DEF k
    <3> QED BY <3>1, <3>2, Advance
  <2> QED BY <2>5 DEF next, cur
<1>3. CASE CharAt(s, cur) # "/"
  <2>1. PICK q \in Part(C), b \in Seq(C) :
            RunsFrom(cur, s, a, q, b) /\ q \in ToSet(DoSplit(s))
    <3> HIDE DEF cur, parts
    <3>1. Between(s, cur, a, r) /\ CharAt(s, cur) \notin {"/", "end"}
        BY <1>3 DEF cur, StandsAt
    <3> QED BY <1>1, <3>1, PartAhead
  <2> DEFINE acc == AddPart(one, q)
             n == Len(q)
  <2>2. /\ n \in Nat \ {0} /\ cur + n \in Nat \ {0}
        /\ \A i \in 1..n : CharAt(s, cur - 1 + i) = q[i] /\ q[i] # "/" /\ q[i] # "end"
        /\ CharAt(s, cur + n) \in {"/", "end"}
    <3> HIDE DEF n, cur
    <3>1. /\ n \in Nat \ {0} /\ cur - 1 + n <= Len(s)
          /\ \A i \in 1..n :
                CharAt(s, cur - 1 + i) = q[i] /\ q[i] # "/" /\ q[i] # "end"
          /\ CharAt(s, cur + n) = IF b = <<>> THEN "end" ELSE "/"
      <4>1. n = Len(q) /\ cur \in Nat \ {0}
          BY <1>1 DEF n
      <4>2. RunsFrom(cur, s, a, q, b)
          BY <2>1
      <4>3. Spells(s, cur, q, n, b)
          BY <4>1, <4>2, RunChars
      <4> QED BY <4>3 DEF Spells
    <3> QED BY <1>1, <3>1
  <2>3. /\ ~acc.ok => ~ResolveParts(start, DoSplit(s)).ok
        /\ acc.ok => \E c \in Seq(C), d \in Seq(C) :
                         StandsAt(s, start, cur + n, acc.parts, c, d)
    <3> HIDE DEF cur, parts, acc, n
    <3>1. StandsAt(s, start, cur, parts, a, r) /\ acc = AddPart(one, q)
        BY DEF cur, parts, acc
    <3> QED BY <1>1, <2>1, <3>1, PassPart DEF n
  <2>4. acc.ok => \E c \in Seq(C), d \in Seq(C) :
                      StandsAt(s, start, cur + n + 1, acc.parts, c, d)
    <3> HIDE DEF cur, parts, acc, n
    <3> DEFINE p == acc.parts
               m == cur + n
    <3> HIDE DEF p, m
    <3>1. SUFFICES ASSUME acc.ok
                   PROVE  \E c \in Seq(C), d \in Seq(C) :
                              StandsAt(s, start, m + 1, p, c, d)
        BY DEF p, m
    <3>2. PICK c \in Seq(C), d \in Seq(C) : StandsAt(s, start, m, p, c, d)
        BY <2>3, <3>1 DEF p, m
    <3>3. m \in Nat \ {0} /\ CharAt(s, m) \in {"/", "end"}
        BY <2>2 DEF m
    <3> QED BY <3>2, <3>3, StandsBehindSlash
  <2>5. q \in {Dot, DotDot} \/ PlainName(q)
      BY <2>1 DEF Ordinary
  <2>6. one.ok /\ one.parts = parts /\ Dot # DotDot
      BY DEF Dot, DotDot
  <2>7. CharAt(s, cur) = q[1]
    <3> HIDE DEF cur, n
    <3>1. 1 \in 1..n /\ cur - 1 + 1 = cur
        BY <1>1, <2>2
    <3>2. CharAt(s, cur - 1 + 1) = q[1]
        BY <2>2, <3>1
    <3> QED BY <3>1, <3>2
  <2>8. CASE q = Dot
    <3>1. n = 1 /\ q[1] = "." /\ CharAt(s, cur + 1) \in {"/", "end"}
        BY <2>2, <2>8 DEF Dot
    <3>2. acc = one
        BY <2>6, <2>8 DEF AddPart
    <3>3. next = [st EXCEPT !.cur = cur + 2]
        BY <1>3, <2>7, <3>1 DEF Step
    <3>4. next.ok /\ next.cur = cur + 2 /\ next.parts = parts /\ cur + n + 1 = cur + 2
        BY <1>1, <3>1, <3>3
    <3>5. acc.ok /\ acc.parts = parts
        BY <2>6, <3>2
    <3> DEFINE k == cur + 2
    <3> HIDE DEF next, acc, n, parts, cur
    <3>6. \E c \in Seq(C), d \in Seq(C) : StandsAt(s, start, k, parts, c, d)
        BY <2>4, <3>4, <3>5
    <3>7. k > cur /\ next.cur = k
        BY <1>1, <3>4
    <3> HIDE DEF k
    <3>8. Advances(C, s, start, cur, next)
        BY <3>4, <3>6, <3>7, Advance
    <3> QED BY <3>8 DEF next, cur
  <2>9. CASE q = DotDot
    <3>1. /\ n = 2 /\ q[1] = "." /\ q[2] = "."
        BY <2>9 DEF DotDot
    <3>2. CharAt(s, cur + 1) = "." /\ CharAt(s, cur + 2) \in {"/", "end"}
      <4>1. cur - 1 + 2 = cur + 1 /\ 2 \in 1..n
          BY <1>1, <3>1
      <4>2. CharAt(s, cur - 1 + 2) = "."
          BY <2>2, <3>1, <4>1
      <4> QED BY <2>2, <3>1, <4>1, <4>2
    <3>3. next = Parent(st, cur + 3)
        BY <1>3, <2>7, <3>1, <3>2 DEF Step
    <3>4. CASE parts = <<>>
      <4>1. acc = [one EXCEPT !.ok = FALSE] /\ next = [st EXCEPT !.ok = FALSE]
          BY <2>6, <2>9, <3>3, <3>4 DEF AddPart, Parent
      <4>2. ~acc.ok /\ ~next.ok
          BY <1>1, <4>1
      <4> HIDE DEF acc, next, cur
      <4>3. ~ResolveParts(start, DoSplit(s)).ok
          BY <2>3, <4>2
      <4>4. Advances(C, s, start, cur, next)
          BY <4>2, <4>3, Refuse
      <4> QED BY <4>4 DEF next, cur
    <3>5. CASE parts # <<>>
      <4>1. /\ acc = [one EXCEPT !.parts = Front(parts)]
            /\ next = [st EXCEPT !.cur = cur + 3, !.parts = Front(parts)]
          BY <2>6, <2>9, <3>3, <3>5 DEF AddPart, Parent
      <4>2. /\ acc.ok /\ acc.parts = Front(parts)
            /\ next.ok /\ next.cur = cur + 3 /\ next.parts = Front(parts)
            /\ cur + n + 1 = cur + 3
          BY <1>1, <3>1, <4>1
      <4> DEFINE k == cur + 3
                 front == Front(parts)
      <4> HIDE DEF next, acc, n, parts, cur, front
      <4>3. \E c \in Seq(C), d \in Seq(C) : StandsAt(s, start, k, front, c, d)
          BY <2>4, <4>2 DEF front
      <4>4. k > cur /\ next.cur = k /\ next.parts = front
          BY <1>1, <4>2 DEF front
      <4> HIDE DEF k
      <4>5. Advances(C, s, start, cur, next)
          BY <4>2, <4>3, <4>4, Advance
      <4> QED BY <4>5 DEF next, cur
    <3> QED BY <3>4, <3>5
  <2>10. CASE PlainName(q) /\ q # Dot /\ q # DotDot
    <3> DEFINE e == NameEnd(s, cur)
               p == SubSeq(s, cur, e)
    <3>1. s[cur] = "." => CharAt(s, cur + 1) \notin {".", "/", "end"}
      <4>1. SUFFICES ASSUME q[1] = "." PROVE CharAt(s, cur + 1) \notin {".", "/", "end"}
        <5>1. s[cur] = CharAt(s, cur)
            BY <1>1, CharAtDef
        <5> QED BY <2>7, <5>1
      <4>2. n # 1
        <5>1. Last(q) # "."
            BY <2>10 DEF PlainName
        <5>2. Last(q) = q[n]
            BY DEF Last
        <5> HIDE DEF n
        <5>3. q[n] # "." /\ q[1] = "."
            BY <4>1, <5>1, <5>2
        <5> QED BY <5>3
      <4>3. 2 \in 1..n /\ 1 \in 1..(n - 1) /\ cur - 1 + 2 = cur + 1 /\ 1 + 1 = 2
        <5>1. n \in Nat \ {0} /\ cur \in Nat
            BY <1>1, <2>2
        <5> HIDE DEF n, cur
        <5> QED BY <4>2, <5>1
      <4>4. q[2] # "."
          BY <2>10, <4>1, <4>3 DEF PlainName
      <4>5. CharAt(s, cur - 1 + 2) = q[2] /\ q[2] # "/" /\ q[2] # "end"
          BY <2>2, <4>3
      <4> QED BY <4>3, <4>4, <4>5
    <3>2. cur \in 1..Len(s) /\ s[cur] = CharAt(s, cur)
        BY <1>1, CharAtDef
    <3>3. cur = 1 \/ s[cur - 1] = "/"
        BY <1>1, <2>1, RunsReady
    <3>4. /\ \A i \in cur..e : s[i] # "\\"
          /\ e = cur - 1 + n
          /\ p \in Pieces(C, q)
      <4> HIDE DEF cur
      <4> QED BY <1>3, <2>1, <2>10, <3>1, <3>2, <3>3, Piece
    <3>5. p = q
        BY <2>10, <3>4 DEF Pieces
    <3>6. ~(CharAt(s, cur) = "." /\ CharAt(s, cur + 1) \in {".", "/", "end"})
        BY <3>1, <3>2
    <3>7. next = NameStep(s, st)
        BY <1>3, <3>6 DEF Step
    <3>8. next = [st EXCEPT !.cur = e + 1, !.parts = Append(parts, q)]
      <4>1. ~(\E i \in cur..e : s[i] = "\\")
          BY <3>4
      <4>2. NameStep(s, st) = [st EXCEPT !.cur = e + 1, !.parts = Append(parts, p)]
          BY <4>1 DEF NameStep
      <4> HIDE DEF p, next, e
      <4> QED BY <3>5, <3>7, <4>2
    <3>9. acc = [one EXCEPT !.parts = Append(parts, q)]
        BY <2>6, <2>10 DEF AddPart
    <3> DEFINE more == Append(parts, q)
    <3> HIDE DEF more
    <3>10. acc = [one EXCEPT !.parts = more] /\ next = [st EXCEPT !.cur = e + 1, !.parts = more]
        BY <3>8, <3>9 DEF more
    <3>11. /\ acc.ok /\ acc.parts = more
           /\ next.ok /\ next.cur = e + 1 /\ next.parts = more
        BY <1>1, <3>10
    <3> HIDE DEF acc, next, e, n
    <3>12. e + 1 = cur + n /\ cur + n > cur
        BY <1>1, <2>2, <3>4
    <3> DEFINE k == cur + n
    <3> HIDE DEF cur
    <3>13. \E c \in Seq(C), d \in Seq(C) : StandsAt(s, start, k, more, c, d)
        BY <2>3, <3>11
    <3>14. k > cur /\ next.cur = k
        BY <3>11, <3>12
    <3> HIDE DEF k
    <3>15. Advances(C, s, start, cur, next)
        BY <3>11, <3>13, <3>14, Advance
    <3> QED BY <3>15 DEF next, cur
  <2> QED BY <2>5, <2>8, <2>9, <2>10
<1> QED BY <1>2, <1>3

\* After k steps the walk has passed k characters or all of them, and stands
\* where it has resolved what it has passed.
ResolvedTo(C, s, start, k, st) ==
    /\ st.ok => /\ Aligned(s, st.cur)
                /\ st.cur > k \/ st.cur > Len(s)
                /\ \E a \in Seq(C), b \in Seq(C) :
                      StandsAt(s, start, st.cur, st.parts, a, b)
    /\ ~st.ok => ~ResolveParts(start, DoSplit(s)).ok

LEMMA ResolvedStep ==
    ASSUME NEW C, "end" \notin C, NEW s \in Seq(C), NEW start \in Resolutions(C),
           Ordinary(s), NEW st \in WalkStates(Part(C)), NEW k \in Nat,
           ResolvedTo(C, s, start, k, st)
    PROVE  /\ Step(s, st) \in WalkStates(Part(C))
           /\ ResolvedTo(C, s, start, k + 1, Step(s, st))
<1> DEFINE next == Step(s, st)
           cur == st.cur
<1>1. st.ok \in BOOLEAN /\ cur \in Nat \ {0} /\ Len(s) \in Nat
    BY LenProperties DEF WalkStates
<1>2. CASE ~st.ok
  <2>1. next = st
      BY <1>2 DEF Step
  <2> QED BY <1>2, <2>1 DEF ResolvedTo
<1>3. CASE st.ok /\ CharAt(s, cur) = "end"
  <2>1. next = st
      BY <1>3 DEF Step
  <2>2. cur > Len(s)
    <3> HIDE DEF cur
    <3> QED BY <1>1, <1>3, CharAtDef
  <2> QED BY <1>3, <2>1, <2>2 DEF ResolvedTo
<1>4. CASE st.ok /\ CharAt(s, cur) # "end"
  <2>1. /\ Aligned(s, cur) /\ (cur > k \/ cur > Len(s))
        /\ \E a \in Seq(C), b \in Seq(C) : StandsAt(s, start, cur, st.parts, a, b)
      BY <1>4 DEF ResolvedTo
  <2>2. next \in WalkStates(Part(C)) /\ (next.ok => Aligned(s, next.cur))
    <3>1. \A q \in ToSet(DoSplit(s)) : Pieces(C, q) \subseteq Part(C)
        BY DEF Pieces
    <3> QED BY <2>1, <3>1, StepType
  <2>3. Advances(C, s, start, cur, next)
      BY <1>4, <2>1, OrdinaryStep
  <2>4. cur > k
    <3>1. cur <= Len(s)
      <4> HIDE DEF cur
      <4> QED BY <1>1, <1>4, CharAtDef
    <3> QED BY <1>1, <2>1, <3>1
  <2>5. next.ok => next.cur \in Nat
      BY <2>2 DEF WalkStates
  <2> HIDE DEF next, cur
  <2>6. next.ok => next.cur > k + 1
      BY <1>1, <2>3, <2>4, <2>5 DEF Advances
  <2>7. ResolvedTo(C, s, start, k + 1, next)
      BY <2>2, <2>3, <2>6 DEF ResolvedTo, Advances
  <2> QED BY <2>2, <2>7 DEF next
<1> QED BY <1>1, <1>2, <1>3, <1>4

LEMMA ResolvedStart ==
    ASSUME NEW C, NEW s \in Seq(C), NEW cwd \in Seq(C),
           NEW start, start = [ok |-> TRUE, parts |-> WalkStart(s, cwd).parts]
    PROVE  /\ start \in Resolutions(C)
           /\ WalkStart(s, cwd) \in WalkStates(Part(C))
           /\ ResolvedTo(C, s, start, 0, WalkStart(s, cwd))
<1> DEFINE w == WalkStart(s, cwd)
           parts == w.parts
           e == <<>>
<1>1. w.ok = TRUE /\ w.cur = 1
      /\ parts = IF CharAt(s, 1) = "/" THEN <<>> ELSE DoSplit(cwd)
    BY DEF WalkStart
<1>2. parts \in Seq(Part(C))
    BY <1>1, DoSplitType, EmptySeq
<1>3. w \in WalkStates(Part(C))
    BY <1>2 DEF WalkStart, WalkStates
<1>4. start \in Resolutions(C)
    BY <1>2 DEF Resolutions
<1>5. e \in Seq(C) /\ Len(e) = 0 /\ DoSplit(e) = <<>> /\ s = Cat(e, s) /\ Ready(e)
  <2>1. <<>> \o s = s
      BY ConcatEmptySeq
  <2> QED BY <2>1, EmptySeq, DoSplitEmpty DEF Cat, Ready
<1>6. ResolveParts(start, DoSplit(e)) = start
    BY <1>4, <1>5, ResolveEmpty
<1> HIDE DEF e, parts, w
<1>7. StandsAt(s, start, w.cur, parts, e, s)
    BY <1>1, <1>5, <1>6 DEF StandsAt, Between, parts, w
<1>8. Aligned(s, w.cur)
    BY <1>1 DEF Aligned
<1>9. w.ok /\ w.cur > 0
    BY <1>1
<1>10. ResolvedTo(C, s, start, 0, w)
    BY <1>5, <1>7, <1>8, <1>9 DEF ResolvedTo, parts
<1> QED BY <1>3, <1>4, <1>10 DEF w

\* The walk over the characters resolves ordinary paths as by their parts, and
\* refuses those that lead above the top.
LEMMA NormalizeOrdinary ==
    ASSUME NEW C, "end" \notin C, NEW s \in Seq(C), NEW cwd \in Seq(C), Ordinary(s)
    PROVE  /\ NormalizeAndSplit(s, cwd).ok <=> ByParts(s, cwd).ok
           /\ NormalizeAndSplit(s, cwd).ok =>
                  NormalizeAndSplit(s, cwd).parts = ByParts(s, cwd).parts
<1> DEFINE n == Len(s)
           S == WalkStates(Part(C))
           w == WalkStart(s, cwd)
           start == [ok |-> TRUE, parts |-> w.parts]
           R(k) == {st \in S : ResolvedTo(C, s, start, k, st)}
           G == [k \in 0..n |-> R(k)]
           end == NormalizeAndSplit(s, cwd)
           all == ResolveParts(start, DoSplit(s))
<1>1. n \in Nat
    BY LenProperties
<1>2. start \in Resolutions(C) /\ w \in R(0)
    BY ResolvedStart
<1>3. all = ByParts(s, cwd)
    BY DEF ByParts, WalkStart
<1>4. ASSUME NEW k \in Nat, NEW st \in R(k) PROVE Step(s, st) \in R(k + 1)
    BY <1>2, ResolvedStep
<1>5. end \in R(n)
  <2>1. G \in [0..n -> SUBSET S] /\ \A k \in 0..n : G[k] = R(k)
      OBVIOUS
  <2> HIDE DEF G, R, S, w
  <2>2. w \in G[0]
      BY <1>1, <1>2, <2>1
  <2>3. ASSUME NEW k \in 1..n, NEW a \in G[k - 1] PROVE Step(s, a) \in G[k]
    <3> DEFINE j == k - 1
    <3>1. j \in Nat /\ j \in 0..n /\ k \in 0..n /\ j + 1 = k
        BY <1>1
    <3>2. a \in R(j)
        BY <2>1, <3>1
    <3> HIDE DEF j
    <3>3. Step(s, a) \in R(j + 1)
        BY <1>4, <3>1, <3>2
    <3> QED BY <2>1, <3>1, <3>3
  <2>4. KeptBySteps(G, s, n)
      BY <2>3 DEF KeptBySteps, n
  <2> HIDE DEF n
  <2>5. end \in G[n]
      BY <1>1, <2>1, <2>2, <2>4, WalkInvariant DEF w
  <2> QED BY <1>1, <2>1, <2>5
<1>6. end \in S /\ ResolvedTo(C, s, start, n, end)
    BY <1>5
<1>7. ASSUME end.ok PROVE all = [ok |-> TRUE, parts |-> end.parts]
  <2>1. end.cur > n
      BY <1>7, <1>6 DEF ResolvedTo
  <2>2. PICK a \in Seq(C), b \in Seq(C) :
            StandsAt(s, start, end.cur, end.parts, a, b)
      BY <1>7, <1>6 DEF ResolvedTo
  <2>3. end.cur \in Nat
      BY <1>6 DEF WalkStates
  <2> HIDE DEF end, start
  <2>4. s = Cat(a, b) /\ Joined(s, a, b)
      BY <2>2, CatProperties DEF StandsAt, Between
  <2>5. /\ Len(a) \in Nat /\ Len(b) \in Nat /\ n = Len(a) + Len(b)
        /\ b = <<>> <=> Len(b) = 0
      BY <2>4, EmptySeq DEF Joined
  <2>6. b = <<>>
      BY <1>1, <2>1, <2>2, <2>3, <2>5 DEF StandsAt, Between
  <2>7. s = a
      BY <2>4, <2>6, ConcatEmptySeq DEF Cat
  <2> QED BY <2>2, <2>7 DEF StandsAt
<1>8. ASSUME ~end.ok PROVE ~all.ok
    BY <1>6, <1>8 DEF ResolvedTo
<1> HIDE DEF end, all
<1>9. (end.ok <=> all.ok) /\ (end.ok => end.parts = all.parts)
    BY <1>7, <1>8
<1> QED BY <1>3, <1>9 DEF end, all

-----------------------------------------------------------------------------
(***************************************************************************)
(* No path leads up. A name with two dots in a row is never taken, and     *)
(* what the lookup cuts off of a path has two dots in a row only where the *)
(* path has them.                                                          *)
(***************************************************************************)
Clean(s) == \A i \in 1..(Len(s) - 1) : s[i] # "." \/ s[i + 1] # "."

CleanParts(C) == {p \in Part(C) : Clean(p)}

LEMMA CleanCat ==
    ASSUME NEW C, NEW a \in Seq(C), NEW b \in Seq(C), NEW u, Joined(u, a, b)
    PROVE  /\ Clean(u) => Clean(a) /\ Clean(b)
           /\ Clean(u) /\ a # <<>> /\ b # <<>> => a[Len(a)] # "." \/ b[1] # "."
           /\ /\ Clean(a) /\ Clean(b)
              /\ a = <<>> \/ b = <<>> \/ a[Len(a)] # "." \/ b[1] # "."
              => Clean(u)
<1> DEFINE m == Len(a)
           n == Len(b)
           l == Len(u)
<1>1. /\ m \in Nat /\ n \in Nat /\ l = m + n
      /\ \A i \in 1..m : u[i] = a[i]
      /\ \A i \in 1..n : u[m + i] = b[i]
    BY DEF Joined
<1>2. (a = <<>> <=> m = 0) /\ (b = <<>> <=> n = 0)
    BY EmptySeq
<1>3. /\ Clean(u) <=> \A i \in 1..(l - 1) : u[i] # "." \/ u[i + 1] # "."
      /\ Clean(a) <=> \A i \in 1..(m - 1) : a[i] # "." \/ a[i + 1] # "."
      /\ Clean(b) <=> \A i \in 1..(n - 1) : b[i] # "." \/ b[i + 1] # "."
    BY DEF Clean
<1> HIDE DEF m, n, l
<1>4. ASSUME Clean(u), NEW i \in 1..(m - 1) PROVE a[i] # "." \/ a[i + 1] # "."
  <2>1. i \in 1..m /\ i + 1 \in 1..m /\ i \in 1..(l - 1)
      BY <1>1
  <2> QED BY <1>1, <1>3, <1>4, <2>1
<1>5. ASSUME Clean(u), NEW i \in 1..(n - 1) PROVE b[i] # "." \/ b[i + 1] # "."
  <2>1. i \in 1..n /\ i + 1 \in 1..n /\ m + i \in 1..(l - 1)
        /\ m + (i + 1) = (m + i) + 1
      BY <1>1
  <2>2. u[m + i] = b[i] /\ u[(m + i) + 1] = b[i + 1]
      BY <1>1, <2>1
  <2> QED BY <1>3, <1>5, <2>1, <2>2
<1>6. ASSUME Clean(u), m # 0, n # 0 PROVE a[m] # "." \/ b[1] # "."
  <2>1. m \in 1..(l - 1) /\ m \in 1..m /\ 1 \in 1..n
      BY <1>1, <1>6
  <2> QED BY <1>1, <1>3, <1>6, <2>1
<1>7. ASSUME Clean(a), Clean(b), m = 0 \/ n = 0 \/ a[m] # "." \/ b[1] # ".",
             NEW i \in 1..(l - 1)
      PROVE  u[i] # "." \/ u[i + 1] # "."
  <2>1. CASE i < m
    <3>1. i \in 1..(m - 1) /\ i \in 1..m /\ i + 1 \in 1..m
        BY <1>1, <2>1
    <3> QED BY <1>1, <1>3, <1>7, <3>1
  <2>2. CASE i = m
    <3>1. m # 0 /\ n # 0 /\ m \in 1..m /\ 1 \in 1..n
        BY <1>1, <2>2
    <3> QED BY <1>1, <1>7, <2>2, <3>1
  <2>3. CASE i > m
    <3> DEFINE j == i - m
    <3>1. j \in 1..(n - 1) /\ j \in 1..n /\ j + 1 \in 1..n
          /\ m + j = i /\ m + (j + 1) = i + 1
        BY <1>1, <2>3
    <3> HIDE DEF j
    <3>2. u[i] = b[j] /\ u[i + 1] = b[j + 1]
        BY <1>1, <3>1
    <3> QED BY <1>3, <1>7, <3>1, <3>2
  <2> QED BY <1>1, <2>1, <2>2, <2>3
<1>8. Clean(u) => Clean(a) /\ Clean(b)
    BY <1>3, <1>4, <1>5
<1>9. Clean(u) /\ a # <<>> /\ b # <<>> => a[m] # "." \/ b[1] # "."
    BY <1>2, <1>6
<1>10. /\ Clean(a) /\ Clean(b)
       /\ a = <<>> \/ b = <<>> \/ a[m] # "." \/ b[1] # "."
       => Clean(u)
    BY <1>2, <1>3, <1>7
<1> QED BY <1>8, <1>9, <1>10 DEF m

LEMMA CleanAppend ==
    ASSUME NEW C, NEW s \in Seq(C), NEW c \in C
    PROVE  Clean(Append(s, c)) <=>
               Clean(s) /\ (s = <<>> \/ s[Len(s)] # "." \/ c # ".")
<1> DEFINE one == <<c>>
           t == Append(s, c)
<1>1. one \in Seq(C) /\ one # <<>> /\ one[1] = c /\ Len(one) = 1
    OBVIOUS
<1>2. t = Cat(s, one)
    BY DEF Cat
<1> HIDE DEF one, t
<1>3. Joined(t, s, one)
    BY <1>1, <1>2, CatProperties
<1>4. Clean(one)
  <2>1. 1..(1 - 1) = {}
      OBVIOUS
  <2> QED BY <1>1, <2>1 DEF Clean
<1>5. /\ Clean(t) => Clean(s)
      /\ Clean(t) /\ s # <<>> => s[Len(s)] # "." \/ c # "."
      /\ Clean(s) /\ (s = <<>> \/ s[Len(s)] # "." \/ c # ".") => Clean(t)
    BY <1>1, <1>3, <1>4, CleanCat
<1> QED BY <1>5 DEF t

\* The last character of a sequence of parts.
EndsWith(parts, c) ==
    parts # <<>> /\ Last(parts) # <<>> /\ Last(parts)[Len(Last(parts))] = c

LEMMA AddCharClean ==
    ASSUME NEW C, NEW parts \in Seq(CleanParts(C)), NEW c \in C, NEW before,
           before = "/" \/ c = "/" \/ EndsWith(parts, before),
           before # "." \/ c # "."
    PROVE  /\ AddChar(parts, before, c) \in Seq(CleanParts(C))
           /\ c = "/" \/ EndsWith(AddChar(parts, before, c), c)
<1> DEFINE P == CleanParts(C)
           new == AddChar(parts, before, c)
<1>1. ASSUME NEW ps \in Seq(P), NEW p \in P, p[Len(p)] = c
      PROVE  Append(ps, p) \in Seq(P) /\ EndsWith(Append(ps, p), c)
  <2>1. Append(ps, p) \in Seq(P) /\ Append(ps, p) # <<>> /\ Last(Append(ps, p)) = p
      BY AppendProperties, FrontOfAppend
  <2>2. p # <<>>
      BY DEF CleanParts, Part
  <2> QED BY <1>1, <2>1, <2>2 DEF EndsWith
<1>2. CASE c = "/"
    BY <1>2 DEF AddChar
<1>3. CASE c # "/" /\ before = "/"
  <2> DEFINE one == <<c>>
  <2>1. one \in Seq(C) /\ one # <<>> /\ Len(one) = 1 /\ one[1] = c
      OBVIOUS
  <2>2. new = Append(parts, one)
      BY <1>3 DEF AddChar
  <2> HIDE DEF one, new
  <2>3. 1..(1 - 1) = {} /\ 1..1 = {1}
      OBVIOUS
  <2>4. one \in P
      BY <1>3, <2>1, <2>3 DEF CleanParts, Part, Clean
  <2>5. new \in Seq(P) /\ EndsWith(new, c)
      BY <1>1, <2>1, <2>2, <2>4
  <2> QED BY <2>5 DEF new
<1>4. CASE c # "/" /\ before # "/"
  <2> DEFINE f == Front(parts)
             l == Last(parts)
             p == Append(l, c)
  <2>1. EndsWith(parts, before)
      BY <1>4
  <2>2. f \in Seq(P) /\ l \in P
      BY <2>1, FrontLast DEF EndsWith
  <2>3. l # <<>> /\ l[Len(l)] = before
      BY <2>1 DEF EndsWith
  <2>4. new = Append(f, p)
      BY <1>4 DEF AddChar
  <2> HIDE DEF f, l, new
  <2>5. l \in Seq(C) /\ Clean(l) /\ \A i \in 1..Len(l) : l[i] # "/"
      BY <2>2 DEF CleanParts, Part
  <2>6. /\ p \in Seq(C) /\ Len(p) = Len(l) + 1 /\ p[Len(l) + 1] = c
        /\ \A i \in 1..Len(l) : p[i] = l[i]
      BY <2>5, AppendProperties
  <2>7. Clean(p)
      BY <2>3, <2>5, CleanAppend
  <2> HIDE DEF p
  <2>8. p # <<>> /\ \A i \in 1..Len(p) : p[i] # "/"
    <3>1. Len(l) \in Nat
        BY <2>5, LenProperties
    <3>2. Len(p) # 0
        BY <2>6, <3>1
    <3>3. ASSUME NEW i \in 1..Len(p) PROVE p[i] # "/"
        BY <1>4, <2>5, <2>6, <3>1
    <3> QED BY <2>6, <3>2, <3>3, EmptySeq
  <2>9. p \in P /\ p[Len(p)] = c
      BY <2>6, <2>7, <2>8 DEF CleanParts, Part
  <2>10. new \in Seq(P) /\ EndsWith(new, c)
      BY <1>1, <2>2, <2>4, <2>9
  <2> QED BY <2>10 DEF new
<1> QED BY <1>2, <1>3, <1>4

\* The parts of a path have two dots in a row only where the path has them.
LEMMA CleanSplit ==
    ASSUME NEW C, NEW s \in Seq(C), Clean(s)
    PROVE  DoSplit(s) \in Seq(CleanParts(C))
<1> DEFINE P == CleanParts(C)
           Ends(t) == t = <<>> \/ t[Len(t)] = "/" \/ EndsWith(DoSplit(t), t[Len(t)])
           T == {t \in Seq(C) : Clean(t) => DoSplit(t) \in Seq(P) /\ Ends(t)}
<1>1. <<>> \in T
    BY DoSplitEmpty, EmptySeq
<1>2. ASSUME NEW t \in T, NEW c \in C PROVE Append(t, c) \in T
  <2> DEFINE u == Append(t, c)
             before == IF t = <<>> THEN "/" ELSE t[Len(t)]
  <2>1. t \in Seq(C) /\ (Clean(t) => DoSplit(t) \in Seq(P) /\ Ends(t))
      OBVIOUS
  <2>2. u \in Seq(C) /\ u[Len(u)] = c
      BY <2>1, AppendProperties
  <2>3. DoSplit(u) = AddChar(DoSplit(t), before, c)
      BY <2>1, DoSplitAppend
  <2>4. Clean(u) => Clean(t) /\ (before # "." \/ c # ".")
      BY <2>1, CleanAppend
  <2> HIDE DEF u
  <2>5. ASSUME Clean(u) PROVE DoSplit(u) \in Seq(P) /\ Ends(u)
    <3>1. DoSplit(t) \in Seq(P) /\ Ends(t)
        BY <2>1, <2>4, <2>5
    <3>2. before = "/" \/ c = "/" \/ EndsWith(DoSplit(t), before)
        BY <3>1
    <3>3. before # "." \/ c # "."
        BY <2>4, <2>5
    <3> HIDE DEF before
    <3>4. /\ AddChar(DoSplit(t), before, c) \in Seq(P)
          /\ c = "/" \/ EndsWith(AddChar(DoSplit(t), before, c), c)
        BY <3>1, <3>2, <3>3, AddCharClean
    <3> QED BY <2>2, <2>3, <3>4
  <2> HIDE DEF Ends
  <2>6. u \in T
      BY <2>2, <2>5
  <2> QED BY <2>6 DEF u
<1>3. T = Seq(C)
  <2>1. T \subseteq Seq(C)
      OBVIOUS
  <2> HIDE DEF T
  <2> QED BY <1>1, <1>2, <2>1, SeqInduction
<1>4. s \in T
    BY <1>3
<1> QED BY <1>4

\* A virtual path has none that its parts do not have.
LEMMA CleanJoin ==
    ASSUME NEW C, "/" \in C, NEW parts \in Seq(CleanParts(C))
    PROVE  ToVpath(parts) \in Seq(C) /\ Clean(ToVpath(parts))
<1> DEFINE P == CleanParts(C)
           T == {ps \in Seq(P) : Clean(ToVpath(ps))}
<1>1. /\ Root \in Seq(C) /\ Root # <<>> /\ Len(Root) = 1 /\ Root[1] = "/"
      /\ Clean(Root)
  <2>1. 1..(1 - 1) = {}
      OBVIOUS
  <2> QED BY <2>1 DEF Root, Clean
<1>2. \A p \in P : p \in Part(C) /\ p \in Seq(C) /\ Clean(p)
    BY DEF CleanParts, Part
<1>3. ASSUME NEW ps \in Seq(P) PROVE ps \in Seq(Part(C)) /\ ps \in Seq(Seq(C))
    BY <1>2, SeqMonotonic
<1>4. <<>> \in T
    BY <1>1, ToVpathEmpty, EmptySeq
<1>5. ASSUME NEW ps \in T, NEW p \in P PROVE Append(ps, p) \in T
  <2> DEFINE a == IF ps = <<>> THEN <<>> ELSE ToVpath(ps)
             slash == Cat(a, Root)
             v == Cat(slash, p)
  <2>1. ps \in Seq(P) /\ Clean(ToVpath(ps))
      OBVIOUS
  <2>2. a \in Seq(C) /\ Clean(a)
    <3>1. ToVpath(ps) \in Seq(C)
        BY <1>3, <2>1, DoSplitToVpath
    <3>2. <<>> \in Seq(C) /\ Clean(<<>>)
        BY EmptySeq DEF Clean
    <3> QED BY <2>1, <3>1, <3>2
  <2>3. ToVpath(Append(ps, p)) = v
    <3>1. ps \in Seq(Strings(C)) /\ p \in Strings(C)
        BY <1>2, <1>3, <2>1 DEF Strings
    <3> QED BY <3>1, ToVpathAppend DEF Cat
  <2> HIDE DEF a
  <2>4. slash \in Seq(C) /\ Joined(slash, a, Root)
      BY <1>1, <2>2, CatProperties
  <2>5. Clean(slash)
      BY <1>1, <2>2, <2>4, CleanCat
  <2>6. slash # <<>> /\ slash[Len(slash)] = "/"
    <3>1. Len(slash) = Len(a) + 1 /\ Len(a) \in Nat /\ slash[Len(a) + 1] = "/"
        BY <1>1, <2>4 DEF Joined
    <3> HIDE DEF slash
    <3> QED BY <2>4, <3>1, EmptySeq
  <2> HIDE DEF slash
  <2>7. Joined(v, slash, p) /\ p \in Seq(C) /\ Clean(p)
      BY <1>2, <2>4, CatProperties
  <2> HIDE DEF v
  <2>8. Clean(v)
      BY <2>4, <2>5, <2>6, <2>7, CleanCat
  <2>9. Append(ps, p) \in Seq(P)
      BY <2>1, AppendProperties
  <2> QED BY <2>3, <2>8, <2>9
<1>6. T = Seq(P)
  <2>1. T \subseteq Seq(P)
      OBVIOUS
  <2> HIDE DEF T, P
  <2> QED BY <1>4, <1>5, <2>1, SeqInduction
<1>7. ToVpath(parts) \in Seq(C)
    BY <1>3, DoSplitToVpath
<1>8. parts \in T
    BY <1>6
<1> QED BY <1>7, <1>8

\* Whatever the entries are, and whatever path is sent from whatever directory
\* the session has come to, the path that it stands for is below the root of an
\* entry: none of its parts is empty or .., or has a slash in it. The current
\* directory that a CWD to it makes is clean again, so that this holds for any
\* sequence of commands and for what any disk has (GetPath, NormalizeAndSplit,
\* CreateSubpath).
THEOREM NothingLeadsUp ==
    ASSUME NEW C, "/" \in C, "end" \notin C,
           NEW entries, \A e \in ToSet(entries) : e.vpath \in Seq(C),
           NEW path \in Seq(C), NEW cwd \in Seq(C), Clean(cwd),
           NEW dir \in GetPath(entries, path, cwd)
    PROVE  /\ dir.vpath \in Seq(C) /\ Clean(dir.vpath)
           /\ \E e \in ToSet(entries) : \E rest \in Seq(Part(C)) :
                 /\ dir.ppath = <<e.root>> \o rest
                 /\ dir.perms = e.perms
                 /\ \A i \in 1..Len(rest) :
                       rest[i] \notin {<<>>, DotDot} /\ "/" \notin ToSet(rest[i])
<1> DEFINE P == CleanParts(C)
           st == NormalizeAndSplit(path, cwd)
           full == ToVpath(st.parts)
<1>1. st.parts \in Seq(P)
  <2>1. \A q \in ToSet(DoSplit(path)) : Pieces(C, q) \subseteq P
      BY DEF Pieces, CleanParts, Clean
  <2>2. DoSplit(cwd) \in Seq(P)
      BY CleanSplit
  <2> HIDE DEF P
  <2>3. st \in WalkStates(P)
      BY <2>1, <2>2, NormalizeType
  <2> QED BY <2>3 DEF WalkStates
<1>2. full \in Seq(C) /\ Clean(full)
    BY <1>1, CleanJoin
<1>3. PICK e \in BestMatch(entries, full) :
          dir = CreateSubpath(e, SubSeq(full, Len(e.vpath) + 1, Len(full)))
    BY DEF GetPath
<1>4. e \in ToSet(entries) /\ IsPrefix(e.vpath, full)
    BY DEF BestMatch, Matches
<1> HIDE DEF full
<1> DEFINE v == e.vpath
           r == Rest(v, full)
           rest == DoSplit(r)
           d == DoSplit(v)
<1>5. v \in Seq(C) /\ r \in Seq(C) /\ full = Cat(v, r)
    BY <1>2, <1>4, PrefixRest DEF Cat
<1>6. Clean(v) /\ Clean(r)
  <2> HIDE DEF v, r
  <2> QED BY <1>2, <1>5, CatProperties, CleanCat
<1>7. rest \in Seq(P) /\ d \in Seq(P)
    BY <1>5, <1>6, CleanSplit
<1>8. dir.vpath = ToVpath(Cat(d, rest)) /\ dir.ppath = <<e.root>> \o rest
      /\ dir.perms = e.perms
  <2>1. dir = CreateSubpath(e, r)
      BY <1>3 DEF Rest
  <2> HIDE DEF r
  <2> QED BY <2>1 DEF CreateSubpath, Cat
<1> HIDE DEF rest, d
<1>9. Cat(d, rest) \in Seq(P)
    BY <1>7, CatType
<1>10. dir.vpath \in Seq(C) /\ Clean(dir.vpath)
    BY <1>8, <1>9, CleanJoin
<1>11. rest \in Seq(Part(C))
    BY <1>7, SeqMonotonic DEF CleanParts
<1>12. ASSUME NEW i \in 1..Len(rest)
       PROVE  rest[i] \notin {<<>>, DotDot} /\ "/" \notin ToSet(rest[i])
  <2> DEFINE p == rest[i]
  <2>1. p \in P
      BY <1>7, ElementOfSeq
  <2> HIDE DEF p
  <2>2. p # <<>> /\ Clean(p) /\ \A j \in 1..Len(p) : p[j] # "/"
      BY <2>1 DEF CleanParts, Part
  <2>3. p # DotDot
    <3>1. SUFFICES ASSUME p = DotDot PROVE FALSE
        OBVIOUS
    <3>2. Len(p) = 2 /\ p[1] = "." /\ p[1 + 1] = "."
        BY <3>1 DEF DotDot
    <3>3. 1 \in 1..(Len(p) - 1)
        BY <3>2
    <3> QED BY <2>2, <3>2, <3>3 DEF Clean
  <2>4. p \in Seq(C)
      BY <2>1 DEF CleanParts, Part
  <2>5. "/" \notin ToSet(p)
      BY <2>2, <2>4, LenProperties DEF ToSet
  <2> QED BY <2>2, <2>3, <2>5 DEF p
<1> QED BY <1>4, <1>8, <1>10, <1>11, <1>12

-----------------------------------------------------------------------------
(***************************************************************************)
(* What the walk makes of clean names. It loses a name ., and a dot at the *)
(* end of a name that is followed by a slash, and nothing else.            *)
(***************************************************************************)

\* The parts are made of the names, in their order, by leaving out some of them
\* and by cutting others short.
Taken(names, parts) ==
    /\ Len(parts) <= Len(names)
    /\ \A i \in 1..Len(parts) : \E j \in i..(i + (Len(names) - Len(parts))) :
          IsPrefix(parts[i], names[j])

\* These are the first names of n in a path, and none of them loses a dot.
Tidy(names, n) ==
    \A i \in 1..Len(names) :
        names[i] # Dot /\ (Last(names[i]) = "." => i = n)

\* The walk has made the parts of the names: all of it is there if they are tidy.
MadeOf(names, parts, n) ==
    Taken(names, parts) /\ (parts = names <=> Tidy(names, n))

LEMMA MadeOfNothing ==
    ASSUME NEW n
    PROVE  MadeOf(<<>>, <<>>, n)
<1>1. 1..Len(<<>>) = {} /\ Len(<<>>) <= Len(<<>>)
    OBVIOUS
<1> QED BY <1>1 DEF MadeOf, Taken, Tidy

\* One more name, all of it but perhaps the dot at its end.
LEMMA MadeOfOneMore ==
    ASSUME NEW S, NEW names \in Seq(S), NEW parts \in Seq(S), NEW n,
           MadeOf(names, parts, n), NEW q \in S, NEW p \in S,
           IsPrefix(p, q), q # Dot,
           p = q <=> (Last(q) = "." => Len(names) + 1 = n)
    PROVE  MadeOf(Append(names, q), Append(parts, p), n)
<1> DEFINE u == Append(names, q)
           v == Append(parts, p)
           k == Len(names)
           l == Len(parts)
<1>1. /\ k \in Nat /\ l \in Nat /\ l <= k
      /\ Len(u) = k + 1 /\ u[k + 1] = q /\ \A i \in 1..k : u[i] = names[i]
      /\ Len(v) = l + 1 /\ v[l + 1] = p /\ \A i \in 1..l : v[i] = parts[i]
    BY AppendProperties, LenProperties DEF MadeOf, Taken
<1>2. \A i \in 1..l : \E j \in i..(i + (k - l)) : IsPrefix(parts[i], names[j])
    BY DEF MadeOf, Taken
<1>3. parts = names <=> Tidy(names, n)
    BY DEF MadeOf
<1>4. v = u <=> parts = names /\ p = q
    BY AppendInjective
<1>5. Tidy(names, n) <=>
          \A i \in 1..k : names[i] # Dot /\ (Last(names[i]) = "." => i = n)
    BY DEF Tidy
<1>6. Tidy(u, n) <=> \A i \in 1..Len(u) : u[i] # Dot /\ (Last(u[i]) = "." => i = n)
    BY DEF Tidy
<1>7. Taken(u, v) <=>
          /\ Len(v) <= Len(u)
          /\ \A i \in 1..Len(v) : \E j \in i..(i + (Len(u) - Len(v))) :
                IsPrefix(v[i], u[j])
    BY DEF Taken
<1> HIDE DEF u, v, k, l
<1>8. ASSUME NEW i \in 1..(l + 1)
      PROVE  \E j \in i..(i + (Len(u) - Len(v))) : IsPrefix(v[i], u[j])
  <2>1. CASE i \in 1..l
    <3>1. PICK j \in i..(i + (k - l)) : IsPrefix(parts[i], names[j])
        BY <1>2, <2>1
    <3>2. j \in 1..k /\ j \in i..(i + (Len(u) - Len(v)))
        BY <1>1, <2>1
    <3>3. u[j] = names[j] /\ v[i] = parts[i]
        BY <1>1, <2>1, <3>2
    <3> QED BY <3>1, <3>2, <3>3
  <2>2. CASE i \notin 1..l
    <3>1. i = l + 1 /\ k + 1 \in i..(i + (Len(u) - Len(v)))
        BY <1>1, <2>2
    <3> QED BY <1>1, <3>1
  <2> QED BY <2>1, <2>2
<1>9. Taken(u, v)
    BY <1>1, <1>7, <1>8
<1>10. Tidy(u, n) <=>
           Tidy(names, n) /\ q # Dot /\ (Last(q) = "." => k + 1 = n)
  <2>1. 1..(k + 1) = (1..k) \cup {k + 1}
      BY <1>1
  <2> QED BY <1>1, <1>5, <1>6, <2>1
<1>11. v = u <=> Tidy(u, n)
  <2>1. p = q <=> (Last(q) = "." => k + 1 = n)
      BY DEF k
  <2> QED BY <1>3, <1>4, <1>10, <2>1
<1>12. MadeOf(u, v, n)
    BY <1>9, <1>11 DEF MadeOf
<1> QED BY <1>12 DEF u, v

\* One more name, which is lost.
LEMMA MadeOfDot ==
    ASSUME NEW S, Dot \in S, NEW names \in Seq(S), NEW parts \in Seq(S), NEW n,
           MadeOf(names, parts, n)
    PROVE  MadeOf(Append(names, Dot), parts, n)
<1> DEFINE u == Append(names, Dot)
           k == Len(names)
           l == Len(parts)
<1>1. /\ k \in Nat /\ l \in Nat /\ l <= k
      /\ Len(u) = k + 1 /\ u[k + 1] = Dot /\ \A i \in 1..k : u[i] = names[i]
    BY AppendProperties, LenProperties DEF MadeOf, Taken
<1>2. \A i \in 1..l : \E j \in i..(i + (k - l)) : IsPrefix(parts[i], names[j])
    BY DEF MadeOf, Taken
<1>3. Tidy(u, n) <=> \A i \in 1..Len(u) : u[i] # Dot /\ (Last(u[i]) = "." => i = n)
    BY DEF Tidy
<1>4. Taken(u, parts) <=>
          /\ l <= Len(u)
          /\ \A i \in 1..l : \E j \in i..(i + (Len(u) - l)) : IsPrefix(parts[i], u[j])
    BY DEF Taken
<1>5. parts = u => l = Len(u)
    OBVIOUS
<1> HIDE DEF u, k, l
<1>6. ASSUME NEW i \in 1..l
      PROVE  \E j \in i..(i + (Len(u) - l)) : IsPrefix(parts[i], u[j])
  <2>1. PICK j \in i..(i + (k - l)) : IsPrefix(parts[i], names[j])
      BY <1>2
  <2>2. j \in 1..k /\ j \in i..(i + (Len(u) - l))
      BY <1>1
  <2>3. u[j] = names[j]
      BY <1>1, <2>2
  <2> QED BY <2>1, <2>2, <2>3
<1>7. l <= Len(u) /\ parts # u
    BY <1>1, <1>5
<1>8. Taken(u, parts)
    BY <1>4, <1>6, <1>7
<1>9. ~Tidy(u, n)
  <2>1. k + 1 \in 1..Len(u)
      BY <1>1
  <2> QED BY <1>1, <1>3, <2>1
<1>10. MadeOf(u, parts, n)
    BY <1>7, <1>8, <1>9 DEF MadeOf
<1> QED BY <1>10 DEF u

\* Two adjacent names are never joined to one part.
LEMMA NotJoined ==
    ASSUME NEW C, NEW f \in Seq(Part(C)), NEW l \in Part(C), NEW q \in Part(C),
           NEW t \in Seq(Part(C)), Cat(l, q) \in Part(C),
           NEW names, names = Cat(Append(f, l), Cat(<<q>>, t)),
           NEW parts, parts = Cat(f, Cat(<<Cat(l, q)>>, t))
    PROVE  ~Taken(names, parts)
<1> DEFINE P == Part(C)
           e == Append(f, l)
           one == <<q>>
           two == Cat(l, q)
           both == <<two>>
           x == Cat(one, t)
           y == Cat(both, t)
           i == Len(f) + 1
<1>1. /\ e \in Seq(P) /\ Len(e) = i /\ e[i] = l /\ i \in Nat \ {0} /\ Len(f) = i - 1
    BY AppendProperties, LenProperties
<1>2. /\ one \in Seq(P) /\ Len(one) = 1 /\ one[1] = q
      /\ both \in Seq(P) /\ Len(both) = 1 /\ both[1] = two
    OBVIOUS
<1>3. /\ l \in Seq(C) /\ q \in Seq(C) /\ two \in Seq(C)
      /\ l # <<>> /\ q # <<>>
    BY DEF Part
<1> HIDE DEF P, e, one, both, i
<1>4. /\ x \in Seq(P) /\ Joined(x, one, t) /\ y \in Seq(P) /\ Joined(y, both, t)
    BY <1>2, CatProperties DEF P
<1>5. names = Cat(e, x) /\ parts = Cat(f, y)
    BY DEF e, one, both
<1> HIDE DEF x, y
<1>6. Joined(names, e, x) /\ Joined(parts, f, y)
    BY <1>1, <1>4, <1>5, CatProperties DEF P
<1>7. /\ Len(t) \in Nat /\ Len(x) = 1 + Len(t) /\ Len(y) = 1 + Len(t)
      /\ x[1] = q /\ y[1] = two
  <2>1. 1 \in 1..Len(one) /\ 1 \in 1..Len(both)
      BY <1>2
  <2> QED BY <1>2, <1>4, <2>1 DEF Joined
<1>8. /\ Len(names) = i + 1 + Len(t) /\ Len(parts) = i + Len(t)
      /\ names[i] = l /\ names[i + 1] = q /\ parts[i] = two
  <2>1. 1 \in 1..Len(x) /\ 1 \in 1..Len(y) /\ i \in 1..Len(e) /\ i = Len(f) + 1
      BY <1>1, <1>7
  <2>2. names[i] = e[i] /\ names[Len(e) + 1] = x[1] /\ parts[Len(f) + 1] = y[1]
      BY <1>6, <2>1 DEF Joined
  <2>3. Len(names) = Len(e) + Len(x) /\ Len(parts) = Len(f) + Len(y)
      BY <1>6 DEF Joined
  <2>4. names[i] = l /\ names[i + 1] = q /\ parts[i] = two
      BY <1>1, <1>7, <2>1, <2>2
  <2>5. \A j, k \in Nat :
            i + (1 + j) = i + 1 + j /\ (k = i - 1 => k + (1 + j) = i + j)
      BY <1>1
  <2>6. Len(f) \in Nat
      BY LenProperties
  <2>7. Len(names) = i + 1 + Len(t) /\ Len(parts) = i + Len(t)
      BY <1>1, <1>7, <2>3, <2>5, <2>6
  <2> QED BY <2>4, <2>7
<1>9. /\ Len(two) = Len(l) + Len(q)
      /\ Len(l) \in Nat \ {0} /\ Len(q) \in Nat \ {0}
  <2>1. Joined(two, l, q)
      BY <1>3, CatProperties
  <2> QED BY <1>3, <2>1, EmptySeq DEF Joined
<1> HIDE DEF two
<1>10. SUFFICES ASSUME Taken(names, parts) PROVE FALSE
    OBVIOUS
<1>11. i \in 1..Len(parts) /\ i..(i + (Len(names) - Len(parts))) = {i, i + 1}
  <2> DEFINE m == Len(names)
             k == Len(parts)
             h == Len(t)
  <2>1. m = i + 1 + h /\ k = i + h /\ h \in Nat /\ i \in Nat \ {0}
      BY <1>1, <1>7, <1>8
  <2> HIDE DEF m, k, h
  <2>2. m - k = 1 /\ i \in 1..k
      BY <2>1
  <2>3. i..(i + (m - k)) = {i, i + 1}
      BY <2>1, <2>2
  <2> QED BY <2>2, <2>3 DEF m, k
<1>12. PICK j \in {i, i + 1} : IsPrefix(two, names[j])
    BY <1>8, <1>10, <1>11 DEF Taken
<1>13. IsPrefix(two, l) \/ IsPrefix(two, q)
    BY <1>8, <1>12
<1>14. Len(two) <= Len(l) \/ Len(two) <= Len(q)
    BY <1>3, <1>13, PrefixDef
<1> QED BY <1>9, <1>14

LEMMA NameEndUnique ==
    ASSUME NEW C, "end" \notin C, NEW s \in Seq(C), NEW cur \in 1..Len(s),
           s[cur] # "/", NEW m \in cur..Len(s), Stops(s, cur, m + 1),
           \A p \in cur..m : ~Stops(s, cur, p)
    PROVE  NameEnd(s, cur) = m
<1> DEFINE e == NameEnd(s, cur)
<1>1. /\ e \in cur..Len(s) /\ Stops(s, cur, e + 1)
      /\ \A p \in cur..e : ~Stops(s, cur, p)
    BY NameEndDef
<1> HIDE DEF e
<1>2. cur \in Nat /\ Len(s) \in Nat /\ m \in Nat /\ e \in Nat /\ m >= cur /\ e >= cur
    BY <1>1, LenProperties
<1>3. ~(e < m)
  <2>1. SUFFICES ASSUME e < m PROVE FALSE
      OBVIOUS
  <2>2. e + 1 \in cur..m
      BY <1>2, <2>1
  <2> QED BY <1>1, <2>2
<1>4. ~(m < e)
  <2>1. SUFFICES ASSUME m < e PROVE FALSE
      OBVIOUS
  <2>2. m + 1 \in cur..e
      BY <1>2, <2>1
  <2> QED BY <1>1, <2>2
<1>5. e = m
    BY <1>2, <1>3, <1>4
<1> QED BY <1>5 DEF e

\* Where a clean name ends: a dot at its end is not taken if a slash follows.
Reaches(s, cur, n, k) ==
    k \in 1..n /\ NameEnd(s, cur) = cur - 1 + k /\ cur - 1 + k <= Len(s)

LEMMA CleanNameEnd ==
    ASSUME NEW C, "end" \notin C, NEW s \in Seq(C), NEW cur \in Nat \ {0},
           NEW a \in Seq(C), NEW q \in Part(C), NEW b \in Seq(C),
           RunsFrom(cur, s, a, q, b), NEW n, n = Len(q), Clean(q), q # Dot,
           NEW k, k = IF q[n] = "." /\ b # <<>> THEN n - 1 ELSE n
    PROVE  Reaches(s, cur, n, k)
<1>1. Spells(s, cur, q, n, b)
    BY RunChars
<1>2. /\ n \in Nat \ {0} /\ cur - 1 + n <= Len(s)
      /\ \A i \in 1..n :
            CharAt(s, cur - 1 + i) = q[i] /\ q[i] # "/" /\ q[i] # "end"
      /\ CharAt(s, cur + n) = IF b = <<>> THEN "end" ELSE "/"
    BY <1>1 DEF Spells
<1>3. Len(s) \in Nat /\ q \in Seq(C)
    BY LenProperties DEF Part
<1>4. \A i \in 1..(n - 1) : q[i] # "." \/ q[i + 1] # "."
    BY DEF Clean
<1>5. n = 1 => q[1] # "."
  <2>1. SUFFICES ASSUME n = 1, q[1] = "." PROVE FALSE
      OBVIOUS
  <2> DEFINE one == <<".">>
  <2>2. Len(one) = 1 /\ one[1] = "."
      OBVIOUS
  <2>3. Len(q) = 1 /\ q[1] \in C
    <3>1. Len(q) = 1 /\ 1 \in 1..Len(q)
        BY <2>1
    <3> QED BY <1>3, <3>1, ElementOfSeq
  <2>4. one \in Seq(C)
      BY <2>1, <2>3
  <2> HIDE DEF one
  <2>5. \A i \in 1..Len(q) : q[i] = one[i]
      BY <2>1, <2>2, <2>3
  <2>6. q = one
      BY <1>3, <2>2, <2>3, <2>4, <2>5, SeqEqual
  <2> QED BY <2>6 DEF one, Dot
<1>6. k \in 1..n /\ cur - 1 + k <= Len(s) /\ (k = n \/ (k = n - 1 /\ q[n] = "." /\ b # <<>>))
    BY <1>2, <1>3, <1>5
<1>7. ASSUME NEW i \in 1..k PROVE ~Stops(s, cur, cur - 1 + i)
  <2> DEFINE p == cur - 1 + i
  <2>1. /\ i \in 1..n /\ p \in 1..Len(s) /\ p \in Nat \ {0}
        /\ p + 1 = cur + i
      BY <1>2, <1>3, <1>6
  <2>2. CharAt(s, p) = q[i] /\ q[i] # "/" /\ q[i] # "end" /\ s[p] = q[i]
    <3>1. CharAt(s, p) = q[i] /\ q[i] # "/" /\ q[i] # "end"
        BY <1>2, <2>1
    <3> HIDE DEF p
    <3> QED BY <2>1, <3>1, CharAtDef
  <2> HIDE DEF p
  <2>3. ASSUME p # cur, s[p] = "." PROVE CharAt(s, p + 1) \notin {".", "/"}
    <3>1. CASE i < n
      <4>1. i \in 1..(n - 1) /\ i + 1 \in 1..n /\ cur - 1 + (i + 1) = p + 1
          BY <1>2, <2>1, <3>1
      <4>2. CharAt(s, p + 1) = q[i + 1] /\ q[i + 1] # "/"
          BY <1>2, <4>1
      <4>3. q[i + 1] # "."
          BY <1>4, <2>2, <2>3, <4>1
      <4> QED BY <4>2, <4>3
    <3>2. CASE i = n
      <4>1. k = n /\ q[n] = "."
        <5>1. k = n
            BY <1>2, <1>6, <3>2
        <5>2. q[i] = "."
            BY <2>2, <2>3
        <5> QED BY <3>2, <5>1, <5>2
      <4>2. b = <<>>
          BY <1>2, <4>1
      <4>3. CharAt(s, p + 1) = "end"
          BY <1>2, <2>1, <3>2, <4>2
      <4> QED BY <4>3
    <3> QED BY <2>1, <3>1, <3>2
  <2>4. ~Stops(s, cur, p)
      BY <2>2, <2>3 DEF Stops
  <2> QED BY <2>4 DEF p
<1> DEFINE e == cur - 1 + k
<1>8. e \in cur..Len(s) /\ cur \in 1..Len(s) /\ e + 1 = cur + k /\ e \in Nat
    BY <1>2, <1>3, <1>6
<1>9. \A p \in cur..e : ~Stops(s, cur, p)
  <2>1. ASSUME NEW p \in cur..e PROVE ~Stops(s, cur, p)
    <3> DEFINE i == p - cur + 1
    <3>1. i \in 1..k /\ cur - 1 + i = p
        BY <1>6
    <3> HIDE DEF i
    <3> QED BY <1>7, <3>1
  <2> QED BY <2>1
<1>10. Stops(s, cur, e + 1)
  <2>1. CASE k = n
    <3>1. CharAt(s, e + 1) \in {"/", "end"}
        BY <1>2, <1>8, <2>1
    <3> QED BY <3>1 DEF Stops
  <2>2. CASE k = n - 1 /\ q[n] = "." /\ b # <<>>
    <3> DEFINE p == e + 1
    <3>0. n # 1 /\ n \in Nat \ {0} /\ cur - 1 + n <= Len(s) /\ Len(s) \in Nat
        BY <1>2, <1>3, <1>5, <2>2
    <3>1. /\ n \in 1..n /\ p = cur - 1 + n /\ p + 1 = cur + n /\ p # cur
          /\ p \in 1..Len(s) /\ p \in Nat \ {0}
        BY <2>2, <3>0
    <3>2. CharAt(s, p) = "." /\ CharAt(s, p + 1) = "/"
        BY <1>2, <2>2, <3>1
    <3> HIDE DEF p
    <3>3. s[p] = "."
        BY <3>1, <3>2, CharAtDef
    <3>4. Stops(s, cur, p)
        BY <3>1, <3>2, <3>3 DEF Stops
    <3> QED BY <3>4 DEF p
  <2> QED BY <1>6, <2>1, <2>2
<1>11. s[cur] # "/"
  <2>1. 1 \in 1..n /\ cur - 1 + 1 = cur
      BY <1>2
  <2>2. CharAt(s, cur) = q[1] /\ q[1] # "/"
      BY <1>2, <2>1
  <2> QED BY <1>8, <2>2, CharAtDef
<1> HIDE DEF e
<1>12. NameEnd(s, cur) = e
    BY <1>8, <1>9, <1>10, <1>11, NameEndUnique
<1> QED BY <1>6, <1>12 DEF Reaches, e

\* A name is the last one if nothing is behind it.
LEMMA LastName ==
    ASSUME NEW C, NEW s \in Seq(C), s[Len(s)] # "/", NEW cur \in Nat \ {0},
           NEW a \in Seq(C), NEW q \in Part(C), NEW b \in Seq(C),
           RunsFrom(cur, s, a, q, b)
    PROVE  b = <<>> <=> Len(DoSplit(a)) + 1 = Len(DoSplit(s))
<1> DEFINE c == Cat(a, q)
           da == DoSplit(a)
           db == DoSplit(b)
           dc == DoSplit(c)
           d == DoSplit(s)
<1>1. c \in Seq(C) /\ Between(s, cur + Len(q), c, b) /\ dc = Append(da, q) /\ d = Cat(dc, db)
    BY BehindPart
<1>2. s = Cat(c, b)
    BY <1>1 DEF Between
<1> HIDE DEF c
<1>3. Joined(s, c, b)
    BY <1>1, <1>2, CatProperties
<1>4. da \in Seq(Part(C)) /\ db \in Seq(Part(C)) /\ dc \in Seq(Part(C))
    BY <1>1, DoSplitType
<1>5. b = <<>> => db = <<>>
    BY DoSplitEmpty
<1>6. b # <<>> => db # <<>>
  <2>1. SUFFICES ASSUME b # <<>> PROVE db # <<>>
      OBVIOUS
  <2>2. Len(b) \in 1..Len(b) /\ Len(c) + Len(b) = Len(s)
      BY <1>3, <2>1, EmptySeq DEF Joined
  <2>3. s[Len(c) + Len(b)] = b[Len(b)]
      BY <1>3, <2>2 DEF Joined
  <2>4. b[Len(b)] # "/"
      BY <2>2, <2>3
  <2> QED BY <2>1, <2>4, DoSplitType
<1> HIDE DEF da, db, dc, d
<1>7. Joined(d, dc, db)
    BY <1>1, <1>4, CatProperties
<1>8. Len(dc) = Len(da) + 1 /\ Len(d) = Len(dc) + Len(db) /\ Len(da) \in Nat
      /\ Len(db) \in Nat /\ (db = <<>> <=> Len(db) = 0)
    BY <1>1, <1>4, <1>7, AppendProperties, LenProperties, EmptySeq DEF Joined
<1>9. b = <<>> <=> Len(da) + 1 = Len(d)
    BY <1>5, <1>6, <1>8
<1> QED BY <1>9 DEF da, d

\* The walk stands between a and b, or at the dot between a and a slash.
Near(s, cur, a, b) ==
    \/ Between(s, cur, a, b)
    \/ /\ CharAt(s, cur) = "." /\ CharAt(s, cur + 1) = "/"
       /\ Between(s, cur + 1, a, b)

\* It has made the parts of the names that it has passed.
Made(C, s, cur, parts) ==
    \E a \in Seq(C), b \in Seq(C) :
        Near(s, cur, a, b) /\ MadeOf(DoSplit(a), parts, Len(DoSplit(s)))

LEMMA MadeBehindSlash ==
    ASSUME NEW C, "end" \notin C, NEW s \in Seq(C), NEW parts,
           NEW cur \in Nat \ {0}, CharAt(s, cur) \in {"/", "end"},
           NEW a \in Seq(C), NEW b \in Seq(C), Between(s, cur, a, b),
           MadeOf(DoSplit(a), parts, Len(DoSplit(s)))
    PROVE  Made(C, s, cur + 1, parts)
<1>1. PICK c \in Seq(C), d \in Seq(C) :
          Between(s, cur + 1, c, d) /\ DoSplit(c) = DoSplit(a)
    BY PassSlash
<1> QED BY <1>1 DEF Made, Near

LEMMA MadeBehindDot ==
    ASSUME NEW C, "end" \notin C, NEW s \in Seq(C), NEW parts \in Seq(Part(C)),
           NEW cur \in Nat \ {0}, NEW a \in Seq(C), NEW q \in Part(C), q = Dot,
           NEW b \in Seq(C), RunsFrom(cur, s, a, q, b),
           MadeOf(DoSplit(a), parts, Len(DoSplit(s)))
    PROVE  CharAt(s, cur + 1) \in {"/", "end"} /\ Made(C, s, cur + 2, parts)
<1> DEFINE c == Cat(a, q)
           n == Len(q)
           k == cur + 1
           N == Len(DoSplit(s))
<1>1. n = 1 /\ k \in Nat \ {0} /\ k + 1 = cur + 2
    BY DEF Dot
<1>2. c \in Seq(C) /\ Between(s, cur + n, c, b) /\ DoSplit(c) = Append(DoSplit(a), q)
    BY BehindPart
<1> HIDE DEF n, c
<1>3. Spells(s, cur, q, n, b)
    BY RunChars DEF n
<1>4. CharAt(s, k) \in {"/", "end"}
    BY <1>1, <1>3 DEF Spells
<1> HIDE DEF N
<1>5. MadeOf(DoSplit(c), parts, N)
  <2> DEFINE da == DoSplit(a)
  <2>1. da \in Seq(Part(C)) /\ Dot \in Part(C) /\ MadeOf(da, parts, N)
      BY DoSplitType DEF N
  <2> HIDE DEF da
  <2>2. MadeOf(Append(da, Dot), parts, N)
      BY <2>1, MadeOfDot
  <2> QED BY <1>2, <2>2 DEF da
<1>6. Between(s, k, c, b)
    BY <1>1, <1>2
<1> HIDE DEF k
<1>7. Made(C, s, k + 1, parts)
    BY <1>1, <1>2, <1>4, <1>5, <1>6, MadeBehindSlash DEF N
<1> QED BY <1>1, <1>4, <1>7 DEF k

LEMMA MadeBehindName ==
    ASSUME NEW C, "end" \notin C, NEW s \in Seq(C), s[Len(s)] # "/",
           NEW parts \in Seq(Part(C)), NEW cur \in Nat \ {0},
           NEW a \in Seq(C), NEW q \in Part(C), Clean(q), q # Dot,
           NEW b \in Seq(C), RunsFrom(cur, s, a, q, b),
           MadeOf(DoSplit(a), parts, Len(DoSplit(s))),
           NEW e, e = NameEnd(s, cur)
    PROVE  /\ e \in cur..Len(s)
           /\ SubSeq(s, cur, e) \in Part(C)
           /\ Made(C, s, e + 1, Append(parts, SubSeq(s, cur, e)))
<1> DEFINE c == Cat(a, q)
           n == Len(q)
           k == IF q[n] = "." /\ b # <<>> THEN n - 1 ELSE n
           p == SubSeq(s, cur, e)
           N == Len(DoSplit(s))
<1>1. c \in Seq(C) /\ Between(s, cur + n, c, b) /\ DoSplit(c) = Append(DoSplit(a), q)
    BY BehindPart
<1>2. Spells(s, cur, q, n, b)
    BY RunChars
<1>3. k \in 1..n /\ e = cur - 1 + k /\ cur - 1 + k <= Len(s)
  <2> DEFINE j == k
  <2>1. j = IF q[n] = "." /\ b # <<>> THEN n - 1 ELSE n
      OBVIOUS
  <2>2. n = Len(q)
      OBVIOUS
  <2> HIDE DEF j, n
  <2>3. Reaches(s, cur, n, j)
      BY <2>1, <2>2, CleanNameEnd
  <2> QED BY <2>3 DEF Reaches, j
<1>4. b = <<>> <=> Len(DoSplit(a)) + 1 = N
    BY LastName
<1>5. /\ n \in Nat \ {0} /\ q \in Seq(C) /\ Len(s) \in Nat /\ Last(q) = q[n]
      /\ \A i \in 1..n : q[i] # "/" /\ q[i] # "end"
    BY <1>2, LenProperties DEF Spells, Part, Last
<1>6. /\ \A i \in 1..n : s[cur - 1 + i] = q[i]
      /\ \A i \in 1..n : CharAt(s, cur - 1 + i) = q[i]
      /\ CharAt(s, cur + n) = IF b = <<>> THEN "end" ELSE "/"
    BY <1>2 DEF Spells, RunsFrom
<1>7. /\ k = n \/ k = n - 1
      /\ k = n <=> (Last(q) = "." => b = <<>>)
      /\ k = n - 1 => q[n] = "." /\ b # <<>>
    BY <1>5
<1> HIDE DEF c, n, k, N
<1>8. e \in cur..Len(s) /\ e - cur + 1 = k /\ e + 1 = cur + k /\ e + 1 \in Nat \ {0}
    BY <1>3, <1>5
<1>9. p \in Seq(C) /\ Len(p) = k /\ \A i \in 1..k : p[i] = q[i] /\ i \in 1..n
  <2>1. cur \in Int /\ e \in Int /\ \A i \in cur..e : s[i] \in C
    <3>1. \A i \in 1..Len(s) : s[i] \in C
        BY ElementOfSeq
    <3> QED BY <1>5, <1>8, <3>1
  <2>2. /\ p \in Seq(C) /\ Len(p) = IF cur <= e THEN e - cur + 1 ELSE 0
        /\ \A i \in 1..(e - cur + 1) : p[i] = s[cur + i - 1]
      BY <2>1, SubSeqProperties
  <2> HIDE DEF p
  <2>3. ASSUME NEW i \in 1..k PROVE p[i] = q[i] /\ i \in 1..n
    <3>1. i \in 1..n /\ cur + i - 1 = cur - 1 + i /\ i \in 1..(e - cur + 1)
        BY <1>3, <1>5, <1>8
    <3>2. p[i] = s[cur + i - 1] /\ s[cur - 1 + i] = q[i]
        BY <1>6, <2>2, <3>1
    <3> QED BY <3>1, <3>2
  <2> QED BY <1>3, <1>8, <2>2, <2>3
<1> HIDE DEF p
<1>10. p \in Part(C)
  <2>1. p # <<>>
      BY <1>3, <1>9
  <2>2. \A i \in 1..Len(p) : p[i] # "/"
      BY <1>5, <1>9
  <2> QED BY <1>9, <2>1, <2>2 DEF Part
<1>11. IsPrefix(p, q)
  <2>1. Len(p) <= Len(q) /\ \A i \in 1..Len(p) : p[i] = q[i]
      BY <1>3, <1>9 DEF n
  <2> QED BY <1>5, <1>9, <2>1, PrefixDef
<1>12. p = q <=> k = n
  <2>1. p = q => k = n
      BY <1>9 DEF n
  <2>2. ASSUME k = n PROVE p = q
    <3>1. Len(p) = Len(q) /\ \A i \in 1..Len(p) : p[i] = q[i]
        BY <1>9, <2>2 DEF n
    <3> QED BY <1>5, <1>9, <3>1, SeqEqual
  <2> QED BY <2>1, <2>2
<1>13. MadeOf(DoSplit(c), Append(parts, p), N)
  <2> DEFINE da == DoSplit(a)
  <2>1. da \in Seq(Part(C)) /\ MadeOf(da, parts, N)
      BY DoSplitType DEF N
  <2>2. p = q <=> (Last(q) = "." => Len(da) + 1 = N)
      BY <1>4, <1>7, <1>12
  <2> HIDE DEF da
  <2>3. MadeOf(Append(da, q), Append(parts, p), N)
      BY <1>10, <1>11, <2>1, <2>2, MadeOfOneMore
  <2> QED BY <1>1, <2>3 DEF da
<1>14. Near(s, e + 1, c, b)
  <2>1. CASE k = n
      BY <1>1, <1>8, <2>1 DEF Near
  <2>2. CASE k = n - 1
    <3>1. e + 1 = cur - 1 + n /\ e + 1 + 1 = cur + n /\ n \in 1..n
        BY <1>3, <1>5, <2>2
    <3>2. CharAt(s, cur - 1 + n) = "." /\ CharAt(s, cur + n) = "/"
        BY <1>6, <1>7, <2>2, <3>1
    <3> QED BY <1>1, <3>1, <3>2 DEF Near
  <2> QED BY <1>7, <2>1, <2>2
<1>15. Made(C, s, e + 1, Append(parts, p))
    BY <1>1, <1>13, <1>14 DEF Made, N
<1> QED BY <1>8, <1>10, <1>15 DEF p

\* A step over clean names passes something, and keeps what the walk has made.
Passes(C, s, cur, next) ==
    /\ next \in WalkStates(Part(C)) /\ next.ok /\ next.cur > cur
    /\ Made(C, s, next.cur, next.parts)

LEMMA Pass ==
    ASSUME NEW C, NEW s, NEW st \in WalkStates(Part(C)), st.ok,
           NEW k \in Nat, k > st.cur, NEW p \in Seq(Part(C)), Made(C, s, k, p),
           NEW next, next = [st EXCEPT !.cur = k, !.parts = p]
    PROVE  Passes(C, s, st.cur, next)
<1>1. st.cur \in Nat \ {0} /\ k \in Nat \ {0}
    BY DEF WalkStates
<1>2. next \in WalkStates(Part(C)) /\ next.ok /\ next.cur = k /\ next.parts = p
    BY <1>1 DEF WalkStates
<1> QED BY <1>2 DEF Passes

LEMMA CleanStep ==
    ASSUME NEW C, "end" \notin C, "\\" \notin C, NEW s \in Seq(C),
           DoSplit(s) # <<>> => s[Len(s)] # "/",
           \A q \in ToSet(DoSplit(s)) : Clean(q),
           NEW st \in WalkStates(Part(C)), st.ok, CharAt(s, st.cur) # "end",
           Made(C, s, st.cur, st.parts)
    PROVE  Passes(C, s, st.cur, Step(s, st))
<1> DEFINE cur == st.cur
           parts == st.parts
           next == Step(s, st)
           N == Len(DoSplit(s))
<1>1. /\ cur \in Nat \ {0} /\ parts \in Seq(Part(C)) /\ Len(s) \in Nat
      /\ \A i \in 1..Len(s) : s[i] # "\\"
    BY LenProperties, ElementOfSeq DEF WalkStates
<1>2. \A k : [st EXCEPT !.cur = k] = [st EXCEPT !.cur = k, !.parts = parts]
    BY DEF WalkStates
<1>3. PICK a \in Seq(C), r \in Seq(C) :
          Near(s, cur, a, r) /\ MadeOf(DoSplit(a), parts, N)
    BY DEF Made
<1>4. ASSUME NEW k \in {cur + 1, cur + 2}, Made(C, s, k, parts),
             next = [st EXCEPT !.cur = k]
      PROVE  Passes(C, s, cur, next)
  <2>1. k \in Nat /\ k > cur
      BY <1>1
  <2>2. next = [st EXCEPT !.cur = k, !.parts = parts]
      BY <1>2, <1>4
  <2> HIDE DEF next
  <2> QED BY <1>1, <1>4, <2>1, <2>2, Pass
<1>5. CASE /\ CharAt(s, cur) = "." /\ CharAt(s, cur + 1) = "/"
           /\ Between(s, cur + 1, a, r)
  <2>1. next = [st EXCEPT !.cur = cur + 2]
      BY <1>5 DEF Step
  <2> DEFINE k == cur + 1
  <2>2. Between(s, k, a, r) /\ CharAt(s, k) \in {"/", "end"} /\ k \in Nat \ {0}
        /\ k + 1 = cur + 2
      BY <1>1, <1>5
  <2> HIDE DEF k, cur, parts, next
  <2>3. Made(C, s, k + 1, parts)
      BY <1>3, <2>2, MadeBehindSlash DEF N
  <2> QED BY <1>4, <2>1, <2>2, <2>3 DEF cur, next
<1>6. CASE CharAt(s, cur) = "/" /\ Between(s, cur, a, r)
  <2>1. next = [st EXCEPT !.cur = cur + 1]
      BY <1>6 DEF Step
  <2> HIDE DEF cur, parts, next
  <2>2. Made(C, s, cur + 1, parts)
      BY <1>1, <1>3, <1>6, MadeBehindSlash DEF N
  <2> QED BY <1>4, <2>1, <2>2 DEF cur, next
<1>7. CASE CharAt(s, cur) # "/" /\ Between(s, cur, a, r)
  <2>1. PICK q \in Part(C), b \in Seq(C) :
            RunsFrom(cur, s, a, q, b) /\ q \in ToSet(DoSplit(s))
    <3>1. CharAt(s, cur) \notin {"/", "end"}
        BY <1>7
    <3> HIDE DEF cur
    <3> QED BY <1>1, <1>7, <3>1, PartAhead
  <2> DEFINE n == Len(q)
  <2>2. Clean(q) /\ n = Len(q) /\ s[Len(s)] # "/"
    <3>1. DoSplit(s) # <<>>
        BY <2>1 DEF ToSet
    <3> QED BY <2>1, <3>1
  <2> HIDE DEF n
  <2>3. Spells(s, cur, q, n, b)
    <3> HIDE DEF cur
    <3> QED BY <1>1, <2>1, <2>2, RunChars
  <2>4. /\ n \in Nat \ {0} /\ CharAt(s, cur) = q[1]
        /\ n # 1 => CharAt(s, cur + 1) = q[2] /\ q[2] \notin {"/", "end"}
    <3> HIDE DEF cur
    <3>1. n \in Nat \ {0} /\ \A i \in 1..n :
              CharAt(s, cur - 1 + i) = q[i] /\ q[i] # "/" /\ q[i] # "end"
        BY <2>3 DEF Spells
    <3>2. cur - 1 + 1 = cur /\ cur - 1 + 2 = cur + 1 /\ 1 \in 1..n
          /\ (n # 1 => 2 \in 1..n)
        BY <1>1, <3>1
    <3>3. CharAt(s, cur - 1 + 1) = q[1]
        BY <3>1, <3>2
    <3>4. n # 1 => CharAt(s, cur - 1 + 2) = q[2] /\ q[2] # "/" /\ q[2] # "end"
        BY <3>1, <3>2
    <3> QED BY <3>1, <3>2, <3>3, <3>4
  <2>5. CASE q = Dot
    <3>1. CharAt(s, cur + 1) \in {"/", "end"} /\ Made(C, s, cur + 2, parts)
      <4> HIDE DEF cur, parts
      <4> QED BY <1>1, <1>3, <2>1, <2>5, MadeBehindDot DEF N
    <3>2. CharAt(s, cur) = "."
        BY <2>4, <2>5 DEF Dot
    <3>3. next = [st EXCEPT !.cur = cur + 2]
        BY <3>1, <3>2 DEF Step
    <3> HIDE DEF cur, parts, next
    <3> QED BY <1>4, <3>1, <3>3 DEF cur, next
  <2>6. CASE q # Dot
    <3> DEFINE e == NameEnd(s, cur)
               p == SubSeq(s, cur, e)
               more == Append(parts, p)
               k == e + 1
    <3>1. e \in cur..Len(s) /\ p \in Part(C) /\ Made(C, s, k, more)
      <4> DEFINE f == e
      <4>1. f = NameEnd(s, cur)
          OBVIOUS
      <4> HIDE DEF f, cur, parts
      <4>2. /\ f \in cur..Len(s)
            /\ SubSeq(s, cur, f) \in Part(C)
            /\ Made(C, s, f + 1, Append(parts, SubSeq(s, cur, f)))
          BY <1>1, <1>3, <2>1, <2>2, <2>6, <4>1, MadeBehindName DEF N
      <4> QED BY <4>1, <4>2
    <3>2. ~(CharAt(s, cur) = "." /\ CharAt(s, cur + 1) \in {".", "/", "end"})
      <4>1. SUFFICES ASSUME q[1] = "." PROVE CharAt(s, cur + 1) \notin {".", "/", "end"}
          BY <2>4
      <4>2. n # 1
        <5>1. SUFFICES ASSUME n = 1 PROVE FALSE
            OBVIOUS
        <5>2. q \in Seq(C) /\ q = <<q[1]>>
          <6>1. q \in Seq(C) /\ Len(q) = 1 /\ q[1] \in C
            <7>1. q \in Seq(C) /\ Len(q) = 1 /\ 1 \in 1..Len(q)
                BY <2>2, <5>1 DEF Part
            <7> QED BY <7>1, ElementOfSeq
          <6> DEFINE one == <<q[1]>>
          <6>2. one \in Seq(C) /\ Len(one) = 1 /\ one[1] = q[1]
              BY <6>1
          <6> HIDE DEF one
          <6>3. q = one
              BY <6>1, <6>2, SeqEqual
          <6> QED BY <6>1, <6>3 DEF one
        <5> QED BY <2>6, <4>1, <5>2 DEF Dot
      <4>3. 1 \in 1..(Len(q) - 1) /\ 1 + 1 = 2
          BY <2>2, <2>4, <4>2
      <4>4. q[2] # "."
          BY <2>2, <4>1, <4>3 DEF Clean
      <4> QED BY <2>4, <4>2, <4>4
    <3>3. next = NameStep(s, st)
        BY <1>7, <3>2 DEF Step
    <3>4. ~(\E i \in cur..e : s[i] = "\\")
      <4> HIDE DEF cur, e
      <4> QED BY <1>1, <3>1
    <3>5. NameStep(s, st) = [st EXCEPT !.cur = k, !.parts = more]
        BY <3>4 DEF NameStep
    <3>6. k \in Nat /\ k > cur
      <4> HIDE DEF cur, e
      <4> QED BY <1>1, <3>1
    <3>7. more \in Seq(Part(C))
      <4> HIDE DEF parts, p
      <4> QED BY <1>1, <3>1, AppendProperties
    <3>8. next = [st EXCEPT !.cur = k, !.parts = more] /\ k > st.cur
        BY <3>3, <3>5, <3>6
    <3> HIDE DEF k, more, next
    <3> QED BY <3>1, <3>6, <3>7, <3>8, Pass DEF next, cur
  <2> QED BY <2>5, <2>6
<1> QED BY <1>3, <1>5, <1>6, <1>7 DEF Near

\* What the walk makes of the names of a virtual path.
LEMMA NormalizeClean ==
    ASSUME NEW C, "/" \in C, "end" \notin C, "\\" \notin C,
           NEW names \in Seq(CleanParts(C)), NEW cwd,
           NEW end, end = NormalizeAndSplit(ToVpath(names), cwd)
    PROVE  end.ok /\ MadeOf(names, end.parts, Len(names))
<1> DEFINE s == ToVpath(names)
           n == Len(s)
           S == WalkStates(Part(C))
           w == WalkStart(s, cwd)
           There(k, st) == /\ st.ok /\ Made(C, s, st.cur, st.parts)
                           /\ st.cur > k \/ st.cur > n
           R(k) == {st \in S : There(k, st)}
           G == [k \in 0..n |-> R(k)]
<1>1. names \in Seq(Part(C))
    BY SeqMonotonic DEF CleanParts
<1>2. /\ s \in Seq(C) /\ s # <<>> /\ s[1] = "/" /\ DoSplit(s) = names
      /\ names # <<>> => s[n] # "/"
    BY <1>1, DoSplitToVpath
<1>3. n \in Nat /\ 1 \in 1..n
    BY <1>2, LenProperties, EmptySeq
<1> HIDE DEF s
<1>4. CharAt(s, 1) = "/"
    BY <1>2, <1>3, CharAtDef
<1>5. w.ok /\ w.cur = 1 /\ w.parts = <<>> /\ w \in S
    BY <1>4, EmptySeq DEF WalkStart, WalkStates
<1>6. Made(C, s, 1, <<>>)
  <2> DEFINE e == <<>>
  <2>1. e \in Seq(C) /\ Len(e) = 0 /\ DoSplit(e) = <<>> /\ s = Cat(e, s) /\ Ready(e)
      BY <1>2, DoSplitEmpty, EmptySeq, ConcatEmptySeq DEF Cat, Ready
  <2>2. MadeOf(DoSplit(e), <<>>, Len(DoSplit(s)))
      BY <2>1, MadeOfNothing
  <2> HIDE DEF e
  <2>3. Between(s, 1, e, s)
      BY <2>1 DEF Between
  <2> QED BY <1>2, <2>1, <2>2, <2>3 DEF Made, Near
<1>7. \A q \in ToSet(DoSplit(s)) : Clean(q)
  <2>1. DoSplit(s) \in Seq(CleanParts(C))
      BY <1>2
  <2> DEFINE d == DoSplit(s)
  <2>2. ASSUME NEW q \in ToSet(d) PROVE q \in CleanParts(C)
    <3> HIDE DEF d
    <3>1. d \in Seq(CleanParts(C))
        BY <2>1 DEF d
    <3> QED BY <2>2, <3>1, ElementOfSeq, LenProperties DEF ToSet
  <2> QED BY <2>2 DEF CleanParts
<1>8. DoSplit(s) # <<>> => s[Len(s)] # "/"
    BY <1>2
<1>9. ASSUME NEW k \in Nat, NEW st \in R(k) PROVE Step(s, st) \in R(k + 1)
  <2> DEFINE next == Step(s, st)
             cur == st.cur
  <2>1. st \in S /\ st.ok /\ Made(C, s, cur, st.parts) /\ (cur > k \/ cur > n)
        /\ cur \in Nat \ {0}
      BY DEF WalkStates
  <2>2. CASE CharAt(s, cur) = "end"
    <3>1. next = st
        BY <2>2 DEF Step
    <3>2. cur > n
      <4> HIDE DEF cur
      <4> QED BY <1>2, <2>1, <2>2, CharAtDef
    <3> QED BY <2>1, <3>1, <3>2
  <2>3. CASE CharAt(s, cur) # "end"
    <3>1. Passes(C, s, cur, next)
        BY <1>2, <1>7, <1>8, <2>1, <2>3, CleanStep
    <3>2. cur <= n
      <4> HIDE DEF cur
      <4> QED BY <1>2, <2>1, <2>3, CharAtDef
    <3>3. /\ next \in S /\ next.ok /\ next.cur > cur /\ next.cur \in Nat
          /\ Made(C, s, next.cur, next.parts)
        BY <3>1 DEF Passes, WalkStates
    <3> HIDE DEF cur, next, n, S
    <3>4. next.cur > k + 1
        BY <1>3, <2>1, <3>2, <3>3
    <3> QED BY <3>3, <3>4 DEF next
  <2> QED BY <2>2, <2>3
<1>10. end \in R(n)
  <2>1. G \in [0..n -> SUBSET S] /\ \A k \in 0..n : G[k] = R(k)
      OBVIOUS
  <2>2. w \in R(0)
      BY <1>5, <1>6
  <2> HIDE DEF G, R, S, w
  <2>3. w \in G[0]
      BY <1>3, <2>1, <2>2
  <2>4. ASSUME NEW k \in 1..n, NEW a \in G[k - 1] PROVE Step(s, a) \in G[k]
    <3> DEFINE j == k - 1
    <3>1. j \in Nat /\ j \in 0..n /\ k \in 0..n /\ j + 1 = k
        BY <1>3
    <3>2. a \in R(j)
        BY <2>1, <3>1
    <3> HIDE DEF j
    <3>3. Step(s, a) \in R(j + 1)
        BY <1>9, <3>1, <3>2
    <3> QED BY <2>1, <3>1, <3>3
  <2>5. KeptBySteps(G, s, n)
      BY <2>4 DEF KeptBySteps, n
  <2> HIDE DEF n
  <2>6. NormalizeAndSplit(s, cwd) \in G[n]
      BY <1>3, <2>1, <2>3, <2>5, WalkInvariant DEF w
  <2>7. end = NormalizeAndSplit(s, cwd)
      BY DEF s
  <2> QED BY <1>3, <2>1, <2>6, <2>7
<1>11. /\ end.ok /\ end.cur > n /\ end.cur \in Nat \ {0}
       /\ Made(C, s, end.cur, end.parts)
    BY <1>10 DEF WalkStates
<1> DEFINE cur == end.cur
<1>12. PICK a \in Seq(C), b \in Seq(C) :
           Near(s, cur, a, b) /\ MadeOf(DoSplit(a), end.parts, Len(DoSplit(s)))
    BY <1>11 DEF Made
<1>13. Between(s, cur, a, b)
  <2>1. cur > Len(s) /\ cur \in Nat \ {0}
      BY <1>11
  <2> HIDE DEF cur
  <2>2. CharAt(s, cur) = "end"
      BY <1>2, <2>1, CharAtDef
  <2> QED BY <1>12, <2>2 DEF Near
<1>14. a = s
  <2>1. s = Cat(a, b)
      BY <1>13 DEF Between
  <2>2. Joined(s, a, b)
      BY <2>1, CatProperties
  <2>3. /\ Len(a) \in Nat /\ Len(b) \in Nat /\ n = Len(a) + Len(b)
        /\ b = <<>> <=> Len(b) = 0
      BY <2>2, EmptySeq DEF Joined
  <2>4. cur > n /\ cur \in Nat /\ (cur = Len(a) + 1 \/ b = <<>>)
      BY <1>11, <1>13 DEF Between
  <2> HIDE DEF cur, n
  <2>5. b = <<>>
      BY <2>3, <2>4
  <2> QED BY <2>1, <2>5, ConcatEmptySeq DEF Cat
<1> QED BY <1>2, <1>11, <1>12, <1>14
=============================================================================
