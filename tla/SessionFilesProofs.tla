------------------------- MODULE SessionFilesProofs -------------------------
(***************************************************************************)
(* The safety properties of SessionFiles hold for every set of entries,    *)
(* every disk and all paths that a client may send, of any length.         *)
(*                                                                         *)
(* The inductive invariant says what the current directory and the pending *)
(* rename are: / and the names of a virtual path. The names are pieces of  *)
(* those that the client has sent and may have been cut where an entry     *)
(* ends; what is left of that is that none of them has a backslash or two  *)
(* dots in a row. What the walk over the characters and the lookup do with *)
(* such paths comes from PathsProofs.                                      *)
(***************************************************************************)
EXTENDS SessionFiles, PathsProofs

Alphabet == ToSet(Chars)

\* The characters of names: a path with a backslash is refused.
Plain == Alphabet \ {"\\"}

Names == CleanParts(Plain)

\* The virtual paths that the session comes to.
Dirs == {ToVpath(names) : names \in Seq(Names)}

LEMMA AlphabetFacts ==
    /\ "/" \in Alphabet /\ "end" \notin Alphabet /\ "." \in Alphabet
    /\ Plain \subseteq Alphabet /\ "/" \in Plain /\ "end" \notin Plain
<1>1. Chars[1] = "." /\ Chars[2] = "/" /\ DOMAIN Chars = 1..5
    BY DEF Chars
<1>2. \A i \in 1..5 : Chars[i] # "end"
    BY DEF Chars
<1> HIDE DEF Chars
<1> QED BY <1>1, <1>2 DEF Alphabet, Plain, ToSet

LEMMA NameFacts ==
    ASSUME NEW p \in Names
    PROVE  /\ p \in Part(Plain) /\ p \in Part(Alphabet) /\ Clean(p)
           /\ p \notin {<<>>, DotDot} /\ "/" \notin ToSet(p)
<1>1. p \in Part(Plain) /\ Clean(p)
    BY DEF Names, CleanParts
<1>2. p \in Seq(Plain) /\ p # <<>> /\ \A i \in 1..Len(p) : p[i] # "/"
    BY <1>1 DEF Part
<1>3. p \in Seq(Alphabet)
    BY <1>2, AlphabetFacts, SeqMonotonic
<1>4. p # DotDot
  <2>1. SUFFICES ASSUME p = DotDot PROVE FALSE
      OBVIOUS
  <2>2. Len(p) = 2 /\ p[1] = "." /\ p[1 + 1] = "."
      BY <2>1 DEF DotDot
  <2>3. 1 \in 1..(Len(p) - 1)
      BY <2>2
  <2> QED BY <1>1, <2>2, <2>3 DEF Clean
<1>5. "/" \notin ToSet(p)
    BY <1>2, LenProperties DEF ToSet
<1> QED BY <1>1, <1>2, <1>3, <1>4, <1>5 DEF Part

\* What the walk takes from a path is a name.
LEMMA PiecesNames ==
    ASSUME NEW q
    PROVE  Pieces(Alphabet, q) \subseteq Names
<1>1. ASSUME NEW p \in Pieces(Alphabet, q) PROVE p \in Names
  <2>1. /\ p \in Seq(Alphabet) /\ p # <<>> /\ \A i \in 1..Len(p) : p[i] # "/"
        /\ \A i \in 1..Len(p) : p[i] # "\\"
        /\ Clean(p)
      BY DEF Pieces, Part, Clean
  <2>2. p \in Seq(Plain)
    <3>1. Len(p) \in Nat /\ p \in [1..Len(p) -> Alphabet]
        BY <2>1, LenProperties
    <3>2. p \in [1..Len(p) -> Plain]
        BY <2>1, <3>1 DEF Plain
    <3> QED BY <3>1, <3>2, SeqDef
  <2> QED BY <2>1, <2>2 DEF Names, CleanParts, Part
<1> QED BY <1>1

LEMMA EntryFacts ==
    ASSUME NEW e \in ToSet(Entries)
    PROVE  /\ e.vpath \in Seq(Alphabet) /\ e.root \in Roots
           /\ e.perms \subseteq PermissionBits
           /\ DoSplit(e.vpath) \in Seq(Part(Alphabet))
           /\ e.vpath = ToVpath(DoSplit(e.vpath))
           /\ e.vpath # <<>>
<1>1. PICK i \in DOMAIN Entries : e = Entries[i]
    BY DEF ToSet
<1>2. e \in [vpath : Seq(ToSet(Chars)), root : Roots, perms : SUBSET PermissionBits]
    BY <1>1, EntriesAssumption, ElementOfSeq, LenProperties
<1>3. e.vpath \in Seq(Alphabet) /\ e.root \in Roots /\ e.perms \subseteq PermissionBits
    BY <1>2 DEF Alphabet
<1>4. DoSplit(e.vpath) \in Seq(Part(Alphabet))
    BY <1>3, DoSplitType
<1>5. e.vpath = ToVpath(DoSplit(e.vpath))
    BY <1>1, EntriesAssumption
<1>6. e.vpath # <<>>
    BY <1>4, <1>5, AlphabetFacts, DoSplitToVpath
<1> QED BY <1>3, <1>4, <1>5, <1>6

\* Two entries have different virtual paths and different roots.
LEMMA EntriesDiffer ==
    ASSUME NEW e \in ToSet(Entries), NEW f \in ToSet(Entries), e # f
    PROVE  e.vpath # f.vpath /\ e.root # f.root
<1>1. PICK i \in DOMAIN Entries : e = Entries[i]
    BY DEF ToSet
<1>2. PICK j \in DOMAIN Entries : f = Entries[j]
    BY DEF ToSet
<1>3. i \in Nat \ {0} /\ j \in Nat \ {0} /\ i # j
    BY <1>1, <1>2, EntriesAssumption, LenProperties
<1>4. ASSUME NEW k \in DOMAIN Entries, NEW l \in DOMAIN Entries, l < k
      PROVE  /\ Entries[l].vpath # Entries[k].vpath
             /\ Entries[l].root # Entries[k].root
  <2>1. l \in 1..(k - 1)
      BY <1>4, EntriesAssumption, LenProperties
  <2>2. CanBeAdded(Entries[k], {Entries[m] : m \in 1..(k - 1)})
      BY EntriesAssumption
  <2> QED BY <2>1, <2>2 DEF CanBeAdded
<1>5. CASE i < j
    BY <1>1, <1>2, <1>4, <1>5
<1>6. CASE j < i
    BY <1>1, <1>2, <1>4, <1>6
<1> QED BY <1>3, <1>5, <1>6

-----------------------------------------------------------------------------
(***************************************************************************)
(* Paths that a session resolves.                                          *)
(***************************************************************************)
LEMMA SentFacts ==
    ASSUME NEW path \in Inputs \cup Lookups
    PROVE  path \in Seq(Alphabet)
BY PathsAssumption DEF Alphabet

\* The paths that commands without one stand for.
LEMMA FixedFacts == Root \in Seq(Alphabet) /\ DotDot \in Seq(Alphabet)
BY AlphabetFacts DEF Root, DotDot

LEMMA VpathFacts ==
    ASSUME NEW names \in Seq(Names), NEW v, v = ToVpath(names)
    PROVE  /\ names \in Seq(Part(Plain)) /\ names \in Seq(Part(Alphabet))
           /\ v \in Seq(Plain) /\ v \in Seq(Alphabet) /\ Clean(v)
           /\ v # <<>> /\ v[1] = "/" /\ (names # <<>> => v[Len(v)] # "/")
           /\ DoSplit(v) = names
<1>1. names \in Seq(Part(Plain)) /\ names \in Seq(Part(Alphabet))
    BY NameFacts, SeqMonotonic
<1>2. v \in Seq(Plain) /\ Clean(v)
    BY AlphabetFacts, CleanJoin DEF Names
<1>3. v \in Seq(Alphabet)
    BY <1>2, AlphabetFacts, SeqMonotonic
<1>4. /\ v # <<>> /\ v[1] = "/" /\ (names # <<>> => v[Len(v)] # "/")
      /\ DoSplit(v) = names
    BY <1>1, AlphabetFacts, DoSplitToVpath
<1> QED BY <1>1, <1>2, <1>3, <1>4

\* Where a path has been found: the entry, and the names that are added to it.
FoundAt(dir, e, rest) ==
    /\ dir.vpath = ToVpath(Cat(DoSplit(e.vpath), rest))
    /\ dir.ppath = <<e.root>> \o rest
    /\ dir.perms = e.perms

Added(e, full) == DoSplit(Rest(e.vpath, full))

LEMMA Found ==
    ASSUME NEW parts \in Seq(Names), NEW full, full = ToVpath(parts),
           NEW e \in BestMatch(Entries, full), NEW dir,
           dir = CreateSubpath(e, SubSeq(full, Len(e.vpath) + 1, Len(full)))
    PROVE  /\ e \in ToSet(Entries) /\ IsPrefix(e.vpath, full)
           /\ FoundAt(dir, e, Added(e, full))
           /\ Added(e, full) \in Seq(Names) /\ DoSplit(e.vpath) \in Seq(Names)
<1> DEFINE v == e.vpath
           r == Rest(v, full)
<1>1. e \in ToSet(Entries) /\ IsPrefix(v, full)
    BY DEF BestMatch, Matches
<1>2. full \in Seq(Plain) /\ full \in Seq(Alphabet) /\ Clean(full)
    BY VpathFacts
<1>3. v \in Seq(Alphabet)
    BY <1>1, EntryFacts
<1>4. v \in Seq(Plain)
  <2> HIDE DEF v
  <2>1. Len(v) <= Len(full) /\ \A i \in 1..Len(v) : v[i] = full[i]
      BY <1>1, <1>2, <1>3, PrefixDef
  <2>2. Len(v) \in Nat /\ Len(full) \in Nat /\ v \in [1..Len(v) -> Alphabet]
      BY <1>2, <1>3, LenProperties
  <2>3. \A i \in 1..Len(v) : v[i] \in Plain
      BY <1>2, <2>1, <2>2, ElementOfSeq
  <2>4. v \in [1..Len(v) -> Plain]
      BY <2>2, <2>3
  <2> QED BY <2>2, <2>4, SeqDef
<1> HIDE DEF v
<1>5. r \in Seq(Plain) /\ full = Cat(v, r)
    BY <1>1, <1>2, <1>4, PrefixRest DEF Cat
<1> HIDE DEF r
<1>6. Clean(v) /\ Clean(r)
    BY <1>2, <1>4, <1>5, CatProperties, CleanCat
<1>7. DoSplit(v) \in Seq(Names) /\ DoSplit(r) \in Seq(Names)
    BY <1>4, <1>5, <1>6, CleanSplit DEF Names
<1>8. dir = CreateSubpath(e, r)
    BY DEF Rest, r, v
<1>9. FoundAt(dir, e, DoSplit(r))
    BY <1>8 DEF CreateSubpath, FoundAt, Cat
<1> QED BY <1>1, <1>7, <1>9 DEF Added, r, v

LEMMA Resolution ==
    ASSUME NEW path \in Seq(Alphabet), NEW names \in Seq(Names),
           NEW v, v = ToVpath(names)
    PROVE  /\ NormalizeAndSplit(path, v) \in WalkStates(Names)
           /\ \A dir \in GetPath(Entries, path, v) :
                 LET full == ToVpath(NormalizeAndSplit(path, v).parts)
                 IN  /\ NormalizeAndSplit(path, v).ok
                     /\ \E e \in BestMatch(Entries, full) :
                           /\ e \in ToSet(Entries) /\ IsPrefix(e.vpath, full)
                           /\ FoundAt(dir, e, Added(e, full))
                           /\ Added(e, full) \in Seq(Names)
                           /\ DoSplit(e.vpath) \in Seq(Names)
<1> DEFINE st == NormalizeAndSplit(path, v)
           full == ToVpath(st.parts)
<1>1. st \in WalkStates(Names)
  <2>1. DoSplit(v) \in Seq(Names)
      BY VpathFacts
  <2>2. \A q \in ToSet(DoSplit(path)) : Pieces(Alphabet, q) \subseteq Names
      BY PiecesNames
  <2> QED BY <2>1, <2>2, AlphabetFacts, NormalizeType
<1>2. ASSUME NEW dir \in GetPath(Entries, path, v)
      PROVE  /\ st.ok
             /\ \E e \in BestMatch(Entries, full) :
                   /\ e \in ToSet(Entries) /\ IsPrefix(e.vpath, full)
                   /\ FoundAt(dir, e, Added(e, full))
                   /\ Added(e, full) \in Seq(Names)
                   /\ DoSplit(e.vpath) \in Seq(Names)
  <2>1. st.ok /\ \E e \in BestMatch(Entries, full) :
            dir = CreateSubpath(e, SubSeq(full, Len(e.vpath) + 1, Len(full)))
      BY <1>2 DEF GetPath
  <2>2. st.parts \in Seq(Names)
      BY <1>1 DEF WalkStates
  <2> HIDE DEF st
  <2> QED BY <2>1, <2>2, Found
<1> QED BY <1>1, <1>2

-----------------------------------------------------------------------------
(***************************************************************************)
(* What the operations do to the disk.                                     *)
(***************************************************************************)
Nodes == Roots \cup Seq(Alphabet)

\* A path on the disk that has a directory to be in.
Placed(d, p) ==
    /\ p \in Seq(Nodes) /\ p # <<>> /\ p[1] \in Roots
    /\ Len(p) = 1 \/ (Front(p) \in DOMAIN d /\ d[Front(p)] = "dir")

LEMMA Tree ==
    ASSUME NEW d
    PROVE  IsTree(d) <=> /\ d \in [DOMAIN d -> {"file", "dir"}]
                         /\ \A p \in DOMAIN d : Placed(d, p)
BY DEF IsTree, Placed, Nodes, Alphabet

LEMMA FrontPrefix ==
    ASSUME NEW S, NEW s \in Seq(S), s # <<>>
    PROVE  /\ Front(s) \in Seq(S) /\ IsPrefix(Front(s), s) /\ Front(s) # s
           /\ \A t \in Seq(S) : IsPrefix(t, s) => t = s \/ IsPrefix(t, Front(s))
<1> DEFINE f == Front(s)
           l == Last(s)
<1>1. /\ f \in Seq(S) /\ Len(f) = Len(s) - 1 /\ l \in S /\ s = Append(f, l)
      /\ \A i \in 1..(Len(s) - 1) : f[i] = s[i]
    BY FrontLast
<1> HIDE DEF f, l
<1>2. Len(s) \in Nat /\ f # s
    BY <1>1, LenProperties
<1>3. IsPrefix(f, s)
  <2>1. Len(f) <= Len(s) /\ \A i \in 1..Len(f) : f[i] = s[i]
      BY <1>1, <1>2
  <2> QED BY <1>1, <2>1, PrefixDef
<1>4. ASSUME NEW t \in Seq(S), IsPrefix(t, s) PROVE t = s \/ IsPrefix(t, f)
  <2>1. IsPrefix(t, Append(f, l))
      BY <1>1, <1>4
  <2> QED BY <1>1, <2>1, PrefixOfAppend
<1> QED BY <1>1, <1>2, <1>3, <1>4 DEF f

LEMMA PrefixFirst ==
    ASSUME NEW S, NEW s \in Seq(S), s # <<>>, NEW t \in Seq(S), IsPrefix(s, t)
    PROVE  t # <<>> /\ t[1] = s[1] /\ Len(s) <= Len(t)
<1>1. Len(s) \in Nat \ {0} /\ Len(t) \in Nat
    BY EmptySeq, LenProperties
<1>2. Len(s) <= Len(t) /\ \A i \in 1..Len(s) : s[i] = t[i]
    BY PrefixDef
<1>3. 1 \in 1..Len(s) /\ Len(t) # 0
    BY <1>1, <1>2
<1> QED BY <1>2, <1>3, EmptySeq

\* What leads to something on the disk is on the disk.
LEMMA TreePrefix ==
    ASSUME NEW d, IsTree(d), NEW p \in Seq(Nodes), p # <<>>,
           NEW q \in DOMAIN d, IsPrefix(p, q)
    PROVE  p \in DOMAIN d
<1> DEFINE T == {s \in Seq(Nodes) : s \in DOMAIN d /\ IsPrefix(p, s) => p \in DOMAIN d}
<1>1. <<>> \in T
  <2>1. ~IsPrefix(p, <<>>)
    <3>1. SUFFICES ASSUME IsPrefix(p, <<>>) PROVE FALSE
        OBVIOUS
    <3> DEFINE e == <<>>
    <3>2. e \in Seq(Nodes) /\ IsPrefix(p, e) /\ e = <<>>
        BY <3>1, EmptySeq
    <3> HIDE DEF e
    <3> QED BY <3>2, PrefixFirst
  <2> QED BY <2>1, EmptySeq
<1>2. ASSUME NEW s \in T, NEW e \in Nodes PROVE Append(s, e) \in T
  <2> DEFINE t == Append(s, e)
  <2>1. t \in Seq(Nodes) /\ Front(t) = s /\ t # <<>> /\ Len(t) = Len(s) + 1
      BY AppendProperties, FrontOfAppend
  <2>2. SUFFICES ASSUME t \in DOMAIN d, IsPrefix(p, t) PROVE p \in DOMAIN d
      BY <2>1
  <2>3. p = t \/ IsPrefix(p, s)
      BY <2>2, PrefixOfAppend
  <2> HIDE DEF t
  <2>4. CASE IsPrefix(p, s)
    <3>1. s # <<>> /\ Len(s) # 0
        BY <2>4, PrefixFirst, EmptySeq
    <3>2. Len(t) # 1
        BY <2>1, <3>1, LenProperties
    <3>3. s \in DOMAIN d
        BY <2>1, <2>2, <3>2, Tree DEF Placed
    <3> QED BY <2>4, <3>3
  <2> QED BY <2>2, <2>3, <2>4
<1>3. T = Seq(Nodes)
  <2>1. T \subseteq Seq(Nodes)
      OBVIOUS
  <2> HIDE DEF T
  <2> QED BY <1>1, <1>2, <2>1, SeqInduction
<1>4. q \in Seq(Nodes)
    BY Tree DEF Placed
<1> QED BY <1>3, <1>4

\* A path without the parts . begins where the path does.
LEMMA PlaceType ==
    ASSUME NEW S, NEW x \in Seq(S), x # <<>>
    PROVE  Place(x) \in Seq(S) /\ Place(x) # <<>> /\ Place(x)[1] = x[1]
<1> DEFINE n == Len(x) - 1
           T == {s \in Seq(S) : s # <<>> /\ s[1] = x[1]}
           one == <<x[1]>>
           More(s, k) == IF x[k + 1] = Dot THEN s ELSE Append(s, x[k + 1])
           G == [k \in 0..n |-> T]
           f == [k \in 1..n |-> [s \in T |-> More(s, k)]]
           body(w) == [k \in 0..n |-> IF k = 0 THEN one ELSE More(w[k - 1], k)]
           rec == CHOOSE w : w = body(w)
<1>1. n \in Nat /\ \A k \in 0..n : x[k + 1] \in S
  <2>1. Len(x) \in Nat \ {0} /\ \A k \in 1..Len(x) : x[k] \in S
      BY EmptySeq, LenProperties, ElementOfSeq
  <2> DEFINE l == Len(x)
  <2>2. l \in Nat \ {0}
      BY <2>1
  <2> HIDE DEF l
  <2>3. l - 1 \in Nat /\ \A k \in 0..(l - 1) : k + 1 \in 1..l
      BY <2>2
  <2> QED BY <2>1, <2>3 DEF l
<1>2. one \in T
  <2>1. x[1] \in S
      BY EmptySeq, LenProperties, ElementOfSeq
  <2> QED BY <2>1
<1> HIDE DEF n, one
<1>3. G \in [0..n -> SUBSET T] /\ one \in G[0]
    BY <1>1, <1>2
<1>4. ASSUME NEW k \in 1..n, NEW s \in T PROVE More(s, k) \in T
  <2>1. k \in 0..n /\ x[k + 1] \in S
      BY <1>1
  <2> DEFINE c == x[k + 1]
  <2> HIDE DEF c
  <2>2. s \in Seq(S) /\ s # <<>> /\ s[1] = x[1] /\ c \in S
      BY <2>1 DEF c
  <2>3. Append(s, c) \in Seq(S) /\ Append(s, c) # <<>>
      BY <2>2, AppendProperties
  <2>4. Append(s, c)[1] = s[1]
    <3>1. Len(s) \in Nat \ {0}
        BY <2>2, EmptySeq, LenProperties
    <3>2. 1 \in 1..Len(s)
        BY <3>1
    <3> QED BY <2>2, <3>2, AppendProperties
  <2> QED BY <2>2, <2>3, <2>4 DEF c
<1>5. PICK w \in [0..n -> T] :
          w[0] = one /\ \A k \in 1..n : w[k] = f[k][w[k - 1]]
  <2>1. \A k \in 1..n : \A s \in T : f[k][s] = More(s, k)
    <3> HIDE DEF T, More
    <3> QED OBVIOUS
  <2>2. \A k \in 1..n : G[k - 1] = T /\ G[k] = T
    <3> HIDE DEF T
    <3> QED BY <1>1
  <2> HIDE DEF f, G, T, More
  <2>3. Keeps(f, G, n)
      BY <1>4, <2>1, <2>2 DEF Keeps
  <2>4. \E w \in [0..n -> T] : w[0] = one /\ Follows(w, f, n) /\ Within(w, G, n)
      BY <1>1, <1>3, <2>3, Recursion
  <2> QED BY <2>4 DEF Follows
<1> HIDE DEF T, G
<1>6. ASSUME NEW k \in 1..n PROVE w[k] = More(w[k - 1], k)
  <2>1. w[k - 1] \in T
      BY <1>1
  <2> HIDE DEF More
  <2> QED BY <1>5, <2>1
<1> HIDE DEF More, f
<1>7. w = body(w)
    BY <1>5, <1>6
<1>8. rec = body(rec)
  <2> HIDE DEF body
  <2> QED BY <1>7
<1>9. Place(x) = rec[n]
    BY DEF Place, n, one, More
<1>10. rec[n] = w[n]
  <2> HIDE DEF rec
  <2>1. rec[0] = w[0] /\ \A k \in 1..n : rec[k] = More(rec[k - 1], k)
      BY <1>1, <1>5, <1>8
  <2>2. SameSteps(rec, w, n)
      BY <1>6, <2>1 DEF SameSteps
  <2> QED BY <1>1, <2>1, <2>2, AgreeAtEnd
<1>11. w[n] \in T
    BY <1>1
<1> HIDE DEF rec, body
<1> QED BY <1>9, <1>10, <1>11 DEF T

\* Where something can be made there is a directory to hold it, and nothing
\* unless it exists.
LEMMA HeldPlace ==
    ASSUME IsTree(disk), NEW x \in Seq(Nodes), x # <<>>, CanHold(x),
           NEW p, p = Place(x)
    PROVE  /\ Len(p) = 1 \/ (Front(p) \in DOMAIN disk /\ disk[Front(p)] = "dir")
           /\ Exists(x) \/ p \notin DOMAIN disk
<1>1. p \in Seq(Nodes) /\ p # <<>>
    BY PlaceType
<1>2. ASSUME Len(p) # 1 PROVE Front(p) # <<>>
  <2>1. Len(p) \in Nat /\ Len(p) # 0 /\ Len(Front(p)) = Len(p) - 1
      BY <1>1, EmptySeq, LenProperties, FrontLast
  <2>2. Len(Front(p)) # 0
      BY <1>2, <2>1
  <2> QED BY <2>2
<1>3. disk \in [DOMAIN disk -> {"file", "dir"}]
    BY Tree
<1> QED BY <1>2, <1>3 DEF CanHold, Exists, IsDir, IsFile

LEMMA AddTree ==
    ASSUME IsTree(disk), NEW x \in Seq(Nodes), x # <<>>, x[1] \in Roots,
           CanHold(x), ~Exists(x), NEW kind \in {"file", "dir"}, Add(x, kind)
    PROVE  IsTree(disk')
<1> DEFINE D == DOMAIN disk
           p == Place(x)
<1>1. disk' = [q \in D \cup {p} |-> IF q = p THEN kind ELSE disk[q]]
    BY DEF Add
<1>2. p \in Seq(Nodes) /\ p # <<>> /\ p[1] \in Roots
    BY PlaceType
<1>3. Len(p) = 1 \/ (Front(p) \in D /\ disk[Front(p)] = "dir")
    BY HeldPlace
<1>4. p \notin D
    BY HeldPlace
<1> HIDE DEF p
<1>5. DOMAIN disk' = D \cup {p} /\ disk'[p] = kind
      /\ \A q \in D : disk'[q] = disk[q]
    BY <1>1, <1>4
<1>6. disk \in [D -> {"file", "dir"}] /\ \A q \in D : Placed(disk, q)
    BY Tree
<1>7. disk' \in [DOMAIN disk' -> {"file", "dir"}]
    BY <1>1, <1>5, <1>6
<1>8. ASSUME NEW q \in DOMAIN disk' PROVE Placed(disk', q)
  <2>1. q \in Seq(Nodes) /\ q # <<>> /\ q[1] \in Roots
      BY <1>2, <1>5, <1>6 DEF Placed
  <2>2. Len(q) = 1 \/ (Front(q) \in D /\ disk[Front(q)] = "dir")
      BY <1>3, <1>5, <1>6 DEF Placed
  <2> QED BY <1>5, <2>1, <2>2 DEF Placed
<1> QED BY <1>7, <1>8, Tree

LEMMA RemoveTree ==
    ASSUME IsTree(disk), NEW x, RemovePath(x)
    PROVE  IsTree(disk')
<1> DEFINE D == DOMAIN disk
           p == Place(x)
<1>1. Below(p) = {p} /\ disk' = [q \in D \ {p} |-> disk[q]]
    BY DEF RemovePath
<1> HIDE DEF p
<1>2. DOMAIN disk' = D \ {p} /\ \A q \in D \ {p} : disk'[q] = disk[q]
    BY <1>1
<1>3. disk \in [D -> {"file", "dir"}] /\ \A q \in D : Placed(disk, q)
    BY Tree
<1>4. disk' \in [DOMAIN disk' -> {"file", "dir"}]
    BY <1>1, <1>2, <1>3
<1>5. ASSUME NEW q \in D \ {p} PROVE Placed(disk', q)
  <2>1. q \in Seq(Nodes) /\ q # <<>> /\ q[1] \in Roots
        /\ (Len(q) = 1 \/ (Front(q) \in D /\ disk[Front(q)] = "dir"))
      BY <1>3 DEF Placed
  <2>2. Front(q) # p
    <3>1. IsPrefix(Front(q), q)
        BY <2>1, FrontPrefix
    <3> QED BY <1>1, <3>1 DEF Below
  <2> QED BY <1>2, <2>1, <2>2 DEF Placed
<1> QED BY <1>2, <1>4, <1>5, Tree

\* Where a rename takes what is below from.
Moved(from, to, q) == to \o SubSeq(q, Len(from) + 1, Len(q))

\* m is to, followed by what q has after from.
Shifted(from, to, q, m) ==
    /\ m \in Seq(Nodes) /\ Len(m) = Len(to) + (Len(q) - Len(from))
    /\ \A i \in 1..Len(to) : m[i] = to[i]
    /\ \A i \in 1..(Len(q) - Len(from)) : m[Len(to) + i] = q[Len(from) + i]

LEMMA MovedShifted ==
    ASSUME NEW from \in Seq(Nodes), NEW to \in Seq(Nodes), NEW q \in Seq(Nodes),
           IsPrefix(from, q)
    PROVE  /\ Shifted(from, to, q, Moved(from, to, q))
           /\ Len(from) <= Len(q) /\ \A i \in 1..Len(from) : q[i] = from[i]
<1> DEFINE r == Rest(from, q)
           m == Moved(from, to, q)
<1>1. r \in Seq(Nodes) /\ q = Cat(from, r)
    BY PrefixRest DEF Cat
<1>2. m = Cat(to, r)
    BY DEF Moved, Rest, Cat
<1> HIDE DEF r, m
<1>3. Joined(q, from, r) /\ Joined(m, to, r) /\ m \in Seq(Nodes)
    BY <1>1, <1>2, CatProperties
<1>4. Len(from) <= Len(q) /\ \A i \in 1..Len(from) : q[i] = from[i]
    BY PrefixDef
<1>5. Len(r) = Len(q) - Len(from) /\ Len(m) = Len(to) + (Len(q) - Len(from))
    BY <1>3 DEF Joined
<1>6. \A i \in 1..Len(r) : m[Len(to) + i] = q[Len(from) + i]
    BY <1>3 DEF Joined
<1>7. Shifted(from, to, q, m)
    BY <1>3, <1>5, <1>6 DEF Shifted, Joined
<1> QED BY <1>4, <1>7 DEF m

\* Two sequences that are shifted from the same one are the same.
LEMMA ShiftedUnique ==
    ASSUME NEW from \in Seq(Nodes), NEW to \in Seq(Nodes),
           NEW q \in Seq(Nodes), Len(from) <= Len(q),
           NEW m, Shifted(from, to, q, m), NEW l, Shifted(from, to, q, l)
    PROVE  m = l
<1> DEFINE a == Len(from)
           b == Len(to)
           c == Len(q)
<1>1. a \in Nat /\ b \in Nat /\ c \in Nat /\ a <= c
    BY LenProperties
<1>2. /\ m \in Seq(Nodes) /\ l \in Seq(Nodes) /\ Len(m) = b + (c - a) /\ Len(l) = Len(m)
      /\ \A i \in 1..b : m[i] = to[i] /\ l[i] = to[i]
      /\ \A i \in 1..(c - a) : m[b + i] = q[a + i] /\ l[b + i] = q[a + i]
    BY DEF Shifted
<1> HIDE DEF a, b, c
<1>3. ASSUME NEW k \in 1..Len(m) PROVE m[k] = l[k]
  <2>1. CASE k \in 1..b
      BY <1>2, <2>1
  <2>2. CASE k \notin 1..b
    <3> DEFINE i == k - b
    <3>1. i \in 1..(c - a) /\ b + i = k
        BY <1>1, <1>2, <2>2
    <3> HIDE DEF i
    <3>2. m[b + i] = q[a + i] /\ l[b + i] = q[a + i]
        BY <1>2, <3>1
    <3> QED BY <3>1, <3>2
  <2> QED BY <2>1, <2>2
<1> QED BY <1>2, <1>3, SeqEqual

LEMMA MovedInjective ==
    ASSUME NEW from \in Seq(Nodes), NEW to \in Seq(Nodes),
           NEW p \in Seq(Nodes), IsPrefix(from, p),
           NEW q \in Seq(Nodes), IsPrefix(from, q),
           Moved(from, to, p) = Moved(from, to, q)
    PROVE  p = q
<1> DEFINE m == Moved(from, to, p)
           a == Len(from)
           b == Len(to)
<1>1. Shifted(from, to, p, m) /\ Shifted(from, to, q, m)
    BY MovedShifted
<1>2. /\ a <= Len(p) /\ a <= Len(q) /\ a \in Nat /\ b \in Nat
      /\ Len(p) \in Nat /\ Len(q) \in Nat
      /\ \A i \in 1..a : p[i] = from[i] /\ q[i] = from[i]
    BY MovedShifted, LenProperties
<1>3. /\ Len(m) = b + (Len(p) - a) /\ Len(m) = b + (Len(q) - a)
      /\ \A i \in 1..(Len(p) - a) : m[b + i] = p[a + i]
      /\ \A i \in 1..(Len(q) - a) : m[b + i] = q[a + i]
    BY <1>1 DEF Shifted
<1> HIDE DEF m, a, b
<1>4. Len(p) = Len(q)
    BY <1>2, <1>3
<1>5. ASSUME NEW k \in 1..Len(p) PROVE p[k] = q[k]
  <2>1. CASE k \in 1..a
      BY <1>2, <2>1
  <2>2. CASE k \notin 1..a
    <3> DEFINE i == k - a
    <3>1. i \in 1..(Len(p) - a) /\ i \in 1..(Len(q) - a) /\ a + i = k
        BY <1>2, <1>4, <2>2
    <3> HIDE DEF i
    <3>2. m[b + i] = p[a + i] /\ m[b + i] = q[a + i]
        BY <1>3, <3>1
    <3> QED BY <3>1, <3>2
  <2> QED BY <2>1, <2>2
<1> QED BY <1>4, <1>5, SeqEqual

\* What is in a directory below from comes to be in the directory moved.
LEMMA MovedFront ==
    ASSUME NEW from \in Seq(Nodes), from # <<>>, NEW to \in Seq(Nodes), to # <<>>,
           NEW q \in Seq(Nodes), IsPrefix(from, q),
           NEW m, m = Moved(from, to, q)
    PROVE  /\ m \in Seq(Nodes) /\ m # <<>> /\ m[1] = to[1] /\ IsPrefix(to, m)
           /\ q = from => m = to
           /\ q # from => /\ IsPrefix(from, Front(q))
                          /\ Front(m) = Moved(from, to, Front(q))
                          /\ IsPrefix(to, Front(m))
<1> DEFINE a == Len(from)
           b == Len(to)
           c == Len(q)
<1>1. Shifted(from, to, q, m) /\ a <= c
    BY MovedShifted
<1>2. a \in Nat \ {0} /\ b \in Nat \ {0} /\ c \in Nat
    BY EmptySeq, LenProperties
<1>3. /\ m \in Seq(Nodes) /\ Len(m) = b + (c - a)
      /\ \A i \in 1..b : m[i] = to[i]
      /\ \A i \in 1..(c - a) : m[b + i] = q[a + i]
    BY <1>1 DEF Shifted
<1>4. IsPrefix(to, m)
  <2>1. Len(to) <= Len(m) /\ \A i \in 1..Len(to) : m[i] = to[i]
      BY <1>1, <1>2, <1>3
  <2> QED BY <1>3, <2>1, PrefixDef
<1>5. m # <<>> /\ m[1] = to[1]
    BY <1>3, <1>4, PrefixFirst
<1>6. ASSUME q = from PROVE m = to
  <2>1. Len(m) = b
    <3>1. a = c
        BY <1>6
    <3> HIDE DEF a, b, c
    <3> QED BY <1>2, <1>3, <3>1
  <2> QED BY <1>3, <2>1, SeqEqual
<1>7. ASSUME q # from PROVE /\ IsPrefix(from, Front(q))
                            /\ Front(m) = Moved(from, to, Front(q))
  <2> DEFINE f == Front(q)
             g == Front(m)
  <2>1. q # <<>>
      BY PrefixFirst
  <2>2. f \in Seq(Nodes) /\ IsPrefix(from, f) /\ Len(f) = c - 1
        /\ \A i \in 1..(c - 1) : f[i] = q[i]
      BY <1>7, <2>1, FrontPrefix, FrontLast
  <2>3. g \in Seq(Nodes) /\ Len(g) = Len(m) - 1
        /\ \A i \in 1..(Len(m) - 1) : g[i] = m[i]
      BY <1>3, <1>5, FrontLast
  <2> HIDE DEF f, g
  <2>4. Shifted(from, to, f, Moved(from, to, f)) /\ Len(from) <= Len(f)
      BY <2>2, MovedShifted
  <2>5. Shifted(from, to, f, g)
    <3>1. a <= c - 1
        BY <2>2, <2>4
    <3>2. Len(g) = b + ((c - 1) - a)
      <4> HIDE DEF a, b, c
      <4> QED BY <1>2, <1>3, <2>3
    <3>3. ASSUME NEW i \in 1..b PROVE g[i] = to[i]
      <4>1. i \in 1..(Len(m) - 1)
        <5> HIDE DEF a, b, c
        <5> QED BY <1>2, <1>3, <3>1
      <4> QED BY <1>3, <2>3, <4>1
    <3>4. ASSUME NEW i \in 1..((c - 1) - a) PROVE g[b + i] = f[a + i]
      <4> HIDE DEF a, b, c
      <4>1. i \in 1..(c - a) /\ b + i \in 1..(Len(m) - 1) /\ a + i \in 1..(c - 1)
          BY <1>2, <1>3, <3>1
      <4> QED BY <1>3, <2>2, <2>3, <4>1
    <3>5. Len(f) = c - 1
        BY <2>2
    <3> HIDE DEF c
    <3> QED BY <2>3, <3>2, <3>3, <3>4, <3>5 DEF Shifted
  <2>6. g = Moved(from, to, f)
      BY <2>2, <2>4, <2>5, ShiftedUnique
  <2> QED BY <2>2, <2>6 DEF f, g
<1>8. ASSUME q # from PROVE IsPrefix(to, Front(m))
  <2>1. Len(m) > Len(to)
    <3>1. c # a
      <4>1. SUFFICES ASSUME c = a PROVE FALSE
          OBVIOUS
      <4>2. q = from
          BY <4>1, MovedShifted, SeqEqual
      <4> QED BY <1>8, <4>2
    <3>2. a <= c
        BY <1>1
    <3> HIDE DEF a, c
    <3>3. Len(m) > b
      <4> HIDE DEF b
      <4> QED BY <1>2, <1>3, <3>1, <3>2
    <3> QED BY <3>3
  <2>2. to # m
      BY <1>2, <2>1
  <2> QED BY <1>3, <1>4, <1>5, <2>2, FrontPrefix
<1> QED BY <1>3, <1>4, <1>5, <1>6, <1>7, <1>8

Kept(from) == DOMAIN disk \ Below(from)

AfterMove(from, to) ==
    [p \in Kept(from) \cup {Moved(from, to, q) : q \in Below(from)} |->
        IF p \in Kept(from) THEN disk[p]
        ELSE disk[CHOOSE q \in Below(from) : Moved(from, to, q) = p]]

LEMMA MovedTree ==
    ASSUME IsTree(disk), NEW from \in Seq(Nodes), from # <<>>,
           NEW to \in Seq(Nodes), to # <<>>, to[1] \in Roots,
           Len(to) = 1 \/ (Front(to) \in DOMAIN disk /\ disk[Front(to)] = "dir"),
           ~IsPrefix(from, to), to \notin DOMAIN disk,
           disk' = AfterMove(from, to)
    PROVE  IsTree(disk')
<1> DEFINE D == DOMAIN disk
           B == Below(from)
           K == Kept(from)
           M(q) == Moved(from, to, q)
<1>1. /\ Len(to) = 1 \/ (Front(to) \in D /\ disk[Front(to)] = "dir")
      /\ ~IsPrefix(from, to) /\ to \notin D
    OBVIOUS
<1>2. disk' = [p \in K \cup {M(q) : q \in B} |->
                  IF p \in K THEN disk[p] ELSE disk[CHOOSE q \in B : M(q) = p]]
    BY DEF AfterMove
<1>3. disk \in [D -> {"file", "dir"}] /\ \A p \in D : Placed(disk, p)
    BY Tree
<1>4. \A p \in D : p \in Seq(Nodes)
    BY <1>3 DEF Placed
<1>5. B = {q \in D : IsPrefix(from, q)} /\ K = D \ B
    BY DEF Below, Kept
<1>6. ASSUME NEW q \in B PROVE (CHOOSE p \in B : M(p) = M(q)) = q
  <2> DEFINE p == CHOOSE p \in B : M(p) = M(q)
  <2>1. p \in B /\ M(p) = M(q)
      OBVIOUS
  <2> HIDE DEF p
  <2> QED BY <1>4, <1>5, <2>1, MovedInjective DEF p
<1>7. DOMAIN disk' = K \cup {M(q) : q \in B} /\ \A p \in K : disk'[p] = disk[p]
  <2> HIDE DEF K, M, B
  <2> QED BY <1>2
<1>8. ASSUME NEW q \in B PROVE M(q) \notin D /\ disk'[M(q)] = disk[q]
  <2>1. IsPrefix(to, M(q)) /\ M(q) \in Seq(Nodes)
      BY <1>4, <1>5, MovedFront
  <2>2. M(q) \notin D
      BY <1>1, <2>1, TreePrefix
  <2> HIDE DEF B, M
  <2>3. M(q) \in K \cup {M(p) : p \in B} /\ M(q) \notin K
      BY <1>5, <2>2
  <2>4. disk'[M(q)] = disk[CHOOSE p \in B : M(p) = M(q)]
    <3> HIDE DEF K
    <3> QED BY <1>2, <2>3
  <2> QED BY <1>6, <2>2, <2>4
<1>9. ASSUME NEW p \in D, NEW f, f = Front(p), Len(p) # 1, p \in K
      PROVE  f \in K
  <2>1. p \in Seq(Nodes) /\ p # <<>> /\ f \in D
      BY <1>3, <1>9 DEF Placed
  <2>2. f \in Seq(Nodes) /\ IsPrefix(f, p)
      BY <1>9, <2>1, FrontPrefix
  <2>3. ~IsPrefix(from, f)
    <3>1. ~IsPrefix(from, p)
        BY <1>5, <1>9
    <3> QED BY <2>1, <2>2, <3>1, PrefixTransitive
  <2> QED BY <1>5, <2>1, <2>3
<1> HIDE DEF K, B, M
<1>10. disk' \in [DOMAIN disk' -> {"file", "dir"}]
  <2>1. \A p \in DOMAIN disk' : disk'[p] \in {"file", "dir"}
      BY <1>3, <1>5, <1>7, <1>8
  <2>2. disk' = [p \in DOMAIN disk' |-> disk'[p]]
      BY <1>2
  <2> HIDE DEF D
  <2> QED BY <2>1, <2>2
<1>11. ASSUME NEW p \in K PROVE Placed(disk', p)
  <2>1. p \in D
      BY <1>5
  <2>2. /\ p \in Seq(Nodes) /\ p # <<>> /\ p[1] \in Roots
        /\ Len(p) = 1 \/ (Front(p) \in D /\ disk[Front(p)] = "dir")
      BY <1>3, <2>1 DEF Placed
  <2>3. Len(p) # 1 => Front(p) \in K
      BY <1>9, <2>1
  <2> QED BY <1>7, <2>2, <2>3 DEF Placed
<1>12. ASSUME NEW q \in B PROVE Placed(disk', M(q))
  <2> DEFINE m == M(q)
  <2>1. q \in D /\ q \in Seq(Nodes) /\ IsPrefix(from, q)
      BY <1>4, <1>5
  <2>2. /\ m \in Seq(Nodes) /\ m # <<>> /\ m[1] \in Roots
        /\ q = from => m = to
        /\ q # from => IsPrefix(from, Front(q)) /\ Front(m) = M(Front(q))
    <3>1. m[1] = to[1]
        BY <2>1, MovedFront DEF M
    <3>2. /\ m \in Seq(Nodes) /\ m # <<>>
          /\ q = from => m = to
          /\ q # from => IsPrefix(from, Front(q)) /\ Front(m) = M(Front(q))
        BY <2>1, MovedFront DEF M
    <3> HIDE DEF m
    <3> QED BY <3>1, <3>2
  <2> HIDE DEF m
  <2>3. CASE q = from
    <3>1. ASSUME Len(to) # 1 PROVE Front(to) \in K
      <4>1. Front(to) \in D /\ IsPrefix(Front(to), to) /\ Front(to) \in Seq(Nodes)
          BY <1>1, <3>1, FrontPrefix
      <4>2. ~IsPrefix(from, Front(to))
          BY <1>1, <4>1, PrefixTransitive
      <4> QED BY <1>5, <4>1, <4>2
    <3>2. Len(m) = 1 \/ (Front(m) \in DOMAIN disk' /\ disk'[Front(m)] = "dir")
        BY <1>1, <1>7, <2>2, <2>3, <3>1
    <3> QED BY <2>2, <3>2 DEF Placed, m
  <2>4. CASE q # from
    <3> DEFINE f == Front(q)
    <3>1. IsPrefix(from, f) /\ Front(m) = M(f)
        BY <2>2, <2>4
    <3>2. f \in D /\ disk[f] = "dir"
      <4>1. Len(q) # 1
        <5>1. q # <<>> /\ f \in Seq(Nodes) /\ Len(f) = Len(q) - 1
            BY <2>1, PrefixFirst, FrontLast
        <5>2. f # <<>>
            BY <3>1, <5>1, PrefixFirst
        <5>3. Len(f) # 0
            BY <5>1, <5>2, EmptySeq
        <5> QED BY <5>1, <5>3
      <4> QED BY <1>3, <2>1, <4>1 DEF Placed
    <3>3. f \in B
        BY <1>5, <3>1, <3>2
    <3> HIDE DEF f
    <3>4. M(f) \in DOMAIN disk' /\ disk'[M(f)] = "dir"
        BY <1>7, <1>8, <3>2, <3>3
    <3> QED BY <2>2, <3>1, <3>4 DEF Placed, m
  <2> QED BY <2>3, <2>4
<1>13. \A p \in DOMAIN disk' : Placed(disk', p)
    BY <1>7, <1>11, <1>12
<1> QED BY <1>10, <1>13, Tree

LEMMA MoveDisk ==
    ASSUME NEW x, NEW y, MovePath(x, y)
    PROVE  /\ CanHold(y) /\ ~IsPrefix(Place(x), Place(y))
           /\ disk' = AfterMove(Place(x), Place(y))
BY DEF MovePath, Moved, AfterMove, Kept

LEMMA MoveTree ==
    ASSUME IsTree(disk), NEW x \in Seq(Nodes), x # <<>>,
           NEW y \in Seq(Nodes), y # <<>>, y[1] \in Roots,
           ~Exists(y), MovePath(x, y)
    PROVE  IsTree(disk')
<1> DEFINE from == Place(x)
           to == Place(y)
<1>1. /\ from \in Seq(Nodes) /\ from # <<>>
      /\ to \in Seq(Nodes) /\ to # <<>> /\ to[1] \in Roots
    BY PlaceType
<1>2. CanHold(y) /\ ~IsPrefix(from, to) /\ disk' = AfterMove(from, to)
    BY MoveDisk
<1>3. /\ Len(to) = 1 \/ (Front(to) \in DOMAIN disk /\ disk[Front(to)] = "dir")
      /\ to \notin DOMAIN disk
    BY <1>2, HeldPlace
<1> HIDE DEF from, to
<1> QED BY <1>1, <1>2, <1>3, MovedTree

-----------------------------------------------------------------------------
(***************************************************************************)
(* The invariant.                                                          *)
(***************************************************************************)
\* The virtual paths that the session remembers.
VpathsInv ==
    /\ cwd \in Dirs
    /\ rnfr = <<>> \/ rnfr \in Dirs

Inv ==
    /\ VpathsInv
    /\ IsTree(disk)
    /\ prev \in {"RNFR", "RNTO", "other"}

\* A path on the disk, and what is allowed there by the entry it belongs to.
Spot(p, e) == p \in Seq(Nodes) /\ p # <<>> /\ p[1] = e.root

InEntry(dir, e) ==
    /\ dir.perms = e.perms
    /\ Spot(dir.ppath, e)
    /\ \A i \in 2..Len(dir.ppath) : dir.ppath[i] \in Names

LEMMA FoundInEntry ==
    ASSUME NEW dir, NEW e \in ToSet(Entries), NEW rest \in Seq(Names),
           DoSplit(e.vpath) \in Seq(Names), FoundAt(dir, e, rest)
    PROVE  InEntry(dir, e) /\ dir.vpath \in Dirs
<1> DEFINE p == dir.ppath
           top == <<e.root>>
<1>1. \A q \in Names : q \in Nodes
    BY NameFacts DEF Part, Nodes
<1>2. /\ dir.perms = e.perms /\ p = Cat(top, rest)
      /\ dir.vpath = ToVpath(Cat(DoSplit(e.vpath), rest))
    BY DEF FoundAt, Cat
<1>3. dir.vpath \in Dirs
    BY <1>2, CatType DEF Dirs
<1>4. rest \in Seq(Nodes)
    BY <1>1, SeqMonotonic
<1>5. e.root \in Nodes
    BY EntryFacts DEF Nodes
<1>6. top \in Seq(Nodes) /\ Len(top) = 1 /\ top[1] = e.root
    BY <1>5
<1> HIDE DEF p, top
<1>7. p \in Seq(Nodes) /\ Joined(p, top, rest)
    BY <1>2, <1>4, <1>6, CatProperties
<1>8. Len(p) = 1 + Len(rest) /\ Len(rest) \in Nat /\ p[1] = e.root
      /\ \A i \in 1..Len(rest) : p[1 + i] = rest[i]
    BY <1>6, <1>7 DEF Joined
<1>9. p # <<>>
    BY <1>8, EmptySeq
<1>10. ASSUME NEW i \in 2..Len(p) PROVE p[i] \in Names
  <2> DEFINE j == i - 1
  <2>1. j \in 1..Len(rest) /\ 1 + j = i
      BY <1>8
  <2> HIDE DEF j
  <2>2. p[i] = rest[j] /\ rest[j] \in Names
      BY <1>8, <2>1, ElementOfSeq
  <2> QED BY <2>2
<1>11. Spot(p, e)
    BY <1>7, <1>8, <1>9 DEF Spot
<1> QED BY <1>2, <1>3, <1>10, <1>11 DEF InEntry, p

LEMMA ResolveFinds ==
    ASSUME cwd \in Dirs, NEW path \in Seq(Alphabet)
    PROVE  /\ NormalizeAndSplit(path, cwd) \in WalkStates(Names)
           /\ \A dir \in Resolve(path) :
                 dir.vpath \in Dirs /\ \E e \in ToSet(Entries) : InEntry(dir, e)
<1>1. PICK names \in Seq(Names) : cwd = ToVpath(names)
    BY DEF Dirs
<1>2. NormalizeAndSplit(path, cwd) \in WalkStates(Names)
    BY <1>1, Resolution
<1>3. ASSUME NEW dir \in Resolve(path)
      PROVE  dir.vpath \in Dirs /\ \E e \in ToSet(Entries) : InEntry(dir, e)
  <2> DEFINE full == ToVpath(NormalizeAndSplit(path, cwd).parts)
  <2>1. PICK e \in ToSet(Entries) :
            /\ FoundAt(dir, e, Added(e, full))
            /\ Added(e, full) \in Seq(Names) /\ DoSplit(e.vpath) \in Seq(Names)
      BY <1>1, <1>3, Resolution DEF Resolve
  <2> QED BY <2>1, FoundInEntry
<1> QED BY <1>2, <1>3

LEMMA DirsType == \A path \in Dirs : path \in Seq(Alphabet)
BY VpathFacts DEF Dirs

LEMMA RootDir == Root \in Dirs
BY ToVpathEmpty, EmptySeq DEF Dirs

-----------------------------------------------------------------------------
(***************************************************************************)
(* What a step does to the disk: nothing, or it adds, removes or moves     *)
(* something where an entry allows that.                                   *)
(***************************************************************************)
Adds(e) ==
    \E p : \E kind \in {"file", "dir"} :
        /\ Spot(p, e) /\ ~Exists(p) /\ CanHold(p) /\ Add(p, kind)
        /\ e.perms \cap {"CAN_CREATE_DIR", "CAN_WRITE"} # {}

Removes(e) ==
    \E p :
        /\ Spot(p, e) /\ RemovePath(p)
        /\ e.perms \cap {"CAN_DELETE_FILE", "CAN_DELETE_DIR"} # {}

Moves(e, f) ==
    \E p, q :
        /\ Spot(p, e) /\ Spot(q, f) /\ ~Exists(q) /\ MovePath(p, q)
        /\ "CAN_RENAME" \in e.perms
        /\ f.perms \cap {"CAN_CREATE_DIR", "CAN_CREATE_FILE"} # {}

DiskStep ==
    \/ UNCHANGED disk
    \/ \E e \in ToSet(Entries) : Adds(e) \/ Removes(e)
    \/ \E e \in ToSet(Entries), f \in ToSet(Entries) : Moves(e, f)

LEMMA CreateDirectoryStep ==
    ASSUME NEW dir, NEW e \in ToSet(Entries), InEntry(dir, e), CreateDirectory(dir)
    PROVE  DiskStep
BY DEF CreateDirectory, InEntry, DiskStep, Adds

LEMMA DeleteStep ==
    ASSUME NEW dir, NEW e \in ToSet(Entries), InEntry(dir, e),
           DeleteDirectory(dir) \/ DeleteFile(dir)
    PROVE  DiskStep
BY DEF DeleteDirectory, DeleteFile, InEntry, DiskStep, Removes

LEMMA OpenFileStep ==
    ASSUME NEW file, NEW e \in ToSet(Entries), InEntry(file, e), NEW operation,
           OpenFile(file, operation)
    PROVE  DiskStep
BY DEF OpenFile, InEntry, DiskStep, Adds

LEMMA RenameStep ==
    ASSUME NEW from, NEW e \in ToSet(Entries), InEntry(from, e),
           NEW to, NEW f \in ToSet(Entries), InEntry(to, f), Rename(from, to)
    PROVE  DiskStep
<1>1. /\ "CAN_RENAME" \in e.perms /\ ~Exists(to.ppath)
      /\ "CAN_CREATE_DIR" \in f.perms \/ "CAN_CREATE_FILE" \in f.perms
      /\ MovePath(from.ppath, to.ppath)
    BY DEF Rename, InEntry
<1>2. Spot(from.ppath, e) /\ Spot(to.ppath, f)
    BY DEF InEntry
<1>3. Moves(e, f)
    BY <1>1, <1>2 DEF Moves
<1> QED BY <1>3 DEF DiskStep

LEMMA NextVpaths ==
    ASSUME VpathsInv, [Next]_vars
    PROVE  VpathsInv'
<1>1. cwd \in Dirs /\ (rnfr = <<>> \/ rnfr \in Dirs)
    BY DEF VpathsInv
<1>2. ASSUME NEW path \in Seq(Alphabet), NEW dir \in Resolve(path)
      PROVE  dir.vpath \in Dirs
    BY <1>1, <1>2, ResolveFinds
<1>3. ASSUME NEW path \in Inputs \cup {<<>>}, Cwd(path) PROVE VpathsInv'
  <2> DEFINE target == IF path = <<>> THEN Root ELSE path
  <2>1. target \in Seq(Alphabet)
      BY FixedFacts, SentFacts
  <2>2. rnfr' = rnfr /\ \E dir \in Resolve(target) : cwd' = dir.vpath
      BY <1>3 DEF Cwd, SetCwd, Executed
  <2> HIDE DEF target
  <2> QED BY <1>1, <1>2, <2>1, <2>2 DEF VpathsInv
<1>4. CASE Cdup
  <2>1. rnfr' = rnfr /\ \E dir \in Resolve(DotDot) : cwd' = dir.vpath
      BY <1>4 DEF Cdup, SetCwd, Executed
  <2> QED BY <1>1, <1>2, <2>1, FixedFacts DEF VpathsInv
<1>5. ASSUME NEW path \in Inputs, Mkd(path) \/ Rmd(path) \/ Dele(path) \/ Rnto(path)
      PROVE  VpathsInv'
  <2>1. rnfr' = rnfr
      BY <1>5 DEF Mkd, Rmd, Dele, Rnto, Executed
  <2>2. cwd' = cwd
      BY <1>5 DEF Mkd, Rmd, Dele, Rnto, CreateDirectory, DeleteDirectory,
                  DeleteFile, Rename
  <2> QED BY <1>1, <2>1, <2>2 DEF VpathsInv
<1>6. ASSUME NEW path \in Inputs, NEW c, Store(c, path) PROVE VpathsInv'
  <2>1. rnfr' = rnfr
      BY <1>6 DEF Store, Executed
  <2>2. cwd' = cwd
      BY <1>6 DEF Store, OpenFile
  <2> QED BY <1>1, <2>1, <2>2 DEF VpathsInv
<1>7. ASSUME NEW path \in Inputs, Rnfr(path) PROVE VpathsInv'
  <2>1. cwd' = cwd /\ \E dir \in Resolve(path) : rnfr' = dir.vpath
      BY <1>7 DEF Rnfr
  <2> QED BY <1>1, <1>2, <2>1, SentFacts DEF VpathsInv
<1>8. ASSUME NEW path \in Inputs, RnfrFails(path) PROVE VpathsInv'
    BY <1>1, <1>8 DEF RnfrFails, VpathsInv
<1>9. ASSUME NEW c, Other(c) PROVE VpathsInv'
    BY <1>1, <1>9 DEF Other, Executed, VpathsInv
<1>10. CASE UNCHANGED vars
    BY <1>1, <1>10 DEF vars, VpathsInv
<1> QED BY <1>3, <1>4, <1>5, <1>6, <1>7, <1>8, <1>9, <1>10 DEF Next

LEMMA NextDisk ==
    ASSUME Inv, [Next]_vars
    PROVE  DiskStep /\ prev' \in {"RNFR", "RNTO", "other"}
<1>1. /\ cwd \in Dirs /\ (rnfr = <<>> \/ rnfr \in Dirs)
      /\ prev \in {"RNFR", "RNTO", "other"}
    BY DEF Inv, VpathsInv
<1>2. ASSUME NEW path \in Seq(Alphabet), NEW dir \in Resolve(path)
      PROVE  \E e \in ToSet(Entries) : InEntry(dir, e)
    BY <1>1, <1>2, ResolveFinds
<1>3. \A path \in Inputs : path \in Seq(Alphabet)
    BY SentFacts
<1>4. ASSUME NEW c, Executed(c) PROVE prev' \in {"RNFR", "RNTO", "other"}
    BY <1>4 DEF Executed
<1>5. ASSUME NEW path, Cwd(path)
      PROVE  DiskStep /\ prev' \in {"RNFR", "RNTO", "other"}
    BY <1>4, <1>5 DEF Cwd, SetCwd, DiskStep
<1>6. CASE Cdup
    BY <1>4, <1>6 DEF Cdup, SetCwd, DiskStep
<1>7. ASSUME NEW path \in Inputs, Mkd(path)
      PROVE  DiskStep /\ prev' \in {"RNFR", "RNTO", "other"}
    BY <1>2, <1>3, <1>4, <1>7, CreateDirectoryStep DEF Mkd
<1>8. ASSUME NEW path \in Inputs, Rmd(path) \/ Dele(path)
      PROVE  DiskStep /\ prev' \in {"RNFR", "RNTO", "other"}
    BY <1>2, <1>3, <1>4, <1>8, DeleteStep DEF Rmd, Dele
<1>9. ASSUME NEW path \in Inputs, NEW c, Store(c, path)
      PROVE  DiskStep /\ prev' \in {"RNFR", "RNTO", "other"}
    BY <1>2, <1>3, <1>4, <1>9, OpenFileStep DEF Store
<1>10. ASSUME NEW path \in Inputs, Rnto(path)
       PROVE  DiskStep /\ prev' \in {"RNFR", "RNTO", "other"}
  <2>1. PICK from \in Resolve(rnfr), to \in Resolve(path) : Rename(from, to)
      BY <1>10 DEF Rnto
  <2>2. rnfr \in Seq(Alphabet)
      BY <1>1, EmptySeq, DirsType
  <2>3. PICK e \in ToSet(Entries), f \in ToSet(Entries) :
            InEntry(from, e) /\ InEntry(to, f)
      BY <1>2, <1>3, <2>2
  <2>4. DiskStep
      BY <2>1, <2>3, RenameStep
  <2> QED BY <1>4, <1>10, <2>4 DEF Rnto
<1>11. ASSUME NEW path \in Inputs, Rnfr(path) \/ RnfrFails(path)
       PROVE  DiskStep /\ prev' \in {"RNFR", "RNTO", "other"}
    BY <1>11 DEF Rnfr, RnfrFails, DiskStep
<1>12. ASSUME NEW c, Other(c)
       PROVE  DiskStep /\ prev' \in {"RNFR", "RNTO", "other"}
    BY <1>4, <1>12 DEF Other, DiskStep
<1>13. CASE UNCHANGED vars
    BY <1>1, <1>13 DEF vars, DiskStep
<1> QED BY <1>5, <1>6, <1>7, <1>8, <1>9, <1>10, <1>11, <1>12, <1>13 DEF Next

LEMMA DiskTree ==
    ASSUME IsTree(disk), DiskStep
    PROVE  IsTree(disk')
<1>1. CASE UNCHANGED disk
  <2>1. disk' = disk
      BY <1>1
  <2> QED BY <2>1
<1>2. ASSUME NEW e \in ToSet(Entries), Adds(e) PROVE IsTree(disk')
  <2>1. PICK p : \E kind \in {"file", "dir"} :
                    Spot(p, e) /\ ~Exists(p) /\ CanHold(p) /\ Add(p, kind)
      BY <1>2 DEF Adds
  <2>2. p \in Seq(Nodes) /\ p # <<>> /\ p[1] \in Roots
      BY <2>1, EntryFacts DEF Spot
  <2> QED BY <2>1, <2>2, AddTree
<1>3. ASSUME NEW e \in ToSet(Entries), Removes(e) PROVE IsTree(disk')
    BY <1>3, RemoveTree DEF Removes
<1>4. ASSUME NEW e \in ToSet(Entries), NEW f \in ToSet(Entries), Moves(e, f)
      PROVE  IsTree(disk')
  <2>1. PICK p, q : Spot(p, e) /\ Spot(q, f) /\ ~Exists(q) /\ MovePath(p, q)
      BY <1>4 DEF Moves
  <2>2. q[1] \in Roots
      BY <2>1, EntryFacts DEF Spot
  <2> QED BY <2>1, <2>2, MoveTree DEF Spot
<1> QED BY <1>1, <1>2, <1>3, <1>4 DEF DiskStep

LEMMA InitInv == Init => Inv
BY RootDir, FilesAssumption DEF Init, Inv, VpathsInv

LEMMA NextInv == Inv /\ [Next]_vars => Inv'
<1> SUFFICES ASSUME Inv, [Next]_vars PROVE Inv'
    OBVIOUS
<1>1. VpathsInv /\ IsTree(disk)
    BY DEF Inv
<1>2. VpathsInv'
    BY <1>1, NextVpaths
<1>3. DiskStep /\ prev' \in {"RNFR", "RNTO", "other"}
    BY NextDisk
<1>4. IsTree(disk')
    BY <1>1, <1>3, DiskTree
<1> QED BY <1>2, <1>3, <1>4 DEF Inv

\* Whatever is sent, the session remembers /, or a virtual path with names that
\* have no backslash and no two dots in a row (cwd_, rnfr_).
THEOREM FilesInvariant == Spec => []Inv
BY InitInv, NextInv, PTL DEF Spec

\* The current directory and the pending rename are paths, and the disk stays
\* a tree below the roots: nothing is made, or moved to, where there is no
\* directory to hold it (WfdeSession, RenamePath with all that is below).
THEOREM SpecTypeOK == Spec => []TypeOK
<1>1. Inv => TypeOK
  <2>1. \A path \in Dirs : path \in Seq(Alphabet)
      BY DirsType
  <2>2. <<>> \in Seq(Alphabet)
      BY EmptySeq
  <2> QED BY <2>1, <2>2 DEF Inv, VpathsInv, TypeOK, Alphabet
<1> QED BY <1>1, FilesInvariant, PTL

\* No path leaves the roots of the entries: a session comes to nothing on the
\* disk but the root of an entry and names below it (GetPath).
THEOREM SpecConfined == Spec => []Confined
<1>1. Inv => Confined
  <2>1. SUFFICES ASSUME Inv, NEW path \in Lookups, NEW p \in Resolve(path)
                 PROVE  /\ p.ppath[1] \in Roots
                        /\ \A i \in 2..Len(p.ppath) :
                              /\ p.ppath[i] \notin {<<>>, DotDot}
                              /\ "/" \notin ToSet(p.ppath[i])
      BY DEF Confined
  <2>2. cwd \in Dirs
      BY <2>1 DEF Inv, VpathsInv
  <2>3. PICK e \in ToSet(Entries) : InEntry(p, e)
      BY <2>1, <2>2, ResolveFinds, SentFacts
  <2>4. p.ppath[1] = e.root /\ \A i \in 2..Len(p.ppath) : p.ppath[i] \in Names
      BY <2>3 DEF InEntry, Spot
  <2> QED BY <2>4, EntryFacts, NameFacts
<1> QED BY <1>1, FilesInvariant, PTL

\* Every step over the characters of an ordinary path, of any length and from
\* any current directory, resolves it as by its parts, and refuses it just when
\* it leads above the top (NormalizeAndSplit).
THEOREM SpecNormalizeAgrees == Spec => []NormalizeAgrees
<1>1. Inv => NormalizeAgrees
  <2>1. SUFFICES ASSUME Inv, NEW path \in Lookups, Ordinary(path)
                 PROVE  LET st == NormalizeAndSplit(path, cwd)
                            reference == ByParts(path, cwd)
                        IN  /\ st.ok <=> reference.ok
                            /\ st.ok => st.parts = reference.parts
      BY DEF NormalizeAgrees
  <2>2. path \in Seq(Alphabet)
      BY SentFacts
  <2>3. cwd \in Seq(Alphabet)
      BY <2>1, DirsType DEF Inv, VpathsInv
  <2> QED BY <2>1, <2>2, <2>3, AlphabetFacts, NormalizeOrdinary
<1> QED BY <1>1, FilesInvariant, PTL

-----------------------------------------------------------------------------
(***************************************************************************)
(* What is below a root changes only as the entry of that root allows.     *)
(***************************************************************************)
UnderRoot(d, r) == {p \in DOMAIN d : p[1] = r}

LEMMA AddUnder ==
    ASSUME NEW x \in Seq(Nodes), x # <<>>, NEW kind, Add(x, kind), NEW r, x[1] # r
    PROVE  UnderRoot(disk', r) = UnderRoot(disk, r)
<1>1. DOMAIN disk' = DOMAIN disk \cup {Place(x)}
    BY DEF Add
<1>2. Place(x)[1] # r
    BY PlaceType
<1> QED BY <1>1, <1>2 DEF UnderRoot

LEMMA RemoveUnder ==
    ASSUME NEW x \in Seq(Nodes), x # <<>>, RemovePath(x), NEW r, x[1] # r
    PROVE  UnderRoot(disk', r) = UnderRoot(disk, r)
<1>1. DOMAIN disk' = DOMAIN disk \ {Place(x)}
    BY DEF RemovePath
<1>2. Place(x)[1] # r
    BY PlaceType
<1> QED BY <1>1, <1>2 DEF UnderRoot

LEMMA MoveUnder ==
    ASSUME IsTree(disk), NEW x \in Seq(Nodes), x # <<>>,
           NEW y \in Seq(Nodes), y # <<>>, MovePath(x, y),
           NEW r, x[1] # r, y[1] # r
    PROVE  UnderRoot(disk', r) = UnderRoot(disk, r)
<1> DEFINE p == Place(x)
           q == Place(y)
           B == Below(p)
           M(s) == Moved(p, q, s)
<1>1. DOMAIN disk' = (DOMAIN disk \ B) \cup {M(s) : s \in B}
  <2>1. disk' = AfterMove(p, q)
      BY MoveDisk
  <2> QED BY <2>1 DEF AfterMove, Kept
<1>2. /\ p \in Seq(Nodes) /\ p # <<>> /\ p[1] # r
      /\ q \in Seq(Nodes) /\ q # <<>> /\ q[1] # r
    BY PlaceType
<1> HIDE DEF p, q
<1>3. ASSUME NEW s \in B PROVE s[1] # r /\ M(s)[1] # r
  <2>1. s \in Seq(Nodes) /\ IsPrefix(p, s)
      BY Tree DEF Below, Placed
  <2>2. s[1] = p[1]
      BY <1>2, <2>1, PrefixFirst
  <2>3. M(s)[1] = q[1]
      BY <1>2, <2>1, MovedFront
  <2> QED BY <1>2, <2>2, <2>3
<1>4. B \subseteq DOMAIN disk
    BY DEF Below
<1> HIDE DEF B, M
<1> QED BY <1>1, <1>3, <1>4 DEF UnderRoot

ReadBits == {"CAN_ENTER", "CAN_LIST", "CAN_READ", "IS_RECURSIVE"}

LEMMA NextReadOnly ==
    ASSUME IsTree(disk), DiskStep, NEW g \in ToSet(Entries), g.perms \subseteq ReadBits
    PROVE  UnderRoot(disk', g.root) = UnderRoot(disk, g.root)
<1> DEFINE r == g.root
<1>1. ASSUME NEW e \in ToSet(Entries),
             \/ e.perms \cap {"CAN_CREATE_DIR", "CAN_WRITE"} # {}
             \/ e.perms \cap {"CAN_DELETE_FILE", "CAN_DELETE_DIR"} # {}
             \/ "CAN_RENAME" \in e.perms
             \/ e.perms \cap {"CAN_CREATE_DIR", "CAN_CREATE_FILE"} # {}
      PROVE  e.root # r
  <2>1. e # g
      BY <1>1 DEF ReadBits
  <2> QED BY <2>1, EntriesDiffer
<1> HIDE DEF r
<1>2. CASE UNCHANGED disk
  <2>1. disk' = disk
      BY <1>2
  <2> QED BY <2>1
<1>3. ASSUME NEW e \in ToSet(Entries), Adds(e)
      PROVE  UnderRoot(disk', r) = UnderRoot(disk, r)
  <2>1. PICK p : \E kind \in {"file", "dir"} :
            /\ Spot(p, e) /\ Add(p, kind)
            /\ e.perms \cap {"CAN_CREATE_DIR", "CAN_WRITE"} # {}
      BY <1>3 DEF Adds
  <2>2. p[1] # r
      BY <1>1, <2>1 DEF Spot
  <2> QED BY <2>1, <2>2, AddUnder DEF Spot
<1>4. ASSUME NEW e \in ToSet(Entries), Removes(e)
      PROVE  UnderRoot(disk', r) = UnderRoot(disk, r)
  <2>1. PICK p :
            /\ Spot(p, e) /\ RemovePath(p)
            /\ e.perms \cap {"CAN_DELETE_FILE", "CAN_DELETE_DIR"} # {}
      BY <1>4 DEF Removes
  <2>2. p[1] # r
      BY <1>1, <2>1 DEF Spot
  <2> QED BY <2>1, <2>2, RemoveUnder DEF Spot
<1>5. ASSUME NEW e \in ToSet(Entries), NEW f \in ToSet(Entries), Moves(e, f)
      PROVE  UnderRoot(disk', r) = UnderRoot(disk, r)
  <2>1. PICK p, q :
            /\ Spot(p, e) /\ Spot(q, f) /\ MovePath(p, q)
            /\ "CAN_RENAME" \in e.perms
            /\ f.perms \cap {"CAN_CREATE_DIR", "CAN_CREATE_FILE"} # {}
      BY <1>5 DEF Moves
  <2>2. p[1] # r /\ q[1] # r
      BY <1>1, <2>1 DEF Spot
  <2> QED BY <2>1, <2>2, MoveUnder DEF Spot
<1>6. UnderRoot(disk', r) = UnderRoot(disk, r)
    BY <1>2, <1>3, <1>4, <1>5 DEF DiskStep
<1> QED BY <1>6 DEF r

\* No sequence of commands makes, removes or renames anything below the root of
\* an entry that is for reading only, wherever other entries are mounted
\* (the permissions that WfdeSession asks for before each operation).
THEOREM SpecReadOnlyKept == Spec => ReadOnlyKept
<1>1. Inv /\ [Next]_vars =>
          [\A i \in DOMAIN Entries :
              Entries[i].perms \subseteq {"CAN_ENTER", "CAN_LIST", "CAN_READ",
                                          "IS_RECURSIVE"} =>
                  LET Under(d) == {p \in DOMAIN d : p[1] = Entries[i].root}
                  IN  Under(disk) = Under(disk')]_vars
  <2>1. SUFFICES ASSUME Inv, [Next]_vars, NEW i \in DOMAIN Entries,
                        Entries[i].perms \subseteq ReadBits
                 PROVE  UnderRoot(disk, Entries[i].root) =
                            UnderRoot(disk', Entries[i].root)
      BY DEF UnderRoot, ReadBits
  <2>2. Entries[i] \in ToSet(Entries)
      BY DEF ToSet
  <2>3. DiskStep /\ IsTree(disk)
      BY <2>1, NextDisk DEF Inv
  <2> QED BY <2>1, <2>2, <2>3, NextReadOnly
<1> QED BY <1>1, FilesInvariant, PTL DEF Spec, ReadOnlyKept

-----------------------------------------------------------------------------
(***************************************************************************)
(* What the lookup by characters finds.                                    *)
(***************************************************************************)
LEMMA PrefixesCompare ==
    ASSUME NEW S, NEW u \in Seq(S), NEW s \in Seq(S), NEW t \in Seq(S),
           IsPrefix(s, u), IsPrefix(t, u), Len(s) <= Len(t)
    PROVE  IsPrefix(s, t) /\ (Len(s) = Len(t) => s = t)
<1>1. /\ \A i \in 1..Len(s) : s[i] = u[i]
      /\ \A i \in 1..Len(t) : t[i] = u[i]
      /\ Len(s) \in Nat /\ Len(t) \in Nat
    BY PrefixDef, LenProperties
<1>2. \A i \in 1..Len(s) : s[i] = t[i]
    BY <1>1
<1>3. IsPrefix(s, t)
    BY <1>2, PrefixDef
<1>4. Len(s) = Len(t) => s = t
    BY <1>2, SeqEqual
<1> QED BY <1>3, <1>4

LEMMA RankType == ASSUME NEW c \in Alphabet PROVE Rank(c) \in Nat
<1>1. \E i \in DOMAIN Chars : Chars[i] = c
    BY DEF Alphabet, ToSet
<1>2. DOMAIN Chars = 1..5
    BY DEF Chars
<1> HIDE DEF Chars
<1>3. Rank(c) \in DOMAIN Chars
    BY <1>1 DEF Rank
<1> QED BY <1>2, <1>3

\* Of two virtual paths that a path begins with, the index has the shorter one
\* first.
LEMMA BeforePrefix ==
    ASSUME NEW u \in Seq(Alphabet), NEW s \in Seq(Alphabet), NEW t \in Seq(Alphabet),
           IsPrefix(s, u), IsPrefix(t, u)
    PROVE  Before(s, t) <=> Len(s) < Len(t)
<1>1. Len(s) \in Nat /\ Len(t) \in Nat /\ DOMAIN s = 1..Len(s) /\ DOMAIN t = 1..Len(t)
    BY LenProperties
<1>2. \A i \in DOMAIN s \cap DOMAIN t : s[i] = t[i] /\ s[i] \in Alphabet
    BY <1>1, PrefixDef, ElementOfSeq
<1>3. ASSUME NEW i \in DOMAIN s \cap DOMAIN t PROVE ~(Rank(s[i]) < Rank(t[i]))
  <2> DEFINE c == s[i]
  <2>1. c = t[i] /\ c \in Alphabet
      BY <1>2
  <2> HIDE DEF c
  <2>2. Rank(c) \in Nat
      BY <2>1, RankType
  <2> DEFINE n == Rank(c)
  <2>3. n \in Nat
      BY <2>2
  <2> HIDE DEF n
  <2>4. ~(n < n)
      BY <2>3
  <2> QED BY <2>1, <2>4 DEF n, c
<1>4. Before(s, t) <=> IsStrictPrefix(s, t)
    BY <1>3 DEF Before
<1>5. ASSUME IsStrictPrefix(s, t) PROVE Len(s) < Len(t)
  <2>1. IsPrefix(s, t) /\ s # t
      BY <1>5 DEF IsStrictPrefix
  <2>2. Len(s) <= Len(t)
      BY <2>1, PrefixDef
  <2>3. Len(s) # Len(t)
      BY <2>1, <2>2, PrefixesCompare
  <2> DEFINE a == Len(s)
             b == Len(t)
  <2>4. a \in Nat /\ b \in Nat /\ a <= b /\ a # b
      BY <1>1, <2>2, <2>3
  <2> HIDE DEF a, b
  <2>5. a < b
      BY <2>4
  <2> QED BY <2>5 DEF a, b
<1>6. ASSUME Len(s) < Len(t) PROVE IsStrictPrefix(s, t)
  <2>1. IsPrefix(s, t)
      BY <1>1, <1>6, PrefixesCompare
  <2>2. s # t
      BY <1>1, <1>6
  <2> QED BY <2>1, <2>2 DEF IsStrictPrefix
<1> QED BY <1>4, <1>5, <1>6

\* A path that goes on within the last part of an entry.
LEMMA GoesOnContinued ==
    ASSUME NEW e \in ToSet(Entries), NEW parts \in Seq(Part(Alphabet)), NEW rest,
           GoesOn(Alphabet, DoSplit(e.vpath), parts, rest)
    PROVE  ContinuedBy(e, parts)
<1> DEFINE P == Part(Alphabet)
           d == DoSplit(e.vpath)
<1>1. PICK f \in Seq(P), l \in P, q \in P, t \in Seq(P) :
          d = Append(f, l) /\ parts = Cat(f, Cat(<<Cat(l, q)>>, t))
    BY DEF GoesOn
<1> DEFINE m == Cat(l, q)
<1>2. m \in P /\ IsStrictPrefix(l, m)
    BY PartConcat DEF Cat
<1> HIDE DEF P, d, m
<1>3. parts = f \o (<<m>> \o t)
    BY <1>1 DEF m, Cat
<1>4. Front(d) = f /\ Last(d) = l /\ Len(d) = Len(f) + 1
    BY <1>1, FrontOfAppend, AppendProperties
<1>5. Len(f) + 1 \in 1..Len(parts) /\ parts[Len(f) + 1] = m
    BY <1>2, <1>3, ConcatMember
<1>6. f = SubSeq(parts, 1, Len(f))
  <2> DEFINE r == <<m>> \o t
  <2>1. r \in Seq(P)
      BY <1>2, ConcatProperties
  <2> HIDE DEF r
  <2>2. IsPrefix(f, f \o r)
      BY <2>1, ConcatPrefix
  <2>3. IsPrefix(f, parts)
      BY <1>3, <2>2 DEF r
  <2> QED BY <2>3, SubSeqFull DEF IsPrefix
<1>7. (Len(f) + 1) - 1 = Len(f)
    BY LenProperties
<1> QED BY <1>2, <1>4, <1>5, <1>6, <1>7 DEF ContinuedBy, d

LEMMA ContinuedMatches ==
    ASSUME NEW e \in ToSet(Entries), NEW parts \in Seq(Part(Alphabet)),
           ContinuedBy(e, parts)
    PROVE  IsPrefix(e.vpath, ToVpath(parts))
<1> DEFINE P == Part(Alphabet)
           d == DoSplit(e.vpath)
           n == Len(d)
           f == Front(d)
           l == Last(d)
           m == parts[n]
           g == Append(f, m)
<1>1. d \in Seq(P) /\ e.vpath = ToVpath(d)
    BY EntryFacts
<1>2. n \in 1..Len(parts) /\ f = SubSeq(parts, 1, n - 1) /\ IsStrictPrefix(l, m)
    BY DEF ContinuedBy
<1>3. d # <<>> /\ m \in P /\ Len(parts) \in Nat
  <2>1. Len(d) # 0
      BY <1>2
  <2>2. m \in P
      BY <1>2, ElementOfSeq
  <2> QED BY <1>1, <2>1, <2>2, EmptySeq, LenProperties
<1> HIDE DEF d
<1>4. f \in Seq(P) /\ Len(f) = n - 1 /\ l \in P /\ d = Append(f, l)
    BY <1>1, <1>3, FrontLast
<1> HIDE DEF P, n, f, l, m
<1>5. \A i \in 1..Len(f) : f[i] = parts[i]
  <2>1. Len(f) <= Len(parts) /\ SubSeq(f, 1, Len(f)) = f
      BY <1>2, <1>3, <1>4, SubSeqFull
  <2>2. IsPrefix(f, parts)
      BY <1>2, <1>4, <2>1 DEF IsPrefix
  <2> QED BY <1>4, <2>2, PrefixDef DEF P
<1>6. /\ g \in Seq(P) /\ Len(g) = Len(f) + 1 /\ g[Len(f) + 1] = m
      /\ \A i \in 1..Len(f) : g[i] = f[i]
    BY <1>3, <1>4, AppendProperties
<1> HIDE DEF g
<1>7. IsPrefix(g, parts)
  <2>1. n \in Nat /\ Len(g) = n /\ n <= Len(parts) /\ g[n] = parts[n]
      BY <1>2, <1>3, <1>4, <1>6 DEF m
  <2>2. \A i \in 1..Len(g) : g[i] = parts[i]
      BY <1>4, <1>5, <1>6, <2>1
  <2> QED BY <1>6, <2>1, <2>2, PrefixDef DEF P
<1>8. IsPrefix(l, m)
    BY <1>2 DEF IsStrictPrefix
<1>9. IsPrefix(ToVpath(Append(f, l)), ToVpath(parts))
    BY <1>3, <1>4, <1>7, <1>8, AlphabetFacts, WithinPart DEF P, g
<1> QED BY <1>1, <1>4, <1>9

\* The entries that a path begins with, by its characters.
Matching(parts) ==
    {e \in ToSet(Entries) : Covers(e, parts) \/ ContinuedBy(e, parts)}

LEMMA MatchesMatching ==
    ASSUME NEW parts \in Seq(Part(Alphabet))
    PROVE  Matches(Entries, ToVpath(parts)) = Matching(parts)
<1>1. ASSUME NEW e \in ToSet(Entries)
      PROVE  /\ e.vpath # <<>>
             /\ IsPrefix(e.vpath, ToVpath(parts)) <=>
                    Covers(e, parts) \/ ContinuedBy(e, parts)
  <2> DEFINE d == DoSplit(e.vpath)
             P == Part(Alphabet)
  <2>1. e.vpath # <<>> /\ d \in Seq(P) /\ e.vpath = ToVpath(d)
      BY EntryFacts
  <2> HIDE DEF P
  <2>2. ASSUME Covers(e, parts) PROVE IsPrefix(e.vpath, ToVpath(parts))
    <3>1. IsPrefix(d, parts)
        BY <2>2 DEF Covers
    <3> HIDE DEF d
    <3> QED BY <2>1, <3>1, AlphabetFacts, PrefixOfParts DEF P
  <2>3. ContinuedBy(e, parts) => IsPrefix(e.vpath, ToVpath(parts))
      BY ContinuedMatches
  <2>4. ASSUME IsPrefix(e.vpath, ToVpath(parts))
        PROVE  Covers(e, parts) \/ ContinuedBy(e, parts)
    <3> DEFINE rest == DoSplit(Rest(ToVpath(d), ToVpath(parts)))
    <3>1. IsPrefix(ToVpath(d), ToVpath(parts))
        BY <2>1, <2>4
    <3>2. rest \in Seq(P) /\ (parts = Cat(d, rest) \/ GoesOn(Alphabet, d, parts, rest))
      <4> HIDE DEF d
      <4> QED BY <2>1, <3>1, AlphabetFacts, Boundary DEF P
    <3> HIDE DEF rest
    <3>3. CASE parts = Cat(d, rest)
      <4>1. IsPrefix(d, Cat(d, rest))
        <5> HIDE DEF d
        <5> QED BY <2>1, <3>2, ConcatPrefix DEF Cat
      <4> QED BY <3>3, <4>1 DEF Covers
    <3>4. CASE GoesOn(Alphabet, d, parts, rest)
        BY <3>4, GoesOnContinued
    <3> QED BY <3>2, <3>3, <3>4
  <2> QED BY <2>1, <2>2, <2>3, <2>4
<1> QED BY <1>1 DEF Matches, Matching

LEMMA LookupAgrees ==
    ASSUME NEW parts \in Seq(Part(Alphabet)), NEW full, full = ToVpath(parts)
    PROVE  BestMatch(Entries, full) =
               {e \in Closest(parts) : e.vpath = full \/ "IS_RECURSIVE" \in e.perms}
<1> DEFINE Q == Matching(parts)
           last == {e \in Q : \A f \in Q : f = e \/ ByVpath(f, e)}
           best == {e \in Q : \A f \in Q : Len(f.vpath) <= Len(e.vpath)}
<1>1. Matches(Entries, full) = Q
    BY MatchesMatching
<1>2. full \in Seq(Alphabet)
    BY AlphabetFacts, DoSplitToVpath
<1>3. ASSUME NEW e \in Q
      PROVE  e \in ToSet(Entries) /\ e.vpath \in Seq(Alphabet)
             /\ IsPrefix(e.vpath, full) /\ Len(e.vpath) \in Nat
  <2>1. e \in ToSet(Entries) /\ IsPrefix(e.vpath, full)
      BY <1>1 DEF Matches
  <2> QED BY <2>1, EntryFacts, LenProperties
<1> HIDE DEF Q
<1>4. ASSUME NEW e \in Q, NEW f \in Q
      PROVE  (f = e \/ ByVpath(f, e)) <=> Len(f.vpath) <= Len(e.vpath)
  <2>1. ByVpath(f, e) <=> Len(f.vpath) < Len(e.vpath)
    <3> DEFINE s == f.vpath
               t == e.vpath
    <3>1. /\ s \in Seq(Alphabet) /\ IsPrefix(s, full)
          /\ t \in Seq(Alphabet) /\ IsPrefix(t, full)
        BY <1>3
    <3> HIDE DEF s, t
    <3>2. Before(s, t) <=> Len(s) < Len(t)
        BY <1>2, <3>1, BeforePrefix
    <3> QED BY <3>2 DEF ByVpath, s, t
  <2>2. f # e => Len(f.vpath) # Len(e.vpath)
    <3>1. SUFFICES ASSUME f # e, Len(f.vpath) = Len(e.vpath) PROVE FALSE
        OBVIOUS
    <3>2. f.vpath # e.vpath
        BY <1>3, <3>1, EntriesDiffer
    <3>3. f.vpath = e.vpath
      <4>1. Len(f.vpath) <= Len(e.vpath)
          BY <1>3, <3>1
      <4> QED BY <1>2, <1>3, <3>1, <4>1, PrefixesCompare
    <3> QED BY <3>2, <3>3
  <2> QED BY <1>3, <2>1, <2>2
<1>5. last = best
    BY <1>4
<1>6. BestMatch(Entries, full) = {e \in last : Applies(e, full)}
    BY <1>1 DEF BestMatch
<1> HIDE DEF last, best
<1>7. BestMatch(Entries, full) =
          {e \in best : e.vpath = full \/ "IS_RECURSIVE" \in e.perms}
    BY <1>5, <1>6 DEF Applies
<1>8. best = Closest(parts)
    BY DEF best, Q, Matching, Closest
<1> QED BY <1>7, <1>8

\* Whatever the entries are and in which order they were added, the lookup by
\* characters and by the order of the index finds the longest entry that covers
\* the path or is continued by one of its names, or nothing if that one is for
\* itself only and not the path itself (WfdePermissions, GetPath).
THEOREM SpecPermissionsAgree == Spec => []PermissionsAgree
<1>1. Inv => PermissionsAgree
  <2>1. SUFFICES ASSUME Inv, NEW path \in Lookups
                 PROVE  LET st == NormalizeAndSplit(path, cwd)
                            full == ToVpath(st.parts)
                        IN  BestMatch(Entries, full) =
                                {e \in Closest(st.parts) :
                                    e.vpath = full \/ "IS_RECURSIVE" \in e.perms}
      BY DEF PermissionsAgree
  <2> DEFINE parts == NormalizeAndSplit(path, cwd).parts
  <2>2. cwd \in Dirs
      BY <2>1 DEF Inv, VpathsInv
  <2>3. parts \in Seq(Names)
      BY <2>1, <2>2, ResolveFinds, SentFacts DEF WalkStates
  <2>4. parts \in Seq(Part(Alphabet))
      BY <2>3, VpathFacts
  <2> HIDE DEF parts
  <2>5. BestMatch(Entries, ToVpath(parts)) =
            {e \in Closest(parts) :
                e.vpath = ToVpath(parts) \/ "IS_RECURSIVE" \in e.perms}
      BY <2>4, LookupAgrees
  <2> QED BY <2>5 DEF parts
<1> QED BY <1>1, FilesInvariant, PTL

-----------------------------------------------------------------------------
(***************************************************************************)
(* Where the current directory resolves to itself.                         *)
(***************************************************************************)
LEMMA NormalizeEmpty ==
    ASSUME NEW v
    PROVE  /\ NormalizeAndSplit(<<>>, v).ok
           /\ NormalizeAndSplit(<<>>, v).parts = DoSplit(v)
<1> DEFINE e == <<>>
           n == 0
           w == WalkStart(e, v)
           S == {w}
           G == [k \in 0..n |-> S]
<1>1. n \in Nat /\ n = Len(e) /\ 1..n = {}
    OBVIOUS
<1>2. G \in [0..n -> SUBSET S] /\ w \in G[0] /\ G[n] = S
    OBVIOUS
<1>3. w.ok /\ w.parts = DoSplit(v)
  <2>1. CharAt(e, 1) = "end"
      BY DEF CharAt
  <2> HIDE DEF e
  <2> QED BY <2>1 DEF WalkStart
<1> HIDE DEF e, n, G
<1>4. KeptBySteps(G, e, n)
    BY <1>1 DEF KeptBySteps
<1> HIDE DEF S
<1>5. NormalizeAndSplit(e, v) \in G[n]
    BY <1>1, <1>2, <1>4, WalkInvariant
<1> QED BY <1>2, <1>3, <1>5 DEF S, e

\* An entry that covers the path lacks just the names that the lookup adds.
LEMMA CoversAdded ==
    ASSUME NEW e \in ToSet(Entries), NEW parts \in Seq(Part(Alphabet)),
           Covers(e, parts)
    PROVE  parts = Cat(DoSplit(e.vpath), Added(e, ToVpath(parts)))
<1> DEFINE d == DoSplit(e.vpath)
           rest == Added(e, ToVpath(parts))
<1>1. d \in Seq(Part(Alphabet)) /\ e.vpath = ToVpath(d)
    BY EntryFacts
<1>2. IsPrefix(d, parts)
    BY DEF Covers
<1>3. rest = DoSplit(Rest(ToVpath(d), ToVpath(parts)))
    BY <1>1 DEF Added
<1> HIDE DEF d, rest
<1>4. IsPrefix(ToVpath(d), ToVpath(parts))
    BY <1>1, <1>2, AlphabetFacts, PrefixOfParts
<1>5. parts = Cat(d, rest) \/ GoesOn(Alphabet, d, parts, rest)
    BY <1>1, <1>3, <1>4, AlphabetFacts, Boundary
<1>6. ASSUME GoesOn(Alphabet, d, parts, rest) PROVE FALSE
  <2> DEFINE n == Len(d)
  <2>1. n \in 1..Len(parts) /\ Last(d) # parts[n]
      BY <1>6, GoesOnContinued DEF ContinuedBy, IsStrictPrefix, d
  <2>2. Last(d) = d[n]
      BY DEF Last
  <2>3. n \in 1..n
      BY <2>1
  <2>4. d[n] = parts[n]
      BY <1>1, <1>2, <2>3, PrefixDef
  <2> QED BY <2>1, <2>2, <2>4
<1> QED BY <1>5, <1>6 DEF d, rest

\* The directory that a path resolves to is one whose names are those of v.
LEMMA SameNames ==
    ASSUME NEW names \in Seq(Names), NEW dir, NEW e, NEW rest \in Seq(Names),
           DoSplit(e.vpath) \in Seq(Names), FoundAt(dir, e, rest)
    PROVE  dir.vpath = ToVpath(names) <=> names = Cat(DoSplit(e.vpath), rest)
<1> DEFINE x == Cat(DoSplit(e.vpath), rest)
<1>1. x \in Seq(Names) /\ dir.vpath = ToVpath(x)
    BY CatType DEF FoundAt
<1> HIDE DEF x
<1>2. DoSplit(ToVpath(x)) = x /\ DoSplit(ToVpath(names)) = names
    BY <1>1, VpathFacts
<1>3. dir.vpath = ToVpath(names) <=> names = x
    BY <1>1, <1>2
<1> QED BY <1>3 DEF x

LEMMA StableDirectory ==
    ASSUME NEW names \in Seq(Names), cwd = ToVpath(names)
    PROVE  /\ \E dir \in Resolve(cwd) : dir.vpath = cwd
           /\ Resolve(cwd) = Resolve(<<>>)
           <=>
           /\ Tidy(names, Len(names))
           /\ \E e \in Closest(names) :
                 Covers(e, names) /\ (e.vpath = cwd \/ "IS_RECURSIVE" \in e.perms)
<1> DEFINE st == NormalizeAndSplit(cwd, cwd)
           none == NormalizeAndSplit(<<>>, cwd)
           parts == st.parts
           full == ToVpath(parts)
           N == Len(names)
<1>1. st.ok /\ MadeOf(names, parts, N)
  <2>1. "\\" \notin Plain
      BY DEF Plain
  <2> QED BY <2>1, AlphabetFacts, NormalizeClean DEF Names
<1>2. none.ok /\ none.parts = names /\ DoSplit(cwd) = names
    BY NormalizeEmpty, VpathFacts
<1>3. cwd \in Seq(Alphabet) /\ <<>> \in Seq(Alphabet) /\ names \in Seq(Part(Alphabet))
    BY VpathFacts, EmptySeq
<1>4. parts \in Seq(Names) /\ parts \in Seq(Part(Alphabet))
  <2>1. st \in WalkStates(Names)
      BY <1>3, Resolution
  <2>2. parts \in Seq(Names)
      BY <2>1 DEF WalkStates
  <2> HIDE DEF parts
  <2> QED BY <2>2, VpathFacts
<1>5. ASSUME NEW dir \in Resolve(cwd)
      PROVE  \E e \in BestMatch(Entries, full) :
                /\ e \in ToSet(Entries) /\ IsPrefix(e.vpath, full)
                /\ FoundAt(dir, e, Added(e, full))
                /\ Added(e, full) \in Seq(Names) /\ DoSplit(e.vpath) \in Seq(Names)
    BY <1>3, <1>5, Resolution DEF Resolve
<1>6. ASSUME NEW dir \in Resolve(<<>>)
      PROVE  \E e \in BestMatch(Entries, cwd) :
                /\ e \in ToSet(Entries) /\ FoundAt(dir, e, Added(e, cwd))
                /\ Added(e, cwd) \in Seq(Names) /\ DoSplit(e.vpath) \in Seq(Names)
  <2> DEFINE empty == <<>>
  <2>1. dir \in GetPath(Entries, empty, cwd) /\ empty \in Seq(Alphabet)
      BY <1>3, <1>6 DEF Resolve
  <2>2. ToVpath(NormalizeAndSplit(empty, cwd).parts) = cwd
      BY <1>2
  <2> HIDE DEF empty
  <2> QED BY <2>1, <2>2, Resolution
<1>7. BestMatch(Entries, cwd) =
          {e \in Closest(names) : e.vpath = cwd \/ "IS_RECURSIVE" \in e.perms}
    BY <1>3, LookupAgrees
<1>8. ASSUME NEW dir \in Resolve(cwd), dir.vpath = cwd PROVE Tidy(names, N)
  <2>1. PICK e \in ToSet(Entries) :
            /\ IsPrefix(e.vpath, full) /\ FoundAt(dir, e, Added(e, full))
            /\ Added(e, full) \in Seq(Names) /\ DoSplit(e.vpath) \in Seq(Names)
      BY <1>5
  <2> DEFINE d == DoSplit(e.vpath)
             rest == Added(e, full)
  <2>2. names = Cat(d, rest)
      BY <1>8, <2>1, SameNames
  <2>3. d \in Seq(Part(Alphabet)) /\ e.vpath = ToVpath(d)
      BY EntryFacts
  <2>4. rest = DoSplit(Rest(ToVpath(d), full))
      BY <2>3 DEF Added
  <2>5. parts = Cat(d, rest) \/ GoesOn(Alphabet, d, parts, rest)
    <3>1. IsPrefix(ToVpath(d), ToVpath(parts))
        BY <2>1, <2>3
    <3>2. rest = DoSplit(Rest(ToVpath(d), ToVpath(parts)))
        BY <2>4
    <3> HIDE DEF d, rest, parts
    <3> QED BY <1>4, <2>3, <3>1, <3>2, AlphabetFacts, Boundary
  <2> HIDE DEF d, rest, parts, N
  <2>6. CASE parts = Cat(d, rest)
      BY <1>1, <2>2, <2>6 DEF MadeOf
  <2>7. CASE GoesOn(Alphabet, d, parts, rest)
    <3> DEFINE P == Part(Alphabet)
    <3>1. PICK f \in Seq(P), l \in P, q \in P, t \in Seq(P) :
              /\ d = Append(f, l) /\ rest = Cat(<<q>>, t)
              /\ parts = Cat(f, Cat(<<Cat(l, q)>>, t))
        BY <2>7 DEF GoesOn
    <3>2. Cat(l, q) \in P
        BY PartConcat DEF Cat
    <3>3. names = Cat(Append(f, l), Cat(<<q>>, t))
        BY <2>2, <3>1
    <3>4. ~Taken(names, parts)
        BY <3>1, <3>2, <3>3, NotJoined
    <3> QED BY <1>1, <3>4 DEF MadeOf
  <2> QED BY <2>5, <2>6, <2>7
<1>9. ASSUME NEW dir \in Resolve(<<>>), dir.vpath = cwd
      PROVE  \E e \in Closest(names) :
                Covers(e, names) /\ (e.vpath = cwd \/ "IS_RECURSIVE" \in e.perms)
  <2>1. PICK e \in BestMatch(Entries, cwd) :
            /\ e \in ToSet(Entries) /\ FoundAt(dir, e, Added(e, cwd))
            /\ Added(e, cwd) \in Seq(Names) /\ DoSplit(e.vpath) \in Seq(Names)
      BY <1>6, <1>9
  <2> DEFINE d == DoSplit(e.vpath)
             rest == Added(e, cwd)
  <2>2. names = Cat(d, rest)
      BY <1>9, <2>1, SameNames
  <2>3. IsPrefix(d, Cat(d, rest))
    <3> HIDE DEF d, rest
    <3>1. d \in Seq(Names) /\ rest \in Seq(Names)
        BY <2>1 DEF d, rest
    <3> QED BY <3>1, ConcatPrefix DEF Cat
  <2>4. Covers(e, names)
      BY <2>2, <2>3 DEF Covers
  <2> QED BY <1>7, <2>1, <2>4
<1>10. ASSUME Tidy(names, N), NEW e \in Closest(names), Covers(e, names),
              e.vpath = cwd \/ "IS_RECURSIVE" \in e.perms
       PROVE  /\ \E dir \in Resolve(cwd) : dir.vpath = cwd
              /\ Resolve(cwd) = Resolve(<<>>)
  <2> DEFINE Sub(f) == CreateSubpath(f, SubSeq(cwd, Len(f.vpath) + 1, Len(cwd)))
             dir == Sub(e)
  <2>1. parts = names
      BY <1>1, <1>10 DEF MadeOf
  <2>2. Resolve(cwd) = {Sub(f) : f \in BestMatch(Entries, cwd)}
      BY <1>1, <2>1 DEF Resolve, GetPath
  <2>3. Resolve(<<>>) = {Sub(f) : f \in BestMatch(Entries, cwd)}
      BY <1>2 DEF Resolve, GetPath
  <2>4. e \in BestMatch(Entries, cwd)
      BY <1>7, <1>10
  <2> DEFINE dd == dir
  <2>5. dir \in Resolve(cwd) /\ dd = Sub(e)
      BY <2>2, <2>4
  <2> HIDE DEF dd
  <2>6. /\ e \in ToSet(Entries) /\ FoundAt(dd, e, Added(e, cwd))
        /\ Added(e, cwd) \in Seq(Names) /\ DoSplit(e.vpath) \in Seq(Names)
      BY <2>4, <2>5, Found
  <2>7. names = Cat(DoSplit(e.vpath), Added(e, cwd))
      BY <1>3, <1>10, <2>6, CoversAdded
  <2>8. dd.vpath = cwd
      BY <2>6, <2>7, SameNames
  <2> HIDE DEF Sub
  <2> QED BY <2>2, <2>3, <2>5, <2>8
<1> HIDE DEF N
<1>11. ASSUME NEW dir \in Resolve(cwd), dir.vpath = cwd, Resolve(cwd) = Resolve(<<>>)
       PROVE  /\ Tidy(names, N)
              /\ \E e \in Closest(names) :
                    Covers(e, names) /\ (e.vpath = cwd \/ "IS_RECURSIVE" \in e.perms)
    BY <1>8, <1>9, <1>11
<1> QED BY <1>10, <1>11 DEF N

\* Whatever the entries are and whatever has been sent, the current directory
\* resolves to itself, and an empty path to it, just where none of its names
\* loses a dot on the way and the lookup finds an entry that covers it (GetPath,
\* NormalizeAndSplit, SetCwd).
THEOREM SpecCwdStable == Spec => []CwdStable
<1>1. Inv => CwdStable
  <2>1. SUFFICES ASSUME Inv PROVE CwdStable
      OBVIOUS
  <2>2. PICK names \in Seq(Names) : cwd = ToVpath(names)
      BY <2>1 DEF Inv, VpathsInv, Dirs
  <2>3. DoSplit(cwd) = names
      BY <2>2, VpathFacts
  <2>4. DOMAIN names = 1..Len(names)
      BY LenProperties
  <2>5. Tidy(names, Len(names)) <=>
            \A i \in DOMAIN names :
                names[i] # Dot /\ (Last(names[i]) = "." => i = Len(names))
      BY <2>4 DEF Tidy
  <2> QED BY <2>2, <2>3, <2>5, StableDirectory DEF CwdStable
<1> QED BY <1>1, FilesInvariant, PTL
=============================================================================
