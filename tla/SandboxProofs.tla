---------------------------- MODULE SandboxProofs ----------------------------
(***************************************************************************)
(* Theorems about SandboxManager and the filesystem tools, for any tree,   *)
(* links, roots, requests, and any number of resets and changes.           *)
(***************************************************************************)
EXTENDS SandboxManager, SequenceTheorems, WellFoundedInduction, TLAPS

-----------------------------------------------------------------------------
(* Induction, over a set rather than a predicate *)

LEMMA Least ==
    ASSUME NEW T \in SUBSET Nat, T # {}
    PROVE  \E x \in T : \A y \in T : x <= y
<1>1. IsWellFoundedOn(OpToRel(<, Nat), Nat)
    BY NatLessThanWellFounded
<1>2. PICK x \in T : \A y \in T : <<y, x>> \notin OpToRel(<, Nat)
    BY <1>1, WFMin
<1>3. \A y \in T : ~(y < x)
    BY <1>2 DEF OpToRel
<1> QED BY <1>3

LEMMA NatInd ==
    ASSUME NEW S, 0 \in S, \A n \in Nat : n \in S => n + 1 \in S
    PROVE  Nat \subseteq S
<1> SUFFICES ASSUME ~(Nat \subseteq S) PROVE FALSE
    OBVIOUS
<1> DEFINE T == Nat \ S
<1>1. PICK x \in T : \A y \in T : x <= y
    <2> T # {} /\ T \in SUBSET Nat
        OBVIOUS
    <2> HIDE DEF T
    <2> QED BY Least
<1>2. x # 0 /\ x - 1 \in Nat /\ x - 1 \notin T
    BY <1>1
<1> QED BY <1>2

LEMMA MinIsLeast ==
    ASSUME NEW T \in SUBSET Nat, T # {}
    PROVE  Min(T) \in T /\ \A y \in T : Min(T) <= y
BY Least DEF Min

-----------------------------------------------------------------------------
(* Paths *)

Paths == Seq(Names)

LEMMA FrontOfAppend ==
    ASSUME NEW s \in Paths, NEW n \in Names
    PROVE  Front(Append(s, n)) = s /\ Last(Append(s, n)) = n
<1>1. /\ Append(s, n) \in Paths
      /\ Len(Append(s, n)) = Len(s) + 1
      /\ \A i \in 1..Len(s) : Append(s, n)[i] = s[i]
      /\ Append(s, n)[Len(s) + 1] = n
    BY AppendProperties DEF Paths
<1>2. Len(s) \in Nat
    BY LenProperties DEF Paths
<1>3. /\ Front(Append(s, n)) \in Paths
      /\ Len(Front(Append(s, n))) = Len(s)
      /\ \A i \in 1..Len(s) : Front(Append(s, n))[i] = Append(s, n)[i]
    <2> DEFINE a == Append(s, n)
    <2>1. \A i \in 1..Len(s) : a[i] \in Names
        BY <1>1, <1>2, ElementOfSeq DEF Paths
    <2>2. Front(a) = SubSeq(a, 1, Len(s))
        BY <1>1, <1>2 DEF Front
    <2> HIDE DEF a
    <2>3. /\ SubSeq(a, 1, Len(s)) \in Seq(Names)
          /\ Len(SubSeq(a, 1, Len(s))) = IF 1 <= Len(s) THEN Len(s) - 1 + 1 ELSE 0
          /\ \A i \in 1..(Len(s) - 1 + 1) : SubSeq(a, 1, Len(s))[i] = a[1 + i - 1]
        BY <2>1, <1>2, SubSeqProperties
    <2>4. \A i \in 1..Len(s) : SubSeq(a, 1, Len(s))[i] = a[i]
        BY <2>3, <1>2
    <2>5. Len(SubSeq(a, 1, Len(s))) = Len(s)
        BY <2>3, <1>2
    <2> QED BY <2>2, <2>3, <2>4, <2>5 DEF a, Paths
<1>4. Front(Append(s, n)) = s
    BY <1>1, <1>3, SeqEqual DEF Paths
<1> QED BY <1>1, <1>4 DEF Last

LEMMA FrontAndLast ==
    ASSUME NEW s \in Paths, s # <<>>
    PROVE  /\ Front(s) \in Paths /\ Last(s) \in Names
           /\ s = Append(Front(s), Last(s))
           /\ Len(s) = Len(Front(s)) + 1
<1>1. PICK p \in Paths, n \in Names : s = Append(p, n)
    BY SequenceEmptyOrAppend DEF Paths
<1>2. Front(s) = p /\ Last(s) = n
    BY <1>1, FrontOfAppend
<1>3. Len(s) = Len(p) + 1
    BY <1>1, AppendProperties DEF Paths
<1> QED BY <1>1, <1>2, <1>3

LEMMA WithinIs ==
    ASSUME NEW l \in Paths, NEW root \in Paths
    PROVE  Within(l, root) <=> Len(root) <= Len(l) /\ \A i \in 1..Len(root) : l[i] = root[i]
<1>1. Len(root) \in Nat /\ Len(l) \in Nat
    BY LenProperties DEF Paths
<1> SUFFICES ASSUME Len(root) <= Len(l)
             PROVE  SubSeq(root, 1, Len(root)) = SubSeq(l, 1, Len(root))
                        <=> \A i \in 1..Len(root) : l[i] = root[i]
    BY DEF Within, IsPrefix
<1>2. SubSeq(root, 1, Len(root)) = root
    BY SubSeqFull DEF Paths
<1> DEFINE k == Len(root)
           sub == SubSeq(l, 1, k)
<1>3. sub \in Paths /\ Len(sub) = k /\ \A i \in 1..k : sub[i] = l[i]
    <2>1. \A i \in 1..k : l[i] \in Names
        BY <1>1, ElementOfSeq DEF Paths
    <2>2. k \in Nat
        BY <1>1
    <2> HIDE DEF k
    <2>3. /\ SubSeq(l, 1, k) \in Seq(Names)
          /\ Len(SubSeq(l, 1, k)) = IF 1 <= k THEN k - 1 + 1 ELSE 0
          /\ \A i \in 1..(k - 1 + 1) : SubSeq(l, 1, k)[i] = l[1 + i - 1]
        BY <2>1, <2>2, SubSeqProperties
    <2>4. \A i \in 1..k : SubSeq(l, 1, k)[i] = l[i]
        BY <2>2, <2>3
    <2>5. Len(SubSeq(l, 1, k)) = k
        BY <2>2, <2>3
    <2> QED BY <2>3, <2>4, <2>5 DEF Paths
<1>4. ASSUME \A i \in 1..k : l[i] = root[i]
      PROVE  sub = root
    BY <1>3, <1>4, SeqEqual DEF Paths
<1>5. ASSUME sub = root
      PROVE  \A i \in 1..k : l[i] = root[i]
    BY <1>3, <1>5
<1> QED BY <1>2, <1>4, <1>5

LEMMA WithinItself ==
    ASSUME NEW l \in Paths
    PROVE  Within(l, l)
BY WithinIs, LenProperties DEF Paths

LEMMA WithinTransitive ==
    ASSUME NEW l \in Paths, NEW k \in Paths, NEW r \in Paths, Within(l, k), Within(k, r)
    PROVE  Within(l, r)
<1>1. Len(l) \in Nat /\ Len(k) \in Nat /\ Len(r) \in Nat
    BY LenProperties DEF Paths
<1> QED BY <1>1, WithinIs

LEMMA WithinSameLength ==
    ASSUME NEW l \in Paths, NEW r \in Paths, Within(l, r), Len(l) <= Len(r)
    PROVE  l = r
<1>1. Len(l) \in Nat /\ Len(r) \in Nat
    BY LenProperties DEF Paths
<1>2. Len(l) = Len(r) /\ \A i \in 1..Len(r) : l[i] = r[i]
    BY <1>1, WithinIs
<1> QED BY <1>2, SeqEqual DEF Paths

\* What a path is within, its last name is within or it is that path.
LEMMA WithinAppend ==
    ASSUME NEW s \in Paths, NEW n \in Names, NEW r \in Paths
    PROVE  /\ Append(s, n) \in Paths
           /\ Within(Append(s, n), r) <=> Within(s, r) \/ r = Append(s, n)
<1> DEFINE a == Append(s, n)
<1>1. a \in Paths /\ Len(a) = Len(s) + 1 /\ \A i \in 1..Len(s) : a[i] = s[i]
    BY AppendProperties DEF Paths
<1>2. Len(s) \in Nat /\ Len(r) \in Nat
    BY LenProperties DEF Paths
<1> HIDE DEF a
<1>3. ASSUME Within(s, r)
      PROVE  Within(a, r)
    <2>1. Len(r) <= Len(s) /\ \A i \in 1..Len(r) : s[i] = r[i]
        BY <1>3, WithinIs
    <2>2. Len(r) <= Len(a) /\ \A i \in 1..Len(r) : a[i] = r[i]
        BY <1>1, <1>2, <2>1
    <2> QED BY <1>1, <2>2, WithinIs
<1>4. ASSUME Within(a, r), r # a
      PROVE  Within(s, r)
    <2>1. Len(r) <= Len(s) + 1 /\ \A i \in 1..Len(r) : a[i] = r[i]
        BY <1>1, <1>4, WithinIs
    <2>2. Len(r) # Len(s) + 1
        BY <1>1, <1>4, <1>2, WithinSameLength
    <2>3. Len(r) <= Len(s) /\ \A i \in 1..Len(r) : s[i] = r[i]
        BY <1>1, <1>2, <2>1, <2>2
    <2> QED BY <2>3, WithinIs
<1> QED BY <1>1, <1>3, <1>4, WithinItself DEF a

LEMMA NeverAboveTop ==
    /\ <<>> \in Paths
    /\ \A r \in Paths : Within(<<>>, r) => r = <<>>
    /\ \A l \in Paths : Within(l, <<>>)
<1>1. <<>> \in Paths /\ Len(<<>>) = 0
    BY EmptySeq DEF Paths
<1>2. \A r \in Paths : Len(r) \in Nat /\ (r # <<>> => Len(r) > 0)
    BY EmptySeq, LenProperties DEF Paths
<1>3. ASSUME NEW r \in Paths, Within(<<>>, r)
      PROVE  r = <<>>
    BY <1>1, <1>2, <1>3, WithinIs
<1>4. ASSUME NEW l \in Paths
      PROVE  Within(l, <<>>)
    BY <1>1, <1>2, WithinIs
<1> QED BY <1>1, <1>3, <1>4
LEMMA PathInd ==
    ASSUME NEW S, <<>> \in S,
           \A p \in Paths, n \in Names : p \in S => Append(p, n) \in S
    PROVE  Paths \subseteq S
<1> DEFINE I == {n \in Nat : \A p \in Paths : Len(p) = n => p \in S}
<1>1. 0 \in I
    BY EmptySeq DEF Paths
<1>2. ASSUME NEW n \in Nat, n \in I
      PROVE  n + 1 \in I
    <2> SUFFICES ASSUME NEW p \in Paths, Len(p) = n + 1
                 PROVE  p \in S
        BY <1>2
    <2>1. p # <<>>
        BY EmptySeq
    <2>2. /\ Front(p) \in Paths /\ Last(p) \in Names
          /\ p = Append(Front(p), Last(p))
          /\ Len(p) = Len(Front(p)) + 1
        BY <2>1, FrontAndLast
    <2>3. Len(Front(p)) = n
        BY <2>2, LenProperties DEF Paths
    <2> QED BY <1>2, <2>2, <2>3
<1>3. Nat \subseteq I
    <2> HIDE DEF I
    <2> QED BY <1>1, <1>2, NatInd
<1> QED BY <1>3, LenProperties DEF Paths

-----------------------------------------------------------------------------
(* Following a path: the recursion that Real is defined by, for any tree t *)

StepIn(t, to, name) ==
    LET next == Append(to, name)
    IN  IF next \in Locations /\ t[next] = "link" THEN Target[next] ELSE next

Follows(t, p, to, n) == to = [i \in 0..n |-> IF i = 0 THEN <<>> ELSE StepIn(t, to[i - 1], p[i])]

RealIn(t, path) == (CHOOSE to : Follows(t, path, to, Len(path)))[Len(path)]

LEMMA RealIsRealIn == \A path : Real(path) = RealIn(tree, path)
BY DEF Real, RealIn, Follows, StepIn, Step

LEMMA FollowsExists ==
    ASSUME NEW t, NEW p, NEW n \in Nat
    PROVE  \E to : Follows(t, p, to, n)
<1> DEFINE I == {k \in Nat : \E to : Follows(t, p, to, k)}
<1>1. 0 \in I
    <2> DEFINE f == [i \in 0..0 |-> <<>>]
    <2>1. f = [i \in 0..0 |-> IF i = 0 THEN <<>> ELSE StepIn(t, f[i - 1], p[i])]
        OBVIOUS
    <2>2. Follows(t, p, f, 0)
        BY <2>1 DEF Follows
    <2> QED BY <2>2
<1>2. ASSUME NEW k \in Nat, k \in I
      PROVE  k + 1 \in I
    <2>1. PICK f : Follows(t, p, f, k)
        BY <1>2
    <2> DEFINE g == [i \in 0..(k + 1) |-> IF i = k + 1 THEN StepIn(t, f[k], p[k + 1]) ELSE f[i]]
    <2>2. \A i \in 0..k : g[i] = f[i]
        OBVIOUS
    <2>3. \A i \in 0..k : f[i] = IF i = 0 THEN <<>> ELSE StepIn(t, f[i - 1], p[i])
        <3> DEFINE h == [i \in 0..k |-> IF i = 0 THEN <<>> ELSE StepIn(t, f[i - 1], p[i])]
        <3>1. f = h
            BY <2>1 DEF Follows
        <3>2. \A i \in 0..k : h[i] = IF i = 0 THEN <<>> ELSE StepIn(t, f[i - 1], p[i])
            OBVIOUS
        <3> HIDE DEF h
        <3> QED BY <3>1, <3>2
    <2>4. g = [i \in 0..(k + 1) |-> IF i = 0 THEN <<>> ELSE StepIn(t, g[i - 1], p[i])]
        <3>1. ASSUME NEW i \in 0..(k + 1)
              PROVE  (IF i = k + 1 THEN StepIn(t, f[k], p[k + 1]) ELSE f[i])
                         = IF i = 0 THEN <<>> ELSE StepIn(t, g[i - 1], p[i])
            <4>1. CASE i = k + 1
                <5>1. g[k] = f[k]
                    BY <2>2
                <5> HIDE DEF g
                <5> QED BY <4>1, <5>1
            <4>2. CASE i # k + 1 /\ i # 0
                <5>1. g[i - 1] = f[i - 1] /\ i \in 0..k
                    BY <4>2, <2>2
                <5> HIDE DEF g
                <5> QED BY <4>2, <5>1, <2>3
            <4>3. CASE i = 0
                BY <4>3, <2>3
            <4> QED BY <4>1, <4>2, <4>3
        <3> QED BY <3>1
    <2>5. Follows(t, p, g, k + 1)
        <3> HIDE DEF g
        <3> QED BY <2>4 DEF Follows
    <2> QED BY <2>5
<1>3. Nat \subseteq I
    <2> HIDE DEF I
    <2> QED BY <1>1, <1>2, NatInd
<1> QED BY <1>3

LEMMA FollowsValue ==
    \A t, p, f : \A n \in Nat : Follows(t, p, f, n) =>
        f[0] = <<>> /\ \A i \in 1..n : f[i] = StepIn(t, f[i - 1], p[i])
<1> SUFFICES ASSUME NEW t, NEW p, NEW f, NEW n \in Nat, Follows(t, p, f, n)
             PROVE  f[0] = <<>> /\ \A i \in 1..n : f[i] = StepIn(t, f[i - 1], p[i])
    OBVIOUS
<1> DEFINE h == [i \in 0..n |-> IF i = 0 THEN <<>> ELSE StepIn(t, f[i - 1], p[i])]
<1>1. f = h
    BY DEF Follows
<1>2. h[0] = <<>> /\ \A i \in 1..n : h[i] = StepIn(t, f[i - 1], p[i])
    OBVIOUS
<1> HIDE DEF h
<1> QED BY <1>1, <1>2

LEMMA FollowsAgree ==
    ASSUME NEW t, NEW p, NEW q, NEW n \in Nat, NEW m \in Nat, n <= m,
           \A i \in 1..n : p[i] = q[i],
           NEW f, Follows(t, p, f, n), NEW g, Follows(t, q, g, m)
    PROVE  f[n] = g[n]
<1> DEFINE I == {k \in Nat : k <= n => f[k] = g[k]}
<1>1. /\ f[0] = <<>> /\ \A i \in 1..n : f[i] = StepIn(t, f[i - 1], p[i])
      /\ g[0] = <<>> /\ \A i \in 1..m : g[i] = StepIn(t, g[i - 1], q[i])
    <2>1. f[0] = <<>> /\ g[0] = <<>>
        BY FollowsValue
    <2>2. \A i \in 1..n : f[i] = StepIn(t, f[i - 1], p[i])
        BY FollowsValue
    <2>3. \A i \in 1..m : g[i] = StepIn(t, g[i - 1], q[i])
        BY FollowsValue
    <2> QED BY <2>1, <2>2, <2>3
<1>2. 0 \in I
    BY <1>1
<1>3. ASSUME NEW k \in Nat, k \in I
      PROVE  k + 1 \in I
    <2> SUFFICES ASSUME k + 1 <= n
                 PROVE  f[k + 1] = g[k + 1]
        OBVIOUS
    <2>1. k + 1 \in 1..n /\ k + 1 \in 1..m /\ (k + 1) - 1 = k
        OBVIOUS
    <2>2. f[k + 1] = StepIn(t, f[k], p[k + 1]) /\ g[k + 1] = StepIn(t, g[k], q[k + 1])
        BY <2>1, <1>1
    <2>3. f[k] = g[k] /\ p[k + 1] = q[k + 1]
        BY <1>3, <2>1
    <2> QED BY <2>2, <2>3
<1>4. Nat \subseteq I
    <2> HIDE DEF I
    <2> QED BY <1>2, <1>3, NatInd
<1> QED BY <1>4

LEMMA RealOfTop == \A t : RealIn(t, <<>>) = <<>>
<1> SUFFICES ASSUME NEW t PROVE RealIn(t, <<>>) = <<>>
    OBVIOUS
<1> DEFINE f == CHOOSE to : Follows(t, <<>>, to, 0)
<1>1. Follows(t, <<>>, f, 0)
    BY FollowsExists
<1> HIDE DEF f
<1>2. f[0] = <<>>
    BY <1>1, FollowsValue
<1>3. Len(<<>>) = 0
    BY EmptySeq
<1> QED BY <1>2, <1>3 DEF RealIn, f

\* What a path leads to, its next name leads on from there.
LEMMA RealOfAppend ==
    ASSUME NEW t, NEW p \in Paths, NEW n \in Names
    PROVE  RealIn(t, Append(p, n)) = StepIn(t, RealIn(t, p), n)
<1> DEFINE k == Len(p)
           a == Append(p, n)
           f == CHOOSE to : Follows(t, p, to, k)
           g == CHOOSE to : Follows(t, a, to, k + 1)
<1>1. k \in Nat /\ Len(a) = k + 1 /\ a[k + 1] = n /\ \A i \in 1..k : a[i] = p[i]
    BY AppendProperties, LenProperties DEF Paths
<1>2. Follows(t, p, f, k)
    BY <1>1, FollowsExists
<1>3. Follows(t, a, g, k + 1)
    <2> HIDE DEF a
    <2> QED BY <1>1, FollowsExists
<1>4. RealIn(t, p) = f[k] /\ RealIn(t, a) = g[k + 1]
    BY <1>1 DEF RealIn
<1> HIDE DEF a, f, g, k
<1>5. f[k] = g[k]
    BY <1>1, <1>2, <1>3, FollowsAgree
<1>6. g[k + 1] = StepIn(t, g[k], n)
    <2>1. k + 1 \in 1..(k + 1) /\ (k + 1) - 1 = k /\ k + 1 \in Nat
        BY <1>1
    <2>2. g[k + 1] = StepIn(t, g[(k + 1) - 1], a[k + 1])
        <3> DEFINE m == k + 1
        <3>1. m \in Nat /\ m \in 1..m /\ Follows(t, a, g, m)
            BY <2>1, <1>3
        <3> HIDE DEF m
        <3>2. g[m] = StepIn(t, g[m - 1], a[m])
            BY <3>1, FollowsValue
        <3> QED BY <3>2 DEF m
    <2> QED BY <2>1, <2>2, <1>1
<1> QED BY <1>4, <1>5, <1>6 DEF a

-----------------------------------------------------------------------------
(* Where paths lead *)

LinksMayBe(t) == \A l \in Locations : t[l] = "link" => "link" \in MayBe(l)

\* No link on the way.
Clean(t, path) == \A k \in Locations : Within(path, k) => t[k] # "link"

LEMMA LocationsArePaths == Locations \subseteq Paths /\ <<>> \notin Locations
BY LocationsAssumption DEF Paths

LEMMA StepIsClean ==
    ASSUME NEW t, LinksMayBe(t), NEW p \in Paths, Clean(t, p), NEW n \in Names
    PROVE  StepIn(t, p, n) \in Paths /\ Clean(t, StepIn(t, p, n))
<1> DEFINE next == Append(p, n)
<1>1. next \in Paths /\ \A k \in Locations : Within(next, k) => Within(p, k) \/ k = next
    BY WithinAppend, LocationsArePaths
<1> HIDE DEF next
<1>2. CASE next \in Locations /\ t[next] = "link"
    <2>1. Target[next] \in Locations
        BY <1>2, TargetsAssumption
    <2>2. ASSUME NEW k \in Locations, Within(Target[next], k), t[k] = "link"
          PROVE  FALSE
        <3>1. "link" \in MayBe(next) /\ "link" \in MayBe(k)
            BY <1>2, <2>2 DEF LinksMayBe
        <3>2. Within(next, k) /\ k # next
            BY <1>2, <2>2, <3>1, TargetsAssumption
        <3> QED BY <1>1, <2>2, <3>2 DEF Clean
    <2>3. StepIn(t, p, n) = Target[next]
        BY <1>2 DEF StepIn, next
    <2> QED BY <2>1, <2>2, <2>3, LocationsArePaths DEF Clean
<1>3. CASE ~(next \in Locations /\ t[next] = "link")
    <2>1. StepIn(t, p, n) = next
        BY <1>3 DEF StepIn, next
    <2> QED BY <1>1, <1>3, <2>1 DEF Clean
<1> QED BY <1>2, <1>3

\* A path that has been followed is one without links.
LEMMA RealIsClean ==
    ASSUME NEW t, LinksMayBe(t), NEW path \in Paths
    PROVE  RealIn(t, path) \in Paths /\ Clean(t, RealIn(t, path))
<1> DEFINE S == {p \in Paths : RealIn(t, p) \in Paths /\ Clean(t, RealIn(t, p))}
<1>1. <<>> \in S
    <2>1. <<>> \in Paths /\ \A k \in Locations : ~Within(<<>>, k)
        BY NeverAboveTop, LocationsArePaths
    <2> QED BY <2>1, RealOfTop DEF Clean
<1>2. ASSUME NEW p \in Paths, NEW n \in Names, p \in S
      PROVE  Append(p, n) \in S
    <2>1. RealIn(t, Append(p, n)) = StepIn(t, RealIn(t, p), n)
        BY RealOfAppend
    <2>2. StepIn(t, RealIn(t, p), n) \in Paths /\ Clean(t, StepIn(t, RealIn(t, p), n))
        BY <1>2, StepIsClean
    <2>3. Append(p, n) \in Paths
        BY AppendProperties DEF Paths
    <2> QED BY <2>1, <2>2, <2>3
<1>3. Paths \subseteq S
    <2> HIDE DEF S
    <2> QED BY <1>1, <1>2, PathInd
<1> QED BY <1>3

\* Such a path leads to itself.
LEMMA CleanIsReal ==
    ASSUME NEW t, NEW path \in Paths, Clean(t, path)
    PROVE  RealIn(t, path) = path
<1> DEFINE S == {p \in Paths : Clean(t, p) => RealIn(t, p) = p}
<1>1. <<>> \in S
    BY RealOfTop, NeverAboveTop
<1>2. ASSUME NEW p \in Paths, NEW n \in Names, p \in S
      PROVE  Append(p, n) \in S
    <2> DEFINE next == Append(p, n)
    <2>1. next \in Paths /\ \A k \in Locations : Within(p, k) \/ k = next => Within(next, k)
        BY WithinAppend, LocationsArePaths
    <2>2. RealIn(t, next) = StepIn(t, RealIn(t, p), n)
        BY RealOfAppend
    <2> SUFFICES ASSUME Clean(t, next)
                 PROVE  RealIn(t, next) = next
        BY <2>1
    <2>3. RealIn(t, p) = p
        BY <1>2, <2>1 DEF Clean
    <2>4. next \in Locations => t[next] # "link"
        BY <2>1 DEF Clean
    <2> QED BY <2>2, <2>3, <2>4 DEF StepIn
<1>3. Paths \subseteq S
    <2> HIDE DEF S
    <2> QED BY <1>1, <1>2, PathInd
<1> QED BY <1>3

LEMMA RealTwice ==
    ASSUME NEW t, LinksMayBe(t), NEW path \in Paths
    PROVE  RealIn(t, RealIn(t, path)) = RealIn(t, path)
BY RealIsClean, CleanIsReal

\* Only the links of a tree matter.
LEMMA SameLinksSameReal ==
    ASSUME NEW t, NEW u, \A l \in Locations : t[l] = "link" <=> u[l] = "link", NEW path \in Paths
    PROVE  RealIn(t, path) = RealIn(u, path)
<1> DEFINE S == {p \in Paths : RealIn(t, p) = RealIn(u, p)}
<1>1. <<>> \in S
    BY RealOfTop, NeverAboveTop
<1>2. ASSUME NEW p \in Paths, NEW n \in Names, p \in S
      PROVE  Append(p, n) \in S
    <2>1. /\ RealIn(t, Append(p, n)) = StepIn(t, RealIn(t, p), n)
          /\ RealIn(u, Append(p, n)) = StepIn(u, RealIn(u, p), n)
        BY RealOfAppend
    <2>2. StepIn(t, RealIn(t, p), n) = StepIn(u, RealIn(t, p), n)
        BY DEF StepIn
    <2>3. Append(p, n) \in Paths
        BY AppendProperties DEF Paths
    <2> QED BY <1>2, <2>1, <2>2, <2>3
<1>3. Paths \subseteq S
    <2> HIDE DEF S
    <2> QED BY <1>1, <1>2, PathInd
<1> QED BY <1>3

-----------------------------------------------------------------------------
(* The tree as it is now, and the roots *)

TreeOK == tree \in [Locations -> Kinds] /\ WellFormed(tree) /\ LinksMayBe(tree)

RootsOK == roots \in Seq(Paths) /\ roots # <<>> /\ \A i \in DOMAIN roots : roots[i] # <<>>

LEMMA RealHere ==
    ASSUME TreeOK, NEW path \in Paths
    PROVE  /\ Real(path) \in Paths
           /\ Clean(tree, Real(path))
           /\ Clean(tree, path) => Real(path) = path
           /\ Real(Real(path)) = Real(path)
BY RealIsClean, CleanIsReal, RealTwice, RealIsRealIn DEF TreeOK

LEMMA KindHere ==
    ASSUME TreeOK, NEW path \in Paths
    PROVE  /\ KindAt(path) \in Kinds
           /\ KindAt(path) # "absent" /\ Real(path) # <<>>
                => Real(path) \in Locations /\ KindAt(path) = tree[Real(path)]
           /\ IsFile(path) => Real(path) # <<>>
           /\ KindAt(Real(path)) = KindAt(path)
BY RealHere DEF KindAt, IsFile, TreeOK, Kinds

LEMMA InitialTree == SandboxInit => TreeOK
<1> SUFFICES ASSUME tree \in Trees
             PROVE  TreeOK
    BY DEF SandboxInit
<1>1. tree \in [Locations -> Kinds] /\ WellFormed(tree)
    BY TreesAssumption
<1>2. LinksMayBe(tree)
    BY DEF LinksMayBe, MayBe
<1> QED BY <1>1, <1>2 DEF TreeOK

LEMMA SeqFromFunction ==
    ASSUME NEW S, NEW n \in Nat, NEW f \in [1..n -> S]
    PROVE  f \in Seq(S) /\ Len(f) = n
<1>1. f \in Seq(S)
    BY SeqDef
<1>2. Len(f) \in Nat /\ DOMAIN f = 1..Len(f) /\ DOMAIN f = 1..n
    BY <1>1, LenProperties
<1>3. Len(f) = n
    <2>1. CASE Len(f) < n
        <3>1. n \in 1..n /\ n \notin 1..Len(f)
            BY <1>2, <2>1
        <3> QED BY <3>1, <1>2
    <2>2. CASE Len(f) > n
        <3>1. Len(f) \in 1..Len(f) /\ Len(f) \notin 1..n
            BY <1>2, <2>2
        <3> QED BY <3>1, <1>2
    <2> QED BY <1>2, <2>1, <2>2
<1> QED BY <1>1, <1>3

LEMMA InitialRoots == SandboxInit => RootsOK
<1> SUFFICES ASSUME TreeOK, Start
             PROVE  RootsOK
    BY InitialTree DEF SandboxInit
<1>1. PICK env \in Environments : roots = FromEnvironment(env) /\ roots # <<>>
    BY DEF Start
<1>2. env \in Seq(Paths) /\ roots = LoadRoots(env)
    BY <1>1, EnvironmentsAssumption DEF FromEnvironment, Paths
<1> DEFINE paths == [i \in DOMAIN env |-> Real(env[i])]
<1>3. roots = paths /\ \A i \in DOMAIN paths : ~IsUnsafeRoot(paths[i])
    BY <1>1, <1>2 DEF LoadRoots
<1>4. \A i \in DOMAIN roots : roots[i] # <<>>
    BY <1>3 DEF IsUnsafeRoot
<1>5. roots \in Seq(Paths)
    <2>1. Len(env) \in Nat /\ DOMAIN env = 1..Len(env) /\ \A i \in 1..Len(env) : env[i] \in Paths
        BY <1>2, LenProperties, ElementOfSeq
    <2>2. paths \in [1..Len(env) -> Paths]
        BY <2>1, RealHere
    <2> HIDE DEF paths
    <2> QED BY <1>3, <2>1, <2>2, SeqFromFunction
<1> QED BY <1>1, <1>4, <1>5 DEF RootsOK

LEMMA RootsAre ==
    ASSUME RootsOK
    PROVE  /\ Len(roots) \in Nat \ {0} /\ DOMAIN roots = 1..Len(roots)
           /\ \A i \in DOMAIN roots : roots[i] \in Paths /\ roots[i] # <<>>
BY EmptySeq, LenProperties, ElementOfSeq DEF RootsOK

-----------------------------------------------------------------------------
(* resolve *)

\* The root that an absolute path is judged by is the first that holds it, if one does.
LEMMA RootOfIs ==
    ASSUME RootsOK, NEW path
    PROVE  \E i \in DOMAIN roots :
               /\ RootOf(path) = roots[i]
               /\ (\E k \in DOMAIN roots : Within(Real(path), roots[k]))
                      => Within(Real(path), roots[i])
<1> DEFINE I == {i \in 1..Len(roots) : Within(Real(path), roots[i])}
           first == IF I # {} THEN Min(I) ELSE 0
<1>1. RootOf(path) = roots[IF first = 0 THEN 1 ELSE first]
    BY DEF RootOf, SelectInSeq
<1>2. I \in SUBSET Nat /\ 0 \notin I
    BY RootsAre
<1>3. CASE I = {}
    BY <1>1, <1>3, RootsAre
<1>4. CASE I # {}
    <2>1. Min(I) \in I
        <3> HIDE DEF I
        <3> QED BY <1>2, <1>4, MinIsLeast
    <2>2. first \in I /\ first # 0
        BY <1>2, <1>4, <2>1
    <2> QED BY <1>1, <2>2, RootsAre
<1> QED BY <1>3, <1>4

LEMMA PlainPath ==
    ASSUME NEW path \in Seq(STRING), ".." \notin ToSet(path)
    PROVE  path \in Paths
<1>1. Len(path) \in Nat /\ DOMAIN path = 1..Len(path) /\ path \in [1..Len(path) -> STRING]
    BY LenProperties
<1>2. \A i \in 1..Len(path) : path[i] \in Names
    BY <1>1 DEF ToSet, Names
<1>3. path \in [1..Len(path) -> Names]
    BY <1>1, <1>2
<1> QED BY <1>1, <1>3, SeqFromFunction DEF Paths

LEMMA CandidatesAre ==
    ASSUME RootsOK, NEW query, query.path \in Paths
    PROVE  LET cs == Candidates(query)
           IN  /\ Len(cs) \in Nat
               /\ query.absolute => Len(cs) = 1 /\ cs[1] = [path |-> query.path, root |-> RootOf(query.path)]
               /\ \A i \in 1..Len(cs) : /\ cs[i].path \in Paths
                                        /\ \E k \in DOMAIN roots : cs[i].root = roots[k]
<1>1. CASE query.absolute
    <2>1. Candidates(query) = <<[path |-> query.path, root |-> RootOf(query.path)]>>
        BY <1>1 DEF Candidates
    <2>2. \E k \in DOMAIN roots : RootOf(query.path) = roots[k]
        BY RootOfIs
    <2> QED BY <2>1, <2>2
<1>2. CASE ~query.absolute
    <2> DEFINE cs == [i \in DOMAIN roots |-> [path |-> roots[i] \o query.path, root |-> roots[i]]]
               C == [path : Paths, root : Paths]
    <2>1. Candidates(query) = cs
        BY <1>2 DEF Candidates
    <2>2. \A i \in DOMAIN roots : roots[i] \o query.path \in Paths /\ roots[i] \in Paths
        BY RootsAre, ConcatProperties DEF Paths
    <2>3. cs \in [1..Len(roots) -> C]
        BY <2>2, RootsAre
    <2>4. \A i \in DOMAIN roots : cs[i].path \in Paths /\ cs[i].root = roots[i]
        BY <2>2
    <2>5. Len(cs) = Len(roots)
        <3> HIDE DEF cs, C
        <3> QED BY <2>3, RootsAre, SeqFromFunction
    <2> HIDE DEF cs
    <2> QED BY <1>2, <2>1, <2>4, <2>5, RootsAre
<1> QED BY <1>1, <1>2

Queried == [absolute : BOOLEAN, path : Seq(STRING)]

\* What resolve returns is the path of something that is there, follows no more links,
\* and is allowed.
LEMMA ResolveIsAllowed ==
    ASSUME TreeOK, RootsOK, NEW query \in Queried, Resolve(query).code = "ok"
    PROVE  LET path == Resolve(query).path
           IN  path \in Locations /\ Clean(tree, path) /\ Allowed(path) /\ tree[path] # "absent"
<1> DEFINE cs == Candidates(query)
           I == {i \in 1..Len(cs) : Within(Real(cs[i].path), cs[i].root)}
           first == IF I # {} THEN Min(I) ELSE 0
           c == cs[first]
<1>1. /\ ".." \notin ToSet(query.path)
      /\ first # 0
      /\ Resolve(query) = Judge(c.path, c.root)
    BY DEF Resolve, SelectInSeq, Refusal
<1>2. query.path \in Paths
    BY <1>1, PlainPath DEF Queried
<1>3. first \in I
    <2>1. I \in SUBSET Nat
        BY <1>2, CandidatesAre
    <2>2. I # {}
        BY <1>1
    <2>3. Min(I) \in I
        <3> HIDE DEF I
        <3> QED BY <2>1, <2>2, MinIsLeast
    <2> QED BY <2>2, <2>3
<1>4. PICK k \in DOMAIN roots : c.path \in Paths /\ c.root = roots[k] /\ Within(Real(c.path), roots[k])
    <2>1. c.path \in Paths /\ \E k \in DOMAIN roots : c.root = roots[k]
        BY <1>2, <1>3, CandidatesAre
    <2> QED BY <1>3, <2>1
<1> HIDE DEF c
<1> DEFINE path == Real(c.path)
<1>5. Exists(path) /\ ~Blocked(Relative(path, c.root)) /\ Resolve(query).path = path
    BY <1>1 DEF Judge, Refusal
<1>6. path \in Paths /\ Clean(tree, path) /\ Real(path) = path
    BY <1>4, RealHere
<1>7. path # <<>>
    BY <1>4, RootsAre, NeverAboveTop
<1>8. path \in Locations /\ tree[path] # "absent"
    BY <1>5, <1>6, <1>7, KindHere DEF Exists
<1>9. Allowed(path)
    BY <1>4, <1>5 DEF Allowed
<1> QED BY <1>5, <1>6, <1>8, <1>9

-----------------------------------------------------------------------------
(* The tree stays a tree *)

LEMMA ParentIs ==
    ASSUME NEW l \in Locations
    PROVE  /\ l \in Paths /\ l # <<>>
           /\ Parent(l) \in Paths /\ Last(l) \in Names /\ l = Append(Parent(l), Last(l))
           /\ Within(l, Parent(l)) /\ ~Within(Parent(l), l)
           /\ Parent(l) # <<>> => Parent(l) \in Locations
<1>1. l \in Paths /\ l # <<>>
    BY LocationsArePaths
<1>2. /\ Parent(l) \in Paths /\ Last(l) \in Names /\ l = Append(Parent(l), Last(l))
      /\ Len(l) = Len(Parent(l)) + 1
    BY <1>1, FrontAndLast DEF Parent
<1>3. Within(l, Parent(l))
    BY <1>2, WithinAppend, WithinItself
<1>4. ~Within(Parent(l), l)
    BY <1>1, <1>2, WithinIs, LenProperties DEF Paths
<1>5. Parent(l) # <<>> => Parent(l) \in Locations
    BY LocationsAssumption
<1> QED BY <1>1, <1>2, <1>3, <1>4, <1>5

\* Below a directory, and not the directory itself.
LEMMA BelowAppend ==
    ASSUME NEW dir \in Paths, NEW n \in Names, NEW l \in Paths, Within(l, Append(dir, n))
    PROVE  Within(l, dir) /\ l # dir
<1> DEFINE a == Append(dir, n)
<1>1. a \in Paths /\ Within(a, dir)
    BY WithinAppend, WithinItself
<1>2. Len(a) = Len(dir) + 1 /\ Len(dir) \in Nat
    BY AppendProperties, LenProperties DEF Paths
<1> HIDE DEF a
<1>3. ~Within(dir, a)
    BY <1>1, <1>2, WithinIs
<1>4. Within(l, a)
    BY DEF a
<1> QED BY <1>1, <1>3, <1>4, WithinTransitive

LEMMA ItselfIs ==
    ASSUME TreeOK, NEW path \in Paths, path # <<>>
    PROVE  /\ Itself(path) \in Paths
           /\ Parent(path) \in Paths /\ Last(path) \in Names
           /\ ~IsLink(path) => Real(path) = Itself(path)
           /\ IsLink(path) => Itself(path) \in Locations /\ Real(path) = Target[Itself(path)]
<1>1. /\ Parent(path) \in Paths /\ Last(path) \in Names /\ path = Append(Parent(path), Last(path))
    BY FrontAndLast DEF Parent
<1>2. Real(path) = StepIn(tree, Real(Parent(path)), Last(path))
    BY <1>1, RealOfAppend, RealIsRealIn
<1>3. Real(Parent(path)) \in Paths
    BY <1>1, RealHere
<1>4. Itself(path) \in Paths
    BY <1>1, <1>3, WithinAppend DEF Itself
<1> QED BY <1>1, <1>2, <1>4 DEF Itself, IsLink, StepIn

LEMMA DoomedIs ==
    ASSUME TreeOK, NEW c \in Paths, c # <<>>
    PROVE  /\ \A l \in Doomed(c) : l \in Locations /\ Within(l, Itself(c))
           /\ \A l \in Locations : Parent(l) \in Doomed(c) /\ tree[l] # "absent" => l \in Doomed(c)
<1> DEFINE x == Itself(c)
<1>1. x \in Paths /\ Within(x, x)
    BY ItselfIs, WithinItself
<1>2. CASE x \notin Locations
    BY <1>2 DEF Doomed
<1>3. CASE x \in Locations /\ tree[x] \in {"link", "file", "large"}
    <2>1. Doomed(c) = {x}
        BY <1>3 DEF Doomed
    <2>2. \A l \in Locations : Parent(l) = x => tree[l] = "absent"
        BY <1>3, LocationsArePaths DEF TreeOK, WellFormed
    <2> QED BY <1>1, <1>3, <2>1, <2>2
<1>4. CASE x \in Locations /\ tree[x] = "dir"
    <2>1. Doomed(c) = {x} \cup Contents(x)
        BY <1>4 DEF Doomed
    <2>2. ASSUME NEW l \in Locations, Parent(l) \in Doomed(c), tree[l] # "absent"
          PROVE  l \in Doomed(c)
        <3>1. Within(Parent(l), x) /\ Parent(l) \in Locations
            BY <1>1, <1>4, <2>1, <2>2 DEF Contents, Below
        <3>2. Within(l, x) /\ l # x
            BY <1>1, <3>1, ParentIs, WithinTransitive
        <3> QED BY <2>1, <2>2, <3>2 DEF Contents, Below
    <2> QED BY <1>1, <1>4, <2>1, <2>2 DEF Contents, Below
<1>5. CASE x \in Locations /\ tree[x] \notin {"link", "file", "large", "dir"}
    <2>1. Doomed(c) = {}
        BY <1>5 DEF Doomed
    <2> QED BY <2>1
<1> QED BY <1>2, <1>3, <1>4, <1>5

LEMMA TakeAwayTree ==
    ASSUME TreeOK, NEW gone, TakeAway(gone),
           \A l \in Locations : Parent(l) \in gone /\ tree[l] # "absent" => l \in gone
    PROVE  TreeOK' /\ \A l \in Locations : tree'[l] \in {tree[l], "absent"}
<1>1. /\ tree' = [l \in Locations |-> IF l \in gone THEN "absent" ELSE tree[l]]
      /\ \A l \in Locations : tree'[l] = IF l \in gone THEN "absent" ELSE tree[l]
    BY DEF TakeAway
<1>2. tree' \in [Locations -> Kinds]
    BY <1>1 DEF TreeOK, Kinds
<1>3. WellFormed(tree')
    <2> SUFFICES ASSUME NEW l \in Locations, tree'[l] # "absent", Parent(l) # <<>>
                 PROVE  tree'[Parent(l)] = "dir"
        BY DEF WellFormed
    <2>1. l \notin gone /\ tree[l] # "absent" /\ Parent(l) \in Locations
        BY <1>1, ParentIs
    <2>2. tree[Parent(l)] = "dir"
        BY <2>1 DEF TreeOK, WellFormed
    <2> QED BY <1>1, <2>1, <2>2
<1>4. LinksMayBe(tree')
    BY <1>1 DEF TreeOK, LinksMayBe
<1> QED BY <1>1, <1>2, <1>3, <1>4 DEF TreeOK

LEMMA DeleteTree ==
    ASSUME TreeOK, DeleteChild, child \in Paths, child # <<>>
    PROVE  /\ TreeOK'
           /\ \A l \in Locations : tree'[l] \in {tree[l], "absent"}
           /\ \E gone \in SUBSET Doomed(child) : removed' = removed \cup gone
<1>1. CASE TakeAway(Doomed(child))
    <2>1. TreeOK' /\ \A l \in Locations : tree'[l] \in {tree[l], "absent"}
        BY <1>1, DoomedIs, TakeAwayTree
    <2> QED BY <1>1, <2>1 DEF TakeAway
<1>2. CASE \E gone \in SUBSET (Doomed(child) \ {Itself(child)}) :
              (\A l \in gone : Contents(l) \subseteq gone) /\ TakeAway(gone)
    <2>1. PICK gone \in SUBSET (Doomed(child) \ {Itself(child)}) :
              (\A l \in gone : Contents(l) \subseteq gone) /\ TakeAway(gone)
        BY <1>2
    <2>2. ASSUME NEW l \in Locations, Parent(l) \in gone, tree[l] # "absent"
          PROVE  l \in gone
        <3>1. l \in Contents(Parent(l))
            BY <2>2, ParentIs DEF Contents, Below
        <3> QED BY <2>1, <2>2, <3>1
    <2>3. TreeOK' /\ \A l \in Locations : tree'[l] \in {tree[l], "absent"}
        BY <2>1, <2>2, TakeAwayTree
    <2> QED BY <2>1, <2>3 DEF TakeAway
<1> QED BY <1>1, <1>2 DEF DeleteChild

LEMMA EndResetTree ==
    ASSUME TreeOK, EndReset
    PROVE  TreeOK' /\ \A l \in Locations : tree'[l] = tree[l] \/ (tree[l] = "absent" /\ l \in Route)
<1>1. CASE UNCHANGED tree
    BY <1>1 DEF TreeOK
<1>2. CASE /\ \A path \in Above : KindAt(path) = "dir" \/ ~(Exists(path) \/ IsLink(path))
           /\ tree' = [l \in Locations |-> IF l \in Route THEN "dir" ELSE tree[l]]
    <2>1. \A l \in Locations : tree'[l] = IF l \in Route THEN "dir" ELSE tree[l]
        BY <1>2
    <2>2. ASSUME NEW l \in Locations, l \in Route, tree[l] # "dir"
          PROVE  tree[l] = "absent" /\ (Parent(l) # <<>> => Parent(l) \in Route)
        <3>1. PICK a \in Above : l = Real(a)
            BY <2>2 DEF Route
        <3>2. a \in Locations /\ a \in Paths /\ a # <<>> /\ Within(Box, a) /\ Box \in Paths
            BY LocationsArePaths, BoxAssumption DEF Above
        <3>3. KindAt(a) = tree[l]
            BY <3>1, <3>2, LocationsArePaths DEF KindAt
        <3>4. tree[l] = "absent" /\ ~IsLink(a)
            BY <1>2, <2>2, <3>1, <3>3 DEF Exists
        <3>5. l = Append(Real(Parent(a)), Last(a)) /\ Real(Parent(a)) \in Paths
            BY <3>1, <3>2, <3>4, ItselfIs, RealHere DEF Itself
        <3>6. Parent(l) = Real(Parent(a))
            BY <3>2, <3>5, ItselfIs, FrontOfAppend DEF Parent
        <3>7. ASSUME Parent(a) # <<>>
              PROVE  Parent(a) \in Above
            BY <3>2, <3>7, ParentIs, WithinTransitive DEF Above
        <3>8. Parent(a) = <<>> => Parent(l) = <<>>
            BY <3>6, RealOfTop, RealIsRealIn
        <3> QED BY <3>4, <3>6, <3>7, <3>8 DEF Route
    <2>3. tree' \in [Locations -> Kinds]
        BY <1>2 DEF TreeOK, Kinds
    <2>4. WellFormed(tree')
        <3> SUFFICES ASSUME NEW l \in Locations, tree'[l] # "absent", Parent(l) # <<>>
                     PROVE  tree'[Parent(l)] = "dir"
            BY DEF WellFormed
        <3>1. Parent(l) \in Locations
            BY ParentIs
        <3>2. CASE tree[l] # "absent"
            BY <2>1, <3>1, <3>2 DEF TreeOK, WellFormed
        <3>3. CASE tree[l] = "absent"
            BY <2>1, <2>2, <3>1, <3>3
        <3> QED BY <3>2, <3>3
    <2>5. LinksMayBe(tree')
        BY <2>1 DEF TreeOK, LinksMayBe
    <2> QED BY <2>1, <2>2, <2>3, <2>4, <2>5 DEF TreeOK
<1> QED BY <1>1, <1>2 DEF EndReset

LEMMA ChangeTree ==
    ASSUME TreeOK, NEW l \in Locations, NEW kind \in MayBe(l), Change(l, kind)
    PROVE  TreeOK'
<1>1. /\ WellFormed(tree')
      /\ tree' = [k \in Locations |-> IF k = l THEN kind ELSE IF k \in Below(l) THEN "absent" ELSE tree[k]]
      /\ \A k \in Locations : tree'[k] = IF k = l THEN kind ELSE IF k \in Below(l) THEN "absent" ELSE tree[k]
    <2>1. /\ WellFormed(tree')
          /\ tree' = [k \in Locations |-> IF k = l THEN kind ELSE IF k \in Below(l) THEN "absent" ELSE tree[k]]
        BY DEF Change
    <2> QED BY <2>1
<1>2. kind \in Kinds
    BY TreesAssumption DEF MayBe
<1>3. tree' \in [Locations -> Kinds]
    BY <1>1, <1>2 DEF TreeOK, Kinds
<1>4. LinksMayBe(tree')
    BY <1>1 DEF TreeOK, LinksMayBe
<1> QED BY <1>1, <1>3, <1>4 DEF TreeOK

\* An entry of a directory is named by the path of the directory, whatever links that has.
LEMMA EntryIs ==
    ASSUME TreeOK, NEW dir \in Paths, NEW e \in Entries(dir)
    PROVE  /\ e \in Paths /\ e # <<>> /\ Parent(e) = dir /\ Last(e) \in Names
           /\ Within(e, dir) /\ e # dir
           /\ Itself(e) \in Locations /\ tree[Itself(e)] # "absent" /\ Parent(Itself(e)) = Real(dir)
<1>1. PICK l \in Children(Real(dir)) : tree[l] # "absent" /\ e = Append(dir, Last(l))
    BY DEF Entries
<1>2. l \in Locations /\ Parent(l) = Real(dir)
    BY DEF Children, Below
<1>3. Last(l) \in Names /\ l = Append(Real(dir), Last(l))
    BY <1>2, ParentIs
<1>4. e \in Paths /\ e # <<>>
    BY <1>1, <1>3, AppendProperties DEF Paths
<1>5. Parent(e) = dir /\ Last(e) = Last(l)
    BY <1>1, <1>3, FrontOfAppend DEF Parent
<1>6. Within(e, dir) /\ e # dir
    BY <1>1, <1>3, <1>4, BelowAppend, WithinItself
<1>7. Itself(e) = l
    BY <1>3, <1>5 DEF Itself
<1> QED BY <1>1, <1>2, <1>3, <1>4, <1>5, <1>6, <1>7

-----------------------------------------------------------------------------
(* reset *)

Entry(c) == c \in Paths /\ c # <<>> /\ Parent(c) = resetRoot

ResetOK ==
    /\ resetRoot \in Paths
    /\ \A c \in children : Entry(c)
    /\ resetAt = "delete" => Entry(child)
    /\ resetAt # "idle" /\ ~moved => resetRoot = Box /\ Clean(tree, Box)

BaseInv == TreeOK /\ RootsOK /\ ResetOK

LEMMA BoxIs == Box \in Locations /\ Box \in Paths /\ Box # <<>>
BY BoxAssumption, LocationsArePaths

LEMMA RealIsRealInNext == \A path : Real(path)' = RealIn(tree', path)
BY DEF Real, RealIn, Follows, StepIn, Step

\* While the path of the sandbox leads to itself, there is no link on it.
LEMMA SandboxInPlace ==
    ASSUME NEW t, LinksMayBe(t), RealIn(t, Box) = Box
    PROVE  Clean(t, Box)
BY BoxIs, RealIsClean

LEMMA NoNewLinks ==
    ASSUME NEW t, NEW u, NEW path, Clean(t, path),
           \A l \in Locations : u[l] = t[l] \/ u[l] # "link"
    PROVE  Clean(u, path)
BY DEF Clean

LEMMA BaseInit == SandboxInit => BaseInv
<1> SUFFICES ASSUME SandboxInit
             PROVE  ResetOK
    BY InitialTree, InitialRoots DEF BaseInv
<1> QED BY BoxIs DEF SandboxInit, ResetOK

LEMMA BaseReset ==
    ASSUME BaseInv, ResetStep
    PROVE  BaseInv'
<1> USE DEF BaseInv
<1>1. RootsOK'
    BY DEF ResetStep, Reset, ListChildren, CheckChild, DeleteChild, EndReset, RootsOK
<1>2. CASE Reset
    <2>1. TreeOK'
        BY <1>2 DEF Reset, TreeOK
    <2>2. resetRoot' = Real(Box) /\ children' = {} /\ resetAt' = "list" /\ tree' = tree
        BY <1>2 DEF Reset
    <2>3. ~moved' => resetRoot' = Box /\ Clean(tree', Box)
        <3>1. ~moved' => Real(Box) = Box
            BY <1>2 DEF Reset
        <3> QED BY <2>2, <3>1, SandboxInPlace, RealIsRealIn DEF TreeOK
    <2>4. ResetOK'
        BY <2>2, <2>3, BoxIs, RealHere DEF ResetOK
    <2> QED BY <1>1, <2>1, <2>4
<1>3. CASE ListChildren
    <2>1. UNCHANGED <<tree, resetRoot, child, moved>> /\ resetAt = "list" /\ resetAt' # "delete"
        BY <1>3 DEF ListChildren, ResetEnds
    <2>2. children' \subseteq Entries(resetRoot) \cup children
        BY <1>3 DEF ListChildren, ResetEnds
    <2>3. \A c \in children' : Entry(c)
        BY <2>2, EntryIs DEF ResetOK, Entry
    <2>4. TreeOK' /\ ResetOK'
        BY <2>1, <2>3 DEF TreeOK, ResetOK, Entry
    <2> QED BY <1>1, <2>4
<1>4. CASE CheckChild
    <2>1. UNCHANGED <<tree, resetRoot, moved>> /\ resetAt = "check"
        BY <1>4 DEF CheckChild
    <2>2. children' \subseteq children /\ (resetAt' = "delete" => child' \in children)
        BY <1>4 DEF CheckChild, ResetEnds
    <2>3. TreeOK' /\ ResetOK'
        BY <2>1, <2>2 DEF TreeOK, ResetOK, Entry
    <2> QED BY <1>1, <2>3
<1>5. CASE DeleteChild
    <2>1. /\ UNCHANGED <<resetRoot, children, child, moved>> /\ resetAt = "delete"
          /\ resetAt' \in {"check", "idle"}
        BY <1>5 DEF DeleteChild, ResetEnds
    <2>2. TreeOK' /\ \A l \in Locations : tree'[l] \in {tree[l], "absent"}
        BY <1>5, <2>1, DeleteTree DEF ResetOK, Entry
    <2>3. Clean(tree, Box) => Clean(tree', Box)
        BY <2>2, NoNewLinks
    <2>4. ResetOK'
        BY <2>1, <2>3 DEF ResetOK, Entry
    <2> QED BY <1>1, <2>2, <2>4
<1>6. CASE EndReset
    <2>1. UNCHANGED <<resetRoot, children, child, moved>> /\ resetAt' = "idle"
        BY <1>6 DEF EndReset, ResetEnds
    <2>2. TreeOK'
        BY <1>6, EndResetTree
    <2>3. ResetOK'
        BY <2>1 DEF ResetOK, Entry
    <2> QED BY <1>1, <2>2, <2>3
<1> QED BY <1>2, <1>3, <1>4, <1>5, <1>6 DEF ResetStep

LEMMA BaseStep == BaseInv /\ [SandboxNext]_allVars => BaseInv'
<1> SUFFICES ASSUME BaseInv, [SandboxNext]_allVars
             PROVE  BaseInv'
    OBVIOUS
<1>1. ASSUME UNCHANGED <<tree, roots, resetVars>>
      PROVE  BaseInv'
    BY <1>1 DEF BaseInv, TreeOK, RootsOK, ResetOK, Entry, resetVars
<1>2. CASE ResetStep
    BY <1>2, BaseReset
<1>3. ASSUME NEW l \in Locations, NEW kind \in MayBe(l), Change(l, kind)
      PROVE  BaseInv'
    <2>1. TreeOK'
        BY <1>3, ChangeTree DEF BaseInv
    <2>2. UNCHANGED <<roots, resetAt, resetRoot, children, child>>
        BY <1>3 DEF Change
    <2>3. ~moved' => ~moved /\ Clean(tree', Box)
        <3>1. ~moved' => ~moved /\ Real(Box)' = Box
            BY <1>3 DEF Change
        <3> QED BY <2>1, <3>1, RealIsRealInNext, SandboxInPlace DEF TreeOK
    <2> QED BY <2>1, <2>2, <2>3 DEF BaseInv, RootsOK, ResetOK, Entry
<1> QED BY <1>1, <1>2, <1>3 DEF SandboxNext, ToolStep, allVars

\* The tree has the shape of one, the roots are below its top, and what reset still has
\* to delete are entries of the directory that it listed.
THEOREM SandboxIsInOrder == SandboxSpec => []BaseInv
BY BaseInit, BaseStep, PTL DEF SandboxSpec

LEMMA DeletesInside ==
    ASSUME BaseInv, ResetStaysInside, DeleteChild
    PROVE  ResetStaysInside'
<1> SUFFICES ASSUME ~moved
             PROVE  \A l \in removed' : Within(l, Box) /\ l # Box
    BY DEF ResetStaysInside, DeleteChild
<1>1. resetAt = "delete" /\ Entry(child) /\ resetRoot = Box /\ Clean(tree, Box)
    BY DEF DeleteChild, BaseInv, ResetOK
<1>2. Itself(child) = Append(Box, Last(child)) /\ Last(child) \in Names
    BY <1>1, BoxIs, RealHere, ItselfIs DEF Itself, Entry, BaseInv
<1>3. PICK gone \in SUBSET Doomed(child) : removed' = removed \cup gone
    BY <1>1, DeleteTree DEF BaseInv, Entry
<1>4. ASSUME NEW l \in gone
      PROVE  Within(l, Box) /\ l # Box
    <2>1. l \in Paths /\ Within(l, Itself(child))
        BY <1>1, <1>3, DoomedIs, LocationsArePaths DEF BaseInv, Entry
    <2> QED BY <1>2, <2>1, BelowAppend, BoxIs
<1> QED BY <1>3, <1>4 DEF ResetStaysInside

\* Whatever others do to the tree between a check and a deletion, short of putting the
\* sandbox or what is above it elsewhere, reset deletes nothing outside the sandbox.
THEOREM ResetStaysInsideInvariant == SandboxSpec => []ResetStaysInside
<1>1. SandboxInit => ResetStaysInside
    BY DEF SandboxInit, ResetStaysInside
<1>2. BaseInv /\ ResetStaysInside /\ [SandboxNext]_allVars => ResetStaysInside'
    <2> SUFFICES ASSUME BaseInv, ResetStaysInside, [SandboxNext]_allVars
                 PROVE  ResetStaysInside'
        OBVIOUS
    <2>1. CASE UNCHANGED <<removed, moved>>
        BY <2>1 DEF ResetStaysInside
    <2>2. CASE Reset
        BY <2>2 DEF Reset, ResetStaysInside
    <2>3. CASE DeleteChild
        BY <2>3, DeletesInside
    <2>4. ASSUME NEW l \in Locations, NEW kind \in MayBe(l), Change(l, kind)
          PROVE  ResetStaysInside'
        BY <2>4 DEF Change, ResetStaysInside
    <2>5. ListChildren \/ CheckChild \/ EndReset => UNCHANGED <<removed, moved>>
        BY DEF ListChildren, CheckChild, EndReset
    <2> QED BY <2>1, <2>2, <2>3, <2>4, <2>5 DEF SandboxNext, ResetStep, allVars, resetVars
<1> QED BY <1>1, <1>2, SandboxIsInOrder, PTL DEF SandboxSpec

-----------------------------------------------------------------------------
(* What reset leaves *)

\* While no one else changes the tree, what is left to delete is still to be looked at.
LeftOK ==
    ~meddled /\ resetAt # "idle" =>
        /\ Clean(tree, resetRoot)
        /\ resetAt # "list" =>
             \A l \in Children(resetRoot) :
                 \/ tree[l] \in {"absent", "special"} \/ l \in children
                 \/ resetAt = "delete" /\ l = child

LEMMA ChildIs ==
    ASSUME TreeOK, Clean(tree, resetRoot), resetRoot \in Paths, NEW c, Entry(c)
    PROVE  Itself(c) = c /\ c = Append(resetRoot, Last(c)) /\ Last(c) \in Names
<1>1. Last(c) \in Names /\ c = Append(Parent(c), Last(c))
    BY FrontAndLast DEF Entry, Parent
<1> QED BY <1>1, RealHere DEF Itself, Entry

LEMMA LeftByReset ==
    ASSUME BaseInv, LeftOK, ResetStep
    PROVE  LeftOK'
<1> USE DEF BaseInv
<1> SUFFICES ASSUME ~meddled', resetAt' # "idle"
             PROVE  /\ Clean(tree', resetRoot')
                    /\ resetAt' # "list" =>
                         \A l \in Children(resetRoot') :
                             \/ tree'[l] \in {"absent", "special"} \/ l \in children'
                             \/ resetAt' = "delete" /\ l = child'
    BY DEF LeftOK, Children, Below
<1>1. CASE Reset
    <2>1. resetRoot' = Real(Box) /\ tree' = tree /\ resetAt' = "list"
        BY <1>1 DEF Reset
    <2> QED BY <2>1, BoxIs, RealHere
<1>2. CASE ListChildren
    <2>1. /\ UNCHANGED <<tree, resetRoot, meddled>> /\ resetAt = "list"
          /\ children' = Entries(resetRoot)
        BY <1>2 DEF ListChildren, ResetEnds
    <2>2. Clean(tree, resetRoot) /\ Real(resetRoot) = resetRoot
        BY <2>1, RealHere DEF LeftOK, ResetOK
    <2>3. ASSUME NEW l \in Children(resetRoot), tree[l] # "absent"
          PROVE  l \in Entries(resetRoot)
        <3>1. l = Append(resetRoot, Last(l))
            BY ParentIs DEF Children, Below
        <3> QED BY <2>2, <2>3, <3>1 DEF Entries
    <2> QED BY <2>1, <2>2, <2>3
<1>3. CASE CheckChild
    <2>1. UNCHANGED <<tree, resetRoot, meddled>> /\ resetAt = "check"
        BY <1>3 DEF CheckChild
    <2>2. \E c \in children : resetAt' = "delete" /\ child' = c /\ children' = children \ {c}
        BY <1>3 DEF CheckChild, ResetEnds
    <2> QED BY <2>1, <2>2 DEF LeftOK
<1>4. CASE DeleteChild
    <2>1. UNCHANGED <<resetRoot, children, child, meddled>> /\ resetAt = "delete"
        BY <1>4 DEF DeleteChild
    <2>2. Entry(child) /\ resetRoot \in Paths /\ Clean(tree, resetRoot)
        BY <2>1 DEF LeftOK, ResetOK
    <2>3. TakeAway(Doomed(child)) /\ resetAt' = "check"
        BY <1>4 DEF DeleteChild, ResetEnds
    <2>4. \A l \in Locations : tree'[l] \in {tree[l], "absent"}
        BY <1>4, <2>2, DeleteTree DEF Entry
    <2>5. Clean(tree', resetRoot)
        BY <2>2, <2>4, NoNewLinks
    <2>6. ASSUME child \in Locations
          PROVE  tree'[child] \in {"absent", "special"}
        <3>1. Itself(child) = child
            BY <2>2, ChildIs
        <3>2. tree'[child] = IF child \in Doomed(child) THEN "absent" ELSE tree[child]
            BY <2>3, <2>6 DEF TakeAway
        <3>3. tree[child] \in {"link", "file", "large", "dir"} => child \in Doomed(child)
            BY <2>6, <3>1 DEF Doomed
        <3>4. tree[child] \in Kinds
            BY <2>6 DEF TreeOK
        <3> QED BY <3>2, <3>3, <3>4 DEF Kinds
    <2>7. ASSUME NEW l \in Children(resetRoot)
          PROVE  tree'[l] \in {"absent", "special"} \/ l \in children
        <3>1. l \in Locations
            BY DEF Children, Below
        <3>2. tree[l] \in {"absent", "special"} \/ l \in children \/ l = child
            BY <2>1 DEF LeftOK
        <3> QED BY <2>4, <2>6, <3>1, <3>2
    <2> QED BY <2>1, <2>5, <2>7
<1>5. CASE EndReset
    BY <1>5 DEF EndReset, ResetEnds
<1> QED BY <1>1, <1>2, <1>3, <1>4, <1>5 DEF ResetStep

LEMMA LeftStep == BaseInv /\ LeftOK /\ [SandboxNext]_allVars => LeftOK'
<1> SUFFICES ASSUME BaseInv, LeftOK, [SandboxNext]_allVars
             PROVE  LeftOK'
    OBVIOUS
<1>1. ASSUME UNCHANGED <<tree, resetVars, meddled>>
      PROVE  LeftOK'
    BY <1>1 DEF LeftOK, resetVars, Children, Below
<1>2. ASSUME NEW l \in Locations, NEW kind \in MayBe(l), Change(l, kind)
      PROVE  LeftOK'
    BY <1>2 DEF Change, LeftOK
<1> QED BY <1>1, <1>2, LeftByReset DEF SandboxNext, ToolStep, allVars

\* What an escaping child is.
LEMMA EscapeIsLink ==
    ASSUME TreeOK, Clean(tree, resetRoot), resetRoot \in Paths, NEW c, Entry(c), Escapes(c)
    PROVE  c \in Children(resetRoot) /\ tree[c] = "link"
<1>1. Itself(c) = c /\ c = Append(resetRoot, Last(c)) /\ Last(c) \in Names
    BY ChildIs
<1>2. c \in Paths /\ Within(c, resetRoot) /\ c # resetRoot
    BY <1>1, BelowAppend, WithinItself DEF Entry
<1>3. IsLink(c)
    BY <1>1, <1>2, ItselfIs DEF Escapes, Entry
<1> QED BY <1>1, <1>2, <1>3 DEF IsLink, Children, Below, Entry

\* A reset beside which nothing else changes the tree leaves only special files in the
\* directory that it lists, and the link that escapes when it finds one.
THEOREM ResetLeavesNothingHolds == SandboxSpec => ResetLeavesNothing
<1> DEFINE Left ==
        resetAt # "idle" /\ resetAt' = "idle" /\ ~meddled =>
          /\ resetOutcome' = "ok" =>
                \A l \in Children(resetRoot) \ Route : tree'[l] \in {"absent", "special"}
          /\ resetOutcome' = "escapes" =>
                \E l \in Children(resetRoot) : tree'[l] = "link" /\ Escapes(l)
<1>1. SandboxInit => LeftOK
    BY DEF SandboxInit, LeftOK
<1>2. BaseInv /\ LeftOK /\ [SandboxNext]_allVars => [Left]_allVars
    <2> SUFFICES ASSUME BaseInv, LeftOK, SandboxNext,
                        resetAt # "idle", resetAt' = "idle", ~meddled
                 PROVE  /\ resetOutcome' = "ok" =>
                             \A l \in Children(resetRoot) \ Route : tree'[l] \in {"absent", "special"}
                        /\ resetOutcome' = "escapes" =>
                             \E l \in Children(resetRoot) : tree'[l] = "link" /\ Escapes(l)
        OBVIOUS
    <2>1. Clean(tree, resetRoot) /\ resetRoot \in Paths /\ TreeOK
        BY DEF LeftOK, BaseInv, ResetOK
    <2>2. CASE CheckChild
        <3>1. resetOutcome' = "escapes" /\ tree' = tree /\ \E c \in children : Escapes(c)
            BY <2>2 DEF CheckChild, ResetEnds
        <3>2. \A c \in children : Entry(c)
            BY DEF BaseInv, ResetOK
        <3> QED BY <2>1, <3>1, <3>2, EscapeIsLink
    <2>3. CASE EndReset
        <3>1. resetOutcome' \in {"ok", "os_error"} /\ children = {} /\ resetAt = "check"
            BY <2>3 DEF EndReset, ResetEnds
        <3>2. \A l \in Children(resetRoot) : l \in Locations /\ tree[l] \in {"absent", "special"}
            BY <3>1 DEF LeftOK, Children, Below
        <3>3. \A l \in Locations : tree'[l] = tree[l] \/ l \in Route
            BY <2>1, <2>3, EndResetTree
        <3> QED BY <3>1, <3>2, <3>3
    <2>4. CASE ListChildren \/ DeleteChild
        BY <2>4 DEF ListChildren, DeleteChild, ResetEnds
    <2>5. CASE Reset \/ UNCHANGED resetVars \/ \E l \in Locations : \E kind \in MayBe(l) : Change(l, kind)
        BY <2>5 DEF Reset, Change, resetVars
    <2> QED BY <2>2, <2>3, <2>4, <2>5 DEF SandboxNext, ResetStep
<1>3. SandboxSpec => [][Left]_allVars
    BY <1>1, <1>2, LeftStep, SandboxIsInOrder, PTL DEF SandboxSpec
<1> QED BY <1>3 DEF ResetLeavesNothing

-----------------------------------------------------------------------------
(* The filesystem tools *)

Stages == {"idle", "permit", "resolve", "kind", "walk", "entries", "describe", "stat",
           "size", "read", "returned"}

ToolsInv ==
    /\ at \in Stages
    /\ asked \in Calls \cup {None} /\ (at # "idle" => asked \in Calls)
    /\ found \in Paths
    /\ \A path \in pending \cup todo \cup unlisted : path \in Paths /\ Within(path, found)
    /\ at \in {"idle", "permit", "resolve"} => pending = {} /\ todo = {} /\ unlisted = {}
    /\ at \in {"describe", "stat"} => entry \in Locations
    /\ reported \subseteq Locations
    /\ matched \in Nat /\ (at = "idle" => matched = 0)
    /\ at # "idle" =>
         IF asked.tool = "search"
         THEN matched <= asked.limit /\ (at # "returned" => matched < asked.limit)
         ELSE matched = 0
    /\ content \in [at : Locations, kind : Kinds] \cup {None}
    /\ disturbed \in BOOLEAN

LEMMA CallIs ==
    ASSUME NEW call \in Calls
    PROVE  /\ call.tool \in {"list", "read", "search"}
           /\ call.query \in Queried
           /\ call.tool = "search" => call.limit \in 1..1000 /\ call.pattern \in Patterns
<1>1. CASE call \in [tool : {"list", "read"}, query : Queries]
    BY <1>1, QueriesAssumption DEF Queried
<1>2. CASE call \in [tool : {"search"}, query : Queries, pattern : Patterns, limit : Limits]
    <2>1. call.tool = "search" /\ call.query \in Queries
        BY <1>2
    <2>2. call.pattern \in Patterns /\ call.limit \in Limits
        BY <1>2
    <2>3. call.query \in Queried
        BY <2>1, QueriesAssumption DEF Queried
    <2>4. call.limit \in 1..1000
        BY <2>2, LimitsAssumption
    <2> QED BY <2>1, <2>2, <2>3, <2>4
<1> QED BY <1>1, <1>2 DEF Calls

LEMMA ToolsInvInit == SandboxInit => ToolsInv
<1> SUFFICES ASSUME SandboxInit
             PROVE  ToolsInv
    OBVIOUS
<1>1. /\ at = "idle" /\ asked = None /\ found = <<>> /\ pending = {} /\ todo = {}
      /\ reported = {} /\ matched = 0 /\ content = None /\ unlisted = {}
    BY DEF SandboxInit, ToolsInit
<1>2. disturbed \in BOOLEAN
    BY DEF SandboxInit, ToolsInit
<1>3. found \in Paths
    BY <1>1, NeverAboveTop
<1> QED BY <1>1, <1>2, <1>3 DEF ToolsInv, Stages

LEMMA SameTree ==
    ASSUME UNCHANGED tree
    PROVE  \A path : Real(path)' = Real(path) /\ KindAt(path)' = KindAt(path)
BY RealIsRealIn, RealIsRealInNext DEF KindAt

\* Those who change the tree leave the call alone, and it is noted.
LEMMA OthersSteps ==
    ASSUME BaseInv, ResetStep \/ \E l \in Locations : \E kind \in MayBe(l) : Change(l, kind)
    PROVE  /\ UNCHANGED <<roots, callVars>>
           /\ disturbed \in BOOLEAN => disturbed' \in BOOLEAN
           /\ ~disturbed' => ~disturbed /\ UNCHANGED tree
<1>1. CASE Reset \/ ListChildren \/ CheckChild
    BY <1>1 DEF Reset, ListChildren, CheckChild
<1>2. CASE \E l \in Locations : \E kind \in MayBe(l) : Change(l, kind)
    BY <1>2 DEF Change
<1>3. CASE EndReset
    BY <1>3 DEF EndReset
<1>4. CASE DeleteChild
    <2>1. PICK gone : TakeAway(gone)
        BY <1>4 DEF DeleteChild
    <2>2. disturbed' = (disturbed \/ gone # {})
        BY <2>1 DEF TakeAway
    <2>3. gone = {} => tree' = tree
        <3> SUFFICES ASSUME gone = {}
                     PROVE  tree' = tree
            OBVIOUS
        <3>1. tree' = [l \in Locations |-> tree[l]]
            BY <2>1 DEF TakeAway
        <3> QED BY <3>1 DEF BaseInv, TreeOK
    <2>4. UNCHANGED <<roots, callVars>>
        BY <1>4 DEF DeleteChild
    <2> QED BY <2>2, <2>3, <2>4
<1> QED BY <1>1, <1>2, <1>3, <1>4 DEF ResetStep

LEMMA EarlySteps ==
    ASSUME BaseInv, ToolsInv, (\E call \in Calls : Execute(call)) \/ Authorize \/ ResolvePath
    PROVE  ToolsInv'
<1>1. ASSUME NEW call \in Calls, Execute(call)
      PROVE  ToolsInv'
    <2>1. at = "idle" /\ at' = "permit" /\ asked' = call
          /\ UNCHANGED <<found, pending, todo, entry, reported, matched, content, unlisted, disturbed>>
        BY <1>1 DEF Execute
    <2>2. matched = 0
        BY <2>1 DEF ToolsInv
    <2>3. IF asked'.tool = "search" THEN matched' < asked'.limit ELSE matched' = 0
        <3>1. CASE call.tool = "search"
            <4>1. call.limit \in 1..1000
                BY <3>1, CallIs
            <4> QED BY <2>1, <2>2, <3>1, <4>1
        <3>2. CASE call.tool # "search"
            BY <2>1, <2>2, <3>2
        <3> QED BY <3>1, <3>2
    <2>4. asked'.tool = "search" => matched' <= asked'.limit
        <3>1. CASE call.tool = "search"
            <4>1. call.limit \in 1..1000
                BY <3>1, CallIs
            <4>2. 0 <= call.limit
                BY <4>1
            <4> QED BY <2>1, <2>2, <4>2
        <3>2. CASE call.tool # "search"
            BY <2>1, <3>2
        <3> QED BY <3>1, <3>2
    <2> QED BY <2>1, <2>2, <2>3, <2>4 DEF ToolsInv, Stages
<1>2. CASE Authorize
    BY <1>2 DEF Authorize, Return, ToolsInv, Stages
<1>3. CASE ResolvePath
    <2> DEFINE r == Resolve(asked.query)
    <2>1. asked \in Calls /\ asked.query \in Queried /\ pending = {} /\ todo = {} /\ unlisted = {}
        BY <1>3, CallIs DEF ResolvePath, ToolsInv
    <2>2. CASE r.code = "ok"
        <3>1. r.path \in Paths
            BY <2>1, <2>2, ResolveIsAllowed, LocationsArePaths DEF BaseInv
        <3>2. at' = "kind" /\ found' = r.path /\ disturbed' = FALSE
              /\ UNCHANGED <<asked, pending, todo, reported, matched, content, unlisted>>
            BY <1>3, <2>2 DEF ResolvePath
        <3> HIDE DEF r
        <3> QED BY <1>3, <2>1, <3>1, <3>2 DEF ToolsInv, Stages, ResolvePath
    <2>3. CASE r.code # "ok"
        <3>1. at' = "returned" /\ found' = found /\ disturbed' = FALSE
              /\ UNCHANGED <<asked, pending, todo, reported, matched, content, unlisted>>
            BY <1>3, <2>3 DEF ResolvePath, Return
        <3> QED BY <1>3, <2>1, <3>1 DEF ToolsInv, Stages, ResolvePath
    <2> QED BY <2>2, <2>3
<1> QED BY <1>1, <1>2, <1>3

LEMMA FailedCall ==
    ASSUME SystemCallFails
    PROVE  /\ at \in {"resolve", "size", "kind", "walk", "entries", "describe", "stat"}
           /\ at' = "returned" /\ outcome' \notin {"ok", "none"}
           /\ UNCHANGED <<asked, found, pending, todo, entry, reported, matched, content, unlisted, disturbed>>
BY DEF SystemCallFails, Return

LEMMA ReadSteps ==
    ASSUME BaseInv, ToolsInv, CheckKind \/ CheckSize \/ ReadText
    PROVE  ToolsInv'
<1>1. CASE CheckKind
    <2>1. at = "kind" /\ at' \in {"size", "walk", "returned"}
          /\ UNCHANGED <<asked, found, todo, reported, matched, content, unlisted, disturbed>>
          /\ pending' \subseteq pending \cup {found}
        BY <1>1 DEF CheckKind, Return
    <2>2. Within(found, found)
        BY WithinItself DEF ToolsInv
    <2> QED BY <2>1, <2>2 DEF ToolsInv, Stages
<1>2. CASE CheckSize
    <2>1. at = "size" /\ at' \in {"read", "returned"}
          /\ UNCHANGED <<asked, found, pending, todo, reported, matched, content, unlisted, disturbed>>
        BY <1>2 DEF CheckSize, Return
    <2> QED BY <2>1 DEF ToolsInv, Stages
<1>3. CASE ReadText
    <2>1. at = "read" /\ at' = "returned"
          /\ UNCHANGED <<asked, found, pending, todo, reported, matched, unlisted, disturbed>>
        BY <1>3 DEF ReadText, Return
    <2>2. content' \in [at : Locations, kind : Kinds] \cup {None}
        <3>1. CASE UNCHANGED content
            BY <3>1 DEF ToolsInv
        <3>2. CASE IsFile(found) /\ content' = [at |-> Real(found), kind |-> KindAt(found)]
            <4>1. found \in Paths /\ TreeOK
                BY DEF ToolsInv, BaseInv
            <4>2. Real(found) # <<>> /\ KindAt(found) # "absent" /\ KindAt(found) \in Kinds
                BY <3>2, <4>1, KindHere DEF IsFile
            <4>3. Real(found) \in Locations
                BY <4>1, <4>2, KindHere
            <4> QED BY <3>2, <4>2, <4>3
        <3> QED BY <1>3, <3>1, <3>2 DEF ReadText
    <2> QED BY <2>1, <2>2 DEF ToolsInv, Stages
<1> QED BY <1>1, <1>2, <1>3

\* What is found under a path is under what the path is under.
LEMMA EntriesWithin ==
    ASSUME TreeOK, NEW dir \in Paths, NEW root \in Paths, Within(dir, root), NEW e \in Entries(dir)
    PROVE  e \in Paths /\ Within(e, root)
BY EntryIs, WithinTransitive

LEMMA WalkSteps ==
    ASSUME BaseInv, ToolsInv, ListEntries \/ WalkDirectory \/ EndOfEntries \/ EndOfWalk
    PROVE  ToolsInv'
<1>0. TreeOK /\ found \in Paths
    BY DEF BaseInv, ToolsInv
<1>1. CASE ListEntries
    <2>1. at = "walk" /\ at' \in {"entries", "returned"}
          /\ UNCHANGED <<asked, found, pending, reported, matched, content, unlisted, disturbed>>
          /\ todo' \subseteq todo \cup Entries(found)
        BY <1>1 DEF ListEntries, Return
    <2>2. \A path \in Entries(found) : path \in Paths /\ Within(path, found)
        BY <1>0, EntriesWithin, WithinItself
    <2> QED BY <2>1, <2>2 DEF ToolsInv, Stages
<1>2. CASE WalkDirectory
    <2>1. at = "walk" /\ at' \in {"walk", "entries"}
          /\ UNCHANGED <<asked, found, reported, matched, content, disturbed>>
          /\ unlisted' \subseteq unlisted \cup pending
        BY <1>2 DEF WalkDirectory
    <2>2. PICK dir \in pending : pending' \cup todo' \subseteq pending \cup todo \cup Entries(dir)
        BY <1>2 DEF WalkDirectory, Prune
    <2>3. \A path \in Entries(dir) : path \in Paths /\ Within(path, found)
        BY <1>0, EntriesWithin DEF ToolsInv
    <2> QED BY <2>1, <2>2, <2>3 DEF ToolsInv, Stages
<1>3. CASE EndOfEntries
    BY <1>3 DEF EndOfEntries, Return, ToolsInv, Stages
<1>4. CASE EndOfWalk
    BY <1>4 DEF EndOfWalk, Return, ToolsInv, Stages
<1> QED BY <1>1, <1>2, <1>3, <1>4

LEMMA AbsoluteIsQueried == \A path \in Paths : Absolute(path) \in Queried
<1>1. Paths \subseteq Seq(STRING)
    BY SeqMonotonic DEF Paths, Names
<1> QED BY <1>1 DEF Absolute, Queried

LEMMA EntrySteps ==
    ASSUME BaseInv, ToolsInv, TakeEntry \/ Describe \/ StatEntry
    PROVE  ToolsInv'
<1>1. CASE TakeEntry
    <2>1. at = "entries" /\ at' \in {"entries", "describe"} /\ todo' \subseteq todo
          /\ UNCHANGED <<asked, found, pending, reported, matched, content, unlisted, disturbed>>
        BY <1>1 DEF TakeEntry
    <2>2. at' = "describe" => entry' \in Locations
        <3> SUFFICES ASSUME at' = "describe"
                     PROVE  entry' \in Locations
            OBVIOUS
        <3>1. PICK e \in todo : entry' = Resolve(Absolute(e)).path /\ Resolve(Absolute(e)).code = "ok"
            BY <1>1, <2>1 DEF TakeEntry
        <3>2. Absolute(e) \in Queried
            BY <3>1, AbsoluteIsQueried DEF ToolsInv
        <3> QED BY <3>1, <3>2, ResolveIsAllowed DEF BaseInv
    <2> QED BY <2>1, <2>2 DEF ToolsInv, Stages
<1>2. CASE Describe
    <2>1. at = "describe" /\ at' \in {"stat", "entries"} /\ entry \in Locations /\ asked \in Calls
          /\ UNCHANGED <<asked, found, pending, todo, entry, content, unlisted, disturbed>>
        BY <1>2 DEF Describe, ToolsInv
    <2>2. reported' \subseteq Locations /\ matched' = matched
        BY <1>2, <2>1 DEF Describe, Report, ToolsInv
    <2> QED BY <2>1, <2>2 DEF ToolsInv, Stages
<1>3. CASE StatEntry
    <2>1. at = "stat" /\ entry \in Locations /\ asked \in Calls
          /\ UNCHANGED <<asked, found, pending, todo, entry, content, unlisted, disturbed>>
        BY <1>3 DEF StatEntry, ToolsInv
    <2>2. CASE at' = "returned" /\ UNCHANGED <<reported, matched>>
        BY <2>1, <2>2 DEF ToolsInv, Stages
    <2>3. CASE Report /\ asked.tool = "search"
        <3>1. asked.limit \in 1..1000 /\ matched' = matched + 1
            BY <2>1, <2>3, CallIs DEF Report
        <3>2. IF matched' >= asked.limit THEN at' = "returned" ELSE at' = "entries"
            BY <1>3, <2>3 DEF StatEntry, Return, Report
        <3>3. matched \in Nat /\ matched < asked.limit
            BY <2>1, <2>3 DEF ToolsInv
        <3>4. matched' \in Nat /\ matched' <= asked.limit
            BY <3>1, <3>3
        <3>5. reported' \subseteq Locations /\ at' \in {"returned", "entries"}
            BY <2>1, <2>3, <3>2 DEF Report, ToolsInv
        <3>6. at' # "returned" => matched' < asked.limit
            BY <3>1, <3>2, <3>4
        <3> QED BY <2>1, <2>3, <3>4, <3>5, <3>6 DEF ToolsInv, Stages
    <2>4. CASE Report /\ asked.tool # "search"
        <3>1. matched' = matched /\ at' \in {"entries", "returned"}
            BY <1>3, <2>4 DEF StatEntry, Return, Report
        <3> QED BY <2>1, <2>4, <3>1 DEF ToolsInv, Stages, Report
    <2> QED BY <1>3, <2>2, <2>3, <2>4 DEF StatEntry, Return
<1> QED BY <1>1, <1>2, <1>3

LEMMA ToolsInvStep == BaseInv /\ ToolsInv /\ [SandboxNext]_allVars => ToolsInv'
<1> SUFFICES ASSUME BaseInv, ToolsInv, [SandboxNext]_allVars
             PROVE  ToolsInv'
    OBVIOUS
<1>1. CASE UNCHANGED <<callVars, disturbed>>
    BY <1>1 DEF callVars, ToolsInv
<1>2. CASE UNCHANGED callVars /\ disturbed' \in BOOLEAN
    BY <1>2 DEF callVars, ToolsInv
<1>3. ToolStep => ToolsInv'
    <2>1. SystemCallFails => ToolsInv'
        BY FailedCall DEF ToolsInv, Stages
    <2> QED BY <2>1, EarlySteps, ReadSteps, WalkSteps, EntrySteps DEF ToolStep
<1>4. ResetStep \/ (\E l \in Locations : \E kind \in MayBe(l) : Change(l, kind)) => ToolsInv'
    BY <1>2, OthersSteps DEF ToolsInv
<1> QED BY <1>1, <1>3, <1>4 DEF SandboxNext, allVars

-----------------------------------------------------------------------------
(* Types *)

ResetTypes ==
    /\ resetAt \in {"idle", "list", "check", "delete"}
    /\ resetOutcome \in {"none", "ok", "escapes", "os_error"}
    /\ removed \subseteq Locations
    /\ moved \in BOOLEAN /\ meddled \in BOOLEAN
    /\ resets \in 0..MaxResets /\ changes \in 0..MaxChanges

LEMMA ResetTypesInit == SandboxInit => ResetTypes
<1> SUFFICES ASSUME SandboxInit
             PROVE  ResetTypes
    OBVIOUS
<1>1. moved \in BOOLEAN /\ meddled \in BOOLEAN
    BY DEF SandboxInit
<1> QED BY <1>1, BoxAssumption DEF SandboxInit, ResetTypes

LEMMA ResetTypesStep == BaseInv /\ ResetTypes /\ [SandboxNext]_allVars => ResetTypes'
<1> SUFFICES ASSUME BaseInv, ResetTypes, [SandboxNext]_allVars
             PROVE  ResetTypes'
    OBVIOUS
<1>1. CASE UNCHANGED <<resetVars, meddled, resets, changes>>
    BY <1>1 DEF ResetTypes, resetVars
<1>2. CASE Reset
    <2>1. (Real(Box) # Box) \in BOOLEAN /\ FALSE \in BOOLEAN
        OBVIOUS
    <2>2. moved' \in BOOLEAN /\ meddled' \in BOOLEAN
        BY <1>2, <2>1 DEF Reset
    <2> QED BY <1>2, <2>2, BoxAssumption DEF Reset, ResetTypes
<1>3. CASE ListChildren \/ CheckChild \/ EndReset
    BY <1>3 DEF ListChildren, CheckChild, EndReset, ResetEnds, ResetTypes
<1>4. CASE DeleteChild
    <2>1. Entry(child)
        BY <1>4 DEF DeleteChild, BaseInv, ResetOK
    <2>2. PICK gone \in SUBSET Doomed(child) : removed' = removed \cup gone
        BY <1>4, <2>1, DeleteTree DEF BaseInv, Entry
    <2>3. removed' \subseteq Locations
        BY <2>1, <2>2, DoomedIs DEF BaseInv, Entry, ResetTypes
    <2>4. resetAt' \in {"check", "idle"} /\ resetOutcome' \in {resetOutcome, "os_error"}
          /\ UNCHANGED <<moved, meddled, resets, changes>>
        BY <1>4 DEF DeleteChild, ResetEnds
    <2> QED BY <2>3, <2>4 DEF ResetTypes
<1>5. ASSUME NEW l \in Locations, NEW kind \in MayBe(l), Change(l, kind)
      PROVE  ResetTypes'
    <2>1. moved' \in BOOLEAN /\ meddled' \in BOOLEAN
        BY <1>5 DEF Change
    <2>2. UNCHANGED <<resetAt, resetOutcome, removed, resets>> /\ changes' \in 0..MaxChanges
        BY <1>5, BoxAssumption DEF Change, ResetTypes
    <2> QED BY <2>1, <2>2 DEF ResetTypes
<1> QED BY <1>1, <1>2, <1>3, <1>4, <1>5 DEF SandboxNext, ResetStep, allVars

\* What the call of a tool keeps: its directories and entries are under the path that
\* resolve returned, and a search stops at its limit.
THEOREM ToolsAreInOrder == SandboxSpec => []ToolsInv
BY ToolsInvInit, ToolsInvStep, SandboxIsInOrder, PTL DEF SandboxSpec

\* The type invariant, for a tree that never has anything where its parent is not a
\* directory, whoever changes it.
THEOREM SandboxTypeCorrect == SandboxSpec => []SandboxTypeOK
<1>1. BaseInv /\ ToolsInv /\ ResetTypes => SandboxTypeOK
    <2> SUFFICES ASSUME BaseInv, ToolsInv, ResetTypes
                 PROVE  SandboxTypeOK
        OBVIOUS
    <2>1. Paths \subseteq Seq(STRING)
        BY SeqMonotonic DEF Paths, Names
    <2>2. matched \in 0..1000
        <3>1. CASE at # "idle" /\ asked.tool = "search"
            <4>1. asked.limit \in 1..1000 /\ matched \in Nat /\ matched <= asked.limit
                BY <3>1, CallIs DEF ToolsInv
            <4> QED BY <4>1
        <3>2. CASE ~(at # "idle" /\ asked.tool = "search")
            BY <3>2 DEF ToolsInv
        <3> QED BY <3>1, <3>2
    <2>3. ToolsTypeOK
        BY <2>1, <2>2 DEF ToolsInv, ToolsTypeOK, Stages
    <2>4. resetRoot \in Seq(STRING) /\ children \subseteq Seq(STRING)
        BY <2>1 DEF BaseInv, ResetOK, Entry
    <2> QED BY <2>3, <2>4 DEF BaseInv, TreeOK, ResetTypes, SandboxTypeOK
<1> QED BY <1>1, ResetTypesInit, ResetTypesStep, SandboxIsInOrder, ToolsAreInOrder, PTL DEF SandboxSpec

-----------------------------------------------------------------------------
(* read_file *)

\* What a call that reads knows of its path while the tree has not changed.
Reading ==
    /\ at \in {"kind", "size", "read"} => Allowed(found) /\ Clean(tree, found)
    /\ at = "size" => IsFile(found)
    /\ at = "read" => KindAt(found) = "file"
    /\ outcome = "ok" => Allowed(content.at) /\ content.kind = "file"

ReadOK ==
    /\ at # "returned" => outcome = "none"
    /\ at # "idle" /\ asked.tool = "read" =>
         /\ at \in {"permit", "resolve", "kind", "size", "read", "returned"}
         /\ ~disturbed => Reading

LEMMA SameAllowed ==
    ASSUME UNCHANGED roots
    PROVE  \A location : Allowed(location)' = Allowed(location)
BY DEF Allowed

LEMMA ReadingStays ==
    ASSUME Reading, UNCHANGED <<tree, roots, at, found, outcome, content>>
    PROVE  Reading'
BY SameTree, SameAllowed DEF Reading, IsFile

LEMMA ReadToolStep ==
    ASSUME BaseInv, ToolsInv, ReadOK, ToolStep
    PROVE  ReadOK'
<1>1. UNCHANGED <<tree, roots>>
    BY DEF ToolStep
<1>2. \A path : Real(path)' = Real(path) /\ KindAt(path)' = KindAt(path)
    BY <1>1, SameTree
<1>3. \A location : Allowed(location)' = Allowed(location)
    BY <1>1, SameAllowed
<1>4. ASSUME NEW call \in Calls, Execute(call)
      PROVE  ReadOK'
    <2>1. at = "idle" /\ at' = "permit" /\ UNCHANGED outcome
        BY <1>4 DEF Execute
    <2> QED BY <2>1 DEF ReadOK, Reading
<1>5. CASE Authorize
    <2>1. at = "permit" /\ UNCHANGED <<asked, disturbed>>
        BY <1>5 DEF Authorize
    <2>2. outcome' # "ok" /\ ((at' = "resolve" /\ UNCHANGED outcome) \/ at' = "returned")
        BY <1>5, <2>1 DEF Authorize, Return, ReadOK
    <2> QED BY <2>1, <2>2 DEF ReadOK, Reading
<1>6. CASE ResolvePath
    <2> DEFINE r == Resolve(asked.query)
    <2>1. at = "resolve" /\ asked.query \in Queried /\ UNCHANGED asked
        BY <1>6, CallIs DEF ResolvePath, ToolsInv
    <2>2. CASE r.code = "ok"
        <3>1. at' = "kind" /\ found' = r.path /\ UNCHANGED outcome
            BY <1>6, <2>2 DEF ResolvePath
        <3>2. Allowed(r.path) /\ Clean(tree, r.path)
            BY <2>1, <2>2, ResolveIsAllowed DEF BaseInv
        <3>3. Allowed(found') /\ Clean(tree', found')
            BY <1>1, <3>1, <3>2
        <3>4. Allowed(found)'
            BY <1>1, <3>3 DEF Allowed
        <3> QED BY <2>1, <3>1, <3>3, <3>4 DEF ReadOK, Reading
    <2>3. CASE r.code # "ok"
        <3>1. at' = "returned" /\ outcome' = r.code
            BY <1>6, <2>3 DEF ResolvePath, Return
        <3> HIDE DEF r
        <3> QED BY <2>1, <2>3, <3>1 DEF ReadOK, Reading
    <2> QED BY <2>2, <2>3
<1>7. CASE CheckKind
    <2>1. at = "kind" /\ UNCHANGED <<asked, found, disturbed>> /\ outcome' # "ok"
          /\ (at' = "returned" \/ UNCHANGED outcome) /\ at' # "read"
        BY <1>7 DEF CheckKind, Return, ReadOK
    <2>2. asked.tool = "read" => at' \in {"size", "returned"} /\ (at' = "size" => IsFile(found))
        BY <1>7 DEF CheckKind, Return
    <2>3. IsFile(found)' = IsFile(found) /\ Allowed(found)' = Allowed(found)
        BY <1>1, <1>2, <2>1 DEF IsFile, Allowed, KindAt
    <2> QED BY <1>1, <2>1, <2>2, <2>3 DEF ReadOK, Reading, ToolsInv
<1>8. CASE CheckSize
    <2>1. at = "size" /\ UNCHANGED <<asked, found, disturbed>> /\ outcome' # "ok"
          /\ at' \in {"read", "returned"} /\ (at' = "returned" \/ UNCHANGED outcome)
        BY <1>8 DEF CheckSize, Return, ReadOK
    <2>2. at' = "read" => KindAt(found) \notin {"absent", "large"}
        BY <1>8 DEF CheckSize, Return
    <2>3. KindAt(found)' = KindAt(found) /\ Allowed(found)' = Allowed(found)
        BY <1>1, <1>2, <2>1 DEF Allowed, KindAt
    <2> QED BY <1>1, <2>1, <2>2, <2>3 DEF ReadOK, Reading, ToolsInv, IsFile
<1>9. CASE ReadText
    <2>1. at = "read" /\ at' = "returned" /\ UNCHANGED <<asked, found, disturbed>>
        BY <1>9 DEF ReadText, Return
    <2>2. outcome' = "ok" => content' = [at |-> Real(found), kind |-> KindAt(found)]
        BY <1>9 DEF ReadText, Return
    <2>3. ASSUME asked.tool = "read", ~disturbed, outcome' = "ok"
          PROVE  Allowed(content'.at) /\ content'.kind = "file"
        <3>1. Reading
            BY <2>1, <2>3 DEF ReadOK
        <3>2. Real(found) = found
            BY <2>1, <3>1, RealHere DEF Reading, BaseInv, ToolsInv
        <3> QED BY <2>1, <2>2, <2>3, <3>1, <3>2 DEF Reading
    <2>4. Allowed(content'.at) => Allowed(content.at)'
        BY <1>1 DEF Allowed
    <2> QED BY <2>1, <2>3, <2>4 DEF ReadOK, Reading
<1>10. CASE \/ ListEntries \/ WalkDirectory \/ TakeEntry \/ Describe \/ StatEntry
            \/ EndOfEntries \/ EndOfWalk
    <2>1. at \in {"walk", "entries", "describe", "stat"} /\ UNCHANGED asked
        BY <1>10 DEF ListEntries, WalkDirectory, TakeEntry, Describe, StatEntry, EndOfEntries, EndOfWalk
    <2>2. at' = "returned" \/ UNCHANGED outcome
        BY <1>10 DEF ListEntries, WalkDirectory, TakeEntry, Describe, StatEntry, EndOfEntries, EndOfWalk, Return
    <2>3. at' # "idle"
        BY <1>10 DEF ListEntries, WalkDirectory, TakeEntry, Describe, StatEntry, EndOfEntries, EndOfWalk, Return
    <2> QED BY <2>1, <2>2, <2>3 DEF ReadOK
<1>11. CASE SystemCallFails
    <2>1. at \notin {"idle", "returned"} /\ at' = "returned" /\ outcome' # "ok" /\ UNCHANGED asked
        BY <1>11, FailedCall
    <2> QED BY <2>1 DEF ReadOK, Reading
<1> QED BY <1>4, <1>5, <1>6, <1>7, <1>8, <1>9, <1>10, <1>11 DEF ToolStep

LEMMA ReadStep == BaseInv /\ ToolsInv /\ ReadOK /\ [SandboxNext]_allVars => ReadOK'
<1> SUFFICES ASSUME BaseInv, ToolsInv, ReadOK, [SandboxNext]_allVars
             PROVE  ReadOK'
    OBVIOUS
<1>1. ASSUME UNCHANGED <<roots, callVars>>, ~disturbed' => ~disturbed /\ UNCHANGED tree
      PROVE  ReadOK'
    <2>1. UNCHANGED <<roots, at, asked, found, outcome, content>>
        BY <1>1 DEF callVars
    <2>2. ~disturbed' /\ Reading => Reading'
        BY <1>1, <2>1, ReadingStays
    <2> QED BY <1>1, <2>1, <2>2 DEF ReadOK
<1>2. CASE UNCHANGED allVars
    BY <1>1, <1>2 DEF allVars
<1> QED BY <1>1, <1>2, OthersSteps, ReadToolStep DEF SandboxNext

\* A text that read_file returns is of a file that the policy allows and that is not too
\* large, wherever links led, unless the tree changed since the path was resolved: for
\* any roots, also within one another, and any links.
THEOREM ReadIsAllowedInvariant == SandboxSpec => []ReadIsAllowed
<1>1. SandboxInit => ReadOK
    BY DEF SandboxInit, ToolsInit, ReadOK
<1>2. ToolsInv /\ ReadOK => ReadIsAllowed
    <2> SUFFICES ASSUME ToolsInv, ReadOK, asked # None, asked.tool = "read", outcome = "ok", ~disturbed
                 PROVE  Allowed(content.at) /\ content.kind = "file"
        BY DEF ReadIsAllowed
    <2>1. at = "returned"
        BY DEF ReadOK
    <2> QED BY <2>1 DEF ReadOK, Reading
<1> QED BY <1>1, <1>2, ReadStep, SandboxIsInOrder, ToolsAreInOrder, PTL DEF SandboxSpec

-----------------------------------------------------------------------------
(* What a listing or a search shows of the tree *)

\* An entry resolves if it leads to something that is shown, to what it leads to.
LEMMA ResolveOfEntry ==
    ASSUME TreeOK, RootsOK, NEW e \in Paths
    PROVE  LET r == Resolve(Absolute(e))
           IN  /\ r.code = "ok" <=> Exists(e) /\ Shown(Real(e))
               /\ r.code = "ok" => r.path = Real(e)
<1> DEFINE query == Absolute(e)
           cs == Candidates(query)
           root == RootOf(e)
           I == {i \in 1..Len(cs) : Within(Real(cs[i].path), cs[i].root)}
           first == IF I # {} THEN Min(I) ELSE 0
<1>1. query.path = e /\ query.absolute
    BY DEF Absolute
<1>2. Len(cs) = 1 /\ cs[1].path = e /\ cs[1].root = root
    <2> HIDE DEF query
    <2>1. Len(cs) = 1 /\ cs[1] = [path |-> query.path, root |-> RootOf(query.path)]
        BY <1>1, CandidatesAre
    <2> QED BY <1>1, <2>1
<1>3. Real(e) \in Paths /\ Real(Real(e)) = Real(e) /\ Exists(Real(e)) = Exists(e)
    BY RealHere, KindHere DEF Exists
<1>4. RootOf(Real(e)) = root
    BY <1>3 DEF RootOf
<1>5. ".." \notin ToSet(e)
    BY LenProperties, ElementOfSeq DEF ToSet, Paths, Names
<1>6. Resolve(query) = IF first = 0 THEN Refusal("outside_allowed_root")
                       ELSE Judge(cs[first].path, cs[first].root)
    BY <1>1, <1>5 DEF Resolve, SelectInSeq
<1>7. CASE Within(Real(e), root)
    <2>1. I = {1}
        BY <1>2, <1>7
    <2>2. Min(I) \in I
        <3> HIDE DEF I
        <3> QED BY <2>1, MinIsLeast
    <2>3. first = 1
        BY <2>1, <2>2
    <2>4. Resolve(query) = Judge(e, root)
        BY <1>2, <1>6, <2>3
    <2>5. Shown(Real(e)) <=> ~Blocked(Relative(Real(e), root))
        BY <1>4, <1>7 DEF Shown
    <2> QED BY <1>3, <2>4, <2>5 DEF Judge, Refusal
<1>8. CASE ~Within(Real(e), root)
    <2>1. I = {}
        BY <1>2, <1>8
    <2>2. first = 0
        <3> HIDE DEF I
        <3> QED BY <2>1
    <2>3. Resolve(query) = Refusal("outside_allowed_root")
        <3> HIDE DEF first, query, cs, root
        <3> QED BY <1>6, <2>2
    <2>4. Resolve(query).code # "ok"
        BY <2>3 DEF Refusal
    <2>5. ~Shown(Real(e))
        BY <1>4, <1>8 DEF Shown
    <2> QED BY <2>4, <2>5
<1> QED BY <1>7, <1>8

Good(S) == {Real(e) : e \in {f \in S : Exists(f) /\ Shown(Real(f))}}

LEMMA ViewIs == \A top : Listable(top) = Good(Entries(top))
BY DEF Listable, Good

-----------------------------------------------------------------------------
(* What lies below a directory *)

\* Of two directories that a path is in, one is in the other.
LEMMA Comparable ==
    ASSUME NEW l \in Paths, NEW a \in Paths, NEW b \in Paths, Within(l, a), Within(l, b)
    PROVE  Within(a, b) \/ Within(b, a)
<1>1. Len(a) \in Nat /\ Len(b) \in Nat /\ Len(l) \in Nat
    BY LenProperties DEF Paths
<1>2. /\ Len(a) <= Len(l) /\ \A i \in 1..Len(a) : l[i] = a[i]
      /\ Len(b) <= Len(l) /\ \A i \in 1..Len(b) : l[i] = b[i]
    BY WithinIs
<1>3. CASE Len(a) <= Len(b)
    <2>1. \A i \in 1..Len(a) : i \in 1..Len(b)
        BY <1>1, <1>3
    <2>2. \A i \in 1..Len(a) : b[i] = a[i]
        BY <1>2, <2>1
    <2> QED BY <1>3, <2>2, WithinIs
<1>4. CASE Len(b) <= Len(a)
    <2>1. \A i \in 1..Len(b) : i \in 1..Len(a)
        BY <1>1, <1>4
    <2>2. \A i \in 1..Len(b) : a[i] = b[i]
        BY <1>2, <2>1
    <2> QED BY <1>4, <2>2, WithinIs
<1> QED BY <1>1, <1>3, <1>4

LEMMA WithinEachOther ==
    ASSUME NEW a \in Paths, NEW b \in Paths, Within(a, b), Within(b, a)
    PROVE  a = b
<1>1. Len(a) \in Nat /\ Len(b) \in Nat /\ Len(a) <= Len(b)
    BY WithinIs, LenProperties DEF Paths
<1> QED BY <1>1, WithinSameLength

\* What is below a directory is one of its children, or below one.
LEMMA ChildTowards ==
    ASSUME NEW dir \in Paths, NEW l \in Below(dir)
    PROVE  \E c \in Children(dir) : Within(l, c)
<1> DEFINE S == {p \in Paths : p \in Below(dir) => \E c \in Children(dir) : Within(p, c)}
<1>1. <<>> \in S
    BY NeverAboveTop, LocationsArePaths DEF Below
<1>2. ASSUME NEW p \in Paths, NEW n \in Names, p \in S
      PROVE  Append(p, n) \in S
    <2> DEFINE a == Append(p, n)
    <2>1. /\ a \in Paths /\ Within(a, a)
          /\ \A r \in Paths : Within(a, r) <=> Within(p, r) \/ r = a
        BY WithinAppend, WithinItself
    <2>2. Parent(a) = p
        BY FrontOfAppend DEF Parent
    <2> HIDE DEF a
    <2> SUFFICES ASSUME a \in Below(dir)
                 PROVE  \E c \in Children(dir) : Within(a, c)
        BY <2>1 DEF a
    <2>3. Within(p, dir) /\ a \in Locations
        BY <2>1 DEF Below
    <2>4. CASE p = dir
        BY <2>1, <2>2, <2>4 DEF Children
    <2>5. CASE p # dir
        <3>1. p # <<>>
            BY <2>3, <2>5, NeverAboveTop
        <3>2. p \in Below(dir)
            BY <2>2, <2>3, <2>5, <3>1, ParentIs DEF Below
        <3>3. PICK c \in Children(dir) : Within(p, c)
            BY <1>2, <3>2
        <3>4. c \in Paths
            BY LocationsArePaths DEF Children, Below
        <3> QED BY <2>1, <3>3, <3>4
    <2> QED BY <2>4, <2>5
<1>3. Paths \subseteq S
    <2> HIDE DEF S
    <2> QED BY <1>1, <1>2, PathInd
<1> QED BY <1>3, LocationsArePaths DEF Below

LEMMA BelowIs ==
    ASSUME NEW top \in Paths, NEW dir \in Paths, Within(dir, top), NEW l \in Below(dir)
    PROVE  l \in Below(top) /\ Within(l, dir)
<1>1. l \in Paths /\ l \in Locations /\ Within(l, dir) /\ l # dir
    BY LocationsArePaths DEF Below
<1>2. Within(l, top)
    BY <1>1, WithinTransitive
<1>3. l # top
    BY <1>1, WithinEachOther
<1> QED BY <1>1, <1>2, <1>3 DEF Below

\* A path that is in a location, but is not that location, is below its parent or is it.
LEMMA ParentWithin ==
    ASSUME NEW l \in Locations, NEW c \in Paths, Within(l, c), l # c
    PROVE  Within(Parent(l), c)
<1> DEFINE p == Parent(l)
           n == Last(l)
<1>1. p \in Paths /\ n \in Names /\ l = Append(p, n)
    BY ParentIs
<1> HIDE DEF p, n
<1>2. Within(p, c) \/ c = Append(p, n)
    BY <1>1, WithinAppend
<1> QED BY <1>1, <1>2 DEF p

-----------------------------------------------------------------------------
(* The directories that a search walks *)

IsOpenable(top) == top \in Locations /\ Clean(tree, top) /\ tree[top] = "dir"

\* They are directories themselves, with no link above.
LEMMA OpenIs ==
    ASSUME TreeOK, NEW top, IsOpenable(top), NEW dir \in OpenDirs(top)
    PROVE  /\ dir \in Locations /\ dir \in Paths /\ Within(dir, top) /\ tree[dir] = "dir"
           /\ Clean(tree, dir) /\ Real(dir) = dir /\ KindAt(dir) = "dir"
<1>1. top \in Paths /\ top \in Locations /\ Within(top, top)
    BY LocationsArePaths, WithinItself DEF IsOpenable
<1>2. dir \in Locations /\ dir \in Paths /\ Within(dir, top) /\ Within(dir, dir)
    BY <1>1, LocationsArePaths, WithinItself DEF OpenDirs, Below
<1>3. \A l \in Below(top) : Within(dir, l) => tree[l] = "dir"
    BY DEF OpenDirs
<1>4. tree[dir] = "dir"
    BY <1>2, <1>3 DEF OpenDirs, IsOpenable
<1>5. ASSUME NEW k \in Locations, Within(dir, k)
      PROVE  tree[k] # "link"
    <2>1. CASE k \in Below(top)
        BY <1>3, <1>5, <2>1
    <2>2. CASE Within(top, k)
        BY <2>2 DEF IsOpenable, Clean
    <2>3. CASE ~Within(top, k) /\ k \notin Below(top)
        <3>1. Within(k, top)
            BY <1>1, <1>2, <1>5, <2>3, Comparable, LocationsArePaths
        <3> QED BY <1>1, <2>3, <3>1 DEF Below
    <2> QED BY <2>1, <2>2, <2>3
<1>6. Clean(tree, dir)
    BY <1>5 DEF Clean
<1>7. Real(dir) = dir
    BY <1>2, <1>6, RealHere
<1>8. KindAt(dir) = "dir"
    BY <1>2, <1>4, <1>7, LocationsArePaths DEF KindAt
<1> QED BY <1>2, <1>4, <1>6, <1>7, <1>8

\* What is in such a directory is what it looks like, unless it is a link.
LEMMA InOpen ==
    ASSUME TreeOK, NEW dir \in Locations, Clean(tree, dir), NEW l \in Children(dir)
    PROVE  /\ l \in Locations /\ l \in Paths /\ Itself(l) = l
           /\ IsLink(l) <=> tree[l] = "link"
           /\ tree[l] # "link" => Real(l) = l /\ KindAt(l) = tree[l]
<1>1. l \in Locations /\ Parent(l) = dir /\ l \in Paths /\ l # <<>> /\ dir \in Paths
    BY LocationsArePaths DEF Children, Below
<1>2. Real(dir) = dir
    BY <1>1, RealHere
<1>3. Itself(l) = l
    BY <1>1, <1>2, ParentIs DEF Itself
<1>4. IsLink(l) <=> tree[l] = "link"
    BY <1>1, <1>3 DEF IsLink
<1>5. tree[l] # "link" => Real(l) = l
    BY <1>1, <1>3, <1>4, ItselfIs
<1>6. Real(l) = l => KindAt(l) = tree[l]
    BY <1>1 DEF KindAt
<1> QED BY <1>1, <1>3, <1>4, <1>5, <1>6

LEMMA EntriesOfClean ==
    ASSUME TreeOK, NEW dir \in Locations, Clean(tree, dir)
    PROVE  Entries(dir) = {l \in Children(dir) : tree[l] # "absent"}
<1>1. Real(dir) = dir
    BY RealHere, LocationsArePaths
<1>2. \A l \in Children(dir) : Append(dir, Last(l)) = l
    BY ParentIs DEF Children, Below
<1> QED BY <1>1, <1>2 DEF Entries

-----------------------------------------------------------------------------
(* list_directory and search_files *)

\* What is reported, and what is about to be.
Told == reported \cup {e \in {entry} : at \in {"describe", "stat"}}

Busy == at \in {"entries", "describe", "stat"}

Listing ==
    /\ at = "walk" => reported = {}
    /\ Busy => Told \cup Good(todo) = Listable(found)

\* A directory to walk is open, or it is a link that os.walk will leave out.
ToWalk(dir) ==
    \/ dir \in OpenDirs(found)
    \/ /\ dir \in Below(found) /\ Parent(dir) \in OpenDirs(found)
       /\ tree[dir] = "link" /\ KindAt(dir) = "dir"

ToLookAt(path) ==
    path \in Below(found) /\ Parent(path) \in OpenDirs(found) /\ KindAt(path) # "dir"

\* A file that a search should find is reported, or it is still to come, or it is below a
\* directory that could not be listed.
Covered(file) ==
    \/ Real(file) \in Told \/ file \in todo
    \/ \E dir \in pending \cup unlisted : Within(file, dir)

Walking ==
    /\ IsOpenable(found)
    /\ \A dir \in pending : ToWalk(dir)
    /\ \A path \in todo : ToLookAt(path)
    /\ Told \subseteq Searchable(found)
    /\ \A file \in FilesOf(found) : Covered(file)

Searching ==
    /\ at = "kind" => found \in Locations /\ Clean(tree, found)
    /\ at = "walk" => todo = {}
    /\ at = "walk" \/ Busy => Walking

ReportOK ==
    /\ at \in {"idle", "permit", "resolve", "kind"} => pending = {} /\ todo = {} /\ reported = {}
    /\ at # "idle" /\ asked.tool \in {"list", "search"} => at \notin {"size", "read"}
    /\ at # "idle" /\ asked.tool = "list" => pending = {} /\ (~disturbed => Listing)
    /\ at # "idle" /\ asked.tool = "search" => (~disturbed => Searching)

\* While the tree, the roots, what is asked and its path are the same, so is all of this.
LEMMA SameView ==
    ASSUME UNCHANGED <<tree, roots, asked, found>>
    PROVE  /\ \A path : Real(path)' = Real(path) /\ KindAt(path)' = KindAt(path)
           /\ Good(todo)' = Good(todo')
           /\ Listable(found)' = Listable(found) /\ Searchable(found)' = Searchable(found)
           /\ FilesOf(found)' = FilesOf(found)
           /\ \A dir : ToWalk(dir)' = ToWalk(dir)
           /\ \A path : ToLookAt(path)' = ToLookAt(path)
           /\ IsOpenable(found)' = IsOpenable(found)
           /\ found \in Locations => Clean(tree, found)' = Clean(tree, found)
<1>1. \A path : Real(path)' = Real(path) /\ KindAt(path)' = KindAt(path)
    BY SameTree
<1>2. \A l : RootOf(l)' = RootOf(l)
    BY <1>1 DEF RootOf, SelectInSeq
<1>3. \A l : Shown(l)' = Shown(l)
    BY <1>2 DEF Shown
<1>4. \A path : Exists(path)' = Exists(path)
    BY <1>1 DEF Exists
<1>5. Good(todo)' = Good(todo')
    BY <1>1, <1>3, <1>4 DEF Good
<1>6. Entries(found)' = Entries(found)
    BY <1>1 DEF Entries, Children, Below
<1>7. Below(found)' = Below(found)
    BY DEF Below
<1>8. OpenDirs(found)' = OpenDirs(found)
    BY <1>3, <1>7 DEF OpenDirs
<1>9. \A k, l : Matches(k, l)' = Matches(k, l)
    BY DEF Matches
<1>10. FilesOf(found)' = FilesOf(found)
    BY <1>1, <1>3, <1>7, <1>8, <1>9 DEF FilesOf
<1>11. Listable(found)' = Listable(found)
    BY <1>1, <1>3, <1>4, <1>6 DEF Listable
<1>12. Searchable(found)' = Searchable(found)
    BY <1>1, <1>10 DEF Searchable
<1>13. \A dir : ToWalk(dir)' = ToWalk(dir)
    BY <1>1, <1>7, <1>8 DEF ToWalk
<1>14. \A path : ToLookAt(path)' = ToLookAt(path)
    BY <1>1, <1>7, <1>8 DEF ToLookAt
<1>15. IsOpenable(found)' = IsOpenable(found) /\ Clean(tree, found)' = Clean(tree, found)
    BY DEF IsOpenable, Clean
<1> QED BY <1>1, <1>5, <1>10, <1>11, <1>12, <1>13, <1>14, <1>15

\* The invariant is about what the tree, the roots and the call are now.
LEMMA SameReport ==
    ASSUME ReportOK, UNCHANGED <<roots, callVars>>, ~disturbed' => ~disturbed /\ UNCHANGED tree
    PROVE  ReportOK'
<1>1. UNCHANGED <<at, asked, found, pending, todo, entry, reported, unlisted>>
    BY DEF callVars
<1>2. Told' = Told /\ Busy' = Busy
    BY <1>1 DEF Told, Busy
<1> SUFFICES ASSUME ~disturbed', at # "idle"
             PROVE  (Listing => Listing') /\ (Searching => Searching')
    BY <1>1 DEF ReportOK
<1>3. /\ Listing => Listing'
      /\ Walking => Walking'
    <2>1. Listing => Listing'
        BY <1>1, <1>2, SameView DEF Listing
    <2>2. \A file : Covered(file) => Covered(file)'
        BY <1>1, <1>2, SameView DEF Covered
    <2>3. Walking => Walking'
        BY <1>1, <1>2, <2>2, SameView DEF Walking
    <2> QED BY <2>1, <2>3
<1>4. Searching => Searching'
    BY <1>1, <1>2, <1>3, SameView DEF Searching
<1> QED BY <1>3, <1>4

LEMMA TopIsOpen ==
    ASSUME NEW top \in Paths
    PROVE  top \in OpenDirs(top) /\ \A l \in Below(top) : ~Within(top, l) /\ Within(l, top)
<1>1. \A l \in Below(top) : ~Within(top, l) /\ Within(l, top)
    BY WithinEachOther, LocationsArePaths DEF Below
<1> QED BY <1>1 DEF OpenDirs

LEMMA ReportBegins ==
    ASSUME BaseInv, ToolsInv, ReportOK, UNCHANGED <<tree, roots>>,
           \/ \E call \in Calls : Execute(call)
           \/ Authorize \/ ResolvePath \/ SystemCallFails \/ CheckKind \/ CheckSize \/ ReadText
    PROVE  ReportOK'
<1>1. CASE (\E call \in Calls : Execute(call)) \/ Authorize
    <2>1. at \in {"idle", "permit"} /\ at' \in {"permit", "resolve", "returned"}
          /\ UNCHANGED <<pending, todo, reported>>
        BY <1>1 DEF Execute, Authorize, Return
    <2> QED BY <2>1 DEF ReportOK, Listing, Searching, Busy
<1>2. CASE ResolvePath
    <2>1. at = "resolve" /\ at' \in {"kind", "returned"} /\ UNCHANGED <<asked, pending, todo, reported>>
        BY <1>2 DEF ResolvePath, Return
    <2>2. at' = "kind" => found' \in Locations /\ Clean(tree, found)'
        <3>1. asked.query \in Queried
            BY <2>1, CallIs DEF ToolsInv
        <3>2. at' = "kind" => Resolve(asked.query).code = "ok" /\ found' = Resolve(asked.query).path
            BY <1>2 DEF ResolvePath, Return
        <3>3. at' = "kind" => found' \in Locations /\ Clean(tree, found')
            BY <3>1, <3>2, ResolveIsAllowed DEF BaseInv
        <3> QED BY <3>3 DEF Clean
    <2> QED BY <2>1, <2>2 DEF ReportOK, Listing, Searching, Busy
<1>3. CASE CheckKind
    <2>1. /\ at = "kind" /\ at' \in {"size", "walk", "returned"}
          /\ at' = "size" => asked.tool = "read"
          /\ UNCHANGED <<asked, found, entry, reported, disturbed>>
          /\ pending = {} /\ todo = {} /\ reported = {} /\ todo' = {}
        BY <1>3 DEF CheckKind, Return, ReportOK
    <2>2. asked.tool = "list" => pending' = {}
        BY <1>3, <2>1 DEF CheckKind, Return
    <2>3. ASSUME asked.tool = "search", ~disturbed, at' = "walk"
          PROVE  Walking'
        <3>1. found \in Locations /\ found \in Paths /\ Clean(tree, found)
            BY <2>1, <2>3, LocationsArePaths DEF ReportOK, Searching
        <3>2. KindAt(found) = "dir" /\ pending' = {found}
            BY <1>3, <2>3 DEF CheckKind, Return
        <3>3. IsOpenable(found)
            <4>1. Real(found) = found
                BY <3>1, RealHere DEF BaseInv
            <4>2. found # <<>>
                BY <3>1, LocationsArePaths
            <4> QED BY <3>1, <3>2, <4>1, <4>2 DEF KindAt, IsOpenable
        <3>4. IsOpenable(found)'
            BY <2>1, <3>3, SameView
        <3>5. ToWalk(found)
            BY <3>1, TopIsOpen DEF ToWalk
        <3>6. \A dir \in pending' : ToWalk(dir)'
            BY <2>1, <3>2, <3>5, SameView
        <3>7. Told' = {}
            BY <2>1, <2>3 DEF Told
        <3>8. \A file \in FilesOf(found) : Within(file, found)
            BY <3>1, TopIsOpen DEF FilesOf
        <3>9. \A file \in FilesOf(found)' : Covered(file)'
            <4>1. FilesOf(found)' = FilesOf(found)
                BY <2>1, SameView
            <4>2. \A file \in FilesOf(found) : \E dir \in pending' : Within(file, dir)
                BY <3>2, <3>8
            <4> QED BY <4>1, <4>2 DEF Covered
        <3> QED BY <2>1, <3>4, <3>6, <3>7, <3>9 DEF Walking
    <2> QED BY <2>1, <2>2, <2>3 DEF ReportOK, Listing, Searching, Busy
<1>4. CASE CheckSize \/ ReadText
    <2>1. at \in {"size", "read"} /\ at' \in {"read", "returned"} /\ UNCHANGED asked
        BY <1>4 DEF CheckSize, ReadText, Return
    <2>2. asked.tool = "read"
        BY <2>1, CallIs DEF ReportOK, ToolsInv
    <2> QED BY <2>1, <2>2 DEF ReportOK
<1>5. CASE SystemCallFails
    <2>1. at # "idle" /\ at' = "returned" /\ UNCHANGED <<asked, pending, todo, reported>>
        BY <1>5, FailedCall
    <2> QED BY <2>1 DEF ReportOK, Listing, Searching, Busy
<1> QED BY <1>1, <1>2, <1>3, <1>4, <1>5

LookStep == ListEntries \/ WalkDirectory \/ TakeEntry \/ Describe \/ StatEntry \/ EndOfEntries \/ EndOfWalk

LEMMA LookStepIs ==
    ASSUME LookStep
    PROVE  /\ at = "walk" \/ Busy
           /\ at' \in {"walk", "entries", "describe", "stat", "returned"}
           /\ UNCHANGED <<asked, found, disturbed>>
BY DEF LookStep, Busy, ListEntries, WalkDirectory, TakeEntry, Describe, StatEntry, EndOfEntries,
       EndOfWalk, Return

\* What TakeEntry does with an entry.
LEMMA TakeEntryIs ==
    ASSUME BaseInv, ToolsInv, TakeEntry
    PROVE  \E e \in todo :
             /\ e \in Paths /\ todo' = todo \ {e}
             /\ UNCHANGED <<asked, found, pending, reported, unlisted>>
             /\ at = "entries"
             /\ IF /\ Exists(e) /\ Shown(Real(e))
                   /\ asked.tool = "list" \/ Matches(e, Real(e))
                THEN at' = "describe" /\ entry' = Real(e)
                ELSE at' = "entries" /\ entry' = entry
<1>1. PICK e \in todo :
          /\ todo' = todo \ {e} /\ at = "entries"
          /\ IF Resolve(Absolute(e)).code = "ok" /\ (asked.tool = "list" \/ Matches(e, Resolve(Absolute(e)).path))
             THEN at' = "describe" /\ entry' = Resolve(Absolute(e)).path
             ELSE UNCHANGED <<at, entry>>
    BY DEF TakeEntry
<1>2. e \in Paths
    BY DEF ToolsInv
<1>3. /\ Resolve(Absolute(e)).code = "ok" <=> Exists(e) /\ Shown(Real(e))
      /\ Resolve(Absolute(e)).code = "ok" => Resolve(Absolute(e)).path = Real(e)
    BY <1>2, ResolveOfEntry DEF BaseInv
<1>4. UNCHANGED <<asked, found, pending, reported, unlisted>>
    BY DEF TakeEntry
<1> QED BY <1>1, <1>2, <1>3, <1>4

\* Describing an entry and looking at its size only puts it among those reported.
LEMMA DescribeIs ==
    ASSUME Describe \/ StatEntry
    PROVE  /\ UNCHANGED <<asked, found, pending, todo, entry, unlisted>> /\ Busy
           /\ at' # "returned" => Told' = Told /\ Busy'
           /\ reported' \subseteq Told
           /\ at' = "returned" /\ outcome' = "ok" =>
                 asked.tool = "search" /\ matched' >= asked.limit
<1>1. CASE Describe
    BY <1>1 DEF Describe, Report, Told, Busy
<1>2. CASE StatEntry
    <2>1. /\ at = "stat" /\ UNCHANGED <<asked, found, pending, todo, entry, unlisted>>
          /\ reported' = reported \/ reported' = reported \cup {entry}
          /\ at' = "returned" \/ (at' = "entries" /\ reported' = reported \cup {entry})
        BY <1>2 DEF StatEntry, Report, Return
    <2>2. at' = "returned" /\ outcome' = "ok" => asked.tool = "search" /\ matched' >= asked.limit
        BY <1>2 DEF StatEntry, Report, Return
    <2> QED BY <2>1, <2>2 DEF Told, Busy
<1> QED BY <1>1, <1>2

LEMMA ListSteps ==
    ASSUME BaseInv, ToolsInv, ReportOK, LookStep, UNCHANGED <<tree, roots>>, asked.tool = "list"
    PROVE  /\ ReportOK'
           /\ at' = "returned" /\ outcome' = "ok" /\ ~disturbed => reported' = Listable(found)
<1>1. /\ at = "walk" \/ Busy
      /\ at' \in {"walk", "entries", "describe", "stat", "returned"}
      /\ UNCHANGED <<asked, found, disturbed>>
    BY LookStepIs
<1>2. at # "idle" /\ pending = {} /\ (~disturbed => Listing)
    BY <1>1 DEF ReportOK, Busy
<1>3. Listable(found)' = Listable(found) /\ Good(todo)' = Good(todo')
    BY <1>1, SameView
<1> SUFFICES /\ pending' = {} /\ at' # "walk"
             /\ ~disturbed /\ Busy' => Told' \cup Good(todo') = Listable(found)
             /\ at' = "returned" /\ outcome' = "ok" /\ ~disturbed => reported' = Listable(found)
    BY <1>1, <1>3 DEF ReportOK, Listing
<1>4. CASE ListEntries
    <2>1. /\ at = "walk" /\ UNCHANGED <<pending, reported>>
          /\ at' = "returned" => outcome' # "ok"
          /\ at' # "returned" => at' = "entries" /\ todo' = Entries(found)
        BY <1>4 DEF ListEntries, Return
    <2>2. at' = "entries" /\ ~disturbed => Told' = {}
        BY <1>2, <2>1 DEF Told, Listing
    <2> QED BY <1>1, <1>2, <2>1, <2>2, ViewIs DEF Busy
<1>5. CASE TakeEntry
    <2>1. PICK e \in todo :
             /\ todo' = todo \ {e} /\ UNCHANGED <<pending, reported>> /\ at = "entries"
             /\ IF Exists(e) /\ Shown(Real(e)) THEN at' = "describe" /\ entry' = Real(e)
                                               ELSE at' = "entries"
        BY <1>5, TakeEntryIs
    <2>2. CASE Exists(e) /\ Shown(Real(e))
        <3>1. Told' = reported \cup {Real(e)} /\ Told = reported
            BY <2>1, <2>2 DEF Told
        <3>2. Good(todo) = {Real(e)} \cup Good(todo')
            BY <2>1, <2>2 DEF Good
        <3> QED BY <1>2, <2>1, <2>2, <3>1, <3>2 DEF Listing, Busy
    <2>3. CASE ~(Exists(e) /\ Shown(Real(e)))
        <3>1. Told' = reported /\ Told = reported
            BY <2>1, <2>3 DEF Told
        <3>2. Good(todo) = Good(todo')
            BY <2>1, <2>3 DEF Good
        <3> QED BY <1>2, <2>1, <2>3, <3>1, <3>2 DEF Listing, Busy
    <2> QED BY <2>2, <2>3
<1>6. CASE Describe \/ StatEntry
    <2>1. /\ UNCHANGED <<pending, todo>> /\ Busy
          /\ at' # "returned" => Told' = Told /\ Busy'
          /\ at' = "returned" => outcome' # "ok"
        BY <1>6, DescribeIs
    <2>2. Busy' => at' # "returned"
        BY DEF Busy
    <2> QED BY <1>2, <2>1, <2>2 DEF Listing, Busy
<1>7. CASE EndOfEntries
    <2>1. at = "entries" /\ todo = {} /\ at' = "returned" /\ UNCHANGED <<pending, reported>>
        BY <1>2, <1>7 DEF EndOfEntries, Return
    <2>2. Told = reported /\ Good(todo) = {}
        BY <2>1 DEF Told, Good
    <2> QED BY <1>2, <2>1, <2>2 DEF Listing, Busy
<1>8. ~WalkDirectory /\ ~EndOfWalk
    BY DEF WalkDirectory, EndOfWalk
<1> QED BY <1>4, <1>5, <1>6, <1>7, <1>8 DEF LookStep

\* A directory that os.walk opens is open.
LEMMA WalkedIsOpen ==
    ASSUME BaseInv, ToolsInv, Walking, NEW dir \in pending
    PROVE  IF KindAt(dir) # "dir" \/ (dir # found /\ IsLink(dir))
           THEN dir \in Below(found) /\ tree[dir] = "link" /\ KindAt(dir) = "dir"
           ELSE dir \in OpenDirs(found)
<1>1. TreeOK /\ found \in Locations /\ found \in Paths /\ ToWalk(dir) /\ IsOpenable(found)
    BY DEF BaseInv, ToolsInv, Walking, IsOpenable
<1>2. CASE dir \in OpenDirs(found)
    <2>1. dir \in Locations /\ KindAt(dir) = "dir" /\ tree[dir] = "dir"
        BY <1>1, <1>2, OpenIs
    <2>2. ASSUME dir # found PROVE ~IsLink(dir)
        <3>1. dir \in Below(found)
            BY <1>2, <2>2 DEF OpenDirs
        <3>2. dir \in Paths /\ dir # <<>>
            BY <2>1, LocationsArePaths
        <3>3. Within(dir, dir) /\ Clean(tree, dir)
            BY <1>1, <1>2, <3>2, WithinItself, OpenIs
        <3>4. Clean(tree, Parent(dir)) /\ Parent(dir) \in Paths
            BY <2>1, <3>3, ParentIs, WithinTransitive, LocationsArePaths DEF Clean
        <3>5. Real(Parent(dir)) = Parent(dir)
            BY <1>1, <3>4, RealHere
        <3>6. Itself(dir) = dir
            BY <2>1, <3>5, ParentIs DEF Itself
        <3> QED BY <2>1, <3>6 DEF IsLink
    <2> QED BY <1>2, <2>1, <2>2
<1>3. CASE dir \notin OpenDirs(found)
    <2>1. dir \in Below(found) /\ Parent(dir) \in OpenDirs(found) /\ tree[dir] = "link" /\ KindAt(dir) = "dir"
        BY <1>1, <1>3 DEF ToWalk
    <2>2. Parent(dir) \in Locations /\ Clean(tree, Parent(dir)) /\ Within(dir, Parent(dir)) /\ dir # Parent(dir)
        BY <1>1, <2>1, OpenIs, ParentIs DEF Below
    <2>3. dir \in Children(Parent(dir))
        BY <2>1, <2>2 DEF Children, Below
    <2>4. IsLink(dir)
        BY <1>1, <2>1, <2>2, <2>3, InOpen
    <2>5. dir # found
        BY <2>1 DEF Below
    <2> QED BY <2>1, <2>4, <2>5
<1> QED BY <1>2, <1>3

\* Opening one of them keeps all that there is to find in view.
LEMMA WalkKeeps ==
    ASSUME BaseInv, ToolsInv, ReportOK, ~disturbed, UNCHANGED <<tree, roots>>,
           asked.tool = "search", WalkDirectory
    PROVE  Walking'
<1>1. at = "walk" /\ at' \in {"walk", "entries"} /\ UNCHANGED <<asked, found, entry, reported>>
    BY DEF WalkDirectory
<1>2. Walking /\ todo = {} /\ Told' = reported /\ Told = reported
    BY <1>1 DEF ReportOK, Searching, Told
<1>3. TreeOK /\ found \in Paths /\ IsOpenable(found) /\ IsOpenable(found)'
    BY <1>1, <1>2, SameView DEF BaseInv, ToolsInv, Walking
<1>4. /\ FilesOf(found)' = FilesOf(found) /\ Searchable(found)' = Searchable(found)
      /\ \A dir : ToWalk(dir)' = ToWalk(dir)
      /\ \A path : ToLookAt(path)' = ToLookAt(path)
      /\ \A path : Real(path)' = Real(path)
    BY <1>1, SameView
<1>5. PICK dir \in pending :
        IF KindAt(dir) # "dir" \/ (dir # found /\ IsLink(dir))
        THEN pending' = pending \ {dir} /\ UNCHANGED <<todo, unlisted>>
        ELSE LET directories == {e \in Entries(dir) : KindAt(e) = "dir"}
             IN  \/ /\ pending' = (pending \ {dir}) \cup Prune(directories)
                    /\ todo' = Entries(dir) \ directories
                    /\ UNCHANGED unlisted
                 \/ /\ pending' = pending \ {dir} /\ UNCHANGED todo
                    /\ unlisted' = unlisted \cup {dir}
    BY DEF WalkDirectory
<1> SUFFICES /\ \A d \in pending' : ToWalk(d)
             /\ \A path \in todo' : ToLookAt(path)
             /\ \A file \in FilesOf(found) :
                  Covered(file) => \/ Real(file) \in reported \/ file \in todo'
                                   \/ \E d \in pending' \cup unlisted' : Within(file, d)
    BY <1>2, <1>3, <1>4 DEF Walking, Covered
<1>6. \A file \in FilesOf(found) :
        /\ file \in Below(found) /\ file \in Locations /\ Parent(file) \in OpenDirs(found)
        /\ KindAt(file) \notin {"absent", "dir"}
    BY DEF FilesOf, Below
<1>7. CASE KindAt(dir) # "dir" \/ (dir # found /\ IsLink(dir))
    <2>1. dir \in Below(found) /\ tree[dir] = "link" /\ KindAt(dir) = "dir" /\ dir \in Paths
        BY <1>2, <1>7, WalkedIsOpen DEF ToolsInv
    <2>2. pending' = pending \ {dir} /\ todo' = {} /\ UNCHANGED unlisted
        BY <1>2, <1>5, <1>7
    <2>3. ASSUME NEW file \in FilesOf(found), Within(file, dir)
          PROVE  FALSE
        <3>1. file # dir
            BY <1>6, <2>1
        <3>2. Within(Parent(file), dir)
            BY <1>6, <2>1, <2>3, <3>1, ParentWithin
        <3> QED BY <1>6, <2>1, <3>2 DEF OpenDirs
    <2> QED BY <1>2, <2>2, <2>3 DEF Walking, Covered
<1>8. CASE pending' = pending \ {dir} /\ UNCHANGED todo /\ unlisted' = unlisted \cup {dir}
    BY <1>2, <1>8 DEF Walking, Covered
<1>9. CASE /\ ~(KindAt(dir) # "dir" \/ (dir # found /\ IsLink(dir)))
           /\ ~(pending' = pending \ {dir} /\ UNCHANGED todo /\ unlisted' = unlisted \cup {dir})
    <2> DEFINE directories == {e \in Entries(dir) : KindAt(e) = "dir"}
    <2>1. /\ pending' = (pending \ {dir}) \cup Prune(directories)
          /\ todo' = Entries(dir) \ directories /\ UNCHANGED unlisted
        BY <1>5, <1>9
    <2>2. dir \in OpenDirs(found)
        BY <1>2, <1>9, WalkedIsOpen
    <2>3. /\ dir \in Locations /\ dir \in Paths /\ Within(dir, found) /\ Clean(tree, dir)
          /\ KindAt(dir) = "dir"
        BY <1>3, <2>2, OpenIs
    <2>4. Entries(dir) = {l \in Children(dir) : tree[l] # "absent"}
        BY <1>3, <2>3, EntriesOfClean
    <2>5. ASSUME NEW l \in Children(dir)
          PROVE  /\ l \in Below(found) /\ l \in Paths /\ Parent(l) = dir
                 /\ tree[l] # "link" => Real(l) = l /\ KindAt(l) = tree[l]
        <3>1. l \in Below(dir) /\ Parent(l) = dir
            BY DEF Children
        <3>2. l \in Below(found)
            BY <1>3, <2>3, <3>1, BelowIs
        <3>3. l \in Paths /\ (tree[l] # "link" => Real(l) = l /\ KindAt(l) = tree[l])
            BY <1>3, <2>3, InOpen
        <3> QED BY <3>1, <3>2, <3>3
    <2>6. Prune(directories) = {e \in directories : Exists(e) /\ Shown(Real(e))}
        <3>1. \A e \in directories : e \in Paths
            BY <2>4, <2>5
        <3>2. \A e \in directories : Resolve(Absolute(e)).code = "ok" <=> Exists(e) /\ Shown(Real(e))
            BY <3>1, ResolveOfEntry DEF BaseInv
        <3> HIDE DEF directories
        <3> QED BY <3>2 DEF Prune
    <2>7. ASSUME NEW e \in Prune(directories)
          PROVE  ToWalk(e)
        <3>1. e \in Children(dir) /\ KindAt(e) = "dir" /\ Shown(Real(e))
            BY <2>4, <2>6
        <3>2. CASE tree[e] = "link"
            BY <2>2, <2>5, <3>1, <3>2 DEF ToWalk
        <3>3. CASE tree[e] # "link"
            <4>1. tree[e] = "dir" /\ Shown(e) /\ e \in Below(found) /\ e \in Locations /\ Parent(e) = dir
                BY <2>5, <3>1, <3>3 DEF Below
            <4>2. ASSUME NEW l \in Below(found), Within(e, l)
                  PROVE  tree[l] = "dir" /\ Shown(l)
                <5>1. l = e \/ Within(dir, l)
                    BY <4>1, <4>2, ParentWithin, LocationsArePaths DEF Below
                <5> QED BY <2>2, <4>1, <5>1 DEF OpenDirs
            <4>3. e \in OpenDirs(found)
                BY <4>1, <4>2 DEF OpenDirs
            <4> QED BY <4>3 DEF ToWalk
        <3> QED BY <3>2, <3>3
    <2>8. \A d \in pending' : ToWalk(d)
        BY <1>2, <2>1, <2>7 DEF Walking
    <2>9. \A path \in todo' : ToLookAt(path)
        BY <2>1, <2>2, <2>4, <2>5 DEF ToLookAt
    <2>10. ASSUME NEW file \in FilesOf(found), Within(file, dir)
           PROVE  file \in todo' \/ \E d \in pending' : Within(file, d)
        <3>1. file \in Below(dir)
            BY <1>6, <2>3, <2>10 DEF Below
        <3>2. PICK c \in Children(dir) : Within(file, c)
            BY <2>3, <3>1, ChildTowards
        <3>3. CASE c = file
            <4>1. tree[file] # "absent"
                BY <1>6, <2>5, <3>2, <3>3
            <4> QED BY <1>6, <2>1, <2>4, <3>2, <3>3, <4>1
        <3>4. CASE c # file
            <4>1. Within(Parent(file), c)
                BY <1>6, <2>5, <3>2, <3>4, ParentWithin
            <4>2. tree[c] = "dir" /\ Shown(c)
                BY <1>6, <2>5, <3>2, <4>1 DEF OpenDirs
            <4>3. Real(c) = c /\ KindAt(c) = "dir"
                BY <2>5, <3>2, <4>2
            <4>4. c \in directories /\ Exists(c) /\ Shown(Real(c))
                BY <2>4, <3>2, <4>2, <4>3 DEF Exists
            <4> QED BY <2>1, <2>6, <3>2, <4>4
        <3> QED BY <3>3, <3>4
    <2>11. \A file \in FilesOf(found) :
              Covered(file) => \/ Real(file) \in reported \/ file \in todo'
                               \/ \E d \in pending' \cup unlisted' : Within(file, d)
        <3> HIDE DEF directories
        <3> QED BY <1>2, <2>1, <2>10 DEF Covered
    <2> QED BY <2>8, <2>9, <2>11
<1> QED BY <1>7, <1>8, <1>9

LEMMA SearchSteps ==
    ASSUME BaseInv, ToolsInv, ReportOK, LookStep, UNCHANGED <<tree, roots>>, asked.tool = "search"
    PROVE  /\ ReportOK'
           /\ at' = "returned" /\ outcome' = "ok" /\ ~disturbed =>
                /\ reported' \subseteq Searchable(found)
                /\ matched' < asked.limit => SearchableOutside(found, unlisted) \subseteq reported'
<1>1. /\ at = "walk" \/ Busy
      /\ at' \in {"walk", "entries", "describe", "stat", "returned"}
      /\ UNCHANGED <<asked, found, disturbed>>
    BY LookStepIs
<1>2. at # "idle" /\ (~disturbed => Walking)
    BY <1>1 DEF ReportOK, Busy, Searching
<1>3. /\ FilesOf(found)' = FilesOf(found) /\ Searchable(found)' = Searchable(found)
      /\ \A dir : ToWalk(dir)' = ToWalk(dir)
      /\ \A path : ToLookAt(path)' = ToLookAt(path)
      /\ \A path : Real(path)' = Real(path)
      /\ IsOpenable(found)' = IsOpenable(found)
    BY <1>1, SameView
<1>4. Searchable(found) = {Real(file) : file \in FilesOf(found)}
    BY DEF Searchable
<1> SUFFICES ASSUME ~disturbed
             PROVE  /\ at' # "returned" => Walking' /\ (at' = "walk" => todo' = {})
                    /\ at' = "returned" /\ outcome' = "ok" =>
                         /\ reported' \subseteq Searchable(found)
                         /\ matched' < asked.limit => SearchableOutside(found, unlisted) \subseteq reported'
    BY <1>1, <1>2 DEF ReportOK, Searching, Busy
<1>5. CASE WalkDirectory
    <2>1. at' \in {"walk", "entries"} /\ (at' = "walk" => todo' = todo) /\ at = "walk"
        BY <1>5 DEF WalkDirectory
    <2>2. todo = {}
        BY <2>1 DEF ReportOK, Searching
    <2> QED BY <1>5, <2>1, <2>2, WalkKeeps
<1>6. CASE TakeEntry
    <2>1. PICK e \in todo :
             /\ todo' = todo \ {e} /\ UNCHANGED <<pending, reported, unlisted>> /\ at = "entries"
             /\ IF Exists(e) /\ Shown(Real(e)) /\ Matches(e, Real(e))
                THEN at' = "describe" /\ entry' = Real(e)
                ELSE at' = "entries"
        BY <1>6, TakeEntryIs
    <2>2. ToLookAt(e) /\ Told = reported
        BY <1>2, <2>1 DEF Walking, Told
    <2>3. CASE Exists(e) /\ Shown(Real(e)) /\ Matches(e, Real(e))
        <3>1. e \in FilesOf(found)
            BY <2>2, <2>3 DEF FilesOf, ToLookAt, Exists
        <3>2. Told' = reported \cup {Real(e)} /\ at' = "describe"
            BY <2>1, <2>3 DEF Told
        <3>3. \A file \in FilesOf(found) : Covered(file) => Covered(file)'
            BY <1>3, <2>1, <2>2, <3>2 DEF Covered
        <3>4. Told' \subseteq Searchable(found)
            BY <1>2, <1>4, <2>2, <3>1, <3>2 DEF Walking
        <3>5. Walking'
            BY <1>2, <1>3, <2>1, <3>3, <3>4 DEF Walking
        <3> QED BY <3>2, <3>5
    <2>4. CASE ~(Exists(e) /\ Shown(Real(e)) /\ Matches(e, Real(e)))
        <3>1. e \notin FilesOf(found)
            BY <2>4 DEF FilesOf, Exists
        <3>2. Told' = reported /\ at' = "entries"
            BY <2>1, <2>4 DEF Told
        <3>3. \A file \in FilesOf(found) : Covered(file) => Covered(file)'
            BY <1>3, <2>1, <2>2, <3>1, <3>2 DEF Covered
        <3>4. Walking'
            BY <1>2, <1>3, <2>1, <2>2, <3>2, <3>3 DEF Walking
        <3> QED BY <3>2, <3>4
    <2> QED BY <2>3, <2>4
<1>7. CASE Describe \/ StatEntry
    <2>1. /\ UNCHANGED <<pending, todo, unlisted>> /\ Busy
          /\ at' # "returned" => Told' = Told /\ Busy'
          /\ reported' \subseteq Told
          /\ at' = "returned" /\ outcome' = "ok" => matched' >= asked.limit
        BY <1>7, DescribeIs
    <2>2. at' # "returned" => Walking' /\ at' # "walk"
        <3> SUFFICES ASSUME at' # "returned"
                     PROVE  Walking' /\ at' # "walk"
            OBVIOUS
        <3>1. \A file \in FilesOf(found) : Covered(file) => Covered(file)'
            BY <1>3, <2>1 DEF Covered
        <3>2. Walking'
            BY <1>2, <1>3, <2>1, <3>1 DEF Walking
        <3> QED BY <2>1, <3>2 DEF Busy
    <2>3. reported' \subseteq Searchable(found)
        BY <1>2, <2>1 DEF Walking
    <2>4. at' = "returned" /\ outcome' = "ok" => ~(matched' < asked.limit)
        <3>1. asked.limit \in Nat /\ matched' \in Nat
            <4>1. asked \in Calls /\ matched \in Nat
                BY <1>2 DEF ToolsInv
            <4>2. asked.limit \in 1..1000
                BY <4>1, CallIs
            <4>3. matched' \in {matched, matched + 1}
                BY <1>7 DEF Describe, StatEntry, Report
            <4> QED BY <4>1, <4>2, <4>3
        <3> QED BY <2>1, <3>1
    <2> QED BY <2>2, <2>3, <2>4
<1>8. CASE EndOfEntries \/ EndOfWalk
    <2>1. /\ UNCHANGED <<pending, todo, reported, unlisted>> /\ Told = reported /\ Told' = reported
          /\ todo = {} /\ at' \in {"walk", "returned"}
          /\ at' = "returned" => pending = {}
        <3>1. CASE EndOfEntries
            BY <3>1 DEF EndOfEntries, Return, Told
        <3>2. CASE EndOfWalk
            <4>1. todo = {}
                BY <3>2 DEF EndOfWalk, ReportOK, Searching
            <4> QED BY <3>2, <4>1 DEF EndOfWalk, Return, Told
        <3> QED BY <1>8, <3>1, <3>2
    <2>2. \A file \in FilesOf(found) : Covered(file) => Covered(file)'
        BY <1>3, <2>1 DEF Covered
    <2>3. Walking'
        BY <1>2, <1>3, <2>1, <2>2 DEF Walking
    <2>4. at' = "returned" =>
             reported \subseteq Searchable(found) /\ SearchableOutside(found, unlisted) \subseteq reported
        BY <1>2, <2>1 DEF Walking, Covered, SearchableOutside
    <2> QED BY <2>1, <2>3, <2>4
<1>9. ~ListEntries
    BY DEF ListEntries
<1> QED BY <1>5, <1>6, <1>7, <1>8, <1>9 DEF LookStep

LEMMA ReportStep == BaseInv /\ ToolsInv /\ ReportOK /\ [SandboxNext]_allVars => ReportOK'
<1> SUFFICES ASSUME BaseInv, ToolsInv, ReportOK, [SandboxNext]_allVars
             PROVE  ReportOK'
    OBVIOUS
<1>1. CASE ToolStep
    <2>1. UNCHANGED <<tree, roots>>
        BY <1>1 DEF ToolStep
    <2>2. CASE LookStep
        <3>1. at # "idle" /\ at \notin {"size", "read", "permit"}
            BY <2>2, LookStepIs DEF Busy
        <3>2. CASE asked.tool = "read"
            <4>1. at \in {"walk", "entries", "describe", "stat"} /\ UNCHANGED asked
                  /\ at' \in {"walk", "entries", "describe", "stat", "returned"}
                BY <2>2, LookStepIs DEF Busy
            <4> QED BY <3>2, <4>1 DEF ReportOK
        <3>3. asked.tool \in {"list", "read", "search"}
            BY <3>1, CallIs DEF ToolsInv
        <3> QED BY <2>1, <2>2, <3>2, <3>3, ListSteps, SearchSteps
    <2> QED BY <1>1, <2>1, <2>2, ReportBegins DEF ToolStep, LookStep
<1>2. CASE ~ToolStep
    <2>1. UNCHANGED <<roots, callVars>> /\ (~disturbed' => ~disturbed /\ UNCHANGED tree)
        BY <1>2, OthersSteps DEF SandboxNext, allVars
    <2> QED BY <2>1, SameReport
<1> QED BY <1>1, <1>2

\* A listing during which the tree did not change reports exactly what there is to show.  A
\* search reports nothing else either, at most max_results of it, and when it was not cut
\* off, it leaves out only what lies below the directories that could not be listed, which
\* os.walk skips without a word: in any order of the entries and of the directories walked,
\* for any links, blocked names, roots, and any directories that refuse to be listed.
THEOREM ReportIsCompleteHolds == SandboxSpec => ReportIsComplete
<1> DEFINE Complete ==
        at # "returned" /\ at' = "returned" /\ outcome' = "ok" /\ ~disturbed =>
          /\ asked.tool = "list" => reported' = Listable(found)
          /\ asked.tool = "search" =>
                /\ reported' \subseteq Searchable(found) /\ matched' <= asked.limit
                /\ matched' < asked.limit => SearchableOutside(found, unlisted) \subseteq reported'
<1>1. SandboxInit => ReportOK
    <2> SUFFICES ASSUME SandboxInit
                 PROVE  ReportOK
        OBVIOUS
    <2>1. at = "idle" /\ pending = {} /\ todo = {} /\ reported = {}
        BY DEF SandboxInit, ToolsInit
    <2> QED BY <2>1 DEF ReportOK
<1>2. BaseInv /\ ToolsInv /\ ToolsInv' /\ ReportOK /\ [SandboxNext]_allVars => [Complete]_callVars
    <2> SUFFICES ASSUME BaseInv, ToolsInv, ToolsInv', ReportOK, [SandboxNext]_allVars,
                        at # "returned", at' = "returned", outcome' = "ok", ~disturbed
                 PROVE  /\ asked.tool = "list" => reported' = Listable(found)
                        /\ asked.tool = "search" =>
                             /\ reported' \subseteq Searchable(found) /\ matched' <= asked.limit
                             /\ matched' < asked.limit =>
                                    SearchableOutside(found, unlisted) \subseteq reported'
        OBVIOUS
    <2>1. ToolStep /\ UNCHANGED <<tree, roots>>
        BY OthersSteps DEF SandboxNext, allVars, callVars, ToolStep
    <2>2. CASE LookStep
        <3>1. UNCHANGED asked /\ at # "idle"
            BY <2>2, LookStepIs DEF Busy
        <3>2. asked.tool = "search" => matched' <= asked.limit
            BY <3>1 DEF ToolsInv
        <3> QED BY <2>1, <2>2, <3>2, ListSteps, SearchSteps
    <2>3. CASE CheckSize \/ ReadText
        BY <2>3 DEF CheckSize, ReadText, ReportOK
    <2>4. CASE (\E call \in Calls : Execute(call)) \/ Authorize \/ ResolvePath \/ SystemCallFails \/ CheckKind
        <3>1. outcome' # "ok"
            BY <2>4, FailedCall DEF Execute, Authorize, ResolvePath, CheckKind, Return
        <3> QED BY <3>1
    <2> QED BY <2>1, <2>2, <2>3, <2>4 DEF ToolStep, LookStep
<1>3. SandboxSpec => [][Complete]_callVars
    BY <1>1, <1>2, ReportStep, SandboxIsInOrder, ToolsAreInOrder, PTL DEF SandboxSpec
<1> QED BY <1>3 DEF ReportIsComplete

-----------------------------------------------------------------------------
(* resolve, asked at any time for any path *)

ResolveIsExact ==
    /\ \A query \in Queried : Resolve(query).code = "ok" =>
          LET path == Resolve(query).path
          IN  path \in Locations /\ Clean(tree, path) /\ Allowed(path) /\ tree[path] # "absent"
    /\ \A path \in Paths : Resolve(Absolute(path)).code = "ok" <=> Exists(path) /\ Shown(Real(path))

\* Whatever path is asked for, and whatever has become of the tree by then, resolve lets
\* only something through that is there, allowed, and behind no link; and it lets an
\* absolute path through exactly if it leads to something that the roots show.
THEOREM ResolveIsAlwaysExact == SandboxSpec => []ResolveIsExact
<1>1. BaseInv => ResolveIsExact
    <2> SUFFICES ASSUME BaseInv
                 PROVE  ResolveIsExact
        OBVIOUS
    <2>1. TreeOK /\ RootsOK
        BY DEF BaseInv
    <2>2. \A query \in Queried : Resolve(query).code = "ok" =>
             LET path == Resolve(query).path
             IN  path \in Locations /\ Clean(tree, path) /\ Allowed(path) /\ tree[path] # "absent"
        BY <2>1, ResolveIsAllowed
    <2>3. \A path \in Paths : Resolve(Absolute(path)).code = "ok" <=> Exists(path) /\ Shown(Real(path))
        BY <2>1, ResolveOfEntry
    <2> QED BY <2>2, <2>3 DEF ResolveIsExact
<1> QED BY <1>1, SandboxIsInOrder, PTL
=============================================================================
