-------------------------- MODULE RootStaging_proofs --------------------------
(***************************************************************************)
(* What RootStaging does for any number of exec, any paths and any host:   *)
(* its types, and what holds as long as the links of the host stay as they *)
(* are.  Paths are resolved by a recursive function; the first part proves *)
(* that it exists, and how it answers while a file system only grows.      *)
(***************************************************************************)
EXTENDS RootStaging, SequenceTheorems, WellFoundedInduction, TLAPS

-----------------------------------------------------------------------------
(* Induction over numbers, with a set for the predicate.                   *)

LEMMA LeastNumber ==
  ASSUME NEW T, T \subseteq Nat, T # {}
  PROVE  \E n \in T : \A m \in T : n <= m
<1>1. IsWellFoundedOn(OpToRel(<, Nat), Nat)
  BY NatLessThanWellFounded
<1>2. PICK n \in T : \A m \in T : ~ (<<m, n>> \in OpToRel(<, Nat))
  BY <1>1, WFMin
<1>3. \A m \in T : ~ (m < n)
  BY <1>2, Zenon DEF OpToRel
<1>4. \A m \in T : n <= m
  BY <1>3
<1> QED
  BY <1>4

LEMMA SetInduction ==
  ASSUME NEW T, 0 \in T, \A n \in Nat : n \in T => n + 1 \in T
  PROVE  Nat \subseteq T
<1> SUFFICES ASSUME Nat \ T # {}
             PROVE  FALSE
  OBVIOUS
<1>1. PICK n \in Nat \ T : \A m \in Nat \ T : n <= m
  <2>1. Nat \ T \subseteq Nat
    OBVIOUS
  <2> QED
    BY <2>1, LeastNumber
<1>2. n # 0 /\ n - 1 \in Nat /\ n - 1 \in T
  BY <1>1
<1> QED
  BY <1>1, <1>2

-----------------------------------------------------------------------------
(* Paths.                                                                  *)

Texts == Names \cup Tops

LEMMA ParentOf ==
  ASSUME NEW S, NEW s \in Seq(S), Len(s) > 0
  PROVE  /\ Parent(s) \in Seq(S) /\ Len(s) \in Nat /\ Len(Parent(s)) = Len(s) - 1
         /\ \A i \in 1..(Len(s) - 1) : Parent(s)[i] = s[i]
         /\ s[Len(s)] \in S
         /\ s = Append(Parent(s), s[Len(s)])
<1>1. Len(s) \in Nat /\ \A i \in 1..Len(s) : s[i] \in S
  BY LenProperties, ElementOfSeq
<1>2. \A i \in 1..(Len(s) - 1) : s[i] \in S
  BY <1>1
<1>3. /\ SubSeq(s, 1, Len(s) - 1) \in Seq(S)
      /\ Len(SubSeq(s, 1, Len(s) - 1)) = IF 1 <= Len(s) - 1 THEN (Len(s) - 1) - 1 + 1 ELSE 0
      /\ \A i \in 1..((Len(s) - 1) - 1 + 1) : SubSeq(s, 1, Len(s) - 1)[i] = s[1 + i - 1]
  <2>1. 1 \in Int /\ Len(s) - 1 \in Int
    BY <1>1
  <2> QED
    BY <1>2, <2>1, SubSeqProperties
<1>4. /\ Parent(s) \in Seq(S) /\ Len(Parent(s)) = Len(s) - 1
      /\ \A i \in 1..(Len(s) - 1) : Parent(s)[i] = s[i]
  <2>1. ASSUME NEW i \in 1..(Len(s) - 1)
        PROVE  SubSeq(s, 1, Len(s) - 1)[i] = s[i]
    <3>1. i \in 1..((Len(s) - 1) - 1 + 1) /\ 1 + i - 1 = i
      BY <1>1
    <3>2. SubSeq(s, 1, Len(s) - 1)[i] = s[1 + i - 1]
      BY <1>3, <3>1
    <3> QED
      BY <3>1, <3>2
  <2>2. Len(SubSeq(s, 1, Len(s) - 1)) = Len(s) - 1
    <3> DEFINE u == SubSeq(s, 1, Len(s) - 1)
    <3> HIDE DEF u
    <3>1. Len(u) = IF 1 <= Len(s) - 1 THEN (Len(s) - 1) - 1 + 1 ELSE 0
      BY <1>3, Zenon DEF u
    <3>2. PICK n \in Nat : Len(s) = n
      BY <1>1
    <3>3. Len(u) = Len(s) - 1
      BY <3>1, <3>2
    <3> QED
      BY <3>3 DEF u
  <2> QED
    BY <1>3, <2>1, <2>2 DEF Parent
<1>5. s = Append(Parent(s), s[Len(s)])
  BY <1>1, <1>4
<1> QED
  BY <1>1, <1>4, <1>5

LEMMA ParentOfAppend ==
  ASSUME NEW S, NEW s \in Seq(S), NEW x \in S
  PROVE  /\ Append(s, x) \in Seq(S) /\ Len(s) \in Nat
         /\ Len(Append(s, x)) = Len(s) + 1
         /\ Append(s, x)[Len(s) + 1] = x
         /\ Parent(Append(s, x)) = s
         /\ s # <<>> => Append(s, x)[1] = s[1]
<1>1. /\ Append(s, x) \in Seq(S) /\ Len(s) \in Nat /\ Len(Append(s, x)) = Len(s) + 1
      /\ Append(s, x)[Len(s) + 1] = x
      /\ \A i \in 1..Len(s) : Append(s, x)[i] = s[i]
  BY AppendProperties, LenProperties
<1>2. /\ Parent(Append(s, x)) \in Seq(S) /\ Len(Parent(Append(s, x))) = Len(s)
      /\ \A i \in 1..Len(s) : Parent(Append(s, x))[i] = Append(s, x)[i]
  <2> DEFINE a == Append(s, x)
  <2> HIDE DEF a
  <2>1. a \in Seq(S) /\ Len(a) > 0 /\ Len(a) - 1 = Len(s)
    BY <1>1 DEF a
  <2>2. /\ Parent(a) \in Seq(S) /\ Len(Parent(a)) = Len(s)
        /\ \A i \in 1..(Len(a) - 1) : Parent(a)[i] = a[i]
    BY <2>1, ParentOf
  <2> QED
    BY <2>1, <2>2 DEF a
<1>3. Parent(Append(s, x)) = s
  BY <1>1, <1>2, SeqEqual
<1>4. s # <<>> => Append(s, x)[1] = s[1]
  BY <1>1, EmptySeq
<1> QED
  BY <1>1, <1>3, <1>4

LEMMA RelativeParent ==
  ASSUME NEW p \in Relative, p # <<>>
  PROVE  /\ Parent(p) \in Relative
         /\ Len(p) \in Nat /\ Len(p) > 0 /\ Len(Parent(p)) = Len(p) - 1
         /\ \A i \in 1..(Len(p) - 1) : Parent(p)[i] = p[i]
<1>1. p \in Seq(Names) /\ Parent(p) \in Relative
  BY RelativeAssumption DEF Parent
<1>2. Len(p) \in Nat /\ Len(p) > 0
  BY <1>1, EmptySeq
<1> QED
  BY <1>1, <1>2, ParentOf

\* A location is one top and a relative path.
LEMMA BelowTop ==
  ASSUME NEW t \in Tops, NEW p \in Relative
  PROVE  /\ <<t>> \o p \in Locations
         /\ <<t>> \o p \in Seq(Texts)
         /\ Len(p) \in Nat
         /\ Len(<<t>> \o p) = Len(p) + 1
         /\ (<<t>> \o p)[1] = t
         /\ \A i \in 1..Len(p) : (<<t>> \o p)[i + 1] = p[i]
         /\ p # <<>> => Parent(<<t>> \o p) = <<t>> \o Parent(p)
<1>1. p \in Seq(Texts) /\ <<t>> \in Seq(Texts) /\ Len(<<t>>) = 1 /\ Len(p) \in Nat
  BY RelativeAssumption DEF Texts
<1>2. <<t>> \o p \in Locations
  BY DEF Locations
<1>3. /\ <<t>> \o p \in Seq(Texts)
      /\ Len(<<t>> \o p) = Len(p) + 1
      /\ (<<t>> \o p)[1] = t
      /\ \A i \in 1..Len(p) : (<<t>> \o p)[i + 1] = p[i]
  BY <1>1
<1>4. ASSUME p # <<>>
      PROVE  Parent(<<t>> \o p) = <<t>> \o Parent(p)
  <2>1. Len(p) > 0
    BY <1>4, RelativeParent
  <2>2. /\ Parent(p) \in Seq(Texts) /\ Len(Parent(p)) = Len(p) - 1
        /\ \A i \in 1..(Len(p) - 1) : Parent(p)[i] = p[i]
    BY <1>1, <2>1, ParentOf
  <2>3. /\ Parent(<<t>> \o p) \in Seq(Texts) /\ Len(Parent(<<t>> \o p)) = Len(p)
        /\ \A i \in 1..Len(p) : Parent(<<t>> \o p)[i] = (<<t>> \o p)[i]
    <3> DEFINE a == <<t>> \o p
    <3> HIDE DEF a
    <3>1. a \in Seq(Texts) /\ Len(a) > 0 /\ Len(a) - 1 = Len(p)
      BY <1>1, <1>3 DEF a
    <3>2. /\ Parent(a) \in Seq(Texts) /\ Len(Parent(a)) = Len(p)
          /\ \A i \in 1..(Len(a) - 1) : Parent(a)[i] = a[i]
      BY <3>1, ParentOf
    <3> QED
      BY <3>1, <3>2 DEF a
  <2>4. /\ <<t>> \o Parent(p) \in Seq(Texts) /\ Len(<<t>> \o Parent(p)) = Len(p)
        /\ (<<t>> \o Parent(p))[1] = t
        /\ \A i \in 1..(Len(p) - 1) : (<<t>> \o Parent(p))[i + 1] = p[i]
    BY <1>1, <2>1, <2>2
  <2>5. \A i \in 1..Len(p) : Parent(<<t>> \o p)[i] = (<<t>> \o Parent(p))[i]
    <3> TAKE i \in 1..Len(p)
    <3>1. CASE i = 1
      BY <3>1, <1>3, <2>1, <2>3, <2>4
    <3>2. CASE i # 1
      <4>1. i - 1 \in 1..(Len(p) - 1) /\ i - 1 \in 1..Len(p) /\ (i - 1) + 1 = i
        BY <3>2, <1>1
      <4> QED
        BY <4>1, <1>3, <2>3, <2>4
    <3> QED
      BY <3>1, <3>2
  <2> QED
    BY <2>3, <2>4, <2>5, SeqEqual
<1> QED
  BY <1>1, <1>2, <1>3, <1>4

LEMMA LocationFacts ==
  ASSUME NEW l \in Locations
  PROVE  /\ l \in Seq(Texts) /\ Len(l) \in Nat /\ Len(l) >= 1 /\ l # <<>>
         /\ l[1] \in Tops
         /\ Len(l) > 1 => /\ Parent(l) \in Locations /\ Len(Parent(l)) = Len(l) - 1
                         /\ Parent(l)[1] = l[1]
                         /\ l[Len(l)] \in Texts
                         /\ l = Append(Parent(l), l[Len(l)])
<1>1. PICK t \in Tops, p \in Relative : l = <<t>> \o p
  BY DEF Locations
<1>2. /\ l \in Seq(Texts) /\ Len(p) \in Nat /\ Len(l) = Len(p) + 1 /\ l[1] = t
      /\ p # <<>> => Parent(l) = <<t>> \o Parent(p)
  BY <1>1, BelowTop
<1>3. Len(l) \in Nat /\ Len(l) >= 1 /\ l # <<>>
  BY <1>2, EmptySeq
<1>4. ASSUME Len(l) > 1
      PROVE  /\ Parent(l) \in Locations /\ Len(Parent(l)) = Len(l) - 1
             /\ Parent(l)[1] = l[1]
             /\ l[Len(l)] \in Texts
             /\ l = Append(Parent(l), l[Len(l)])
  <2>1. p # <<>>
    BY <1>2, <1>4
  <2>2. Parent(p) \in Relative
    BY <2>1, RelativeParent
  <2>3. Parent(l) \in Locations /\ Parent(l)[1] = t
    <3>1. <<t>> \o Parent(p) \in Locations /\ (<<t>> \o Parent(p))[1] = t
      BY <2>2, BelowTop
    <3> QED
      BY <1>2, <2>1, <3>1
  <2>4. /\ Len(Parent(l)) = Len(l) - 1 /\ l[Len(l)] \in Texts
        /\ l = Append(Parent(l), l[Len(l)])
    BY <1>2, <1>3, ParentOf
  <2> QED
    BY <1>2, <2>3, <2>4
<1> QED
  BY <1>2, <1>3, <1>4

LEMMA AppendLocation ==
  ASSUME NEW s \in Seq(Texts), s # <<>>, NEW x \in Texts, Append(s, x) \in Locations
  PROVE  /\ s \in Locations /\ Len(Append(s, x)) > 1
         /\ Parent(Append(s, x)) = s /\ Append(s, x)[1] = s[1]
<1>1. /\ Len(s) \in Nat /\ Len(Append(s, x)) = Len(s) + 1
      /\ Parent(Append(s, x)) = s /\ Append(s, x)[1] = s[1]
  BY ParentOfAppend
<1>2. Len(s) > 0
  BY EmptySeq
<1>3. Len(Append(s, x)) > 1
  BY <1>1, <1>2
<1> QED
  BY <1>1, <1>3, LocationFacts

LEMMA PrefixOf ==
  ASSUME NEW S, NEW s \in Seq(S), NEW n \in 0..Len(s)
  PROVE  /\ Prefix(s, n) \in Seq(S) /\ Len(Prefix(s, n)) = n
         /\ \A i \in 1..n : Prefix(s, n)[i] = s[i]
<1>1. Len(s) \in Nat /\ \A i \in 1..Len(s) : s[i] \in S
  BY LenProperties, ElementOfSeq
<1>2. n \in Nat /\ n <= Len(s) /\ \A i \in 1..n : s[i] \in S
  BY <1>1
<1>3. /\ SubSeq(s, 1, n) \in Seq(S)
      /\ Len(SubSeq(s, 1, n)) = IF 1 <= n THEN n - 1 + 1 ELSE 0
      /\ \A i \in 1..(n - 1 + 1) : SubSeq(s, 1, n)[i] = s[1 + i - 1]
  <2>1. 1 \in Int /\ n \in Int
    BY <1>2
  <2> QED
    BY <1>2, <2>1, SubSeqProperties
<1>4. Len(SubSeq(s, 1, n)) = n
  <2> DEFINE u == SubSeq(s, 1, n)
  <2> HIDE DEF u
  <2>1. Len(u) = IF 1 <= n THEN n - 1 + 1 ELSE 0
    BY <1>3, Zenon DEF u
  <2>2. Len(u) = n
    BY <1>2, <2>1
  <2> QED
    BY <2>2 DEF u
<1>5. ASSUME NEW i \in 1..n
      PROVE  SubSeq(s, 1, n)[i] = s[i]
  <2>1. i \in 1..(n - 1 + 1) /\ 1 + i - 1 = i
    BY <1>2
  <2>2. SubSeq(s, 1, n)[i] = s[1 + i - 1]
    BY <1>3, <2>1
  <2> QED
    BY <2>1, <2>2
<1> QED
  BY <1>3, <1>4, <1>5 DEF Prefix

-----------------------------------------------------------------------------
(* Resolution.  F is what Full is while the file system is f.              *)

Walk(F, f, p) ==
  IF Len(p) = 1 THEN p
  ELSE LET at == Append(F[Parent(p)], p[Len(p)])
       IN  IF at \in Locations /\ f[at].kind = "link" THEN f[at].to ELSE at

Resolves(F, f) == F = [p \in Locations |-> Walk(F, f, p)]

\* A step of the walk needs what is resolved of the directory above only.
LEMMA WalkFromParent ==
  ASSUME NEW F, NEW G, NEW f, NEW p \in Locations,
         Len(p) > 1 => F[Parent(p)] = G[Parent(p)]
  PROVE  Walk(F, f, p) = Walk(G, f, p)
<1>1. Len(p) \in Nat /\ Len(p) >= 1
  BY LocationFacts
<1>2. PICK n \in Nat : Len(p) = n
  BY <1>1
<1>3. Len(p) # 1 => F[Parent(p)] = G[Parent(p)]
  BY <1>1, <1>2
<1> QED
  BY <1>3, Zenon DEF Walk

\* There is such a function: paths are finite.
LEMMA ResolvesExists ==
  ASSUME NEW f
  PROVE  \E F : Resolves(F, f)
<1> DEFINE Upto(F, n) == \A p \in Locations : Len(p) <= n => F[p] = Walk(F, f, p)
<1>1. ASSUME NEW p \in Locations
      PROVE  /\ Len(p) \in Nat /\ Len(p) >= 1
             /\ Len(p) > 1 => Parent(p) \in Locations /\ Len(Parent(p)) = Len(p) - 1
  BY LocationFacts
<1>2. \A n \in Nat : \E F : Upto(F, n)
  <2> DEFINE T == {n \in Nat : \E F : Upto(F, n)}
  <2>1. 0 \in T
    <3>1. \A p \in Locations : ~(Len(p) <= 0)
      BY <1>1
    <3>2. \A F : Upto(F, 0)
      BY <3>1
    <3> QED
      BY <3>2
  <2>2. ASSUME NEW n \in Nat, n \in T
        PROVE  n + 1 \in T
    <3>1. PICK F : Upto(F, n)
      BY <2>2
    <3> DEFINE G == [p \in Locations |-> IF Len(p) <= n THEN F[p] ELSE Walk(F, f, p)]
    <3>2. ASSUME NEW p \in Locations, Len(p) <= n + 1
          PROVE  G[p] = Walk(G, f, p)
      <4>1. Len(p) > 1 => G[Parent(p)] = F[Parent(p)]
        BY <1>1, <3>2
      <4>2. Walk(F, f, p) = Walk(G, f, p)
        <5> HIDE DEF G
        <5> QED
          BY <4>1, WalkFromParent
      <4>3. G[p] = Walk(F, f, p)
        BY <3>1
      <4> QED
        BY <4>2, <4>3
    <3>3. Upto(G, n + 1)
      BY <3>2
    <3> HIDE DEF G, Upto
    <3> QED
      BY <3>3
  <2> HIDE DEF T
  <2>3. Nat \subseteq T
    BY <2>1, <2>2, SetInduction
  <2> QED
    BY <2>3 DEF T
<1>3. ASSUME NEW n \in Nat, NEW F, NEW G, Upto(F, n), Upto(G, n)
      PROVE  \A p \in Locations : Len(p) <= n => F[p] = G[p]
  <2> DEFINE T == {m \in Nat : \A p \in Locations : Len(p) <= m /\ Len(p) <= n => F[p] = G[p]}
  <2>1. 0 \in T
    <3>1. \A p \in Locations : ~(Len(p) <= 0)
      BY <1>1
    <3> QED
      BY <3>1
  <2>2. ASSUME NEW m \in Nat, m \in T
        PROVE  m + 1 \in T
    <3>1. ASSUME NEW p \in Locations, Len(p) <= m + 1, Len(p) <= n
          PROVE  F[p] = G[p]
      <4>1. Len(p) > 1 => F[Parent(p)] = G[Parent(p)]
        BY <1>1, <2>2, <3>1
      <4>2. Walk(F, f, p) = Walk(G, f, p)
        BY <4>1, WalkFromParent
      <4>3. F[p] = Walk(F, f, p) /\ G[p] = Walk(G, f, p)
        BY <1>3, <3>1
      <4> QED
        BY <4>2, <4>3
    <3> QED
      BY <3>1
  <2> HIDE DEF T
  <2>3. Nat \subseteq T
    BY <2>1, <2>2, SetInduction
  <2>4. n \in T
    BY <2>3
  <2> QED
    BY <2>4 DEF T
<1> DEFINE At_(n) == CHOOSE F : Upto(F, n)
           H == [p \in Locations |-> At_(Len(p))[p]]
<1>4. \A n \in Nat : Upto(At_(n), n)
  BY <1>2
<1> HIDE DEF At_
<1>5. ASSUME NEW p \in Locations
      PROVE  H[p] = Walk(H, f, p)
  <2>1. Len(p) \in Nat
    BY <1>1
  <2>2. H[p] = Walk(At_(Len(p)), f, p)
    BY <2>1, <1>4
  <2>3. ASSUME Len(p) > 1
        PROVE  At_(Len(p))[Parent(p)] = H[Parent(p)]
    <3>1. Parent(p) \in Locations /\ Len(Parent(p)) = Len(p) - 1 /\ Len(p) - 1 \in Nat
      BY <1>1, <2>3
    <3>2. Upto(At_(Len(p)), Len(p) - 1) /\ Upto(At_(Len(p) - 1), Len(p) - 1)
      BY <1>1, <1>4, <3>1
    <3>3. At_(Len(p))[Parent(p)] = At_(Len(p) - 1)[Parent(p)]
      <4>1. Len(Parent(p)) <= Len(p) - 1
        BY <3>1
      <4> HIDE DEF Upto
      <4> QED
        BY <1>3, <3>1, <3>2, <4>1
    <3> QED
      BY <3>1, <3>3
  <2> HIDE DEF H
  <2>4. Walk(At_(Len(p)), f, p) = Walk(H, f, p)
    BY <2>3, WalkFromParent
  <2> QED
    BY <2>2, <2>4
<1>6. Resolves(H, f)
  BY <1>5 DEF Resolves
<1> QED
  BY <1>6

LEMMA FullResolves == Resolves(Full, fs)
<1>1. \E F : F = [p \in Locations |-> Walk(F, fs, p)]
  BY ResolvesExists DEF Resolves
<1> QED
  BY <1>1 DEF Resolves, Full, Walk

LEMMA FullResolvesNext == Resolves(Full', fs')
<1>1. \E F : F = [p \in Locations |-> Walk(F, fs', p)]
  BY ResolvesExists DEF Resolves
<1> QED
  BY <1>1 DEF Resolves, Full, Walk

\* Where the walk ends, the entry there, and Lstat, of any file system.
AtIn(F, p)       == IF Len(p) = 1 THEN p ELSE Append(F[Parent(p)], p[Len(p)])
EntryIn(F, f, p) == IF AtIn(F, p) \in Locations THEN f[AtIn(F, p)] ELSE None

LEMMA AtIsAtIn ==
  /\ \A p : At(p) = AtIn(Full, p) /\ Lstat(p) = EntryIn(Full, fs, p)
  /\ \A p : At(p)' = AtIn(Full', p) /\ Lstat(p)' = EntryIn(Full', fs', p)
BY DEF At, Lstat, AtIn, EntryIn

LEMMA EntryKinds ==
  /\ None.kind = "none" /\ Dir.kind = "dir" /\ None # Dir
  /\ \A l : Link(l).kind = "link" /\ Link(l).to = l /\ Link(l) # None /\ Link(l) # Dir
  /\ \A x \in Entries : /\ x.kind \in {"none", "dir", "link"}
                        /\ x.kind = "none" <=> x = None
                        /\ x.kind = "dir" <=> x = Dir
                        /\ x.kind = "link" => x = Link(x.to) /\ x.to \in Locations
BY DEF None, Dir, Link, Entries

LEMMA ResolvedStep ==
  ASSUME NEW F, NEW f, Resolves(F, f), NEW p \in Locations
  PROVE  /\ Len(p) = 1 => F[p] = p
         /\ Len(p) > 1 => F[p] = IF AtIn(F, p) \in Locations /\ f[AtIn(F, p)].kind = "link"
                                   THEN f[AtIn(F, p)].to ELSE AtIn(F, p)
<1>1. F[p] = Walk(F, f, p)
  BY DEF Resolves
<1>2. PICK n \in Nat : Len(p) = n
  BY LocationFacts
<1> QED
  BY <1>1, <1>2 DEF Walk, AtIn

\* What a path resolves to is a path again, if not always one of the model's.
LEMMA ResolvedPath ==
  ASSUME NEW f \in [Locations -> Entries], NEW F, Resolves(F, f), NEW p \in Locations
  PROVE  F[p] \in Seq(Texts) /\ F[p] # <<>>
<1> DEFINE T == {n \in Nat : \A q \in Locations : Len(q) <= n => F[q] \in Seq(Texts) /\ F[q] # <<>>}
<1>1. 0 \in T
  <2>1. \A q \in Locations : ~(Len(q) <= 0)
    BY LocationFacts
  <2> QED
    BY <2>1
<1>2. ASSUME NEW n \in Nat, n \in T
      PROVE  n + 1 \in T
  <2>1. ASSUME NEW q \in Locations, Len(q) <= n + 1
        PROVE  F[q] \in Seq(Texts) /\ F[q] # <<>>
    <3>1. /\ q \in Seq(Texts) /\ q # <<>> /\ Len(q) \in Nat /\ Len(q) >= 1
          /\ Len(q) > 1 => Parent(q) \in Locations /\ Len(Parent(q)) = Len(q) - 1 /\ q[Len(q)] \in Texts
      BY LocationFacts
    <3>2. CASE Len(q) = 1
      BY <3>1, <3>2, ResolvedStep
    <3>3. CASE Len(q) > 1
      <4>1. F[Parent(q)] \in Seq(Texts) /\ F[Parent(q)] # <<>>
        BY <1>2, <2>1, <3>1, <3>3
      <4>2. AtIn(F, q) = Append(F[Parent(q)], q[Len(q)])
        <5>1. PICK k \in Nat : Len(q) = k
          BY <3>1
        <5> QED
          BY <5>1, <3>3 DEF AtIn
      <4>3. AtIn(F, q) \in Seq(Texts) /\ AtIn(F, q) # <<>>
        BY <3>1, <3>3, <4>1, <4>2, AppendProperties
      <4>4. ASSUME AtIn(F, q) \in Locations, f[AtIn(F, q)].kind = "link"
            PROVE  f[AtIn(F, q)].to \in Seq(Texts) /\ f[AtIn(F, q)].to # <<>>
        <5>1. f[AtIn(F, q)] \in Entries
          BY <4>4
        <5>2. f[AtIn(F, q)].to \in Locations
          BY <4>4, <5>1, EntryKinds
        <5> QED
          BY <5>2, LocationFacts
      <4>5. F[q] = IF AtIn(F, q) \in Locations /\ f[AtIn(F, q)].kind = "link"
                     THEN f[AtIn(F, q)].to ELSE AtIn(F, q)
        BY <3>3, ResolvedStep
      <4> QED
        BY <4>3, <4>4, <4>5
    <3>4. PICK k \in Nat : Len(q) = k
      BY <3>1
    <3> QED
      BY <3>1, <3>2, <3>3, <3>4
  <2> QED
    BY <2>1
<1> HIDE DEF T
<1>3. Nat \subseteq T
  BY <1>1, <1>2, SetInduction
<1>4. Len(p) \in T /\ Len(p) \in Nat
  BY <1>3, LocationFacts
<1> QED
  BY <1>4 DEF T

\* A location that the walk comes to lies in what the directory above resolves to.
LEMMA AtFacts ==
  ASSUME NEW f \in [Locations -> Entries], NEW F, Resolves(F, f),
         NEW p \in Locations, Len(p) > 1
  PROVE  /\ Parent(p) \in Locations
         /\ AtIn(F, p) = Append(F[Parent(p)], p[Len(p)])
         /\ AtIn(F, p)[1] = F[Parent(p)][1]
         /\ AtIn(F, p) \in Locations =>
              /\ F[Parent(p)] \in Locations
              /\ Len(AtIn(F, p)) > 1 /\ Parent(AtIn(F, p)) = F[Parent(p)]
<1>1. Parent(p) \in Locations /\ p[Len(p)] \in Texts /\ Len(p) \in Nat
  BY LocationFacts
<1>2. F[Parent(p)] \in Seq(Texts) /\ F[Parent(p)] # <<>>
  BY <1>1, ResolvedPath
<1>3. AtIn(F, p) = Append(F[Parent(p)], p[Len(p)])
  <2>1. PICK k \in Nat : Len(p) = k
    BY <1>1
  <2> QED
    BY <2>1 DEF AtIn
<1>4. AtIn(F, p)[1] = F[Parent(p)][1]
  BY <1>1, <1>2, <1>3, ParentOfAppend
<1>5. AtIn(F, p) \in Locations =>
              /\ F[Parent(p)] \in Locations
              /\ Len(AtIn(F, p)) > 1 /\ Parent(AtIn(F, p)) = F[Parent(p)]
  BY <1>1, <1>2, <1>3, AppendLocation
<1> QED
  BY <1>1, <1>3, <1>4, <1>5

\* What a file system needs to resolve as expected: what there is is in a
\* directory, and no link leads into the tree.
InDirectories(f) == \A l \in Locations : Len(l) > 1 /\ f[l] # None => f[Parent(l)] = Dir
LinksLeadOut(f)  == \A l \in Locations : f[l].kind = "link" => ~InTree(f[l].to)

\* Whatever is there under its own name or behind a link is something.
LEMMA ReachedIsThere ==
  ASSUME NEW f \in [Locations -> Entries], NEW F, Resolves(F, f), NEW p \in Locations,
         F[p] \in Locations, f[F[p]] # None
  PROVE  EntryIn(F, f, p) # None
<1>1. PICK k \in Nat : Len(p) = k /\ k >= 1
  BY LocationFacts
<1>2. CASE k = 1
  <2>1. F[p] = p /\ AtIn(F, p) = p
    BY <1>1, <1>2, ResolvedStep DEF AtIn
  <2> QED
    BY <2>1 DEF EntryIn
<1>3. CASE k > 1
  <2>1. F[p] = IF AtIn(F, p) \in Locations /\ f[AtIn(F, p)].kind = "link"
                 THEN f[AtIn(F, p)].to ELSE AtIn(F, p)
    BY <1>1, <1>3, ResolvedStep
  <2>2. CASE AtIn(F, p) \in Locations /\ f[AtIn(F, p)].kind = "link"
    BY <2>2, EntryKinds DEF EntryIn
  <2>3. CASE ~(AtIn(F, p) \in Locations /\ f[AtIn(F, p)].kind = "link")
    BY <2>1, <2>3 DEF EntryIn
  <2> QED
    BY <2>2, <2>3
<1> QED
  BY <1>1, <1>2, <1>3

\* While a file system only grows, what a path has led to it goes on leading to.
LEMMA GrowthKeepsPaths ==
  ASSUME NEW f \in [Locations -> Entries], NEW F, Resolves(F, f),
         NEW g, NEW G, Resolves(G, g),
         InDirectories(f),
         \A l \in Locations : f[l] # None => g[l] = f[l]
  PROVE  \A p \in Locations : EntryIn(F, f, p) # None =>
            /\ AtIn(G, p) = AtIn(F, p)
            /\ EntryIn(G, g, p) = EntryIn(F, f, p)
            /\ G[p] = F[p]
<1> DEFINE Kept(p) == EntryIn(F, f, p) # None =>
                        /\ AtIn(G, p) = AtIn(F, p)
                        /\ EntryIn(G, g, p) = EntryIn(F, f, p)
                        /\ G[p] = F[p]
           T == {n \in Nat : \A p \in Locations : Len(p) <= n => Kept(p)}
<1>1. 0 \in T
  <2>1. \A p \in Locations : ~(Len(p) <= 0)
    BY LocationFacts
  <2> QED
    BY <2>1
<1>2. ASSUME NEW n \in Nat, n \in T
      PROVE  n + 1 \in T
  <2>1. ASSUME NEW p \in Locations, Len(p) <= n + 1, EntryIn(F, f, p) # None
        PROVE  /\ AtIn(G, p) = AtIn(F, p)
               /\ EntryIn(G, g, p) = EntryIn(F, f, p)
               /\ G[p] = F[p]
    <3>1. PICK k \in Nat : Len(p) = k /\ k >= 1
      BY LocationFacts
    <3>2. CASE k = 1
      <4>1. F[p] = p /\ G[p] = p /\ AtIn(F, p) = p /\ AtIn(G, p) = p
        BY <3>1, <3>2, ResolvedStep DEF AtIn
      <4> QED
        BY <2>1, <4>1 DEF EntryIn
    <3>3. CASE k > 1
      <4> DEFINE q == Parent(p)
      <4>1. /\ q \in Locations /\ Len(q) = k - 1
            /\ AtIn(F, p) = Append(F[q], p[k])
            /\ AtIn(F, p) \in Locations =>
                 F[q] \in Locations /\ Len(AtIn(F, p)) > 1 /\ Parent(AtIn(F, p)) = F[q]
        BY <3>1, <3>3, AtFacts, LocationFacts
      <4>2. AtIn(F, p) \in Locations /\ f[AtIn(F, p)] # None
        BY <2>1 DEF EntryIn
      <4>3. F[q] \in Locations /\ f[F[q]] # None
        <5>1. f[F[q]] = Dir
          BY <4>1, <4>2 DEF InDirectories
        <5> QED
          BY <4>1, <4>2, <5>1, EntryKinds
      <4>4. EntryIn(F, f, q) # None
        BY <4>1, <4>3, ReachedIsThere
      <4>5. Len(q) <= n
        BY <2>1, <3>1, <4>1
      <4>6. G[q] = F[q]
        BY <1>2, <4>1, <4>4, <4>5
      <4>7. AtIn(G, p) = AtIn(F, p)
        BY <3>1, <3>3, <4>1, <4>6 DEF AtIn
      <4>8. g[AtIn(F, p)] = f[AtIn(F, p)]
        BY <4>2
      <4>9. EntryIn(G, g, p) = EntryIn(F, f, p)
        BY <4>7, <4>8 DEF EntryIn
      <4>10. G[p] = F[p]
        <5>1. /\ F[p] = IF AtIn(F, p) \in Locations /\ f[AtIn(F, p)].kind = "link"
                          THEN f[AtIn(F, p)].to ELSE AtIn(F, p)
              /\ G[p] = IF AtIn(G, p) \in Locations /\ g[AtIn(G, p)].kind = "link"
                          THEN g[AtIn(G, p)].to ELSE AtIn(G, p)
          BY <3>1, <3>3, ResolvedStep
        <5> QED
          BY <4>7, <4>8, <5>1
      <4> QED
        BY <4>7, <4>9, <4>10
    <3> QED
      BY <3>1, <3>2, <3>3
  <2> QED
    BY <2>1
<1> HIDE DEF T
<1>3. Nat \subseteq T
  BY <1>1, <1>2, SetInduction
<1>4. ASSUME NEW p \in Locations
      PROVE  Kept(p)
  <2>1. Len(p) \in T /\ Len(p) \in Nat
    BY <1>3, LocationFacts
  <2> QED
    BY <2>1 DEF T
<1> QED
  BY <1>4

-----------------------------------------------------------------------------
(* The tree R and the drive C.                                             *)

LEMMA BackingFacts ==
  ASSUME NEW p \in Relative
  PROVE  /\ Backing(p) \in Locations /\ InTree(Backing(p)) /\ Backing(p) \in Seq(Texts)
         /\ OnHost(p) \in Locations /\ ~InTree(OnHost(p))
         /\ Len(p) \in Nat /\ Len(Backing(p)) = Len(p) + 1 /\ Len(OnHost(p)) = Len(p) + 1
         /\ p = <<>> => Len(p) = 0 /\ Len(Backing(p)) = 1 /\ Len(OnHost(p)) = 1
         /\ p # <<>> => /\ Len(p) >= 1 /\ Len(Backing(p)) > 1 /\ Len(OnHost(p)) > 1
                        /\ Parent(p) \in Relative /\ Len(Parent(p)) = Len(p) - 1
                        /\ Parent(Backing(p)) = Backing(Parent(p))
                        /\ Parent(OnHost(p)) = OnHost(Parent(p))
                        /\ Backing(p)[Len(Backing(p))] = p[Len(p)]
                        /\ OnHost(p)[Len(OnHost(p))] = p[Len(p)]
<1>1. "R" \in Tops /\ "C" \in Tops
  BY TopsAssumption
<1>2. /\ Backing(p) \in Locations /\ Backing(p) \in Seq(Texts)
      /\ Len(p) \in Nat /\ Len(Backing(p)) = Len(p) + 1 /\ Backing(p)[1] = "R"
      /\ \A i \in 1..Len(p) : Backing(p)[i + 1] = p[i]
      /\ p # <<>> => Parent(Backing(p)) = Backing(Parent(p))
  BY <1>1, BelowTop DEF Backing
<1>3. /\ OnHost(p) \in Locations /\ Len(OnHost(p)) = Len(p) + 1 /\ OnHost(p)[1] = "C"
      /\ \A i \in 1..Len(p) : OnHost(p)[i + 1] = p[i]
      /\ p # <<>> => Parent(OnHost(p)) = OnHost(Parent(p))
  BY <1>1, BelowTop DEF OnHost
<1>4. p # <<>> => /\ Parent(p) \in Relative /\ Len(p) >= 1 /\ Len(Parent(p)) = Len(p) - 1
  BY RelativeParent
<1>5. p # <<>> => /\ Backing(p)[Len(Backing(p))] = p[Len(p)]
                  /\ OnHost(p)[Len(OnHost(p))] = p[Len(p)]
  BY <1>2, <1>3, <1>4
<1>6. InTree(Backing(p)) /\ ~InTree(OnHost(p))
  BY <1>2, <1>3 DEF InTree
<1>7. p = <<>> => Len(p) = 0 /\ Len(Backing(p)) = 1 /\ Len(OnHost(p)) = 1
  <2>1. Len(<<>>) = 0
    OBVIOUS
  <2> QED
    BY <1>2, <1>3, <2>1
<1> QED
  BY <1>2, <1>3, <1>4, <1>5, <1>6, <1>7

LEMMA TreeIsBacking ==
  ASSUME NEW l \in Locations, InTree(l)
  PROVE  \E p \in Relative : l = Backing(p)
<1>1. PICK t \in Tops, p \in Relative : l = <<t>> \o p
  BY DEF Locations
<1>2. t = "R"
  BY <1>1, BelowTop DEF InTree
<1> QED
  BY <1>1, <1>2 DEF Backing

LEMMA BackingInjective ==
  ASSUME NEW p \in Relative, NEW q \in Relative, Backing(p) = Backing(q)
  PROVE  p = q
<1>1. p \in Seq(Names) /\ q \in Seq(Names) /\ "R" \in Tops
  BY RelativeAssumption, TopsAssumption
<1>2. /\ Len(p) \in Nat /\ Len(q) \in Nat /\ Len(p) + 1 = Len(q) + 1
      /\ \A i \in 1..Len(p) : Backing(p)[i + 1] = p[i]
      /\ \A i \in 1..Len(q) : Backing(q)[i + 1] = q[i]
  BY <1>1, BelowTop DEF Backing
<1>3. Len(p) = Len(q)
  BY <1>2
<1>4. \A i \in 1..Len(p) : p[i] = q[i]
  BY <1>2, <1>3
<1> QED
  BY <1>1, <1>3, <1>4, SeqEqual

\* No path of the host leads into the tree.
LEMMA HostStaysOut ==
  ASSUME NEW f \in [Locations -> Entries], NEW F, Resolves(F, f), LinksLeadOut(f)
  PROVE  \A p \in Relative : ~InTree(F[OnHost(p)]) /\ ~InTree(AtIn(F, OnHost(p)))
<1> DEFINE T == {n \in Nat : \A p \in Relative : Len(p) <= n => ~InTree(F[OnHost(p)])}
<1>1. ASSUME NEW p \in Relative, p # <<>>, ~InTree(F[OnHost(Parent(p))])
      PROVE  ~InTree(F[OnHost(p)]) /\ ~InTree(AtIn(F, OnHost(p)))
  <2>1. /\ OnHost(p) \in Locations /\ Len(OnHost(p)) > 1
        /\ Parent(OnHost(p)) = OnHost(Parent(p))
    BY <1>1, BackingFacts
  <2>2. ~InTree(AtIn(F, OnHost(p)))
    BY <1>1, <2>1, AtFacts DEF InTree
  <2>3. F[OnHost(p)] = IF AtIn(F, OnHost(p)) \in Locations /\ f[AtIn(F, OnHost(p))].kind = "link"
                         THEN f[AtIn(F, OnHost(p))].to ELSE AtIn(F, OnHost(p))
    BY <2>1, ResolvedStep
  <2> QED
    BY <2>2, <2>3 DEF LinksLeadOut
<1>2. ASSUME NEW p \in Relative, p = <<>>
      PROVE  ~InTree(F[OnHost(p)]) /\ ~InTree(AtIn(F, OnHost(p)))
  <2>1. OnHost(p) \in Locations /\ Len(OnHost(p)) = 1 /\ ~InTree(OnHost(p))
    BY <1>2, BackingFacts
  <2> QED
    BY <2>1, ResolvedStep DEF AtIn
<1>3. 0 \in T
  <2>1. \A p \in Relative : Len(p) <= 0 => p = <<>>
    BY BackingFacts
  <2> QED
    BY <1>2, <2>1
<1>4. ASSUME NEW n \in Nat, n \in T
      PROVE  n + 1 \in T
  <2>1. ASSUME NEW p \in Relative, Len(p) <= n + 1
        PROVE  ~InTree(F[OnHost(p)])
    <3>1. p # <<>> => Parent(p) \in Relative /\ Len(Parent(p)) <= n
      BY <2>1, BackingFacts
    <3> QED
      BY <1>1, <1>2, <1>4, <3>1
  <2> QED
    BY <2>1
<1> HIDE DEF T
<1>5. Nat \subseteq T
  BY <1>3, <1>4, SetInduction
<1>6. \A p \in Relative : ~InTree(F[OnHost(p)])
  <2>1. \A p \in Relative : Len(p) \in T /\ Len(p) \in Nat
    BY <1>5, BackingFacts
  <2> QED
    BY <2>1 DEF T
<1>7. \A p \in Relative : p # <<>> => Parent(p) \in Relative
  BY BackingFacts
<1> QED
  BY <1>1, <1>2, <1>6, <1>7

\* Links of the tree have the targets of the host's: a path of the tree leads to
\* its own place in it, or to where the host's path leads.
Mirrors(F, f) ==
  \A p \in Relative : f[Backing(p)].kind = "link" => EntryIn(F, f, OnHost(p)) = f[Backing(p)]

LEMMA TreeOrHost ==
  ASSUME NEW f \in [Locations -> Entries], NEW F, Resolves(F, f),
         LinksLeadOut(f), Mirrors(F, f)
  PROVE  \A p \in Relative :
           /\ \/ F[Backing(p)] = Backing(p)
              \/ F[Backing(p)] = F[OnHost(p)] /\ ~InTree(F[Backing(p)])
           /\ \/ AtIn(F, Backing(p)) = Backing(p)
              \/ /\ p # <<>> /\ ~InTree(AtIn(F, Backing(p)))
                 /\ AtIn(F, Backing(p)) = AtIn(F, OnHost(p))
<1> DEFINE Whole(p) == \/ F[Backing(p)] = Backing(p)
                       \/ F[Backing(p)] = F[OnHost(p)] /\ ~InTree(F[Backing(p)])
           Last(p)  == \/ AtIn(F, Backing(p)) = Backing(p)
                       \/ /\ p # <<>> /\ ~InTree(AtIn(F, Backing(p)))
                          /\ AtIn(F, Backing(p)) = AtIn(F, OnHost(p))
           T == {n \in Nat : \A p \in Relative : Len(p) <= n => Whole(p)}
<1>1. ASSUME NEW p \in Relative, p = <<>>
      PROVE  Whole(p) /\ Last(p)
  <2>1. Backing(p) \in Locations /\ Len(Backing(p)) = 1
    BY <1>1, BackingFacts
  <2> QED
    BY <2>1, ResolvedStep DEF AtIn
<1>2. ASSUME NEW p \in Relative, p # <<>>, Whole(Parent(p))
      PROVE  Whole(p) /\ Last(p)
  <2> DEFINE b == Backing(p)
             h == OnHost(p)
             q == Parent(p)
  <2>1. /\ b \in Locations /\ Len(b) > 1 /\ InTree(b) /\ Parent(b) = Backing(q)
        /\ h \in Locations /\ Len(h) > 1 /\ Parent(h) = OnHost(q)
        /\ b[Len(b)] = h[Len(h)]
    BY <1>2, BackingFacts
  <2> HIDE DEF b, h, q
  <2>2. /\ AtIn(F, b) = Append(F[Backing(q)], b[Len(b)])
        /\ AtIn(F, b)[1] = F[Backing(q)][1]
        /\ AtIn(F, h) = Append(F[OnHost(q)], h[Len(h)])
    BY <2>1, AtFacts
  <2>3. b = Append(Backing(q), b[Len(b)])
    BY <2>1, LocationFacts
  <2>4. Whole(q)
    BY <1>2 DEF q
  <2>5. \/ AtIn(F, b) = b
        \/ ~InTree(AtIn(F, b)) /\ AtIn(F, b) = AtIn(F, h)
    <3>1. CASE F[Backing(q)] = Backing(q)
      BY <2>2, <2>3, <3>1
    <3>2. CASE F[Backing(q)] = F[OnHost(q)] /\ ~InTree(F[Backing(q)])
      BY <2>1, <2>2, <3>2 DEF InTree
    <3> QED
      BY <2>4, <3>1, <3>2
  <2>6. /\ F[b] = IF AtIn(F, b) \in Locations /\ f[AtIn(F, b)].kind = "link"
                    THEN f[AtIn(F, b)].to ELSE AtIn(F, b)
        /\ F[h] = IF AtIn(F, h) \in Locations /\ f[AtIn(F, h)].kind = "link"
                    THEN f[AtIn(F, h)].to ELSE AtIn(F, h)
    BY <2>1, ResolvedStep
  <2>7. F[b] = b \/ (F[b] = F[h] /\ ~InTree(F[b]))
    <3>1. CASE ~InTree(AtIn(F, b)) /\ AtIn(F, b) = AtIn(F, h)
      BY <2>6, <3>1 DEF LinksLeadOut
    <3>2. CASE AtIn(F, b) = b /\ f[b].kind # "link"
      BY <2>6, <3>2
    <3>3. CASE AtIn(F, b) = b /\ f[b].kind = "link"
      <4>1. EntryIn(F, f, h) = f[b]
        BY <3>3 DEF Mirrors, b, h
      <4>2. AtIn(F, h) \in Locations /\ f[AtIn(F, h)] = f[b]
        BY <3>3, <4>1, EntryKinds DEF EntryIn
      <4>3. F[b] = f[b].to /\ F[h] = f[b].to /\ ~InTree(f[b].to)
        BY <2>1, <2>6, <3>3, <4>2 DEF LinksLeadOut
      <4> QED
        BY <4>3
    <3> QED
      BY <2>5, <3>1, <3>2, <3>3
  <2> QED
    BY <1>2, <2>5, <2>7 DEF b, h
<1>3. 0 \in T
  <2>1. \A p \in Relative : Len(p) <= 0 => p = <<>>
    BY BackingFacts
  <2> HIDE DEF Last
  <2>2. \A p \in Relative : Len(p) <= 0 => Whole(p)
    BY <1>1, <2>1
  <2> HIDE DEF Whole
  <2> QED
    BY <2>2
<1>4. ASSUME NEW n \in Nat, n \in T
      PROVE  n + 1 \in T
  <2> HIDE DEF Last, Whole
  <2>1. ASSUME NEW p \in Relative, Len(p) <= n + 1
        PROVE  Whole(p)
    <3>1. p # <<>> => Parent(p) \in Relative /\ Len(Parent(p)) <= n
      BY <2>1, BackingFacts
    <3> QED
      BY <1>1, <1>2, <1>4, <3>1
  <2> QED
    BY <2>1
<1> HIDE DEF T
<1>5. Nat \subseteq T
  BY <1>3, <1>4, SetInduction
<1>6. ASSUME NEW p \in Relative
      PROVE  Whole(p)
  <2> HIDE DEF Whole
  <2>1. Len(p) \in T /\ Len(p) \in Nat
    BY <1>5, BackingFacts
  <2> QED
    BY <2>1 DEF T
<1>7. ASSUME NEW p \in Relative
      PROVE  Last(p)
  <2> HIDE DEF Whole, Last
  <2>1. p # <<>> => Parent(p) \in Relative
    BY BackingFacts
  <2> QED
    BY <1>1, <1>2, <1>6, <2>1
<1> QED
  BY <1>6, <1>7


-----------------------------------------------------------------------------
(* The paths MkdirAll looks at.                                            *)

LEMMA ParentIsRelative ==
  ASSUME NEW p \in Relative
  PROVE  Parent(p) \in Relative
<1>1. CASE p # <<>>
  BY <1>1, RelativeParent
<1>2. CASE p = <<>>
  <2>1. Parent(<<>>) = <<>>
    <3>1. 1 \in Int /\ Len(<<>>) - 1 \in Int /\ Len(<<>>) - 1 < 1
      OBVIOUS
    <3> QED
      BY <3>1, SubSeqEmpty DEF Parent
  <2> QED
    BY <1>2, <2>1, RelativeAssumption
<1> QED
  BY <1>1, <1>2

LEMMA PrefixIsRelative ==
  ASSUME NEW p \in Relative, NEW n \in 0..Len(p)
  PROVE  /\ Prefix(p, n) \in Relative /\ Len(Prefix(p, n)) = n
         /\ \A i \in 1..n : Prefix(p, n)[i] = p[i]
<1>1. p \in Seq(Names) /\ Len(p) \in Nat
  BY RelativeAssumption
<1>2. \A m \in 0..Len(p) : /\ Prefix(p, m) \in Seq(Names) /\ Len(Prefix(p, m)) = m
                           /\ \A i \in 1..m : Prefix(p, m)[i] = p[i]
  BY <1>1, PrefixOf
<1> DEFINE T == {k \in Nat : k <= Len(p) => Prefix(p, Len(p) - k) \in Relative}
<1>3. 0 \in T
  <2>1. Prefix(p, Len(p)) = p
    BY <1>1, <1>2, SeqEqual
  <2> QED
    BY <1>1, <2>1
<1>4. ASSUME NEW k \in Nat, k \in T
      PROVE  k + 1 \in T
  <2>1. ASSUME k + 1 <= Len(p)
        PROVE  Prefix(p, Len(p) - (k + 1)) \in Relative
    <3> DEFINE m == Len(p) - k
               q == Prefix(p, m)
    <3>1. m \in 1..Len(p) /\ m - 1 \in 0..Len(p) /\ Len(p) - (k + 1) = m - 1
      BY <1>1, <2>1
    <3>2. q \in Relative
      BY <1>1, <1>4, <2>1
    <3> HIDE DEF m
    <3>3. /\ Len(q) = m /\ \A i \in 1..m : q[i] = p[i]
          /\ Prefix(p, m - 1) \in Seq(Names) /\ Len(Prefix(p, m - 1)) = m - 1
          /\ \A i \in 1..(m - 1) : Prefix(p, m - 1)[i] = p[i]
      BY <1>2, <3>1
    <3> HIDE DEF q
    <3>4. q # <<>>
      BY <3>1, <3>3
    <3>5. /\ Parent(q) \in Relative /\ Len(Parent(q)) = m - 1
          /\ \A i \in 1..(m - 1) : Parent(q)[i] = q[i]
      BY <3>2, <3>3, <3>4, RelativeParent
    <3>6. Parent(q) \in Seq(Names)
      BY <3>5, RelativeAssumption
    <3>7. \A i \in 1..(m - 1) : Parent(q)[i] = Prefix(p, m - 1)[i]
      BY <3>1, <3>3, <3>5
    <3>8. Parent(q) = Prefix(p, m - 1)
      BY <3>3, <3>5, <3>6, <3>7, SeqEqual
    <3> QED
      BY <3>1, <3>5, <3>8
  <2> QED
    BY <2>1
<1> HIDE DEF T
<1>5. Nat \subseteq T
  BY <1>3, <1>4, SetInduction
<1>6. Len(p) - n \in T /\ Len(p) - n <= Len(p) /\ Len(p) - (Len(p) - n) = n
  BY <1>1, <1>5
<1> QED
  BY <1>2, <1>6 DEF T

LEMMA PrefixOfBacking ==
  ASSUME NEW p \in Relative, NEW n \in 1..Len(Backing(p))
  PROVE  /\ n - 1 \in 0..Len(p)
         /\ Prefix(p, n - 1) \in Relative
         /\ Prefix(Backing(p), n) = Backing(Prefix(p, n - 1))
<1>1. "R" \in Tops /\ Len(p) \in Nat /\ Len(Backing(p)) = Len(p) + 1 /\ Backing(p) \in Seq(Texts)
  BY TopsAssumption, BackingFacts
<1>2. n - 1 \in 0..Len(p) /\ n \in 0..Len(Backing(p)) /\ n \in Nat
  BY <1>1
<1> DEFINE q == Prefix(p, n - 1)
<1>3. q \in Relative /\ Len(q) = n - 1 /\ \A i \in 1..(n - 1) : q[i] = p[i]
  BY <1>2, PrefixIsRelative
<1>4. /\ Prefix(Backing(p), n) \in Seq(Texts) /\ Len(Prefix(Backing(p), n)) = n
      /\ \A i \in 1..n : Prefix(Backing(p), n)[i] = Backing(p)[i]
  BY <1>1, <1>2, PrefixOf
<1> HIDE DEF q
<1>5. /\ Backing(q) \in Seq(Texts) /\ Len(Backing(q)) = n
      /\ Backing(q)[1] = "R" /\ \A i \in 1..(n - 1) : Backing(q)[i + 1] = q[i]
  BY <1>1, <1>2, <1>3, BelowTop DEF Backing
<1>6. Backing(p)[1] = "R" /\ \A i \in 1..Len(p) : Backing(p)[i + 1] = p[i]
  BY <1>1, BelowTop DEF Backing
<1>7. \A i \in 1..n : Prefix(Backing(p), n)[i] = Backing(q)[i]
  <2> TAKE i \in 1..n
  <2>1. CASE i = 1
    BY <1>2, <1>4, <1>5, <1>6, <2>1
  <2>2. CASE i # 1
    <3>1. i - 1 \in 1..(n - 1) /\ i - 1 \in 1..Len(p) /\ (i - 1) + 1 = i
      BY <1>2, <2>2
    <3>2. Backing(q)[i] = q[i - 1] /\ Backing(p)[i] = p[i - 1] /\ q[i - 1] = p[i - 1]
      BY <1>3, <1>5, <1>6, <3>1
    <3> QED
      BY <1>4, <3>2
  <2> QED
    BY <2>1, <2>2
<1>8. Prefix(Backing(p), n) = Backing(q)
  BY <1>4, <1>5, <1>7, SeqEqual
<1> QED
  BY <1>2, <1>3, <1>8 DEF q


-----------------------------------------------------------------------------
(* The file system while the links of the host stay as they are.           *)

TopsAreNoLinks(f) == \A l \in Locations : Len(l) = 1 => f[l].kind # "link"

Sound(F, f) == InDirectories(f) /\ TopsAreNoLinks(f) /\ LinksLeadOut(f) /\ Mirrors(F, f)

\* What is there stays there, and every path to it goes on leading to it.
Grows(f, g) == \A l \in Locations : f[l] # None => g[l] = f[l]
StillSees(F, f, G, g) ==
  \A p \in Locations : EntryIn(F, f, p) # None => EntryIn(G, g, p) = EntryIn(F, f, p)

LEMMA SameFileSystem ==
  ASSUME fs' = fs
  PROVE  Full' = Full
BY DEF Full

\* A new entry at a free place in a directory, a link only with the target that
\* the host's link at the same path has.
LEMMA Creating ==
  ASSUME NEW f \in [Locations -> Entries], NEW F, Resolves(F, f), Sound(F, f),
         NEW p \in Locations, NEW at, at = AtIn(F, p), at \in Locations, f[at] = None,
         Len(p) > 1 => F[Parent(p)] \in Locations /\ f[F[Parent(p)]] = Dir,
         NEW x \in Entries, x # None,
         x.kind = "link" => /\ Len(at) > 1
                            /\ \E r \in Relative : at = Backing(r) /\ EntryIn(F, f, OnHost(r)) = x,
         NEW g \in [Locations -> Entries], NEW G, Resolves(G, g),
         g[at] = x, \A l \in Locations : l # at => g[l] = f[l]
  PROVE  /\ Sound(G, g)
         /\ Grows(f, g) /\ StillSees(F, f, G, g)
         /\ EntryIn(G, g, p) = x
<1>1. Grows(f, g) /\ g[at] = x
  BY DEF Grows
<1>2. \A l \in Locations : l # at => g[l] = f[l]
  OBVIOUS
<1>3. \A q \in Locations : EntryIn(F, f, q) # None =>
         /\ AtIn(G, q) = AtIn(F, q)
         /\ EntryIn(G, g, q) = EntryIn(F, f, q)
         /\ G[q] = F[q]
  <2>1. InDirectories(f) /\ \A l \in Locations : f[l] # None => g[l] = f[l]
    BY <1>1 DEF Sound, Grows
  <2> QED
    BY <2>1, GrowthKeepsPaths, SMTT(60)
<1>4. StillSees(F, f, G, g)
  BY <1>3 DEF StillSees
<1>5. /\ Len(p) \in Nat /\ Len(p) >= 1 /\ Len(at) \in Nat /\ Len(at) >= 1
      /\ Len(p) = 1 => at = p
      /\ Len(p) > 1 => Parent(p) \in Locations /\ Parent(at) = F[Parent(p)]
  <2>1. Len(p) > 1 => Parent(p) \in Locations /\ Parent(at) = F[Parent(p)]
    BY AtFacts
  <2> QED
    BY <2>1, LocationFacts DEF AtIn
<1>6. InDirectories(g)
  <2>1. ASSUME NEW l \in Locations, Len(l) > 1, g[l] # None
        PROVE  g[Parent(l)] = Dir
    <3>1. Parent(l) \in Locations
      BY <2>1, LocationFacts
    <3>2. f[Parent(l)] = Dir
      <4>1. CASE l # at
        <5>1. f[l] # None
          BY <1>2, <2>1, <4>1
        <5> QED
          BY <2>1, <5>1 DEF Sound, InDirectories
      <4>2. CASE l = at
        <5>1. Len(p) > 1
          <6>1. PICK n \in Nat : Len(p) = n /\ n >= 1
            BY <1>5
          <6>2. n = 1 => Len(l) = n
            BY <1>5, <4>2, <6>1, Zenon
          <6> QED
            BY <2>1, <6>1, <6>2
        <5> QED
          BY <1>5, <4>2, <5>1
      <4> QED
        BY <4>1, <4>2
    <3> QED
      BY <1>1, <3>1, <3>2, EntryKinds DEF Grows
  <2> QED
    BY <2>1 DEF InDirectories
<1>7. TopsAreNoLinks(g)
  <2>1. ASSUME NEW l \in Locations, Len(l) = 1
        PROVE  g[l].kind # "link"
    <3>1. CASE l = at
      <4>1. PICK n \in Nat : Len(at) = n
        BY <1>5
      <4>2. ~(n > 1) /\ g[l] = x
        BY <1>1, <2>1, <3>1, <4>1
      <4> QED
        BY <4>1, <4>2
    <3>2. CASE l # at
      BY <1>2, <2>1, <3>2 DEF Sound, TopsAreNoLinks
    <3> QED
      BY <3>1, <3>2
  <2> QED
    BY <2>1 DEF TopsAreNoLinks
<1>8. x.kind = "link" => ~InTree(x.to)
  <2>1. ASSUME x.kind = "link"
        PROVE  ~InTree(x.to)
    <3>1. PICK r \in Relative : EntryIn(F, f, OnHost(r)) = x
      BY <2>1
    <3>2. AtIn(F, OnHost(r)) \in Locations /\ f[AtIn(F, OnHost(r))] = x
      BY <3>1 DEF EntryIn
    <3> QED
      BY <2>1, <3>2 DEF Sound, LinksLeadOut
  <2> QED
    BY <2>1
<1>9. LinksLeadOut(g)
  <2>1. ASSUME NEW l \in Locations, g[l].kind = "link"
        PROVE  ~InTree(g[l].to)
    <3>1. CASE l = at
      BY <1>1, <1>8, <2>1, <3>1
    <3>2. CASE l # at
      BY <1>2, <2>1, <3>2 DEF Sound, LinksLeadOut
    <3> QED
      BY <3>1, <3>2
  <2> QED
    BY <2>1 DEF LinksLeadOut
<1>10. Mirrors(G, g)
  <2>1. ASSUME NEW q \in Relative, g[Backing(q)].kind = "link"
        PROVE  EntryIn(G, g, OnHost(q)) = g[Backing(q)]
    <3>1. Backing(q) \in Locations /\ OnHost(q) \in Locations
      BY BackingFacts
    <3>2. EntryIn(F, f, OnHost(q)) = g[Backing(q)]
      <4>1. CASE Backing(q) # at
        BY <1>2, <2>1, <3>1, <4>1 DEF Sound, Mirrors
      <4>2. CASE Backing(q) = at
        <5>1. PICK r \in Relative : at = Backing(r) /\ EntryIn(F, f, OnHost(r)) = x
          BY <1>1, <2>1, <4>2
        <5>2. q = r
          BY <4>2, <5>1, BackingInjective
        <5> QED
          BY <1>1, <4>2, <5>1, <5>2
      <4> QED
        BY <4>1, <4>2
    <3>3. g[Backing(q)] # None
      BY <2>1, EntryKinds
    <3> QED
      BY <1>4, <3>1, <3>2, <3>3 DEF StillSees
  <2> QED
    BY <2>1 DEF Mirrors
<1>11. EntryIn(G, g, p) = x
  <2>1. AtIn(G, p) = at
    <3>1. CASE Len(p) = 1
      BY <3>1 DEF AtIn
    <3>2. CASE Len(p) > 1
      <4>1. F[Parent(p)] \in Locations /\ f[F[Parent(p)]] # None
        BY <3>2, EntryKinds
      <4>2. G[Parent(p)] = F[Parent(p)]
        BY <1>3, <1>5, <3>2, <4>1, ReachedIsThere
      <4>3. PICK n \in Nat : Len(p) = n
        BY <1>5
      <4>4. n # 1
        BY <3>2, <4>3
      <4>5. /\ AtIn(F, p) = Append(F[Parent(p)], p[Len(p)])
            /\ AtIn(G, p) = Append(G[Parent(p)], p[Len(p)])
        BY <4>3, <4>4, Zenon DEF AtIn
      <4> QED
        BY <4>2, <4>5
    <3>3. PICK n \in Nat : Len(p) = n /\ n >= 1
      BY <1>5
    <3> QED
      BY <3>1, <3>2, <3>3
  <2> QED
    BY <1>1, <2>1 DEF EntryIn
<1> QED
  BY <1>1, <1>4, <1>6, <1>7, <1>9, <1>10, <1>11 DEF Sound


-----------------------------------------------------------------------------
(* Types, and what the task in hand says of an exec's state.               *)

Placing == {"lstat", "readlink", "remove", "symlink"}
Working == {"stat", "mkdir"} \cup Placing

Staging(e) == pc[e] \in Working /\ Task(e).do = "path"

\* The directory MkdirAll is to make for a task.
Goal(t) == Backing(IF t.do = "init" THEN t.at ELSE Parent(t.at))

OneInHand(e) ==
  /\ pc[e] \in Working => now[e] <= Len(plan[e])
  /\ pc[e] \in {"stat", "mkdir"} => goal[e] = Goal(Task(e))
  /\ pc[e] = "mkdir" => depth[e] > 0
  /\ pc[e] \in Placing => Task(e).do = "path"
  /\ Staging(e) => target[e] \in Locations

Typed == TypeOK /\ \A e \in Execs : OneInHand(e)

LEMMA TaskFacts ==
  ASSUME TypeOK, NEW e \in Execs, now[e] <= Len(plan[e])
  PROVE  /\ Task(e) \in Tasks /\ Task(e).do \in {"init", "path"} /\ Task(e).at \in Relative
         /\ Goal(Task(e)) \in Locations /\ Len(Goal(Task(e))) \in Nat
         /\ Here(e) \in Locations /\ OnHost(Task(e).at) \in Locations
         /\ now[e] \in Nat /\ now[e] \in DOMAIN plan[e] /\ now[e] + 1 \in 1..Len(plan[e]) + 1
<1>1. plan[e] \in Seq(Tasks) /\ now[e] \in 1..Len(plan[e]) + 1 /\ Len(plan[e]) \in Nat
  BY DEF TypeOK
<1>2. now[e] \in 1..Len(plan[e]) /\ now[e] + 1 \in 1..Len(plan[e]) + 1
  BY <1>1
<1>3. Task(e) \in Tasks /\ now[e] \in DOMAIN plan[e]
  BY <1>1, <1>2 DEF Task
<1>4. Task(e).do \in {"init", "path"} /\ Task(e).at \in Relative
  BY <1>3 DEF Tasks
<1>5. Parent(Task(e).at) \in Relative
  BY <1>4, ParentIsRelative
<1>6. Goal(Task(e)) \in Locations /\ Len(Goal(Task(e))) \in Nat
  BY <1>4, <1>5, BackingFacts, LocationFacts DEF Goal
<1>7. Here(e) \in Locations /\ OnHost(Task(e).at) \in Locations
  BY <1>4, BackingFacts DEF Here
<1> QED
  BY <1>1, <1>2, <1>3, <1>4, <1>6, <1>7

\* A step of one exec leaves the others' variables as they were.
Turn(e) ==
  /\ plan' = plan
  /\ \A x \in Execs \ {e} :
        /\ pc'[x] = pc[x] /\ now'[x] = now[x] /\ goal'[x] = goal[x] /\ depth'[x] = depth[x]
        /\ target'[x] = target[x] /\ staged'[x] = staged[x]

LEMMA OthersInHand ==
  ASSUME NEW e \in Execs, Turn(e), NEW x \in Execs \ {e}, OneInHand(x)
  PROVE  OneInHand(x)'
BY DEF Turn, OneInHand, Staging, Task

LEMMA MakeRootTypes ==
  ASSUME Typed, NEW e \in Execs, MakeRoot(e)
  PROVE  TypeOK' /\ OneInHand(e)' /\ Turn(e)
<1>1. TypeOK /\ now[e] <= Len(plan[e]) /\ Task(e).do = "init"
  BY DEF Typed, MakeRoot, Doing
<1>2. /\ Backing(Task(e).at) = Goal(Task(e)) /\ Goal(Task(e)) \in Locations
      /\ Len(Goal(Task(e))) \in Nat
  BY <1>1, TaskFacts DEF Goal
<1> DEFINE g == Goal(Task(e))
<1> HIDE DEF g
<1>3. /\ pc' = [pc EXCEPT ![e] = "stat"] /\ goal' = [goal EXCEPT ![e] = g]
      /\ depth' = [depth EXCEPT ![e] = Len(g)]
      /\ UNCHANGED <<fs, relinked, plan, now, target, staged, made>>
  BY <1>2 DEF MakeRoot, MkdirAll, Goto, g
<1>4. g \in Locations /\ Len(g) \in Nat
  BY <1>2 DEF g
<1>5. TypeOK'
  BY <1>1, <1>3, <1>4 DEF TypeOK, Phases
<1>6. OneInHand(e)'
  <2>1. /\ pc'[e] = "stat" /\ goal'[e] = g /\ now'[e] = now[e] /\ plan' = plan
    BY <1>1, <1>3 DEF TypeOK
  <2>2. Task(e)' = Task(e) /\ Goal(Task(e)) = g
    BY <2>1 DEF Task, g
  <2> QED
    BY <1>1, <2>1, <2>2 DEF OneInHand, Working, Placing, Staging
<1>7. Turn(e)
  BY <1>1, <1>3 DEF Turn, TypeOK
<1> QED
  BY <1>5, <1>6, <1>7

LEMMA SkipEntryTypes ==
  ASSUME Typed, NEW e \in Execs, SkipEntry(e)
  PROVE  TypeOK' /\ OneInHand(e)' /\ Turn(e)
<1>1. TypeOK /\ now[e] <= Len(plan[e])
  BY DEF Typed, SkipEntry, Doing
<1>2. now[e] \in Nat /\ now[e] + 1 \in 1..Len(plan[e]) + 1
  BY <1>1, TaskFacts
<1>3. /\ pc' = [pc EXCEPT ![e] = "next"] /\ now' = [now EXCEPT ![e] = @ + 1]
      /\ UNCHANGED <<fs, relinked, plan, goal, depth, target, staged, made>>
  BY DEF SkipEntry, Done, Goto
<1>4. TypeOK'
  BY <1>1, <1>2, <1>3 DEF TypeOK, Phases
<1>5. OneInHand(e)'
  BY <1>1, <1>3 DEF OneInHand, Working, Placing, Staging, TypeOK
<1>6. Turn(e)
  BY <1>1, <1>3 DEF Turn, TypeOK
<1> QED
  BY <1>4, <1>5, <1>6

LEMMA StageEntryTypes ==
  ASSUME Typed, NEW e \in Execs, StageEntry(e)
  PROVE  /\ TypeOK' /\ OneInHand(e)' /\ Turn(e)
         /\ EntryIn(Full, fs, OnHost(Task(e).at)) = Link(target'[e])
         /\ Task(e)' = Task(e)
<1>1. TypeOK /\ now[e] <= Len(plan[e]) /\ Task(e).do = "path"
  BY DEF Typed, StageEntry, Doing
<1>2. /\ Backing(Parent(Task(e).at)) = Goal(Task(e)) /\ Goal(Task(e)) \in Locations
      /\ Len(Goal(Task(e))) \in Nat
  <2>1. Backing(Parent(Task(e).at)) = Goal(Task(e))
    BY <1>1 DEF Goal
  <2> QED
    BY <1>1, <2>1, TaskFacts
<1> DEFINE g == Goal(Task(e))
           x == EntryIn(Full, fs, OnHost(Task(e).at))
<1> HIDE DEF g, x
<1>3. /\ pc' = [pc EXCEPT ![e] = "stat"] /\ goal' = [goal EXCEPT ![e] = g]
      /\ depth' = [depth EXCEPT ![e] = Len(g)] /\ target' = [target EXCEPT ![e] = x.to]
      /\ x.kind = "link"
      /\ UNCHANGED <<fs, relinked, plan, now, staged, made>>
  BY <1>2, AtIsAtIn DEF StageEntry, MkdirAll, Goto, g, x
<1>4. g \in Locations /\ Len(g) \in Nat
  BY <1>2 DEF g
<1>5. x \in Entries /\ x = Link(x.to) /\ x.to \in Locations
  <2>1. x \in Entries
    BY <1>1 DEF EntryIn, TypeOK, x, Entries
  <2> QED
    BY <1>3, <2>1, EntryKinds
<1>6. TypeOK'
  BY <1>1, <1>3, <1>4, <1>5 DEF TypeOK, Phases
<1>7. /\ pc'[e] = "stat" /\ goal'[e] = g /\ now'[e] = now[e] /\ plan' = plan
      /\ target'[e] = x.to
  BY <1>1, <1>3 DEF TypeOK
<1>8. Task(e)' = Task(e) /\ Goal(Task(e)) = g
  BY <1>7 DEF Task, g
<1>9. OneInHand(e)'
  BY <1>1, <1>5, <1>7, <1>8 DEF OneInHand, Working, Placing, Staging
<1>10. Turn(e)
  BY <1>1, <1>3 DEF Turn, TypeOK
<1> QED
  BY <1>5, <1>6, <1>7, <1>8, <1>9, <1>10 DEF x


\* Made(e): the next task, or the place of the link.
LEMMA MadeTypes ==
  ASSUME Typed, NEW e \in Execs, pc[e] \in {"stat", "mkdir"}, Made(e),
         plan' = plan, goal' = goal, target' = target
  PROVE  /\ pc' \in [Execs -> Phases] /\ now' \in [Execs -> Nat]
         /\ now'[e] \in 1..Len(plan[e]) + 1
         /\ \A x \in Execs \ {e} : pc'[x] = pc[x] /\ now'[x] = now[x]
         /\ OneInHand(e)'
         /\ pc'[e] \in {"next", "lstat"}
         /\ pc'[e] = "lstat" => Task(e)' = Task(e)
<1>1. TypeOK /\ OneInHand(e) /\ now[e] <= Len(plan[e])
  BY DEF Typed, OneInHand, Working
<1>2. now[e] \in Nat /\ now[e] + 1 \in 1..Len(plan[e]) + 1 /\ now[e] \in 1..Len(plan[e]) + 1
      /\ Task(e).do \in {"init", "path"}
  BY <1>1, TaskFacts DEF TypeOK
<1>3. CASE Task(e).do = "init"
  <2>1. pc' = [pc EXCEPT ![e] = "next"] /\ now' = [now EXCEPT ![e] = @ + 1]
    BY <1>3 DEF Made, Done, Goto
  <2> QED
    BY <1>1, <1>2, <2>1 DEF TypeOK, Phases, OneInHand, Working, Placing, Staging
<1>4. CASE Task(e).do = "path"
  <2>1. pc' = [pc EXCEPT ![e] = "lstat"] /\ now' = now
    BY <1>4 DEF Made, Goto
  <2>2. Task(e)' = Task(e) /\ Staging(e)
    BY <1>4, <2>1 DEF Task, Staging, Working
  <2>3. OneInHand(e)'
    BY <1>1, <1>4, <2>1, <2>2 DEF TypeOK, OneInHand, Working, Placing, Staging
  <2> QED
    BY <1>1, <1>2, <2>1, <2>2, <2>3 DEF TypeOK, Phases
<1> QED
  BY <1>2, <1>3, <1>4

LEMMA StatTypes ==
  ASSUME Typed, NEW e \in Execs, Stat(e)
  PROVE  /\ TypeOK' /\ OneInHand(e)' /\ Turn(e)
         /\ pc'[e] \in {"next", "lstat", "stat", "mkdir"}
         /\ pc'[e] # "next" => Task(e)' = Task(e)
<1>1. TypeOK /\ OneInHand(e) /\ now[e] <= Len(plan[e]) /\ pc[e] = "stat"
  BY DEF Typed, OneInHand, Working, Stat
<1>2. UNCHANGED <<fs, relinked, plan, goal, target, staged, made>>
  BY DEF Stat
<1>3. CASE Made(e) /\ depth' = depth
  <2>1. /\ pc' \in [Execs -> Phases] /\ now' \in [Execs -> Nat]
        /\ now'[e] \in 1..Len(plan[e]) + 1
        /\ \A x \in Execs \ {e} : pc'[x] = pc[x] /\ now'[x] = now[x]
        /\ OneInHand(e)' /\ pc'[e] \in {"next", "lstat"}
        /\ pc'[e] = "lstat" => Task(e)' = Task(e)
    BY <1>1, <1>2, <1>3, MadeTypes
  <2>2. TypeOK'
    BY <1>1, <1>2, <1>3, <2>1 DEF TypeOK
  <2> QED
    BY <1>1, <1>2, <1>3, <2>1, <2>2 DEF Turn
<1> DEFINE d == Len(goal[e])
<1>4. depth[e] \in 0..d /\ d \in Nat
  BY <1>1 DEF TypeOK
<1>5. ASSUME NEW k \in 0..d, NEW where \in {"stat", "mkdir"}, where = "mkdir" => k > 0,
             depth' = [depth EXCEPT ![e] = k], pc' = [pc EXCEPT ![e] = where], now' = now
      PROVE  /\ TypeOK' /\ OneInHand(e)' /\ Turn(e)
             /\ pc'[e] \in {"next", "lstat", "stat", "mkdir"}
             /\ Task(e)' = Task(e)
  <2>1. TypeOK' /\ Turn(e) /\ pc'[e] = where /\ depth'[e] = k
    BY <1>1, <1>2, <1>4, <1>5 DEF TypeOK, Phases, Turn
  <2>2. Task(e)' = Task(e)
    BY <1>2, <1>5 DEF Task
  <2>3. OneInHand(e)'
    <3>1. Staging(e)' = Staging(e)
      BY <1>1, <1>5, <2>1, <2>2 DEF Staging, Working
    <3> QED
      BY <1>1, <1>2, <1>5, <2>1, <2>2, <3>1 DEF OneInHand, Working, Placing
  <2> QED
    BY <1>5, <2>1, <2>2, <2>3
<1>6. CASE /\ depth[e] # d
           /\ depth' = [depth EXCEPT ![e] = @ + 1] /\ pc' = [pc EXCEPT ![e] = "mkdir"] /\ now' = now
  <2>1. depth[e] + 1 \in 0..d /\ depth[e] + 1 > 0
    BY <1>4, <1>6
  <2>2. depth' = [depth EXCEPT ![e] = depth[e] + 1]
    BY <1>6
  <2> HIDE DEF d
  <2> QED
    BY <1>5, <1>6, <2>1, <2>2
<1>7. CASE /\ depth[e] # 0
           /\ depth' = [depth EXCEPT ![e] = @ - 1] /\ pc' = pc /\ now' = now
  <2>1. depth[e] - 1 \in 0..d
    BY <1>4, <1>7
  <2>2. depth' = [depth EXCEPT ![e] = depth[e] - 1]
    BY <1>7
  <2>3. pc' = [pc EXCEPT ![e] = "stat"]
    BY <1>1, <1>7 DEF TypeOK
  <2> HIDE DEF d
  <2> QED
    BY <1>5, <1>7, <2>1, <2>2, <2>3
<1> QED
  BY <1>3, <1>6, <1>7 DEF Stat, Goto

\* Exec x has wanted a directory, and goes on having wanted it.
LEMMA WantsOn ==
  ASSUME Typed, NEW x \in Execs, plan'[x] = plan[x], now'[x] \in Nat, now'[x] >= now[x],
         NEW p, WantsDirectory(x, p)
  PROVE  WantsDirectory(x, p)'
<1>1. now[x] \in Nat
  BY DEF Typed, TypeOK
<1>2. 1..now[x] \cap DOMAIN plan[x] \subseteq 1..now'[x] \cap DOMAIN plan'[x]
  BY <1>1
<1> QED
  BY <1>2 DEF WantsDirectory

\* What a Mkdir is about: a place in the tree where this exec wants a directory.
LEMMA MkdirPlace ==
  ASSUME Typed, NEW e \in Execs, pc[e] = "mkdir"
  PROVE  /\ Prefix(goal[e], depth[e]) \in Locations
         /\ \E r \in Relative :
               /\ Prefix(goal[e], depth[e]) = Backing(r)
               /\ (Task(e).do = "path" => Task(e).at # <<>>) => WantsDirectory(e, r)
<1>1. /\ TypeOK /\ now[e] <= Len(plan[e]) /\ goal[e] = Goal(Task(e))
      /\ depth[e] \in Nat /\ depth[e] > 0 /\ depth[e] \in 0..Len(goal[e])
  BY DEF Typed, TypeOK, OneInHand, Working
<1>2. /\ Task(e).do \in {"init", "path"} /\ Task(e).at \in Relative
      /\ now[e] \in Nat /\ now[e] \in DOMAIN plan[e] /\ Goal(Task(e)) \in Locations
      /\ now[e] \in 1..Len(plan[e]) + 1
  BY <1>1, TaskFacts DEF TypeOK
<1> DEFINE at == Task(e).at
           q  == IF Task(e).do = "init" THEN at ELSE Parent(at)
           d  == depth[e]
           r  == Prefix(q, d - 1)
<1>3. q \in Relative /\ goal[e] = Backing(q)
  BY <1>1, <1>2, ParentIsRelative DEF Goal
<1>4. d \in 1..Len(Backing(q))
  BY <1>1, <1>3, BackingFacts
<1> HIDE DEF q, d
<1>5. d - 1 \in 0..Len(q) /\ r \in Relative /\ Prefix(goal[e], d) = Backing(r)
  BY <1>3, <1>4, PrefixOfBacking
<1>6. /\ q \in Seq(Names) /\ Len(q) \in Nat /\ Len(r) = d - 1 /\ r \in Seq(Names)
      /\ \A i \in 1..(d - 1) : r[i] = q[i]
  BY <1>3, <1>5, PrefixIsRelative, RelativeAssumption
<1> HIDE DEF r
<1>7. /\ Len(at) \in Nat /\ Len(at) >= Len(q) /\ \A i \in 1..Len(q) : q[i] = at[i]
      /\ Task(e).do = "path" => at = <<>> \/ Len(at) > Len(q)
  <2>1. CASE Task(e).do = "init"
    BY <1>2, <1>6, <2>1 DEF q
  <2>2. CASE Task(e).do = "path" /\ at # <<>>
    BY <1>2, <2>2, RelativeParent DEF q
  <2>3. CASE Task(e).do = "path" /\ at = <<>>
    <3>1. q = <<>>
      BY <2>3, SubSeqEmpty DEF q, Parent
    <3> QED
      BY <2>3, <3>1
  <2> QED
    BY <1>2, <2>1, <2>2, <2>3
<1>8. ASSUME Task(e).do = "path" => at # <<>>
      PROVE  WantsDirectory(e, r)
  <2>1. now[e] \in 1..now[e] \cap DOMAIN plan[e] /\ plan[e][now[e]] = Task(e)
    BY <1>2 DEF Task
  <2>2. PICK k \in Nat, m \in Nat : Len(r) = k /\ Len(at) = m
    BY <1>6, <1>7, <1>4
  <2>3. k <= m /\ (Task(e).do = "path" => k < m)
    BY <1>5, <1>6, <1>7, <1>8, <2>2
  <2>4. at \in Seq(Names) /\ k \in 0..Len(at)
    BY <1>2, <2>2, <2>3, RelativeAssumption
  <2>5. /\ Prefix(at, k) \in Seq(Names) /\ Len(Prefix(at, k)) = k
        /\ \A i \in 1..k : Prefix(at, k)[i] = at[i]
    BY <2>4, PrefixOf
  <2>6. \A i \in 1..k : Prefix(at, k)[i] = r[i]
    BY <1>5, <1>6, <1>7, <2>2, <2>5
  <2>7. Prefix(at, Len(r)) = r
    BY <1>6, <2>2, <2>5, <2>6, SeqEqual
  <2>8. Len(at) >= Len(r) /\ (Task(e).do = "path" => at # r)
    <3>1. Task(e).do = "path" => Len(at) # Len(r)
      BY <2>2, <2>3
    <3> QED
      BY <2>2, <2>3, <3>1
  <2> QED
    BY <2>1, <2>7, <2>8 DEF WantsDirectory
<1>9. Prefix(goal[e], depth[e]) \in Locations
  BY <1>5, BackingFacts DEF d
<1> QED
  BY <1>5, <1>8, <1>9 DEF d


LEMMA MkdirTypes ==
  ASSUME Typed, NEW e \in Execs, Mkdir(e)
  PROVE  /\ TypeOK' /\ OneInHand(e)' /\ Turn(e)
         /\ pc'[e] \in {"next", "lstat", "mkdir"}
         /\ pc'[e] # "next" => Task(e)' = Task(e)
<1> DEFINE p == Prefix(goal[e], depth[e])
<1>1. TypeOK /\ OneInHand(e) /\ now[e] <= Len(plan[e]) /\ pc[e] = "mkdir"
  BY DEF Typed, OneInHand, Working, Mkdir
<1>2. UNCHANGED <<relinked, plan, goal, target, staged>>
  BY DEF Mkdir
<1> HIDE DEF p
<1>3. fs' \in [Locations -> Entries] /\ made' \in [Execs -> SUBSET Locations]
  <2>1. CASE CanCreate(p) /\ Put(p, Dir)
             /\ made' = [made EXCEPT ![e] = IF Task(e).do = "init" THEN @ \cup {At(p)} ELSE @]
    <3>1. At(p) \in Locations /\ fs' = [fs EXCEPT ![At(p)] = Dir]
      BY <2>1 DEF CanCreate, Put
    <3> QED
      BY <1>1, <2>1, <3>1 DEF TypeOK, Entries
  <2>2. CASE UNCHANGED <<fs, made>>
    BY <1>1, <2>2 DEF TypeOK
  <2> QED
    BY <2>1, <2>2 DEF Mkdir, p
<1>4. CASE Made(e) /\ depth' = depth
  <2>1. /\ pc' \in [Execs -> Phases] /\ now' \in [Execs -> Nat]
        /\ now'[e] \in 1..Len(plan[e]) + 1
        /\ \A x \in Execs \ {e} : pc'[x] = pc[x] /\ now'[x] = now[x]
        /\ OneInHand(e)' /\ pc'[e] \in {"next", "lstat"}
        /\ pc'[e] = "lstat" => Task(e)' = Task(e)
    BY <1>1, <1>2, <1>4, MadeTypes
  <2>2. TypeOK'
    BY <1>1, <1>2, <1>3, <1>4, <2>1 DEF TypeOK
  <2> QED
    BY <1>1, <1>2, <1>4, <2>1, <2>2 DEF Turn
<1>5. CASE /\ depth[e] # Len(goal[e])
           /\ depth' = [depth EXCEPT ![e] = @ + 1] /\ pc' = pc /\ now' = now
  <2>1. /\ depth[e] + 1 \in 0..Len(goal[e]) /\ depth[e] + 1 > 0 /\ depth[e] + 1 \in Nat
        /\ depth'[e] = depth[e] + 1
        /\ \A x \in Execs \ {e} : depth'[x] = depth[x]
    <3>1. depth[e] \in 0..Len(goal[e]) /\ Len(goal[e]) \in Nat
      <4>1. goal[e] \in Locations \cup {<<>>} /\ Len(<<>>) = 0
        BY <1>1 DEF TypeOK
      <4> QED
        BY <1>1, <4>1, LocationFacts DEF TypeOK
    <3> QED
      BY <1>1, <1>5, <3>1 DEF TypeOK
  <2>2. TypeOK' /\ Turn(e)
    BY <1>1, <1>2, <1>3, <1>5, <2>1 DEF TypeOK, Turn
  <2>3. Task(e)' = Task(e)
    BY <1>2, <1>5 DEF Task
  <2>4. OneInHand(e)'
    <3>1. Staging(e)' = Staging(e)
      BY <1>5, <2>3 DEF Staging, Working
    <3> QED
      BY <1>1, <1>2, <1>5, <2>1, <2>3, <3>1 DEF OneInHand, Working, Placing
  <2> QED
    BY <1>1, <1>5, <2>2, <2>3, <2>4
<1> QED
  BY <1>4, <1>5 DEF Mkdir

\* A step that only moves e from one call to the next.
LEMMA MovingTypes ==
  ASSUME Typed, NEW e \in Execs, NEW where \in Phases,
         pc' = [pc EXCEPT ![e] = where],
         fs' \in [Locations -> Entries],
         UNCHANGED <<relinked, plan, now, goal, depth, target, staged, made>>,
         where \in Working => pc[e] \in Placing /\ where \in Placing
  PROVE  TypeOK' /\ OneInHand(e)' /\ Turn(e) /\ pc'[e] = where /\ Task(e)' = Task(e)
<1>1. TypeOK /\ OneInHand(e)
  BY DEF Typed
<1>2. TypeOK' /\ Turn(e) /\ pc'[e] = where
  BY <1>1 DEF TypeOK, Turn
<1>3. Task(e)' = Task(e)
  BY DEF Task
<1>4. OneInHand(e)'
  BY <1>1, <1>2, <1>3 DEF OneInHand, Working, Placing, Staging
<1> QED
  BY <1>2, <1>3, <1>4

LEMMA LookAtPlaceTypes ==
  ASSUME Typed, NEW e \in Execs, LookAtPlace(e)
  PROVE  /\ TypeOK' /\ OneInHand(e)' /\ Turn(e) /\ Task(e)' = Task(e)
         /\ pc'[e] \in {"symlink", "conflict", "readlink"}
         /\ pc'[e] = "conflict" => EntryIn(Full, fs, Here(e)) = Dir
         /\ pc'[e] = "readlink" => EntryIn(Full, fs, Here(e)).kind = "link"
<1> DEFINE x == EntryIn(Full, fs, Here(e))
           where == CASE x.kind = "none" -> "symlink"
                      [] x.kind = "dir"  -> "conflict"
                      [] OTHER           -> "readlink"
<1> HIDE DEF x
<1>1. /\ pc[e] = "lstat" /\ pc' = [pc EXCEPT ![e] = where] /\ fs' = fs
      /\ UNCHANGED <<relinked, plan, now, goal, depth, target, staged, made>>
  BY AtIsAtIn DEF LookAtPlace, Goto, x
<1>2. TypeOK /\ fs \in [Locations -> Entries]
  BY DEF Typed, TypeOK
<1>3. x \in Entries
  BY <1>2 DEF EntryIn, Entries, x
<1>4. x.kind \in {"none", "dir", "link"} /\ (x.kind = "dir" => x = Dir)
  BY <1>3, EntryKinds
<1>5. /\ where \in {"symlink", "conflict", "readlink"}
      /\ where = "conflict" => x = Dir
      /\ where = "readlink" => x.kind = "link"
  BY <1>4
<1> HIDE DEF where
<1>6. where \in Phases /\ (where \in Working => pc[e] \in Placing /\ where \in Placing)
  BY <1>1, <1>5 DEF Phases, Working, Placing
<1>7. TypeOK' /\ OneInHand(e)' /\ Turn(e) /\ pc'[e] = where /\ Task(e)' = Task(e)
  BY <1>1, <1>2, <1>6, MovingTypes
<1> QED
  BY <1>5, <1>7 DEF x

\* Stand(e) and Done(e): the link is e's, and the task is done.
LEMMA StandingTypes ==
  ASSUME Typed, NEW e \in Execs, pc[e] \in Placing, Stand(e), Done(e),
         fs' \in [Locations -> Entries],
         UNCHANGED <<relinked, plan, goal, depth, target, made>>
  PROVE  /\ TypeOK' /\ OneInHand(e)' /\ Turn(e) /\ pc'[e] = "next"
         /\ staged'[e] = staged[e] \cup {[at |-> Task(e).at, to |-> target[e]]}
<1>1. TypeOK /\ OneInHand(e) /\ now[e] <= Len(plan[e]) /\ target[e] \in Locations
  BY DEF Typed, OneInHand, Working, Staging
<1>2. now[e] \in Nat /\ now[e] + 1 \in 1..Len(plan[e]) + 1 /\ Task(e).at \in Relative
  BY <1>1, TaskFacts
<1> DEFINE s == [at |-> Task(e).at, to |-> target[e]]
<1>3. s \in [at : Relative, to : Locations]
  BY <1>1, <1>2
<1>4. /\ pc' = [pc EXCEPT ![e] = "next"] /\ now' = [now EXCEPT ![e] = @ + 1]
      /\ staged' = [staged EXCEPT ![e] = @ \cup {s}]
  BY DEF Stand, Done, Goto
<1> HIDE DEF s
<1>5. TypeOK' /\ pc'[e] = "next" /\ staged'[e] = staged[e] \cup {s}
  BY <1>1, <1>2, <1>3, <1>4 DEF TypeOK, Phases
<1>6. OneInHand(e)'
  BY <1>5 DEF OneInHand, Working, Placing, Staging
<1>7. Turn(e)
  BY <1>1, <1>4 DEF Turn, TypeOK
<1> QED
  BY <1>5, <1>6, <1>7 DEF s

LEMMA ReadPlaceTypes ==
  ASSUME Typed, NEW e \in Execs, ReadPlace(e)
  PROVE  TypeOK' /\ OneInHand(e)' /\ Turn(e)
<1>1. fs' \in [Locations -> Entries] /\ pc[e] \in Placing
  BY DEF Typed, TypeOK, ReadPlace, Placing
<1>2. CASE Stand(e) /\ Done(e)
  BY <1>1, <1>2, StandingTypes DEF ReadPlace
<1>3. CASE /\ Goto(e, IF Lstat(Here(e)).kind = "link" THEN "remove" ELSE "failed")
           /\ UNCHANGED <<staged, now>>
  <2> DEFINE where == IF Lstat(Here(e)).kind = "link" THEN "remove" ELSE "failed"
  <2>1. where \in Phases /\ (where \in Working => pc[e] \in Placing /\ where \in Placing)
    BY <1>1 DEF Phases, Working, Placing
  <2>2. pc' = [pc EXCEPT ![e] = where]
    BY <1>3 DEF Goto
  <2> HIDE DEF where
  <2> QED
    BY <1>1, <1>3, <2>1, <2>2, MovingTypes DEF ReadPlace
<1> QED
  BY <1>2, <1>3 DEF ReadPlace

LEMMA RemovePlaceTypes ==
  ASSUME Typed, NEW e \in Execs, RemovePlace(e)
  PROVE  TypeOK' /\ OneInHand(e)' /\ Turn(e)
<1>1. fs \in [Locations -> Entries] /\ pc[e] \in Placing
  BY DEF Typed, TypeOK, RemovePlace, Placing
<1>2. PICK where \in {"symlink", "failed"} :
         pc' = [pc EXCEPT ![e] = where] /\ fs' \in [Locations -> Entries]
  <2>1. CASE Put(Here(e), None) /\ Goto(e, "symlink") /\ Lstat(Here(e)) # None
    <3>1. fs' = [fs EXCEPT ![At(Here(e))] = None] /\ None \in Entries
      BY <2>1 DEF Put, Entries
    <3>2. fs' \in [Locations -> Entries]
      BY <1>1, <3>1
    <3> QED
      BY <2>1, <3>2 DEF Goto
  <2>2. CASE Goto(e, "failed") /\ UNCHANGED fs
    BY <1>1, <2>2 DEF Goto
  <2> QED
    BY <2>1, <2>2 DEF RemovePlace
<1>3. where \in Phases /\ (where \in Working => pc[e] \in Placing /\ where \in Placing)
  BY <1>1, <1>2 DEF Phases, Working, Placing
<1> QED
  BY <1>2, <1>3, MovingTypes DEF RemovePlace

LEMMA MakeLinkTypes ==
  ASSUME Typed, NEW e \in Execs, MakeLink(e)
  PROVE  TypeOK' /\ OneInHand(e)' /\ Turn(e)
<1>1. fs \in [Locations -> Entries] /\ pc[e] \in Placing /\ target[e] \in Locations
  BY DEF Typed, TypeOK, MakeLink, Placing, OneInHand, Staging, Working
<1>2. CASE /\ Put(Here(e), Link(target[e])) /\ Stand(e) /\ Done(e)
  <2>1. fs' = [fs EXCEPT ![At(Here(e))] = Link(target[e])] /\ Link(target[e]) \in Entries
    BY <1>1, <1>2 DEF Put, Entries
  <2>2. fs' \in [Locations -> Entries]
    BY <1>1, <2>1
  <2> QED
    BY <1>1, <1>2, <2>2, StandingTypes DEF MakeLink
<1>3. CASE Goto(e, "lost") /\ UNCHANGED <<fs, staged, now>>
  <2>1. "lost" \in Phases /\ "lost" \notin Working /\ pc' = [pc EXCEPT ![e] = "lost"]
    BY <1>3 DEF Phases, Working, Placing, Goto
  <2> QED
    BY <1>1, <1>3, <2>1, MovingTypes DEF MakeLink
<1> QED
  BY <1>2, <1>3 DEF MakeLink

LEMMA EndingTypes ==
  ASSUME Typed, NEW e \in Execs, MkdirFails(e) \/ Launch(e) \/ Stop(e)
  PROVE  TypeOK' /\ OneInHand(e)' /\ Turn(e) /\ pc'[e] \in {"launched", "failed"}
<1>1. PICK where \in {"launched", "failed"} : pc' = [pc EXCEPT ![e] = where]
  BY DEF MkdirFails, Launch, Stop, Goto
<1>2. where \in Phases /\ where \notin Working
  BY <1>1 DEF Phases, Working, Placing
<1>3. fs' \in [Locations -> Entries] /\ UNCHANGED <<relinked, plan, now, goal, depth, target, staged, made>>
  BY DEF Typed, TypeOK, MkdirFails, Launch, Stop
<1> QED
  BY <1>1, <1>2, <1>3, MovingTypes


LEMMA RelinkTypes ==
  ASSUME Typed, Relink
  PROVE  TypeOK' /\ \A e \in Execs : OneInHand(e)'
<1>1. TypeOK /\ relinked < MaxRelinks /\ relinked' = relinked + 1 /\ MaxRelinks \in Nat
  BY ChoicesAssumption DEF Typed, Relink
<1>2. PICK l \in Locations, to \in Relinks : fs' = [fs EXCEPT ![l] = Link(to)]
  BY DEF Relink
<1>3. UNCHANGED <<pc, plan, now, goal, depth, target, staged, made>>
  BY DEF Relink, execVars
<1>4. fs' \in [Locations -> Entries]
  <2>1. Link(to) \in Entries
    BY <1>2, HostAssumption DEF Entries
  <2> QED
    BY <1>1, <1>2, <2>1 DEF TypeOK
<1>5. relinked' \in 0..MaxRelinks
  BY <1>1 DEF TypeOK
<1>6. TypeOK'
  BY <1>1, <1>3, <1>4, <1>5 DEF TypeOK
<1>7. ASSUME NEW e \in Execs
      PROVE  OneInHand(e)'
  BY <1>3 DEF Typed, OneInHand, Staging, Task
<1> QED
  BY <1>6, <1>7

LEMMA PlanTypes ==
  ASSUME NEW ps \in Seq(Relative), NEW qs \in Seq(Relative)
  PROVE  PlanOf(ps, qs) \in Seq(Tasks)
<1>1. <<[do |-> "init", at |-> <<>>]>> \in Seq(Tasks)
  <2>1. [do |-> "init", at |-> <<>>] \in Tasks
    BY RelativeAssumption DEF Tasks
  <2> QED
    BY <2>1
<1>2. ASSUME NEW s \in Seq(Relative), NEW d \in {"init", "path"}
      PROVE  [i \in DOMAIN s |-> [do |-> d, at |-> s[i]]] \in Seq(Tasks)
  <2>1. Len(s) \in Nat /\ DOMAIN s = 1..Len(s) /\ \A i \in 1..Len(s) : s[i] \in Relative
    BY LenProperties, ElementOfSeq
  <2>2. [i \in DOMAIN s |-> [do |-> d, at |-> s[i]]] \in [1..Len(s) -> Tasks]
    BY <2>1 DEF Tasks
  <2> QED
    BY <2>1, <2>2, SeqDef
<1>3. /\ [i \in DOMAIN ps |-> [do |-> "init", at |-> ps[i]]] \in Seq(Tasks)
      /\ [i \in DOMAIN qs |-> [do |-> "path", at |-> qs[i]]] \in Seq(Tasks)
  BY <1>2
<1> DEFINE a == [i \in DOMAIN ps |-> [do |-> "init", at |-> ps[i]]]
           b == [i \in DOMAIN qs |-> [do |-> "path", at |-> qs[i]]]
           r == <<[do |-> "init", at |-> <<>>]>>
<1>4. a \in Seq(Tasks) /\ b \in Seq(Tasks) /\ r \in Seq(Tasks)
  BY <1>1, <1>3
<1> HIDE DEF a, b, r
<1>5. r \o a \in Seq(Tasks)
  BY <1>4, ConcatProperties
<1>6. (r \o a) \o b \in Seq(Tasks)
  BY <1>4, <1>5, ConcatProperties
<1> QED
  BY <1>6 DEF PlanOf, a, b, r

LEMMA InitTypes == Init => Typed
<1> SUFFICES ASSUME Init
             PROVE  Typed
  OBVIOUS
<1>1. fs \in [Locations -> Entries]
  <2>1. PICK host \in HostTrees :
           /\ host \in [Locations -> Entries]
           /\ fs = [l \in Locations |-> IF InTree(l) THEN None ELSE host[l]]
    BY HostAssumption DEF Init
  <2> QED
    BY <2>1 DEF Entries
<1>2. plan \in [Execs -> Seq(Tasks)]
  <2>1. \A ps \in InitPaths, qs \in PathEntries : PlanOf(ps, qs) \in Seq(Tasks)
    BY PlanTypes, ChoicesAssumption
  <2>2. Plans \subseteq Seq(Tasks)
    BY <2>1 DEF Plans
  <2>3. plan \in [Execs -> Plans]
    BY DEF Init
  <2> QED
    BY <2>2, <2>3
<1>3. ASSUME NEW e \in Execs
      PROVE  1 \in 1..Len(plan[e]) + 1 /\ 0 \in 0..Len(<<>>)
  <2>1. Len(plan[e]) \in Nat
    BY <1>2, LenProperties
  <2> QED
    BY <2>1
<1>4. /\ relinked = 0 /\ pc = [e \in Execs |-> "next"] /\ now = [e \in Execs |-> 1]
      /\ goal = [e \in Execs |-> <<>>] /\ depth = [e \in Execs |-> 0]
      /\ target = [e \in Execs |-> <<>>] /\ staged = [e \in Execs |-> {}]
      /\ made = [e \in Execs |-> {}] /\ MaxRelinks \in Nat
  BY ChoicesAssumption DEF Init
<1>5. TypeOK
  BY <1>1, <1>2, <1>3, <1>4 DEF TypeOK, Phases
<1>6. \A e \in Execs : OneInHand(e)
  BY <1>4 DEF OneInHand, Working, Placing, Staging
<1> QED
  BY <1>5, <1>6 DEF Typed

LEMMA StepTypes ==
  ASSUME Typed, NEW e \in Execs, Step(e)
  PROVE  Typed' /\ Turn(e)
<1>1. TypeOK' /\ OneInHand(e)' /\ Turn(e)
  BY MakeRootTypes, SkipEntryTypes, StageEntryTypes, StatTypes, MkdirTypes, LookAtPlaceTypes,
     ReadPlaceTypes, RemovePlaceTypes, MakeLinkTypes, EndingTypes, Zenon DEF Step
<1>2. \A x \in Execs \ {e} : OneInHand(x)'
  BY <1>1, OthersInHand DEF Typed
<1> QED
  BY <1>1, <1>2 DEF Typed

LEMMA NextTypes ==
  ASSUME Typed, [Next]_vars
  PROVE  Typed'
<1>1. CASE Relink
  BY <1>1, RelinkTypes DEF Typed
<1>2. ASSUME NEW e \in Execs, Step(e)
      PROVE  Typed'
  BY <1>2, StepTypes
<1>3. CASE UNCHANGED vars
  <2>1. TypeOK'
    BY <1>3 DEF Typed, TypeOK, vars, execVars
  <2>2. \A e \in Execs : OneInHand(e)'
    BY <1>3 DEF Typed, OneInHand, Staging, Task, vars, execVars
  <2> QED
    BY <2>1, <2>2 DEF Typed
<1> QED
  BY <1>1, <1>2, <1>3 DEF Next

\* The types of every reachable state, and that MkdirAll asks only about parts
\* of the path it was given: depth never leaves 0..Len(goal).
THEOREM TypeCorrect == Spec => []TypeOK
<1>1. Typed /\ [Next]_vars => Typed'
  BY NextTypes
<1>2. Typed => TypeOK
  BY DEF Typed
<1> QED
  BY InitTypes, <1>1, <1>2, PTL DEF Spec


-----------------------------------------------------------------------------
(* What holds as long as no link of the host has changed.                  *)

\* Each directory of the tree is one that some exec has wanted there.
DirsWanted ==
  \A p \in Relative : fs[Backing(p)] = Dir => \E x \in Execs : WantsDirectory(x, p)

\* The target that e stages is still that of the host's link.
TargetIsHosts(e) == Staging(e) => EntryIn(Full, fs, OnHost(Task(e).at)) = Link(target[e])

\* A link found in the place of e's has e's target: none is removed.
FindsItsLink(e) ==
  /\ pc[e] # "remove"
  /\ pc[e] = "readlink" => EntryIn(Full, fs, Here(e)) = Link(target[e])

StagedStays(e) == \A s \in staged[e] : EntryIn(Full, fs, Backing(s.at)) = Link(s.to)

ConflictWanted(e) == pc[e] = "conflict" => \E x \in Execs : WantsDirectory(x, Task(e).at)

\* The directory above the place of a link has been made.
PlaceStands(e) == pc[e] \in Placing => IsDir(Goal(Task(e)))

\* What a link that could not be made was lost to.
LostTo(e) ==
  pc[e] = "lost" =>
    \/ \E x \in Execs : WantsDirectory(x, Task(e).at)
    \/ Here(e) \in Locations /\ EntryIn(Full, fs, Here(e)) = Link(target[e])

Serves(e) == /\ TargetIsHosts(e) /\ FindsItsLink(e) /\ StagedStays(e)
             /\ ConflictWanted(e) /\ PlaceStands(e) /\ LostTo(e)

Quiet == Sound(Full, fs) /\ DirsWanted /\ \A e \in Execs : Serves(e)

IInv == Typed /\ (relinked = 0 => Quiet)

\* What a step of e keeps for all the others.
Onward(e) ==
  /\ Grows(fs, fs') /\ StillSees(Full, fs, Full', fs')
  /\ Sound(Full, fs)' /\ DirsWanted' /\ Serves(e)'

LEMMA NowGrows ==
  ASSUME Typed, NEW e \in Execs, Step(e), NEW x \in Execs
  PROVE  now'[x] \in Nat /\ now'[x] >= now[x] /\ plan'[x] = plan[x]
<1>1. TypeOK /\ now[x] \in Nat /\ now[e] \in Nat
  BY DEF Typed, TypeOK
<1>2. plan' = plan /\ (now' = now \/ now' = [now EXCEPT ![e] = @ + 1])
  BY DEF Step, MakeRoot, SkipEntry, StageEntry, Stat, Mkdir, MkdirFails, LookAtPlace, ReadPlace,
         RemovePlace, MakeLink, Launch, Stop, Made, Done
<1>3. now'[x] = now[x] \/ now'[x] = now[x] + 1
  BY <1>1, <1>2 DEF TypeOK
<1> QED
  BY <1>1, <1>2, <1>3

LEMMA WantedOn ==
  ASSUME Typed, NEW e \in Execs, Step(e), NEW p, \E x \in Execs : WantsDirectory(x, p)
  PROVE  \E x \in Execs : WantsDirectory(x, p)'
<1>1. PICK x \in Execs : WantsDirectory(x, p)
  OBVIOUS
<1>2. WantsDirectory(x, p)'
  BY <1>1, NowGrows, WantsOn
<1> QED
  BY <1>2

LEMMA CauseOn ==
  ASSUME Typed, NEW e \in Execs, Step(e), NEW x \in Execs, Task(x)' = Task(x),
         \E y \in Execs : WantsDirectory(y, Task(x).at)
  PROVE  (\E y \in Execs : WantsDirectory(y, Task(x).at))'
<1>1. PICK p : p = Task(x).at
  OBVIOUS
<1>2. PICK y \in Execs : WantsDirectory(y, p)'
  BY <1>1, WantedOn
<1>3. WantsDirectory(y, Task(x).at)'
  BY <1>1, <1>2 DEF WantsDirectory
<1> QED
  BY <1>3

LEMMA StagedOn ==
  ASSUME Typed, NEW x \in Execs, StagedStays(x), staged'[x] = staged[x],
         StillSees(Full, fs, Full', fs')
  PROVE  StagedStays(x)'
<1>1. ASSUME NEW s \in staged[x]
      PROVE  EntryIn(Full', fs', Backing(s.at)) = Link(s.to)
  <2>1. EntryIn(Full, fs, Backing(s.at)) = Link(s.to) /\ Link(s.to) # None
    BY EntryKinds DEF StagedStays
  <2>2. Backing(s.at) \in Locations
    <3>1. s.at \in Relative
      BY DEF Typed, TypeOK
    <3> QED
      BY <3>1, BackingFacts
  <2> QED
    BY <2>1, <2>2 DEF StillSees
<1> QED
  BY <1>1 DEF StagedStays

LEMMA TargetOn ==
  ASSUME Typed, NEW x \in Execs, TargetIsHosts(x), Staging(x),
         Task(x)' = Task(x), target'[x] = target[x], StillSees(Full, fs, Full', fs')
  PROVE  EntryIn(Full', fs', OnHost(Task(x)'.at)) = Link(target'[x])
<1>1. EntryIn(Full, fs, OnHost(Task(x).at)) = Link(target[x]) /\ Link(target[x]) # None
  BY EntryKinds DEF TargetIsHosts
<1>2. OnHost(Task(x).at) \in Locations
  BY TaskFacts DEF Typed, OneInHand, Staging
<1>3. EntryIn(Full', fs', OnHost(Task(x).at)) = Link(target[x])
  BY <1>1, <1>2 DEF StillSees
<1> QED
  BY <1>3, Zenon

\* A directory that a path leads to stays there.
LEMMA DirStays ==
  ASSUME Typed, Quiet, Grows(fs, fs'), NEW p \in Locations, IsDir(p)
  PROVE  IsDir(p)'
<1>1. fs \in [Locations -> Entries] /\ InDirectories(fs)
  BY DEF Typed, TypeOK, Quiet, Sound
<1>2. Full[p] \in Locations /\ fs[Full[p]] = Dir /\ Dir # None
  BY EntryKinds DEF IsDir
<1>3. Resolves(Full, fs) /\ Resolves(Full', fs')
  BY FullResolves, FullResolvesNext
<1>4. EntryIn(Full, fs, p) # None
  BY <1>1, <1>2, <1>3, ReachedIsThere
<1>5. \A l \in Locations : fs[l] # None => fs'[l] = fs[l]
  BY DEF Grows
<1>6. Full'[p] = Full[p]
  BY <1>1, <1>3, <1>4, <1>5, GrowthKeepsPaths
<1>7. fs'[Full[p]] = Dir
  BY <1>2, <1>5
<1> QED
  BY <1>2, <1>6, <1>7 DEF IsDir

\* What is a directory itself is one that its path leads to.
LEMMA DirItself ==
  ASSUME NEW F, NEW f, Resolves(F, f), NEW p \in Locations, EntryIn(F, f, p) = Dir
  PROVE  F[p] \in Locations /\ f[F[p]] = Dir
<1>1. AtIn(F, p) \in Locations /\ f[AtIn(F, p)] = Dir /\ f[AtIn(F, p)].kind # "link"
  BY EntryKinds DEF EntryIn
<1>2. PICK k \in Nat : Len(p) = k /\ k >= 1
  BY LocationFacts
<1>3. F[p] = AtIn(F, p)
  <2>1. CASE k = 1
    BY <1>2, <2>1, ResolvedStep DEF AtIn
  <2>2. CASE k > 1
    BY <1>1, <1>2, <2>2, ResolvedStep
  <2> QED
    BY <1>2, <2>1, <2>2
<1> QED
  BY <1>1, <1>3

LEMMA PlaceOn ==
  ASSUME Typed, Quiet, Grows(fs, fs'), NEW x \in Execs, PlaceStands(x),
         Task(x)' = Task(x), pc'[x] \in Placing => pc[x] \in Placing
  PROVE  PlaceStands(x)'
<1>1. ASSUME pc'[x] \in Placing
      PROVE  IsDir(Goal(Task(x)))'
  <2>1. pc[x] \in Placing /\ IsDir(Goal(Task(x)))
    BY <1>1 DEF PlaceStands
  <2>2. PICK p \in Locations : p = Goal(Task(x))
    BY <2>1, TaskFacts DEF Typed, OneInHand, Working
  <2>3. IsDir(p)'
    BY <2>1, <2>2, DirStays
  <2>4. Goal(Task(x))' = p
    BY <2>2 DEF Goal, Backing, Parent
  <2> QED
    BY <2>3, <2>4 DEF IsDir
<1> QED
  BY <1>1 DEF PlaceStands

LEMMA LostOn ==
  ASSUME Typed, NEW e \in Execs, Step(e), StillSees(Full, fs, Full', fs'),
         NEW x \in Execs, LostTo(x), pc'[x] = pc[x],
         Task(x)' = Task(x), target'[x] = target[x]
  PROVE  LostTo(x)'
<1>1. ASSUME pc'[x] = "lost"
      PROVE  \/ (\E y \in Execs : WantsDirectory(y, Task(x).at))'
             \/ Here(x)' \in Locations /\ EntryIn(Full', fs', Here(x)') = Link(target'[x])
  <2>1. CASE \E y \in Execs : WantsDirectory(y, Task(x).at)
    BY <2>1, CauseOn
  <2>2. CASE Here(x) \in Locations /\ EntryIn(Full, fs, Here(x)) = Link(target[x])
    <3>1. EntryIn(Full', fs', Here(x)) = Link(target[x])
      BY <2>2, EntryKinds DEF StillSees
    <3>2. Here(x)' = Here(x)
      BY DEF Here
    <3> QED
      BY <2>2, <3>1, <3>2
  <2> QED
    BY <1>1, <2>1, <2>2 DEF LostTo
<1> QED
  BY <1>1 DEF LostTo

LEMMA OthersServed ==
  ASSUME Typed, Quiet, NEW e \in Execs, Step(e), Turn(e), StillSees(Full, fs, Full', fs'),
         Grows(fs, fs'), NEW x \in Execs \ {e}
  PROVE  Serves(x)'
<1>1. /\ plan' = plan /\ pc'[x] = pc[x] /\ now'[x] = now[x]
      /\ target'[x] = target[x] /\ staged'[x] = staged[x]
  BY DEF Turn
<1>2. Task(x)' = Task(x) /\ Serves(x)
  BY <1>1 DEF Task, Quiet
<1>3. StagedStays(x)'
  BY <1>1, <1>2, StagedOn DEF Serves
<1>4. TargetIsHosts(x)'
  <2>1. Staging(x)' => Staging(x)
    BY <1>1, <1>2 DEF Staging
  <2>2. Staging(x) => EntryIn(Full', fs', OnHost(Task(x)'.at)) = Link(target'[x])
    BY <1>1, <1>2, TargetOn DEF Serves
  <2> QED
    BY <2>1, <2>2 DEF TargetIsHosts
<1>5. FindsItsLink(x)'
  <2>1. pc'[x] # "remove"
    BY <1>1, <1>2 DEF Serves, FindsItsLink
  <2>2. ASSUME pc'[x] = "readlink"
        PROVE  EntryIn(Full', fs', Here(x)') = Link(target'[x])
    <3>1. EntryIn(Full, fs, Here(x)) = Link(target[x]) /\ Link(target[x]) # None
      BY <1>1, <1>2, <2>2, EntryKinds DEF Serves, FindsItsLink
    <3>2. Here(x) \in Locations
      BY <1>1, <2>2, TaskFacts DEF Typed, OneInHand, Working, Placing
    <3>3. EntryIn(Full', fs', Here(x)) = Link(target[x])
      BY <3>1, <3>2 DEF StillSees
    <3>4. Here(x)' = Here(x)
      BY <1>2 DEF Here
    <3> QED
      BY <1>1, <3>3, <3>4
  <2> QED
    BY <2>1, <2>2 DEF FindsItsLink
<1>6. ConflictWanted(x)'
  <2>1. ASSUME pc'[x] = "conflict"
        PROVE  (\E y \in Execs : WantsDirectory(y, Task(x).at))'
    <3>1. \E y \in Execs : WantsDirectory(y, Task(x).at)
      BY <1>1, <1>2, <2>1 DEF Serves, ConflictWanted
    <3> QED
      BY <1>2, <3>1, CauseOn
  <2> QED
    BY <2>1 DEF ConflictWanted
<1>7. PlaceStands(x)'
  BY <1>1, <1>2, PlaceOn DEF Serves
<1>8. LostTo(x)'
  BY <1>1, <1>2, LostOn DEF Serves
<1> QED
  BY <1>3, <1>4, <1>5, <1>6, <1>7, <1>8 DEF Serves


\* A step that leaves the file system alone keeps what is said of it.
LEMMA SameSees ==
  ASSUME Typed, Quiet, NEW e \in Execs, Step(e), fs' = fs
  PROVE  /\ Full' = Full
         /\ Grows(fs, fs') /\ StillSees(Full, fs, Full', fs') /\ Sound(Full, fs)' /\ DirsWanted'
<1>1. Full' = Full
  BY SameFileSystem
<1>2. Grows(fs, fs') /\ StillSees(Full, fs, Full', fs')
  BY <1>1 DEF Grows, StillSees
<1>3. Sound(Full, fs)'
  <2>1. Sound(Full, fs)
    BY DEF Quiet
  <2>2. Sound(Full', fs')
    BY <1>1, <2>1
  <2> QED
    BY <2>2 DEF Sound, InDirectories, TopsAreNoLinks, LinksLeadOut, Mirrors
<1>4. DirsWanted'
  <2>1. ASSUME NEW p \in Relative, fs'[Backing(p)] = Dir
        PROVE  \E x \in Execs : WantsDirectory(x, p)'
    <3>1. \E x \in Execs : WantsDirectory(x, p)
      BY <2>1 DEF Quiet, DirsWanted
    <3> QED
      BY <3>1, WantedOn
  <2> QED
    BY <2>1 DEF DirsWanted
<1> QED
  BY <1>1, <1>2, <1>3, <1>4

LEMMA WholePrefix ==
  ASSUME NEW p \in Locations
  PROVE  Prefix(p, Len(p)) = p
<1>1. p \in Seq(Texts) /\ Len(p) \in Nat
  BY LocationFacts
<1>2. /\ Prefix(p, Len(p)) \in Seq(Texts) /\ Len(Prefix(p, Len(p))) = Len(p)
      /\ \A i \in 1..Len(p) : Prefix(p, Len(p))[i] = p[i]
  <2>1. Len(p) \in 0..Len(p)
    BY <1>1
  <2> QED
    BY <1>1, <2>1, PrefixOf
<1> QED
  BY <1>1, <1>2, SeqEqual

\* A link is staged for a path below the drive; what its place resolves to is
\* the place itself, or the host's link.
LEMMA PlaceOfTask ==
  ASSUME Typed, Quiet, NEW e \in Execs, Staging(e)
  PROVE  /\ Task(e).at \in Relative /\ Task(e).at # <<>>
         /\ EntryIn(Full, fs, OnHost(Task(e).at)) = Link(target[e])
         /\ Here(e) = Backing(Task(e).at) /\ Here(e) \in Locations
         /\ AtIn(Full, Here(e)) = Here(e) \/ EntryIn(Full, fs, Here(e)) = Link(target[e])
<1>1. /\ fs \in [Locations -> Entries] /\ Task(e).at \in Relative /\ Here(e) \in Locations
      /\ OnHost(Task(e).at) \in Locations
  BY TaskFacts DEF Typed, TypeOK, OneInHand, Staging
<1>2. EntryIn(Full, fs, OnHost(Task(e).at)) = Link(target[e])
  BY DEF Quiet, Serves, TargetIsHosts
<1>3. Task(e).at # <<>>
  <2>1. ASSUME Task(e).at = <<>>
        PROVE  FALSE
    <3>1. Len(OnHost(Task(e).at)) = 1
      BY <1>1, <2>1, BackingFacts
    <3>2. AtIn(Full, OnHost(Task(e).at)) = OnHost(Task(e).at)
      BY <3>1 DEF AtIn
    <3>3. fs[OnHost(Task(e).at)] = Link(target[e])
      BY <1>1, <1>2, <3>2 DEF EntryIn
    <3> QED
      BY <1>1, <3>1, <3>3, EntryKinds DEF Quiet, Sound, TopsAreNoLinks
  <2> QED
    BY <2>1
<1>4. AtIn(Full, Here(e)) = Here(e) \/ AtIn(Full, Here(e)) = AtIn(Full, OnHost(Task(e).at))
  <2>1. LinksLeadOut(fs) /\ Mirrors(Full, fs)
    BY DEF Quiet, Sound
  <2> QED
    BY <1>1, <2>1, FullResolves, TreeOrHost DEF Here
<1>5. AtIn(Full, Here(e)) = Here(e) \/ EntryIn(Full, fs, Here(e)) = Link(target[e])
  BY <1>2, <1>4 DEF EntryIn
<1> QED
  BY <1>1, <1>2, <1>3, <1>5 DEF Here

\* A step of e's after which e is not placing a link, and has staged no other.
LEMMA ServesElsewhere ==
  ASSUME Typed, Quiet, NEW e \in Execs, Step(e), StillSees(Full, fs, Full', fs'),
         staged'[e] = staged[e], pc'[e] \notin {"remove", "readlink", "conflict", "lost"},
         TargetIsHosts(e)', PlaceStands(e)'
  PROVE  Serves(e)'
<1>1. StagedStays(e)'
  BY StagedOn DEF Quiet, Serves
<1>2. FindsItsLink(e)' /\ ConflictWanted(e)' /\ LostTo(e)'
  BY DEF FindsItsLink, ConflictWanted, LostTo
<1> QED
  BY <1>1, <1>2 DEF Serves

LEMMA MakeRootOnward ==
  ASSUME Typed, Quiet, NEW e \in Execs, MakeRoot(e)
  PROVE  Onward(e)
<1>1. Step(e) /\ fs' = fs /\ Turn(e) /\ TypeOK
  BY MakeRootTypes DEF Step, MakeRoot, Typed
<1>2. pc'[e] = "stat" /\ staged'[e] = staged[e] /\ Task(e)' = Task(e) /\ Task(e).do = "init"
  BY <1>1 DEF MakeRoot, MkdirAll, Goto, TypeOK, Doing, Task
<1>3. TargetIsHosts(e)' /\ PlaceStands(e)'
  BY <1>2 DEF TargetIsHosts, PlaceStands, Staging, Placing
<1> QED
  BY <1>1, <1>2, <1>3, SameSees, ServesElsewhere DEF Onward

LEMMA SkipEntryOnward ==
  ASSUME Typed, Quiet, NEW e \in Execs, SkipEntry(e)
  PROVE  Onward(e)
<1>1. Step(e) /\ fs' = fs /\ TypeOK
  BY DEF Step, SkipEntry, Typed
<1>2. pc'[e] = "next" /\ staged'[e] = staged[e]
  BY <1>1 DEF SkipEntry, Done, Goto, TypeOK
<1>3. TargetIsHosts(e)' /\ PlaceStands(e)'
  BY <1>2 DEF TargetIsHosts, PlaceStands, Staging, Working, Placing
<1> QED
  BY <1>1, <1>2, <1>3, SameSees, ServesElsewhere DEF Onward

LEMMA StageEntryOnward ==
  ASSUME Typed, Quiet, NEW e \in Execs, StageEntry(e)
  PROVE  Onward(e)
<1>1. Step(e) /\ fs' = fs /\ TypeOK
  BY DEF Step, StageEntry, Typed
<1>2. pc'[e] = "stat" /\ staged'[e] = staged[e]
  BY <1>1 DEF StageEntry, MkdirAll, Goto, TypeOK
<1>3. Task(e)' = Task(e) /\ EntryIn(Full, fs, OnHost(Task(e).at)) = Link(target'[e])
  BY StageEntryTypes
<1>4. Full' = Full
  BY <1>1, SameSees
<1>5. TargetIsHosts(e)' /\ PlaceStands(e)'
  BY <1>1, <1>2, <1>3, <1>4 DEF TargetIsHosts, PlaceStands, Placing
<1> QED
  BY <1>1, <1>2, <1>5, SameSees, ServesElsewhere DEF Onward

LEMMA StatOnward ==
  ASSUME Typed, Quiet, NEW e \in Execs, Stat(e)
  PROVE  Onward(e)
<1>1. Step(e) /\ fs' = fs /\ staged' = staged /\ target' = target /\ pc[e] = "stat"
  BY DEF Step, Stat
<1>2. pc'[e] \in {"next", "lstat", "stat", "mkdir"} /\ (pc'[e] # "next" => Task(e)' = Task(e))
  BY StatTypes
<1>3. StillSees(Full, fs, Full', fs')
  BY <1>1, SameSees
<1>4. TargetIsHosts(e)'
  <2>1. ASSUME Staging(e)'
        PROVE  EntryIn(Full', fs', OnHost(Task(e)'.at)) = Link(target'[e])
    <3>1. Task(e)' = Task(e) /\ Staging(e)
      BY <1>1, <1>2, <2>1 DEF Staging, Working, Placing
    <3> QED
      BY <1>1, <1>3, <3>1, TargetOn DEF Quiet, Serves
  <2> QED
    BY <2>1 DEF TargetIsHosts
<1>5. PlaceStands(e)'
  <2>1. ASSUME pc'[e] \in Placing
        PROVE  IsDir(Goal(Task(e)))'
    <3>1. pc'[e] = "lstat" /\ Task(e)' = Task(e)
      BY <1>2, <2>1 DEF Placing
    <3>2. PICK p \in Locations : p = Goal(Task(e)) /\ goal[e] = p
      BY <1>1, TaskFacts DEF Typed, OneInHand, Working
    <3>3. IsDir(Prefix(p, Len(p))) /\ Len(p) >= 1
      <4>1. depth[e] = Len(p) /\ (depth[e] = 0 \/ IsDir(Prefix(p, depth[e])))
        BY <1>1, <3>1, <3>2 DEF Stat, Goto, Typed, TypeOK
      <4> QED
        BY <4>1, LocationFacts
    <3>4. IsDir(p)
      BY <3>3, WholePrefix
    <3>5. IsDir(p)'
      BY <1>1, <3>4, SameFileSystem DEF IsDir
    <3>6. Goal(Task(e))' = p
      BY <3>1, <3>2 DEF Goal, Backing, Parent
    <3> QED
      BY <3>5, <3>6 DEF IsDir
  <2> QED
    BY <2>1 DEF PlaceStands
<1> QED
  BY <1>1, <1>2, <1>4, <1>5, SameSees, ServesElsewhere DEF Onward

LEMMA LookAtPlaceOnward ==
  ASSUME Typed, Quiet, NEW e \in Execs, LookAtPlace(e)
  PROVE  Onward(e)
<1>1. /\ Step(e) /\ fs' = fs /\ staged' = staged /\ target' = target /\ pc[e] = "lstat"
      /\ fs \in [Locations -> Entries]
  BY DEF Step, LookAtPlace, Typed, TypeOK
<1>2. /\ Task(e)' = Task(e) /\ pc'[e] \in {"symlink", "conflict", "readlink"}
      /\ pc'[e] = "conflict" => EntryIn(Full, fs, Here(e)) = Dir
      /\ pc'[e] = "readlink" => EntryIn(Full, fs, Here(e)).kind = "link"
  BY LookAtPlaceTypes
<1>3. Full' = Full /\ StillSees(Full, fs, Full', fs')
  BY <1>1, SameSees
<1>4. Staging(e)
  BY <1>1 DEF Typed, OneInHand, Staging, Working, Placing
<1>5. TargetIsHosts(e)'
  BY <1>1, <1>2, <1>3, <1>4, TargetOn DEF TargetIsHosts, Quiet, Serves
<1>6. StagedStays(e)'
  BY <1>1, <1>3, StagedOn DEF Quiet, Serves
<1>7. /\ Task(e).at \in Relative
      /\ EntryIn(Full, fs, OnHost(Task(e).at)) = Link(target[e])
      /\ Here(e) = Backing(Task(e).at) /\ Here(e) \in Locations
      /\ AtIn(Full, Here(e)) = Here(e) \/ EntryIn(Full, fs, Here(e)) = Link(target[e])
  BY <1>4, PlaceOfTask
<1>8. FindsItsLink(e)'
  <2>1. ASSUME pc'[e] = "readlink"
        PROVE  EntryIn(Full, fs, Here(e)) = Link(target[e])
    <3>1. CASE AtIn(Full, Here(e)) = Here(e)
      <4>1. EntryIn(Full, fs, Here(e)) = fs[Backing(Task(e).at)]
        BY <1>7, <3>1 DEF EntryIn
      <4>2. EntryIn(Full, fs, OnHost(Task(e).at)) = fs[Backing(Task(e).at)]
        BY <1>2, <1>7, <2>1, <4>1 DEF Quiet, Sound, Mirrors
      <4> QED
        BY <1>7, <4>1, <4>2
    <3> QED
      BY <1>7, <3>1
  <2>2. Here(e)' = Here(e)
    BY <1>2 DEF Here
  <2> QED
    BY <1>1, <1>2, <1>3, <2>1, <2>2 DEF FindsItsLink
<1>9. ConflictWanted(e)'
  <2>1. ASSUME pc'[e] = "conflict"
        PROVE  (\E x \in Execs : WantsDirectory(x, Task(e).at))'
    <3>1. EntryIn(Full, fs, Here(e)) = Dir /\ AtIn(Full, Here(e)) = Here(e)
      BY <1>2, <1>7, <2>1, EntryKinds
    <3>2. fs[Backing(Task(e).at)] = Dir
      BY <1>7, <3>1 DEF EntryIn
    <3>3. \E x \in Execs : WantsDirectory(x, Task(e).at)
      BY <1>7, <3>2 DEF Quiet, DirsWanted
    <3> QED
      BY <1>1, <1>2, <3>3, CauseOn
  <2> QED
    BY <2>1 DEF ConflictWanted
<1>10. PlaceStands(e)' /\ LostTo(e)'
  <2>1. pc[e] \in Placing /\ Grows(fs, fs') /\ PlaceStands(e)
    BY <1>1 DEF Placing, Grows, Quiet, Serves
  <2> QED
    BY <1>2, <2>1, PlaceOn DEF LostTo
<1> QED
  BY <1>1, <1>5, <1>6, <1>8, <1>9, <1>10, SameSees DEF Onward, Serves

LEMMA ReadPlaceOnward ==
  ASSUME Typed, Quiet, NEW e \in Execs, ReadPlace(e)
  PROVE  Onward(e)
<1>1. /\ Step(e) /\ fs' = fs /\ pc[e] = "readlink"
      /\ UNCHANGED <<relinked, plan, goal, depth, target, made>>
  BY DEF Step, ReadPlace
<1>2. EntryIn(Full, fs, Here(e)) = Link(target[e])
  BY <1>1 DEF Quiet, Serves, FindsItsLink
<1>3. Stand(e) /\ Done(e)
  BY <1>2, AtIsAtIn DEF ReadPlace
<1>4. pc[e] \in Placing /\ fs' \in [Locations -> Entries]
  BY <1>1 DEF Placing, Typed, TypeOK
<1>5. /\ pc'[e] = "next"
      /\ staged'[e] = staged[e] \cup {[at |-> Task(e).at, to |-> target[e]]}
  BY <1>1, <1>3, <1>4, StandingTypes
<1>6. Full' = Full
  BY <1>1, SameSees
<1>7. StagedStays(e)'
  <2>1. EntryIn(Full, fs, Backing(Task(e).at)) = Link(target[e])
    BY <1>2 DEF Here
  <2>2. \A s \in staged[e] : EntryIn(Full, fs, Backing(s.at)) = Link(s.to)
    BY DEF Quiet, Serves, StagedStays
  <2>3. \A s \in staged'[e] : EntryIn(Full, fs, Backing(s.at)) = Link(s.to)
    BY <1>5, <2>1, <2>2
  <2> QED
    BY <1>1, <1>6, <2>3 DEF StagedStays
<1>8. /\ TargetIsHosts(e)' /\ FindsItsLink(e)' /\ ConflictWanted(e)'
      /\ PlaceStands(e)' /\ LostTo(e)'
  BY <1>5 DEF TargetIsHosts, FindsItsLink, ConflictWanted, PlaceStands, LostTo, Staging, Working,
              Placing
<1> QED
  BY <1>1, <1>7, <1>8, SameSees DEF Onward, Serves

LEMMA EndingOnward ==
  ASSUME Typed, Quiet, NEW e \in Execs, MkdirFails(e) \/ Launch(e) \/ Stop(e)
  PROVE  Onward(e)
<1>1. Step(e) /\ fs' = fs /\ staged' = staged
  BY DEF Step, MkdirFails, Launch, Stop
<1>2. pc'[e] \in {"launched", "failed"}
  BY EndingTypes
<1>3. TargetIsHosts(e)' /\ PlaceStands(e)'
  BY <1>2 DEF TargetIsHosts, PlaceStands, Staging, Working, Placing
<1> QED
  BY <1>1, <1>2, <1>3, SameSees, ServesElsewhere DEF Onward


\* What CanCreate says, in the terms of Creating.
LEMMA FreePlace ==
  ASSUME Typed, NEW p \in Locations, CanCreate(p), NEW x \in Entries, Put(p, x)
  PROVE  /\ AtIn(Full, p) \in Locations /\ fs[AtIn(Full, p)] = None
         /\ EntryIn(Full, fs, p) = None
         /\ Len(p) > 1 => Full[Parent(p)] \in Locations /\ fs[Full[Parent(p)]] = Dir
         /\ fs' \in [Locations -> Entries]
         /\ fs'[AtIn(Full, p)] = x
         /\ \A l \in Locations : l # AtIn(Full, p) => fs'[l] = fs[l]
<1>1. fs \in [Locations -> Entries]
  BY DEF Typed, TypeOK
<1>2. /\ AtIn(Full, p) \in Locations /\ EntryIn(Full, fs, p) = None
      /\ fs' = [fs EXCEPT ![AtIn(Full, p)] = x]
  BY AtIsAtIn DEF CanCreate, Put
<1>3. fs[AtIn(Full, p)] = None
  BY <1>2 DEF EntryIn
<1>4. Len(p) > 1 => Full[Parent(p)] \in Locations /\ fs[Full[Parent(p)]] = Dir
  BY DEF CanCreate, IsDir
<1> HIDE DEF AtIn
<1> QED
  BY <1>1, <1>2, <1>3, <1>4

LEMMA MkdirOnward ==
  ASSUME Typed, Quiet, NEW e \in Execs, Mkdir(e)
  PROVE  Onward(e)
<1> DEFINE p  == Prefix(goal[e], depth[e])
           at == AtIn(Full, p)
<1>1. /\ Step(e) /\ staged' = staged /\ target' = target /\ pc[e] = "mkdir"
      /\ fs \in [Locations -> Entries]
  BY DEF Step, Mkdir, Typed, TypeOK
<1>2. pc'[e] \in {"next", "lstat", "mkdir"} /\ (pc'[e] # "next" => Task(e)' = Task(e))
  BY MkdirTypes
<1>3. p \in Locations /\ \E r \in Relative : p = Backing(r) /\ WantsDirectory(e, r)
  <2>1. Task(e).do = "path" => Task(e).at # <<>>
    BY <1>1, PlaceOfTask DEF Staging, Working
  <2> QED
    BY <1>1, <2>1, MkdirPlace
<1> HIDE DEF p, at
<1>4. /\ Grows(fs, fs') /\ StillSees(Full, fs, Full', fs')
      /\ Sound(Full, fs)' /\ DirsWanted'
  <2>1. CASE fs' = fs
    BY <1>1, <2>1, SameSees
  <2>2. CASE CanCreate(p) /\ Put(p, Dir)
    <3>1. Dir \in Entries /\ Dir # None /\ Dir.kind # "link"
      BY EntryKinds DEF Entries
    <3>2. /\ at \in Locations /\ fs[at] = None
          /\ Len(p) > 1 => Full[Parent(p)] \in Locations /\ fs[Full[Parent(p)]] = Dir
          /\ fs' \in [Locations -> Entries] /\ fs'[at] = Dir
          /\ \A l \in Locations : l # at => fs'[l] = fs[l]
      BY <1>3, <2>2, <3>1, FreePlace DEF at
    <3>3. Resolves(Full, fs) /\ Resolves(Full', fs') /\ Sound(Full, fs)
      BY FullResolves, FullResolvesNext DEF Quiet
    <3>4. Grows(fs, fs') /\ StillSees(Full, fs, Full', fs') /\ Sound(Full', fs')
      <4>1. at = AtIn(Full, p)
        BY DEF at
      <4> QED
        BY <1>1, <1>3, <3>1, <3>2, <3>3, <4>1, Creating
    <3>5. DirsWanted'
      <4>1. ASSUME NEW q \in Relative, fs'[Backing(q)] = Dir
            PROVE  \E x \in Execs : WantsDirectory(x, q)
        <5>1. Backing(q) \in Locations /\ InTree(Backing(q))
          BY BackingFacts
        <5>2. CASE Backing(q) # at
          BY <3>2, <4>1, <5>1, <5>2 DEF Quiet, DirsWanted
        <5>3. CASE Backing(q) = at
          <6>1. PICK r \in Relative : p = Backing(r) /\ WantsDirectory(e, r)
            BY <1>3
          <6>2. AtIn(Full, Backing(r)) = Backing(r) \/ ~InTree(AtIn(Full, Backing(r)))
            BY <1>1, <3>3, TreeOrHost DEF Sound
          <6>3. Backing(q) = Backing(r)
            BY <5>1, <5>3, <6>1, <6>2 DEF at
          <6>4. q = r
            BY <6>3, BackingInjective
          <6> QED
            BY <6>1, <6>4
        <5> QED
          BY <5>2, <5>3
      <4>2. ASSUME NEW q \in Relative, fs'[Backing(q)] = Dir
            PROVE  \E x \in Execs : WantsDirectory(x, q)'
        BY <1>1, <4>1, <4>2, WantedOn
      <4> QED
        BY <4>2 DEF DirsWanted
    <3> QED
      BY <3>4, <3>5 DEF Sound, InDirectories, TopsAreNoLinks, LinksLeadOut, Mirrors
  <2> QED
    BY <2>1, <2>2 DEF Mkdir, p
<1>5. TargetIsHosts(e)'
  <2>1. ASSUME Staging(e)'
        PROVE  EntryIn(Full', fs', OnHost(Task(e)'.at)) = Link(target'[e])
    <3>1. Task(e)' = Task(e) /\ Staging(e)
      BY <1>1, <1>2, <2>1 DEF Staging, Working, Placing
    <3> QED
      BY <1>1, <1>4, <3>1, TargetOn DEF Quiet, Serves
  <2> QED
    BY <2>1 DEF TargetIsHosts
<1>6. PlaceStands(e)'
  <2>1. ASSUME pc'[e] \in Placing
        PROVE  IsDir(Goal(Task(e)))'
    <3>1. pc'[e] = "lstat" /\ Task(e)' = Task(e)
      BY <1>2, <2>1 DEF Placing
    <3>2. PICK q \in Locations : q = Goal(Task(e)) /\ goal[e] = q
      BY <1>1, TaskFacts DEF Typed, OneInHand, Working
    <3>3. depth[e] = Len(q)
      BY <1>1, <3>1, <3>2 DEF Mkdir
    <3>4. p = q
      BY <3>2, <3>3, WholePrefix DEF p
    <3>5. EntryIn(Full', fs', q) = Dir
      <4>1. CASE CanCreate(p) /\ Put(p, Dir)
        <5>1. Dir \in Entries /\ Dir # None /\ Dir.kind # "link"
          BY EntryKinds DEF Entries
        <5>2. /\ at \in Locations /\ fs[at] = None
              /\ Len(p) > 1 => Full[Parent(p)] \in Locations /\ fs[Full[Parent(p)]] = Dir
              /\ fs' \in [Locations -> Entries] /\ fs'[at] = Dir
              /\ \A l \in Locations : l # at => fs'[l] = fs[l]
          BY <1>3, <4>1, <5>1, FreePlace DEF at
        <5>3. Resolves(Full, fs) /\ Resolves(Full', fs') /\ Sound(Full, fs)
          BY FullResolves, FullResolvesNext DEF Quiet
        <5>4. EntryIn(Full', fs', p) = Dir
          <6>1. at = AtIn(Full, p)
            BY DEF at
          <6> QED
            BY <1>1, <1>3, <5>1, <5>2, <5>3, <6>1, Creating
        <5> QED
          BY <3>4, <5>4
      <4>2. CASE Lstat(p) = Dir /\ fs' = fs
        BY <3>4, <4>2, SameFileSystem, AtIsAtIn
      <4> QED
        BY <4>1, <4>2 DEF Mkdir, p
    <3>6. IsDir(q)'
      <4>1. Full'[q] \in Locations /\ fs'[Full'[q]] = Dir
        BY <3>5, FullResolvesNext, DirItself
      <4> QED
        BY <4>1 DEF IsDir
    <3>7. Goal(Task(e))' = q
      BY <3>1, <3>2 DEF Goal, Backing, Parent
    <3> QED
      BY <3>6, <3>7 DEF IsDir
  <2> QED
    BY <2>1 DEF PlaceStands
<1> QED
  BY <1>1, <1>2, <1>4, <1>5, <1>6, ServesElsewhere DEF Onward

LEMMA MakeLinkOnward ==
  ASSUME Typed, Quiet, NEW e \in Execs, MakeLink(e)
  PROVE  Onward(e)
<1> DEFINE p  == Here(e)
           at == AtIn(Full, p)
           x  == Link(target[e])
<1>1. /\ Step(e) /\ pc[e] = "symlink" /\ fs \in [Locations -> Entries]
      /\ UNCHANGED <<relinked, plan, goal, depth, target, made>>
  BY DEF Step, MakeLink, Typed, TypeOK
<1>2. Staging(e) /\ pc[e] \in Placing /\ target[e] \in Locations
  BY <1>1 DEF Typed, OneInHand, Staging, Working, Placing
<1>3. /\ Task(e).at \in Relative /\ Task(e).at # <<>>
      /\ EntryIn(Full, fs, OnHost(Task(e).at)) = x
      /\ p = Backing(Task(e).at) /\ p \in Locations
      /\ at = p \/ EntryIn(Full, fs, p) = x
  BY <1>2, PlaceOfTask
<1>4. CASE ~CanCreate(p) /\ Goto(e, "lost") /\ UNCHANGED <<fs, staged, now>>
  <2>1. pc'[e] = "lost" /\ Full' = Full /\ StillSees(Full, fs, Full', fs') /\ Task(e)' = Task(e)
    BY <1>1, <1>4, SameSees DEF Goto, Typed, TypeOK, Task
  <2>2. /\ TargetIsHosts(e)' /\ PlaceStands(e)' /\ FindsItsLink(e)' /\ ConflictWanted(e)'
    BY <2>1 DEF TargetIsHosts, PlaceStands, FindsItsLink, ConflictWanted, Staging, Working, Placing
  <2>3. StagedStays(e)'
    BY <1>4, <2>1, StagedOn DEF Quiet, Serves
  <2>4. EntryIn(Full, fs, p) # None
    <3>1. IsDir(Parent(p))
      <4>1. Goal(Task(e)) = Parent(p)
        BY <1>2, <1>3, BackingFacts DEF Typed, OneInHand, Goal
      <4> QED
        BY <1>2, <4>1 DEF Quiet, Serves, PlaceStands
    <3>2. AtIn(Full, p) \in Locations
      BY <1>3, EntryKinds DEF EntryIn
    <3> HIDE DEF p
    <3> QED
      BY <1>4, <3>1, <3>2, AtIsAtIn DEF CanCreate
  <2>5. EntryIn(Full, fs, p) = x \/ \E y \in Execs : WantsDirectory(y, Task(e).at)
    <3>1. CASE at = p
      <4>1. EntryIn(Full, fs, p) = fs[Backing(Task(e).at)]
        BY <1>3, <3>1 DEF EntryIn
      <4>2. fs[Backing(Task(e).at)] \in Entries
        BY <1>1, <1>3
      <4>3. CASE fs[Backing(Task(e).at)] = Dir
        BY <1>3, <4>3 DEF Quiet, DirsWanted
      <4>4. CASE fs[Backing(Task(e).at)].kind = "link"
        <5>1. EntryIn(Full, fs, OnHost(Task(e).at)) = fs[Backing(Task(e).at)]
          BY <1>3, <4>4 DEF Quiet, Sound, Mirrors
        <5> QED
          BY <1>3, <4>1, <5>1
      <4> QED
        BY <2>4, <4>1, <4>2, <4>3, <4>4, EntryKinds
    <3> QED
      BY <1>3, <3>1
  <2>6. LostTo(e)'
    <3>1. CASE EntryIn(Full, fs, p) = x
      <4>1. Here(e)' = Here(e)
        BY <2>1 DEF Here
      <4> QED
        BY <1>1, <1>3, <1>4, <2>1, <3>1, <4>1 DEF LostTo
    <3>2. CASE \E y \in Execs : WantsDirectory(y, Task(e).at)
      BY <1>1, <2>1, <3>2, CauseOn DEF LostTo
    <3> QED
      BY <2>5, <3>1, <3>2
  <2> QED
    BY <1>1, <1>4, <2>2, <2>3, <2>6, SameSees DEF Onward, Serves
<1>5. CASE CanCreate(p) /\ Put(p, x) /\ Stand(e) /\ Done(e)
  <2>1. x \in Entries /\ x # None /\ x # Dir /\ x.kind = "link"
    BY <1>2, EntryKinds DEF Entries
  <2> HIDE DEF p, x
  <2>2. /\ at \in Locations /\ fs[at] = None /\ EntryIn(Full, fs, p) = None
        /\ Len(p) > 1 => Full[Parent(p)] \in Locations /\ fs[Full[Parent(p)]] = Dir
        /\ fs' \in [Locations -> Entries] /\ fs'[at] = x
        /\ \A l \in Locations : l # at => fs'[l] = fs[l]
    BY <1>3, <1>5, <2>1, FreePlace
  <2> HIDE DEF at
  <2>3. at = p /\ at = Backing(Task(e).at) /\ Len(at) > 1
    <3>1. at = p
      BY <1>3, <2>1, <2>2
    <3> QED
      BY <1>3, <3>1, BackingFacts
  <2>4. Resolves(Full, fs) /\ Resolves(Full', fs') /\ Sound(Full, fs)
    BY FullResolves, FullResolvesNext DEF Quiet
  <2>5. /\ Grows(fs, fs') /\ StillSees(Full, fs, Full', fs') /\ Sound(Full', fs')
        /\ EntryIn(Full', fs', p) = x
    <3>1. at = AtIn(Full, p) /\ p \in Locations
      BY <1>3 DEF at
    <3>2. \E r \in Relative : at = Backing(r) /\ EntryIn(Full, fs, OnHost(r)) = x
      BY <1>3, <2>3
    <3>3. Grows(fs, fs') /\ StillSees(Full, fs, Full', fs') /\ Sound(Full', fs')
      BY <1>1, <2>1, <2>2, <2>3, <2>4, <3>1, <3>2, Creating
    <3>4. EntryIn(Full', fs', p) = x
      BY <1>1, <2>1, <2>2, <2>3, <2>4, <3>1, <3>2, Creating
    <3> QED
      BY <3>3, <3>4
  <2>6. DirsWanted'
    <3>1. ASSUME NEW q \in Relative, fs'[Backing(q)] = Dir
          PROVE  \E y \in Execs : WantsDirectory(y, q)'
      <4>1. fs[Backing(q)] = Dir
        BY <2>1, <2>2, <3>1, BackingFacts
      <4>2. \E y \in Execs : WantsDirectory(y, q)
        BY <4>1 DEF Quiet, DirsWanted
      <4> QED
        BY <1>1, <4>2, WantedOn
    <3> QED
      BY <3>1 DEF DirsWanted
  <2>7. /\ pc'[e] = "next"
        /\ staged'[e] = staged[e] \cup {[at |-> Task(e).at, to |-> target[e]]}
    BY <1>1, <1>2, <1>5, <2>2, StandingTypes
  <2>8. StagedStays(e)'
    <3>1. ASSUME NEW s \in staged[e]
          PROVE  EntryIn(Full', fs', Backing(s.at)) = Link(s.to)
      <4>1. EntryIn(Full, fs, Backing(s.at)) = Link(s.to) /\ Link(s.to) # None
        BY EntryKinds DEF Quiet, Serves, StagedStays
      <4>2. s.at \in Relative
        BY DEF Typed, TypeOK
      <4> QED
        BY <2>5, <4>1, <4>2, BackingFacts DEF StillSees
    <3>2. \A s \in staged'[e] : EntryIn(Full', fs', Backing(s.at)) = Link(s.to)
      BY <1>3, <2>5, <2>7, <3>1 DEF x
    <3> QED
      BY <3>2 DEF StagedStays
  <2>9. /\ TargetIsHosts(e)' /\ FindsItsLink(e)' /\ ConflictWanted(e)'
        /\ PlaceStands(e)' /\ LostTo(e)'
    BY <2>7 DEF TargetIsHosts, FindsItsLink, ConflictWanted, PlaceStands, LostTo, Staging, Working,
                Placing
  <2>10. Sound(Full, fs)'
    BY <2>5 DEF Sound, InDirectories, TopsAreNoLinks, LinksLeadOut, Mirrors
  <2> QED
    BY <2>5, <2>6, <2>8, <2>9, <2>10 DEF Onward, Serves
<1> QED
  BY <1>4, <1>5 DEF MakeLink

\* As long as the links of the host are as they were, no exec removes a link.
LEMMA NothingRemoved ==
  ASSUME Typed, Quiet, NEW e \in Execs
  PROVE  ~RemovePlace(e)
BY DEF Quiet, Serves, FindsItsLink, RemovePlace

LEMMA StepOnward ==
  ASSUME Typed, Quiet, NEW e \in Execs, Step(e)
  PROVE  Onward(e)
BY MakeRootOnward, SkipEntryOnward, StageEntryOnward, StatOnward, MkdirOnward,
   LookAtPlaceOnward, ReadPlaceOnward, MakeLinkOnward, EndingOnward, NothingRemoved,
   Zenon DEF Step

LEMMA InitQuiet == Init => Quiet
<1> SUFFICES ASSUME Init
             PROVE  Quiet
  OBVIOUS
<1>1. PICK host \in HostTrees :
         /\ fs = [l \in Locations |-> IF InTree(l) THEN None ELSE host[l]]
         /\ host \in [Locations -> Entries]
         /\ \A l \in Locations :
              /\ Len(l) = 1 => host[l] \in {None, Dir}
              /\ Len(l) > 1 /\ host[l] # None => host[Parent(l)] = Dir
              /\ host[l].kind = "link" => ~InTree(host[l].to)
  BY HostAssumption DEF Init, Parent
<1>2. \A l \in Locations : fs[l] = IF InTree(l) THEN None ELSE host[l]
  BY <1>1
<1>3. \A l \in Locations : Len(l) > 1 => Parent(l) \in Locations /\ (InTree(Parent(l)) <=> InTree(l))
  BY LocationFacts DEF InTree
<1>4. InDirectories(fs)
  BY <1>1, <1>2, <1>3, EntryKinds DEF InDirectories
<1>5. TopsAreNoLinks(fs)
  BY <1>1, <1>2, EntryKinds DEF TopsAreNoLinks
<1>6. LinksLeadOut(fs)
  BY <1>1, <1>2, EntryKinds DEF LinksLeadOut
<1>7. \A p \in Relative : fs[Backing(p)] = None
  BY <1>2, BackingFacts
<1>8. Mirrors(Full, fs) /\ DirsWanted
  BY <1>7, EntryKinds DEF Mirrors, DirsWanted
<1>9. \A e \in Execs : Serves(e)
  BY DEF Init, Serves, TargetIsHosts, FindsItsLink, StagedStays, ConflictWanted, PlaceStands,
         LostTo, Staging, Working, Placing
<1> QED
  BY <1>4, <1>5, <1>6, <1>8, <1>9 DEF Quiet, Sound

LEMMA NextInv ==
  ASSUME IInv, [Next]_vars
  PROVE  IInv'
<1>1. Typed'
  BY NextTypes DEF IInv
<1>2. ASSUME relinked' = 0
      PROVE  Quiet'
  <2>1. Typed /\ relinked \in Nat
    BY ChoicesAssumption DEF IInv, Typed, TypeOK
  <2>2. CASE UNCHANGED vars
    <3>1. Quiet /\ fs' = fs /\ Full' = Full /\ UNCHANGED <<pc, plan, now, target, staged>>
      BY <1>2, <2>2, SameFileSystem DEF IInv, vars, execVars
    <3>2. Sound(Full, fs)'
      BY <3>1 DEF Quiet, Sound, InDirectories, TopsAreNoLinks, LinksLeadOut, Mirrors
    <3>3. DirsWanted'
      BY <3>1 DEF Quiet, DirsWanted, WantsDirectory
    <3>4. ASSUME NEW e \in Execs
          PROVE  Serves(e)'
      <4>1. Serves(e) /\ Task(e)' = Task(e)
        BY <3>1 DEF Quiet, Task
      <4> QED
        BY <3>1, <4>1 DEF Serves, TargetIsHosts, FindsItsLink, StagedStays, ConflictWanted,
                          PlaceStands, LostTo, IsDir, Goal, Staging, Here, WantsDirectory
    <3> QED
      BY <3>2, <3>3, <3>4 DEF Quiet
  <2>3. CASE Relink
    BY <1>2, <2>1, <2>3 DEF Relink
  <2>4. ASSUME NEW e \in Execs, Step(e)
        PROVE  Quiet'
    <3>1. relinked' = relinked
      BY <2>4 DEF Step, MakeRoot, SkipEntry, StageEntry, Stat, Mkdir, MkdirFails, LookAtPlace,
                  ReadPlace, RemovePlace, MakeLink, Launch, Stop
    <3>2. Quiet
      BY <1>2, <3>1 DEF IInv
    <3>3. Onward(e) /\ Turn(e)
      BY <2>1, <2>4, <3>2, StepOnward, StepTypes
    <3>4. \A x \in Execs \ {e} : Serves(x)'
      BY <2>1, <2>4, <3>2, <3>3, OthersServed DEF Onward
    <3> QED
      BY <3>3, <3>4 DEF Quiet, Onward
  <2> QED
    BY <2>2, <2>3, <2>4 DEF Next
<1> QED
  BY <1>1, <1>2 DEF IInv

LEMMA InitInv == Init => IInv
BY InitTypes, InitQuiet DEF IInv

\* The inductive invariant holds in every reachable state: types always, and what
\* the tree looks like and each exec counts on while no link of the host changes.
THEOREM Invariance == Spec => []IInv
<1>1. IInv /\ [Next]_vars => IInv'
  BY NextInv
<1> QED
  BY InitInv, <1>1, PTL DEF Spec

\* A launched command finds the links its exec staged, whatever other exec with
\* the same --root do, fail at or are killed at, unless a link of the host was
\* changed: stageDirectorySymbolicLink keeps a link with the right target, and
\* any link in the tree has it.
THEOREM StagedStandsHolds == Spec => []StagedStands
<1>1. IInv => StagedStands
  BY AtIsAtIn DEF IInv, Quiet, Serves, StagedStays, StagedStands
<1> QED
  BY Invariance, <1>1, PTL

\* "already exists and is not a symbolic link" is reported only where some exec
\* has made the place, or one below it, a directory of the tree; and os.Symlink
\* fails on such a directory, or on the very link that another exec has made.
THEOREM ConflictHasCauseHolds == Spec => []ConflictHasCause
<1>1. IInv => ConflictHasCause
  BY AtIsAtIn DEF IInv, Quiet, Serves, ConflictWanted, LostTo, ConflictHasCause
<1> QED
  BY Invariance, <1>1, PTL

\* What MkdirAll, os.Remove and os.Symlink do at the end of links that lead out
\* of the tree: no entry of the host or of the tree is replaced or removed, unless
\* a link of the host was changed before.
THEOREM EntriesKeptHolds == Spec => EntriesKept
<1>1. ASSUME IInv, [Next]_vars, relinked' = 0
      PROVE  \A l \in Locations : fs[l] # None => fs'[l] = fs[l]
  <2>1. CASE UNCHANGED vars
    BY <2>1 DEF vars
  <2>2. CASE Relink
    BY <1>1, <2>2, ChoicesAssumption DEF Relink, IInv, Typed, TypeOK
  <2>3. ASSUME NEW e \in Execs, Step(e)
        PROVE  Grows(fs, fs')
    <3>1. relinked' = relinked
      BY <2>3 DEF Step, MakeRoot, SkipEntry, StageEntry, Stat, Mkdir, MkdirFails, LookAtPlace,
                  ReadPlace, RemovePlace, MakeLink, Launch, Stop
    <3> QED
      BY <1>1, <2>3, <3>1, StepOnward DEF IInv, Onward
  <2> QED
    BY <1>1, <2>1, <2>2, <2>3 DEF Next, Grows
<1>2. IInv /\ [Next]_vars =>
        [relinked' = 0 => \A l \in Locations : fs[l] # None => fs'[l] = fs[l]]_vars
  BY <1>1
<1> QED
  BY Invariance, <1>2, PTL DEF Spec, EntriesKept

=============================================================================
