---------------------------- MODULE Files_proofs ----------------------------
(***************************************************************************)
(* Proofs about Files, for any names, texts, trees and bounds.             *)
(***************************************************************************)
EXTENDS Files, SequenceTheorems, TLAPS

-----------------------------------------------------------------------------
(* Paths.                                                                  *)

Ways == Seq(Names)

LEMMA PathsAre ==
    /\ \A p : p \in Paths <=> p \in Ways /\ Len(p) \in 1..MaxDepth
    /\ \A p : p \in Paths \cup {Top} <=> p \in Ways /\ Len(p) <= MaxDepth
    /\ MaxDepth \in Nat
<1>1. MaxDepth \in Nat
  BY FilesAssumption
<1>2. ASSUME NEW p, p \in Paths PROVE p \in Ways /\ Len(p) \in 1..MaxDepth
  BY <1>1, <1>2 DEF Paths, Ways
<1>3. ASSUME NEW p \in Ways, Len(p) \in 1..MaxDepth PROVE p \in Paths
  <2>1. p \in [1..Len(p) -> Names]
    BY DEF Ways
  <2> QED BY <1>3, <2>1 DEF Paths
<1>4. Top \in Ways /\ Len(Top) = 0
  BY DEF Top, Ways
<1>5. \A p \in Ways : Len(p) \in Nat /\ (Len(p) = 0 => p = Top)
  BY DEF Top, Ways
<1> QED BY <1>1, <1>2, <1>3, <1>4, <1>5

LEMMA PrefixFacts ==
    ASSUME NEW p \in Ways, NEW n \in 0..Len(p)
    PROVE  /\ SubSeq(p, 1, n) \in Ways /\ Len(SubSeq(p, 1, n)) = n
           /\ \A i \in 1..n : SubSeq(p, 1, n)[i] = p[i]
<1>1. Len(p) \in Nat /\ \A i \in 1..n : p[i] \in Names
  BY DEF Ways
<1> QED BY <1>1, SubSeqProperties DEF Ways

LEMMA SameWay ==
    ASSUME NEW p \in Ways, NEW q \in Ways, Len(p) = Len(q), \A i \in 1..Len(p) : p[i] = q[i]
    PROVE  p = q
BY SeqEqual DEF Ways

LEMMA PrefixOfPrefix ==
    ASSUME NEW p \in Ways, NEW m \in 0..Len(p), NEW n \in 0..m
    PROVE  SubSeq(SubSeq(p, 1, m), 1, n) = SubSeq(p, 1, n)
<1>1. Len(p) \in Nat /\ n \in 0..Len(p)
  BY DEF Ways
<1>2. /\ SubSeq(p, 1, m) \in Ways /\ Len(SubSeq(p, 1, m)) = m
      /\ \A i \in 1..m : SubSeq(p, 1, m)[i] = p[i]
  BY PrefixFacts
<1>3. /\ SubSeq(p, 1, n) \in Ways /\ Len(SubSeq(p, 1, n)) = n
      /\ \A i \in 1..n : SubSeq(p, 1, n)[i] = p[i]
  BY <1>1, PrefixFacts
<1> DEFINE r == SubSeq(p, 1, m)
<1>4. /\ SubSeq(r, 1, n) \in Ways /\ Len(SubSeq(r, 1, n)) = n
      /\ \A i \in 1..n : SubSeq(r, 1, n)[i] = r[i]
  BY <1>2, PrefixFacts
<1> QED BY <1>2, <1>3, <1>4, SameWay

LEMMA UnderIs ==
    ASSUME NEW p \in Ways, NEW q \in Ways
    PROVE  AtOrUnder(p, q) <=> /\ q # NoPath /\ Len(q) <= Len(p)
                               /\ \A i \in 1..Len(q) : p[i] = q[i]
<1>1. Len(p) \in Nat /\ Len(q) \in Nat /\ SubSeq(q, 1, Len(q)) = q
  BY SubSeqFull DEF Ways
<1>2. ASSUME Len(q) <= Len(p)
      PROVE  SubSeq(p, 1, Len(q)) = q <=> \A i \in 1..Len(q) : p[i] = q[i]
  <2>1. /\ SubSeq(p, 1, Len(q)) \in Ways /\ Len(SubSeq(p, 1, Len(q))) = Len(q)
        /\ \A i \in 1..Len(q) : SubSeq(p, 1, Len(q))[i] = p[i]
    BY <1>1, <1>2, PrefixFacts
  <2> QED BY <2>1, SameWay
<1> QED BY <1>1, <1>2 DEF AtOrUnder, IsPrefix

LEMMA AppendFacts ==
    ASSUME NEW d \in Ways, NEW n \in Names
    PROVE  /\ Append(d, n) \in Ways /\ Len(Append(d, n)) = Len(d) + 1 /\ Len(d) \in Nat
           /\ \A i \in 1..Len(d) : Append(d, n)[i] = d[i]
           /\ Append(d, n)[Len(d) + 1] = n
           /\ Front(Append(d, n)) = d
<1>1. /\ Append(d, n) \in Ways /\ Len(Append(d, n)) = Len(d) + 1 /\ Len(d) \in Nat
      /\ \A i \in 1..Len(d) : Append(d, n)[i] = d[i]
      /\ Append(d, n)[Len(d) + 1] = n
  BY AppendProperties DEF Ways
<1> DEFINE p == Append(d, n)
<1> HIDE DEF p
<1>a. p \in Ways /\ Len(d) \in 0..Len(p)
  BY <1>1 DEF p
<1>2. /\ SubSeq(p, 1, Len(d)) \in Ways /\ Len(SubSeq(p, 1, Len(d))) = Len(d)
      /\ \A i \in 1..Len(d) : SubSeq(p, 1, Len(d))[i] = p[i]
  BY <1>a, PrefixFacts
<1>3. SubSeq(p, 1, Len(d)) = d
  BY <1>1, <1>2, SameWay DEF p
<1> QED BY <1>1, <1>3 DEF Front, p

LEMMA FrontFacts ==
    ASSUME NEW p \in Ways, p # Top
    PROVE  /\ Front(p) \in Ways /\ Len(Front(p)) = Len(p) - 1 /\ Len(p) \in Nat \ {0}
           /\ \A i \in 1..Len(p) - 1 : Front(p)[i] = p[i]
           /\ Front(p) = SubSeq(p, 1, Len(p) - 1)
<1>1. Len(p) \in Nat \ {0}
  BY DEF Ways, Top
<1>2. Len(p) - 1 \in 0..Len(p) /\ Len(p) - 1 \in Nat
  BY <1>1
<1> DEFINE m == Len(p) - 1
<1>3. /\ SubSeq(p, 1, m) \in Ways /\ Len(SubSeq(p, 1, m)) = m
      /\ \A i \in 1..m : SubSeq(p, 1, m)[i] = p[i]
  BY <1>2, PrefixFacts
<1> QED BY <1>1, <1>3 DEF Front

-----------------------------------------------------------------------------
(* Trees.                                                                  *)

LEMMA UnderOrder ==
    ASSUME NEW p \in Ways, NEW q \in Ways, NEW r \in Ways
    PROVE  /\ AtOrUnder(p, q) /\ AtOrUnder(q, r) => AtOrUnder(p, r)
           /\ AtOrUnder(p, q) /\ AtOrUnder(p, r) /\ Len(r) <= Len(q) => AtOrUnder(q, r)
           /\ AtOrUnder(p, q) => Len(q) \in 1..Len(p) /\ (Len(q) = Len(p) => q = p)
           /\ p # Top => AtOrUnder(p, p)
<1>1. Len(p) \in Nat /\ Len(q) \in Nat /\ Len(r) \in Nat /\ (q # NoPath => Len(q) # 0)
  BY DEF Ways, NoPath
<1>2. AtOrUnder(p, q) /\ Len(q) = Len(p) => q = p
  <2> SUFFICES ASSUME AtOrUnder(p, q), Len(q) = Len(p) PROVE q = p
    OBVIOUS
  <2>1. \A i \in 1..Len(q) : q[i] = p[i]
    BY UnderIs
  <2> QED BY <2>1, SameWay
<1>3. AtOrUnder(p, q) => Len(q) \in 1..Len(p)
  BY <1>1, UnderIs
<1>4. p # Top => AtOrUnder(p, p)
  BY <1>1, UnderIs DEF Top, NoPath
<1>5. AtOrUnder(p, q) /\ AtOrUnder(q, r) => AtOrUnder(p, r)
  BY <1>1, UnderIs
<1>6. AtOrUnder(p, q) /\ AtOrUnder(p, r) /\ Len(r) <= Len(q) => AtOrUnder(q, r)
  BY <1>1, UnderIs
<1> QED BY <1>2, <1>3, <1>4, <1>5, <1>6

LEMMA UnderFront ==
    ASSUME NEW p \in Ways, p # Top, NEW r \in Ways
    PROVE  AtOrUnder(Front(p), r) <=> AtOrUnder(p, r) /\ r # p
<1>1. /\ Front(p) \in Ways /\ Len(Front(p)) = Len(p) - 1 /\ Len(p) \in Nat \ {0}
      /\ \A i \in 1..Len(p) - 1 : Front(p)[i] = p[i]
  BY FrontFacts
<1>2. Len(r) \in Nat
  BY DEF Ways
<1>3. AtOrUnder(p, r) /\ r # p => Len(r) <= Len(p) - 1
  BY <1>1, <1>2, UnderOrder
<1> DEFINE f == Front(p)
<1>4. f \in Ways /\ Len(f) = Len(p) - 1 /\ \A i \in 1..Len(p) - 1 : f[i] = p[i]
  BY <1>1
<1> HIDE DEF f
<1>5. AtOrUnder(f, r) <=> AtOrUnder(p, r) /\ r # p
  BY SMTT(30), <1>1, <1>2, <1>3, <1>4, UnderIs
<1> QED BY <1>5 DEF f

\* A tree, by what is above an entry.
Above(t) == \A p \in DOMAIN t, q \in Paths : AtOrUnder(p, q) /\ q # p => q \in DOMAIN t /\ t[q] = Folder

LEMMA TreeIs ==
    ASSUME NEW t
    PROVE  IsTree(t) <=> DOMAIN t \subseteq Paths /\ (\A p \in DOMAIN t : t[p] \in Kinds) /\ Above(t)
<1>1. ASSUME DOMAIN t \subseteq Paths, NEW p \in DOMAIN t, NEW n \in 1..Len(p) - 1
      PROVE  SubSeq(p, 1, n) \in Paths /\ AtOrUnder(p, SubSeq(p, 1, n)) /\ SubSeq(p, 1, n) # p
  <2>1. p \in Ways /\ Len(p) \in 1..MaxDepth /\ MaxDepth \in Nat /\ n \in 0..Len(p)
    BY <1>1, PathsAre
  <2> DEFINE r == SubSeq(p, 1, n)
  <2>2. r \in Ways /\ Len(r) = n /\ \A i \in 1..n : r[i] = p[i]
    BY <2>1, PrefixFacts
  <2> HIDE DEF r
  <2>3. r # NoPath
    BY <2>2 DEF NoPath
  <2>4. r \in Paths /\ AtOrUnder(p, r) /\ r # p
    BY <2>1, <2>2, <2>3, PathsAre, UnderIs
  <2> QED BY <2>4 DEF r
<1>2. ASSUME DOMAIN t \subseteq Paths, NEW p \in DOMAIN t, NEW q \in Paths, AtOrUnder(p, q), q # p
      PROVE  \E n \in 1..Len(p) - 1 : SubSeq(p, 1, n) = q
  <2>1. p \in Ways /\ q \in Ways /\ Len(p) \in Nat
    BY <1>2, PathsAre
  <2>2. Len(q) \in 1..Len(p) - 1 /\ Len(q) \in 0..Len(p)
    BY <1>2, <2>1, UnderOrder
  <2>3. /\ SubSeq(p, 1, Len(q)) \in Ways /\ Len(SubSeq(p, 1, Len(q))) = Len(q)
        /\ \A i \in 1..Len(q) : SubSeq(p, 1, Len(q))[i] = p[i]
    BY <2>1, <2>2, PrefixFacts
  <2>4. SubSeq(p, 1, Len(q)) = q
    BY ZenonT(30), <1>2, <2>1, <2>3, UnderIs, SameWay
  <2> QED BY <2>2, <2>4
<1>3. ASSUME IsTree(t) PROVE Above(t)
  <2> SUFFICES ASSUME NEW p \in DOMAIN t, NEW q \in Paths, AtOrUnder(p, q), q # p
               PROVE  q \in DOMAIN t /\ t[q] = Folder
    BY DEF Above
  <2>1. PICK n \in 1..Len(p) - 1 : SubSeq(p, 1, n) = q
    BY <1>2, <1>3 DEF IsTree
  <2>2. SubSeq(p, 1, n) \in DOMAIN t /\ t[SubSeq(p, 1, n)] = Folder
    BY <1>3 DEF IsTree
  <2> QED BY <2>1, <2>2
<1>4. ASSUME DOMAIN t \subseteq Paths, Above(t), NEW p \in DOMAIN t, NEW n \in 1..Len(p) - 1
      PROVE  SubSeq(p, 1, n) \in DOMAIN t /\ t[SubSeq(p, 1, n)] = Folder
  BY <1>1, <1>4 DEF Above
<1> QED BY <1>3, <1>4 DEF IsTree

LEMMA PutTree ==
    ASSUME NEW t, IsTree(t), NEW p \in Paths, NEW k \in Kinds,
           IsFolder(t, Front(p)), ~IsFolder(t, p)
    PROVE  /\ IsTree(Put(t, p, k)) /\ DOMAIN Put(t, p, k) = DOMAIN t \cup {p}
           /\ Put(t, p, k)[p] = k
           /\ \A q \in DOMAIN t \ {p} : Put(t, p, k)[q] = t[q]
<1> DEFINE u == Put(t, p, k)
<1>1. /\ DOMAIN u = DOMAIN t \cup {p} /\ u[p] = k
      /\ \A q \in DOMAIN t \ {p} : u[q] = t[q]
  BY DEF Put
<1> HIDE DEF u
<1>2. DOMAIN t \subseteq Paths /\ (\A q \in DOMAIN t : t[q] \in Kinds) /\ Above(t)
  BY TreeIs
<1>3. p \in Ways /\ p # Top /\ Paths \subseteq Ways
  BY PathsAre DEF Top
<1>4. ASSUME NEW q \in DOMAIN t, NEW r \in Paths, AtOrUnder(q, r), r # q
      PROVE  r \in DOMAIN u /\ u[r] = Folder
  <2>1. r \in DOMAIN t /\ t[r] = Folder
    BY <1>2, <1>4 DEF Above
  <2>2. r # p
    BY <2>1 DEF IsFolder
  <2> QED BY <1>1, <2>1, <2>2
<1>5. ASSUME NEW r \in Paths, AtOrUnder(p, r), r # p PROVE r \in DOMAIN u /\ u[r] = Folder
  <2>1. AtOrUnder(Front(p), r) /\ Front(p) \in Ways /\ Len(Front(p)) \in Nat
    BY <1>3, <1>5, UnderFront, FrontFacts
  <2>2. Front(p) # Top
    BY <1>3, <2>1, UnderOrder DEF Top
  <2>3. Front(p) \in DOMAIN t /\ t[Front(p)] = Folder
    BY <2>2 DEF IsFolder
  <2>4. r \in DOMAIN t /\ t[r] = Folder
    BY <1>2, <2>1, <2>3 DEF Above
  <2> QED BY <1>1, <1>5, <2>4
<1>6. Above(u)
  BY <1>1, <1>4, <1>5 DEF Above
<1>7. DOMAIN u \subseteq Paths /\ (\A q \in DOMAIN u : u[q] \in Kinds)
  BY <1>1, <1>2
<1> QED BY <1>1, <1>6, <1>7, TreeIs DEF u

LEMMA RemoveTree ==
    ASSUME NEW t, IsTree(t), NEW p \in Ways
    PROVE  /\ IsTree(rm_rf(t, p)) /\ DOMAIN rm_rf(t, p) = {q \in DOMAIN t : ~AtOrUnder(q, p)}
           /\ \A q \in DOMAIN rm_rf(t, p) : rm_rf(t, p)[q] = t[q]
<1> DEFINE u == rm_rf(t, p)
<1>1. DOMAIN u = {q \in DOMAIN t : ~AtOrUnder(q, p)} /\ \A q \in DOMAIN u : u[q] = t[q]
  BY DEF rm_rf, Keep
<1> HIDE DEF u
<1>2. DOMAIN t \subseteq Paths /\ (\A q \in DOMAIN t : t[q] \in Kinds) /\ Above(t)
  BY TreeIs
<1>3. ASSUME NEW q \in DOMAIN u, NEW r \in Paths, AtOrUnder(q, r), r # q
      PROVE  r \in DOMAIN u /\ u[r] = Folder
  <2>1. r \in DOMAIN t /\ t[r] = Folder
    BY <1>1, <1>2, <1>3 DEF Above
  <2>2. ~AtOrUnder(r, p)
    <3>1. q \in Ways /\ r \in Ways /\ ~AtOrUnder(q, p)
      BY <1>1, <1>2, PathsAre
    <3> QED BY <1>3, <3>1, UnderOrder
  <2> QED BY <1>1, <2>1, <2>2
<1>4. Above(u)
  BY <1>3 DEF Above
<1> QED BY <1>1, <1>2, <1>4, TreeIs DEF u

LEMMA MakeTree ==
    ASSUME NEW t, IsTree(t), NEW p \in Paths
    PROVE  /\ IsTree(mkdir(t, p)) /\ DOMAIN t \subseteq DOMAIN mkdir(t, p)
           /\ \A q \in DOMAIN t : mkdir(t, p)[q] = t[q]
<1>1. CASE Exists(t, p) \/ ~IsFolder(t, Front(p))
  BY <1>1 DEF mkdir
<1>2. CASE ~(Exists(t, p) \/ ~IsFolder(t, Front(p)))
  <2>1. p \notin DOMAIN t /\ ~IsFolder(t, p) /\ IsFolder(t, Front(p)) /\ Folder \in Kinds
    BY <1>2 DEF Exists, IsFolder, Kinds
  <2>2. mkdir(t, p) = Put(t, p, Folder)
    BY <1>2 DEF mkdir
  <2>3. /\ IsTree(Put(t, p, Folder)) /\ DOMAIN Put(t, p, Folder) = DOMAIN t \cup {p}
        /\ \A q \in DOMAIN t \ {p} : Put(t, p, Folder)[q] = t[q]
    BY <2>1, PutTree
  <2> QED BY <2>1, <2>2, <2>3
<1> QED BY <1>1, <1>2

LEMMA SaveTree ==
    ASSUME NEW t, IsTree(t), NEW p \in Paths, NEW x \in Texts
    PROVE  /\ IsTree(Saved(t, p, x)) /\ DOMAIN t \subseteq DOMAIN Saved(t, p, x)
           /\ \A q \in DOMAIN t \ {p} : Saved(t, p, x)[q] = t[q]
<1>1. CASE Writable(t, p)
  <2>1. IsFolder(t, Front(p)) /\ ~IsFolder(t, p) /\ x \in Kinds
    BY <1>1 DEF Writable, Kinds
  <2>2. /\ IsTree(Put(t, p, x)) /\ DOMAIN Put(t, p, x) = DOMAIN t \cup {p}
        /\ \A q \in DOMAIN t \ {p} : Put(t, p, x)[q] = t[q]
    BY <2>1, PutTree
  <2> QED BY <1>1, <2>2 DEF Saved
<1>2. CASE ~Writable(t, p)
  BY <1>2 DEF Saved
<1> QED BY <1>1, <1>2

\* Where an entry goes when src becomes dst.
To(src, dst, q) == dst \o SubSeq(q, Len(src) + 1, Len(q))

LEMMA ToFacts ==
    ASSUME NEW src \in Ways, NEW dst \in Ways, dst # NoPath, NEW q \in Ways, AtOrUnder(q, src)
    PROVE  /\ To(src, dst, q) \in Ways /\ AtOrUnder(To(src, dst, q), dst)
           /\ Len(To(src, dst, q)) = Len(dst) + (Len(q) - Len(src))
           /\ \A i \in 1..Len(q) - Len(src) : To(src, dst, q)[Len(dst) + i] = q[Len(src) + i]
           /\ To(dst, src, To(src, dst, q)) = q
<1>1. ASSUME NEW s \in Ways, NEW d \in Ways, NEW p \in Ways, Len(s) <= Len(p)
      PROVE  /\ To(s, d, p) \in Ways /\ Len(To(s, d, p)) = Len(d) + (Len(p) - Len(s))
             /\ \A i \in 1..Len(d) : To(s, d, p)[i] = d[i]
             /\ \A i \in 1..Len(p) - Len(s) : To(s, d, p)[Len(d) + i] = p[Len(s) + i]
  <2>1. Len(s) \in Nat /\ Len(p) \in Nat /\ Len(d) \in Nat
    BY DEF Ways
  <2>2. \A i \in Len(s) + 1..Len(p) : p[i] \in Names
    BY <2>1 DEF Ways
  <2> DEFINE e == SubSeq(p, Len(s) + 1, Len(p))
  <2>3. e \in Seq(Names) /\ Len(e) = IF Len(s) + 1 <= Len(p) THEN Len(p) - (Len(s) + 1) + 1 ELSE 0
    BY <2>1, <2>2, SubSeqProperties
  <2>4. \A i \in 1..Len(p) - (Len(s) + 1) + 1 : e[i] = p[Len(s) + 1 + i - 1]
    BY <2>1, <2>2, SubSeqProperties
  <2>5. Len(e) = Len(p) - Len(s) /\ \A i \in 1..Len(p) - Len(s) : e[i] = p[Len(s) + i]
    BY <1>1, <2>1, <2>3, <2>4
  <2> HIDE DEF e
  <2>6. /\ d \o e \in Seq(Names) /\ Len(d \o e) = Len(d) + Len(e)
        /\ \A i \in 1..Len(d) + Len(e) : (d \o e)[i] = IF i <= Len(d) THEN d[i] ELSE e[i - Len(d)]
    BY <2>3, ConcatProperties DEF Ways
  <2>7. /\ d \o e \in Ways /\ Len(d \o e) = Len(d) + (Len(p) - Len(s))
        /\ \A i \in 1..Len(d) : (d \o e)[i] = d[i]
        /\ \A i \in 1..Len(p) - Len(s) : (d \o e)[Len(d) + i] = p[Len(s) + i]
    BY <1>1, <2>1, <2>5, <2>6 DEF Ways
  <2> QED BY <2>7 DEF e, To
<1> DEFINE p == To(src, dst, q)
<1>2. Len(src) <= Len(q) /\ Len(src) \in Nat /\ Len(q) \in Nat /\ Len(dst) \in Nat
  BY UnderIs DEF Ways
<1>3. /\ p \in Ways /\ Len(p) = Len(dst) + (Len(q) - Len(src))
      /\ \A i \in 1..Len(dst) : p[i] = dst[i]
      /\ \A i \in 1..Len(q) - Len(src) : p[Len(dst) + i] = q[Len(src) + i]
  BY <1>1, <1>2
<1> HIDE DEF p
<1>4. AtOrUnder(p, dst)
  BY <1>2, <1>3, UnderIs
<1> DEFINE r == To(dst, src, p)
<1>5. /\ r \in Ways /\ Len(r) = Len(src) + (Len(p) - Len(dst))
      /\ \A i \in 1..Len(src) : r[i] = src[i]
      /\ \A i \in 1..Len(p) - Len(dst) : r[Len(src) + i] = p[Len(dst) + i]
  <2>1. Len(dst) <= Len(p)
    BY <1>2, <1>3
  <2> QED BY <1>1, <1>3, <2>1
<1> HIDE DEF r
<1>6. Len(r) = Len(q)
  BY <1>2, <1>3, <1>5
<1>7. ASSUME NEW i \in 1..Len(q) PROVE r[i] = q[i]
  <2>1. CASE i <= Len(src)
    BY <1>2, <1>5, <2>1, UnderIs
  <2>2. CASE i > Len(src)
    <3> DEFINE j == i - Len(src)
    <3>1. /\ j \in 1..Len(q) - Len(src) /\ i = Len(src) + j
          /\ j \in 1..Len(p) - Len(dst)
      BY <1>2, <1>3, <2>2
    <3> HIDE DEF j
    <3>2. r[Len(src) + j] = p[Len(dst) + j] /\ p[Len(dst) + j] = q[Len(src) + j]
      BY <1>3, <1>5, <3>1
    <3> QED BY <3>1, <3>2
  <2> QED BY <1>2, <2>1, <2>2
<1>8. r = q
  BY <1>5, <1>6, <1>7, SameWay
<1> QED BY <1>3, <1>4, <1>8 DEF p, r

LEMMA RenameTree ==
    ASSUME NEW t, IsTree(t), NEW src \in Paths, NEW dst \in Paths, ~AtOrUnder(dst, src),
           Room(rename(t, src, dst)) \/ Len(src) = Len(dst)
    PROVE  /\ IsTree(rename(t, src, dst))
           /\ \A p \in DOMAIN t : \E q \in DOMAIN rename(t, src, dst) : rename(t, src, dst)[q] = t[p]
<1>1. CASE ~Exists(t, src) \/ Exists(t, dst) \/ ~IsFolder(t, Front(dst))
  BY <1>1 DEF rename
<1>2. CASE Exists(t, src) /\ ~Exists(t, dst) /\ IsFolder(t, Front(dst))
  <2>a. rename(t, src, dst) =
             [p \in {To(src, dst, q) : q \in {r \in DOMAIN t : AtOrUnder(r, src)}}
                    \cup (DOMAIN t \ {r \in DOMAIN t : AtOrUnder(r, src)}) |->
                  IF AtOrUnder(p, dst) THEN t[To(dst, src, p)] ELSE t[p]]
    BY <1>2 DEF rename, To
  <2> DEFINE u == rename(t, src, dst)
             Moved == {q \in DOMAIN t : AtOrUnder(q, src)}
             T(q) == To(src, dst, q)
  <2>1. u = [p \in {T(q) : q \in Moved} \cup (DOMAIN t \ Moved) |->
                 IF AtOrUnder(p, dst) THEN t[To(dst, src, p)] ELSE t[p]]
    BY <2>a, Zenon
  <2>2. DOMAIN t \subseteq Paths /\ (\A q \in DOMAIN t : t[q] \in Kinds) /\ Above(t)
    BY TreeIs
  <2>3. /\ Paths \subseteq Ways /\ src \in Ways /\ dst \in Ways /\ MaxDepth \in Nat
        /\ dst # NoPath /\ src # NoPath /\ Len(src) \in 1..MaxDepth /\ Len(dst) \in 1..MaxDepth
        /\ src # Top /\ dst # Top
    BY PathsAre DEF NoPath, Top
  <2>4. ASSUME NEW q \in DOMAIN t PROVE ~AtOrUnder(q, dst)
    <3>1. q = dst \/ ~AtOrUnder(q, dst)
      BY <1>2, <2>2, <2>3, <2>4 DEF Above, Exists
    <3> QED BY <1>2, <3>1 DEF Exists
  <2>5. ASSUME NEW q \in Moved
        PROVE  /\ T(q) \in Ways /\ AtOrUnder(T(q), dst) /\ u[T(q)] = t[q] /\ T(q) \in DOMAIN u
               /\ Len(T(q)) = Len(dst) + (Len(q) - Len(src))
    <3>1. q \in Ways /\ AtOrUnder(q, src)
      BY <2>2, <2>3, <2>5
    <3>2. /\ T(q) \in Ways /\ AtOrUnder(T(q), dst) /\ To(dst, src, T(q)) = q
          /\ Len(T(q)) = Len(dst) + (Len(q) - Len(src))
      BY <2>3, <3>1, ToFacts
    <3> QED BY <2>1, <3>2
  <2>6. \A q \in DOMAIN t \ Moved : q \in DOMAIN u /\ u[q] = t[q]
    BY <2>1, <2>4
  <2>7. DOMAIN u = {T(q) : q \in Moved} \cup (DOMAIN t \ Moved)
    BY <2>1
  <2> HIDE DEF u
  <2>8. DOMAIN u \subseteq Paths /\ \A q \in DOMAIN u : u[q] \in Kinds
    <3>1. ASSUME NEW q \in Moved PROVE T(q) \in Paths /\ u[T(q)] \in Kinds
      <4>1. T(q) \in Ways /\ Len(T(q)) = Len(dst) + (Len(q) - Len(src)) /\ T(q) \in DOMAIN u
            /\ u[T(q)] = t[q]
        BY <2>5
      <4>2. q \in Ways /\ Len(q) \in 1..MaxDepth /\ Len(src) <= Len(q)
        BY <2>2, <2>3, PathsAre, UnderOrder
      <4>3. Len(T(q)) <= MaxDepth
        BY <2>3, <4>1, <4>2 DEF Room, u
      <4>4. T(q) \in Paths
        BY <2>3, <4>1, <4>2, <4>3, PathsAre
      <4> QED BY <2>2, <4>1, <4>4
    <3> HIDE DEF T
    <3> QED BY <2>2, <2>6, <2>7, <3>1
  <2>9. ASSUME NEW q \in Moved, NEW r \in Paths, AtOrUnder(T(q), r), r # T(q)
        PROVE  r \in DOMAIN u /\ u[r] = Folder
    <3>1. /\ q \in Ways /\ AtOrUnder(q, src) /\ r \in Ways /\ Len(q) \in Nat /\ Len(r) \in Nat
          /\ Len(src) <= Len(q) /\ q \in DOMAIN t
      BY <2>2, <2>3, PathsAre, UnderOrder
    <3>2. T(q) \in Ways /\ AtOrUnder(T(q), dst) /\ Len(T(q)) = Len(dst) + (Len(q) - Len(src))
      BY <2>5
    <3>a. Len(r) < Len(T(q))
      BY <2>3, <2>9, <3>1, <3>2, UnderOrder
    <3>3. CASE Len(r) < Len(dst)
      <4>1. AtOrUnder(dst, r) /\ r # dst
        BY <2>3, <2>9, <3>1, <3>2, <3>3, UnderOrder
      <4>2. AtOrUnder(Front(dst), r) /\ Front(dst) \in Ways /\ Len(Front(dst)) \in Nat
        BY <2>3, <3>1, <4>1, UnderFront, FrontFacts
      <4>3. Front(dst) # Top
        BY <3>1, <4>2, UnderOrder DEF Top
      <4>4. Front(dst) \in DOMAIN t /\ t[Front(dst)] = Folder
        BY <1>2, <4>3 DEF IsFolder
      <4>5. r \in DOMAIN t /\ t[r] = Folder
        BY <2>2, <4>2, <4>4 DEF Above
      <4>6. ~AtOrUnder(r, src)
        BY <2>3, <3>1, <4>1, UnderOrder
      <4> QED BY <2>6, <4>5, <4>6
    <3>4. CASE Len(r) >= Len(dst)
      <4>1. AtOrUnder(r, dst)
        BY <2>3, <2>9, <3>1, <3>2, <3>4, UnderOrder
      <4> DEFINE s == To(dst, src, r)
      <4>2. /\ s \in Ways /\ AtOrUnder(s, src) /\ To(src, dst, s) = r
            /\ Len(s) = Len(src) + (Len(r) - Len(dst))
            /\ \A i \in 1..Len(r) - Len(dst) : s[Len(src) + i] = r[Len(dst) + i]
        BY <2>3, <3>1, <4>1, ToFacts
      <4> HIDE DEF s
      <4>3. /\ \A i \in 1..Len(q) - Len(src) : T(q)[Len(dst) + i] = q[Len(src) + i]
            /\ \A i \in 1..Len(r) : T(q)[i] = r[i]
        <5>1. \A i \in 1..Len(q) - Len(src) : T(q)[Len(dst) + i] = q[Len(src) + i]
          BY <2>3, <3>1, ToFacts
        <5>2. \A i \in 1..Len(r) : T(q)[i] = r[i]
          BY <2>9, <3>1, <3>2, UnderIs
        <5> QED BY <5>1, <5>2
      <4>4. Len(s) < Len(q) /\ Len(s) \in Nat
        BY <2>3, <3>a, <3>1, <3>2, <3>4, <4>2
      <4>5. ASSUME NEW i \in 1..Len(s) PROVE q[i] = s[i]
        <5>1. CASE i <= Len(src)
          BY <2>3, <3>1, <4>2, <4>4, <5>1, UnderIs
        <5>2. CASE i > Len(src)
          <6> DEFINE j == i - Len(src)
          <6>1. /\ j \in 1..Len(r) - Len(dst) /\ j \in 1..Len(q) - Len(src) /\ i = Len(src) + j
                /\ Len(dst) + j \in 1..Len(r)
            BY <2>3, <3>1, <3>4, <4>2, <4>4, <5>2
          <6> HIDE DEF j
          <6>2. s[Len(src) + j] = r[Len(dst) + j] /\ T(q)[Len(dst) + j] = q[Len(src) + j]
                /\ T(q)[Len(dst) + j] = r[Len(dst) + j]
            BY <4>2, <4>3, <6>1
          <6> QED BY <6>1, <6>2
        <5> QED BY <2>3, <4>4, <5>1, <5>2
      <4>6. AtOrUnder(q, s) /\ s # q
        <5>1. s # NoPath
          BY <4>2, <2>3, UnderOrder DEF NoPath
        <5>2. Len(s) <= Len(q) /\ s # q
          BY <3>1, <4>4
        <5>3. \A i \in 1..Len(s) : q[i] = s[i]
          BY <4>5
        <5>4. AtOrUnder(q, s)
          BY <3>1, <4>2, <5>1, <5>2, <5>3, UnderIs
        <5> QED BY <5>2, <5>4
      <4>7. s \in Paths
        BY <2>2, <2>3, <3>1, <4>2, <4>4, <4>6, PathsAre, UnderOrder
      <4>8. s \in DOMAIN t /\ t[s] = Folder /\ s \in Moved
        BY <2>2, <3>1, <4>2, <4>6, <4>7 DEF Above
      <4> QED BY <2>5, <4>2, <4>8
    <3> QED BY <2>3, <3>1, <3>3, <3>4
  <2>10. ASSUME NEW q \in DOMAIN t \ Moved, NEW r \in Paths, AtOrUnder(q, r), r # q
         PROVE  r \in DOMAIN u /\ u[r] = Folder
    <3>1. r \in DOMAIN t /\ t[r] = Folder
      BY <2>2, <2>10 DEF Above
    <3>2. ~AtOrUnder(r, src)
      <4>1. q \in Ways /\ r \in Ways /\ ~AtOrUnder(q, src)
        BY <2>2, <2>3
      <4> QED BY <2>3, <2>10, <4>1, UnderOrder
    <3> QED BY <2>6, <3>1, <3>2
  <2>11. Above(u)
    <3> HIDE DEF T
    <3> QED BY <2>7, <2>9, <2>10 DEF Above
  <2>12. ASSUME NEW p \in DOMAIN t PROVE \E q \in DOMAIN u : u[q] = t[p]
    <3>1. CASE p \in Moved
      BY <2>5, <3>1
    <3>2. CASE p \notin Moved
      BY <2>6, <3>2
    <3> QED BY <3>1, <3>2
  <2> QED BY <2>8, <2>11, <2>12, TreeIs DEF u
<1> QED BY <1>1, <1>2

LEMMA MovedTree ==
    ASSUME NEW t, IsTree(t), NEW src \in Paths, NEW dst \in Ways, rename(t, src, dst) # t,
           ~AtOrUnder(dst, src), Room(rename(t, src, dst))
    PROVE  /\ IsTree(rename(t, src, dst))
           /\ \A p \in DOMAIN t : \E q \in DOMAIN rename(t, src, dst) : rename(t, src, dst)[q] = t[p]
<1>1. Exists(t, src) /\ ~Exists(t, dst) /\ IsFolder(t, Front(dst))
  BY DEF rename
<1>2. src \in Ways /\ src # Top /\ src \in DOMAIN t /\ dst # Top
  BY <1>1, PathsAre DEF Top, Exists
<1>3. AtOrUnder(src, src) /\ To(src, dst, src) = dst
  <2>1. AtOrUnder(src, src)
    BY <1>2, UnderOrder
  <2>2. /\ To(src, dst, src) \in Ways /\ AtOrUnder(To(src, dst, src), dst)
        /\ Len(To(src, dst, src)) = Len(dst) + (Len(src) - Len(src))
    BY <1>2, <2>1, ToFacts DEF Top, NoPath
  <2>3. Len(src) \in Nat /\ Len(dst) \in Nat
    BY <1>2 DEF Ways
  <2> QED BY <2>1, <2>2, <2>3, UnderOrder
<1>4. dst \in DOMAIN rename(t, src, dst)
  BY <1>1, <1>2, <1>3 DEF rename, To
<1>5. dst \in Paths
  BY <1>2, <1>4, PathsAre DEF Room, Ways, Top
<1> QED BY <1>5, RenameTree

-----------------------------------------------------------------------------
(* Types.                                                                  *)

\* A row, a marked entry and an open file have names, and a row is a path.
Named ==
    /\ list # {} => Len(curDir) < MaxDepth
    /\ screen \in {"manage", "confirm"} \/ mvSrc # NoPath \/ entryCtxRename => mgTarget \in Names
    /\ have_editor => curFile \in Names
    /\ screen = "editor" => have_editor

Dirs == Paths \cup {Top}

LEMMA Refills ==
    ASSUME NEW t, IsTree(t), NEW d \in Dirs, NEW mv \in Paths \cup {NoPath},
           NEW manage \in BOOLEAN, browser_refill(t, d, mv, manage)
    PROVE  /\ IsTree(tree') /\ curDir' \in Dirs /\ mvSrc' \in Paths \cup {NoPath}
           /\ list' \in SUBSET (Names \X BOOLEAN) /\ s_manage' \in BOOLEAN
           /\ list' # {} => Len(curDir') < MaxDepth
           /\ \A row \in list' : Append(curDir', row[1]) # mvSrc'
           /\ mvSrc' = mv /\ curDir' = d /\ tree' = t
<1>1. tree' = t /\ curDir' = d /\ mvSrc' = mv /\ list' = Rows(t, d, mv) /\ s_manage' \in BOOLEAN
  BY DEF browser_refill
<1>2. ASSUME NEW row \in Rows(t, d, mv)
      PROVE  row \in Names \X BOOLEAN /\ Append(d, row[1]) # mv /\ Len(d) < MaxDepth
  <2>1. PICK n \in InFolder(t, d) : Append(d, n) # mv /\ row = <<n, IsFolder(t, Append(d, n))>>
    BY DEF Rows
  <2>2. n \in Names /\ Append(d, n) \in Paths
    BY <2>1, TreeIs DEF InFolder
  <2>3. IsFolder(t, Append(d, n)) \in BOOLEAN
    BY DEF IsFolder
  <2>4. Len(d) < MaxDepth
    <3>1. d \in Ways
      BY PathsAre DEF Dirs
    <3> DEFINE p == Append(d, n)
    <3>2. Len(p) = Len(d) + 1 /\ Len(d) \in Nat
      BY <2>2, <3>1, AppendFacts
    <3>3. Len(p) \in 1..MaxDepth /\ MaxDepth \in Nat
      BY <2>2, PathsAre, Zenon
    <3> HIDE DEF p
    <3> QED BY <3>2, <3>3
  <2> QED BY <2>1, <2>2, <2>3, <2>4
<1> QED BY <1>1, <1>2

LEMMA DirFacts ==
    ASSUME NEW d \in Dirs
    PROVE  /\ d \in Ways /\ Len(d) \in Nat
           /\ d # Top => Front(d) \in Dirs
           /\ \A n \in Names : /\ Len(d) < MaxDepth => Append(d, n) \in Paths
                               /\ Append(d, n) # NoPath /\ Append(d, n) \in Ways
<1>1. d \in Ways /\ Len(d) \in Nat /\ Len(d) <= MaxDepth /\ MaxDepth \in Nat
  BY PathsAre DEF Ways, Dirs
<1>2. ASSUME d # Top PROVE Front(d) \in Dirs
  BY <1>1, <1>2, FrontFacts, PathsAre DEF Dirs
<1>3. ASSUME NEW n \in Names
      PROVE  /\ Len(d) < MaxDepth => Append(d, n) \in Paths
             /\ Append(d, n) # NoPath /\ Append(d, n) \in Ways
  <2> DEFINE p == Append(d, n)
  <2>1. p \in Ways /\ Len(p) = Len(d) + 1
    BY <1>1, AppendFacts
  <2> HIDE DEF p
  <2>2. (Len(d) < MaxDepth => p \in Paths) /\ p # NoPath
    BY <1>1, <2>1, PathsAre DEF NoPath
  <2> QED BY <2>1, <2>2 DEF p
<1> QED BY <1>1, <1>2, <1>3

LEMMA OneName ==
    ASSUME NEW n \in Names, MaxDepth >= 1
    PROVE  <<n>> \in Paths
<1> DEFINE p == <<n>>
<1>1. p \in Ways /\ Len(p) = 1
  BY DEF Ways
<1> HIDE DEF p
<1>2. Len(p) \in 1..MaxDepth
  BY <1>1, PathsAre
<1>3. p \in Paths
  BY <1>1, <1>2, PathsAre, Zenon
<1> QED BY <1>3 DEF p

LEMMA InitTypes == Init => TypeOK /\ Named
<1> SUFFICES ASSUME Init PROVE TypeOK /\ Named
  OBVIOUS
<1>1. IsTree(tree) /\ Blank \in Texts /\ 0 \in 0..MaxNew /\ 0 \in 0..MaxTroubles
  BY FilesAssumption DEF Init
<1> QED BY <1>1 DEF Init, TypeOK, Named, NoPath

\* The list and the card; the rest.
ListOK ==
    /\ IsTree(tree) /\ curDir \in Dirs /\ mvSrc \in Paths \cup {NoPath}
    /\ list \in SUBSET (Names \X BOOLEAN) /\ s_manage \in BOOLEAN
    /\ list # {} => Len(curDir) < MaxDepth
RestOK ==
    /\ screen \in {"menu", "list", "manage", "confirm", "entry", "alert", "editor", "status"}
    /\ mgTarget \in Names \cup {NoName} /\ mgIsDir \in BOOLEAN /\ marked \in Paths \cup {NoPath}
    /\ entryCtxFS \in {"none", "file", "folder", "project"} /\ entryCtxRename \in BOOLEAN
    /\ have_editor \in BOOLEAN /\ curFile \in Names \cup {NoName} /\ edbuf \in Texts
    /\ home \in Paths \cup {NoPath} /\ unsaved \in BOOLEAN
    /\ due \in BOOLEAN /\ over \in BOOLEAN /\ blurred \in BOOLEAN
    /\ news \in 0..MaxNew /\ troubles \in 0..MaxTroubles
    /\ screen \in {"manage", "confirm"} \/ mvSrc # NoPath \/ entryCtxRename => mgTarget \in Names
    /\ have_editor => curFile \in Names
    /\ screen = "editor" => have_editor

LEMMA TypeParts == TypeOK /\ Named <=> ListOK /\ RestOK
BY DEF TypeOK, Named, ListOK, RestOK, Dirs

LEMMA StayOK == ListOK /\ Stay => ListOK'
BY DEF ListOK, Stay, ui

LEMMA RefillOK ==
    ASSUME NEW t, IsTree(t), NEW d \in Dirs, NEW mv \in Paths \cup {NoPath},
           NEW manage \in BOOLEAN, browser_refill(t, d, mv, manage)
    PROVE  ListOK' /\ mvSrc' = mv
BY Refills DEF ListOK

LEMMA ListsTypes == ListOK /\ RestOK /\ Lists => ListOK' /\ RestOK'
<1> SUFFICES ASSUME ListOK, RestOK, Lists PROVE ListOK' /\ RestOK'
  OBVIOUS
<1>0. NoPath \in Paths \cup {NoPath} /\ Top \in Dirs /\ FALSE \in BOOLEAN /\ TRUE \in BOOLEAN
  BY DEF Dirs
<1>1. CASE Projects
  <2>1. ListOK' /\ mvSrc' = NoPath
    BY <1>0, <1>1, RefillOK DEF Projects, ListOK
  <2> QED BY <1>1, <2>1 DEF Projects, RestOK, entry, mark, target, editor, net, bounds
<1>2. CASE ToggleManage \/ CancelMove
  <2>1. ListOK' /\ mvSrc' \in {mvSrc, NoPath}
    <3>1. CASE ToggleManage
      <4>1. (~s_manage) \in BOOLEAN
        BY DEF ListOK
      <4> QED BY <3>1, <4>1, RefillOK DEF ToggleManage, ListOK
    <3>2. CASE CancelMove
      BY <1>0, <3>2, RefillOK DEF CancelMove, ListOK
    <3> QED BY <1>2, <3>1, <3>2
  <2> QED BY <1>2, <2>1 DEF ToggleManage, CancelMove, RestOK, entry, mark, target, editor, net, bounds
<1>3. CASE Back \/ EscList
  <2>1. PICK manage \in BOOLEAN :
            \/ browser_refill(tree, curDir, mvSrc, manage) /\ UNCHANGED screen
            \/ Up(manage)
    BY <1>3 DEF Back, EscList, ListOK
  <2>2. ListOK' /\ mvSrc' \in {mvSrc, NoPath} /\ screen' \in {screen, "menu"}
    <3>1. CASE browser_refill(tree, curDir, mvSrc, manage) /\ UNCHANGED screen
      BY <3>1, RefillOK DEF ListOK
    <3>2. CASE Up(manage) /\ curDir = Top
      BY <3>2 DEF Up, ListOK, ui
    <3>3. CASE Up(manage) /\ curDir # Top
      <4>1. Front(curDir) \in Dirs
        BY <3>3, DirFacts DEF ListOK
      <4> QED BY <3>3, <4>1, RefillOK DEF Up, ListOK
    <3> QED BY <2>1, <3>1, <3>2, <3>3
  <2>3. screen = "list" /\ UNCHANGED <<mark, entry, editor, net, blurred, bounds>>
    BY <1>3 DEF Back, EscList
  <2> QED BY <2>2, <2>3 DEF RestOK, entry, mark, target, editor, net, bounds
<1>4. CASE MoveHere
  <2>1. ListOK' /\ mvSrc' \in {mvSrc, NoPath} /\ screen' \in {screen, "alert"}
    <3> DEFINE dst == Append(curDir, mgTarget)
    <3>1. CASE browser_refill(tree, curDir, NoPath, s_manage) /\ UNCHANGED screen
      BY <1>0, <3>1, RefillOK DEF ListOK
    <3>2. CASE screen' = "alert" /\ Stay
      BY <3>2, StayOK DEF Stay
    <3>3. ASSUME Room(rename(tree, mvSrc, dst)), rename(tree, mvSrc, dst) # tree, UNCHANGED screen,
                 browser_refill(rename(tree, mvSrc, dst), curDir, NoPath, s_manage)
          PROVE  ListOK' /\ mvSrc' \in {mvSrc, NoPath} /\ screen' \in {screen, "alert"}
      <4>1. mvSrc \in Paths /\ mvSrc \in Ways /\ dst \in Ways
        <5>1. mvSrc \in Paths /\ mgTarget \in Names
          BY <1>4 DEF MoveHere, ListOK, RestOK
        <5> QED BY <5>1, PathsAre, DirFacts DEF ListOK
      <4> HIDE DEF dst
      <4>2. IsTree(rename(tree, mvSrc, dst))
        <5>1. CASE AtOrUnder(dst, mvSrc)
          <6>1. rename(tree, mvSrc, dst) = rm_rf(tree, mvSrc)
            BY <3>3, <5>1 DEF rename
          <6> QED BY <4>1, <6>1, RemoveTree DEF ListOK
        <5>2. CASE ~AtOrUnder(dst, mvSrc)
          BY <3>3, <4>1, <5>2, MovedTree DEF ListOK
        <5> QED BY <5>1, <5>2
      <4> QED BY <1>0, <3>3, <4>2, RefillOK DEF ListOK
    <3> QED BY <1>4, <3>1, <3>2, <3>3 DEF MoveHere
  <2> QED BY <1>4, <2>1 DEF MoveHere, RestOK, entry, mark, target, editor, net, bounds
<1>5. ASSUME NEW kind \in {"file", "folder", "project"}, NewEntry(kind) PROVE ListOK' /\ RestOK'
  <2>1. ListOK' /\ UNCHANGED mvSrc
    BY <1>5, StayOK DEF NewEntry, Stay
  <2>2. news' \in 0..MaxNew
    BY <1>5, FilesAssumption DEF NewEntry, RestOK
  <2> QED BY <1>5, <2>1, <2>2 DEF NewEntry, RestOK, entry, mark, target, editor, net
<1>6. ASSUME NEW row \in Names \X BOOLEAN, Picked(row)
      PROVE  /\ Len(curDir) < MaxDepth /\ row[1] \in Names /\ row[2] \in BOOLEAN
             /\ Listed[row[1]] \in Names
             /\ Append(curDir, row[1]) \in Paths /\ Append(curDir, Listed[row[1]]) \in Paths
             /\ blurred' \in BOOLEAN /\ troubles' \in 0..MaxTroubles
             /\ screen = "list"
  <2>1. row[1] \in Names /\ row[2] \in BOOLEAN
    OBVIOUS
  <2>2. Len(curDir) < MaxDepth /\ Listed[row[1]] \in Names
    BY <1>6, <2>1, FilesAssumption DEF Picked, ListOK
  <2>3. blurred' \in BOOLEAN /\ troubles' \in 0..MaxTroubles
    <3>1. UNCHANGED <<blurred, troubles>> \/ (Trouble /\ blurred' = TRUE)
      BY <1>6 DEF Picked
    <3>2. blurred' \in BOOLEAN
      BY <3>1 DEF RestOK
    <3>3. MaxTroubles \in Nat /\ troubles \in 0..MaxTroubles
      BY FilesAssumption DEF RestOK
    <3> QED BY <3>1, <3>2, <3>3 DEF Trouble
  <2>4. screen = "list"
    BY <1>6 DEF Picked
  <2> QED BY <2>1, <2>2, <2>3, <2>4, DirFacts DEF ListOK
<1>7. ASSUME NEW row \in Names \X BOOLEAN, MarkEntry(row) PROVE ListOK' /\ RestOK'
  <2>1. ListOK' /\ UNCHANGED mvSrc
    BY <1>7, StayOK DEF MarkEntry, Stay
  <2> QED BY <1>6, <1>7, <2>1 DEF MarkEntry, RestOK, entry, editor, net
<1>8. ASSUME NEW row \in Names \X BOOLEAN, EnterFolder(row) PROVE ListOK' /\ RestOK'
  <2>1. Append(curDir, Listed[row[1]]) \in Dirs
    BY <1>6, <1>8 DEF EnterFolder, Dirs
  <2>2. ListOK' /\ mvSrc' = mvSrc
    BY <1>0, <1>8, <2>1, RefillOK DEF EnterFolder, ListOK
  <2> QED BY <1>6, <1>8, <2>2 DEF EnterFolder, RestOK, entry, mark, target, editor, net
<1>a. ASSUME NEW row \in Names \X BOOLEAN, OpenFile(row)
      PROVE  /\ Append(curDir, Listed[row[1]]) \in Paths /\ Listed[row[1]] \in Names
             /\ blurred' \in BOOLEAN /\ troubles' \in 0..MaxTroubles
  <2>1. CASE Picked(row)
    BY <1>6, <2>1
  <2>2. CASE /\ screen = "list" /\ row \in list /\ Listed[row[1]] = row[1]
             /\ Trouble /\ UNCHANGED blurred
    <3>1. row[1] \in Names /\ Len(curDir) < MaxDepth /\ curDir \in Dirs
      BY <2>2 DEF ListOK
    <3>2. MaxTroubles \in Nat /\ troubles \in 0..MaxTroubles /\ blurred \in BOOLEAN
      BY FilesAssumption DEF RestOK
    <3> QED BY <2>2, <3>1, <3>2, DirFacts DEF Trouble
  <2> QED BY <1>a, <2>1, <2>2 DEF OpenFile
<1>9. ASSUME NEW row \in Names \X BOOLEAN, OpenFile(row) PROVE ListOK' /\ RestOK'
  <2>1. ListOK' /\ UNCHANGED mvSrc
    BY <1>9, StayOK DEF OpenFile, Stay
  <2>2. edbuf' \in Texts
    <3> DEFINE p == Append(curDir, Listed[row[1]])
    <3>1. p \in DOMAIN tree => tree[p] \in Kinds
      BY TreeIs DEF ListOK
    <3>2. edbuf' = Blank \/ edbuf' = IF p \in DOMAIN tree /\ tree[p] # Folder THEN tree[p] ELSE Blank
      BY <1>9 DEF OpenFile
    <3> QED BY <3>1, <3>2, FilesAssumption DEF Kinds
  <2>3. screen = "list"
    BY <1>9 DEF OpenFile, Picked
  <2> QED BY <1>a, <1>9, <2>1, <2>2, <2>3 DEF OpenFile, RestOK, entry, mark, target
<1> QED BY <1>1, <1>2, <1>3, <1>4, <1>5, <1>7, <1>8, <1>9 DEF Lists

LEMMA MarkedTypes == ListOK /\ RestOK /\ Marked => ListOK' /\ RestOK'
<1> SUFFICES ASSUME ListOK, RestOK, Marked PROVE ListOK' /\ RestOK'
  OBVIOUS
<1>0. NoPath \in Paths \cup {NoPath} /\ FALSE \in BOOLEAN /\ TRUE \in BOOLEAN
      /\ s_manage \in BOOLEAN /\ mvSrc \in Paths \cup {NoPath} /\ curDir \in Dirs /\ IsTree(tree)
  BY DEF ListOK
<1>1. screen \in {"manage", "confirm"} /\ mgTarget \in Names
  BY DEF Marked, ChooseRename, ChooseMove, ChooseDelete, LeaveMarked, Delete, RestOK
<1>2. CASE ChooseRename
  <2>1. ListOK' /\ UNCHANGED mvSrc
    BY <1>2, StayOK DEF ChooseRename, Stay
  <2>2. news' \in 0..MaxNew
    BY <1>2, FilesAssumption DEF ChooseRename, RestOK
  <2> QED BY <1>1, <1>2, <2>1, <2>2 DEF ChooseRename, RestOK, entry, Decided, target, editor, net
<1>3. CASE ChooseMove
  <2>1. Append(curDir, mgTarget) \in Paths
    BY <1>0, <1>1, <1>3, DirFacts DEF ChooseMove
  <2>2. ListOK'
    BY <1>0, <1>3, <2>1, RefillOK DEF ChooseMove
  <2> QED BY <1>1, <1>3, <2>2 DEF ChooseMove, RestOK, entry, Decided, target, editor, net, bounds
<1>4. CASE ChooseDelete
  <2>1. ListOK' /\ UNCHANGED mvSrc
    BY <1>4, StayOK DEF ChooseDelete, Stay
  <2> QED BY <1>1, <1>4, <2>1 DEF ChooseDelete, RestOK, entry, mark, target, editor, net, bounds
<1>5. CASE LeaveMarked
  <2>1. ListOK' /\ mvSrc' = mvSrc
    BY <1>0, <1>5, RefillOK DEF LeaveMarked, Refresh
  <2> QED BY <1>1, <1>5, <2>1 DEF LeaveMarked, RestOK, entry, Decided, target, editor, net, bounds
<1>6. CASE Delete
  <2> DEFINE p == Append(curDir, mgTarget)
             u == IF ~mgIsDir /\ \E q \in DOMAIN tree : AtOrUnder(q, p) /\ q # p
                  THEN tree ELSE rm_rf(tree, p)
  <2>1. IsTree(u)
    BY <1>0, <1>1, DirFacts, RemoveTree
  <2>2. browser_refill(u, curDir, mvSrc, s_manage)
    BY <1>6 DEF Delete
  <2> HIDE DEF u
  <2>3. ListOK' /\ mvSrc' = mvSrc
    BY <1>0, <2>1, <2>2, RefillOK
  <2> QED BY <1>1, <1>6, <2>3 DEF Delete, RestOK, entry, Decided, target, editor, net, bounds
<1> QED BY <1>2, <1>3, <1>4, <1>5, <1>6 DEF Marked

LEMMA WithFolderTree ==
    ASSUME ListOK
    PROVE  /\ IsTree(WithFolder(tree)) /\ DOMAIN tree \subseteq DOMAIN WithFolder(tree)
           /\ \A q \in DOMAIN tree : WithFolder(tree)[q] = tree[q]
BY MakeTree DEF ListOK, WithFolder, Dirs

\* A name in the same folder is as deep.
LEMMA Beside ==
    ASSUME NEW d \in Dirs, NEW m \in Names, NEW n \in Names
    PROVE  /\ Len(Append(d, m)) = Len(Append(d, n))
           /\ Append(d, m) \in Paths <=> Append(d, n) \in Paths
           /\ m # n => ~AtOrUnder(Append(d, n), Append(d, m))
<1> DEFINE p == Append(d, m)
           q == Append(d, n)
<1>1. d \in Ways
  BY DirFacts
<1>2. /\ p \in Ways /\ Len(p) = Len(d) + 1 /\ p[Len(d) + 1] = m
      /\ q \in Ways /\ Len(q) = Len(d) + 1 /\ q[Len(d) + 1] = n
  BY <1>1, AppendFacts
<1> HIDE DEF p, q
<1>3. p \in Paths <=> q \in Paths
  BY <1>2, PathsAre
<1>4. m # n => ~AtOrUnder(q, p)
  BY <1>2, UnderOrder
<1> QED BY <1>2, <1>3, <1>4 DEF p, q

LEMMA RenameSteps ==
    ASSUME NEW t, IsTree(t), NEW d \in Dirs, NEW m \in Names, NEW n \in Names, m # n
    PROVE  LET u == rename(t, Append(d, m), Append(d, n))
           IN  IsTree(u) /\ \A p \in DOMAIN t : \E q \in DOMAIN u : u[q] = t[p]
<1> DEFINE src == Append(d, m)
           dst == Append(d, n)
           u == rename(t, src, dst)
<1>1. Len(src) = Len(dst) /\ (src \in Paths <=> dst \in Paths) /\ ~AtOrUnder(dst, src) /\ src # NoPath
  BY Beside, DirFacts
<1> HIDE DEF src, dst
<1>2. ASSUME src \in Paths
      PROVE  IsTree(u) /\ \A p \in DOMAIN t : \E q \in DOMAIN u : u[q] = t[p]
  BY <1>1, <1>2, RenameTree
<1>3. ASSUME src \notin Paths
      PROVE  IsTree(u) /\ \A p \in DOMAIN t : \E q \in DOMAIN u : u[q] = t[p]
  <2>1. src \notin DOMAIN t /\ src # Top
    BY <1>1, <1>3, TreeIs DEF NoPath, Top
  <2>2. u = t
    BY <2>1 DEF rename, Exists
  <2> QED BY <2>2
<1> HIDE DEF u
<1>4. IsTree(u) /\ \A p \in DOMAIN t : \E q \in DOMAIN u : u[q] = t[p]
  BY <1>2, <1>3
<1> QED BY <1>4 DEF u, src, dst

LEMMA EntryTypes == ListOK /\ RestOK /\ Entry => ListOK' /\ RestOK'
<1> SUFFICES ASSUME ListOK, RestOK, Entry PROVE ListOK' /\ RestOK'
  OBVIOUS
<1>0. s_manage \in BOOLEAN /\ mvSrc \in Paths \cup {NoPath} /\ curDir \in Dirs /\ IsTree(tree)
      /\ Blank \in Texts
  BY FilesAssumption DEF ListOK
<1>a. ASSUME NoEntry \/ Reserved
      PROVE  /\ entryCtxFS' \in {"none", "file", "folder", "project"} /\ entryCtxRename' \in BOOLEAN
             /\ entryCtxRename' => entryCtxRename
  <2>1. Naming \/ Renaming
    BY <1>a DEF NoEntry, Reserved
  <2>2. entryCtxFS \in {"none", "file", "folder", "project"} /\ entryCtxRename \in BOOLEAN
    BY DEF RestOK
  <2>3. CASE Naming
    BY <2>2, <2>3 DEF Naming
  <2>4. CASE Renaming
    BY <2>2, <2>4 DEF Renaming
  <2> QED BY <2>1, <2>3, <2>4
<1>1. CASE NoEntry
  <2>1. ListOK' /\ mvSrc' = mvSrc
    BY <1>0, <1>1, RefillOK DEF NoEntry, Refresh
  <2> QED BY <1>1, <1>a, <2>1 DEF NoEntry, RestOK, mark, target, editor, net, bounds
<1>2. CASE Reserved
  <2>1. ListOK' /\ UNCHANGED mvSrc
    BY <1>2, StayOK DEF Reserved, Stay
  <2> QED BY <1>2, <1>a, <2>1 DEF Reserved, RestOK, mark, target, editor, net, bounds
<1>3. ASSUME NEW n \in Names, MakeFolder(n) PROVE ListOK' /\ RestOK'
  <2> DEFINE u == IF entryCtxFS = "folder" /\ curDir # Top
                  THEN mkdir(mkdir(tree, curDir), Append(curDir, n)) ELSE mkdir(tree, <<n>>)
  <2>1. Append(curDir, n) \in Paths /\ (curDir # Top => curDir \in Paths)
    BY <1>0, <1>3, DirFacts DEF MakeFolder, Dirs
  <2>2. <<n>> \in Paths
    <3>1. MaxDepth >= 1
      BY <1>0, <1>3, DirFacts, PathsAre DEF MakeFolder
    <3> QED BY <3>1, OneName
  <2>3. IsTree(u)
    BY <1>0, <2>1, <2>2, MakeTree
  <2>4. browser_refill(u, curDir, mvSrc, s_manage)
    BY <1>3 DEF MakeFolder
  <2> HIDE DEF u
  <2>5. ListOK' /\ mvSrc' = mvSrc
    BY <1>0, <2>3, <2>4, RefillOK
  <2> QED BY <1>3, <2>5 DEF MakeFolder, RestOK, Naming, mark, target, editor, net, bounds
<1>4. ASSUME NEW n \in Names, Rename(n) PROVE ListOK' /\ RestOK'
  <2>1. ListOK' /\ mvSrc' = mvSrc
    <3>1. CASE Stay
      BY <3>1, StayOK DEF Stay
    <3>2. CASE browser_refill(tree, curDir, mvSrc, s_manage)
      BY <1>0, <3>2, RefillOK
    <3>3. CASE n # mgTarget /\ browser_refill(rename(tree, Append(curDir, mgTarget), Append(curDir, n)),
                                              curDir, mvSrc, s_manage)
      <4>1. mgTarget \in Names
        BY <1>4 DEF Rename, Renaming, RestOK
      <4>2. IsTree(rename(tree, Append(curDir, mgTarget), Append(curDir, n)))
        BY <1>0, <3>3, <4>1, RenameSteps
      <4> QED BY <1>0, <3>3, <4>2, RefillOK
    <3> QED BY <1>4, <3>1, <3>2, <3>3 DEF Rename
  <2> QED BY <1>4, <2>1 DEF Rename, RestOK, Renaming, mark, target, editor, net, bounds
<1>5. ASSUME NEW n \in Names, MakeFile(n) PROVE ListOK' /\ RestOK'
  <2> DEFINE p == Append(curDir, n)
  <2>1. p \in Paths
    <3>1. p \in Ways /\ Len(p) \in Nat /\ p # NoPath /\ Len(p) <= MaxDepth
      BY <1>0, <1>5, DirFacts DEF MakeFile, Ways
    <3> QED BY <3>1, PathsAre DEF Top, NoPath
  <2>2. IsTree(WithFolder(tree))
    BY WithFolderTree
  <2>3. IsTree(Saved(WithFolder(tree), p, Blank))
    BY <1>0, <2>1, <2>2, SaveTree
  <2>4. tree' = Saved(WithFolder(tree), p, Blank)
    BY <1>5 DEF MakeFile
  <2>5. ListOK' /\ UNCHANGED mvSrc
    <3>1. UNCHANGED <<curDir, list, s_manage, mvSrc>>
      BY <1>5 DEF MakeFile, ui
    <3> QED BY <2>3, <2>4, <3>1 DEF ListOK
  <2> QED BY <1>0, <1>5, <2>1, <2>5 DEF MakeFile, RestOK, Naming, mark, target, bounds
<1>6. CASE WifiEntry \/ LeaveWifi
  <2>1. ListOK' /\ UNCHANGED mvSrc
    BY <1>6, StayOK DEF WifiEntry, LeaveWifi, Stay
  <2> QED BY <1>6, <2>1 DEF WifiEntry, LeaveWifi, RestOK, entry, mark, target, editor, net, bounds
<1> QED BY <1>1, <1>2, <1>3, <1>4, <1>5, <1>6 DEF Entry

LEMMA AlertTypes == ListOK /\ RestOK /\ Alerts => ListOK' /\ RestOK'
<1> SUFFICES ASSUME ListOK, RestOK, Alerts PROVE ListOK' /\ RestOK'
  OBVIOUS
<1>1. ListOK' /\ UNCHANGED mvSrc
  BY StayOK DEF Alerts, Says, AskStatus, DismissAlert, StatusComes, DismissStatus, Stay
<1>2. UNCHANGED <<mark, entry, editor, blurred, bounds>>
  BY DEF Alerts, Says, AskStatus, DismissAlert, StatusComes, DismissStatus
<1>3. screen' \in {screen, "alert", "menu", "status"} \/ (screen' = "editor" /\ have_editor)
  BY DEF Alerts, Says, AskStatus, DismissAlert, StatusComes, DismissStatus
<1>4. due' \in BOOLEAN /\ over' \in BOOLEAN
  <2>1. CASE Says \/ DismissStatus \/ DismissAlert
    BY <2>1 DEF Says, DismissStatus, DismissAlert, net, RestOK
  <2>2. CASE AskStatus
    BY <2>2 DEF AskStatus, RestOK
  <2>4. CASE StatusComes
    BY <2>4 DEF StatusComes, RestOK
  <2> QED BY <2>1, <2>2, <2>4 DEF Alerts
<1> QED BY <1>1, <1>2, <1>3, <1>4 DEF RestOK, entry, mark, target, editor, bounds

LEMMA TypesInductive == ListOK /\ RestOK /\ [Next]_vars => ListOK' /\ RestOK'
<1> SUFFICES ASSUME ListOK, RestOK, [Next]_vars PROVE ListOK' /\ RestOK'
  OBVIOUS
<1>1. CASE Type
  <2>1. ListOK' /\ UNCHANGED mvSrc
    BY <1>1, StayOK DEF Type, Stay
  <2> QED BY <1>1, <2>1, FilesAssumption DEF Type, RestOK, entry, mark, target, net, bounds
<1>a. ASSUME NEW x \in Texts, have_editor, Len(Append(curDir, curFile)) <= MaxDepth
      PROVE  IsTree(Saved(WithFolder(tree), Append(curDir, curFile), x))
  <2> DEFINE p == Append(curDir, curFile)
  <2>1. p \in Ways /\ Len(p) \in Nat /\ p # NoPath
    BY <1>a, DirFacts DEF ListOK, RestOK, Ways
  <2>2. p \in Paths
    BY <1>a, <2>1, PathsAre DEF Top, NoPath
  <2> QED BY <2>2, WithFolderTree, SaveTree
<1>b. ASSUME NEW x \in Texts, have_editor, Len(Append(curDir, curFile)) <= MaxDepth, Closes(x),
             troubles' \in 0..MaxTroubles
      PROVE  ListOK' /\ RestOK'
  <2> DEFINE u == Saved(WithFolder(tree), Append(curDir, curFile), x)
  <2>1. IsTree(u) /\ browser_refill(u, curDir, mvSrc, s_manage)
    BY <1>a, <1>b DEF Closes
  <2> HIDE DEF u
  <2>2. ListOK' /\ mvSrc' = mvSrc
    BY <2>1, RefillOK DEF ListOK
  <2> QED BY <1>b, <2>2, FilesAssumption DEF Closes, Decided, RestOK, entry, target
<1>c. ASSUME Refused, IsTree(tree'), troubles' \in 0..MaxTroubles PROVE ListOK' /\ RestOK'
  <2>1. ListOK' /\ UNCHANGED mvSrc
    BY <1>c DEF Refused, ListOK, ui
  <2> QED BY <1>c, <2>1 DEF Refused, Decided, RestOK, entry, target, editor, net
<1>t. ASSUME Trouble PROVE troubles' \in 0..MaxTroubles
  BY <1>t, FilesAssumption DEF Trouble, RestOK
<1>2. CASE SaveClose
  <2>1. edbuf \in Texts /\ troubles' \in 0..MaxTroubles /\ IsTree(WithFolder(tree))
    BY <1>2, WithFolderTree DEF SaveClose, RestOK
  <2> QED BY <1>2, <1>b, <1>c, <2>1 DEF SaveClose
<1>3. CASE SaveCut
  <2>1. Blank \in Texts /\ troubles' \in 0..MaxTroubles
    BY <1>3, <1>t, FilesAssumption DEF SaveCut
  <2> QED BY <1>3, <1>b, <2>1 DEF SaveCut
<1>6. CASE SaveRefused
  <2>1. IsTree(tree') /\ troubles' \in 0..MaxTroubles
    BY <1>6, <1>t DEF SaveRefused, ListOK
  <2> QED BY <1>6, <1>c, <2>1 DEF SaveRefused
<1>4. ASSUME NEW p \in Paths, Elsewhere(p) PROVE ListOK' /\ RestOK'
  <2>1. IsTree(tree') 
    <3>1. p \in Ways /\ Blank \in Texts /\ IsTree(tree)
      BY PathsAre, FilesAssumption DEF ListOK
    <3> QED BY <1>4, <3>1, RemoveTree, MakeTree, SaveTree DEF Elsewhere
  <2>2. ListOK' /\ UNCHANGED mvSrc
    BY <1>4, <2>1 DEF Elsewhere, ListOK, ui
  <2>3. troubles' \in 0..MaxTroubles
    BY <1>4, FilesAssumption DEF Elsewhere, Trouble, RestOK
  <2> QED BY <1>4, <2>2, <2>3 DEF Elsewhere, RestOK, entry, mark, target, editor, net
<1>5. CASE UNCHANGED vars
  BY <1>5 DEF vars, ListOK, RestOK, ui, entry, mark, target, editor, net, bounds
<1> QED BY <1>1, <1>2, <1>3, <1>4, <1>5, <1>6, ListsTypes, MarkedTypes, EntryTypes, AlertTypes DEF Next

-----------------------------------------------------------------------------
(* What is typed is kept.                                                  *)

\* The editor is left by a save only, and its text belongs to the file that is shown.
OpenIsHome ==
    /\ unsaved \/ screen = "editor" => have_editor
    /\ have_editor /\ ~over =>
           screen \in {"editor", "alert"} /\ home = Append(curDir, curFile)

LEMMA OpenIsHomeInductive == OpenIsHome /\ [Next]_vars => OpenIsHome'
<1> SUFFICES ASSUME OpenIsHome, [Next]_vars PROVE OpenIsHome'
  OBVIOUS
<1> USE DEF OpenIsHome
<1>1. CASE Lists
  <2>1. ASSUME NEW row \in Names \X BOOLEAN, OpenFile(row) PROVE OpenIsHome'
    BY <2>1 DEF OpenFile, Picked, Stay, ui
  <2>2. CASE \/ Projects \/ ToggleManage \/ Back \/ EscList \/ CancelMove \/ MoveHere
             \/ \E kind \in {"file", "folder", "project"} : NewEntry(kind)
             \/ \E row \in Names \X BOOLEAN : MarkEntry(row) \/ EnterFolder(row)
    <3>1. screen \in {"menu", "list"} /\ screen' # "editor" /\ UNCHANGED <<have_editor, home, unsaved, over>>
      BY <2>2 DEF Projects, ToggleManage, Back, EscList, CancelMove, MoveHere, NewEntry, MarkEntry,
                  EnterFolder, Picked, Up, editor, net
    <3> QED BY <3>1
  <2> QED BY <1>1, <2>1, <2>2 DEF Lists
<1>2. CASE Marked
  <2>1. screen \in {"manage", "confirm"} /\ screen' # "editor" /\ UNCHANGED <<have_editor, home, unsaved, over>>
    BY <1>2 DEF Marked, ChooseRename, ChooseMove, ChooseDelete, LeaveMarked, Delete, editor, net
  <2> QED BY <2>1
<1>3. CASE Entry
  <2>1. ASSUME NEW n \in Names, MakeFile(n) PROVE OpenIsHome'
    BY <2>1 DEF MakeFile
  <2>2. CASE NoEntry \/ Reserved \/ WifiEntry \/ LeaveWifi \/ \E n \in Names : MakeFolder(n) \/ Rename(n)
    <3>1. screen \in {"menu", "entry"} /\ screen' # "editor" /\ UNCHANGED <<have_editor, home, unsaved, over>>
      BY <2>2 DEF NoEntry, Reserved, WifiEntry, LeaveWifi, MakeFolder, Rename, editor, net
    <3> QED BY <3>1
  <2> QED BY <1>3, <2>1, <2>2 DEF Entry
<1>4. CASE Alerts
  <2>1. CASE Says \/ AskStatus \/ DismissStatus
    BY <2>1 DEF Says, AskStatus, DismissStatus, editor, net
  <2>2. CASE DismissAlert
    BY <2>2 DEF DismissAlert, Stay, editor, net
  <2>3. CASE StatusComes
    BY <2>3 DEF StatusComes, Stay, editor
  <2> QED BY <1>4, <2>1, <2>2, <2>3 DEF Alerts
<1>5. CASE Type
  BY <1>5 DEF Type, Stay, net
<1>6. CASE \E x \in Texts \cup {edbuf} : Closes(x)
  BY <1>6 DEF Closes
<1>7. CASE Refused /\ have_editor
  BY <1>7 DEF Refused, editor, net
<1>a. CASE SaveClose \/ SaveCut \/ SaveRefused
  BY <1>6, <1>7, <1>a, FilesAssumption DEF SaveClose, SaveCut, SaveRefused
<1>8. ASSUME NEW p \in Paths, Elsewhere(p) PROVE OpenIsHome'
  BY <1>8 DEF Elsewhere, editor, net
<1>9. CASE UNCHANGED vars
  BY <1>9 DEF vars, editor, net
<1> QED BY <1>1, <1>2, <1>3, <1>4, <1>5, <1>8, <1>9, <1>a DEF Next

-----------------------------------------------------------------------------
(* What a file holds stays on the card.                                    *)

\* A marked entry is the one that was picked; what is moved is not above the folder shown.
Unmixed ==
    ~blurred =>
        /\ screen \in {"manage", "confirm"} => marked = Append(curDir, mgTarget)
        /\ mvSrc # NoPath => /\ ~AtOrUnder(curDir, mvSrc)
                             /\ \A row \in list : Append(curDir, row[1]) # mvSrc

LEMMA RowsApart ==
    ASSUME NEW t, NEW d, NEW mv, NEW manage, browser_refill(t, d, mv, manage)
    PROVE  /\ tree' = t /\ curDir' = d /\ mvSrc' = mv
           /\ \A row \in list' : Append(curDir', row[1]) # mvSrc'
<1>1. tree' = t /\ curDir' = d /\ mvSrc' = mv /\ list' = Rows(t, d, mv)
  BY DEF browser_refill
<1>2. ASSUME NEW row \in Rows(t, d, mv) PROVE Append(d, row[1]) # mv
  <2>1. PICK n \in InFolder(t, d) : Append(d, n) # mv /\ row = <<n, IsFolder(t, Append(d, n))>>
    BY DEF Rows
  <2> QED BY <2>1
<1> QED BY <1>1, <1>2

LEMMA SameFolder ==
    ASSUME Unmixed, NEW t, NEW mv \in {mvSrc, NoPath}, NEW manage,
           browser_refill(t, curDir, mv, manage),
           UNCHANGED blurred, screen' \notin {"manage", "confirm"}
    PROVE  Unmixed'
BY RowsApart DEF Unmixed

LEMMA Unmoved ==
    ASSUME Unmixed, UNCHANGED <<curDir, list, mvSrc, blurred>>, screen' \notin {"manage", "confirm"}
    PROVE  Unmixed'
BY DEF Unmixed

LEMMA UnmixedInductive == ListOK /\ RestOK /\ Unmixed /\ [Next]_vars => Unmixed'
<1> SUFFICES ASSUME ListOK, RestOK, Unmixed, [Next]_vars PROVE Unmixed'
  OBVIOUS
<1>0. curDir \in Dirs /\ curDir \in Ways /\ mvSrc \in Paths \cup {NoPath} /\ mvSrc \in Ways
  BY DirFacts, PathsAre DEF ListOK, NoPath, Top, Ways
<1>1. CASE Projects
  <2>1. mvSrc' = NoPath /\ screen' = "list"
    BY <1>1, RowsApart DEF Projects
  <2> QED BY <2>1 DEF Unmixed
<1>2. CASE ToggleManage \/ CancelMove \/ MoveHere
  <2>1. screen' \notin {"manage", "confirm"} /\ UNCHANGED blurred
    BY <1>2 DEF ToggleManage, CancelMove, MoveHere
  <2>2. CASE \E t, manage : browser_refill(t, curDir, NoPath, manage)
    BY <2>1, <2>2, SameFolder
  <2>3. CASE Stay
    BY <2>1, <2>3, Unmoved DEF Stay, ui
  <2>4. CASE ToggleManage
    BY <2>1, <2>4, SameFolder DEF ToggleManage
  <2> QED BY <1>2, <2>2, <2>3, <2>4 DEF CancelMove, MoveHere
<1>3. CASE Back \/ EscList
  <2>1. PICK manage : browser_refill(tree, curDir, mvSrc, manage) \/ Up(manage)
    BY <1>3 DEF Back, EscList
  <2>2. screen' \in {"list", "menu"} /\ UNCHANGED blurred
    BY <1>3 DEF Back, EscList, Up
  <2>3. CASE browser_refill(tree, curDir, mvSrc, manage)
    BY <2>2, <2>3, SameFolder
  <2>4. CASE Up(manage) /\ curDir = Top
    BY <2>2, <2>4 DEF Up, Unmixed
  <2>5. CASE Up(manage) /\ curDir # Top
    <3>1. curDir' = Front(curDir) /\ mvSrc' = mvSrc /\ \A row \in list' : Append(curDir', row[1]) # mvSrc'
      BY <2>5, RowsApart DEF Up
    <3>2. AtOrUnder(Front(curDir), mvSrc) => AtOrUnder(curDir, mvSrc)
      BY <1>0, <2>5, UnderFront
    <3> QED BY <2>2, <3>1, <3>2 DEF Unmixed
  <2> QED BY <2>1, <2>3, <2>4, <2>5
<1>4. ASSUME NEW row \in Names \X BOOLEAN, MarkEntry(row) PROVE Unmixed'
  <2>1. ~blurred' => ~blurred /\ Listed[row[1]] = row[1]
    BY <1>4 DEF MarkEntry, Picked
  <2>2. /\ mgTarget' = Listed[row[1]] /\ marked' = Append(curDir, row[1])
        /\ UNCHANGED <<curDir, list, mvSrc>>
    BY <1>4 DEF MarkEntry, Stay, ui
  <2> QED BY <2>1, <2>2 DEF Unmixed
<1>5. ASSUME NEW row \in Names \X BOOLEAN, EnterFolder(row) PROVE Unmixed'
  <2>1. ~blurred' => ~blurred /\ Listed[row[1]] = row[1]
    BY <1>5 DEF EnterFolder, Picked
  <2>2. row \in list /\ screen' = "list" /\ row[1] \in Names
    BY <1>5 DEF EnterFolder, Picked
  <2>3. /\ curDir' = Append(curDir, Listed[row[1]]) /\ mvSrc' = mvSrc
        /\ \A r \in list' : Append(curDir', r[1]) # mvSrc'
    BY <1>5, RowsApart DEF EnterFolder
  <2>4. ASSUME ~blurred', mvSrc # NoPath PROVE ~AtOrUnder(curDir', mvSrc)
    <3> DEFINE p == Append(curDir, row[1])
    <3>1. p # mvSrc /\ ~AtOrUnder(curDir, mvSrc) /\ curDir' = p
      BY <2>1, <2>2, <2>3, <2>4 DEF Unmixed
    <3>2. p \in Ways /\ Front(p) = curDir /\ p # Top
      BY <1>0, <2>2, AppendFacts, DirFacts DEF Top, NoPath
    <3> HIDE DEF p
    <3> QED BY <1>0, <3>1, <3>2, UnderFront
  <2> QED BY <2>1, <2>2, <2>3, <2>4 DEF Unmixed
<1>6. ASSUME NEW row \in Names \X BOOLEAN, OpenFile(row) PROVE Unmixed'
  <2>1. ~blurred' => ~blurred
    BY <1>6 DEF OpenFile, Picked
  <2> QED BY <1>6, <2>1 DEF OpenFile, Stay, ui, Unmixed
<1>7. CASE ChooseMove
  <2>1. mgTarget \in Names
    BY <1>7 DEF ChooseMove, RestOK
  <2>2. /\ curDir' = curDir /\ mvSrc' = Append(curDir, mgTarget) /\ screen' = "list"
        /\ \A r \in list' : Append(curDir', r[1]) # mvSrc'
    BY <1>7, RowsApart DEF ChooseMove
  <2>3. ~AtOrUnder(curDir, Append(curDir, mgTarget))
    <3> DEFINE p == Append(curDir, mgTarget)
    <3>1. p \in Ways /\ Len(p) = Len(curDir) + 1 /\ Len(curDir) \in Nat
      BY <1>0, <2>1, AppendFacts
    <3> HIDE DEF p
    <3>2. ~AtOrUnder(curDir, p)
      BY <1>0, <3>1, UnderOrder
    <3> QED BY <3>2 DEF p
  <2> QED BY <2>2, <2>3 DEF Unmixed
<1>8. CASE ChooseDelete
  BY <1>8 DEF ChooseDelete, Stay, ui, mark, target, Unmixed
<1>9. CASE LeaveMarked \/ Delete
  <2>1. PICK t : browser_refill(t, curDir, mvSrc, s_manage)
    BY <1>9 DEF LeaveMarked, Delete, Refresh
  <2>2. screen' = "list" /\ UNCHANGED blurred
    BY <1>9 DEF LeaveMarked, Delete
  <2> QED BY <2>1, <2>2, SameFolder
<1>10. CASE Entry
  <2>1. screen' \in {"menu", "list", "alert", "editor", "entry"} /\ UNCHANGED blurred
    BY <1>10 DEF Entry, NoEntry, Reserved, WifiEntry, LeaveWifi, MakeFolder, Rename, MakeFile
  <2>2. \/ UNCHANGED <<curDir, list, mvSrc>>
        \/ \E t : browser_refill(t, curDir, mvSrc, s_manage)
    BY <1>10 DEF Entry, NoEntry, Reserved, WifiEntry, LeaveWifi, MakeFolder, Rename, MakeFile,
                 Refresh, Stay, ui
  <2> QED BY <2>1, <2>2, SameFolder, Unmoved
<1>11. CASE Says \/ AskStatus \/ DismissAlert \/ DismissStatus \/ Type \/ ChooseRename
            \/ \E kind \in {"file", "folder", "project"} : NewEntry(kind)
  <2>1. UNCHANGED <<curDir, list, mvSrc, blurred>>
    BY <1>11 DEF Says, AskStatus, DismissAlert, DismissStatus, Type,
                 ChooseRename, NewEntry, Stay, ui
  <2>2. screen' \notin {"manage", "confirm"}
    BY <1>11 DEF Says, AskStatus, DismissAlert, DismissStatus, Type,
                 ChooseRename, NewEntry
  <2> QED BY <2>1, <2>2, Unmoved
<1>14. CASE StatusComes
  BY <1>14 DEF StatusComes, Stay, ui, mark, target, Unmixed
<1>12. CASE SaveClose \/ SaveCut \/ SaveRefused
  <2>1. screen' \in {"list", "alert"} /\ UNCHANGED blurred
    BY <1>12 DEF SaveClose, SaveCut, SaveRefused, Closes, Refused
  <2>2. \/ UNCHANGED <<curDir, list, mvSrc>>
        \/ \E t : browser_refill(t, curDir, mvSrc, s_manage)
    BY <1>12 DEF SaveClose, SaveCut, SaveRefused, Closes, Refused, ui
  <2> QED BY <2>1, <2>2, SameFolder, Unmoved
<1>13. CASE (\E p \in Paths : Elsewhere(p)) \/ UNCHANGED vars
  BY <1>13 DEF Elsewhere, vars, ui, mark, target, Unmixed
<1> QED BY <1>1, <1>2, <1>3, <1>4, <1>5, <1>6, <1>7, <1>8, <1>9, <1>10, <1>11, <1>12, <1>13, <1>14
        DEF Next, Lists, Marked, Alerts

\* What a step leaves of the text at p.
Left(p) == \E q \in DOMAIN tree' : tree'[q] = tree[p]

LEMMA StepKeepsTexts ==
    ASSUME ListOK, RestOK, OpenIsHome, Unmixed, [Next]_vars,
           NEW p \in DOMAIN tree, tree[p] # Folder
    PROVE  \/ Left(p) \/ blurred \/ \E o \in Paths : Elsewhere(o)
           \/ screen = "confirm" /\ AtOrUnder(p, marked)
           \/ have_editor /\ ~have_editor' /\ p = Append(curDir, curFile) /\ (p = home \/ over)
           \/ screen = "entry" /\ entryCtxFS = "file" /\ p = Append(curDir, curFile')
<1>0. /\ curDir \in Dirs /\ mvSrc \in Paths \cup {NoPath} /\ IsTree(tree) /\ Paths \subseteq Ways
      /\ curDir \in Ways
  BY DirFacts, PathsAre DEF ListOK
<1>1. ASSUME tree' = tree PROVE Left(p)
  BY <1>1 DEF Left
<1>2. CASE MoveHere
  <2> DEFINE dst == Append(curDir, mgTarget)
             u == rename(tree, mvSrc, dst)
  <2>1. mvSrc # NoPath /\ mvSrc \in Paths /\ mvSrc \in Ways /\ mgTarget \in Names /\ dst \in Ways
        /\ dst # Top /\ Front(dst) = curDir
    <3>1. mvSrc # NoPath /\ mvSrc \in Paths /\ mgTarget \in Names
      BY <1>0, <1>2 DEF MoveHere, RestOK
    <3> QED BY <1>0, <3>1, DirFacts, AppendFacts DEF Top, NoPath
  <2>2. tree' = tree \/ (dst # mvSrc /\ u # tree /\ tree' = u /\ Room(u))
    BY <1>2, RowsApart DEF MoveHere, Stay
  <2> HIDE DEF dst
  <2>3. ASSUME ~blurred, dst # mvSrc, u # tree, tree' = u, Room(u) PROVE Left(p)
    <3>1. ~AtOrUnder(dst, mvSrc)
      BY <2>1, <2>3, UnderFront DEF Unmixed
    <3>2. \E q \in DOMAIN u : u[q] = tree[p]
      BY <1>0, <2>1, <2>3, <3>1, MovedTree
    <3> QED BY <2>3, <3>2 DEF Left
  <2> QED BY <1>1, <2>2, <2>3
<1>3. CASE Lists /\ ~MoveHere
  <2>1. tree' = tree
    BY <1>3, RowsApart DEF Lists, Projects, ToggleManage, Back, EscList, Up, CancelMove, NewEntry,
                           MarkEntry, EnterFolder, OpenFile, Stay
  <2> QED BY <1>1, <2>1
<1>4. CASE Delete
  <2>1. tree' = tree \/ tree' = rm_rf(tree, Append(curDir, mgTarget))
    BY <1>4, RowsApart DEF Delete
  <2>2. screen = "confirm" /\ mgTarget \in Names
    BY <1>4 DEF Delete, RestOK
  <2>3. ASSUME ~blurred, tree' = rm_rf(tree, Append(curDir, mgTarget)), ~AtOrUnder(p, marked)
        PROVE  Left(p)
    <3>1. marked = Append(curDir, mgTarget)
      BY <2>2, <2>3 DEF Unmixed
    <3>2. marked \in Ways
      BY <1>0, <2>2, <3>1, DirFacts
    <3>3. p \in DOMAIN tree' /\ tree'[p] = tree[p]
      BY <1>0, <2>3, <3>1, <3>2, RemoveTree
    <3> QED BY <3>3 DEF Left
  <2> QED BY <1>1, <2>1, <2>2, <2>3
<1>5. CASE Marked /\ ~Delete
  <2>1. tree' = tree
    BY <1>5, RowsApart DEF Marked, ChooseRename, ChooseMove, ChooseDelete, LeaveMarked, Refresh, Stay
  <2> QED BY <1>1, <2>1
<1>6. CASE NoEntry \/ Reserved \/ WifiEntry \/ LeaveWifi
  <2>1. tree' = tree
    BY <1>6, RowsApart DEF NoEntry, Reserved, WifiEntry, LeaveWifi, Refresh, Stay
  <2> QED BY <1>1, <2>1
<1>7. ASSUME NEW n \in Names, MakeFolder(n) PROVE Left(p)
  <2>1. \/ tree' = mkdir(mkdir(tree, curDir), Append(curDir, n)) /\ curDir # Top
        \/ tree' = mkdir(tree, <<n>>)
    BY <1>7, RowsApart DEF MakeFolder
  <2>2. Append(curDir, n) \in Paths /\ <<n>> \in Paths
    <3>1. Append(curDir, n) \in Paths
      BY <1>0, <1>7, DirFacts DEF MakeFolder
    <3>2. MaxDepth >= 1
      BY <1>0, <1>7, DirFacts, PathsAre DEF MakeFolder
    <3> QED BY <3>1, <3>2, OneName
  <2>3. ASSUME tree' = mkdir(tree, <<n>>) PROVE Left(p)
    BY <1>0, <2>2, <2>3, MakeTree DEF Left
  <2>4. ASSUME tree' = mkdir(mkdir(tree, curDir), Append(curDir, n)), curDir # Top PROVE Left(p)
    <3> DEFINE t == mkdir(tree, curDir)
    <3>1. IsTree(t) /\ p \in DOMAIN t /\ t[p] = tree[p]
      BY <1>0, <2>4, MakeTree DEF Dirs
    <3> HIDE DEF t
    <3>2. p \in DOMAIN mkdir(t, Append(curDir, n)) /\ mkdir(t, Append(curDir, n))[p] = t[p]
      BY <2>2, <3>1, MakeTree
    <3> QED BY <2>4, <3>1, <3>2 DEF Left, t
  <2> QED BY <2>1, <2>3, <2>4
<1>8. ASSUME NEW n \in Names, Rename(n) PROVE Left(p)
  <2>1. \/ tree' = tree
        \/ n # mgTarget /\ tree' = rename(tree, Append(curDir, mgTarget), Append(curDir, n))
    BY <1>8, RowsApart DEF Rename, Stay
  <2>2. mgTarget \in Names
    BY <1>8 DEF Rename, Renaming, RestOK
  <2> QED BY <1>0, <1>1, <2>1, <2>2, RenameSteps DEF Left
<1>9. ASSUME NEW q \in Paths, NEW x \in Texts, tree' = Saved(WithFolder(tree), q, x), p # q
      PROVE  Left(p)
  <2>1. IsTree(WithFolder(tree)) /\ p \in DOMAIN WithFolder(tree) /\ WithFolder(tree)[p] = tree[p]
    BY WithFolderTree
  <2>2. p \in DOMAIN tree' /\ tree'[p] = WithFolder(tree)[p]
    BY <1>9, <2>1, SaveTree
  <2> QED BY <2>1, <2>2 DEF Left
<1>10. ASSUME NEW n \in Names, Len(Append(curDir, n)) <= MaxDepth PROVE Append(curDir, n) \in Paths
  <2> DEFINE q == Append(curDir, n)
  <2>1. q \in Ways /\ Len(q) \in Nat /\ q # NoPath
    BY <1>0, DirFacts DEF Ways
  <2> HIDE DEF q
  <2> QED BY <1>10, <2>1, PathsAre DEF q, NoPath, Top
<1>11. ASSUME NEW n \in Names, MakeFile(n)
       PROVE  Left(p) \/ (screen = "entry" /\ entryCtxFS = "file" /\ p = Append(curDir, curFile'))
  <2>1. /\ tree' = Saved(WithFolder(tree), Append(curDir, n), Blank) /\ curFile' = n
        /\ screen = "entry" /\ entryCtxFS = "file" /\ Len(Append(curDir, n)) <= MaxDepth
    BY <1>11 DEF MakeFile
  <2>2. Append(curDir, n) \in Paths /\ Blank \in Texts
    BY <1>10, <2>1, FilesAssumption
  <2> QED BY <1>9, <2>1, <2>2
<1>12. CASE SaveClose \/ SaveCut
  <2>1. have_editor /\ curFile \in Names /\ edbuf \in Texts /\ Blank \in Texts
        /\ Len(Append(curDir, curFile)) <= MaxDepth
    BY <1>12, FilesAssumption DEF SaveClose, SaveCut, RestOK
  <2>2. Append(curDir, curFile) \in Paths /\ (over \/ home = Append(curDir, curFile))
    BY <1>10, <2>1 DEF OpenIsHome
  <2>3. \/ tree' = WithFolder(tree)
        \/ \E x \in Texts : /\ tree' = Saved(WithFolder(tree), Append(curDir, curFile), x)
                           /\ ~have_editor'
    BY <1>12, <2>1, RowsApart DEF SaveClose, SaveCut, Closes
  <2>4. tree' = WithFolder(tree) => Left(p)
    BY WithFolderTree DEF Left
  <2> QED BY <1>9, <2>1, <2>2, <2>3, <2>4
<1>13. CASE Alerts \/ Type \/ SaveRefused \/ UNCHANGED vars
  <2>1. tree' = tree
    BY <1>13 DEF Alerts, Says, AskStatus, DismissAlert, StatusComes, DismissStatus, Type, SaveRefused,
                 Stay, vars
  <2> QED BY <1>1, <2>1
<1> QED BY <1>2, <1>3, <1>4, <1>5, <1>6, <1>7, <1>8, <1>11, <1>12, <1>13 DEF Next, Entry

LEMMA StepKeepsUnsaved ==
    ASSUME ListOK, RestOK, OpenIsHome, [Next]_vars, unsaved, ~unsaved'
    PROVE  over \/ SaveCut \/ (home \in DOMAIN tree' /\ tree'[home] = edbuf)
<1> SUFFICES ASSUME ~over, ~SaveCut PROVE home \in DOMAIN tree' /\ tree'[home] = edbuf
  OBVIOUS
<1>1. screen \in {"editor", "alert"} /\ home = Append(curDir, curFile) /\ have_editor
  BY DEF OpenIsHome
<1>2. SaveClose
  BY <1>1 DEF Next, Lists, Projects, ToggleManage, Back, EscList, CancelMove, MoveHere, NewEntry,
              MarkEntry, EnterFolder, OpenFile, Picked, Marked, ChooseRename, ChooseMove,
              ChooseDelete, LeaveMarked, Delete, Entry, NoEntry, Reserved, WifiEntry, LeaveWifi,
              MakeFolder, Rename, MakeFile, Alerts, Says, AskStatus, DismissAlert, StatusComes,
              DismissStatus, Type, SaveRefused, Refused, Elsewhere, vars, editor
<1>3. CanWrite /\ Closes(edbuf)
  BY <1>2 DEF SaveClose, Refused, editor
<1>4. /\ Writable(WithFolder(tree), home)
      /\ tree' = Saved(WithFolder(tree), home, edbuf)
  BY <1>1, <1>3, RowsApart DEF CanWrite, Closes
<1> QED BY <1>4 DEF Saved, Put

-----------------------------------------------------------------------------
(* Theorems.                                                               *)

IInv == TypeOK /\ Named /\ OpenIsHome /\ Unmixed

\* The inductive invariant, of every behaviour.
THEOREM Invariance == Spec => []IInv
<1>1. Init => IInv
  BY InitTypes DEF Init, IInv, OpenIsHome, Unmixed, NoPath
<1>2. IInv /\ [Next]_vars => IInv'
  <2> SUFFICES ASSUME IInv, [Next]_vars PROVE IInv'
    OBVIOUS
  <2>1. ListOK /\ RestOK
    BY TypeParts DEF IInv
  <2>2. ListOK' /\ RestOK'
    BY <2>1, TypesInductive
  <2>3. TypeOK' /\ Named'
    BY <2>2 DEF TypeOK, Named, ListOK, RestOK, Dirs
  <2> QED BY <2>1, <2>3, OpenIsHomeInductive, UnmixedInductive DEF IInv
<1> QED BY <1>1, <1>2, PTL DEF Spec

\* browser_refill, rename, rm_rf, mkdir: whatever is done with the files, and whoever else writes
\* the card, it stays a tree: every entry is in a folder, up to Projects.
THEOREM TypeCorrect == Spec => []TypeOK
<1>1. IInv => TypeOK
  BY DEF IInv
<1> QED BY <1>1, Invariance, PTL

\* move_finish, rename, rm_rf, save_current_file: a text leaves the card only with the marked
\* entry that is deleted, for the open text that is saved at its own place, or for a new file of
\* its name.  After a status led away from the editor the place is that of the folder shown.
THEOREM TextsCorrect == Spec => TextsStay
<1>1. IInv /\ [Next]_vars =>
        [\A p \in DOMAIN tree : tree[p] # Folder =>
         \/ \E q \in DOMAIN tree' : tree'[q] = tree[p]
         \/ blurred \/ \E o \in Paths : Elsewhere(o)
         \/ screen = "confirm" /\ AtOrUnder(p, marked)
         \/ have_editor /\ ~have_editor' /\ p = Append(curDir, curFile) /\ (p = home \/ over)
         \/ screen = "entry" /\ entryCtxFS = "file" /\ p = Append(curDir, curFile')]_vars
  BY TypeParts, StepKeepsTexts DEF IInv, Left
<1> QED BY <1>1, Invariance, PTL DEF Spec, TextsStay

\* oyobyok_app_save_close: what was typed is let go only once it is in its file, unless a
\* status came over the message of a failed save, or the card filled up under the save.
THEOREM UnsavedCorrect == Spec => UnsavedIsKept
<1>1. IInv /\ [Next]_vars =>
        [unsaved /\ ~unsaved' => over \/ SaveCut \/ (home \in DOMAIN tree' /\ tree'[home] = edbuf)]_vars
  BY TypeParts, StepKeepsUnsaved DEF IInv
<1> QED BY <1>1, Invariance, PTL DEF Spec, UnsavedIsKept
=============================================================================
