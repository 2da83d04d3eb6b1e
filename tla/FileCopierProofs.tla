--------------------------- MODULE FileCopierProofs ---------------------------
(***************************************************************************)
(* Proofs that hold for every file system and every list of pairs to copy, *)
(* whatever the user decides and whichever system call fails.              *)
(***************************************************************************)
EXTENDS FileCopier, FiniteSetTheorems, SequenceTheorems, WellFoundedInduction, TLAPS

(***************************************************************************)
(* Paths and their prefixes.                                               *)
(***************************************************************************)

\* What IsPrefix compares.
LEMMA PrefixValue ==
    ASSUME NEW p \in Seq(Names), NEW q \in Seq(Names)
    PROVE  IsPrefix(p, q) <=> Len(p) <= Len(q) /\ \A i \in 1 .. Len(p) : p[i] = q[i]
<1>1. CASE Len(p) <= Len(q)
  <2>1. /\ SubSeq(p, 1, Len(p)) = [i \in 1 .. Len(p) |-> p[i]]
        /\ SubSeq(q, 1, Len(p)) = [i \in 1 .. Len(p) |-> q[i]]
    BY <1>1
  <2> QED
    BY <1>1, <2>1 DEF IsPrefix
<1> QED
  BY <1>1 DEF IsPrefix

\* Two paths of one length are equal when one is a prefix of the other.
LEMMA PrefixSame ==
    ASSUME NEW p \in Seq(Names), NEW q \in Seq(Names), IsPrefix(p, q), Len(p) = Len(q)
    PROVE  p = q
BY PrefixValue

LEMMA PrefixReflexive ==
    ASSUME NEW p \in Seq(Names)
    PROVE  IsPrefix(p, p)
BY PrefixValue

LEMMA PrefixTransitive ==
    ASSUME NEW p \in Seq(Names), NEW q \in Seq(Names), NEW r \in Seq(Names),
           IsPrefix(p, q), IsPrefix(q, r)
    PROVE  IsPrefix(p, r)
<1>1. /\ Len(p) <= Len(q) /\ \A i \in 1 .. Len(p) : p[i] = q[i]
      /\ Len(q) <= Len(r) /\ \A i \in 1 .. Len(q) : q[i] = r[i]
  BY PrefixValue
<1>2. Len(p) <= Len(r) /\ \A i \in 1 .. Len(p) : p[i] = r[i]
  BY <1>1
<1> QED
  BY <1>2, PrefixValue

\* Of two prefixes of a path the shorter is a prefix of the longer.
LEMMA PrefixLinear ==
    ASSUME NEW p \in Seq(Names), NEW q \in Seq(Names), NEW r \in Seq(Names),
           IsPrefix(p, r), IsPrefix(q, r), Len(p) <= Len(q)
    PROVE  IsPrefix(p, q)
<1>1. /\ \A i \in 1 .. Len(p) : p[i] = r[i]
      /\ \A i \in 1 .. Len(q) : q[i] = r[i]
  BY PrefixValue
<1>2. \A i \in 1 .. Len(p) : p[i] = q[i]
  BY <1>1
<1> QED
  BY <1>2, PrefixValue

\* The prefix of a length.
LEMMA PrefixOfLength ==
    ASSUME NEW p \in Seq(Names), NEW n \in 0 .. Len(p)
    PROVE  /\ SubSeq(p, 1, n) \in Seq(Names) /\ Len(SubSeq(p, 1, n)) = n
           /\ IsPrefix(SubSeq(p, 1, n), p)
<1> DEFINE a == SubSeq(p, 1, n)
<1>1. /\ a \in Seq(Names) /\ Len(a) = n /\ n <= Len(p)
      /\ \A i \in 1 .. n : a[i] = p[i]
  OBVIOUS
<1> HIDE DEF a
<1>2. IsPrefix(a, p)
  BY <1>1, PrefixValue
<1> QED
  BY <1>1, <1>2 DEF a

\* Ancestors are the prefixes, the path itself included.
LEMMA AncestorsValue ==
    ASSUME NEW p \in Paths, NEW a
    PROVE  a \in Ancestors(p) <=> a \in Paths /\ IsPrefix(a, p)
<1>0. p \in Seq(Names) /\ Len(p) \in Nat \ {0}
  BY DEF Paths
<1>1. ASSUME a \in Ancestors(p) PROVE a \in Paths /\ IsPrefix(a, p)
  <2>1. PICK n \in 1 .. Len(p) : a = SubSeq(p, 1, n)
    BY <1>1 DEF Ancestors
  <2>2. a \in Seq(Names) /\ Len(a) = n /\ IsPrefix(a, p) /\ n # 0
    BY <1>0, <2>1, PrefixOfLength
  <2> QED
    BY <2>2 DEF Paths
<1>2. ASSUME a \in Paths, IsPrefix(a, p) PROVE a \in Ancestors(p)
  <2>1. a \in Seq(Names) /\ Len(a) \in 1 .. Len(p)
    BY <1>0, <1>2, PrefixValue DEF Paths
  <2> DEFINE b == SubSeq(p, 1, Len(a))
  <2>2. b \in Seq(Names) /\ Len(b) = Len(a) /\ IsPrefix(b, p)
    BY <1>0, <2>1, PrefixOfLength
  <2> HIDE DEF b
  <2>3. a = b
    BY <1>0, <1>2, <2>1, <2>2, PrefixLinear, PrefixSame
  <2> QED
    BY <2>1, <2>3 DEF Ancestors, b
<1> QED
  BY <1>1, <1>2

\* The path with its first names exchanged, name by name.
MoveOf(m, q, from, to) ==
    /\ m \in Seq(Names) /\ Len(m) = Len(to) + (Len(q) - Len(from)) /\ Len(from) <= Len(q)
    /\ \A i \in 1 .. Len(to) : m[i] = to[i]
    /\ \A i \in 1 .. Len(q) - Len(from) : m[Len(to) + i] = q[Len(from) + i]

LEMMA MovedValue ==
    ASSUME NEW q \in Seq(Names), NEW from \in Seq(Names), NEW to \in Seq(Names),
           IsPrefix(from, q)
    PROVE  MoveOf(Moved(q, from, to), q, from, to)
<1> DEFINE rest == SubSeq(q, Len(from) + 1, Len(q))
<1>1. Len(from) <= Len(q) /\ Len(from) \in Nat /\ Len(q) \in Nat /\ Len(to) \in Nat
  BY PrefixValue
<1>2. /\ rest \in Seq(Names) /\ Len(rest) = Len(q) - Len(from)
      /\ \A i \in 1 .. Len(q) - Len(from) : rest[i] = q[Len(from) + i]
  BY <1>1
<1> HIDE DEF rest
<1> DEFINE m == to \o rest
<1>3. /\ m \in Seq(Names) /\ Len(m) = Len(to) + Len(rest)
      /\ \A i \in 1 .. Len(to) : m[i] = to[i]
      /\ \A i \in 1 .. Len(rest) : m[Len(to) + i] = rest[i]
  <2>1. rest \in Seq(Names) /\ to \in Seq(Names)
    BY <1>2
  <2>2. m \in Seq(Names) /\ Len(m) = Len(to) + Len(rest)
    BY <2>1
  <2>3. ASSUME NEW i \in 1 .. Len(to) PROVE m[i] = to[i]
    BY <2>1
  <2>4. ASSUME NEW i \in 1 .. Len(rest) PROVE m[Len(to) + i] = rest[i]
    BY <2>1
  <2> QED
    BY <2>2, <2>3, <2>4
<1> HIDE DEF m
<1>4. Moved(q, from, to) = m
  BY DEF Moved, m, rest
<1>5. Len(m) = Len(to) + (Len(q) - Len(from))
  BY <1>2, <1>3
<1>6. \A i \in 1 .. Len(q) - Len(from) : m[Len(to) + i] = q[Len(from) + i]
  BY <1>2, <1>3
<1>7. MoveOf(m, q, from, to)
  BY <1>1, <1>3, <1>5, <1>6 DEF MoveOf
<1> QED
  BY <1>4, <1>7

\* It is below the new place, and moving it back gives the path.
LEMMA MovedBack ==
    ASSUME NEW q \in Seq(Names), NEW from \in Seq(Names), NEW to \in Seq(Names),
           IsPrefix(from, q)
    PROVE  /\ IsPrefix(to, Moved(q, from, to))
           /\ Moved(Moved(q, from, to), to, from) = q
<1> DEFINE m == Moved(q, from, to)
           b == Moved(m, to, from)
<1>1. /\ m \in Seq(Names) /\ Len(m) = Len(to) + (Len(q) - Len(from)) /\ Len(from) <= Len(q)
      /\ \A i \in 1 .. Len(to) : m[i] = to[i]
      /\ \A i \in 1 .. Len(q) - Len(from) : m[Len(to) + i] = q[Len(from) + i]
  <2>1. MoveOf(m, q, from, to)
    BY MovedValue
  <2> HIDE DEF m
  <2> QED
    BY <2>1 DEF MoveOf
<1> HIDE DEF m
<1>0. Len(from) \in Nat /\ Len(to) \in Nat /\ Len(q) \in Nat
  OBVIOUS
<1>2. IsPrefix(to, m)
  BY <1>0, <1>1, PrefixValue
<1>3. /\ b \in Seq(Names) /\ Len(b) = Len(from) + (Len(m) - Len(to))
      /\ \A i \in 1 .. Len(from) : b[i] = from[i]
      /\ \A i \in 1 .. Len(m) - Len(to) : b[Len(from) + i] = m[Len(to) + i]
  <2>1. MoveOf(b, m, to, from)
    BY <1>1, <1>2, MovedValue
  <2> HIDE DEF b
  <2> QED
    BY <2>1 DEF MoveOf
<1> HIDE DEF b
<1>4. Len(b) = Len(q)
  BY <1>0, <1>1, <1>3
<1>5. ASSUME NEW i \in 1 .. Len(q) PROVE b[i] = q[i]
  <2>1. CASE i <= Len(from)
    BY <1>0, <1>3, <2>1, PrefixValue
  <2>2. CASE i > Len(from)
    <3> DEFINE j == i - Len(from)
    <3>1. j \in 1 .. Len(q) - Len(from) /\ i = Len(from) + j /\ j \in 1 .. Len(m) - Len(to)
      BY <1>0, <1>1, <2>2
    <3> HIDE DEF j
    <3> QED
      BY <1>1, <1>3, <3>1
  <2> QED
    BY <1>0, <2>1, <2>2
<1>6. b = q
  BY <1>3, <1>4, <1>5
<1> QED
  BY <1>2, <1>6 DEF m, b

\* A path between from and q stays one above q.
LEMMA MovedAbove ==
    ASSUME NEW q \in Seq(Names), NEW a \in Seq(Names), NEW from \in Seq(Names),
           NEW to \in Seq(Names), IsPrefix(from, a), IsPrefix(a, q)
    PROVE  IsPrefix(Moved(a, from, to), Moved(q, from, to))
<1> DEFINE m == Moved(q, from, to)
           b == Moved(a, from, to)
<1>0. Len(from) \in Nat /\ Len(to) \in Nat /\ Len(q) \in Nat /\ Len(a) \in Nat
  OBVIOUS
<1>1. IsPrefix(from, q)
  BY PrefixTransitive
<1>2. /\ m \in Seq(Names) /\ Len(m) = Len(to) + (Len(q) - Len(from)) /\ Len(from) <= Len(q)
      /\ \A i \in 1 .. Len(to) : m[i] = to[i]
      /\ \A i \in 1 .. Len(q) - Len(from) : m[Len(to) + i] = q[Len(from) + i]
  <2>1. MoveOf(m, q, from, to)
    BY <1>1, MovedValue
  <2> HIDE DEF m
  <2> QED
    BY <2>1 DEF MoveOf
<1>3. /\ b \in Seq(Names) /\ Len(b) = Len(to) + (Len(a) - Len(from)) /\ Len(from) <= Len(a)
      /\ \A i \in 1 .. Len(to) : b[i] = to[i]
      /\ \A i \in 1 .. Len(a) - Len(from) : b[Len(to) + i] = a[Len(from) + i]
  <2>1. MoveOf(b, a, from, to)
    BY MovedValue
  <2> HIDE DEF b
  <2> QED
    BY <2>1 DEF MoveOf
<1> HIDE DEF m, b
<1>4. Len(a) <= Len(q) /\ \A i \in 1 .. Len(a) : a[i] = q[i]
  BY PrefixValue
<1>5. ASSUME NEW i \in 1 .. Len(b) PROVE b[i] = m[i]
  <2>1. CASE i <= Len(to)
    BY <1>0, <1>2, <1>3, <2>1
  <2>2. CASE i > Len(to)
    <3> DEFINE j == i - Len(to)
    <3>1. /\ j \in 1 .. Len(a) - Len(from) /\ i = Len(to) + j
          /\ j \in 1 .. Len(q) - Len(from) /\ Len(from) + j \in 1 .. Len(a)
      BY <1>0, <1>2, <1>3, <1>4, <2>2
    <3> HIDE DEF j
    <3> QED
      BY <1>2, <1>3, <1>4, <3>1
  <2> QED
    BY <1>0, <1>3, <2>1, <2>2
<1>6. Len(b) <= Len(m)
  BY <1>0, <1>2, <1>3, <1>4
<1> QED
  BY <1>2, <1>3, <1>5, <1>6, PrefixValue DEF m, b

\* Two names in one directory: what is above both, and that neither is below the other.
Siblings(p, q) ==
    /\ p \in Paths /\ q \in Paths /\ Len(p) = Len(q)
    /\ \A i \in 1 .. Len(p) - 1 : p[i] = q[i]

LEMMA SiblingsShare ==
    ASSUME NEW p, NEW q, Siblings(p, q), NEW a \in Paths, IsPrefix(a, q), a # q
    PROVE  IsPrefix(a, p) /\ a # p
<1>1. /\ p \in Seq(Names) /\ q \in Seq(Names) /\ a \in Seq(Names) /\ Len(p) = Len(q)
      /\ \A i \in 1 .. Len(p) - 1 : p[i] = q[i]
  BY DEF Siblings, Paths
<1>2. Len(a) <= Len(q) /\ \A i \in 1 .. Len(a) : a[i] = q[i]
  BY <1>1, PrefixValue
<1>3. Len(a) # Len(q)
  BY <1>1, PrefixSame
<1>4. Len(a) <= Len(p) - 1
  BY <1>1, <1>2, <1>3
<1>5. \A i \in 1 .. Len(a) : a[i] = p[i]
  BY <1>1, <1>2, <1>4
<1> QED
  BY <1>1, <1>4, <1>5, PrefixValue

\* A name put in the place of the last one.
LEMMA BesideIsSibling ==
    ASSUME NEW p \in Paths, NEW name \in Names
    PROVE  Siblings(p, Append(Front(p), name))
<1>1. p \in Seq(Names) /\ Len(p) \in Nat \ {0}
  BY DEF Paths
<1> DEFINE f == Front(p)
<1>2. f \in Seq(Names) /\ Len(f) = Len(p) - 1 /\ \A i \in 1 .. Len(p) - 1 : f[i] = p[i]
  <2>1. f = SubSeq(p, 1, Len(p) - 1)
    BY DEF Front
  <2> HIDE DEF f
  <2>2. Len(p) - 1 \in 0 .. Len(p)
    BY <1>1
  <2> QED
    BY <1>1, <2>1, <2>2, PrefixOfLength, PrefixValue
<1> HIDE DEF f
<1> DEFINE q == Append(f, name)
<1>3. q \in Seq(Names) /\ Len(q) = Len(p) /\ \A i \in 1 .. Len(p) - 1 : q[i] = f[i]
  BY <1>1, <1>2
<1>4. q # << >>
  BY <1>1, <1>3
<1> HIDE DEF q
<1>5. Siblings(p, q)
  BY <1>1, <1>2, <1>3, <1>4 DEF Siblings, Paths
<1> QED
  BY <1>5 DEF q, f

-----------------------------------------------------------------------------
(***************************************************************************)
(* The file system: everything is reached through directories.             *)
(***************************************************************************)
Rooted(f) ==
    /\ IsFiniteSet(DOMAIN f)
    /\ DOMAIN f \subseteq Paths
    /\ \A p \in DOMAIN f : \A a \in Paths : IsPrefix(a, p) /\ a # p => a \in DOMAIN f /\ f[a] = Dir

LEMMA InitRooted == Rooted(InitialFs)
<1>1. ASSUME NEW p \in DOMAIN InitialFs, NEW a \in Paths, IsPrefix(a, p), a # p
      PROVE  a \in DOMAIN InitialFs /\ InitialFs[a] = Dir
  <2>1. p \in Paths /\ p \in Seq(Names) /\ a \in Seq(Names) /\ Len(a) \in Nat \ {0}
    BY FilesAssumption DEF Paths
  <2>2. a \in Ancestors(p)
    BY <1>1, <2>1, AncestorsValue
  <2>3. PICK n \in 1 .. Len(p) : a = SubSeq(p, 1, n)
    BY <2>2 DEF Ancestors
  <2>4. n # Len(p)
    <3>1. Len(a) = n
      BY <2>1, <2>3, PrefixOfLength
    <3> QED
      BY <1>1, <2>1, <3>1, PrefixSame
  <2>5. n \in 1 .. Len(p) - 1
    BY <2>1, <2>3, <2>4
  <2> QED
    BY <2>3, <2>5, FilesAssumption
<1> QED
  BY <1>1, FilesAssumption DEF Rooted

\* The images of the elements of a finite set are finitely many.
LEMMA FiniteImage ==
    ASSUME NEW D, IsFiniteSet(D), NEW f, DOMAIN f = D
    PROVE  IsFiniteSet({f[x] : x \in D})
<1> DEFINE T == {f[x] : x \in D}
           g == [x \in D |-> f[x]]
<1>1. g \in Surjection(D, T)
  BY DEF Surjection
<1> QED
  BY <1>1, FS_Surjection

LEMMA AncestorsFinite ==
    ASSUME NEW p \in Paths
    PROVE  IsFiniteSet(Ancestors(p))
<1> DEFINE f == [n \in 1 .. Len(p) |-> SubSeq(p, 1, n)]
<1>1. Len(p) \in Int
  BY DEF Paths
<1>2. IsFiniteSet(1 .. Len(p))
  BY <1>1, FS_Interval
<1>3. IsFiniteSet({f[n] : n \in 1 .. Len(p)})
  BY <1>2, FiniteImage
<1>4. {f[n] : n \in 1 .. Len(p)} = Ancestors(p)
  BY DEF Ancestors
<1> QED
  BY <1>3, <1>4

\* Nothing is below what is not there, a file, or a directory without children.
LEMMA NothingBelow ==
    ASSUME Rooted(fs), NEW p \in Paths, ~IsDir(p) \/ Children(p) = {},
           NEW q \in DOMAIN fs, IsPrefix(p, q)
    PROVE  q = p
<1> SUFFICES ASSUME q # p PROVE FALSE
  OBVIOUS
<1>1. q \in Paths /\ p \in DOMAIN fs /\ fs[p] = Dir
  BY DEF Rooted
<1>2. Children(p) = {}
  BY <1>1 DEF IsDir, Exists
<1>3. /\ p \in Seq(Names) /\ q \in Seq(Names) /\ Len(p) <= Len(q) /\ Len(p) # Len(q)
      /\ Len(p) \in Nat /\ Len(q) \in Nat
  BY <1>1, PrefixValue, PrefixSame DEF Paths
<1> DEFINE c == SubSeq(q, 1, Len(p) + 1)
<1>4. c \in Seq(Names) /\ Len(c) = Len(p) + 1 /\ IsPrefix(c, q)
  <2>1. Len(p) + 1 \in 0 .. Len(q)
    BY <1>3
  <2> QED
    BY <1>3, <2>1, PrefixOfLength
<1> HIDE DEF c
<1>5. IsPrefix(p, c)
  BY <1>3, <1>4, PrefixLinear
<1>6. c \in Paths
  BY <1>3, <1>4 DEF Paths
<1>7. c \in DOMAIN fs
  BY <1>4, <1>6 DEF Rooted
<1>8. c \in Children(p)
  BY <1>4, <1>5, <1>7 DEF Children, Within
<1> QED
  BY <1>2, <1>8

\* A file in a directory, or another content for a file.
LEMMA WithFileRooted ==
    ASSUME Rooted(fs), NEW p \in Paths, NEW content, content # Dir,
           \/ ~Exists(p) /\ IsDir(Front(p))
           \/ IsFile(p)
    PROVE  Rooted(WithFile(p, content))
<1> DEFINE g == WithFile(p, content)
<1>1. /\ DOMAIN g = DOMAIN fs \cup {p}
      /\ \A q \in DOMAIN g : g[q] = IF q = p THEN content ELSE fs[q]
  BY DEF WithFile
<1> HIDE DEF g
<1>2. IsFiniteSet(DOMAIN g) /\ DOMAIN g \subseteq Paths
  BY <1>1, FS_AddElement DEF Rooted
<1>3. ASSUME NEW q \in DOMAIN g, NEW a \in Paths, IsPrefix(a, q), a # q
      PROVE  a \in DOMAIN g /\ g[a] = Dir
  <2>1. CASE q \in DOMAIN fs
    <3>1. a \in DOMAIN fs /\ fs[a] = Dir
      BY <1>3, <2>1 DEF Rooted
    <3>2. a # p
      BY <3>1 DEF Exists, IsFile
    <3> QED
      BY <1>1, <3>1, <3>2
  <2>2. CASE q \notin DOMAIN fs
    <3>1. q = p /\ ~Exists(p) /\ IsDir(Front(p))
      BY <1>1, <1>3, <2>2 DEF Exists, IsFile
    <3> DEFINE f == Front(p)
    <3>2. f \in DOMAIN fs /\ fs[f] = Dir
      BY <3>1 DEF IsDir, Exists
    <3>3. f \in Seq(Names) /\ Len(f) = Len(p) - 1 /\ IsPrefix(f, p)
      <4>1. p \in Seq(Names) /\ Len(p) - 1 \in 0 .. Len(p)
        BY DEF Paths
      <4> QED
        BY <4>1, PrefixOfLength DEF Front
    <3> HIDE DEF f
    <3>4. a \in Seq(Names) /\ p \in Seq(Names) /\ Len(a) \in Nat /\ Len(p) \in Nat /\ f \in Paths
      BY <3>2 DEF Paths, Rooted
    <3>5. Len(a) <= Len(f)
      <4>1. Len(a) <= Len(p) /\ Len(a) # Len(p)
        BY <1>3, <3>1, <3>4, PrefixValue, PrefixSame
      <4> QED
        BY <3>3, <3>4, <4>1
    <3>6. IsPrefix(a, f)
      BY <1>3, <3>1, <3>3, <3>4, <3>5, PrefixLinear
    <3>7. a \in DOMAIN fs /\ fs[a] = Dir
      BY <3>2, <3>6 DEF Rooted
    <3>8. a # p
      BY <1>3, <3>1
    <3> QED
      BY <1>1, <3>7, <3>8
  <2> QED
    BY <2>1, <2>2
<1>4. Rooted(g)
  BY <1>2, <1>3 DEF Rooted
<1> QED
  BY <1>4 DEF g

\* What is left when some of what is below p was deleted.
LEMMA RestrictRooted ==
    ASSUME Rooted(fs), NEW D, D \subseteq DOMAIN fs,
           \A q \in D : \A a \in DOMAIN fs : IsPrefix(a, q) => a \in D
    PROVE  Rooted([q \in D |-> fs[q]])
<1> DEFINE g == [q \in D |-> fs[q]]
<1>1. DOMAIN g = D /\ \A q \in D : g[q] = fs[q]
  OBVIOUS
<1> HIDE DEF g
<1>2. IsFiniteSet(D) /\ D \subseteq Paths
  BY FS_Subset DEF Rooted
<1>3. ASSUME NEW q \in D, NEW a \in Paths, IsPrefix(a, q), a # q
      PROVE  a \in D /\ g[a] = Dir
  BY <1>1, <1>3 DEF Rooted
<1>4. Rooted(g)
  BY <1>1, <1>2, <1>3 DEF Rooted
<1> QED
  BY <1>4 DEF g

LEMMA WithoutRooted ==
    ASSUME Rooted(fs), NEW p \in Paths
    PROVE  Rooted(Without(p))
<1> DEFINE D == DOMAIN fs \ Within(p)
<1>1. ASSUME NEW q \in D, NEW a \in DOMAIN fs, IsPrefix(a, q) PROVE a \in D
  <2>1. a \in Seq(Names) /\ q \in Seq(Names) /\ p \in Seq(Names) /\ ~IsPrefix(p, q)
    BY DEF Rooted, Paths, Within
  <2>2. ~IsPrefix(p, a)
    BY <1>1, <2>1, PrefixTransitive
  <2> QED
    BY <2>2 DEF Within
<1> HIDE DEF D
<1>2. D \subseteq DOMAIN fs
  BY DEF D
<1> QED
  BY <1>1, <1>2, RestrictRooted DEF Without, D

LEMMA RemainsRooted ==
    ASSUME Rooted(fs), NEW p \in Paths, NEW kept \in SUBSET Within(p),
           NEW remains, remains = (UNION {Ancestors(q) : q \in kept}) \cap DOMAIN fs
    PROVE  Rooted([q \in (DOMAIN fs \ Within(p)) \cup remains |-> fs[q]])
<1> DEFINE above == UNION {Ancestors(q) : q \in kept}
           D == (DOMAIN fs \ Within(p)) \cup remains
<1>0. \A a : a \in above <=> \E k \in kept : a \in Ancestors(k)
  OBVIOUS
<1>4. remains = above \cap DOMAIN fs
  OBVIOUS
<1> HIDE DEF above
<1>1. ASSUME NEW q \in D, NEW a \in DOMAIN fs, IsPrefix(a, q) PROVE a \in D
  <2>0. q \in Paths /\ a \in Paths /\ a \in Seq(Names) /\ q \in Seq(Names) /\ p \in Seq(Names)
    BY <1>4 DEF Rooted, Paths
  <2>1. CASE q \in remains
    <3>1. PICK k \in kept : q \in Ancestors(k)
      BY <1>0, <1>4, <2>1
    <3>2. k \in Paths /\ k \in Seq(Names)
      BY <3>1 DEF Within, Rooted, Paths
    <3>3. IsPrefix(q, k)
      BY <3>1, <3>2, AncestorsValue
    <3>4. IsPrefix(a, k)
      BY <1>1, <2>0, <3>2, <3>3, PrefixTransitive
    <3>5. a \in Ancestors(k)
      BY <2>0, <3>2, <3>4, AncestorsValue
    <3> QED
      BY <1>0, <1>4, <3>5
  <2>2. CASE q \in DOMAIN fs \ Within(p)
    <3>1. ~IsPrefix(p, q)
      BY <2>2 DEF Within
    <3>2. ~IsPrefix(p, a)
      BY <1>1, <2>0, <3>1, PrefixTransitive
    <3> QED
      BY <3>2 DEF Within
  <2> QED
    BY <2>1, <2>2
<1>2. D \subseteq DOMAIN fs
  BY <1>4
<1> HIDE DEF D
<1>3. Rooted([q \in D |-> fs[q]])
  BY <1>1, <1>2, RestrictRooted
<1> QED
  BY <1>3 DEF D

LEMMA MkpathRooted ==
    ASSUME Rooted(fs), NEW p \in Paths, CanMkpath(p)
    PROVE  Rooted(mkpath(p))
<1> DEFINE g == mkpath(p)
<1>1. /\ DOMAIN g = DOMAIN fs \cup Ancestors(p)
      /\ \A q \in DOMAIN g : g[q] = IF Exists(q) THEN fs[q] ELSE Dir
  BY DEF mkpath
<1> HIDE DEF g
<1>2. IsFiniteSet(DOMAIN g)
  <2>1. IsFiniteSet(DOMAIN fs) /\ IsFiniteSet(Ancestors(p))
    BY AncestorsFinite DEF Rooted
  <2>2. IsFiniteSet(DOMAIN fs \cup Ancestors(p))
    BY <2>1, FS_Union
  <2> QED
    BY <1>1, <2>2
<1>3. DOMAIN g \subseteq Paths
  BY <1>1, AncestorsValue DEF Rooted
<1>4. ASSUME NEW q \in DOMAIN g, NEW a \in Paths, IsPrefix(a, q), a # q
      PROVE  a \in DOMAIN g /\ g[a] = Dir
  <2>1. CASE q \in DOMAIN fs
    <3>1. a \in DOMAIN fs /\ fs[a] = Dir
      BY <1>4, <2>1 DEF Rooted
    <3> QED
      BY <1>1, <3>1 DEF Exists
  <2>2. CASE q \in Ancestors(p)
    <3>1. q \in Paths /\ IsPrefix(q, p)
      BY <2>2, AncestorsValue
    <3>2. IsPrefix(a, p)
      BY <1>4, <3>1, PrefixTransitive DEF Paths
    <3>3. a \in Ancestors(p)
      BY <3>2, AncestorsValue
    <3>4. Exists(a) => fs[a] = Dir
      BY <3>3 DEF CanMkpath, IsDir
    <3> QED
      BY <1>1, <3>3, <3>4
  <2> QED
    BY <1>1, <2>1, <2>2
<1>5. Rooted(g)
  BY <1>2, <1>3, <1>4 DEF Rooted
<1> QED
  BY <1>5 DEF g

\* Where a directory goes nothing is lost below it, and what was at the new
\* name is lost only when the name is another one.
LEMMA RenameFacts ==
    ASSUME Rooted(fs), NEW p \in DOMAIN fs, NEW q, Siblings(p, q), CanRename(p, q)
    PROVE  /\ Rooted(rename(p, q))
           /\ \A x \in DOMAIN fs : x # q \/ p = q =>
                 \E y \in DOMAIN rename(p, q) : rename(p, q)[y] = fs[x]
<1> DEFINE kept == DOMAIN fs \ (Within(p) \cup {q})
           new == {Moved(y, p, q) : y \in Within(p)}
           g == rename(p, q)
<1>1. /\ p \in Paths /\ q \in Paths /\ p \in Seq(Names) /\ q \in Seq(Names) /\ Len(p) = Len(q)
      /\ DOMAIN fs \subseteq Seq(Names)
  BY DEF Siblings, Paths, Rooted
<1>2. /\ DOMAIN g = kept \cup new
      /\ \A x \in DOMAIN g : g[x] = IF x \in kept THEN fs[x] ELSE fs[Moved(x, q, p)]
  BY DEF rename
<1> HIDE DEF g
<1>3. ASSUME NEW y \in Within(p)
      PROVE  /\ Moved(y, p, q) \in Paths /\ IsPrefix(q, Moved(y, p, q))
             /\ Moved(Moved(y, p, q), q, p) = y /\ Len(Moved(y, p, q)) = Len(y)
  <2>1. y \in Seq(Names) /\ IsPrefix(p, y) /\ y # << >>
    BY <1>1 DEF Within, Rooted, Paths
  <2>2. /\ Moved(y, p, q) \in Seq(Names)
        /\ Len(Moved(y, p, q)) = Len(q) + (Len(y) - Len(p)) /\ Len(p) <= Len(y)
    BY <1>1, <2>1, MovedValue DEF MoveOf
  <2>3. Len(Moved(y, p, q)) = Len(y) /\ Len(y) # 0
    BY <1>1, <2>1, <2>2
  <2>4. Moved(y, p, q) # << >>
    BY <2>2, <2>3
  <2> QED
    BY <1>1, <2>1, <2>2, <2>3, <2>4, MovedBack DEF Paths
<1>4. \* Nothing is in the way below the new name.
      ASSUME NEW x \in kept PROVE ~IsPrefix(q, x)
  <2> SUFFICES ASSUME IsPrefix(q, x) PROVE FALSE
    OBVIOUS
  <2>1. p # q
    <3>1. ~IsPrefix(p, x)
      BY DEF Within
    <3> QED
      BY <3>1
  <2>2. ~IsDir(q) \/ Children(q) = {}
    BY <2>1 DEF CanRename, IsDir, IsFile
  <2>3. x = q
    BY <1>1, <2>2, NothingBelow
  <2> QED
    BY <2>3
<1>5. ASSUME NEW y \in Within(p)
      PROVE  Moved(y, p, q) \in DOMAIN g /\ g[Moved(y, p, q)] = fs[y]
  <2>1. Moved(y, p, q) \in new /\ Moved(y, p, q) \notin kept
    BY <1>3, <1>4
  <2> QED
    BY <1>2, <1>3, <2>1
<1>6. ASSUME NEW x \in kept PROVE x \in DOMAIN g /\ g[x] = fs[x]
  BY <1>2
<1>7. IsFiniteSet(DOMAIN g)
  <2>1. IsFiniteSet(kept) /\ IsFiniteSet(Within(p))
    BY FS_Subset DEF Rooted, Within
  <2> DEFINE f == [y \in Within(p) |-> Moved(y, p, q)]
  <2>2. IsFiniteSet({f[y] : y \in Within(p)})
    BY <2>1, FiniteImage
  <2>3. {f[y] : y \in Within(p)} = new
    OBVIOUS
  <2> HIDE DEF f, new, kept
  <2>4. IsFiniteSet(new)
    BY <2>2, <2>3
  <2>5. IsFiniteSet(kept \cup new)
    BY <2>1, <2>4, FS_Union
  <2> QED
    BY <1>2, <2>5
<1>8. DOMAIN g \subseteq Paths
  BY <1>2, <1>3 DEF Rooted
<1>9. ASSUME NEW x \in DOMAIN g, NEW a \in Paths, IsPrefix(a, x), a # x
      PROVE  a \in DOMAIN g /\ g[a] = Dir
  <2>0. a \in Seq(Names) /\ x \in Seq(Names)
    BY <1>8 DEF Paths
  <2>1. CASE x \in kept
    <3>1. a \in DOMAIN fs /\ fs[a] = Dir
      BY <1>9, <2>1 DEF Rooted
    <3>2. ~IsPrefix(p, a)
      BY <1>1, <1>9, <2>0, <2>1, PrefixTransitive DEF Within
    <3>3. a # q
      BY <1>4, <1>9, <2>1
    <3>4. a \in kept
      BY <3>1, <3>2, <3>3 DEF Within
    <3> QED
      BY <1>6, <3>1, <3>4
  <2>2. CASE x \in new
    <3>1. PICK y \in Within(p) : x = Moved(y, p, q)
      BY <2>2
    <3>2. y \in DOMAIN fs /\ y \in Seq(Names) /\ IsPrefix(p, y) /\ IsPrefix(q, x) /\ Len(x) = Len(y)
      BY <1>1, <1>3, <3>1 DEF Within
    <3>3. CASE IsPrefix(q, a)
      <4> DEFINE b == Moved(a, q, p)
      <4>1. /\ b \in Seq(Names) /\ Len(b) = Len(p) + (Len(a) - Len(q))
            /\ IsPrefix(p, b) /\ Moved(b, p, q) = a
        <5>1. MoveOf(b, a, q, p) /\ IsPrefix(p, b) /\ Moved(b, p, q) = a
          BY <1>1, <2>0, <3>3, MovedValue, MovedBack
        <5> HIDE DEF b
        <5> QED
          BY <5>1 DEF MoveOf
      <4>2. IsPrefix(b, y)
        <5>1. IsPrefix(b, Moved(x, q, p))
          BY <1>1, <1>9, <2>0, <3>3, MovedAbove
        <5> QED
          BY <1>3, <3>1, <5>1
      <4> HIDE DEF b
      <4>3. b \in Paths /\ b # y
        <5>1. Len(b) = Len(a) /\ Len(a) # 0
          BY <1>1, <2>0, <4>1 DEF Paths
        <5>2. b # << >>
          BY <5>1, <4>1
        <5> QED
          BY <1>9, <3>1, <4>1, <5>2 DEF Paths
      <4>4. b \in DOMAIN fs /\ fs[b] = Dir
        BY <3>2, <4>2, <4>3 DEF Rooted
      <4>5. b \in Within(p)
        BY <4>1, <4>4 DEF Within
      <4> QED
        BY <1>5, <4>1, <4>4, <4>5
    <3>4. CASE ~IsPrefix(q, a)
      <4>1. IsPrefix(a, q) /\ a # q
        <5>1. ~(Len(q) <= Len(a))
          BY <1>1, <1>9, <2>0, <3>2, <3>4, PrefixLinear
        <5>2. Len(a) <= Len(q)
          BY <1>1, <2>0, <5>1
        <5> QED
          BY <1>1, <1>9, <2>0, <3>2, <5>1, <5>2, PrefixLinear
      <4>2. IsPrefix(a, p) /\ a # p
        BY <4>1, SiblingsShare
      <4>3. a \in DOMAIN fs /\ fs[a] = Dir
        BY <4>2 DEF Rooted
      <4>4. ~IsPrefix(p, a)
        <5>1. Len(p) <= Len(a) => a = p
          BY <1>1, <2>0, <4>2, PrefixValue, PrefixSame
        <5> QED
          BY <1>1, <2>0, <4>2, <5>1, PrefixValue
      <4>5. a \in kept
        BY <4>1, <4>3, <4>4 DEF Within
      <4> QED
        BY <1>6, <4>3, <4>5
    <3> QED
      BY <3>3, <3>4
  <2> QED
    BY <1>2, <2>1, <2>2
<1>10. Rooted(g)
  BY <1>7, <1>8, <1>9 DEF Rooted
<1>11. ASSUME NEW x \in DOMAIN fs, x # q \/ p = q
       PROVE  \E y \in DOMAIN g : g[y] = fs[x]
  <2>1. CASE x \in Within(p)
    BY <1>5, <2>1
  <2>2. CASE x \notin Within(p)
    <3>1. x # q
      BY <1>1, <1>11, <2>2, PrefixReflexive DEF Within
    <3> QED
      BY <1>6, <2>2, <3>1
  <2> QED
    BY <2>1, <2>2
<1> QED
  BY <1>10, <1>11 DEF g

\* The loop over name0, name1, ... ends, with a name beside p that is free.
LEMMA FreeNameIsFree ==
    ASSUME Rooted(fs), NEW p \in Paths
    PROVE  Siblings(p, FreeName(p)) /\ FreeName(p) \notin DOMAIN fs
<1> DEFINE name(k) == <<Last(p)[1], Append(Last(p)[2], k)>>
           candidate(k) == Append(Front(p), name(k))
           n == Cardinality(DOMAIN fs)
           first == CHOOSE k \in 0 .. n :
                       /\ ~Exists(candidate(k))
                       /\ \A j \in 0 .. k - 1 : Exists(candidate(j))
<1>0. n \in Nat /\ IsFiniteSet(DOMAIN fs)
  BY FS_CardinalityType DEF Rooted
<1>1. ASSUME NEW k \in Nat
      PROVE  name(k) \in Names /\ Siblings(p, candidate(k)) /\ candidate(k)[Len(p)] = name(k)
  <2>1. p \in Seq(Names) /\ Len(p) \in Nat \ {0}
    BY DEF Paths
  <2>2. Last(p) \in Names
    BY <2>1 DEF Last
  <2>3. Last(p)[1] \in Bases /\ Last(p)[2] \in Seq(Nat)
    BY <2>2 DEF Names
  <2>4. name(k) \in Names
    <3>1. Append(Last(p)[2], k) \in Seq(Nat)
      BY <2>3, AppendProperties
    <3> QED
      BY <2>3, <3>1 DEF Names
  <2> HIDE DEF name
  <2>5. Siblings(p, candidate(k))
    BY <2>4, BesideIsSibling
  <2>6. Front(p) \in Seq(Names) /\ Len(Front(p)) = Len(p) - 1
    <3>1. Len(p) - 1 \in 0 .. Len(p)
      BY <2>1
    <3> QED
      BY <2>1, <3>1, PrefixOfLength DEF Front
  <2>7. candidate(k)[Len(p)] = name(k)
    BY <2>1, <2>4, <2>6
  <2> QED
    BY <2>4, <2>5, <2>7
<1>2. ASSUME NEW j \in Nat, NEW k \in Nat, candidate(j) = candidate(k) PROVE j = k
  <2>1. name(j) = name(k)
    BY <1>1, <1>2
  <2>2. Last(p)[2] \in Seq(Nat)
    <3>1. p \in Seq(Names) /\ Len(p) \in Nat \ {0}
      BY DEF Paths
    <3>2. Last(p) \in Names
      BY <3>1 DEF Last
    <3> QED
      BY <3>2 DEF Names
  <2>3. Append(Last(p)[2], j) = Append(Last(p)[2], k)
    BY <2>1
  <2> QED
    BY <2>2, <2>3, AppendInjective
<1> HIDE DEF name
<1>3. \E k \in 0 .. n : ~Exists(candidate(k))
  <2> SUFFICES ASSUME \A k \in 0 .. n : Exists(candidate(k)) PROVE FALSE
    OBVIOUS
  <2> DEFINE f == [k \in 0 .. n |-> candidate(k)]
  <2>1. f \in [0 .. n -> DOMAIN fs]
    BY DEF Exists
  <2>2. IsFiniteSet(0 .. n) /\ Cardinality(0 .. n) = n + 1
    BY <1>0, FS_Interval
  <2>3. \E j, k \in 0 .. n : j # k /\ f[j] = f[k]
    <3> HIDE DEF f
    <3> QED
      BY <1>0, <2>1, <2>2, FS_PigeonHole
  <2> QED
    BY <1>2, <2>3
<1> HIDE DEF candidate
<1>4. \E k \in 0 .. n : ~Exists(candidate(k)) /\ \A j \in 0 .. k - 1 : Exists(candidate(j))
  <2> DEFINE F == {k \in 0 .. n : ~Exists(candidate(k))}
  <2>1. F # {} /\ F \in SUBSET Nat
    BY <1>0, <1>3
  <2>2. PICK k \in F : \A j \in F : ~(<<j, k>> \in OpToRel(<, Nat))
    BY <2>1, NatLessThanWellFounded, WFMin, Zenon
  <2>3. \A j \in F : ~(j < k)
    BY <2>1, <2>2, Zenon DEF OpToRel
  <2>4. \A j \in 0 .. k - 1 : Exists(candidate(j))
    BY <1>0, <2>3
  <2> QED
    BY <2>4
<1>5. first \in 0 .. n /\ ~Exists(candidate(first))
  BY <1>4
<1> HIDE DEF first
<1>6. FreeName(p) = candidate(first)
  BY DEF FreeName, candidate, name, first, n
<1> QED
  BY <1>0, <1>1, <1>5, <1>6 DEF Exists

-----------------------------------------------------------------------------
(***************************************************************************)
(* The invariant: what is on the stack and in the file system while a pair *)
(* is worked on, and what the user has allowed by the time it is done.     *)
(***************************************************************************)
Pairs == Paths \X Paths

\* The conflict in hand is still there when its decision is applied, and the
\* copy in progress writes to the file it has made.
WorkInv ==
    /\ Rooted(fs)
    /\ S \in Seq(Pairs)
    /\ pc \notin {"totals", "next", "returned", "closed", "done"} => pair \in Pairs
    /\ pc \in {"ask", "wait", "handle"} => Exists(src) /\ Exists(dest)
    /\ pc = "copying" => Exists(dest) /\ fs[dest] = Partial

\* A permanent decision was given for its own type of conflict, and the one
\* decision at hand for the pair at hand.
GrantInv ==
    /\ conflict \in {"file", "dir"}
    /\ permanentDecs \in [{"file", "dir"} -> ForAll \cup {NO_PREV_DEC}]
    /\ \A type \in {"file", "dir"} :
          permanentDecs[type] = "overwrite_all" => left \/ <<"all", type>> \in granted
    /\ pc = "handle" /\ ~left =>
          /\ dec = "overwrite" => <<"path", dest>> \in granted
          /\ dec = "overwrite_all" => <<"all", conflict>> \in granted
          /\ dec = "ren_src" \/ dec = "ren_dest" => newname \in NewNames

LEMMA InitWork == Init => WorkInv
<1> SUFFICES ASSUME Init PROVE WorkInv
  OBVIOUS
<1>1. fs = InitialFs /\ S = Reverse(CopyList) /\ pc = "totals"
  BY DEF Init
<1>2. Reverse(CopyList) \in Seq(Pairs)
  <2>1. CopyList \in Seq(Pairs)
    BY RequestAssumption DEF Pairs
  <2>2. \A i \in 1 .. Len(CopyList) : CopyList[(Len(CopyList) - i) + 1] \in Pairs
    BY <2>1
  <2> QED
    BY <2>1, <2>2 DEF Reverse
<1>3. Rooted(fs)
  BY <1>1, InitRooted
<1> QED
  BY <1>1, <1>2, <1>3 DEF WorkInv

LEMMA InitGrant == Init => GrantInv
BY DEF Init, GrantInv, ForAll, NO_PREV_DEC

\* A directory is listed without a child left out or named twice.
LEMMA ListedOnce ==
    ASSUME Rooted(fs), NEW p \in Paths, NEW order \in SetToSeqs(Children(p))
    PROVE  /\ order \in Seq(Children(p))
           /\ \A i, j \in DOMAIN order : i # j => order[i] # order[j]
           /\ \A c \in Children(p) : \E i \in DOMAIN order : order[i] = c
<1> DEFINE n == Cardinality(Children(p))
<1>1. IsFiniteSet(Children(p)) /\ n \in Nat
  <2>1. IsFiniteSet(Children(p))
    BY FS_Subset DEF Rooted, Children, Within
  <2> QED
    BY <2>1, FS_CardinalityType
<1>2. order \in [1 .. n -> Children(p)] /\ \A i, j \in 1 .. n : i # j => order[i] # order[j]
  BY DEF SetToSeqs
<1>3. IsFiniteSet(1 .. n) /\ Cardinality(1 .. n) = n
  BY <1>1, FS_Interval
<1>4. order \in Injection(1 .. n, Children(p))
  BY <1>2 DEF Injection, IsInjective
<1>5. order \in Surjection(1 .. n, Children(p))
  BY <1>1, <1>3, <1>4, FS_Injection
<1> HIDE DEF n
<1>6. \A c \in Children(p) : \E i \in 1 .. n : order[i] = c
  BY <1>5 DEF Surjection
<1>7. DOMAIN order = 1 .. n /\ order \in Seq(Children(p))
  BY <1>1, <1>2
<1> QED
  BY <1>2, <1>6, <1>7

\* The children of a directory are pushed with their places below the destination.
LEMMA PushedValue ==
    ASSUME Rooted(fs), pair \in Pairs, NEW order \in SetToSeqs(Children(src)), NEW U,
           U = [i \in 1 .. Len(order) |-> <<order[i], Moved(order[i], src, dest)>>]
    PROVE  /\ U \in Seq(Pairs) /\ DOMAIN U = DOMAIN order
           /\ \A i \in DOMAIN order :
                 /\ U[i][1] = order[i] /\ order[i] \in Children(src) /\ IsPrefix(dest, U[i][2])
<1>0. src \in Paths /\ dest \in Paths /\ src \in Seq(Names) /\ dest \in Seq(Names)
  BY DEF Pairs, src, dest, Paths
<1>1. order \in Seq(Children(src)) /\ DOMAIN order = 1 .. Len(order) /\ Len(order) \in Nat
  BY <1>0, ListedOnce
<1>2. ASSUME NEW i \in 1 .. Len(order)
      PROVE  /\ order[i] \in Children(src) /\ order[i] \in Paths
             /\ Moved(order[i], src, dest) \in Paths /\ IsPrefix(dest, Moved(order[i], src, dest))
  <2>1. order[i] \in Children(src)
    BY <1>1
  <2>2. order[i] \in Paths /\ order[i] \in Seq(Names) /\ IsPrefix(src, order[i])
    BY <2>1 DEF Children, Within, Rooted, Paths
  <2> DEFINE m == Moved(order[i], src, dest)
  <2>3. /\ m \in Seq(Names) /\ Len(m) = Len(dest) + (Len(order[i]) - Len(src))
        /\ Len(src) <= Len(order[i]) /\ \A k \in 1 .. Len(dest) : m[k] = dest[k]
    <3>1. MoveOf(m, order[i], src, dest)
      BY <1>0, <2>2, MovedValue
    <3> HIDE DEF m
    <3> QED
      BY <3>1 DEF MoveOf
  <2> HIDE DEF m
  <2>4. Len(dest) \in Nat \ {0} /\ Len(dest) <= Len(m)
    BY <1>0, <2>2, <2>3 DEF Paths
  <2>5. IsPrefix(dest, m)
    BY <1>0, <2>3, <2>4, PrefixValue
  <2>6. m # << >>
    <3>1. Len(m) # 0
      BY <2>3, <2>4
    <3> QED
      BY <3>1
  <2> QED
    BY <2>1, <2>2, <2>3, <2>5, <2>6 DEF m, Paths
<1>3. \A i \in 1 .. Len(order) : U[i] = <<order[i], Moved(order[i], src, dest)>>
  OBVIOUS
<1>4. DOMAIN U = 1 .. Len(order)
  OBVIOUS
<1>5. U \in Seq(Pairs)
  BY <1>1, <1>2 DEF Pairs
<1> QED
  BY <1>1, <1>2, <1>3, <1>4, <1>5

LEMMA PushedPairs ==
    ASSUME Rooted(fs), S \in Seq(Pairs), pair \in Pairs, PushChildren
    PROVE  S' \in Seq(Pairs)
<1>0. SUFFICES ASSUME PushListed PROVE S' \in Seq(Pairs)
  BY DEF PushChildren, DropPair
<1>1. PICK order \in SetToSeqs(Children(src)) :
         S' = [i \in 1 .. Len(order) |-> <<order[i], Moved(order[i], src, dest)>>] \o S
  BY <1>0 DEF PushListed
<1> DEFINE U == [i \in 1 .. Len(order) |-> <<order[i], Moved(order[i], src, dest)>>]
<1>2. U \in Seq(Pairs)
  BY PushedValue
<1> HIDE DEF U
<1>3. S' = U \o S
  BY <1>1 DEF U
<1> QED
  BY <1>2, <1>3

\* What the actions that leave the file system alone preserve.
LEMMA QuietWork ==
    ASSUME WorkInv, fs' = fs, S' \in Seq(Pairs), pc' # "copying",
           \/ pc' \in {"totals", "next", "returned", "closed", "done"}
           \/ pair' \in Pairs /\ pc' \notin {"ask", "wait", "handle"}
           \/ pair' = pair /\ pc \in {"ask", "wait", "handle"}
    PROVE  WorkInv'
<1>1. pair' \in Pairs \/ pc' \in {"totals", "next", "returned", "closed", "done"}
  BY DEF WorkInv
<1>2. Rooted(fs')
  BY DEF WorkInv
<1>3. pc' \in {"ask", "wait", "handle"} => pair' = pair /\ Exists(src) /\ Exists(dest)
  BY DEF WorkInv
<1>4. pc' \in {"ask", "wait", "handle"} => Exists(src)' /\ Exists(dest)'
  BY <1>3 DEF Exists, src, dest
<1> QED
  BY <1>1, <1>2, <1>4 DEF WorkInv

\* What the actions that change the file system and leave no conflict preserve.
LEMMA ChangedWork ==
    ASSUME Rooted(fs'), S' \in Seq(Pairs),
           \/ pc' \in {"totals", "next", "returned", "closed", "done"}
           \/ pair' \in Pairs /\ pc' = "error"
    PROVE  WorkInv'
BY DEF WorkInv

LEMMA CopyStartWork ==
    ASSUME WorkInv, CopyStart
    PROVE  WorkInv'
<1>0. /\ pair \in Pairs /\ S \in Seq(Pairs) /\ Rooted(fs) /\ pair' = pair /\ S' = S
      /\ ~Exists(dest)
  BY DEF WorkInv, CopyStart
<1>1. dest \in Paths /\ dest' = dest
  BY <1>0 DEF Pairs, dest
<1>2. CASE fs' = WithFile(dest, Partial) /\ IsDir(Front(dest)) /\ Sent("copying")
  <2>1. Rooted(fs')
    <3>1. Partial # Dir
      BY DEF Partial, Dir
    <3> QED
      BY <1>0, <1>1, <1>2, <3>1, WithFileRooted
  <2>2. dest' \in DOMAIN fs' /\ fs'[dest'] = Partial
    BY <1>1, <1>2 DEF WithFile
  <2>3. pc' \in {"closed", "copying"}
    BY <1>2 DEF Sent
  <2> QED
    BY <1>0, <2>1, <2>2, <2>3 DEF WorkInv, Exists
<1>3. CASE Go("error") /\ UNCHANGED fs
  BY <1>0, <1>3, ChangedWork DEF Go
<1> QED
  BY <1>2, <1>3 DEF CopyStart

LEMMA CopyEndWork ==
    ASSUME WorkInv, CopyEnd
    PROVE  WorkInv'
<1>0. /\ pair \in Pairs /\ S \in Seq(Pairs) /\ Rooted(fs) /\ S' = S
      /\ Exists(dest) /\ fs[dest] = Partial
  BY DEF WorkInv, CopyEnd
<1>1. pc' \in {"closed", "next"}
  BY DEF CopyEnd, Sent
<1>2. fs' = fs \/ fs' = WithFile(dest, <<"copy", src>>)
  BY DEF CopyEnd
<1>3. Rooted(fs')
  <2>1. dest \in Paths
    BY <1>0 DEF Pairs, dest
  <2>2. IsFile(dest) /\ <<"copy", src>> # Dir
    BY <1>0 DEF IsFile, Partial, Dir
  <2> QED
    BY <1>0, <1>2, <2>1, <2>2, WithFileRooted
<1> QED
  BY <1>0, <1>1, <1>3, ChangedWork

LEMMA MakeDirWork ==
    ASSUME WorkInv, MakeDir
    PROVE  WorkInv'
<1>0. /\ pair \in Pairs /\ S \in Seq(Pairs) /\ Rooted(fs) /\ pair' = pair
  BY DEF WorkInv, MakeDir
<1>1. dest \in Paths
  BY <1>0 DEF Pairs, dest
<1>2. CASE CanMkpath(dest) /\ fs' = mkpath(dest) /\ PushChildren /\ Go("next")
  BY <1>0, <1>1, <1>2, MkpathRooted, PushedPairs, ChangedWork DEF Go
<1>3. CASE /\ Go("error") /\ UNCHANGED <<S, told>>
           /\ \E made \in {q \in Ancestors(dest) \ {dest} : CanMkpath(q)} : fs' = mkpath(made)
  <2>1. PICK made \in {q \in Ancestors(dest) \ {dest} : CanMkpath(q)} : fs' = mkpath(made)
    BY <1>3
  <2>2. made \in Paths
    BY <1>1, <2>1, AncestorsValue
  <2>3. Rooted(fs')
    BY <1>0, <2>1, <2>2, MkpathRooted
  <2> QED
    BY <1>0, <1>3, <2>3, ChangedWork DEF Go
<1> QED
  BY <1>2, <1>3 DEF MakeDir

LEMMA OverwriteWork ==
    ASSUME WorkInv, Overwrite
    PROVE  WorkInv'
<1>0. /\ pair \in Pairs /\ S \in Seq(Pairs) /\ Rooted(fs) /\ pair' = pair
  BY DEF WorkInv, Overwrite, Handling, HandleUnchanged
<1>1. dest \in Paths
  BY <1>0 DEF Pairs, dest
<1>2. CASE fs' = Without(dest) /\ S' = <<pair>> \o S /\ Go("next")
  <2>1. S' \in Seq(Pairs)
    BY <1>0, <1>2
  <2> QED
    BY <1>0, <1>1, <1>2, <2>1, WithoutRooted, ChangedWork DEF Go
<1>3. ASSUME Go("error"), UNCHANGED S, NEW kept \in SUBSET Within(dest), NEW remains,
             remains = (UNION {Ancestors(q) : q \in kept}) \cap DOMAIN fs,
             fs' = [q \in (DOMAIN fs \ Within(dest)) \cup remains |-> fs[q]]
      PROVE  WorkInv'
  <2>1. Rooted(fs')
    BY <1>0, <1>1, <1>3, RemainsRooted
  <2> QED
    BY <1>0, <1>3, <2>1, ChangedWork DEF Go
<1>4. CASE /\ Go("error") /\ UNCHANGED S
           /\ \E kept \in SUBSET Within(dest) \ {{}} :
                LET remains == (UNION {Ancestors(q) : q \in kept}) \cap DOMAIN fs
                IN  fs' = [q \in (DOMAIN fs \ Within(dest)) \cup remains |-> fs[q]]
  BY <1>3, <1>4
<1> QED
  BY <1>2, <1>4 DEF Overwrite

\* A destination renamed to a name beside it.
LEMMA RenameDestWork ==
    ASSUME WorkInv, pc = "handle", NEW new, Siblings(dest, new), RenameDestTo(new), pair' = pair
    PROVE  WorkInv'
<1>0. /\ pair \in Pairs /\ S \in Seq(Pairs) /\ Rooted(fs) /\ Exists(dest)
  BY DEF WorkInv
<1>1. CASE CanRename(dest, new) /\ fs' = rename(dest, new) /\ S' = <<pair>> \o S /\ Go("next")
  <2>1. S' \in Seq(Pairs)
    BY <1>0, <1>1
  <2>2. Rooted(fs')
    BY <1>0, <1>1, RenameFacts DEF Exists
  <2> QED
    BY <1>1, <2>1, <2>2, ChangedWork DEF Go
<1>2. CASE Go("error") /\ UNCHANGED <<fs, S>>
  BY <1>0, <1>2, ChangedWork DEF Go
<1> QED
  BY <1>1, <1>2 DEF RenameDestTo

\* The two names a rename can choose.
LEMMA RenameTargets ==
    ASSUME WorkInv, GrantInv, pc = "handle"
    PROVE  /\ Siblings(dest, FreeName(dest)) /\ FreeName(dest) \notin DOMAIN fs
           /\ (dec = "ren_dest" \/ dec = "ren_src") /\ ~left =>
                 Siblings(dest, Append(Front(dest), newname))
<1>1. dest \in Paths /\ Rooted(fs)
  BY DEF WorkInv, Pairs, dest
<1>2. (dec = "ren_dest" \/ dec = "ren_src") /\ ~left => newname \in Names
  BY RequestAssumption DEF GrantInv
<1> QED
  BY <1>1, <1>2, FreeNameIsFree, BesideIsSibling

LEMMA HandleWork ==
    ASSUME WorkInv, GrantInv, HandleConflict
    PROVE  WorkInv'
<1>0. /\ pair \in Pairs /\ S \in Seq(Pairs) /\ Rooted(fs) /\ pc = "handle" /\ pair' = pair
  BY DEF WorkInv, HandleConflict, Skip, Overwrite, RenameDestAll, RenameDest, RenameSrcAll,
         RenameSrc, Merge, Cancel, Unknown, Handling, HandleUnchanged
<1>1. src \in Paths /\ dest \in Paths
  BY <1>0 DEF Pairs, src, dest
<1>2. CASE Skip \/ Cancel \/ Unknown
  BY <1>0, <1>2, QuietWork DEF Skip, Cancel, Unknown, DropPair, Sent, Go
<1>3. CASE Overwrite
  BY <1>3, OverwriteWork
<1>4. CASE RenameDestAll
  BY <1>0, <1>4, RenameTargets, RenameDestWork DEF RenameDestAll
<1>5. CASE RenameDest
  <2>1. CASE left
    BY <1>0, <1>5, <2>1, QuietWork DEF RenameDest, Go
  <2>2. CASE ~left
    BY <1>0, <1>5, <2>2, RenameTargets, RenameDestWork DEF RenameDest, Handling
  <2> QED
    BY <2>1, <2>2
<1>6. ASSUME NEW new, Siblings(dest, new), S' = <<<<src, new>>>> \o S, fs' = fs, Go("next")
      PROVE  WorkInv'
  <2>1. <<src, new>> \in Pairs
    BY <1>1, <1>6 DEF Siblings, Pairs
  <2>2. S' \in Seq(Pairs)
    BY <1>0, <1>6, <2>1
  <2> QED
    BY <1>6, <2>2, QuietWork DEF Go
<1>7. CASE RenameSrcAll
  BY <1>0, <1>6, <1>7, RenameTargets DEF RenameSrcAll
<1>8. CASE RenameSrc
  <2>1. CASE left
    BY <1>0, <1>8, <2>1, QuietWork DEF RenameSrc, Go
  <2>2. CASE ~left
    BY <1>0, <1>6, <1>8, <2>2, RenameTargets DEF RenameSrc, Handling
  <2> QED
    BY <2>1, <2>2
<1>9. CASE Merge
  BY <1>0, <1>9, PushedPairs, QuietWork DEF Merge, Go
<1> QED
  BY <1>2, <1>3, <1>4, <1>5, <1>7, <1>8, <1>9 DEF HandleConflict

LEMMA NextWork ==
    ASSUME WorkInv, GrantInv, [Next]_fcVars
    PROVE  WorkInv'
<1>0. S \in Seq(Pairs) /\ Rooted(fs)
  BY DEF WorkInv
<1>1. CASE Totals \/ SourceMissing \/ Finish
  BY <1>0, <1>1, QuietWork DEF Totals, SourceMissing, Finish, Sent, Go
<1>2. CASE Pop
  <2>1. Head(S) \in Pairs /\ Tail(S) \in Seq(Pairs)
    BY <1>0, <1>2 DEF Pop
  <2> QED
    BY <1>2, <2>1, QuietWork DEF Pop, Go
<1>3. CASE Conflict
  <2>1. /\ pc = "item" /\ Exists(src) /\ Exists(dest) /\ pc' \in {"ask", "handle"}
        /\ UNCHANGED <<fs, S, pair>>
    BY <1>3 DEF Conflict, Go
  <2>2. Exists(src)' /\ Exists(dest)' /\ Rooted(fs')
    BY <1>0, <2>1 DEF Exists, src, dest
  <2> QED
    BY <2>1, <2>2 DEF WorkInv
<1>4. CASE CopyStart
  BY <1>4, CopyStartWork
<1>5. CASE CopyEnd
  BY <1>5, CopyEndWork
<1>6. CASE MakeDir
  BY <1>6, MakeDirWork
<1>7. CASE Ask
  <2>1. /\ UNCHANGED <<fs, S, pair>>
        /\ \/ pc = "ask" /\ pc' \in {"wait", "closed"}
           \/ pc = "error" /\ pc' \in {"errwait", "closed"}
    BY <1>7 DEF Ask, Sent
  <2>2. pc = "error" => pair' \in Pairs
    BY <2>1 DEF WorkInv
  <2> QED
    BY <1>0, <2>1, <2>2, QuietWork
<1>8. CASE Answer \/ AnswerUnset
  BY <1>0, <1>8, QuietWork DEF Answer, AnswerUnset, Go
<1>9. CASE ErrorAnswer
  BY <1>0, <1>9, QuietWork DEF ErrorAnswer, Go
<1>10. CASE HandleConflict
  BY <1>10, HandleWork
<1>11. CASE ClientLeaves \/ UNCHANGED fcVars
  <2>1. UNCHANGED <<fs, S, pair, pc>>
    BY <1>11 DEF ClientLeaves, local, fcVars
  <2> QED
    BY <2>1 DEF WorkInv, Rooted, Exists, src, dest
<1>12. CASE SourceVanishes
  <2>1. PICK i \in DOMAIN CopyList : fs' = Without(CopyList[i][1])
    BY <1>12 DEF SourceVanishes
  <2>2. CopyList[i][1] \in Paths
    BY RequestAssumption
  <2>3. Rooted(fs')
    BY <1>0, <2>1, <2>2, WithoutRooted
  <2>4. pc' = "next" /\ S' = S
    BY <1>12 DEF SourceVanishes, local
  <2> QED
    BY <1>0, <2>3, <2>4, ChangedWork
<1> QED
  BY <1>1, <1>2, <1>3, <1>4, <1>5, <1>6, <1>7, <1>8, <1>9, <1>10, <1>11, <1>12
  DEF Next, CopierStep, ClientAnswers

\* A remembered decision is remembered for the conflict it answered.
LEMMA RememberGrant ==
    ASSUME GrantInv, pc = "handle", Remember, UNCHANGED <<conflict, granted, left>>, pc' # "handle"
    PROVE  GrantInv'
<1>1. conflict \in {"file", "dir"} /\ permanentDecs \in [{"file", "dir"} -> ForAll \cup {NO_PREV_DEC}]
  BY DEF GrantInv
<1>2. CASE dec \in ForAll
  <2>1. permanentDecs' = [permanentDecs EXCEPT ![conflict] = dec]
    BY <1>2 DEF Remember
  <2>2. permanentDecs' \in [{"file", "dir"} -> ForAll \cup {NO_PREV_DEC}]
    BY <1>1, <1>2, <2>1
  <2>3. ASSUME NEW type \in {"file", "dir"}, permanentDecs'[type] = "overwrite_all"
        PROVE  left' \/ <<"all", type>> \in granted'
    <3>1. CASE type = conflict
      <4>1. dec = "overwrite_all"
        BY <1>1, <2>1, <2>3, <3>1
      <4> QED
        BY <3>1, <4>1 DEF GrantInv
    <3>2. CASE type # conflict
      <4>1. permanentDecs[type] = "overwrite_all"
        BY <1>1, <2>1, <2>3, <3>2
      <4> QED
        BY <4>1 DEF GrantInv
    <3> QED
      BY <3>1, <3>2
  <2> QED
    BY <1>1, <2>2, <2>3 DEF GrantInv
<1>3. CASE dec \notin ForAll
  <2>1. permanentDecs' = permanentDecs
    BY <1>3 DEF Remember
  <2> QED
    BY <1>1, <2>1 DEF GrantInv
<1> QED
  BY <1>2, <1>3

\* What a decision allows is on record when it is applied.
LEMMA AnswerGrant ==
    ASSUME GrantInv, Answer
    PROVE  GrantInv'
<1>1. /\ permanentDecs' = permanentDecs /\ conflict' = conflict /\ left' = left
      /\ dest' = dest /\ ~left
  BY DEF Answer, dest
<1>2. PICK d \in Decisions : dec' = d /\ Grant(d)
  BY DEF Answer
<1>3. granted \subseteq granted'
  BY <1>2 DEF Grant
<1>4. dec' = "overwrite" => <<"path", dest>> \in granted'
  BY <1>2 DEF Grant
<1>5. dec' = "overwrite_all" => <<"all", conflict>> \in granted'
  BY <1>2 DEF Grant
<1>6. dec' = "ren_src" \/ dec' = "ren_dest" => newname' \in NewNames
  BY DEF Answer
<1> QED
  BY <1>1, <1>3, <1>4, <1>5, <1>6 DEF GrantInv

LEMMA NextGrant ==
    ASSUME GrantInv, [Next]_fcVars
    PROVE  GrantInv'
<1>1. CASE Conflict
  <2>1. /\ conflict' = TypeOfSource /\ dec' = permanentDecs[TypeOfSource]
        /\ UNCHANGED <<permanentDecs, left, granted>>
        /\ TypeOfSource \in {"file", "dir"}
    BY <1>1 DEF Conflict, TypeOfSource
  <2>2. dec' \in ForAll \cup {NO_PREV_DEC}
    BY <2>1 DEF GrantInv
  <2>3. dec' # "overwrite" /\ dec' # "ren_src" /\ dec' # "ren_dest"
    BY <2>2 DEF ForAll, NO_PREV_DEC
  <2>4. dec' = "overwrite_all" => left' \/ <<"all", conflict'>> \in granted'
    BY <2>1 DEF GrantInv
  <2> QED
    BY <2>1, <2>3, <2>4 DEF GrantInv
<1>2. CASE Answer
  BY <1>2, AnswerGrant
<1>3. CASE HandleConflict
  <2>1. /\ pc = "handle" /\ Remember /\ UNCHANGED <<conflict, granted, left>>
    BY <1>3 DEF HandleConflict, Skip, Overwrite, RenameDestAll, RenameDest, RenameSrcAll,
       RenameSrc, Merge, Cancel, Unknown, Handling, HandleUnchanged
  <2>2. pc' # "handle"
    BY <1>3 DEF HandleConflict, Skip, Overwrite, RenameDestAll, RenameDest, RenameSrcAll,
       RenameSrc, Merge, Cancel, Unknown, RenameDestTo, Sent, Go
  <2> QED
    BY <2>1, <2>2, RememberGrant
<1>4. CASE AnswerUnset
  BY <1>4 DEF AnswerUnset, GrantInv
<1>5. CASE Totals \/ Pop \/ SourceMissing \/ Finish \/ CopyStart \/ CopyEnd \/ MakeDir \/ Ask
           \/ ErrorAnswer
  <2>1. UNCHANGED <<permanentDecs, conflict, granted, left>>
    BY <1>5 DEF Totals, Pop, SourceMissing, Finish, CopyStart, CopyEnd, MakeDir, Ask, ErrorAnswer
  <2>2. pc' # "handle"
    BY <1>5 DEF Totals, Pop, SourceMissing, Finish, CopyStart, CopyEnd, MakeDir, Ask, ErrorAnswer,
       Sent, Go
  <2> QED
    BY <2>1, <2>2 DEF GrantInv
<1>6. CASE ClientLeaves \/ SourceVanishes \/ UNCHANGED fcVars
  <2>1. /\ UNCHANGED <<permanentDecs, conflict, granted, pc, dec, newname, pair>>
        /\ left => left'
    BY <1>6 DEF ClientLeaves, SourceVanishes, fcVars, local
  <2> QED
    BY <2>1 DEF GrantInv, dest
<1> QED
  BY <1>1, <1>2, <1>3, <1>4, <1>5, <1>6 DEF Next, CopierStep, ClientAnswers

-----------------------------------------------------------------------------
(***************************************************************************)
(* What a step may do to the contents of files.                            *)
(***************************************************************************)

\* Whatever keeps every finished content somewhere loses none.
Keeps == \A p \in DOMAIN fs : fs[p] # Partial => \E q \in DOMAIN fs' : fs'[q] = fs[p]

\* The permission the property asks for.
Allowed(p) ==
    \/ <<"all", conflict>> \in granted
    \/ \E q \in Ancestors(p) : <<"path", q>> \in granted
    \/ dec = "ren_dest" /\ p = Append(Front(dest), newname)

\* Only the handling of a conflict, or another program, loses anything.
LEMMA OutsideConflictsKeeps ==
    ASSUME WorkInv, [Next]_fcVars, ~HandleConflict, ~SourceVanishes
    PROVE  Keeps
<1>1. CASE fs' = fs
  BY <1>1 DEF Keeps
<1>2. CASE CopyStart /\ fs' = WithFile(dest, Partial)
  <2>1. dest \notin DOMAIN fs
    BY <1>2 DEF CopyStart, Exists
  <2>2. \A p \in DOMAIN fs : p \in DOMAIN fs' /\ fs'[p] = fs[p]
    BY <1>2, <2>1 DEF WithFile
  <2> QED
    BY <2>2 DEF Keeps
<1>3. CASE CopyEnd /\ fs' = WithFile(dest, <<"copy", src>>)
  <2>1. fs[dest] = Partial
    BY <1>3 DEF CopyEnd, WorkInv
  <2>2. \A p \in DOMAIN fs : p # dest => p \in DOMAIN fs' /\ fs'[p] = fs[p]
    BY <1>3 DEF WithFile
  <2> QED
    BY <2>1, <2>2 DEF Keeps
<1>4. CASE \E made : fs' = mkpath(made)
  <2>1. PICK made : fs' = mkpath(made)
    BY <1>4
  <2>2. \A p \in DOMAIN fs : p \in DOMAIN fs' /\ fs'[p] = fs[p]
    BY <2>1 DEF mkpath, Exists
  <2> QED
    BY <2>2 DEF Keeps
<1>5. \/ fs' = fs
      \/ CopyStart /\ fs' = WithFile(dest, Partial)
      \/ CopyEnd /\ fs' = WithFile(dest, <<"copy", src>>)
      \/ \E made : fs' = mkpath(made)
  <2>1. CASE CopyStart
    BY <2>1 DEF CopyStart
  <2>2. CASE CopyEnd
    BY <2>2 DEF CopyEnd
  <2>3. CASE MakeDir
    BY <2>3 DEF MakeDir
  <2>4. CASE ~CopyStart /\ ~CopyEnd /\ ~MakeDir
    BY <2>4 DEF Next, CopierStep, ClientAnswers, Totals, Pop, SourceMissing, Finish, Conflict, Ask,
       Answer, AnswerUnset, ErrorAnswer, ClientLeaves, fcVars
  <2> QED
    BY <2>1, <2>2, <2>3, <2>4
<1> QED
  BY <1>1, <1>2, <1>3, <1>4, <1>5

\* A deletion removes nothing but what is at the destination or below it.
LEMMA OverwriteAllowed ==
    ASSUME WorkInv, GrantInv, Overwrite, ~left, NEW p \in DOMAIN fs, Lost(p)
    PROVE  Allowed(p)
<1>0. /\ Rooted(fs) /\ pc = "handle" /\ dest \in Paths /\ p \in Paths
      /\ dec \in {"overwrite", "overwrite_all"}
  BY DEF WorkInv, Overwrite, Handling, Pairs, dest, Rooted
<1>1. \A q \in DOMAIN fs \ Within(dest) : q \in DOMAIN fs' /\ fs'[q] = fs[q]
  <2>1. CASE fs' = Without(dest)
    BY <2>1 DEF Without
  <2>2. CASE \E D : fs' = [q \in (DOMAIN fs \ Within(dest)) \cup D |-> fs[q]]
    BY <2>2
  <2> QED
    BY <2>1, <2>2 DEF Overwrite
<1>2. p \in Within(dest)
  BY <1>1 DEF Lost
<1>3. dest \in Ancestors(p)
  BY <1>0, <1>2, AncestorsValue DEF Within
<1> QED
  BY <1>0, <1>3 DEF GrantInv, Allowed

\* A rename loses what was at the new name, and there is nothing unless the
\* client chose it.
LEMMA RenameAllowed ==
    ASSUME WorkInv, GrantInv, RenameDestAll \/ RenameDest, ~left, NEW p \in DOMAIN fs, Lost(p)
    PROVE  Allowed(p)
<1>0. /\ Rooted(fs) /\ pc = "handle" /\ dest \in DOMAIN fs
  BY DEF WorkInv, RenameDestAll, RenameDest, Handling, Exists
<1>1. ASSUME NEW new, Siblings(dest, new), RenameDestTo(new)
      PROVE  p = new
  <2>1. fs' = rename(dest, new) /\ CanRename(dest, new)
    BY <1>1 DEF RenameDestTo, Lost
  <2>2. p # new => \E q \in DOMAIN fs' : fs'[q] = fs[p]
    BY <1>0, <1>1, <2>1, RenameFacts
  <2> QED
    BY <2>2 DEF Lost
<1>2. CASE RenameDestAll
  BY <1>0, <1>1, <1>2, RenameTargets DEF RenameDestAll
<1>3. CASE RenameDest
  <2>1. dec = "ren_dest" /\ RenameDestTo(Append(Front(dest), newname))
    BY <1>3 DEF RenameDest, Handling
  <2> QED
    BY <1>0, <1>1, <2>1, RenameTargets DEF Allowed
<1> QED
  BY <1>2, <1>3

\* Nothing that a file contained is gone after a step of the copy unless the
\* connected user decided so: an overwriting he allowed for that place or for
\* all conflicts of the kind, or a name he typed that was taken
\* (FileCopier.h, handleConflict).
THEOREM NothingLostUndecided == Spec => NothingOverwrittenUnasked
<1>1. Init => WorkInv /\ GrantInv
  BY InitWork, InitGrant
<1>2. WorkInv /\ GrantInv /\ [Next]_fcVars => (WorkInv /\ GrantInv)'
  BY NextWork, NextGrant
<1>3. ASSUME WorkInv, GrantInv, [Next]_fcVars, NEW p \in DOMAIN fs, Lost(p)
      PROVE  \/ left \/ vanished' # vanished
             \/ pc = "handle" /\ Allowed(p)
  <2>1. CASE SourceVanishes
    BY <2>1 DEF SourceVanishes
  <2>2. CASE HandleConflict /\ ~left
    <3>1. pc = "handle"
      BY <2>2 DEF HandleConflict, Skip, Overwrite, RenameDestAll, RenameDest, RenameSrcAll,
         RenameSrc, Merge, Cancel, Unknown, Handling
    <3>2. CASE Overwrite
      BY <1>3, <2>2, <3>1, <3>2, OverwriteAllowed
    <3>3. CASE RenameDestAll \/ RenameDest
      BY <1>3, <2>2, <3>1, <3>3, RenameAllowed
    <3>4. CASE Skip \/ RenameSrcAll \/ RenameSrc \/ Merge \/ Cancel \/ Unknown
      <4>1. fs' = fs
        BY <3>4 DEF Skip, RenameSrcAll, RenameSrc, Merge, Cancel, Unknown
      <4> QED
        BY <1>3, <4>1 DEF Lost
    <3> QED
      BY <2>2, <3>2, <3>3, <3>4 DEF HandleConflict
  <2>3. CASE ~HandleConflict /\ ~SourceVanishes
    BY <1>3, <2>3, OutsideConflictsKeeps DEF Keeps, Lost, Exists, IsFile
  <2> QED
    BY <2>1, <2>2, <2>3
<1>4. WorkInv /\ GrantInv /\ [Next]_fcVars =>
         [\A p \in DOMAIN fs : Lost(p) =>
             \/ left \/ vanished' # vanished
             \/ /\ pc = "handle"
                /\ \/ <<"all", conflict>> \in granted
                   \/ \E q \in Ancestors(p) : <<"path", q>> \in granted
                   \/ dec = "ren_dest" /\ p = Append(Front(dest), newname)]_fcVars
  BY <1>3 DEF Allowed
<1> QED
  BY <1>1, <1>2, <1>4, PTL DEF Spec, NothingOverwrittenUnasked

-----------------------------------------------------------------------------
(***************************************************************************)
(* No file is forgotten, when the selection is copied to another place: no *)
(* source is within another one, and none is above or below the directory  *)
(* that a destination is in.                                               *)
(***************************************************************************)
Source(i) == CopyList[i][1]
Target(i) == Front(CopyList[i][2])
Apart ==
    \A i, j \in DOMAIN CopyList :
        /\ i # j => ~IsPrefix(Source(i), Source(j))
        /\ ~IsPrefix(Source(i), Target(j)) /\ ~IsPrefix(Target(j), Source(i))

InSource(q) == \E i \in DOMAIN CopyList : IsPrefix(Source(i), q)
InTarget(q) == \E j \in DOMAIN CopyList : IsPrefix(Target(j), q) /\ q # Target(j)
Wanted == UNION {FilesAtStart(Source(i)) : i \in DOMAIN CopyList}

LEMMA ListPaths ==
    ASSUME NEW i \in DOMAIN CopyList
    PROVE  /\ Source(i) \in Paths /\ Source(i) \in Seq(Names)
           /\ Target(i) \in Seq(Names) /\ IsPrefix(Target(i), CopyList[i][2])
           /\ Target(i) # CopyList[i][2]
<1>1. CopyList[i] \in Paths \X Paths
  BY RequestAssumption
<1> DEFINE d == CopyList[i][2]
<1>2. d \in Seq(Names) /\ Len(d) \in Nat \ {0} /\ Source(i) \in Paths
  BY <1>1 DEF Paths, Source
<1> HIDE DEF d
<1> DEFINE t == SubSeq(d, 1, Len(d) - 1)
<1>3. t \in Seq(Names) /\ Len(t) = Len(d) - 1 /\ IsPrefix(t, d)
  <2>1. Len(d) - 1 \in 0 .. Len(d)
    BY <1>2
  <2> QED
    BY <1>2, <2>1, PrefixOfLength
<1>4. t # d
  BY <1>2, <1>3
<1>5. Target(i) = t
  BY DEF Target, Front, d
<1> HIDE DEF t
<1> QED
  BY <1>2, <1>3, <1>4, <1>5 DEF d, Paths

\* Of two prefixes of a path one is a prefix of the other.
LEMMA PrefixComparable ==
    ASSUME NEW p \in Seq(Names), NEW q \in Seq(Names), NEW r \in Seq(Names),
           IsPrefix(p, r), IsPrefix(q, r)
    PROVE  IsPrefix(p, q) \/ IsPrefix(q, p)
<1>1. Len(p) \in Nat /\ Len(q) \in Nat
  OBVIOUS
<1>2. Len(p) <= Len(q) \/ Len(q) <= Len(p)
  BY <1>1
<1> QED
  BY <1>2, PrefixLinear

\* Above and below the place of a copy there is no source.
LEMMA TargetNoSource ==
    ASSUME Apart, NEW q \in Paths, InTarget(q), NEW x \in Paths, IsPrefix(q, x) \/ IsPrefix(x, q)
    PROVE  ~InSource(x)
<1> SUFFICES ASSUME NEW i \in DOMAIN CopyList, IsPrefix(Source(i), x) PROVE FALSE
  BY DEF InSource
<1>1. PICK j \in DOMAIN CopyList : IsPrefix(Target(j), q)
  BY DEF InTarget
<1>2. /\ Source(i) \in Seq(Names) /\ Target(j) \in Seq(Names) /\ q \in Seq(Names) /\ x \in Seq(Names)
  BY ListPaths DEF Paths
<1>3. PICK r \in Seq(Names) : IsPrefix(Source(i), r) /\ IsPrefix(Target(j), r)
  <2>1. CASE IsPrefix(q, x)
    BY <1>1, <1>2, <2>1, PrefixTransitive
  <2>2. CASE IsPrefix(x, q)
    BY <1>1, <1>2, <2>2, PrefixTransitive
  <2> QED
    BY <2>1, <2>2
<1>4. IsPrefix(Source(i), Target(j)) \/ IsPrefix(Target(j), Source(i))
  BY <1>2, <1>3, PrefixComparable
<1> QED
  BY <1>4 DEF Apart

LEMMA TargetBelow ==
    ASSUME NEW q \in Paths, InTarget(q), NEW x \in Paths, IsPrefix(q, x)
    PROVE  InTarget(x)
<1>1. PICK j \in DOMAIN CopyList : IsPrefix(Target(j), q) /\ q # Target(j)
  BY DEF InTarget
<1>2. Target(j) \in Seq(Names) /\ q \in Seq(Names) /\ x \in Seq(Names)
  BY ListPaths DEF Paths
<1>3. IsPrefix(Target(j), x)
  BY <1>1, <1>2, PrefixTransitive
<1>4. x # Target(j)
  <2>1. Len(Target(j)) <= Len(q) /\ Len(q) <= Len(x) /\ Len(Target(j)) # Len(q)
    BY <1>1, <1>2, PrefixValue, PrefixSame
  <2> QED
    BY <1>2, <2>1
<1> QED
  BY <1>3, <1>4 DEF InTarget

LEMMA TargetBeside ==
    ASSUME Apart, NEW q, NEW x, Siblings(q, x), InTarget(q)
    PROVE  InTarget(x)
<1>1. PICK j \in DOMAIN CopyList : IsPrefix(Target(j), q) /\ q # Target(j)
  BY DEF InTarget
<1>2. Target(j) \in Paths
  <2>1. Target(j) \in Seq(Names) /\ Source(j) \in Seq(Names)
    BY ListPaths
  <2>2. Target(j) # << >>
    <3>1. IsPrefix(<< >>, Source(j))
      <4> DEFINE e == SubSeq(Source(j), 1, 0)
      <4>1. e \in Seq(Names) /\ Len(e) = 0 /\ IsPrefix(e, Source(j))
        BY <2>1, PrefixOfLength
      <4> HIDE DEF e
      <4> QED
        BY <4>1
    <3> QED
      BY <3>1 DEF Apart
  <2> QED
    BY <2>1, <2>2 DEF Paths
<1>3. Siblings(x, q)
  BY DEF Siblings
<1> QED
  BY <1>1, <1>2, <1>3, SiblingsShare DEF InTarget

\* What is known of the sources stays as it was.
SameSources(f, g) ==
    \A q \in Paths : InSource(q) =>
        /\ q \in DOMAIN f <=> q \in DOMAIN g
        /\ q \in DOMAIN f => f[q] = g[q]

LEMMA SameSourcesFollows ==
    ASSUME NEW f, NEW g, NEW h, SameSources(f, g), SameSources(g, h)
    PROVE  SameSources(f, h)
BY DEF SameSources

LEMMA RenameSources ==
    ASSUME Apart, Rooted(fs), NEW p \in DOMAIN fs, NEW q, Siblings(p, q), InTarget(p)
    PROVE  SameSources(rename(p, q), fs)
<1> DEFINE kept == DOMAIN fs \ (Within(p) \cup {q})
           new == {Moved(y, p, q) : y \in Within(p)}
           g == rename(p, q)
<1>1. /\ DOMAIN g = kept \cup new
      /\ \A x \in DOMAIN g : g[x] = IF x \in kept THEN fs[x] ELSE fs[Moved(x, q, p)]
  BY DEF rename
<1>2. p \in Paths /\ q \in Paths /\ p \in Seq(Names) /\ q \in Seq(Names) /\ Len(p) = Len(q)
  BY DEF Siblings, Paths
<1>3. InTarget(q)
  BY TargetBeside
<1>4. ASSUME NEW x \in new, x \in Paths PROVE ~InSource(x)
  <2>1. PICK y \in Within(p) : x = Moved(y, p, q)
    OBVIOUS
  <2>2. y \in Seq(Names) /\ IsPrefix(p, y)
    BY <2>1 DEF Within, Rooted, Paths
  <2>3. IsPrefix(q, x)
    BY <1>2, <2>1, <2>2, MovedBack
  <2> QED
    BY <1>2, <1>3, <1>4, <2>3, TargetNoSource
<1>5. ASSUME NEW x \in Paths, InSource(x) PROVE x \notin Within(p) /\ x # q
  BY <1>2, <1>3, <1>5, TargetNoSource, PrefixReflexive DEF Within
<1> HIDE DEF g, new
<1>6. SameSources(g, fs)
  BY <1>1, <1>4, <1>5 DEF SameSources
<1> QED
  BY <1>6 DEF g

\* No file operation of the copier touches a source.
LEMMA WithFileSources ==
    ASSUME Apart, NEW p \in Paths, InTarget(p), NEW content
    PROVE  SameSources(WithFile(p, content), fs)
<1>1. ~InSource(p)
  BY TargetNoSource, PrefixReflexive DEF Paths
<1>2. /\ DOMAIN WithFile(p, content) = DOMAIN fs \cup {p}
      /\ \A q \in DOMAIN fs \cup {p} : WithFile(p, content)[q] = IF q = p THEN content ELSE fs[q]
  BY DEF WithFile
<1> QED
  BY <1>1, <1>2 DEF SameSources

LEMMA RestrictSources ==
    ASSUME Apart, NEW p \in Paths, InTarget(p), NEW D, D \subseteq DOMAIN fs, DOMAIN fs \ Within(p) \subseteq D
    PROVE  SameSources([q \in D |-> fs[q]], fs)
<1>1. ASSUME NEW q \in Paths, InSource(q) PROVE q \in D <=> q \in DOMAIN fs
  <2>1. ~IsPrefix(p, q)
    BY <1>1, TargetNoSource
  <2> QED
    BY <2>1 DEF Within
<1> DEFINE g == [q \in D |-> fs[q]]
<1>2. DOMAIN g = D /\ \A q \in D : g[q] = fs[q]
  OBVIOUS
<1> HIDE DEF g
<1>3. SameSources(g, fs)
  BY <1>1, <1>2 DEF SameSources
<1> QED
  BY <1>3 DEF g

LEMMA MkpathSources ==
    ASSUME Apart, NEW p \in Paths, InTarget(p), NEW made \in Ancestors(p)
    PROVE  SameSources(mkpath(made), fs)
<1>1. made \in Paths /\ IsPrefix(made, p)
  BY AncestorsValue
<1>2. ASSUME NEW q \in Ancestors(made) PROVE ~InSource(q)
  <2>1. q \in Paths /\ IsPrefix(q, made)
    BY <1>1, <1>2, AncestorsValue
  <2>2. IsPrefix(q, p)
    BY <1>1, <2>1, PrefixTransitive DEF Paths
  <2> QED
    BY <2>1, <2>2, TargetNoSource
<1>3. /\ DOMAIN mkpath(made) = DOMAIN fs \cup Ancestors(made)
      /\ \A q \in DOMAIN fs : mkpath(made)[q] = fs[q]
  BY DEF mkpath, Exists
<1> QED
  BY <1>2, <1>3 DEF SameSources

-----------------------------------------------------------------------------
(***************************************************************************)
(* The pairs that wait.  A wanted file is below the source of one of them  *)
(* at most, since no source is a prefix of another.                        *)
(***************************************************************************)
Fine(T) ==
    /\ T \in Seq(Pairs)
    /\ \A k \in DOMAIN T : InSource(T[k][1]) /\ InTarget(T[k][2])
    /\ \A k, l \in DOMAIN T : k # l => ~IsPrefix(T[k][1], T[l][1])

Beside(p, T) ==
    /\ p \in Pairs /\ InSource(p[1]) /\ InTarget(p[2])
    /\ \A k \in DOMAIN T : ~IsPrefix(p[1], T[k][1]) /\ ~IsPrefix(T[k][1], p[1])

CoveredBy(T, f) == \E k \in DOMAIN T : IsPrefix(T[k][1], f)

\* One pair is taken from the top, or put there.
LEMMA FineTop ==
    ASSUME NEW T \in Seq(Pairs), T # << >>, Fine(T)
    PROVE  /\ Fine(Tail(T)) /\ Beside(Head(T), Tail(T))
           /\ \A f : CoveredBy(T, f) <=> IsPrefix(Head(T)[1], f) \/ CoveredBy(Tail(T), f)
<1> DEFINE R == Tail(T)
<1>1. /\ R \in Seq(Pairs) /\ Len(R) = Len(T) - 1 /\ Len(T) \in Nat \ {0}
      /\ \A k \in 1 .. Len(R) : R[k] = T[k + 1]
  OBVIOUS
<1>2. Head(T) = T[1] /\ T[1] \in Pairs
  OBVIOUS
<1> HIDE DEF R
<1>3. DOMAIN R = 1 .. Len(R) /\ DOMAIN T = 1 .. Len(T)
  BY <1>1
<1>4. \A k \in DOMAIN R : k + 1 \in DOMAIN T /\ R[k] = T[k + 1] /\ k + 1 # 1
  BY <1>1, <1>3
<1>5. \A k, l \in DOMAIN R : k # l => k + 1 # l + 1
  BY <1>3
<1>6. 1 \in DOMAIN T
  BY <1>1, <1>3
<1>7. Fine(R)
  BY <1>1, <1>4, <1>5 DEF Fine
<1>8. Beside(Head(T), R)
  BY <1>2, <1>4, <1>6 DEF Fine, Beside
<1>9. \A k \in DOMAIN T : k = 1 \/ (k - 1 \in DOMAIN R /\ T[k] = R[k - 1])
  <2>1. \A k \in 2 .. Len(T) : k - 1 \in 1 .. Len(R) /\ R[k - 1] = T[(k - 1) + 1] /\ (k - 1) + 1 = k
    BY <1>1
  <2> QED
    BY <1>1, <1>3, <2>1
<1>10. \A f : CoveredBy(T, f) <=> IsPrefix(Head(T)[1], f) \/ CoveredBy(R, f)
  BY <1>2, <1>4, <1>6, <1>9 DEF CoveredBy
<1> QED
  BY <1>7, <1>8, <1>10 DEF R

\* Sequences of pairs one after the other.
LEMMA FineAppend ==
    ASSUME NEW U, NEW T, Fine(U), Fine(T),
           \A k \in DOMAIN U : \A l \in DOMAIN T :
              ~IsPrefix(U[k][1], T[l][1]) /\ ~IsPrefix(T[l][1], U[k][1])
    PROVE  /\ Fine(U \o T)
           /\ \A f : CoveredBy(U \o T, f) <=> CoveredBy(U, f) \/ CoveredBy(T, f)
<1> DEFINE V == U \o T
<1>1. U \in Seq(Pairs) /\ T \in Seq(Pairs) /\ Len(U) \in Nat /\ Len(T) \in Nat
  BY DEF Fine
<1>2. /\ V \in Seq(Pairs) /\ Len(V) = Len(U) + Len(T)
      /\ \A k \in 1 .. Len(U) : V[k] = U[k]
      /\ \A k \in 1 .. Len(T) : V[Len(U) + k] = T[k]
  <2>1. V \in Seq(Pairs) /\ Len(V) = Len(U) + Len(T)
    BY <1>1
  <2>2. ASSUME NEW k \in 1 .. Len(U) PROVE V[k] = U[k]
    BY <1>1
  <2>3. ASSUME NEW k \in 1 .. Len(T) PROVE V[Len(U) + k] = T[k]
    BY <1>1
  <2> QED
    BY <2>1, <2>2, <2>3
<1> HIDE DEF V
<1>3. DOMAIN U = 1 .. Len(U) /\ DOMAIN T = 1 .. Len(T) /\ DOMAIN V = 1 .. Len(V)
  BY <1>1, <1>2
<1>4. \A k \in DOMAIN V : \/ k \in DOMAIN U /\ V[k] = U[k]
                          \/ k - Len(U) \in DOMAIN T /\ V[k] = T[k - Len(U)] /\ k \notin DOMAIN U
  <2>1. \A k \in (Len(U) + 1) .. Len(V) :
           /\ k - Len(U) \in 1 .. Len(T) /\ V[Len(U) + (k - Len(U))] = T[k - Len(U)]
           /\ Len(U) + (k - Len(U)) = k
    BY <1>1, <1>2
  <2> QED
    BY <1>1, <1>2, <1>3, <2>1
<1>5. \A k \in DOMAIN V : InSource(V[k][1]) /\ InTarget(V[k][2])
  BY <1>4 DEF Fine
<1>6. ASSUME NEW k \in DOMAIN V, NEW l \in DOMAIN V, k # l PROVE ~IsPrefix(V[k][1], V[l][1])
  <2>1. \/ k \in DOMAIN U /\ l \in DOMAIN U /\ V[k] = U[k] /\ V[l] = U[l]
        \/ k \in DOMAIN U /\ l - Len(U) \in DOMAIN T /\ V[k] = U[k] /\ V[l] = T[l - Len(U)]
        \/ k - Len(U) \in DOMAIN T /\ l \in DOMAIN U /\ V[k] = T[k - Len(U)] /\ V[l] = U[l]
        \/ /\ k - Len(U) \in DOMAIN T /\ l - Len(U) \in DOMAIN T
           /\ V[k] = T[k - Len(U)] /\ V[l] = T[l - Len(U)]
    BY <1>4
  <2>2. k - Len(U) # l - Len(U)
    BY <1>1, <1>3, <1>6
  <2> QED
    BY <1>6, <2>1, <2>2 DEF Fine
<1>7. Fine(V)
  BY <1>2, <1>5, <1>6 DEF Fine
<1>8. \A k \in DOMAIN U : k \in DOMAIN V /\ V[k] = U[k]
  BY <1>1, <1>2, <1>3
<1>9. \A k \in DOMAIN T : Len(U) + k \in DOMAIN V /\ V[Len(U) + k] = T[k]
  BY <1>1, <1>2, <1>3
<1>10. \A f : CoveredBy(V, f) <=> CoveredBy(U, f) \/ CoveredBy(T, f)
  BY <1>4, <1>8, <1>9 DEF CoveredBy
<1> QED
  BY <1>7, <1>10 DEF V

LEMMA FinePush ==
    ASSUME NEW T, Fine(T), NEW p, Beside(p, T)
    PROVE  /\ Fine(<<p>> \o T)
           /\ \A f : CoveredBy(<<p>> \o T, f) <=> IsPrefix(p[1], f) \/ CoveredBy(T, f)
<1> DEFINE U == <<p>>
<1>1. U \in Seq(Pairs) /\ DOMAIN U = {1} /\ U[1] = p
  BY DEF Beside
<1> HIDE DEF U
<1>2. Fine(U)
  BY <1>1 DEF Fine, Beside
<1>3. \A f : CoveredBy(U, f) <=> IsPrefix(p[1], f)
  BY <1>1 DEF CoveredBy
<1>4. \A k \in DOMAIN U : \A l \in DOMAIN T :
         ~IsPrefix(U[k][1], T[l][1]) /\ ~IsPrefix(T[l][1], U[k][1])
  BY <1>1 DEF Beside
<1>5. /\ Fine(U \o T)
      /\ \A f : CoveredBy(U \o T, f) <=> CoveredBy(U, f) \/ CoveredBy(T, f)
  BY <1>2, <1>4, FineAppend
<1> QED
  BY <1>3, <1>5 DEF U

\* Below a source there are sources only.
LEMMA SourceBelow ==
    ASSUME NEW q \in Paths, InSource(q), NEW x \in Paths, IsPrefix(q, x)
    PROVE  InSource(x)
<1>1. PICK i \in DOMAIN CopyList : IsPrefix(Source(i), q)
  BY DEF InSource
<1>2. Source(i) \in Seq(Names) /\ q \in Seq(Names) /\ x \in Seq(Names)
  BY ListPaths DEF Paths
<1> QED
  BY <1>1, <1>2, PrefixTransitive DEF InSource

\* The files below a source are the wanted files below it, now and at the start.
LEMMA WantedBelow ==
    ASSUME Rooted(fs), SameSources(fs, InitialFs), NEW q \in Paths, InSource(q)
    PROVE  FilesIn(q) = FilesAtStart(q) /\ FilesAtStart(q) = {f \in Wanted : IsPrefix(q, f)}
<1>1. \A f \in Wanted : f \in DOMAIN InitialFs /\ InitialFs[f] # Dir
  BY DEF Wanted, FilesAtStart
<1>2. ASSUME NEW f \in FilesAtStart(q) PROVE f \in Wanted
  <2>1. f \in Paths /\ f \in DOMAIN InitialFs /\ InitialFs[f] # Dir /\ IsPrefix(q, f)
    BY FilesAssumption DEF FilesAtStart
  <2>2. PICK i \in DOMAIN CopyList : IsPrefix(Source(i), f)
    BY <2>1, SourceBelow DEF InSource
  <2>3. f \in FilesAtStart(Source(i))
    BY <2>1, <2>2 DEF FilesAtStart
  <2> QED
    BY <2>3 DEF Wanted
<1>3. FilesAtStart(q) = {f \in Wanted : IsPrefix(q, f)}
  BY <1>1, <1>2 DEF FilesAtStart
<1>4. ASSUME NEW f \in Paths, IsPrefix(q, f)
      PROVE  (f \in DOMAIN fs <=> f \in DOMAIN InitialFs) /\ (f \in DOMAIN fs => fs[f] = InitialFs[f])
  BY <1>4, SourceBelow DEF SameSources
<1>5. DOMAIN fs \subseteq Paths /\ DOMAIN InitialFs \subseteq Paths
  BY FilesAssumption DEF Rooted
<1>6. FilesIn(q) = FilesAtStart(q)
  BY <1>4, <1>5 DEF FilesIn, Within, FilesAtStart
<1> QED
  BY <1>3, <1>6

\* A directory is replaced by its children: no wanted file is between them.
LEMMA FineChildren ==
    ASSUME Rooted(fs), SameSources(fs, InitialFs), Fine(S), Beside(pair, S), IsDir(src), PushListed
    PROVE  /\ Fine(S')
           /\ \A f \in Wanted : CoveredBy(S', f) <=> IsPrefix(src, f) \/ CoveredBy(S, f)
<1>0. /\ pair \in Pairs /\ src \in Paths /\ dest \in Paths /\ InSource(src) /\ InTarget(dest)
      /\ src \in Seq(Names) /\ DOMAIN fs \subseteq Paths
  BY DEF Beside, Pairs, src, dest, Paths, Rooted
<1>1. PICK order \in SetToSeqs(Children(src)) :
         S' = [i \in 1 .. Len(order) |-> <<order[i], Moved(order[i], src, dest)>>] \o S
  BY DEF PushListed
<1> DEFINE W == [i \in 1 .. Len(order) |-> <<order[i], Moved(order[i], src, dest)>>]
<1>2. PICK U : U = W
  OBVIOUS
<1>3. /\ U \in Seq(Pairs) /\ DOMAIN U = DOMAIN order
      /\ \A i \in DOMAIN order :
            U[i][1] = order[i] /\ order[i] \in Children(src) /\ IsPrefix(dest, U[i][2])
  BY <1>0, <1>2, PushedValue
<1>4. S' = U \o S
  BY <1>1, <1>2
<1> HIDE DEF W
<1>5. \A q \in Children(src) : /\ q \in Paths /\ q \in Seq(Names) /\ q \in DOMAIN fs
                               /\ IsPrefix(src, q) /\ Len(q) = Len(src) + 1
  BY <1>0 DEF Children, Within, Paths
<1>6. ASSUME NEW k \in DOMAIN U PROVE InSource(U[k][1]) /\ InTarget(U[k][2])
  <2>1. U[k][1] \in Children(src) /\ IsPrefix(dest, U[k][2]) /\ U[k][2] \in Paths
    BY <1>3 DEF Pairs
  <2> QED
    BY <1>0, <1>5, <2>1, SourceBelow, TargetBelow
<1>7. ASSUME NEW k \in DOMAIN U, NEW l \in DOMAIN U, k # l PROVE ~IsPrefix(U[k][1], U[l][1])
  <2>1. order[k] # order[l] /\ order[k] \in Children(src) /\ order[l] \in Children(src)
    BY <1>0, <1>3, <1>7, ListedOnce
  <2>2. Len(order[k]) = Len(order[l]) /\ order[k] \in Seq(Names) /\ order[l] \in Seq(Names)
    BY <1>5, <2>1
  <2> QED
    BY <1>3, <2>1, <2>2, PrefixSame
<1>8. Fine(U)
  BY <1>3, <1>6, <1>7 DEF Fine
<1>9. ASSUME NEW c \in Children(src), NEW l \in DOMAIN S
      PROVE  ~IsPrefix(c, S[l][1]) /\ ~IsPrefix(S[l][1], c)
  <2>1. /\ S[l] \in Pairs /\ S[l][1] \in Seq(Names)
        /\ ~IsPrefix(src, S[l][1]) /\ ~IsPrefix(S[l][1], src)
    BY DEF Fine, Beside, Pairs, Paths, src
  <2>2. c \in Seq(Names) /\ IsPrefix(src, c)
    BY <1>5
  <2> QED
    BY <1>0, <2>1, <2>2, PrefixTransitive, PrefixComparable
<1>10. /\ Fine(S')
       /\ \A f : CoveredBy(S', f) <=> CoveredBy(U, f) \/ CoveredBy(S, f)
  <2>1. \A k \in DOMAIN U : U[k][1] \in Children(src)
    BY <1>3
  <2>2. \A k \in DOMAIN U : \A l \in DOMAIN S :
           ~IsPrefix(U[k][1], S[l][1]) /\ ~IsPrefix(S[l][1], U[k][1])
    BY <1>9, <2>1
  <2>3. Fine(S)
    OBVIOUS
  <2>4. /\ Fine(U \o S)
        /\ \A f : CoveredBy(U \o S, f) <=> CoveredBy(U, f) \/ CoveredBy(S, f)
    BY ONLY <1>8, <2>2, <2>3, FineAppend
  <2> QED
    BY <1>4, <2>4
<1>11. ASSUME NEW f \in Wanted PROVE CoveredBy(U, f) <=> IsPrefix(src, f)
  <2>0. f \in DOMAIN InitialFs /\ InitialFs[f] # Dir /\ f \in Paths /\ f \in Seq(Names)
    BY FilesAssumption DEF Wanted, FilesAtStart, Paths
  <2>1. ASSUME CoveredBy(U, f) PROVE IsPrefix(src, f)
    <3>1. PICK k \in DOMAIN U : IsPrefix(U[k][1], f)
      BY <2>1 DEF CoveredBy
    <3>2. U[k][1] \in Seq(Names) /\ IsPrefix(src, U[k][1])
      BY <1>3, <1>5
    <3> QED
      BY <1>0, <2>0, <3>1, <3>2, PrefixTransitive
  <2>2. ASSUME IsPrefix(src, f) PROVE CoveredBy(U, f)
    <3>1. f \in DOMAIN fs /\ fs[f] # Dir
      BY <1>0, <2>0, <2>2, SourceBelow DEF SameSources
    <3>2. f # src
      BY <3>1 DEF IsDir, Exists
    <3>3. Len(src) < Len(f) /\ Len(src) \in Nat /\ Len(f) \in Nat
      BY <1>0, <2>0, <2>2, <3>2, PrefixValue, PrefixSame
    <3> DEFINE c == SubSeq(f, 1, Len(src) + 1)
    <3>4. c \in Seq(Names) /\ Len(c) = Len(src) + 1 /\ IsPrefix(c, f)
      <4>1. Len(src) + 1 \in 0 .. Len(f)
        BY <3>3
      <4> QED
        BY <2>0, <4>1, PrefixOfLength
    <3> HIDE DEF c
    <3>5. IsPrefix(src, c) /\ c # << >>
      <4>1. Len(src) <= Len(c) /\ Len(c) # 0
        BY <3>3, <3>4
      <4> QED
        BY <1>0, <2>0, <2>2, <3>4, <4>1, PrefixLinear
    <3>6. c \in DOMAIN fs
      BY <2>0, <3>1, <3>4, <3>5 DEF Rooted, Paths
    <3>7. c \in Children(src)
      BY <3>4, <3>5, <3>6 DEF Children, Within
    <3>8. PICK i \in DOMAIN order : order[i] = c
      BY <1>0, <3>7, ListedOnce
    <3> QED
      BY <1>3, <3>4, <3>8 DEF CoveredBy
  <2> QED
    BY <2>1, <2>2
<1> QED
  BY <1>10, <1>11

-----------------------------------------------------------------------------
(***************************************************************************)
(* The invariant: while the client is there and the sources are, a wanted  *)
(* file of which the client has been told nothing is below the pair in     *)
(* hand or below one on the stack, and the files of which it has been told *)
(* something are the ones it counts.                                       *)
(***************************************************************************)
Working == pc \notin {"totals", "next", "returned", "closed", "done"}
Waiting(f) == (Working /\ IsPrefix(src, f)) \/ CoveredBy(S, f)

Stacked ==
    /\ SameSources(fs, InitialFs)
    /\ Fine(S)
    /\ Working => Beside(pair, S)
    /\ pc = "copying" => IsFile(src)

ToldOf == {f \in Wanted : told[f] # "nothing"}

Counted ==
    /\ \A f \in Wanted : told[f] = "nothing" <=> Waiting(f)
    /\ (\A f \in Wanted : told[f] \notin {"error", "dropped"}) => outer = Cardinality(ToldOf)

\* Only a directory is merged.
Merging ==
    /\ pc \in {"ask", "wait", "handle"} => conflict = TypeOfSource
    /\ permanentDecs["file"] # "merge_all"
    /\ pc = "handle" => /\ dec \in Single \cup ForAll
                        /\ dec \in {"merge", "merge_all"} => IsDir(src)

Undisturbed == Apart /\ ~left /\ ~vanished /\ pc \notin {"closed", "returned"}

CoverInv ==
    /\ DOMAIN told = Wanted
    /\ pc = "done" => ~left /\ S = << >>
    /\ Undisturbed => Stacked /\ Counted /\ Merging

LEMMA InitCover == Init => CoverInv
<1> SUFFICES ASSUME Init PROVE CoverInv
  OBVIOUS
<1>1. /\ fs = InitialFs /\ S = Reverse(CopyList) /\ pc = "totals" /\ outer = 0
      /\ permanentDecs["file"] = NO_PREV_DEC /\ DOMAIN told = Wanted
      /\ \A f \in Wanted : told[f] = "nothing"
  BY DEF Init, Wanted, Source
<1>2. CopyList \in Seq(Pairs) /\ Len(CopyList) \in Nat /\ DOMAIN CopyList = 1 .. Len(CopyList)
  BY RequestAssumption DEF Pairs
<1>3. /\ S \in Seq(Pairs) /\ DOMAIN S = DOMAIN CopyList
      /\ \A k \in DOMAIN S : /\ Len(CopyList) - k + 1 \in DOMAIN CopyList
                             /\ S[k] = CopyList[Len(CopyList) - k + 1]
  <2>1. \A i \in 1 .. Len(CopyList) : /\ (Len(CopyList) - i) + 1 \in 1 .. Len(CopyList)
                                      /\ CopyList[(Len(CopyList) - i) + 1] \in Pairs
    BY <1>2
  <2> DEFINE R == [i \in 1 .. Len(CopyList) |-> CopyList[(Len(CopyList) - i) + 1]]
  <2>2. R \in Seq(Pairs) /\ DOMAIN R = 1 .. Len(CopyList)
    BY <1>2, <2>1
  <2>3. S = R
    BY <1>1 DEF Reverse
  <2> QED
    BY <1>2, <2>1, <2>2, <2>3
<1>4. ASSUME Apart PROVE Fine(S)
  <2>1. ASSUME NEW k \in DOMAIN S PROVE InSource(S[k][1]) /\ InTarget(S[k][2])
    <3>1. PICK i \in DOMAIN CopyList : S[k] = CopyList[i]
      BY <1>3
    <3>2. InSource(Source(i))
      BY ListPaths, PrefixReflexive DEF InSource
    <3>3. InTarget(CopyList[i][2])
      BY ListPaths DEF InTarget
    <3> QED
      BY <3>1, <3>2, <3>3 DEF Source
  <2>2. ASSUME NEW k \in DOMAIN S, NEW l \in DOMAIN S, k # l PROVE ~IsPrefix(S[k][1], S[l][1])
    <3>1. Len(CopyList) - k + 1 # Len(CopyList) - l + 1
      BY <1>2, <1>3, <2>2
    <3> QED
      BY <1>3, <1>4, <3>1 DEF Apart, Source
  <2> QED
    BY <1>3, <2>1, <2>2 DEF Fine
<1>5. ASSUME NEW f \in Wanted PROVE CoveredBy(S, f)
  <2>1. PICK i \in DOMAIN CopyList : IsPrefix(CopyList[i][1], f)
    BY DEF Wanted, Source, FilesAtStart
  <2> DEFINE k == Len(CopyList) - i + 1
  <2>2. k \in DOMAIN S /\ Len(CopyList) - k + 1 = i
    BY <1>2, <1>3
  <2> HIDE DEF k
  <2>3. S[k] = CopyList[i]
    BY <1>3, <2>2
  <2> QED
    BY <2>1, <2>2, <2>3 DEF CoveredBy
<1>6. ToldOf = {} /\ Cardinality({}) = 0
  BY <1>1, FS_EmptySet DEF ToldOf
<1>7. Counted
  BY <1>1, <1>5, <1>6 DEF Counted, Waiting
<1>8. ASSUME Apart PROVE Stacked
  BY <1>1, <1>4, <1>8 DEF Stacked, SameSources, Working
<1>9. Merging
  BY <1>1 DEF Merging, NO_PREV_DEC
<1> QED
  BY <1>1, <1>7, <1>8, <1>9 DEF CoverInv, Undisturbed

\* The pair in hand stays in hand, or does not come back.
LEMMA KeptStacked ==
    ASSUME Stacked, SameSources(fs', fs), S' = S, pair' = pair, Working' => Working,
           pc' = "copying" => IsFile(src)
    PROVE  /\ Stacked'
           /\ \A f : Waiting(f)' <=> (Working' /\ IsPrefix(src, f)) \/ CoveredBy(S, f)
<1>1. SameSources(fs', InitialFs)
  BY SameSourcesFollows DEF Stacked
<1>2. Working' => Beside(pair', S')
  BY DEF Stacked
<1>3. ASSUME pc' = "copying" PROVE IsFile(src)'
  <2>1. Working' /\ IsFile(src)
    BY <1>3 DEF Working
  <2>2. InSource(src) /\ src \in Paths
    BY <2>1 DEF Stacked, Beside, Pairs, src
  <2>3. src' = src
    BY DEF src
  <2> QED
    BY <2>1, <2>2, <2>3 DEF SameSources, IsFile, Exists
<1>4. Fine(S')
  BY DEF Stacked
<1>5. \A f : Waiting(f)' <=> (Working' /\ IsPrefix(src, f)) \/ CoveredBy(S, f)
  BY DEF Waiting, src
<1> QED
  BY <1>1, <1>2, <1>3, <1>4, <1>5 DEF Stacked

LEMMA PopStacked ==
    ASSUME WorkInv, Stacked, Pop
    PROVE  Stacked' /\ \A f : Waiting(f)' <=> Waiting(f)
<1>1. /\ S \in Seq(Pairs) /\ S # << >> /\ Fine(S) /\ pair' = Head(S) /\ S' = Tail(S)
      /\ fs' = fs /\ pc' = "item" /\ ~Working /\ Working'
  BY DEF WorkInv, Stacked, Pop, Go, Working
<1>2. /\ Fine(S') /\ Beside(pair', S')
      /\ \A f : CoveredBy(S, f) <=> IsPrefix(pair'[1], f) \/ CoveredBy(S', f)
  BY <1>1, FineTop
<1>3. Stacked'
  BY <1>1, <1>2 DEF Stacked
<1>4. \A f : Waiting(f)' <=> Waiting(f)
  BY <1>1, <1>2 DEF Waiting, src
<1> QED
  BY <1>3, <1>4

\* The pair in hand goes back to the stack, perhaps with another destination.
LEMMA PushStacked ==
    ASSUME Stacked, Working, SameSources(fs', fs), ~Working',
           NEW d \in Paths, InTarget(d), S' = <<<<src, d>>>> \o S
    PROVE  Stacked' /\ \A f : Waiting(f)' <=> Waiting(f)
<1> DEFINE p == <<src, d>>
<1>1. Fine(S) /\ Beside(pair, S)
  BY DEF Stacked
<1>2. p[1] = src /\ Beside(p, S)
  BY <1>1 DEF Beside, Pairs, src
<1> HIDE DEF p
<1>3. S' = <<p>> \o S
  BY DEF p
<1>4. Fine(S') /\ \A f : CoveredBy(S', f) <=> IsPrefix(src, f) \/ CoveredBy(S, f)
  BY <1>1, <1>2, <1>3, FinePush
<1>5. SameSources(fs', InitialFs)
  BY SameSourcesFollows DEF Stacked
<1>6. Stacked'
  BY <1>4, <1>5 DEF Stacked, Working
<1>7. \A f : Waiting(f)' <=> Waiting(f)
  BY <1>4 DEF Waiting
<1> QED
  BY <1>6, <1>7

LEMMA ChildrenStacked ==
    ASSUME WorkInv, Stacked, Working, SameSources(fs', fs), ~Working', IsDir(src), PushListed
    PROVE  Stacked' /\ \A f \in Wanted : Waiting(f)' <=> Waiting(f)
<1>1. Rooted(fs) /\ SameSources(fs, InitialFs) /\ Fine(S) /\ Beside(pair, S)
  BY DEF WorkInv, Stacked
<1>2. Fine(S') /\ \A f \in Wanted : CoveredBy(S', f) <=> IsPrefix(src, f) \/ CoveredBy(S, f)
  BY <1>1, FineChildren
<1>3. SameSources(fs', InitialFs)
  BY <1>1, SameSourcesFollows
<1>4. Stacked'
  BY <1>2, <1>3 DEF Stacked, Working
<1>5. \A f \in Wanted : Waiting(f)' <=> Waiting(f)
  BY <1>2 DEF Waiting
<1> QED
  BY <1>4, <1>5

LEMMA KeptCounted ==
    ASSUME Counted, told' = told, outer' = outer, \A f \in Wanted : Waiting(f)' <=> Waiting(f)
    PROVE  Counted'
<1>1. ToldOf' = ToldOf
  BY DEF ToldOf
<1>2. \A f \in Wanted : told'[f] = "nothing" <=> Waiting(f)'
  BY DEF Counted
<1>3. (\A f \in Wanted : told'[f] \notin {"error", "dropped"}) => outer' = Cardinality(ToldOf')
  BY <1>1 DEF Counted
<1> QED
  BY <1>2, <1>3 DEF Counted

\* The files below the pair in hand were told nothing of, and no other pair has them.
LEMMA InHand ==
    ASSUME WorkInv, Stacked, Counted, Working, NEW f
    PROVE  f \in FilesAtStart(src) <=>
              f \in Wanted /\ told[f] = "nothing" /\ ~CoveredBy(S, f)
<1>1. /\ Rooted(fs) /\ SameSources(fs, InitialFs) /\ Beside(pair, S) /\ S \in Seq(Pairs)
      /\ src \in Paths /\ src \in Seq(Names) /\ InSource(src)
  BY DEF WorkInv, Stacked, Beside, Pairs, src, Paths
<1>2. FilesAtStart(src) = {g \in Wanted : IsPrefix(src, g)}
  BY <1>1, WantedBelow
<1>3. \A g \in Wanted : g \in Seq(Names)
  BY FilesAssumption DEF Wanted, FilesAtStart, Paths
<1>4. ASSUME f \in Wanted, IsPrefix(src, f) PROVE ~CoveredBy(S, f)
  <2>1. \A k \in DOMAIN S : /\ S[k][1] \in Seq(Names)
                            /\ ~IsPrefix(src, S[k][1]) /\ ~IsPrefix(S[k][1], src)
    BY <1>1 DEF Beside, Pairs, Paths, src
  <2> QED
    BY <1>1, <1>3, <1>4, <2>1, PrefixComparable DEF CoveredBy
<1>5. f \in Wanted => (told[f] = "nothing" <=> IsPrefix(src, f) \/ CoveredBy(S, f))
  BY DEF Counted, Waiting
<1> QED
  BY <1>2, <1>4, <1>5

\* The files below the pair in hand get their fate, and the pair is dropped.
LEMMA DroppedCounted ==
    ASSUME WorkInv, Stacked, Counted, Working, DOMAIN told = Wanted,
           \A f : Waiting(f)' <=> CoveredBy(S, f),
           NEW value, value # "nothing",
           told' = [f \in DOMAIN told |-> IF f \in FilesAtStart(src) THEN value ELSE told[f]],
           \/ value \in {"error", "dropped"} /\ outer' = outer
           \/ outer' = outer + Cardinality(FilesAtStart(src))
    PROVE  Counted'
<1> DEFINE F == FilesAtStart(src)
<1>1. \A f : f \in F <=> f \in Wanted /\ told[f] = "nothing" /\ ~CoveredBy(S, f)
  BY InHand
<1>2. \A f \in Wanted : told'[f] = IF f \in F THEN value ELSE told[f]
  OBVIOUS
<1>3. \A f \in Wanted : told[f] = "nothing" <=> f \in F \/ CoveredBy(S, f)
  <2>1. \A f \in Wanted : CoveredBy(S, f) => told[f] = "nothing"
    BY DEF Counted, Waiting
  <2> QED
    BY <1>1, <2>1
<1>4. IsFiniteSet(Wanted)
  <2>1. IsFiniteSet(DOMAIN InitialFs) /\ Wanted \subseteq DOMAIN InitialFs
    BY FilesAssumption DEF Wanted, FilesAtStart
  <2> QED
    BY <2>1, FS_Subset
<1> HIDE DEF F
<1>5. \A f \in Wanted : told'[f] = "nothing" <=> Waiting(f)'
  BY <1>1, <1>2, <1>3
<1>6. ASSUME \A f \in Wanted : told'[f] \notin {"error", "dropped"}
      PROVE  outer' = Cardinality(ToldOf')
  <2>1. outer = Cardinality(ToldOf)
    BY <1>1, <1>2, <1>6 DEF Counted
  <2>2. ToldOf' = ToldOf \cup F /\ ToldOf \cap F = {}
    BY <1>1, <1>2 DEF ToldOf
  <2>3. IsFiniteSet(ToldOf) /\ IsFiniteSet(F)
    <3>1. ToldOf \subseteq Wanted /\ F \subseteq Wanted
      BY <1>1 DEF ToldOf
    <3> QED
      BY <1>4, <3>1, FS_Subset
  <2>4. Cardinality(ToldOf \cup F) = Cardinality(ToldOf) + Cardinality(F)
    <3>1. /\ Cardinality(ToldOf \cup F) =
                Cardinality(ToldOf) + Cardinality(F) - Cardinality(ToldOf \cap F)
          /\ Cardinality(ToldOf \cap F) = 0
      BY <2>2, <2>3, FS_Union, FS_EmptySet
    <3>2. Cardinality(ToldOf) \in Nat /\ Cardinality(F) \in Nat
      BY <2>3, FS_CardinalityType
    <3> QED
      BY <3>1, <3>2
  <2>5. CASE outer' = outer + Cardinality(F)
    BY <2>1, <2>2, <2>4, <2>5
  <2>6. CASE value \in {"error", "dropped"} /\ outer' = outer
    <3>1. F = {}
      BY <1>1, <1>2, <1>6, <2>6
    <3> QED
      BY <2>1, <2>2, <2>6, <3>1
  <2> QED
    BY <2>5, <2>6 DEF F
<1> QED
  BY <1>5, <1>6 DEF Counted

-----------------------------------------------------------------------------
(***************************************************************************)
(* What each operation leaves of the invariant.                            *)
(***************************************************************************)
LEMMA QuietCover ==
    ASSUME Stacked, Counted, SameSources(fs', fs), UNCHANGED <<S, pair, told, outer>>,
           Working' <=> Working, pc' = "copying" => IsFile(src)
    PROVE  Stacked' /\ Counted'
<1>1. Stacked' /\ \A f : Waiting(f)' <=> Waiting(f)
  BY KeptStacked DEF Waiting
<1> QED
  BY <1>1, KeptCounted

LEMMA SameFiles == \A f : SameSources(f, f)
BY DEF SameSources

LEMMA CopyStartCover ==
    ASSUME Apart, WorkInv, Stacked, Counted, CopyStart, pc' # "closed"
    PROVE  Stacked' /\ Counted'
<1>1. /\ pc = "item" /\ IsFile(src) /\ Working /\ UNCHANGED <<S, pair, told, outer>>
      /\ pc' \in {"copying", "error"} /\ (fs' = fs \/ fs' = WithFile(dest, Partial))
  BY DEF CopyStart, Sent, Go, Working
<1>2. dest \in Paths /\ InTarget(dest)
  BY <1>1 DEF Stacked, Beside, Pairs, dest
<1>3. SameSources(fs', fs)
  BY <1>1, <1>2, WithFileSources, SameFiles
<1> QED
  BY <1>1, <1>3, QuietCover DEF Working

LEMMA CopyEndCover ==
    ASSUME Apart, WorkInv, Stacked, Counted, DOMAIN told = Wanted, CopyEnd, ~left
    PROVE  Stacked' /\ Counted'
<1>1. /\ pc = "copying" /\ Working /\ UNCHANGED <<S, pair>> /\ pc' = "next" /\ ~Working'
      /\ (fs' = fs \/ fs' = WithFile(dest, <<"copy", src>>))
      /\ told' = [told EXCEPT ![src] = "copied"] /\ outer' = outer + 1
  BY DEF CopyEnd, Sent, Working
<1>2. /\ src \in Paths /\ dest \in Paths /\ InSource(src) /\ InTarget(dest) /\ IsFile(src)
      /\ Rooted(fs) /\ SameSources(fs, InitialFs)
  BY <1>1 DEF Stacked, Beside, Pairs, src, dest, WorkInv
<1>3. SameSources(fs', fs)
  BY <1>1, <1>2, WithFileSources, SameFiles
<1>4. Stacked' /\ \A f : Waiting(f)' <=> CoveredBy(S, f)
  BY <1>1, <1>3, KeptStacked
<1>5. FilesAtStart(src) = {src}
  <2>1. FilesAtStart(src) = FilesIn(src)
    BY <1>2, WantedBelow
  <2>2. \A q \in DOMAIN fs : IsPrefix(src, q) => q = src
    BY <1>2, NothingBelow DEF IsFile, IsDir
  <2>3. IsPrefix(src, src) /\ src \in DOMAIN fs /\ fs[src] # Dir
    BY <1>2, PrefixReflexive DEF IsFile, Exists, Paths
  <2> QED
    BY <2>1, <2>2, <2>3 DEF FilesIn, Within
<1>6. Cardinality(FilesAtStart(src)) = 1
  BY <1>5, FS_Singleton
<1>7. told' = [f \in DOMAIN told |-> IF f \in FilesAtStart(src) THEN "copied" ELSE told[f]]
  <2>1. told' = [f \in DOMAIN told |-> IF f = src THEN "copied" ELSE told[f]]
    BY <1>1
  <2> QED
    BY <1>5, <2>1
<1>8. Counted'
  BY <1>1, <1>4, <1>6, <1>7, DroppedCounted
<1> QED
  BY <1>4, <1>8

\* A pair that is passed over takes all its files with it.
LEMMA DropCover ==
    ASSUME WorkInv, Stacked, Counted, DOMAIN told = Wanted, Working, ~Working', DropPair,
           SameSources(fs', fs), UNCHANGED <<pair, outer>>
    PROVE  Stacked' /\ Counted'
<1>1. S' = S /\ told' = [f \in DOMAIN told |-> IF f \in FilesIn(src) THEN "dropped" ELSE told[f]]
  BY DEF DropPair
<1>2. Rooted(fs) /\ SameSources(fs, InitialFs) /\ src \in Paths /\ InSource(src)
  BY DEF WorkInv, Stacked, Beside, Pairs, src
<1>3. FilesIn(src) = FilesAtStart(src)
  BY <1>2, WantedBelow
<1>4. pc' # "copying"
  BY DEF Working
<1>5. Stacked' /\ \A f : Waiting(f)' <=> CoveredBy(S, f)
  BY <1>1, <1>4, KeptStacked
<1> QED
  BY <1>1, <1>3, <1>5, DroppedCounted

LEMMA MakeDirCover ==
    ASSUME Apart, WorkInv, Stacked, Counted, DOMAIN told = Wanted, MakeDir
    PROVE  Stacked' /\ Counted'
<1>1. /\ pc = "item" /\ IsDir(src) /\ Working /\ UNCHANGED <<pair, outer>>
      /\ \/ fs' = mkpath(dest) /\ PushChildren /\ pc' = "next"
         \/ /\ S' = S /\ told' = told /\ pc' = "error"
            /\ \E made \in Ancestors(dest) : fs' = mkpath(made)
  BY DEF MakeDir, Go, Working
<1>2. dest \in Paths /\ InTarget(dest)
  BY <1>1 DEF Stacked, Beside, Pairs, dest
<1>3. dest \in Ancestors(dest)
  BY <1>2, AncestorsValue, PrefixReflexive DEF Paths
<1>4. SameSources(fs', fs)
  BY <1>1, <1>2, <1>3, MkpathSources
<1>5. CASE PushListed /\ pc' = "next"
  <2>1. told' = told
    BY <1>5 DEF PushListed
  <2> QED
    BY <1>1, <1>4, <1>5, <2>1, ChildrenStacked, KeptCounted DEF Working
<1>6. CASE DropPair /\ pc' = "next"
  BY <1>1, <1>4, <1>6, DropCover DEF Working
<1>7. CASE S' = S /\ told' = told /\ pc' = "error"
  BY <1>1, <1>4, <1>7, QuietCover DEF Working
<1> QED
  BY <1>1, <1>5, <1>6, <1>7 DEF PushChildren

\* A deletion, a rename of the destination, or another destination: the source
\* comes back from the stack.
LEMMA PushCover ==
    ASSUME Stacked, Counted, Working, ~Working', SameSources(fs', fs), UNCHANGED <<told, outer>>,
           NEW d \in Paths, InTarget(d), S' = <<<<src, d>>>> \o S
    PROVE  Stacked' /\ Counted'
BY PushStacked, KeptCounted

LEMMA OverwriteCover ==
    ASSUME Apart, WorkInv, Stacked, Counted, Overwrite
    PROVE  Stacked' /\ Counted'
<1>1. /\ pc = "handle" /\ Working /\ UNCHANGED <<pair, told, outer>>
  BY DEF Overwrite, Handling, HandleUnchanged, Working
<1>2. dest \in Paths /\ InTarget(dest) /\ pair = <<src, dest>>
  BY <1>1 DEF Stacked, Beside, Pairs, src, dest
<1>3. CASE fs' = Without(dest) /\ S' = <<pair>> \o S /\ Go("next")
  <2>1. SameSources(fs', fs)
    BY <1>2, <1>3, RestrictSources DEF Without
  <2>2. ~Working'
    BY <1>3 DEF Go, Working
  <2> QED
    BY <1>1, <1>2, <1>3, <2>1, <2>2, PushCover
<1>4. ASSUME Go("error"), UNCHANGED S, NEW kept \in SUBSET Within(dest), NEW remains,
             remains = (UNION {Ancestors(q) : q \in kept}) \cap DOMAIN fs,
             fs' = [q \in (DOMAIN fs \ Within(dest)) \cup remains |-> fs[q]]
      PROVE  Stacked' /\ Counted'
  <2>1. SameSources(fs', fs)
    BY <1>2, <1>4, RestrictSources
  <2> QED
    BY <1>1, <1>4, <2>1, QuietCover DEF Working, Go
<1>5. CASE /\ Go("error") /\ UNCHANGED S
           /\ \E kept \in SUBSET Within(dest) \ {{}} :
                LET remains == (UNION {Ancestors(q) : q \in kept}) \cap DOMAIN fs
                IN  fs' = [q \in (DOMAIN fs \ Within(dest)) \cup remains |-> fs[q]]
  BY <1>4, <1>5
<1> QED
  BY <1>3, <1>5 DEF Overwrite

LEMMA RenameDestCover ==
    ASSUME Apart, WorkInv, Stacked, Counted, pc = "handle", NEW new, Siblings(dest, new),
           RenameDestTo(new), UNCHANGED <<pair, told, outer>>
    PROVE  Stacked' /\ Counted'
<1>1. /\ dest \in Paths /\ InTarget(dest) /\ pair = <<src, dest>> /\ Working
      /\ Rooted(fs) /\ dest \in DOMAIN fs
  BY DEF Stacked, Beside, Pairs, src, dest, Working, WorkInv, Exists
<1>2. CASE fs' = rename(dest, new) /\ S' = <<pair>> \o S /\ Go("next")
  <2>1. SameSources(fs', fs)
    BY <1>1, <1>2, RenameSources
  <2>2. ~Working'
    BY <1>2 DEF Go, Working
  <2> QED
    BY <1>1, <1>2, <2>1, <2>2, PushCover
<1>3. CASE Go("error") /\ UNCHANGED <<fs, S>>
  BY <1>1, <1>3, QuietCover, SameFiles DEF Working, Go
<1> QED
  BY <1>2, <1>3 DEF RenameDestTo

LEMMA RenameSrcCover ==
    ASSUME Apart, Stacked, Counted, pc = "handle", NEW new, Siblings(dest, new), fs' = fs,
           S' = <<<<src, new>>>> \o S, pc' = "next", UNCHANGED <<told, outer>>
    PROVE  Stacked' /\ Counted'
<1>1. InTarget(dest) /\ Working /\ ~Working'
  BY DEF Stacked, Beside, dest, Working
<1>2. new \in Paths /\ InTarget(new)
  BY <1>1, TargetBeside DEF Siblings
<1>3. SameSources(fs', fs)
  BY SameFiles
<1> QED
  BY <1>1, <1>2, <1>3, PushCover

LEMMA SkipCover ==
    ASSUME WorkInv, Stacked, Counted, DOMAIN told = Wanted, Skip, ~left
    PROVE  Stacked' /\ Counted'
<1>1. /\ Working /\ ~Working' /\ UNCHANGED <<S, pair>> /\ fs' = fs /\ pc' = "next"
      /\ told' = [f \in DOMAIN told |-> IF f \in FilesAtStart(src) THEN "skipped" ELSE told[f]]
      /\ outer' = outer + Cardinality(FilesAtStart(src))
  BY DEF Skip, Handling, HandleUnchanged, Sent, Working
<1>2. SameSources(fs', fs)
  BY <1>1, SameFiles
<1>3. Stacked' /\ \A f : Waiting(f)' <=> CoveredBy(S, f)
  BY <1>1, <1>2, KeptStacked
<1> QED
  BY <1>1, <1>3, DroppedCounted

LEMMA ErrorCover ==
    ASSUME WorkInv, Stacked, Counted, DOMAIN told = Wanted, ErrorAnswer, pc' # "closed"
    PROVE  Stacked' /\ Counted'
<1>1. /\ Working /\ ~Working' /\ UNCHANGED <<S, pair>> /\ fs' = fs /\ pc' = "next" /\ outer' = outer
      /\ told' = [f \in DOMAIN told |-> IF f \in FilesIn(src) THEN "error" ELSE told[f]]
  BY DEF ErrorAnswer, Go, Working
<1>2. Rooted(fs) /\ SameSources(fs, InitialFs) /\ src \in Paths /\ InSource(src)
  BY <1>1 DEF WorkInv, Stacked, Beside, Pairs, src
<1>3. FilesIn(src) = FilesAtStart(src)
  BY <1>2, WantedBelow
<1>4. SameSources(fs', fs)
  BY <1>1, SameFiles
<1>5. Stacked' /\ \A f : Waiting(f)' <=> CoveredBy(S, f)
  BY <1>1, <1>4, KeptStacked
<1> QED
  BY <1>1, <1>3, <1>5, DroppedCounted

LEMMA HandleCover ==
    ASSUME Apart, WorkInv, GrantInv, Stacked, Counted, Merging, DOMAIN told = Wanted,
           HandleConflict, ~left, pc' # "closed"
    PROVE  Stacked' /\ Counted'
<1>0. pc = "handle" /\ Working /\ pair' = pair /\ SameSources(fs, fs)
  BY SameFiles DEF HandleConflict, Skip, Overwrite, RenameDestAll, RenameDest, RenameSrcAll,
                   RenameSrc, Merge, Cancel, Unknown, Handling, HandleUnchanged, Working
<1>1. CASE Skip
  BY <1>1, SkipCover
<1>2. CASE Overwrite
  BY <1>2, OverwriteCover
<1>3. CASE RenameDestAll
  BY <1>0, <1>3, RenameTargets, RenameDestCover DEF RenameDestAll
<1>4. CASE RenameDest
  BY <1>0, <1>4, RenameTargets, RenameDestCover DEF RenameDest, Handling
<1>5. CASE RenameSrcAll
  BY <1>0, <1>5, RenameTargets, RenameSrcCover DEF RenameSrcAll, Go
<1>6. CASE RenameSrc
  BY <1>0, <1>6, RenameTargets, RenameSrcCover DEF RenameSrc, Handling, Go
<1>7. CASE Merge
  <2>1. /\ IsDir(src) /\ PushChildren /\ ~Working' /\ fs' = fs /\ outer' = outer
    BY <1>0, <1>7 DEF Merge, Handling, Merging, Go, Working
  <2>2. CASE PushListed
    <3>1. told' = told
      BY <2>2 DEF PushListed
    <3> QED
      BY <1>0, <2>1, <2>2, <3>1, ChildrenStacked, KeptCounted
  <2>3. CASE DropPair
    BY <1>0, <2>1, <2>3, DropCover
  <2> QED
    BY <2>1, <2>2, <2>3 DEF PushChildren
<1>8. CASE Unknown
  <2>1. DropPair /\ ~Working' /\ fs' = fs /\ outer' = outer
    BY <1>8 DEF Unknown, Go, Working
  <2> QED
    BY <1>0, <2>1, DropCover
<1>9. CASE Cancel
  BY <1>9 DEF Cancel, Go
<1> QED
  BY <1>1, <1>2, <1>3, <1>4, <1>5, <1>6, <1>7, <1>8, <1>9 DEF HandleConflict

\* The type of the conflict in hand, and what may be decided about it.
LEMMA NextMerging ==
    ASSUME WorkInv, GrantInv, Merging, Next, ~left, ~left', ~vanished'
    PROVE  Merging'
<1>1. CASE Totals \/ Pop \/ SourceMissing \/ Finish \/ CopyStart \/ CopyEnd \/ MakeDir \/ ErrorAnswer
  BY <1>1 DEF Totals, Pop, SourceMissing, Finish, CopyStart, CopyEnd, MakeDir, ErrorAnswer,
              Sent, Go, Merging
<1>2. CASE Conflict
  <2>1. /\ conflict' = TypeOfSource /\ dec' = permanentDecs[TypeOfSource]
        /\ UNCHANGED <<fs, pair, permanentDecs>>
        /\ pc' = IF dec' = NO_PREV_DEC THEN "ask" ELSE "handle"
    BY <1>2 DEF Conflict, Go
  <2>2. TypeOfSource' = TypeOfSource /\ (IsDir(src)' <=> IsDir(src))
    BY <2>1 DEF TypeOfSource, IsDir, Exists, src
  <2>3. TypeOfSource \in {"file", "dir"} /\ (TypeOfSource = "dir" => IsDir(src))
    BY DEF TypeOfSource
  <2>4. pc' = "handle" => dec' \in ForAll
    BY <2>1, <2>3 DEF GrantInv
  <2>5. dec' # "merge" /\ (dec' = "merge_all" => IsDir(src))
    BY <2>1, <2>3 DEF GrantInv, Merging, ForAll, NO_PREV_DEC
  <2> QED
    BY <2>1, <2>2, <2>4, <2>5 DEF Merging
<1>3. CASE Ask
  <2>1. /\ UNCHANGED <<fs, pair, permanentDecs, conflict>>
        /\ (pc = "ask" /\ pc' = "wait") \/ pc' = "errwait"
    BY <1>3 DEF Ask, Sent
  <2>2. TypeOfSource' = TypeOfSource
    BY <2>1 DEF TypeOfSource, IsDir, Exists, src
  <2> QED
    BY <2>1, <2>2 DEF Merging
<1>4. CASE Answer
  <2>1. /\ UNCHANGED <<fs, pair, permanentDecs, conflict>> /\ pc = "wait"
        /\ dec' \in Decisions
    BY <1>4 DEF Answer
  <2>2. TypeOfSource' = TypeOfSource /\ (IsDir(src)' <=> IsDir(src))
    BY <2>1 DEF TypeOfSource, IsDir, Exists, src
  <2>3. dec' \in Single \cup ForAll /\ (dec' \in {"merge", "merge_all"} => IsDir(src))
    BY <2>1 DEF Decisions, Single, ForAll
  <2> QED
    BY <2>1, <2>2, <2>3 DEF Merging
<1>5. CASE AnswerUnset
  BY <1>5 DEF AnswerUnset
<1>6. CASE HandleConflict
  <2>1. pc = "handle" /\ Remember /\ UNCHANGED conflict /\ pc' \in {"next", "closed", "error"}
    BY <1>6 DEF HandleConflict, Skip, Overwrite, RenameDestAll, RenameDest, RenameSrcAll,
                RenameSrc, Merge, Cancel, Unknown, Handling, HandleUnchanged, RenameDestTo, Sent, Go
  <2>2. conflict \in {"file", "dir"} /\ permanentDecs \in [{"file", "dir"} -> ForAll \cup {NO_PREV_DEC}]
    BY DEF GrantInv
  <2>3. dec = "merge_all" => conflict # "file"
    BY <2>1 DEF Merging, TypeOfSource
  <2>4. permanentDecs'["file"] # "merge_all"
    BY <2>1, <2>2, <2>3 DEF Remember, Merging
  <2> QED
    BY <2>1, <2>4 DEF Merging
<1>7. CASE ClientLeaves
  BY <1>7 DEF ClientLeaves
<1>8. CASE SourceVanishes
  BY <1>8 DEF SourceVanishes
<1> QED
  BY <1>1, <1>2, <1>3, <1>4, <1>5, <1>6, <1>7, <1>8 DEF Next, CopierStep, ClientAnswers

\* Nobody comes back, and a copy that has ended stays so.
LEMMA StillThere ==
    ASSUME Next, ~left', ~vanished'
    PROVE  ~left /\ ~vanished /\ (pc \in {"closed", "returned"} => pc' = pc)
<1>1. CASE ClientLeaves \/ SourceVanishes
  BY <1>1 DEF ClientLeaves, SourceVanishes
<1>2. CASE HandleConflict
  BY <1>2 DEF HandleConflict, Skip, Overwrite, RenameDestAll, RenameDest, RenameSrcAll,
              RenameSrc, Merge, Cancel, Unknown, Handling, HandleUnchanged
<1>3. CASE Totals \/ Pop \/ SourceMissing \/ Finish \/ Conflict
  BY <1>3 DEF Totals, Pop, SourceMissing, Finish, Conflict
<1>4. CASE CopyStart \/ CopyEnd \/ MakeDir \/ Ask
  BY <1>4 DEF CopyStart, CopyEnd, MakeDir, Ask
<1>5. CASE Answer \/ AnswerUnset \/ ErrorAnswer
  BY <1>5 DEF Answer, AnswerUnset, ErrorAnswer
<1> QED
  BY <1>1, <1>2, <1>3, <1>4, <1>5 DEF Next, CopierStep, ClientAnswers

\* Nothing but an answer about a file changes what is known of which files.
LEMMA NextTold ==
    ASSUME CoverInv, Next
    PROVE  DOMAIN told' = Wanted /\ (pc' = "done" => ~left' /\ S' = << >>)
<1>0. DOMAIN told = Wanted /\ (pc = "done" => ~left /\ S = << >>)
  BY DEF CoverInv
<1>1. CASE ClientLeaves \/ SourceVanishes
  BY <1>0, <1>1 DEF ClientLeaves, SourceVanishes, local
<1>2. CASE HandleConflict
  <2>1. DOMAIN told' = DOMAIN told
    BY <1>2 DEF HandleConflict, Skip, Overwrite, RenameDestAll, RenameDest, RenameSrcAll,
                RenameSrc, Merge, Cancel, Unknown, PushChildren, PushListed, DropPair
  <2>2. pc' # "done"
    BY <1>2 DEF HandleConflict, Skip, Overwrite, RenameDestAll, RenameDest, RenameSrcAll,
                RenameSrc, Merge, Cancel, Unknown, RenameDestTo, Sent, Go
  <2> QED
    BY <1>0, <2>1, <2>2
<1>3. CASE Totals \/ Pop \/ SourceMissing \/ Finish \/ Conflict
  BY <1>0, <1>3 DEF Totals, Pop, SourceMissing, Finish, Conflict, Sent, Go
<1>4. CASE CopyStart \/ CopyEnd \/ MakeDir \/ Ask
  BY <1>0, <1>4 DEF CopyStart, CopyEnd, MakeDir, PushChildren, PushListed, DropPair, Ask, Sent, Go
<1>5. CASE Answer \/ AnswerUnset \/ ErrorAnswer
  BY <1>0, <1>5 DEF Answer, AnswerUnset, ErrorAnswer, Go
<1> QED
  BY <1>1, <1>2, <1>3, <1>4, <1>5 DEF Next, CopierStep, ClientAnswers

LEMMA NextCover ==
    ASSUME WorkInv, GrantInv, CoverInv, [Next]_fcVars
    PROVE  CoverInv'
<1>1. CASE UNCHANGED fcVars
  <2>1. UNCHANGED <<fs, S, pair, permanentDecs, pc, conflict, dec, left, vanished, told, outer>>
    BY <1>1 DEF fcVars
  <2>2. /\ Stacked' <=> Stacked
        /\ Counted' <=> Counted
        /\ Merging' <=> Merging
        /\ Undisturbed' <=> Undisturbed
    BY <2>1 DEF Stacked, Counted, Merging, Undisturbed, ToldOf, Waiting, Working, IsFile, IsDir,
                Exists, TypeOfSource, src
  <2> QED
    BY <2>1, <2>2 DEF CoverInv
<1>2. CASE Next
  <2>1. DOMAIN told' = Wanted /\ (pc' = "done" => ~left' /\ S' = << >>) /\ DOMAIN told = Wanted
    BY <1>2, NextTold DEF CoverInv
  <2>2. SUFFICES ASSUME Undisturbed' PROVE Stacked' /\ Counted' /\ Merging'
    BY <2>1 DEF CoverInv
  <2>3. Apart /\ ~left' /\ ~vanished' /\ pc' \notin {"closed", "returned"}
    BY <2>2 DEF Undisturbed
  <2>4. ~left /\ ~vanished /\ Stacked /\ Counted /\ Merging
    BY <1>2, <2>3, StillThere DEF CoverInv, Undisturbed
  <2>5. Merging'
    BY <1>2, <2>3, <2>4, NextMerging
  <2>6. SameSources(fs, fs)
    BY SameFiles
  <2>7. CASE Totals \/ Finish \/ Conflict \/ Ask \/ Answer
    <3>1. /\ UNCHANGED <<fs, S, pair, told, outer>> /\ pc' # "copying"
          /\ Working' <=> Working
      BY <2>3, <2>4, <2>7 DEF Totals, Finish, Conflict, Ask, Answer, Sent, Go, Working
    <3> QED
      BY <2>4, <2>5, <2>6, <3>1, QuietCover
  <2>8. CASE Pop
    <3>1. told' = told /\ outer' = outer
      BY <2>8 DEF Pop
    <3> QED
      BY <2>4, <2>5, <2>8, <3>1, PopStacked, KeptCounted
  <2>9. CASE CopyStart
    BY <2>3, <2>4, <2>5, <2>9, CopyStartCover
  <2>10. CASE CopyEnd
    BY <2>1, <2>3, <2>4, <2>5, <2>10, CopyEndCover
  <2>11. CASE MakeDir
    BY <2>1, <2>3, <2>4, <2>5, <2>11, MakeDirCover
  <2>12. CASE ErrorAnswer
    BY <2>1, <2>3, <2>4, <2>5, <2>12, ErrorCover
  <2>13. CASE HandleConflict
    BY <2>1, <2>3, <2>4, <2>5, <2>13, HandleCover
  <2>14. CASE SourceMissing \/ AnswerUnset \/ ClientLeaves \/ SourceVanishes
    BY <2>3, <2>4, <2>14 DEF SourceMissing, AnswerUnset, ClientLeaves, SourceVanishes, Go
  <2> QED
    BY <1>2, <2>7, <2>8, <2>9, <2>10, <2>11, <2>12, <2>13, <2>14 DEF Next, CopierStep, ClientAnswers
<1> QED
  BY <1>1, <1>2

\* The end of a copy: nothing waits, so the client was told of every file, and
\* it has counted them all.
LEMMA CoverAtEnd == CoverInv => (Apart => NothingForgotten)
<1> SUFFICES ASSUME CoverInv, Apart, pc = "done", ~vanished
             PROVE  /\ \A f \in DOMAIN told : told[f] # "nothing"
                    /\ (\A f \in DOMAIN told : told[f] \notin {"error", "dropped"}) =>
                          outer = Total
  BY DEF NothingForgotten
<1>1. DOMAIN told = Wanted /\ ~left /\ S = << >> /\ Counted
  BY DEF CoverInv, Undisturbed
<1>2. ASSUME NEW f \in Wanted PROVE told[f] # "nothing"
  <2>1. ~CoveredBy(S, f)
    BY <1>1 DEF CoveredBy
  <2> QED
    BY <1>1, <2>1 DEF Counted, Waiting, Working
<1>3. ToldOf = Wanted /\ Total = Cardinality(Wanted)
  BY <1>2 DEF ToldOf, Total, Wanted, Source
<1> QED
  BY <1>1, <1>2, <1>3 DEF Counted

\* Files that are copied to a place apart from the sources (FileCopier.h,
\* maincopy): whatever the user decides about conflicts and whichever call
\* fails, when the copy reports its end every file that was there when it was
\* asked for was either told to the client or below a pair that DropPair passed
\* over (a directory that cannot be listed, a recursive merge), and unless there
\* was such a pair or an acknowledged error its progress has counted each of
\* them once.
THEOREM NothingForgottenApart == Spec => [](Apart => NothingForgotten)
<1>1. Init => WorkInv /\ GrantInv /\ CoverInv
  BY InitWork, InitGrant, InitCover
<1>2. WorkInv /\ GrantInv /\ CoverInv /\ [Next]_fcVars => (WorkInv /\ GrantInv /\ CoverInv)'
  BY NextWork, NextGrant, NextCover
<1>3. CoverInv => (Apart => NothingForgotten)
  BY CoverAtEnd
<1> QED
  BY <1>1, <1>2, <1>3, PTL DEF Spec

=============================================================================
