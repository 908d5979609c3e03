--------------------------- MODULE FSServer_proofs --------------------------
(***************************************************************************)
(* Theorems about FSServer: the tree stays whole, a handle has one owner,  *)
(* and what disappears was asked to, for tables and trees of every size.   *)
(*                                                                         *)
(* What makes the invariant inductive: what is being deleted is not open   *)
(* and every call of FS_Delete under way is below it (WalkInv), what was   *)
(* checked of a rename when it was asked for stays so (MoveInv), and a     *)
(* file that is open is there (OpenIsFile).                                *)
(***************************************************************************)
EXTENDS FSServer, SequenceTheorems, TLAPS

-----------------------------------------------------------------------------
(* Paths, prefixes and renamed paths, element by element.                  *)

(* What a path is: a sequence of names, not empty and not too long.        *)
LEMMA PathIs ==
  \A p : p \in Path <=> p \in Seq(Names) /\ Len(p) \in 1 .. MaxDepth
PROOF BY FSTreeAssumption DEF Path

(* A prefix, element by element.                                           *)
LEMMA PrefixIs ==
  ASSUME NEW s \in Seq(Names), NEW t \in Seq(Names)
  PROVE  IsPrefix(s, t) <=> Len(s) <= Len(t) /\ \A i \in 1 .. Len(s) : s[i] = t[i]
PROOF BY DEF IsPrefix

(* What the walk appends to a path below the request stays below it.       *)
LEMMA PrefixAppend ==
  ASSUME NEW s \in Seq(Names), NEW t \in Seq(Names), NEW n \in Names, IsPrefix(s, t)
  PROVE  IsPrefix(s, Append(t, n))
PROOF
  <1>1. /\ Append(t, n) \in Seq(Names) /\ Len(Append(t, n)) = Len(t) + 1
        /\ \A i \in 1 .. Len(t) : Append(t, n)[i] = t[i]
    BY AppendProperties
  <1>2. Len(s) <= Len(t) /\ \A i \in 1 .. Len(s) : s[i] = t[i]  BY PrefixIs
  <1>3. Len(s) \in Nat /\ Len(t) \in Nat  OBVIOUS
  <1>4. Len(s) <= Len(Append(t, n)) /\ \A i \in 1 .. Len(s) : s[i] = Append(t, n)[i]
    BY <1>1, <1>2, <1>3
  <1> QED  BY <1>1, <1>4, PrefixIs

LEMMA PrefixSelf ==
  ASSUME NEW s \in Seq(Names)
  PROVE  IsPrefix(s, s)
PROOF BY PrefixIs

(* A renamed path, element by element.                                     *)
LEMMA MovedIs ==
  ASSUME NEW s \in Seq(Names), NEW d \in Seq(Names), NEW q \in Seq(Names)
  PROVE  /\ Moved(s, d, q) \in Seq(Names)
         /\ ~IsPrefix(s, q) => Moved(s, d, q) = q
         /\ IsPrefix(s, q) =>
              /\ Len(Moved(s, d, q)) = Len(d) + Len(q) - Len(s)
              /\ IsPrefix(d, Moved(s, d, q))
              /\ \A i \in 1 .. Len(q) - Len(s) :
                   Moved(s, d, q)[Len(d) + i] = q[Len(s) + i]
PROOF
  <1>1. ASSUME IsPrefix(s, q)
        PROVE  /\ Moved(s, d, q) \in Seq(Names)
               /\ Len(Moved(s, d, q)) = Len(d) + Len(q) - Len(s)
               /\ IsPrefix(d, Moved(s, d, q))
               /\ \A i \in 1 .. Len(q) - Len(s) :
                    Moved(s, d, q)[Len(d) + i] = q[Len(s) + i]
    <2> DEFINE r == SubSeq(q, Len(s) + 1, Len(q))
    <2>1. Len(s) \in Nat /\ Len(q) \in Nat /\ Len(d) \in Nat /\ Len(s) <= Len(q)
      BY <1>1, PrefixIs
    <2>2. r \in Seq(Names) /\ Len(r) = Len(q) - Len(s)
          /\ \A i \in 1 .. Len(q) - Len(s) : r[i] = q[Len(s) + i]
      BY <2>1
    <2>3. Moved(s, d, q) = d \o r  BY <1>1 DEF Moved
    <2> HIDE DEF r
    <2>4. /\ d \o r \in Seq(Names) /\ Len(d \o r) = Len(d) + Len(r)
          /\ \A i \in 1 .. Len(d) : (d \o r)[i] = d[i]
          /\ \A i \in 1 .. Len(r) : (d \o r)[Len(d) + i] = r[i]
    <3>1. r \in Seq(Names) /\ Len(r) \in Nat  BY <2>2
    <3>2. /\ d \o r \in Seq(Names) /\ Len(d \o r) = Len(d) + Len(r)
          /\ \A i \in 1 .. Len(d) + Len(r) : (d \o r)[i] =
                IF i <= Len(d) THEN d[i] ELSE r[i - Len(d)]
      BY <3>1, ConcatProperties
    <3>3. \A i \in 1 .. Len(r) : (d \o r)[Len(d) + i] = r[i]
      BY <2>1, <3>1, <3>2
    <3> QED  BY <2>1, <3>1, <3>2, <3>3
    <2>5. IsPrefix(d, d \o r)
      <3>1. Len(d) <= Len(d \o r)  BY <2>1, <2>2, <2>4
      <3> QED  BY <3>1, <2>4, PrefixIs
    <2> QED  BY <2>1, <2>2, <2>3, <2>4, <2>5
  <1>2. ~IsPrefix(s, q) => Moved(s, d, q) = q  BY DEF Moved
  <1> QED  BY <1>1, <1>2

(* The path n names long that leads to q.                                  *)
LEMMA FrontIs ==
  ASSUME NEW q \in Seq(Names), NEW n \in 0 .. Len(q)
  PROVE  /\ SubSeq(q, 1, n) \in Seq(Names)
         /\ Len(SubSeq(q, 1, n)) = n
         /\ \A i \in 1 .. n : SubSeq(q, 1, n)[i] = q[i]
         /\ n = Len(q) => SubSeq(q, 1, n) = q
PROOF
  <1>1. /\ SubSeq(q, 1, n) \in Seq(Names)
        /\ Len(SubSeq(q, 1, n)) = n
        /\ \A i \in 1 .. n : SubSeq(q, 1, n)[i] = q[i]
    <2>1. \A i \in 1 .. n : q[i] \in Names  OBVIOUS
    <2> QED  BY <2>1, SubSeqProperties
  <1>2. ASSUME n = Len(q)  PROVE SubSeq(q, 1, n) = q
    BY <1>1, <1>2, SeqEqual
  <1> QED  BY <1>1, <1>2

(* The way to q begins with the way to what leads to q.                    *)
LEMMA FrontOfFront ==
  ASSUME NEW q \in Seq(Names), NEW m \in 0 .. Len(q), NEW n \in 0 .. m
  PROVE  SubSeq(SubSeq(q, 1, m), 1, n) = SubSeq(q, 1, n)
PROOF
  <1> DEFINE f == SubSeq(q, 1, m)
  <1>1. f \in Seq(Names) /\ Len(f) = m /\ \A i \in 1 .. m : f[i] = q[i]  BY FrontIs
  <1> HIDE DEF f
  <1>2. n \in 0 .. Len(f) /\ n \in 0 .. Len(q)  BY <1>1
  <1>3. /\ SubSeq(f, 1, n) \in Seq(Names) /\ Len(SubSeq(f, 1, n)) = n
        /\ \A i \in 1 .. n : SubSeq(f, 1, n)[i] = f[i]
    BY <1>1, <1>2, FrontIs
  <1>4. /\ SubSeq(q, 1, n) \in Seq(Names) /\ Len(SubSeq(q, 1, n)) = n
        /\ \A i \in 1 .. n : SubSeq(q, 1, n)[i] = q[i]
    BY <1>2, FrontIs
  <1>5. \A i \in 1 .. n : SubSeq(f, 1, n)[i] = SubSeq(q, 1, n)[i]
    BY <1>1, <1>3, <1>4
  <1>6. SubSeq(f, 1, n) = SubSeq(q, 1, n)  BY <1>3, <1>4, <1>5, SeqEqual
  <1> QED  BY <1>6 DEF f

LEMMA FrontStep ==
  ASSUME NEW q \in Seq(Names), NEW n \in 1 .. Len(q) - 1
  PROVE  q[n + 1] \in Names /\ Append(SubSeq(q, 1, n), q[n + 1]) = SubSeq(q, 1, n + 1)
PROOF
  <1> DEFINE f == SubSeq(q, 1, n)
             g == SubSeq(q, 1, n + 1)
             e == q[n + 1]
  <1>1. n \in 0 .. Len(q) /\ n + 1 \in 0 .. Len(q) /\ e \in Names  OBVIOUS
  <1>2. f \in Seq(Names) /\ Len(f) = n /\ \A i \in 1 .. n : f[i] = q[i]
    BY <1>1, FrontIs
  <1>3. g \in Seq(Names) /\ Len(g) = n + 1 /\ \A i \in 1 .. n + 1 : g[i] = q[i]
    BY <1>1, FrontIs
  <1> HIDE DEF f, g, e
  <1>4. /\ Append(f, e) \in Seq(Names) /\ Len(Append(f, e)) = n + 1
        /\ \A i \in 1 .. n : Append(f, e)[i] = f[i]
        /\ Append(f, e)[n + 1] = e
    BY <1>1, <1>2, AppendProperties
  <1>5. g[n + 1] = e  BY <1>1, <1>3 DEF e
  <1>6. \A i \in 1 .. n + 1 : Append(f, e)[i] = g[i]  BY <1>2, <1>3, <1>4, <1>5
  <1>7. Append(f, e) = g  BY <1>3, <1>4, <1>6, SeqEqual
  <1> QED  BY <1>1, <1>7 DEF f, g, e

(* A path has a prefix exactly where that leads to it.                     *)
LEMMA PrefixIsFront ==
  ASSUME NEW s \in Seq(Names), NEW q \in Seq(Names)
  PROVE  IsPrefix(s, q) <=> Len(s) <= Len(q) /\ SubSeq(q, 1, Len(s)) = s
PROOF
  <1>1. Len(s) \in Nat /\ Len(q) \in Nat  OBVIOUS
  <1>2. SubSeq(s, 1, Len(s)) = s  BY <1>1, FrontIs
  <1> QED  BY <1>2 DEF IsPrefix

LEMMA PrefixTransitive ==
  ASSUME NEW a \in Seq(Names), NEW b \in Seq(Names), NEW c \in Seq(Names),
         IsPrefix(a, b), IsPrefix(b, c)
  PROVE  IsPrefix(a, c)
PROOF
  <1>1. Len(a) <= Len(b) /\ \A i \in 1 .. Len(a) : a[i] = b[i]  BY PrefixIs
  <1>2. Len(b) <= Len(c) /\ \A i \in 1 .. Len(b) : b[i] = c[i]  BY PrefixIs
  <1>3. Len(a) \in Nat /\ Len(b) \in Nat /\ Len(c) \in Nat  OBVIOUS
  <1>4. Len(a) <= Len(c) /\ \A i \in 1 .. Len(a) : a[i] = c[i]  BY <1>1, <1>2, <1>3
  <1> QED  BY <1>4, PrefixIs

-----------------------------------------------------------------------------
(* The operations on the tree.                                             *)

TreeType ==
  DOMAIN tree \subseteq Path /\ \A p \in DOMAIN tree : tree[p] \in {Dir} \cup 0 .. MaxSize

(* A directory on the way to an entry is an entry.                         *)
LEMMA WayIsThere ==
  ASSUME TreeType, NoOrphans, NEW q \in DOMAIN tree, NEW n \in 1 .. Len(q)
  PROVE  /\ q \in Seq(Names) /\ SubSeq(q, 1, n) \in DOMAIN tree
         /\ n < Len(q) => tree[SubSeq(q, 1, n)] = Dir
PROOF
  <1>1. q \in Seq(Names) /\ Len(q) \in Nat  BY PathIs DEF TreeType
  <1>2. CASE n = Len(q)
    <2>1. n \in 0 .. Len(q)  BY <1>1, <1>2
    <2>2. SubSeq(q, 1, n) = q  BY <1>1, <1>2, <2>1, FrontIs
    <2>3. ~(n < Len(q))  BY <1>1, <1>2
    <2>4. SubSeq(q, 1, n) \in DOMAIN tree  BY <2>2
    <2> QED  BY <1>1, <2>3, <2>4
  <1>3. CASE n # Len(q)
    <2>1. n \in 1 .. Len(q) - 1  BY <1>1, <1>3
    <2>2. IsDir(SubSeq(q, 1, n))  BY <2>1 DEF NoOrphans
    <2>3. Len(SubSeq(q, 1, n)) = n  BY <1>1, FrontIs
    <2>4. SubSeq(q, 1, n) # <<>>  BY <2>3
    <2> QED  BY <1>1, <2>2, <2>4 DEF IsDir, Exists
  <1> QED  BY <1>2, <1>3

(* What has an entry below it is not removed by f_unlink.                  *)
LEMMA UnlinkKeeps ==
  ASSUME TreeType, NoOrphans, NEW p, f_unlink(p)
  PROVE  /\ TreeType' /\ NoOrphans'
         /\ DOMAIN tree' \subseteq DOMAIN tree /\ DOMAIN tree \ DOMAIN tree' \subseteq {p}
         /\ \A q \in DOMAIN tree' : tree'[q] = tree[q]
PROOF
  <1>1. /\ DOMAIN tree' \subseteq DOMAIN tree /\ DOMAIN tree \ DOMAIN tree' \subseteq {p}
        /\ \A q \in DOMAIN tree' : tree'[q] = tree[q]
        /\ p \notin DOMAIN tree' \/ DOMAIN tree' = DOMAIN tree
        /\ DOMAIN tree' # DOMAIN tree => Removable(p)
    BY DEF f_unlink, Without
  <1>2. TreeType'  BY <1>1 DEF TreeType
  <1>3. ASSUME NEW q \in DOMAIN tree', NEW n \in 1 .. Len(q) - 1,
               SubSeq(q, 1, n) = p, p \notin DOMAIN tree'
        PROVE  FALSE
    <2>1. q \in DOMAIN tree /\ q \in Seq(Names) /\ Len(q) \in Nat
      BY <1>1, PathIs DEF TreeType
    <2>2. n \in 1 .. Len(q) /\ n < Len(q) /\ n + 1 \in 1 .. Len(q)  BY <2>1
    <2>3. p \in DOMAIN tree /\ tree[p] = Dir  BY <1>3, <2>1, <2>2, WayIsThere
    <2>4. SubSeq(q, 1, n + 1) \in DOMAIN tree  BY <2>1, <2>2, WayIsThere
    <2>5. q[n + 1] \in Names /\ Append(p, q[n + 1]) = SubSeq(q, 1, n + 1)
      BY <1>3, <2>1, FrontStep
    <2>6. Children(p) # {}  BY <2>4, <2>5 DEF Children, Exists
    <2>7. ~Removable(p)  BY <2>3, <2>6 DEF Removable, IsFile
    <2> QED  BY <1>1, <1>3, <2>3, <2>7
  <1>4. ASSUME NEW q \in DOMAIN tree', NEW n \in 1 .. Len(q) - 1
        PROVE  IsDir(SubSeq(q, 1, n))'
    <2>1. q \in DOMAIN tree /\ q \in Seq(Names) /\ Len(q) \in Nat
      BY <1>1, PathIs DEF TreeType
    <2>2. n \in 1 .. Len(q) /\ n < Len(q)  BY <2>1
    <2>3. SubSeq(q, 1, n) \in DOMAIN tree /\ tree[SubSeq(q, 1, n)] = Dir
      BY <2>1, <2>2, WayIsThere
    <2>4. SubSeq(q, 1, n) \in DOMAIN tree'
      <3> SUFFICES ASSUME SubSeq(q, 1, n) \notin DOMAIN tree'  PROVE FALSE
        OBVIOUS
      <3>1. SubSeq(q, 1, n) \in DOMAIN tree \ DOMAIN tree'  BY <2>3
      <3>2. SubSeq(q, 1, n) = p  BY <1>1, <3>1
      <3> QED  BY <1>3, <3>1, <3>2
    <2> QED  BY <1>1, <2>3, <2>4 DEF IsDir, Exists
  <1>5. NoOrphans'  BY <1>4 DEF NoOrphans
  <1> QED  BY <1>1, <1>2, <1>5

(* A new entry is put into a directory.                                    *)
LEMMA WithKeeps ==
  ASSUME TreeType, NoOrphans, NEW p \in Path, NEW v \in {Dir} \cup 0 .. MaxSize,
         CanCreate(p), tree' = With(p, v)
  PROVE  /\ TreeType' /\ NoOrphans' /\ DOMAIN tree' = DOMAIN tree \cup {p}
         /\ \A q \in DOMAIN tree : tree'[q] = tree[q]
         /\ tree'[p] = v
PROOF
  <1>1. /\ DOMAIN tree' = DOMAIN tree \cup {p}
        /\ \A q \in DOMAIN tree : tree'[q] = tree[q]
        /\ tree'[p] = v
    BY DEF With, CanCreate, Exists
  <1>2. TreeType'  BY <1>1 DEF TreeType
  <1>3. ASSUME NEW q \in DOMAIN tree', NEW n \in 1 .. Len(q) - 1
        PROVE  IsDir(SubSeq(q, 1, n))'
    <2>1. q \in Seq(Names) /\ Len(q) \in Nat  BY <1>2, PathIs DEF TreeType
    <2>2. n \in 1 .. Len(q) /\ n < Len(q) /\ n \in 0 .. Len(q)  BY <2>1
    <2>3. SubSeq(q, 1, n) # <<>>
      <3>1. Len(SubSeq(q, 1, n)) = n  BY <2>1, <2>2, FrontIs
      <3> QED  BY <3>1
    <2>4. SubSeq(q, 1, n) \in DOMAIN tree /\ tree[SubSeq(q, 1, n)] = Dir
      <3>1. CASE q \in DOMAIN tree  BY <2>2, <3>1, WayIsThere
      <3>2. CASE q \notin DOMAIN tree
        <4> DEFINE up == SubSeq(q, 1, Len(q) - 1)
        <4>1. q = p /\ IsDir(up)  BY <1>1, <3>2 DEF CanCreate, Parent, Front
        <4>2. Len(q) - 1 \in 0 .. Len(q) /\ n \in 0 .. Len(q) - 1  BY <2>1, <2>2
        <4>3. Len(up) = Len(q) - 1 /\ SubSeq(up, 1, n) = SubSeq(q, 1, n)
          BY <2>1, <4>2, FrontIs, FrontOfFront
        <4> HIDE DEF up
        <4>4. up # <<>>
          <5>1. Len(up) # 0  BY <2>1, <2>2, <4>3
          <5> QED  BY <5>1
        <4>5. up \in DOMAIN tree /\ tree[up] = Dir  BY <4>1, <4>4 DEF IsDir, Exists
        <4>6. CASE n = Len(q) - 1  BY <4>5, <4>6 DEF up
        <4>7. CASE n # Len(q) - 1
          <5>1. n \in 1 .. Len(up) /\ n < Len(up)  BY <2>1, <2>2, <4>2, <4>3, <4>7
          <5>2. /\ SubSeq(up, 1, n) \in DOMAIN tree
                /\ n < Len(up) => tree[SubSeq(up, 1, n)] = Dir
            BY <4>5, <5>1, WayIsThere
          <5> QED  BY <4>3, <5>1, <5>2
        <4> QED  BY <4>6, <4>7
      <3> QED  BY <3>1, <3>2
    <2> QED  BY <1>1, <2>4 DEF IsDir, Exists
  <1>4. NoOrphans'  BY <1>3 DEF NoOrphans
  <1> QED  BY <1>1, <1>2, <1>4

-----------------------------------------------------------------------------
(* f_rename.  Nothing is below the target, since the way to it would go    *)
(* through the target.                                                     *)
RenameOK(s, d) ==
  /\ s \in DOMAIN tree /\ d \in Path \ DOMAIN tree
  /\ IsDir(Parent(d)) /\ ~IsPrefix(s, d)
  /\ \A q \in Under(s) : Len(Moved(s, d, q)) <= MaxDepth

LEMMA PathsAre ==
  ASSUME TreeType, NEW s, NEW d, RenameOK(s, d)
  PROVE  /\ s \in Seq(Names) /\ d \in Seq(Names)
         /\ Len(s) \in Nat \ {0} /\ Len(d) \in Nat \ {0} /\ Len(d) <= MaxDepth
         /\ \A q \in DOMAIN tree : q \in Seq(Names) /\ Len(q) \in Nat \ {0} /\ Len(q) <= MaxDepth
PROOF BY PathIs, FSTreeAssumption DEF TreeType, RenameOK

LEMMA NothingBelow ==
  ASSUME TreeType, NoOrphans, NEW d \in Path \ DOMAIN tree, NEW q \in DOMAIN tree
  PROVE  ~IsPrefix(d, q)
PROOF
  <1> SUFFICES ASSUME IsPrefix(d, q)  PROVE FALSE  OBVIOUS
  <1>1. q \in Seq(Names) /\ d \in Seq(Names) /\ Len(q) \in Nat /\ Len(d) \in Nat \ {0}
    BY PathIs DEF TreeType
  <1>2. Len(d) <= Len(q) /\ SubSeq(q, 1, Len(d)) = d  BY <1>1, PrefixIsFront
  <1>3. Len(d) \in 1 .. Len(q)  BY <1>1, <1>2
  <1>4. SubSeq(q, 1, Len(d)) \in DOMAIN tree  BY <1>3, WayIsThere
  <1> QED  BY <1>2, <1>4

LEMMA MovedInjective ==
  ASSUME TreeType, NoOrphans, NEW s, NEW d, RenameOK(s, d),
         NEW q \in DOMAIN tree, NEW r \in DOMAIN tree, Moved(s, d, q) = Moved(s, d, r)
  PROVE  q = r
PROOF
  <1>1. /\ s \in Seq(Names) /\ d \in Seq(Names) /\ q \in Seq(Names) /\ r \in Seq(Names)
        /\ Len(s) \in Nat /\ Len(d) \in Nat /\ Len(q) \in Nat /\ Len(r) \in Nat
    BY PathsAre
  <1>2. ~IsPrefix(d, q) /\ ~IsPrefix(d, r)  BY NothingBelow DEF RenameOK
  <1>3. CASE IsPrefix(s, q) /\ IsPrefix(s, r)
    <2>1. /\ Len(Moved(s, d, q)) = Len(d) + Len(q) - Len(s)
          /\ \A i \in 1 .. Len(q) - Len(s) : Moved(s, d, q)[Len(d) + i] = q[Len(s) + i]
      BY <1>1, <1>3, MovedIs
    <2>2. /\ Len(Moved(s, d, r)) = Len(d) + Len(r) - Len(s)
          /\ \A i \in 1 .. Len(r) - Len(s) : Moved(s, d, r)[Len(d) + i] = r[Len(s) + i]
      BY <1>1, <1>3, MovedIs
    <2>3. Len(q) = Len(r)  BY <1>1, <2>1, <2>2
    <2>4. /\ \A i \in 1 .. Len(s) : s[i] = q[i]
          /\ \A i \in 1 .. Len(s) : s[i] = r[i]
      BY <1>1, <1>3, PrefixIs
    <2>5. ASSUME NEW i \in 1 .. Len(q)  PROVE q[i] = r[i]
      <3>1. CASE i <= Len(s)  BY <1>1, <2>4, <3>1
      <3>2. CASE i > Len(s)
        <4> DEFINE k == i - Len(s)
        <4>1. k \in 1 .. Len(q) - Len(s) /\ i = Len(s) + k  BY <1>1, <3>2
        <4> HIDE DEF k
        <4>2. q[Len(s) + k] = Moved(s, d, q)[Len(d) + k]  BY <2>1, <4>1
        <4>3. r[Len(s) + k] = Moved(s, d, r)[Len(d) + k]  BY <2>2, <2>3, <4>1
        <4> QED  BY <4>1, <4>2, <4>3
      <3> QED  BY <1>1, <3>1, <3>2
    <2> QED  BY <1>1, <2>3, <2>5, SeqEqual
  <1>4. CASE ~IsPrefix(s, q) /\ ~IsPrefix(s, r)
    BY <1>1, <1>4, MovedIs
  <1>5. CASE IsPrefix(s, q) /\ ~IsPrefix(s, r)
    <2>1. Moved(s, d, r) = r /\ IsPrefix(d, Moved(s, d, q))  BY <1>1, <1>5, MovedIs
    <2> QED  BY <1>2, <2>1
  <1>6. CASE ~IsPrefix(s, q) /\ IsPrefix(s, r)
    <2>1. Moved(s, d, q) = q /\ IsPrefix(d, Moved(s, d, r))  BY <1>1, <1>6, MovedIs
    <2> QED  BY <1>2, <2>1
  <1> QED  BY <1>3, <1>4, <1>5, <1>6

(* The entries after a rename are the renamed entries.                     *)
LEMMA RenameIs ==
  ASSUME TreeType, NoOrphans, NEW s, NEW d, RenameOK(s, d), f_rename(s, d)
  PROVE  /\ DOMAIN tree' = {Moved(s, d, r) : r \in DOMAIN tree}
         /\ \A r \in DOMAIN tree : tree'[Moved(s, d, r)] = tree[r]
PROOF
  <1> DEFINE from == [q \in {Moved(s, d, r) : r \in DOMAIN tree} |->
                        CHOOSE r \in DOMAIN tree : Moved(s, d, r) = q]
  <1>1. tree' = [q \in DOMAIN from |-> tree[from[q]]]  BY DEF f_rename
  <1>2. ASSUME NEW r \in DOMAIN tree  PROVE from[Moved(s, d, r)] = r
    <2>1. /\ from[Moved(s, d, r)] \in DOMAIN tree
          /\ Moved(s, d, from[Moved(s, d, r)]) = Moved(s, d, r)
      OBVIOUS
    <2> HIDE DEF from
    <2> QED  BY <2>1, MovedInjective
  <1>3. DOMAIN from = {Moved(s, d, r) : r \in DOMAIN tree}  OBVIOUS
  <1> HIDE DEF from
  <1> QED  BY <1>1, <1>2, <1>3

(* A directory on the way to a renamed entry is a directory afterwards:    *)
(* one on the way to the target, or a renamed one.                         *)
LEMMA RenameWay ==
  ASSUME TreeType, NoOrphans, NEW s, NEW d, RenameOK(s, d), f_rename(s, d),
         NEW r \in DOMAIN tree, NEW n \in 1 .. Len(Moved(s, d, r)) - 1
  PROVE  LET x == SubSeq(Moved(s, d, r), 1, n)
         IN  x \in DOMAIN tree' /\ tree'[x] = Dir
PROOF
  <1> DEFINE m == Moved(s, d, r)
             x == SubSeq(m, 1, n)
  <1>1. /\ s \in Seq(Names) /\ d \in Seq(Names) /\ r \in Seq(Names) /\ m \in Seq(Names)
        /\ Len(s) \in Nat \ {0} /\ Len(d) \in Nat \ {0} /\ Len(r) \in Nat /\ Len(m) \in Nat
    BY PathsAre, MovedIs
  <1>2. n \in 1 .. Len(m) /\ n < Len(m) /\ n \in 0 .. Len(m)  BY <1>1
  <1>3. x \in Seq(Names) /\ Len(x) = n /\ \A i \in 1 .. n : x[i] = m[i]
    BY <1>1, <1>2, FrontIs
  <1>4. ASSUME x \in DOMAIN tree, tree[x] = Dir, ~IsPrefix(s, x)
        PROVE  x \in DOMAIN tree' /\ tree'[x] = Dir
    <2>1. Moved(s, d, x) = x  BY <1>4 DEF Moved
    <2> QED  BY <1>4, <2>1, RenameIs
  <1>5. CASE ~IsPrefix(s, r)
    <2>1. m = r  BY <1>5 DEF Moved
    <2>2. x \in DOMAIN tree /\ tree[x] = Dir  BY <1>2, <2>1, WayIsThere
    <2>3. IsPrefix(x, r)
      <3>1. Len(x) <= Len(r) /\ \A i \in 1 .. Len(x) : x[i] = r[i]
        BY <1>1, <1>2, <1>3, <2>1
      <3> QED  BY <1>1, <1>3, <3>1, PrefixIs
    <2>4. ~IsPrefix(s, x)  BY <1>1, <1>3, <1>5, <2>3, PrefixTransitive
    <2> QED  BY <1>4, <2>2, <2>4
  <1>6. CASE IsPrefix(s, r) /\ n < Len(d)
    <2>1. IsPrefix(d, m)  BY <1>1, <1>6, MovedIs
    <2>2. SubSeq(m, 1, Len(d)) = d /\ Len(d) <= Len(m)  BY <1>1, <2>1, PrefixIsFront
    <2>3. x = SubSeq(d, 1, n)
      <3>1. Len(d) \in 0 .. Len(m) /\ n \in 0 .. Len(d)  BY <1>1, <1>6, <2>2
      <3>2. SubSeq(SubSeq(m, 1, Len(d)), 1, n) = SubSeq(m, 1, n)
        BY <1>1, <3>1, FrontOfFront
      <3> QED  BY <2>2, <3>2
    <2>4. IsPrefix(x, d)
      <3>1. n \in 0 .. Len(d)  BY <1>1, <1>6
      <3>2. Len(x) <= Len(d) /\ \A i \in 1 .. Len(x) : x[i] = d[i]
        BY <1>1, <1>3, <1>6, <2>3, <3>1, FrontIs
      <3> QED  BY <1>1, <1>3, <3>2, PrefixIs
    <2>5. ~IsPrefix(s, x)  BY <1>1, <1>3, <2>4, PrefixTransitive DEF RenameOK
    <2>6. x \in DOMAIN tree /\ tree[x] = Dir
      <3> DEFINE up == SubSeq(d, 1, Len(d) - 1)
      <3>1. IsDir(up)  BY DEF RenameOK, Parent, Front
      <3>2. Len(d) - 1 \in 0 .. Len(d) /\ n \in 0 .. Len(d) - 1  BY <1>1, <1>2, <1>6
      <3>3. Len(up) = Len(d) - 1 /\ SubSeq(up, 1, n) = SubSeq(d, 1, n)
        BY <1>1, <3>2, FrontIs, FrontOfFront
      <3> HIDE DEF up
      <3>4. up # <<>>
        <4>1. Len(up) # 0  BY <1>1, <1>2, <1>6, <3>3
        <4> QED  BY <4>1
      <3>5. up \in DOMAIN tree /\ tree[up] = Dir  BY <3>1, <3>4 DEF IsDir, Exists
      <3>6. n \in 1 .. Len(up)  BY <1>1, <1>2, <1>6, <3>3
      <3>7. /\ SubSeq(up, 1, n) \in DOMAIN tree
            /\ n < Len(up) => tree[SubSeq(up, 1, n)] = Dir
        BY <3>5, <3>6, WayIsThere
      <3>8. CASE n = Len(up)
        <4>1. SubSeq(up, 1, n) = up
          <5>1. up \in Seq(Names) /\ n \in 0 .. Len(up)
            BY <1>1, <3>5, <3>6, PathsAre
          <5> QED  BY <3>8, <5>1, FrontIs
        <4> QED  BY <2>3, <3>3, <3>5, <4>1
      <3>9. CASE n < Len(up)  BY <2>3, <3>3, <3>7, <3>9
      <3> QED  BY <1>1, <3>3, <3>6, <3>8, <3>9
    <2> QED  BY <1>4, <2>5, <2>6
  <1>7. CASE IsPrefix(s, r) /\ n >= Len(d)
    <2> DEFINE k == n - Len(d) + Len(s)
               y == SubSeq(r, 1, k)
               my == Moved(s, d, y)
    <2>1. /\ Len(m) = Len(d) + Len(r) - Len(s) /\ IsPrefix(d, m)
          /\ \A i \in 1 .. Len(r) - Len(s) : m[Len(d) + i] = r[Len(s) + i]
      BY <1>1, <1>7, MovedIs
    <2>2. Len(s) <= Len(r) /\ \A i \in 1 .. Len(s) : s[i] = r[i]  BY <1>1, <1>7, PrefixIs
    <2>3. k \in 1 .. Len(r) /\ k < Len(r) /\ k \in 0 .. Len(r) /\ Len(s) <= k
      BY <1>1, <1>2, <1>7, <2>1, <2>2
    <2>4. y \in DOMAIN tree /\ tree[y] = Dir  BY <2>3, WayIsThere
    <2>5. y \in Seq(Names) /\ Len(y) = k /\ \A i \in 1 .. k : y[i] = r[i]
      BY <1>1, <2>3, FrontIs
    <2>6. IsPrefix(s, y)
      <3>1. \A i \in 1 .. Len(s) : s[i] = y[i]  BY <1>1, <2>2, <2>3, <2>5
      <3> QED  BY <1>1, <2>3, <2>5, <3>1, PrefixIs
    <2>7. /\ my \in Seq(Names) /\ Len(my) = Len(d) + Len(y) - Len(s) /\ IsPrefix(d, my)
          /\ \A i \in 1 .. Len(y) - Len(s) : my[Len(d) + i] = y[Len(s) + i]
      BY <1>1, <2>5, <2>6, MovedIs
    <2>8. my = x
      <3> HIDE DEF x, m, y, my
      <3>1. Len(my) = Len(x)  BY <1>1, <1>2, <1>3, <2>5, <2>7
      <3>2. /\ \A i \in 1 .. Len(d) : d[i] = m[i]
            /\ \A i \in 1 .. Len(d) : d[i] = my[i]
        BY <1>1, <2>1, <2>7, PrefixIs
      <3>3. ASSUME NEW i \in 1 .. Len(x)  PROVE my[i] = x[i]
        <4>1. CASE i <= Len(d)  BY <1>1, <1>3, <3>2, <4>1
        <4>2. CASE i > Len(d)
          <5> DEFINE j == i - Len(d)
          <5>1. /\ j \in 1 .. Len(y) - Len(s) /\ j \in 1 .. Len(r) - Len(s)
                /\ i = Len(d) + j /\ Len(s) + j \in 1 .. k /\ i \in 1 .. n
            BY <1>1, <1>2, <1>3, <2>3, <2>5, <4>2
          <5> HIDE DEF j, k
          <5>2. my[i] = y[Len(s) + j]  BY <2>7, <5>1
          <5>3. y[Len(s) + j] = r[Len(s) + j]  BY <2>5, <5>1
          <5>4. x[i] = m[i] /\ m[i] = r[Len(s) + j]  BY <1>3, <2>1, <5>1
          <5> QED  BY <5>2, <5>3, <5>4
        <4> QED  BY <1>1, <1>3, <4>1, <4>2
      <3> QED  BY <1>3, <2>7, <3>1, <3>3, SeqEqual
    <2> QED  BY <2>4, <2>8, RenameIs
  <1>8. n < Len(d) \/ n >= Len(d)  BY <1>1, <1>2
  <1> QED  BY <1>5, <1>6, <1>7, <1>8

LEMMA RenameKeeps ==
  ASSUME TreeType, NoOrphans, NEW s, NEW d, RenameOK(s, d), f_rename(s, d)
  PROVE  /\ TreeType' /\ NoOrphans'
         /\ \A q \in DOMAIN tree : ~IsPrefix(s, q) => q \in DOMAIN tree' /\ tree'[q] = tree[q]
         /\ \A q \in DOMAIN tree : Moved(s, d, q) \in DOMAIN tree'
PROOF
  <1>1. /\ DOMAIN tree' = {Moved(s, d, r) : r \in DOMAIN tree}
        /\ \A r \in DOMAIN tree : tree'[Moved(s, d, r)] = tree[r]
    BY RenameIs
  <1>2. ASSUME NEW r \in DOMAIN tree  PROVE Moved(s, d, r) \in Path
    <2>1. CASE ~IsPrefix(s, r)  BY <2>1 DEF Moved, TreeType
    <2>2. CASE IsPrefix(s, r)
      <3>1. /\ s \in Seq(Names) /\ d \in Seq(Names) /\ r \in Seq(Names)
            /\ Len(s) \in Nat /\ Len(d) \in Nat \ {0} /\ Len(r) \in Nat
        BY PathsAre
      <3>2. /\ Moved(s, d, r) \in Seq(Names) /\ Len(s) <= Len(r)
            /\ Len(Moved(s, d, r)) = Len(d) + Len(r) - Len(s)
        BY <2>2, <3>1, MovedIs, PrefixIs
      <3>3. Len(Moved(s, d, r)) <= MaxDepth  BY <2>2 DEF RenameOK, Under
      <3> QED  BY <3>1, <3>2, <3>3, PathIs, FSTreeAssumption
    <2> QED  BY <2>1, <2>2
  <1>3. TreeType'  BY <1>1, <1>2 DEF TreeType
  <1>4. ASSUME NEW q \in DOMAIN tree', NEW n \in 1 .. Len(q) - 1
        PROVE  IsDir(SubSeq(q, 1, n))'
    <2>1. PICK r \in DOMAIN tree : q = Moved(s, d, r)  BY <1>1
    <2>2. SubSeq(q, 1, n) \in DOMAIN tree' /\ tree'[SubSeq(q, 1, n)] = Dir
      BY <2>1, RenameWay
    <2> QED  BY <2>2 DEF IsDir, Exists
  <1>5. NoOrphans'  BY <1>4 DEF NoOrphans
  <1>6. \A q \in DOMAIN tree : ~IsPrefix(s, q) => q \in DOMAIN tree' /\ tree'[q] = tree[q]
    BY <1>1 DEF Moved
  <1> QED  BY <1>1, <1>3, <1>5, <1>6

-----------------------------------------------------------------------------
(* The calls of FS_Delete under way stay below the path of the request.    *)
Frame == [path : Seq(Names), seen : SUBSET Names, LFilePath : Seq(Names)]

Below(a, st) ==
  \A k \in DOMAIN st : /\ IsPrefix(a, st[k].path)
                       /\ st[k].LFilePath # <<>> => IsPrefix(a, st[k].LFilePath)

LEMMA FrontFrames ==
  ASSUME NEW st \in Seq(Frame), st # <<>>, NEW a, Below(a, st)
  PROVE  /\ Front(st) \in Seq(Frame) /\ Below(a, Front(st))
         /\ Last(st) \in Frame /\ IsPrefix(a, Last(st).path)
         /\ Last(st).LFilePath # <<>> => IsPrefix(a, Last(st).LFilePath)
PROOF
  <1>1. Len(st) \in Nat \ {0} /\ DOMAIN st = 1 .. Len(st) /\ \A i \in 1 .. Len(st) : st[i] \in Frame
    BY EmptySeq, LenProperties, ElementOfSeq
  <1>2. /\ Front(st) \in Seq(Frame) /\ Len(Front(st)) = Len(st) - 1
        /\ \A i \in 1 .. Len(st) - 1 : Front(st)[i] = st[i]
    <2>1. /\ 1 \in Int /\ Len(st) - 1 \in Int
          /\ \A i \in 1 .. Len(st) - 1 : st[i] \in Frame
      BY <1>1
    <2>2. /\ SubSeq(st, 1, Len(st) - 1) \in Seq(Frame)
          /\ Len(SubSeq(st, 1, Len(st) - 1)) = IF 1 <= Len(st) - 1 THEN Len(st) - 1 - 1 + 1 ELSE 0
          /\ \A i \in 1 .. Len(st) - 1 - 1 + 1 : SubSeq(st, 1, Len(st) - 1)[i] = st[1 + i - 1]
      BY <2>1, SubSeqProperties
    <2> QED  BY <1>1, <2>2 DEF Front
  <1>3. DOMAIN Front(st) = 1 .. Len(st) - 1  BY <1>2, LenProperties
  <1>4. Below(a, Front(st))  BY <1>1, <1>2, <1>3 DEF Below
  <1>5. Last(st) = st[Len(st)] /\ Len(st) \in DOMAIN st  BY <1>1 DEF Last
  <1> QED  BY <1>1, <1>2, <1>4, <1>5 DEF Below

LEMMA PushFrame ==
  ASSUME NEW st \in Seq(Frame), NEW a, Below(a, st), NEW fr \in Frame,
         IsPrefix(a, fr.path), fr.LFilePath # <<>> => IsPrefix(a, fr.LFilePath)
  PROVE  Append(st, fr) \in Seq(Frame) /\ Below(a, Append(st, fr))
PROOF
  <1>1. /\ Append(st, fr) \in Seq(Frame) /\ Len(Append(st, fr)) = Len(st) + 1
        /\ \A i \in 1 .. Len(st) : Append(st, fr)[i] = st[i]
        /\ Append(st, fr)[Len(st) + 1] = fr
    BY AppendProperties
  <1>2. /\ Len(st) \in Nat /\ DOMAIN st = 1 .. Len(st)
        /\ DOMAIN Append(st, fr) = 1 .. Len(st) + 1
    BY <1>1, LenProperties
  <1>3. Below(a, Append(st, fr))
    <2> SUFFICES ASSUME NEW k \in 1 .. Len(st) + 1
                 PROVE  /\ IsPrefix(a, Append(st, fr)[k].path)
                        /\ Append(st, fr)[k].LFilePath # <<>>
                             => IsPrefix(a, Append(st, fr)[k].LFilePath)
      BY <1>2 DEF Below
    <2>1. CASE k \in 1 .. Len(st)  BY <1>1, <1>2, <2>1 DEF Below
    <2>2. CASE k = Len(st) + 1  BY <1>1, <2>2
    <2> QED  BY <1>2, <2>1, <2>2
  <1> QED  BY <1>1, <1>3

-----------------------------------------------------------------------------
(* The inductive invariant.                                                *)
OpType ==
  /\ op \in [kind : {"none", "delete", "clear", "move", "replace", "again", "boot"},
             s : Path \cup {<<>>}, d : Path \cup {<<>>}]
  /\ nandpath \in Seq(Names) /\ stack \in Seq(Frame)

FilesType ==
  /\ fd_stack \in [Handles -> OpenFile \cup {Closed}]
  /\ \A h \in Handles : fd_stack[h].fptr <= fd_stack[h].fsize
  /\ obcd_trig \in [Handles -> BOOLEAN]

OwnersType ==
  /\ HAXHandle \in Handles \cup {NoHandle}
  /\ held \in [Clients -> SUBSET Handles] /\ pending \in BOOLEAN

TableType == FilesType /\ OwnersType

(* What FS_Delete may remove is not open, and the walk stays below it.     *)
WalkInv ==
  /\ op.kind \in {"delete", "clear", "boot"} => op.s \in Path /\ NotOpen(op.s)
  /\ stack # <<>> => /\ op.kind \in {"clear", "boot"}
                     /\ IsPrefix(op.s, nandpath) /\ Below(op.s, stack)

(* What was checked of a rename when it was asked for is still so.         *)
MoveInv ==
  op.kind \in {"move", "replace", "again"} =>
    /\ op.s \in DOMAIN tree /\ op.d \in Path /\ IsDir(Parent(op.d)) /\ ~IsPrefix(op.s, op.d)
    /\ \A q \in Under(op.s) : Len(Moved(op.s, op.d, q)) <= MaxDepth
    /\ NotOpen(op.s) /\ NotOpen(op.d)
    /\ op.kind = "again" => op.d \notin DOMAIN tree

(* A file is there as long as it is open.                                  *)
OpenIsFile == \A h \in Handles : InUse(h) /\ ~obcd_trig[h] => IsFile(fd_stack[h].path)

IInv ==
  /\ TreeType /\ NoOrphans
  /\ OpType /\ WalkInv /\ MoveInv
  /\ TableType /\ OneOwner /\ RawOnlyIfAsked /\ OpenIsFile

LEMMA TypeIs == TypeOK <=> TreeType /\ OpType /\ TableType
PROOF BY Zenon DEF TypeOK, TreeType, OpType, TableType, FilesType, OwnersType, Frame

-----------------------------------------------------------------------------
(* The steps of the request the module is at.                              *)

LEMMA InUseIs ==
  /\ \A f \in OpenFile : f # Closed
  /\ TableType => \A h \in Handles : InUse(h) => fd_stack[h] \in OpenFile
PROOF
  <1>1. ASSUME NEW f \in OpenFile  PROVE f # Closed
    <2>1. f.path \in Path  BY DEF OpenFile
    <2>2. <<>> \notin Path  BY PathIs
    <2> QED  BY <2>1, <2>2 DEF Closed
  <1> QED  BY <1>1 DEF TableType, FilesType, InUse

(* These steps leave the handle table alone.                               *)
LEMMA TableKept ==
  ASSUME TableType, OneOwner, RawOnlyIfAsked, UNCHANGED table
  PROVE  /\ TableType' /\ OneOwner' /\ RawOnlyIfAsked'
         /\ NotOpen(op.s) /\ op'.s = op.s => NotOpen(op.s)'
         /\ NotOpen(op.d) /\ op'.d = op.d => NotOpen(op.d)'
PROOF
  <1>1. /\ fd_stack' = fd_stack /\ obcd_trig' = obcd_trig /\ HAXHandle' = HAXHandle
        /\ held' = held /\ pending' = pending
    BY DEF table
  <1>2. TableType'  BY <1>1 DEF TableType, FilesType, OwnersType
  <1>3. OneOwner'  BY <1>1 DEF OneOwner, InUse
  <1>4. RawOnlyIfAsked'  BY <1>1 DEF RawOnlyIfAsked, InUse
  <1>5. NotOpen(op.s) /\ op'.s = op.s => NotOpen(op.s)'  BY <1>1 DEF NotOpen, InUse
  <1>6. NotOpen(op.d) /\ op'.d = op.d => NotOpen(op.d)'  BY <1>1 DEF NotOpen, InUse
  <1> QED  BY <1>2, <1>3, <1>4, <1>5, <1>6

(* What is removed below a path nobody has open is not open.               *)
LEMMA UnlinkOpen ==
  ASSUME TreeType, NoOrphans, TableType, OpenIsFile, UNCHANGED table,
         NEW a, NotOpen(a), NEW x, IsPrefix(a, x), f_unlink(x)
  PROVE  OpenIsFile'
PROOF
  <1>1. fd_stack' = fd_stack /\ obcd_trig' = obcd_trig  BY DEF table
  <1>2. /\ DOMAIN tree \ DOMAIN tree' \subseteq {x}
        /\ \A q \in DOMAIN tree' : tree'[q] = tree[q]
    BY UnlinkKeeps
  <1>3. ASSUME NEW h \in Handles, InUse(h), ~obcd_trig[h]
        PROVE  IsFile(fd_stack[h].path)'
    <2>1. fd_stack[h].path \in DOMAIN tree /\ tree[fd_stack[h].path] # Dir
      BY <1>3 DEF OpenIsFile, IsFile, Exists
    <2>2. fd_stack[h].path # x  BY <1>3 DEF NotOpen
    <2>3. fd_stack[h].path \in DOMAIN tree'  BY <1>2, <2>1, <2>2
    <2> QED  BY <1>1, <1>2, <2>1, <2>3 DEF IsFile, Exists
  <1> QED  BY <1>1, <1>3 DEF OpenIsFile, InUse

(* The request is answered, and no call is under way.                      *)
LEMMA DoneKeeps ==
  ASSUME Done, stack' = <<>>
  PROVE  OpType' /\ WalkInv' /\ MoveInv'
PROOF
  <1>1. op' = [kind |-> "none", s |-> <<>>, d |-> <<>>] /\ nandpath' = <<>>
    BY DEF Done, Idle
  <1>2. op'.kind = "none"  BY <1>1
  <1>3. OpType'  BY <1>1 DEF OpType
  <1>4. WalkInv'  BY <1>2 DEF WalkInv
  <1>5. MoveInv'  BY <1>2 DEF MoveInv
  <1> QED  BY <1>3, <1>4, <1>5

(* FS_Delete sets nandpath to a path below that of the request.            *)
LEMMA DeleteCall ==
  ASSUME NEW a \in Seq(Names), NEW p \in Seq(Names), IsPrefix(a, p),
         NEW callers \in Seq(Frame), Below(a, callers), FS_Delete(p, callers)
  PROVE  /\ nandpath' \in Seq(Names) /\ IsPrefix(a, nandpath')
         /\ stack' \in Seq(Frame) /\ Below(a, stack')
PROOF
  <1>1. Call(p) \in Frame  BY DEF Call, Frame
  <1>2. Call(p).path = p /\ Call(p).LFilePath = <<>>  BY DEF Call
  <1>3. Append(callers, Call(p)) \in Seq(Frame) /\ Below(a, Append(callers, Call(p)))
    <2> HIDE DEF Call
    <2> QED  BY <1>1, <1>2, PushFrame
  <1>4. stack' = callers \/ stack' = Append(callers, Call(p))  BY DEF FS_Delete
  <1>5. nandpath' = p  BY DEF FS_Delete
  <1>6. stack' \in Seq(Frame) /\ Below(a, stack')  BY <1>3, <1>4
  <1> QED  BY <1>5, <1>6

Kept == UNCHANGED table
Vanishing == \A p \in DOMAIN tree \ DOMAIN tree' : VanishesRightly(p)

LEMMA KeepsDeleteFile ==
  IInv /\ DeleteFile /\ Kept => IInv' /\ Vanishing
PROOF
  <1> SUFFICES ASSUME IInv, DeleteFile, Kept  PROVE IInv' /\ Vanishing
    OBVIOUS
  <1> USE DEF IInv, Kept
  <1>1. op.kind = "delete" /\ f_unlink(op.s)  BY DEF DeleteFile
  <1>2. op.s \in Path /\ NotOpen(op.s) /\ stack = <<>>  BY <1>1 DEF WalkInv
  <1>3. op.s \in Seq(Names) /\ IsPrefix(op.s, op.s)  BY <1>2, PathIs, PrefixSelf
  <1>4. /\ TreeType' /\ NoOrphans'
        /\ DOMAIN tree \ DOMAIN tree' \subseteq {op.s}
    BY <1>1, UnlinkKeeps
  <1>5. /\ TableType' /\ OneOwner' /\ RawOnlyIfAsked'
        /\ op'.s = op.s => NotOpen(op.s)'
    BY <1>2, TableKept
  <1>6. OpenIsFile'  BY <1>1, <1>2, <1>3, UnlinkOpen
  <1>7. Vanishing  BY <1>1, <1>3, <1>4 DEF Vanishing, VanishesRightly
  <1>8. OpType' /\ WalkInv' /\ MoveInv'
    <2>1. CASE Removable(op.s)
      <3>1. Done /\ stack' = <<>>  BY <1>2, <2>1 DEF DeleteFile
      <3> QED  BY <3>1, DoneKeeps
    <2>2. CASE ~Removable(op.s)
      <3>1. op' = [op EXCEPT !.kind = "clear"] /\ FS_Delete(op.s, <<>>)
        BY <2>2 DEF DeleteFile
      <3>2. <<>> \in Seq(Frame) /\ Below(op.s, <<>>)  BY DEF Below
      <3>3. /\ nandpath' \in Seq(Names) /\ IsPrefix(op.s, nandpath')
            /\ stack' \in Seq(Frame) /\ Below(op.s, stack')
        BY <1>3, <3>1, <3>2, DeleteCall
      <3>4. op'.kind = "clear" /\ op'.s = op.s
            /\ op' \in [kind : {"none", "delete", "clear", "move", "replace", "again", "boot"},
                        s : Path \cup {<<>>}, d : Path \cup {<<>>}]
        BY <3>1 DEF OpType
      <3>5. OpType'  BY <3>3, <3>4 DEF OpType
      <3>6. WalkInv'
        <4>1. NotOpen(op.s)'  BY <1>5, <3>4
        <4> QED  BY <1>2, <3>3, <3>4, <4>1 DEF WalkInv
      <3>7. MoveInv'  BY <3>4 DEF MoveInv
      <3> QED  BY <3>5, <3>6, <3>7
    <2> QED  BY <2>1, <2>2
  <1> QED  BY <1>4, <1>5, <1>6, <1>7, <1>8

(* A step of the walk of FS_Delete.                                        *)
LEMMA WalkKeeps ==
  ASSUME IInv, Kept, stack # <<>>, UNCHANGED op,
         UNCHANGED tree \/ \E x : IsPrefix(op.s, x) /\ f_unlink(x),
         nandpath' \in Seq(Names), stack' \in Seq(Frame),
         stack' # <<>> => IsPrefix(op.s, nandpath') /\ Below(op.s, stack')
  PROVE  IInv' /\ Vanishing
PROOF
  <1> USE DEF IInv, Kept
  <1>1. op.kind \in {"clear", "boot"} /\ op.s \in Path /\ NotOpen(op.s)  BY DEF WalkInv
  <1>2. /\ TableType' /\ OneOwner' /\ RawOnlyIfAsked' /\ NotOpen(op.s)'
    BY <1>1, TableKept
  <1>3. OpType'  BY DEF OpType
  <1>4. WalkInv'  BY <1>1, <1>2 DEF WalkInv
  <1>5. MoveInv'  BY <1>1 DEF MoveInv
  <1>6. TreeType' /\ NoOrphans' /\ OpenIsFile' /\ Vanishing
    <2>1. CASE UNCHANGED tree
      <3>1. TreeType' /\ NoOrphans'  BY <2>1 DEF TreeType, NoOrphans, IsDir, Exists
      <3>2. OpenIsFile'  BY <2>1 DEF OpenIsFile, InUse, IsFile, Exists, table
      <3>3. Vanishing  BY <2>1 DEF Vanishing
      <3> QED  BY <3>1, <3>2, <3>3
    <2>2. ASSUME NEW x, IsPrefix(op.s, x), f_unlink(x)
          PROVE  TreeType' /\ NoOrphans' /\ OpenIsFile' /\ Vanishing
      <3>1. /\ TreeType' /\ NoOrphans'
            /\ DOMAIN tree \ DOMAIN tree' \subseteq {x}
        BY <2>2, UnlinkKeeps
      <3>2. OpenIsFile'  BY <1>1, <2>2, UnlinkOpen
      <3>3. Vanishing  BY <1>1, <2>2, <3>1 DEF Vanishing, VanishesRightly
      <3> QED  BY <3>1, <3>2, <3>3
    <2> QED  BY <2>1, <2>2
  <1> QED  BY <1>2, <1>3, <1>4, <1>5, <1>6

(* The frame of the loop, and the loop's new one after the entry n.        *)
LEMMA TopIs ==
  ASSUME IInv, stack # <<>>
  PROVE  /\ op.s \in Seq(Names) /\ IsPrefix(op.s, nandpath) /\ nandpath \in Seq(Names)
         /\ Front(stack) \in Seq(Frame) /\ Below(op.s, Front(stack))
         /\ Top \in Frame /\ IsPrefix(op.s, Top.path)
         /\ Top.LFilePath # <<>> => IsPrefix(op.s, Top.LFilePath)
PROOF
  <1>1. op.s \in Path /\ IsPrefix(op.s, nandpath) /\ Below(op.s, stack)
    BY DEF IInv, WalkInv
  <1>2. op.s \in Seq(Names)  BY <1>1, PathIs
  <1>3. stack \in Seq(Frame) /\ nandpath \in Seq(Names)  BY DEF IInv, OpType
  <1> QED  BY <1>1, <1>2, <1>3, FrontFrames DEF Top

LEMMA KeepsTurn ==
  ASSUME IInv, NEW n \in Names, Turn(n), Kept
  PROVE  IInv' /\ Vanishing
PROOF
  <1> DEFINE file == Append(nandpath, n)
             at == Append(Top.path, n)
             seen == [Top EXCEPT !.seen = @ \cup {n}]
             call == [seen EXCEPT !.LFilePath = file]
  <1>1. /\ stack # <<>> /\ Top.LFilePath = <<>> /\ f_unlink(file) /\ UNCHANGED op
        /\ \/ UNCHANGED nandpath /\ stack' = Append(Front(stack), seen)
           \/ FS_Delete(at, Append(Front(stack), call))
           \/ UNCHANGED nandpath /\ stack' = Front(stack)
    BY DEF Turn
  <1>2. /\ op.s \in Seq(Names) /\ IsPrefix(op.s, nandpath) /\ nandpath \in Seq(Names)
        /\ Front(stack) \in Seq(Frame) /\ Below(op.s, Front(stack))
        /\ Top \in Frame /\ IsPrefix(op.s, Top.path)
    BY <1>1, TopIs
  <1>3. file \in Seq(Names) /\ IsPrefix(op.s, file)  BY <1>2, PrefixAppend
  <1>4. at \in Seq(Names) /\ IsPrefix(op.s, at)
    <2>1. Top.path \in Seq(Names)  BY <1>2 DEF Frame
    <2> QED  BY <1>2, <2>1, PrefixAppend
  <1>5. seen \in Frame /\ seen.path = Top.path /\ seen.LFilePath = <<>>
    BY <1>1, <1>2 DEF Frame
  <1>6. call \in Frame /\ call.path = Top.path /\ call.LFilePath = file
    BY <1>2, <1>3, <1>5 DEF Frame
  <1> HIDE DEF file, at, seen, call
  <1>7. Append(Front(stack), seen) \in Seq(Frame) /\ Below(op.s, Append(Front(stack), seen))
    BY <1>2, <1>5, PushFrame
  <1>8. Append(Front(stack), call) \in Seq(Frame) /\ Below(op.s, Append(Front(stack), call))
    BY <1>2, <1>3, <1>6, PushFrame
  <1>9. /\ nandpath' \in Seq(Names) /\ IsPrefix(op.s, nandpath')
        /\ stack' \in Seq(Frame) /\ Below(op.s, stack')
    <2>1. CASE FS_Delete(at, Append(Front(stack), call))
      BY <1>2, <1>4, <1>8, <2>1, DeleteCall
    <2>2. CASE UNCHANGED nandpath /\ stack' = Append(Front(stack), seen)
      BY <1>2, <1>7, <2>2
    <2>3. CASE UNCHANGED nandpath /\ stack' = Front(stack)  BY <1>2, <2>3
    <2> QED  BY <1>1, <2>1, <2>2, <2>3
  <1> QED  BY <1>1, <1>3, <1>9, WalkKeeps

LEMMA KeepsAfterCall ==
  IInv /\ AfterCall /\ Kept => IInv' /\ Vanishing
PROOF
  <1> SUFFICES ASSUME IInv, AfterCall, Kept  PROVE IInv' /\ Vanishing
    OBVIOUS
  <1> DEFINE back == [Top EXCEPT !.LFilePath = <<>>]
  <1>1. /\ stack # <<>> /\ Top.LFilePath # <<>> /\ f_unlink(Top.LFilePath)
        /\ stack' = Append(Front(stack), back) /\ UNCHANGED <<op, nandpath>>
    BY DEF AfterCall
  <1>2. /\ op.s \in Seq(Names) /\ IsPrefix(op.s, nandpath) /\ nandpath \in Seq(Names)
        /\ Front(stack) \in Seq(Frame) /\ Below(op.s, Front(stack))
        /\ Top \in Frame /\ IsPrefix(op.s, Top.path) /\ IsPrefix(op.s, Top.LFilePath)
    BY <1>1, TopIs
  <1>3. back \in Frame /\ back.path = Top.path /\ back.LFilePath = <<>>
    <2>1. <<>> \in Seq(Names)  OBVIOUS
    <2>2. /\ back.path = Top.path /\ back.LFilePath = <<>> /\ back.seen = Top.seen
          /\ back = [path |-> Top.path, seen |-> Top.seen, LFilePath |-> <<>>]
      BY <1>2 DEF Frame
    <2>3. Top.path \in Seq(Names) /\ Top.seen \in SUBSET Names  BY <1>2 DEF Frame
    <2> HIDE DEF back
    <2> QED  BY <2>1, <2>2, <2>3 DEF Frame
  <1> HIDE DEF back
  <1>4. stack' \in Seq(Frame) /\ Below(op.s, stack')  BY <1>1, <1>2, <1>3, PushFrame
  <1> QED  BY <1>1, <1>2, <1>4, WalkKeeps

LEMMA KeepsReturn ==
  IInv /\ Return /\ Kept => IInv' /\ Vanishing
PROOF
  <1> SUFFICES ASSUME IInv, Return, Kept  PROVE IInv' /\ Vanishing
    OBVIOUS
  <1>1. stack # <<>> /\ stack' = Front(stack) /\ UNCHANGED <<tree, op, nandpath>>
    BY DEF Return
  <1> QED  BY <1>1, TopIs, WalkKeeps

LEMMA KeepsClearDone ==
  IInv /\ ClearDone /\ Kept => IInv' /\ Vanishing
PROOF
  <1> SUFFICES ASSUME IInv, ClearDone, Kept  PROVE IInv' /\ Vanishing
    OBVIOUS
  <1> USE DEF IInv, Kept
  <1>1. Done /\ stack' = <<>> /\ UNCHANGED tree  BY DEF ClearDone
  <1>2. OpType' /\ WalkInv' /\ MoveInv'  BY <1>1, DoneKeeps
  <1>3. TableType' /\ OneOwner' /\ RawOnlyIfAsked'  BY TableKept
  <1>4. TreeType' /\ NoOrphans'  BY <1>1 DEF TreeType, NoOrphans, IsDir, Exists
  <1>5. OpenIsFile'  BY <1>1 DEF OpenIsFile, InUse, IsFile, Exists, table
  <1>6. Vanishing  BY <1>1 DEF Vanishing
  <1> QED  BY <1>2, <1>3, <1>4, <1>5, <1>6

(* A new entry leaves the files that are open where they are.              *)
LEMMA WithOpen ==
  ASSUME TreeType, NoOrphans, OpenIsFile, UNCHANGED <<fd_stack, obcd_trig>>,
         DOMAIN tree \subseteq DOMAIN tree', \A q \in DOMAIN tree : tree'[q] = tree[q]
  PROVE  OpenIsFile'
PROOF BY DEF OpenIsFile, InUse, IsFile, Exists

LEMMA TmpIs == <<Tmp>> \in Path /\ Front(<<Tmp>>) = <<>>
PROOF
  <1>1. <<Tmp>> \in Seq(Names) /\ Len(<<Tmp>>) = 1  BY FSTreeAssumption
  <1>2. <<Tmp>> \in Path
    <2> DEFINE t == <<Tmp>>
    <2>1. t \in Seq(Names) /\ Len(t) = 1  BY <1>1
    <2>2. 1 \in 1 .. MaxDepth  BY FSTreeAssumption
    <2> HIDE DEF t
    <2>3. t \in Path  BY <2>1, <2>2, PathIs
    <2> QED  BY <2>3 DEF t
  <1>3. 0 \in 0 .. Len(<<Tmp>>)  BY <1>1
  <1>4. SubSeq(<<Tmp>>, 1, 0) \in Seq(Names) /\ Len(SubSeq(<<Tmp>>, 1, 0)) = 0
    BY <1>1, <1>3, FrontIs
  <1>5. SubSeq(<<Tmp>>, 1, 0) = <<>>  BY <1>4, EmptySeq
  <1> QED  BY <1>1, <1>2, <1>5 DEF Front

LEMMA KeepsBootDone ==
  IInv /\ BootDone /\ Kept => IInv' /\ Vanishing
PROOF
  <1> SUFFICES ASSUME IInv, BootDone, Kept  PROVE IInv' /\ Vanishing
    OBVIOUS
  <1> USE DEF IInv, Kept
  <1>1. Done /\ stack' = <<>>  BY DEF BootDone
  <1>2. OpType' /\ WalkInv' /\ MoveInv'  BY <1>1, DoneKeeps
  <1>3. TableType' /\ OneOwner' /\ RawOnlyIfAsked'  BY TableKept
  <1>4. /\ TreeType' /\ NoOrphans' /\ DOMAIN tree \subseteq DOMAIN tree'
        /\ \A q \in DOMAIN tree : tree'[q] = tree[q]
    <2>1. CASE Exists(<<Tmp>>)
      <3>1. tree' = tree  BY <2>1 DEF BootDone
      <3> QED  BY <3>1 DEF TreeType, NoOrphans, IsDir, Exists
    <2>2. CASE ~Exists(<<Tmp>>)
      <3>1. tree' = With(<<Tmp>>, Dir)  BY <2>2 DEF BootDone
      <3>2. CanCreate(<<Tmp>>)  BY <2>2, TmpIs DEF CanCreate, Parent, IsDir
      <3> QED  BY <3>1, <3>2, TmpIs, WithKeeps
    <2> QED  BY <2>1, <2>2
  <1>5. OpenIsFile'  BY <1>4, WithOpen DEF table
  <1>6. Vanishing  BY <1>4 DEF Vanishing
  <1> QED  BY <1>2, <1>3, <1>4, <1>5, <1>6

(* A rename that was asked for, and the files that are open.               *)
LEMMA RenameOpen ==
  ASSUME IInv, op.kind \in {"move", "again"}, op.d \notin DOMAIN tree, Kept,
         f_rename(op.s, op.d)
  PROVE  TreeType' /\ NoOrphans' /\ OpenIsFile' /\ Vanishing
PROOF
  <1> USE DEF IInv, Kept
  <1>1. /\ RenameOK(op.s, op.d) /\ NotOpen(op.s)
    BY DEF MoveInv, RenameOK
  <1>2. /\ TreeType' /\ NoOrphans'
        /\ \A q \in DOMAIN tree : ~IsPrefix(op.s, q) => q \in DOMAIN tree' /\ tree'[q] = tree[q]
        /\ \A q \in DOMAIN tree : Moved(op.s, op.d, q) \in DOMAIN tree'
    BY <1>1, RenameKeeps
  <1>3. OpenIsFile'
    <2>1. ASSUME NEW h \in Handles, InUse(h), ~obcd_trig[h]
          PROVE  /\ fd_stack[h].path \in DOMAIN tree'
                 /\ tree'[fd_stack[h].path] # Dir
      <3>1. fd_stack[h].path \in DOMAIN tree /\ tree[fd_stack[h].path] # Dir
        BY <2>1 DEF OpenIsFile, IsFile, Exists
      <3>2. ~IsPrefix(op.s, fd_stack[h].path)  BY <1>1, <2>1 DEF NotOpen
      <3> QED  BY <1>2, <3>1, <3>2
    <2>2. fd_stack' = fd_stack /\ obcd_trig' = obcd_trig  BY DEF table
    <2> QED  BY <2>1, <2>2 DEF OpenIsFile, InUse, IsFile, Exists
  <1>4. Vanishing  BY <1>2 DEF Vanishing, VanishesRightly
  <1> QED  BY <1>2, <1>3, <1>4

LEMMA KeepsMove ==
  IInv /\ Move /\ Kept => IInv' /\ Vanishing
PROOF
  <1> SUFFICES ASSUME IInv, Move, Kept  PROVE IInv' /\ Vanishing
    OBVIOUS
  <1> USE DEF IInv, Kept
  <1>1. op.kind = "move" /\ UNCHANGED stack  BY DEF Move
  <1>2. stack = <<>>  BY <1>1 DEF WalkInv
  <1>3. /\ TableType' /\ OneOwner' /\ RawOnlyIfAsked'
        /\ NotOpen(op.s) /\ op'.s = op.s => NotOpen(op.s)'
        /\ NotOpen(op.d) /\ op'.d = op.d => NotOpen(op.d)'
    BY TableKept
  <1>4. CASE ~Exists(op.d)
    <2>1. Done /\ f_rename(op.s, op.d)  BY <1>4 DEF Move
    <2>2. OpType' /\ WalkInv' /\ MoveInv'  BY <1>1, <1>2, <2>1, DoneKeeps
    <2>3. TreeType' /\ NoOrphans' /\ OpenIsFile' /\ Vanishing
      BY <1>1, <1>4, <2>1, RenameOpen DEF Exists
    <2> QED  BY <1>3, <2>2, <2>3
  <1>5. CASE Exists(op.d)
    <2>1. op' = [op EXCEPT !.kind = "replace"] /\ nandpath' = op.d /\ UNCHANGED tree
      BY <1>5 DEF Move
    <2>2. op'.kind = "replace" /\ op'.s = op.s /\ op'.d = op.d
          /\ op' \in [kind : {"none", "delete", "clear", "move", "replace", "again", "boot"},
                      s : Path \cup {<<>>}, d : Path \cup {<<>>}]
      BY <2>1 DEF OpType
    <2>3. op.d \in Path /\ op.d \in Seq(Names)  BY <1>1, PathIs DEF MoveInv
    <2>4. OpType'  BY <1>1, <1>2, <2>1, <2>2, <2>3 DEF OpType
    <2>5. WalkInv'  BY <1>1, <1>2, <2>2 DEF WalkInv
    <2>6. MoveInv'  BY <1>1, <1>3, <2>1, <2>2 DEF MoveInv, Under, IsDir, Exists, Parent
    <2>7. TreeType' /\ NoOrphans'  BY <2>1 DEF TreeType, NoOrphans, IsDir, Exists
    <2>8. OpenIsFile'  BY <2>1 DEF OpenIsFile, InUse, IsFile, Exists, table
    <2>9. Vanishing  BY <2>1 DEF Vanishing
    <2> QED  BY <1>3, <2>4, <2>5, <2>6, <2>7, <2>8, <2>9
  <1> QED  BY <1>4, <1>5

LEMMA KeepsMoveAgain ==
  IInv /\ MoveAgain /\ Kept => IInv' /\ Vanishing
PROOF
  <1> SUFFICES ASSUME IInv, MoveAgain, Kept  PROVE IInv' /\ Vanishing
    OBVIOUS
  <1> USE DEF IInv, Kept
  <1>1. op.kind = "again" /\ UNCHANGED stack /\ Done /\ f_rename(op.s, op.d)
    BY DEF MoveAgain
  <1>2. stack = <<>> /\ op.d \notin DOMAIN tree  BY <1>1 DEF WalkInv, MoveInv
  <1>3. TableType' /\ OneOwner' /\ RawOnlyIfAsked'  BY TableKept
  <1>4. OpType' /\ WalkInv' /\ MoveInv'  BY <1>1, <1>2, DoneKeeps
  <1>5. TreeType' /\ NoOrphans' /\ OpenIsFile' /\ Vanishing
    BY <1>1, <1>2, RenameOpen
  <1> QED  BY <1>3, <1>4, <1>5

LEMMA KeepsReplace ==
  IInv /\ Replace /\ Kept => IInv' /\ Vanishing
PROOF
  <1> SUFFICES ASSUME IInv, Replace, Kept  PROVE IInv' /\ Vanishing
    OBVIOUS
  <1> USE DEF IInv, Kept
  <1>1. op.kind = "replace" /\ UNCHANGED stack /\ f_unlink(op.d)  BY DEF Replace
  <1>2. stack = <<>>  BY <1>1 DEF WalkInv
  <1>3. /\ op.s \in DOMAIN tree /\ op.d \in Path /\ IsDir(Parent(op.d))
        /\ ~IsPrefix(op.s, op.d) /\ NotOpen(op.s) /\ NotOpen(op.d)
        /\ \A q \in Under(op.s) : Len(Moved(op.s, op.d, q)) <= MaxDepth
    BY <1>1 DEF MoveInv
  <1>4. /\ TableType' /\ OneOwner' /\ RawOnlyIfAsked'
        /\ op'.s = op.s => NotOpen(op.s)'
        /\ op'.d = op.d => NotOpen(op.d)'
    BY <1>3, TableKept
  <1>5. /\ TreeType' /\ NoOrphans' /\ DOMAIN tree' \subseteq DOMAIN tree
        /\ DOMAIN tree \ DOMAIN tree' \subseteq {op.d}
        /\ \A q \in DOMAIN tree' : tree'[q] = tree[q]
    BY <1>1, UnlinkKeeps
  <1>6. op.d \in Seq(Names) /\ Len(op.d) \in Nat \ {0} /\ op.s \in Seq(Names)
    BY <1>3, PathIs DEF TreeType
  <1>7. op.s \in DOMAIN tree'
    <2>1. op.s # op.d  BY <1>3, <1>6, PrefixSelf
    <2> QED  BY <1>3, <1>5, <2>1
  <1>8. OpenIsFile'
    <2>1. IsPrefix(op.d, op.d)  BY <1>6, PrefixSelf
    <2> QED  BY <1>1, <1>3, <2>1, UnlinkOpen
  <1>9. Vanishing  BY <1>1, <1>5, <1>7 DEF Vanishing, VanishesRightly
  <1>10. OpType' /\ WalkInv' /\ MoveInv'
    <2>1. CASE ~Removable(op.d)
      <3>1. Done  BY <2>1 DEF Replace
      <3> QED  BY <1>1, <1>2, <3>1, DoneKeeps
    <2>2. CASE Removable(op.d)
      <3>1. op' = [op EXCEPT !.kind = "again"] /\ UNCHANGED nandpath
        BY <2>2 DEF Replace
      <3>2. op'.kind = "again" /\ op'.s = op.s /\ op'.d = op.d
            /\ op' \in [kind : {"none", "delete", "clear", "move", "replace", "again", "boot"},
                        s : Path \cup {<<>>}, d : Path \cup {<<>>}]
        BY <3>1 DEF OpType
      <3>3. OpType'  BY <1>1, <3>1, <3>2 DEF OpType
      <3>4. WalkInv'  BY <1>1, <1>2, <3>2 DEF WalkInv
      <3>5. op.d \notin DOMAIN tree'  BY <1>1, <2>2 DEF f_unlink, Without
      <3>6. Parent(op.d) # op.d
        <4>1. Len(op.d) - 1 \in 0 .. Len(op.d)  BY <1>6
        <4>2. Len(Parent(op.d)) = Len(op.d) - 1
          BY <1>6, <4>1, FrontIs DEF Parent, Front
        <4> QED  BY <1>6, <4>2
      <3>7. Parent(op.d) = <<>>
              \/ (Parent(op.d) \in DOMAIN tree' /\ tree'[Parent(op.d)] = Dir)
        <4>1. Parent(op.d) = <<>>
                \/ (Parent(op.d) \in DOMAIN tree /\ tree[Parent(op.d)] = Dir)
          BY <1>3 DEF IsDir, Exists
        <4>2. ASSUME Parent(op.d) \in DOMAIN tree  PROVE Parent(op.d) \in DOMAIN tree'
          <5> SUFFICES ASSUME Parent(op.d) \notin DOMAIN tree'  PROVE FALSE
            OBVIOUS
          <5>1. Parent(op.d) \in DOMAIN tree \ DOMAIN tree'  BY <4>2
          <5>2. Parent(op.d) = op.d  BY <1>5, <5>1
          <5> QED  BY <3>6, <5>2
        <4> QED  BY <1>5, <4>1, <4>2
      <3>8. IsDir(Parent(op.d))'
        BY <3>2, <3>7 DEF IsDir, Exists, Parent
      <3>9. \A q \in Under(op.s)' : Len(Moved(op.s, op.d, q)) <= MaxDepth
        BY <1>3, <1>5, <3>2 DEF Under
      <3>10. MoveInv'
        BY <1>3, <1>4, <1>7, <3>2, <3>5, <3>8, <3>9 DEF MoveInv, Moved
      <3> QED  BY <3>3, <3>4, <3>10
    <2> QED  BY <2>1, <2>2
  <1> QED  BY <1>4, <1>5, <1>8, <1>9, <1>10

LEMMA KeepsServe ==
  IInv /\ Serve /\ Kept => IInv' /\ Vanishing
PROOF
  <1> SUFFICES ASSUME IInv, Serve, Kept  PROVE IInv' /\ Vanishing
    OBVIOUS
  <1>1. CASE DeleteFile  BY <1>1, KeepsDeleteFile
  <1>2. CASE \E n \in Names : Turn(n)  BY <1>2, KeepsTurn
  <1>3. CASE AfterCall   BY <1>3, KeepsAfterCall
  <1>4. CASE Return      BY <1>4, KeepsReturn
  <1>5. CASE ClearDone   BY <1>5, KeepsClearDone
  <1>6. CASE Move        BY <1>6, KeepsMove
  <1>7. CASE Replace     BY <1>7, KeepsReplace
  <1>8. CASE MoveAgain   BY <1>8, KeepsMoveAgain
  <1>9. CASE BootDone    BY <1>9, KeepsBootDone
  <1> QED  BY <1>1, <1>2, <1>3, <1>4, <1>5, <1>6, <1>7, <1>8, <1>9 DEF Serve

-----------------------------------------------------------------------------
(* The steps of the clients, while the module waits for a request.         *)

(* No walk is under way then, and nothing was asked of the tree.           *)
LEMMA IdleKeeps ==
  ASSUME IInv, op = Idle, UNCHANGED <<op, nandpath, stack>>
  PROVE  OpType' /\ WalkInv' /\ MoveInv' /\ stack = <<>>
PROOF
  <1>1. op.kind = "none"  BY DEF Idle
  <1>2. stack = <<>>  BY <1>1 DEF IInv, WalkInv
  <1>3. OpType'  BY DEF IInv, OpType
  <1>4. WalkInv'  BY <1>1, <1>2 DEF WalkInv
  <1>5. MoveInv'  BY <1>1 DEF MoveInv
  <1> QED  BY <1>2, <1>3, <1>4, <1>5

LEMMA KeepsCreate ==
  IInv /\ CreateAny /\ Kept => IInv' /\ Vanishing
PROOF
  <1> SUFFICES ASSUME IInv, Kept, NEW p \in Path, NEW v \in {Dir, 0}, Create(p, v)
               PROVE  IInv' /\ Vanishing
    BY DEF CreateAny
  <1> USE DEF IInv, Kept
  <1>1. op = Idle /\ UNCHANGED <<op, nandpath, stack>> /\ CanCreate(p) /\ tree' = With(p, v)
    BY DEF Create
  <1>2. v \in {Dir} \cup 0 .. MaxSize  BY FSServerAssumption
  <1>3. /\ TreeType' /\ NoOrphans' /\ DOMAIN tree \subseteq DOMAIN tree'
        /\ \A q \in DOMAIN tree : tree'[q] = tree[q]
    BY <1>1, <1>2, WithKeeps
  <1>4. OpType' /\ WalkInv' /\ MoveInv'  BY <1>1, IdleKeeps
  <1>5. TableType' /\ OneOwner' /\ RawOnlyIfAsked'  BY TableKept
  <1>6. OpenIsFile'  BY <1>3, WithOpen DEF table
  <1>7. Vanishing  BY <1>3 DEF Vanishing
  <1> QED  BY <1>3, <1>4, <1>5, <1>6, <1>7

LEMMA KeepsAsk ==
  IInv /\ AskAny /\ Kept => IInv' /\ Vanishing
PROOF
  <1> SUFFICES ASSUME IInv, AskAny, Kept  PROVE IInv' /\ Vanishing
    OBVIOUS
  <1> USE DEF IInv, Kept
  <1>1. op = Idle /\ UNCHANGED <<tree, nandpath, stack>>
    BY DEF AskAny, AskDelete, AskMove
  <1>2. stack = <<>>  BY <1>1 DEF WalkInv, Idle
  <1>3. TableType' /\ OneOwner' /\ RawOnlyIfAsked'  BY TableKept
  <1>4. TreeType' /\ NoOrphans'  BY <1>1 DEF TreeType, NoOrphans, IsDir, Exists
  <1>5. OpenIsFile'  BY <1>1 DEF OpenIsFile, InUse, IsFile, Exists, table
  <1>6. Vanishing  BY <1>1 DEF Vanishing
  <1>7. OpType' /\ WalkInv' /\ MoveInv'
    <2>1. ASSUME NEW p \in Path, NotOpen(p), AskDelete(p)
          PROVE  OpType' /\ WalkInv' /\ MoveInv'
      <3>1. op' = [kind |-> "delete", s |-> p, d |-> <<>>]  BY <2>1 DEF AskDelete
      <3>2. op'.kind = "delete" /\ op'.s = p  BY <3>1
      <3>3. OpType'  BY <1>1, <3>1 DEF OpType
      <3>4. NotOpen(op.s)'  BY <2>1, <3>2 DEF NotOpen, InUse, table
      <3>5. WalkInv'  BY <1>1, <1>2, <3>2, <3>4 DEF WalkInv
      <3>6. MoveInv'  BY <3>2 DEF MoveInv
      <3> QED  BY <3>3, <3>5, <3>6
    <2>2. ASSUME NEW s \in Path, NEW d \in Targets, NotOpen(s), NotOpen(d), AskMove(s, d)
          PROVE  OpType' /\ WalkInv' /\ MoveInv'
      <3>1. op' = [kind |-> "move", s |-> s, d |-> d]  BY <2>2 DEF AskMove
      <3>2. op'.kind = "move" /\ op'.s = s /\ op'.d = d /\ d \in Path
        BY <3>1, FSServerAssumption
      <3>3. OpType'  BY <1>1, <3>1, <3>2 DEF OpType
      <3>4. NotOpen(op.s)' /\ NotOpen(op.d)'
        BY <2>2, <3>2 DEF NotOpen, InUse, table
      <3>5. WalkInv'  BY <1>1, <1>2, <3>2 DEF WalkInv
      <3>6. /\ s \in DOMAIN tree' /\ IsDir(Parent(op.d))' /\ ~IsPrefix(s, d)
            /\ \A q \in Under(op.s)' : Len(Moved(s, d, q)) <= MaxDepth
        BY <1>1, <2>2, <3>2 DEF AskMove, Exists, Under, IsDir, Parent
      <3>7. MoveInv'  BY <3>2, <3>4, <3>6 DEF MoveInv, Moved
      <3> QED  BY <3>3, <3>5, <3>7
    <2> QED  BY <2>1, <2>2 DEF AskAny
  <1> QED  BY <1>3, <1>4, <1>5, <1>6, <1>7

-----------------------------------------------------------------------------
(* The handle table.                                                       *)

(* A handle that was free is given the file f, or left free.               *)
LEMMA SlotSet ==
  ASSUME IInv, DOMAIN tree \subseteq DOMAIN tree', \A q \in DOMAIN tree : tree'[q] = tree[q],
         NEW i \in Handles, ~InUse(i), NEW f \in OpenFile \cup {Closed}, NEW b \in BOOLEAN,
         f.fptr <= f.fsize,
         f # Closed => (b <=> f.path = Obcd /\ f.mode = {"r"}),
         f # Closed /\ ~b => f.path \in DOMAIN tree' /\ tree'[f.path] # Dir,
         fd_stack' = [fd_stack EXCEPT ![i] = f], obcd_trig' = [obcd_trig EXCEPT ![i] = b]
  PROVE  /\ FilesType' /\ RawOnlyIfAsked' /\ OpenIsFile'
         /\ \A h \in Handles : InUse(h)' <=> InUse(h) \/ (h = i /\ f # Closed)
PROOF
  <1> USE DEF IInv
  <1>1. FilesType  BY DEF TableType
  <1>2. FilesType'
    <2>1. fd_stack' \in [Handles -> OpenFile \cup {Closed}]  BY <1>1 DEF FilesType
    <2>2. obcd_trig' \in [Handles -> BOOLEAN]  BY <1>1 DEF FilesType
    <2>3. \A h \in Handles : fd_stack'[h].fptr <= fd_stack'[h].fsize
      BY <1>1 DEF FilesType
    <2> QED  BY <2>1, <2>2, <2>3 DEF FilesType
  <1>3. /\ fd_stack'[i] = f /\ obcd_trig'[i] = b
        /\ \A h \in Handles : h # i => fd_stack'[h] = fd_stack[h] /\ obcd_trig'[h] = obcd_trig[h]
    BY <1>1 DEF FilesType
  <1>4. \A h \in Handles : InUse(h)' <=> InUse(h) \/ (h = i /\ f # Closed)
    BY <1>3 DEF InUse
  <1>5. RawOnlyIfAsked'
    <2> SUFFICES ASSUME NEW h \in Handles, InUse(h)'
                 PROVE  obcd_trig'[h] <=> fd_stack'[h].path = Obcd /\ fd_stack'[h].mode = {"r"}
      BY DEF RawOnlyIfAsked
    <2>1. CASE h = i  BY <1>3, <2>1 DEF InUse
    <2>2. CASE h # i  BY <1>3, <1>4, <2>2 DEF RawOnlyIfAsked
    <2> QED  BY <2>1, <2>2
  <1>6. OpenIsFile'
    <2> SUFFICES ASSUME NEW h \in Handles, InUse(h)', ~obcd_trig'[h]
                 PROVE  fd_stack'[h].path \in DOMAIN tree' /\ tree'[fd_stack'[h].path] # Dir
      BY DEF OpenIsFile, IsFile, Exists
    <2>1. CASE h = i  BY <1>3, <2>1 DEF InUse
    <2>2. CASE h # i
      <3>1. fd_stack[h].path \in DOMAIN tree /\ tree[fd_stack[h].path] # Dir
        BY <1>3, <1>4, <2>2 DEF OpenIsFile, IsFile, Exists
      <3> QED  BY <1>3, <2>2, <3>1
    <2> QED  BY <2>1, <2>2
  <1> QED  BY <1>2, <1>4, <1>5, <1>6

LEMMA OpenedIs ==
  ASSUME NEW p \in Path, NEW m \in Modes, NEW size \in 0 .. MaxSize
  PROVE  /\ Opened(p, m, size) \in OpenFile /\ Opened(p, m, size) # Closed
         /\ Opened(p, m, size).fptr <= Opened(p, m, size).fsize
         /\ Opened(p, m, size).path = p /\ Opened(p, m, size).mode = m
PROOF
  <1>1. MaxSize \in Nat  BY FSServerAssumption
  <1>2. Opened(p, m, size) \in OpenFile  BY <1>1 DEF Opened, OpenFile
  <1> QED  BY <1>1, <1>2, InUseIs DEF Opened

LEMMA ClosedIs == Closed.fptr <= Closed.fsize /\ Closed \in OpenFile \cup {Closed}
PROOF BY DEF Closed

(* FS_Open puts at most the handle it answers to use, and it was free.     *)
LEMMA OpenKeeps ==
  ASSUME IInv, op = Idle, UNCHANGED <<op, nandpath, stack>>,
         NEW p \in Files, NEW m \in Modes, NEW r, FS_Open(p, m, r)
  PROVE  /\ TreeType' /\ NoOrphans' /\ FilesType' /\ RawOnlyIfAsked' /\ OpenIsFile'
         /\ Vanishing
         /\ r \in Handles \cup {NoHandle} /\ (r \in Handles => ~InUse(r))
         /\ \A h \in Handles : InUse(h)' <=> InUse(h) \/ h = r
PROOF
  <1> USE DEF IInv
  <1>1. p \in Path  BY FSServerAssumption
  <1>2. NoHandle \notin Handles  BY FSServerAssumption DEF NoHandle, Handles
  <1>3. TreeType' /\ NoOrphans' /\ DOMAIN tree \subseteq DOMAIN tree'
        /\ \A q \in DOMAIN tree : tree'[q] = tree[q]
    <2>1. CASE tree' = tree  BY <2>1 DEF TreeType, NoOrphans, IsDir, Exists
    <2>2. CASE CanCreate(p) /\ tree' = With(p, 0)
      <3>1. 0 \in {Dir} \cup 0 .. MaxSize  BY FSServerAssumption
      <3> QED  BY <1>1, <2>2, <3>1, WithKeeps
    <2> QED  BY <2>1, <2>2 DEF FS_Open, f_open, f_open_fails
  <1>4. Vanishing  BY <1>3 DEF Vanishing
  <1>5. CASE FreeHandles = {} /\ r = NoHandle /\ UNCHANGED <<tree, fd_stack, obcd_trig>>
    <2>1. FilesType'  BY <1>5 DEF FilesType, TableType
    <2>2. RawOnlyIfAsked'  BY <1>5 DEF RawOnlyIfAsked, InUse
    <2>3. OpenIsFile'  BY <1>5 DEF OpenIsFile, InUse, IsFile, Exists
    <2>4. \A h \in Handles : InUse(h)' <=> InUse(h) \/ h = r
      BY <1>2, <1>5 DEF InUse
    <2> QED  BY <1>2, <1>3, <1>4, <1>5, <2>1, <2>2, <2>3, <2>4
  <1>6. ASSUME NEW i \in Handles, ~InUse(i), p = Obcd, m = {"r"}, r = i,
               fd_stack' = [fd_stack EXCEPT ![i] = Opened(p, m, 0)],
               obcd_trig' = [obcd_trig EXCEPT ![i] = TRUE]
        PROVE  /\ FilesType' /\ RawOnlyIfAsked' /\ OpenIsFile'
               /\ r \in Handles \cup {NoHandle} /\ (r \in Handles => ~InUse(r))
               /\ \A h \in Handles : InUse(h)' <=> InUse(h) \/ h = r
    <2> DEFINE f == Opened(p, m, 0)
    <2>1. 0 \in 0 .. MaxSize  BY FSServerAssumption
    <2>2. f \in OpenFile /\ f # Closed /\ f.fptr <= f.fsize /\ f.path = p /\ f.mode = m
      BY <1>1, <2>1, OpenedIs
    <2> HIDE DEF f
    <2>3. fd_stack' = [fd_stack EXCEPT ![i] = f]  BY <1>6 DEF f
    <2>4. /\ FilesType' /\ RawOnlyIfAsked' /\ OpenIsFile'
          /\ \A h \in Handles : InUse(h)' <=> InUse(h) \/ (h = i /\ f # Closed)
      BY <1>3, <1>6, <2>2, <2>3, SlotSet
    <2> QED  BY <1>6, <2>2, <2>4
  <1>7. ASSUME NEW i \in Handles, ~InUse(i), ~(p = Obcd /\ m = {"r"}),
               f_open(i, p, m), r = i
        PROVE  /\ FilesType' /\ RawOnlyIfAsked' /\ OpenIsFile'
               /\ r \in Handles \cup {NoHandle} /\ (r \in Handles => ~InUse(r))
               /\ \A h \in Handles : InUse(h)' <=> InUse(h) \/ h = r
    <2>1. PICK size \in 0 .. MaxSize :
            /\ fd_stack' = [fd_stack EXCEPT ![i] = Opened(p, m, size)]
            /\ p \in DOMAIN tree' /\ tree'[p] # Dir
      <3>1. 0 \in 0 .. MaxSize /\ Dir \notin 0 .. MaxSize  BY FSServerAssumption DEF Dir
      <3>2. CASE /\ IsFile(p) /\ UNCHANGED tree
                 /\ fd_stack' = [fd_stack EXCEPT ![i] = Opened(p, m, tree[p])]
        <4>1. p \in DOMAIN tree /\ tree[p] # Dir /\ tree[p] \in 0 .. MaxSize
          BY <3>2 DEF IsFile, Exists, TreeType
        <4> QED  BY <3>2, <4>1
      <3>3. CASE /\ CanCreate(p) /\ tree' = With(p, 0)
                 /\ fd_stack' = [fd_stack EXCEPT ![i] = Opened(p, m, 0)]
        <4>1. p \in DOMAIN tree' /\ tree'[p] = 0  BY <3>3 DEF With
        <4> QED  BY <3>1, <3>3, <4>1
      <3> QED  BY <1>7, <3>2, <3>3 DEF f_open
    <2> DEFINE f == Opened(p, m, size)
    <2>2. f \in OpenFile /\ f # Closed /\ f.fptr <= f.fsize /\ f.path = p /\ f.mode = m
      BY <1>1, OpenedIs
    <2> HIDE DEF f
    <2>3. /\ fd_stack' = [fd_stack EXCEPT ![i] = f]
          /\ obcd_trig' = [obcd_trig EXCEPT ![i] = FALSE]
      BY <1>7, <2>1 DEF f, f_open
    <2>4. /\ FilesType' /\ RawOnlyIfAsked' /\ OpenIsFile'
          /\ \A h \in Handles : InUse(h)' <=> InUse(h) \/ (h = i /\ f # Closed)
      BY <1>3, <1>7, <2>1, <2>2, <2>3, SlotSet
    <2> QED  BY <1>7, <2>2, <2>4
  <1>8. ASSUME NEW i \in Handles, ~InUse(i), f_open_fails(i, p), r = NoHandle
        PROVE  /\ FilesType' /\ RawOnlyIfAsked' /\ OpenIsFile'
               /\ r \in Handles \cup {NoHandle} /\ (r \in Handles => ~InUse(r))
               /\ \A h \in Handles : InUse(h)' <=> InUse(h) \/ h = r
    <2>1. /\ fd_stack' = [fd_stack EXCEPT ![i] = Closed]
          /\ obcd_trig' = [obcd_trig EXCEPT ![i] = FALSE]
      BY <1>8 DEF f_open_fails
    <2>2. PICK f : f = Closed  OBVIOUS
    <2>3. f \in OpenFile \cup {Closed} /\ f.fptr <= f.fsize  BY <2>2, ClosedIs
    <2>4. fd_stack' = [fd_stack EXCEPT ![i] = f]  BY <2>1, <2>2
    <2>5. /\ FilesType' /\ RawOnlyIfAsked' /\ OpenIsFile'
          /\ \A h \in Handles : InUse(h)' <=> InUse(h) \/ (h = i /\ f # Closed)
      BY <1>3, <1>8, <2>1, <2>2, <2>3, <2>4, SlotSet
    <2> QED  BY <1>2, <1>8, <2>2, <2>5
  <1>9. CASE \E i \in FreeHandles : IF p = Obcd /\ m = {"r"}
               THEN /\ r = i /\ UNCHANGED tree
                    /\ fd_stack' = [fd_stack EXCEPT ![i] = Opened(p, m, 0)]
                    /\ obcd_trig' = [obcd_trig EXCEPT ![i] = TRUE]
               ELSE (f_open(i, p, m) /\ r = i) \/ (f_open_fails(i, p) /\ r = NoHandle)
    BY <1>3, <1>4, <1>6, <1>7, <1>8, <1>9 DEF FreeHandles
  <1> QED  BY <1>5, <1>9 DEF FS_Open

(* The client c is given the handle r, if it is one.                       *)
LEMMA GivenIs ==
  ASSUME held \in [Clients -> SUBSET Handles], NEW c \in Clients, NEW r, Given(c, r)
  PROVE  /\ held' \in [Clients -> SUBSET Handles]
         /\ \A e \in Clients, h \in Handles :
              h \in held'[e] <=> h \in held[e] \/ (e = c /\ h = r)
PROOF
  <1>1. CASE r \in Handles
    <2>1. held' = [held EXCEPT ![c] = @ \cup {r}]  BY <1>1 DEF Given
    <2> QED  BY <1>1, <2>1
  <1>2. CASE r \notin Handles
    <2>1. held' = held  BY <1>2 DEF Given
    <2> QED  BY <1>2, <2>1
  <1> QED  BY <1>1, <1>2

LEMMA OneOwnerIs ==
  ASSUME TableType, OneOwner
  PROVE  /\ \A h \in Handles :
              InUse(h) <=> (\E c \in Clients : h \in held[c]) \/ (pending /\ HAXHandle = h)
         /\ \A c, e \in Clients, h \in Handles : h \in held[c] /\ h \in held[e] => c = e
         /\ \A c \in Clients, h \in Handles : ~(pending /\ HAXHandle = h /\ h \in held[c])
PROOF
  <1>1. \A c, e \in Clients : c # e => held[c] \cap held[e] = {}  BY DEF OneOwner
  <1> QED  BY <1>1 DEF OneOwner

LEMMA OneOwnerBy ==
  ASSUME TableType',
         \A h \in Handles :
           InUse(h)' <=> (\E c \in Clients : h \in held'[c]) \/ (pending' /\ HAXHandle' = h),
         \A c, e \in Clients, h \in Handles : h \in held'[c] /\ h \in held'[e] => c = e,
         \A c \in Clients, h \in Handles : ~(pending' /\ HAXHandle' = h /\ h \in held'[c])
  PROVE  OneOwner'
PROOF
  <1>1. \A c \in Clients : held'[c] \subseteq Handles  BY DEF TableType, OwnersType
  <1>2. \A c, e \in Clients : c # e => held'[c] \cap held'[e] = {}  BY <1>1
  <1>3. pending' => \A c \in Clients : HAXHandle' \notin held'[c]  BY <1>1
  <1> QED  BY <1>2, <1>3 DEF OneOwner

LEMMA KeepsOpen ==
  ASSUME IInv, NEW c \in Clients, NEW p \in Files, NEW m \in Modes, Open(c, p, m)
  PROVE  IInv' /\ Vanishing
PROOF
  <1> USE DEF IInv
  <1>1. PICK r \in Handles \cup {NoHandle} : FS_Open(p, m, r) /\ Given(c, r)
    BY DEF Open
  <1>2. op = Idle /\ UNCHANGED <<op, nandpath, stack>> /\ UNCHANGED <<HAXHandle, pending>>
    BY DEF Open
  <1>3. /\ TreeType' /\ NoOrphans' /\ FilesType' /\ RawOnlyIfAsked' /\ OpenIsFile'
        /\ Vanishing /\ (r \in Handles => ~InUse(r))
        /\ \A h \in Handles : InUse(h)' <=> InUse(h) \/ h = r
    BY <1>1, <1>2, OpenKeeps
  <1>4. OpType' /\ WalkInv' /\ MoveInv'  BY <1>2, IdleKeeps
  <1>5. /\ held' \in [Clients -> SUBSET Handles]
        /\ \A e \in Clients, h \in Handles :
             h \in held'[e] <=> h \in held[e] \/ (e = c /\ h = r)
    BY <1>1, GivenIs DEF TableType, OwnersType
  <1>6. TableType'  BY <1>2, <1>3, <1>5 DEF TableType, OwnersType
  <1>7. OneOwner'
    <2>1. /\ \A h \in Handles :
               InUse(h) <=> (\E e \in Clients : h \in held[e]) \/ (pending /\ HAXHandle = h)
          /\ \A d, e \in Clients, h \in Handles : h \in held[d] /\ h \in held[e] => d = e
          /\ \A e \in Clients, h \in Handles : ~(pending /\ HAXHandle = h /\ h \in held[e])
      BY OneOwnerIs
    <2>2. \A h \in Handles :
            InUse(h)' <=> (\E e \in Clients : h \in held'[e]) \/ (pending' /\ HAXHandle' = h)
      BY <1>2, <1>3, <1>5, <2>1
    <2>3. \A d, e \in Clients, h \in Handles : h \in held'[d] /\ h \in held'[e] => d = e
      BY <1>3, <1>5, <2>1
    <2>4. \A e \in Clients, h \in Handles : ~(pending' /\ HAXHandle' = h /\ h \in held'[e])
      BY <1>2, <1>3, <1>5, <2>1
    <2> QED  BY <1>6, <2>2, <2>3, <2>4, OneOwnerBy
  <1> QED  BY <1>3, <1>4, <1>6, <1>7

LEMMA KeepsHaxAsk ==
  ASSUME IInv, NEW p \in Files, NEW m \in Modes, HaxAsk(p, m)
  PROVE  IInv' /\ Vanishing
PROOF
  <1> USE DEF IInv
  <1>1. PICK r : r = HAXHandle'  OBVIOUS
  <1>2. /\ op = Idle /\ UNCHANGED <<op, nandpath, stack>> /\ UNCHANGED held
        /\ ~pending /\ pending' = TRUE /\ FS_Open(p, m, r)
    BY <1>1 DEF HaxAsk
  <1>3. /\ TreeType' /\ NoOrphans' /\ FilesType' /\ RawOnlyIfAsked' /\ OpenIsFile'
        /\ Vanishing /\ r \in Handles \cup {NoHandle} /\ (r \in Handles => ~InUse(r))
        /\ \A h \in Handles : InUse(h)' <=> InUse(h) \/ h = r
    BY <1>2, OpenKeeps
  <1>4. OpType' /\ WalkInv' /\ MoveInv'  BY <1>2, IdleKeeps
  <1>5. TableType'  BY <1>1, <1>2, <1>3 DEF TableType, OwnersType
  <1>6. OneOwner'
    <2>1. /\ \A h \in Handles :
               InUse(h) <=> (\E e \in Clients : h \in held[e]) \/ (pending /\ HAXHandle = h)
          /\ \A d, e \in Clients, h \in Handles : h \in held[d] /\ h \in held[e] => d = e
      BY OneOwnerIs
    <2>2. \A h \in Handles :
            InUse(h)' <=> (\E e \in Clients : h \in held'[e]) \/ (pending' /\ HAXHandle' = h)
      BY <1>1, <1>2, <1>3, <2>1
    <2>3. \A d, e \in Clients, h \in Handles : h \in held'[d] /\ h \in held'[e] => d = e
      BY <1>2, <2>1
    <2>4. \A e \in Clients, h \in Handles : ~(pending' /\ HAXHandle' = h /\ h \in held'[e])
      BY <1>1, <1>2, <1>3, <2>1
    <2> QED  BY <1>5, <2>2, <2>3, <2>4, OneOwnerBy
  <1> QED  BY <1>3, <1>4, <1>5, <1>6

LEMMA KeepsHaxOpen ==
  IInv /\ HaxOpen => IInv' /\ Vanishing
PROOF
  <1> SUFFICES ASSUME IInv, HaxOpen  PROVE IInv' /\ Vanishing
    OBVIOUS
  <1> USE DEF IInv
  <1>1. PICK r : r = HAXHandle  OBVIOUS
  <1>2. /\ op = Idle /\ UNCHANGED <<op, nandpath, stack>> /\ UNCHANGED tree
        /\ UNCHANGED <<fd_stack, obcd_trig, HAXHandle>>
        /\ pending /\ pending' = FALSE /\ Given(DI, r)
    BY <1>1 DEF HaxOpen, treevars
  <1>3. OpType' /\ WalkInv' /\ MoveInv'  BY <1>2, IdleKeeps
  <1>4. TreeType' /\ NoOrphans'  BY <1>2 DEF TreeType, NoOrphans, IsDir, Exists
  <1>5. RawOnlyIfAsked' /\ OpenIsFile'
    BY <1>2 DEF RawOnlyIfAsked, OpenIsFile, InUse, IsFile, Exists
  <1>6. Vanishing  BY <1>2 DEF Vanishing
  <1>7. DI \in Clients  BY FSServerAssumption
  <1>8. /\ held' \in [Clients -> SUBSET Handles]
        /\ \A e \in Clients, h \in Handles :
             h \in held'[e] <=> h \in held[e] \/ (e = DI /\ h = r)
    BY <1>2, <1>7, GivenIs DEF TableType, OwnersType
  <1>9. TableType'  BY <1>2, <1>8 DEF TableType, FilesType, OwnersType
  <1>10. OneOwner'
    <2>1. /\ \A h \in Handles :
               InUse(h) <=> (\E e \in Clients : h \in held[e]) \/ (pending /\ HAXHandle = h)
          /\ \A d, e \in Clients, h \in Handles : h \in held[d] /\ h \in held[e] => d = e
          /\ \A e \in Clients, h \in Handles : ~(pending /\ HAXHandle = h /\ h \in held[e])
      BY OneOwnerIs
    <2>2. \A h \in Handles : InUse(h)' <=> InUse(h)  BY <1>2 DEF InUse
    <2>3. \A h \in Handles :
            InUse(h)' <=> (\E e \in Clients : h \in held'[e]) \/ (pending' /\ HAXHandle' = h)
      BY <1>1, <1>2, <1>7, <1>8, <2>1, <2>2
    <2>4. \A d, e \in Clients, h \in Handles : h \in held'[d] /\ h \in held'[e] => d = e
      BY <1>1, <1>2, <1>8, <2>1
    <2>5. \A e \in Clients, h \in Handles : ~(pending' /\ HAXHandle' = h /\ h \in held'[e])
      BY <1>2
    <2> QED  BY <1>9, <2>3, <2>4, <2>5, OneOwnerBy
  <1> QED  BY <1>3, <1>4, <1>5, <1>6, <1>9, <1>10

(* Read, Write and Seek move the place and the size of an open file.       *)
LEMMA SlotMoved ==
  ASSUME IInv, op = Idle, UNCHANGED <<treevars, obcd_trig, HAXHandle, held, pending>>,
         NEW h \in Handles, InUse(h), NEW at \in Nat, NEW size \in 0 .. MaxSize, at <= size,
         fd_stack' = [fd_stack EXCEPT ![h].fptr = at, ![h].fsize = size]
  PROVE  IInv' /\ Vanishing
PROOF
  <1> USE DEF IInv
  <1>1. UNCHANGED <<tree, op, nandpath, stack>>  BY DEF treevars
  <1>2. FilesType /\ OwnersType  BY DEF TableType
  <1>3. fd_stack[h] \in OpenFile  BY InUseIs
  <1> DEFINE f == [fd_stack[h] EXCEPT !.fptr = at, !.fsize = size]
  <1>4. /\ f \in OpenFile /\ f.path = fd_stack[h].path /\ f.mode = fd_stack[h].mode
        /\ f.fptr <= f.fsize
    <2>1. at \in 0 .. MaxSize  BY FSServerAssumption
    <2>2. PICK g \in OpenFile : g = fd_stack[h]  BY <1>3
    <2>3. PICK g1 : g1 = [g EXCEPT !.fptr = at]  OBVIOUS
    <2>4. /\ g1 \in OpenFile /\ g1.path = g.path /\ g1.mode = g.mode /\ g1.fptr = at
      BY <2>1, <2>3 DEF OpenFile
    <2>5. PICK g2 : g2 = [g1 EXCEPT !.fsize = size]  OBVIOUS
    <2>6. /\ g2 \in OpenFile /\ g2.path = g.path /\ g2.mode = g.mode
          /\ g2.fptr = at /\ g2.fsize = size
      BY <2>4, <2>5 DEF OpenFile
    <2>7. f = g2  BY <2>2, <2>3, <2>5
    <2> QED  BY <2>2, <2>6, <2>7
  <1>5. /\ fd_stack' \in [Handles -> OpenFile \cup {Closed}] /\ fd_stack'[h] = f
        /\ \A k \in Handles : k # h => fd_stack'[k] = fd_stack[k]
    <2>1. fd_stack' = [fd_stack EXCEPT ![h] = f]  BY <1>2 DEF FilesType
    <2> HIDE DEF f
    <2> QED  BY <1>2, <1>4, <2>1 DEF FilesType
  <1> HIDE DEF f
  <1>6. \A k \in Handles : /\ InUse(k)' <=> InUse(k)
                           /\ fd_stack'[k].path = fd_stack[k].path
                           /\ fd_stack'[k].mode = fd_stack[k].mode
    BY <1>4, <1>5, InUseIs DEF InUse
  <1>7. TableType'
    <2>1. \A k \in Handles : fd_stack'[k].fptr <= fd_stack'[k].fsize
      BY <1>2, <1>4, <1>5 DEF FilesType
    <2>2. FilesType'  BY <1>2, <1>5, <2>1 DEF FilesType
    <2>3. OwnersType'  BY <1>2 DEF OwnersType
    <2> QED  BY <2>2, <2>3 DEF TableType
  <1>8. OneOwner'
    <2>1. /\ \A k \in Handles :
               InUse(k) <=> (\E e \in Clients : k \in held[e]) \/ (pending /\ HAXHandle = k)
          /\ \A d, e \in Clients, k \in Handles : k \in held[d] /\ k \in held[e] => d = e
          /\ \A e \in Clients, k \in Handles : ~(pending /\ HAXHandle = k /\ k \in held[e])
      BY OneOwnerIs
    <2> QED  BY <1>6, <1>7, <2>1, OneOwnerBy
  <1>9. RawOnlyIfAsked'  BY <1>6 DEF RawOnlyIfAsked
  <1>10. OpenIsFile'
    <2> SUFFICES ASSUME NEW k \in Handles, InUse(k)', ~obcd_trig'[k]
                 PROVE  fd_stack'[k].path \in DOMAIN tree' /\ tree'[fd_stack'[k].path] # Dir
      BY DEF OpenIsFile, IsFile, Exists
    <2> QED  BY <1>1, <1>6 DEF OpenIsFile, IsFile, Exists
  <1>11. OpType' /\ WalkInv' /\ MoveInv'  BY <1>1, IdleKeeps
  <1>12. TreeType' /\ NoOrphans'  BY <1>1 DEF TreeType, NoOrphans, IsDir, Exists
  <1>13. Vanishing  BY <1>1 DEF Vanishing
  <1> QED  BY <1>7, <1>8, <1>9, <1>10, <1>11, <1>12, <1>13

(* The sizes and places of open files.                                     *)
LEMMA HeldIs ==
  ASSUME IInv, NEW c \in Clients, NEW h \in Handles, h \in held[c]
  PROVE  /\ InUse(h) /\ fd_stack[h] \in OpenFile
         /\ fd_stack[h].fptr \in Nat /\ fd_stack[h].fsize \in 0 .. MaxSize
         /\ fd_stack[h].fptr <= fd_stack[h].fsize
PROOF
  <1>1. InUse(h)  BY DEF IInv, OneOwner
  <1>2. fd_stack[h] \in OpenFile  BY <1>1, InUseIs DEF IInv
  <1>3. fd_stack[h].fptr <= fd_stack[h].fsize  BY DEF IInv, TableType, FilesType
  <1> QED  BY <1>1, <1>2, <1>3, FSServerAssumption DEF OpenFile

LEMMA KeepsRead ==
  ASSUME IInv, NEW c \in Clients, NEW h \in Handles, Read(c, h)
  PROVE  IInv' /\ Vanishing
PROOF
  <1> DEFINE at == fd_stack[h].fptr + 1
             size == fd_stack[h].fsize
  <1>1. /\ op = Idle /\ h \in held[c] /\ fd_stack[h].fptr < fd_stack[h].fsize
        /\ fd_stack' = [fd_stack EXCEPT ![h].fptr = @ + 1]
        /\ UNCHANGED <<treevars, obcd_trig, HAXHandle, held, pending>>
    BY DEF Read
  <1>2. InUse(h) /\ at \in Nat /\ size \in 0 .. MaxSize /\ at <= size
    BY <1>1, HeldIs, FSServerAssumption
  <1>3. fd_stack' = [fd_stack EXCEPT ![h].fptr = at, ![h].fsize = size]
    BY <1>1, HeldIs DEF OpenFile, IInv, TableType, FilesType
  <1> HIDE DEF at, size
  <1> QED  BY <1>1, <1>2, <1>3, SlotMoved

LEMMA KeepsWrite ==
  ASSUME IInv, NEW c \in Clients, NEW h \in Handles, Write(c, h)
  PROVE  IInv' /\ Vanishing
PROOF
  <1> DEFINE at == fd_stack[h].fptr + 1
             size == IF fd_stack[h].fptr = fd_stack[h].fsize
                       THEN fd_stack[h].fsize + 1 ELSE fd_stack[h].fsize
  <1>1. /\ op = Idle /\ h \in held[c] /\ fd_stack[h].fptr < MaxSize
        /\ fd_stack' = [fd_stack EXCEPT ![h].fptr = @ + 1,
                          ![h].fsize = IF fd_stack[h].fptr = @ THEN @ + 1 ELSE @]
        /\ UNCHANGED <<treevars, obcd_trig, HAXHandle, held, pending>>
    BY DEF Write
  <1>2. InUse(h) /\ at \in Nat /\ size \in 0 .. MaxSize /\ at <= size
    BY <1>1, HeldIs, FSServerAssumption
  <1>3. fd_stack' = [fd_stack EXCEPT ![h].fptr = at, ![h].fsize = size]
    BY <1>1, HeldIs DEF OpenFile, IInv, TableType, FilesType
  <1> HIDE DEF at, size
  <1> QED  BY <1>1, <1>2, <1>3, SlotMoved

LEMMA KeepsSeek ==
  ASSUME IInv, NEW c \in Clients, NEW h \in Handles, Seek(c, h)
  PROVE  IInv' /\ Vanishing
PROOF
  <1>1. /\ op = Idle /\ h \in held[c]
        /\ UNCHANGED <<treevars, obcd_trig, HAXHandle, held, pending>>
    BY DEF Seek
  <1> DEFINE size == fd_stack[h].fsize
  <1>2. InUse(h) /\ size \in 0 .. MaxSize /\ size \in Nat
    BY <1>1, HeldIs, FSServerAssumption
  <1>3. PICK at : at \in 0 .. size /\ fd_stack' = [fd_stack EXCEPT ![h].fptr = at]
    <2>1. size \in 0 .. size  BY <1>2
    <2> HIDE DEF size
    <2>2. PICK x : fd_stack' = [fd_stack EXCEPT ![h].fptr =
                                  IF x \in 0 .. size THEN x ELSE size]
      BY DEF Seek, size
    <2>3. (IF x \in 0 .. size THEN x ELSE size) \in 0 .. size  BY <2>1
    <2> QED  BY <2>2, <2>3
  <1>4. fd_stack' = [fd_stack EXCEPT ![h].fptr = at, ![h].fsize = size]
    BY <1>1, <1>3, HeldIs DEF OpenFile, IInv, TableType, FilesType
  <1>5. at \in Nat /\ at <= size  BY <1>2, <1>3
  <1> HIDE DEF size
  <1> QED  BY <1>1, <1>2, <1>4, <1>5, SlotMoved

(* Close frees the handle; what it writes into the directory is the size   *)
(* of a file that is there, since it is open.                              *)
LEMMA KeepsClose ==
  ASSUME IInv, NEW c \in Clients, NEW h \in Handles, Close(c, h)
  PROVE  IInv' /\ Vanishing
PROOF
  <1> USE DEF IInv
  <1>1. /\ op = Idle /\ h \in held[c]
        /\ fd_stack' = [fd_stack EXCEPT ![h] = Closed]
        /\ held' = [held EXCEPT ![c] = @ \ {h}]
        /\ UNCHANGED <<op, nandpath, stack>> /\ UNCHANGED <<obcd_trig, HAXHandle, pending>>
        /\ \/ tree' = tree
           \/ ~obcd_trig[h] /\ tree' = [tree EXCEPT ![fd_stack[h].path] = fd_stack[h].fsize]
    BY DEF Close
  <1>2. InUse(h) /\ fd_stack[h].fsize \in 0 .. MaxSize  BY <1>1, HeldIs
  <1>3. Dir \notin 0 .. MaxSize  BY FSServerAssumption DEF Dir
  <1>4. FilesType /\ OwnersType  BY DEF TableType
  <1>5. /\ DOMAIN tree' = DOMAIN tree /\ TreeType'
        /\ \A q \in DOMAIN tree : tree'[q] = Dir <=> tree[q] = Dir
    <2>1. CASE tree' = tree  BY <2>1 DEF TreeType
    <2>2. CASE ~obcd_trig[h] /\ tree' = [tree EXCEPT ![fd_stack[h].path] = fd_stack[h].fsize]
      <3>1. PICK x : x = fd_stack[h].path  OBVIOUS
      <3>2. PICK v \in 0 .. MaxSize : v = fd_stack[h].fsize  BY <1>2
      <3>3. x \in DOMAIN tree /\ tree[x] # Dir
        BY <1>2, <2>2, <3>1 DEF OpenIsFile, IsFile, Exists
      <3>4. tree' = [tree EXCEPT ![x] = v]  BY <2>2, <3>1, <3>2
      <3>5. DOMAIN tree' = DOMAIN tree  BY <3>4
      <3>6. \A q \in DOMAIN tree : tree'[q] = IF q = x THEN v ELSE tree[q]  BY <3>4
      <3>7. TreeType'  BY <3>5, <3>6 DEF TreeType
      <3>8. ASSUME NEW q \in DOMAIN tree  PROVE tree'[q] = Dir <=> tree[q] = Dir
        <4>1. CASE q = x  BY <1>3, <3>3, <3>6, <4>1
        <4>2. CASE q # x  BY <3>6, <4>2
        <4> QED  BY <4>1, <4>2
      <3> QED  BY <3>5, <3>7, <3>8
    <2> QED  BY <1>1, <2>1, <2>2
  <1>6. NoOrphans'  BY <1>5 DEF NoOrphans, IsDir, Exists
  <1>7. Vanishing  BY <1>5 DEF Vanishing
  <1>8. /\ fd_stack'[h] = Closed
        /\ \A k \in Handles : k # h => fd_stack'[k] = fd_stack[k]
    BY <1>1, <1>4 DEF FilesType
  <1>9. TableType'
    <2>1. fd_stack' \in [Handles -> OpenFile \cup {Closed}]  BY <1>1, <1>4 DEF FilesType
    <2>2. \A k \in Handles : fd_stack'[k].fptr <= fd_stack'[k].fsize
      BY <1>4, <1>8, ClosedIs DEF FilesType
    <2>3. FilesType'  BY <1>1, <1>4, <2>1, <2>2 DEF FilesType
    <2>4. OwnersType'  BY <1>1, <1>4 DEF OwnersType
    <2> QED  BY <2>3, <2>4 DEF TableType
  <1>10. \A k \in Handles : InUse(k)' <=> InUse(k) /\ k # h
    BY <1>8 DEF InUse
  <1>11. OneOwner'
    <2>1. /\ \A k \in Handles :
               InUse(k) <=> (\E e \in Clients : k \in held[e]) \/ (pending /\ HAXHandle = k)
          /\ \A d, e \in Clients, k \in Handles : k \in held[d] /\ k \in held[e] => d = e
          /\ \A e \in Clients, k \in Handles : ~(pending /\ HAXHandle = k /\ k \in held[e])
      BY OneOwnerIs
    <2>2. \A e \in Clients, k \in Handles :
            k \in held'[e] <=> k \in held[e] /\ ~(e = c /\ k = h)
      BY <1>1, <1>4 DEF OwnersType
    <2>3. \A k \in Handles :
            InUse(k)' <=> (\E e \in Clients : k \in held'[e]) \/ (pending' /\ HAXHandle' = k)
      BY <1>1, <1>10, <2>1, <2>2
    <2>4. \A d, e \in Clients, k \in Handles : k \in held'[d] /\ k \in held'[e] => d = e
      BY <2>1, <2>2
    <2>5. \A e \in Clients, k \in Handles : ~(pending' /\ HAXHandle' = k /\ k \in held'[e])
      BY <1>1, <2>1, <2>2
    <2> QED  BY <1>9, <2>3, <2>4, <2>5, OneOwnerBy
  <1>12. RawOnlyIfAsked'
    <2> SUFFICES ASSUME NEW k \in Handles, InUse(k)'
                 PROVE  obcd_trig'[k] <=> fd_stack'[k].path = Obcd /\ fd_stack'[k].mode = {"r"}
      BY DEF RawOnlyIfAsked
    <2> QED  BY <1>1, <1>8, <1>10 DEF RawOnlyIfAsked
  <1>13. OpenIsFile'
    <2> SUFFICES ASSUME NEW k \in Handles, InUse(k)', ~obcd_trig'[k]
                 PROVE  fd_stack'[k].path \in DOMAIN tree' /\ tree'[fd_stack'[k].path] # Dir
      BY DEF OpenIsFile, IsFile, Exists
    <2>1. k # h /\ InUse(k) /\ ~obcd_trig[k] /\ fd_stack'[k] = fd_stack[k]
      BY <1>1, <1>8, <1>10
    <2>2. fd_stack[k].path \in DOMAIN tree /\ tree[fd_stack[k].path] # Dir
      BY <2>1 DEF OpenIsFile, IsFile, Exists
    <2> QED  BY <1>5, <2>1, <2>2
  <1>14. OpType' /\ WalkInv' /\ MoveInv'  BY <1>1, IdleKeeps
  <1> QED  BY <1>5, <1>6, <1>7, <1>9, <1>11, <1>12, <1>13, <1>14

(* After the power is back nothing is open, and /tmp is being emptied.     *)
LEMMA KeepsPowerOff ==
  IInv /\ PowerOff => IInv' /\ Vanishing
PROOF
  <1> SUFFICES ASSUME IInv, PowerOff  PROVE IInv' /\ Vanishing
    OBVIOUS
  <1> USE DEF IInv
  <1>1. /\ op' = [kind |-> "boot", s |-> <<Tmp>>, d |-> <<>>] /\ UNCHANGED tree
        /\ FS_Delete(<<Tmp>>, <<>>)
        /\ fd_stack' = [h \in Handles |-> Closed] /\ obcd_trig' = [h \in Handles |-> FALSE]
        /\ HAXHandle' = 0 /\ held' = [c \in Clients |-> {}] /\ pending' = FALSE
    BY DEF PowerOff, PowerCut
  <1>2. PICK t \in Path : t = <<Tmp>>  BY TmpIs
  <1>3. t \in Seq(Names) /\ IsPrefix(t, t)  BY PathIs, PrefixSelf
  <1>4. /\ nandpath' \in Seq(Names) /\ IsPrefix(t, nandpath')
        /\ stack' \in Seq(Frame) /\ Below(t, stack')
    <2>1. <<>> \in Seq(Frame) /\ Below(t, <<>>)  BY DEF Below
    <2>2. FS_Delete(t, <<>>)  BY <1>1, <1>2
    <2> QED  BY <1>3, <2>1, <2>2, DeleteCall
  <1>5. op' = [kind |-> "boot", s |-> t, d |-> <<>>] /\ op'.kind = "boot" /\ op'.s = t
    BY <1>1, <1>2
  <1>6. \A h \in Handles : ~InUse(h)'  BY <1>1 DEF InUse
  <1>7. OpType'  BY <1>4, <1>5 DEF OpType
  <1>8. WalkInv'
    <2>1. NotOpen(op.s)'  BY <1>6 DEF NotOpen
    <2> QED  BY <1>4, <1>5, <2>1 DEF WalkInv
  <1>9. MoveInv'  BY <1>5 DEF MoveInv
  <1>10. TableType'
    <2>1. FilesType'  BY <1>1, ClosedIs DEF FilesType
    <2>2. 0 \in Handles  BY FSServerAssumption DEF Handles
    <2>3. OwnersType'  BY <1>1, <2>2 DEF OwnersType
    <2> QED  BY <2>1, <2>3 DEF TableType
  <1>11. OneOwner'
    <2>1. \A c \in Clients, h \in Handles : h \notin held'[c]  BY <1>1
    <2> QED  BY <1>1, <1>6, <1>10, <2>1, OneOwnerBy
  <1>12. RawOnlyIfAsked' /\ OpenIsFile'  BY <1>6 DEF RawOnlyIfAsked, OpenIsFile
  <1>13. TreeType' /\ NoOrphans'  BY <1>1 DEF TreeType, NoOrphans, IsDir, Exists
  <1>14. Vanishing  BY <1>1 DEF Vanishing
  <1> QED  BY <1>7, <1>8, <1>9, <1>10, <1>11, <1>12, <1>13, <1>14

-----------------------------------------------------------------------------
(* The theorems.                                                           *)

LEMMA InitIInv == ServerInit => IInv
PROOF
  <1> SUFFICES ASSUME ServerInit  PROVE IInv
    OBVIOUS
  <1>1. /\ tree = [p \in {<<Tmp>>} |-> Dir] /\ op = Idle /\ nandpath = <<>> /\ stack = <<>>
        /\ fd_stack = [h \in Handles |-> Closed] /\ obcd_trig = [h \in Handles |-> FALSE]
        /\ HAXHandle = 0 /\ held = [c \in Clients |-> {}] /\ pending = FALSE
    BY DEF ServerInit, Init
  <1>2. DOMAIN tree = {<<Tmp>>} /\ tree[<<Tmp>>] = Dir  BY <1>1
  <1>3. TreeType  BY <1>2, TmpIs DEF TreeType
  <1>4. NoOrphans
    <2>1. Len(<<Tmp>>) = 1 /\ 1 .. 1 - 1 = {}  OBVIOUS
    <2>2. PICK t : t = <<Tmp>>  OBVIOUS
    <2>3. 1 .. Len(t) - 1 = {} /\ DOMAIN tree = {t}  BY <1>2, <2>1, <2>2
    <2>4. \A p \in DOMAIN tree : 1 .. Len(p) - 1 = {}  BY <2>3
    <2> QED  BY <2>4 DEF NoOrphans
  <1>5. op.kind = "none" /\ OpType  BY <1>1 DEF Idle, OpType
  <1>6. WalkInv /\ MoveInv  BY <1>1, <1>5 DEF WalkInv, MoveInv
  <1>7. \A h \in Handles : ~InUse(h)  BY <1>1 DEF InUse
  <1>8. TableType
    <2>1. FilesType  BY <1>1, ClosedIs DEF FilesType
    <2>2. 0 \in Handles  BY FSServerAssumption DEF Handles
    <2>3. OwnersType  BY <1>1, <2>2 DEF OwnersType
    <2> QED  BY <2>1, <2>3 DEF TableType
  <1>9. OneOwner  BY <1>1, <1>7 DEF OneOwner
  <1>10. RawOnlyIfAsked /\ OpenIsFile  BY <1>7 DEF RawOnlyIfAsked, OpenIsFile
  <1> QED  BY <1>3, <1>4, <1>5, <1>6, <1>8, <1>9, <1>10 DEF IInv

LEMMA KeepsStutter == IInv /\ UNCHANGED vars => IInv' /\ Vanishing
PROOF
  <1> SUFFICES ASSUME IInv, UNCHANGED vars  PROVE IInv' /\ Vanishing
    OBVIOUS
  <1> USE DEF IInv
  <1>1. UNCHANGED table /\ UNCHANGED <<tree, op, nandpath, stack>>  BY DEF vars, treevars, table
  <1>2. TableType' /\ OneOwner' /\ RawOnlyIfAsked'  BY <1>1, TableKept
  <1>3. OpType'  BY <1>1 DEF OpType
  <1>4. WalkInv'  BY <1>1 DEF WalkInv, NotOpen, InUse, table
  <1>5. MoveInv'
    BY <1>1 DEF MoveInv, NotOpen, InUse, table, Under, IsDir, Exists, Parent
  <1>6. TreeType' /\ NoOrphans'  BY <1>1 DEF TreeType, NoOrphans, IsDir, Exists
  <1>7. OpenIsFile'  BY <1>1 DEF OpenIsFile, InUse, IsFile, Exists, table
  <1>8. Vanishing  BY <1>1 DEF Vanishing
  <1> QED  BY <1>2, <1>3, <1>4, <1>5, <1>6, <1>7, <1>8

LEMMA StepIInv == IInv /\ [Next]_vars => IInv' /\ Vanishing
PROOF
  <1> SUFFICES ASSUME IInv, [Next]_vars  PROVE IInv' /\ Vanishing
    OBVIOUS
  <1>1. CASE CreateAny /\ UNCHANGED table  BY <1>1, KeepsCreate DEF Kept
  <1>2. CASE AskAny /\ UNCHANGED table     BY <1>2, KeepsAsk DEF Kept
  <1>3. CASE Serve /\ UNCHANGED table      BY <1>3, KeepsServe DEF Kept
  <1>4. CASE \E c \in Clients, p \in Files, m \in Modes : Open(c, p, m)
    BY <1>4, KeepsOpen
  <1>5. CASE \E p \in Files, m \in Modes : HaxAsk(p, m)  BY <1>5, KeepsHaxAsk
  <1>6. CASE HaxOpen  BY <1>6, KeepsHaxOpen
  <1>7. ASSUME NEW c \in Clients, NEW h \in Handles, UseHandle(c, h)
        PROVE  IInv' /\ Vanishing
    BY <1>7, KeepsClose, KeepsRead, KeepsWrite, KeepsSeek DEF UseHandle
  <1>8. CASE PowerOff  BY <1>8, KeepsPowerOff
  <1>9. CASE UNCHANGED vars  BY <1>9, KeepsStutter
  <1> QED  BY <1>1, <1>2, <1>3, <1>4, <1>5, <1>6, <1>7, <1>8, <1>9 DEF Next

LEMMA Inductive == Spec => []IInv
PROOF
  <1>1. IInv /\ [Next]_vars => IInv'  BY StepIInv
  <1> QED  BY InitIInv, <1>1, PTL DEF Spec

(* A file pointer never passes the end of its file, and all else has its   *)
(* type (fd_stack, HAXHandle and nandpath of fs/FS.c, the tree of FatFs).  *)
THEOREM TypeCorrect == Spec => []TypeOK
PROOF
  <1>1. IInv => TypeOK  BY TypeIs DEF IInv
  <1> QED  BY Inductive, <1>1, PTL

(* No delete, rename, creation or power cut between their steps leaves an  *)
(* entry whose directory is gone.                                          *)
THEOREM TreeIsWhole == Spec => []NoOrphans
PROOF
  <1>1. IInv => NoOrphans  BY DEF IInv
  <1> QED  BY Inductive, <1>1, PTL

(* Every entry of fd_stack in use belongs to exactly one client, also      *)
(* while the DI module is between its 0x60 and its open of "/AX".          *)
THEOREM HandleHasOneOwner == Spec => []OneOwner
PROOF
  <1>1. IInv => OneOwner  BY DEF IInv
  <1> QED  BY Inductive, <1>1, PTL

(* The sectors of the card are touched only under a handle opened on       *)
(* obcd.txt for reading: obcd_trig never outlives its handle.              *)
THEOREM RawAsked == Spec => []RawOnlyIfAsked
PROOF
  <1>1. IInv => RawOnlyIfAsked  BY DEF IInv
  <1> QED  BY Inductive, <1>1, PTL

(* What FS_Delete removes is below the path it was given, at any depth of  *)
(* its recursion, and a rename loses nothing but the target it replaces.   *)
THEOREM VanishesOnlyRightly == Spec => NothingElseVanishes
PROOF
  <1>1. IInv /\ [Next]_vars =>
          [\A p \in DOMAIN tree \ DOMAIN tree' : VanishesRightly(p)]_tree
    BY StepIInv DEF Vanishing
  <1> QED  BY Inductive, <1>1, PTL DEF Spec, NothingElseVanishes
=============================================================================
