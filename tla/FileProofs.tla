----------------------------- MODULE FileProofs -----------------------------
(***************************************************************************)
(* Proofs about what is told of files: the Merkle tree of cli/hash.js, the *)
(* directory commands built on it, and the offline verifier of seals,      *)
(* verify_vh.py.                                                           *)
(*                                                                         *)
(* The tree.  buildTree makes a tower of layers, each made of the one      *)
(* below, over the leaves in ascending order; its loop and its sort are    *)
(* followed for any number of leaves.  The tags of leaves and nodes give   *)
(* every value its height, so that equal roots have equal leaves, a proof  *)
(* that folds to a root starts at a leaf, and the proof of a leaf folds to *)
(* the root.                                                               *)
(*                                                                         *)
(* The commands.  DirInv says what a command has read, which walk every    *)
(* anchored root came from, and what an artifact holds that nobody         *)
(* changed; with it every answer is true of what was anchored (DirSays).   *)
(*                                                                         *)
(* The seals.  The inductive invariant of the verifier, SealInv, has three *)
(* parts: what the producer sealed (GenuineInv), what became of the        *)
(* artifact on its way (CarriedInv), and what a run has put into its       *)
(* classes so far (RunInv).  The last one speaks of files that are edited  *)
(* while they are read: a class is true of the directory as long as nobody *)
(* edited it since the run started, and a listing holds whatever was there *)
(* before and after an edit.                                               *)
(***************************************************************************)
EXTENDS MCProofs, InductionLemmas, SequenceTheorems

Members(s) == {s[i] : i \in DOMAIN s}

\* A sequence that is not empty.
IsLayer(s) == s \in Seq(Members(s)) /\ Len(s) \in Nat \ {0}

\* What the nodes of a layer were made of.
Kids(S) == UNION {x[2] : x \in S}

\* The members of a layer are what it has at its places.
LEMMA MemberFacts ==
  ASSUME NEW s, IsLayer(s)
  PROVE  /\ DOMAIN s = 1 .. Len(s)
         /\ \A i \in 1 .. Len(s) : s[i] \in Members(s)
         /\ \A x \in Members(s) : \E i \in 1 .. Len(s) : x = s[i]
         /\ Members(s) # {}
<1>1. DOMAIN s = 1 .. Len(s)
  BY DEF IsLayer
<1>2. 1 \in 1 .. Len(s)
  BY DEF IsLayer
<1> QED
  BY <1>1, <1>2 DEF Members

\* A function on an initial interval is a layer.
LEMMA IsLayerBy ==
  ASSUME NEW n \in Nat \ {0}, NEW s, s = [i \in 1 .. n |-> s[i]]
  PROVE  IsLayer(s) /\ Len(s) = n
<1>1. DOMAIN s = 1 .. n
  OBVIOUS
<1>2. \A i \in 1 .. n : s[i] \in Members(s)
  BY <1>1 DEF Members
<1>3. s \in [1 .. n -> Members(s)]
  BY <1>1, <1>2
<1>4. s \in Seq(Members(s)) /\ Len(s) = n
  BY <1>3
<1> QED
  BY <1>4 DEF IsLayer

\* One level up there are half as many nodes, rounded up, made of all the nodes below.
LEMMA NextLayerFacts ==
  ASSUME NEW s, IsLayer(s)
  PROVE  /\ IsLayer(NextLayer(s))
         /\ Len(NextLayer(s)) = (Len(s) + 1) \div 2
         /\ Kids(Members(NextLayer(s))) = Members(s)
         /\ \A x \in Members(NextLayer(s)) : x[1] = "node"
<1> DEFINE t == NextLayer(s)
           half == (Len(s) + 1) \div 2
           other(i) == IF 2 * i <= Len(s) THEN s[2 * i] ELSE s[2 * i - 1]
<1>1. Len(s) \in Nat \ {0} /\ half \in Nat \ {0}
  BY DEF IsLayer
<1>2. t = [i \in 1 .. half |-> nodeHash(s[2 * i - 1], other(i))]
  BY DEF NextLayer
<1>3. DOMAIN t = 1 .. half /\ \A i \in 1 .. half : t[i] = <<"node", {s[2 * i - 1], other(i)}>>
  BY <1>2 DEF nodeHash
<1>4. t = [i \in 1 .. half |-> t[i]]
  BY <1>2
<1>5. IsLayer(t) /\ Len(t) = half
  <2> HIDE DEF t, half
  <2> QED
    BY <1>1, <1>4, IsLayerBy
<1> HIDE DEF t
<1>6. \A x \in Members(t) : \E i \in 1 .. half : x = <<"node", {s[2 * i - 1], other(i)}>>
  BY <1>3 DEF Members
<1>7. Kids(Members(t)) \subseteq Members(s)
  <2> SUFFICES ASSUME NEW x \in Members(t), NEW y \in x[2] PROVE y \in Members(s)
    BY DEF Kids
  <2>1. PICK i \in 1 .. half : x = <<"node", {s[2 * i - 1], other(i)}>>
    BY <1>6
  <2>2. y = s[2 * i - 1] \/ y = other(i)
    BY <2>1
  <2>3. 2 * i - 1 \in 1 .. Len(s) /\ (2 * i <= Len(s) => 2 * i \in 1 .. Len(s))
    BY <1>1
  <2>4. s[2 * i - 1] \in Members(s) /\ other(i) \in Members(s)
    BY <2>3, MemberFacts
  <2> QED
    BY <2>2, <2>4
<1>8. Members(s) \subseteq Kids(Members(t))
  <2> SUFFICES ASSUME NEW y \in Members(s) PROVE \E x \in Members(t) : y \in x[2]
    BY DEF Kids
  <2>1. PICK k \in 1 .. Len(s) : y = s[k]
    BY MemberFacts
  <2> DEFINE i == (k + 1) \div 2
  <2>2. i \in 1 .. half /\ (k = 2 * i - 1 \/ k = 2 * i)
    BY <1>1
  <2>3. y \in {s[2 * i - 1], other(i)}
    BY <2>1, <2>2
  <2>4. t[i] \in Members(t) /\ y \in t[i][2]
    BY <1>3, <2>2, <2>3 DEF Members
  <2> QED
    BY <2>4
<1>9. \A x \in Members(t) : x[1] = "node"
  BY <1>6
<1> QED
  BY <1>5, <1>7, <1>8, <1>9 DEF t

\* The layers of a tree: each is made of the one below, and the last is a single node.
IsTree(layers) ==
  /\ IsLayer(layers)
  /\ \A l \in 1 .. Len(layers) : IsLayer(layers[l])
  /\ \A l \in 2 .. Len(layers) : layers[l] = NextLayer(layers[l - 1])
  /\ Len(layers[Len(layers)]) = 1

\* Induction over an interval that starts at one.
LEMMA InductionFromOne ==
  ASSUME NEW N \in Nat, NEW T, 1 \in T, \A n \in 2 .. N : n - 1 \in T => n \in T
  PROVE  \A n \in 1 .. N : n \in T
<1> DEFINE U == {n \in 0 .. N : n = 0 \/ n \in T}
<1>1. 0 \in U
  OBVIOUS
<1>2. \A n \in 1 .. N : n - 1 \in U => n \in U
  <2> SUFFICES ASSUME NEW n \in 1 .. N, n - 1 \in U PROVE n \in U
    OBVIOUS
  <2>1. n = 1 \/ n - 1 \in T
    OBVIOUS
  <2>2. n \in T
    BY <2>1
  <2> QED
    BY <2>2
<1>3. \A n \in 0 .. N : n \in U
  <2> HIDE DEF U
  <2> QED
    BY <1>1, <1>2, IntervalInduction
<1> QED
  BY <1>3

\* The first layers of a tree over base.
IsTower(layers, base) ==
  /\ IsLayer(layers)
  /\ layers[1] = base
  /\ \A l \in 1 .. Len(layers) : IsLayer(layers[l])
  /\ \A l \in 2 .. Len(layers) : layers[l] = NextLayer(layers[l - 1])

Top(layers) == Len(layers[Len(layers)])

Pushed(below) ==
  LET last == below[Len(below)]
  IN  IF Len(last) > 1 THEN Append(below, NextLayer(last)) ELSE below

\* The uppermost layer of a tower has at least one node.
LEMMA TopFacts ==
  ASSUME NEW t, NEW base, IsTower(t, base)
  PROVE  Top(t) \in Nat \ {0} /\ Len(t) \in Nat \ {0}
<1>1. IsLayer(t) /\ \A l \in 1 .. Len(t) : IsLayer(t[l])
  BY DEF IsTower
<1>2. Len(t) \in 1 .. Len(t) /\ Len(t) \in Nat \ {0}
  BY <1>1 DEF IsLayer
<1>3. IsLayer(t[Len(t)])
  BY <1>1, <1>2
<1> QED
  BY <1>2, <1>3 DEF Top, IsLayer

\* One turn of the loop of buildTree pushes a shorter layer, until the top is a single node.
LEMMA PushedTower ==
  ASSUME NEW base, NEW below, IsTower(below, base)
  PROVE  /\ IsTower(Pushed(below), base)
         /\ Top(below) = 1 => Top(Pushed(below)) = 1
         /\ Top(below) > 1 => Top(Pushed(below)) \in 1 .. Top(below) - 1
<1> DEFINE n == Len(below)
           last == below[n]
<1>1. n \in Nat \ {0} /\ n \in 1 .. n /\ DOMAIN below = 1 .. n
  BY MemberFacts DEF IsTower, IsLayer
<1>2. IsLayer(last) /\ Len(last) \in Nat \ {0} /\ Top(below) = Len(last)
  BY <1>1 DEF IsTower, IsLayer, Top
<1>3. CASE Len(last) = 1
  <2>1. Pushed(below) = below
    BY <1>3 DEF Pushed
  <2> QED
    BY <2>1, <1>2, <1>3
<1>4. CASE Len(last) > 1
  <2> DEFINE next == NextLayer(last)
             t == Append(below, next)
             S == Members(below) \cup {next}
  <2>1. Pushed(below) = t
    BY <1>4 DEF Pushed
  <2>2. below \in Seq(S) /\ next \in S
    <3>1. below \in Seq(Members(below))
      BY DEF IsTower, IsLayer
    <3> HIDE DEF next
    <3> QED
      BY <3>1
  <2>3. IsLayer(next) /\ Len(next) = (Len(last) + 1) \div 2
    BY <1>2, NextLayerFacts
  <2> HIDE DEF next, S
  <2>4. /\ t \in Seq(S) /\ Len(t) = n + 1 /\ t[n + 1] = next
        /\ \A l \in 1 .. n : t[l] = below[l]
    BY <2>2, <1>1
  <2> HIDE DEF t
  <2>5. IsLayer(t)
    <3>1. t = [i \in 1 .. n + 1 |-> t[i]] /\ n + 1 \in Nat \ {0}
      BY <2>4, <1>1
    <3> QED
      BY <3>1, IsLayerBy
  <2>6. \A l \in 1 .. n + 1 : IsLayer(t[l])
    BY <2>3, <2>4, <1>1 DEF IsTower
  <2>7. \A l \in 2 .. n + 1 : t[l] = NextLayer(t[l - 1])
    <3> SUFFICES ASSUME NEW l \in 2 .. n + 1 PROVE t[l] = NextLayer(t[l - 1])
      OBVIOUS
    <3>1. t[l - 1] = below[l - 1]
      BY <2>4, <1>1
    <3>2. CASE l = n + 1
      <4>1. l - 1 = n
        BY <3>2, <1>1
      <4> QED
        BY <3>1, <3>2, <4>1, <2>4 DEF next
    <3>3. CASE l # n + 1
      <4>1. l \in 1 .. n /\ l \in 2 .. n
        BY <3>3, <1>1
      <4> QED
        BY <3>1, <4>1, <2>4 DEF IsTower
    <3> QED
      BY <3>2, <3>3
  <2>8. t[1] = base
    BY <2>4, <1>1 DEF IsTower
  <2>9. IsTower(t, base)
    BY <2>4, <2>5, <2>6, <2>7, <2>8 DEF IsTower
  <2>10. Top(t) = (Len(last) + 1) \div 2
    BY <2>3, <2>4 DEF Top
  <2>11. \A k \in Nat : k > 1 => (k + 1) \div 2 \in 1 .. k - 1
    OBVIOUS
  <2>12. Top(t) \in 1 .. Top(below) - 1 /\ Top(below) # 1
    <3> DEFINE k == Len(last)
    <3>1. k \in Nat /\ k > 1 /\ Top(below) = k /\ Top(t) = (k + 1) \div 2
      BY <1>2, <1>4, <2>10
    <3> HIDE DEF k
    <3> QED
      BY <3>1, <2>11
  <2> QED
    BY <2>1, <2>9, <2>12
<1>5. Len(last) = 1 \/ Len(last) > 1
  <2> DEFINE k == Len(last)
  <2>1. k \in Nat \ {0}
    BY <1>2
  <2> HIDE DEF k
  <2>2. k = 1 \/ k > 1
    BY <2>1
  <2> QED
    BY <2>2 DEF k
<1> QED
  BY <1>3, <1>4, <1>5

\* The loop of buildTree ends with a tree whose lowest layer is the given one.
LEMMA LayersFacts ==
  ASSUME NEW base, IsLayer(base)
  PROVE  IsTree(LayersAbove(base)) /\ LayersAbove(base)[1] = base
<1> DEFINE N == Len(base)
           Body(f) == [n \in 1 .. N |-> IF n = 1 THEN <<base>> ELSE Pushed(f[n - 1])]
           each == CHOOSE f : f = Body(f)
           Part(f, m) == f = [n \in 1 .. m |-> IF n = 1 THEN <<base>> ELSE Pushed(f[n - 1])]
           T == {m \in 1 .. N : \E f : Part(f, m)}
<1>1. N \in Nat \ {0}
  BY DEF IsLayer
<1>2. 1 \in T
  <2>1. Part([n \in 1 .. 1 |-> <<base>>], 1)
    OBVIOUS
  <2>2. 1 \in 1 .. N
    BY <1>1
  <2> HIDE DEF Part
  <2> QED
    BY <2>1, <2>2
<1>3. \A m \in 2 .. N : m - 1 \in T => m \in T
  <2> SUFFICES ASSUME NEW m \in 2 .. N, m - 1 \in T PROVE m \in T
    OBVIOUS
  <2>1. PICK f : Part(f, m - 1)
    OBVIOUS
  <2> DEFINE g == [n \in 1 .. m |-> IF n = m THEN Pushed(f[m - 1]) ELSE f[n]]
  <2>2. m \in Nat /\ m >= 2
    BY <1>1
  <2>3. \A n \in 1 .. m : g[n] = IF n = 1 THEN <<base>> ELSE Pushed(g[n - 1])
    <3> SUFFICES ASSUME NEW n \in 1 .. m PROVE g[n] = IF n = 1 THEN <<base>> ELSE Pushed(g[n - 1])
      OBVIOUS
    <3>1. CASE n = m
      <4>1. g[m] = Pushed(f[m - 1])
        BY <2>2
      <4>2. g[m - 1] = f[m - 1]
        BY <2>2
      <4> QED
        BY <4>1, <4>2, <3>1, <2>2
    <3>2. CASE n # m /\ n # 1
      <4>1. g[n] = f[n] /\ g[n - 1] = f[n - 1] /\ n \in 1 .. m - 1
        BY <3>2, <2>2
      <4>2. f[n] = Pushed(f[n - 1])
        BY <2>1, <4>1, <3>2
      <4> QED
        BY <4>1, <4>2, <3>2
    <3>3. CASE n # m /\ n = 1
      <4>1. g[n] = f[n] /\ n \in 1 .. m - 1
        BY <3>3, <2>2
      <4>2. f[n] = <<base>>
        BY <2>1, <4>1, <3>3
      <4> QED
        BY <4>1, <4>2, <3>3
    <3> QED
      BY <3>1, <3>2, <3>3
  <2>4. Part(g, m)
    <3> DEFINE h == [n \in 1 .. m |-> IF n = 1 THEN <<base>> ELSE Pushed(g[n - 1])]
    <3>1. \A n \in 1 .. m : g[n] = h[n]
      BY <2>3
    <3>2. g = h
      <4>1. g = [n \in 1 .. m |-> g[n]] /\ h = [n \in 1 .. m |-> h[n]]
        OBVIOUS
      <4> HIDE DEF g, h
      <4> QED
        BY <3>1, <4>1
    <3> QED
      BY <3>2
  <2> HIDE DEF Part, g
  <2> QED
    BY <2>4
<1>4. \A m \in 1 .. N : m \in T
  <2> HIDE DEF T
  <2> QED
    BY <1>1, <1>2, <1>3, InductionFromOne
<1>5. PICK f : f = Body(f)
  <2>1. N \in T
    BY <1>1, <1>4
  <2> QED
    BY <2>1
<1>6. each = Body(each)
  <2> HIDE DEF Body
  <2> QED
    BY <1>5, Zenon
<1>7. LayersAbove(base) = each[N]
  BY Zenon DEF LayersAbove, Pushed
<1> HIDE DEF each
<1>8. \A n \in 1 .. N : each[n] = IF n = 1 THEN <<base>> ELSE Pushed(each[n - 1])
  BY <1>6
<1> DEFINE G == {n \in 1 .. N : IsTower(each[n], base) /\ Top(each[n]) >= 1
                                /\ (Top(each[n]) = 1 \/ Top(each[n]) + n <= N + 1)}
<1>9. 1 \in G
  <2>1. each[1] = <<base>>
    <3>1. 1 \in 1 .. N
      BY <1>1
    <3> HIDE DEF N
    <3> QED
      BY <1>8, <3>1
  <2>2. IsLayer(<<base>>) /\ Len(<<base>>) = 1
    <3>1. <<base>> = [i \in 1 .. 1 |-> <<base>>[i]] /\ 1 \in Nat \ {0}
      OBVIOUS
    <3> QED
      BY <3>1, IsLayerBy
  <2>3. <<base>>[1] = base
    OBVIOUS
  <2>4. IsTower(<<base>>, base) /\ Top(<<base>>) = N
    BY <2>2, <2>3 DEF IsTower, Top
  <2> QED
    BY <2>1, <2>4, <1>1
<1>10. \A n \in 2 .. N : n - 1 \in G => n \in G
  <2> SUFFICES ASSUME NEW n \in 2 .. N, n - 1 \in G PROVE n \in G
    OBVIOUS
  <2>1. each[n] = Pushed(each[n - 1])
    BY <1>1, <1>8
  <2>2. IsTower(each[n - 1], base)
    OBVIOUS
  <2>3. Top(each[n - 1]) \in Nat \ {0}
    BY <2>2, TopFacts
  <2>4. /\ IsTower(each[n], base)
        /\ Top(each[n - 1]) = 1 => Top(each[n]) = 1
        /\ Top(each[n - 1]) > 1 => Top(each[n]) \in 1 .. Top(each[n - 1]) - 1
    BY <2>1, <2>2, PushedTower
  <2> QED
    BY <2>3, <2>4, <1>1
<1>11. N \in G
  <2>1. \A n \in 1 .. N : n \in G
    <3> HIDE DEF G
    <3> QED
      BY <1>1, <1>9, <1>10, InductionFromOne
  <2> QED
    BY <2>1, <1>1
<1>12. IsTower(each[N], base) /\ Top(each[N]) = 1
  <2>1. IsTower(each[N], base) /\ Top(each[N]) >= 1 /\ (Top(each[N]) = 1 \/ Top(each[N]) + N <= N + 1)
    BY <1>11
  <2>2. Top(each[N]) \in Nat
    BY <2>1, TopFacts
  <2> QED
    BY <2>1, <2>2, <1>1
<1> QED
  BY <1>7, <1>12 DEF IsTree, IsTower, Top

\* Every layer of a tree is made of the one below; the uppermost is the root.
LEMMA TreeFacts ==
  ASSUME NEW t, IsTree(t)
  PROVE  /\ Len(t) \in Nat \ {0}
         /\ \A l \in 2 .. Len(t) : /\ Kids(Members(t[l])) = Members(t[l - 1])
                                   /\ \A x \in Members(t[l]) : x[1] = "node"
         /\ Members(t[Len(t)]) = {Root(t)}
         /\ \A l \in 1 .. Len(t) : Members(t[l]) # {}
<1>1. Len(t) \in Nat \ {0} /\ Len(t) \in 1 .. Len(t)
  BY DEF IsTree, IsLayer
<1>2. ASSUME NEW l \in 2 .. Len(t)
      PROVE  /\ Kids(Members(t[l])) = Members(t[l - 1])
             /\ \A x \in Members(t[l]) : x[1] = "node"
  <2>1. IsLayer(t[l - 1]) /\ t[l] = NextLayer(t[l - 1])
    BY <1>1 DEF IsTree
  <2> QED
    BY <2>1, NextLayerFacts
<1>3. Members(t[Len(t)]) = {Root(t)}
  <2> DEFINE s == t[Len(t)]
  <2>1. IsLayer(s) /\ Len(s) = 1
    BY <1>1 DEF IsTree
  <2> HIDE DEF s
  <2>2. DOMAIN s = {1}
    BY <2>1, MemberFacts
  <2>3. Members(s) = {s[1]}
    BY <2>2 DEF Members
  <2> QED
    BY <2>3 DEF Root, s
<1>4. \A l \in 1 .. Len(t) : Members(t[l]) # {}
  BY MemberFacts DEF IsTree
<1> QED
  BY <1>1, <1>2, <1>3, <1>4

LeafTagged(s) == \A x \in Members(s) : x[1] = "leaf"

\* From equal roots down: the shallower of two trees has the members of the other's layer at the
\* same height below the root.
LEMMA SameBelow ==
  ASSUME NEW A, IsTree(A), NEW B, IsTree(B), Root(A) = Root(B), Len(A) <= Len(B)
  PROVE  Members(A[1]) = Members(B[Len(B) - Len(A) + 1])
<1> DEFINE m == Len(A)
           n == Len(B)
           T == {k \in 0 .. m - 1 : Members(A[m - k]) = Members(B[n - k])}
<1>1. m \in Nat \ {0} /\ n \in Nat \ {0}
  BY TreeFacts
<1>2. 0 \in T
  <2>1. Members(A[m]) = Members(B[n])
    BY TreeFacts
  <2>2. m - 0 = m /\ n - 0 = n /\ 0 \in 0 .. m - 1
    BY <1>1
  <2> QED
    BY <2>1, <2>2
<1>3. \A k \in 1 .. m - 1 : k - 1 \in T => k \in T
  <2> SUFFICES ASSUME NEW k \in 1 .. m - 1, k - 1 \in T PROVE k \in T
    OBVIOUS
  <2>1. /\ m - (k - 1) \in 2 .. m /\ n - (k - 1) \in 2 .. n
        /\ (m - (k - 1)) - 1 = m - k /\ (n - (k - 1)) - 1 = n - k
    BY <1>1
  <2>2. Members(A[m - (k - 1)]) = Members(B[n - (k - 1)])
    OBVIOUS
  <2>3. Kids(Members(A[m - (k - 1)])) = Members(A[m - k])
    BY <2>1, TreeFacts
  <2>4. Kids(Members(B[n - (k - 1)])) = Members(B[n - k])
    BY <2>1, TreeFacts
  <2>5. Members(A[m - k]) = Members(B[n - k])
    BY <2>2, <2>3, <2>4
  <2> QED
    BY <2>5, <1>1
<1>4. \A k \in 0 .. m - 1 : k \in T
  <2>1. m - 1 \in Nat
    BY <1>1
  <2> HIDE DEF T, m
  <2> QED
    BY <2>1, <1>2, <1>3, IntervalInduction
<1>5. m - 1 \in 0 .. m - 1 /\ m - (m - 1) = 1 /\ n - (m - 1) = n - m + 1
  BY <1>1
<1>6. m - 1 \in T
  <2> HIDE DEF T
  <2> QED
    BY <1>4, <1>5
<1> QED
  BY <1>5, <1>6

\* Equal roots bind equal sets of tagged leaves, whatever the sizes and shapes of the two trees: the
\* domain tags tell a leaf from a node, and with it the height at which a value stands.
LEMMA TreesBind ==
  ASSUME NEW A, IsTree(A), LeafTagged(A[1]), NEW B, IsTree(B), LeafTagged(B[1]),
         Root(A) = Root(B)
  PROVE  Members(A[1]) = Members(B[1])
<1>1. Len(A) \in Nat \ {0} /\ Len(B) \in Nat \ {0}
  BY TreeFacts
<1>2. ~ (Len(A) < Len(B))
  <2> SUFFICES ASSUME Len(A) < Len(B) PROVE FALSE
    OBVIOUS
  <2> DEFINE l == Len(B) - Len(A) + 1
  <2>1. l \in 2 .. Len(B) /\ 1 \in 1 .. Len(A)
    BY <1>1
  <2>2. Members(A[1]) = Members(B[l])
    BY <1>1, SameBelow
  <2>3. \A x \in Members(B[l]) : x[1] = "node"
    BY <2>1, TreeFacts
  <2>4. PICK x : x \in Members(A[1])
    BY <2>1, TreeFacts
  <2> QED
    BY <2>2, <2>3, <2>4 DEF LeafTagged
<1>3. ~ (Len(B) < Len(A))
  <2> SUFFICES ASSUME Len(B) < Len(A) PROVE FALSE
    OBVIOUS
  <2> DEFINE l == Len(A) - Len(B) + 1
  <2>1. l \in 2 .. Len(A) /\ 1 \in 1 .. Len(B)
    BY <1>1
  <2>2. Members(B[1]) = Members(A[l])
    BY <1>1, SameBelow
  <2>3. \A x \in Members(A[l]) : x[1] = "node"
    BY <2>1, TreeFacts
  <2>4. PICK x : x \in Members(B[1])
    BY <2>1, TreeFacts
  <2> QED
    BY <2>2, <2>3, <2>4 DEF LeafTagged
<1>4. Len(A) = Len(B)
  BY <1>1, <1>2, <1>3
<1>5. Len(B) - Len(A) + 1 = 1 /\ Len(A) <= Len(B)
  BY <1>1, <1>4
<1> QED
  BY <1>5, SameBelow

\* What Fold computes, step by step.
IsFold(c, leaf, proof) ==
  /\ c[0] = leafHash(leaf)
  /\ \A n \in 1 .. Len(proof) : c[n] = nodeHash(c[n - 1], proof[n])

\* A fold is what its steps compute, one sibling after the other.
LEMMA FoldFacts ==
  ASSUME NEW leaf, NEW proof, Len(proof) \in Nat
  PROVE  \E c : IsFold(c, leaf, proof) /\ Fold(leaf, proof) = c[Len(proof)]
<1> DEFINE N == Len(proof)
           Step(f, n) == IF n = 0 THEN leafHash(leaf) ELSE nodeHash(f[n - 1], proof[n])
           Body(f) == [n \in 0 .. N |-> Step(f, n)]
           each == CHOOSE f : f = Body(f)
           Part(f, m) == f = [n \in 0 .. m |-> Step(f, n)]
           T == {m \in 0 .. N : \E f : Part(f, m)}
<1>1. N \in Nat
  OBVIOUS
<1>2. 0 \in T
  <2>1. Part([n \in 0 .. 0 |-> leafHash(leaf)], 0)
    OBVIOUS
  <2>2. 0 \in 0 .. N
    BY <1>1
  <2> HIDE DEF Part
  <2> QED
    BY <2>1, <2>2
<1>3. \A m \in 1 .. N : m - 1 \in T => m \in T
  <2> SUFFICES ASSUME NEW m \in 1 .. N, m - 1 \in T PROVE m \in T
    OBVIOUS
  <2>1. PICK f : Part(f, m - 1)
    OBVIOUS
  <2> DEFINE g == [n \in 0 .. m |-> IF n = m THEN Step(f, m) ELSE f[n]]
             h == [n \in 0 .. m |-> Step(g, n)]
  <2>2. \A n \in 0 .. m : g[n] = h[n]
    <3> SUFFICES ASSUME NEW n \in 0 .. m PROVE g[n] = Step(g, n)
      OBVIOUS
    <3>1. CASE n = m
      <4>1. g[m - 1] = f[m - 1] /\ g[m] = Step(f, m) /\ m # 0
        OBVIOUS
      <4> QED
        BY <4>1, <3>1
    <3>2. CASE n # m /\ n # 0
      <4>1. g[n] = f[n] /\ g[n - 1] = f[n - 1] /\ n \in 0 .. m - 1
        BY <3>2
      <4>2. f[n] = Step(f, n)
        BY <2>1, <4>1
      <4> QED
        BY <4>1, <4>2, <3>2
    <3>3. CASE n # m /\ n = 0
      <4>1. g[n] = f[n] /\ n \in 0 .. m - 1
        BY <3>3
      <4>2. f[n] = Step(f, n)
        BY <2>1, <4>1
      <4> QED
        BY <4>1, <4>2, <3>3
    <3> QED
      BY <3>1, <3>2, <3>3
  <2>3. g = h
    <3>1. g = [n \in 0 .. m |-> g[n]] /\ h = [n \in 0 .. m |-> h[n]]
      OBVIOUS
    <3> HIDE DEF g, h
    <3> QED
      BY <2>2, <3>1
  <2>4. Part(g, m)
    BY <2>3
  <2> HIDE DEF Part, g
  <2> QED
    BY <2>4
<1>4. \A m \in 0 .. N : m \in T
  <2> HIDE DEF T
  <2> QED
    BY <1>1, <1>2, <1>3, IntervalInduction
<1>5. PICK f : f = Body(f)
  <2>1. N \in T
    BY <1>1, <1>4
  <2> QED
    BY <2>1
<1>6. each = Body(each)
  <2> HIDE DEF Body
  <2> QED
    BY <1>5, Zenon
<1>7. Fold(leaf, proof) = each[N]
  BY Zenon DEF Fold
<1> HIDE DEF each
<1>8. IsFold(each, leaf, proof)
  BY <1>6 DEF IsFold
<1> QED
  BY <1>7, <1>8

\* A proof that folds to the root of a tree starts at one of its leaves, whatever was taken for the
\* leaf and however many siblings the proof has.
LEMMA FoldedLeaf ==
  ASSUME NEW t, IsTree(t), LeafTagged(t[1]), NEW leaf, NEW proof, Len(proof) \in Nat,
         Fold(leaf, proof) = Root(t)
  PROVE  leafHash(leaf) \in Members(t[1])
<1> DEFINE m == Len(t)
           N == Len(proof)
           d == IF N <= m - 1 THEN N ELSE m - 1
<1>1. PICK c : IsFold(c, leaf, proof) /\ c[N] = Root(t)
  BY FoldFacts
<1>2. m \in Nat \ {0} /\ N \in Nat /\ d \in Nat /\ d <= N /\ d <= m - 1
  BY TreeFacts
<1> DEFINE T == {k \in 0 .. d : c[N - k] \in Members(t[m - k])}
<1>3. 0 \in T
  <2>1. c[N] \in Members(t[m])
    BY <1>1, TreeFacts
  <2>2. N - 0 = N /\ m - 0 = m /\ 0 \in 0 .. d
    BY <1>2
  <2> QED
    BY <2>1, <2>2
<1>4. \A k \in 1 .. d : k - 1 \in T => k \in T
  <2> SUFFICES ASSUME NEW k \in 1 .. d, k - 1 \in T PROVE k \in T
    OBVIOUS
  <2>1. /\ m - (k - 1) \in 2 .. m /\ (m - (k - 1)) - 1 = m - k
        /\ N - (k - 1) \in 1 .. N /\ (N - (k - 1)) - 1 = N - k
    BY <1>2
  <2>2. c[N - (k - 1)] = <<"node", {c[N - k], proof[N - (k - 1)]}>>
    BY <1>1, <2>1 DEF IsFold, nodeHash
  <2>3. c[N - k] \in c[N - (k - 1)][2]
    BY <2>2
  <2>4. c[N - (k - 1)] \in Members(t[m - (k - 1)])
    OBVIOUS
  <2>5. c[N - k] \in Kids(Members(t[m - (k - 1)]))
    BY <2>3, <2>4 DEF Kids
  <2>6. Kids(Members(t[m - (k - 1)])) = Members(t[m - k])
    BY <2>1, TreeFacts
  <2> QED
    BY <2>5, <2>6, <1>2
<1>5. d \in T
  <2>1. \A k \in 0 .. d : k \in T
    <3> HIDE DEF T, d
    <3> QED
      BY <1>2, <1>3, <1>4, IntervalInduction
  <2> HIDE DEF T, d
  <2> QED
    BY <1>2, <2>1
<1>6. c[N - d] \in Members(t[m - d])
  BY <1>5
<1>7. c[0] = <<"leaf", leaf>>
  BY <1>1 DEF IsFold, leafHash
<1>8. ~ (N < m - 1)
  <2> SUFFICES ASSUME N < m - 1 PROVE FALSE
    OBVIOUS
  <2>1. N - d = 0 /\ m - d \in 2 .. m
    BY <1>2
  <2>2. c[0][1] = "node"
    BY <2>1, <1>6, TreeFacts
  <2> QED
    BY <2>2, <1>7
<1>9. ~ (N > m - 1)
  <2> SUFFICES ASSUME N > m - 1 PROVE FALSE
    OBVIOUS
  <2>1. m - d = 1 /\ N - d \in 1 .. N
    BY <1>2
  <2>2. c[N - d][1] = "leaf"
    BY <2>1, <1>6 DEF LeafTagged
  <2>3. c[N - d] = <<"node", {c[N - d - 1], proof[N - d]}>>
    BY <2>1, <1>1 DEF IsFold, nodeHash
  <2> QED
    BY <2>2, <2>3
<1>10. N - d = 0 /\ m - d = 1
  BY <1>2, <1>8, <1>9
<1> QED
  BY <1>6, <1>7, <1>10 DEF leafHash

-----------------------------------------------------------------------------
\* The leaves that come before one of them, of which there are fewer than leaves.
Earlier(leaves, k) == {i \in DOMAIN leaves : Before(leaves, i, k)}

Valued(leaves) == IsLayer(leaves) /\ \A i \in 1 .. Len(leaves) : leaves[i][2] \in Int

\* The comparison of buildTree's sort is a strict total order of the places.
LEMMA BeforeOrders ==
  ASSUME NEW leaves, Valued(leaves), NEW i \in 1 .. Len(leaves), NEW k \in 1 .. Len(leaves)
  PROVE  /\ ~ Before(leaves, i, i)
         /\ i # k => Before(leaves, i, k) \/ Before(leaves, k, i)
         /\ \A h \in 1 .. Len(leaves) :
              Before(leaves, h, i) /\ Before(leaves, i, k) => Before(leaves, h, k)
<1>1. i \in Int /\ k \in Int /\ leaves[i][2] \in Int /\ leaves[k][2] \in Int
  BY DEF Valued
<1>2. ~ Before(leaves, i, i)
  BY <1>1 DEF Before
<1>3. i # k => Before(leaves, i, k) \/ Before(leaves, k, i)
  BY <1>1 DEF Before
<1>4. ASSUME NEW h \in 1 .. Len(leaves), Before(leaves, h, i), Before(leaves, i, k)
      PROVE  Before(leaves, h, k)
  <2>1. h \in Int /\ leaves[h][2] \in Int
    BY DEF Valued
  <2> QED
    BY <1>1, <1>4, <2>1 DEF Before
<1> QED
  BY <1>2, <1>3, <1>4

\* A place that comes before another has fewer places before it.
LEMMA EarlierCounts ==
  ASSUME NEW leaves, Valued(leaves), NEW k \in 1 .. Len(leaves)
  PROVE  /\ Cardinality(Earlier(leaves, k)) \in 0 .. Len(leaves) - 1
         /\ \A i \in 1 .. Len(leaves) :
              Before(leaves, i, k) => Cardinality(Earlier(leaves, i)) < Cardinality(Earlier(leaves, k))
<1> DEFINE n == Len(leaves)
           E(i) == Earlier(leaves, i)
<1>1. n \in Nat \ {0} /\ DOMAIN leaves = 1 .. n
  BY MemberFacts DEF Valued, IsLayer
<1>2. IsFiniteSet(1 .. n) /\ Cardinality(1 .. n) = n
  <2>1. 1 \in Int /\ n \in Int
    BY <1>1
  <2>2. /\ IsFiniteSet(1 .. n)
        /\ Cardinality(1 .. n) = IF 1 > n THEN 0 ELSE n - 1 + 1
    BY <2>1, FS_Interval, Zenon
  <2> QED
    BY <1>1, <2>2
<1>3. ASSUME NEW S, S \subseteq 1 .. n
      PROVE  IsFiniteSet(S) /\ Cardinality(S) \in Nat
  BY <1>2, <1>3, FS_Subset, FS_CardinalityType
<1>4. ASSUME NEW S, S \subseteq 1 .. n, NEW U, U \subseteq S, NEW x \in S, x \notin U
      PROVE  Cardinality(U) < Cardinality(S)
  <2>1. IsFiniteSet(S) /\ Cardinality(S) \in Nat /\ Cardinality(U) \in Nat
    BY <1>3, <1>4
  <2>2. Cardinality(U) <= Cardinality(S) /\ (Cardinality(S) = Cardinality(U) => S = U)
    BY <1>4, <2>1, FS_Subset, Zenon
  <2>3. S # U
    BY <1>4
  <2> QED
    BY <2>1, <2>2, <2>3
<1>5. \A i \in 1 .. n : E(i) \subseteq 1 .. n
  BY <1>1 DEF Earlier
<1>6. Cardinality(E(k)) < n /\ Cardinality(E(k)) \in Nat
  <2>1. k \notin E(k)
    BY BeforeOrders DEF Earlier
  <2>2. Cardinality(E(k)) < Cardinality(1 .. n)
    <3> HIDE DEF E, n
    <3> QED
      BY <1>4, <1>5, <2>1 DEF n
  <2> QED
    BY <1>2, <1>3, <1>5, <2>2
<1>7. ASSUME NEW i \in 1 .. n, Before(leaves, i, k)
      PROVE  Cardinality(E(i)) < Cardinality(E(k))
  <2>1. E(i) \subseteq E(k)
    BY <1>1, <1>7, BeforeOrders DEF Earlier
  <2>2. i \in E(k) /\ i \notin E(i)
    BY <1>1, <1>7, BeforeOrders DEF Earlier
  <2> HIDE DEF E, n
  <2> QED
    BY <1>4, <1>5, <2>1, <2>2 DEF n
<1> QED
  BY <1>1, <1>6, <1>7

\* An order as sortedLeaves chooses it.
Ascends(leaves, o) ==
  /\ o \in [1 .. Len(leaves) -> 1 .. Len(leaves)]
  /\ \A n \in 2 .. Len(leaves) : Before(leaves, o[n - 1], o[n])

\* There is an ascending order: each place goes where as many as come before it end.
LEMMA OrderExists ==
  ASSUME NEW leaves, Valued(leaves)
  PROVE  \E o : Ascends(leaves, o)
<1> DEFINE N == Len(leaves)
           spot == [k \in 1 .. N |-> Cardinality(Earlier(leaves, k)) + 1]
<1>1. N \in Nat \ {0}
  BY DEF Valued, IsLayer
<1>2. spot \in [1 .. N -> 1 .. N]
  <2>1. \A k \in 1 .. N : Cardinality(Earlier(leaves, k)) \in 0 .. N - 1
    BY EarlierCounts
  <2> QED
    BY <1>1, <2>1
<1>3. \A i, k \in 1 .. N : Before(leaves, i, k) => spot[i] < spot[k]
  <2> SUFFICES ASSUME NEW i \in 1 .. N, NEW k \in 1 .. N, Before(leaves, i, k)
               PROVE  spot[i] < spot[k]
    OBVIOUS
  <2>1. /\ Cardinality(Earlier(leaves, i)) \in 0 .. N - 1
        /\ Cardinality(Earlier(leaves, k)) \in 0 .. N - 1
        /\ Cardinality(Earlier(leaves, i)) < Cardinality(Earlier(leaves, k))
    BY EarlierCounts
  <2> QED
    BY <2>1, <1>1
<1> HIDE DEF spot
<1>4. \A i, k \in 1 .. N : spot[i] = spot[k] => i = k
  <2> SUFFICES ASSUME NEW i \in 1 .. N, NEW k \in 1 .. N, spot[i] = spot[k], i # k PROVE FALSE
    OBVIOUS
  <2>1. Before(leaves, i, k) \/ Before(leaves, k, i)
    BY BeforeOrders
  <2>2. spot[i] < spot[k] \/ spot[k] < spot[i]
    BY <1>3, <2>1
  <2>3. spot[i] \in Int /\ spot[k] \in Int
    BY <1>2
  <2> QED
    BY <2>2, <2>3
<1>5. \A n \in 1 .. N : \E k \in 1 .. N : spot[k] = n
  <2>1. spot \in Injection(1 .. N, 1 .. N)
    BY <1>2, <1>4 DEF Injection, IsInjective
  <2>2. 1 \in Int /\ N \in Int
    BY <1>1
  <2>3. IsFiniteSet(1 .. N)
    BY <2>2, FS_Interval, Zenon
  <2>4. spot \in Surjection(1 .. N, 1 .. N)
    BY <2>1, <2>3, FS_Injection, Zenon
  <2> QED
    BY <2>4 DEF Surjection
<1> DEFINE o == [n \in 1 .. N |-> CHOOSE k \in 1 .. N : spot[k] = n]
<1>6. \A n \in 1 .. N : o[n] \in 1 .. N /\ spot[o[n]] = n
  BY <1>5
<1>7. o \in [1 .. N -> 1 .. N]
  BY <1>6
<1> HIDE DEF o
<1>8. \A n \in 2 .. N : Before(leaves, o[n - 1], o[n])
  <2> SUFFICES ASSUME NEW n \in 2 .. N PROVE Before(leaves, o[n - 1], o[n])
    OBVIOUS
  <2>1. n - 1 \in 1 .. N /\ n \in 1 .. N /\ n \in Int
    BY <1>1
  <2>2. /\ o[n - 1] \in 1 .. N /\ spot[o[n - 1]] = n - 1
        /\ o[n] \in 1 .. N /\ spot[o[n]] = n
    BY <1>6, <2>1
  <2>3. o[n - 1] # o[n] /\ ~ (spot[o[n]] < spot[o[n - 1]])
    BY <2>1, <2>2
  <2>4. ~ Before(leaves, o[n], o[n - 1])
    BY <1>3, <2>2, <2>3
  <2> QED
    BY <2>2, <2>3, <2>4, BeforeOrders
<1> QED
  BY <1>7, <1>8 DEF Ascends

\* An ascending order leaves no place out.
LEMMA AscendingIsOnto ==
  ASSUME NEW leaves, Valued(leaves), NEW o, Ascends(leaves, o)
  PROVE  \A k \in 1 .. Len(leaves) : \E n \in 1 .. Len(leaves) : o[n] = k
<1> DEFINE N == Len(leaves)
           T == {n \in 1 .. N : \A m \in 1 .. n - 1 : Before(leaves, o[m], o[n])}
<1>1. N \in Nat \ {0} /\ o \in [1 .. N -> 1 .. N]
  BY DEF Valued, IsLayer, Ascends
<1>2. 1 \in T
  BY <1>1
<1>3. \A n \in 2 .. N : n - 1 \in T => n \in T
  <2> SUFFICES ASSUME NEW n \in 2 .. N, n - 1 \in T, NEW m \in 1 .. n - 1
               PROVE  Before(leaves, o[m], o[n])
    BY <1>1
  <2>1. Before(leaves, o[n - 1], o[n])
    BY DEF Ascends
  <2>2. CASE m = n - 1
    BY <2>1, <2>2
  <2>3. CASE m # n - 1
    <3>1. m \in 1 .. (n - 1) - 1 /\ m \in 1 .. N /\ n - 1 \in 1 .. N /\ n \in 1 .. N
      BY <2>3, <1>1
    <3>2. Before(leaves, o[m], o[n - 1])
      BY <3>1
    <3>3. o[m] \in 1 .. N /\ o[n - 1] \in 1 .. N /\ o[n] \in 1 .. N
      BY <3>1, <1>1
    <3> QED
      BY <2>1, <3>2, <3>3, BeforeOrders
  <2> QED
    BY <2>2, <2>3
<1>4. \A n \in 1 .. N : n \in T
  <2> HIDE DEF T
  <2> QED
    BY <1>1, <1>2, <1>3, InductionFromOne
<1>5. \A m, n \in 1 .. N : o[m] = o[n] => m = n
  <2>1. ASSUME NEW m \in 1 .. N, NEW n \in 1 .. N, m < n PROVE o[m] # o[n]
    <3>1. m \in 1 .. n - 1
      BY <2>1
    <3>2. Before(leaves, o[m], o[n])
      BY <1>4, <3>1
    <3>3. ~ Before(leaves, o[n], o[n])
      BY <1>1, BeforeOrders
    <3> QED
      BY <3>2, <3>3
  <2> SUFFICES ASSUME NEW m \in 1 .. N, NEW n \in 1 .. N, o[m] = o[n] PROVE m = n
    OBVIOUS
  <2>2. m < n \/ n < m \/ m = n
    OBVIOUS
  <2> QED
    BY <2>1, <2>2
<1>6. o \in Injection(1 .. N, 1 .. N)
  BY <1>1, <1>5 DEF Injection, IsInjective
<1>7. IsFiniteSet(1 .. N)
  <2>1. 1 \in Int /\ N \in Int
    BY <1>1
  <2> QED
    BY <2>1, FS_Interval, Zenon
<1>8. o \in Surjection(1 .. N, 1 .. N)
  BY <1>6, <1>7, FS_Injection, Zenon
<1> QED
  BY <1>8 DEF Surjection

\* Sorting loses no leaf and adds none.
LEMMA SortedFacts ==
  ASSUME NEW leaves, Valued(leaves)
  PROVE  /\ IsLayer(sortedLeaves(leaves))
         /\ Len(sortedLeaves(leaves)) = Len(leaves)
         /\ Members(sortedLeaves(leaves)) = Members(leaves)
<1> DEFINE N == Len(leaves)
           order == CHOOSE o \in [DOMAIN leaves -> DOMAIN leaves] :
                      \A n \in 2 .. Len(leaves) : Before(leaves, o[n - 1], o[n])
           s == sortedLeaves(leaves)
<1>1. N \in Nat \ {0} /\ DOMAIN leaves = 1 .. N
  BY MemberFacts DEF Valued, IsLayer
<1>2. Ascends(leaves, order)
  <2>1. \E o \in [DOMAIN leaves -> DOMAIN leaves] :
           \A n \in 2 .. Len(leaves) : Before(leaves, o[n - 1], o[n])
    BY <1>1, OrderExists DEF Ascends
  <2>2. /\ order \in [DOMAIN leaves -> DOMAIN leaves]
        /\ \A n \in 2 .. Len(leaves) : Before(leaves, order[n - 1], order[n])
    BY <2>1, Zenon
  <2> HIDE DEF order
  <2> QED
    BY <1>1, <2>2 DEF Ascends
<1>3. s = [n \in 1 .. N |-> leaves[order[n]]]
  BY DEF sortedLeaves
<1> HIDE DEF order, s
<1>4. DOMAIN s = 1 .. N /\ \A n \in 1 .. N : s[n] = leaves[order[n]]
  BY <1>3
<1>5. IsLayer(s) /\ Len(s) = N
  <2>1. s = [n \in 1 .. N |-> s[n]]
    BY <1>3
  <2> QED
    BY <1>1, <2>1, IsLayerBy
<1>6. \A n \in 1 .. N : order[n] \in 1 .. N
  BY <1>2 DEF Ascends
<1>7. \A k \in 1 .. N : \E n \in 1 .. N : order[n] = k
  BY <1>2, AscendingIsOnto
<1>8. Members(s) = Members(leaves)
  <2>1. \A x : x \in Members(s) <=> \E n \in 1 .. N : x = leaves[order[n]]
    BY <1>4 DEF Members
  <2>2. \A x : x \in Members(leaves) <=> \E k \in 1 .. N : x = leaves[k]
    BY <1>1 DEF Members
  <2>3. ASSUME NEW x \in Members(s) PROVE x \in Members(leaves)
    BY <2>1, <2>2, <1>6
  <2>4. ASSUME NEW x \in Members(leaves) PROVE x \in Members(s)
    <3>1. PICK k \in 1 .. N : x = leaves[k]
      BY <2>2
    <3>2. PICK n \in 1 .. N : order[n] = k
      BY <1>7
    <3> QED
      BY <2>1, <3>1, <3>2
  <2> QED
    BY <2>3, <2>4
<1> QED
  BY <1>5, <1>8 DEF s

\* What buildTree returns is a tree over the tagged leaves.
LEMMA BuiltTree ==
  ASSUME NEW leaves, Valued(leaves)
  PROVE  /\ IsTree(buildTree(leaves))
         /\ Len(buildTree(leaves)[1]) = Len(leaves)
         /\ \A i \in 1 .. Len(leaves) : buildTree(leaves)[1][i] = leafHash(sortedLeaves(leaves)[i])
         /\ LeafTagged(buildTree(leaves)[1])
         /\ \A leaf : leafHash(leaf) \in Members(buildTree(leaves)[1]) <=> leaf \in Members(leaves)
<1> DEFINE N == Len(leaves)
           s == sortedLeaves(leaves)
           base == [i \in 1 .. Len(s) |-> leafHash(s[i])]
<1>1. IsLayer(s) /\ Len(s) = N /\ Members(s) = Members(leaves) /\ N \in Nat \ {0}
  BY SortedFacts DEF Valued, IsLayer
<1> HIDE DEF s
<1>2. IsLayer(base) /\ Len(base) = N
  <2>1. base = [i \in 1 .. N |-> base[i]]
    BY <1>1
  <2> HIDE DEF base
  <2> QED
    BY <1>1, <2>1, IsLayerBy
<1>3. buildTree(leaves) = LayersAbove(base)
  BY DEF buildTree, s
<1>4. \A i \in 1 .. N : base[i] = leafHash(s[i])
  BY <1>1
<1>5. DOMAIN base = 1 .. N
  BY <1>1
<1> HIDE DEF base
<1>6. IsTree(buildTree(leaves)) /\ buildTree(leaves)[1] = base
  BY <1>2, <1>3, LayersFacts
<1>7. LeafTagged(base)
  BY <1>4, <1>5 DEF LeafTagged, Members, leafHash
<1>8. ASSUME NEW leaf PROVE leafHash(leaf) \in Members(base) <=> leaf \in Members(leaves)
  <2>1. leafHash(leaf) \in Members(base) <=> \E i \in 1 .. N : leafHash(leaf) = leafHash(s[i])
    BY <1>4, <1>5 DEF Members
  <2>2. \A x : leafHash(leaf) = leafHash(x) <=> leaf = x
    BY DEF leafHash
  <2>3. leaf \in Members(s) <=> \E i \in 1 .. N : leaf = s[i]
    BY <1>1, MemberFacts
  <2> QED
    BY <2>1, <2>2, <2>3, <1>1
<1> QED
  BY <1>2, <1>4, <1>6, <1>7, <1>8 DEF s

\* The root commits to the leaves: two lists of leaves, of any lengths, from which buildTree makes
\* the same root have the same members (cli/hash.js, buildTree).
THEOREM RootBinds ==
  ASSUME NEW s, Valued(s), NEW t, Valued(t), Root(buildTree(s)) = Root(buildTree(t))
  PROVE  Members(s) = Members(t)
<1>1. Members(buildTree(s)[1]) = Members(buildTree(t)[1])
  BY BuiltTree, TreesBind
<1>2. \A x : x \in Members(s) <=> leafHash(x) \in Members(buildTree(s)[1])
  BY BuiltTree
<1>3. \A x : x \in Members(t) <=> leafHash(x) \in Members(buildTree(t)[1])
  BY BuiltTree
<1> QED
  BY <1>1, <1>2, <1>3

\* No forged membership: a leaf that some proof, of any length, leads to the root of buildTree is one
\* of the leaves (verifyLeaf, on the chain and in cli/hash.js).
THEOREM ProofSound ==
  ASSUME NEW s, Valued(s), NEW leaf, NEW proof, Len(proof) \in Nat,
         Fold(leaf, proof) = Root(buildTree(s))
  PROVE  leaf \in Members(s)
<1>1. leafHash(leaf) \in Members(buildTree(s)[1])
  BY BuiltTree, FoldedLeaf
<1> QED
  BY <1>1, BuiltTree

-----------------------------------------------------------------------------
\* The places proofForIndex visits on its way up.
IsClimb(idx, layers, index) ==
  /\ idx[1] = index
  /\ \A l \in 2 .. Len(layers) : idx[l] = idx[l - 1] \div 2

Sibling(i) == IF i % 2 = 0 THEN i + 1 ELSE i - 1

\* They give the siblings of the proof.
Climbs(idx, layers, index) ==
  /\ IsClimb(idx, layers, index) /\ idx \in [1 .. Len(layers) -> Nat]
  /\ proofForIndex(layers, index) =
       [l \in 1 .. Len(layers) - 1 |->
          IF Sibling(idx[l]) < Len(layers[l]) THEN layers[l][Sibling(idx[l]) + 1]
          ELSE layers[l][idx[l] + 1]]

\* proofForIndex halves the index on every layer.
LEMMA ClimbFacts ==
  ASSUME NEW layers, Len(layers) \in Nat \ {0}, NEW index \in Nat
  PROVE  \E idx : Climbs(idx, layers, index)
<1> DEFINE N == Len(layers)
           Body(f) == [l \in 1 .. N |-> IF l = 1 THEN index ELSE f[l - 1] \div 2]
           each == CHOOSE f : f = Body(f)
           step == [p \in Nat \X (1 .. N - 1) |-> p[1] \div 2]
<1>1. N \in Nat \ {0} /\ N - 1 \in Nat
  OBVIOUS
<1>2. step \in [Nat \X (1 .. N - 1) -> Nat]
  OBVIOUS
<1>3. PICK f : IsLoop(f, N - 1, Nat, index, step)
  <2> HIDE DEF step, N
  <2> QED
    BY <1>1, <1>2, LoopExists
<1> DEFINE g == [l \in 1 .. N |-> f[l - 1]]
<1>4. g = Body(g)
  <2>1. \A l \in 1 .. N : g[l] = Body(g)[l]
    <3> SUFFICES ASSUME NEW l \in 1 .. N PROVE g[l] = IF l = 1 THEN index ELSE g[l - 1] \div 2
      OBVIOUS
    <3>1. CASE l = 1
      BY <1>3, <3>1 DEF IsLoop
    <3>2. CASE l # 1
      <4>1. l - 1 \in 1 .. N - 1 /\ l - 1 \in 1 .. N /\ (l - 1) - 1 \in 0 .. N - 1
        BY <3>2, <1>1
      <4>2. f[l - 1] = step[<<f[(l - 1) - 1], l - 1>>] /\ f[(l - 1) - 1] \in Nat
        BY <1>3, <4>1 DEF IsLoop
      <4>3. f[l - 1] = f[(l - 1) - 1] \div 2
        BY <4>1, <4>2
      <4> QED
        BY <4>1, <4>3, <3>2
    <3> QED
      BY <3>1, <3>2
  <2>2. g = [l \in 1 .. N |-> g[l]] /\ Body(g) = [l \in 1 .. N |-> Body(g)[l]]
    OBVIOUS
  <2> HIDE DEF g, Body
  <2> QED
    BY <2>1, <2>2
<1>5. each = Body(each)
  <2> HIDE DEF Body
  <2> QED
    BY <1>4, Zenon
<1>6. proofForIndex(layers, index) =
        [l \in 1 .. N - 1 |->
           IF Sibling(each[l]) < Len(layers[l]) THEN layers[l][Sibling(each[l]) + 1]
           ELSE layers[l][each[l] + 1]]
  BY Zenon DEF proofForIndex, Sibling
<1> HIDE DEF each
<1>7. /\ each = [l \in 1 .. N |-> each[l]]
      /\ \A l \in 1 .. N : each[l] = IF l = 1 THEN index ELSE each[l - 1] \div 2
  BY <1>5
<1>8. each[1] = index /\ \A l \in 2 .. N : each[l] = each[l - 1] \div 2
  <2>1. 1 \in 1 .. N /\ \A l \in 2 .. N : l \in 1 .. N /\ l # 1
    BY <1>1
  <2> HIDE DEF N
  <2> QED
    BY <1>7, <2>1, Zenon
<1>9. \A l \in 1 .. N : each[l] \in Nat
  <2> DEFINE T == {l \in 1 .. N : each[l] \in Nat}
  <2>1. 1 \in T
    BY <1>1, <1>8
  <2>2. \A l \in 2 .. N : l - 1 \in T => l \in T
    <3> SUFFICES ASSUME NEW l \in 2 .. N, l - 1 \in T PROVE l \in T
      OBVIOUS
    <3>1. each[l] = each[l - 1] \div 2 /\ each[l - 1] \in Nat /\ l \in 1 .. N
      BY <1>1, <1>8
    <3> QED
      BY <3>1
  <2>3. \A l \in 1 .. N : l \in T
    <3> HIDE DEF T
    <3> QED
      BY <1>1, <2>1, <2>2, InductionFromOne
  <2> QED
    BY <2>3
<1>10. each \in [1 .. N -> Nat]
  BY <1>7, <1>9
<1> QED
  BY <1>6, <1>8, <1>10 DEF IsClimb, Climbs

\* No member is refused: the proof that proofForIndex returns for any leaf of buildTree folds from
\* that leaf to the root.
THEOREM ProofComplete ==
  ASSUME NEW s, Valued(s), NEW index \in 0 .. Len(s) - 1
  PROVE  LET proof == proofForIndex(buildTree(s), index)
         IN  /\ Len(proof) \in Nat /\ proof \in Seq(Members(proof))
             /\ Fold(sortedLeaves(s)[index + 1], proof) = Root(buildTree(s))
<1> DEFINE t == buildTree(s)
           m == Len(t)
           proof == proofForIndex(t, index)
           leaf == sortedLeaves(s)[index + 1]
<1>1. IsTree(t) /\ Len(t[1]) = Len(s) /\ t[1][index + 1] = leafHash(leaf)
  <2>1. index + 1 \in 1 .. Len(s)
    BY DEF Valued, IsLayer
  <2> QED
    BY <2>1, BuiltTree
<1>2. Len(s) \in Nat \ {0} /\ index \in Nat
  BY DEF Valued, IsLayer
<1> HIDE DEF t, leaf
<1>3. m \in Nat \ {0} /\ Root(t) = t[m][1] /\ Len(t[m]) = 1
  BY <1>1 DEF IsTree, IsLayer, Root
<1> PICK idx : Climbs(idx, t, index)
  BY <1>2, <1>3, ClimbFacts
<1>4. /\ IsClimb(idx, t, index) /\ idx \in [1 .. m -> Nat]
      /\ proof = [l \in 1 .. m - 1 |->
                    IF Sibling(idx[l]) < Len(t[l]) THEN t[l][Sibling(idx[l]) + 1]
                    ELSE t[l][idx[l] + 1]]
  BY DEF Climbs
<1>5. Len(proof) = m - 1 /\ DOMAIN proof = 1 .. m - 1
  BY <1>3, <1>4
<1>6. proof \in Seq(Members(proof))
  <2>1. \A l \in 1 .. m - 1 : proof[l] \in Members(proof)
    BY <1>5 DEF Members
  <2>2. proof = [l \in 1 .. m - 1 |-> proof[l]]
    BY <1>4
  <2> HIDE DEF proof
  <2>3. proof \in [1 .. m - 1 -> Members(proof)]
    BY <2>1, <2>2
  <2> QED
    BY <2>3, <1>3
<1>7. \A l \in 1 .. m - 1 :
        proof[l] = IF Sibling(idx[l]) < Len(t[l]) THEN t[l][Sibling(idx[l]) + 1] ELSE t[l][idx[l] + 1]
  BY <1>4
<1> HIDE DEF proof
<1>8. PICK c : IsFold(c, leaf, proof) /\ Fold(leaf, proof) = c[m - 1]
  <2>1. Len(proof) \in Nat
    BY <1>3, <1>5
  <2> QED
    BY <2>1, <1>5, FoldFacts
<1> DEFINE T == {l \in 1 .. m : idx[l] < Len(t[l]) /\ c[l - 1] = t[l][idx[l] + 1]}
<1>9. 1 \in T
  <2>1. idx[1] = index /\ c[0] = leafHash(leaf)
    BY <1>4, <1>8 DEF IsClimb, IsFold
  <2>2. 1 - 1 = 0 /\ 1 \in 1 .. m /\ index < Len(s)
    BY <1>2, <1>3
  <2> QED
    BY <1>1, <2>1, <2>2
<1>10. \A l \in 2 .. m : l - 1 \in T => l \in T
  <2> SUFFICES ASSUME NEW l \in 2 .. m, l - 1 \in T PROVE l \in T
    OBVIOUS
  <2> DEFINE low == t[l - 1]
             i == idx[l - 1]
             k == Len(low)
  <2>1. l - 1 \in 1 .. m - 1 /\ l - 1 \in 1 .. m /\ l \in 1 .. m /\ l - 1 = (l - 1)
    BY <1>3
  <2>2. IsLayer(low) /\ t[l] = NextLayer(low)
    BY <1>1, <2>1 DEF IsTree
  <2>3. k \in Nat \ {0} /\ Len(t[l]) = (k + 1) \div 2
    BY <2>2, NextLayerFacts DEF IsLayer
  <2>4. i \in Nat /\ i < k /\ c[(l - 1) - 1] = low[i + 1] /\ idx[l] = i \div 2
    BY <1>4, <2>1 DEF IsClimb
  <2>5. c[l - 1] = <<"node", {c[(l - 1) - 1], proof[l - 1]}>>
    BY <1>5, <1>8, <2>1 DEF IsFold, nodeHash
  <2>6. proof[l - 1] = IF Sibling(i) < k THEN low[Sibling(i) + 1] ELSE low[i + 1]
    BY <1>7, <2>1
  <2> DEFINE h == i \div 2 + 1
  <2>7. h \in 1 .. (k + 1) \div 2 /\ i \div 2 < (k + 1) \div 2
    <3>1. \A a, b \in Nat : a < b => a \div 2 + 1 \in 1 .. (b + 1) \div 2 /\ a \div 2 < (b + 1) \div 2
      OBVIOUS
    <3> HIDE DEF i, k
    <3> QED
      BY <3>1, <2>3, <2>4
  <2>8. t[l][h] = <<"node", {low[2 * h - 1], IF 2 * h <= k THEN low[2 * h] ELSE low[2 * h - 1]}>>
    BY <2>2, <2>7 DEF NextLayer, nodeHash
  <2> HIDE DEF k, low
  <2>9. i \in Nat /\ k \in Nat /\ i < k /\ h \in Nat
    <3>1. i \in Nat /\ k \in Nat /\ i < k
      BY <2>3, <2>4
    <3>2. \A a \in Nat : a \div 2 + 1 \in Nat
      OBVIOUS
    <3> HIDE DEF i
    <3> QED
      BY <3>1, <3>2
  <2>10. c[l - 1] = t[l][h]
    <3>1. CASE i % 2 = 0
      <4>1. i + 1 = 2 * h - 1 /\ Sibling(i) = i + 1 /\ Sibling(i) + 1 = 2 * h
        <5>1. \A a \in Nat : a % 2 = 0 => a + 1 = 2 * (a \div 2 + 1) - 1
          OBVIOUS
        <5>2. Sibling(i) = i + 1
          BY <3>1 DEF Sibling
        <5>3. i + 1 = 2 * h - 1
          <6> HIDE DEF i
          <6> QED
            BY <5>1, <3>1, <2>4
        <5>4. h \in Nat /\ i \in Nat
          BY <2>9
        <5> HIDE DEF i, h
        <5> QED
          BY <5>2, <5>3, <5>4
      <4>2. Sibling(i) < k <=> 2 * h <= k
        <5>1. \A a, b, d \in Nat : a = 2 * d - 1 => (a < b <=> 2 * d <= b)
          OBVIOUS
        <5>2. h \in Nat
          BY <2>9
        <5> HIDE DEF h, i
        <5> QED
          BY <5>1, <5>2, <4>1, <2>9
      <4> HIDE DEF h, i
      <4> QED
        BY <2>4, <2>5, <2>6, <2>8, <4>1, <4>2
    <3>2. CASE i % 2 # 0
      <4>1. i + 1 = 2 * h /\ Sibling(i) = i - 1 /\ Sibling(i) + 1 = 2 * h - 1
        <5>1. \A a \in Nat : a % 2 # 0 => a + 1 = 2 * (a \div 2 + 1)
          OBVIOUS
        <5>2. Sibling(i) = i - 1
          BY <3>2 DEF Sibling
        <5>3. i + 1 = 2 * h
          <6> HIDE DEF i
          <6> QED
            BY <5>1, <3>2, <2>4
        <5>4. h \in Nat
          BY <2>4
        <5> HIDE DEF i, h
        <5> QED
          BY <5>2, <5>3, <5>4, <2>4
      <4>2. Sibling(i) < k /\ 2 * h <= k
        <5>1. h \in Nat /\ i \in Nat /\ i < k /\ k \in Nat
          BY <2>9
        <5>2. \A a, b, d \in Nat : a < b /\ a + 1 = 2 * d => a - 1 < b /\ 2 * d <= b
          OBVIOUS
        <5>3. i - 1 < k /\ 2 * h <= k
          <6> HIDE DEF h, i
          <6> QED
            BY <5>1, <5>2, <4>1
        <5> QED
          BY <5>3, <4>1
      <4> HIDE DEF h, i
      <4> QED
        BY <2>4, <2>5, <2>6, <2>8, <4>1, <4>2
    <3> QED
      BY <3>1, <3>2
  <2> QED
    BY <2>1, <2>3, <2>4, <2>7, <2>10
<1>11. m \in T
  <2>1. \A l \in 1 .. m : l \in T
    <3> HIDE DEF T
    <3> QED
      BY <1>3, <1>9, <1>10, InductionFromOne
  <2> HIDE DEF T
  <2> QED
    BY <2>1, <1>3
<1>12. idx[m] = 0
  <2>1. idx[m] \in Nat /\ idx[m] < 1
    BY <1>3, <1>4, <1>11
  <2> QED
    BY <2>1
<1>13. c[m - 1] = t[m][1]
  BY <1>11, <1>12
<1> QED
  BY <1>3, <1>5, <1>6, <1>8, <1>13 DEF t, leaf, proof

-----------------------------------------------------------------------------
(***************************************************************************)
(* Directories.                                                            *)
(***************************************************************************)
\* What a walk of a directory has read.
Entries == {E \in SUBSET (Path \X Content) : IsFiniteSet(E) /\ E # {}}

IsArtifact(a) ==
  /\ a = [root |-> a.root, leaf |-> a.leaf, contentHash |-> a.contentHash,
          relPath |-> a.relPath, proof |-> a.proof]
  /\ a.relPath \in Path /\ a.contentHash \in Content
  /\ a.proof \in Seq(Members(a.proof)) /\ Len(a.proof) \in Nat

\* The artifact of a file of E, as vh prove writes it.
ProofFor(a, E) ==
  /\ IsArtifact(a)
  /\ a.root = Root(hashEntries(E))
  /\ <<a.relPath, a.contentHash>> \in E
  /\ a.leaf = pathLeaf(a.relPath, a.contentHash)
  /\ Fold(a.leaf, a.proof) = a.root

Genuine(a) == \E E \in Entries : ProofFor(a, E)

Trees == UNION {[S -> Content] : S \in SUBSET Path}

\* A command that runs has read something or has something to read; the file to be proved is
\* among them; and what it built was built from entries.
Running ==
  /\ job = [pc |-> job.pc, cmd |-> job.cmd, todo |-> job.todo, got |-> job.got,
            target |-> job.target, dryRun |-> job.dryRun, anchorFirst |-> job.anchorFirst,
            built |-> job.built]
  /\ job.pc \in {"reading", "checking"}
  /\ job.todo \subseteq Path
  /\ job.got \subseteq Path \X Content /\ IsFiniteSet(job.got)
  /\ job.todo # {} \/ job.got # {}
  /\ (job.pc = "reading" /\ job.cmd = "prove") =>
       /\ job.target \in Path
       /\ job.target \in job.todo \/ \E c \in Content : <<job.target, c>> \in job.got
  /\ (job.pc = "checking" \/ job.cmd = "prove_anchor") => Genuine(job.built)

RootsOfWalks == \A a \in anchored : a.entries \in Entries /\ a.root = Root(hashEntries(a.entries))

ArtifactInv == artifact = None \/ (IsArtifact(artifact) /\ (tampered = 0 => Genuine(artifact)))

DirInv ==
  /\ dir \in Trees /\ tampered \in Nat
  /\ job = Idle \/ Running
  /\ RootsOfWalks
  /\ ArtifactInv

-----------------------------------------------------------------------------
\* The leaves of a walk are those of its entries.
LEMMA LeafValues ==
  \A p, q \in Path, c, d \in Content :
    /\ LeafValue(p, c) \in Nat
    /\ LeafValue(p, c) = LeafValue(q, d) => p = q /\ c = d
BY PathLeafAssumption, Zenon

\* The leaves of a walk are those of its entries.
LEMMA LeavesOfWalk ==
  ASSUME NEW E \in Entries
  PROVE  /\ Valued(leavesOf(E))
         /\ \A p \in Path, c \in Content : pathLeaf(p, c) \in Members(leavesOf(E)) <=> <<p, c>> \in E
         /\ \A e \in E : e = <<e[1], e[2]>> /\ e[1] \in Path /\ e[2] \in Content
<1> DEFINE n == Cardinality(E)
           set == {pathLeaf(e[1], e[2]) : e \in E}
           Covers(s) == \A leaf \in set : \E k \in DOMAIN s : s[k] = leaf
           leaves == leavesOf(E)
<1>1. IsFiniteSet(E) /\ E # {} /\ E \subseteq Path \X Content
  BY DEF Entries
<1>2. n \in Nat \ {0}
  BY <1>1, FS_CardinalityType, FS_EmptySet
<1>3. \E s \in [1 .. n -> set] : Covers(s)
  <2>1. ExistsBijection(1 .. n, E)
    BY <1>1, FS_CardinalityType
  <2>2. PICK walk : walk \in Bijection(1 .. n, E)
    BY <2>1 DEF ExistsBijection
  <2>3. walk \in [1 .. n -> E] /\ \A e \in E : \E k \in 1 .. n : walk[k] = e
    BY <2>2 DEF Bijection, Injection, Surjection
  <2> DEFINE s == [k \in 1 .. n |-> pathLeaf(walk[k][1], walk[k][2])]
  <2> HIDE DEF n
  <2>4. s \in [1 .. n -> set] /\ DOMAIN s = 1 .. n
    BY <2>3
  <2>5. ASSUME NEW leaf \in set PROVE \E k \in DOMAIN s : s[k] = leaf
    <3>1. PICK e \in E : leaf = pathLeaf(e[1], e[2])
      OBVIOUS
    <3>2. PICK k \in 1 .. n : walk[k] = e
      BY <2>3
    <3> QED
      BY <3>1, <3>2
  <2> HIDE DEF s, set
  <2> QED
    BY <2>4, <2>5
<1>4. leaves \in [1 .. n -> set] /\ Covers(leaves)
  <2>1. leaves = CHOOSE s \in [1 .. n -> set] : Covers(s)
    BY DEF leavesOf
  <2> HIDE DEF Covers, leaves, set, n
  <2> QED
    BY <1>3, <2>1, Zenon
<1> HIDE DEF leaves, n
<1>5. DOMAIN leaves = 1 .. n /\ \A k \in 1 .. n : leaves[k] \in set
  BY <1>4
<1>6. \A e \in E : e = <<e[1], e[2]>> /\ e[1] \in Path /\ e[2] \in Content
  BY <1>1
<1>7. IsLayer(leaves) /\ Len(leaves) = n
  <2>1. leaves = [k \in 1 .. n |-> leaves[k]]
    BY <1>4
  <2> QED
    BY <1>2, <2>1, IsLayerBy
<1>8. ASSUME NEW k \in 1 .. n
      PROVE  \E e \in E : leaves[k] = <<"digest", LeafValue(e[1], e[2])>>
  BY <1>5 DEF pathLeaf, Digest
<1>9. \A k \in 1 .. n : leaves[k][2] \in Int
  <2> SUFFICES ASSUME NEW k \in 1 .. n PROVE leaves[k][2] \in Int
    OBVIOUS
  <2>1. PICK e \in E : leaves[k] = <<"digest", LeafValue(e[1], e[2])>>
    BY <1>8
  <2>2. LeafValue(e[1], e[2]) \in Nat
    BY <1>6, LeafValues
  <2> QED
    BY <2>1, <2>2
<1>10. ASSUME NEW p \in Path, NEW c \in Content
       PROVE  pathLeaf(p, c) \in Members(leaves) <=> <<p, c>> \in E
  <2>1. ASSUME <<p, c>> \in E PROVE pathLeaf(p, c) \in Members(leaves)
    <3>1. pathLeaf(p, c) \in set
      BY <2>1
    <3>2. PICK k \in 1 .. n : leaves[k] = pathLeaf(p, c)
      BY <1>4, <1>5, <3>1
    <3> QED
      BY <1>5, <3>2 DEF Members
  <2>2. ASSUME pathLeaf(p, c) \in Members(leaves) PROVE <<p, c>> \in E
    <3>1. PICK k \in 1 .. n : leaves[k] = pathLeaf(p, c)
      BY <1>5, <2>2 DEF Members
    <3>2. PICK e \in E : leaves[k] = <<"digest", LeafValue(e[1], e[2])>>
      BY <1>8
    <3>3. LeafValue(e[1], e[2]) = LeafValue(p, c)
      BY <3>1, <3>2 DEF pathLeaf, Digest
    <3>4. e = <<p, c>>
      BY <1>6, <3>3, LeafValues
    <3> QED
      BY <3>4
  <2> QED
    BY <2>1, <2>2
<1> QED
  BY <1>6, <1>7, <1>9, <1>10 DEF Valued, leaves

\* Equal roots were built from the same files with the same contents.
LEMMA RootsOfEntries ==
  ASSUME NEW E \in Entries, NEW F \in Entries, Root(hashEntries(E)) = Root(hashEntries(F))
  PROVE  E = F
<1>1. Members(leavesOf(E)) = Members(leavesOf(F))
  BY LeavesOfWalk, RootBinds DEF hashEntries
<1>2. ASSUME NEW e \in E PROVE e \in F
  <2>1. e = <<e[1], e[2]>> /\ e[1] \in Path /\ e[2] \in Content
    BY LeavesOfWalk
  <2>2. pathLeaf(e[1], e[2]) \in Members(leavesOf(E)) <=> <<e[1], e[2]>> \in E
    BY <2>1, LeavesOfWalk
  <2>3. pathLeaf(e[1], e[2]) \in Members(leavesOf(F)) <=> <<e[1], e[2]>> \in F
    BY <2>1, LeavesOfWalk
  <2> QED
    BY <1>1, <2>1, <2>2, <2>3
<1>3. ASSUME NEW e \in F PROVE e \in E
  <2>1. e = <<e[1], e[2]>> /\ e[1] \in Path /\ e[2] \in Content
    BY LeavesOfWalk
  <2>2. pathLeaf(e[1], e[2]) \in Members(leavesOf(E)) <=> <<e[1], e[2]>> \in E
    BY <2>1, LeavesOfWalk
  <2>3. pathLeaf(e[1], e[2]) \in Members(leavesOf(F)) <=> <<e[1], e[2]>> \in F
    BY <2>1, LeavesOfWalk
  <2> QED
    BY <1>1, <2>1, <2>2, <2>3
<1> QED
  BY <1>2, <1>3

\* A proof that folds from a file's leaf to the root of a walk is about a file of that walk.
LEMMA ProvedEntry ==
  ASSUME NEW E \in Entries, NEW p \in Path, NEW c \in Content, NEW proof, Len(proof) \in Nat,
         Fold(pathLeaf(p, c), proof) = Root(hashEntries(E))
  PROVE  <<p, c>> \in E
<1>1. Valued(leavesOf(E))
  BY LeavesOfWalk
<1>2. pathLeaf(p, c) \in Members(leavesOf(E))
  BY <1>1, ProofSound DEF hashEntries
<1> QED
  BY <1>2, LeavesOfWalk

\* buildProof finds the file and proves it.
LEMMA BuiltProof ==
  ASSUME NEW E \in Entries, NEW p \in Path, NEW d \in Content, <<p, d>> \in E
  PROVE  ProofFor(buildProof(E, p), E)
<1> DEFINE content == (CHOOSE e \in E : e[1] = p)[2]
           leaf == pathLeaf(p, content)
           leaves == leavesOf(E)
           sorted == sortedLeaves(leaves)
           spot == CHOOSE k \in DOMAIN sorted : sorted[k] = leaf
           index == spot - 1
           proof == proofForIndex(hashEntries(E), index)
           a == buildProof(E, p)
<1>1. content \in Content /\ <<p, content>> \in E
  <2> DEFINE e == CHOOSE x \in E : x[1] = p
  <2>1. \E x \in E : x[1] = p
    <3>1. <<p, d>>[1] = p
      OBVIOUS
    <3> QED
      BY <3>1
  <2>2. e \in E /\ e[1] = p
    BY <2>1, Zenon
  <2> HIDE DEF e
  <2>3. e = <<e[1], e[2]>> /\ e[2] \in Content
    BY <2>2, LeavesOfWalk
  <2>4. content = e[2]
    BY DEF e
  <2> HIDE DEF content
  <2> QED
    BY <2>2, <2>3, <2>4
<1>2. a = [root |-> Root(hashEntries(E)), leaf |-> leaf, contentHash |-> content,
           relPath |-> p, proof |-> proof]
  BY Zenon DEF buildProof
<1> HIDE DEF content, a
<1>3. Valued(leaves) /\ leaf \in Members(leaves)
  BY <1>1, LeavesOfWalk
<1> HIDE DEF leaf, leaves
<1>4. IsLayer(sorted) /\ Len(sorted) = Len(leaves) /\ leaf \in Members(sorted)
  BY <1>3, SortedFacts
<1>5. DOMAIN sorted = 1 .. Len(leaves)
  BY <1>4, MemberFacts
<1>6. spot \in 1 .. Len(leaves) /\ sorted[spot] = leaf
  <2>1. \E k \in DOMAIN sorted : sorted[k] = leaf
    BY <1>4 DEF Members
  <2>2. spot \in DOMAIN sorted /\ sorted[spot] = leaf
    BY <2>1, Zenon
  <2> QED
    BY <1>5, <2>2
<1> HIDE DEF spot, sorted
<1>7. Len(leaves) \in Nat
  BY <1>3 DEF Valued, IsLayer
<1>8. index \in 0 .. Len(leaves) - 1 /\ index + 1 = spot
  BY <1>6, <1>7
<1> HIDE DEF index
<1>9. proof = proofForIndex(buildTree(leaves), index) /\ Root(hashEntries(E)) = Root(buildTree(leaves))
  BY DEF hashEntries, leaves
<1>10. Len(proof) \in Nat /\ proof \in Seq(Members(proof)) /\ Fold(leaf, proof) = Root(hashEntries(E))
  <2> HIDE DEF proof
  <2>1. LET t == proofForIndex(buildTree(leaves), index)
        IN  /\ Len(t) \in Nat /\ t \in Seq(Members(t))
            /\ Fold(sortedLeaves(leaves)[index + 1], t) = Root(buildTree(leaves))
    BY <1>3, <1>8, ProofComplete
  <2> QED
    BY <2>1, <1>6, <1>8, <1>9 DEF sorted
<1> HIDE DEF proof
<1>11. /\ a.root = Root(hashEntries(E)) /\ a.leaf = leaf /\ a.contentHash = content
       /\ a.relPath = p /\ a.proof = proof
  BY <1>2
<1>12. a = [root |-> a.root, leaf |-> a.leaf, contentHash |-> a.contentHash,
            relPath |-> a.relPath, proof |-> a.proof]
  BY <1>2, <1>11
<1>13. IsArtifact(a)
  BY <1>1, <1>10, <1>11, <1>12 DEF IsArtifact
<1> QED
  BY <1>1, <1>10, <1>11, <1>13 DEF ProofFor, leaf, a

-----------------------------------------------------------------------------
DirSays == VerifyExact /\ AcceptedWasAnchored /\ ReportedRootAnchored /\ GenuineNotRejected

\* A step that reports nothing says nothing wrong.
LEMMA SilentSays == output' = None => DirSays'
BY DEF DirSays, VerifyExact, AcceptedWasAnchored, ReportedRootAnchored, GenuineNotRejected

\* Roots that are anchored are told from the roots of the registry by what was read.
LEMMA AnchoredEntries ==
  ASSUME RootsOfWalks, NEW E \in Entries
  PROVE  isAnchored(Root(hashEntries(E))) <=> \E a \in anchored : a.entries = E
<1>1. ASSUME NEW a \in anchored, a.root = Root(hashEntries(E)) PROVE a.entries = E
  <2>1. a.entries \in Entries /\ Root(hashEntries(a.entries)) = Root(hashEntries(E))
    BY <1>1 DEF RootsOfWalks
  <2> QED
    BY <2>1, RootsOfEntries
<1>2. ASSUME NEW a \in anchored, a.entries = E PROVE a.root = Root(hashEntries(E))
  BY <1>2 DEF RootsOfWalks
<1> QED
  BY <1>1, <1>2 DEF isAnchored

\* The working tree changes and nothing else.
LEMMA EditMoves ==
  ASSUME DirInv, dir' \in Trees, output' = None, UNCHANGED <<job, anchored, artifact, tampered>>
  PROVE  DirInv' /\ DirSays'
<1>1. Running => Running'
  BY DEF Running
<1>2. RootsOfWalks' /\ ArtifactInv'
  BY DEF DirInv, RootsOfWalks, ArtifactInv
<1>3. DirInv'
  BY <1>1, <1>2 DEF DirInv
<1> QED
  BY <1>3, SilentSays

TreesAre(d) == DOMAIN d \subseteq Path /\ d = [p \in DOMAIN d |-> d[p]] /\ \A p \in DOMAIN d : d[p] \in Content

\* A working tree is a function from some paths to contents.
LEMMA TreeTypes == \A d : d \in Trees <=> TreesAre(d)
<1>1. ASSUME NEW d \in Trees PROVE TreesAre(d)
  BY DEF Trees, TreesAre
<1>2. ASSUME NEW d, TreesAre(d) PROVE d \in Trees
  <2>1. d \in [DOMAIN d -> Content]
    BY <1>2 DEF TreesAre
  <2>2. DOMAIN d \in SUBSET Path
    BY <1>2 DEF TreesAre
  <2> QED
    BY <2>1, <2>2 DEF Trees
<1> QED
  BY <1>1, <1>2

\* Writing, removing or renaming a file changes nothing that was read or anchored.
LEMMA EditSteps ==
  ASSUME DirInv, \/ \E p \in Path, c \in Content : WriteFile(p, c)
                 \/ \E p \in Path : RemoveFile(p)
                 \/ \E p, q \in Path : RenameFile(p, q)
  PROVE  DirInv' /\ DirSays'
<1>1. TreesAre(dir)
  BY TreeTypes DEF DirInv
<1>2. TreesAre(dir')
  <2>1. CASE \E p \in Path, c \in Content : WriteFile(p, c)
    BY <1>1, <2>1 DEF WriteFile, TreesAre
  <2>2. CASE \E p \in Path : RemoveFile(p)
    BY <1>1, <2>2 DEF RemoveFile, TreesAre
  <2>3. CASE \E p, q \in Path : RenameFile(p, q)
    BY <1>1, <2>3 DEF RenameFile, TreesAre
  <2> QED
    BY <2>1, <2>2, <2>3
<1>3. dir' \in Trees
  BY <1>2, TreeTypes
<1>4. output' = None /\ UNCHANGED <<job, anchored, artifact, tampered>>
  BY DEF WriteFile, RemoveFile, RenameFile
<1> QED
  BY <1>3, <1>4, EditMoves

\* The command goes on, and nothing else changes.
LEMMA JobMoves ==
  ASSUME DirInv, output' = None, UNCHANGED <<dir, anchored, artifact, tampered>>,
         job' = Idle \/ Running'
  PROVE  DirInv' /\ DirSays'
<1>1. RootsOfWalks' /\ ArtifactInv'
  BY DEF DirInv, RootsOfWalks, ArtifactInv
<1>2. DirInv'
  BY <1>1 DEF DirInv
<1> QED
  BY <1>2, SilentSays

\* A working tree that is not empty holds a file.
LEMMA FilesExist == dir \in Trees /\ dir # <<>> => DOMAIN dir # {}
<1> SUFFICES ASSUME dir \in Trees, DOMAIN dir = {} PROVE dir = <<>>
  OBVIOUS
<1>1. dir = [p \in DOMAIN dir |-> dir[p]]
  BY TreeTypes DEF TreesAre
<1>2. dir = [p \in {} |-> dir[p]]
  BY <1>1
<1>3. <<>> = [p \in {} |-> dir[p]]
  OBVIOUS
<1> QED
  BY <1>2, <1>3

\* A command that starts has read nothing yet.
LEMMA StartSteps ==
  ASSUME DirInv, vhAnchor \/ vhVerify
                 \/ \E p \in Path, dryRun, anchorFirst \in BOOLEAN : vhProve(p, dryRun, anchorFirst)
  PROVE  DirInv' /\ DirSays'
<1>1. dir \in Trees
  BY DEF DirInv
<1>2. PICK cmd \in {"anchor", "verify", "prove"}, target \in {None} \cup DOMAIN dir,
           dryRun \in BOOLEAN, anchorFirst \in BOOLEAN :
        /\ job' = Hashing(cmd, target, dryRun, anchorFirst)
        /\ DOMAIN dir # {} /\ (cmd = "prove" => target \in DOMAIN dir)
        /\ output' = None /\ UNCHANGED <<dir, anchored, artifact, tampered>>
  <2>1. CASE vhAnchor
    BY <1>1, <2>1, FilesExist DEF vhAnchor
  <2>2. CASE vhVerify
    BY <1>1, <2>2, FilesExist DEF vhVerify
  <2>3. CASE \E p \in Path, dryRun, anchorFirst \in BOOLEAN : vhProve(p, dryRun, anchorFirst)
    BY <2>3 DEF vhProve
  <2> QED
    BY <2>1, <2>2, <2>3
<1>3. DOMAIN dir \subseteq Path
  BY <1>1, TreeTypes DEF TreesAre
<1>4. IsFiniteSet({})
  BY FS_EmptySet
<1>5. Running'
  BY <1>2, <1>3, <1>4 DEF Running, Hashing
<1> QED
  BY <1>2, <1>5, JobMoves

\* Reading one more file adds its entry, with the content it has now.
LEMMA ReadStep ==
  ASSUME DirInv, NEW p \in Path, ReadFile(p)
  PROVE  DirInv' /\ DirSays'
<1>1. Running
  BY DEF DirInv, ReadFile, Idle
<1>2. CASE p \in DOMAIN dir
  <2> DEFINE got == job.got \cup {<<p, dir[p]>>}
  <2>1. job' = [job EXCEPT !.todo = @ \ {p}, !.got = @ \cup {<<p, dir[p]>>}]
    BY <1>2 DEF ReadFile
  <2>2. /\ job'.pc = job.pc /\ job'.cmd = job.cmd /\ job'.target = job.target
        /\ job'.dryRun = job.dryRun /\ job'.anchorFirst = job.anchorFirst /\ job'.built = job.built
        /\ job'.todo = job.todo \ {p} /\ job'.got = got
        /\ job' = [pc |-> job'.pc, cmd |-> job'.cmd, todo |-> job'.todo, got |-> job'.got,
                   target |-> job'.target, dryRun |-> job'.dryRun,
                   anchorFirst |-> job'.anchorFirst, built |-> job'.built]
    BY <1>1, <2>1 DEF Running
  <2>3. dir[p] \in Content
    BY <1>2, TreeTypes DEF DirInv, TreesAre
  <2>4. got \subseteq Path \X Content /\ IsFiniteSet(got) /\ got # {}
    <3>1. IsFiniteSet(job.got) /\ job.got \subseteq Path \X Content
      BY <1>1 DEF Running
    <3>2. IsFiniteSet(got)
      BY <3>1, FS_AddElement
    <3>3. <<p, dir[p]>> \in Path \X Content
      BY <2>3
    <3>4. got \subseteq Path \X Content /\ got # {}
      BY <3>1, <3>3
    <3> QED
      BY <3>2, <3>4
  <2>5. job.pc = "reading" /\ (job.cmd = "prove" =>
          job.target \in Path /\ (job.target \in job.todo \ {p} \/ \E c \in Content : <<job.target, c>> \in got))
    <3>1. job.pc = "reading"
      BY DEF ReadFile
    <3>2. ASSUME job.cmd = "prove"
          PROVE  job.target \in Path /\ (job.target \in job.todo \/ \E c \in Content : <<job.target, c>> \in job.got)
      BY <3>1, <3>2, <1>1 DEF Running
    <3>3. <<p, dir[p]>> \in got /\ job.got \subseteq got
      OBVIOUS
    <3> HIDE DEF got
    <3> QED
      BY <3>1, <3>2, <3>3, <2>3
  <2>6. job.cmd = "prove_anchor" => Genuine(job.built)
    BY <1>1 DEF Running
  <2>7. job.todo \ {p} \subseteq Path
    BY <1>1 DEF Running
  <2> HIDE DEF got
  <2>8. Running'
    BY <2>2, <2>4, <2>5, <2>6, <2>7 DEF Running
  <2> QED
    BY <2>8, JobMoves DEF ReadFile
<1>3. CASE p \notin DOMAIN dir
  BY <1>3, JobMoves DEF ReadFile
<1> QED
  BY <1>2, <1>3

\* A command that has read everything has read the entries of a walk.
LEMMA WalkRead == ASSUME DirInv, HashDone PROVE Running /\ job.got \in Entries /\ job.pc = "reading"
<1>1. Running
  BY DEF DirInv, HashDone, Idle
<1> QED
  BY <1>1 DEF Running, HashDone, Entries

\* vh anchor sends the root of what it read (runAnchor).
LEMMA SubmitStep ==
  ASSUME DirInv, SubmitRoot
  PROVE  DirInv' /\ DirSays'
<1> DEFINE root == Root(hashEntries(job.got))
           new == [root |-> root, entries |-> job.got]
<1>1. Running /\ job.got \in Entries /\ job.pc = "reading" /\ job.cmd \in {"anchor", "prove_anchor"}
  BY WalkRead DEF SubmitRoot
<1>2. output' = None /\ UNCHANGED <<dir, artifact, tampered>>
  BY DEF SubmitRoot
<1>3. CASE isAnchored(root)
  <2>1. job' = Idle /\ UNCHANGED anchored
    BY <1>3, Zenon DEF SubmitRoot
  <2> QED
    BY <1>2, <2>1, JobMoves
<1>4. CASE ~ isAnchored(root)
  <2>1. /\ anchored' = anchored \cup {new}
        /\ job' = IF job.cmd = "anchor" THEN Idle ELSE [job EXCEPT !.pc = "checking"]
    BY <1>4, Zenon DEF SubmitRoot
  <2>2. RootsOfWalks'
    <3>1. RootsOfWalks /\ \A a \in anchored' : a \in anchored \/ a = new
      BY <2>1 DEF DirInv
    <3>2. new.root = Root(hashEntries(job.got)) /\ new.entries = job.got
      OBVIOUS
    <3> HIDE DEF new
    <3> QED
      BY <1>1, <3>1, <3>2 DEF RootsOfWalks, Entries
  <2>3. job' = Idle \/ Running'
    <3>1. CASE job.cmd = "anchor"
      BY <2>1, <3>1
    <3>2. CASE job.cmd = "prove_anchor"
      <4>1. job' = [job EXCEPT !.pc = "checking"]
        BY <2>1, <3>2
      <4>2. /\ job'.pc = "checking" /\ job'.cmd = job.cmd /\ job'.target = job.target
            /\ job'.dryRun = job.dryRun /\ job'.anchorFirst = job.anchorFirst
            /\ job'.built = job.built /\ job'.todo = job.todo /\ job'.got = job.got
            /\ job' = [pc |-> job'.pc, cmd |-> job'.cmd, todo |-> job'.todo, got |-> job'.got,
                       target |-> job'.target, dryRun |-> job'.dryRun,
                       anchorFirst |-> job'.anchorFirst, built |-> job'.built]
        BY <1>1, <4>1 DEF Running
      <4>3. Genuine(job.built)
        BY <1>1, <3>2 DEF Running
      <4> QED
        BY <1>1, <4>2, <4>3 DEF Running
    <3> QED
      BY <1>1, <3>1, <3>2
  <2>4. DirInv'
    BY <1>2, <2>2, <2>3 DEF DirInv, ArtifactInv
  <2> QED
    BY <1>2, <2>4, SilentSays
<1> QED
  BY <1>3, <1>4

\* vh verify matches only what some anchoring command read (runVerify).
LEMMA VerifyStep ==
  ASSUME DirInv, VerifyDone
  PROVE  DirInv' /\ DirSays'
<1> DEFINE status == IF isAnchored(Root(hashEntries(job.got))) THEN "MATCH" ELSE "MISMATCH"
<1>1. job.got \in Entries
  BY WalkRead DEF VerifyDone
<1>2. /\ output' = [cmd |-> "verify", entries |-> job.got, status |-> status]
      /\ job' = Idle /\ UNCHANGED <<dir, anchored, artifact, tampered>>
  BY DEF VerifyDone
<1>3. DirInv'
  BY <1>2 DEF DirInv, RootsOfWalks, ArtifactInv
<1>4. status = "MATCH" <=> \E a \in anchored : a.entries = job.got
  BY <1>1, AnchoredEntries DEF DirInv
<1> HIDE DEF status
<1>5. output'.cmd = "verify" /\ output'.entries = job.got /\ output'.status = status
  BY <1>2
<1>6. VerifyExact'
  BY <1>2, <1>4, <1>5 DEF VerifyExact
<1>7. AcceptedWasAnchored' /\ ReportedRootAnchored' /\ GenuineNotRejected'
  BY <1>5 DEF AcceptedWasAnchored, ReportedRootAnchored, GenuineNotRejected
<1> QED
  BY <1>3, <1>6, <1>7 DEF DirSays

\* vh prove writes a proof of the file's leaf under the root of what it read (runProve).
LEMMA ProofStep ==
  ASSUME DirInv, ProofBuilt
  PROVE  DirInv' /\ DirSays'
<1> DEFINE built == buildProof(job.got, job.target)
<1>1. Running /\ job.got \in Entries /\ job.pc = "reading" /\ job.cmd = "prove" /\ job.todo = {}
  BY WalkRead DEF ProofBuilt, HashDone
<1>2. Genuine(built)
  <2>1. job.target \in Path /\ \E c \in Content : <<job.target, c>> \in job.got
    BY <1>1 DEF Running
  <2>2. ProofFor(built, job.got)
    BY <1>1, <2>1, BuiltProof
  <2> QED
    BY <1>1, <2>2 DEF Genuine
<1>3. UNCHANGED <<dir, anchored>>
  BY DEF ProofBuilt
<1>4. PICK b \in {built} : TRUE
  OBVIOUS
<1>5. \/ /\ artifact' = b /\ tampered' = 0 /\ output' = Proved(b, FALSE) /\ job' = Idle
      \/ /\ job' = IF dir = <<>> THEN Idle
                   ELSE [job EXCEPT !.cmd = "prove_anchor", !.todo = DOMAIN dir, !.got = {}, !.built = b]
         /\ output' = None /\ UNCHANGED <<artifact, tampered>>
      \/ /\ job' = [job EXCEPT !.pc = "checking", !.built = b]
         /\ output' = None /\ UNCHANGED <<artifact, tampered>>
  BY <1>4, Zenon DEF ProofBuilt
<1>6. Genuine(b) /\ IsArtifact(b)
  BY <1>2, <1>4 DEF Genuine, ProofFor
<1> HIDE DEF built
<1>7. CASE artifact' = b /\ tampered' = 0 /\ output' = Proved(b, FALSE) /\ job' = Idle
  <2>1. ArtifactInv'
    BY <1>6, <1>7 DEF ArtifactInv, IsArtifact, Genuine, ProofFor, Entries
  <2>2. DirInv'
    BY <1>3, <1>7, <2>1 DEF DirInv, RootsOfWalks
  <2>3. output'.cmd = "prove" /\ output'.accepted = FALSE
    BY <1>7 DEF Proved
  <2>4. DirSays'
    BY <2>3 DEF DirSays, VerifyExact, AcceptedWasAnchored, ReportedRootAnchored, GenuineNotRejected
  <2> QED
    BY <2>2, <2>4
<1>8. CASE /\ job' = IF dir = <<>> THEN Idle
                     ELSE [job EXCEPT !.cmd = "prove_anchor", !.todo = DOMAIN dir, !.got = {}, !.built = b]
           /\ output' = None /\ UNCHANGED <<artifact, tampered>>
  <2>1. CASE dir = <<>>
    BY <1>3, <1>8, <2>1, JobMoves
  <2>2. CASE dir # <<>>
    <3>1. job' = [job EXCEPT !.cmd = "prove_anchor", !.todo = DOMAIN dir, !.got = {}, !.built = b]
      BY <1>8, <2>2
    <3>2. /\ job'.pc = "reading" /\ job'.cmd = "prove_anchor" /\ job'.target = job.target
          /\ job'.dryRun = job.dryRun /\ job'.anchorFirst = job.anchorFirst
          /\ job'.built = b /\ job'.todo = DOMAIN dir /\ job'.got = {}
          /\ job' = [pc |-> job'.pc, cmd |-> job'.cmd, todo |-> job'.todo, got |-> job'.got,
                     target |-> job'.target, dryRun |-> job'.dryRun,
                     anchorFirst |-> job'.anchorFirst, built |-> job'.built]
      BY <1>1, <3>1 DEF Running
    <3>3. DOMAIN dir # {} /\ DOMAIN dir \subseteq Path /\ IsFiniteSet({})
      BY <2>2, FilesExist, TreeTypes, FS_EmptySet DEF DirInv, TreesAre
    <3>4. Running'
      BY <1>6, <3>2, <3>3 DEF Running
    <3> QED
      BY <1>3, <1>8, <3>4, JobMoves
  <2> QED
    BY <2>1, <2>2
<1>9. CASE /\ job' = [job EXCEPT !.pc = "checking", !.built = b]
           /\ output' = None /\ UNCHANGED <<artifact, tampered>>
  <2>1. /\ job'.pc = "checking" /\ job'.cmd = job.cmd /\ job'.target = job.target
        /\ job'.dryRun = job.dryRun /\ job'.anchorFirst = job.anchorFirst
        /\ job'.built = b /\ job'.todo = job.todo /\ job'.got = job.got
        /\ job' = [pc |-> job'.pc, cmd |-> job'.cmd, todo |-> job'.todo, got |-> job'.got,
                   target |-> job'.target, dryRun |-> job'.dryRun,
                   anchorFirst |-> job'.anchorFirst, built |-> job'.built]
    BY <1>1, <1>9 DEF Running
  <2>2. Running'
    BY <1>1, <1>6, <2>1 DEF Running
  <2> QED
    BY <1>3, <1>9, <2>2, JobMoves
<1> QED
  BY <1>5, <1>7, <1>8, <1>9

\* A genuine proof of an anchored root is about a file of what was anchored.
LEMMA GenuineAnchored ==
  ASSUME RootsOfWalks, NEW a, Genuine(a), NEW r \in anchored, r.root = a.root
  PROVE  <<a.relPath, a.contentHash>> \in r.entries
<1>1. PICK E \in Entries : ProofFor(a, E)
  BY DEF Genuine
<1>2. r.entries \in Entries /\ Root(hashEntries(r.entries)) = Root(hashEntries(E))
  BY <1>1 DEF RootsOfWalks, ProofFor
<1>3. r.entries = E
  BY <1>2, RootsOfEntries
<1> QED
  BY <1>1, <1>3 DEF ProofFor

\* vh prove finds its root anchored or not, and its artifact stays what it is.
LEMMA CheckStep ==
  ASSUME DirInv, CheckOnChain
  PROVE  DirInv' /\ DirSays'
<1>1. Running /\ job.pc = "checking"
  BY DEF DirInv, CheckOnChain, Idle
<1>2. PICK b \in {job.built} : TRUE
  OBVIOUS
<1>3. Genuine(b) /\ IsArtifact(b)
  BY <1>1, <1>2 DEF Running, Genuine, ProofFor
<1>4. job' = Idle /\ UNCHANGED <<dir, anchored>>
  BY DEF CheckOnChain
<1>5. CASE isAnchored(b.root)
  <2>1. /\ output' = Proved(b, verifyLeaf(b.root, b.leaf, b.proof))
        /\ artifact' = b /\ tampered' = 0
    BY <1>2, <1>5, Zenon DEF CheckOnChain
  <2>2. ArtifactInv'
    BY <1>3, <2>1 DEF ArtifactInv, IsArtifact, Genuine, ProofFor, Entries
  <2>3. DirInv'
    BY <1>4, <2>1, <2>2 DEF DirInv, RootsOfWalks
  <2>4. output'.cmd = "prove" /\ output'.built = b
    BY <2>1 DEF Proved
  <2>5. \E r \in anchored : r.root = b.root /\ <<b.relPath, b.contentHash>> \in r.entries
    BY <1>3, <1>5, GenuineAnchored DEF isAnchored, DirInv
  <2>6. ReportedRootAnchored'
    BY <1>4, <2>4, <2>5 DEF ReportedRootAnchored
  <2>7. VerifyExact' /\ AcceptedWasAnchored' /\ GenuineNotRejected'
    BY <2>4 DEF VerifyExact, AcceptedWasAnchored, GenuineNotRejected
  <2> QED
    BY <2>3, <2>6, <2>7 DEF DirSays
<1>6. CASE ~ isAnchored(b.root)
  <2>1. output' = None /\ UNCHANGED <<artifact, tampered>>
    BY <1>2, <1>6, Zenon DEF CheckOnChain
  <2> QED
    BY <1>4, <2>1, JobMoves
<1> QED
  BY <1>5, <1>6

\* Changing a field of the artifact on its way is remembered.
LEMMA TamperStep ==
  ASSUME DirInv, Tamper
  PROVE  DirInv' /\ DirSays'
<1>1. artifact # None /\ IsArtifact(artifact) /\ tampered \in Nat
  BY DEF DirInv, ArtifactInv, Tamper
<1>2. tampered' = tampered + 1 /\ output' = None /\ UNCHANGED <<dir, job, anchored>>
  BY DEF Tamper
<1> DEFINE a == artifact
<1>3. IsArtifact(artifact')
  <2>1. CASE \E p \in Path : artifact' = [artifact EXCEPT !.relPath = p]
    BY <1>1, <2>1 DEF IsArtifact
  <2>2. CASE \E c \in Content : artifact' = [artifact EXCEPT !.contentHash = c]
    BY <1>1, <2>2 DEF IsArtifact
  <2>3. CASE \E v : artifact' = [artifact EXCEPT !.leaf = v]
    BY <1>1, <2>3 DEF IsArtifact
  <2>4. CASE \E v : artifact' = [artifact EXCEPT !.root = v]
    BY <1>1, <2>4 DEF IsArtifact
  <2>5. CASE \E k \in 0 .. Len(artifact.proof) :
               artifact' = [artifact EXCEPT !.proof = SubSeq(@, k + 1, Len(@))]
    <3>1. PICK k \in 0 .. Len(artifact.proof) :
                 artifact' = [artifact EXCEPT !.proof = SubSeq(@, k + 1, Len(@))]
      BY <2>5
    <3> DEFINE s == artifact.proof
               t == SubSeq(s, k + 1, Len(s))
    <3>2. s \in Seq(Members(s)) /\ Len(s) \in Nat
      BY <1>1 DEF IsArtifact
    <3>3. t \in Seq(Members(s))
      BY <3>2
    <3>4. t \in Seq(Members(t)) /\ Len(t) \in Nat
      <4> HIDE DEF t
      <4>1. Len(t) \in Nat /\ t = [i \in 1 .. Len(t) |-> t[i]] /\ DOMAIN t = 1 .. Len(t)
        BY <3>3
      <4>2. \A i \in 1 .. Len(t) : t[i] \in Members(t)
        BY <4>1 DEF Members
      <4>3. t \in [1 .. Len(t) -> Members(t)]
        BY <4>1, <4>2
      <4> QED
        BY <4>1, <4>3
    <3>5. artifact' = [artifact EXCEPT !.proof = t]
      BY <3>1
    <3> HIDE DEF t
    <3> QED
      BY <1>1, <3>4, <3>5 DEF IsArtifact
  <2> QED
    BY <2>1, <2>2, <2>3, <2>4, <2>5 DEF Tamper
<1>4. tampered' \in Nat /\ tampered' # 0
  BY <1>1, <1>2
<1>5. ArtifactInv'
  BY <1>3, <1>4 DEF ArtifactInv, IsArtifact
<1>6. DirInv'
  BY <1>2, <1>4, <1>5 DEF DirInv, RootsOfWalks, Running
<1> QED
  BY <1>2, <1>6, SilentSays

\* vh verify-proof accepts a leaf, a proof and a root that fit, and what it says of the root
\* is so; a proof nobody changed is no forgery (runVerifyProof).
LEMMA VerifyProofStep ==
  ASSUME DirInv, NEW provider \in BOOLEAN, vhVerifyProof(provider)
  PROVE  DirInv' /\ DirSays'
<1> DEFINE a == artifact
           root == Fold(a.leaf, a.proof)
           status == IF ~offlineOk(a) \/ ~provider THEN "REJECTED"
                     ELSE IF ~isAnchored(root) THEN "NOT_ANCHORED"
                     ELSE IF verifyLeaf(root, a.leaf, a.proof) THEN "ACCEPTED" ELSE "REJECTED"
<1>1. IsArtifact(a) /\ RootsOfWalks /\ (tampered = 0 => Genuine(a))
  BY DEF DirInv, ArtifactInv, vhVerifyProof
<1>2. output' = [cmd |-> "verify-proof", provider |-> provider, status |-> status]
  BY Zenon DEF vhVerifyProof
<1>3. UNCHANGED <<dir, job, anchored, artifact, tampered>>
  BY DEF vhVerifyProof
<1>4. DirInv'
  BY <1>3 DEF DirInv, RootsOfWalks, Running, ArtifactInv
<1>5. verifyLeaf(root, a.leaf, a.proof)
  BY DEF verifyLeaf
<1>6. status = "ACCEPTED" => \E r \in anchored : <<a.relPath, a.contentHash>> \in r.entries
  <2> SUFFICES ASSUME status = "ACCEPTED"
               PROVE  \E r \in anchored : <<a.relPath, a.contentHash>> \in r.entries
    OBVIOUS
  <2>1. offlineOk(a) /\ isAnchored(root)
    OBVIOUS
  <2>2. a.leaf = pathLeaf(a.relPath, a.contentHash)
    BY <2>1 DEF offlineOk
  <2>3. PICK r \in anchored : r.root = root
    BY <2>1 DEF isAnchored
  <2>4. r.entries \in Entries /\ r.root = Root(hashEntries(r.entries))
    BY <1>1 DEF RootsOfWalks
  <2>5. a.relPath \in Path /\ a.contentHash \in Content /\ Len(a.proof) \in Nat
    BY <1>1 DEF IsArtifact
  <2>6. Fold(pathLeaf(a.relPath, a.contentHash), a.proof) = Root(hashEntries(r.entries))
    BY <2>2, <2>3, <2>4
  <2>7. <<a.relPath, a.contentHash>> \in r.entries
    BY <2>4, <2>5, <2>6, ProvedEntry
  <2> QED
    BY <2>7
<1>7. provider /\ tampered = 0 => status = IF isAnchored(a.root) THEN "ACCEPTED" ELSE "NOT_ANCHORED"
  <2> SUFFICES ASSUME provider, tampered = 0
               PROVE  status = IF isAnchored(a.root) THEN "ACCEPTED" ELSE "NOT_ANCHORED"
    OBVIOUS
  <2>1. a.leaf = pathLeaf(a.relPath, a.contentHash) /\ root = a.root
    BY <1>1 DEF Genuine, ProofFor
  <2>2. offlineOk(a)
    BY <2>1 DEF offlineOk
  <2> QED
    BY <1>5, <2>1, <2>2
<1> HIDE DEF status
<1>8. output'.cmd = "verify-proof" /\ output'.provider = provider /\ output'.status = status
  BY <1>2
<1>9. AcceptedWasAnchored'
  BY <1>3, <1>6, <1>8 DEF AcceptedWasAnchored
<1>10. GenuineNotRejected'
  BY <1>3, <1>7, <1>8 DEF GenuineNotRejected, isAnchored
<1>11. VerifyExact' /\ ReportedRootAnchored'
  BY <1>8 DEF VerifyExact, ReportedRootAnchored
<1> QED
  BY <1>4, <1>9, <1>10, <1>11 DEF DirSays

\* Every step of the directory commands keeps the invariant and says what is so.
LEMMA DirectoryStepKeeps == DirInv /\ DirNext => DirInv' /\ DirSays'
<1> SUFFICES ASSUME DirInv, DirNext PROVE DirInv' /\ DirSays'
  OBVIOUS
<1>1. \/ \E p \in Path, c \in Content : WriteFile(p, c)
      \/ \E p \in Path : RemoveFile(p)
      \/ \E p, q \in Path : RenameFile(p, q)
      \/ vhAnchor \/ vhVerify
      \/ \E p \in Path, dryRun, anchorFirst \in BOOLEAN : vhProve(p, dryRun, anchorFirst)
      \/ \E p \in Path : ReadFile(p)
      \/ SubmitRoot \/ VerifyDone \/ ProofBuilt \/ CheckOnChain \/ Tamper
      \/ \E provider \in BOOLEAN : vhVerifyProof(provider)
  BY Zenon DEF DirNext
<1> QED
  BY <1>1, EditSteps, StartSteps, ReadStep, SubmitStep, VerifyStep, ProofStep, CheckStep, TamperStep,
     VerifyProofStep

\* At first nothing is read, anchored or said.
LEMMA DirectoryInit == DirInit => DirInv /\ DirSays
<1> SUFFICES ASSUME DirInit PROVE DirInv /\ DirSays
  OBVIOUS
<1>1. dir \in Trees /\ job = Idle /\ anchored = {} /\ artifact = None /\ output = None /\ tampered = 0
  BY DEF DirInit, Trees
<1>2. DirInv
  BY <1>1 DEF DirInv, RootsOfWalks, ArtifactInv
<1>3. DirSays
  BY <1>1 DEF DirSays, VerifyExact, AcceptedWasAnchored, ReportedRootAnchored, GenuineNotRejected
<1> QED
  BY <1>2, <1>3

-----------------------------------------------------------------------------
\* What a place of the directory may hold, and the entries of a seal.
Things ==
  {Seal!Absent} \cup {Seal!File(c) : c \in SealContent} \cup {Seal!Link(t) : t \in SealLinkTo}
SealRels == SealRelPaths \cup {Seal!Plain(p) : p \in SealPlaces}
SealEntries == [rel : SealRels, hash : SealContent]

\* The producer sealed every file there was, and as long as nobody edited the directory it holds
\* these files and nothing else.
GenuineInv ==
  /\ genuine = Seal!SealOf(genuine.files)
  /\ genuine.files \in Seq(SealEntries) /\ genuine.files # <<>>
  /\ \A i \in DOMAIN genuine.files : \E p \in Sealed : genuine.files[i].rel = Seal!Plain(p)
  /\ \A p \in Sealed : \E i \in DOMAIN genuine.files : genuine.files[i].rel = Seal!Plain(p)
  /\ fs \in [SealPlaces -> Things] /\ edits \in Nat
  /\ edits = 0 =>
       /\ \A i \in DOMAIN genuine.files :
            fs[genuine.files[i].rel.at] = Seal!File(genuine.files[i].hash)
       /\ \A p \in SealInside : fs[p] # Seal!Absent => p \in Sealed

\* Whatever was done to the artifact, what the producer signed is the genuine seal.
IsSealFile(a) ==
  /\ a = [form |-> a.form, kind |-> a.kind, block |-> a.block, seal |-> a.seal, sig |-> a.sig,
          claimed |-> a.claimed]
  /\ a.kind \in {"seal", "signed", "other"}
  /\ a.seal = [kind |-> a.seal.kind, shape |-> a.seal.shape, files |-> a.seal.files, root |-> a.seal.root]
  /\ a.seal.files \in Seq(SealEntries)
  /\ a.sig = [by |-> a.sig.by, over |-> a.sig.over, onCurve |-> a.sig.onCurve]
  /\ a.claimed \in {Seal!Producer, Seal!Forger} /\ a.sig.by \in {Seal!Producer, Seal!Forger}

CarriedInv ==
  /\ IsSealFile(artifact) /\ artifact.seal.files # <<>>
  /\ artifact.sig.by = Seal!Producer => artifact.sig.over = genuine
  /\ tampered \in Nat
  /\ tampered = 0 => /\ artifact.seal = genuine /\ artifact.claimed = Seal!Producer
                     /\ artifact.sig.by = Seal!Producer /\ artifact.sig.onCurve

\* A verifier that passed the checks of the artifact, its classes and its listing.
SealFiles == artifact.seal.files
IsGot(g) ==
  g \in [matched : Seq(SealRels), changed : Seq(SealRels), missing : Seq(SealRels),
         escaped : Seq(SealRels), flat : Seq(SealEntries)]

RunTyped ==
  /\ run = [pc |-> run.pc, opts |-> run.opts, base |-> run.base, i |-> run.i, got |-> run.got,
            data |-> run.data, reason |-> run.reason, todo |-> run.todo, seen |-> run.seen,
            since |-> run.since]
  /\ artifact.kind # "other"
  /\ run.i \in 1 .. Len(SealFiles) + 1
  /\ IsGot(run.got)
  /\ run.since = [fs |-> run.since.fs, edits |-> run.since.edits]
  /\ run.since.edits \in Nat /\ run.since.edits <= edits
  /\ Seal!Quiet => fs = run.since.fs

Resolving ==
  run.pc = "resolve" =>
    /\ run.i <= Len(SealFiles) /\ run.base = "D" /\ place.path # "linked"
    /\ ~ Seal!Entry.rel.refused /\ run.data \in SealContent
    /\ Seal!Quiet => Seal!Opened(Seal!Entry.rel.at) = Seal!File(run.data)

Classes ==
  /\ Seal!Quiet /\ run.got.escaped # <<>> =>
       place.path = "linked" \/ \E i \in DOMAIN SealFiles : ~ Seal!Sound(SealFiles[i].rel)
  /\ Seal!Quiet /\ run.got.changed # <<>> =>
       \E i \in DOMAIN SealFiles :
         Seal!Opened(SealFiles[i].rel.at) \notin {Seal!Absent, Seal!File(SealFiles[i].hash)}
  /\ Seal!Quiet /\ run.got.missing # <<>> =>
       run.base # "D" \/ \E i \in DOMAIN SealFiles : Seal!Opened(SealFiles[i].rel.at) = Seal!Absent
  /\ run.got.escaped = <<>> /\ run.got.changed = <<>> /\ run.got.missing = <<>> =>
       /\ Len(run.got.flat) = run.i - 1
       /\ \A k \in 1 .. run.i - 1 : /\ run.got.flat[k] = SealFiles[k]
                                    /\ Seal!Quiet => Seal!Reads(SealFiles[k])
  /\ \A k \in 1 .. run.i - 1 : SealFiles[k].rel.text \in Seal!Named(run.got)

Pending(p) == "base" \in run.todo \/ (p \in SealBelow /\ "sub" \in run.todo)
Listing ==
  /\ run.todo \subseteq {"base", "sub"}
  /\ Seal!Quiet => run.seen \subseteq {p \in SealInside : fs[p] # Seal!Absent} \cup {"artifact"}
  /\ run.pc \in {"scan", "done"} /\ run.opts.exact /\ run.base = "D" /\ edits <= run.since.edits + 1 =>
       \A p \in SealInside :
         run.since.fs[p] # Seal!Absent /\ fs[p] # Seal!Absent => p \in run.seen \/ Pending(p)
  /\ run.pc = "scan" => run.opts.exact /\ run.reason = Seal!Reason(run.got, run.opts)
  /\ run.pc \in {"scan", "done"} => run.i = Len(SealFiles) + 1

Walk == RunTyped /\ Resolving /\ Classes /\ Listing

Says(r) ==
  /\ r.got = run.got /\ r.opts = run.opts /\ r.accepted = (r.reason = "OK")
  /\ \/ r.reason = Seal!Reason(run.got, run.opts)
     \/ Seal!Reason(run.got, run.opts) = "OK" /\ r.reason = "UNEXPECTED" /\ r.unexpected # {}
  /\ r.unexpected = {} \/ (run.opts.exact /\ r.unexpected = Seal!Unexpected(run.seen, run.got))
  /\ r.reason = "OK" => r.unexpected = {}
  /\ r.reason = "OK" /\ run.opts.exact => Seal!Unexpected(run.seen, run.got) = {} /\ run.todo = {}

RunInv ==
  \/ run = Seal!Idle /\ out.result = Seal!NoResult
  \/ run.pc = "done" /\ out.result = Seal!NoResult
  \/ run.pc \in {"read", "resolve", "scan"} /\ Walk /\ out.result = Seal!NoResult
  \/ run.pc = "done" /\ Walk /\ Says(out.result) /\ (out.code = 0 <=> out.result.reason = "OK")

SealInv == GenuineInv /\ CarriedInv /\ RunInv

-----------------------------------------------------------------------------
\* What the constants of the verifier's directory and seals satisfy.
LEMMA SealConstants ==
  /\ IsFiniteSet(SealInside) /\ "out" \notin SealInside /\ "artifact" \notin SealInside
  /\ SealBelow \subseteq SealInside /\ Sealed \subseteq SealInside /\ Sealed # {}
  /\ SealLinkable \subseteq SealInside /\ SealLinkTo \subseteq SealPlaces
  /\ SealContent \subseteq Nat
  /\ \A rel \in SealRelPaths : rel.at \in SealPlaces
BY SealAssumption, Zenon

\* path_leaf tells two paths and two contents apart.
LEMMA SealLeafValues ==
  \A p, q \in SealPlaces, c, d \in SealContent :
    /\ SealLeafValue(p, c) \in Nat
    /\ SealLeafValue(p, c) = SealLeafValue(q, d) => p = q /\ c = d
BY SealAssumption, Zenon

\* A path as the producer writes it is one of the paths a seal may hold.
LEMMA PlainIsRel ==
  /\ \A rel \in SealRels : rel.at \in SealPlaces
  /\ \A p \in SealPlaces : Seal!Plain(p) \in SealRels
<1>1. \A p : Seal!Plain(p).at = p
  BY DEF Seal!Plain
<1> QED
  BY <1>1, SealConstants DEF SealRels

\* The Merkle tree of the seal is the one of the directory proofs.
LEMMA SameTree == \A s : Seal!Root(Seal!buildTree(s)) = Root(buildTree(s))
<1> SUFFICES ASSUME NEW s PROVE Seal!Root(Seal!buildTree(s)) = Root(buildTree(s))
  OBVIOUS
<1>1. \A a, i, k : Seal!Before(a, i, k) <=> Before(a, i, k)
  BY DEF Seal!Before, Before
<1>2. Seal!sortedLeaves(s) = sortedLeaves(s)
  BY <1>1, Zenon DEF Seal!sortedLeaves, sortedLeaves, Seal!Before, Before
<1>3. \A x : Seal!LayersAbove(x) = LayersAbove(x)
  BY Zenon DEF Seal!LayersAbove, LayersAbove, Seal!NextLayer, NextLayer, Seal!nodeHash, nodeHash
<1>4. Seal!buildTree(s) = buildTree(s)
  BY <1>2, <1>3, Zenon DEF Seal!buildTree, buildTree, Seal!leafHash, leafHash
<1> QED
  BY <1>4, Zenon DEF Seal!Root, Root

\* The root binds the files.
LEMMA RootBindsFiles ==
  ASSUME NEW s \in Seq(SealEntries), s # <<>>, NEW t \in Seq(SealEntries), t # <<>>,
         Seal!RootFromFlat(s) = Seal!RootFromFlat(t)
  PROVE  Seal!Held(s) = Seal!Held(t)
<1> DEFINE Leaves(u) == [i \in DOMAIN u |-> Seal!PathLeaf(u[i].rel, u[i].hash)]
<1>1. ASSUME NEW u \in Seq(SealEntries), u # <<>>
      PROVE  /\ Valued(Leaves(u)) /\ DOMAIN u = 1 .. Len(u)
             /\ Seal!RootFromFlat(u) = Root(buildTree(Leaves(u)))
             /\ Members(Leaves(u)) = {Seal!PathLeaf(u[i].rel, u[i].hash) : i \in DOMAIN u}
             /\ \A i \in DOMAIN u : u[i].rel.at \in SealPlaces /\ u[i].hash \in SealContent
  <2>1. Len(u) \in Nat \ {0} /\ DOMAIN u = 1 .. Len(u) /\ \A i \in 1 .. Len(u) : u[i] \in SealEntries
    BY <1>1
  <2>2. \A i \in DOMAIN u : u[i].rel.at \in SealPlaces /\ u[i].hash \in SealContent
    BY <2>1, PlainIsRel DEF SealEntries
  <2>3. Leaves(u) = [i \in 1 .. Len(u) |-> Leaves(u)[i]] /\ DOMAIN Leaves(u) = 1 .. Len(u)
    BY <2>1
  <2>4. IsLayer(Leaves(u)) /\ Len(Leaves(u)) = Len(u)
    <3> HIDE DEF Leaves
    <3> QED
      BY <2>1, <2>3, IsLayerBy
  <2>5. \A i \in 1 .. Len(u) : Leaves(u)[i][2] \in Int
    <3> SUFFICES ASSUME NEW i \in 1 .. Len(u) PROVE Leaves(u)[i][2] \in Int
      OBVIOUS
    <3>1. Leaves(u)[i] = <<"digest", SealLeafValue(u[i].rel.at, u[i].hash)>>
      BY <2>1 DEF Seal!PathLeaf, Seal!Digest
    <3>2. SealLeafValue(u[i].rel.at, u[i].hash) \in Nat
      BY <2>1, <2>2, SealLeafValues
    <3> DEFINE x == SealLeafValue(u[i].rel.at, u[i].hash)
    <3>3. x \in Int /\ <<"digest", x>>[2] = x
      BY <3>2
    <3> HIDE DEF x, Leaves
    <3>4. Leaves(u)[i] = <<"digest", x>>
      BY <3>1 DEF x
    <3> QED
      BY <3>3, <3>4
  <2>6. Seal!RootFromFlat(u) = Root(buildTree(Leaves(u)))
    BY SameTree DEF Seal!RootFromFlat
  <2>7. Members(Leaves(u)) = {Seal!PathLeaf(u[i].rel, u[i].hash) : i \in DOMAIN u}
    BY <2>1, <2>3 DEF Members
  <2> QED
    BY <2>1, <2>2, <2>4, <2>5, <2>6, <2>7 DEF Valued
<1>2. Members(Leaves(s)) = Members(Leaves(t))
  <2> HIDE DEF Leaves
  <2> QED
    BY <1>1, RootBinds
<1>3. ASSUME NEW u \in Seq(SealEntries), u # <<>>, NEW v \in Seq(SealEntries), v # <<>>,
             Members(Leaves(u)) = Members(Leaves(v)), NEW i \in DOMAIN u
      PROVE  \E k \in DOMAIN v : u[i].rel.at = v[k].rel.at /\ u[i].hash = v[k].hash
  <2> HIDE DEF Leaves
  <2>1. PICK k \in DOMAIN v : Seal!PathLeaf(u[i].rel, u[i].hash) = Seal!PathLeaf(v[k].rel, v[k].hash)
    BY <1>1, <1>3
  <2>2. SealLeafValue(u[i].rel.at, u[i].hash) = SealLeafValue(v[k].rel.at, v[k].hash)
    BY <2>1 DEF Seal!PathLeaf, Seal!Digest
  <2>3. /\ u[i].rel.at \in SealPlaces /\ u[i].hash \in SealContent
        /\ v[k].rel.at \in SealPlaces /\ v[k].hash \in SealContent
    BY <1>1, <1>3
  <2> QED
    BY <2>2, <2>3, SealLeafValues
<1> HIDE DEF Leaves
<1>4. \A i \in DOMAIN s : \E k \in DOMAIN t : s[i].rel.at = t[k].rel.at /\ s[i].hash = t[k].hash
  BY <1>2, <1>3
<1>5. \A i \in DOMAIN t : \E k \in DOMAIN s : t[i].rel.at = s[k].rel.at /\ t[i].hash = s[k].hash
  BY <1>2, <1>3
<1>6. \A x : x \in Seal!Held(s) => x \in Seal!Held(t)
  BY <1>4 DEF Seal!Held
<1>7. \A x : x \in Seal!Held(t) => x \in Seal!Held(s)
  BY <1>5 DEF Seal!Held
<1> QED
  BY <1>6, <1>7, Zenon DEF Seal!Held

-----------------------------------------------------------------------------
\* What the reason of the files, and the reason of the whole, say.
LEMMA FileReasonSays ==
  ASSUME NEW got
  PROVE  /\ Seal!FileReason(got) = "path_escape" => got.escaped # <<>>
         /\ Seal!FileReason(got) = "CHANGED" => got.changed # <<>>
         /\ Seal!FileReason(got) = "MISSING" => got.missing # <<>>
         /\ Seal!FileReason(got) \in {"OK", "root_mismatch"} =>
              got.escaped = <<>> /\ got.changed = <<>> /\ got.missing = <<>>
         /\ Seal!FileReason(got) = "root_mismatch" => ~ Seal!RootMatches(got)
         /\ Seal!FileReason(got) = "OK" => Seal!RootMatches(got)
         /\ Seal!FileReason(got) \in {"path_escape", "CHANGED", "MISSING", "root_mismatch", "OK"}
<1> HIDE DEF Seal!RootMatches
<1> QED
  BY DEF Seal!FileReason

\* The address recovered from the signature.
Recovered == Seal!TryRecover(artifact.seal, artifact.sig)

\* What decide says: OK only for files that all read as sealed under the carried root, and, where
\* a signer is pinned, only for a signature that recovers to him.
LEMMA ReasonSays ==
  ASSUME NEW got, NEW opts, CarriedInv, artifact.kind # "other"
  PROVE  LET reason == Seal!Reason(got, opts) IN
         /\ reason = "bad_signature" => Recovered # artifact.claimed /\ artifact.kind = "signed"
         /\ reason = "wrong_issuer" =>
              /\ Seal!FileReason(got) = "OK" /\ Recovered = artifact.claimed
              /\ opts.vendor # Seal!Null /\ opts.vendor # Recovered /\ artifact.kind = "signed"
         /\ reason = "unsigned_cannot_pin_vendor" => artifact.kind = "seal" /\ opts.vendor # Seal!Null
         /\ reason \in {"path_escape", "CHANGED", "MISSING", "root_mismatch"} =>
              Seal!FileReason(got) = reason
         /\ reason = "OK" =>
              /\ Seal!FileReason(got) = "OK"
              /\ artifact.kind = "seal" => opts.vendor = Seal!Null
              /\ artifact.kind = "signed" =>
                   Recovered = artifact.claimed /\ opts.vendor \in {Seal!Null, Recovered}
         /\ reason \in {"path_escape", "CHANGED", "MISSING", "root_mismatch", "bad_signature",
                        "wrong_issuer", "unsigned_cannot_pin_vendor", "OK"}
<1>1. artifact.kind \in {"seal", "signed"} /\ artifact.claimed \in {Seal!Producer, Seal!Forger}
  BY DEF CarriedInv, IsSealFile
<1>2. artifact.claimed # Seal!Null
  BY <1>1 DEF Seal!Producer, Seal!Forger, Seal!Null
<1>3. Seal!FileReason(got) \in {"path_escape", "CHANGED", "MISSING", "root_mismatch", "OK"}
  BY FileReasonSays
<1> DEFINE files == Seal!FileReason(got)
<1>4. Seal!Reason(got, opts) =
        IF artifact.kind # "signed"
        THEN IF opts.vendor # Seal!Null THEN "unsigned_cannot_pin_vendor" ELSE files
        ELSE IF Recovered # artifact.claimed \/ Recovered = Seal!Null THEN "bad_signature"
        ELSE IF opts.vendor \notin {Seal!Null, Recovered} /\ files = "OK" THEN "wrong_issuer"
        ELSE files
  BY DEF Seal!Reason, Recovered
<1> HIDE DEF files
<1>5. files \in {"path_escape", "CHANGED", "MISSING", "root_mismatch", "OK"}
  BY <1>3 DEF files
<1> HIDE DEF Recovered, Seal!Null
<1> QED
  BY <1>1, <1>2, <1>4, <1>5 DEF files

\* A signature that recovers to a known address is on the seal and by that address.
LEMMA RecoveredSays ==
  ASSUME CarriedInv
  PROVE  /\ Recovered \in {Seal!Producer, Seal!Forger} =>
              /\ artifact.sig.onCurve /\ artifact.sig.over = artifact.seal
              /\ artifact.sig.by = Recovered
         /\ artifact.sig.onCurve /\ artifact.sig.over = artifact.seal => Recovered = artifact.sig.by
BY DEF Recovered, Seal!TryRecover, Seal!Producer, Seal!Forger, Seal!Null

\* Whoever reads as sealed under a root or a signer of the producer has read the producer's files.
LEMMA GenuineSays ==
  ASSUME SealInv
  PROVE  Seal!AcceptedIsGenuine
<1> SUFFICES ASSUME Seal!Accepted,
                    out.result.opts.vendor = Seal!Producer \/ artifact.seal.root = genuine.root
             PROVE  Seal!Held(out.result.got.flat) = Seal!Held(genuine.files)
  BY DEF Seal!AcceptedIsGenuine
<1>1. out.result # Seal!NoResult
  BY DEF Seal!Accepted, Seal!NoResult, Seal!Null
<1>2. CarriedInv /\ GenuineInv /\ Walk /\ Says(out.result)
  BY <1>1 DEF SealInv, RunInv
<1>3. Seal!Reason(run.got, run.opts) = "OK" /\ out.result.got = run.got /\ out.result.opts = run.opts
  BY <1>2 DEF Says, Seal!Accepted
<1>4. artifact.kind # "other" /\ run.got.flat \in Seq(SealEntries)
  BY <1>2 DEF Walk, RunTyped, IsGot
<1>5. /\ Seal!FileReason(run.got) = "OK"
      /\ artifact.kind = "seal" => run.opts.vendor = Seal!Null
      /\ artifact.kind = "signed" =>
           Recovered = artifact.claimed /\ run.opts.vendor \in {Seal!Null, Recovered}
  BY <1>2, <1>3, <1>4, ReasonSays
<1>6. run.got.flat # <<>> /\ Seal!RootFromFlat(run.got.flat) = artifact.seal.root
  BY <1>5, FileReasonSays DEF Seal!RootMatches
<1>7. artifact.seal.root = genuine.root
  <2> SUFFICES ASSUME run.opts.vendor = Seal!Producer PROVE artifact.seal.root = genuine.root
    BY <1>3
  <2>1. Seal!Producer # Seal!Null
    BY DEF Seal!Producer, Seal!Null
  <2>2. artifact.kind = "signed" /\ Recovered = Seal!Producer
    BY <1>2, <1>4, <1>5, <2>1 DEF CarriedInv, IsSealFile
  <2>3. artifact.sig.over = artifact.seal /\ artifact.sig.by = Seal!Producer
    BY <1>2, <2>2, RecoveredSays
  <2> QED
    BY <1>2, <2>3 DEF CarriedInv
<1>8. genuine.files \in Seq(SealEntries) /\ genuine.files # <<>>
      /\ genuine.root = Seal!RootFromFlat(genuine.files)
  BY <1>2 DEF GenuineInv, Seal!SealOf
<1>9. Seal!Held(run.got.flat) = Seal!Held(genuine.files)
  BY <1>4, <1>6, <1>7, <1>8, RootBindsFiles
<1> QED
  BY <1>3, <1>9

\* An accepting exact run has listed everything that was there all along, and found it named.
LEMMA ClosedSays ==
  ASSUME SealInv
  PROVE  Seal!ExactDirClosed
<1> SUFFICES ASSUME Seal!Accepted, run.opts.exact, run.base = "D", edits <= run.since.edits + 1,
                    NEW p \in SealInside, run.since.fs[p] # Seal!Absent, fs[p] # Seal!Absent
             PROVE  p \in Seal!Named(run.got)
  BY DEF Seal!ExactDirClosed
<1>1. out.result # Seal!NoResult
  BY DEF Seal!Accepted, Seal!NoResult, Seal!Null
<1>2. run.pc = "done" /\ Walk /\ Says(out.result)
  BY <1>1 DEF SealInv, RunInv
<1>3. Seal!Unexpected(run.seen, run.got) = {} /\ run.todo = {}
  BY <1>2 DEF Says, Seal!Accepted
<1>4. p \in run.seen \/ Pending(p)
  BY <1>2 DEF Walk, Listing
<1>5. p \in run.seen /\ p # "artifact"
  BY <1>3, <1>4, SealConstants DEF Pending
<1> QED
  BY <1>3, <1>5 DEF Seal!Unexpected

-----------------------------------------------------------------------------
\* An answer was given at the end of a walk through the whole seal.
LEMMA AnswerSays ==
  ASSUME SealInv, Seal!Answered
  PROVE  /\ run.pc = "done" /\ Walk /\ Says(out.result)
         /\ (out.code = 0 <=> out.result.reason = "OK")
         /\ GenuineInv /\ CarriedInv /\ artifact.kind \in {"seal", "signed"}
<1>1. out.result # Seal!NoResult
  BY DEF Seal!Answered, Seal!NoResult
<1>2. run.pc = "done" /\ Walk /\ Says(out.result) /\ (out.code = 0 <=> out.result.reason = "OK")
  BY <1>1 DEF SealInv, RunInv
<1> QED
  BY <1>2 DEF SealInv, Walk, RunTyped, CarriedInv, IsSealFile

\* What is unexpected in a listing nobody edited during.
LEMMA UnexpectedSays ==
  ASSUME SealInv, Seal!Answered, out.result.reason = "UNEXPECTED", Seal!Quiet
  PROVE  /\ run.opts.exact
         /\ \E p \in SealInside : /\ fs[p] # Seal!Absent
                                  /\ \A i \in DOMAIN SealFiles : SealFiles[i].rel.text # p
<1>1. Walk /\ Says(out.result) /\ CarriedInv /\ artifact.kind # "other"
  BY AnswerSays
<1>2. Seal!Reason(run.got, run.opts) # "UNEXPECTED"
  BY <1>1, ReasonSays
<1>3. out.result.unexpected # {} /\ run.opts.exact
      /\ out.result.unexpected = Seal!Unexpected(run.seen, run.got)
  BY <1>1, <1>2 DEF Says
<1>4. PICK p \in run.seen : p \notin Seal!Named(run.got) /\ p # "artifact"
  BY <1>3 DEF Seal!Unexpected
<1>5. p \in SealInside /\ fs[p] # Seal!Absent
  BY <1>1, <1>4 DEF Walk, Listing
<1>6. \A i \in DOMAIN SealFiles : SealFiles[i].rel.text # p
  <2>1. run.i = Len(SealFiles) + 1
    BY <1>1, AnswerSays DEF Walk, Listing
  <2>2. DOMAIN SealFiles = 1 .. Len(SealFiles) /\ Len(SealFiles) \in Nat
    BY <1>1 DEF CarriedInv, IsSealFile, SealFiles
  <2>3. \A k \in 1 .. run.i - 1 : SealFiles[k].rel.text \in Seal!Named(run.got)
    BY <1>1 DEF Walk, Classes
  <2> QED
    BY <1>4, <2>1, <2>2, <2>3
<1> QED
  BY <1>3, <1>5, <1>6

\* What an answer says of the files, when nobody edited them during the run.
LEMMA FilesSay ==
  ASSUME SealInv, Seal!Answered, Seal!Quiet
  PROVE  /\ Seal!FileReason(run.got) = "path_escape" =>
              place.path = "linked" \/ \E i \in DOMAIN SealFiles : ~ Seal!Sound(SealFiles[i].rel)
         /\ Seal!FileReason(run.got) = "CHANGED" =>
              \E i \in DOMAIN SealFiles :
                Seal!Opened(SealFiles[i].rel.at) \notin {Seal!Absent, Seal!File(SealFiles[i].hash)}
         /\ Seal!FileReason(run.got) = "MISSING" =>
              run.base # "D"
              \/ \E i \in DOMAIN SealFiles : Seal!Opened(SealFiles[i].rel.at) = Seal!Absent
         /\ Seal!FileReason(run.got) \in {"OK", "root_mismatch"} =>
              \A i \in DOMAIN SealFiles : Seal!Reads(SealFiles[i])
         /\ Seal!FileReason(run.got) = "root_mismatch" =>
              Seal!RootFromFlat(SealFiles) # artifact.seal.root
<1>1. Walk /\ Classes /\ CarriedInv /\ run.pc = "done"
  BY AnswerSays DEF Walk
<1>2. SealFiles \in Seq(SealEntries) /\ SealFiles # <<>>
  BY <1>1 DEF CarriedInv, IsSealFile, SealFiles
<1>3. DOMAIN SealFiles = 1 .. Len(SealFiles) /\ Len(SealFiles) \in Nat \ {0}
  BY <1>2
<1>4. run.i - 1 = Len(SealFiles)
  BY <1>1, <1>3 DEF Walk, Listing
<1>5. ASSUME run.got.escaped = <<>>, run.got.changed = <<>>, run.got.missing = <<>>
      PROVE  /\ \A i \in DOMAIN SealFiles : Seal!Reads(SealFiles[i])
             /\ run.got.flat = SealFiles
  <2>1. /\ Len(run.got.flat) = Len(SealFiles)
        /\ \A k \in 1 .. Len(SealFiles) : run.got.flat[k] = SealFiles[k] /\ Seal!Reads(SealFiles[k])
    BY <1>1, <1>4, <1>5 DEF Classes
  <2>2. run.got.flat \in Seq(SealEntries)
    BY <1>1 DEF Walk, RunTyped, IsGot
  <2> QED
    BY <1>2, <1>3, <2>1, <2>2
<1>6. Seal!FileReason(run.got) = "root_mismatch" => Seal!RootFromFlat(SealFiles) # artifact.seal.root
  <2> SUFFICES ASSUME Seal!FileReason(run.got) = "root_mismatch",
                      Seal!RootFromFlat(SealFiles) = artifact.seal.root
               PROVE  FALSE
    OBVIOUS
  <2>1. /\ run.got.escaped = <<>> /\ run.got.changed = <<>> /\ run.got.missing = <<>>
        /\ ~ Seal!RootMatches(run.got)
    BY FileReasonSays
  <2>2. run.got.flat = SealFiles
    BY <1>5, <2>1
  <2> QED
    BY <1>2, <2>1, <2>2 DEF Seal!RootMatches
<1>7. Seal!FileReason(run.got) \in {"OK", "root_mismatch"} =>
        \A i \in DOMAIN SealFiles : Seal!Reads(SealFiles[i])
  <2> HIDE DEF Seal!Reads
  <2> QED
    BY <1>5, FileReasonSays
<1>8. Seal!FileReason(run.got) = "path_escape" =>
        place.path = "linked" \/ \E i \in DOMAIN SealFiles : ~ Seal!Sound(SealFiles[i].rel)
  BY <1>1, FileReasonSays DEF Classes
<1>9. Seal!FileReason(run.got) = "CHANGED" =>
        \E i \in DOMAIN SealFiles :
          Seal!Opened(SealFiles[i].rel.at) \notin {Seal!Absent, Seal!File(SealFiles[i].hash)}
  BY <1>1, FileReasonSays DEF Classes
<1>10. Seal!FileReason(run.got) = "MISSING" =>
         run.base # "D" \/ \E i \in DOMAIN SealFiles : Seal!Opened(SealFiles[i].rel.at) = Seal!Absent
  BY <1>1, FileReasonSays DEF Classes
<1> QED
  BY <1>6, <1>7, <1>8, <1>9, <1>10

\* Each reason of a rejection names what is so, as long as nobody edited the files meanwhile.
LEMMA TrueSays ==
  ASSUME SealInv
  PROVE  Seal!ReasonIsTrue
<1> SUFFICES ASSUME Seal!Answered, ~ Seal!Accepted, Seal!Quiet PROVE Seal!ReasonIsTrue
  BY DEF Seal!ReasonIsTrue
<1> DEFINE reason == out.result.reason
           signedBy == IF artifact.sig.over = artifact.seal /\ artifact.sig.onCurve
                       THEN artifact.sig.by ELSE Seal!Null
<1>1. /\ Walk /\ Says(out.result) /\ CarriedInv /\ artifact.kind \in {"seal", "signed"}
      /\ artifact.claimed \in {Seal!Producer, Seal!Forger}
      /\ artifact.claimed # Seal!Null
  BY AnswerSays DEF CarriedInv, IsSealFile, Seal!Producer, Seal!Forger, Seal!Null
<1>2. reason = Seal!Reason(run.got, run.opts) \/ reason = "UNEXPECTED"
  BY <1>1 DEF Says
<1> HIDE DEF reason
<1>3. reason # "OK"
  BY DEF reason, Seal!Accepted
<1>4. reason \in {"path_escape", "CHANGED", "MISSING", "root_mismatch"} =>
        Seal!FileReason(run.got) = reason
  BY <1>1, <1>2, ReasonSays
<1>5. reason = "UNEXPECTED" =>
        run.opts.exact /\ \E p \in SealInside :
          fs[p] # Seal!Absent /\ \A i \in DOMAIN SealFiles : SealFiles[i].rel.text # p
  BY UnexpectedSays DEF reason
<1>6. reason = "bad_signature" => signedBy # artifact.claimed
  <2> SUFFICES ASSUME reason = "bad_signature" PROVE signedBy # artifact.claimed
    OBVIOUS
  <2>1. Recovered # artifact.claimed
    BY <1>1, <1>2, ReasonSays
  <2> QED
    BY <1>1, <2>1, RecoveredSays
<1>7. reason = "wrong_issuer" =>
        /\ signedBy = artifact.claimed /\ signedBy # run.opts.vendor
        /\ \A i \in DOMAIN SealFiles : Seal!Reads(SealFiles[i])
  <2> SUFFICES ASSUME reason = "wrong_issuer"
               PROVE  /\ signedBy = artifact.claimed /\ signedBy # run.opts.vendor
                      /\ \A i \in DOMAIN SealFiles : Seal!Reads(SealFiles[i])
    OBVIOUS
  <2>1. /\ Seal!FileReason(run.got) = "OK" /\ Recovered = artifact.claimed
        /\ run.opts.vendor # Recovered
    BY <1>1, <1>2, ReasonSays
  <2>2. signedBy = Recovered
    BY <1>1, <2>1, RecoveredSays
  <2>3. \A i \in DOMAIN SealFiles : Seal!Reads(SealFiles[i])
    BY <2>1, FilesSay
  <2> QED
    BY <2>1, <2>2, <2>3
<1>8. reason = "unsigned_cannot_pin_vendor" => artifact.kind = "seal"
  BY <1>1, <1>2, ReasonSays
<1>9. reason \in {"path_escape", "CHANGED", "MISSING", "root_mismatch", "UNEXPECTED", "bad_signature",
                  "wrong_issuer", "unsigned_cannot_pin_vendor"}
  BY <1>1, <1>2, <1>3, ReasonSays
<1>10. reason = "path_escape" =>
         place.path = "linked" \/ \E i \in DOMAIN SealFiles : ~ Seal!Sound(SealFiles[i].rel)
  BY <1>4, FilesSay
<1>11. reason = "CHANGED" =>
         \E i \in DOMAIN SealFiles :
           Seal!Opened(SealFiles[i].rel.at) \notin {Seal!Absent, Seal!File(SealFiles[i].hash)}
  BY <1>4, FilesSay
<1>12. reason = "MISSING" =>
         run.base # "D" \/ \E i \in DOMAIN SealFiles : Seal!Opened(SealFiles[i].rel.at) = Seal!Absent
  BY <1>4, FilesSay
<1>13. reason = "root_mismatch" =>
         /\ \A i \in DOMAIN SealFiles : Seal!Reads(SealFiles[i])
         /\ Seal!RootFromFlat(SealFiles) # artifact.seal.root
  BY <1>4, FilesSay
<1> QED
  BY <1>5, <1>6, <1>7, <1>8, <1>9, <1>10, <1>11, <1>12, <1>13 DEF Seal!ReasonIsTrue, reason, SealFiles

\* What render_human prints for a reason names every file of that class.
LEMMA TextSays ==
  ASSUME SealInv
  PROVE  Seal!TextOmitsNothing
<1> SUFFICES ASSUME Seal!Answered PROVE Seal!TextOmitsNothing
  BY DEF Seal!TextOmitsNothing
<1> DEFINE r == out.result
           Of(kind, rels) == {[line |-> kind, about |-> t] : t \in Seal!Texts(rels)}
           More == {[line |-> "UNEXPECTED", about |-> t] : t \in r.unexpected}
<1>1. Says(r) /\ CarriedInv /\ artifact.kind # "other"
  BY AnswerSays
<1>2. CASE r.accepted
  <2>1. r.reason = "OK" /\ Seal!Reason(run.got, run.opts) = "OK" /\ r.got = run.got /\ r.unexpected = {}
    BY <1>1, <1>2 DEF Says
  <2>2. Seal!FileReason(run.got) = "OK"
    BY <1>1, <2>1, ReasonSays
  <2>3. r.got.changed = <<>> /\ r.got.missing = <<>> /\ r.got.escaped = <<>>
    BY <2>1, <2>2, FileReasonSays
  <2>4. Seal!Texts(<<>>) = {}
    BY DEF Seal!Texts
  <2> QED
    BY <2>1, <2>3, <2>4 DEF Seal!TextOmitsNothing
<1>3. CASE ~ r.accepted
  <2>1. \A l : l \in Of("CHANGED", r.got.changed) \cup Of("MISSING", r.got.missing)
               \cup Of("REJECTED", r.got.escaped) \cup More => l \in Seal!RenderHuman(r)
    BY <1>3, Zenon DEF Seal!RenderHuman
  <2>2. \A kind, rels, t : t \in Seal!Texts(rels) =>
          [line |-> kind, about |-> t] \in Of(kind, rels) /\ [line |-> kind, about |-> t].about = t
    OBVIOUS
  <2>3. \A t \in r.unexpected :
          [line |-> "UNEXPECTED", about |-> t] \in More /\ [line |-> "UNEXPECTED", about |-> t].about = t
    OBVIOUS
  <2> HIDE DEF Of, More, r
  <2>4. ASSUME NEW t, \/ t \in Seal!Texts(r.got.changed) \/ t \in Seal!Texts(r.got.missing)
                      \/ t \in Seal!Texts(r.got.escaped) \/ t \in r.unexpected
        PROVE  \E l \in Seal!RenderHuman(r) : l.about = t
    <3>1. \E kind : [line |-> kind, about |-> t] \in Seal!RenderHuman(r)
      <4>1. CASE t \in Seal!Texts(r.got.changed)
        BY <2>1, <2>2, <4>1
      <4>2. CASE t \in Seal!Texts(r.got.missing)
        BY <2>1, <2>2, <4>2
      <4>3. CASE t \in Seal!Texts(r.got.escaped)
        BY <2>1, <2>2, <4>3
      <4>4. CASE t \in r.unexpected
        BY <2>1, <2>3, <4>4
      <4> QED
        BY <2>4, <4>1, <4>2, <4>3, <4>4
    <3> QED
      BY <3>1
  <2> QED
    BY <2>4 DEF Seal!TextOmitsNothing, r
<1> QED
  BY <1>2, <1>3

\* The genuine files, as they were sealed, are read as sealed wherever the artifact lies.
LEMMA UneditedSays ==
  ASSUME GenuineInv, edits = 0, NEW i \in DOMAIN genuine.files
  PROVE  LET e == genuine.files[i] IN
         /\ Seal!Sound(e.rel) /\ Seal!Opened(e.rel.at) = Seal!File(e.hash)
         /\ Seal!Opened(e.rel.at) # Seal!Absent
<1> DEFINE e == genuine.files[i]
<1>1. PICK p \in Sealed : e.rel = Seal!Plain(p)
  BY DEF GenuineInv
<1>2. e.rel.at = p /\ ~ e.rel.refused /\ p \in SealInside
  BY <1>1, SealConstants DEF Seal!Plain
<1>3. fs[p] = <<"file", e.hash>>
  BY <1>2 DEF GenuineInv, Seal!File
<1>4. fs[p][1] = "file"
  BY <1>3
<1> HIDE DEF e
<1>5. Seal!Sound(e.rel)
  BY <1>2, <1>4 DEF Seal!Sound, Seal!Escapes, Seal!RealPath
<1>6. Seal!Opened(p) = <<"file", e.hash>>
  BY <1>3, <1>4 DEF Seal!Opened, Seal!HoldsFile
<1>7. <<"file", e.hash>> # <<"absent">>
  OBVIOUS
<1> QED
  BY <1>2, <1>5, <1>6, <1>7 DEF Seal!File, Seal!Absent, e

\* The producer's seal and files, untouched and under no other signer, are accepted.
LEMMA UntouchedSays ==
  ASSUME SealInv
  PROVE  Seal!GenuineAccepted
<1> SUFFICES ASSUME Seal!Untouched("real") PROVE out.code = 0 /\ Seal!Accepted
  BY DEF Seal!GenuineAccepted
<1>1. /\ Seal!Answered /\ tampered = 0 /\ edits = 0 /\ place.path = "real" /\ run.base = "D"
      /\ run.opts.vendor \in {Seal!Null} \cup (IF artifact.kind = "signed" THEN {Seal!Producer} ELSE {})
  BY DEF Seal!Untouched
<1>2. /\ Walk /\ Says(out.result) /\ (out.code = 0 <=> out.result.reason = "OK")
      /\ GenuineInv /\ CarriedInv /\ artifact.kind \in {"seal", "signed"}
  BY <1>1, AnswerSays
<1>3. Seal!Quiet
  BY <1>1, <1>2 DEF Seal!Quiet, Walk, RunTyped
<1>4. artifact.seal = genuine /\ SealFiles = genuine.files
  BY <1>1, <1>2 DEF CarriedInv, SealFiles
<1> DEFINE files == Seal!FileReason(run.got)
<1>5. files # "path_escape"
  BY <1>1, <1>2, <1>3, <1>4, FilesSay, UneditedSays
<1>6. files # "CHANGED"
  BY <1>1, <1>2, <1>3, <1>4, FilesSay, UneditedSays
<1>7. files # "MISSING"
  BY <1>1, <1>2, <1>3, <1>4, FilesSay, UneditedSays
<1>8. files # "root_mismatch"
  <2>1. artifact.seal.root = Seal!RootFromFlat(genuine.files)
    BY <1>2, <1>4 DEF GenuineInv, Seal!SealOf
  <2> QED
    BY <1>1, <1>3, <1>4, <2>1, FilesSay
<1>9. Seal!Producer # Seal!Null /\ Recovered = Seal!Producer /\ artifact.claimed = Seal!Producer
  BY <1>1, <1>2, RecoveredSays DEF CarriedInv, Seal!Producer, Seal!Null
<1> DEFINE first == Seal!Reason(run.got, run.opts)
<1>10. first # "bad_signature" /\ first # "wrong_issuer"
  BY <1>1, <1>2, <1>9, ReasonSays
<1>11. first # "unsigned_cannot_pin_vendor"
  BY <1>1, <1>2, <1>9, ReasonSays
<1>12. first = "OK"
  BY <1>2, <1>5, <1>6, <1>7, <1>8, <1>10, <1>11, ReasonSays
<1>13. out.result.reason # "UNEXPECTED"
  <2> SUFFICES ASSUME out.result.reason = "UNEXPECTED" PROVE FALSE
    OBVIOUS
  <2>1. PICK p \in SealInside : fs[p] # Seal!Absent /\ \A i \in DOMAIN SealFiles : SealFiles[i].rel.text # p
    BY <1>1, <1>3, UnexpectedSays
  <2>2. p \in Sealed
    BY <1>1, <1>2, <2>1 DEF GenuineInv
  <2>3. PICK i \in DOMAIN genuine.files : genuine.files[i].rel = Seal!Plain(p)
    BY <1>2, <2>2 DEF GenuineInv
  <2>4. genuine.files[i].rel.text = p
    BY <2>3 DEF Seal!Plain
  <2> QED
    BY <1>4, <2>1, <2>4
<1>14. out.result.reason = "OK"
  BY <1>2, <1>12, <1>13 DEF Says
<1> QED
  BY <1>2, <1>14 DEF Seal!Accepted

-----------------------------------------------------------------------------
\* The instance of the seal counts as everybody does.
LEMMA SameCardinality == \A S : Seal!Cardinality(S) = Cardinality(S)
BY Zenon DEF Seal!Cardinality, Cardinality

\* Listing a set puts each of its members somewhere.
LEMMA NamesOf ==
  ASSUME NEW S, IsFiniteSet(S)
  PROVE  LET names == Seal!SetToSeq(S) IN
         /\ names \in Seq(S) /\ DOMAIN names = 1 .. Len(names) /\ Len(names) \in Nat
         /\ \A i \in 1 .. Len(names) : names[i] \in S
         /\ \A x \in S : \E i \in 1 .. Len(names) : names[i] = x
<1> DEFINE n == Cardinality(S)
           Inj(f) == Seal!IsInjective(f)
           names == CHOOSE f \in [1 .. n -> S] : Inj(f)
<1>1. n \in Nat /\ ExistsBijection(1 .. n, S)
  BY FS_CardinalityType
<1>2. PICK b : b \in Bijection(1 .. n, S)
  BY <1>1 DEF ExistsBijection
<1>3. b \in [1 .. n -> S] /\ Inj(b)
  BY <1>2 DEF Bijection, Injection, IsInjective, Seal!IsInjective
<1>4. names \in [1 .. n -> S] /\ Inj(names)
  <2> HIDE DEF Inj, n
  <2> QED
    BY <1>3, Zenon
<1>5. Seal!SetToSeq(S) = names
  BY SameCardinality, Zenon DEF Seal!SetToSeq
<1> HIDE DEF names
<1>6. names \in Injection(1 .. n, S)
  BY <1>4 DEF Injection, IsInjective, Seal!IsInjective
<1>7. Cardinality(1 .. n) = n
  <2>1. 1 \in Int /\ n \in Int
    BY <1>1
  <2>2. Cardinality(1 .. n) = IF 1 > n THEN 0 ELSE n - 1 + 1
    BY <2>1, FS_Interval, Zenon
  <2> QED
    BY <1>1, <2>2
<1>8. names \in Surjection(1 .. n, S)
  BY <1>6, <1>7, FS_Injection, Zenon
<1>9. \A x \in S : \E i \in 1 .. n : names[i] = x
  BY <1>8 DEF Surjection
<1>10. DOMAIN names = 1 .. n /\ names \in Seq(S) /\ Len(names) = n
  BY <1>1, <1>4
<1>11. \A i \in 1 .. n : names[i] \in S
  BY <1>4
<1> HIDE DEF n
<1> QED
  BY <1>1, <1>5, <1>9, <1>10, <1>11

\* The entries of some places that hold files are entries of a seal.
FilesIn(S, d) ==
  LET names == Seal!SetToSeq(S)
  IN  [i \in DOMAIN names |-> [rel |-> Seal!Plain(names[i]), hash |-> d[names[i]][2]]]

\* What seal writes down of a set of files holds each with its content, and nothing else.
LEMMA FilesOf ==
  ASSUME NEW S, IsFiniteSet(S), S \subseteq SealPlaces, NEW d \in [SealPlaces -> Things],
         \A p \in S : d[p][1] = "file"
  PROVE  LET files == FilesIn(S, d) IN
         /\ files \in Seq(SealEntries)
         /\ S # {} => files # <<>>
         /\ \A i \in DOMAIN files : \E p \in S : /\ files[i].rel = Seal!Plain(p)
                                               /\ d[p] = Seal!File(files[i].hash)
         /\ \A p \in S : \E i \in DOMAIN files : files[i].rel = Seal!Plain(p)
<1> DEFINE names == Seal!SetToSeq(S)
           files == [i \in DOMAIN names |-> [rel |-> Seal!Plain(names[i]), hash |-> d[names[i]][2]]]
<1>1. /\ names \in Seq(S) /\ DOMAIN names = 1 .. Len(names) /\ Len(names) \in Nat
      /\ \A i \in 1 .. Len(names) : names[i] \in S
      /\ \A x \in S : \E i \in 1 .. Len(names) : names[i] = x
  BY NamesOf
<1> HIDE DEF names
<1>2. ASSUME NEW p \in S PROVE d[p] = Seal!File(d[p][2]) /\ d[p][2] \in SealContent
  <2>1. d[p] \in Things /\ d[p][1] = "file"
    BY <1>2
  <2> QED
    BY <2>1 DEF Things, Seal!Absent, Seal!File, Seal!Link
<1>3. DOMAIN files = 1 .. Len(names) /\ \A i \in 1 .. Len(names) :
        files[i] = [rel |-> Seal!Plain(names[i]), hash |-> d[names[i]][2]]
  BY <1>1
<1>4. \A i \in 1 .. Len(names) : files[i] \in SealEntries
  <2> SUFFICES ASSUME NEW i \in 1 .. Len(names) PROVE files[i] \in SealEntries
    OBVIOUS
  <2>1. names[i] \in S /\ names[i] \in SealPlaces
    BY <1>1
  <2>2. Seal!Plain(names[i]) \in SealRels /\ d[names[i]][2] \in SealContent
    BY <1>2, <2>1, PlainIsRel
  <2> HIDE DEF files
  <2> QED
    BY <1>3, <2>2 DEF SealEntries
<1>5. files = [i \in 1 .. Len(names) |-> files[i]]
  BY <1>1
<1> HIDE DEF files
<1>6. files \in Seq(SealEntries)
  BY <1>1, <1>4, <1>5
<1>7. S # {} => files # <<>>
  <2> SUFFICES ASSUME S # {}, files = <<>> PROVE FALSE
    OBVIOUS
  <2>1. PICK x : x \in S
    OBVIOUS
  <2>2. PICK i \in 1 .. Len(names) : names[i] = x
    BY <1>1, <2>1
  <2> QED
    BY <1>3, <2>2
<1>8. ASSUME NEW i \in 1 .. Len(names)
      PROVE  files[i].rel = Seal!Plain(names[i]) /\ d[names[i]] = Seal!File(files[i].hash)
  <2>1. files[i].rel = Seal!Plain(names[i]) /\ files[i].hash = d[names[i]][2] /\ names[i] \in S
    BY <1>1, <1>3
  <2> QED
    BY <1>2, <2>1
<1>9. \A i \in DOMAIN files : \E p \in S : files[i].rel = Seal!Plain(p) /\ d[p] = Seal!File(files[i].hash)
  BY <1>1, <1>3, <1>8
<1>10. \A p \in S : \E i \in DOMAIN files : files[i].rel = Seal!Plain(p)
  BY <1>1, <1>3, <1>8
<1> QED
  BY <1>1, <1>3, <1>6, <1>7, <1>9, <1>10 DEF files, names, FilesIn

\* A seal just made and signed is an artifact.
LEMMA SealedFile ==
  ASSUME NEW who \in {Seal!Producer, Seal!Forger}, NEW kind \in {"seal", "signed", "other"},
         NEW files \in Seq(SealEntries)
  PROVE  LET a == Seal!SealedBy(who, kind, files) IN
         /\ IsSealFile(a) /\ a.seal = Seal!SealOf(files) /\ a.sig.over = Seal!SealOf(files)
         /\ a.sig.by = who /\ a.claimed = who /\ a.sig.onCurve /\ a.kind = kind
         /\ a.seal.files = files
BY DEF Seal!SealedBy, Seal!SealOf, IsSealFile

\* The genuine seal of an unedited directory, and no verifier yet.
LEMMA SealInit == Seal!Init => SealInv
<1> SUFFICES ASSUME Seal!Init PROVE SealInv
  OBVIOUS
<1> DEFINE files == FilesIn(Sealed, fs)
<1>1. /\ fs \in [SealInside \cup {"out"} -> {Seal!Absent} \cup {Seal!File(c) : c \in SealContent}]
      /\ \A p \in SealInside : (fs[p] # Seal!Absent) <=> p \in Sealed
      /\ run = Seal!Idle /\ out = [code |-> -1, result |-> Seal!NoResult] /\ tampered = 0 /\ edits = 0
  BY DEF Seal!Init
<1>2. genuine = Seal!SealOf(files)
      /\ \E kind \in {"seal", "signed"} : artifact = Seal!SealedBy(Seal!Producer, kind, files)
  BY Zenon DEF Seal!Init, FilesIn
<1>3. fs \in [SealPlaces -> Things]
  BY <1>1 DEF SealPlaces, Things
<1>4. IsFiniteSet(Sealed) /\ Sealed \subseteq SealPlaces /\ Sealed # {}
  BY SealConstants, FS_Subset DEF SealPlaces
<1>5. \A p \in Sealed : fs[p][1] = "file"
  BY <1>1, SealConstants DEF Seal!Absent, Seal!File
<1>6. /\ files \in Seq(SealEntries) /\ files # <<>>
      /\ \A i \in DOMAIN files : \E p \in Sealed : /\ files[i].rel = Seal!Plain(p)
                                                   /\ fs[p] = Seal!File(files[i].hash)
      /\ \A p \in Sealed : \E i \in DOMAIN files : files[i].rel = Seal!Plain(p)
  BY <1>3, <1>4, <1>5, FilesOf
<1> HIDE DEF files
<1>7. genuine.files = files
  BY <1>2 DEF Seal!SealOf
<1>8. \A i \in DOMAIN files : fs[files[i].rel.at] = Seal!File(files[i].hash)
  <2> SUFFICES ASSUME NEW i \in DOMAIN files PROVE fs[files[i].rel.at] = Seal!File(files[i].hash)
    OBVIOUS
  <2>1. PICK p \in Sealed : files[i].rel = Seal!Plain(p) /\ fs[p] = Seal!File(files[i].hash)
    BY <1>6
  <2>2. files[i].rel.at = p
    BY <2>1 DEF Seal!Plain
  <2> QED
    BY <2>1, <2>2
<1>9. GenuineInv
  BY <1>1, <1>2, <1>3, <1>6, <1>7, <1>8 DEF GenuineInv
<1>10. PICK kind \in {"seal", "signed"} : artifact = Seal!SealedBy(Seal!Producer, kind, files)
  BY <1>2
<1>11. CarriedInv
  <2>1. /\ IsSealFile(artifact) /\ artifact.seal = Seal!SealOf(files)
        /\ artifact.sig.over = Seal!SealOf(files)
        /\ artifact.sig.by = Seal!Producer /\ artifact.claimed = Seal!Producer
        /\ artifact.sig.onCurve /\ artifact.seal.files = files
    BY <1>6, <1>10, SealedFile
  <2> QED
    BY <1>1, <1>2, <1>6, <2>1 DEF CarriedInv
<1>12. RunInv
  BY <1>1 DEF RunInv
<1> QED
  BY <1>9, <1>11, <1>12 DEF SealInv

\* A step that leaves the artifact alone.
LEMMA CarriedKept ==
  ASSUME CarriedInv, UNCHANGED <<artifact, genuine, tampered>>
  PROVE  CarriedInv'
BY DEF CarriedInv, IsSealFile

\* A step that leaves the directory alone.
LEMMA GenuineKept ==
  ASSUME GenuineInv, UNCHANGED <<fs, genuine, edits>>
  PROVE  GenuineInv'
BY DEF GenuineInv

-----------------------------------------------------------------------------
\* Before a verifier starts it has nothing and has answered nothing.
LEMMA IdleRun ==
  ASSUME RunInv, run.pc = "idle"
  PROVE  run = Seal!Idle /\ out.result = Seal!NoResult
BY DEF RunInv

\* As long as a verifier reads or lists, its classes are true and it has answered nothing.
LEMMA BusyRun ==
  ASSUME RunInv, run.pc \in {"read", "resolve", "scan"}
  PROVE  Walk /\ out.result = Seal!NoResult
BY DEF RunInv, Seal!Idle

\* The reason depends on the artifact and on what the verifier has.
LEMMA ReasonKept ==
  ASSUME UNCHANGED artifact
  PROVE  \A got, opts : Seal!Reason(got, opts)' = Seal!Reason(got, opts)
BY DEF Seal!Reason, Seal!FileReason, Seal!RootMatches

\* A verifier that starts has put nothing into a class; one that refuses its arguments, its
\* artifact or its directory is done without a result (main).
LEMMA StartKeeps ==
  ASSUME SealInv, Seal!Start
  PROVE  SealInv'
<1>1. UNCHANGED <<fs, scannable, genuine, artifact, place, tampered, edits>> /\ run.pc = "idle"
  BY DEF Seal!Start
<1>2. GenuineInv' /\ CarriedInv'
  BY <1>1, GenuineKept, CarriedKept DEF SealInv
<1>3. out.result = Seal!NoResult
  BY <1>1, IdleRun DEF SealInv
<1>4. PICK argv \in SealArgvs :
        LET parsed == Seal!ParseArgs(argv)
            opts == parsed.opts
            refused == Seal!Refused(opts)
            code == IF parsed.end = "help" THEN 0 ELSE IF parsed.end = "usage" THEN 2 ELSE refused
        IN  IF parsed.end # Seal!Null \/ refused # 0
            THEN /\ run' = [pc |-> "done", opts |-> opts, since |-> [fs |-> fs, edits |-> edits]]
                 /\ out' = [code |-> code, result |-> Seal!NoResult]
            ELSE /\ run' = [pc |-> "read", opts |-> opts, base |-> Seal!BaseDir(opts), i |-> 1,
                            got |-> Seal!Empty, data |-> Seal!Null, reason |-> Seal!Null, todo |-> {},
                            seen |-> {}, since |-> [fs |-> fs, edits |-> edits]]
                 /\ UNCHANGED out
  BY Zenon DEF Seal!Start
<1> DEFINE opts == Seal!ParseArgs(argv).opts
           base == Seal!BaseDir(opts)
           since == [fs |-> fs, edits |-> edits]
           first == [pc |-> "read", opts |-> opts, base |-> base, i |-> 1, got |-> Seal!Empty,
                     data |-> Seal!Null, reason |-> Seal!Null, todo |-> {}, seen |-> {}, since |-> since]
<1>5. \/ run'.pc = "done" /\ out'.result = Seal!NoResult
      \/ Seal!Refused(opts) = 0 /\ run' = first /\ out' = out
  BY <1>4
<1>6. CASE run'.pc = "done" /\ out'.result = Seal!NoResult
  BY <1>2, <1>6 DEF SealInv, RunInv, Seal!NoResult
<1>7. CASE Seal!Refused(opts) = 0 /\ run' = first /\ out' = out
  <2>1. artifact.kind # "other"
    BY <1>7 DEF Seal!Refused
  <2> HIDE DEF opts, base
  <2>2. /\ run'.pc = "read" /\ run'.i = 1 /\ run'.got = Seal!Empty /\ run'.todo = {} /\ run'.seen = {}
        /\ run'.since = since /\ run'.since.fs = fs /\ run'.since.edits = edits
        /\ run' = [pc |-> run'.pc, opts |-> run'.opts, base |-> run'.base, i |-> run'.i, got |-> run'.got,
                   data |-> run'.data, reason |-> run'.reason, todo |-> run'.todo, seen |-> run'.seen,
                   since |-> run'.since]
    BY <1>7
  <2>3. IsGot(Seal!Empty)
    BY DEF IsGot, Seal!Empty
  <2>4. Len(SealFiles) \in Nat /\ SealFiles' = SealFiles /\ edits \in Nat
    BY <1>1 DEF SealInv, CarriedInv, GenuineInv, IsSealFile, SealFiles
  <2>5. RunTyped'
    <3>1. IsGot(run.got)'
      BY <2>2, <2>3 DEF IsGot
    <3>2. 1 \in 1 .. Len(SealFiles) + 1
      BY <2>4
    <3> QED
      BY <1>1, <2>1, <2>2, <2>4, <3>1, <3>2 DEF RunTyped, Seal!Quiet
  <2>6. Resolving' /\ Listing'
    BY <2>2 DEF Resolving, Listing
  <2>7. Classes'
    BY <2>2 DEF Classes, Seal!Empty
  <2>8. RunInv'
    BY <1>3, <1>7, <2>2, <2>5, <2>6, <2>7 DEF RunInv, Walk, Seal!NoResult
  <2> QED
    BY <1>2, <2>8 DEF SealInv
<1> QED
  BY <1>5, <1>6, <1>7

\* Taking out an entry leaves entries.
LEMMA RemovedEntry ==
  ASSUME NEW s \in Seq(SealEntries), NEW i \in DOMAIN s
  PROVE  Seal!RemoveAt(s, i) \in Seq(SealEntries)
<1>1. Len(s) \in Nat /\ i \in 1 .. Len(s) /\ \A k \in 1 .. Len(s) : s[k] \in SealEntries
  OBVIOUS
<1>2. SubSeq(s, 1, i - 1) \in Seq(SealEntries)
  <2>1. 1 \in Int /\ i - 1 \in Int /\ \A k \in 1 .. i - 1 : s[k] \in SealEntries
    BY <1>1
  <2> QED
    BY <2>1, SubSeqProperties, Zenon
<1>3. SubSeq(s, i + 1, Len(s)) \in Seq(SealEntries)
  <2>1. i + 1 \in Int /\ Len(s) \in Int /\ \A k \in i + 1 .. Len(s) : s[k] \in SealEntries
    BY <1>1
  <2> QED
    BY <2>1, SubSeqProperties, Zenon
<1> QED
  BY <1>2, <1>3, ConcatProperties, Zenon DEF Seal!RemoveAt

\* Every way to change an artifact leaves one, on which the producer signed what he signed.
LEMMA TamperedFile ==
  ASSUME GenuineInv, CarriedInv, Seal!Tamper
  PROVE  /\ IsSealFile(artifact')
         /\ artifact'.sig.by = Seal!Producer => artifact'.sig.over = genuine
<1> DEFINE a == artifact
           good == IsSealFile(artifact') /\ (artifact'.sig.by = Seal!Producer => artifact'.sig.over = genuine)
<1>1. IsSealFile(a) /\ (a.sig.by = Seal!Producer => a.sig.over = genuine)
  BY DEF CarriedInv
<1>2. ASSUME NEW f, artifact' = [artifact EXCEPT !.form = f] PROVE good
  BY <1>1, <1>2 DEF IsSealFile
<1>3. ASSUME NEW k \in {"seal", "other"}, artifact' = [artifact EXCEPT !.kind = k] PROVE good
  BY <1>1, <1>3 DEF IsSealFile
<1>4. ASSUME NEW b, artifact' = [artifact EXCEPT !.block = b] PROVE good
  BY <1>1, <1>4 DEF IsSealFile
<1>5. ASSUME artifact' = [artifact EXCEPT !.seal.kind = "other"] PROVE good
  BY <1>1, <1>5 DEF IsSealFile
<1>6. ASSUME NEW s, artifact' = [artifact EXCEPT !.seal.shape = s] PROVE good
  BY <1>1, <1>6 DEF IsSealFile
<1>7. ASSUME artifact' = [artifact EXCEPT !.claimed = Seal!Forger] PROVE good
  BY <1>1, <1>7 DEF IsSealFile
<1>8. ASSUME artifact' = [artifact EXCEPT !.sig.onCurve = FALSE] PROVE good
  BY <1>1, <1>8 DEF IsSealFile
<1>9. ASSUME NEW t \in Seq(SealEntries), artifact' = [artifact EXCEPT !.seal.files = t] PROVE good
  BY <1>1, <1>9 DEF IsSealFile
<1>10. a.seal.files \in Seq(SealEntries)
  BY <1>1 DEF IsSealFile
<1>11. ASSUME NEW i \in DOMAIN a.seal.files, NEW c \in SealContent,
              artifact' = [artifact EXCEPT !.seal.files[i].hash = c]
       PROVE  good
  <2> DEFINE t == [a.seal.files EXCEPT ![i].hash = c]
  <2>1. t \in Seq(SealEntries)
    <3> DEFINE e == a.seal.files[i]
    <3>1. e \in SealEntries
      BY <1>10
    <3> HIDE DEF e
    <3>2. [e EXCEPT !.hash = c] \in SealEntries
      BY <3>1 DEF SealEntries
    <3> QED
      BY <1>10, <3>2 DEF e
  <2>2. artifact' = [artifact EXCEPT !.seal.files = t]
    BY <1>1, <1>11 DEF IsSealFile
  <2> QED
    BY <1>9, <2>1, <2>2
<1>12. ASSUME NEW i \in DOMAIN a.seal.files, NEW r \in SealRelPaths,
              artifact' = [artifact EXCEPT !.seal.files[i].rel = r]
       PROVE  good
  <2> DEFINE t == [a.seal.files EXCEPT ![i].rel = r]
  <2>1. t \in Seq(SealEntries)
    <3> DEFINE e == a.seal.files[i]
    <3>1. e \in SealEntries
      BY <1>10
    <3> HIDE DEF e
    <3>2. [e EXCEPT !.rel = r] \in SealEntries
      BY <3>1 DEF SealEntries, SealRels
    <3> QED
      BY <1>10, <3>2 DEF e
  <2>2. artifact' = [artifact EXCEPT !.seal.files = t]
    BY <1>1, <1>12 DEF IsSealFile
  <2> QED
    BY <1>9, <2>1, <2>2
<1>13. ASSUME NEW i \in DOMAIN a.seal.files,
              artifact' = [artifact EXCEPT !.seal.files = Seal!RemoveAt(@, i)]
       PROVE  good
  <2>1. Seal!RemoveAt(a.seal.files, i) \in Seq(SealEntries)
    BY <1>10, RemovedEntry
  <2>2. artifact' = [artifact EXCEPT !.seal.files = Seal!RemoveAt(a.seal.files, i)]
    BY <1>13
  <2> QED
    BY <1>9, <2>1, <2>2
<1>14. ASSUME NEW i \in DOMAIN a.seal.files,
              artifact' = [artifact EXCEPT !.seal.files = Append(@, @[i])]
       PROVE  good
  <2>1. Append(a.seal.files, a.seal.files[i]) \in Seq(SealEntries)
    BY <1>10
  <2>2. artifact' = [artifact EXCEPT !.seal.files = Append(a.seal.files, a.seal.files[i])]
    BY <1>14
  <2> QED
    BY <1>9, <2>1, <2>2
<1>15. ASSUME artifact' = Seal!SealedBy(Seal!Forger, a.kind, Seal!EntriesOf(SealInside)) PROVE good
  <2> DEFINE S == {p \in SealInside : Seal!HoldsFile(p)}
  <2>1. Seal!EntriesOf(SealInside) = FilesIn(S, fs)
    BY Zenon DEF Seal!EntriesOf, FilesIn
  <2>2. IsFiniteSet(S) /\ S \subseteq SealPlaces /\ fs \in [SealPlaces -> Things]
    BY SealConstants, FS_Subset DEF SealPlaces, GenuineInv
  <2>3. \A p \in S : fs[p][1] = "file"
    BY DEF Seal!HoldsFile
  <2> HIDE DEF S
  <2>4. FilesIn(S, fs) \in Seq(SealEntries)
    BY <2>2, <2>3, FilesOf
  <2>5. a.kind \in {"seal", "signed", "other"}
    BY <1>1 DEF IsSealFile
  <2>6. IsSealFile(artifact') /\ artifact'.sig.by = Seal!Forger
    BY <1>15, <2>1, <2>4, <2>5, SealedFile
  <2> QED
    BY <2>6 DEF Seal!Forger, Seal!Producer
<1> HIDE DEF good
<1> QED
  <2>1. \/ \E f \in {"unreadable", "text", "array"} : artifact' = [artifact EXCEPT !.form = f]
        \/ \E k \in {"seal", "other"} : artifact' = [artifact EXCEPT !.kind = k]
        \/ \E b \in {"missing", "scheme", "text", "signature", "signer", "json"} :
              artifact' = [artifact EXCEPT !.block = b]
        \/ artifact' = [artifact EXCEPT !.seal.kind = "other"]
        \/ \E s \in {"files", "root", "entry"} : artifact' = [artifact EXCEPT !.seal.shape = s]
        \/ artifact' = [artifact EXCEPT !.claimed = Seal!Forger]
        \/ artifact' = [artifact EXCEPT !.sig.onCurve = FALSE]
        \/ \E i \in DOMAIN a.seal.files, c \in SealContent :
              artifact' = [artifact EXCEPT !.seal.files[i].hash = c]
        \/ \E i \in DOMAIN a.seal.files, r \in SealRelPaths :
              artifact' = [artifact EXCEPT !.seal.files[i].rel = r]
        \/ \E i \in DOMAIN a.seal.files :
              artifact' = [artifact EXCEPT !.seal.files = Seal!RemoveAt(@, i)]
        \/ \E i \in DOMAIN a.seal.files :
              artifact' = [artifact EXCEPT !.seal.files = Append(@, @[i])]
        \/ artifact' = Seal!SealedBy(Seal!Forger, a.kind, Seal!EntriesOf(SealInside))
    BY Zenon DEF Seal!Tamper
  <2>2. good
    BY <2>1, <1>2, <1>3, <1>4, <1>5, <1>6, <1>7, <1>8, <1>11, <1>12, <1>13, <1>14, <1>15, Zenon
  <2> QED
    BY <2>2 DEF good

\* Changing the artifact on its way, before a verifier starts, keeps the invariant.
LEMMA SealTamperKeeps ==
  ASSUME SealInv, Seal!Tamper
  PROVE  SealInv'
<1>1. /\ UNCHANGED <<fs, scannable, genuine, place, run, out, edits>> /\ run.pc = "idle"
      /\ tampered' = tampered + 1 /\ artifact'.seal.files # <<>>
  BY DEF Seal!Tamper
<1>2. /\ IsSealFile(artifact')
      /\ artifact'.sig.by = Seal!Producer => artifact'.sig.over = genuine
  BY TamperedFile DEF SealInv
<1>3. CarriedInv'
  <2>1. tampered' \in Nat /\ tampered' # 0
    BY <1>1 DEF SealInv, CarriedInv
  <2> HIDE DEF IsSealFile
  <2> QED
    BY <1>1, <1>2, <2>1 DEF CarriedInv, IsSealFile
<1>4. GenuineInv'
  BY <1>1, GenuineKept DEF SealInv
<1>5. RunInv'
  BY <1>1, IdleRun DEF SealInv, RunInv, Seal!Idle, Seal!NoResult
<1> QED
  BY <1>3, <1>4, <1>5 DEF SealInv

\* Editing the directory, at any time, keeps what is said of runs nobody edited during.
LEMMA SealEditKeeps ==
  ASSUME SealInv, Seal!Edit
  PROVE  SealInv'
<1>1. UNCHANGED <<genuine, artifact, place, run, out, tampered>> /\ run.pc # "done" /\ edits' = edits + 1
  BY DEF Seal!Edit
<1>2. GenuineInv /\ CarriedInv /\ RunInv /\ edits \in Nat /\ edits' \in Nat /\ edits' # 0
  BY <1>1 DEF SealInv, GenuineInv
<1>3. fs' \in [SealPlaces -> Things]
  <2>1. fs \in [SealPlaces -> Things]
    BY <1>2 DEF GenuineInv
  <2>2. \/ \E p \in SealInside, c \in SealContent : fs' = [fs EXCEPT ![p] = Seal!File(c)]
        \/ \E p \in SealInside : fs' = [fs EXCEPT ![p] = Seal!Absent]
        \/ \E p \in SealLinkable, t \in SealLinkTo : fs' = [fs EXCEPT ![p] = Seal!Link(t)]
        \/ fs' = fs
    BY Zenon DEF Seal!Edit
  <2>3. \A p, x : x \in Things => [fs EXCEPT ![p] = x] \in [SealPlaces -> Things]
    BY <2>1
  <2>4. Seal!Absent \in Things /\ (\A c \in SealContent : Seal!File(c) \in Things)
        /\ (\A t \in SealLinkTo : Seal!Link(t) \in Things)
    BY DEF Things
  <2> QED
    BY <2>1, <2>2, <2>3, <2>4, Zenon
<1>4. GenuineInv'
  BY <1>1, <1>2, <1>3 DEF GenuineInv
<1>5. CarriedInv'
  BY <1>1, CarriedKept DEF SealInv
<1>6. RunInv'
  <2>1. CASE run = Seal!Idle /\ out.result = Seal!NoResult
    BY <1>1, <2>1 DEF RunInv, Seal!Idle, Seal!NoResult
  <2>2. CASE run.pc \in {"read", "resolve", "scan"} /\ Walk /\ out.result = Seal!NoResult
    <3>1. run.since.edits \in Nat /\ run.since.edits <= edits /\ (run.since.edits = edits => fs = run.since.fs)
      BY <2>2 DEF Walk, RunTyped, Seal!Quiet
    <3>2. ~ Seal!Quiet'
      BY <1>1, <1>2, <3>1 DEF Seal!Quiet
    <3>3. RunTyped'
      <4>1. run.since.edits <= edits'
        BY <1>1, <1>2, <3>1
      <4> QED
        BY <1>1, <2>2, <3>2, <4>1 DEF Walk, RunTyped, IsGot, SealFiles
    <3>4. Resolving'
      BY <1>1, <2>2, <3>2 DEF Walk, Resolving, SealFiles, Seal!Entry
    <3>5. Classes'
      <4>1. Classes /\ run' = run /\ SealFiles' = SealFiles
        BY <1>1, <2>2 DEF Walk, SealFiles
      <4>2. Seal!Named(run.got)' = Seal!Named(run.got)
        BY <1>1 DEF Seal!Named, Seal!Texts
      <4> HIDE DEF Seal!Quiet
      <4> QED
        BY <3>2, <4>1, <4>2 DEF Classes
    <3>6. Listing'
      <4>1. edits' <= run.since.edits + 1 => edits <= run.since.edits + 1 /\ fs = run.since.fs
        BY <1>1, <1>2, <3>1
      <4>2. Seal!Reason(run.got, run.opts)' = Seal!Reason(run.got, run.opts)
        BY <1>1, ReasonKept
      <4> QED
        BY <1>1, <2>2, <3>2, <4>1, <4>2 DEF Walk, Listing, Pending, SealFiles
    <3> QED
      BY <1>1, <2>2, <3>3, <3>4, <3>5, <3>6 DEF RunInv, Walk, Seal!NoResult
  <2> QED
    BY <1>1, <1>2, <2>1, <2>2 DEF RunInv
<1> QED
  BY <1>4, <1>5, <1>6 DEF SealInv

-----------------------------------------------------------------------------
\* What is opened at a place is a file, if anything is there.
LEMMA OpenedFile ==
  ASSUME GenuineInv, NEW at \in SealPlaces, Seal!Opened(at) # Seal!Absent
  PROVE  Seal!Opened(at)[2] \in SealContent /\ Seal!Opened(at) = Seal!File(Seal!Opened(at)[2])
<1>1. ASSUME NEW p \in SealPlaces, fs[p][1] = "file"
      PROVE  fs[p][2] \in SealContent /\ fs[p] = Seal!File(fs[p][2])
  <2>1. fs[p] \in Things
    BY DEF GenuineInv
  <2> QED
    BY <1>1, <2>1 DEF Things, Seal!Absent, Seal!File, Seal!Link
<1>2. CASE fs[at][1] = "file"
  BY <1>1, <1>2 DEF Seal!Opened, Seal!HoldsFile
<1>3. CASE fs[at][1] # "file"
  <2>1. fs[at][1] = "link" /\ fs[fs[at][2]][1] = "file" /\ Seal!Opened(at) = fs[fs[at][2]]
    BY <1>3, Zenon DEF Seal!Opened, Seal!HoldsFile
  <2>2. fs[at] \in Things
    BY DEF GenuineInv
  <2>3. fs[at][2] \in SealPlaces
    BY <2>1, <2>2, SealConstants DEF Things, Seal!Absent, Seal!File, Seal!Link
  <2> QED
    BY <1>1, <2>1, <2>3
<1> QED
  BY <1>2, <1>3

\* Putting an entry into its class.
LEMMA GotKept ==
  ASSUME NEW g, IsGot(g), NEW rel \in SealRels
  PROVE  /\ \A e \in SealEntries :
              /\ IsGot([g EXCEPT !.flat = Append(@, e), !.matched = Append(@, rel)])
              /\ IsGot([g EXCEPT !.flat = Append(@, e), !.changed = Append(@, rel)])
         /\ IsGot([g EXCEPT !.missing = Append(@, rel)])
         /\ IsGot([g EXCEPT !.escaped = Append(@, rel)])
<1>1. /\ \A s \in Seq(SealRels) : Append(s, rel) \in Seq(SealRels)
      /\ \A s \in Seq(SealEntries), e \in SealEntries : Append(s, e) \in Seq(SealEntries)
  OBVIOUS
<1>2. /\ g.matched \in Seq(SealRels) /\ g.changed \in Seq(SealRels) /\ g.missing \in Seq(SealRels)
      /\ g.escaped \in Seq(SealRels) /\ g.flat \in Seq(SealEntries)
  BY DEF IsGot
<1>3. ASSUME NEW s \in Seq(SealRels), NEW w \in Seq(SealEntries)
      PROVE  /\ IsGot([g EXCEPT !.flat = w, !.matched = s])
             /\ IsGot([g EXCEPT !.flat = w, !.changed = s])
             /\ IsGot([g EXCEPT !.missing = s]) /\ IsGot([g EXCEPT !.escaped = s])
  BY DEF IsGot
<1> QED
  BY <1>1, <1>2, <1>3

\* A path appended to a class is in it, and those that were there still are.
LEMMA AppendedRel ==
  ASSUME NEW s \in Seq(SealRels), NEW rel \in SealRels
  PROVE  /\ Append(s, rel) # <<>>
         /\ Seal!Texts(s) \subseteq Seal!Texts(Append(s, rel))
         /\ rel.text \in Seal!Texts(Append(s, rel))
<1>1. /\ DOMAIN s = 1 .. Len(s) /\ DOMAIN Append(s, rel) = 1 .. Len(s) + 1 /\ Len(s) \in Nat
      /\ \A i \in 1 .. Len(s) : Append(s, rel)[i] = s[i]
      /\ Append(s, rel)[Len(s) + 1] = rel
  OBVIOUS
<1>2. Seal!Texts(s) \subseteq Seal!Texts(Append(s, rel))
  BY <1>1 DEF Seal!Texts
<1>3. rel.text \in Seal!Texts(Append(s, rel))
  <2>1. Len(s) + 1 \in DOMAIN Append(s, rel)
    BY <1>1
  <2> QED
    BY <1>1, <2>1, Zenon DEF Seal!Texts
<1>4. Append(s, rel) # <<>>
  <2>1. Len(Append(s, rel)) = Len(s) + 1 /\ Len(<<>>) = 0
    OBVIOUS
  <2> QED
    BY <1>1, <2>1
<1> QED
  BY <1>2, <1>3, <1>4

\* An entry is put into the class it is in: its name and its class are kept.
Classifies(g, h, status, hash, entry) ==
  /\ IsGot(h)
  /\ Seal!Named(g) \subseteq Seal!Named(h) /\ entry.rel.text \in Seal!Named(h)
  /\ \/ /\ status = "escaped" /\ h.escaped # <<>>
        /\ h.changed = g.changed /\ h.missing = g.missing
     \/ /\ status = "missing" /\ h.missing # <<>>
        /\ h.changed = g.changed /\ h.escaped = g.escaped
     \/ /\ status = "ok" /\ hash # entry.hash /\ h.changed # <<>>
        /\ h.missing = g.missing /\ h.escaped = g.escaped
     \/ /\ status = "ok" /\ hash = entry.hash /\ h.flat = Append(g.flat, entry)
        /\ h.changed = g.changed /\ h.missing = g.missing /\ h.escaped = g.escaped

\* Every class is one of the four of verify_parsed_artifact, and each entry goes into one.
LEMMA ClassifiedSays ==
  ASSUME NEW g, IsGot(g), Seal!Entry \in SealEntries, NEW status \in {"escaped", "missing", "ok"},
         NEW hash, status = "ok" => hash \in SealContent
  PROVE  Classifies(g, Seal!Classified(g, status, hash), status, hash, Seal!Entry)
<1> DEFINE entry == Seal!Entry
           rel == entry.rel
           named == [rel |-> rel, hash |-> hash]
           h == Seal!Classified(g, status, hash)
<1>1. /\ entry \in SealEntries /\ rel \in SealRels /\ (status = "ok" => named \in SealEntries)
      /\ (status = "ok" /\ hash = entry.hash => named = entry)
  BY DEF SealEntries
<1>2. /\ g = [matched |-> g.matched, changed |-> g.changed, missing |-> g.missing,
              escaped |-> g.escaped, flat |-> g.flat]
      /\ g.matched \in Seq(SealRels) /\ g.changed \in Seq(SealRels) /\ g.missing \in Seq(SealRels)
      /\ g.escaped \in Seq(SealRels)
  <2>1. \A x : IsGot(x) => x = [matched |-> x.matched, changed |-> x.changed, missing |-> x.missing,
                                 escaped |-> x.escaped, flat |-> x.flat]
    BY DEF IsGot
  <2> QED
    BY <2>1 DEF IsGot
<1>3. h = IF status = "escaped" THEN [g EXCEPT !.escaped = Append(@, rel)]
          ELSE IF status = "missing" THEN [g EXCEPT !.missing = Append(@, rel)]
          ELSE IF hash = entry.hash THEN [g EXCEPT !.flat = Append(@, named), !.matched = Append(@, rel)]
          ELSE [g EXCEPT !.flat = Append(@, named), !.changed = Append(@, rel)]
  BY Zenon DEF Seal!Classified
<1>8. rel = entry.rel
  OBVIOUS
<1> HIDE DEF entry, rel, named, h
<1>9. \A s \in Seq(SealRels) :
        /\ Append(s, rel) # <<>> /\ Seal!Texts(s) \subseteq Seal!Texts(Append(s, rel))
        /\ rel.text \in Seal!Texts(Append(s, rel))
  BY <1>1, AppendedRel
<1>4. ASSUME status = "escaped" PROVE Classifies(g, h, status, hash, entry)
  <2>1. h = [g EXCEPT !.escaped = Append(@, rel)]
    BY <1>3, <1>4
  <2>2. /\ h.escaped = Append(g.escaped, rel) /\ h.changed = g.changed /\ h.missing = g.missing
        /\ h.matched = g.matched
    BY <1>2, <2>1
  <2>3. IsGot(h)
    BY <1>1, <2>1, GotKept, Zenon
  <2>4. Seal!Texts(g.escaped) \subseteq Seal!Texts(h.escaped) /\ rel.text \in Seal!Texts(h.escaped)
    BY <1>2, <1>9, <2>2
  <2>5. Seal!Named(g) \subseteq Seal!Named(h) /\ entry.rel.text \in Seal!Named(h)
    BY <1>8, <2>2, <2>4 DEF Seal!Named
  <2>6. h.escaped # <<>>
    BY <1>2, <1>9, <2>2
  <2> QED
    BY <1>4, <2>2, <2>3, <2>5, <2>6 DEF Classifies
<1>5. ASSUME status = "missing" PROVE Classifies(g, h, status, hash, entry)
  <2>1. h = [g EXCEPT !.missing = Append(@, rel)]
    BY <1>3, <1>5
  <2>2. /\ h.missing = Append(g.missing, rel) /\ h.changed = g.changed /\ h.escaped = g.escaped
        /\ h.matched = g.matched
    BY <1>2, <2>1
  <2>3. IsGot(h)
    BY <1>1, <2>1, GotKept, Zenon
  <2>4. Seal!Texts(g.missing) \subseteq Seal!Texts(h.missing) /\ rel.text \in Seal!Texts(h.missing)
    BY <1>2, <1>9, <2>2
  <2>5. Seal!Named(g) \subseteq Seal!Named(h) /\ entry.rel.text \in Seal!Named(h)
    BY <1>8, <2>2, <2>4 DEF Seal!Named
  <2>6. h.missing # <<>>
    BY <1>2, <1>9, <2>2
  <2> QED
    BY <1>5, <2>2, <2>3, <2>5, <2>6 DEF Classifies
<1>6. ASSUME status = "ok" /\ hash = entry.hash PROVE Classifies(g, h, status, hash, entry)
  <2>1. h = [g EXCEPT !.flat = Append(@, entry), !.matched = Append(@, rel)]
    BY <1>1, <1>3, <1>6
  <2>2. /\ h.flat = Append(g.flat, entry) /\ h.matched = Append(g.matched, rel)
        /\ h.changed = g.changed /\ h.missing = g.missing /\ h.escaped = g.escaped
    BY <1>2, <2>1
  <2>3. IsGot(h)
    BY <1>1, <2>1, GotKept, Zenon
  <2>4. Seal!Texts(g.matched) \subseteq Seal!Texts(h.matched) /\ rel.text \in Seal!Texts(h.matched)
    BY <1>2, <1>9, <2>2
  <2>5. Seal!Named(g) \subseteq Seal!Named(h) /\ entry.rel.text \in Seal!Named(h)
    BY <1>8, <2>2, <2>4 DEF Seal!Named
  <2> QED
    BY <1>6, <2>2, <2>3, <2>5 DEF Classifies
<1>7. ASSUME status = "ok" /\ hash # entry.hash PROVE Classifies(g, h, status, hash, entry)
  <2>1. h = [g EXCEPT !.flat = Append(@, named), !.changed = Append(@, rel)]
    BY <1>3, <1>7
  <2>2. /\ h.changed = Append(g.changed, rel) /\ h.matched = g.matched
        /\ h.missing = g.missing /\ h.escaped = g.escaped
    BY <1>2, <2>1
  <2>3. IsGot(h)
    BY <1>1, <1>7, <2>1, GotKept, Zenon
  <2>4. Seal!Texts(g.changed) \subseteq Seal!Texts(h.changed) /\ rel.text \in Seal!Texts(h.changed)
    BY <1>2, <1>9, <2>2
  <2>5. Seal!Named(g) \subseteq Seal!Named(h) /\ entry.rel.text \in Seal!Named(h)
    BY <1>8, <2>2, <2>4 DEF Seal!Named
  <2>6. h.changed # <<>>
    BY <1>2, <1>9, <2>2
  <2> QED
    BY <1>7, <2>2, <2>3, <2>5, <2>6 DEF Classifies
<1>10. Classifies(g, h, status, hash, entry)
  BY <1>4, <1>5, <1>6, <1>7
<1> QED
  BY <1>10 DEF h, entry

-----------------------------------------------------------------------------
\* The entry a verifier is at.
LEMMA EntryTyped ==
  ASSUME SealInv, Walk, run.i <= Len(SealFiles)
  PROVE  /\ run.i \in Nat \ {0} /\ run.i \in DOMAIN SealFiles /\ Len(SealFiles) \in Nat
         /\ Seal!Entry = SealFiles[run.i] /\ Seal!Entry \in SealEntries
         /\ Seal!Entry.rel.at \in SealPlaces
<1>1. SealFiles \in Seq(SealEntries)
  BY DEF SealInv, CarriedInv, IsSealFile, SealFiles
<1>2. run.i \in 1 .. Len(SealFiles) + 1 /\ Len(SealFiles) \in Nat
  BY <1>1 DEF Walk, RunTyped
<1>3. run.i \in 1 .. Len(SealFiles) /\ DOMAIN SealFiles = 1 .. Len(SealFiles)
  BY <1>1, <1>2
<1>4. Seal!Entry = SealFiles[run.i] /\ Seal!Entry \in SealEntries
  BY <1>1, <1>3 DEF Seal!Entry, SealFiles
<1>5. Seal!Entry.rel \in SealRels
  BY <1>4 DEF SealEntries
<1> QED
  BY <1>2, <1>3, <1>4, <1>5, PlainIsRel

\* The fields of the run after its entry has been put into a class.
LEMMA NextEntryFields ==
  ASSUME RunTyped, NEW status, NEW hash, Seal!NextEntry(status, hash)
  PROVE  /\ run'.pc = "read" /\ run'.i = run.i + 1 /\ run'.got = Seal!Classified(run.got, status, hash)
         /\ run'.opts = run.opts /\ run'.base = run.base /\ run'.todo = run.todo
         /\ run'.seen = run.seen /\ run'.since = run.since
         /\ run' = [pc |-> run'.pc, opts |-> run'.opts, base |-> run'.base, i |-> run'.i,
                    got |-> run'.got, data |-> run'.data, reason |-> run'.reason, todo |-> run'.todo,
                    seen |-> run'.seen, since |-> run'.since]
<1> DEFINE h == Seal!Classified(run.got, status, hash)
<1>1. run' = [run EXCEPT !.pc = "read", !.i = @ + 1, !.got = h, !.data = Seal!Null]
  BY DEF Seal!NextEntry
<1> HIDE DEF h
<1>2. run = [pc |-> run.pc, opts |-> run.opts, base |-> run.base, i |-> run.i, got |-> run.got,
             data |-> run.data, reason |-> run.reason, todo |-> run.todo, seen |-> run.seen,
             since |-> run.since]
  BY DEF RunTyped
<1>3. run' = [pc |-> "read", opts |-> run.opts, base |-> run.base, i |-> run.i + 1, got |-> h,
              data |-> Seal!Null, reason |-> run.reason, todo |-> run.todo, seen |-> run.seen,
              since |-> run.since]
  BY <1>1, <1>2
<1> QED
  BY <1>3 DEF h

\* An entry whose class is true keeps the classes true.
LEMMA EntryHandled ==
  ASSUME SealInv, Walk, run.pc \in {"read", "resolve"}, run.i <= Len(SealFiles),
         UNCHANGED <<fs, scannable, genuine, artifact, place, out, tampered, edits>>,
         NEW status \in {"escaped", "missing", "ok"}, NEW hash, Seal!NextEntry(status, hash),
         status = "ok" => hash \in SealContent /\ run.base = "D",
         Seal!Quiet =>
           /\ status = "escaped" => place.path = "linked" \/ ~ Seal!Sound(Seal!Entry.rel)
           /\ status = "missing" => run.base # "D" \/ Seal!Opened(Seal!Entry.rel.at) = Seal!Absent
           /\ status = "ok" => Seal!Opened(Seal!Entry.rel.at) = Seal!File(hash)
                               /\ Seal!Sound(Seal!Entry.rel)
  PROVE  SealInv'
<1> DEFINE i == run.i
           entry == Seal!Entry
           h == Seal!Classified(run.got, status, hash)
           calm == Seal!Quiet
<1>1. /\ i \in Nat \ {0} /\ i \in DOMAIN SealFiles /\ Len(SealFiles) \in Nat /\ i <= Len(SealFiles)
      /\ entry = SealFiles[i] /\ entry \in SealEntries
  BY EntryTyped
<1>2. /\ run'.pc = "read" /\ run'.i = i + 1 /\ run'.got = h
      /\ run'.opts = run.opts /\ run'.base = run.base /\ run'.todo = run.todo
      /\ run'.seen = run.seen /\ run'.since = run.since
      /\ run' = [pc |-> run'.pc, opts |-> run'.opts, base |-> run'.base, i |-> run'.i,
                 got |-> run'.got, data |-> run'.data, reason |-> run'.reason, todo |-> run'.todo,
                 seen |-> run'.seen, since |-> run'.since]
  BY NextEntryFields DEF Walk
<1>3. Classifies(run.got, h, status, hash, entry)
  BY <1>1, ClassifiedSays DEF Walk, RunTyped
<1>4. SealFiles' = SealFiles /\ Seal!Quiet' = calm
  BY <1>2 DEF SealFiles, Seal!Quiet
<1>5. RunTyped'
  <2>1. i + 1 \in 1 .. Len(SealFiles) + 1 /\ IsGot(h)
    BY <1>1, <1>3 DEF Classifies
  <2>2. IsGot(run.got)'
    BY <1>2, <2>1 DEF IsGot
  <2> HIDE DEF h
  <2> QED
    BY <1>2, <1>4, <2>1, <2>2 DEF Walk, RunTyped
<1>6. Resolving' /\ Listing'
  BY <1>2, <1>4 DEF Resolving, Walk, Listing
<1>7. UNCHANGED <<fs, artifact, place, edits>> /\ run'.base = run.base /\ run'.since = run.since
  BY <1>2
<1>8. /\ \A rel : Seal!Sound(rel)' = Seal!Sound(rel)
      /\ \A at : Seal!Opened(at)' = Seal!Opened(at)
      /\ \A e : Seal!Reads(e)' = Seal!Reads(e)
  BY <1>7 DEF Seal!Sound, Seal!Escapes, Seal!RealPath, Seal!Opened, Seal!HoldsFile, Seal!Reads
<1> DEFINE Escaped == place.path = "linked" \/ \E k \in DOMAIN SealFiles : ~ Seal!Sound(SealFiles[k].rel)
           Changed == \E k \in DOMAIN SealFiles :
             Seal!Opened(SealFiles[k].rel.at) \notin {Seal!Absent, Seal!File(SealFiles[k].hash)}
           Missing == run.base # "D"
                      \/ \E k \in DOMAIN SealFiles : Seal!Opened(SealFiles[k].rel.at) = Seal!Absent
           Matched(g, n) == /\ Len(g.flat) = n
                            /\ \A k \in 1 .. n : /\ g.flat[k] = SealFiles[k]
                                                 /\ calm => Seal!Reads(SealFiles[k])
<1>9. /\ calm /\ run.got.escaped # <<>> => Escaped
      /\ calm /\ run.got.changed # <<>> => Changed
      /\ calm /\ run.got.missing # <<>> => Missing
      /\ run.got.escaped = <<>> /\ run.got.changed = <<>> /\ run.got.missing = <<>> =>
           Matched(run.got, i - 1)
      /\ \A k \in 1 .. i - 1 : SealFiles[k].rel.text \in Seal!Named(run.got)
  BY DEF Walk, Classes
<1> HIDE DEF h, i, entry, calm
<1>10. calm /\ h.escaped # <<>> => Escaped
  BY <1>1, <1>3, <1>9 DEF Classifies, entry, calm
<1>11. calm /\ h.missing # <<>> => Missing
  BY <1>1, <1>3, <1>9 DEF Classifies, entry, calm
<1>12. calm /\ h.changed # <<>> => Changed
  <2> SUFFICES ASSUME calm, status = "ok", hash # entry.hash PROVE Changed
    BY <1>3, <1>9 DEF Classifies
  <2>1. Seal!Opened(entry.rel.at) = Seal!File(hash)
    BY DEF entry, calm
  <2>2. Seal!File(hash) \notin {Seal!Absent, Seal!File(entry.hash)}
    BY DEF Seal!File, Seal!Absent
  <2> QED
    BY <1>1, <2>1, <2>2
<1>13. h.escaped = <<>> /\ h.changed = <<>> /\ h.missing = <<>> => Matched(h, i)
  <2> SUFFICES ASSUME h.escaped = <<>>, h.changed = <<>>, h.missing = <<>> PROVE Matched(h, i)
    OBVIOUS
  <2>1. /\ status = "ok" /\ hash = entry.hash /\ h.flat = Append(run.got.flat, entry)
        /\ run.got.escaped = <<>> /\ run.got.changed = <<>> /\ run.got.missing = <<>>
    BY <1>3 DEF Classifies
  <2>2. Matched(run.got, i - 1)
    BY <1>9, <2>1
  <2>3. run.got.flat \in Seq(SealEntries)
    BY DEF Walk, RunTyped, IsGot
  <2>4. /\ Len(h.flat) = i /\ h.flat[i] = entry
        /\ \A k \in 1 .. i - 1 : h.flat[k] = run.got.flat[k]
    BY <1>1, <2>1, <2>2, <2>3
  <2>5. calm => Seal!Reads(entry)
    BY <2>1 DEF Seal!Reads, entry, calm
  <2> HIDE DEF Seal!Reads
  <2>6. \A k \in 1 .. i : k = i \/ k \in 1 .. i - 1
    BY <1>1
  <2> QED
    BY <1>1, <2>2, <2>4, <2>5, <2>6
<1>14. \A k \in 1 .. i : SealFiles[k].rel.text \in Seal!Named(h)
  <2>1. \A k \in 1 .. i : k = i \/ k \in 1 .. i - 1
    BY <1>1
  <2> QED
    BY <1>1, <1>3, <1>9, <2>1 DEF Classifies
<1>15. Seal!Named(run.got)' = Seal!Named(h)
  BY <1>2 DEF Seal!Named, Seal!Texts
<1>16. Classes'
  <2>1. run'.i - 1 = i
    BY <1>1, <1>2
  <2>2. (Seal!Quiet /\ run.got.escaped # <<>> =>
           place.path = "linked" \/ \E k \in DOMAIN SealFiles : ~ Seal!Sound(SealFiles[k].rel))'
    BY <1>2, <1>4, <1>7, <1>8, <1>10
  <2>3. (Seal!Quiet /\ run.got.changed # <<>> =>
           \E k \in DOMAIN SealFiles :
             Seal!Opened(SealFiles[k].rel.at) \notin {Seal!Absent, Seal!File(SealFiles[k].hash)})'
    BY <1>2, <1>4, <1>7, <1>8, <1>12 DEF Seal!File, Seal!Absent
  <2>4. (Seal!Quiet /\ run.got.missing # <<>> =>
           run.base # "D" \/ \E k \in DOMAIN SealFiles : Seal!Opened(SealFiles[k].rel.at) = Seal!Absent)'
    BY <1>2, <1>4, <1>7, <1>8, <1>11 DEF Seal!Absent
  <2>5. (run.got.escaped = <<>> /\ run.got.changed = <<>> /\ run.got.missing = <<>> =>
           /\ Len(run.got.flat) = run.i - 1
           /\ \A k \in 1 .. run.i - 1 : /\ run.got.flat[k] = SealFiles[k]
                                        /\ Seal!Quiet => Seal!Reads(SealFiles[k]))'
    BY <1>2, <1>4, <1>8, <1>13, <2>1
  <2>6. (\A k \in 1 .. run.i - 1 : SealFiles[k].rel.text \in Seal!Named(run.got))'
    BY <1>4, <1>14, <1>15, <2>1
  <2> QED
    BY <2>2, <2>3, <2>4, <2>5, <2>6 DEF Classes
<1>17. out.result = Seal!NoResult
  BY BusyRun DEF SealInv
<1>18. RunInv'
  BY <1>2, <1>5, <1>6, <1>16, <1>17 DEF RunInv, Walk, Seal!NoResult
<1> QED
  BY <1>18, GenuineKept, CarriedKept DEF SealInv

-----------------------------------------------------------------------------
\* Reading an entry: it escapes, is missing, or its bytes are there (_read_entry).
LEMMA ReadEntryKeeps ==
  ASSUME SealInv, Seal!ReadEntry
  PROVE  SealInv'
<1> DEFINE at == Seal!Entry.rel.at
           read == IF run.base = "D" THEN Seal!Opened(at) ELSE Seal!Absent
<1>1. /\ run.pc = "read" /\ run.i <= Len(SealFiles)
      /\ UNCHANGED <<fs, scannable, genuine, artifact, place, out, tampered, edits>>
  BY DEF Seal!ReadEntry, SealFiles
<1>2. Walk /\ GenuineInv /\ out.result = Seal!NoResult
  BY <1>1, BusyRun DEF SealInv
<1>3. \/ /\ Seal!Entry.rel.refused \/ (run.base = "D" /\ place.path = "linked")
         /\ Seal!NextEntry("escaped", Seal!Null)
      \/ read = Seal!Absent /\ Seal!NextEntry("missing", Seal!Null)
      \/ /\ ~ (Seal!Entry.rel.refused \/ (run.base = "D" /\ place.path = "linked"))
         /\ read # Seal!Absent /\ run' = [run EXCEPT !.pc = "resolve", !.data = read[2]]
  BY Zenon DEF Seal!ReadEntry
<1>4. CASE /\ Seal!Entry.rel.refused \/ (run.base = "D" /\ place.path = "linked")
           /\ Seal!NextEntry("escaped", Seal!Null)
  <2>1. place.path = "linked" \/ ~ Seal!Sound(Seal!Entry.rel)
    BY <1>4 DEF Seal!Sound
  <2> QED
    BY <1>1, <1>2, <1>4, <2>1, EntryHandled
<1>5. CASE read = Seal!Absent /\ Seal!NextEntry("missing", Seal!Null)
  <2>1. run.base # "D" \/ Seal!Opened(Seal!Entry.rel.at) = Seal!Absent
    BY <1>5
  <2> QED
    BY <1>1, <1>2, <1>5, <2>1, EntryHandled
<1>6. CASE /\ ~ (Seal!Entry.rel.refused \/ (run.base = "D" /\ place.path = "linked"))
           /\ read # Seal!Absent /\ run' = [run EXCEPT !.pc = "resolve", !.data = read[2]]
  <2>1. run.base = "D" /\ place.path # "linked" /\ ~ Seal!Entry.rel.refused
        /\ Seal!Opened(at) # Seal!Absent /\ read = Seal!Opened(at)
    BY <1>6
  <2>2. at \in SealPlaces
    BY <1>1, <1>2, EntryTyped
  <2>3. read[2] \in SealContent /\ Seal!Opened(at) = Seal!File(read[2])
    BY <1>2, <2>1, <2>2, OpenedFile
  <2> DEFINE data == read[2]
  <2>4. run = [pc |-> run.pc, opts |-> run.opts, base |-> run.base, i |-> run.i, got |-> run.got,
               data |-> run.data, reason |-> run.reason, todo |-> run.todo, seen |-> run.seen,
               since |-> run.since]
    BY <1>2 DEF Walk, RunTyped
  <2>5. run' = [run EXCEPT !.pc = "resolve", !.data = data]
    BY <1>6
  <2> HIDE DEF data, read, at
  <2>6. run' = [pc |-> "resolve", opts |-> run.opts, base |-> run.base, i |-> run.i, got |-> run.got,
                data |-> data, reason |-> run.reason, todo |-> run.todo, seen |-> run.seen,
                since |-> run.since]
    BY <2>4, <2>5
  <2>7. /\ run'.pc = "resolve" /\ run'.opts = run.opts /\ run'.base = run.base /\ run'.i = run.i
        /\ run'.got = run.got /\ run'.data = data /\ run'.todo = run.todo /\ run'.seen = run.seen
        /\ run'.since = run.since
        /\ run' = [pc |-> run'.pc, opts |-> run'.opts, base |-> run'.base, i |-> run'.i,
                   got |-> run'.got, data |-> run'.data, reason |-> run'.reason, todo |-> run'.todo,
                   seen |-> run'.seen, since |-> run'.since]
    BY <2>6
  <2>8. SealFiles' = SealFiles /\ Seal!Entry' = Seal!Entry /\ Seal!Quiet' = Seal!Quiet
    BY <1>1, <2>7 DEF SealFiles, Seal!Entry, Seal!Quiet
  <2>9. RunTyped'
    BY <1>1, <1>2, <2>7, <2>8 DEF Walk, RunTyped, IsGot
  <2>10. Resolving'
    <3>1. Seal!Opened(Seal!Entry.rel.at)' = Seal!File(data)
      <4>1. Seal!Opened(at) = Seal!File(data)
        BY <2>3 DEF data
      <4> QED
        BY <1>1, <2>8, <4>1 DEF Seal!Opened, Seal!HoldsFile, at
    <3>2. data \in SealContent
      BY <2>3 DEF data
    <3> QED
      BY <1>1, <2>1, <2>7, <2>8, <3>1, <3>2 DEF Resolving, Seal!File
  <2>11. Classes'
    <3>1. /\ \A rel : Seal!Sound(rel)' = Seal!Sound(rel)
          /\ \A p : Seal!Opened(p)' = Seal!Opened(p)
          /\ \A e : Seal!Reads(e)' = Seal!Reads(e)
          /\ Seal!Named(run.got)' = Seal!Named(run.got)
      BY <1>1, <2>7 DEF Seal!Sound, Seal!Escapes, Seal!RealPath, Seal!Opened, Seal!HoldsFile, Seal!Reads,
                        Seal!Named, Seal!Texts
    <3>2. Classes /\ UNCHANGED place
      BY <1>1, <1>2 DEF Walk
    <3> QED
      BY <2>7, <2>8, <3>1, <3>2 DEF Classes, Seal!File, Seal!Absent
  <2>12. Listing'
    BY <1>1, <1>2, <2>7, <2>8 DEF Walk, Listing
  <2>13. RunInv'
    BY <1>1, <1>2, <2>7, <2>9, <2>10, <2>11, <2>12 DEF RunInv, Walk, Seal!NoResult
  <2> QED
    BY <1>1, <2>13, GenuineKept, CarriedKept DEF SealInv
<1> QED
  BY <1>3, <1>4, <1>5, <1>6

\* Resolving the path after the read: it escapes, or the bytes are classed.
LEMMA ResolveEntryKeeps ==
  ASSUME SealInv, Seal!ResolveEntry
  PROVE  SealInv'
<1> DEFINE at == Seal!Entry.rel.at
<1>1. /\ run.pc = "resolve"
      /\ UNCHANGED <<fs, scannable, genuine, artifact, place, out, tampered, edits>>
  BY DEF Seal!ResolveEntry
<1>2. Walk
  BY <1>1, BusyRun DEF SealInv
<1>3. /\ run.i <= Len(SealFiles) /\ run.base = "D" /\ ~ Seal!Entry.rel.refused /\ run.data \in SealContent
      /\ Seal!Quiet => Seal!Opened(at) = Seal!File(run.data)
  BY <1>1, <1>2 DEF Walk, Resolving
<1>4. \/ Seal!Escapes(Seal!RealPath(at)) /\ Seal!NextEntry("escaped", Seal!Null)
      \/ ~ Seal!Escapes(Seal!RealPath(at)) /\ Seal!NextEntry("ok", run.data)
  BY Zenon DEF Seal!ResolveEntry
<1>5. CASE Seal!Escapes(Seal!RealPath(at)) /\ Seal!NextEntry("escaped", Seal!Null)
  <2>1. ~ Seal!Sound(Seal!Entry.rel)
    BY <1>5 DEF Seal!Sound
  <2> QED
    BY <1>1, <1>2, <1>3, <1>5, <2>1, EntryHandled
<1>6. CASE ~ Seal!Escapes(Seal!RealPath(at)) /\ Seal!NextEntry("ok", run.data)
  <2>1. Seal!Sound(Seal!Entry.rel)
    BY <1>3, <1>6 DEF Seal!Sound
  <2> QED
    BY <1>1, <1>2, <1>3, <1>6, <2>1, EntryHandled
<1> QED
  BY <1>4, <1>5, <1>6

\* A step that ends a run, or goes on to its listing, keeps the classes.
LEMMA ClassesKept ==
  ASSUME Walk, UNCHANGED <<fs, artifact, place, edits>>, run'.i = run.i, run'.got = run.got,
         run'.base = run.base, run'.since = run.since, run'.pc # "resolve",
         run' = [pc |-> run'.pc, opts |-> run'.opts, base |-> run'.base, i |-> run'.i,
                 got |-> run'.got, data |-> run'.data, reason |-> run'.reason, todo |-> run'.todo,
                 seen |-> run'.seen, since |-> run'.since]
  PROVE  RunTyped' /\ Resolving' /\ Classes' /\ SealFiles' = SealFiles /\ Seal!Quiet' = Seal!Quiet
<1>1. SealFiles' = SealFiles /\ Seal!Quiet' = Seal!Quiet
  BY DEF SealFiles, Seal!Quiet
<1>2. RunTyped'
  BY <1>1 DEF Walk, RunTyped, IsGot
<1>3. Resolving'
  BY DEF Resolving
<1>4. /\ \A rel : Seal!Sound(rel)' = Seal!Sound(rel)
      /\ \A p : Seal!Opened(p)' = Seal!Opened(p)
      /\ \A e : Seal!Reads(e)' = Seal!Reads(e)
      /\ Seal!Named(run.got)' = Seal!Named(run.got)
  BY DEF Seal!Sound, Seal!Escapes, Seal!RealPath, Seal!Opened, Seal!HoldsFile, Seal!Reads,
         Seal!Named, Seal!Texts
<1>5. Classes'
  <2>1. Classes
    BY DEF Walk
  <2> QED
    BY <1>1, <1>4, <2>1 DEF Classes, Seal!File, Seal!Absent
<1> QED
  BY <1>1, <1>2, <1>3, <1>5

\* decide answers, or goes on to the listing of --exact-dir.
LEMMA DecideKeeps ==
  ASSUME SealInv, Seal!Decide
  PROVE  SealInv'
<1> DEFINE first == Seal!Reason(run.got, run.opts)
           result == Seal!Result(run.got, run.opts, first)
<1>1. /\ run.pc = "read" /\ run.i > Len(SealFiles)
      /\ UNCHANGED <<fs, scannable, genuine, artifact, place, tampered, edits>>
  BY DEF Seal!Decide, SealFiles
<1>2. /\ Walk /\ out.result = Seal!NoResult /\ Len(SealFiles) \in Nat
      /\ run = [pc |-> run.pc, opts |-> run.opts, base |-> run.base, i |-> run.i, got |-> run.got,
                data |-> run.data, reason |-> run.reason, todo |-> run.todo, seen |-> run.seen,
                since |-> run.since]
  BY <1>1, BusyRun DEF SealInv, Walk, RunTyped, CarriedInv, IsSealFile, SealFiles
<1>3. run.i = Len(SealFiles) + 1
  BY <1>1, <1>2 DEF Walk, RunTyped
<1>4. \/ /\ run.opts.exact
         /\ run' = [run EXCEPT !.pc = "scan", !.reason = first, !.todo = {"base"}] /\ UNCHANGED out
      \/ /\ ~ run.opts.exact
         /\ Seal!Exit(IF first = "OK" THEN 0 ELSE 3, result)
  BY Zenon DEF Seal!Decide
<1> HIDE DEF first
<1>6. CASE /\ run.opts.exact
           /\ run' = [run EXCEPT !.pc = "scan", !.reason = first, !.todo = {"base"}] /\ UNCHANGED out
  <2>1. run' = [pc |-> "scan", opts |-> run.opts, base |-> run.base, i |-> run.i, got |-> run.got,
                data |-> run.data, reason |-> first, todo |-> {"base"}, seen |-> run.seen,
                since |-> run.since]
    BY <1>2, <1>6
  <2>2. /\ run'.pc = "scan" /\ run'.opts = run.opts /\ run'.base = run.base /\ run'.i = run.i
        /\ run'.got = run.got /\ run'.reason = first /\ run'.todo = {"base"} /\ run'.seen = run.seen
        /\ run'.since = run.since
        /\ run' = [pc |-> run'.pc, opts |-> run'.opts, base |-> run'.base, i |-> run'.i,
                   got |-> run'.got, data |-> run'.data, reason |-> run'.reason, todo |-> run'.todo,
                   seen |-> run'.seen, since |-> run'.since]
    BY <2>1
  <2>3. RunTyped' /\ Resolving' /\ Classes' /\ SealFiles' = SealFiles /\ Seal!Quiet' = Seal!Quiet
    BY <1>1, <1>2, <2>2, ClassesKept
  <2>4. Seal!Reason(run.got, run.opts)' = first
    <3>1. \A got, opts : Seal!Reason(got, opts)' = Seal!Reason(got, opts)
      BY <1>1, ReasonKept
    <3> QED
      BY <2>2, <3>1, <1>1 DEF Seal!Reason, Seal!FileReason, Seal!RootMatches, first
  <2>5. Listing'
    BY <1>1, <1>2, <1>3, <1>6, <2>2, <2>3, <2>4 DEF Walk, Listing, Pending
  <2>6. RunInv'
    BY <1>2, <1>6, <2>2, <2>3, <2>5 DEF RunInv, Walk, Seal!NoResult
  <2> QED
    BY <1>1, <2>6, GenuineKept, CarriedKept DEF SealInv
<1>7. CASE ~ run.opts.exact /\ Seal!Exit(IF first = "OK" THEN 0 ELSE 3, result)
  <2>1. out' = [code |-> IF first = "OK" THEN 0 ELSE 3, result |-> result]
        /\ run' = [run EXCEPT !.pc = "done"]
    BY <1>7 DEF Seal!Exit
  <2>2. run' = [pc |-> "done", opts |-> run.opts, base |-> run.base, i |-> run.i, got |-> run.got,
                data |-> run.data, reason |-> run.reason, todo |-> run.todo, seen |-> run.seen,
                since |-> run.since]
    BY <1>2, <2>1
  <2>3. /\ run'.pc = "done" /\ run'.opts = run.opts /\ run'.base = run.base /\ run'.i = run.i
        /\ run'.got = run.got /\ run'.todo = run.todo /\ run'.seen = run.seen
        /\ run'.since = run.since
        /\ run' = [pc |-> run'.pc, opts |-> run'.opts, base |-> run'.base, i |-> run'.i,
                   got |-> run'.got, data |-> run'.data, reason |-> run'.reason, todo |-> run'.todo,
                   seen |-> run'.seen, since |-> run'.since]
    BY <2>2
  <2>4. RunTyped' /\ Resolving' /\ Classes' /\ SealFiles' = SealFiles /\ Seal!Quiet' = Seal!Quiet
    BY <1>1, <1>2, <2>3, ClassesKept
  <2>5. Listing'
    BY <1>1, <1>2, <1>3, <1>7, <2>3, <2>4 DEF Walk, Listing
  <2>6. Says(out.result)'
    <3>1. /\ out'.result.got = run.got /\ out'.result.opts = run.opts /\ out'.result.reason = first
          /\ out'.result.accepted = (first = "OK") /\ out'.result.unexpected = {}
      BY <2>1 DEF Seal!Result
    <3>2. Seal!Reason(run.got, run.opts)' = first
      BY <2>3, <1>1 DEF Seal!Reason, Seal!FileReason, Seal!RootMatches, first
    <3> QED
      BY <1>7, <2>3, <3>1, <3>2 DEF Says
  <2>7. out'.code = 0 <=> out'.result.reason = "OK"
    BY <2>1 DEF Seal!Result
  <2>8. RunInv'
    BY <2>3, <2>4, <2>5, <2>6, <2>7 DEF RunInv, Walk
  <2> QED
    BY <1>1, <2>8, GenuineKept, CarriedKept DEF SealInv
<1> QED
  BY <1>4, <1>6, <1>7

\* Listing a directory: what was there before and after is listed or still to be listed.
LEMMA ScanDirKeeps ==
  ASSUME SealInv, Seal!ScanDir
  PROVE  SealInv'
<1>1. /\ run.pc = "scan"
      /\ UNCHANGED <<fs, scannable, genuine, artifact, place, tampered, edits>>
  BY DEF Seal!ScanDir
<1>2. /\ Walk /\ Listing /\ out.result = Seal!NoResult
      /\ run = [pc |-> run.pc, opts |-> run.opts, base |-> run.base, i |-> run.i, got |-> run.got,
                data |-> run.data, reason |-> run.reason, todo |-> run.todo, seen |-> run.seen,
                since |-> run.since]
  BY <1>1, BusyRun DEF SealInv, Walk, RunTyped
<1> DEFINE Todo(here) ==
             (run.todo \ {here}) \cup (IF here = "base" /\ run.base = "D" THEN {"sub"} ELSE {})
           Seen(here) == run.seen \cup Seal!Listed(here)
<1>3. PICK here \in run.todo :
        IF run.base = "nowhere" \/ (here = "sub" /\ ~ scannable) THEN Seal!Exit(1, Seal!NoResult)
        ELSE /\ run' = [run EXCEPT
               !.todo = (@ \ {here}) \cup (IF here = "base" /\ run.base = "D" THEN {"sub"} ELSE {}),
               !.seen = @ \cup Seal!Listed(here)]
             /\ UNCHANGED out
  BY Zenon DEF Seal!ScanDir
<1>4. \/ Seal!Exit(1, Seal!NoResult)
      \/ run' = [run EXCEPT !.todo = Todo(here), !.seen = Seen(here)] /\ UNCHANGED out
  BY <1>3
<1>5. CASE Seal!Exit(1, Seal!NoResult)
  <2>1. run'.pc = "done" /\ out'.result = Seal!NoResult
    BY <1>2, <1>5 DEF Seal!Exit, Seal!NoResult
  <2>2. RunInv'
    BY <2>1 DEF RunInv, Seal!NoResult
  <2> QED
    BY <1>1, <2>2, GenuineKept, CarriedKept DEF SealInv
<1>6. CASE run' = [run EXCEPT !.todo = Todo(here), !.seen = Seen(here)] /\ UNCHANGED out
  <2>1. /\ here \in {"base", "sub"}
        /\ here = "base" => "base" \notin Todo(here) /\ (run.base = "D" => "sub" \in Todo(here))
        /\ here = "sub" => ("base" \in run.todo => "base" \in Todo(here))
        /\ Todo(here) \subseteq {"base", "sub"}
    BY <1>2 DEF Listing
  <2>2. Seal!Listed(here) \subseteq {p \in SealInside : fs[p] # Seal!Absent} \cup {"artifact"}
    BY SealConstants DEF Seal!Listed
  <2>3. run.base = "D" =>
          /\ here = "sub" => \A p \in SealBelow : fs[p] # Seal!Absent => p \in Seal!Listed(here)
          /\ here = "base" =>
               \A p \in SealInside : p \notin SealBelow /\ fs[p] # Seal!Absent => p \in Seal!Listed(here)
    BY DEF Seal!Listed
  <2> DEFINE todo == Todo(here)
             seen == Seen(here)
  <2>4. run' = [run EXCEPT !.todo = todo, !.seen = seen]
    BY <1>6
  <2> HIDE DEF todo, seen
  <2>5. run' = [pc |-> run.pc, opts |-> run.opts, base |-> run.base, i |-> run.i, got |-> run.got,
                data |-> run.data, reason |-> run.reason, todo |-> todo, seen |-> seen,
                since |-> run.since]
    BY <1>2, <2>4
  <2>6. /\ run'.pc = "scan" /\ run'.opts = run.opts /\ run'.base = run.base /\ run'.i = run.i
        /\ run'.got = run.got /\ run'.reason = run.reason /\ run'.todo = todo /\ run'.seen = seen
        /\ run'.since = run.since
        /\ run' = [pc |-> run'.pc, opts |-> run'.opts, base |-> run'.base, i |-> run'.i,
                   got |-> run'.got, data |-> run'.data, reason |-> run'.reason, todo |-> run'.todo,
                   seen |-> run'.seen, since |-> run'.since]
    BY <1>1, <2>5
  <2>7. RunTyped' /\ Resolving' /\ Classes' /\ SealFiles' = SealFiles /\ Seal!Quiet' = Seal!Quiet
    BY <1>1, <1>2, <2>6, ClassesKept
  <2>8. Seal!Reason(run.got, run.opts)' = Seal!Reason(run.got, run.opts)
    BY <2>6, <1>1 DEF Seal!Reason, Seal!FileReason, Seal!RootMatches
  <2>9. Seal!Quiet => seen \subseteq {p \in SealInside : fs[p] # Seal!Absent} \cup {"artifact"}
    BY <1>2, <2>2 DEF Listing, seen
  <2>10. ASSUME run.base = "D", NEW p \in SealInside, fs[p] # Seal!Absent, p \in run.seen \/ Pending(p)
         PROVE  p \in seen \/ "base" \in todo \/ (p \in SealBelow /\ "sub" \in todo)
    <3>1. CASE p \in run.seen
      BY <3>1 DEF seen
    <3>2. CASE Pending(p) /\ here = "base"
      BY <2>1, <2>3, <2>10, <3>2 DEF seen, todo, Pending
    <3>3. CASE Pending(p) /\ here = "sub"
      BY <2>1, <2>3, <2>10, <3>3 DEF seen, todo, Pending
    <3> QED
      BY <2>1, <2>10, <3>1, <3>2, <3>3
  <2>11. Listing'
    <3>1. (run.todo \subseteq {"base", "sub"})'
      BY <2>1, <2>6 DEF todo
    <3>2. (Seal!Quiet => run.seen \subseteq {p \in SealInside : fs[p] # Seal!Absent} \cup {"artifact"})'
      BY <1>1, <2>6, <2>7, <2>9 DEF Seal!Absent
    <3>3. (run.pc \in {"scan", "done"} /\ run.opts.exact /\ run.base = "D"
             /\ edits <= run.since.edits + 1 =>
             \A p \in SealInside :
               run.since.fs[p] # Seal!Absent /\ fs[p] # Seal!Absent => p \in run.seen \/ Pending(p))'
      BY <1>1, <1>2, <2>6, <2>10 DEF Listing, Pending, Seal!Absent
    <3>4. /\ (run.pc = "scan" => run.opts.exact /\ run.reason = Seal!Reason(run.got, run.opts))'
          /\ (run.pc \in {"scan", "done"} => run.i = Len(SealFiles) + 1)'
      BY <1>1, <1>2, <2>6, <2>7, <2>8 DEF Listing
    <3> QED
      BY <3>1, <3>2, <3>3, <3>4 DEF Listing
  <2>12. RunInv'
    BY <1>2, <1>6, <2>6, <2>7, <2>11 DEF RunInv, Walk, Seal!NoResult
  <2> QED
    BY <1>1, <2>12, GenuineKept, CarriedKept DEF SealInv
<1> QED
  BY <1>4, <1>5, <1>6

\* The end of the listing: what no entry names turns an acceptance into a rejection.
LEMMA ApplyExactDirKeeps ==
  ASSUME SealInv, Seal!ApplyExactDir
  PROVE  SealInv'
<1> DEFINE first == Seal!Reason(run.got, run.opts)
           extra == Seal!Unexpected(run.seen, run.got)
           reason == IF extra # {} /\ run.reason = "OK" THEN "UNEXPECTED" ELSE run.reason
           code == IF reason = "OK" THEN 0 ELSE 3
           result == Seal!Result(run.got, run.opts, reason)
           answer == [result EXCEPT !.unexpected = extra]
<1>1. /\ run.pc = "scan" /\ run.todo = {}
      /\ UNCHANGED <<fs, scannable, genuine, artifact, place, tampered, edits>>
  BY DEF Seal!ApplyExactDir
<1>2. /\ Walk /\ Listing
      /\ run = [pc |-> run.pc, opts |-> run.opts, base |-> run.base, i |-> run.i, got |-> run.got,
                data |-> run.data, reason |-> run.reason, todo |-> run.todo, seen |-> run.seen,
                since |-> run.since]
  BY <1>1, BusyRun DEF SealInv, Walk, RunTyped
<1>3. Seal!Exit(code, answer)
  BY Zenon DEF Seal!ApplyExactDir
<1>4. out' = [code |-> code, result |-> answer] /\ run' = [run EXCEPT !.pc = "done"]
  BY <1>3, Zenon DEF Seal!Exit
<1>5. run.reason = first /\ run.opts.exact
  BY <1>1, <1>2 DEF Listing
<1>6. /\ answer.reason = reason /\ answer.accepted = (reason = "OK") /\ answer.got = run.got
      /\ answer.unexpected = extra /\ answer.opts = run.opts
  BY DEF Seal!Result
<1>7. run' = [pc |-> "done", opts |-> run.opts, base |-> run.base, i |-> run.i, got |-> run.got,
              data |-> run.data, reason |-> run.reason, todo |-> run.todo, seen |-> run.seen,
              since |-> run.since]
  BY <1>2, <1>4
<1>8. /\ run'.pc = "done" /\ run'.opts = run.opts /\ run'.base = run.base /\ run'.i = run.i
      /\ run'.got = run.got /\ run'.todo = run.todo /\ run'.seen = run.seen
      /\ run'.since = run.since
      /\ run' = [pc |-> run'.pc, opts |-> run'.opts, base |-> run'.base, i |-> run'.i,
                 got |-> run'.got, data |-> run'.data, reason |-> run'.reason, todo |-> run'.todo,
                 seen |-> run'.seen, since |-> run'.since]
  BY <1>7
<1>9. RunTyped' /\ Resolving' /\ Classes' /\ SealFiles' = SealFiles /\ Seal!Quiet' = Seal!Quiet
  BY <1>1, <1>2, <1>8, ClassesKept
<1>10. Listing'
  BY <1>1, <1>2, <1>8, <1>9 DEF Listing, Pending, Seal!Absent
<1>11. Seal!Reason(run.got, run.opts)' = first
  BY <1>8, <1>1 DEF Seal!Reason, Seal!FileReason, Seal!RootMatches
<1>12. Seal!Unexpected(run.seen, run.got)' = extra
  BY <1>8 DEF Seal!Unexpected, Seal!Named, Seal!Texts
<1> HIDE DEF extra, first, result
<1>13. reason = first \/ (first = "OK" /\ reason = "UNEXPECTED" /\ extra # {})
  BY <1>5
<1>14. reason = "OK" => extra = {}
  OBVIOUS
<1> HIDE DEF reason, answer
<1>15. out'.result = answer /\ (out'.code = 0 <=> reason = "OK")
  BY <1>4
<1>16. Says(out.result)'
  BY <1>1, <1>5, <1>6, <1>8, <1>11, <1>12, <1>13, <1>14, <1>15 DEF Says
<1>17. RunInv'
  BY <1>6, <1>8, <1>9, <1>10, <1>15, <1>16 DEF RunInv, Walk
<1> QED
  BY <1>1, <1>17, GenuineKept, CarriedKept DEF SealInv

\* Every step of a verifier, of the carrier or of the directory keeps the invariant.
LEMMA SealStepKeeps == SealInv /\ Seal!Next => SealInv'
BY StartKeeps, ReadEntryKeeps, ResolveEntryKeeps, DecideKeeps, ScanDirKeeps, ApplyExactDirKeeps,
   SealTamperKeeps, SealEditKeeps DEF Seal!Next

\* And so does a step that changes nothing.
LEMMA SealStutter ==
  ASSUME SealInv, UNCHANGED allVars
  PROVE  SealInv'
<1>1. UNCHANGED <<fs, scannable, genuine, artifact, place, run, out, tampered, edits>>
  BY DEF allVars, sealOnly, shared
<1>2. GenuineInv' /\ CarriedInv'
  BY <1>1, GenuineKept, CarriedKept DEF SealInv
<1>3. SealFiles' = SealFiles /\ Seal!Quiet' = Seal!Quiet
  BY <1>1 DEF SealFiles, Seal!Quiet
<1>4. RunTyped => RunTyped'
  BY <1>1, <1>3 DEF RunTyped, IsGot
<1>5. Resolving => Resolving'
  BY <1>1, <1>3 DEF Resolving, Seal!Entry, Seal!Opened, Seal!HoldsFile
<1>6. Classes => Classes'
  <2>1. /\ \A rel : Seal!Sound(rel)' = Seal!Sound(rel)
        /\ \A p : Seal!Opened(p)' = Seal!Opened(p)
        /\ \A e : Seal!Reads(e)' = Seal!Reads(e)
        /\ Seal!Named(run.got)' = Seal!Named(run.got)
    BY <1>1 DEF Seal!Sound, Seal!Escapes, Seal!RealPath, Seal!Opened, Seal!HoldsFile, Seal!Reads,
           Seal!Named, Seal!Texts
  <2> QED
    BY <1>1, <1>3, <2>1 DEF Classes, Seal!File, Seal!Absent
<1>7. Seal!Reason(run.got, run.opts)' = Seal!Reason(run.got, run.opts)
  BY <1>1 DEF Seal!Reason, Seal!FileReason, Seal!RootMatches
<1>8. Listing => Listing'
  BY <1>1, <1>3, <1>7 DEF Listing, Pending, Seal!Absent
<1>9. Says(out.result) => Says(out.result)'
  <2>1. Seal!Unexpected(run.seen, run.got)' = Seal!Unexpected(run.seen, run.got)
    BY <1>1 DEF Seal!Unexpected, Seal!Named, Seal!Texts
  <2>2. run' = run /\ out' = out
    BY <1>1
  <2> QED
    BY <1>7, <2>1, <2>2 DEF Says
<1>10. RunInv'
  BY <1>1, <1>4, <1>5, <1>6, <1>8, <1>9 DEF SealInv, RunInv, Walk, Seal!Idle, Seal!NoResult
<1> QED
  BY <1>2, <1>10 DEF SealInv

-----------------------------------------------------------------------------
\* One component runs in a behaviour, and its invariant is the one that matters.
DirectoryInv == part = "directory" => DirInv /\ DirSays

\* What is proved above of the steps of the directory commands, as an invariant.
LEMMA DirectoryHolds == ProofsSpec => []DirectoryInv
<1>1. ProofsInit => DirectoryInv
  BY DirectoryInit DEF ProofsInit, DirectoryInv
<1>2. DirectoryInv /\ [ProofsNext]_allVars => DirectoryInv'
  <2> SUFFICES ASSUME DirectoryInv, [ProofsNext]_allVars PROVE DirectoryInv'
    OBVIOUS
  <2>1. CASE DirectoryStep
    BY <2>1, DirectoryStepKeeps DEF DirectoryStep, DirectoryInv
  <2>2. CASE SealStep \/ CurveStep
    BY <2>2 DEF SealStep, CurveStep, DirectoryInv
  <2>3. CASE UNCHANGED allVars
    <3>1. part' = part /\ UNCHANGED <<dir, job, anchored, output, artifact, tampered>>
      BY <2>3 DEF allVars, dirOnly, shared
    <3>2. DirInv => DirInv'
      BY <3>1 DEF DirInv, RootsOfWalks, Running, ArtifactInv
    <3>3. DirSays => DirSays'
      BY <3>1 DEF DirSays, VerifyExact, AcceptedWasAnchored, ReportedRootAnchored, GenuineNotRejected, isAnchored
    <3> QED
      BY <3>1, <3>2, <3>3 DEF DirectoryInv
  <2> QED
    BY <2>1, <2>2, <2>3 DEF ProofsNext
<1> QED
  BY <1>1, <1>2, PTL DEF ProofsSpec

\* What the lemmas above say of the steps of the verifier, as an invariant.
LEMMA SealHolds == ProofsSpec => [](part = "seal" => SealInv)
<1> DEFINE Inv == part = "seal" => SealInv
<1>1. ProofsInit => Inv
  BY SealInit DEF ProofsInit
<1>2. Inv /\ [ProofsNext]_allVars => Inv'
  <2> SUFFICES ASSUME Inv, [ProofsNext]_allVars PROVE Inv'
    OBVIOUS
  <2>1. CASE SealStep
    BY <2>1, SealStepKeeps DEF SealStep
  <2>2. CASE DirectoryStep \/ CurveStep
    BY <2>2 DEF DirectoryStep, CurveStep
  <2>3. CASE UNCHANGED allVars
    <3>1. part' = part
      BY <2>3 DEF allVars
    <3> QED
      BY <2>3, <3>1, SealStutter
  <2> QED
    BY <2>1, <2>2, <2>3 DEF ProofsNext
<1> QED
  BY <1>1, <1>2, PTL DEF ProofsSpec

-----------------------------------------------------------------------------
\* What vh verify and vh verify-proof accept was anchored, and what they say of a root is so, for
\* any files, contents and commands (cli/verify.js, cli/proof.js).
THEOREM AcceptedAnchored == ProofsSpec => []AcceptedIsAnchored
<1>1. DirectoryInv => AcceptedIsAnchored
  BY DEF DirectoryInv, DirSays, AcceptedIsAnchored
<1> QED
  BY <1>1, DirectoryHolds, PTL

\* A seal that is accepted under the producer's root, or under his signature, was verified against
\* exactly the files he sealed, for seals of any size (verify_parsed_artifact).
THEOREM SealGenuine == ProofsSpec => []AcceptedIsGenuine
<1>1. (part = "seal" => SealInv) => AcceptedIsGenuine
  BY GenuineSays DEF AcceptedIsGenuine
<1> QED
  BY <1>1, SealHolds, PTL

\* No accepting run of --exact-dir leaves in the directory a file that was there all along and that
\* the seal does not name (_collect_unexpected).
THEOREM SealClosed == ProofsSpec => []ExactDirClosed
<1>1. (part = "seal" => SealInv) => ExactDirClosed
  BY ClosedSays DEF ExactDirClosed
<1> QED
  BY <1>1, SealHolds, PTL

\* What nobody touched is accepted, a rejection gives a reason that is true, and its text names every
\* file concerned (decide, render_human).
THEOREM SealTruthful == ProofsSpec => []GenuineAccepted
<1>1. (part = "seal" => SealInv) => GenuineAccepted
  BY UntouchedSays, TrueSays, TextSays DEF GenuineAccepted
<1> QED
  BY <1>1, SealHolds, PTL
=============================================================================
