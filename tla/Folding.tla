------------------------------ MODULE Folding ------------------------------
(***************************************************************************)
(* Lemmas about the folds of the community modules, which the models use   *)
(* wherever the code goes through a list: a fold exists, is what each of   *)
(* its steps makes of the one before, and has no other value.  The prover  *)
(* cannot take an operator as a parameter, so that what is folded is a     *)
(* function here; a caller shows that its fold is one of these.  Behind    *)
(* them, lemmas about sequences: what concatenations of any number of them *)
(* hold, and what is left of them when they are cut short.                 *)
(***************************************************************************)
EXTENDS Integers, Sequences, FiniteSetTheorems, WellFoundedInduction, TLAPS

(* Induction on the natural numbers, for the set of those with a property. *)
LEMMA NatInductive ==
  ASSUME NEW P, 0 \in P, \A n \in Nat : n \in P => n + 1 \in P
  PROVE  Nat \subseteq P
<1> SUFFICES ASSUME Nat \ P # {} PROVE FALSE
  OBVIOUS
<1>1. PICK m \in Nat \ P : \A n \in Nat \ P : ~(<<n, m>> \in OpToRel(<, Nat))
  <2>1. Nat \ P \subseteq Nat
    OBVIOUS
  <2> QED
    BY <2>1, NatLessThanWellFounded, WFMin, Zenon
<1>2. \A n \in Nat : n < m => <<n, m>> \in OpToRel(<, Nat)
  BY <1>1, SMT DEF OpToRel
<1>3. m \in Nat /\ m # 0 /\ m \notin P
  OBVIOUS
<1>4. m - 1 \in Nat /\ m - 1 < m /\ m = (m - 1) + 1
  BY <1>3
<1>5. m - 1 \in P
  BY <1>1, <1>2, <1>4, Zenon
<1> QED
  BY <1>3, <1>4, <1>5

(* Induction on the subsets of a finite set.                               *)
LEMMA SetInductive ==
  \A S, P : /\ IsFiniteSet(S) /\ {} \in P
            /\ \A s \in SUBSET S : s # {} /\ (\A x \in s : s \ {x} \in P) => s \in P
            => SUBSET S \subseteq P
<1> SUFFICES ASSUME NEW S, IsFiniteSet(S), NEW P, {} \in P,
                    \A s \in SUBSET S : s # {} /\ (\A x \in s : s \ {x} \in P) => s \in P
             PROVE  SUBSET S \subseteq P
  OBVIOUS
<1> DEFINE Q == {n \in Nat : \A s \in SUBSET S : Cardinality(s) = n => s \in P}
<1>1. \A s \in SUBSET S : IsFiniteSet(s) /\ Cardinality(s) \in Nat
  BY FS_Subset, FS_CardinalityType
<1>2. 0 \in Q
  BY <1>1, FS_EmptySet
<1>3. ASSUME NEW n \in Nat, n \in Q PROVE n + 1 \in Q
  <2> SUFFICES ASSUME NEW s \in SUBSET S, Cardinality(s) = n + 1 PROVE s \in P
    OBVIOUS
  <2>1. s # {}
    BY <1>1, FS_EmptySet
  <2>2. ASSUME NEW x \in s PROVE s \ {x} \in P
    <3>1. Cardinality(s \ {x}) = n
      BY <1>1, FS_RemoveElement
    <3> QED
      BY <1>3, <3>1
  <2> QED
    BY <2>1, <2>2
<1> HIDE DEF Q
<1>4. Nat \subseteq Q
  BY <1>2, <1>3, NatInductive
<1> QED
  BY <1>1, <1>4 DEF Q

(* The recursion that MapThenFoldSet unfolds to: p picks an element of     *)
(* each set, g combines it with the fold of the rest, a value of V.        *)
Picks(p, S) == \A s \in SUBSET S : s # {} => p[s] \in s
Follows(h, S, V, base, p, g) ==
  /\ h[{}] = base
  /\ \A s \in SUBSET S :
       s # {} /\ h[s \ {p[s]}] \in V => h[s] = g[<<p[s], h[s \ {p[s]}]>>]
IsFold(f, S, V, base, p, g) ==
  /\ IsFiniteSet(S) /\ Picks(p, S)
  /\ f \in [SUBSET S -> V]
  /\ Follows(f, S, V, base, p, g)

(* There is a fold over every finite set.                                   *)
LEMMA FoldExists ==
  \A S, V, base, p, g :
    IsFiniteSet(S) /\ base \in V /\ g \in [S \X V -> V] /\ Picks(p, S)
    => \E f : IsFold(f, S, V, base, p, g)
<1> SUFFICES ASSUME NEW S, IsFiniteSet(S), NEW V, NEW base \in V, NEW p, NEW g \in [S \X V -> V], Picks(p, S)
             PROVE  \E f : IsFold(f, S, V, base, p, g)
  BY Zenon
<1> DEFINE Small(n) == {s \in SUBSET S : Cardinality(s) <= n}
           Eq(f, s) == f[s] = IF s = {} THEN base ELSE g[<<p[s], f[s \ {p[s]}]>>]
           Q == {n \in Nat : \E f \in [Small(n) -> V] : \A s \in Small(n) : Eq(f, s)}
<1>1. \A s \in SUBSET S : IsFiniteSet(s) /\ Cardinality(s) \in Nat /\ (Cardinality(s) = 0 => s = {})
  BY FS_Subset, FS_CardinalityType, FS_EmptySet
<1>2. 0 \in Q
  <2>1. \A s \in Small(0) : s = {}
    BY <1>1
  <2>2. [s \in Small(0) |-> base] \in [Small(0) -> V] /\ \A s \in Small(0) : Eq([t \in Small(0) |-> base], s)
    BY <2>1
  <2> QED
    BY <2>2
<1>3. ASSUME NEW n \in Nat, n \in Q PROVE n + 1 \in Q
  <2>1. PICK f \in [Small(n) -> V] : \A s \in Small(n) : Eq(f, s)
    BY <1>3
  <2> DEFINE h == [s \in Small(n + 1) |-> IF s = {} THEN base ELSE g[<<p[s], f[s \ {p[s]}]>>]]
  <2>2. \A s \in Small(n + 1) : s # {} => p[s] \in s /\ s \ {p[s]} \in Small(n)
    <3> SUFFICES ASSUME NEW s \in Small(n + 1), s # {} PROVE p[s] \in s /\ s \ {p[s]} \in Small(n)
      OBVIOUS
    <3>1. p[s] \in s /\ s \ {p[s]} \in SUBSET S
      BY DEF Picks
    <3>2. Cardinality(s \ {p[s]}) = Cardinality(s) - 1
      BY <1>1, <3>1, FS_RemoveElement
    <3> QED
      BY <1>1, <3>1, <3>2
  <2>3. h \in [Small(n + 1) -> V]
    <3> SUFFICES ASSUME NEW s \in Small(n + 1), s # {} PROVE g[<<p[s], f[s \ {p[s]}]>>] \in V
      OBVIOUS
    <3>1. p[s] \in S /\ f[s \ {p[s]}] \in V
      BY <2>1, <2>2
    <3> QED
      BY <3>1
  <2>4. \A s \in Small(n) : s \in Small(n + 1) /\ h[s] = f[s]
    <3> SUFFICES ASSUME NEW s \in Small(n) PROVE s \in Small(n + 1) /\ h[s] = f[s]
      OBVIOUS
    <3>1. s \in Small(n + 1)
      BY <1>1
    <3>2. Eq(f, s)
      BY <2>1
    <3> QED
      BY <3>1, <3>2
  <2>5. \A s \in Small(n + 1) : Eq(h, s)
    <3> SUFFICES ASSUME NEW s \in Small(n + 1), s # {} PROVE Eq(h, s)
      OBVIOUS
    <3>1. h[s \ {p[s]}] = f[s \ {p[s]}]
      BY <2>2, <2>4
    <3>2. h[s] = g[<<p[s], f[s \ {p[s]}]>>]
      OBVIOUS
    <3> QED
      BY <3>1, <3>2
  <2> HIDE DEF h
  <2>6. \E f1 \in [Small(n + 1) -> V] : \A s \in Small(n + 1) : Eq(f1, s)
    BY <2>3, <2>5
  <2>7. n + 1 \in Nat
    OBVIOUS
  <2> QED
    BY <2>6, <2>7, Zenon
<1>4. Nat \subseteq Q
  <2> HIDE DEF Q
  <2> QED
    BY <1>2, <1>3, NatInductive
<1>5. PICK n \in Nat : n = Cardinality(S) /\ SUBSET S = Small(n)
  <2>1. Cardinality(S) \in Nat /\ \A s \in SUBSET S : Cardinality(s) <= Cardinality(S)
    BY FS_Subset, FS_CardinalityType
  <2> QED
    BY <2>1
<1>6. PICK f \in [Small(n) -> V] : \A s \in Small(n) : Eq(f, s)
  BY <1>4
<1>7. f \in [SUBSET S -> V] /\ \A s \in SUBSET S : Eq(f, s)
  BY <1>5, <1>6
<1>8. IsFold(f, S, V, base, p, g)
  BY <1>7 DEF IsFold, Follows
<1> QED
  BY <1>8, Zenon

(* It has no other value.                                                  *)
LEMMA FoldIsUnique ==
  \A S, V, base, p, g, f, h :
    IsFold(f, S, V, base, p, g) /\ Follows(h, S, V, base, p, g) => \A s \in SUBSET S : h[s] = f[s]
<1> TAKE S, V, base, p, g, f, h
<1> HAVE IsFold(f, S, V, base, p, g) /\ Follows(h, S, V, base, p, g)
<1> DEFINE P == {s \in SUBSET S : f[s] = h[s]}
<1>1. {} \in P
  BY DEF IsFold, Follows
<1>2. \A s \in SUBSET S : s # {} /\ (\A x \in s : s \ {x} \in P) => s \in P
  <2> SUFFICES ASSUME NEW s \in SUBSET S, s # {}, \A x \in s : s \ {x} \in P PROVE s \in P
    OBVIOUS
  <2>1. p[s] \in s
    BY DEF IsFold, Picks
  <2>2. s \ {p[s]} \in SUBSET S /\ f[s \ {p[s]}] = h[s \ {p[s]}]
    BY <2>1
  <2>3. h[s] = g[<<p[s], h[s \ {p[s]}]>>]
    BY <2>2 DEF IsFold, Follows
  <2>4. f[s] = g[<<p[s], f[s \ {p[s]}]>>]
    BY <2>1 DEF IsFold, Follows
  <2> QED
    BY <2>2, <2>3, <2>4
<1> HIDE DEF P
<1>3. SUBSET S \subseteq P
  BY <1>1, <1>2, SetInductive, Zenon DEF IsFold
<1> QED
  BY <1>3 DEF P

-----------------------------------------------------------------------------
(* The last of some positions, which a fold from the left chooses first.   *)
Top(s) == CHOOSE x \in s : \A y \in s : x >= y

(* A set of positions has a last one.                                       *)
LEMMA TopExists ==
  ASSUME NEW n \in Nat, NEW s \in SUBSET (1 .. n), s # {}
  PROVE  Top(s) \in s /\ \A y \in s : y <= Top(s)
<1> DEFINE P == {m \in Nat : \A t \in SUBSET (1 .. m) : t # {} => \E x \in t : \A y \in t : x >= y}
<1>1. 0 \in P
  <2>1. \A t \in SUBSET (1 .. 0) : t = {}
    OBVIOUS
  <2> QED
    BY <2>1
<1>2. ASSUME NEW m \in Nat, m \in P PROVE m + 1 \in P
  <2> SUFFICES ASSUME NEW t \in SUBSET (1 .. (m + 1)), t # {} PROVE \E x \in t : \A y \in t : x >= y
    OBVIOUS
  <2>1. CASE m + 1 \in t
    BY <2>1
  <2>2. CASE m + 1 \notin t
    <3>1. t \in SUBSET (1 .. m)
      BY <2>2
    <3> QED
      BY <1>2, <3>1
  <2> QED
    BY <2>1, <2>2
<1>3. Nat \subseteq P
  <2> HIDE DEF P
  <2> QED
    BY <1>1, <1>2, NatInductive
<1>4. \E x \in s : \A y \in s : x >= y
  BY <1>3
<1>5. Top(s) \in s /\ \A y \in s : Top(s) >= y
  BY <1>4, Zenon DEF Top
<1> QED
  BY <1>5

(* A fold over a sequence goes through its prefixes: a[k] is the result    *)
(* for the first k elements.                                               *)
Tops(n) == [s \in SUBSET (1 .. n) |-> Top(s)]

Folded(a, n, V, base, g) ==
  a \in [0 .. n -> V] /\ a[0] = base /\ \A k \in 1 .. n : a[k] = g[<<k, a[k - 1]>>]

FoldPrefixes(f, a, n, V, base, g) ==
  IsFold(f, 1 .. n, V, base, Tops(n), g) /\ Folded(a, n, V, base, g) /\ f[1 .. n] = a[n]

(* A fold that takes the last position first goes through the prefixes.     *)
LEMMA FoldOfPrefixes ==
  \A n, V, base, g :
    n \in Nat /\ base \in V /\ g \in [(1 .. n) \X V -> V] => \E f, a : FoldPrefixes(f, a, n, V, base, g)
<1> TAKE n, V, base, g
<1> HAVE n \in Nat /\ base \in V /\ g \in [(1 .. n) \X V -> V]
<1>0. PICK p : p = Tops(n) /\ p = [s \in SUBSET (1 .. n) |-> Top(s)]
  BY DEF Tops
<1>1. IsFiniteSet(1 .. n)
  BY FS_Interval
<1>2. Picks(p, 1 .. n)
  BY <1>0, TopExists DEF Picks
<1>3. PICK f : IsFold(f, 1 .. n, V, base, p, g)
  <2> QED
    BY <1>1, <1>2, FoldExists, Zenon
<1> DEFINE a == [k \in 0 .. n |-> f[1 .. k]]
<1>4. a \in [0 .. n -> V] /\ f[1 .. n] = a[n]
  BY <1>3 DEF IsFold
<1>5. a[0] = base
  <2>1. 1 .. 0 = {} /\ 0 \in 0 .. n
    OBVIOUS
  <2> QED
    BY <1>3, <2>1 DEF IsFold, Follows
<1>6. ASSUME NEW k \in 1 .. n PROVE a[k] = g[<<k, a[k - 1]>>]
  <2>1. 1 .. k \in SUBSET (1 .. n) /\ 1 .. k # {} /\ k \in 1 .. k /\ k - 1 \in 0 .. n /\ k \in 0 .. n
    OBVIOUS
  <2>2. Top(1 .. k) = k
    <3>1. Top(1 .. k) \in 1 .. k /\ k <= Top(1 .. k)
      BY <2>1, TopExists
    <3> QED
      BY <3>1
  <2>3. (1 .. k) \ {k} = 1 .. (k - 1)
    OBVIOUS
  <2>4. f[1 .. k] = g[<<p[1 .. k], f[(1 .. k) \ {p[1 .. k]}]>>]
    BY <1>3, <2>1 DEF IsFold, Follows
  <2>5. p[1 .. k] = k
    BY <1>0, <2>1, <2>2
  <2>6. f[1 .. k] = g[<<k, f[1 .. (k - 1)]>>]
    BY <2>3, <2>4, <2>5, Zenon
  <2>7. a[k] = f[1 .. k] /\ a[k - 1] = f[1 .. (k - 1)]
    BY <2>1
  <2> QED
    BY <2>6, <2>7, Zenon
<1>7. \A k \in 1 .. n : a[k] = g[<<k, a[k - 1]>>]
  BY <1>6
<1>8. FoldPrefixes(f, a, n, V, base, g)
  <2> HIDE DEF a
  <2> QED
    BY <1>0, <1>3, <1>4, <1>5, <1>7 DEF FoldPrefixes, Folded
<1> QED
  <2> HIDE DEF a
  <2> QED
    BY <1>8, Zenon

(* The recursion of a fold from the left over n elements: g combines the   *)
(* place of the last with what the fold made of those before it.           *)
FoldsLeft(h, n, V, base, g) ==
  /\ h[{}] = base
  /\ \A s \in SUBSET (1 .. n) :
       s # {} /\ h[s \ {Top(s)}] \in V => h[s] = g[<<Top(s), h[s \ {Top(s)}]>>]

LeftFolds(f, a, n, V, base, g) ==
  /\ f \in [SUBSET (1 .. n) -> V] /\ FoldsLeft(f, n, V, base, g)
  /\ \A s \in SUBSET (1 .. n) : s # {} => Top(s) \in s
  /\ Folded(a, n, V, base, g)
  /\ \A h : FoldsLeft(h, n, V, base, g) => h[1 .. n] = a[n]

(* A fold over a sequence is what its last step makes of it.                *)
LEMMA LeftFold ==
  \A n, V, base, g :
    n \in Nat /\ base \in V /\ g \in [(1 .. n) \X V -> V] => \E f, a : LeftFolds(f, a, n, V, base, g)
<1> TAKE n, V, base, g
<1> HAVE n \in Nat /\ base \in V /\ g \in [(1 .. n) \X V -> V]
<1>1. PICK f, a : FoldPrefixes(f, a, n, V, base, g)
  BY FoldOfPrefixes, Zenon
<1>2. IsFold(f, 1 .. n, V, base, Tops(n), g) /\ Folded(a, n, V, base, g) /\ f[1 .. n] = a[n]
  BY <1>1 DEF FoldPrefixes
<1>3. \A s \in SUBSET (1 .. n) : s # {} => Top(s) \in s
  BY TopExists
<1>4. \A h : FoldsLeft(h, n, V, base, g) <=> Follows(h, 1 .. n, V, base, Tops(n), g)
  BY DEF FoldsLeft, Follows, Tops
<1>5. f \in [SUBSET (1 .. n) -> V] /\ FoldsLeft(f, n, V, base, g)
  BY <1>2, <1>4 DEF IsFold
<1>6. ASSUME NEW h, FoldsLeft(h, n, V, base, g) PROVE h[1 .. n] = a[n]
  <2>1. PICK D, q : D = 1 .. n /\ q = Tops(n)
    OBVIOUS
  <2>2. IsFold(f, D, V, base, q, g) /\ Follows(h, D, V, base, q, g)
    BY <1>2, <1>4, <1>6, <2>1
  <2>3. \A s \in SUBSET D : h[s] = f[s]
    BY <2>2, FoldIsUnique
  <2> QED
    BY <1>2, <2>1, <2>3
<1>7. LeftFolds(f, a, n, V, base, g)
  BY <1>2, <1>3, <1>5, <1>6, Zenon DEF LeftFolds
<1> QED
  BY <1>7, Zenon

(***************************************************************************)
(* A concatenation of n sequences: f[k] is that of the first k.            *)
(***************************************************************************)
Joined(f, s, S, k) == s[k] \in Seq(S) /\ f[k - 1] \in Seq(S) /\ f[k] = f[k - 1] \o s[k]
IsFlat(f, s, n, S) ==
  /\ n \in Nat /\ f[0] = <<>>
  /\ \A k \in 0 .. n : f[k] \in Seq(S)
  /\ \A k \in 1 .. n : Joined(f, s, S, k)

(* The recursion of FlattenSeq.                                            *)
Flattened(g, s, i) == g[i] = IF i = 1 THEN s[i] ELSE g[i - 1] \o s[i]
Flattens(g, s, n) == g = [i \in 1 .. n |-> IF i = 1 THEN s[i] ELSE g[i - 1] \o s[i]]

(* Every sequence of sequences has a concatenation.                        *)
LEMMA FlatExists ==
  \A n, S, s : n \in Nat /\ (\A k \in 1 .. n : s[k] \in Seq(S)) => \E f : IsFlat(f, s, n, S)
<1> SUFFICES ASSUME NEW n \in Nat, NEW S, NEW s, \A k \in 1 .. n : s[k] \in Seq(S)
             PROVE  \E f : IsFlat(f, s, n, S)
  OBVIOUS
<1>0. PICK V : V = Seq(S)
  OBVIOUS
<1>1. PICK g : g = [e \in (1 .. n) \X V |-> e[2] \o s[e[1]]]
  OBVIOUS
<1>2. ASSUME NEW k \in 1 .. n, NEW v \in V PROVE g[<<k, v>>] = v \o s[k] /\ g[<<k, v>>] \in V
  <2>1. g[<<k, v>>] = v \o s[k]
    BY <1>1
  <2>2. v \in Seq(S) /\ s[k] \in Seq(S)
    BY <1>0
  <2>3. v \o s[k] \in Seq(S)
    BY <2>2
  <2> QED
    BY <1>0, <2>1, <2>3
<1>3. g \in [(1 .. n) \X V -> V]
  <2>1. \A k \in 1 .. n, v \in V : v \o s[k] \in V
    BY <1>1, <1>2
  <2> QED
    BY <1>1, <2>1
<1>4. <<>> \in V
  BY <1>0
<1>5. PICK f, a : FoldPrefixes(f, a, n, V, <<>>, g)
  BY <1>3, <1>4, FoldOfPrefixes, Zenon
<1>6. a \in [0 .. n -> V] /\ a[0] = <<>> /\ \A k \in 1 .. n : a[k] = g[<<k, a[k - 1]>>]
  BY <1>5 DEF FoldPrefixes, Folded
<1>7. ASSUME NEW k \in 1 .. n PROVE Joined(a, s, S, k)
  <2>1. PICK v \in V : v = a[k - 1]
    BY <1>6
  <2>2. a[k] = g[<<k, v>>]
    BY <1>6, <2>1
  <2>3. a[k] = v \o s[k] /\ v \in Seq(S) /\ s[k] \in Seq(S)
    BY <1>0, <1>2, <2>2
  <2> QED
    BY <2>1, <2>3 DEF Joined
<1>8. \A k \in 0 .. n : a[k] \in Seq(S)
  BY <1>0, <1>6
<1>9. IsFlat(a, s, n, S)
  BY <1>6, <1>7, <1>8 DEF IsFlat
<1> QED
  BY <1>9

(* The recursion of FlattenSeq yields it, as long as there is anything.    *)
LEMMA FlatIsThere == \A n, S, s, f : IsFlat(f, s, n, S) => \E g : Flattens(g, s, n)
<1> SUFFICES ASSUME NEW n, NEW S, NEW s, NEW f, IsFlat(f, s, n, S) PROVE \E g : Flattens(g, s, n)
  OBVIOUS
<1>0. n \in Nat /\ f[0] = <<>>
  BY DEF IsFlat
<1>g. PICK g : g = [i \in 1 .. n |-> f[i]]
  OBVIOUS
<1>1. ASSUME NEW i \in 1 .. n PROVE f[i] = IF i = 1 THEN s[i] ELSE g[i - 1] \o s[i]
  <2>0. Joined(f, s, S, i)
    BY Zenon DEF IsFlat
  <2>1. f[i] = f[i - 1] \o s[i] /\ s[i] \in Seq(S)
    BY <2>0 DEF Joined
  <2>2. CASE i = 1
    <3>1. i - 1 = 0
      BY <2>2
    <3>2. <<>> \o s[i] = s[i]
      BY <2>1
    <3> QED
      BY <1>0, <2>1, <2>2, <3>1, <3>2
  <2>3. CASE i # 1
    <3>1. i - 1 \in 1 .. n
      BY <1>0, <2>3
    <3>2. g[i - 1] = f[i - 1]
      BY <1>g, <3>1
    <3> QED
      BY <2>1, <2>3, <3>2
  <2> QED
    BY <2>2, <2>3
<1>2. Flattens(g, s, n)
  BY <1>g, <1>1 DEF Flattens
<1> QED
  BY <1>2

(* It yields the same wherever it is defined.                              *)
LEMMA FlatIsFlattened ==
  \A n, S, s, f, g : IsFlat(f, s, n, S) /\ Flattens(g, s, n) => \A k \in 1 .. n : g[k] = f[k]
<1> TAKE n, S, s, f, g
<1> HAVE IsFlat(f, s, n, S) /\ Flattens(g, s, n)
<1>0. n \in Nat /\ f[0] = <<>>
  BY DEF IsFlat
<1> DEFINE P == {k \in Nat : k \in 1 .. n => g[k] = f[k]}
<1>1. 0 \in P
  OBVIOUS
<1>2. ASSUME NEW k \in Nat, k \in P PROVE k + 1 \in P
  <2> SUFFICES ASSUME k + 1 \in 1 .. n PROVE g[k + 1] = f[k + 1]
    OBVIOUS
  <2>0. PICK q \in 1 .. n : q = k + 1 /\ q - 1 = k
    OBVIOUS
  <2>1. Joined(f, s, S, q)
    BY Zenon DEF IsFlat
  <2>2. f[q] = f[k] \o s[q] /\ s[q] \in Seq(S)
    BY <2>0, <2>1 DEF Joined
  <2>3. Flattened(g, s, q)
    BY DEF Flattens, Flattened
  <2>4. g[q] = IF q = 1 THEN s[q] ELSE g[k] \o s[q]
    BY <2>0, <2>3 DEF Flattened
  <2>5. CASE k = 0
    <3>1. q = 1 /\ f[k] = <<>>
      BY <1>0, <2>0, <2>5
    <3>2. <<>> \o s[q] = s[q]
      BY <2>2
    <3> QED
      BY <2>0, <2>2, <2>4, <3>1, <3>2
  <2>6. CASE k # 0
    <3>1. k \in 1 .. n
      BY <1>0, <2>0, <2>6
    <3>2. g[k] = f[k] /\ q # 1
      BY <1>2, <2>0, <2>6, <3>1
    <3>3. g[q] = g[k] \o s[q]
      BY <2>4, <3>2
    <3>4. g[q] = f[q]
      BY <2>2, <3>2, <3>3
    <3> QED
      BY <2>0, <3>4
  <2> QED
    BY <2>5, <2>6
<1>3. Nat \subseteq P
  <2> HIDE DEF P
  <2> QED
    BY <1>1, <1>2, NatInductive
<1> QED
  BY <1>0, <1>3

(* Where the elements stand in it.                                         *)
FlatAt(f, s, m, k) ==
  /\ Len(f[k]) = Len(f[k - 1]) + Len(s[k]) /\ Len(f[k]) <= Len(f[m])
  /\ \A i \in 1 .. Len(s[k]) : f[m][Len(f[k - 1]) + i] = s[k][i]

(* Each of its first m sequences stands somewhere among the first m.       *)
LEMMA FlatPlaces ==
  \A n, S, s, f : IsFlat(f, s, n, S) => \A m \in 0 .. n : \A k \in 1 .. m : FlatAt(f, s, m, k)
<1> SUFFICES ASSUME NEW n, NEW S, NEW s, NEW f, IsFlat(f, s, n, S)
             PROVE  \A m \in 0 .. n : \A k \in 1 .. m : FlatAt(f, s, m, k)
  BY Zenon
<1>0. n \in Nat
  BY DEF IsFlat
<1> DEFINE P == {m \in Nat : m <= n => \A k \in 1 .. m : FlatAt(f, s, m, k)}
<1>1. 0 \in P
  OBVIOUS
<1>2. ASSUME NEW m \in Nat, m \in P PROVE m + 1 \in P
  <2> SUFFICES ASSUME m + 1 <= n, NEW k \in 1 .. (m + 1) PROVE FlatAt(f, s, m + 1, k)
    OBVIOUS
  <2>0. PICK q \in 1 .. n : q = m + 1 /\ q - 1 = m
    BY <1>0
  <2>1. Joined(f, s, S, q)
    BY Zenon DEF IsFlat
  <2>2. PICK old \in Seq(S), new \in Seq(S) : old = f[m] /\ new = s[q] /\ f[q] = old \o new
    BY <2>0, <2>1 DEF Joined
  <2>3. /\ Len(old \o new) = Len(old) + Len(new) /\ Len(old) \in Nat /\ Len(new) \in Nat
        /\ \A i \in 1 .. Len(new) : (old \o new)[Len(old) + i] = new[i]
        /\ \A i \in 1 .. Len(old) : (old \o new)[i] = old[i]
    OBVIOUS
  <2>4. CASE k = q
    <3>1. FlatAt(f, s, q, q)
      <4>1. /\ Len(f[q]) = Len(old) + Len(new)
            /\ \A i \in 1 .. Len(new) : f[q][Len(old) + i] = new[i]
        BY <2>2, <2>3
      <4>2. f[q - 1] = old /\ s[q] = new /\ Len(f[q]) <= Len(f[q])
        BY <2>0, <2>2, <2>3, <4>1
      <4> QED
        BY <4>1, <4>2, Zenon DEF FlatAt
    <3> QED
      BY <2>0, <2>4, <3>1
  <2>5. CASE k # q
    <3>1. k \in 1 .. m /\ k \in 1 .. n /\ k - 1 \in 0 .. n
      BY <1>0, <2>0, <2>5
    <3>2. FlatAt(f, s, m, k)
      <4>1. m <= n
        BY <1>0, <2>0
      <4> QED
        BY <1>2, <3>1, <4>1
    <3>3. PICK p \in Seq(S), e \in Seq(S) : p = f[k - 1] /\ e = s[k]
      <4>1. Joined(f, s, S, k)
        BY <3>1, Zenon DEF IsFlat
      <4> QED
        BY <4>1 DEF Joined
    <3>4. Len(p) \in Nat /\ Len(e) \in Nat
      BY <3>3
    <3>5. /\ Len(f[k]) = Len(p) + Len(e) /\ Len(f[k]) <= Len(old)
          /\ \A i \in 1 .. Len(e) : old[Len(p) + i] = e[i]
      BY <2>2, <3>2, <3>3 DEF FlatAt
    <3>6. \A i \in 1 .. Len(e) : Len(p) + i \in 1 .. Len(old)
      BY <2>3, <3>4, <3>5
    <3>7. \A i \in 1 .. Len(e) : f[q][Len(p) + i] = e[i]
      BY <2>2, <2>3, <3>5, <3>6
    <3>8. Len(f[q]) = Len(old) + Len(new)
      BY <2>2, <2>3
    <3>9. Len(f[k]) <= Len(f[q])
      BY <2>3, <3>4, <3>5, <3>8
    <3>10. FlatAt(f, s, q, k)
      BY <3>3, <3>5, <3>7, <3>9, Zenon DEF FlatAt
    <3> QED
      BY <2>0, <3>10
  <2> QED
    BY <2>4, <2>5
<1>3. Nat \subseteq P
  <2> HIDE DEF P
  <2> QED
    BY <1>1, <1>2, NatInductive
<1> QED
  BY <1>0, <1>3

(* The first of the sequences comes before the concatenation of the rest.  *)
IsTail(t, n, s, m) == n \in Nat /\ m = n + 1 /\ \A k \in 1 .. n : t[k] = s[k + 1]

HeadAndTail(f, m, s, h, n) == f[m] = s[1] \o h[n]

(* One more sequence in front comes before all of the others.              *)
LEMMA FlatTail ==
  \A n, m, V, s, f, t, h :
    IsFlat(f, s, m, V) /\ IsFlat(h, t, n, V) /\ IsTail(t, n, s, m) => HeadAndTail(f, m, s, h, n)
<1> TAKE n, m, V, s, f, t, h
<1> HAVE IsFlat(f, s, m, V) /\ IsFlat(h, t, n, V) /\ IsTail(t, n, s, m)
<1>n. n \in Nat /\ m = n + 1 /\ \A k \in 1 .. n : t[k] = s[k + 1]
  BY DEF IsTail
<1>0. f[0] = <<>> /\ h[0] = <<>>
  BY DEF IsFlat
<1>1. 1 \in 1 .. m /\ 1 - 1 = 0
  BY <1>n
<1>2. Joined(f, s, V, 1)
  BY <1>1, Zenon DEF IsFlat
<1>3. PICK c \in Seq(V) : c = s[1] /\ f[1] = <<>> \o c
  BY <1>0, <1>1, <1>2 DEF Joined
<1> DEFINE P == {k \in Nat : k <= n => f[k + 1] = c \o h[k]}
<1>4. 0 \in P
  <2>1. <<>> \o c = c \o <<>> /\ 0 + 1 = 1
    OBVIOUS
  <2>2. f[0 + 1] = c \o h[0]
    BY <1>0, <1>3, <2>1
  <2> QED
    BY <2>2
<1>5. ASSUME NEW k \in Nat, k \in P PROVE k + 1 \in P
  <2> SUFFICES ASSUME k + 1 <= n PROVE f[k + 1 + 1] = c \o h[k + 1]
    OBVIOUS
  <2>0. PICK q \in 1 .. n, r \in 1 .. m : q = k + 1 /\ r = q + 1 /\ q - 1 = k /\ r - 1 = q
    BY <1>n
  <2>1. Joined(f, s, V, r) /\ Joined(h, t, V, q)
    BY Zenon DEF IsFlat
  <2>2. PICK e \in Seq(V), p \in Seq(V) : e = s[r] /\ e = t[q] /\ p = h[k] /\ h[q] = p \o e /\ f[r] = f[q] \o e
    BY <1>n, <2>0, <2>1 DEF Joined
  <2>3. f[q] = c \o p
    BY <1>n, <1>5, <2>0, <2>2
  <2>4. (c \o p) \o e = c \o (p \o e)
    OBVIOUS
  <2> QED
    BY <2>0, <2>2, <2>3, <2>4
<1>6. n \in P
  <2> HIDE DEF P
  <2> QED
    BY <1>n, <1>4, <1>5, NatInductive
<1>7. f[m] = c \o h[n]
  BY <1>6, <1>n
<1> QED
  BY <1>3, <1>7 DEF HeadAndTail

-----------------------------------------------------------------------------
(***************************************************************************)
(* Sequences behind each other, and what is left of them.                  *)
(***************************************************************************)
(* A set of natural numbers has a least one.                               *)
LEMMA LeastExists == \A I : I \subseteq Nat /\ I # {} => \E i \in I : \A j \in I : i <= j
<1> SUFFICES ASSUME NEW I, I \subseteq Nat, I # {} PROVE \E i \in I : \A j \in I : i <= j
  OBVIOUS
<1>1. PICK m \in I : \A n \in I : ~(<<n, m>> \in OpToRel(<, Nat))
  BY NatLessThanWellFounded, WFMin, Zenon
<1>2. \A n \in Nat : n < m => <<n, m>> \in OpToRel(<, Nat)
  BY <1>1, SMT DEF OpToRel
<1>3. \A n \in I : m <= n
  <2> SUFFICES ASSUME NEW n \in I, ~(m <= n) PROVE FALSE
    OBVIOUS
  <2>0. n \in Nat /\ m \in Nat
    OBVIOUS
  <2>1. n \in Nat /\ m \in Nat /\ n < m
    BY <2>0
  <2> QED
    BY <1>1, <1>2, <2>1, Zenon
<1> QED
  BY <1>3

(* What is one sequence with another behind it.                         *)
IsBehind(W, x, y, m, n) ==
  /\ x \o y \in Seq(W) /\ Len(x \o y) = m + n
  /\ (\A i \in 1 .. m : (x \o y)[i] = x[i]) /\ \A i \in 1 .. n : (x \o y)[m + i] = y[i]

(* A sequence with another behind it has the elements of the one, then of  *)
(* the other.                                                              *)
LEMMA Behind ==
  \A W, x, y, m, n : x \in Seq(W) /\ y \in Seq(W) /\ m = Len(x) /\ n = Len(y) => IsBehind(W, x, y, m, n)
  BY DEF IsBehind

(* Sequences of a length with the same elements are the same.              *)
LEMMA SameSeq ==
  \A S1, a, b, d : a \in Seq(S1) /\ b \in Seq(S1) /\ Len(a) = d /\ Len(b) = d /\ (\A i \in 1 .. d : a[i] = b[i]) => a = b
  OBVIOUS

(* A sequence of one element.                                              *)
LEMMA OneIs == \A W, t : t \in W => <<t>> \in Seq(W) /\ Len(<<t>>) = 1 /\ <<t>>[1] = t
  OBVIOUS

(* What is left of a sequence and another behind it when it is cut.        *)
CutAt(p, l, z, n) ==
  /\ Len(p) = n
  /\ \A i \in 1 .. n : i <= Len(l) => p[i] = l[i]
  /\ \A i \in 1 .. n - Len(l) : p[Len(l) + i] = z[i]
  /\ n >= Len(l) => SubSeq(p, Len(l) + 1, n) = SubSeq(z, 1, n - Len(l))

(* A cut of two sequences is the first as far as it goes, then the         *)
(* second.                                                                 *)
LEMMA CutIs ==
  ASSUME NEW W, NEW l \in Seq(W), NEW z \in Seq(W), NEW n \in 0 .. Len(l) + Len(z)
  PROVE  SubSeq(l \o z, 1, n) \in Seq(W) /\ CutAt(SubSeq(l \o z, 1, n), l, z, n)
<1>0. l \o z \in Seq(W) /\ Len(l) \in Nat /\ Len(z) \in Nat
  OBVIOUS
<1>1. PICK a \in Seq(W) : a = l \o z
  BY <1>0
<1>2. PICK m \in Nat, k \in Nat : m = Len(l) /\ k = Len(z)
  BY <1>0
<1>3. /\ Len(a) = m + k /\ \A i \in 1 .. m : a[i] = l[i]
      /\ \A i \in 1 .. k : m + i \in 1 .. m + k /\ a[m + i] = z[i]
  BY <1>1, <1>2
<1>4. n \in Nat /\ n <= m + k
  BY <1>2
<1>5. PICK p : p = SubSeq(a, 1, n)
  OBVIOUS
<1>6. p \in Seq(W) /\ Len(p) = n /\ \A i \in 1 .. n : p[i] = a[i]
  BY <1>3, <1>4, <1>5
<1>7. \A i \in 1 .. n : i <= m => p[i] = l[i]
  BY <1>2, <1>3, <1>4, <1>6
<1>8. \A i \in 1 .. n - m : m + i \in 1 .. n /\ i \in 1 .. k
  BY <1>2, <1>4
<1>9. \A i \in 1 .. n - m : p[m + i] = z[i]
  BY <1>3, <1>6, <1>8
<1>10. ASSUME n >= m PROVE SubSeq(p, m + 1, n) = SubSeq(z, 1, n - m)
  <2>1. PICK r \in Nat : r = n - m /\ r <= k
    BY <1>4, <1>10
  <2>2. PICK x : x = SubSeq(p, m + 1, n)
    OBVIOUS
  <2>3. x \in Seq(W) /\ Len(x) = r /\ \A i \in 1 .. r : x[i] = p[m + i]
    BY <1>4, <1>6, <1>10, <2>1, <2>2
  <2>4. PICK y : y = SubSeq(z, 1, r)
    OBVIOUS
  <2>5. y \in Seq(W) /\ Len(y) = r /\ \A i \in 1 .. r : y[i] = z[i]
    BY <1>2, <2>1, <2>4
  <2>6. \A i \in 1 .. r : x[i] = y[i]
    BY <1>9, <2>1, <2>3, <2>5
  <2>7. x = y
    BY <2>3, <2>5, <2>6
  <2> QED
    BY <2>1, <2>2, <2>4, <2>7
<1>11. CutAt(p, l, z, n)
  BY <1>2, <1>6, <1>7, <1>9, <1>10 DEF CutAt
<1> QED
  BY <1>1, <1>5, <1>6, <1>11
=============================================================================
