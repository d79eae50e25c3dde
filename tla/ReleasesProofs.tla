--------------------------- MODULE ReleasesProofs ---------------------------
(***************************************************************************)
(* Lemmas about the release store: what the operators of Releases return   *)
(* for every store.  Induction over a sequence is done by taking a least   *)
(* counterexample (Least), which needs no second-order instance.           *)
(***************************************************************************)
EXTENDS Releases, TLAPS, WellFoundedInduction, SequenceTheorems, FiniteSetTheorems

\* Every nonempty set of naturals has a least member.
LEMMA Least ==
  ASSUME NEW T \in SUBSET Nat, T # {}
  PROVE  \E m \in T : \A k \in T : m <= k
<1>1. IsWellFoundedOn(OpToRel(<, Nat), Nat)
  BY NatLessThanWellFounded
<1>2. PICK x \in T : \A y \in T : ~ (<<y, x>> \in OpToRel(<, Nat))
  BY <1>1, WFMin
<1>3. \A y \in T : ~(y < x)
  BY <1>2 DEF OpToRel
<1> QED BY <1>3

\* Latest picks the greatest member (releases.go walks the history backwards).
LEMMA LatestIn ==
  ASSUME NEW n \in Nat, NEW T \in SUBSET (1..n), T # {}
  PROVE  Latest(T) \in T /\ \A j \in T : j <= Latest(T)
<1> DEFINE D == { n - i : i \in T }
<1>1. D \in SUBSET Nat
  <2>1. \A i \in T : n - i \in Nat
    OBVIOUS
  <2> QED BY <2>1
<1>2. PICK d \in D : \A k \in D : d <= k
  <2>1. D # {}
    OBVIOUS
  <2> QED BY <1>1, <2>1, Least
<1>3. PICK i \in T : d = n - i
  BY <1>2
<1>4. \A j \in T : j <= i
  <2> TAKE j \in T
  <2>1. n - j \in D
    OBVIOUS
  <2> QED BY SMTT(60), <2>1, <1>2, <1>3
<1> QED BY <1>3, <1>4 DEF Latest

-----------------------------------------------------------------------------
(* The history filter of prune() *)

\* f is the table OnlyIn(h, K) is read from, up to position n.
KeptUpTo(f, h, K, n) ==
  f = [i \in 0..n |->
            IF i = 0 THEN <<>>
            ELSE IF h[i] \in K THEN Append(f[i - 1], h[i]) ELSE f[i - 1]]

\* That table exists, for any h and K.
LEMMA KeptExists ==
  ASSUME NEW h, NEW K, NEW n \in Nat
  PROVE  \E f : KeptUpTo(f, h, K, n)
<1> DEFINE Bad == { m \in Nat : ~ \E f : KeptUpTo(f, h, K, m) }
<1> SUFFICES ASSUME Bad # {} PROVE FALSE
  OBVIOUS
<1>1. PICK m \in Bad : \A k \in Bad : m <= k
  BY Least
<1>2. m # 0
  <2> DEFINE f == [i \in 0..0 |-> <<>>]
  <2>1. KeptUpTo(f, h, K, 0)
    BY DEF KeptUpTo
  <2> QED BY <2>1
<1>3. PICK f : KeptUpTo(f, h, K, m - 1)
  <2>1. m - 1 \in Nat /\ m - 1 \notin Bad
    BY <1>1, <1>2
  <2> QED BY <2>1
<1> DEFINE g == [i \in 0..m |-> IF i < m THEN f[i]
                    ELSE IF h[m] \in K THEN Append(f[m - 1], h[m]) ELSE f[m - 1]]
<1>4. KeptUpTo(g, h, K, m)
  <2> DEFINE r == [i \in 0..m |->
            IF i = 0 THEN <<>>
            ELSE IF h[i] \in K THEN Append(g[i - 1], h[i]) ELSE g[i - 1]]
  <2>1. \A i \in 0..m : g[i] = r[i]
    <3> TAKE i \in 0..m
    <3>1. CASE i = 0
      BY <3>1, <1>2, <1>3 DEF KeptUpTo
    <3>2. CASE i # 0 /\ i < m
      <4>1. i \in 0..(m-1) /\ i - 1 \in 0..(m-1)
        BY <3>2
      <4>2. f[i] = IF h[i] \in K THEN Append(f[i - 1], h[i]) ELSE f[i - 1]
        BY <1>3, <4>1, <3>2 DEF KeptUpTo
      <4>3. g[i] = f[i] /\ g[i-1] = f[i-1]
        BY <4>1, <3>2
      <4> QED BY <4>2, <4>3, <3>2
    <3>3. CASE i = m
      <4>1. g[m-1] = f[m-1]
        BY <1>2
      <4> QED BY <4>1, <3>3, <1>2
    <3> QED BY <3>1, <3>2, <3>3
  <2>2. g = r
    BY <2>1
  <2> QED BY <2>2 DEF KeptUpTo
<1> QED BY <1>4

\* prune() saves a history of releases.
LEMMA OnlyInType ==
  ASSUME NEW S, NEW K, NEW h \in Seq(S)
  PROVE  OnlyIn(h, K) \in Seq(S)
<1> DEFINE n == Len(h)
<1> DEFINE f == CHOOSE g : KeptUpTo(g, h, K, n)
<1>0. n \in Nat
  OBVIOUS
<1>1. KeptUpTo(f, h, K, n)
  BY KeptExists, <1>0
<1>2. OnlyIn(h, K) = f[n]
  BY DEF OnlyIn, KeptUpTo
<1> DEFINE Bad == { i \in 0..n : f[i] \notin Seq(S) }
<1> HIDE DEF f
<1>3. ASSUME Bad # {} PROVE FALSE
  <2>1. Bad \in SUBSET Nat
    OBVIOUS
  <2>2. PICK m \in Bad : \A k \in Bad : m <= k
    BY <1>3, <2>1, Least
  <2>3. m # 0
    BY <1>1 DEF KeptUpTo
  <2>4. m - 1 \in 0..n /\ m \in 1..n /\ m - 1 \notin Bad
    BY <2>2, <2>3
  <2>5. f[m - 1] \in Seq(S) /\ h[m] \in S
    BY <2>4
  <2>6. f[m] = IF h[m] \in K THEN Append(f[m - 1], h[m]) ELSE f[m - 1]
    <3>1. \A i \in 0..n : f[i] = IF i = 0 THEN <<>>
            ELSE IF h[i] \in K THEN Append(f[i - 1], h[i]) ELSE f[i - 1]
      BY <1>1 DEF KeptUpTo
    <3>2. m \in 0..n /\ m # 0
      BY <2>4
    <3> QED BY <3>1, <3>2
  <2>7. f[m] \in Seq(S)
    BY <2>5, <2>6
  <2> QED BY <2>7, <2>2
<1>4. n \in 0..n
  BY <1>0
<1> QED BY <1>2, <1>3, <1>4

-----------------------------------------------------------------------------
(* The store operators keep the store's type *)

\* previous() returns a release that is still on disk, or none.
LEMMA PreviousOnDisk ==
  ASSUME NEW s \in Store
  PROVE  Previous(s) = None \/ Previous(s) \in s.dirs
<1> SUFFICES ASSUME Earlier(s) # {} PROVE s.history[Latest(Earlier(s))] \in s.dirs
  BY DEF Previous
<1>1. s.history \in Seq(Release) /\ Len(s.history) \in Nat
  BY DEF Store
<1> DEFINE at == Positions(s.history, s.current)
<1>2. at # {} /\ at \in SUBSET (1..Len(s.history))
  BY DEF Earlier, Positions
<1>3. Latest(at) \in 1..Len(s.history)
  BY <1>1, <1>2, LatestIn
<1>4. Earlier(s) \in SUBSET (1..Len(s.history))
  BY <1>1, <1>2, <1>3 DEF Earlier
<1>5. Latest(Earlier(s)) \in Earlier(s)
  BY <1>1, <1>4, LatestIn
<1> QED BY <1>5, <1>2 DEF Earlier

\* activate() and revert() save a history of releases.
LEMMA PushType ==
  ASSUME NEW h \in Seq(Release), NEW r \in Release
  PROVE  Push(h, r) \in Seq(Release)
BY DEF Push

\* revert() drops at most the newest entry.
LEMMA PopType ==
  ASSUME NEW h \in Seq(Release), NEW r
  PROVE  Pop(h, r) \in Seq(Release)
<1>1. CASE h = <<>>
  BY <1>1 DEF Pop, Newest
<1>2. CASE h # <<>>
  <2>1. Len(h) \in Nat \ {0} /\ \A i \in 1..(Len(h) - 1) : h[i] \in Release
    BY <1>2
  <2>2. SubSeq(h, 1, Len(h) - 1) \in Seq(Release)
    BY <2>1, SubSeqProperties
  <2> QED BY <2>2 DEF Pop
<1> QED BY <1>1, <1>2

\* activate() cuts the history to its newest entries.
LEMMA CutType ==
  ASSUME NEW h \in Seq(Release)
  PROVE  Cut(h) \in Seq(Release)
<1> USE ReleaseAssumption
<1>1. CASE Len(h) > MaxHistory
  <2>1. \A i \in (Len(h) - MaxHistory + 1)..Len(h) : h[i] \in Release
    BY <1>1
  <2>2. SubSeq(h, Len(h) - MaxHistory + 1, Len(h)) \in Seq(Release)
    BY <2>1, <1>1, SubSeqProperties
  <2> QED BY <2>2, <1>1 DEF Cut
<1>2. CASE ~(Len(h) > MaxHistory)
  BY <1>2 DEF Cut
<1> QED BY <1>1, <1>2

\* rollback() saves a history that ends in the release it returns to.
LEMMA RewoundType ==
  ASSUME NEW h \in Seq(Release), NEW r \in Release, Positions(h, r) # {}
  PROVE  SubSeq(h, 1, Latest(Positions(h, r))) \in Seq(Release)
<1>1. Positions(h, r) \in SUBSET (1..Len(h)) /\ Len(h) \in Nat
  BY DEF Positions
<1>2. Latest(Positions(h, r)) \in 1..Len(h)
  BY <1>1, LatestIn
<1>3. \A i \in 1..Latest(Positions(h, r)) : h[i] \in Release
  BY <1>2
<1> QED BY <1>2, <1>3, SubSeqProperties

\* Every file operation leaves a well-formed store.
LEMMA StoreOperations ==
  ASSUME NEW s \in Store, NEW h \in Release, NEW p \in Release \cup {None},
         NEW on \in BOOLEAN
  PROVE  /\ Written(s, h) \in Store
         /\ Removed(s, h) \in Store
         /\ Swapped(s, p) \in Store
         /\ Recorded(s, h) \in Store
         /\ Unrecorded(s, h, p) \in Store
         /\ RewoundTo(s, h) \in Store
         /\ Pruned(s) \in Store
         /\ Trimmed(s) \in Store
         /\ Marked(s, on) \in Store
<1>1. s.history \in Seq(Release)
  BY DEF Store
<1>2. Written(s, h) \in Store /\ Removed(s, h) \in Store
  BY DEF Store, Written, Removed
<1>3. Swapped(s, p) \in Store /\ Marked(s, on) \in Store
  BY DEF Store, Swapped, Marked
<1>4. Recorded(s, h) \in Store
  BY <1>1, PushType, CutType DEF Store, Recorded
<1>5. Unrecorded(s, h, p) \in Store
  <2>1. Pop(s.history, h) \in Seq(Release)
    BY <1>1, PopType
  <2>2. p # None => Push(Pop(s.history, h), p) \in Seq(Release)
    BY <2>1, PushType
  <2> QED BY <2>1, <2>2 DEF Store, Unrecorded
<1>6. RewoundTo(s, h) \in Store
  <2>1. Positions(s.history, h) # {} =>
          SubSeq(s.history, 1, Latest(Positions(s.history, h))) \in Seq(Release)
    BY <1>1, RewoundType
  <2>2. <<h>> \in Seq(Release)
    OBVIOUS
  <2> QED BY <2>1, <2>2 DEF Store, RewoundTo
<1>7. Pruned(s) \in Store
  BY DEF Store, Pruned
<1>8. Trimmed(s) \in Store
  BY <1>1, OnlyInType DEF Store, Trimmed
<1> QED BY <1>2, <1>3, <1>4, <1>5, <1>6, <1>7, <1>8

\* The stopped marker is all that writing it changes.
LEMMA MarkedStore ==
  \A s \in Store, on \in BOOLEAN : Marked(s, on) \in Store
<1> Boot \in Release
  BY DEF Release
<1> QED BY StoreOperations

\* The store of an agent that accepted a release has it active.
LEMMA AppliedStore ==
  ASSUME NEW s \in Store, NEW h \in Hash, NEW stop \in BOOLEAN
  PROVE  Applied(s, h, stop) \in Store /\ Applied(s, h, stop).current = h
<1> h \in Release
  BY DEF Release
<1> DEFINE w == Written(s, h)
           x == Swapped(w, h)
           y == Recorded(x, h)
           m == Marked(y, stop)
           p == Pruned(m)
<1>1. w \in Store
  BY StoreOperations
<1>2. x \in Store /\ x.current = h
  BY <1>1, StoreOperations DEF Swapped, Store
<1>3. y \in Store /\ y.current = h
  BY <1>2, StoreOperations DEF Recorded, Store
<1>4. m \in Store /\ m.current = h
  BY <1>3, StoreOperations DEF Marked, Store
<1>5. p \in Store /\ p.current = h
  BY <1>4, StoreOperations DEF Pruned, Store
<1>6. Trimmed(p) \in Store /\ Trimmed(p).current = h
  BY <1>5, StoreOperations DEF Trimmed, Store
<1> QED BY <1>6 DEF Applied, Activated

-----------------------------------------------------------------------------
(* What a rollback goes back to *)

\* A store nothing was taken back in: its history ends with the active release.
Topped(s) ==
    \/ s.history = <<>> /\ s.current \in {None, Boot}
    \/ s.current \in s.dirs /\ Newest(s.history) = s.current

\* The table a trimmed history is read from.
LEMMA KeptTable ==
  ASSUME NEW S, NEW K, NEW h \in Seq(S)
  PROVE  \E f : /\ OnlyIn(h, K) = f[Len(h)]
                /\ \A i \in 0..Len(h) : f[i] \in Seq(S)
                /\ \A i \in 1..Len(h) : f[i] = IF h[i] \in K THEN Append(f[i - 1], h[i]) ELSE f[i - 1]
<1> DEFINE n == Len(h)
           F == CHOOSE g : KeptUpTo(g, h, K, n)
<1>0. n \in Nat
  OBVIOUS
<1>1. KeptUpTo(F, h, K, n)
  BY KeptExists, <1>0
<1>2. OnlyIn(h, K) = F[n]
  BY DEF OnlyIn, KeptUpTo
<1> HIDE DEF F, n
<1>3. PICK f : f = F
  OBVIOUS
<1>t. \A i \in 0..n : f[i] = IF i = 0 THEN <<>>
            ELSE IF h[i] \in K THEN Append(f[i - 1], h[i]) ELSE f[i - 1]
  BY <1>1, <1>3 DEF KeptUpTo
<1>4. \A i \in 1..n : f[i] = IF h[i] \in K THEN Append(f[i - 1], h[i]) ELSE f[i - 1]
  <2>1. \A i \in 1..n : i \in 0..n /\ i # 0
    BY <1>0
  <2> QED BY <2>1, <1>t
<1>5. \A i \in 0..n : f[i] \in Seq(S)
  <2> DEFINE Bad == { i \in 0..n : f[i] \notin Seq(S) }
  <2> SUFFICES ASSUME Bad # {} PROVE FALSE
    OBVIOUS
  <2>1. Bad \in SUBSET Nat
    BY <1>0
  <2>2. PICK m \in Bad : \A k \in Bad : m <= k
    BY <2>1, Least
  <2>3. f[0] = <<>> /\ m \in 0..n /\ f[0] \in Seq(S)
    <3>1. f[0] = <<>>
      BY <1>0, <1>t
    <3>2. \A q : q = <<>> => q \in Seq(S)
      OBVIOUS
    <3> QED BY <3>1, <3>2
  <2>4. m # 0
    BY <2>3
  <2>5. m - 1 \in 0..n /\ m \in 1..n /\ m - 1 \notin Bad
    BY <1>0, <2>2, <2>3, <2>4
  <2>6. f[m - 1] \in Seq(S) /\ h[m] \in S
    BY <2>5 DEF n
  <2>7. f[m] = IF h[m] \in K THEN Append(f[m - 1], h[m]) ELSE f[m - 1]
    BY <1>4, <2>5
  <2>8. \A q \in Seq(S) : \A c \in S : Append(q, c) \in Seq(S)
    OBVIOUS
  <2>9. f[m] \in Seq(S)
    BY <2>6, <2>7, <2>8, Zenon
  <2> QED BY <2>9
<1> QED BY <1>2, <1>3, <1>4, <1>5 DEF n

\* prune() keeps the newest entries of a history it does not drop.
LEMMA OnlyInEnd ==
  ASSUME NEW h \in Seq(Release), NEW K, h # <<>>, h[Len(h)] \in K
  PROVE  /\ OnlyIn(h, K) # <<>> /\ Newest(OnlyIn(h, K)) = h[Len(h)]
         /\ Len(h) > 1 /\ h[Len(h) - 1] \in K =>
              /\ Len(OnlyIn(h, K)) > 1
              /\ OnlyIn(h, K)[Len(OnlyIn(h, K)) - 1] = h[Len(h) - 1]
<1>1. PICK f : /\ OnlyIn(h, K) = f[Len(h)]
               /\ \A i \in 0..Len(h) : f[i] \in Seq(Release)
               /\ \A i \in 1..Len(h) : f[i] = IF h[i] \in K THEN Append(f[i - 1], h[i]) ELSE f[i - 1]
  BY KeptTable
<1>2. PICK n \in Nat : n = Len(h) /\ n > 0
  OBVIOUS
<1>3. f[n] = Append(f[n - 1], h[n]) /\ f[n - 1] \in Seq(Release) /\ h[n] \in Release
  <2>1. n \in 1..Len(h) /\ n - 1 \in 0..Len(h) /\ h[n] \in Release /\ h[n] \in K
    BY <1>2
  <2>2. f[n] = IF h[n] \in K THEN Append(f[n - 1], h[n]) ELSE f[n - 1]
    BY <1>1, <2>1, Zenon
  <2>3. f[n - 1] \in Seq(Release)
    BY <1>1, <2>1, Zenon
  <2> QED BY <2>1, <2>2, <2>3, Zenon
<1>4. ASSUME n > 1, h[n - 1] \in K
      PROVE  f[n - 1] = Append(f[n - 2], h[n - 1]) /\ f[n - 2] \in Seq(Release) /\ h[n - 1] \in Release
  <2>1. n - 1 \in 1..Len(h) /\ n - 2 \in 0..Len(h) /\ (n - 1) - 1 = n - 2 /\ h[n - 1] \in Release
    BY <1>2, <1>4
  <2>2. f[n - 1] = IF h[n - 1] \in K THEN Append(f[(n - 1) - 1], h[n - 1]) ELSE f[(n - 1) - 1]
    BY <1>1, <2>1, Zenon
  <2>3. f[n - 2] \in Seq(Release)
    BY <1>1, <2>1, Zenon
  <2> QED BY <1>4, <2>1, <2>2, <2>3, Zenon
<1>5. \A p \in Seq(Release) : \A d \in Release :
         LET q == Append(p, d) IN q # <<>> /\ q[Len(q)] = d
  OBVIOUS
<1>6. \A p \in Seq(Release) : \A c, d \in Release :
         LET q == Append(Append(p, c), d) IN Len(q) > 1 /\ q[Len(q) - 1] = c
  OBVIOUS
<1>7. OnlyIn(h, K) # <<>> /\ Newest(OnlyIn(h, K)) = h[Len(h)]
  BY <1>1, <1>2, <1>3, <1>5 DEF Newest
<1>8. ASSUME n > 1, h[n - 1] \in K
      PROVE  Len(OnlyIn(h, K)) > 1 /\ OnlyIn(h, K)[Len(OnlyIn(h, K)) - 1] = h[n - 1]
  <2>1. OnlyIn(h, K) = Append(Append(f[n - 2], h[n - 1]), h[n])
    BY <1>1, <1>2, <1>3, <1>4, <1>8
  <2> QED BY SMTT(60), <2>1, <1>3, <1>4, <1>6, <1>8
<1> QED BY <1>2, <1>7, <1>8

\* t is what prune() makes of m, which is s with h active, on disk and newest.
Trimming(s, h, m, t) ==
    /\ m.current = h /\ m.dirs = s.dirs \cup {h} /\ m.history = Cut(Push(s.history, h))
    /\ m.history # <<>> /\ m.history[Len(m.history)] = h
    /\ h \in m.dirs \cap Kept(m)
    /\ t \in Store /\ t.current = h
    /\ t.dirs = m.dirs \cap Kept(m)
    /\ t.history = OnlyIn(m.history, m.dirs \cap Kept(m))

\* An apply ends with prune().
LEMMA AppliedShape ==
  ASSUME NEW s \in Store, NEW h \in Hash, NEW on \in BOOLEAN
  PROVE  \E m \in Store : Trimming(s, h, m, Applied(s, h, on))
<1> DEFINE w == Written(s, h)
           x == Swapped(w, h)
           y == Recorded(x, h)
           m == Marked(y, on)
           p == Pruned(m)
           q == Cut(Push(s.history, h))
<1>0. h \in Release /\ h # None
  BY ReleaseAssumption DEF Release
<1>1. s.history \in Seq(Release) /\ s.dirs \in SUBSET Release
  BY DEF Store
<1>2. q \in Seq(Release) /\ q # <<>> /\ q[Len(q)] = h
  <2> DEFINE f == Push(s.history, h)
  <2>1. f \in Seq(Release) /\ f # <<>> /\ f[Len(f)] = h
    BY <1>0, <1>1 DEF Push, Newest
  <2> HIDE DEF f
  <2>2. CASE Len(f) > MaxHistory
    <3> DEFINE t == SubSeq(f, Len(f) - MaxHistory + 1, Len(f))
    <3>1. Cut(f) = t
      BY <2>2 DEF Cut
    <3>2. Len(f) - MaxHistory + 1 \in 1..Len(f) /\ Len(f) \in Nat
      BY <2>1, <2>2, ReleaseAssumption
    <3>3. Len(t) = MaxHistory /\ t[MaxHistory] = f[Len(f)]
      BY <2>1, <3>2, ReleaseAssumption
    <3>4. Cut(f) \in Seq(Release)
      BY <2>1, CutType
    <3> HIDE DEF t
    <3> QED BY <3>1, <3>3, <3>4, <2>1, ReleaseAssumption DEF f
  <2>3. CASE ~(Len(f) > MaxHistory)
    BY <2>1, <2>3 DEF Cut, f
  <2> QED BY <2>2, <2>3
<1>3. w \in Store /\ w.dirs = s.dirs \cup {h} /\ w.history = s.history
  BY <1>0, StoreOperations DEF Written, Store
<1>4. x \in Store /\ x.current = h /\ x.dirs = s.dirs \cup {h} /\ x.history = s.history
  <2> HIDE DEF w
  <2> QED BY <1>0, <1>3, StoreOperations DEF Swapped, Store
<1>5. y \in Store /\ y.current = h /\ y.dirs = s.dirs \cup {h} /\ y.history = q
  <2> HIDE DEF x
  <2> QED BY <1>0, <1>4, StoreOperations DEF Recorded, Store
<1>6. m \in Store /\ m.current = h /\ m.dirs = s.dirs \cup {h} /\ m.history = q
  <2> HIDE DEF y
  <2> QED BY <1>5, StoreOperations DEF Marked, Store
<1>7. Applied(s, h, on) = Trimmed(p)
  BY DEF Applied, Activated
<1> HIDE DEF m, q
<1>8. h \in m.dirs \cap Kept(m)
  BY <1>6 DEF Kept
<1>9. p \in Store /\ p.current = h /\ p.dirs = m.dirs \cap Kept(m) /\ p.history = q
  <2>1. p \in Store
    BY <1>0, <1>6, StoreOperations
  <2> QED BY <1>6, <2>1 DEF Pruned, Store
<1> HIDE DEF p
<1>10. Trimmed(p) \in Store /\ Trimmed(p).current = h /\ Trimmed(p).dirs = p.dirs
       /\ Trimmed(p).history = OnlyIn(p.history, p.dirs)
  <2>1. Trimmed(p) \in Store
    BY <1>0, <1>9, StoreOperations
  <2> QED BY <1>9, <2>1 DEF Trimmed, Store
<1>11. m.history = q /\ q = Cut(Push(s.history, h))
  BY <1>6 DEF q
<1>12. PICK t : t = Applied(s, h, on)
  OBVIOUS
<1>13. Trimming(s, h, m, t)
  BY <1>2, <1>6, <1>7, <1>8, <1>9, <1>10, <1>11, <1>12 DEF Trimming
<1> QED BY <1>6, <1>12, <1>13

\* A release that is applied ends the history.
LEMMA AppliedTopped ==
  ASSUME NEW s \in Store, NEW h \in Hash, NEW on \in BOOLEAN
  PROVE  Topped(Applied(s, h, on))
<1>1. PICK m \in Store : Trimming(s, h, m, Applied(s, h, on))
  BY AppliedShape, Zenon
<1>2. PICK t : t = Applied(s, h, on)
  OBVIOUS
<1>3. m.history \in Seq(Release) /\ Trimming(s, h, m, t)
  BY <1>1, <1>2 DEF Store
<1>4. Newest(OnlyIn(m.history, m.dirs \cap Kept(m))) = h
  BY <1>3, OnlyInEnd DEF Trimming
<1>5. Topped(t)
  BY <1>3, <1>4 DEF Topped, Trimming
<1> QED BY <1>2, <1>5

\* With room for two releases, the one before it is what a rollback goes back to.
\* (prune, previous)
LEMMA AppliedPrevious ==
  ASSUME NEW s \in Store, NEW h \in Hash, NEW on \in BOOLEAN, Topped(s),
         s.current \in Hash, h # s.current, Keep > 0, MaxHistory > 1
  PROVE  Previous(Applied(s, h, on)) = s.current
<1> DEFINE old == s.current
           q == Cut(Push(s.history, h))
<1>0. /\ old \in Release /\ h \in Release /\ old # None /\ old # Boot /\ h # Boot /\ h # None
      /\ Keep \in Nat /\ MaxHistory \in Nat
  BY ReleaseAssumption DEF Release
<1>1. s.history \in Seq(Release) /\ s.history # <<>> /\ s.history[Len(s.history)] = old /\ old \in s.dirs
  BY <1>0 DEF Topped, Newest, Store
<1>p. PICK m \in Store : Trimming(s, h, m, Applied(s, h, on))
  BY AppliedShape, Zenon
<1>b. PICK b : b = Applied(s, h, on)
  OBVIOUS
<1>2. /\ m.current = h /\ m.dirs = s.dirs \cup {h} /\ m.history = q
      /\ m.history # <<>> /\ m.history[Len(m.history)] = h
      /\ h \in m.dirs \cap Kept(m)
      /\ b.current = h
      /\ b.dirs = m.dirs \cap Kept(m)
      /\ b.history = OnlyIn(m.history, m.dirs \cap Kept(m))
  <2>1. Trimming(s, h, m, b)
    BY <1>p, <1>b
  <2> QED BY <2>1 DEF Trimming
<1> DEFINE K == m.dirs \cap Kept(m)
<1>q. q \in Seq(Release) /\ q # <<>> /\ q[Len(q)] = h /\ h \in K
      /\ b.dirs = K /\ b.history = OnlyIn(q, K)
  <2>1. m.history \in Seq(Release)
    BY DEF Store
  <2> HIDE DEF q
  <2> QED BY <1>2, <2>1
<1>3. Len(q) > 1 /\ q[Len(q) - 1] = old
  <2> DEFINE p == Append(s.history, h)
  <2>1. Push(s.history, h) = p
    BY <1>1 DEF Push, Newest
  <2>2. p \in Seq(Release) /\ Len(p) \in Nat /\ Len(p) > 1 /\ p[Len(p) - 1] = old
    BY <1>0, <1>1
  <2> HIDE DEF p
  <2>3. CASE Len(p) > MaxHistory
    <3> DEFINE t == SubSeq(p, Len(p) - MaxHistory + 1, Len(p))
    <3>1. Cut(p) = t
      BY <2>3 DEF Cut
    <3>2. Len(p) - MaxHistory + 1 \in 1..Len(p)
      BY <1>0, <2>2, <2>3
    <3>3. Len(t) = MaxHistory /\ t[MaxHistory - 1] = p[Len(p) - 1]
      BY <1>0, <2>2, <3>2
    <3> HIDE DEF t
    <3> QED BY <1>0, <2>1, <2>2, <3>1, <3>3
  <2>4. CASE ~(Len(p) > MaxHistory)
    BY <2>1, <2>2, <2>4 DEF Cut
  <2> QED BY <2>3, <2>4
<1>4. m.current = h /\ m.history = q /\ m.dirs = s.dirs \cup {h}
  BY <1>2
<1> HIDE DEF q, old
<1>5. old \in Kept(m)
  <2> DEFINE n == Len(m.history)
             X == {m.current, Boot} \cup { m.history[k] : k \in ((n - 1) + 1)..n }
  <2>1. n \in Nat /\ n > 1
    BY <1>q, <1>3, <1>4
  <2>2. ((n - 1) + 1)..n = {n} /\ n - 1 \in 1..n
    BY <2>1
  <2>3. X = {h, Boot}
    BY <1>q, <1>4, <2>2
  <2>4. Cardinality(X) = 2
    <3>1. IsFiniteSet({h}) /\ Cardinality({h}) = 1
      BY FS_Singleton
    <3>2. Boot \notin {h} /\ Cardinality({h} \cup {Boot}) = IF Boot \in {h} THEN Cardinality({h}) ELSE Cardinality({h}) + 1
      BY <1>0, <3>1, FS_AddElement
    <3>3. X = {h} \cup {Boot}
      BY <2>3
    <3>4. Cardinality({h} \cup {Boot}) = 2
      BY <3>1, <3>2
    <3> QED BY <3>3, <3>4, Zenon
  <2>5. Cardinality(X) < Keep + 2
    BY <1>0, <2>4
  <2> DEFINE J == { j \in 1..n : Cardinality({m.current, Boot} \cup { m.history[k] : k \in (j + 1)..n }) < Keep + 2 }
  <2>6. n - 1 \in J
    BY <2>2, <2>5
  <2>7. m.history[n - 1] \in Kept(m)
    <3>1. Kept(m) = {m.current, Boot} \cup { m.history[i] : i \in J }
      BY DEF Kept
    <3> HIDE DEF J
    <3> QED BY <2>6, <3>1
  <2> QED BY <1>3, <1>4, <2>7
<1>6. old \in K
  BY <1>1, <1>4, <1>5 DEF old
<1> HIDE DEF K
<1> DEFINE g == OnlyIn(q, K)
<1>7. /\ g # <<>> /\ Newest(g) = h
      /\ Len(g) > 1 /\ g[Len(g) - 1] = old
  BY <1>q, <1>3, <1>6, OnlyInEnd
<1>8. g \in Seq(Release)
  BY <1>q, OnlyInType
<1> HIDE DEF g
<1>9. PICK n \in Nat : n = Len(g) /\ n > 1 /\ g[n] = h /\ g[n - 1] = old
  BY <1>7, <1>8 DEF Newest
<1>10. b.current = h /\ b.dirs = K /\ b.history = g
  BY <1>2, <1>q DEF g
<1> DEFINE at == Positions(g, h)
<1>11. at \in SUBSET (1..n) /\ n \in at
  BY <1>9 DEF Positions
<1>12. Latest(at) = n
  <2>1. Latest(at) \in at /\ \A j \in at : j <= Latest(at)
    BY <1>11, LatestIn
  <2>2. n <= Latest(at) /\ Latest(at) \in 1..n
    BY <1>11, <2>1
  <2> QED BY <2>2
<1>13. Earlier(b) = { j \in 1..(n - 1) : g[j] # h /\ g[j] \in K }
  BY <1>10, <1>11, <1>12 DEF Earlier
<1> DEFINE E == { j \in 1..(n - 1) : g[j] # h /\ g[j] \in K }
<1>14. E \in SUBSET (1..(n - 1)) /\ n - 1 \in E
  BY <1>6, <1>9 DEF old
<1> HIDE DEF E
<1>15. Latest(E) = n - 1
  <2>0. PICK k \in Nat : k = n - 1
    BY <1>9
  <2>1. Latest(E) \in E /\ \A j \in E : j <= Latest(E)
    <3>1. E \in SUBSET (1..k) /\ E # {}
      BY <1>14, <2>0
    <3> QED BY <3>1, LatestIn
  <2>2. n - 1 <= Latest(E) /\ Latest(E) \in 1..(n - 1)
    BY <1>14, <2>1
  <2> QED BY <2>2
<1>16. Previous(b) = g[n - 1]
  BY <1>10, <1>13, <1>14, <1>15 DEF Previous, E
<1> QED BY <1>9, <1>16, <1>b DEF old

\* The stopped marker is not part of the history.
LEMMA MarkedTopped ==
  ASSUME NEW s \in Store, NEW on \in BOOLEAN
  PROVE  /\ Marked(s, on) \in Store /\ Marked(s, on).current = s.current
         /\ Topped(s) => Topped(Marked(s, on))
<1>1. PICK m : m = Marked(s, on)
  OBVIOUS
<1>2. m = [s EXCEPT !.stopped = on]
  BY <1>1 DEF Marked
<1>3. m \in Store /\ m.current = s.current /\ m.dirs = s.dirs /\ m.history = s.history
  BY <1>2 DEF Store
<1>4. Topped(s) => Topped(m)
  BY <1>3 DEF Topped
<1> QED BY <1>1, <1>3, <1>4

\* The link points at nothing, or at a release on disk.
Present(s) == s.current # None => s.current \in s.dirs

\* revert() puts the release it goes back to on top of the history again.
LEMMA UndoneTopped ==
  ASSUME NEW s \in Store, NEW h \in Release, Topped(s), Present(s)
  PROVE  Topped(Undone(s, h)) /\ Present(Undone(s, h)) /\ Undone(s, h) \in Store
<1> DEFINE a == Activated(s, h)
           x == Swapped(a, s.current)
           q == Cut(Push(s.history, h))
           g == IF s.current = None THEN Pop(q, h) ELSE Push(Pop(q, h), s.current)
<1>0. s.current \in Release \cup {None} /\ None \notin Release /\ s.history \in Seq(Release)
  BY ReleaseAssumption DEF Store, Release
<1>1. a \in Store /\ a.dirs = s.dirs \cup {h} /\ a.history = q
  <2>1. Written(s, h) \in Store /\ Written(s, h).dirs = s.dirs \cup {h} /\ Written(s, h).history = s.history
    BY StoreOperations DEF Written, Store
  <2>2. PICK w : w = Written(s, h)
    OBVIOUS
  <2>3. Swapped(w, h) \in Store /\ Swapped(w, h).dirs = s.dirs \cup {h} /\ Swapped(w, h).history = s.history
    BY <2>1, <2>2, StoreOperations DEF Swapped, Store
  <2>4. PICK v : v = Swapped(w, h)
    OBVIOUS
  <2>5. Recorded(v, h) \in Store /\ Recorded(v, h).dirs = s.dirs \cup {h} /\ Recorded(v, h).history = q
    BY <2>3, <2>4, StoreOperations DEF Recorded, Store
  <2> QED BY <2>2, <2>4, <2>5 DEF Activated
<1> HIDE DEF a, q
<1>2. x \in Store /\ x.current = s.current /\ x.dirs = s.dirs \cup {h} /\ x.history = q
  BY <1>0, <1>1, StoreOperations DEF Swapped, Store
<1> HIDE DEF x
<1>3. PICK u : u = Undone(s, h)
  OBVIOUS
<1>4. u = Unrecorded(x, h, s.current)
  BY <1>3 DEF Undone, x, a
<1>5. u \in Store /\ u.current = s.current /\ u.dirs = s.dirs \cup {h} /\ u.history = g
  <2>1. u \in Store
    BY <1>0, <1>2, <1>4, StoreOperations
  <2> QED BY <1>2, <1>4, <2>1 DEF Unrecorded, Store
<1>6. CASE s.current = None
  <2>1. s.history = <<>>
    BY <1>0, <1>6 DEF Topped, Store
  <2>2. q = <<h>> /\ Newest(<<h>>) = h
    <3>1. Push(<<>>, h) = <<h>>
      BY <1>0 DEF Push, Newest
    <3>2. Cut(<<h>>) = <<h>>
      BY ReleaseAssumption DEF Cut
    <3> QED BY <2>1, <3>1, <3>2 DEF Newest, q
  <2>3. g = <<>>
    BY <1>6, <2>2 DEF Pop
  <2> QED BY <1>3, <1>5, <1>6, <2>3 DEF Topped, Present
<1>7. CASE s.current # None
  <2>1. Pop(q, h) \in Seq(Release)
    BY <1>0, PushType, CutType, PopType DEF q
  <2>2. PICK b \in Seq(Release) : b = Pop(q, h)
    BY <2>1
  <2>3. Newest(Push(b, s.current)) = s.current
    BY <1>0, <1>7, <2>2 DEF Push, Newest
  <2>4. s.current \in u.dirs
    BY <1>5, <1>7 DEF Present
  <2> QED BY <1>3, <1>5, <1>7, <2>2, <2>3, <2>4 DEF Topped, Present
<1> QED BY <1>6, <1>7

\* rollback() drops what the history has after the release it returns to.
LEMMA RolledBackTopped ==
  ASSUME NEW s \in Store, Previous(s) # None
  PROVE  Topped(RolledBack(s)) /\ Present(RolledBack(s)) /\ RolledBack(s) \in Store
<1> DEFINE p == Previous(s)
           x == Swapped(s, p)
<1>1. p \in s.dirs /\ p \in Release /\ s.history \in Seq(Release)
  BY PreviousOnDisk DEF Store
<1> HIDE DEF p
<1>2. x \in Store /\ x.current = p /\ x.dirs = s.dirs /\ x.history = s.history
  BY <1>1, StoreOperations DEF Swapped, Store
<1> HIDE DEF x
<1>3. PICK u : u = RolledBack(s)
  OBVIOUS
<1>4. u = RewoundTo(x, p)
  BY <1>3 DEF RolledBack, x, p
<1> DEFINE at == Positions(s.history, p)
           g == IF at = {} THEN <<p>> ELSE SubSeq(s.history, 1, Latest(at))
<1>5. u \in Store /\ u.current = p /\ u.dirs = s.dirs /\ u.history = g
  <2>1. u \in Store
    BY <1>1, <1>2, <1>4, StoreOperations
  <2> QED BY <1>2, <1>4, <2>1 DEF RewoundTo, Store
<1>6. Newest(g) = p
  <2>1. CASE at = {}
    BY <2>1 DEF Newest
  <2>2. CASE at # {}
    <3>1. Len(s.history) \in Nat /\ at \in SUBSET (1..Len(s.history))
      BY <1>1 DEF Positions
    <3>2. Latest(at) \in at
      BY <2>2, <3>1, LatestIn
    <3>3. PICK n : n = Latest(at)
      OBVIOUS
    <3>n. n \in 1..Len(s.history) /\ s.history[n] = p
      <4>1. n \in at
        BY <3>2, <3>3
      <4> QED BY <4>1 DEF Positions
    <3>4. SubSeq(s.history, 1, n) # <<>> /\ Len(SubSeq(s.history, 1, n)) = n /\ SubSeq(s.history, 1, n)[n] = p
      BY <1>1, <3>n
    <3>5. g = SubSeq(s.history, 1, n)
      BY <2>2, <3>3
    <3> QED BY <3>4, <3>5 DEF Newest
  <2> QED BY <2>1, <2>2
<1> QED BY <1>1, <1>3, <1>5, <1>6 DEF Topped, Present
=============================================================================
