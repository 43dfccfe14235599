---------------------------- MODULE QueueProofs ----------------------------
(***************************************************************************)
(* What the operations on a waiting list do to its entries.  Induction is  *)
(* by the least counterexample: a nonempty set of naturals has a least     *)
(* element, because < is well-founded.                                     *)
(***************************************************************************)
EXTENDS Queues, WellFoundedInduction, TLAPS

\* A nonempty set of naturals has a least element.
Lt == {ss \in Nat \X Nat : ss[1] < ss[2]}

LEMMA LeastNatural ==
  ASSUME NEW S \in SUBSET Nat, S # {}
  PROVE  \E x \in S : \A y \in S : x <= y
PROOF
  <1>1. IsWellFoundedOn(Lt, Nat) /\ Lt \in SUBSET (Nat \X Nat)
    BY NatLessThanWellFounded DEF OpToRel, Lt
  <1>2. PICK x \in S : \A y \in Nat : <<y, x>> \in Lt => y \notin S
    BY <1>1, WFMin
  <1>3. \A y \in S : x <= y
    <2> TAKE y \in S
    <2>1. y \in Nat /\ x \in Nat OBVIOUS
    <2>2. <<y, x>> \in Lt <=> y < x BY <2>1 DEF Lt
    <2> QED BY <1>2, <2>1, <2>2
  <1> QED BY <1>3

\* What enqueue and dequeue do to the entries.
LEMMA AppendSet ==
  ASSUME NEW T, NEW q \in Seq(T), NEW x \in T
  PROVE  Append(q, x) \in Seq(T) /\ ToSet(Append(q, x)) = ToSet(q) \cup {x}
PROOF
  <1> DEFINE a == Append(q, x)
  <1>1. a \in Seq(T) /\ Len(a) = Len(q) + 1 OBVIOUS
  <1>2. DOMAIN a = 1 .. (Len(q) + 1) /\ DOMAIN q = 1 .. Len(q) BY <1>1
  <1>3. \A j \in DOMAIN a : a[j] = IF j = Len(q) + 1 THEN x ELSE q[j] BY <1>1
  <1>4. a[Len(q) + 1] = x /\ Len(q) + 1 \in DOMAIN a BY <1>2, <1>3
  <1>5. \A j \in DOMAIN q : j \in DOMAIN a /\ a[j] = q[j] BY <1>2, <1>3
  <1>6. \A j \in DOMAIN a : a[j] = x \/ (j \in DOMAIN q /\ a[j] = q[j]) BY <1>2, <1>3
  <1> HIDE DEF a
  <1>7. ToSet(a) = ToSet(q) \cup {x} BY <1>4, <1>5, <1>6 DEF ToSet
  <1> QED BY <1>1, <1>7 DEF a

\* What is left after the first entry has been taken out.
LEMMA TailSet ==
  ASSUME NEW T, NEW q \in Seq(T), q # <<>>
  PROVE  /\ Head(q) \in T /\ Tail(q) \in Seq(T) /\ ToSet(q) \subseteq T
         /\ ToSet(q) = {Head(q)} \cup ToSet(Tail(q))
PROOF
  <1> DEFINE r == Tail(q)
  <1>1. Len(q) \in Nat /\ Len(q) # 0 OBVIOUS
  <1>2. r \in Seq(T) /\ Len(r) = Len(q) - 1 /\ \A j \in 1 .. Len(r) : r[j] = q[j + 1] BY <1>1
  <1>3. Head(q) = q[1] /\ 1 \in DOMAIN q BY <1>1
  <1>4. DOMAIN q = 1 .. Len(q) /\ DOMAIN r = 1 .. Len(r) BY <1>2
  <1>5. \A j \in DOMAIN r : j + 1 \in DOMAIN q /\ r[j] = q[j + 1] BY <1>1, <1>2, <1>4
  <1>6. \A j \in DOMAIN q : j # 1 => j - 1 \in DOMAIN r /\ q[j] = r[j - 1]
    BY <1>1, <1>2, <1>4
  <1>7. \A j \in DOMAIN q : q[j] \in T BY <1>4
  <1> HIDE DEF r
  <1>8. ToSet(q) = {Head(q)} \cup ToSet(r) BY <1>3, <1>5, <1>6 DEF ToSet
  <1>9. ToSet(q) \subseteq T BY <1>7 DEF ToSet
  <1> QED BY <1>2, <1>3, <1>7, <1>8, <1>9 DEF r

\* Kept is the function that goes through the entries once.
Pass(q, t, n, f) ==
  [i \in 0 .. n |->
     IF i = 0 THEN <<>> ELSE IF q[i] = t THEN f[i - 1] ELSE Append(f[i - 1], q[i])]

LEMMA KeptDef == ASSUME NEW q, NEW t PROVE Kept(q, t) = CHOOSE f : f = Pass(q, t, Len(q), f)
  BY DEF Kept, Pass

LEMMA PassExists ==
  ASSUME NEW T, NEW q \in Seq(T), NEW t
  PROVE  \A n \in 0 .. Len(q) : \E f : f = Pass(q, t, n, f)
PROOF
  <1> DEFINE Bad == {n \in 0 .. Len(q) : ~\E f : f = Pass(q, t, n, f)}
  <1>1. SUFFICES ASSUME Bad # {} PROVE FALSE OBVIOUS
  <1>2. Bad \in SUBSET Nat OBVIOUS
  <1>3. PICK n \in Bad : \A m \in Bad : n <= m BY <1>1, <1>2, LeastNatural
  <1>4. n # 0
    <2> SUFFICES ASSUME n = 0 PROVE FALSE OBVIOUS
    <2> DEFINE f == [i \in 0 .. 0 |-> <<>>]
    <2>1. f = Pass(q, t, 0, f) BY DEF Pass
    <2> QED BY <2>1
  <1>5. PICK g : g = Pass(q, t, n - 1, g)
    <2>1. n - 1 \in 0 .. Len(q) /\ n - 1 \notin Bad BY <1>2, <1>3, <1>4
    <2> QED BY <2>1
  <1> DEFINE last == IF q[n] = t THEN g[n - 1] ELSE Append(g[n - 1], q[n])
  <1> HIDE DEF last
  <1> DEFINE f == [i \in 0 .. n |-> IF i = n THEN last ELSE g[i]]
  <1>6. f = Pass(q, t, n, f)
    <2>0. n \in Nat /\ n # 0 BY <1>2, <1>4
    <2> SUFFICES ASSUME NEW i \in 0 .. n
                 PROVE  f[i] = IF i = 0 THEN <<>>
                               ELSE IF q[i] = t THEN f[i - 1] ELSE Append(f[i - 1], q[i])
      BY DEF Pass
    <2>1. CASE i = n
      <3>1. f[i] = last /\ f[i - 1] = g[n - 1] BY <2>0, <2>1
      <3> QED BY <3>1, <2>1, <2>0 DEF last
    <2>2. CASE i # n
      <3>1. i \in 0 .. n - 1 /\ f[i] = g[i] BY <2>0, <2>2
      <3>2. i # 0 => f[i - 1] = g[i - 1] BY <2>0, <2>2
      <3>3. g[i] = IF i = 0 THEN <<>>
                   ELSE IF q[i] = t THEN g[i - 1] ELSE Append(g[i - 1], q[i])
        BY <1>5, <3>1 DEF Pass
      <3> QED BY <3>1, <3>2, <3>3
    <2> QED BY <2>1, <2>2
  <1> HIDE DEF f
  <1> QED BY <1>3, <1>6

\* What is put back while the first i entries are gone through.
LEMMA KeptStep ==
  ASSUME NEW T, NEW q \in Seq(T), NEW t, NEW i \in 0 .. Len(q)
  PROVE  Kept(q, t)[i] = IF i = 0 THEN <<>>
                         ELSE IF q[i] = t THEN Kept(q, t)[i - 1]
                         ELSE Append(Kept(q, t)[i - 1], q[i])
PROOF
  <1>1. Len(q) \in 0 .. Len(q) OBVIOUS
  <1>2. \E f : f = Pass(q, t, Len(q), f) BY <1>1, PassExists
  <1> DEFINE k == CHOOSE f : f = Pass(q, t, Len(q), f)
  <1>3. k = Pass(q, t, Len(q), k) BY <1>2
  <1>4. k = Kept(q, t) BY KeptDef
  <1> QED BY <1>3, <1>4 DEF Pass

\* The first n entries.
Among(q, n) == {q[j] : j \in 1 .. n}

\* After i entries, what has been put back is the ones among them that are not the one removed.
LEMMA KeptSeq ==
  ASSUME NEW T, NEW q \in Seq(T), NEW t, NEW n \in 0 .. Len(q)
  PROVE  /\ Kept(q, t)[n] \in Seq(T) /\ Len(Kept(q, t)[n]) <= n
         /\ ToSet(Kept(q, t)[n]) = Among(q, n) \ {t}
PROOF
  <1> DEFINE k == Kept(q, t)
             Good(i) == /\ k[i] \in Seq(T) /\ Len(k[i]) <= i
                        /\ ToSet(k[i]) = Among(q, i) \ {t}
             Bad == {i \in 0 .. Len(q) : ~Good(i)}
  <1>1. SUFFICES ASSUME Bad # {} PROVE FALSE OBVIOUS
  <1>2. Bad \in SUBSET Nat OBVIOUS
  <1>3. PICK i \in Bad : \A m \in Bad : i <= m BY <1>1, <1>2, LeastNatural
  <1>4. \A j \in 0 .. Len(q) : k[j] = IF j = 0 THEN <<>>
                         ELSE IF q[j] = t THEN k[j - 1] ELSE Append(k[j - 1], q[j])
    BY KeptStep
  <1> HIDE DEF k
  <1>5. i # 0
    <2> SUFFICES ASSUME i = 0 PROVE FALSE OBVIOUS
    <2>1. k[0] = <<>> BY <1>4
    <2>2. ToSet(k[0]) = {} BY <2>1 DEF ToSet
    <2>3. Among(q, 0) = {} BY DEF Among
    <2>4. Good(0) BY <2>1, <2>2, <2>3
    <2> QED BY <2>4
  <1>6. i \in 1 .. Len(q) /\ i - 1 \in 0 .. Len(q) /\ i - 1 \notin Bad
    <2>1. i \in Nat /\ Len(q) \in Nat /\ i <= Len(q) BY <1>3
    <2>2. i - 1 \notin Bad
      <3> SUFFICES ASSUME i - 1 \in Bad PROVE FALSE OBVIOUS
      <3>1. i <= i - 1 BY <1>3
      <3> QED BY <3>1, <2>1
    <2> QED BY <2>1, <2>2, <1>5
  <1>7. Good(i - 1) BY <1>6
  <1> DEFINE p == k[i - 1]
  <1>8. /\ p \in Seq(T) /\ Len(p) <= i - 1
        /\ ToSet(p) = Among(q, i - 1) \ {t}
    BY <1>7
  <1>9. k[i] = IF q[i] = t THEN p ELSE Append(p, q[i]) BY <1>4, <1>6
  <1> HIDE DEF p
  <1>10. q[i] \in T BY <1>6
  <1>11. Among(q, i) = Among(q, i - 1) \cup {q[i]} BY <1>6 DEF Among
  <1>12. CASE q[i] = t
    <2>1. ToSet(k[i]) = Among(q, i) \ {t}
      BY <1>8, <1>9, <1>11, <1>12
    <2>2. k[i] \in Seq(T) /\ Len(k[i]) <= i BY <1>6, <1>8, <1>9, <1>12
    <2>3. Good(i) BY <2>1, <2>2
    <2> QED BY <2>3
  <1>13. CASE q[i] # t
    <2>1. k[i] = Append(p, q[i]) BY <1>9, <1>13
    <2>2. k[i] \in Seq(T) /\ Len(k[i]) = Len(p) + 1 BY <2>1, <1>8, <1>10
    <2>3. ToSet(k[i]) = ToSet(p) \cup {q[i]} BY <2>1, <1>8, <1>10, AppendSet
    <2>4. Len(k[i]) <= i BY <2>2, <1>8, <1>6
    <2>5. ToSet(k[i]) = Among(q, i) \ {t}
      BY <2>3, <1>8, <1>11, <1>13
    <2>6. Good(i) BY <2>2, <2>4, <2>5
    <2> QED BY <2>6
  <1> QED BY <1>12, <1>13

\* remove takes every entry of the thread out and leaves the others.
LEMMA WithoutLeaves ==
  ASSUME NEW T, NEW q \in Seq(T), NEW t
  PROVE  /\ Without(q, t) \in Seq(T) /\ Len(Without(q, t)) <= Len(q)
         /\ ToSet(Without(q, t)) = ToSet(q) \ {t}
PROOF
  <1>1. Len(q) \in 0 .. Len(q) /\ DOMAIN q = 1 .. Len(q) OBVIOUS
  <1>2. ToSet(q) = Among(q, Len(q)) BY <1>1 DEF ToSet, Among
  <1>3. /\ Kept(q, t)[Len(q)] \in Seq(T) /\ Len(Kept(q, t)[Len(q)]) <= Len(q)
        /\ ToSet(Kept(q, t)[Len(q)]) = Among(q, Len(q)) \ {t}
    BY <1>1, KeptSeq
  <1> QED BY <1>2, <1>3 DEF Without

-----------------------------------------------------------------------------
(* Queues without repetitions                                              *)

\* Nobody stands in the queue twice.
SingleIn(q) == \A i, j \in DOMAIN q : q[i] = q[j] => i = j

LEMMA SeqSet ==
  ASSUME NEW T, NEW q \in Seq(T)
  PROVE  /\ Len(q) \in Nat /\ DOMAIN q = 1 .. Len(q) /\ ToSet(q) \subseteq T
         /\ \A i \in DOMAIN q : q[i] \in ToSet(q) /\ q[i] \in T
PROOF
  <1>1. Len(q) \in Nat /\ DOMAIN q = 1 .. Len(q) OBVIOUS
  <1>2. \A i \in DOMAIN q : q[i] \in T BY <1>1
  <1> QED BY <1>1, <1>2 DEF ToSet

\* The empty queue.
LEMMA EmptySet == ToSet(<<>>) = {} /\ SingleIn(<<>>) /\ Len(<<>>) = 0
  BY DEF ToSet, SingleIn

LEMMA EmptyOnly ==
  ASSUME NEW T, NEW q \in Seq(T), ToSet(q) = {}
  PROVE  q = <<>>
PROOF
  <1>1. Len(q) \in Nat /\ DOMAIN q = 1 .. Len(q) OBVIOUS
  <1>2. \A i \in DOMAIN q : q[i] \in ToSet(q) BY DEF ToSet
  <1>3. ASSUME Len(q) # 0 PROVE FALSE
    <2>1. 1 \in DOMAIN q BY <1>1, <1>3
    <2> QED BY <2>1, <1>2
  <1> QED BY <1>1, <1>3

\* enqueue of a thread that is not in the queue.
LEMMA AppendSingle ==
  ASSUME NEW T, NEW q \in Seq(T), NEW x \in T, SingleIn(q), x \notin ToSet(q)
  PROVE  SingleIn(Append(q, x))
PROOF
  <1> DEFINE a == Append(q, x)
  <1>1. Len(q) \in Nat /\ DOMAIN q = 1 .. Len(q) /\ DOMAIN a = 1 .. Len(q) + 1 OBVIOUS
  <1>2. \A j \in DOMAIN a : a[j] = IF j = Len(q) + 1 THEN x ELSE q[j] BY <1>1
  <1>3. \A j \in DOMAIN a : j # Len(q) + 1 => j \in DOMAIN q BY <1>1
  <1>4. \A j \in DOMAIN q : q[j] # x BY DEF ToSet
  <1> HIDE DEF a
  <1>5. SingleIn(a) BY <1>2, <1>3, <1>4 DEF SingleIn
  <1> QED BY <1>5 DEF a

\* The first entry is taken off.
LEMMA TailSingle ==
  ASSUME NEW T, NEW q \in Seq(T), q # <<>>, SingleIn(q)
  PROVE  SingleIn(Tail(q)) /\ Head(q) \notin ToSet(Tail(q))
PROOF
  <1> DEFINE r == Tail(q)
  <1>1. Len(q) \in Nat \ {0} /\ DOMAIN q = 1 .. Len(q) /\ DOMAIN r = 1 .. Len(q) - 1 OBVIOUS
  <1>2. \A j \in DOMAIN r : r[j] = q[j + 1] BY <1>1
  <1>3. \A j \in DOMAIN r : j + 1 \in DOMAIN q /\ j + 1 # 1 BY <1>1
  <1>4. Head(q) = q[1] /\ 1 \in DOMAIN q BY <1>1
  <1> HIDE DEF r
  <1>5. SingleIn(r)
    <2> SUFFICES ASSUME NEW j \in DOMAIN r, NEW k \in DOMAIN r, r[j] = r[k] PROVE j = k
      BY DEF SingleIn
    <2>1. j + 1 = k + 1 BY <1>2, <1>3 DEF SingleIn
    <2> QED BY <2>1, <1>1
  <1>6. q[1] \notin ToSet(r)
    <2> SUFFICES ASSUME NEW j \in DOMAIN r, r[j] = q[1] PROVE FALSE BY DEF ToSet
    <2> QED BY <1>2, <1>3, <1>4 DEF SingleIn
  <1> QED BY <1>4, <1>5, <1>6 DEF r

\* remove keeps a queue single.
LEMMA WithoutSingle ==
  ASSUME NEW T, NEW q \in Seq(T), NEW t, SingleIn(q)
  PROVE  SingleIn(Without(q, t))
PROOF
  <1> DEFINE k == Kept(q, t)
             Bad == {i \in 0 .. Len(q) : ~SingleIn(k[i])}
  <1>0. Len(q) \in Nat /\ DOMAIN q = 1 .. Len(q) OBVIOUS
  <1>1. SUFFICES ASSUME Bad # {} PROVE FALSE
    <2>1. Len(q) \in 0 .. Len(q) OBVIOUS
    <2> QED BY <2>1 DEF Without
  <1>2. Bad \in SUBSET Nat OBVIOUS
  <1>3. PICK i \in Bad : \A m \in Bad : i <= m BY <1>1, <1>2, LeastNatural
  <1>4. \A j \in 0 .. Len(q) : k[j] = IF j = 0 THEN <<>>
                         ELSE IF q[j] = t THEN k[j - 1] ELSE Append(k[j - 1], q[j])
    BY KeptStep
  <1> HIDE DEF k
  <1>6. i # 0 BY <1>0, <1>3, <1>4, EmptySet
  <1>7. i \in 1 .. Len(q) /\ i - 1 \in 0 .. Len(q) /\ i - 1 \notin Bad
    <2>1. i \in Nat /\ i <= Len(q) BY <1>3
    <2>2. i - 1 \notin Bad
      <3> SUFFICES ASSUME i - 1 \in Bad PROVE FALSE OBVIOUS
      <3>1. i <= i - 1 BY <1>3
      <3> QED BY <3>1, <2>1
    <2> QED BY <2>1, <2>2, <1>0, <1>6
  <1>5. k[i - 1] \in Seq(T) /\ ToSet(k[i - 1]) = Among(q, i - 1) \ {t}
    BY <1>7, KeptSeq DEF k
  <1>8. SingleIn(k[i - 1]) /\ ~SingleIn(k[i]) BY <1>3, <1>7
  <1>9. k[i] = Append(k[i - 1], q[i]) /\ q[i] # t
    <2>1. i \in 0 .. Len(q) /\ i # 0 BY <1>0, <1>7
    <2>2. k[i] = IF q[i] = t THEN k[i - 1] ELSE Append(k[i - 1], q[i]) BY <2>1, <1>4
    <2> QED BY <2>2, <1>8
  <1>10. q[i] \notin ToSet(k[i - 1])
    <2> SUFFICES ASSUME q[i] \in ToSet(k[i - 1]) PROVE FALSE OBVIOUS
    <2>1. PICK m \in 1 .. (i - 1) : q[i] = q[m] BY <1>5 DEF Among
    <2>2. m \in DOMAIN q /\ i \in DOMAIN q /\ m # i BY <1>0, <1>7
    <2> QED BY <2>1, <2>2 DEF SingleIn
  <1>11. q[i] \in T /\ k[i - 1] \in Seq(T) BY <1>0, <1>5, <1>7
  <1> QED BY <1>8, <1>9, <1>10, <1>11, AppendSingle
=============================================================================
