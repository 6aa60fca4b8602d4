--------------------------- MODULE S3StreamProofs ---------------------------
(***************************************************************************)
(* Proofs about S3Stream, for any numbers of trims, DeleteRecords requests *)
(* and fetches, any batch sizes and any target size.  What the objects     *)
(* hold is proved for one upload and one compaction of the stream at a     *)
(* time (OneAtATime): two compactions may merge the same objects.          *)
(***************************************************************************)
EXTENDS S3Stream, FiniteSetTheorems, WellFoundedInduction, TLAPS

-----------------------------------------------------------------------------
(* Naturals: least elements, and with them induction over an interval and  *)
(* the functions that recursion over an interval defines.                  *)

\* A non-empty set of naturals has a least element.
LEMMA LeastNatural ==
    ASSUME NEW T \in SUBSET Nat, T # {}
    PROVE  \E x \in T : \A y \in T : x <= y
  <1> DEFINE R == OpToRel(<, Nat)
  <1>1. IsWellFoundedOn(R, Nat)
    BY NatLessThanWellFounded, Zenon
  <1>2. \A x, y \in Nat : y < x => <<y, x>> \in R
    BY DEF OpToRel
  <1> HIDE DEF R
  <1>3. PICK x \in T : \A y \in T : ~ (<<y, x>> \in R)
    BY <1>1, WFMin, Zenon
  <1>4. \A y \in T : ~ (y < x)
    BY <1>2, <1>3, Zenon
  <1> QED
    BY <1>4

\* Induction: what holds of 0 and passes from i - 1 to i holds up to N.
LEMMA UpTo ==
    ASSUME NEW N \in Nat, NEW G, 0 \in G, \A i \in 1..N : i - 1 \in G => i \in G
    PROVE  \A i \in 0..N : i \in G
  <1> DEFINE bad == {i \in 0..N : i \notin G}
  <1>1. bad \in SUBSET Nat
    OBVIOUS
  <1>2. ASSUME bad # {} PROVE FALSE
    <2>1. PICK x \in bad : \A y \in bad : x <= y
      BY <1>1, <1>2, LeastNatural, Zenon
    <2>2. x \in 1..N /\ x - 1 \in 0..N /\ ~(x <= x - 1)
      BY <2>1
    <2>3. x - 1 \in G
      BY <2>1, <2>2
    <2> QED
      BY <2>1, <2>2, <2>3
  <1> QED
    BY <1>2

\* The steps h of a recursion from v, and the function it defines.
Steps(h, N, V) == h \in [1..N -> [V -> V]]
Result(f, v, h, N, V) ==
    f \in [0..N -> V] /\ f[0] = v /\ \A i \in 1..N : f[i] = h[i][f[i - 1]]

\* A function that is given by its first value and by each next one exists.
LEMMA Recursion ==
    ASSUME NEW N \in Nat, NEW V, NEW v \in V, NEW h, Steps(h, N, V)
    PROVE  \E f : Result(f, v, h, N, V)
  <1> USE DEF Steps
  <1> DEFINE Solves(f, n) == f[0] = v /\ \A i \in 1..n : f[i] = h[i][f[i - 1]]
             G == {n \in 0..N : \E f \in [0..n -> V] : Solves(f, n)}
  <1>1. 0 \in G
    <2> DEFINE f == [i \in 0..0 |-> v]
    <2>1. f \in [0..0 -> V] /\ f[0] = v
      OBVIOUS
    <2> HIDE DEF f
    <2>2. Solves(f, 0)
      BY <2>1
    <2> QED
      BY <2>1, <2>2
  <1>2. ASSUME NEW n \in 1..N, n - 1 \in G PROVE n \in G
    <2>1. PICK f \in [0..(n - 1) -> V] : Solves(f, n - 1)
      BY <1>2, Zenon
    <2> DEFINE w == h[n][f[n - 1]]
               g == [i \in 0..n |-> IF i = n THEN w ELSE f[i]]
    <2>2. w \in V
      OBVIOUS
    <2> HIDE DEF w
    <2>3. g \in [0..n -> V]
      BY <2>2
    <2>4. g[0] = v
      BY <2>1
    <2>5. ASSUME NEW i \in 1..n PROVE g[i] = h[i][g[i - 1]]
      <3>1. i - 1 \in 0..n /\ i - 1 # n /\ g[i - 1] = f[i - 1]
        OBVIOUS
      <3>2. CASE i = n
        BY <3>1, <3>2 DEF w
      <3>3. CASE i # n
        <4>1. i \in 1..(n - 1) /\ g[i] = f[i]
          BY <3>3
        <4> HIDE DEF g
        <4> QED
          BY <2>1, <3>1, <4>1
      <3> QED
        BY <3>2, <3>3
    <2> HIDE DEF g
    <2>6. Solves(g, n)
      BY <2>4, <2>5
    <2> QED
      BY <2>3, <2>6
  <1>3. N \in G
    <2> HIDE DEF G
    <2>1. \A i \in 0..N : i \in G
      BY <1>1, <1>2, UpTo, Zenon
    <2> QED
      BY <2>1
  <1> QED
    BY <1>3, Zenon DEF Result

-----------------------------------------------------------------------------
(* Lists: the elements of Only and of Sorted.                              *)

Elements(s) == {s[i] : i \in DOMAIN s}
Distinct(s) == \A i, j \in DOMAIN s : s[i] = s[j] => i = j

LEMMA ElementsAre ==
    ASSUME NEW S, NEW s \in Seq(S)
    PROVE  Elements(s) \subseteq S
  <1>1. \A i \in DOMAIN s : s[i] \in S
    OBVIOUS
  <1> QED
    BY <1>1, Zenon DEF Elements

LEMMA Appended ==
    ASSUME NEW S, NEW s \in Seq(S), NEW e \in S
    PROVE  /\ Append(s, e) \in Seq(S)
           /\ Elements(Append(s, e)) = Elements(s) \cup {e}
           /\ Distinct(s) /\ e \notin Elements(s) => Distinct(Append(s, e))
  BY DEF Elements, Distinct

\* t is the list of what Only has taken after each element of s.
Takes(s, kept, t) ==
    /\ t[0] = << >>
    /\ \A i \in 1..Len(s) : t[i] = IF s[i] \in kept THEN Append(t[i - 1], s[i]) ELSE t[i - 1]

LEMMA OnlyTakes ==
    ASSUME NEW S, NEW s \in Seq(S), NEW kept
    PROVE  \E t : Takes(s, kept, t) /\ Only(s, kept) = t[Len(s)]
  <1> DEFINE Body(f) == [i \in 0..Len(s) |->
                            IF i = 0 THEN << >>
                            ELSE IF s[i] \in kept THEN Append(f[i-1], s[i]) ELSE f[i-1]]
             P(f) == f = Body(f)
             taken == CHOOSE f : P(f)
  <1>0. Len(s) \in Nat
    OBVIOUS
  <1>1. Only(s, kept) = taken[Len(s)]
    BY Zenon DEF Only
  <1>2. \E f : P(f)
    <2> DEFINE V == Seq(S)
               none == << >>
               h == [i \in 1..Len(s) |-> [t \in V |-> IF s[i] \in kept THEN Append(t, s[i]) ELSE t]]
    <2>1. h \in [1..Len(s) -> [V -> V]] /\ none \in V
      <3>1. \A i \in 1..Len(s) : s[i] \in S
        OBVIOUS
      <3>2. \A i \in 1..Len(s) : \A t \in V : (IF s[i] \in kept THEN Append(t, s[i]) ELSE t) \in V
        BY <3>1
      <3>3. << >> \in V
        OBVIOUS
      <3> HIDE DEF V
      <3> QED
        BY <3>2, <3>3, Zenon
    <2>2. \A i \in 1..Len(s) : \A t \in V :
              h[i][t] = IF s[i] \in kept THEN Append(t, s[i]) ELSE t
      BY Zenon
    <2> HIDE DEF V, h, none
    <2>3. PICK f \in [0..Len(s) -> V] :
              f[0] = none /\ \A i \in 1..Len(s) : f[i] = h[i][f[i - 1]]
      <3>1. Steps(h, Len(s), V)
        BY <2>1, Zenon DEF Steps
      <3>2. \E f : Result(f, none, h, Len(s), V)
        BY <1>0, <2>1, <3>1, Recursion, Zenon
      <3> QED
        BY <3>2, Zenon DEF Result
    <2>4. ASSUME NEW i \in 0..Len(s)
          PROVE  f[i] = IF i = 0 THEN << >>
                        ELSE IF s[i] \in kept THEN Append(f[i-1], s[i]) ELSE f[i-1]
      <3>1. CASE i = 0
        BY <2>3, <3>1, Zenon DEF none
      <3>2. CASE i # 0
        <4>1. i \in 1..Len(s) /\ i - 1 \in 0..Len(s)
          BY <3>2
        <4>2. f[i - 1] \in V /\ f[i] = h[i][f[i - 1]]
          BY <2>3, <4>1
        <4> QED
          BY <2>2, <3>2, <4>1, <4>2, Zenon
      <3> QED
        BY <3>1, <3>2
    <2>5. f = Body(f)
      <3>1. f = [i \in 0..Len(s) |-> f[i]]
        BY <2>3, Zenon
      <3> QED
        BY <2>4, <3>1, Zenon
    <2> QED
      BY <2>5, Zenon
  <1> HIDE DEF P
  <1>3. P(taken)
    BY <1>2, Zenon
  <1> HIDE DEF taken
  <1>4. ASSUME NEW i \in 0..Len(s)
        PROVE  taken[i] = IF i = 0 THEN << >>
                          ELSE IF s[i] \in kept THEN Append(taken[i-1], s[i]) ELSE taken[i-1]
    <2> DEFINE b == Body(taken)
    <2>1. taken = b
      BY <1>3, Zenon DEF P
    <2>2. b[i] = IF i = 0 THEN << >>
                 ELSE IF s[i] \in kept THEN Append(taken[i-1], s[i]) ELSE taken[i-1]
      BY Zenon
    <2> HIDE DEF b
    <2>3. taken[i] = b[i]
      BY <2>1, Zenon
    <2> QED
      BY <2>2, <2>3, Zenon
  <1>5. Takes(s, kept, taken)
    <2>1. taken[0] = << >>
      BY <1>0, <1>4
    <2>2. ASSUME NEW i \in 1..Len(s)
          PROVE  taken[i] = IF s[i] \in kept THEN Append(taken[i - 1], s[i]) ELSE taken[i - 1]
      <3>1. i \in 0..Len(s) /\ i # 0
        OBVIOUS
      <3> QED
        BY <1>4, <3>1, Zenon
    <2> QED
      BY <2>1, <2>2, Zenon DEF Takes
  <1> QED
    BY <1>1, <1>5, Zenon

\* Only keeps what it should, each as often as it was there.
LEMMA OnlyElements ==
    ASSUME NEW S, NEW s \in Seq(S), NEW kept
    PROVE  /\ Only(s, kept) \in Seq(S)
           /\ Elements(Only(s, kept)) = Elements(s) \cap kept
           /\ Distinct(s) => Distinct(Only(s, kept))
  <1>0. Len(s) \in Nat /\ DOMAIN s = 1..Len(s) /\ \A i \in 1..Len(s) : s[i] \in S
    OBVIOUS
  <1>1. PICK t : Takes(s, kept, t) /\ Only(s, kept) = t[Len(s)]
    BY OnlyTakes, Zenon
  <1> DEFINE Right(i) == /\ t[i] \in Seq(S)
                         /\ Elements(t[i]) = {s[j] : j \in 1..i} \cap kept
                         /\ Distinct(s) => Distinct(t[i])
             G == {i \in 0..Len(s) : Right(i)}
  <1>2. 0 \in G
    <2>1. t[0] = << >>
      BY <1>1, Zenon DEF Takes
    <2>2. << >> \in Seq(S) /\ Elements(<< >>) = {} /\ Distinct(<< >>)
      BY DEF Elements, Distinct
    <2>3. {s[j] : j \in 1..0} = {} /\ 0 \in 0..Len(s)
      BY <1>0
    <2>4. Elements(<< >>) = {s[j] : j \in 1..0} \cap kept
      BY <2>2, <2>3, Zenon
    <2> QED
      BY <2>1, <2>2, <2>3, <2>4, Zenon
  <1>3. ASSUME NEW i \in 1..Len(s), i - 1 \in G PROVE i \in G
    <2>1. Right(i - 1)
      BY <1>3, Zenon
    <2>2. 1..i = 1..(i - 1) \cup {i} /\ i \notin 1..(i - 1) /\ i \in 0..Len(s)
      BY <1>0
    <2>3. {s[j] : j \in 1..i} = {s[j] : j \in 1..(i - 1)} \cup {s[i]}
      BY <2>2, Zenon
    <2>4. Distinct(s) => s[i] \notin {s[j] : j \in 1..(i - 1)}
      <3>1. \A j \in 1..(i - 1) : j \in DOMAIN s /\ j # i
        BY <1>0
      <3> QED
        BY <1>0, <3>1, Zenon DEF Distinct
    <2>5. t[i] = IF s[i] \in kept THEN Append(t[i - 1], s[i]) ELSE t[i - 1]
      BY <1>1, Zenon DEF Takes
    <2>6. CASE s[i] \in kept
      <3>1. /\ Append(t[i - 1], s[i]) \in Seq(S)
            /\ Elements(Append(t[i - 1], s[i])) = Elements(t[i - 1]) \cup {s[i]}
            /\ Distinct(t[i - 1]) /\ s[i] \notin Elements(t[i - 1])
                   => Distinct(Append(t[i - 1], s[i]))
        BY <1>0, <2>1, Appended, Zenon
      <3>2. t[i] = Append(t[i - 1], s[i])
        BY <2>5, <2>6, Zenon
      <3>3. t[i] \in Seq(S)
        BY <3>1, <3>2, Zenon
      <3>4. Elements(t[i]) = {s[j] : j \in 1..i} \cap kept
        BY <2>1, <2>3, <2>6, <3>1, <3>2, Zenon
      <3>5. Distinct(s) => Distinct(t[i])
        BY <2>1, <2>4, <3>1, <3>2, Zenon
      <3> QED
        BY <2>2, <3>3, <3>4, <3>5, Zenon
    <2>7. CASE s[i] \notin kept
      <3>1. t[i] = t[i - 1]
        BY <2>5, <2>7, Zenon
      <3>2. {s[j] : j \in 1..i} \cap kept = {s[j] : j \in 1..(i - 1)} \cap kept
        BY <2>3, <2>7, Zenon
      <3> QED
        BY <2>1, <2>2, <3>1, <3>2, Zenon
    <2> QED
      BY <2>6, <2>7
  <1>4. Right(Len(s))
    <2>1. \A i \in 0..Len(s) : i \in G
      <3> HIDE DEF G
      <3> QED
        BY <1>0, <1>2, <1>3, UpTo, Zenon
    <2>2. Len(s) \in 0..Len(s)
      BY <1>0
    <2> QED
      BY <2>1, <2>2, Zenon
  <1> QED
    BY <1>0, <1>1, <1>4, Zenon DEF Elements

LEMMA Inserted ==
    ASSUME NEW S, NEW s \in Seq(S), NEW e \in S
    PROVE  /\ Insert(s, e) \in Seq(S)
           /\ Elements(Insert(s, e)) = Elements(s) \cup {e}
           /\ Distinct(s) /\ e \notin Elements(s) => Distinct(Insert(s, e))
  <1> DEFINE below == {i \in DOMAIN s : s[i].start <= e.start}
             place == Cardinality(below) + 1
             r == [i \in 1..Len(s)+1 |->
                      IF i < place THEN s[i] ELSE IF i = place THEN e ELSE s[i-1]]
  <1>0. Len(s) \in Nat /\ DOMAIN s = 1..Len(s) /\ \A i \in 1..Len(s) : s[i] \in S
    OBVIOUS
  <1>1. place \in 1..Len(s)+1
    <2>1. IsFiniteSet(1..Len(s)) /\ Cardinality(1..Len(s)) = Len(s)
      <3>1. /\ 1 \in Int /\ Len(s) \in Int
            /\ (IF 1 > Len(s) THEN 0 ELSE Len(s) - 1 + 1) = Len(s)
        BY <1>0
      <3> QED
        BY <3>1, FS_Interval, Zenon
    <2>2. below \subseteq 1..Len(s)
      BY <1>0
    <2> HIDE DEF below
    <2>3. IsFiniteSet(below) /\ Cardinality(below) <= Len(s)
      BY <2>1, <2>2, FS_Subset, Zenon
    <2>4. Cardinality(below) \in Nat
      BY <2>3, FS_CardinalityType
    <2> QED
      BY <1>0, <2>3, <2>4
  <1>2. Insert(s, e) = r
    BY Zenon DEF Insert
  <1> HIDE DEF place
  <1>3. \A i \in 1..Len(s)+1 :
            /\ i < place => i \in 1..Len(s) /\ r[i] = s[i]
            /\ i = place => r[i] = e
            /\ i > place => i - 1 \in 1..Len(s) /\ r[i] = s[i - 1]
    BY <1>0, <1>1
  <1>4. r \in Seq(S) /\ DOMAIN r = 1..Len(s)+1
    <2>1. \A i \in 1..Len(s)+1 : r[i] \in S
      BY <1>0, <1>1, <1>3
    <2> QED
      BY <1>0, <2>1
  <1> HIDE DEF r
  <1>5. Elements(r) \subseteq Elements(s) \cup {e}
    <2>1. \A i \in 1..Len(s)+1 : i < place \/ i = place \/ i > place
      BY <1>0, <1>1
    <2> QED
      BY <1>0, <1>3, <1>4, <2>1, Zenon DEF Elements
  <1>6. Elements(s) \cup {e} \subseteq Elements(r)
    <2>1. e \in Elements(r)
      BY <1>1, <1>3, <1>4 DEF Elements
    <2>2. ASSUME NEW i \in 1..Len(s) PROVE s[i] \in Elements(r)
      <3>1. CASE i < place
        <4>1. i \in 1..Len(s)+1 /\ r[i] = s[i]
          BY <1>0, <1>3, <3>1
        <4> QED
          BY <1>4, <4>1, Zenon DEF Elements
      <3>2. CASE ~(i < place)
        <4>1. i + 1 \in 1..Len(s)+1 /\ i + 1 > place /\ (i + 1) - 1 = i
          BY <1>0, <1>1, <3>2
        <4>2. r[i + 1] = s[i]
          BY <1>3, <4>1
        <4> QED
          BY <1>4, <4>1, <4>2, Zenon DEF Elements
      <3> QED
        BY <3>1, <3>2
    <2> QED
      BY <1>0, <2>1, <2>2, Zenon DEF Elements
  <1>7. ASSUME Distinct(s), e \notin Elements(s) PROVE Distinct(r)
    <2>1. \A i, j \in 1..Len(s) : s[i] = s[j] => i = j
      BY <1>0, <1>7, Zenon DEF Distinct
    <2>2. \A i \in 1..Len(s) : s[i] # e
      BY <1>0, <1>7, Zenon DEF Elements
    <2>3. ASSUME NEW i \in 1..Len(s)+1, NEW j \in 1..Len(s)+1, r[i] = r[j] PROVE i = j
      <3>1. /\ i < place \/ i = place \/ i > place
            /\ j < place \/ j = place \/ j > place
        BY <1>0, <1>1
      <3>2. CASE i = place
        BY <1>3, <2>2, <2>3, <3>1, <3>2, Zenon
      <3>3. CASE j = place
        BY <1>3, <2>2, <2>3, <3>1, <3>3, Zenon
      <3>4. CASE i < place /\ j < place
        BY <1>3, <2>1, <2>3, <3>4, Zenon
      <3>5. CASE i > place /\ j > place
        <4>1. i - 1 = j - 1
          BY <1>3, <2>1, <2>3, <3>5, Zenon
        <4> QED
          BY <1>0, <4>1
      <3>6. CASE i < place /\ j > place
        <4>1. i = j - 1
          BY <1>3, <2>1, <2>3, <3>6, Zenon
        <4> QED
          BY <1>0, <1>1, <3>6, <4>1
      <3>7. CASE i > place /\ j < place
        <4>0. i - 1 \in 1..Len(s) /\ j \in 1..Len(s) /\ s[i - 1] = s[j]
          BY <1>3, <2>3, <3>7, Zenon
        <4>1. i - 1 = j
          BY <2>1, <4>0, Zenon
        <4> QED
          BY <1>0, <1>1, <3>7, <4>1
      <3> QED
        BY <3>1, <3>2, <3>3, <3>4, <3>5, <3>6, <3>7, Zenon
    <2> QED
      BY <1>4, <2>3, Zenon DEF Distinct
  <1> QED
    BY <1>2, <1>4, <1>5, <1>6, <1>7, Zenon

\* d is what Sorted has made of the first elements of s.
Sorts(s, d) == d[0] = << >> /\ \A i \in 1..Len(s) : d[i] = Insert(d[i - 1], s[i])

LEMMA SortedSorts ==
    ASSUME NEW S, NEW s \in Seq(S)
    PROVE  \E d : Sorts(s, d) /\ Sorted(s) = d[Len(s)]
  <1> DEFINE Body(f) == [i \in 0..Len(s) |-> IF i = 0 THEN << >> ELSE Insert(f[i-1], s[i])]
             P(f) == f = Body(f)
             done == CHOOSE f : P(f)
  <1>0. Len(s) \in Nat
    OBVIOUS
  <1>1. Sorted(s) = done[Len(s)]
    BY Zenon DEF Sorted
  <1>2. \E f : P(f)
    <2> DEFINE V == Seq(S)
               none == << >>
               h == [i \in 1..Len(s) |-> [t \in V |-> Insert(t, s[i])]]
    <2>1. h \in [1..Len(s) -> [V -> V]] /\ none \in V
      <3>1. \A i \in 1..Len(s) : s[i] \in S
        OBVIOUS
      <3>2. \A i \in 1..Len(s) : \A t \in V : Insert(t, s[i]) \in V
        BY <3>1, Inserted, Zenon
      <3>3. none \in V
        OBVIOUS
      <3> HIDE DEF V
      <3> QED
        BY <3>2, <3>3, Zenon
    <2>2. \A i \in 1..Len(s) : \A t \in V : h[i][t] = Insert(t, s[i])
      BY Zenon
    <2> HIDE DEF V, h, none
    <2>3. PICK f \in [0..Len(s) -> V] :
              f[0] = none /\ \A i \in 1..Len(s) : f[i] = h[i][f[i - 1]]
      <3>1. Steps(h, Len(s), V)
        BY <2>1, Zenon DEF Steps
      <3>2. \E f : Result(f, none, h, Len(s), V)
        BY <1>0, <2>1, <3>1, Recursion, Zenon
      <3> QED
        BY <3>2, Zenon DEF Result
    <2>4. ASSUME NEW i \in 0..Len(s)
          PROVE  f[i] = IF i = 0 THEN << >> ELSE Insert(f[i-1], s[i])
      <3>1. CASE i = 0
        BY <2>3, <3>1, Zenon DEF none
      <3>2. CASE i # 0
        <4>1. i \in 1..Len(s) /\ i - 1 \in 0..Len(s)
          BY <3>2
        <4>2. f[i - 1] \in V /\ f[i] = h[i][f[i - 1]]
          BY <2>3, <4>1
        <4> QED
          BY <2>2, <3>2, <4>1, <4>2, Zenon
      <3> QED
        BY <3>1, <3>2
    <2>5. f = Body(f)
      <3>1. f = [i \in 0..Len(s) |-> f[i]]
        BY <2>3, Zenon
      <3> QED
        BY <2>4, <3>1, Zenon
    <2> QED
      BY <2>5, Zenon
  <1> HIDE DEF P
  <1>3. P(done)
    BY <1>2, Zenon
  <1> HIDE DEF done
  <1>4. ASSUME NEW i \in 0..Len(s)
        PROVE  done[i] = IF i = 0 THEN << >> ELSE Insert(done[i-1], s[i])
    <2> DEFINE b == Body(done)
    <2>1. done = b
      BY <1>3, Zenon DEF P
    <2>2. b[i] = IF i = 0 THEN << >> ELSE Insert(done[i-1], s[i])
      BY Zenon
    <2> HIDE DEF b
    <2>3. done[i] = b[i]
      BY <2>1, Zenon
    <2> QED
      BY <2>2, <2>3, Zenon
  <1>5. Sorts(s, done)
    <2>1. done[0] = << >>
      BY <1>0, <1>4
    <2>2. ASSUME NEW i \in 1..Len(s) PROVE done[i] = Insert(done[i - 1], s[i])
      <3>1. i \in 0..Len(s) /\ i # 0
        OBVIOUS
      <3> QED
        BY <1>4, <3>1, Zenon
    <2> QED
      BY <2>1, <2>2, Zenon DEF Sorts
  <1> QED
    BY <1>1, <1>5, Zenon

\* Sorting changes the order and nothing else.
LEMMA SortedElements ==
    ASSUME NEW S, NEW s \in Seq(S)
    PROVE  /\ Sorted(s) \in Seq(S)
           /\ Elements(Sorted(s)) = Elements(s)
           /\ Distinct(s) => Distinct(Sorted(s))
  <1>0. Len(s) \in Nat /\ DOMAIN s = 1..Len(s) /\ \A i \in 1..Len(s) : s[i] \in S
    OBVIOUS
  <1>1. PICK d : Sorts(s, d) /\ Sorted(s) = d[Len(s)]
    BY SortedSorts, Zenon
  <1> DEFINE Right(i) == /\ d[i] \in Seq(S)
                         /\ Elements(d[i]) = {s[j] : j \in 1..i}
                         /\ Distinct(s) => Distinct(d[i])
             G == {i \in 0..Len(s) : Right(i)}
  <1>2. 0 \in G
    <2>1. d[0] = << >>
      BY <1>1, Zenon DEF Sorts
    <2>2. << >> \in Seq(S) /\ Elements(<< >>) = {} /\ Distinct(<< >>)
      BY DEF Elements, Distinct
    <2>3. {s[j] : j \in 1..0} = {} /\ 0 \in 0..Len(s)
      BY <1>0
    <2> QED
      BY <2>1, <2>2, <2>3, Zenon
  <1>3. ASSUME NEW i \in 1..Len(s), i - 1 \in G PROVE i \in G
    <2>1. Right(i - 1)
      BY <1>3, Zenon
    <2>2. 1..i = 1..(i - 1) \cup {i} /\ i \notin 1..(i - 1) /\ i \in 0..Len(s)
      BY <1>0
    <2>3. {s[j] : j \in 1..i} = {s[j] : j \in 1..(i - 1)} \cup {s[i]}
      BY <2>2, Zenon
    <2>4. Distinct(s) => s[i] \notin {s[j] : j \in 1..(i - 1)}
      <3>1. \A j \in 1..(i - 1) : j \in DOMAIN s /\ j # i
        BY <1>0
      <3> QED
        BY <1>0, <3>1, Zenon DEF Distinct
    <2>5. d[i] = Insert(d[i - 1], s[i])
      BY <1>1, Zenon DEF Sorts
    <2>6. /\ Insert(d[i - 1], s[i]) \in Seq(S)
          /\ Elements(Insert(d[i - 1], s[i])) = Elements(d[i - 1]) \cup {s[i]}
          /\ Distinct(d[i - 1]) /\ s[i] \notin Elements(d[i - 1])
                 => Distinct(Insert(d[i - 1], s[i]))
      BY <1>0, <2>1, Inserted, Zenon
    <2>7. Distinct(s) => Distinct(d[i])
      BY <2>1, <2>4, <2>5, <2>6, Zenon
    <2> QED
      BY <2>1, <2>2, <2>3, <2>5, <2>6, <2>7, Zenon
  <1>4. Right(Len(s))
    <2>1. \A i \in 0..Len(s) : i \in G
      <3> HIDE DEF G
      <3> QED
        BY <1>0, <1>2, <1>3, UpTo, Zenon
    <2>2. Len(s) \in 0..Len(s)
      BY <1>0
    <2> QED
      BY <2>1, <2>2, Zenon
  <1> QED
    BY <1>0, <1>1, <1>4, Zenon DEF Elements

-----------------------------------------------------------------------------
(* Min and Max.                                                            *)

LEMMA MinIs ==
    ASSUME NEW T \in SUBSET Nat, NEW x \in T, \A y \in T : x <= y
    PROVE  Min(T) = x
  <1>1. Min(T) \in T /\ \A y \in T : Min(T) <= y
    BY Zenon DEF Min
  <1>2. Min(T) \in Nat /\ x \in Nat /\ Min(T) <= x /\ x <= Min(T)
    BY <1>1, Zenon
  <1> QED
    BY <1>2

LEMMA MaxIs ==
    ASSUME NEW T \in SUBSET Nat, NEW x \in T, \A y \in T : y <= x
    PROVE  Max(T) = x
  <1>1. Max(T) \in T /\ \A y \in T : Max(T) >= y
    BY Zenon DEF Max
  <1>2. Max(T) \in Nat /\ x \in Nat /\ x <= Max(T) /\ Max(T) <= x
    BY <1>1, Zenon
  <1> QED
    BY <1>2

LEMMA HigherOf ==
    ASSUME NEW x \in Nat, NEW y \in Int
    PROVE  Max({x, y}) \in Nat /\ x <= Max({x, y}) /\ y <= Max({x, y})
  <1> DEFINE T == {x, y}
  <1>1. \E z \in T : \A w \in T : z >= w
    <2>1. CASE x >= y
      BY <2>1
    <2>2. CASE y >= x
      BY <2>2
    <2> QED
      BY <2>1, <2>2
  <1> HIDE DEF T
  <1>2. Max(T) \in T /\ \A w \in T : Max(T) >= w
    BY <1>1, Zenon DEF Max
  <1> USE DEF T
  <1>3. Max(T) \in {x, y} /\ Max(T) >= x /\ Max(T) >= y
    BY <1>2, Zenon
  <1> QED
    BY <1>3

LEMMA MinOf ==
    ASSUME NEW T \in SUBSET Nat, T # {}
    PROVE  Min(T) \in T /\ \A y \in T : Min(T) <= y
  <1>1. PICK x \in T : \A y \in T : x <= y
    BY LeastNatural
  <1> QED
    BY <1>1, MinIs

LEMMA MaxOf ==
    ASSUME NEW T \in SUBSET Nat, T # {}, NEW n \in Nat, \A y \in T : y <= n
    PROVE  Max(T) \in T /\ \A y \in T : y <= Max(T)
  <1> DEFINE U == {k \in Nat : n - k \in T}
  <1>1. U \in SUBSET Nat /\ U # {}
    <2>1. PICK y \in T : TRUE
      BY Zenon
    <2>2. n - y \in Nat /\ n - (n - y) = y
      BY <2>1
    <2> QED
      BY <2>1, <2>2
  <1>2. PICK k \in U : \A l \in U : k <= l
    <2> HIDE DEF U
    <2> QED
      BY <1>1, LeastNatural
  <1>3. n - k \in T /\ k \in Nat
    BY <1>2
  <1>4. ASSUME NEW y \in T PROVE y <= n - k
    <2>1. n - y \in Nat /\ n - (n - y) = y
      OBVIOUS
    <2>2. n - y \in U
      BY <2>1
    <2>3. k <= n - y
      BY <1>2, <2>2
    <2> QED
      BY <1>3, <2>1, <2>3
  <1> QED
    BY <1>3, <1>4, MaxIs

-----------------------------------------------------------------------------
(* Types.                                                                  *)

BatchT == [base : Nat, count : Nat \ {0}]
KeyT == [kind : {"data", "compacted"}, start : Nat, end : Nat]
BlockT == [start : Nat, end : Nat, batches : SUBSET BatchT]
Sizes == {Cardinality(Records(blocks)) : blocks \in SUBSET BlockT}

\* An object's metadata repeat the offsets of its key.
MetaT == {m \in [key : KeyT, start : Nat, end : Nat, size : Sizes] :
             m.start = m.key.start /\ m.end = m.key.end /\ m.start <= m.end}

AppendT == [pc : {"wal", "cache"}, batch : BatchT]
UploadT == [pc : {"put", "register", "trim"}, batches : SUBSET BatchT, start : Nat, end : Nat]
MergeT == [pc : {"merge"}, small : Seq(MetaT)]
ReplaceT == [pc : {"replace", "delete"}, small : Seq(MetaT), meta : MetaT]
TrimT == [pc : {"cache", "wal", "objects"}, to : Int]
DeleteT == [pc : {"advance", "cache"}, to : Nat]

Shape ==
    /\ purged \in Nat /\ next \in Nat /\ claimed \in Nat
    /\ wal \in SUBSET BatchT /\ acked \in SUBSET BatchT
    /\ metas \in Seq(MetaT)
    /\ DOMAIN objects \subseteq KeyT
    /\ \A k \in DOMAIN objects : objects[k] \in SUBSET BlockT
    /\ app \in {Idle} \cup AppendT
    /\ up \in [Uploaders -> {Idle} \cup UploadT]
    /\ comp \in [Compactors -> {Idle} \cup MergeT \cup ReplaceT]
    /\ trim \in [Trimmers -> {Idle} \cup TrimT]
    /\ del \in [Deleters -> {Idle} \cup DeleteT]

LEMMA IdlePc == Idle.pc = "idle"
  BY DEF Idle

LEMMA BatchOffsets ==
    ASSUME NEW b \in BatchT
    PROVE  b.base \in Nat /\ b.count \in Nat \ {0} /\ Last(b) \in Nat /\ b.base <= Last(b)
  BY DEF BatchT, Last

LEMMA MetaFields ==
    ASSUME NEW m \in MetaT
    PROVE  /\ m.key \in KeyT /\ m.start \in Nat /\ m.end \in Nat
           /\ m.start = m.key.start /\ m.end = m.key.end /\ m.start <= m.end
  BY DEF MetaT

LEMMA MetaMade ==
    ASSUME NEW kind \in {"data", "compacted"}, NEW from \in Nat, NEW to \in Nat, from <= to,
           NEW blocks \in SUBSET BlockT
    PROVE  /\ Key(kind, from, to) \in KeyT
           /\ Key(kind, from, to).kind = kind
           /\ Key(kind, from, to).start = from /\ Key(kind, from, to).end = to
           /\ Meta(Key(kind, from, to), blocks) \in MetaT
           /\ Meta(Key(kind, from, to), blocks).key = Key(kind, from, to)
           /\ Meta(Key(kind, from, to), blocks).start = from
           /\ Meta(Key(kind, from, to), blocks).end = to
  <1> DEFINE k == Key(kind, from, to)
             n == Cardinality(Records(blocks))
  <1>1. k \in KeyT /\ k.kind = kind /\ k.start = from /\ k.end = to
    BY DEF Key, KeyT
  <1>2. n \in Sizes
    BY Zenon DEF Sizes
  <1>3. Meta(k, blocks) = [key |-> k, start |-> k.start, end |-> k.end, size |-> n]
    BY Zenon DEF Meta
  <1> HIDE DEF k, n
  <1>4. /\ Meta(k, blocks) \in MetaT
        /\ Meta(k, blocks).key = k /\ Meta(k, blocks).start = k.start /\ Meta(k, blocks).end = k.end
    BY <1>1, <1>2, <1>3 DEF MetaT
  <1> QED
    BY <1>1, <1>4 DEF k

\* A record with another control state.
LEMMA UploadMoves ==
    ASSUME NEW v \in UploadT, NEW pc \in {"put", "register", "trim"}, NEW w, w = [v EXCEPT !.pc = pc]
    PROVE  /\ w \in UploadT /\ w.pc = pc /\ w # Idle
           /\ w.batches = v.batches /\ w.start = v.start /\ w.end = v.end
  <1>1. w \in UploadT /\ w.pc = pc /\ w.batches = v.batches /\ w.start = v.start /\ w.end = v.end
    BY DEF UploadT
  <1> QED
    BY <1>1, IdlePc, Zenon

LEMMA ReplaceMoves ==
    ASSUME NEW v \in ReplaceT, NEW w, w = [v EXCEPT !.pc = "delete"]
    PROVE  w \in ReplaceT /\ w.pc = "delete" /\ w.small = v.small /\ w.meta = v.meta
  BY DEF ReplaceT

LEMMA TrimMoves ==
    ASSUME NEW v \in TrimT, NEW pc \in {"cache", "wal", "objects"}, NEW w, w = [v EXCEPT !.pc = pc]
    PROVE  w \in TrimT /\ w.pc = pc /\ w.to = v.to
  BY DEF TrimT

LEMMA DeleteMoves ==
    ASSUME NEW v \in DeleteT, NEW pc \in {"advance", "cache"}, NEW w, w = [v EXCEPT !.pc = pc]
    PROVE  w \in DeleteT /\ w.pc = pc /\ w.to = v.to
  BY DEF DeleteT

\* Whoever is not idle has the record of its control state.
LEMMA Busy ==
    ASSUME Shape
    PROVE  /\ app.pc # "idle" => app \in AppendT
           /\ \A u \in Uploaders : up[u].pc # "idle" => up[u] \in UploadT
           /\ \A c \in Compactors : comp[c].pc = "merge" => comp[c] \in MergeT
           /\ \A c \in Compactors : comp[c].pc \in {"replace", "delete"} => comp[c] \in ReplaceT
           /\ \A t \in Trimmers : trim[t].pc # "idle" => trim[t] \in TrimT
           /\ \A d \in Deleters : del[d].pc # "idle" => del[d] \in DeleteT
  <1>1. /\ \A v \in MergeT : v.pc = "merge"
        /\ \A v \in ReplaceT : v.pc \in {"replace", "delete"}
    BY DEF MergeT, ReplaceT
  <1>2. \A c \in Compactors : comp[c] \in {Idle} \cup MergeT \cup ReplaceT
    BY DEF Shape
  <1>3. /\ \A u \in Uploaders : up[u] \in {Idle} \cup UploadT
        /\ \A t \in Trimmers : trim[t] \in {Idle} \cup TrimT
        /\ \A d \in Deleters : del[d] \in {Idle} \cup DeleteT
    BY DEF Shape
  <1> QED
    BY <1>1, <1>2, <1>3, IdlePc, Zenon DEF Shape

-----------------------------------------------------------------------------
(* The inductive invariant, conjunct by conjunct.                          *)

OneAtATime ==
    /\ \A u, v \in Uploaders : u = v
    /\ \A c, d \in Compactors : c = d

IsSmall(m) == m.size < TargetSize
Apart(m, n) == m.end < n.start \/ n.end < m.start
Held(ob, m) == UNION {x.batches : x \in ob[m.key]}

\* What a compaction still merges, and what it is about to delete.
Sources(cs) == {m \in MetaT : \E c \in Compactors :
                   cs[c].pc \in {"merge", "replace"} /\ m \in Elements(cs[c].small)}
Doomed(cs) == {m \in MetaT : \E c \in Compactors :
                   cs[c].pc = "delete" /\ m \in Elements(cs[c].small)}
Known(ms, cs) == Elements(ms) \cup Sources(cs)
Seen(ms, cs) == Known(ms, cs) \cup Doomed(cs)

\* The blocks of an object reach from its start to its end.
BlocksOK(blocks, from, to) ==
    /\ \E x \in blocks : x.start = from
    /\ \E x \in blocks : x.end = to
    /\ \A x \in blocks : from <= x.start /\ x.end <= to
    /\ \A x \in blocks : \A b \in x.batches : Last(b) <= x.end

\* Batches follow each other, and the append in progress follows them all.
AppendsOK(ac, ap, nx, cl) ==
    /\ cl <= nx
    /\ \A b \in ac : Last(b) < nx
    /\ \A b, d \in ac : b = d \/ Last(b) < d.base \/ Last(d) < b.base
    /\ ap # Idle => /\ cl <= ap.batch.base /\ Last(ap.batch) < nx
                    /\ \A b \in ac : Last(b) < ap.batch.base

TrimsOK(ts, st) == \A t \in Trimmers : ts[t] # Idle => ts[t].to <= st

\* Objects of one kind do not overlap, and no small object lies in a merged
\* one or before it.
KnownOK(K) ==
    /\ \A m, n \in K : m # n /\ m.key.kind = n.key.kind => Apart(m, n)
    /\ \A m, n \in K : m # n /\ m.key.kind = "compacted" /\ IsSmall(n) => m.end < n.start

Below(K, o) == \A m \in K : m.end < o

\* An upload has the offsets behind every object there is.
UploadOK(v, K, ob, cl) ==
    /\ v.start <= v.end /\ v.end < cl
    /\ \A b \in v.batches : Last(b) <= v.end
    /\ v.pc \in {"put", "register"} => Below(K, v.start)
    /\ v.pc = "register" =>
           /\ Key("data", v.start, v.end) \in DOMAIN ob
           /\ ob[Key("data", v.start, v.end)] =
                 {[start |-> v.start, end |-> v.end, batches |-> v.batches]}

UploadsOK(us, K, ob, cl) == \A u \in Uploaders : us[u] # Idle => UploadOK(us[u], K, ob, cl)

ObjectsOK(R, K, ob) ==
    /\ \A m \in R : m.key \in DOMAIN ob
    /\ \A m \in K : m.key \in DOMAIN ob => BlocksOK(ob[m.key], m.start, m.end)

\* A registered small object that a compaction does not merge is newer than
\* all that it merges.
SourcesOK(S, R) ==
    /\ \E m, n \in S : m # n
    /\ \A n \in S : IsSmall(n)
    /\ \A m \in R : IsSmall(m) =>
           m \in S \/ (m.key.kind = "data" /\ \A n \in S : n.end < m.start)

\* The merged object reaches from the first to the last of what it replaces
\* and holds what is still registered of it.
MergedOK(M, S, R, ob) ==
    /\ M.key.kind = "compacted"
    /\ M.key \in DOMAIN ob
    /\ BlocksOK(ob[M.key], M.start, M.end)
    /\ \A n \in S : M.start <= n.start /\ n.end <= M.end
    /\ \E n \in S : n.start = M.start
    /\ \E n \in S : n.end = M.end
    /\ \A n \in S \cap R : ob[n.key] \subseteq ob[M.key]

CompsOK(cs, R, ob) == \A c \in Compactors :
    /\ cs[c].pc \in {"merge", "replace"} => SourcesOK(Elements(cs[c].small), R)
    /\ cs[c].pc = "replace" => MergedOK(cs[c].meta, Elements(cs[c].small), R, ob)

DoomedOK(D, R) == \A n \in D : \A m \in R : m.key # n.key

\* Where an acknowledged batch is: in the WAL until an upload has it, then in
\* the WAL and the upload, then in a registered object.
AckedOK(ac, st, cl, w, R, ob, us) == \A b \in ac :
    \/ b.base < st
    \/ cl <= b.base /\ b \in w
    \/ b.base < cl /\ \E m \in R : b \in Held(ob, m)
    \/ b.base < cl /\ b \in w
           /\ \E u \in Uploaders : us[u].pc \in {"put", "register"} /\ b \in us[u].batches

CachingOK(ap, w, st) == ap.pc = "cache" => ap.batch \in w \/ ap.batch.base < st

Inv ==
    /\ Shape
    /\ AppendsOK(acked, app, next, claimed)
    /\ TrimsOK(trim, purged)
    /\ Distinct(metas)
    /\ KnownOK(Known(metas, comp))
    /\ Below(Seen(metas, comp), claimed)
    /\ UploadsOK(up, Seen(metas, comp), objects, claimed)
    /\ ObjectsOK(Elements(metas), Known(metas, comp), objects)
    /\ CompsOK(comp, Elements(metas), objects)
    /\ DoomedOK(Doomed(comp), Elements(metas))
    /\ AckedOK(acked, purged, claimed, wal, Elements(metas), objects, up)
    /\ CachingOK(app, wal, purged)

-----------------------------------------------------------------------------
(* Appends.                                                                *)

LEMMA TakeOffsetInv ==
    ASSUME Inv, NEW n \in Counts, AppendTakeOffset(n)
    PROVE  Inv'
  <1> DEFINE b == [base |-> next, count |-> n]
             a == [pc |-> "wal", batch |-> b]
  <1>1. /\ next' = next + n /\ app' = a
        /\ purged' = purged /\ wal' = wal /\ metas' = metas /\ objects' = objects
        /\ up' = up /\ comp' = comp /\ trim' = trim /\ del' = del
        /\ claimed' = claimed /\ acked' = acked
    BY DEF AppendTakeOffset, tiers, actors
  <1>2. Shape /\ n \in Nat \ {0} /\ next \in Nat /\ claimed \in Nat /\ acked \in SUBSET BatchT
    BY ConstantsAssumption, Zenon DEF Inv, Shape
  <1>3. a \in AppendT /\ a.pc = "wal" /\ a.batch = b /\ b.base = next /\ Last(b) = next + n - 1
    BY <1>2 DEF AppendT, BatchT, Last
  <1> HIDE DEF a, b
  <1>4. Shape'
    <2>1. next' \in Nat
      BY <1>1, <1>2
    <2> QED
      BY <1>1, <1>2, <1>3, <2>1, Zenon DEF Shape
  <1>5. AppendsOK(acked', app', next', claimed')
    <2>1. /\ claimed <= next /\ \A d \in acked : Last(d) < next
          /\ \A d, e \in acked : d = e \/ Last(d) < e.base \/ Last(e) < d.base
      BY Zenon DEF Inv, AppendsOK
    <2>2. \A d \in acked : Last(d) \in Nat
      BY <1>2, BatchOffsets, Zenon
    <2>3. claimed' <= next' /\ (\A d \in acked : Last(d) < next') /\ claimed <= next /\ Last(b) < next'
      BY <1>1, <1>2, <1>3, <2>1, <2>2
    <2> QED
      BY <1>1, <1>3, <2>1, <2>3, Zenon DEF AppendsOK
  <1>6. CachingOK(app', wal', purged')
    BY <1>1, <1>3 DEF CachingOK
  <1> QED
    BY <1>1, <1>4, <1>5, <1>6, Zenon DEF Inv

LEMMA AppendWalInv ==
    ASSUME Inv, AppendWal
    PROVE  Inv'
  <1>1. /\ app.pc = "wal" /\ wal' = wal \cup {app.batch} /\ app' = [app EXCEPT !.pc = "cache"]
        /\ purged' = purged /\ next' = next /\ metas' = metas /\ objects' = objects
        /\ up' = up /\ comp' = comp /\ trim' = trim /\ del' = del
        /\ claimed' = claimed /\ acked' = acked
    BY DEF AppendWal, actors
  <1>2. app \in AppendT
    BY <1>1, Busy, Zenon DEF Inv
  <1>3. app' \in AppendT /\ app'.pc = "cache" /\ app'.batch = app.batch /\ app.batch \in BatchT
    BY <1>1, <1>2 DEF AppendT
  <1>4. Shape'
    BY <1>1, <1>3, Zenon DEF Shape, Inv
  <1>5. AppendsOK(acked', app', next', claimed')
    <2>1. app # Idle
      BY <1>1, IdlePc
    <2> QED
      BY <1>1, <1>3, <2>1, Zenon DEF AppendsOK, Inv
  <1>6. CachingOK(app', wal', purged')
    <2>1. app'.batch \in wal'
      BY <1>1, <1>3
    <2> QED
      BY <2>1, Zenon DEF CachingOK
  <1>7. AckedOK(acked', purged', claimed', wal', Elements(metas'), objects', up')
    BY <1>1, Zenon DEF AckedOK, Inv
  <1> QED
    BY <1>1, <1>4, <1>5, <1>6, <1>7, Zenon DEF Inv

LEMMA AppendFailsInv ==
    ASSUME Inv, AppendFails
    PROVE  Inv'
  <1>1. /\ app' = Idle
        /\ purged' = purged /\ next' = next /\ wal' = wal /\ metas' = metas /\ objects' = objects
        /\ up' = up /\ comp' = comp /\ trim' = trim /\ del' = del
        /\ claimed' = claimed /\ acked' = acked
    BY DEF AppendFails, tiers, actors
  <1>2. Shape'
    BY <1>1, Zenon DEF Shape, Inv
  <1>3. AppendsOK(acked', app', next', claimed')
    BY <1>1, Zenon DEF AppendsOK, Inv
  <1>4. CachingOK(app', wal', purged')
    BY <1>1, IdlePc DEF CachingOK
  <1> QED
    BY <1>1, <1>2, <1>3, <1>4, Zenon DEF Inv

LEMMA AppendCacheInv ==
    ASSUME Inv, AppendCache
    PROVE  Inv'
  <1>1. /\ app.pc = "cache" /\ acked' = acked \cup {app.batch} /\ app' = Idle
        /\ purged' = purged /\ next' = next /\ wal' = wal /\ metas' = metas /\ objects' = objects
        /\ up' = up /\ comp' = comp /\ trim' = trim /\ del' = del /\ claimed' = claimed
    BY DEF AppendCache, actors
  <1>2. app \in AppendT /\ app # Idle
    <2>1. app # Idle
      BY <1>1, IdlePc
    <2> QED
      BY <1>1, <2>1, Busy, Zenon DEF Inv
  <1>3. app.batch \in BatchT
    BY <1>2 DEF AppendT
  <1>4. Shape'
    BY <1>1, <1>3, Zenon DEF Shape, Inv
  <1>5. AppendsOK(acked', app', next', claimed')
    BY <1>1, <1>2, Zenon DEF AppendsOK, Inv
  <1>6. CachingOK(app', wal', purged')
    BY <1>1, IdlePc DEF CachingOK
  <1>7. AckedOK(acked', purged', claimed', wal', Elements(metas'), objects', up')
    <2>1. app.batch \in wal \/ app.batch.base < purged
      BY <1>1, Zenon DEF CachingOK, Inv
    <2>2. claimed <= app.batch.base
      BY <1>2, Zenon DEF AppendsOK, Inv
    <2> QED
      BY <1>1, <2>1, <2>2, Zenon DEF AckedOK, Inv
  <1> QED
    BY <1>1, <1>4, <1>5, <1>6, <1>7, Zenon DEF Inv

-----------------------------------------------------------------------------
(* Trims, up to the objects, and DeleteRecords.                            *)

LEMMA PurgedGrows ==
    ASSUME NEW st \in Nat, NEW nst \in Nat, st <= nst, NEW ac \in SUBSET BatchT
    PROVE  /\ \A ts : (\A t \in Trimmers : ts[t] # Idle => ts[t].to \in Int) =>
                  (TrimsOK(ts, st) => TrimsOK(ts, nst))
           /\ \A cl, w, R, ob, us : AckedOK(ac, st, cl, w, R, ob, us) => AckedOK(ac, nst, cl, w, R, ob, us)
           /\ \A ap, w : (ap.pc = "cache" => ap.batch \in BatchT) =>
                  (CachingOK(ap, w, st) => CachingOK(ap, w, nst))
  <1>1. \A b \in BatchT : b.base < st => b.base < nst
    BY BatchOffsets
  <1>2. \A x \in Int : x <= st => x <= nst
    OBVIOUS
  <1>3. ASSUME NEW ts, \A t \in Trimmers : ts[t] # Idle => ts[t].to \in Int, TrimsOK(ts, st)
        PROVE  TrimsOK(ts, nst)
    BY <1>2, <1>3, Zenon DEF TrimsOK
  <1>4. ASSUME NEW cl, NEW w, NEW R, NEW ob, NEW us, AckedOK(ac, st, cl, w, R, ob, us)
        PROVE  AckedOK(ac, nst, cl, w, R, ob, us)
    <2> SUFFICES ASSUME NEW b \in ac
                 PROVE  AckedOK({b}, nst, cl, w, R, ob, us)
      BY Zenon DEF AckedOK
    <2>1. b.base < st => b.base < nst
      BY <1>1, Zenon
    <2> QED
      BY <1>4, <2>1, Zenon DEF AckedOK
  <1>5. ASSUME NEW ap, NEW w, ap.pc = "cache" => ap.batch \in BatchT, CachingOK(ap, w, st)
        PROVE  CachingOK(ap, w, nst)
    BY <1>1, <1>5, Zenon DEF CachingOK
  <1> QED
    BY <1>3, <1>4, <1>5, Zenon

LEMMA TrimsFields ==
    ASSUME Shape
    PROVE  /\ \A t \in Trimmers : trim[t] # Idle => trim[t] \in TrimT /\ trim[t].to \in Int
           /\ app.pc = "cache" => app.batch \in BatchT
  <1>1. \A v \in TrimT : v.to \in Int
    BY DEF TrimT
  <1>2. \A v \in AppendT : v.batch \in BatchT
    BY DEF AppendT
  <1>3. "cache" # "idle"
    OBVIOUS
  <1>4. \A t \in Trimmers : trim[t] \in {Idle} \cup TrimT
    BY DEF Shape
  <1> QED
    BY <1>1, <1>2, <1>3, <1>4, Busy, Zenon

LEMMA TrimStartInv ==
    ASSUME Inv, NEW t \in Trimmers, NEW to \in TrimTargets, TrimStart(t, to)
    PROVE  Inv'
  <1> DEFINE v == [pc |-> "cache", to |-> to]
  <1>1. /\ purged' = Max({purged, to}) /\ trim' = [trim EXCEPT ![t] = v]
        /\ next' = next /\ wal' = wal /\ metas' = metas /\ objects' = objects
        /\ app' = app /\ up' = up /\ comp' = comp /\ del' = del
        /\ claimed' = claimed /\ acked' = acked
    BY DEF TrimStart, tiers
  <1>2. Shape /\ purged \in Nat /\ next \in Nat /\ acked \in SUBSET BatchT
    BY Zenon DEF Inv, Shape
  <1>3. to \in Int /\ purged' \in Nat /\ purged <= purged' /\ to <= purged'
    <2>1. to \in Int
      BY ConstantsAssumption
    <2> QED
      BY <1>1, <1>2, <2>1, HigherOf
  <1>4. v \in TrimT /\ v.to = to
    BY <1>3 DEF TrimT
  <1> HIDE DEF v
  <1>5. Shape'
    <2>1. trim' \in [Trimmers -> {Idle} \cup TrimT]
      BY <1>1, <1>2, <1>4 DEF Shape
    <2> QED
      BY <1>1, <1>2, <1>3, <2>1, Zenon DEF Shape
  <1>6. TrimsOK(trim', purged')
    <2>1. TrimsOK(trim, purged')
      BY <1>2, <1>3, PurgedGrows, TrimsFields, Zenon DEF Inv
    <2>2. trim'[t] = v /\ \A s \in Trimmers : s # t => trim'[s] = trim[s]
      BY <1>1, <1>2, Zenon DEF Shape
    <2>3. v.to <= purged'
      BY <1>3, <1>4
    <2> QED
      BY <2>1, <2>2, <2>3, Zenon DEF TrimsOK
  <1>7. AckedOK(acked', purged', claimed', wal', Elements(metas'), objects', up')
    BY <1>1, <1>2, <1>3, PurgedGrows, Zenon DEF Inv
  <1>8. CachingOK(app', wal', purged')
    BY <1>1, <1>2, <1>3, PurgedGrows, TrimsFields, Zenon DEF Inv
  <1> QED
    BY <1>1, <1>5, <1>6, <1>7, <1>8, Zenon DEF Inv

\* A trim that goes on.
LEMMA TrimGoesOn ==
    ASSUME Inv, NEW t \in Trimmers, trim[t].pc # "idle", purged' = purged,
           \/ \E pc \in {"cache", "wal", "objects"} : trim' = [trim EXCEPT ![t].pc = pc]
           \/ trim' = [trim EXCEPT ![t] = Idle]
    PROVE  /\ trim' \in [Trimmers -> {Idle} \cup TrimT]
           /\ TrimsOK(trim', purged')
  <1>1. trim \in [Trimmers -> {Idle} \cup TrimT] /\ trim[t] \in TrimT /\ trim[t] # Idle
    <2>1. trim[t] # Idle
      BY IdlePc
    <2> QED
      BY <2>1, Busy, Zenon DEF Inv, Shape
  <1>2. CASE trim' = [trim EXCEPT ![t] = Idle]
    <2>1. trim'[t] = Idle /\ \A s \in Trimmers : s # t => trim'[s] = trim[s]
      BY <1>1, <1>2, Zenon
    <2>2. trim' \in [Trimmers -> {Idle} \cup TrimT]
      BY <1>1, <1>2
    <2> QED
      BY <2>1, <2>2, Zenon DEF TrimsOK, Inv
  <1>3. ASSUME NEW pc \in {"cache", "wal", "objects"}, trim' = [trim EXCEPT ![t].pc = pc]
        PROVE  trim' \in [Trimmers -> {Idle} \cup TrimT] /\ TrimsOK(trim', purged')
    <2> DEFINE w == [trim[t] EXCEPT !.pc = pc]
    <2>1. w \in TrimT /\ w.to = trim[t].to
      BY <1>1, TrimMoves
    <2>2. trim' = [trim EXCEPT ![t] = w]
      BY <1>3, Zenon
    <2> HIDE DEF w
    <2>3. trim'[t] = w /\ \A s \in Trimmers : s # t => trim'[s] = trim[s]
      BY <1>1, <2>2, Zenon
    <2>4. trim' \in [Trimmers -> {Idle} \cup TrimT]
      BY <1>1, <2>1, <2>2
    <2>5. trim[t].to <= purged
      BY <1>1, Zenon DEF TrimsOK, Inv
    <2>6. w.to <= purged
      BY <2>1, <2>5
    <2> QED
      BY <2>3, <2>4, <2>6, Zenon DEF TrimsOK, Inv
  <1> QED
    BY <1>2, <1>3

LEMMA TrimCacheInv ==
    ASSUME Inv, NEW t \in Trimmers, TrimCache(t)
    PROVE  Inv'
  <1>1. /\ trim[t].pc = "cache" /\ trim' = [trim EXCEPT ![t].pc = "wal"]
        /\ purged' = purged /\ next' = next /\ wal' = wal /\ metas' = metas /\ objects' = objects
        /\ app' = app /\ up' = up /\ comp' = comp /\ del' = del
        /\ claimed' = claimed /\ acked' = acked
    BY DEF TrimCache
  <1>2. trim' \in [Trimmers -> {Idle} \cup TrimT] /\ TrimsOK(trim', purged')
    BY <1>1, TrimGoesOn, Zenon
  <1>3. Shape'
    BY <1>1, <1>2, Zenon DEF Shape, Inv
  <1> QED
    BY <1>1, <1>2, <1>3, Zenon DEF Inv

\* The WAL loses nothing but what a trim was called past.
LEMMA WalTrimmed ==
    ASSUME Inv, NEW to \in Int, to <= purged,
           AckedOK(acked, purged, claimed, wal, Elements(metas), objects, up)
    PROVE  /\ AckedOK(acked, purged, claimed, WalFrom(to), Elements(metas), objects, up)
           /\ CachingOK(app, WalFrom(to), purged)
           /\ WalFrom(to) \in SUBSET BatchT
  <1>1. purged \in Nat /\ wal \in SUBSET BatchT /\ acked \in SUBSET BatchT
    BY Zenon DEF Inv, Shape
  <1>2. \A b \in BatchT : b.base < purged \/ b.base >= to
    BY <1>1, BatchOffsets
  <1>3. \A b \in BatchT : b \in wal => b \in WalFrom(to) \/ b.base < purged
    BY <1>2, Zenon DEF WalFrom
  <1>4. WalFrom(to) \in SUBSET BatchT
    BY <1>1, Zenon DEF WalFrom
  <1> HIDE DEF WalFrom
  <1>5. AckedOK(acked, purged, claimed, WalFrom(to), Elements(metas), objects, up)
    BY <1>1, <1>3, Zenon DEF AckedOK
  <1>6. CachingOK(app, WalFrom(to), purged)
    BY <1>3, TrimsFields, Zenon DEF CachingOK, Inv
  <1> QED
    BY <1>4, <1>5, <1>6

LEMMA TrimWalInv ==
    ASSUME Inv, NEW t \in Trimmers, TrimWal(t)
    PROVE  Inv'
  <1>1. /\ trim[t].pc = "wal"
        /\ purged' = purged /\ next' = next /\ metas' = metas /\ objects' = objects
        /\ app' = app /\ up' = up /\ comp' = comp /\ del' = del
        /\ claimed' = claimed /\ acked' = acked
    BY DEF TrimWal
  <1>2. \/ wal' = WalFrom(trim[t].to) /\ trim' = [trim EXCEPT ![t].pc = "objects"]
        \/ wal' = wal /\ trim' = [trim EXCEPT ![t] = Idle]
    BY Zenon DEF TrimWal
  <1>3. trim' \in [Trimmers -> {Idle} \cup TrimT] /\ TrimsOK(trim', purged')
    <2>1. \/ \E pc \in {"cache", "wal", "objects"} : trim' = [trim EXCEPT ![t].pc = pc]
          \/ trim' = [trim EXCEPT ![t] = Idle]
      BY <1>2, Zenon
    <2>2. trim[t].pc # "idle"
      BY <1>1
    <2> QED
      BY <1>1, <2>1, <2>2, TrimGoesOn, Zenon
  <1>4. /\ wal' \in SUBSET BatchT
        /\ AckedOK(acked, purged, claimed, wal', Elements(metas), objects, up)
        /\ CachingOK(app, wal', purged)
    <2>1. trim[t].to \in Int /\ trim[t].to <= purged
      <3>1. trim[t] # Idle
        BY <1>1, IdlePc
      <3> QED
        BY <3>1, TrimsFields, Zenon DEF Inv, TrimsOK
    <2> QED
      BY <1>2, <2>1, WalTrimmed, Zenon DEF Inv, Shape
  <1>5. Shape'
    BY <1>1, <1>3, <1>4, Zenon DEF Shape, Inv
  <1> QED
    BY <1>1, <1>3, <1>4, <1>5, Zenon DEF Inv

LEMMA DeleteCheckInv ==
    ASSUME Inv, NEW d \in Deleters, NEW to \in Offsets, DeleteCheck(d, to)
    PROVE  Inv'
  <1> DEFINE v == [pc |-> "advance", to |-> to]
  <1>1. /\ del' = [del EXCEPT ![d] = v]
        /\ purged' = purged /\ next' = next /\ wal' = wal /\ metas' = metas /\ objects' = objects
        /\ app' = app /\ up' = up /\ comp' = comp /\ trim' = trim
        /\ claimed' = claimed /\ acked' = acked
    BY DEF DeleteCheck, tiers
  <1>2. v \in DeleteT
    BY ConstantsAssumption DEF DeleteT, Offsets
  <1> HIDE DEF v
  <1>3. del' \in [Deleters -> {Idle} \cup DeleteT]
    BY <1>1, <1>2, Zenon DEF Inv, Shape
  <1>4. Shape'
    BY <1>1, <1>3, Zenon DEF Shape, Inv
  <1> QED
    BY <1>1, <1>4, Zenon DEF Inv

\* A DeleteRecords that goes on.
LEMMA DeleteGoesOn ==
    ASSUME Inv, NEW d \in Deleters, del[d].pc # "idle",
           del' = [del EXCEPT ![d].pc = "cache"] \/ del' = [del EXCEPT ![d] = Idle]
    PROVE  del' \in [Deleters -> {Idle} \cup DeleteT] /\ del[d].to \in Nat
  <1>1. del \in [Deleters -> {Idle} \cup DeleteT] /\ del[d] \in DeleteT
    BY Busy, Zenon DEF Inv, Shape
  <1> DEFINE w == [del[d] EXCEPT !.pc = "cache"]
  <1>2. w \in DeleteT /\ del[d].to \in Nat
    BY <1>1 DEF DeleteT
  <1>3. del' = [del EXCEPT ![d] = w] \/ del' = [del EXCEPT ![d] = Idle]
    BY Zenon
  <1> HIDE DEF w
  <1> QED
    BY <1>1, <1>2, <1>3

LEMMA DeleteAdvanceInv ==
    ASSUME Inv, NEW d \in Deleters, DeleteAdvance(d)
    PROVE  Inv'
  <1>1. /\ del[d].pc = "advance"
        /\ purged' = purged /\ next' = next /\ wal' = wal /\ metas' = metas /\ objects' = objects
        /\ app' = app /\ up' = up /\ comp' = comp /\ trim' = trim
        /\ claimed' = claimed /\ acked' = acked
    BY DEF DeleteAdvance, tiers
  <1>2. del' = [del EXCEPT ![d].pc = "cache"] \/ del' = [del EXCEPT ![d] = Idle]
    BY Zenon DEF DeleteAdvance
  <1>3. del' \in [Deleters -> {Idle} \cup DeleteT]
    BY <1>1, <1>2, DeleteGoesOn
  <1>4. Shape'
    BY <1>1, <1>3, Zenon DEF Shape, Inv
  <1> QED
    BY <1>1, <1>4, Zenon DEF Inv

LEMMA DeleteCachedInv ==
    ASSUME Inv, NEW d \in Deleters, DeleteCached(d)
    PROVE  Inv'
  <1>1. /\ del[d].pc = "cache" /\ del' = [del EXCEPT ![d] = Idle]
        /\ purged' = purged /\ next' = next /\ wal' = wal /\ metas' = metas /\ objects' = objects
        /\ app' = app /\ up' = up /\ comp' = comp /\ trim' = trim
        /\ claimed' = claimed /\ acked' = acked
    BY DEF DeleteCached
  <1>2. del' \in [Deleters -> {Idle} \cup DeleteT]
    BY <1>1, DeleteGoesOn, Zenon
  <1>3. Shape'
    BY <1>1, <1>2, Zenon DEF Shape, Inv
  <1> QED
    BY <1>1, <1>3, Zenon DEF Inv

FetchStep(f) ==
    \/ \E o \in Offsets : FetchBounds(f, o)
    \/ FetchCache(f) \/ FetchObject(f) \/ FetchFails(f) \/ FetchDone(f)

LEMMA FetchInv ==
    ASSUME Inv, NEW f \in Fetchers, FetchStep(f)
    PROVE  Inv'
  <1>1. UNCHANGED <<purged, next, tiers, app, up, comp, trim, del, claimed, acked>>
    BY Zenon DEF FetchStep, FetchBounds, FetchCache, FetchObject, FetchFails, FetchDone
  <1>2. /\ purged' = purged /\ next' = next /\ wal' = wal /\ metas' = metas /\ objects' = objects
        /\ app' = app /\ up' = up /\ comp' = comp /\ trim' = trim /\ del' = del
        /\ claimed' = claimed /\ acked' = acked
    BY <1>1 DEF tiers
  <1> QED
    BY <1>2, Zenon DEF Inv, Shape

-----------------------------------------------------------------------------
(* Uploads.                                                                *)

\* The objects a compaction works on are metadata it has read.
LEMMA SeenAreMetas ==
    ASSUME Shape
    PROVE  /\ Seen(metas, comp) \in SUBSET MetaT
           /\ Elements(metas) \subseteq Known(metas, comp)
           /\ Known(metas, comp) \subseteq Seen(metas, comp)
           /\ \A c \in Compactors : comp[c].pc \in {"merge", "replace"} =>
                  comp[c].small \in Seq(MetaT) /\ Elements(comp[c].small) \subseteq Sources(comp)
           /\ \A c \in Compactors : comp[c].pc = "delete" =>
                  comp[c].small \in Seq(MetaT) /\ Elements(comp[c].small) \subseteq Doomed(comp)
  <1>1. \A s \in Seq(MetaT) : Elements(s) \subseteq MetaT
    BY DEF Elements
  <1>2. Elements(metas) \subseteq MetaT
    BY <1>1, Zenon DEF Shape
  <1>3. \A c \in Compactors : comp[c].pc \in {"merge", "replace", "delete"} => comp[c].small \in Seq(MetaT)
    <2>1. /\ \A v \in MergeT : v.small \in Seq(MetaT)
          /\ \A v \in ReplaceT : v.small \in Seq(MetaT)
      BY DEF MergeT, ReplaceT
    <2> QED
      BY <2>1, Busy, Zenon
  <1> QED
    BY <1>1, <1>2, <1>3, Zenon DEF Seen, Known, Sources, Doomed

LEMMA UploadIs ==
    ASSUME Shape, NEW u \in Uploaders, up[u].pc # "idle"
    PROVE  /\ up[u] \in UploadT /\ up[u] # Idle
           /\ up[u].start \in Nat /\ up[u].end \in Nat /\ up[u].batches \in SUBSET BatchT
  <1>1. up[u] \in UploadT /\ up[u] # Idle
    BY Busy, IdlePc
  <1> QED
    BY <1>1 DEF UploadT

\* One upload becomes v, and it is the only one.
Uploading(us, u, v, nus) ==
    /\ us \in [Uploaders -> {Idle} \cup UploadT] /\ v \in {Idle} \cup UploadT
    /\ nus = [us EXCEPT ![u] = v]
OnlyUpload(nus, v) ==
    /\ nus \in [Uploaders -> {Idle} \cup UploadT]
    /\ \A w \in Uploaders : nus[w] = v

LEMMA UploadSet ==
    ASSUME NEW us, NEW nus, NEW u \in Uploaders, NEW v, Uploading(us, u, v, nus), OneAtATime
    PROVE  OnlyUpload(nus, v)
  <1>1. nus \in [Uploaders -> {Idle} \cup UploadT] /\ nus[u] = v
    BY DEF Uploading
  <1>2. \A w \in Uploaders : w = u
    BY Zenon DEF OneAtATime
  <1> QED
    BY <1>1, <1>2, Zenon DEF OnlyUpload

LEMMA UploadBeginInv ==
    ASSUME Inv, OneAtATime, NEW u \in Uploaders, NEW last \in acked, UploadBegin(u, last)
    PROVE  Inv'
  <1> DEFINE batches == {b \in acked : claimed <= b.base /\ b.base <= last.base}
             bases == {b.base : b \in batches}
             from == Min(bases)
             v == [pc |-> "put", batches |-> batches, start |-> from, end |-> Last(last)]
             K == Seen(metas, comp)
  <1>1. /\ up[u] = Idle /\ claimed <= last.base /\ up' = [up EXCEPT ![u] = v]
        /\ claimed' = Last(last) + 1
        /\ purged' = purged /\ next' = next /\ wal' = wal /\ metas' = metas /\ objects' = objects
        /\ app' = app /\ comp' = comp /\ trim' = trim /\ del' = del /\ acked' = acked
    <2>1. last.base >= claimed
      BY Zenon DEF UploadBegin
    <2>2. last \in BatchT /\ claimed \in Nat
      BY Zenon DEF Inv, Shape
    <2>3. claimed <= last.base
      BY <2>1, <2>2, BatchOffsets
    <2>4. /\ wal' = wal /\ metas' = metas /\ objects' = objects
      BY DEF UploadBegin, tiers
    <2> QED
      BY <2>3, <2>4, Zenon DEF UploadBegin
  <1>2. /\ Shape /\ claimed \in Nat /\ next \in Nat /\ acked \in SUBSET BatchT /\ last \in BatchT
        /\ batches \in SUBSET BatchT
    BY Zenon DEF Inv, Shape
  <1>3. last \in batches
    <2>1. last.base <= last.base
      BY <1>2, BatchOffsets
    <2> QED
      BY <1>1, <2>1, Zenon
  <1>4. from \in bases /\ \A y \in bases : from <= y
    <2>1. bases \in SUBSET Nat
      BY <1>2, BatchOffsets, Zenon
    <2>2. bases # {}
      BY <1>3, Zenon
    <2> HIDE DEF bases
    <2> QED
      BY <2>1, <2>2, MinOf, Zenon
  <1>5. from \in Nat /\ claimed <= from /\ from <= last.base /\ last.base <= Last(last) /\ Last(last) \in Nat
    <2>1. PICK b \in batches : from = b.base
      BY <1>4, Zenon
    <2>2. b \in BatchT /\ claimed <= b.base
      BY <1>2, <2>1, Zenon
    <2>3. from <= last.base
      BY <1>3, <1>4, Zenon
    <2> QED
      BY <1>2, <2>1, <2>2, <2>3, BatchOffsets, Zenon
  <1>6. \A b \in batches : Last(b) <= Last(last)
    <2> SUFFICES ASSUME NEW b \in batches PROVE Last(b) <= Last(last)
      BY Zenon
    <2>1. b \in acked /\ b \in BatchT /\ b.base <= last.base
      BY <1>2, Zenon
    <2>2. b = last \/ Last(b) < last.base \/ Last(last) < b.base
      BY <2>1, Zenon DEF Inv, AppendsOK
    <2> HIDE DEF batches
    <2> QED
      BY <1>2, <2>1, <2>2, BatchOffsets
  <1>7. v \in UploadT /\ v.pc = "put" /\ v.batches = batches /\ v.start = from /\ v.end = Last(last) /\ v # Idle
    <2> HIDE DEF batches, from
    <2>1. v \in UploadT /\ v.pc = "put" /\ v.batches = batches /\ v.start = from /\ v.end = Last(last)
      BY <1>2, <1>5 DEF UploadT
    <2> QED
      BY <2>1, IdlePc
  <1>8. K \in SUBSET MetaT /\ Below(K, claimed)
    BY <1>2, SeenAreMetas, Zenon DEF Inv
  <1> HIDE DEF v, from, K
  <1>9. claimed' \in Nat /\ claimed < claimed' /\ Last(last) < claimed' /\ claimed' <= next
    <2>1. Last(last) < next
      BY Zenon DEF Inv, AppendsOK
    <2>2. last.base \in Nat
      BY <1>2, BatchOffsets, Zenon
    <2> QED
      BY <1>1, <1>2, <1>5, <2>1, <2>2
  <1>10. /\ up' \in [Uploaders -> {Idle} \cup UploadT]
         /\ \A w \in Uploaders : up'[w] = v
    <2>1. Uploading(up, u, v, up')
      BY <1>1, <1>2, <1>7, Zenon DEF Uploading, Shape
    <2>2. OnlyUpload(up', v)
      BY <2>1, UploadSet, Zenon
    <2> QED
      BY <2>2, Zenon DEF OnlyUpload
  <1>11. Shape'
    BY <1>1, <1>2, <1>9, <1>10, Zenon DEF Shape
  <1>12. Below(K, from) /\ Below(K, claimed')
    <2>1. \A m \in MetaT : m.end < claimed => m.end < from /\ m.end < claimed'
      BY <1>2, <1>5, <1>9, MetaFields
    <2> QED
      BY <1>8, <2>1, Zenon DEF Below
  <1>13. UploadsOK(up', K, objects, claimed')
    <2>1. UploadOK(v, K, objects, claimed')
      <3>1. v.start <= v.end /\ v.end < claimed'
        BY <1>2, <1>5, <1>7, <1>9, BatchOffsets
      <3>2. v.pc # "register"
        BY <1>7
      <3> HIDE DEF batches
      <3> QED
        BY <1>6, <1>7, <1>12, <3>1, <3>2, Zenon DEF UploadOK
    <2> QED
      BY <1>10, <2>1, Zenon DEF UploadsOK
  <1>14. AppendsOK(acked', app', next', claimed')
    <2>1. ASSUME app # Idle PROVE claimed' <= app.batch.base
      <3>1. Last(last) < app.batch.base
        BY <2>1, Zenon DEF Inv, AppendsOK
      <3>2. app.batch \in BatchT
        BY <1>2, <2>1 DEF Shape, AppendT
      <3> QED
        BY <1>1, <1>5, <3>1, <3>2, BatchOffsets
    <2> QED
      BY <1>1, <1>9, <2>1, Zenon DEF AppendsOK, Inv
  <1>15. AckedOK(acked, purged, claimed', wal, Elements(metas), objects, up')
    <2> SUFFICES ASSUME NEW b \in acked
                 PROVE  AckedOK({b}, purged, claimed', wal, Elements(metas), objects, up')
      BY Zenon DEF AckedOK
    <2>1. b \in BatchT /\ b.base \in Nat
      BY <1>2, BatchOffsets, Zenon
    <2>2. AckedOK({b}, purged, claimed, wal, Elements(metas), objects, up)
      BY Zenon DEF AckedOK, Inv
    <2>3. \A w \in Uploaders : ~(up[w].pc \in {"put", "register"})
      <3>1. \A w \in Uploaders : up[w] = Idle
        BY <1>1, Zenon DEF OneAtATime
      <3> QED
        BY <3>1, IdlePc
    <2>4. CASE b.base < purged
      BY <2>4, Zenon DEF AckedOK
    <2>5. CASE b.base < claimed /\ \E m \in Elements(metas) : b \in Held(objects, m)
      <3>1. b.base < claimed'
        BY <1>2, <1>9, <2>1, <2>5
      <3> QED
        BY <2>5, <3>1, Zenon DEF AckedOK
    <2>6. CASE claimed <= b.base /\ b \in wal /\ claimed' <= b.base
      BY <2>6, Zenon DEF AckedOK
    <2>7. CASE claimed <= b.base /\ b \in wal /\ ~(claimed' <= b.base)
      <3>1. b.base < claimed'
        BY <1>9, <2>1, <2>7
      <3>2. b = last \/ Last(b) < last.base \/ Last(last) < b.base
        BY Zenon DEF Inv, AppendsOK
      <3>3. b.base <= last.base
        BY <1>1, <1>2, <1>5, <2>1, <3>1, <3>2, BatchOffsets
      <3>4. b \in batches
        BY <2>7, <3>3, Zenon
      <3> HIDE DEF batches
      <3> QED
        BY <1>7, <1>10, <2>7, <3>1, <3>4, Zenon DEF AckedOK
    <2> QED
      BY <2>2, <2>3, <2>4, <2>5, <2>6, <2>7, Zenon DEF AckedOK
  <1> QED
    BY <1>1, <1>11, <1>12, <1>13, <1>14, <1>15, Zenon DEF Inv, K

\* g is f with v at k.
PutAt(f, k, v, g) ==
    /\ DOMAIN g = DOMAIN f \cup {k} /\ g[k] = v
    /\ \A x \in DOMAIN f : x # k => g[x] = f[x]

LEMMA PutIs ==
    ASSUME NEW f, NEW k, NEW v
    PROVE  PutAt(f, k, v, Put(f, k, v))
  BY DEF Put, PutAt

\* Two states of the storage hold the same of the objects K.
Agrees(ob, nob, K) == \A m \in K :
    /\ m.key \in DOMAIN ob <=> m.key \in DOMAIN nob
    /\ m.key \in DOMAIN ob => nob[m.key] = ob[m.key]

MergesAgree(ob, nob, cs) ==
    \A c \in Compactors : cs[c].pc = "replace" => Agrees(ob, nob, {cs[c].meta})

HeldSame(R, ob, nob) == \A m \in R : Held(nob, m) = Held(ob, m)

LEMMA StorageAgrees ==
    ASSUME NEW R, NEW K, NEW ob, NEW nob, R \subseteq K, Agrees(ob, nob, K), ObjectsOK(R, K, ob)
    PROVE  ObjectsOK(R, K, nob) /\ HeldSame(R, ob, nob)
  <1>1. \A m \in R : m.key \in DOMAIN ob /\ m.key \in DOMAIN nob /\ nob[m.key] = ob[m.key]
    BY Zenon DEF Agrees, ObjectsOK
  <1>2. ObjectsOK(R, K, nob)
    BY <1>1, Zenon DEF ObjectsOK, Agrees
  <1> QED
    BY <1>1, <1>2, Zenon DEF Held, HeldSame

LEMMA CompsAgree ==
    ASSUME NEW R, NEW ob, NEW nob, NEW cs, Agrees(ob, nob, R), \A m \in R : m.key \in DOMAIN ob,
           CompsOK(cs, R, ob), MergesAgree(ob, nob, cs)
    PROVE  CompsOK(cs, R, nob)
  <1>1. \A m \in R : m.key \in DOMAIN ob /\ m.key \in DOMAIN nob /\ nob[m.key] = ob[m.key]
    BY Zenon DEF Agrees
  <1>3. ASSUME NEW c \in Compactors, cs[c].pc = "replace", Agrees(ob, nob, {cs[c].meta})
        PROVE  MergedOK(cs[c].meta, Elements(cs[c].small), R, nob)
    <2> DEFINE M == cs[c].meta
               S == Elements(cs[c].small)
    <2>1. MergedOK(M, S, R, ob)
      BY <1>3, Zenon DEF CompsOK
    <2>2. Agrees(ob, nob, {M})
      BY <1>3
    <2> HIDE DEF M, S
    <2>3. M.key \in DOMAIN nob /\ nob[M.key] = ob[M.key]
      BY <2>1, <2>2, Zenon DEF MergedOK, Agrees
    <2>4. \A n \in S \cap R : nob[n.key] \subseteq nob[M.key]
      <3>1. \A n \in S \cap R : ob[n.key] \subseteq ob[M.key]
        BY <2>1, Zenon DEF MergedOK
      <3> QED
        BY <1>1, <2>3, <3>1
    <2>5. BlocksOK(nob[M.key], M.start, M.end)
      BY <2>1, <2>3, Zenon DEF MergedOK
    <2>6. MergedOK(M, S, R, nob)
      BY <2>1, <2>3, <2>4, <2>5, Zenon DEF MergedOK
    <2> QED
      BY <2>6, Zenon DEF M, S
  <1> QED
    BY <1>3, Zenon DEF MergesAgree, CompsOK

LEMMA UploadPutInv ==
    ASSUME Inv, OneAtATime, NEW u \in Uploaders, UploadPut(u)
    PROVE  Inv'
  <1> DEFINE v == up[u]
             w == [v EXCEPT !.pc = "register"]
             k == Key("data", v.start, v.end)
             block == [start |-> v.start, end |-> v.end, batches |-> v.batches]
             R == Elements(metas)
             K == Known(metas, comp)
             A == Seen(metas, comp)
  <1>1. /\ v.pc = "put" /\ objects' = Put(objects, k, {block}) /\ up' = [up EXCEPT ![u] = w]
        /\ purged' = purged /\ next' = next /\ wal' = wal /\ metas' = metas
        /\ app' = app /\ comp' = comp /\ trim' = trim /\ del' = del
        /\ claimed' = claimed /\ acked' = acked
    BY Zenon DEF UploadPut, UploadKey, UploadBlock
  <1>2. Shape
    BY Zenon DEF Inv
  <1>3. /\ v \in UploadT /\ v # Idle /\ v.start \in Nat /\ v.end \in Nat
        /\ v.batches \in SUBSET BatchT
    <2>1. v.pc # "idle"
      BY <1>1
    <2> QED
      BY <1>2, <2>1, UploadIs, Zenon
  <1>4. UploadOK(v, A, objects, claimed)
    BY <1>3, Zenon DEF Inv, UploadsOK
  <1>5. v.start <= v.end /\ v.end < claimed /\ Below(A, v.start)
    BY <1>1, <1>4, Zenon DEF UploadOK
  <1>6. block \in BlockT
    BY <1>3 DEF BlockT
  <1>7. k \in KeyT /\ k.kind = "data" /\ k.end = v.end
    BY <1>3, <1>5, MetaMade
  <1>8. /\ w \in UploadT /\ w.pc = "register" /\ w # Idle
        /\ w.batches = v.batches /\ w.start = v.start /\ w.end = v.end
    BY <1>3, UploadMoves
  <1>9. /\ up' \in [Uploaders -> {Idle} \cup UploadT]
        /\ \A x \in Uploaders : up'[x] = w
    <2> HIDE DEF w, v
    <2>1. Uploading(up, u, w, up')
      BY <1>1, <1>2, <1>8, Zenon DEF Uploading, Shape
    <2>2. OnlyUpload(up', w)
      BY <2>1, UploadSet, Zenon
    <2> QED
      BY <2>2, Zenon DEF OnlyUpload
  <1>10. A \in SUBSET MetaT /\ R \subseteq K /\ K \subseteq A
    BY <1>2, SeenAreMetas, Zenon
  <1> HIDE DEF w, k, R, K, A
  <1>11. \A m \in A : m.key # k
    <2> SUFFICES ASSUME NEW m \in A, m.key = k PROVE FALSE
      BY Zenon
    <2>1. m \in MetaT /\ m.end < v.start
      BY <1>5, <1>10, Zenon DEF Below
    <2> HIDE DEF v
    <2> QED
      BY <1>3, <1>5, <1>7, <2>1, MetaFields
  <1>12. /\ DOMAIN objects' = DOMAIN objects \cup {k} /\ objects'[k] = {block}
         /\ \A x \in DOMAIN objects : x # k => objects'[x] = objects[x]
    <2>1. PutAt(objects, k, {block}, objects')
      BY <1>1, PutIs, Zenon
    <2> QED
      BY <2>1, Zenon DEF PutAt
  <1>13. Agrees(objects, objects', K) /\ Agrees(objects, objects', R)
    BY <1>10, <1>11, <1>12, Zenon DEF Agrees
  <1>14. ASSUME NEW c \in Compactors, comp[c].pc = "replace"
         PROVE  Agrees(objects, objects', {comp[c].meta})
    <2>1. MergedOK(comp[c].meta, Elements(comp[c].small), R, objects)
      BY <1>14, Zenon DEF Inv, CompsOK, R
    <2>2. comp[c].meta.key.kind = "compacted"
      BY <2>1, Zenon DEF MergedOK
    <2>3. comp[c].meta.key # k
      BY <1>7, <2>2
    <2> QED
      BY <1>12, <2>3, Zenon DEF Agrees
  <1>15. /\ ObjectsOK(R, K, objects') /\ CompsOK(comp, R, objects')
         /\ \A m \in R : Held(objects', m) = Held(objects, m)
    <2>1. ObjectsOK(R, K, objects) /\ CompsOK(comp, R, objects)
      BY Zenon DEF Inv, R, K
    <2>2. MergesAgree(objects, objects', comp)
      BY <1>14, Zenon DEF MergesAgree
    <2>3. \A m \in R : m.key \in DOMAIN objects
      BY <2>1, Zenon DEF ObjectsOK
    <2>4. CompsOK(comp, R, objects')
      BY <1>13, <2>1, <2>2, <2>3, CompsAgree, Zenon
    <2>5. ObjectsOK(R, K, objects') /\ HeldSame(R, objects, objects')
      <3>1. R \subseteq K /\ Agrees(objects, objects', K) /\ ObjectsOK(R, K, objects)
        BY <1>10, <1>13, <2>1, Zenon
      <3> QED
        BY <3>1, StorageAgrees, Zenon
    <2> QED
      BY <2>4, <2>5, Zenon DEF HeldSame
  <1>16. AckedOK(acked, purged, claimed, wal, R, objects', up')
    <2> SUFFICES ASSUME NEW b \in acked
                 PROVE  AckedOK({b}, purged, claimed, wal, R, objects', up')
      BY Zenon DEF AckedOK
    <2>1. AckedOK({b}, purged, claimed, wal, R, objects, up)
      BY Zenon DEF AckedOK, Inv, R
    <2>2. \A x \in Uploaders : x = u
      BY Zenon DEF OneAtATime
    <2>3. ASSUME NEW x \in Uploaders, b \in up[x].batches
          PROVE  up'[x].pc \in {"put", "register"} /\ b \in up'[x].batches
      BY <1>8, <1>9, <2>2, <2>3, Zenon
    <2> QED
      BY <1>15, <2>1, <2>3, Zenon DEF AckedOK
  <1>17. UploadsOK(up', A, objects', claimed)
    <2>1. UploadOK(w, A, objects', claimed)
      <3>1. Key("data", w.start, w.end) = k
        BY <1>8, Zenon DEF k
      <3>2. [start |-> w.start, end |-> w.end, batches |-> w.batches] = block
        BY <1>8, Zenon
      <3>3. k \in DOMAIN objects'
        BY <1>12, Zenon
      <3> HIDE DEF block
      <3>4. /\ w.start <= w.end /\ w.end < claimed /\ Below(A, w.start)
            /\ \A b \in w.batches : Last(b) <= w.end
        BY <1>4, <1>5, <1>8, Zenon DEF UploadOK
      <3> QED
        BY <1>12, <3>1, <3>2, <3>3, <3>4, Zenon DEF UploadOK
    <2> QED
      BY <1>9, <2>1, Zenon DEF UploadsOK
  <1>18. Shape'
    <2>1. /\ DOMAIN objects' \subseteq KeyT
          /\ \A x \in DOMAIN objects' : objects'[x] \in SUBSET BlockT
      <3> HIDE DEF block
      <3>1. {block} \in SUBSET BlockT
        BY <1>6, Zenon
      <3> QED
        BY <1>2, <1>7, <1>12, <3>1, Zenon DEF Shape
    <2> QED
      BY <1>1, <1>2, <1>9, <2>1, Zenon DEF Shape
  <1> QED
    BY <1>1, <1>15, <1>16, <1>17, <1>18, Zenon DEF Inv, R, K, A

\* What Append, Only and Sorted make of a list of metadata.
Gains(s, e, t) ==
    /\ t \in Seq(MetaT) /\ Elements(t) = Elements(s) \cup {e}
    /\ Distinct(s) /\ e \notin Elements(s) => Distinct(t)
Keeps(s, kept, t) ==
    t \in Seq(MetaT) /\ Elements(t) = Elements(s) \cap kept /\ (Distinct(s) => Distinct(t))
Permutes(s, t) == t \in Seq(MetaT) /\ Elements(t) = Elements(s) /\ (Distinct(s) => Distinct(t))

LEMMA ListsMade ==
    ASSUME NEW s \in Seq(MetaT)
    PROVE  /\ \A e \in MetaT : Gains(s, e, Append(s, e))
           /\ \A kept : Keeps(s, kept, Only(s, kept))
           /\ Permutes(s, Sorted(s))
  <1>1. ASSUME NEW e \in MetaT PROVE Gains(s, e, Append(s, e))
    BY Appended DEF Gains
  <1>2. ASSUME NEW kept PROVE Keeps(s, kept, Only(s, kept))
    BY OnlyElements DEF Keeps
  <1>3. Permutes(s, Sorted(s))
    BY SortedElements DEF Permutes
  <1> QED
    BY <1>1, <1>2, <1>3

\* The metadata of an object of a kind and its offsets.
Describes(m, kind, from, to) ==
    /\ m \in MetaT /\ m.key = Key(kind, from, to) /\ m.start = from /\ m.end = to
    /\ m.key \in KeyT /\ m.key.kind = kind /\ m.key.end = to

LEMMA MetaDescribes ==
    ASSUME NEW kind \in {"data", "compacted"}, NEW from \in Nat, NEW to \in Nat, from <= to,
           NEW blocks \in SUBSET BlockT
    PROVE  Describes(Meta(Key(kind, from, to), blocks), kind, from, to)
  <1> DEFINE m == Meta(Key(kind, from, to), blocks)
  <1>1. /\ m \in MetaT /\ m.key = Key(kind, from, to) /\ m.start = from /\ m.end = to
        /\ m.key \in KeyT
    BY MetaMade
  <1>2. m.key.kind = kind /\ m.key.end = to
    BY <1>1, MetaMade
  <1> HIDE DEF m
  <1>3. Describes(m, kind, from, to)
    BY <1>1, <1>2, Zenon DEF Describes
  <1> QED
    BY <1>3, Zenon DEF m

\* A newer object joins those there are.
LEMMA NewerKnown ==
    ASSUME NEW K \in SUBSET MetaT, NEW m \in MetaT, m.key.kind = "data", KnownOK(K), Below(K, m.start)
    PROVE  KnownOK(K \cup {m}) /\ m \notin K
  <1>1. \A n \in K : n.end < m.start
    BY Zenon DEF Below
  <1>2. m \notin K
    BY <1>1, MetaFields
  <1>3. m.key.kind # "compacted"
    OBVIOUS
  <1>4. \A a, b \in K \cup {m} : a # b /\ a.key.kind = b.key.kind => Apart(a, b)
    BY <1>1, Zenon DEF KnownOK, Apart
  <1>5. \A a, b \in K \cup {m} :
            a # b /\ a.key.kind = "compacted" /\ IsSmall(b) => a.end < b.start
    BY <1>1, <1>3, Zenon DEF KnownOK
  <1> QED
    BY <1>2, <1>4, <1>5, Zenon DEF KnownOK

LEMMA UploadRegisterInv ==
    ASSUME Inv, OneAtATime, NEW u \in Uploaders, UploadRegister(u)
    PROVE  Inv'
  <1> DEFINE v == up[u]
             w == [v EXCEPT !.pc = "trim"]
             k == Key("data", v.start, v.end)
             block == [start |-> v.start, end |-> v.end, batches |-> v.batches]
             m == Meta(k, {block})
             R == Elements(metas)
             K == Known(metas, comp)
             A == Seen(metas, comp)
  <1>1. /\ v.pc = "register" /\ metas' = Append(metas, m) /\ up' = [up EXCEPT ![u] = w]
        /\ purged' = purged /\ next' = next /\ wal' = wal /\ objects' = objects
        /\ app' = app /\ comp' = comp /\ trim' = trim /\ del' = del
        /\ claimed' = claimed /\ acked' = acked
    BY Zenon DEF UploadRegister, UploadKey, UploadBlock
  <1>2. Shape
    BY Zenon DEF Inv
  <1>3. /\ v \in UploadT /\ v # Idle /\ v.start \in Nat /\ v.end \in Nat
        /\ v.batches \in SUBSET BatchT
    <2>1. v.pc # "idle"
      BY <1>1
    <2> QED
      BY <1>2, <2>1, UploadIs, Zenon
  <1>4. UploadOK(v, A, objects, claimed)
    BY <1>3, Zenon DEF Inv, UploadsOK
  <1>5. /\ v.start <= v.end /\ v.end < claimed /\ Below(A, v.start)
        /\ k \in DOMAIN objects /\ objects[k] = {block}
        /\ \A b \in v.batches : Last(b) <= v.end
    BY <1>1, <1>4, Zenon DEF UploadOK
  <1>6. block \in BlockT /\ block.start = v.start /\ block.end = v.end /\ block.batches = v.batches
    BY <1>3 DEF BlockT
  <1>7. /\ m \in MetaT /\ m.key = k /\ m.start = v.start /\ m.end = v.end
        /\ k \in KeyT /\ k.kind = "data" /\ k.end = v.end
    <2> HIDE DEF v, block
    <2>1. {block} \in SUBSET BlockT /\ "data" \in {"data", "compacted"}
      BY <1>6
    <2>2. Describes(m, "data", v.start, v.end)
      BY <1>3, <1>5, <2>1, MetaDescribes, Zenon
    <2> HIDE DEF m
    <2> QED
      BY <2>2, Zenon DEF Describes
  <1>8. /\ w \in UploadT /\ w.pc = "trim" /\ w # Idle
        /\ w.batches = v.batches /\ w.start = v.start /\ w.end = v.end
    BY <1>3, UploadMoves
  <1>9. /\ up' \in [Uploaders -> {Idle} \cup UploadT]
        /\ \A x \in Uploaders : up'[x] = w
    <2> HIDE DEF w, v
    <2>1. Uploading(up, u, w, up')
      BY <1>1, <1>2, <1>8, Zenon DEF Uploading, Shape
    <2>2. OnlyUpload(up', w)
      BY <2>1, UploadSet, Zenon
    <2> QED
      BY <2>2, Zenon DEF OnlyUpload
  <1>10. A \in SUBSET MetaT /\ K \in SUBSET MetaT /\ R \subseteq K /\ K \subseteq A
    <2> HIDE DEF K, A, R
    <2>1. A \in SUBSET MetaT /\ R \subseteq K /\ K \subseteq A
      BY <1>2, SeenAreMetas, Zenon DEF K, A, R
    <2> QED
      BY <2>1, Zenon
  <1> HIDE DEF w, k, m, R, K, A, v
  <1>11. \A n \in A : n.end < m.start /\ n.key # m.key
    <2> SUFFICES ASSUME NEW n \in A PROVE n.end < m.start /\ n.key # m.key
      BY Zenon
    <2>1. n \in MetaT /\ n.end < v.start
      BY <1>5, <1>10, Zenon DEF Below
    <2> QED
      BY <1>3, <1>5, <1>7, <2>1, MetaFields
  <1>12. Below(K, m.start)
    BY <1>10, <1>11, Zenon DEF Below
  <1>13. KnownOK(K \cup {m}) /\ m \notin K /\ m \notin R
    <2>1. KnownOK(K)
      BY Zenon DEF Inv, K
    <2> QED
      BY <1>7, <1>10, <1>12, <2>1, NewerKnown, Zenon
  <1>14. metas' \in Seq(MetaT) /\ Elements(metas') = R \cup {m} /\ Distinct(metas')
    <2>1. metas \in Seq(MetaT) /\ Distinct(metas)
      BY Zenon DEF Inv, Shape
    <2>2. Gains(metas, m, metas')
      BY <1>1, <1>7, <2>1, ListsMade, Zenon
    <2> QED
      BY <1>13, <2>1, <2>2, Zenon DEF R, Gains
  <1>15. Known(metas', comp') = K \cup {m} /\ Seen(metas', comp') = A \cup {m}
    BY <1>1, <1>14, Zenon DEF K, A, R, Known, Seen
  <1>16. Below(A \cup {m}, claimed)
    <2>1. Below(A, claimed)
      BY Zenon DEF Inv, A
    <2> QED
      BY <1>5, <1>7, <2>1 DEF Below
  <1>17. UploadsOK(up', A \cup {m}, objects, claimed)
    <2>1. UploadOK(w, A \cup {m}, objects, claimed)
      <3>1. w.pc # "put" /\ w.pc # "register"
        BY <1>8
      <3>2. w.start <= w.end /\ w.end < claimed /\ \A b \in w.batches : Last(b) <= w.end
        BY <1>5, <1>8, Zenon
      <3> QED
        BY <3>1, <3>2, Zenon DEF UploadOK
    <2> QED
      BY <1>9, <2>1, Zenon DEF UploadsOK
  <1>18. ObjectsOK(R \cup {m}, K \cup {m}, objects)
    <2>1. BlocksOK(objects[m.key], m.start, m.end)
      <3>1. v.start <= v.start /\ v.end <= v.end
        BY <1>3
      <3> HIDE DEF block
      <3> QED
        BY <1>5, <1>6, <1>7, <3>1 DEF BlocksOK
    <2>2. ObjectsOK(R, K, objects)
      BY Zenon DEF Inv, R, K
    <2>3. m.key \in DOMAIN objects
      BY <1>5, <1>7, Zenon
    <2> QED
      BY <2>1, <2>2, <2>3, Zenon DEF ObjectsOK
  <1>19. CompsOK(comp, R \cup {m}, objects)
    <2> SUFFICES ASSUME NEW c \in Compactors
                 PROVE  /\ comp[c].pc \in {"merge", "replace"} =>
                              SourcesOK(Elements(comp[c].small), R \cup {m})
                        /\ comp[c].pc = "replace" =>
                              MergedOK(comp[c].meta, Elements(comp[c].small), R \cup {m}, objects)
      BY Zenon DEF CompsOK
    <2> DEFINE S == Elements(comp[c].small)
    <2>1. comp[c].pc \in {"merge", "replace"} => S \subseteq A
      BY <1>2, SeenAreMetas, Zenon DEF A, Seen, Known
    <2>2. /\ comp[c].pc \in {"merge", "replace"} => SourcesOK(S, R)
          /\ comp[c].pc = "replace" => MergedOK(comp[c].meta, S, R, objects)
      BY Zenon DEF Inv, CompsOK, R
    <2>3. m.key.kind = "data"
      BY <1>7, Zenon
    <2>4. "replace" \in {"merge", "replace"}
      OBVIOUS
    <2> HIDE DEF S
    <2>5. ASSUME comp[c].pc \in {"merge", "replace"} PROVE SourcesOK(S, R \cup {m})
      <3>1. \A n \in S : n.end < m.start
        BY <1>11, <2>1, <2>5, Zenon
      <3> QED
        BY <2>2, <2>3, <2>5, <3>1, Zenon DEF SourcesOK
    <2>6. ASSUME comp[c].pc = "replace" PROVE MergedOK(comp[c].meta, S, R \cup {m}, objects)
      <3>1. m \notin A
        BY <1>7, <1>11, Zenon
      <3>2. S \cap (R \cup {m}) = S \cap R
        BY <2>1, <2>4, <2>6, <3>1, Zenon
      <3> QED
        BY <2>2, <2>6, <3>2, Zenon DEF MergedOK
    <2> QED
      BY <2>5, <2>6, Zenon DEF S
  <1>20. DoomedOK(Doomed(comp), R \cup {m})
    <2>1. DoomedOK(Doomed(comp), R)
      BY Zenon DEF Inv, R
    <2>2. Doomed(comp) \subseteq A
      BY Zenon DEF A, Seen
    <2>3. \A n \in Doomed(comp) : m.key # n.key
      BY <1>11, <2>2, Zenon
    <2> QED
      BY <2>1, <2>3, Zenon DEF DoomedOK
  <1>21. AckedOK(acked, purged, claimed, wal, R \cup {m}, objects, up')
    <2> SUFFICES ASSUME NEW b \in acked
                 PROVE  AckedOK({b}, purged, claimed, wal, R \cup {m}, objects, up')
      BY Zenon DEF AckedOK
    <2>1. AckedOK({b}, purged, claimed, wal, R, objects, up)
      BY Zenon DEF AckedOK, Inv, R
    <2>2. \A x \in Uploaders : up[x] = v
      BY Zenon DEF OneAtATime, v
    <2>3. Held(objects, m) = v.batches
      <3> HIDE DEF block
      <3>1. objects[m.key] = {block}
        BY <1>5, <1>7, Zenon
      <3>2. UNION {x.batches : x \in {block}} = v.batches
        BY <1>6, Zenon
      <3> QED
        BY <3>1, <3>2, Zenon DEF Held
    <2>4. m \in R \cup {m}
      BY Zenon
    <2>5. ASSUME NEW x \in Uploaders, b \in up[x].batches PROVE b \in Held(objects, m)
      BY <2>2, <2>3, <2>5, Zenon
    <2> QED
      BY <2>1, <2>4, <2>5, Zenon DEF AckedOK
  <1>22. Shape'
    BY <1>1, <1>2, <1>9, <1>14, Zenon DEF Shape
  <1>23. /\ AppendsOK(acked', app', next', claimed') /\ TrimsOK(trim', purged')
         /\ CachingOK(app', wal', purged')
    BY <1>1, Zenon DEF Inv
  <1> QED
    BY <1>1, <1>13, <1>14, <1>15, <1>16, <1>17, <1>18, <1>19, <1>20, <1>21, <1>22, <1>23, Zenon
       DEF Inv

LEMMA UploadTrimWalInv ==
    ASSUME Inv, OneAtATime, NEW u \in Uploaders, UploadTrimWal(u)
    PROVE  Inv'
  <1> DEFINE v == up[u]
  <1>1. /\ v.pc = "trim" /\ up' = [up EXCEPT ![u] = Idle]
        /\ wal' = WalFrom(v.start) \/ wal' = wal
        /\ purged' = purged /\ next' = next /\ metas' = metas /\ objects' = objects
        /\ app' = app /\ comp' = comp /\ trim' = trim /\ del' = del
        /\ claimed' = claimed /\ acked' = acked
    BY Zenon DEF UploadTrimWal
  <1>2. /\ Shape /\ claimed \in Nat /\ wal \in SUBSET BatchT /\ acked \in SUBSET BatchT
    BY Zenon DEF Inv, Shape
  <1>3. v # Idle /\ v.start \in Nat /\ v.end \in Nat
    <2>1. v.pc # "idle"
      BY <1>1
    <2> QED
      BY <1>2, <2>1, UploadIs, Zenon
  <1>4. v.start <= v.end /\ v.end < claimed
    BY <1>3, Zenon DEF Inv, UploadsOK, UploadOK
  <1>5. /\ up' \in [Uploaders -> {Idle} \cup UploadT]
        /\ \A x \in Uploaders : up'[x] = Idle
    <2>1. Uploading(up, u, Idle, up')
      BY <1>1, <1>2, Zenon DEF Uploading, Shape
    <2>2. OnlyUpload(up', Idle)
      BY <2>1, UploadSet, Zenon
    <2> QED
      BY <2>2, Zenon DEF OnlyUpload
  <1>6. /\ wal' \in SUBSET BatchT
        /\ \A b \in BatchT : claimed <= b.base /\ b \in wal => b \in wal'
    <2>1. \A b \in BatchT : claimed <= b.base => b.base >= v.start
      <3> HIDE DEF v
      <3> QED
        BY <1>2, <1>3, <1>4, BatchOffsets
    <2>2. WalFrom(v.start) \in SUBSET BatchT
      BY <1>2, Zenon DEF WalFrom
    <2>3. \A b \in BatchT : claimed <= b.base /\ b \in wal => b \in WalFrom(v.start)
      BY <2>1, Zenon DEF WalFrom
    <2> QED
      BY <1>1, <1>2, <2>2, <2>3, Zenon
  <1>7. Shape'
    BY <1>1, <1>2, <1>5, <1>6, Zenon DEF Shape
  <1>8. UploadsOK(up', Seen(metas', comp'), objects', claimed')
    BY <1>5, Zenon DEF UploadsOK
  <1>9. AckedOK(acked, purged, claimed, wal', Elements(metas), objects, up')
    <2> SUFFICES ASSUME NEW b \in acked
                 PROVE  AckedOK({b}, purged, claimed, wal', Elements(metas), objects, up')
      BY Zenon DEF AckedOK
    <2>1. AckedOK({b}, purged, claimed, wal, Elements(metas), objects, up)
      BY Zenon DEF AckedOK, Inv
    <2>2. \A x \in Uploaders : ~(up[x].pc \in {"put", "register"})
      <3>1. \A x \in Uploaders : up[x] = v
        BY Zenon DEF OneAtATime
      <3> HIDE DEF v
      <3> QED
        BY <1>1, <3>1
    <2>3. b \in BatchT
      BY <1>2, Zenon
    <2> QED
      BY <1>6, <2>1, <2>2, <2>3, Zenon DEF AckedOK
  <1>10. CachingOK(app, wal', purged)
    <2> SUFFICES ASSUME app.pc = "cache" PROVE app.batch \in wal' \/ app.batch.base < purged
      BY Zenon DEF CachingOK
    <2>1. app # Idle
      BY IdlePc
    <2>2. app.batch \in BatchT
      BY <1>2, TrimsFields, Zenon
    <2>3. claimed <= app.batch.base
      BY <2>1, Zenon DEF Inv, AppendsOK
    <2>4. app.batch \in wal \/ app.batch.base < purged
      BY Zenon DEF Inv, CachingOK
    <2> QED
      BY <1>6, <2>2, <2>3, <2>4, Zenon
  <1> QED
    BY <1>1, <1>7, <1>8, <1>9, <1>10, Zenon DEF Inv

-----------------------------------------------------------------------------
(* Compactions.                                                            *)

\* The one compaction becomes v.
Compacting(cs, c, v, ncs) ==
    /\ cs \in [Compactors -> {Idle} \cup MergeT \cup ReplaceT]
    /\ v \in {Idle} \cup MergeT \cup ReplaceT
    /\ ncs = [cs EXCEPT ![c] = v]
OnlyCompaction(cs, v) ==
    /\ cs \in [Compactors -> {Idle} \cup MergeT \cup ReplaceT]
    /\ Compactors # {} /\ \A d \in Compactors : cs[d] = v

LEMMA CompactionSet ==
    ASSUME NEW cs, NEW ncs, NEW c \in Compactors, NEW v, Compacting(cs, c, v, ncs), OneAtATime
    PROVE  OnlyCompaction(ncs, v)
  <1>1. ncs \in [Compactors -> {Idle} \cup MergeT \cup ReplaceT] /\ ncs[c] = v
    BY DEF Compacting
  <1>2. \A d \in Compactors : d = c
    BY Zenon DEF OneAtATime
  <1> QED
    BY <1>1, <1>2, Zenon DEF OnlyCompaction

LEMMA CompactionIs ==
    ASSUME Shape, OneAtATime, NEW c \in Compactors
    PROVE  OnlyCompaction(comp, comp[c])
  <1>1. \A d \in Compactors : d = c
    BY Zenon DEF OneAtATime
  <1> QED
    BY <1>1, Zenon DEF OnlyCompaction, Shape

\* What the one compaction makes of the objects.
LEMMA CompactionSees ==
    ASSUME NEW cs, NEW v, NEW ms, OnlyCompaction(cs, v)
    PROVE  /\ v.pc \in {"merge", "replace"} /\ Elements(v.small) \subseteq MetaT =>
                 /\ Sources(cs) = Elements(v.small) /\ Doomed(cs) = {}
                 /\ Known(ms, cs) = Elements(ms) \cup Elements(v.small)
                 /\ Seen(ms, cs) = Elements(ms) \cup Elements(v.small)
           /\ v.pc = "delete" /\ Elements(v.small) \subseteq MetaT =>
                 /\ Sources(cs) = {} /\ Doomed(cs) = Elements(v.small)
                 /\ Known(ms, cs) = Elements(ms)
                 /\ Seen(ms, cs) = Elements(ms) \cup Elements(v.small)
           /\ v = Idle =>
                 /\ Sources(cs) = {} /\ Doomed(cs) = {}
                 /\ Known(ms, cs) = Elements(ms) /\ Seen(ms, cs) = Elements(ms)
  <1>1. PICK c \in Compactors : cs[c] = v
    BY Zenon DEF OnlyCompaction
  <1>2. \A d \in Compactors : cs[d] = v
    BY Zenon DEF OnlyCompaction
  <1>3. ASSUME v.pc \in {"merge", "replace"}, Elements(v.small) \subseteq MetaT
        PROVE  Sources(cs) = Elements(v.small) /\ Doomed(cs) = {}
    <2>1. v.pc # "delete"
      BY <1>3
    <2>2. Doomed(cs) = {}
      BY <1>2, <2>1, Zenon DEF Doomed
    <2>3. Sources(cs) = Elements(v.small)
      BY <1>1, <1>2, <1>3, Zenon DEF Sources
    <2> QED
      BY <2>2, <2>3
  <1>4. ASSUME v.pc = "delete", Elements(v.small) \subseteq MetaT
        PROVE  Sources(cs) = {} /\ Doomed(cs) = Elements(v.small)
    <2>1. v.pc \notin {"merge", "replace"}
      BY <1>4
    <2>2. Sources(cs) = {}
      BY <1>2, <2>1, Zenon DEF Sources
    <2>3. Doomed(cs) = Elements(v.small)
      BY <1>1, <1>2, <1>4, Zenon DEF Doomed
    <2> QED
      BY <2>2, <2>3
  <1>5. ASSUME v = Idle PROVE Sources(cs) = {} /\ Doomed(cs) = {}
    <2>1. v.pc \notin {"merge", "replace"} /\ v.pc # "delete"
      BY <1>5, IdlePc
    <2>2. Sources(cs) = {}
      BY <1>2, <2>1, Zenon DEF Sources
    <2>3. Doomed(cs) = {}
      BY <1>2, <2>1, Zenon DEF Doomed
    <2> QED
      BY <2>2, <2>3
  <1>6. \A X : X \cup {} = X
    OBVIOUS
  <1> QED
    BY <1>3, <1>4, <1>5, <1>6, Zenon DEF Known, Seen

\* Fewer objects satisfy what more do.
LEMMA Fewer ==
    ASSUME NEW K, NEW L, L \subseteq K
    PROVE  /\ KnownOK(K) => KnownOK(L)
           /\ \A o : Below(K, o) => Below(L, o)
           /\ \A us, ob, cl : UploadsOK(us, K, ob, cl) => UploadsOK(us, L, ob, cl)
           /\ \A R, ob : ObjectsOK(R, K, ob) => ObjectsOK(R, L, ob)
  <1>1. \A o : Below(K, o) => Below(L, o)
    BY Zenon DEF Below
  <1>2. KnownOK(K) => KnownOK(L)
    BY Zenon DEF KnownOK
  <1>3. \A R, ob : ObjectsOK(R, K, ob) => ObjectsOK(R, L, ob)
    BY Zenon DEF ObjectsOK
  <1>4. \A v, ob, cl : UploadOK(v, K, ob, cl) => UploadOK(v, L, ob, cl)
    BY <1>1, Zenon DEF UploadOK
  <1>5. \A us, ob, cl : UploadsOK(us, K, ob, cl) => UploadsOK(us, L, ob, cl)
    BY <1>4, Zenon DEF UploadsOK
  <1> QED
    BY <1>1, <1>2, <1>3, <1>5

LEMMA CompactReadInv ==
    ASSUME Inv, OneAtATime, NEW c \in Compactors, CompactRead(c)
    PROVE  Inv'
  <1> DEFINE small == {m \in Registered : m.size < TargetSize}
             s == Only(metas, small)
             v == [pc |-> "merge", small |-> s]
             R == Elements(metas)
  <1>1. /\ comp[c] = Idle /\ Len(s) >= 2 /\ comp' = [comp EXCEPT ![c] = v]
        /\ purged' = purged /\ next' = next /\ wal' = wal /\ metas' = metas /\ objects' = objects
        /\ app' = app /\ up' = up /\ trim' = trim /\ del' = del
        /\ claimed' = claimed /\ acked' = acked
    <2>1. /\ wal' = wal /\ metas' = metas /\ objects' = objects
      BY DEF CompactRead, tiers
    <2> QED
      BY <2>1, Zenon DEF CompactRead, Small
  <1>2. Shape /\ metas \in Seq(MetaT) /\ Distinct(metas)
    BY Zenon DEF Inv, Shape
  <1>3. Keeps(metas, small, s)
    BY <1>2, ListsMade, Zenon
  <1>4. /\ s \in Seq(MetaT) /\ Distinct(s)
        /\ Elements(s) = R \cap small
    BY <1>2, <1>3, Zenon DEF Keeps
  <1>5. Elements(s) = {m \in R : IsSmall(m)}
    BY <1>4, Zenon DEF Registered, Elements, IsSmall
  <1> HIDE DEF s
  <1>6. v \in MergeT /\ v.pc = "merge" /\ v.small = s
    BY <1>4 DEF MergeT
  <1> HIDE DEF v
  <1>7. OnlyCompaction(comp, Idle) /\ OnlyCompaction(comp', v)
    <2>1. Compacting(comp, c, v, comp')
      BY <1>1, <1>2, <1>6, Zenon DEF Compacting, Shape
    <2> QED
      BY <1>1, <1>2, <2>1, CompactionIs, CompactionSet, Zenon
  <1>8. R \in SUBSET MetaT
    BY <1>2 DEF Elements
  <1> HIDE DEF R
  <1>9. Known(metas, comp) = R /\ Seen(metas, comp) = R
    BY <1>7, CompactionSees, Zenon DEF R
  <1>10. Known(metas', comp') = R /\ Seen(metas', comp') = R /\ Doomed(comp') = {}
    <2>1. v.pc \in {"merge", "replace"} /\ Elements(v.small) \subseteq MetaT
      BY <1>5, <1>6, <1>8
    <2>2. /\ Doomed(comp') = {}
          /\ Known(metas', comp') = Elements(metas') \cup Elements(v.small)
          /\ Seen(metas', comp') = Elements(metas') \cup Elements(v.small)
      BY <1>7, <2>1, CompactionSees, Zenon
    <2>3. Elements(metas') \cup Elements(v.small) = R
      BY <1>1, <1>5, <1>6, Zenon DEF R
    <2> QED
      BY <2>2, <2>3, Zenon
  <1>11. CompsOK(comp', R, objects)
    <2>1. \E m, n \in Elements(s) : m # n
      <3>1. 1 \in DOMAIN s /\ 2 \in DOMAIN s /\ 1 # 2
        BY <1>1, <1>4
      <3>2. s[1] # s[2]
        BY <1>4, <3>1, Zenon DEF Distinct
      <3> QED
        BY <3>1, <3>2, Zenon DEF Elements
    <2>2. SourcesOK(Elements(s), R)
      BY <1>5, <2>1, Zenon DEF SourcesOK
    <2>3. v.pc # "replace"
      BY <1>6
    <2>4. \A d \in Compactors : comp'[d] = v
      BY <1>7, Zenon DEF OnlyCompaction
    <2> QED
      BY <1>6, <2>2, <2>3, <2>4, Zenon DEF CompsOK
  <1>12. DoomedOK(Doomed(comp'), R)
    BY <1>10, Zenon DEF DoomedOK
  <1>13. Shape'
    BY <1>1, <1>2, <1>7, Zenon DEF Shape, OnlyCompaction
  <1> QED
    BY <1>1, <1>9, <1>10, <1>11, <1>12, <1>13, Zenon DEF Inv, R

LEMMA CompactFailsInv ==
    ASSUME Inv, OneAtATime, NEW c \in Compactors, CompactFails(c)
    PROVE  Inv'
  <1> DEFINE R == Elements(metas)
  <1>1. /\ comp' = [comp EXCEPT ![c] = Idle]
        /\ purged' = purged /\ next' = next /\ wal' = wal /\ metas' = metas /\ objects' = objects
        /\ app' = app /\ up' = up /\ trim' = trim /\ del' = del
        /\ claimed' = claimed /\ acked' = acked
    BY DEF CompactFails, tiers
  <1>2. Shape
    BY Zenon DEF Inv
  <1>3. OnlyCompaction(comp', Idle)
    <2>1. Compacting(comp, c, Idle, comp')
      BY <1>1, <1>2, Zenon DEF Compacting, Shape
    <2> QED
      BY <2>1, CompactionSet, Zenon
  <1> HIDE DEF R
  <1>4. Known(metas', comp') = R /\ Seen(metas', comp') = R /\ Doomed(comp') = {}
    BY <1>1, <1>3, CompactionSees, Zenon DEF R
  <1>5. R \subseteq Known(metas, comp) /\ R \subseteq Seen(metas, comp)
    BY Zenon DEF R, Known, Seen
  <1>6. /\ KnownOK(R) /\ Below(R, claimed) /\ UploadsOK(up, R, objects, claimed)
        /\ ObjectsOK(R, R, objects)
    BY <1>5, Fewer, Zenon DEF Inv, R
  <1>7. CompsOK(comp', R, objects) /\ DoomedOK(Doomed(comp'), R)
    <2>1. \A d \in Compactors : comp'[d] = Idle
      BY <1>3, Zenon DEF OnlyCompaction
    <2>2. Idle.pc \notin {"merge", "replace"} /\ Idle.pc # "replace"
      BY IdlePc
    <2> QED
      BY <1>4, <2>1, <2>2, Zenon DEF CompsOK, DoomedOK
  <1>8. Shape'
    BY <1>1, <1>2, <1>3, Zenon DEF Shape, OnlyCompaction
  <1> QED
    BY <1>1, <1>4, <1>6, <1>7, <1>8, Zenon DEF Inv, R

\* M reaches over all of S.
Spans(M, S) ==
    /\ M.key.kind = "compacted"
    /\ \A n \in S : M.start <= n.start /\ n.end <= M.end
    /\ \E n \in S : n.start = M.start
    /\ \E n \in S : n.end = M.end

\* No object has the key of what is merged from two of them.
LEMMA MergedIsNew ==
    ASSUME NEW K \in SUBSET MetaT, NEW S \in SUBSET K, KnownOK(K), NEW M \in MetaT, Spans(M, S),
           \E a, b \in S : a # b, \A n \in S : IsSmall(n)
    PROVE  \A m \in K : m.key # M.key
  <1> SUFFICES ASSUME NEW m \in K, m.key = M.key PROVE FALSE
    BY Zenon
  <1>1. m \in MetaT /\ m.key.kind = "compacted" /\ m.end = M.end
    BY MetaFields DEF Spans
  <1>2. ASSUME NEW n \in S PROVE n = m
    <2>1. m # n => m.end < n.start
      BY <1>1, Zenon DEF KnownOK
    <2>2. n \in MetaT /\ n.end <= M.end
      BY Zenon DEF Spans
    <2> QED
      BY <1>1, <2>1, <2>2, MetaFields
  <1> QED
    BY <1>2, Zenon

\* The merged object holds the blocks of the objects it is made of.
LEMMA CompactPutInv ==
    ASSUME Inv, OneAtATime, NEW c \in Compactors, CompactPut(c)
    PROVE  Inv'
  <1> DEFINE v == comp[c]
             S == Elements(v.small)
             blocks == UNION {objects[k] : k \in SmallKeys(c)}
             starts == {b.start : b \in blocks}
             ends == {b.end : b \in blocks}
             from == Min(starts)
             to == Max(ends)
             key == Key("compacted", from, to)
             M == Meta(key, blocks)
             w == [pc |-> "replace", small |-> v.small, meta |-> M]
             R == Elements(metas)
             K == Known(metas, comp)
             A == Seen(metas, comp)
  <1>1. /\ v.pc = "merge" /\ SmallKeys(c) \subseteq DOMAIN objects
        /\ objects' = Put(objects, key, blocks) /\ comp' = [comp EXCEPT ![c] = w]
        /\ purged' = purged /\ next' = next /\ wal' = wal /\ metas' = metas
        /\ app' = app /\ up' = up /\ trim' = trim /\ del' = del
        /\ claimed' = claimed /\ acked' = acked
    BY Zenon DEF CompactPut
  <1>2. Shape /\ claimed \in Nat
    BY Zenon DEF Inv, Shape
  <1>3. /\ v.small \in Seq(MetaT) /\ S \subseteq Sources(comp)
        /\ A \in SUBSET MetaT /\ R \subseteq K /\ K \subseteq A /\ S \subseteq K
    <2>1. v.pc \in {"merge", "replace"}
      BY <1>1
    <2>2. v.small \in Seq(MetaT) /\ S \subseteq Sources(comp)
      BY <1>2, <2>1, SeenAreMetas, Zenon
    <2>3. A \in SUBSET MetaT /\ R \subseteq K /\ K \subseteq A
      BY <1>2, SeenAreMetas, Zenon
    <2>4. S \subseteq K
      <3> HIDE DEF S
      <3> QED
        BY <2>2, Zenon DEF Known
    <2> QED
      BY <2>2, <2>3, <2>4, Zenon
  <1>4. SourcesOK(S, R) /\ KnownOK(K) /\ ObjectsOK(R, K, objects) /\ Below(A, claimed)
    <2>1. v.pc \in {"merge", "replace"}
      BY <1>1
    <2>2. SourcesOK(S, R)
      BY <2>1, Zenon DEF Inv, CompsOK
    <2> QED
      BY <2>2, Zenon DEF Inv
  <1>5. SmallKeys(c) = {n.key : n \in S}
    BY Zenon DEF SmallKeys, Elements
  <1>6. \A n \in S : n \in MetaT /\ n.key \in DOMAIN objects /\ n.end < claimed
                     /\ BlocksOK(objects[n.key], n.start, n.end)
                     /\ objects[n.key] \subseteq blocks
    <2> HIDE DEF S, K, A
    <2> SUFFICES ASSUME NEW n \in S
                 PROVE  n \in MetaT /\ n.key \in DOMAIN objects /\ n.end < claimed
                           /\ BlocksOK(objects[n.key], n.start, n.end)
                           /\ objects[n.key] \subseteq blocks
      BY Zenon
    <2>1. n \in MetaT /\ n \in K /\ n \in A
      BY <1>3, Zenon
    <2>2. n.key \in SmallKeys(c)
      BY <1>5, Zenon
    <2>3. objects[n.key] \subseteq blocks
      BY <2>2, Zenon
    <2>4. n.key \in DOMAIN objects /\ n.end < claimed
      BY <1>1, <1>4, <2>1, <2>2, Zenon DEF Below
    <2> QED
      BY <1>4, <2>1, <2>3, <2>4, Zenon DEF ObjectsOK
  <1>7. \A x \in blocks : \E n \in S : x \in objects[n.key]
    BY <1>5, Zenon
  <1>8. blocks \in SUBSET BlockT
    BY <1>1, <1>2, Zenon DEF Shape
  <1> HIDE DEF v, S, blocks, R, K, A
  <1>9. starts \in SUBSET Nat /\ ends \in SUBSET Nat
    BY <1>8 DEF BlockT
  <1>10. PICK a, b \in S : a # b
    BY <1>4, Zenon DEF SourcesOK
  <1>11. starts # {} /\ ends # {} /\ \A y \in ends : y <= claimed
    <2>1. PICK x \in blocks : TRUE
      BY <1>6, <1>10, Zenon DEF BlocksOK
    <2>2. ASSUME NEW x1 \in blocks PROVE x1.end <= claimed
      <3>1. PICK n \in S : x1 \in objects[n.key]
        BY <1>7, Zenon
      <3>2. x1.end <= n.end /\ n.end < claimed /\ n \in MetaT
        BY <1>6, <3>1, Zenon DEF BlocksOK
      <3>3. x1.end \in Nat
        BY <1>8 DEF BlockT
      <3> QED
        BY <1>2, <3>2, <3>3, MetaFields
    <2> QED
      BY <2>1, <2>2, Zenon
  <1>12. /\ from \in starts /\ \A y \in starts : from <= y
         /\ to \in ends /\ \A y \in ends : y <= to
    <2> HIDE DEF starts, ends
    <2> QED
      BY <1>2, <1>9, <1>11, MinOf, MaxOf, Zenon
  <1>13. /\ from \in Nat /\ to \in Nat
         /\ \A x \in blocks : from <= x.start /\ x.end <= to
         /\ (\E x \in blocks : x.start = from) /\ (\E x \in blocks : x.end = to)
    <2> HIDE DEF from, to
    <2> QED
      BY <1>9, <1>12, Zenon
  <1> HIDE DEF starts, ends, from, to
  <1>14. \A n \in S : from <= n.start /\ n.end <= to
    BY <1>6, <1>13, Zenon DEF BlocksOK
  <1>15. \E n \in S : n.start = from
    <2>1. PICK x \in blocks : x.start = from
      BY <1>13, Zenon
    <2>2. PICK n \in S : x \in objects[n.key]
      BY <1>7, Zenon
    <2>3. n.start <= from /\ from <= n.start /\ n \in MetaT
      BY <1>6, <1>14, <2>1, <2>2, Zenon DEF BlocksOK
    <2>4. n.start = from
      BY <1>13, <2>3, MetaFields
    <2> QED
      BY <2>4, Zenon
  <1>16. \E n \in S : n.end = to
    <2>1. PICK x \in blocks : x.end = to
      BY <1>13, Zenon
    <2>2. PICK n \in S : x \in objects[n.key]
      BY <1>7, Zenon
    <2>3. to <= n.end /\ n.end <= to /\ n \in MetaT
      BY <1>6, <1>14, <2>1, <2>2, Zenon DEF BlocksOK
    <2>4. n.end = to
      BY <1>13, <2>3, MetaFields
    <2> QED
      BY <2>4, Zenon
  <1>17. from <= to
    <2>1. from <= a.start /\ a.end <= to /\ a \in MetaT
      BY <1>6, <1>14, Zenon
    <2> QED
      BY <1>13, <2>1, MetaFields
  <1>18. Describes(M, "compacted", from, to)
    <2>1. "compacted" \in {"data", "compacted"}
      OBVIOUS
    <2> QED
      BY <1>8, <1>13, <1>17, <2>1, MetaDescribes, Zenon
  <1>19. BlocksOK(blocks, from, to)
    <2>1. \A x \in blocks : \A d \in x.batches : Last(d) <= x.end
      BY <1>6, <1>7, Zenon DEF BlocksOK
    <2> QED
      BY <1>13, <2>1, Zenon DEF BlocksOK
  <1> HIDE DEF M
  <1>20. /\ M \in MetaT /\ M.key = key /\ M.start = from /\ M.end = to
         /\ key \in KeyT /\ key.kind = "compacted"
    BY <1>18, Zenon DEF Describes
  <1> HIDE DEF key
  <1>21. Spans(M, S)
    BY <1>14, <1>15, <1>16, <1>20, Zenon DEF Spans
  <1>22. \A m \in K : m.key # key
    <2>1. (\E d, e \in S : d # e) /\ \A n \in S : IsSmall(n)
      BY <1>4, Zenon DEF SourcesOK
    <2>2. K \in SUBSET MetaT /\ S \in SUBSET K
      BY <1>3, Zenon
    <2> QED
      BY <1>4, <1>20, <1>21, <2>1, <2>2, MergedIsNew, Zenon
  <1>23. /\ DOMAIN objects' = DOMAIN objects \cup {key} /\ objects'[key] = blocks
         /\ \A x \in DOMAIN objects : x # key => objects'[x] = objects[x]
    <2>1. PutAt(objects, key, blocks, objects')
      BY <1>1, PutIs, Zenon
    <2> QED
      BY <2>1, Zenon DEF PutAt
  <1>24. Agrees(objects, objects', K)
    BY <1>22, <1>23, Zenon DEF Agrees
  <1>25. ObjectsOK(R, K, objects') /\ HeldSame(R, objects, objects')
    BY <1>3, <1>4, <1>24, StorageAgrees, Zenon
  <1>26. w \in ReplaceT /\ w.pc = "replace" /\ w.small = v.small /\ w.meta = M
    BY <1>3, <1>20 DEF ReplaceT
  <1> HIDE DEF w
  <1>27. OnlyCompaction(comp, v) /\ OnlyCompaction(comp', w)
    <2>1. Compacting(comp, c, w, comp')
      BY <1>1, <1>2, <1>26, Zenon DEF Compacting, Shape
    <2>2. OnlyCompaction(comp, comp[c])
      BY <1>2, CompactionIs, Zenon
    <2>3. OnlyCompaction(comp', w)
      BY <2>1, CompactionSet, Zenon
    <2> QED
      BY <2>2, <2>3, Zenon DEF v
  <1>28. Known(metas', comp') = K /\ Seen(metas', comp') = A /\ Doomed(comp') = {}
    <2>1. /\ v.pc \in {"merge", "replace"} /\ Elements(v.small) \subseteq MetaT
          /\ w.pc \in {"merge", "replace"} /\ Elements(w.small) \subseteq MetaT
      <3>1. S \subseteq MetaT
        BY <1>3, Zenon
      <3>2. v.pc \in {"merge", "replace"} /\ w.pc \in {"merge", "replace"}
        BY <1>1, <1>26
      <3> QED
        BY <1>26, <3>1, <3>2, Zenon DEF S
    <2>2. /\ Known(metas, comp) = Elements(metas) \cup Elements(v.small)
          /\ Seen(metas, comp) = Elements(metas) \cup Elements(v.small)
      BY <1>27, <2>1, CompactionSees, Zenon
    <2>3. /\ Known(metas', comp') = Elements(metas') \cup Elements(w.small)
          /\ Seen(metas', comp') = Elements(metas') \cup Elements(w.small)
          /\ Doomed(comp') = {}
      BY <1>27, <2>1, CompactionSees, Zenon
    <2> QED
      BY <1>1, <1>26, <2>2, <2>3, Zenon DEF K, A
  <1>29. CompsOK(comp', R, objects')
    <2>1. MergedOK(M, S, R, objects')
      <3>1. \A n \in S \cap R : objects'[n.key] \subseteq objects'[M.key]
        <4>1. \A n \in S : objects'[n.key] = objects[n.key]
          BY <1>3, <1>6, <1>22, <1>23, Zenon
        <4>2. objects'[M.key] = blocks
          BY <1>20, <1>23, Zenon
        <4> QED
          BY <1>6, <4>1, <4>2, Zenon
      <3>2. M.key \in DOMAIN objects'
        BY <1>20, <1>23, Zenon
      <3>3. BlocksOK(objects'[M.key], M.start, M.end)
        BY <1>19, <1>20, <1>23, Zenon
      <3> QED
        BY <1>21, <3>1, <3>2, <3>3, Zenon DEF MergedOK, Spans
    <2>2. \A d \in Compactors : comp'[d] = w
      BY <1>27, Zenon DEF OnlyCompaction
    <2>3. Elements(w.small) = S
      BY <1>26, Zenon DEF S
    <2> QED
      BY <1>4, <1>26, <2>1, <2>2, <2>3, Zenon DEF CompsOK
  <1>30. UploadsOK(up, A, objects', claimed)
    <2> SUFFICES ASSUME NEW u \in Uploaders, up[u] # Idle PROVE UploadOK(up[u], A, objects', claimed)
      BY Zenon DEF UploadsOK
    <2>1. UploadOK(up[u], A, objects, claimed)
      BY Zenon DEF Inv, UploadsOK, A
    <2> DEFINE k == Key("data", up[u].start, up[u].end)
    <2>2. k # key
      <3>1. k.kind = "data"
        BY DEF Key
      <3> QED
        BY <1>20, <3>1
    <2>3. k \in DOMAIN objects => k \in DOMAIN objects' /\ objects'[k] = objects[k]
      BY <1>23, <2>2, Zenon
    <2> HIDE DEF k
    <2> QED
      BY <2>1, <2>3, Zenon DEF UploadOK, k
  <1>31. AckedOK(acked, purged, claimed, wal, R, objects', up)
    <2>1. AckedOK(acked, purged, claimed, wal, R, objects, up)
      BY Zenon DEF Inv, R
    <2> QED
      BY <1>25, <2>1, Zenon DEF AckedOK, HeldSame
  <1>32. DoomedOK(Doomed(comp'), R)
    BY <1>28, Zenon DEF DoomedOK
  <1>33. Shape'
    <2>1. /\ DOMAIN objects' \subseteq KeyT
          /\ \A x \in DOMAIN objects' : objects'[x] \in SUBSET BlockT
      BY <1>2, <1>8, <1>20, <1>23, Zenon DEF Shape
    <2> QED
      BY <1>1, <1>2, <1>27, <2>1, Zenon DEF Shape, OnlyCompaction
  <1> QED
    BY <1>1, <1>4, <1>25, <1>28, <1>29, <1>30, <1>31, <1>32, <1>33, Zenon DEF Inv, R, K, A

\* Different objects have different keys.
LEMMA OneObjectPerKey ==
    ASSUME NEW K \in SUBSET MetaT, KnownOK(K), NEW m \in K, NEW n \in K, m.key = n.key
    PROVE  m = n
  <1>1. m # n => Apart(m, n)
    BY Zenon DEF KnownOK
  <1> QED
    BY <1>1, MetaFields DEF Apart

\* The merged object takes the place of those it is made of.
LEMMA CompactReplaceInv ==
    ASSUME Inv, OneAtATime, NEW c \in Compactors, CompactReplace(c)
    PROVE  Inv'
  <1> DEFINE v == comp[c]
             w == [v EXCEPT !.pc = "delete"]
             S == Elements(v.small)
             M == v.meta
             R == Elements(metas)
             K == Known(metas, comp)
             A == Seen(metas, comp)
             kept == {m \in Registered : m.key \notin SmallKeys(c)}
             retained == Only(metas, kept)
             N == (R \ S) \cup {M}
  <1>1. /\ v.pc = "replace" /\ metas' = Sorted(Append(retained, M)) /\ comp' = [comp EXCEPT ![c] = w]
        /\ purged' = purged /\ next' = next /\ wal' = wal /\ objects' = objects
        /\ app' = app /\ up' = up /\ trim' = trim /\ del' = del
        /\ claimed' = claimed /\ acked' = acked
    BY Zenon DEF CompactReplace, Replaced
  <1>2. Shape /\ claimed \in Nat /\ metas \in Seq(MetaT) /\ Distinct(metas)
    BY Zenon DEF Inv, Shape
  <1>3. v \in ReplaceT /\ v.small \in Seq(MetaT) /\ M \in MetaT
    <2>1. v \in ReplaceT
      <3>1. v.pc \in {"replace", "delete"}
        BY <1>1
      <3> QED
        BY <1>2, <3>1, Busy, Zenon
    <2> QED
      BY <2>1 DEF ReplaceT
  <1>4. w \in ReplaceT /\ w.pc = "delete" /\ w.small = v.small
    BY <1>3, ReplaceMoves
  <1>5. /\ A \in SUBSET MetaT /\ R \subseteq K /\ K \subseteq A /\ S \subseteq K
        /\ SourcesOK(S, R) /\ MergedOK(M, S, R, objects)
        /\ KnownOK(K) /\ ObjectsOK(R, K, objects) /\ Below(A, claimed)
        /\ AckedOK(acked, purged, claimed, wal, R, objects, up)
        /\ UploadsOK(up, A, objects, claimed)
    <2>1. v.pc \in {"merge", "replace"}
      BY <1>1
    <2>2. S \subseteq Sources(comp)
      BY <1>2, <2>1, SeenAreMetas, Zenon
    <2>3. A \in SUBSET MetaT /\ R \subseteq K /\ K \subseteq A
      BY <1>2, SeenAreMetas, Zenon
    <2>4. S \subseteq K
      <3> HIDE DEF S
      <3> QED
        BY <2>2, Zenon DEF Known
    <2>5. SourcesOK(S, R) /\ MergedOK(M, S, R, objects)
      BY <1>1, <2>1, Zenon DEF Inv, CompsOK
    <2>6. /\ KnownOK(K) /\ ObjectsOK(R, K, objects) /\ Below(A, claimed)
          /\ AckedOK(acked, purged, claimed, wal, R, objects, up)
          /\ UploadsOK(up, A, objects, claimed)
      BY Zenon DEF Inv
    <2> QED
      BY <2>3, <2>4, <2>5, <2>6
  <1>6. SmallKeys(c) = {n.key : n \in S}
    BY Zenon DEF SmallKeys, Elements
  <1>7. OnlyCompaction(comp', w) /\ OnlyCompaction(comp, v)
    <2> HIDE DEF w
    <2>1. Compacting(comp, c, w, comp')
      BY <1>1, <1>2, <1>4, Zenon DEF Compacting, Shape
    <2>2. OnlyCompaction(comp, comp[c])
      BY <1>2, CompactionIs, Zenon
    <2>3. OnlyCompaction(comp', w)
      BY <2>1, CompactionSet, Zenon
    <2> QED
      BY <2>2, <2>3, Zenon
  <1>8. kept = {m \in R : m.key \notin {n.key : n \in S}}
    BY <1>6, Zenon DEF Registered, Elements
  <1> HIDE DEF v, w, S, M, R, K, A
  <1>9. K \in SUBSET MetaT /\ S \in SUBSET K /\ S \subseteq MetaT /\ R \subseteq MetaT
    BY <1>5, Zenon
  <1>10. Spans(M, S) /\ (\E a, b \in S : a # b) /\ \A n \in S : IsSmall(n)
    BY <1>5, Zenon DEF MergedOK, Spans, SourcesOK
  <1>11. \A m \in K : m.key # M.key
    BY <1>3, <1>5, <1>9, <1>10, MergedIsNew, Zenon
  <1>12. \A m \in R, n \in S : m.key = n.key => m = n
    BY <1>5, <1>9, OneObjectPerKey, Zenon
  <1>13. R \cap kept = R \ S
    BY <1>8, <1>12, Zenon
  <1>14. M \notin R
    BY <1>5, <1>11, Zenon
  <1>15. metas' \in Seq(MetaT) /\ Elements(metas') = N /\ Distinct(metas')
    <2> HIDE DEF kept
    <2>1. Keeps(metas, kept, retained)
      BY <1>2, ListsMade, Zenon
    <2> HIDE DEF retained
    <2>2. retained \in Seq(MetaT) /\ Elements(retained) = R \ S /\ Distinct(retained)
      BY <1>2, <1>13, <2>1, Zenon DEF Keeps, R
    <2> DEFINE t == Append(retained, M)
    <2>3. Gains(retained, M, t)
      BY <1>3, <2>2, ListsMade, Zenon
    <2> HIDE DEF t
    <2>4. t \in Seq(MetaT) /\ Elements(t) = N /\ Distinct(t)
      BY <1>14, <2>2, <2>3, Zenon DEF Gains
    <2>5. Permutes(t, Sorted(t))
      BY <2>4, ListsMade, Zenon
    <2>6. metas' = Sorted(t)
      BY <1>1, Zenon DEF t
    <2> HIDE DEF N
    <2> QED
      BY <2>4, <2>5, <2>6, Zenon DEF Permutes
  <1>16. /\ Known(metas', comp') = N /\ Seen(metas', comp') = N \cup S /\ Doomed(comp') = S
    <2>1. w.pc = "delete" /\ Elements(w.small) = S /\ Elements(w.small) \subseteq MetaT
      BY <1>4, <1>9, Zenon DEF S
    <2>2. /\ Known(metas', comp') = Elements(metas')
          /\ Seen(metas', comp') = Elements(metas') \cup Elements(w.small)
          /\ Doomed(comp') = Elements(w.small)
      BY <1>7, <2>1, CompactionSees, Zenon
    <2> QED
      BY <1>15, <2>1, <2>2, Zenon
  <1>17. PICK first \in S : first.start = M.start
    BY <1>10, Zenon DEF Spans
  <1>18. PICK last \in S : last.end = M.end
    BY <1>10, Zenon DEF Spans
  <1>19. ASSUME NEW n \in R \ S
         PROVE  /\ n.key.kind = "compacted" => n.end < M.start
                /\ IsSmall(n) => M.end < n.start /\ n.key.kind = "data"
    <2>1. n \in K /\ n # first /\ IsSmall(first) /\ first \in K
      BY <1>5, <1>10, Zenon
    <2>2. n.key.kind = "compacted" => n.end < first.start
      BY <1>5, <2>1, Zenon DEF KnownOK
    <2>3. IsSmall(n) => n.key.kind = "data" /\ last.end < n.start
      BY <1>5, <1>19, Zenon DEF SourcesOK
    <2> QED
      BY <1>17, <1>18, <2>2, <2>3, Zenon
  <1>20. KnownOK(N)
    <2>0. M.key.kind = "compacted"
      BY <1>10, Zenon DEF Spans
    <2>1. ASSUME NEW m \in N, NEW n \in N, m # n, m.key.kind = n.key.kind PROVE Apart(m, n)
      BY <1>5, <1>19, <2>0, <2>1, Zenon DEF KnownOK, Apart
    <2>2. ASSUME NEW m \in N, NEW n \in N, m # n, m.key.kind = "compacted", IsSmall(n)
          PROVE  m.end < n.start
      BY <1>5, <1>19, <2>0, <2>2, Zenon DEF KnownOK
    <2> QED
      BY <2>1, <2>2, Zenon DEF KnownOK
  <1>21. \A o : Below(A, o) => Below(N \cup S, o)
    <2>1. last \in A
      BY <1>5, Zenon
    <2> QED
      BY <1>5, <1>18, <2>1, Zenon DEF Below
  <1>22. UploadsOK(up, N \cup S, objects, claimed)
    BY <1>5, <1>21, Zenon DEF UploadsOK, UploadOK
  <1>23. ObjectsOK(N, N, objects)
    <2>1. M.key \in DOMAIN objects /\ BlocksOK(objects[M.key], M.start, M.end)
      BY <1>5, Zenon DEF MergedOK
    <2> QED
      BY <1>5, <2>1, Zenon DEF ObjectsOK
  <1>24. CompsOK(comp', N, objects)
    <2>1. \A d \in Compactors : comp'[d] = w
      BY <1>7, Zenon DEF OnlyCompaction
    <2>2. w.pc \notin {"merge", "replace"} /\ w.pc # "replace"
      BY <1>4
    <2> QED
      BY <2>1, <2>2, Zenon DEF CompsOK
  <1>25. DoomedOK(S, N)
    BY <1>9, <1>11, <1>12, Zenon DEF DoomedOK
  <1>26. AckedOK(acked, purged, claimed, wal, N, objects, up)
    <2>1. ASSUME NEW b, NEW m \in R, b \in Held(objects, m) PROVE \E n \in N : b \in Held(objects, n)
      <3>1. CASE m \in S
        <4>1. objects[m.key] \subseteq objects[M.key]
          BY <1>5, <3>1, Zenon DEF MergedOK
        <4>2. b \in Held(objects, M)
          BY <2>1, <4>1, Zenon DEF Held
        <4> QED
          BY <4>2, Zenon
      <3>2. CASE m \notin S
        BY <2>1, <3>2, Zenon
      <3> QED
        BY <3>1, <3>2
    <2> HIDE DEF N
    <2> QED
      BY <1>5, <2>1, Zenon DEF AckedOK
  <1>27. Shape'
    BY <1>1, <1>2, <1>7, <1>15, Zenon DEF Shape, OnlyCompaction
  <1> HIDE DEF N
  <1>28. Below(N \cup S, claimed)
    BY <1>5, <1>21, Zenon
  <1>29. /\ AppendsOK(acked', app', next', claimed') /\ TrimsOK(trim', purged')
         /\ CachingOK(app', wal', purged')
    BY <1>1, Zenon DEF Inv
  <1> QED
    BY <1>1, <1>15, <1>16, <1>20, <1>22, <1>23, <1>24, <1>25, <1>26, <1>27, <1>28, <1>29, Zenon
       DEF Inv

\* g is f without the keys.
WithoutAt(f, keys, g) == DOMAIN g = DOMAIN f \ keys /\ \A x \in DOMAIN g : g[x] = f[x]

LEMMA WithoutIs ==
    ASSUME NEW keys
    PROVE  WithoutAt(objects, keys, Without(keys)) /\ WithoutAt(objects, {}, objects)
  BY DEF Without, WithoutAt

\* The key of an upload is not the key of an object there is.
LEMMA UploadKeyIsNew ==
    ASSUME Inv, NEW u \in Uploaders, up[u].pc \in {"put", "register"}, NEW m \in Seen(metas, comp)
    PROVE  m.key # Key("data", up[u].start, up[u].end)
  <1>1. up[u] # Idle /\ up[u].start \in Nat /\ up[u].end \in Nat
    <2>1. Shape /\ up[u].pc # "idle"
      BY DEF Inv
    <2> QED
      BY <2>1, UploadIs, Zenon
  <1>2. UploadOK(up[u], Seen(metas, comp), objects, claimed)
    BY <1>1, Zenon DEF Inv, UploadsOK
  <1>3. up[u].start <= up[u].end /\ m.end < up[u].start
    BY <1>2, Zenon DEF UploadOK, Below
  <1>4. m \in MetaT
    BY SeenAreMetas, Zenon DEF Inv
  <1>5. Key("data", up[u].start, up[u].end).end = up[u].end
    BY DEF Key
  <1> QED
    BY <1>1, <1>3, <1>4, <1>5, MetaFields

\* Objects that are no upload's may go.
LEMMA UploadsKept ==
    ASSUME Inv, NEW keys, NEW ob, WithoutAt(objects, keys, ob),
           \A k \in keys : \E m \in Seen(metas, comp) : m.key = k
    PROVE  UploadsOK(up, Seen(metas, comp), ob, claimed)
  <1> SUFFICES ASSUME NEW u \in Uploaders, up[u] # Idle
               PROVE  UploadOK(up[u], Seen(metas, comp), ob, claimed)
    BY Zenon DEF UploadsOK
  <1> DEFINE k == Key("data", up[u].start, up[u].end)
  <1>1. UploadOK(up[u], Seen(metas, comp), objects, claimed)
    BY Zenon DEF Inv, UploadsOK
  <1>2. ASSUME up[u].pc = "register" PROVE k \in DOMAIN ob /\ ob[k] = objects[k]
    <2>1. k \notin keys
      BY <1>2, UploadKeyIsNew, Zenon
    <2>2. k \in DOMAIN objects
      BY <1>1, <1>2, Zenon DEF UploadOK
    <2> QED
      BY <2>1, <2>2, Zenon DEF WithoutAt
  <1> HIDE DEF k
  <1> QED
    BY <1>1, <1>2, Zenon DEF UploadOK, k

LEMMA CompactDeleteInv ==
    ASSUME Inv, OneAtATime, NEW c \in Compactors, CompactDelete(c)
    PROVE  Inv'
  <1> DEFINE v == comp[c]
             S == Elements(v.small)
             R == Elements(metas)
             A == Seen(metas, comp)
  <1>1. /\ v.pc = "delete" /\ comp' = [comp EXCEPT ![c] = Idle]
        /\ objects' = Without(SmallKeys(c)) \/ objects' = objects
        /\ purged' = purged /\ next' = next /\ wal' = wal /\ metas' = metas
        /\ app' = app /\ up' = up /\ trim' = trim /\ del' = del
        /\ claimed' = claimed /\ acked' = acked
    BY Zenon DEF CompactDelete
  <1>2. Shape
    BY Zenon DEF Inv
  <1>3. SmallKeys(c) = {n.key : n \in S}
    BY Zenon DEF SmallKeys, Elements
  <1>4. PICK keys \in SUBSET SmallKeys(c) : WithoutAt(objects, keys, objects')
    BY <1>1, WithoutIs, Zenon
  <1>5. OnlyCompaction(comp, v) /\ OnlyCompaction(comp', Idle)
    <2>1. Compacting(comp, c, Idle, comp')
      BY <1>1, <1>2, Zenon DEF Compacting, Shape
    <2>2. OnlyCompaction(comp', Idle)
      BY <2>1, CompactionSet, Zenon
    <2> QED
      BY <1>2, <2>2, CompactionIs, Zenon
  <1>6. S \subseteq MetaT
    <2>1. v.small \in Seq(MetaT)
      BY <1>1, <1>2, SeenAreMetas, Zenon
    <2> HIDE DEF v
    <2> QED
      BY <2>1, ElementsAre, Zenon
  <1>7. Known(metas, comp) = R /\ A = R \cup S /\ Doomed(comp) = S
    BY <1>1, <1>5, <1>6, CompactionSees, Zenon
  <1> HIDE DEF v, S, R, A
  <1>8. Known(metas', comp') = R /\ Seen(metas', comp') = R /\ Doomed(comp') = {}
    BY <1>1, <1>5, CompactionSees, Zenon DEF R
  <1>9. /\ KnownOK(R) /\ Below(A, claimed) /\ ObjectsOK(R, R, objects) /\ DoomedOK(S, R)
        /\ AckedOK(acked, purged, claimed, wal, R, objects, up)
    BY <1>7, Zenon DEF Inv, R, A
  <1>10. Agrees(objects, objects', R)
    <2>1. \A m \in R : m.key \notin keys
      BY <1>3, <1>4, <1>9, Zenon DEF DoomedOK
    <2> QED
      BY <1>4, <2>1, Zenon DEF Agrees, WithoutAt
  <1>11. ObjectsOK(R, R, objects') /\ HeldSame(R, objects, objects')
    <2>1. R \subseteq R
      OBVIOUS
    <2> QED
      BY <1>9, <1>10, <2>1, StorageAgrees, Zenon
  <1>12. UploadsOK(up, R, objects', claimed) /\ Below(R, claimed)
    <2>1. \A k \in keys : \E m \in A : m.key = k
      BY <1>3, <1>4, <1>7, Zenon
    <2>2. UploadsOK(up, A, objects', claimed)
      BY <1>4, <2>1, UploadsKept, Zenon DEF A
    <2>3. R \subseteq A
      BY <1>7, Zenon
    <2> QED
      BY <1>9, <2>2, <2>3, Fewer, Zenon
  <1>13. AckedOK(acked, purged, claimed, wal, R, objects', up)
    BY <1>9, <1>11, Zenon DEF AckedOK, HeldSame
  <1>14. CompsOK(comp', R, objects') /\ DoomedOK(Doomed(comp'), R)
    <2>1. \A d \in Compactors : comp'[d] = Idle
      BY <1>5, Zenon DEF OnlyCompaction
    <2>2. Idle.pc \notin {"merge", "replace"} /\ Idle.pc # "replace"
      BY IdlePc
    <2> QED
      BY <1>8, <2>1, <2>2, Zenon DEF CompsOK, DoomedOK
  <1>15. Shape'
    <2>1. /\ DOMAIN objects' \subseteq KeyT
          /\ \A x \in DOMAIN objects' : objects'[x] \in SUBSET BlockT
      BY <1>2, <1>4, Zenon DEF Shape, WithoutAt
    <2> QED
      BY <1>1, <1>2, <1>5, <2>1, Zenon DEF Shape, OnlyCompaction
  <1> QED
    BY <1>1, <1>8, <1>9, <1>11, <1>12, <1>13, <1>14, <1>15, Zenon DEF Inv, R

-----------------------------------------------------------------------------
(* The objects of a trim.                                                  *)

LEMMA TrimObjectsInv ==
    ASSUME Inv, NEW t \in Trimmers, TrimObjects(t)
    PROVE  Inv'
  <1> DEFINE to == trim[t].to
             R == Elements(metas)
             K == Known(metas, comp)
             A == Seen(metas, comp)
             D == {m \in R : m.end < to}
             N == R \ D
             L == N \cup Sources(comp)
  <1>1. /\ trim[t].pc = "objects" /\ trim' = [trim EXCEPT ![t] = Idle]
        /\ metas' = Only(metas, {m \in R : ~(m.end < to)})
        /\ objects' = Without({m.key : m \in D}) \/ objects' = objects
        /\ purged' = purged /\ next' = next /\ wal' = wal
        /\ app' = app /\ up' = up /\ comp' = comp /\ del' = del
        /\ claimed' = claimed /\ acked' = acked
    BY Zenon DEF TrimObjects, Obsolete, Registered, Elements
  <1>2. Shape /\ purged \in Nat /\ metas \in Seq(MetaT) /\ Distinct(metas) /\ acked \in SUBSET BatchT
    BY Zenon DEF Inv, Shape
  <1>3. to \in Int /\ to <= purged
    <2>1. trim[t] # Idle
      BY <1>1, IdlePc
    <2> QED
      BY <1>2, <2>1, TrimsFields, Zenon DEF Inv, TrimsOK
  <1>4. trim' \in [Trimmers -> {Idle} \cup TrimT] /\ TrimsOK(trim', purged')
    BY <1>1, TrimGoesOn, Zenon
  <1>5. metas' \in Seq(MetaT) /\ Elements(metas') = N /\ Distinct(metas')
    <2> DEFINE kept == {m \in R : ~(m.end < to)}
    <2>1. R \cap kept = N
      BY Zenon
    <2> HIDE DEF kept, to
    <2>2. Keeps(metas, kept, Only(metas, kept))
      BY <1>2, ListsMade, Zenon
    <2>3. metas' = Only(metas, kept)
      BY <1>1, Zenon DEF kept
    <2> HIDE DEF D, N
    <2> QED
      BY <1>2, <2>1, <2>2, <2>3, Zenon DEF Keeps
  <1>6. PICK keys \in SUBSET {m.key : m \in D} : WithoutAt(objects, keys, objects')
    <2> HIDE DEF D
    <2> QED
      BY <1>1, WithoutIs, Zenon
  <1>7. A \in SUBSET MetaT /\ R \subseteq K /\ K \subseteq A /\ K \in SUBSET MetaT
    <2> HIDE DEF A, K, R
    <2>1. A \in SUBSET MetaT /\ R \subseteq K /\ K \subseteq A
      BY <1>2, SeenAreMetas, Zenon DEF A, K, R
    <2> QED
      BY <2>1, Zenon
  <1>8. Known(metas', comp') = L /\ Seen(metas', comp') = L \cup Doomed(comp)
    BY <1>1, <1>5, Zenon DEF Known, Seen
  <1>9. L \subseteq K /\ L \cup Doomed(comp) \subseteq A /\ N \subseteq R /\ N \subseteq L
    BY Zenon DEF Known, Seen
  <1>10. /\ KnownOK(K) /\ Below(A, claimed) /\ ObjectsOK(R, K, objects)
         /\ CompsOK(comp, R, objects) /\ DoomedOK(Doomed(comp), R)
         /\ AckedOK(acked, purged, claimed, wal, R, objects, up)
    BY Zenon DEF Inv
  <1> HIDE DEF to, R, K, A, L
  <1>11. \A m \in N : m.key \notin keys
    <2>1. \A m \in N, n \in D : m \in K /\ n \in K /\ m # n
      BY <1>7, Zenon
    <2>2. \A m \in N, n \in D : m.key # n.key
      <3> HIDE DEF N, D
      <3> QED
        BY <1>7, <1>10, <2>1, OneObjectPerKey, Zenon
    <2> HIDE DEF N, D
    <2> QED
      BY <1>6, <2>2, Zenon
  <1>12. \A x \in keys : \E m \in R : m.key = x
    BY <1>6, Zenon
  <1>13. ASSUME NEW m \in D, NEW b \in acked, b \in Held(objects, m) PROVE b.base < purged
    <2>1. m \in MetaT /\ m.end < to /\ m \in R /\ m \in K
      BY <1>7, Zenon
    <2>2. BlocksOK(objects[m.key], m.start, m.end)
      BY <1>10, <2>1, Zenon DEF ObjectsOK
    <2>3. PICK x \in objects[m.key] : b \in x.batches
      BY <1>13, Zenon DEF Held
    <2>4. x.end <= m.end /\ Last(b) <= x.end
      BY <2>2, <2>3, Zenon DEF BlocksOK
    <2>5. x.end \in Nat
      <3>1. m.key \in DOMAIN objects
        BY <1>10, <2>1, Zenon DEF ObjectsOK
      <3>2. x \in BlockT
        BY <1>2, <2>3, <3>1, Zenon DEF Shape
      <3> QED
        BY <3>2 DEF BlockT
    <2>6. b \in BatchT
      BY <1>2, Zenon
    <2> QED
      BY <1>2, <1>3, <2>1, <2>4, <2>5, <2>6, MetaFields, BatchOffsets
  <1>14. \A m \in R : m \in N \/ m \in D
    BY Zenon
  <1> HIDE DEF N, D
  <1>15. \A m \in N : m.key \in DOMAIN objects' /\ objects'[m.key] = objects[m.key]
    <2>1. \A m \in N : m.key \in DOMAIN objects
      BY <1>9, <1>10, Zenon DEF ObjectsOK
    <2> QED
      BY <1>6, <1>11, <2>1, Zenon DEF WithoutAt
  <1>16. ObjectsOK(N, L, objects')
    <2>1. \A m \in L : m.key \in DOMAIN objects' =>
              m.key \in DOMAIN objects /\ objects'[m.key] = objects[m.key]
      BY <1>6, Zenon DEF WithoutAt
    <2> QED
      BY <1>9, <1>10, <1>15, <2>1, Zenon DEF ObjectsOK
  <1>17. KnownOK(L) /\ Below(L \cup Doomed(comp), claimed)
    BY <1>9, <1>10, Fewer, Zenon
  <1>18. UploadsOK(up, L \cup Doomed(comp), objects', claimed)
    <2>1. \A x \in keys : \E m \in A : m.key = x
      BY <1>7, <1>12, Zenon
    <2>2. UploadsOK(up, A, objects', claimed)
      BY <1>6, <2>1, UploadsKept, Zenon DEF A
    <2> QED
      BY <1>9, <2>2, Fewer, Zenon
  <1>19. CompsOK(comp, N, objects')
    <2> SUFFICES ASSUME NEW c \in Compactors
                 PROVE  /\ comp[c].pc \in {"merge", "replace"} =>
                              SourcesOK(Elements(comp[c].small), N)
                        /\ comp[c].pc = "replace" =>
                              MergedOK(comp[c].meta, Elements(comp[c].small), N, objects')
      BY Zenon DEF CompsOK
    <2> DEFINE S == Elements(comp[c].small)
               M == comp[c].meta
    <2>1. comp[c].pc \in {"merge", "replace"} => SourcesOK(S, R) /\ S \subseteq K
      BY <1>2, <1>10, SeenAreMetas, Zenon DEF CompsOK, K, Known
    <2>2. comp[c].pc = "replace" => MergedOK(M, S, R, objects) /\ M \in MetaT
      <3>1. \A x \in ReplaceT : x.meta \in MetaT
        BY DEF ReplaceT
      <3> QED
        BY <1>2, <1>10, <3>1, Busy, Zenon DEF CompsOK
    <2> HIDE DEF S, M
    <2>3. ASSUME comp[c].pc \in {"merge", "replace"} PROVE SourcesOK(S, N)
      BY <1>9, <2>1, <2>3, Zenon DEF SourcesOK
    <2>4. ASSUME comp[c].pc = "replace" PROVE MergedOK(M, S, N, objects')
      <3>1. comp[c].pc \in {"merge", "replace"}
        BY <2>4
      <3>2. S \in SUBSET K /\ SourcesOK(S, R)
        BY <2>1, <3>1, Zenon
      <3>3. MergedOK(M, S, R, objects) /\ M \in MetaT
        BY <2>2, <2>4, Zenon
      <3>4. Spans(M, S) /\ (\E a, b \in S : a # b) /\ \A n \in S : IsSmall(n)
        BY <3>2, <3>3, Zenon DEF Spans, MergedOK, SourcesOK
      <3>5. \A m \in K : m.key # M.key
        BY <1>7, <1>10, <3>2, <3>3, <3>4, MergedIsNew, Zenon
      <3>6. M.key \in DOMAIN objects' /\ objects'[M.key] = objects[M.key]
        <4>1. M.key \notin keys
          BY <1>7, <1>12, <3>5, Zenon
        <4>2. M.key \in DOMAIN objects
          BY <3>3, Zenon DEF MergedOK
        <4> QED
          BY <1>6, <4>1, <4>2, Zenon DEF WithoutAt
      <3>7. \A n \in S \cap N : objects'[n.key] \subseteq objects'[M.key]
        <4>1. \A n \in S \cap R : objects[n.key] \subseteq objects[M.key]
          BY <3>3, Zenon DEF MergedOK
        <4> QED
          BY <1>9, <1>15, <3>6, <4>1
      <3>8. BlocksOK(objects'[M.key], M.start, M.end)
        BY <3>3, <3>6, Zenon DEF MergedOK
      <3> QED
        BY <3>4, <3>6, <3>7, <3>8, Zenon DEF MergedOK, Spans
    <2> QED
      BY <2>3, <2>4, Zenon DEF S, M
  <1>20. DoomedOK(Doomed(comp), N)
    BY <1>9, <1>10, Zenon DEF DoomedOK
  <1>21. AckedOK(acked, purged, claimed, wal, N, objects', up)
    <2>1. ASSUME NEW b \in acked, NEW m \in R, b \in Held(objects, m)
          PROVE  b.base < purged \/ \E n \in N : b \in Held(objects', n)
      BY <1>13, <1>14, <1>15, <2>1, Zenon DEF Held
    <2> SUFFICES ASSUME NEW b \in acked
                 PROVE  AckedOK({b}, purged, claimed, wal, N, objects', up)
      BY Zenon DEF AckedOK
    <2>2. AckedOK({b}, purged, claimed, wal, R, objects, up)
      BY <1>10, Zenon DEF AckedOK
    <2> QED
      BY <2>1, <2>2, Zenon DEF AckedOK
  <1>22. Shape'
    <2>1. /\ DOMAIN objects' \subseteq KeyT
          /\ \A x \in DOMAIN objects' : objects'[x] \in SUBSET BlockT
      BY <1>2, <1>6, Zenon DEF Shape, WithoutAt
    <2> QED
      BY <1>1, <1>2, <1>4, <1>5, <2>1, Zenon DEF Shape
  <1>23. AppendsOK(acked', app', next', claimed') /\ CachingOK(app', wal', purged')
    BY <1>1, Zenon DEF Inv
  <1> QED
    BY <1>1, <1>4, <1>5, <1>8, <1>16, <1>17, <1>18, <1>19, <1>20, <1>21, <1>22, <1>23, Zenon
       DEF Inv

-----------------------------------------------------------------------------
(* The theorems.                                                           *)

LEMMA InitInv ==
    ASSUME Init
    PROVE  Inv
  <1>1. /\ purged = 0 /\ next = 0 /\ wal = {} /\ metas = << >> /\ objects = << >> /\ app = Idle
        /\ up = [u \in Uploaders |-> Idle] /\ comp = [c \in Compactors |-> Idle]
        /\ trim = [t \in Trimmers |-> Idle] /\ del = [d \in Deleters |-> Idle]
        /\ claimed = 0 /\ acked = {}
    BY DEF Init
  <1>2. /\ Elements(metas) = {} /\ metas \in Seq(MetaT) /\ Distinct(metas) /\ DOMAIN objects = {}
    BY <1>1 DEF Elements, Distinct
  <1>3. Shape
    <2>1. /\ up \in [Uploaders -> {Idle} \cup UploadT]
          /\ comp \in [Compactors -> {Idle} \cup MergeT \cup ReplaceT]
          /\ trim \in [Trimmers -> {Idle} \cup TrimT] /\ del \in [Deleters -> {Idle} \cup DeleteT]
      BY <1>1
    <2>2. purged \in Nat /\ next \in Nat /\ claimed \in Nat
      BY <1>1
    <2> QED
      BY <1>1, <1>2, <2>1, <2>2, Zenon DEF Shape
  <1>4. /\ \A u \in Uploaders : up[u] = Idle
        /\ \A c \in Compactors : comp[c] = Idle
        /\ \A t \in Trimmers : trim[t] = Idle
    BY <1>1
  <1>5. Idle.pc \notin {"merge", "replace"} /\ Idle.pc # "delete" /\ Idle.pc # "replace"
        /\ Idle.pc # "cache"
    BY IdlePc
  <1>6. Sources(comp) = {} /\ Doomed(comp) = {}
    BY <1>4, <1>5, Zenon DEF Sources, Doomed
  <1>7. Known(metas, comp) = {} /\ Seen(metas, comp) = {}
    BY <1>2, <1>6, Zenon DEF Known, Seen
  <1>8. AppendsOK(acked, app, next, claimed)
    <2>1. claimed <= next
      BY <1>1
    <2> QED
      BY <1>1, <2>1, Zenon DEF AppendsOK
  <1>9. /\ TrimsOK(trim, purged) /\ UploadsOK(up, {}, objects, claimed)
        /\ CompsOK(comp, {}, objects) /\ DoomedOK({}, {})
        /\ KnownOK({}) /\ Below({}, claimed) /\ ObjectsOK({}, {}, objects)
    BY <1>4, <1>5, Zenon DEF TrimsOK, UploadsOK, CompsOK, DoomedOK, KnownOK, Below, ObjectsOK
  <1>10. AckedOK(acked, purged, claimed, wal, {}, objects, up) /\ CachingOK(app, wal, purged)
    BY <1>1, <1>5, Zenon DEF AckedOK, CachingOK
  <1> QED
    BY <1>2, <1>3, <1>6, <1>7, <1>8, <1>9, <1>10, Zenon DEF Inv

\* Every step keeps the invariant.
LEMMA NextInv ==
    ASSUME Inv, OneAtATime, [Next]_vars
    PROVE  Inv'
  <1>1. CASE UNCHANGED vars
    <2>1. /\ purged' = purged /\ next' = next /\ wal' = wal /\ metas' = metas /\ objects' = objects
          /\ app' = app /\ up' = up /\ comp' = comp /\ trim' = trim /\ del' = del
          /\ claimed' = claimed /\ acked' = acked
      BY <1>1 DEF vars, tiers, actors
    <2> QED
      BY <2>1, Zenon DEF Inv, Shape
  <1>2. ASSUME NEW n \in Counts, AppendTakeOffset(n) PROVE Inv'
    BY <1>2, TakeOffsetInv, Zenon
  <1>3. CASE AppendWal \/ AppendFails \/ AppendCache
    BY <1>3, AppendWalInv, AppendFailsInv, AppendCacheInv, Zenon
  <1>4. ASSUME NEW u \in Uploaders, NEW last \in acked, UploadBegin(u, last) PROVE Inv'
    BY <1>4, UploadBeginInv, Zenon
  <1>5. ASSUME NEW u \in Uploaders, UploadPut(u) \/ UploadRegister(u) \/ UploadTrimWal(u) PROVE Inv'
    BY <1>5, UploadPutInv, UploadRegisterInv, UploadTrimWalInv, Zenon
  <1>6. ASSUME NEW c \in Compactors, CompactRead(c) \/ CompactFails(c) \/ CompactPut(c) PROVE Inv'
    BY <1>6, CompactReadInv, CompactFailsInv, CompactPutInv, Zenon
  <1>7. ASSUME NEW c \in Compactors, CompactReplace(c) \/ CompactDelete(c) PROVE Inv'
    BY <1>7, CompactReplaceInv, CompactDeleteInv, Zenon
  <1>8. ASSUME NEW t \in Trimmers, NEW to \in TrimTargets, TrimStart(t, to) PROVE Inv'
    BY <1>8, TrimStartInv, Zenon
  <1>9. ASSUME NEW t \in Trimmers, TrimCache(t) \/ TrimWal(t) \/ TrimObjects(t) PROVE Inv'
    BY <1>9, TrimCacheInv, TrimWalInv, TrimObjectsInv, Zenon
  <1>10. ASSUME NEW d \in Deleters, NEW to \in Offsets, DeleteCheck(d, to) PROVE Inv'
    BY <1>10, DeleteCheckInv, Zenon
  <1>11. ASSUME NEW d \in Deleters, DeleteAdvance(d) \/ DeleteCached(d) PROVE Inv'
    BY <1>11, DeleteAdvanceInv, DeleteCachedInv, Zenon
  <1>12. ASSUME NEW f \in Fetchers, FetchStep(f) PROVE Inv'
    BY <1>12, FetchInv, Zenon
  <1> QED
    BY <1>1, <1>2, <1>3, <1>4, <1>5, <1>6, <1>7, <1>8, <1>9, <1>10, <1>11, <1>12, Zenon
       DEF Next, FetchStep

(* append, upload_batch, compact_stream and trim: with one upload and one  *)
(* compaction of a stream at a time, an acknowledged batch that no trim    *)
(* was ever called past is in the WAL or in a registered object, whatever  *)
(* appends, trims, to offsets in any order, and DeleteRecords requests run *)
(* beside them.                                                            *)
THEOREM AcknowledgedStaysStored == ASSUME OneAtATime PROVE Spec => []AckedStored
  <1>1. Init => Inv
    BY InitInv
  <1>2. Inv /\ [Next]_vars => Inv'
    BY NextInv
  <1>3. Inv => AckedStored
    <2> SUFFICES ASSUME Inv, NEW b \in acked, b.base >= purged PROVE b \in Stored
      BY Zenon DEF AckedStored
    <2>1. AckedOK({b}, purged, claimed, wal, Elements(metas), objects, up)
      BY Zenon DEF Inv, AckedOK
    <2>2. ~(b.base < purged)
      <3>1. b \in BatchT /\ purged \in Nat
        BY Zenon DEF Inv, Shape
      <3> QED
        BY <3>1, BatchOffsets
    <2>3. Registered = Elements(metas)
      BY Zenon DEF Registered, Elements
    <2>4. \A m \in Elements(metas) : m.key \in DOMAIN objects
      BY Zenon DEF Inv, ObjectsOK
    <2>5. ASSUME NEW m \in Elements(metas), b \in Held(objects, m) PROVE b \in Stored
      BY <2>3, <2>4, <2>5, Zenon DEF Stored, Held
    <2>6. b \in wal => b \in Stored
      BY Zenon DEF Stored
    <2> HIDE DEF Stored
    <2> QED
      BY <2>1, <2>2, <2>5, <2>6, Zenon DEF AckedOK
  <1> QED
    BY <1>1, <1>2, <1>3, PTL DEF Spec

(* s3_objects: with one upload and one compaction of a stream at a time,   *)
(* every registered object is in the storage and reaches from its start to *)
(* its end, also between the steps of a compaction and of a trim.          *)
THEOREM RegisteredObjectsExist == ASSUME OneAtATime PROVE Spec => []RegisteredExist
  <1>1. Init => Inv
    BY InitInv
  <1>2. Inv /\ [Next]_vars => Inv'
    BY NextInv
  <1>3. Inv => RegisteredExist
    <2> SUFFICES ASSUME Inv, NEW m \in Registered
                 PROVE  /\ m.key \in DOMAIN objects
                        /\ Min({x.start : x \in objects[m.key]}) = m.start
                        /\ Max({x.end : x \in objects[m.key]}) = m.end
      BY Zenon DEF RegisteredExist
    <2>1. m \in Elements(metas) /\ m \in Known(metas, comp)
      BY Zenon DEF Registered, Elements, Known
    <2>2. m.key \in DOMAIN objects /\ BlocksOK(objects[m.key], m.start, m.end)
      BY <2>1, Zenon DEF Inv, ObjectsOK
    <2>3. \A x \in objects[m.key] : x.start \in Nat /\ x.end \in Nat
      <3>1. \A x \in objects[m.key] : x \in BlockT
        BY <2>2, Zenon DEF Inv, Shape
      <3> QED
        BY <3>1 DEF BlockT
    <2> DEFINE starts == {x.start : x \in objects[m.key]}
               ends == {x.end : x \in objects[m.key]}
    <2>4. starts \in SUBSET Nat /\ m.start \in starts /\ \A y \in starts : m.start <= y
      BY <2>2, <2>3, Zenon DEF BlocksOK
    <2>5. ends \in SUBSET Nat /\ m.end \in ends /\ \A y \in ends : y <= m.end
      BY <2>2, <2>3, Zenon DEF BlocksOK
    <2> HIDE DEF starts, ends
    <2>6. Min(starts) = m.start /\ Max(ends) = m.end
      BY <2>4, <2>5, MinIs, MaxIs, Zenon
    <2> QED
      BY <2>2, <2>6, Zenon DEF starts, ends
  <1> QED
    BY <1>1, <1>2, <1>3, PTL DEF Spec

\* The offsets are numbers.
OffsetInv == start \in Int /\ del \in [Deleters -> {Idle} \cup DeleteT]

\* The call of a trim, the one step that stores an offset unchecked.
TrimCalled == \E t \in Trimmers : TrimStart(t, start')

\* The steps of the actors that leave the start offset, the furthest trim and
\* the DeleteRecords requests alone.
LEMMA OthersLeaveOffsets ==
    ASSUME \/ UNCHANGED vars
           \/ \E n \in Counts : AppendTakeOffset(n)
           \/ AppendWal \/ AppendFails \/ AppendCache
           \/ \E u \in Uploaders : \/ \E last \in acked : UploadBegin(u, last)
                                   \/ UploadPut(u) \/ UploadRegister(u) \/ UploadTrimWal(u)
           \/ \E c \in Compactors : \/ CompactRead(c) \/ CompactFails(c) \/ CompactPut(c)
                                    \/ CompactReplace(c) \/ CompactDelete(c)
           \/ \E t \in Trimmers : TrimCache(t) \/ TrimWal(t) \/ TrimObjects(t)
           \/ \E f \in Fetchers : FetchStep(f)
    PROVE  start' = start /\ purged' = purged /\ del' = del
  <1>1. CASE UNCHANGED vars
    BY <1>1 DEF vars, actors
  <1>2. CASE (\E n \in Counts : AppendTakeOffset(n)) \/ AppendWal \/ AppendFails \/ AppendCache
    BY <1>2 DEF AppendTakeOffset, AppendWal, AppendFails, AppendCache, actors
  <1>3. ASSUME NEW u \in Uploaders, \/ \E last \in acked : UploadBegin(u, last)
                                    \/ UploadPut(u) \/ UploadRegister(u) \/ UploadTrimWal(u)
        PROVE  start' = start /\ purged' = purged /\ del' = del
    BY <1>3, Zenon DEF UploadBegin, UploadPut, UploadRegister, UploadTrimWal
  <1>4. ASSUME NEW c \in Compactors, \/ CompactRead(c) \/ CompactFails(c) \/ CompactPut(c)
                                     \/ CompactReplace(c) \/ CompactDelete(c)
        PROVE  start' = start /\ purged' = purged /\ del' = del
    BY <1>4, Zenon DEF CompactRead, CompactFails, CompactPut, CompactReplace, CompactDelete
  <1>5. ASSUME NEW t \in Trimmers, TrimCache(t) \/ TrimWal(t) \/ TrimObjects(t)
        PROVE  start' = start /\ purged' = purged /\ del' = del
    BY <1>5, Zenon DEF TrimCache, TrimWal, TrimObjects
  <1>6. ASSUME NEW f \in Fetchers, FetchStep(f)
        PROVE  start' = start /\ purged' = purged /\ del' = del
    BY <1>6, Zenon DEF FetchStep, FetchBounds, FetchCache, FetchObject, FetchFails, FetchDone
  <1> QED
    BY <1>1, <1>2, <1>3, <1>4, <1>5, <1>6, Zenon

\* A DeleteRecords moves the start offset forward or not at all.
LEMMA DeleteOffsets ==
    ASSUME OffsetInv, NEW d \in Deleters, DeleteAdvance(d) \/ DeleteCached(d)
    PROVE  OffsetInv' /\ ~(start' < start)
  <1>1. /\ del[d].pc # "idle"
        /\ \/ del[d].to > start /\ start' = del[d].to /\ del' = [del EXCEPT ![d].pc = "cache"]
           \/ start' = start /\ del' = [del EXCEPT ![d] = Idle]
    BY DEF DeleteAdvance, Advances, DeleteCached
  <1> DEFINE w == [del[d] EXCEPT !.pc = "cache"]
  <1>2. w \in DeleteT /\ del[d].to \in Nat
    <2>1. del[d] \in {Idle} \cup DeleteT
      BY DEF OffsetInv
    <2>2. del[d] \in DeleteT
      BY <1>1, <2>1, IdlePc, Zenon
    <2> QED
      BY <2>2 DEF DeleteT
  <1>3. del' = [del EXCEPT ![d] = w] \/ del' = [del EXCEPT ![d] = Idle]
    BY <1>1, Zenon
  <1> HIDE DEF w
  <1>4. del' \in [Deleters -> {Idle} \cup DeleteT]
    BY <1>2, <1>3 DEF OffsetInv
  <1>5. start' \in Int /\ ~(start' < start)
    BY <1>1, <1>2 DEF OffsetInv
  <1> QED
    BY <1>4, <1>5, Zenon DEF OffsetInv

\* Only the call of a trim moves the start offset back.
LEMMA OffsetStep ==
    ASSUME OffsetInv, [Next]_vars
    PROVE  OffsetInv' /\ (start' < start => TrimCalled)
  <1>1. ~(start < start)
    BY DEF OffsetInv
  <1>2. CASE start' = start /\ purged' = purged /\ del' = del
    BY <1>1, <1>2, Zenon DEF OffsetInv
  <1>3. ASSUME NEW t \in Trimmers, NEW to \in TrimTargets, TrimStart(t, to)
        PROVE  OffsetInv' /\ TrimCalled
    <2>1. start' = to /\ del' = del
      BY <1>3, Zenon DEF TrimStart
    <2>2. to \in Int
      BY ConstantsAssumption
    <2>3. OffsetInv'
      BY <2>1, <2>2, Zenon DEF OffsetInv
    <2> QED
      BY <1>3, <2>1, <2>3, Zenon DEF TrimCalled
  <1>4. ASSUME NEW d \in Deleters, NEW to \in Offsets, DeleteCheck(d, to)
        PROVE  OffsetInv' /\ ~(start' < start)
    <2> DEFINE v == [pc |-> "advance", to |-> to]
    <2>1. start' = start /\ del' = [del EXCEPT ![d] = v]
      BY <1>4, Zenon DEF DeleteCheck
    <2>2. v \in DeleteT
      BY ConstantsAssumption DEF DeleteT, Offsets
    <2> HIDE DEF v
    <2>3. del' \in [Deleters -> {Idle} \cup DeleteT]
      BY <2>1, <2>2 DEF OffsetInv
    <2> QED
      BY <1>1, <2>1, <2>3, Zenon DEF OffsetInv
  <1> QED
    BY <1>2, <1>3, <1>4, OthersLeaveOffsets, DeleteOffsets, Zenon DEF Next, FetchStep

\* The furthest trim.
LEMMA PurgedStep ==
    ASSUME purged \in Nat, [Next]_vars
    PROVE  purged' \in Nat /\ purged' >= purged
  <1>1. CASE purged' = purged
    BY <1>1
  <1>2. ASSUME NEW t \in Trimmers, NEW to \in TrimTargets, TrimStart(t, to)
        PROVE  purged' \in Nat /\ purged' >= purged
    <2>1. purged' = Max({purged, to})
      BY <1>2, Zenon DEF TrimStart
    <2>2. to \in Int
      BY ConstantsAssumption
    <2>3. purged' \in Nat /\ purged <= purged'
      BY <2>1, <2>2, HigherOf
    <2> QED
      BY <2>3
  <1>3. ASSUME NEW d \in Deleters, \/ \E to \in Offsets : DeleteCheck(d, to)
                                   \/ DeleteAdvance(d) \/ DeleteCached(d)
        PROVE  purged' = purged
    BY <1>3, Zenon DEF DeleteCheck, DeleteAdvance, DeleteCached
  <1> QED
    BY <1>1, <1>2, <1>3, OthersLeaveOffsets, Zenon DEF Next, FetchStep

(* advance_start_offset and trim: whatever requests race, only the call of *)
(* a trim, which stores its offset unchecked, moves the start offset back; *)
(* DeleteRecords requests never do.                                        *)
THEOREM OnlyTrimsMoveBack == Spec => OnlyTrimMovesBack
  <1>1. Init => OffsetInv
    BY DEF Init, OffsetInv
  <1>2. OffsetInv /\ [Next]_vars => OffsetInv'
    BY OffsetStep
  <1>3. OffsetInv /\ [Next]_vars =>
            [start' < start => \E t \in Trimmers : TrimStart(t, start')]_vars
    BY OffsetStep, Zenon DEF TrimCalled
  <1> QED
    BY <1>1, <1>2, <1>3, PTL DEF Spec, OnlyTrimMovesBack

-----------------------------------------------------------------------------
(* Fetches of what was uploaded, while no compaction runs.                 *)

BusyT == [pc : {"cache", "object"}, offset : Nat, uploaded : BOOLEAN, acked : BOOLEAN]
AnswerT == [pc : {"answer"}, offset : Nat, uploaded : BOOLEAN, acked : BOOLEAN, out : SUBSET Nat]

\* A block starts at its object's start, and no batch of it before.
Whole(blocks, from) == \A x \in blocks : x.start = from /\ \A b \in x.batches : from <= b.base
SingleBlocks(R, ob) == \A m \in R : m.key.kind = "data" /\ Whole(ob[m.key], m.start)
UploadsFrom(us) == \A u \in Uploaders :
    us[u] # Idle => \A b \in us[u].batches : us[u].start <= b.base

\* An offset is in a registered object, or a trim was called past it.
Finds(R, ob, o) == \E m \in R : m.key \in DOMAIN ob /\ o \in Records(ob[m.key])
Available(st, R, ob, o) == st > o \/ Finds(R, ob, o)

FetchOK(v, st, R, ob) ==
    /\ v \in {Idle} \cup BusyT \cup AnswerT
    /\ v.pc \in {"cache", "object"} /\ v.uploaded => Available(st, R, ob, v.offset)
    /\ v.pc = "answer" /\ v.uploaded => v.offset \in v.out \/ st > v.offset

FetchesOK(fs, st, R, ob) ==
    DOMAIN fs = Fetchers /\ \A f \in Fetchers : FetchOK(fs[f], st, R, ob)

FetchesInv ==
    /\ Inv
    /\ cache \in SUBSET BatchT
    /\ UploadsFrom(up)
    /\ SingleBlocks(Elements(metas), objects)
    /\ FetchesOK(fetch, purged, Elements(metas), objects)

LEMMA FetchFields ==
    ASSUME NEW v \in BusyT
    PROVE  /\ v.pc \in {"cache", "object"} /\ v.pc # "answer"
           /\ v.offset \in Nat /\ v.uploaded \in BOOLEAN /\ v.acked \in BOOLEAN
  BY DEF BusyT

LEMMA AnswerFields ==
    ASSUME NEW v \in AnswerT
    PROVE  v.pc = "answer" /\ v.offset \in Nat
  BY DEF AnswerT

\* What a fetch of v answers.
Answered(v, out, w) ==
    /\ w \in AnswerT /\ w.pc = "answer" /\ w.offset = v.offset
    /\ w.uploaded = v.uploaded /\ w.out = out

LEMMA AnswerMade ==
    ASSUME NEW v \in BusyT, NEW out \in SUBSET Nat, NEW w,
           w = [pc |-> "answer", offset |-> v.offset, uploaded |-> v.uploaded,
                acked |-> v.acked, out |-> out]
    PROVE  Answered(v, out, w)
  BY DEF BusyT, AnswerT, Answered

LEMMA RecordsAre ==
    ASSUME NEW blocks \in SUBSET BlockT, NEW o
    PROVE  /\ o \in Records(blocks) => \E x \in blocks : \E b \in x.batches : o \in b.base..Last(b)
           /\ Records(blocks) \in SUBSET Nat
  <1>1. \A x \in blocks : \A b \in x.batches : b \in BatchT
    BY DEF BlockT
  <1>2. \A b \in BatchT : b.base..Last(b) \in SUBSET Nat
    BY BatchOffsets
  <1>3. ASSUME NEW p \in Records(blocks) PROVE \E x \in blocks : \E b \in x.batches : p \in b.base..Last(b)
    BY <1>3, Zenon DEF Records
  <1> QED
    BY <1>1, <1>2, <1>3, Zenon

\* The records of an object lie between its start and its end.
LEMMA RecordsWithin ==
    ASSUME NEW blocks \in SUBSET BlockT, NEW from \in Nat, NEW to \in Nat, BlocksOK(blocks, from, to),
           NEW o \in Records(blocks)
    PROVE  o \in Nat /\ o <= to /\ (Whole(blocks, from) => from <= o)
  <1>1. PICK x \in blocks : \E b \in x.batches : o \in b.base..Last(b)
    BY RecordsAre, Zenon
  <1>2. PICK b \in x.batches : o \in b.base..Last(b)
    BY <1>1, Zenon
  <1>3. x.end <= to /\ Last(b) <= x.end
    BY <1>2, Zenon DEF BlocksOK
  <1>4. x.end \in Nat /\ b \in BatchT
    BY <1>2 DEF BlockT
  <1>5. Whole(blocks, from) => from <= b.base
    BY <1>2, Zenon DEF Whole
  <1> HIDE DEF Whole
  <1>6. b.base \in Nat /\ Last(b) \in Nat
    BY <1>4, BatchOffsets, Zenon
  <1>7. o \in Nat /\ b.base <= o /\ o <= Last(b)
    BY <1>2, <1>6
  <1>8. o <= to
    BY <1>3, <1>4, <1>6, <1>7
  <1>9. ASSUME Whole(blocks, from) PROVE from <= o
    BY <1>5, <1>6, <1>7, <1>9
  <1> QED
    BY <1>7, <1>8, <1>9, Zenon

LEMMA ObjectOf ==
    ASSUME Inv, NEW m \in Elements(metas)
    PROVE  /\ m \in MetaT /\ m.start \in Nat /\ m.end \in Nat /\ m \in Known(metas, comp)
           /\ m.key \in DOMAIN objects /\ objects[m.key] \in SUBSET BlockT
           /\ BlocksOK(objects[m.key], m.start, m.end)
  <1>1. Shape /\ ObjectsOK(Elements(metas), Known(metas, comp), objects)
    BY Zenon DEF Inv
  <1>2. m \in Known(metas, comp) /\ m \in MetaT
    BY <1>1, SeenAreMetas, Zenon
  <1>3. m.key \in DOMAIN objects
    BY <1>1, Zenon DEF ObjectsOK
  <1>4. objects[m.key] \in SUBSET BlockT /\ BlocksOK(objects[m.key], m.start, m.end)
    BY <1>1, <1>2, <1>3, Zenon DEF ObjectsOK, Shape
  <1>5. m.start \in Nat /\ m.end \in Nat
    BY <1>2, MetaFields, Zenon
  <1> QED
    BY <1>2, <1>3, <1>4, <1>5, Zenon

\* Facts about numbers and lists that the next lemmas use.
LEMMA Positions == ASSUME NEW S, NEW s \in Seq(S) PROVE DOMAIN s \in SUBSET Nat
  OBVIOUS

LEMMA SharedOffset ==
    ASSUME NEW o \in Nat, NEW a \in Nat, NEW b \in Nat, NEW c \in Nat, NEW d \in Nat,
           a <= o /\ o <= b, c <= o /\ o <= d
    PROVE  ~(b < c \/ d < a)
  OBVIOUS

LEMMA PassedOver ==
    ASSUME NEW o \in Nat, NEW e \in Nat, NEW st \in Nat, o <= e, e < st
    PROVE  st > o
  OBVIOUS

\* The first object that covers an offset is the one that holds it.
LEMMA FirstFinds ==
    ASSUME Inv, SingleBlocks(Elements(metas), objects), NEW o, Finds(Elements(metas), objects, o)
    PROVE  (\E m \in Registered : Covers(m, o)) /\ o \in BlockAt(First(o))
  <1>1. PICK m \in Elements(metas) : o \in Records(objects[m.key])
    BY Zenon DEF Finds
  <1>2. /\ m \in MetaT /\ m.start \in Nat /\ m.end \in Nat /\ m \in Known(metas, comp)
        /\ m.key \in DOMAIN objects /\ objects[m.key] \in SUBSET BlockT
        /\ BlocksOK(objects[m.key], m.start, m.end)
    BY ObjectOf, Zenon
  <1>3. m.key.kind = "data" /\ Whole(objects[m.key], m.start)
    BY Zenon DEF SingleBlocks
  <1>4. o \in Nat /\ m.start <= o /\ o <= m.end
    BY <1>1, <1>2, <1>3, RecordsWithin, Zenon
  <1>5. Registered = Elements(metas) /\ Covers(m, o)
    BY <1>4, Zenon DEF Registered, Elements, Covers
  <1> DEFINE T == {i \in DOMAIN metas : Covers(metas[i], o)}
  <1>6. T \in SUBSET Nat /\ T # {}
    <2>1. DOMAIN metas \in SUBSET Nat
      BY Positions, Zenon DEF Inv, Shape
    <2>2. \E i \in DOMAIN metas : m = metas[i]
      BY Zenon DEF Elements
    <2> QED
      BY <1>5, <2>1, <2>2, Zenon
  <1> DEFINE n == First(o)
  <1>7. n \in Elements(metas) /\ Covers(n, o)
    <2>1. Min(T) \in T
      <3> HIDE DEF T
      <3> QED
        BY <1>6, MinOf, Zenon
    <2>2. n = metas[Min(T)]
      BY Zenon DEF First
    <2> QED
      BY <2>1, <2>2, Zenon DEF Elements
  <1> HIDE DEF n, T
  <1>8. n = m
    <2>1. n \in MetaT /\ n.start \in Nat /\ n.end \in Nat /\ n \in Known(metas, comp)
      BY <1>7, ObjectOf, Zenon
    <2>2. n.key.kind = "data"
      BY <1>7, Zenon DEF SingleBlocks
    <2>3. n # m => Apart(n, m)
      BY <1>2, <1>3, <2>1, <2>2, Zenon DEF Inv, KnownOK
    <2>4. n.start <= o /\ o <= n.end
      BY <1>7, Zenon DEF Covers
    <2>5. ~Apart(n, m)
      BY <1>2, <1>4, <2>1, <2>4, SharedOffset, Zenon DEF Apart
    <2> QED
      BY <2>3, <2>5, Zenon
  <1>9. BlockAt(m) = Records(objects[m.key])
    <2>1. {x \in objects[m.key] : x.start = m.start} = objects[m.key]
      BY <1>3, Zenon DEF Whole
    <2> QED
      BY <1>2, <2>1, Zenon DEF BlockAt
  <1> QED
    BY <1>1, <1>5, <1>8, <1>9, Zenon DEF n

\* An object stays as it is, or a trim was called past it.
Steady(st, R, ob, R2, ob2) == \A m \in R :
    m.end < st \/ (m \in R2 /\ m.key \in DOMAIN ob2 /\ ob2[m.key] = ob[m.key])

Lasting(st, R, ob, st2, R2, ob2) ==
    /\ st2 \in Nat /\ \A o \in Nat : st > o => st2 > o
    /\ \A o \in Nat : Available(st, R, ob, o) => Available(st2, R2, ob2, o)

LEMMA SteadyLasts ==
    ASSUME Inv, NEW R2, NEW ob2, Steady(purged, Elements(metas), objects, R2, ob2)
    PROVE  Lasting(purged, Elements(metas), objects, purged, R2, ob2)
  <1>1. purged \in Nat
    BY Zenon DEF Inv, Shape
  <1>2. ASSUME NEW o \in Nat, Finds(Elements(metas), objects, o) PROVE Available(purged, R2, ob2, o)
    <2>1. PICK m \in Elements(metas) : m.key \in DOMAIN objects /\ o \in Records(objects[m.key])
      BY <1>2, Zenon DEF Finds
    <2>2. CASE m.end < purged
      <3>1. /\ m.start \in Nat /\ m.end \in Nat
            /\ objects[m.key] \in SUBSET BlockT /\ BlocksOK(objects[m.key], m.start, m.end)
        BY ObjectOf, Zenon
      <3>2. o <= m.end
        BY <2>1, <3>1, RecordsWithin, Zenon
      <3>3. purged > o
        BY <1>1, <1>2, <2>2, <3>1, <3>2, PassedOver, Zenon
      <3> QED
        BY <3>3, Zenon DEF Available
    <2>3. CASE m \in R2 /\ m.key \in DOMAIN ob2 /\ ob2[m.key] = objects[m.key]
      <3>1. Finds(R2, ob2, o)
        BY <2>1, <2>3, Zenon DEF Finds
      <3> QED
        BY <3>1, Zenon DEF Available
    <2> QED
      BY <2>2, <2>3, Zenon DEF Steady
  <1> QED
    BY <1>1, <1>2, Zenon DEF Lasting, Available

LEMMA PurgedLasts ==
    ASSUME NEW st \in Nat, NEW st2 \in Nat, st2 >= st, NEW R, NEW ob
    PROVE  Lasting(st, R, ob, st2, R, ob)
  <1>1. \A o \in Nat : st > o => st2 > o
    OBVIOUS
  <1> QED
    BY <1>1, Zenon DEF Lasting, Available

\* A fetch keeps what it relies on while its offset stays available.
LEMMA FetchesKept ==
    ASSUME NEW fs, NEW st, NEW R, NEW ob, NEW st2, NEW R2, NEW ob2,
           FetchesOK(fs, st, R, ob), Lasting(st, R, ob, st2, R2, ob2)
    PROVE  FetchesOK(fs, st2, R2, ob2)
  <1> SUFFICES ASSUME NEW f \in Fetchers PROVE FetchOK(fs[f], st2, R2, ob2)
    BY Zenon DEF FetchesOK
  <1> DEFINE v == fs[f]
  <1>1. FetchOK(v, st, R, ob)
    BY Zenon DEF FetchesOK
  <1> HIDE DEF v
  <1>2. v.pc # "idle" => v.offset \in Nat
    <2>1. v = Idle => v.pc = "idle"
      BY IdlePc
    <2> QED
      BY <1>1, <2>1, FetchFields, AnswerFields, Zenon DEF FetchOK
  <1>3. v.pc \in {"cache", "object"} \/ v.pc = "answer" => v.offset \in Nat
    BY <1>2
  <1> QED
    BY <1>1, <1>3, Zenon DEF FetchOK, Lasting, v

\* One fetch becomes v.
LEMMA FetchSet ==
    ASSUME NEW fs, NEW f \in Fetchers, NEW v, NEW nfs, NEW st, NEW R, NEW ob,
           FetchesOK(fs, st, R, ob), FetchOK(v, st, R, ob), nfs = [fs EXCEPT ![f] = v]
    PROVE  FetchesOK(nfs, st, R, ob)
  <1>1. DOMAIN nfs = Fetchers /\ nfs[f] = v /\ \A g \in Fetchers : g # f => nfs[g] = fs[g]
    BY DEF FetchesOK
  <1> QED
    BY <1>1, Zenon DEF FetchesOK

\* The steps of a fetch.
LEMMA FetchStepKeeps ==
    ASSUME FetchesInv, NEW f \in Fetchers, FetchStep(f)
    PROVE  FetchesOK(fetch', purged, Elements(metas), objects)
  <1> DEFINE R == Elements(metas)
             v == fetch[f]
  <1>0. /\ FetchesOK(fetch, purged, R, objects) /\ FetchOK(v, purged, R, objects) /\ Inv
        /\ SingleBlocks(R, objects)
    BY Zenon DEF FetchesInv, FetchesOK
  <1>1. v.pc \in {"cache", "object"} => v \in BusyT
    <2>1. v.pc \in {"cache", "object"} => v.pc # "answer" /\ v # Idle
      BY IdlePc
    <2> QED
      BY <1>0, <2>1, AnswerFields, Zenon DEF FetchOK
  <1>2. ASSUME NEW w, fetch' = [fetch EXCEPT ![f] = w], FetchOK(w, purged, R, objects)
        PROVE  FetchesOK(fetch', purged, R, objects)
    <2> HIDE DEF R, v
    <2> QED
      BY <1>0, <1>2, FetchSet, Zenon
  <1>3. FetchOK(Idle, purged, R, objects)
    BY IdlePc DEF FetchOK
  <1>4. Registered = R
    BY Zenon DEF Registered, Elements
  <1>5. ASSUME NEW o \in Offsets, FetchBounds(f, o) PROVE FetchesOK(fetch', purged, R, objects)
    <2> DEFINE p == \E m \in Registered : Holds(m, o)
               q == \E b \in acked : b.base <= o /\ o <= Last(b)
               w == [pc |-> "cache", offset |-> o, uploaded |-> p, acked |-> q]
    <2>1. fetch' = [fetch EXCEPT ![f] = w]
      BY <1>5, Zenon DEF FetchBounds
    <2>2. p \in BOOLEAN /\ q \in BOOLEAN
      BY Zenon
    <2>3. p => Finds(R, objects, o)
      BY <1>4, Zenon DEF Holds, Finds
    <2>4. o \in Nat
      BY ConstantsAssumption DEF Offsets
    <2> HIDE DEF p, q
    <2>5. w \in BusyT /\ w.offset = o /\ w.uploaded = p
      BY <2>2, <2>4 DEF BusyT
    <2> HIDE DEF w
    <2>6. w.uploaded => Available(purged, R, objects, w.offset)
      <3> HIDE DEF R
      <3> QED
        BY <2>3, <2>5, Zenon DEF Available
    <2>7. FetchOK(w, purged, R, objects)
      <3> HIDE DEF R
      <3> QED
        BY <2>5, <2>6, FetchFields, Zenon DEF FetchOK
    <2> QED
      BY <1>2, <2>1, <2>7, Zenon
  <1>6. ASSUME NEW out \in SUBSET Nat, v \in BusyT, Answer(f, out),
               v.uploaded => v.offset \in out \/ purged > v.offset
        PROVE  FetchesOK(fetch', purged, R, objects)
    <2> DEFINE w == [pc |-> "answer", offset |-> v.offset, uploaded |-> v.uploaded,
                     acked |-> v.acked, out |-> out]
    <2>1. fetch' = [fetch EXCEPT ![f] = w]
      BY <1>6, Zenon DEF Answer
    <2>2. Answered(v, out, w)
      <3> HIDE DEF v
      <3> QED
        BY <1>6, AnswerMade, Zenon
    <2> HIDE DEF w, v, R
    <2>3. w.pc \notin {"cache", "object"}
      BY <2>2 DEF Answered
    <2>4. FetchOK(w, purged, R, objects)
      BY <1>6, <2>2, <2>3, Zenon DEF FetchOK, Answered
    <2> QED
      BY <1>2, <2>1, <2>4, Zenon
  <1>7. CASE FetchCache(f)
    <2>1. v.pc = "cache" /\ v \in BusyT /\ v.offset \in Nat
      BY <1>1, <1>7, FetchFields, Zenon DEF FetchCache
    <2> DEFINE o == v.offset
    <2>2. CASE \E b \in cache : b.base = o
      <3>1. Answer(f, CachedFrom(o))
        BY <1>7, <2>2, Zenon DEF FetchCache
      <3>2. cache \in SUBSET BatchT
        BY Zenon DEF FetchesInv
      <3> HIDE DEF v
      <3>3. CachedFrom(o) \in SUBSET Nat
        <4>1. \A b \in cache : b.base..Last(b) \in SUBSET Nat
          BY <3>2, BatchOffsets
        <4> QED
          BY <4>1, Zenon DEF CachedFrom
      <3>4. PICK b \in cache : b.base = o
        BY <2>2
      <3>5. o \in b.base..Last(b)
        BY <3>2, <3>4, BatchOffsets
      <3>6. b.base >= o /\ \A y \in o..b.base : y = b.base
        BY <2>1, <3>4
      <3>7. o \in CachedFrom(o)
        BY <3>4, <3>5, <3>6, Zenon DEF CachedFrom
      <3> QED
        BY <1>6, <2>1, <3>1, <3>3, <3>7, Zenon DEF v
    <2>3. CASE ~\E b \in cache : b.base = o
      <3> DEFINE w == [v EXCEPT !.pc = "object"]
      <3>1. fetch' = [fetch EXCEPT ![f] = w]
        BY <1>7, <2>3, Zenon DEF FetchCache
      <3>2. w \in BusyT /\ w.offset = v.offset /\ w.uploaded = v.uploaded
        BY <2>1 DEF BusyT
      <3> HIDE DEF w, v, R
      <3>3. v.uploaded => Available(purged, R, objects, v.offset)
        BY <1>0, <2>1, Zenon DEF FetchOK
      <3>4. FetchOK(w, purged, R, objects)
        BY <3>2, <3>3, FetchFields, Zenon DEF FetchOK
      <3> USE DEF R
      <3> QED
        BY <1>2, <3>1, <3>4, Zenon
    <2> QED
      BY <2>2, <2>3
  <1>8. CASE FetchObject(f)
    <2>1. v.pc = "object" /\ v \in BusyT /\ v.offset \in Nat
      BY <1>1, <1>8, FetchFields, Zenon DEF FetchObject
    <2> DEFINE o == v.offset
    <2>2. v.uploaded => purged > o \/ Finds(R, objects, o)
      BY <1>0, <2>1, Zenon DEF FetchOK, Available
    <2>3. CASE \E m \in Registered : Covers(m, o)
      <3>1. Answer(f, BlockAt(First(o)))
        BY <1>8, <2>3, Zenon DEF FetchObject
      <3>2. Finds(R, objects, o) => o \in BlockAt(First(o))
        <4> HIDE DEF v
        <4> QED
          BY <1>0, FirstFinds, Zenon
      <3>3. BlockAt(First(o)) \in SUBSET Nat
        <4> DEFINE n == First(o)
        <4>1. CASE n.key \in DOMAIN objects
          <5> DEFINE blocks == {x \in objects[n.key] : x.start = n.start}
          <5>1. objects[n.key] \in SUBSET BlockT
            BY <1>0, <4>1, Zenon DEF Inv, Shape
          <5>2. blocks \in SUBSET BlockT
            BY <5>1, Zenon
          <5>3. BlockAt(n) = Records(blocks)
            BY <4>1, Zenon DEF BlockAt
          <5> HIDE DEF blocks, n
          <5> QED
            BY <5>2, <5>3, RecordsAre, Zenon DEF n
        <4>2. CASE n.key \notin DOMAIN objects
          <5>1. BlockAt(n) = {}
            BY <4>2, Zenon DEF BlockAt
          <5> QED
            BY <5>1, Zenon
        <4> QED
          BY <4>1, <4>2
      <3> HIDE DEF v, R
      <3> QED
        BY <1>6, <2>1, <2>2, <3>1, <3>2, <3>3, Zenon DEF v, R
    <2>4. CASE ~\E m \in Registered : Covers(m, o)
      <3>1. Answer(f, {})
        BY <1>8, <2>4, Zenon DEF FetchObject
      <3>2. ~Finds(R, objects, o)
        <4> HIDE DEF v
        <4> QED
          BY <1>0, <2>4, FirstFinds, Zenon
      <3> QED
        BY <1>6, <2>1, <2>2, <3>1, <3>2, Zenon
    <2> QED
      BY <2>3, <2>4
  <1>9. CASE FetchFails(f) \/ FetchDone(f)
    <2>1. fetch' = [fetch EXCEPT ![f] = Idle]
      BY <1>9, Zenon DEF FetchFails, FetchDone
    <2> QED
      BY <1>2, <1>3, <2>1, Zenon
  <1> QED
    BY <1>5, <1>7, <1>8, <1>9, Zenon DEF FetchStep

\* An upload overwrites no registered object.
LEMMA UploadPutSteady ==
    ASSUME FetchesInv, NEW u \in Uploaders, UploadPut(u)
    PROVE  Steady(purged, Elements(metas), objects, Elements(metas), objects')
  <1> DEFINE k == Key("data", up[u].start, up[u].end)
  <1>1. Inv /\ up[u].pc = "put" /\ \E v : objects' = Put(objects, k, v)
    BY Zenon DEF FetchesInv, UploadPut, UploadKey
  <1>2. PICK v : objects' = Put(objects, k, v)
    BY <1>1
  <1> HIDE DEF k
  <1>3. PutAt(objects, k, v, objects')
    BY <1>2, PutIs, Zenon
  <1>4. ASSUME NEW m \in Elements(metas)
        PROVE  m.key \in DOMAIN objects /\ m.key # k
    <2>1. m.key \in DOMAIN objects /\ m \in Seen(metas, comp)
      BY <1>1, ObjectOf, Zenon DEF Seen
    <2>2. up[u].pc \in {"put", "register"}
      BY <1>1
    <2> QED
      BY <1>1, <2>1, <2>2, UploadKeyIsNew, Zenon DEF k
  <1> QED
    BY <1>3, <1>4, Zenon DEF Steady, PutAt

\* An upload registers an object of one block.
LEMMA UploadRegisterKeeps ==
    ASSUME FetchesInv, NEW u \in Uploaders, UploadRegister(u)
    PROVE  /\ Steady(purged, Elements(metas), objects, Elements(metas'), objects)
           /\ SingleBlocks(Elements(metas'), objects)
  <1> DEFINE v == up[u]
             k == Key("data", v.start, v.end)
             block == [start |-> v.start, end |-> v.end, batches |-> v.batches]
             m == Meta(k, {block})
             A == Seen(metas, comp)
  <1>1. v.pc = "register" /\ metas' = Append(metas, m) /\ Inv
    BY Zenon DEF UploadRegister, UploadKey, UploadBlock, FetchesInv
  <1>2. Shape /\ metas \in Seq(MetaT)
    BY <1>1, Zenon DEF Inv, Shape
  <1>3. v # Idle /\ v.start \in Nat /\ v.end \in Nat /\ v.batches \in SUBSET BatchT
    <2>1. v.pc # "idle"
      BY <1>1
    <2> QED
      BY <1>2, <2>1, UploadIs, Zenon
  <1>4. UploadOK(v, A, objects, claimed)
    BY <1>1, <1>3, Zenon DEF Inv, UploadsOK
  <1>5. v.start <= v.end /\ k \in DOMAIN objects /\ objects[k] = {block}
    BY <1>1, <1>4, Zenon DEF UploadOK
  <1>6. block \in BlockT /\ block.start = v.start /\ block.batches = v.batches
    BY <1>3 DEF BlockT
  <1>7. Describes(m, "data", v.start, v.end)
    <2> HIDE DEF v, block
    <2>1. {block} \in SUBSET BlockT /\ "data" \in {"data", "compacted"}
      BY <1>6
    <2> QED
      BY <1>3, <1>5, <2>1, MetaDescribes, Zenon
  <1>8. \A b \in v.batches : v.start <= b.base
    BY <1>3, Zenon DEF FetchesInv, UploadsFrom
  <1>9. SingleBlocks(Elements(metas), objects)
    BY Zenon DEF FetchesInv
  <1> HIDE DEF v, k, m, block
  <1>10. m \in MetaT /\ m.key = k /\ m.start = v.start /\ m.key.kind = "data"
    BY <1>7, Zenon DEF Describes, k
  <1>11. Elements(metas') = Elements(metas) \cup {m}
    <2>1. Gains(metas, m, Append(metas, m))
      BY <1>2, <1>10, ListsMade, Zenon
    <2> QED
      BY <1>1, <2>1, Zenon DEF Gains
  <1>12. Whole(objects[m.key], m.start)
    BY <1>5, <1>6, <1>8, <1>10, Zenon DEF Whole
  <1>13. \A n \in Elements(metas) : n.key \in DOMAIN objects
    BY <1>1, ObjectOf, Zenon
  <1> QED
    BY <1>9, <1>10, <1>11, <1>12, <1>13, Zenon DEF Steady, SingleBlocks

\* A trim removes only objects it was called past.
LEMMA TrimObjectsSteady ==
    ASSUME FetchesInv, NEW t \in Trimmers, TrimObjects(t)
    PROVE  /\ Steady(purged, Elements(metas), objects, Elements(metas'), objects')
           /\ SingleBlocks(Elements(metas'), objects')
  <1> DEFINE to == trim[t].to
             R == Elements(metas)
             D == {m \in R : m.end < to}
             kept == {m \in R : ~(m.end < to)}
  <1>1. /\ trim[t].pc = "objects" /\ Inv /\ metas' = Only(metas, kept)
        /\ objects' = Without({m.key : m \in D}) \/ objects' = objects
    BY Zenon DEF TrimObjects, Obsolete, Registered, Elements, FetchesInv
  <1>2. Shape /\ purged \in Nat /\ metas \in Seq(MetaT)
    BY <1>1, Zenon DEF Inv, Shape
  <1>3. to \in Int /\ to <= purged
    <2>1. trim[t] # Idle
      BY <1>1, IdlePc
    <2> QED
      BY <1>1, <1>2, <2>1, TrimsFields, Zenon DEF Inv, TrimsOK
  <1>4. Elements(metas') = kept
    <2>1. R \cap kept = kept
      BY Zenon
    <2> HIDE DEF kept, to
    <2>2. Keeps(metas, kept, Only(metas, kept))
      BY <1>2, ListsMade, Zenon
    <2> QED
      BY <1>1, <2>1, <2>2, Zenon DEF Keeps
  <1>5. PICK keys \in SUBSET {m.key : m \in D} : WithoutAt(objects, keys, objects')
    <2> HIDE DEF D
    <2> QED
      BY <1>1, WithoutIs, Zenon
  <1>6. ASSUME NEW m \in kept PROVE m \in R /\ m.key \in DOMAIN objects' /\ objects'[m.key] = objects[m.key]
    <2>1. m \in R /\ ~(m.end < to)
      OBVIOUS
    <2>2. m \in Known(metas, comp) /\ m.key \in DOMAIN objects
      BY <1>1, <2>1, ObjectOf, Zenon
    <2>3. ASSUME NEW n \in D PROVE m.key # n.key
      <3>1. n \in R /\ n # m
        BY <2>1
      <3>2. n \in Known(metas, comp)
        BY <1>1, <3>1, ObjectOf, Zenon
      <3>3. Known(metas, comp) \in SUBSET MetaT /\ KnownOK(Known(metas, comp))
        <4>1. Known(metas, comp) \subseteq Seen(metas, comp) /\ Seen(metas, comp) \in SUBSET MetaT
          BY <1>2, SeenAreMetas, Zenon
        <4>2. KnownOK(Known(metas, comp))
          BY <1>1, Zenon DEF Inv
        <4> QED
          BY <4>1, <4>2, Zenon
      <3> QED
        BY <2>2, <3>1, <3>2, <3>3, OneObjectPerKey, Zenon
    <2> HIDE DEF D, kept
    <2>4. m.key \notin keys
      BY <1>5, <2>3, Zenon
    <2> QED
      BY <1>5, <2>1, <2>2, <2>4, Zenon DEF WithoutAt
  <1>7. ASSUME NEW m \in R PROVE m \in kept \/ m.end < purged
    <2>1. m.end \in Nat
      BY <1>1, ObjectOf, Zenon
    <2>2. m.end < to => m.end < purged
      BY <1>2, <1>3, <2>1
    <2> QED
      BY <2>2, Zenon
  <1>8. SingleBlocks(R, objects)
    BY Zenon DEF FetchesInv
  <1> HIDE DEF kept, R, D
  <1>9. Steady(purged, R, objects, kept, objects')
    BY <1>6, <1>7, Zenon DEF Steady
  <1>10. SingleBlocks(kept, objects')
    BY <1>6, <1>8, Zenon DEF SingleBlocks
  <1> QED
    BY <1>4, <1>9, <1>10, Zenon DEF R

\* The LogCache holds batches.
LEMMA CacheKeeps ==
    ASSUME FetchesInv, [Next]_vars
    PROVE  cache' \in SUBSET BatchT
  <1>1. Inv /\ Shape /\ cache \in SUBSET BatchT
    BY Zenon DEF FetchesInv, Inv
  <1>2. CASE cache' = cache
    BY <1>1, <1>2, Zenon
  <1>3. ASSUME NEW o, cache' = CacheFrom(o) PROVE cache' \in SUBSET BatchT
    BY <1>1, <1>3, Zenon DEF CacheFrom
  <1>4. CASE AppendCache
    <2>1. app.pc = "cache" /\ cache' = Kept \cup {app.batch}
      BY <1>4, Zenon DEF AppendCache
    <2>2. app.pc # "idle"
      BY <2>1
    <2>3. app \in AppendT
      BY <1>1, <2>2, Busy, Zenon
    <2>4. app.batch \in BatchT
      BY <2>3 DEF AppendT
    <2> QED
      BY <1>1, <2>1, <2>4, Zenon DEF Kept
  <1>5. ASSUME NEW t \in Trimmers, TrimCache(t) PROVE cache' \in SUBSET BatchT
    BY <1>3, <1>5, Zenon DEF TrimCache
  <1>6. ASSUME NEW d \in Deleters, DeleteCached(d) PROVE cache' \in SUBSET BatchT
    BY <1>3, <1>6, Zenon DEF DeleteCached
  <1>7. CASE UNCHANGED vars \/ AppendWal \/ AppendFails \/ \E n \in Counts : AppendTakeOffset(n)
    BY <1>2, <1>7 DEF vars, tiers, AppendWal, AppendFails, AppendTakeOffset
  <1>8. ASSUME NEW u \in Uploaders, \/ \E last \in acked : UploadBegin(u, last)
                                    \/ UploadPut(u) \/ UploadRegister(u) \/ UploadTrimWal(u)
        PROVE  cache' = cache
    BY <1>8, Zenon DEF tiers, UploadBegin, UploadPut, UploadRegister, UploadTrimWal
  <1>9. ASSUME NEW c \in Compactors, \/ CompactRead(c) \/ CompactFails(c) \/ CompactPut(c)
                                     \/ CompactReplace(c) \/ CompactDelete(c)
        PROVE  cache' = cache
    BY <1>9 DEF tiers, CompactRead, CompactFails, CompactPut, CompactReplace, CompactDelete
  <1>10. ASSUME NEW t \in Trimmers, \/ \E to \in TrimTargets : TrimStart(t, to)
                                    \/ TrimWal(t) \/ TrimObjects(t)
         PROVE  cache' = cache
    BY <1>10 DEF tiers, TrimStart, TrimWal, TrimObjects
  <1>11. ASSUME NEW d \in Deleters, (\E to \in Offsets : DeleteCheck(d, to)) \/ DeleteAdvance(d)
         PROVE  cache' = cache
    BY <1>11 DEF tiers, DeleteCheck, DeleteAdvance
  <1>12. ASSUME NEW f \in Fetchers, FetchStep(f) PROVE cache' = cache
    BY <1>12 DEF tiers, FetchStep, FetchBounds, FetchCache, FetchObject, FetchFails, FetchDone
  <1> QED
    BY <1>2, <1>4, <1>5, <1>6, <1>7, <1>8, <1>9, <1>10, <1>11, <1>12, Zenon DEF Next, FetchStep

\* What an upload holds begins at its start.
LEMMA UploadsFromKeeps ==
    ASSUME FetchesInv, OneAtATime, [Next]_vars
    PROVE  UploadsFrom(up')
  <1>1. Inv /\ Shape /\ UploadsFrom(up)
    BY Zenon DEF FetchesInv, Inv
  <1>2. CASE up' = up
    BY <1>1, <1>2, Zenon
  <1>3. ASSUME NEW u \in Uploaders, NEW v \in {Idle} \cup UploadT, up' = [up EXCEPT ![u] = v],
               v # Idle => \A b \in v.batches : v.start <= b.base
        PROVE  UploadsFrom(up')
    <2>1. Uploading(up, u, v, up')
      BY <1>1, <1>3, Zenon DEF Uploading, Shape
    <2>2. OnlyUpload(up', v)
      BY <2>1, UploadSet, Zenon
    <2> QED
      BY <1>3, <2>2, Zenon DEF OnlyUpload, UploadsFrom
  <1>4. ASSUME NEW u \in Uploaders, NEW last \in acked, UploadBegin(u, last) PROVE UploadsFrom(up')
    <2> DEFINE batches == {b \in acked : claimed <= b.base /\ b.base <= last.base}
               bases == {b.base : b \in batches}
               from == Min(bases)
               v == [pc |-> "put", batches |-> batches, start |-> from, end |-> Last(last)]
    <2>1. last.base >= claimed /\ up' = [up EXCEPT ![u] = v]
      BY <1>4, Zenon DEF UploadBegin
    <2>2. last \in BatchT /\ claimed \in Nat /\ batches \in SUBSET BatchT
      BY <1>1, Zenon DEF Shape
    <2>3. last \in batches
      <3>1. claimed <= last.base /\ last.base <= last.base
        BY <2>1, <2>2, BatchOffsets
      <3> QED
        BY <3>1, Zenon
    <2>4. bases \in SUBSET Nat /\ bases # {}
      BY <2>2, <2>3, BatchOffsets, Zenon
    <2>5. from \in bases /\ \A y \in bases : from <= y
      <3> HIDE DEF bases
      <3> QED
        BY <2>4, MinOf, Zenon
    <2>6. \A b \in batches : from <= b.base
      BY <2>5, Zenon
    <2>7. from \in Nat /\ Last(last) \in Nat
      BY <2>2, <2>4, <2>5, BatchOffsets, Zenon
    <2> HIDE DEF batches, from
    <2>8. v \in UploadT /\ v.start = from /\ v.batches = batches
      BY <2>2, <2>7 DEF UploadT
    <2> HIDE DEF v
    <2> QED
      BY <1>3, <2>1, <2>6, <2>8, Zenon
  <1>5. ASSUME NEW u \in Uploaders, UploadPut(u) \/ UploadRegister(u) PROVE UploadsFrom(up')
    <2> DEFINE v == up[u]
    <2>1. PICK pc \in {"register", "trim"} : v.pc # "idle" /\ up' = [up EXCEPT ![u] = [v EXCEPT !.pc = pc]]
      BY <1>5 DEF UploadPut, UploadRegister
    <2> DEFINE w == [v EXCEPT !.pc = pc]
    <2>2. v \in UploadT /\ v # Idle
      BY <1>1, <2>1, UploadIs, Zenon
    <2>3. w \in UploadT /\ w.batches = v.batches /\ w.start = v.start
      BY <2>2, UploadMoves
    <2>4. \A b \in v.batches : v.start <= b.base
      BY <1>1, <2>2, Zenon DEF UploadsFrom
    <2> HIDE DEF v, w
    <2> QED
      BY <1>3, <2>1, <2>3, <2>4, Zenon DEF w
  <1>6. ASSUME NEW u \in Uploaders, UploadTrimWal(u) PROVE UploadsFrom(up')
    <2>1. up' = [up EXCEPT ![u] = Idle]
      BY <1>6, Zenon DEF UploadTrimWal
    <2> QED
      BY <1>3, <2>1, Zenon
  <1>7. CASE \/ UNCHANGED vars \/ AppendWal \/ AppendFails \/ AppendCache
             \/ \E n \in Counts : AppendTakeOffset(n)
    BY <1>2, <1>7 DEF vars, actors, AppendWal, AppendFails, AppendTakeOffset, AppendCache
  <1>9. ASSUME NEW c \in Compactors, \/ CompactRead(c) \/ CompactFails(c) \/ CompactPut(c)
                                     \/ CompactReplace(c) \/ CompactDelete(c)
        PROVE  up' = up
    BY <1>9, Zenon DEF CompactRead, CompactFails, CompactPut, CompactReplace, CompactDelete
  <1>10. ASSUME NEW t \in Trimmers, \/ \E to \in TrimTargets : TrimStart(t, to)
                                    \/ TrimCache(t) \/ TrimWal(t) \/ TrimObjects(t)
         PROVE  up' = up
    BY <1>10, Zenon DEF TrimStart, TrimCache, TrimWal, TrimObjects
  <1>11. ASSUME NEW d \in Deleters, \/ \E to \in Offsets : DeleteCheck(d, to)
                                    \/ DeleteAdvance(d) \/ DeleteCached(d)
         PROVE  up' = up
    BY <1>11, Zenon DEF DeleteCheck, DeleteAdvance, DeleteCached
  <1>12. ASSUME NEW f \in Fetchers, FetchStep(f) PROVE up' = up
    BY <1>12, Zenon DEF FetchStep, FetchBounds, FetchCache, FetchObject, FetchFails, FetchDone
  <1> QED
    BY <1>2, <1>4, <1>5, <1>6, <1>7, <1>9, <1>10, <1>11, <1>12, Zenon DEF Next, FetchStep

\* What is registered, and what the fetches rely on.
LEMMA FoundKeeps ==
    ASSUME FetchesInv, Compactors = {}, [Next]_vars
    PROVE  /\ SingleBlocks(Elements(metas'), objects')
           /\ FetchesOK(fetch', purged', Elements(metas'), objects')
  <1> DEFINE R == Elements(metas)
             Goal == /\ SingleBlocks(Elements(metas'), objects')
                     /\ FetchesOK(fetch', purged', Elements(metas'), objects')
  <1>1. Inv /\ SingleBlocks(R, objects) /\ FetchesOK(fetch, purged, R, objects)
    BY Zenon DEF FetchesInv
  <1>2. purged \in Nat /\ purged' \in Nat /\ purged' >= purged
    BY <1>1, PurgedStep, Zenon DEF Inv, Shape
  <1>3. ASSUME metas' = metas, objects' = objects, fetch' = fetch PROVE Goal
    <2>1. Lasting(purged, R, objects, purged', R, objects)
      <3> HIDE DEF R
      <3> QED
        BY <1>2, PurgedLasts, Zenon
    <2>2. FetchesOK(fetch, purged', R, objects)
      <3> HIDE DEF R
      <3> QED
        BY <1>1, <2>1, FetchesKept, Zenon
    <2> QED
      BY <1>1, <1>3, <2>2, Zenon
  <1>4. ASSUME purged' = purged, fetch' = fetch, Steady(purged, R, objects, Elements(metas'), objects')
        PROVE  FetchesOK(fetch', purged', Elements(metas'), objects')
    <2>1. Lasting(purged, R, objects, purged, Elements(metas'), objects')
      BY <1>1, <1>4, SteadyLasts, Zenon
    <2> HIDE DEF R
    <2>2. FetchesOK(fetch, purged, Elements(metas'), objects')
      BY <1>1, <2>1, FetchesKept, Zenon
    <2> QED
      BY <1>4, <2>2, Zenon
  <1>5. ASSUME NEW u \in Uploaders, UploadPut(u) PROVE Goal
    <2>1. purged' = purged /\ fetch' = fetch /\ metas' = metas
      BY <1>5, Zenon DEF UploadPut
    <2>2. Steady(purged, R, objects, R, objects')
      BY <1>5, UploadPutSteady, Zenon
    <2>3. SingleBlocks(R, objects')
      <3>1. ASSUME NEW m \in R, m.end < purged PROVE Whole(objects'[m.key], m.start)
        <4>1. objects'[m.key] = objects[m.key]
          <5> DEFINE k == Key("data", up[u].start, up[u].end)
          <5>1. up[u].pc \in {"put", "register"} /\ \E v : objects' = Put(objects, k, v)
            BY <1>5, Zenon DEF UploadPut, UploadKey
          <5>2. PICK v : objects' = Put(objects, k, v)
            BY <5>1
          <5>3. m.key # k /\ m.key \in DOMAIN objects
            <6>1. m.key \in DOMAIN objects /\ m \in Seen(metas, comp)
              BY <1>1, ObjectOf, Zenon DEF Seen
            <6> QED
              BY <1>1, <5>1, <6>1, UploadKeyIsNew, Zenon
          <5> HIDE DEF k
          <5>4. PutAt(objects, k, v, objects')
            BY <5>2, PutIs, Zenon
          <5> QED
            BY <5>3, <5>4, Zenon DEF PutAt
        <4> QED
          BY <1>1, <4>1, Zenon DEF SingleBlocks
      <3> HIDE DEF R
      <3> QED
        BY <1>1, <2>2, <3>1, Zenon DEF SingleBlocks, Steady
    <2>4. Steady(purged, R, objects, Elements(metas'), objects') /\ SingleBlocks(Elements(metas'), objects')
      BY <2>1, <2>2, <2>3, Zenon
    <2> QED
      BY <1>4, <2>1, <2>4, Zenon
  <1>6. ASSUME NEW u \in Uploaders, UploadRegister(u) PROVE Goal
    <2>1. purged' = purged /\ fetch' = fetch /\ objects' = objects
      BY <1>6, Zenon DEF UploadRegister
    <2>2. Steady(purged, R, objects, Elements(metas'), objects) /\ SingleBlocks(Elements(metas'), objects)
      BY <1>6, UploadRegisterKeeps, Zenon
    <2>3. Steady(purged, R, objects, Elements(metas'), objects') /\ SingleBlocks(Elements(metas'), objects')
      BY <2>1, <2>2, Zenon
    <2> QED
      BY <1>4, <2>1, <2>3, Zenon
  <1>7. ASSUME NEW t \in Trimmers, TrimObjects(t) PROVE Goal
    <2>1. purged' = purged /\ fetch' = fetch
      BY <1>7, Zenon DEF TrimObjects
    <2>2. Steady(purged, R, objects, Elements(metas'), objects') /\ SingleBlocks(Elements(metas'), objects')
      BY <1>7, TrimObjectsSteady, Zenon
    <2> QED
      BY <1>4, <2>1, <2>2, Zenon
  <1>8. ASSUME NEW f \in Fetchers, FetchStep(f) PROVE Goal
    <2>1. purged' = purged /\ metas' = metas /\ objects' = objects
      BY <1>8 DEF tiers, FetchStep, FetchBounds, FetchCache, FetchObject, FetchFails, FetchDone
    <2>2. FetchesOK(fetch', purged, R, objects)
      BY <1>8, FetchStepKeeps, Zenon
    <2> QED
      BY <1>1, <2>1, <2>2, Zenon
  <1>9. ASSUME \/ UNCHANGED vars \/ AppendWal \/ AppendFails \/ AppendCache
               \/ \E n \in Counts : AppendTakeOffset(n)
        PROVE  metas' = metas /\ objects' = objects /\ fetch' = fetch
    BY <1>9 DEF vars, actors, tiers, AppendWal, AppendFails, AppendTakeOffset, AppendCache
  <1>10. ASSUME NEW u \in Uploaders, (\E last \in acked : UploadBegin(u, last)) \/ UploadTrimWal(u)
         PROVE  metas' = metas /\ objects' = objects /\ fetch' = fetch
    BY <1>10, Zenon DEF tiers, UploadBegin, UploadTrimWal
  <1>11. ASSUME NEW t \in Trimmers, \/ \E to \in TrimTargets : TrimStart(t, to)
                                    \/ TrimCache(t) \/ TrimWal(t)
         PROVE  metas' = metas /\ objects' = objects /\ fetch' = fetch
    BY <1>11 DEF tiers, TrimStart, TrimCache, TrimWal
  <1>12. ASSUME NEW d \in Deleters, \/ \E to \in Offsets : DeleteCheck(d, to)
                                    \/ DeleteAdvance(d) \/ DeleteCached(d)
         PROVE  metas' = metas /\ objects' = objects /\ fetch' = fetch
    BY <1>12 DEF tiers, DeleteCheck, DeleteAdvance, DeleteCached
  <1> HIDE DEF Goal
  <1>13. Goal
    BY <1>3, <1>5, <1>6, <1>7, <1>8, <1>9, <1>10, <1>11, <1>12, Zenon DEF Next, FetchStep
  <1> QED
    BY <1>13, Zenon DEF Goal

(* fetch: with one upload at a time and while no compaction runs, a fetch  *)
(* of an offset that was in a registered object when it began returns that *)
(* offset, unless a trim was called past it; whatever the LogCache still   *)
(* holds, whatever trims race it, to offsets in any order, and whatever    *)
(* DeleteRecords requests pass the offset meanwhile.                       *)
THEOREM UploadedOffsetsAreFetched ==
    ASSUME OneAtATime, Compactors = {}
    PROVE  Spec => []UploadedFetchable
  <1>1. Init => FetchesInv
    <2> SUFFICES ASSUME Init PROVE FetchesInv
      OBVIOUS
    <2>1. Inv
      BY InitInv
    <2>2. /\ cache = {} /\ metas = << >> /\ up = [u \in Uploaders |-> Idle]
          /\ fetch = [f \in Fetchers |-> Idle]
      BY DEF Init
    <2>3. Elements(metas) = {} /\ UploadsFrom(up)
      BY <2>2 DEF Elements, UploadsFrom
    <2>4. SingleBlocks(Elements(metas), objects)
      BY <2>3 DEF SingleBlocks
    <2>5. FetchOK(Idle, purged, Elements(metas), objects)
      BY IdlePc DEF FetchOK
    <2>6. FetchesOK(fetch, purged, Elements(metas), objects)
      BY <2>2, <2>5, Zenon DEF FetchesOK
    <2> QED
      BY <2>1, <2>2, <2>3, <2>4, <2>6, Zenon DEF FetchesInv
  <1>2. FetchesInv /\ [Next]_vars => FetchesInv'
    <2> SUFFICES ASSUME FetchesInv, [Next]_vars PROVE FetchesInv'
      OBVIOUS
    <2>1. Inv'
      BY NextInv, Zenon DEF FetchesInv
    <2> QED
      BY <2>1, CacheKeeps, UploadsFromKeeps, FoundKeeps, Zenon DEF FetchesInv
  <1>3. FetchesInv => UploadedFetchable
    BY Zenon DEF FetchesInv, FetchesOK, FetchOK, UploadedFetchable
  <1> QED
    BY <1>1, <1>2, <1>3, PTL DEF Spec

=============================================================================
