----------------------------- MODULE ListsProofs -----------------------------
(***************************************************************************)
(* What the list operations of Lists keep and lose, for every list.        *)
(***************************************************************************)
EXTENDS Lists, TLAPS

\* Taking the first of a sequence moves the others forward.
LEMMA TailFacts ==
  ASSUME NEW S, NEW s \in Seq(S), s # <<>>
  PROVE  /\ Len(s) \in Nat \ {0} /\ Head(s) = s[1] /\ s[1] \in S
         /\ Tail(s) \in Seq(S) /\ Len(Tail(s)) = Len(s) - 1
         /\ \A k \in 1..(Len(s) - 1) : Tail(s)[k] = s[k + 1]
  OBVIOUS

\* Appending leaves the others in their places.
LEMMA AppendFacts ==
  ASSUME NEW S, NEW s \in Seq(S), NEW e \in S
  PROVE  /\ Len(s) \in Nat /\ Append(s, e) \in Seq(S) /\ Len(Append(s, e)) = Len(s) + 1
         /\ Append(s, e)[Len(s) + 1] = e
         /\ \A k \in 1..Len(s) : Append(s, e)[k] = s[k]
  OBVIOUS

\* Deleting one position moves the ones behind it forward.
LEMMA DeleteAtFacts ==
  ASSUME NEW S, NEW s \in Seq(S), NEW k \in Positions(s)
  PROVE  /\ DeleteAt(s, k) \in Seq(S)
         /\ Len(DeleteAt(s, k)) = Len(s) - 1
         /\ \A j \in 1..(Len(s) - 1) : DeleteAt(s, k)[j] = IF j < k THEN s[j] ELSE s[j + 1]
  <1> DEFINE n == Len(s) - 1
  <1>1. n \in Nat /\ \A j \in 1..n : (IF j < k THEN s[j] ELSE s[j + 1]) \in S
    BY DEF Positions
  <1>2. DeleteAt(s, k) = [j \in 1..n |-> IF j < k THEN s[j] ELSE s[j + 1]]
    BY DEF DeleteAt
  <1>3. DeleteAt(s, k) \in [1..n -> S]
    BY <1>1, <1>2
  <1>4. DeleteAt(s, k) \in Seq(S) /\ Len(DeleteAt(s, k)) = n
    BY <1>1, <1>3
  <1>5. QED
    BY <1>2, <1>4

\* Moving an element shifts the ones between its old and its new position.
LEMMA MoveFacts ==
  ASSUME NEW S, NEW s \in Seq(S), NEW k \in Positions(s), NEW d \in Positions(s)
  PROVE  /\ Move(s, k, d) \in Seq(S)
         /\ Len(Move(s, k, d)) = Len(s)
         /\ \A j \in Positions(s) : Move(s, k, d)[j] =
              IF j = d THEN s[k]
              ELSE IF k <= j /\ j < d THEN s[j + 1]
              ELSE IF d < j /\ j <= k THEN s[j - 1]
              ELSE s[j]
  <1> DEFINE at(j) == IF j = d THEN s[k]
                      ELSE IF k <= j /\ j < d THEN s[j + 1]
                      ELSE IF d < j /\ j <= k THEN s[j - 1]
                      ELSE s[j]
  <1>1. \A j \in 1..Len(s) : at(j) \in S
    BY DEF Positions
  <1>2. Move(s, k, d) = [j \in 1..Len(s) |-> at(j)]
    BY DEF Move
  <1>3. Move(s, k, d) \in [1..Len(s) -> S]
    BY <1>1, <1>2
  <1>4. Move(s, k, d) \in Seq(S) /\ Len(Move(s, k, d)) = Len(s)
    BY <1>3
  <1>5. QED
    BY <1>2, <1>4 DEF Positions

\* What is listed is found.
LEMMA IndexOfFacts ==
  ASSUME NEW s, NEW x, Contains(s, x)
  PROVE  IndexOf(s, x) \in Positions(s) /\ s[IndexOf(s, x)] = x
  BY DEF Contains, IndexOf

\* Removing keeps a list one of the same elements.
LEMMA RemoveFacts ==
  ASSUME NEW S, NEW s \in Seq(S), NEW x
  PROVE  Remove(s, x) \in Seq(S)
  BY IndexOfFacts, DeleteAtFacts DEF Remove

\* Moving loses nothing, and a list without duplicates stays so.
LEMMA MoveElements ==
  ASSUME NEW S, NEW s \in Seq(S), NEW k \in Positions(s), NEW d \in Positions(s)
  PROVE  /\ \A x : Contains(Move(s, k, d), x) <=> Contains(s, x)
         /\ Distinct(s) => Distinct(Move(s, k, d))
  <1> DEFINE m == Move(s, k, d)
             from(j) == IF j = d THEN k ELSE IF k <= j /\ j < d THEN j + 1
                        ELSE IF d < j /\ j <= k THEN j - 1 ELSE j
             to(j) == IF j = k THEN d ELSE IF k < j /\ j <= d THEN j - 1
                      ELSE IF d <= j /\ j < k THEN j + 1 ELSE j
  <1>1. /\ Positions(m) = Positions(s)
        /\ \A j \in Positions(s) : from(j) \in Positions(s) /\ m[j] = s[from(j)]
    BY MoveFacts DEF Positions
  <1>2. \A j \in Positions(s) : to(j) \in Positions(s) /\ from(to(j)) = j
    BY DEF Positions
  <1>3. \A i, j \in Positions(s) : from(i) = from(j) => i = j
    BY DEF Positions
  <1> HIDE DEF m, from, to
  <1>4. \A j \in Positions(s) : m[to(j)] = s[j]
    BY <1>1, <1>2
  <1>5. \A x : Contains(m, x) <=> Contains(s, x)
    BY <1>1, <1>2, <1>4 DEF Contains
  <1>6. Distinct(s) => Distinct(m)
    BY <1>1, <1>3 DEF Distinct
  <1>7. QED
    BY <1>5, <1>6 DEF m

\* Deleting a position of a list without duplicates loses that element only.
LEMMA DeleteAtElements ==
  ASSUME NEW S, NEW s \in Seq(S), NEW k \in Positions(s), Distinct(s)
  PROVE  /\ \A x : Contains(DeleteAt(s, k), x) <=> Contains(s, x) /\ x # s[k]
         /\ Distinct(DeleteAt(s, k))
  <1> DEFINE m == DeleteAt(s, k)
             from(j) == IF j < k THEN j ELSE j + 1
             to(j) == IF j < k THEN j ELSE j - 1
  <1>0. Positions(m) = 1..(Len(s) - 1) /\ \A j \in 1..(Len(s) - 1) : m[j] = s[from(j)]
    BY DeleteAtFacts DEF Positions
  <1> HIDE DEF m
  <1>1. \A j \in Positions(m) : from(j) \in Positions(s) /\ from(j) # k /\ m[j] = s[from(j)]
    BY <1>0 DEF Positions
  <1>2. \A j \in Positions(s) : j # k => to(j) \in Positions(m) /\ from(to(j)) = j
    BY <1>0 DEF Positions
  <1>3. \A i, j \in Positions(m) : from(i) = from(j) => i = j
    BY <1>0 DEF Positions
  <1>4. \A j \in Positions(s) : j # k => m[to(j)] = s[j]
    BY <1>1, <1>2
  <1> HIDE DEF from, to
  <1>5. ASSUME NEW x PROVE Contains(m, x) <=> Contains(s, x) /\ x # s[k]
    <2>1. Contains(m, x) => Contains(s, x) /\ x # s[k]
      BY <1>1 DEF Contains, Distinct
    <2>2. Contains(s, x) /\ x # s[k] => Contains(m, x)
      BY <1>2, <1>4 DEF Contains
    <2>3. QED
      BY <2>1, <2>2
  <1>6. Distinct(m)
    BY <1>1, <1>3 DEF Distinct
  <1>7. QED
    BY <1>5, <1>6 DEF m

\* Appending adds one element.
LEMMA AppendElements ==
  ASSUME NEW S, NEW s \in Seq(S), NEW e \in S
  PROVE  /\ \A x : Contains(Append(s, e), x) <=> Contains(s, x) \/ x = e
         /\ Distinct(s) /\ ~Contains(s, e) => Distinct(Append(s, e))
  <1> DEFINE m == Append(s, e)
  <1>1. /\ Len(m) = Len(s) + 1 /\ m[Len(s) + 1] = e /\ Len(s) \in Nat
        /\ \A j \in 1..Len(s) : m[j] = s[j]
    OBVIOUS
  <1> HIDE DEF m
  <1>2. \A x : Contains(m, x) <=> Contains(s, x) \/ x = e
    BY <1>1 DEF Contains, Positions
  <1>3. Distinct(s) /\ ~Contains(s, e) => Distinct(m)
    BY <1>1 DEF Contains, Distinct, Positions
  <1>4. QED
    BY <1>2, <1>3 DEF m

\* Dropping the first element loses that element only.
LEMMA TailElements ==
  ASSUME NEW S, NEW s \in Seq(S), Len(s) > 0, Distinct(s)
  PROVE  /\ \A x : Contains(Tail(s), x) <=> Contains(s, x) /\ x # s[1]
         /\ Distinct(Tail(s))
  <1> DEFINE m == Tail(s)
  <1>1. /\ Len(m) = Len(s) - 1 /\ Len(s) \in Nat
        /\ \A j \in 1..(Len(s) - 1) : m[j] = s[j + 1]
    OBVIOUS
  <1> HIDE DEF m
  <1>2. \A j \in Positions(s) : j # 1 => j - 1 \in Positions(m) /\ m[j - 1] = s[j]
    BY <1>1 DEF Positions
  <1>3. \A j \in Positions(m) : j + 1 \in Positions(s) /\ j + 1 # 1 /\ m[j] = s[j + 1]
    BY <1>1 DEF Positions
  <1>4. 1 \in Positions(s)
    BY DEF Positions
  <1>5. ASSUME NEW x PROVE Contains(m, x) <=> Contains(s, x) /\ x # s[1]
    BY <1>2, <1>3, <1>4 DEF Contains, Distinct
  <1>6. Distinct(m)
    BY <1>1, <1>3 DEF Distinct, Positions
  <1>7. QED
    BY <1>5, <1>6 DEF m

\* Deleting a position loses no other element, duplicates or not.
LEMMA DeleteAtKeeps ==
  ASSUME NEW S, NEW s \in Seq(S), NEW k \in Positions(s), NEW x, Contains(s, x), x # s[k]
  PROVE  Contains(DeleteAt(s, k), x)
  <1> DEFINE m == DeleteAt(s, k)
             to(j) == IF j < k THEN j ELSE j - 1
  <1>1. Positions(m) = 1..(Len(s) - 1) /\ \A j \in 1..(Len(s) - 1) : m[j] = IF j < k THEN s[j] ELSE s[j + 1]
    BY DeleteAtFacts DEF Positions
  <1> HIDE DEF m
  <1>2. PICK j \in Positions(s) : s[j] = x
    BY DEF Contains
  <1>3. to(j) \in Positions(m) /\ m[to(j)] = x
    BY <1>1, <1>2 DEF Positions
  <1>4. QED
    BY <1>3 DEF Contains, m
=============================================================================
