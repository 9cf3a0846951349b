-------------------------- MODULE MailSearchProofs --------------------------
(***************************************************************************)
(* Proofs about MailSearch: search_emails answers the newest mail of every *)
(* thread of what it has read, and the tools answer what was asked for.    *)
(*                                                                         *)
(* Both are first facts about sorting, about the loop that fills           *)
(* unique_threads and about slicing, for lists of every length; an         *)
(* invariant of the search then relates what was read to the mailbox.      *)
(***************************************************************************)
EXTENDS MailSearch, FiniteSetTheorems, SequenceTheorems, WellFoundedInduction, TLAPS


-----------------------------------------------------------------------------
(* Sorting.                                                                *)

\* In a finite set that upTo orders totally an element has its own rank, the
\* ranks are the numbers up to the size of the set, and they follow the order.
LEMMA Ranks ==
    ASSUME NEW places, IsFiniteSet(places), NEW upTo \in [places -> SUBSET places],
           \A i \in places : i \in upTo[i],
           \A i, j \in places : i \in upTo[j] \/ j \in upTo[i],
           \A i, j \in places : i \in upTo[j] /\ j \in upTo[i] => i = j,
           \A i, j \in places : i \in upTo[j] => upTo[i] \subseteq upTo[j]
    PROVE  /\ \A i \in places : Cardinality(upTo[i]) \in 1 .. Cardinality(places)
           /\ \A k \in 1 .. Cardinality(places) :
                 \E i \in places : Cardinality(upTo[i]) = k
           /\ \A i, j \in places :
                 Cardinality(upTo[i]) = Cardinality(upTo[j]) => i = j
           /\ \A i, j \in places :
                 Cardinality(upTo[i]) < Cardinality(upTo[j]) => i \in upTo[j]
<1> DEFINE n == Cardinality(places)
           rank == [i \in places |-> Cardinality(upTo[i])]
<1>1. n \in Nat
  BY FS_CardinalityType
<1>2. \A i \in places : /\ IsFiniteSet(upTo[i])
                        /\ Cardinality(upTo[i]) \in 1 .. n
  <2> TAKE i \in places
  <2>1. upTo[i] \in SUBSET places
    OBVIOUS
  <2>2. IsFiniteSet(upTo[i]) /\ Cardinality(upTo[i]) <= n
    BY <2>1, FS_Subset
  <2>3. Cardinality(upTo[i]) \in Nat
    BY <2>2, FS_CardinalityType
  <2>4. Cardinality(upTo[i]) # 0
    BY <2>2, FS_EmptySet
  <2> QED BY <1>1, <2>2, <2>3, <2>4
<1>3. ASSUME NEW i \in places, NEW j \in places,
             i \in upTo[j], Cardinality(upTo[i]) >= Cardinality(upTo[j])
      PROVE  i = j
  <2>1. upTo[i] \in SUBSET upTo[j]
    BY <1>3
  <2>2. /\ Cardinality(upTo[i]) <= Cardinality(upTo[j])
        /\ Cardinality(upTo[j]) = Cardinality(upTo[i]) => upTo[j] = upTo[i]
    BY <1>2, <2>1, FS_Subset
  <2>3. upTo[j] = upTo[i]
    BY <1>2, <1>3, <2>2
  <2> QED BY <1>3, <2>3
<1>4. \A i, j \in places : Cardinality(upTo[i]) = Cardinality(upTo[j]) => i = j
  <2> TAKE i, j \in places
  <2> HAVE Cardinality(upTo[i]) = Cardinality(upTo[j])
  <2>1. Cardinality(upTo[i]) >= Cardinality(upTo[j]) /\ Cardinality(upTo[j]) >= Cardinality(upTo[i])
    BY <1>2
  <2> QED BY <1>3, <2>1
<1>5. \A i, j \in places :
         Cardinality(upTo[i]) < Cardinality(upTo[j]) => i \in upTo[j]
  <2> TAKE i, j \in places
  <2> HAVE Cardinality(upTo[i]) < Cardinality(upTo[j])
  <2>1. CASE i \in upTo[j]
    BY <2>1
  <2>2. CASE j \in upTo[i]
    <3>1. Cardinality(upTo[j]) >= Cardinality(upTo[i])
      BY <1>2
    <3>2. i = j
      BY <1>3, <2>2, <3>1
    <3> QED BY <3>2
  <2> QED BY <2>1, <2>2
<1>6. rank \in Injection(places, 1 .. n)
  BY <1>2, <1>4 DEF Injection, IsInjective
<1>7. IsFiniteSet(1 .. n) /\ Cardinality(1 .. n) = n
  BY <1>1, FS_Interval
<1>8. rank \in Surjection(places, 1 .. n)
  <2> HIDE DEF rank
  <2> QED BY <1>6, <1>7, FS_Injection
<1>9. \A k \in 1 .. n : \E i \in places : Cardinality(upTo[i]) = k
  BY <1>8 DEF Surjection
<1> QED BY <1>2, <1>4, <1>5, <1>9

Scopes == {"received", "sent"}

\* A time that is missing is a number too, below all times.
LEMMA StampType ==
    ASSUME NEW scope \in Scopes, NEW m \in Mails
    PROVE  Stamp(scope, m) \in Int
<1>1. ASSUME NEW x \in Mail
      PROVE  /\ x.received \in Nat \cup {None} /\ x.sent \in Nat \cup {None}
             /\ InKst(x).received \in Nat \cup {None}
             /\ InKst(x).sent \in Nat \cup {None}
  BY MailAssumption, NoneAssumption DEF InKst
<1>2. m.received \in Nat \cup {None} /\ m.sent \in Nat \cup {None}
  BY <1>1 DEF Mails
<1> QED BY <1>2, NoneAssumption DEF Stamp, Scopes

\* `result` holds the elements of s at the places, one for one, as p says.
Arranges(p, places, s, result) ==
    /\ p \in [1 .. Cardinality(places) -> places]
    /\ \A i \in places : \E k \in 1 .. Cardinality(places) : p[k] = i
    /\ \A k, l \in 1 .. Cardinality(places) : p[k] = p[l] => k = l
    /\ result = [k \in 1 .. Cardinality(places) |-> s[p[k]]]

\* A list sorted oldest first is a rearrangement whose stamps never fall.
LEMMA OldestFirstFacts ==
    ASSUME NEW scope \in Scopes, NEW s \in Seq(Mails)
    PROVE  \E p : /\ Arranges(p, DOMAIN s, s, OldestFirst(scope)[s])
                  /\ \A k, l \in 1 .. Cardinality(DOMAIN s) :
                        k < l => Stamp(scope, s[p[k]]) <= Stamp(scope, s[p[l]])
<1> DEFINE At(i) == Stamp(scope, s[i])
           places == DOMAIN s
           upTo == [i \in places |->
                       {j \in places : At(j) < At(i) \/ (At(j) = At(i) /\ j <= i)}]
           n == Cardinality(places)
           p == [k \in 1 .. n |->
                    CHOOSE i \in places :
                        Cardinality({j \in places : At(j) < At(i) \/ (At(j) = At(i) /\ j <= i)}) = k]
<1>1. places = 1 .. Len(s) /\ Len(s) \in Nat /\ IsFiniteSet(places)
  BY FS_Interval
<1>2. \A i \in places : At(i) \in Int
  BY <1>1, StampType
<1>3. upTo \in [places -> SUBSET places]
  OBVIOUS
<1>4. /\ \A i \in places : i \in upTo[i]
      /\ \A i, j \in places : i \in upTo[j] \/ j \in upTo[i]
      /\ \A i, j \in places : i \in upTo[j] /\ j \in upTo[i] => i = j
  <2> HIDE DEF At
  <2> QED BY <1>1, <1>2
<1>5. \A i, j \in places : i \in upTo[j] => upTo[i] \subseteq upTo[j]
  <2> HIDE DEF At
  <2> QED BY <1>1, <1>2
<1>6. /\ \A i \in places : Cardinality(upTo[i]) \in 1 .. n
      /\ \A k \in 1 .. n : \E i \in places : Cardinality(upTo[i]) = k
      /\ \A i, j \in places : Cardinality(upTo[i]) = Cardinality(upTo[j]) => i = j
      /\ \A i, j \in places :
            Cardinality(upTo[i]) < Cardinality(upTo[j]) => i \in upTo[j]
  <2>1. IsFiniteSet(places)
    BY <1>1
  <2> HIDE DEF upTo, places
  <2> QED BY <2>1, <1>3, <1>4, <1>5, Ranks
<1>7. \A k \in 1 .. n : p[k] \in places /\ Cardinality(upTo[p[k]]) = k
  <2> TAKE k \in 1 .. n
  <2>1. \E i \in places : Cardinality({j \in places : At(j) < At(i) \/ (At(j) = At(i) /\ j <= i)}) = k
    <3>1. PICK i \in places : Cardinality(upTo[i]) = k
      BY <1>6
    <3> QED BY <3>1
  <2> QED BY <2>1
<1>8. OldestFirst(scope)[s] = [k \in 1 .. n |-> s[p[k]]]
  BY DEF OldestFirst, Arranged
<1>9. Arranges(p, places, s, OldestFirst(scope)[s])
  <2> HIDE DEF p, upTo, places
  <2>1. p \in [1 .. n -> places]
    BY <1>7 DEF p
  <2> QED BY <1>6, <1>7, <1>8, <2>1 DEF Arranges
<1>10. \A k, l \in 1 .. n : k < l => At(p[k]) <= At(p[l])
  <2> TAKE k, l \in 1 .. n
  <2> HAVE k < l
  <2>1. p[k] \in upTo[p[l]]
    <3> HIDE DEF p, upTo
    <3> QED BY <1>6, <1>7
  <2>2. At(p[k]) < At(p[l]) \/ At(p[k]) = At(p[l])
    <3> HIDE DEF p, At
    <3> QED BY <1>7, <2>1
  <2>3. At(p[k]) \in Int /\ At(p[l]) \in Int
    BY <1>2, <1>7
  <2> HIDE DEF p, At
  <2> QED BY <2>2, <2>3
<1> HIDE DEF p
<1> QED BY <1>9, <1>10

\* A list sorted newest first is a rearrangement whose stamps never rise.
LEMMA NewestFirstFacts ==
    ASSUME NEW scope \in Scopes, NEW s \in Seq(Mails)
    PROVE  \E p : /\ Arranges(p, DOMAIN s, s, NewestFirst(scope)[s])
                  /\ \A k, l \in 1 .. Cardinality(DOMAIN s) :
                        k < l => Stamp(scope, s[p[k]]) >= Stamp(scope, s[p[l]])
<1> DEFINE At(i) == Stamp(scope, s[i])
           places == DOMAIN s
           upTo == [i \in places |->
                       {j \in places : At(j) > At(i) \/ (At(j) = At(i) /\ j <= i)}]
           n == Cardinality(places)
           p == [k \in 1 .. n |->
                    CHOOSE i \in places :
                        Cardinality({j \in places : At(j) > At(i) \/ (At(j) = At(i) /\ j <= i)}) = k]
<1>1. places = 1 .. Len(s) /\ Len(s) \in Nat /\ IsFiniteSet(places)
  BY FS_Interval
<1>2. \A i \in places : At(i) \in Int
  BY <1>1, StampType
<1>3. upTo \in [places -> SUBSET places]
  OBVIOUS
<1>4. /\ \A i \in places : i \in upTo[i]
      /\ \A i, j \in places : i \in upTo[j] \/ j \in upTo[i]
      /\ \A i, j \in places : i \in upTo[j] /\ j \in upTo[i] => i = j
  <2> HIDE DEF At
  <2> QED BY <1>1, <1>2
<1>5. \A i, j \in places : i \in upTo[j] => upTo[i] \subseteq upTo[j]
  <2> HIDE DEF At
  <2> QED BY <1>1, <1>2
<1>6. /\ \A i \in places : Cardinality(upTo[i]) \in 1 .. n
      /\ \A k \in 1 .. n : \E i \in places : Cardinality(upTo[i]) = k
      /\ \A i, j \in places : Cardinality(upTo[i]) = Cardinality(upTo[j]) => i = j
      /\ \A i, j \in places :
            Cardinality(upTo[i]) < Cardinality(upTo[j]) => i \in upTo[j]
  <2>1. IsFiniteSet(places)
    BY <1>1
  <2> HIDE DEF upTo, places
  <2> QED BY <2>1, <1>3, <1>4, <1>5, Ranks
<1>7. \A k \in 1 .. n : p[k] \in places /\ Cardinality(upTo[p[k]]) = k
  <2> TAKE k \in 1 .. n
  <2>1. \E i \in places : Cardinality({j \in places : At(j) > At(i) \/ (At(j) = At(i) /\ j <= i)}) = k
    <3>1. PICK i \in places : Cardinality(upTo[i]) = k
      BY <1>6
    <3> QED BY <3>1
  <2> QED BY <2>1
<1>8. NewestFirst(scope)[s] = [k \in 1 .. n |-> s[p[k]]]
  BY DEF NewestFirst, Arranged
<1>9. Arranges(p, places, s, NewestFirst(scope)[s])
  <2> HIDE DEF p, upTo, places
  <2>1. p \in [1 .. n -> places]
    BY <1>7 DEF p
  <2> QED BY <1>6, <1>7, <1>8, <2>1 DEF Arranges
<1>10. \A k, l \in 1 .. n : k < l => At(p[k]) >= At(p[l])
  <2> TAKE k, l \in 1 .. n
  <2> HAVE k < l
  <2>1. p[k] \in upTo[p[l]]
    <3> HIDE DEF p, upTo
    <3> QED BY <1>6, <1>7
  <2>2. At(p[k]) > At(p[l]) \/ At(p[k]) = At(p[l])
    <3> HIDE DEF p, At
    <3> QED BY <1>7, <2>1
  <2>3. At(p[k]) \in Int /\ At(p[l]) \in Int
    BY <1>2, <1>7
  <2> HIDE DEF p, At
  <2> QED BY <2>2, <2>3
<1> HIDE DEF p
<1> QED BY <1>9, <1>10

\* Graph finds every hit once, in the order of the mailbox.
LEMMA FoundFacts ==
    ASSUME NEW a, NEW mails, box \in Seq(mails)
    PROVE  LET hits == {i \in DOMAIN box : Finds(a, box[i])} IN
           \E p : /\ Arranges(p, hits, box, Found(a))
                  /\ IsFiniteSet(hits)
                  /\ \A k, l \in 1 .. Cardinality(hits) : k < l => p[k] < p[l]
<1> DEFINE places == {i \in DOMAIN box : Finds(a, box[i])}
           upTo == [i \in places |-> {j \in places : j <= i}]
           n == Cardinality(places)
           p == [k \in 1 .. n |->
                    CHOOSE i \in places : Cardinality({j \in places : j <= i}) = k]
<1>1. places \subseteq 1 .. Len(box) /\ Len(box) \in Nat
  OBVIOUS
<1>2. IsFiniteSet(places)
  BY <1>1, FS_Interval, FS_Subset
<1>3. /\ upTo \in [places -> SUBSET places]
      /\ \A i \in places : i \in upTo[i]
      /\ \A i, j \in places : i \in upTo[j] \/ j \in upTo[i]
      /\ \A i, j \in places : i \in upTo[j] /\ j \in upTo[i] => i = j
      /\ \A i, j \in places : i \in upTo[j] => upTo[i] \subseteq upTo[j]
  <2>1. \A i \in places : i \in Int
    BY <1>1
  <2> HIDE DEF places
  <2>2. upTo \in [places -> SUBSET places]
    OBVIOUS
  <2>3. /\ \A i \in places : i \in upTo[i]
        /\ \A i, j \in places : i \in upTo[j] \/ j \in upTo[i]
        /\ \A i, j \in places : i \in upTo[j] /\ j \in upTo[i] => i = j
    BY <2>1
  <2>4. \A i, j \in places : i \in upTo[j] => upTo[i] \subseteq upTo[j]
    BY <2>1
  <2> QED BY <2>2, <2>3, <2>4
<1>4. /\ \A i \in places : Cardinality(upTo[i]) \in 1 .. n
      /\ \A k \in 1 .. n : \E i \in places : Cardinality(upTo[i]) = k
      /\ \A i, j \in places : Cardinality(upTo[i]) = Cardinality(upTo[j]) => i = j
      /\ \A i, j \in places :
            Cardinality(upTo[i]) < Cardinality(upTo[j]) => i \in upTo[j]
  <2> HIDE DEF upTo, places
  <2> QED BY <1>2, <1>3, Ranks
<1>5. \A k \in 1 .. n : p[k] \in places /\ Cardinality(upTo[p[k]]) = k
  <2> TAKE k \in 1 .. n
  <2>1. \E i \in places : Cardinality({j \in places : j <= i}) = k
    <3>1. PICK i \in places : Cardinality(upTo[i]) = k
      BY <1>4
    <3> QED BY <3>1
  <2> HIDE DEF places
  <2> QED BY <2>1
<1>6. Found(a) = [k \in 1 .. n |-> box[p[k]]]
  BY DEF Found, Arranged
<1>7. Arranges(p, places, box, Found(a))
  <2> HIDE DEF p, upTo, places
  <2>1. p \in [1 .. n -> places]
    BY <1>5 DEF p
  <2> QED BY <1>4, <1>5, <1>6, <2>1 DEF Arranges
<1>8. \A k, l \in 1 .. n : k < l => p[k] < p[l]
  <2> TAKE k, l \in 1 .. n
  <2> HAVE k < l
  <2>1. p[k] \in upTo[p[l]]
    <3> HIDE DEF p, upTo, places
    <3> QED BY <1>4, <1>5
  <2>2. p[k] # p[l]
    <3> HIDE DEF p, upTo, places
    <3> QED BY <1>5
  <2>3. p[k] <= p[l] /\ p[k] \in Int /\ p[l] \in Int
    <3>1. p[k] \in places /\ p[l] \in places
      BY <1>5
    <3>2. \A i \in places : i \in Int
      BY <1>1
    <3> HIDE DEF p, places
    <3> QED BY <2>1, <3>1, <3>2
  <2> HIDE DEF p
  <2> QED BY <2>2, <2>3
<1> HIDE DEF p
<1> QED BY <1>2, <1>7, <1>8

\* r is s, rearranged as p says.
Rearranges(p, s, r) ==
    /\ Cardinality(DOMAIN s) = Len(s)
    /\ p \in [1 .. Len(s) -> 1 .. Len(s)]
    /\ \A i \in 1 .. Len(s) : \E k \in 1 .. Len(s) : p[k] = i
    /\ \A k, l \in 1 .. Len(s) : p[k] = p[l] => k = l
    /\ Len(r) = Len(s)
    /\ \A k \in 1 .. Len(s) : r[k] = s[p[k]]

\* A rearranged sequence is a sequence of the same length and elements.
LEMMA ArrangedSeq ==
    ASSUME NEW S, NEW s \in Seq(S), NEW p, NEW r, Arranges(p, DOMAIN s, s, r)
    PROVE  r \in Seq(S) /\ Rearranges(p, s, r)
<1>1. DOMAIN s = 1 .. Len(s) /\ Len(s) \in Nat /\ Cardinality(1 .. Len(s)) = Len(s)
  <2>1. DOMAIN s = 1 .. Len(s) /\ Len(s) \in Nat
    OBVIOUS
  <2>2. Cardinality(1 .. Len(s)) = IF 1 > Len(s) THEN 0 ELSE Len(s) - 1 + 1
    BY <2>1, FS_Interval
  <2> QED BY <2>1, <2>2
<1>2. /\ p \in [1 .. Len(s) -> 1 .. Len(s)]
      /\ \A i \in 1 .. Len(s) : \E k \in 1 .. Len(s) : p[k] = i
      /\ \A k, l \in 1 .. Len(s) : p[k] = p[l] => k = l
      /\ r = [k \in 1 .. Len(s) |-> s[p[k]]]
  BY <1>1 DEF Arranges
<1>3. \A k \in 1 .. Len(s) : s[p[k]] \in S
  <2> TAKE k \in 1 .. Len(s)
  <2>1. p[k] \in 1 .. Len(s)
    BY <1>2
  <2> QED BY <2>1
<1>4. r \in Seq(S) /\ Len(r) = Len(s)
  BY <1>1, <1>2, <1>3
<1> QED BY <1>1, <1>2, <1>4 DEF Rearranges

-----------------------------------------------------------------------------
(* The loop over the mails.                                                *)

\* Induction over the natural numbers, for a set: a set that holds 0 and with
\* every n also n + 1 holds them all, for a least number outside has a
\* predecessor in it.
LEMMA SetInduction ==
    ASSUME NEW S, 0 \in S, \A n \in Nat : n \in S => n + 1 \in S
    PROVE  Nat \subseteq S
<1> DEFINE T == Nat \ S
           R == {ss \in Nat \X Nat : ss[1] < ss[2]}
<1> SUFFICES ASSUME T # {} PROVE FALSE
  OBVIOUS
<1>1. IsWellFoundedOn(R, Nat)
  BY NatLessThanWellFounded DEF OpToRel
<1>2. \E x \in T : \A y \in T : ~ (<<y, x>> \in R)
  <2>1. T \subseteq Nat
    OBVIOUS
  <2> HIDE DEF R, T
  <2> QED BY <1>1, <2>1, WFMin
<1>3. PICK x \in T : \A y \in T : <<y, x>> \notin R
  BY <1>2
<1>4. x \in Nat /\ x # 0 /\ x - 1 \in Nat
  OBVIOUS
<1>5. x - 1 \in S
  <2>1. <<x - 1, x>> \in R
    BY <1>4
  <2> QED BY <1>3, <1>4, <2>1
<1> QED BY <1>4, <1>5

\* The recursion of a loop over the mails has a solution.
LEMMA LoopRuns ==
    ASSUME NEW mails \in Seq(Mails), NEW step
    PROVE  \E after : after = [n \in 0 .. Len(mails) |->
                                  IF n = 0 THEN <<>> ELSE step[after[n - 1]][mails[n]]]
<1> DEFINE Upto(k) == \E after : after = [n \in 0 .. k |->
                           IF n = 0 THEN <<>> ELSE step[after[n - 1]][mails[n]]]
           S == {k \in Nat : Upto(k)}
<1>1. 0 \in S
  <2>1. [n \in 0 .. 0 |-> <<>>] = [n \in 0 .. 0 |->
           IF n = 0 THEN <<>> ELSE step[[i \in 0 .. 0 |-> <<>>][n - 1]][mails[n]]]
    OBVIOUS
  <2> QED BY <2>1
<1>2. ASSUME NEW k \in Nat, k \in S PROVE k + 1 \in S
  <2>1. PICK f : f = [n \in 0 .. k |->
                         IF n = 0 THEN <<>> ELSE step[f[n - 1]][mails[n]]]
    BY <1>2
  <2> DEFINE g == [n \in 0 .. k + 1 |->
                      IF n = k + 1 THEN step[f[k]][mails[k + 1]] ELSE f[n]]
  <2>1a. \A n \in 0 .. k : f[n] = IF n = 0 THEN <<>> ELSE step[f[n - 1]][mails[n]]
    BY <2>1, Zenon
  <2>2. \A n \in 0 .. k : g[n] = f[n]
    OBVIOUS
  <2>3. ASSUME NEW n \in 0 .. k + 1
        PROVE  g[n] = IF n = 0 THEN <<>> ELSE step[g[n - 1]][mails[n]]
    <3>1. CASE n = k + 1
      <4>1. g[n] = step[f[k]][mails[k + 1]] /\ n # 0 /\ n - 1 = k
        BY <3>1
      <4>2. g[k] = f[k]
        BY <2>2
      <4> HIDE DEF g
      <4> QED BY <4>1, <4>2, <3>1
    <3>2. CASE n = 0
      BY <3>2, <2>1
    <3>3. CASE n \in 1 .. k
      <4>1. n # 0 /\ n \in 0 .. k /\ n - 1 \in 0 .. k
        BY <3>3
      <4> HIDE DEF g
      <4>2. g[n] = f[n] /\ g[n - 1] = f[n - 1]
        BY <2>2, <4>1, Zenon
      <4>3. f[n] = IF n = 0 THEN <<>> ELSE step[f[n - 1]][mails[n]]
        BY <2>1a, <4>1, Zenon
      <4>4. f[n] = step[f[n - 1]][mails[n]]
        BY <4>1, <4>3
      <4>5. g[n] = step[g[n - 1]][mails[n]]
        BY <4>2, <4>4
      <4> QED BY <4>1, <4>5
    <3>4. n = k + 1 \/ n = 0 \/ n \in 1 .. k
      <4> HIDE DEF g
      <4> QED OBVIOUS
    <3> HIDE DEF g
    <3> QED BY <3>1, <3>2, <3>3, <3>4, Zenon
  <2>4. g = [n \in 0 .. k + 1 |-> IF n = 0 THEN <<>> ELSE step[g[n - 1]][mails[n]]]
    <3>1. g = [n \in 0 .. k + 1 |-> g[n]]
      OBVIOUS
    <3> HIDE DEF g
    <3> QED BY <2>3, <3>1
  <2>5. Upto(k + 1)
    <3> HIDE DEF g
    <3> QED BY <2>4
  <2> HIDE DEF Upto
  <2> QED BY <2>5
<1> HIDE DEF Upto
<1>3. Nat \subseteq S
  <2> HIDE DEF S
  <2> QED BY <1>1, <1>2, SetInduction
<1>4. Upto(Len(mails))
  BY <1>3
<1> QED BY <1>4 DEF Upto

\* The rule for the loop of search_emails: what is so of the empty dict and is
\* kept by every unique_threads[key] = mail is so at its end.
LEMMA LoopRule ==
    ASSUME NEW mails \in Seq(Mails),
           NEW I \in [0 .. Len(mails) -> SUBSET Seq(Mails)],
           <<>> \in I[0],
           \A n \in 1 .. Len(mails) : \A threads \in I[n - 1] :
               Put(threads, mails[n]) \in I[n]
    PROVE  UniqueThreads[mails] \in I[Len(mails)]
<1> DEFINE step == [threads \in Seq(Mails) |-> [m \in Mails |-> Put(threads, m)]]
           Runs(f) == f = [n \in 0 .. Len(mails) |->
                          IF n = 0 THEN <<>> ELSE step[f[n - 1]][mails[n]]]
           after == CHOOSE f : Runs(f)
           S == {k \in Nat : k <= Len(mails) => after[k] \in I[k]}
<1>1. UniqueThreads[mails] = after[Len(mails)]
  BY DEF UniqueThreads
<1>2. \A t \in Seq(Mails), m \in Mails : step[t][m] = Put(t, m)
  OBVIOUS
<1> HIDE DEF step
<1>3. after = [n \in 0 .. Len(mails) |->
                  IF n = 0 THEN <<>> ELSE step[after[n - 1]][mails[n]]]
  <2>1. \E f : Runs(f)
    BY LoopRuns, SMTT(30)
  <2>2. Runs(after)
    <3> HIDE DEF Runs
    <3> QED BY <2>1
  <2> HIDE DEF after
  <2> QED BY <2>2
<1> HIDE DEF after
<1>4. /\ after[0] = <<>>
      /\ \A n \in 1 .. Len(mails) : after[n] = step[after[n - 1]][mails[n]]
  <2>1. \A n \in 0 .. Len(mails) :
           after[n] = IF n = 0 THEN <<>> ELSE step[after[n - 1]][mails[n]]
    BY <1>3, Zenon
  <2>2. 0 \in 0 .. Len(mails) /\ \A n \in 1 .. Len(mails) : n \in 0 .. Len(mails) /\ n # 0
    OBVIOUS
  <2> QED BY <2>1, <2>2, Zenon
<1>5. 0 \in S
  BY <1>4
<1>6. ASSUME NEW k \in Nat, k \in S PROVE k + 1 \in S
  <2> SUFFICES ASSUME k + 1 <= Len(mails) PROVE after[k + 1] \in I[k + 1]
    BY <1>6
  <2>1. after[k] \in I[k] /\ after[k] \in Seq(Mails)
    BY <1>6
  <2>2. mails[k + 1] \in Mails /\ k + 1 \in 1 .. Len(mails) /\ (k + 1) - 1 = k
    OBVIOUS
  <2>3. after[k + 1] = Put(after[k], mails[k + 1])
    <3>1. after[k + 1] = step[after[(k + 1) - 1]][mails[k + 1]]
      BY <1>4, <2>2, Zenon
    <3>2. step[after[k]][mails[k + 1]] = Put(after[k], mails[k + 1])
      BY <1>2, <2>1, <2>2, Zenon
    <3> QED BY <2>2, <3>1, <3>2, Zenon
  <2> QED BY <2>1, <2>2, <2>3
<1>7. Nat \subseteq S
  <2> HIDE DEF S
  <2> QED BY <1>5, <1>6, SetInduction
<1> QED BY <1>1, <1>7

\* unique_threads[key] = mail overwrites the mail of the key or appends it.
LEMMA PutFacts ==
    ASSUME NEW t \in Seq(Mails), NEW m \in Mails
    PROVE  /\ Put(t, m) \in Seq(Mails)
           /\ \/ /\ \E i \in DOMAIN t : Thread(t[i]) = Thread(m)
                 /\ DOMAIN Put(t, m) = DOMAIN t
                 /\ \A i \in DOMAIN t :
                       Put(t, m)[i] = IF Thread(t[i]) = Thread(m) THEN m ELSE t[i]
              \/ /\ \A i \in DOMAIN t : Thread(t[i]) # Thread(m)
                 /\ DOMAIN Put(t, m) = 1 .. Len(t) + 1
                 /\ \A i \in DOMAIN t : Put(t, m)[i] = t[i]
                 /\ Put(t, m)[Len(t) + 1] = m
<1>1. CASE \E x \in Range(t) : Thread(x) = Thread(m)
  BY <1>1 DEF Put, Range
<1>2. CASE ~ \E x \in Range(t) : Thread(x) = Thread(m)
  BY <1>2 DEF Put, Range
<1> QED BY <1>1, <1>2

\* t holds of the first n mails of o the newest of every thread, once.
HoldsNewest(t, o, n, scope) ==
    /\ \A i \in DOMAIN t : \E k \in 1 .. n : t[i] = o[k]
    /\ \A i, j \in DOMAIN t : Thread(t[i]) = Thread(t[j]) => i = j
    /\ \A k \in 1 .. n : \E i \in DOMAIN t :
          Thread(t[i]) = Thread(o[k]) /\ Stamp(scope, o[k]) <= Stamp(scope, t[i])

\* A mail that is not older than those before it takes over its thread.
LEMMA PutHoldsNewest ==
    ASSUME NEW scope \in Scopes, NEW o \in Seq(Mails), NEW n \in 1 .. Len(o),
           \A k \in 1 .. n : Stamp(scope, o[k]) <= Stamp(scope, o[n]),
           NEW t \in Seq(Mails), HoldsNewest(t, o, n - 1, scope)
    PROVE  HoldsNewest(Put(t, o[n]), o, n, scope)
<1> DEFINE m == o[n]
           u == Put(t, m)
<1>1. m \in Mails /\ Len(t) \in Nat /\ DOMAIN t = 1 .. Len(t) /\ n \in Nat
  OBVIOUS
<1>2. \A i \in DOMAIN t : Stamp(scope, t[i]) \in Int
  BY StampType
<1>3. \A k \in 1 .. n : Stamp(scope, o[k]) \in Int
  <2> TAKE k \in 1 .. n
  <2>1. o[k] \in Mails
    OBVIOUS
  <2> QED BY <2>1, StampType
<1>4. /\ \A i \in DOMAIN t : \E k \in 1 .. n - 1 : t[i] = o[k]
      /\ \A i, j \in DOMAIN t : Thread(t[i]) = Thread(t[j]) => i = j
      /\ \A k \in 1 .. n - 1 : \E i \in DOMAIN t :
            Thread(t[i]) = Thread(o[k]) /\ Stamp(scope, o[k]) <= Stamp(scope, t[i])
  BY DEF HoldsNewest
<1>5. CASE /\ \E i \in DOMAIN t : Thread(t[i]) = Thread(m)
           /\ DOMAIN u = DOMAIN t
           /\ \A i \in DOMAIN t : u[i] = IF Thread(t[i]) = Thread(m) THEN m ELSE t[i]
  <2> HIDE DEF u
  <2>1. \A i \in DOMAIN u : \E k \in 1 .. n : u[i] = o[k]
    <3> TAKE i \in DOMAIN u
    <3>1. n \in 1 .. n /\ 1 .. n - 1 \subseteq 1 .. n
      BY <1>1
    <3>2. i \in DOMAIN t /\ (u[i] = o[n] \/ u[i] = t[i])
      BY <1>5
    <3>3. PICK k \in 1 .. n - 1 : t[i] = o[k]
      BY <1>4, <3>2
    <3> QED BY <3>1, <3>2, <3>3
  <2>2. \A i \in DOMAIN t : Thread(u[i]) = Thread(t[i])
    BY <1>5
  <2>3. \A i, j \in DOMAIN u : Thread(u[i]) = Thread(u[j]) => i = j
    BY <1>4, <1>5, <2>2
  <2>4. ASSUME NEW k \in 1 .. n
        PROVE  \E i \in DOMAIN u :
                  Thread(u[i]) = Thread(o[k]) /\ Stamp(scope, o[k]) <= Stamp(scope, u[i])
    <3>1. PICK i \in DOMAIN t : Thread(t[i]) = Thread(m)
      BY <1>5
    <3>2. CASE Thread(o[k]) = Thread(m)
      BY <1>5, <3>1, <3>2
    <3>3. CASE Thread(o[k]) # Thread(m)
      <4>1. k \in 1 .. n - 1
        BY <1>1, <3>3
      <4>2. PICK j \in DOMAIN t : Thread(t[j]) = Thread(o[k]) /\ Stamp(scope, o[k]) <= Stamp(scope, t[j])
        BY <1>4, <4>1
      <4>3. u[j] = t[j] /\ j \in DOMAIN u
        BY <1>5, <3>3, <4>2
      <4> QED BY <4>2, <4>3
    <3> QED BY <3>2, <3>3
  <2> QED BY <2>1, <2>3, <2>4 DEF HoldsNewest, u
<1>6. CASE /\ \A i \in DOMAIN t : Thread(t[i]) # Thread(m)
           /\ DOMAIN u = 1 .. Len(t) + 1
           /\ \A i \in DOMAIN t : u[i] = t[i]
           /\ u[Len(t) + 1] = m
  <2> HIDE DEF u
  <2>1. \A i \in DOMAIN u : i \in DOMAIN t \/ i = Len(t) + 1
    BY <1>1, <1>6
  <2>2. \A i \in DOMAIN u : \E k \in 1 .. n : u[i] = o[k]
    <3> TAKE i \in DOMAIN u
    <3>1. n \in 1 .. n /\ 1 .. n - 1 \subseteq 1 .. n
      BY <1>1
    <3>2. CASE i = Len(t) + 1
      BY <1>6, <3>1, <3>2
    <3>3. CASE i \in DOMAIN t
      <4>1. PICK k \in 1 .. n - 1 : t[i] = o[k]
        BY <1>4, <3>3
      <4> QED BY <1>6, <3>1, <3>3, <4>1
    <3> QED BY <2>1, <3>2, <3>3
  <2>3. \A i, j \in DOMAIN u : Thread(u[i]) = Thread(u[j]) => i = j
    BY <1>4, <1>6, <2>1
  <2>4. ASSUME NEW k \in 1 .. n
        PROVE  \E i \in DOMAIN u :
                  Thread(u[i]) = Thread(o[k]) /\ Stamp(scope, o[k]) <= Stamp(scope, u[i])
    <3>1. CASE k = n
      <4>1. Len(t) + 1 \in DOMAIN u
        BY <1>1, <1>6
      <4> QED BY <1>3, <1>6, <3>1, <4>1
    <3>2. CASE k \in 1 .. n - 1
      <4>1. PICK j \in DOMAIN t : Thread(t[j]) = Thread(o[k]) /\ Stamp(scope, o[k]) <= Stamp(scope, t[j])
        BY <1>4, <3>2
      <4>2. u[j] = t[j] /\ j \in DOMAIN u
        BY <1>1, <1>6
      <4> QED BY <4>1, <4>2
    <3> QED BY <3>1, <3>2
  <2> QED BY <2>2, <2>3, <2>4 DEF HoldsNewest, u
<1>7. \/ /\ \E i \in DOMAIN t : Thread(t[i]) = Thread(m)
         /\ DOMAIN u = DOMAIN t
         /\ \A i \in DOMAIN t : u[i] = IF Thread(t[i]) = Thread(m) THEN m ELSE t[i]
      \/ /\ \A i \in DOMAIN t : Thread(t[i]) # Thread(m)
         /\ DOMAIN u = 1 .. Len(t) + 1
         /\ \A i \in DOMAIN t : u[i] = t[i]
         /\ u[Len(t) + 1] = m
  BY <1>1, PutFacts
<1> HIDE DEF u
<1> QED BY <1>5, <1>6, <1>7 DEF u

\* Of a list sorted oldest first the dict holds the newest of every thread.
LEMMA UniqueThreadsFacts ==
    ASSUME NEW scope \in Scopes, NEW o \in Seq(Mails),
           \A k, l \in 1 .. Len(o) : k < l => Stamp(scope, o[k]) <= Stamp(scope, o[l])
    PROVE  /\ UniqueThreads[o] \in Seq(Mails)
           /\ HoldsNewest(UniqueThreads[o], o, Len(o), scope)
<1> DEFINE I == [n \in 0 .. Len(o) |-> {t \in Seq(Mails) : HoldsNewest(t, o, n, scope)}]
<1>1. I \in [0 .. Len(o) -> SUBSET Seq(Mails)]
  OBVIOUS
<1>2. <<>> \in I[0]
  BY DEF HoldsNewest
<1>3. ASSUME NEW n \in 1 .. Len(o), NEW t \in I[n - 1]
      PROVE  Put(t, o[n]) \in I[n]
  <2>1. t \in Seq(Mails) /\ HoldsNewest(t, o, n - 1, scope)
    OBVIOUS
  <2>2. o[n] \in Mails /\ Stamp(scope, o[n]) \in Int
    BY StampType
  <2>3. \A k \in 1 .. n : Stamp(scope, o[k]) <= Stamp(scope, o[n])
    BY <2>2
  <2>4. HoldsNewest(Put(t, o[n]), o, n, scope)
    BY <2>1, <2>3, PutHoldsNewest
  <2>5. Put(t, o[n]) \in Seq(Mails)
    BY <2>1, <2>2, PutFacts
  <2> QED BY <2>4, <2>5
<1>4. UniqueThreads[o] \in I[Len(o)]
  <2> HIDE DEF I
  <2> QED BY <1>1, <1>2, <1>3, LoopRule
<1> QED BY <1>4

-----------------------------------------------------------------------------
(* What search_emails answers of the mails it has read.                    *)

\* The lesser of two numbers.
LEMMA MinOfTwo ==
    ASSUME NEW a \in Int, NEW b \in Int
    PROVE  Min({a, b}) = IF a <= b THEN a ELSE b
<1>1. CASE a <= b
  BY <1>1 DEF Min
<1>2. CASE ~(a <= b)
  BY <1>2 DEF Min
<1> QED BY <1>1, <1>2

\* The greater of two numbers.
LEMMA MaxOfTwo ==
    ASSUME NEW a \in Int, NEW b \in Int
    PROVE  Max({a, b}) = IF a >= b THEN a ELSE b
<1>1. CASE a >= b
  BY <1>1 DEF Max
<1>2. CASE ~(a >= b)
  BY <1>2 DEF Max
<1> QED BY <1>1, <1>2

\* A slice [:k] is a prefix, of k elements if there are so many and k is none
\* that counts from the end.
LEMMA CutFacts ==
    ASSUME NEW S, NEW s \in Seq(S), NEW k \in Int
    PROVE  /\ Cut(s, k) \in Seq(S)
           /\ Len(Cut(s, k)) \in 0 .. Len(s)
           /\ \A i \in 1 .. Len(Cut(s, k)) : Cut(s, k)[i] = s[i]
           /\ k >= 0 => Len(Cut(s, k)) = Min({k, Len(s)})
<1> DEFINE c == IF k >= 0 THEN Min({k, Len(s)}) ELSE Max({Len(s) + k, 0})
<1>1. c \in 0 .. Len(s)
  BY MinOfTwo, MaxOfTwo
<1>2. Cut(s, k) = SubSeq(s, 1, c)
  BY DEF Cut
<1>3. k >= 0 => c = Min({k, Len(s)})
  OBVIOUS
<1> HIDE DEF c
<1> QED BY <1>1, <1>2, <1>3

\* r answers of the mails of ms what NewestOfEachThread says.
AnswersNewest(r, ms, scope, top_k) ==
    /\ \A i \in DOMAIN r : \E k \in DOMAIN ms : r[i] = ms[k]
    /\ \A i, j \in DOMAIN r : i < j =>
          /\ Thread(r[i]) # Thread(r[j])
          /\ Stamp(scope, r[i]) >= Stamp(scope, r[j])
    /\ \A k \in DOMAIN ms, i \in DOMAIN r :
          Stamp(scope, ms[k]) > Stamp(scope, r[i]) =>
              \E j \in 1 .. i - 1 : Thread(r[j]) = Thread(ms[k])
    /\ top_k >= 0 =>
          Len(r) = Min({top_k, Cardinality({Thread(ms[k]) : k \in DOMAIN ms})})

\* search_emails answers, of whatever pages it has read, the newest mail of
\* every thread.
LEMMA ResultFacts ==
    ASSUME NEW scope \in Scopes, NEW ms \in Seq(Mails), NEW top_k \in Int
    PROVE  /\ Result(scope, ms, top_k) \in Seq(Mails)
           /\ AnswersNewest(Result(scope, ms, top_k), ms, scope, top_k)
<1> DEFINE o == OldestFirst(scope)[ms]
           u == UniqueThreads[o]
           w == NewestFirst(scope)[u]
           r == Result(scope, ms, top_k)
           threads == {Thread(ms[k]) : k \in DOMAIN ms}
<1>1. PICK p : /\ Arranges(p, DOMAIN ms, ms, o)
               /\ \A k, l \in 1 .. Cardinality(DOMAIN ms) :
                     k < l => Stamp(scope, ms[p[k]]) <= Stamp(scope, ms[p[l]])
  BY OldestFirstFacts
<1>2. /\ Cardinality(DOMAIN ms) = Len(ms)
      /\ p \in [1 .. Len(ms) -> 1 .. Len(ms)]
      /\ \A i \in 1 .. Len(ms) : \E k \in 1 .. Len(ms) : p[k] = i
      /\ o \in Seq(Mails) /\ Len(o) = Len(ms)
      /\ \A k \in 1 .. Len(ms) : o[k] = ms[p[k]]
  <2>1. Arranges(p, DOMAIN ms, ms, o)
    BY <1>1
  <2> HIDE DEF o
  <2>2. o \in Seq(Mails) /\ Rearranges(p, ms, o)
    BY <2>1, ArrangedSeq
  <2> QED BY <2>2 DEF Rearranges
<1> HIDE DEF o
<1>3. \A k, l \in 1 .. Len(o) : k < l => Stamp(scope, o[k]) <= Stamp(scope, o[l])
  <2> TAKE k, l \in 1 .. Len(o)
  <2> HAVE k < l
  <2>1. /\ k \in 1 .. Cardinality(DOMAIN ms) /\ o[k] = ms[p[k]]
        /\ l \in 1 .. Cardinality(DOMAIN ms) /\ o[l] = ms[p[l]]
    BY <1>2
  <2> QED BY <1>1, <2>1
<1>4. u \in Seq(Mails) /\ HoldsNewest(u, o, Len(o), scope)
  BY <1>2, <1>3, UniqueThreadsFacts
<1> HIDE DEF u
<1>5. PICK q : /\ Arranges(q, DOMAIN u, u, w)
               /\ \A k, l \in 1 .. Cardinality(DOMAIN u) :
                     k < l => Stamp(scope, u[q[k]]) >= Stamp(scope, u[q[l]])
  BY <1>4, NewestFirstFacts
<1>6. /\ Cardinality(DOMAIN u) = Len(u)
      /\ q \in [1 .. Len(u) -> 1 .. Len(u)]
      /\ \A i \in 1 .. Len(u) : \E k \in 1 .. Len(u) : q[k] = i
      /\ \A k, l \in 1 .. Len(u) : q[k] = q[l] => k = l
      /\ w \in Seq(Mails) /\ Len(w) = Len(u)
      /\ \A k \in 1 .. Len(u) : w[k] = u[q[k]]
  <2>1. Arranges(q, DOMAIN u, u, w)
    BY <1>5
  <2>2. u \in Seq(Mails)
    BY <1>4
  <2> HIDE DEF w
  <2>3. w \in Seq(Mails) /\ Rearranges(q, u, w)
    BY <2>1, <2>2, ArrangedSeq
  <2> QED BY <2>3 DEF Rearranges
<1> HIDE DEF w
<1>7. /\ r \in Seq(Mails)
      /\ Len(r) \in 0 .. Len(w)
      /\ \A i \in 1 .. Len(r) : r[i] = w[i]
      /\ top_k >= 0 => Len(r) = Min({top_k, Len(w)})
  <2>1. r = Cut(w, top_k)
    BY DEF Result, w, u, o
  <2> HIDE DEF r
  <2>2. /\ Cut(w, top_k) \in Seq(Mails)
        /\ Len(Cut(w, top_k)) \in 0 .. Len(w)
        /\ \A i \in 1 .. Len(Cut(w, top_k)) : Cut(w, top_k)[i] = w[i]
        /\ top_k >= 0 => Len(Cut(w, top_k)) = Min({top_k, Len(w)})
    BY <1>6, CutFacts
  <2> QED BY <2>1, <2>2
<1> HIDE DEF r
\* What w holds.
<1>8. DOMAIN w = 1 .. Len(u) /\ DOMAIN u = 1 .. Len(u) /\ DOMAIN ms = 1 .. Len(ms)
      /\ DOMAIN r = 1 .. Len(r) /\ DOMAIN r \subseteq DOMAIN w /\ Len(w) \in Nat
  BY <1>4, <1>6, <1>7
<1>9. \A i \in DOMAIN w : \E k \in DOMAIN ms : w[i] = ms[k]
  <2> TAKE i \in DOMAIN w
  <2>1. q[i] \in 1 .. Len(u) /\ w[i] = u[q[i]]
    BY <1>6, <1>8
  <2>2. PICK k \in 1 .. Len(o) : u[q[i]] = o[k]
    BY <1>4, <1>8, <2>1 DEF HoldsNewest
  <2>3. p[k] \in DOMAIN ms /\ o[k] = ms[p[k]]
    BY <1>2, <1>8
  <2> QED BY <2>1, <2>2, <2>3
<1>10. \A i, j \in DOMAIN w : Thread(w[i]) = Thread(w[j]) => i = j
  <2> TAKE i, j \in DOMAIN w
  <2> HAVE Thread(w[i]) = Thread(w[j])
  <2>1. /\ q[i] \in 1 .. Len(u) /\ w[i] = u[q[i]]
        /\ q[j] \in 1 .. Len(u) /\ w[j] = u[q[j]]
    BY <1>6, <1>8
  <2>2. q[i] = q[j]
    BY <1>4, <1>8, <2>1 DEF HoldsNewest
  <2> QED BY <1>6, <1>8, <2>2
<1>11. \A i, j \in DOMAIN w : i < j => Stamp(scope, w[i]) >= Stamp(scope, w[j])
  <2> TAKE i, j \in DOMAIN w
  <2> HAVE i < j
  <2>1. /\ i \in 1 .. Cardinality(DOMAIN u) /\ w[i] = u[q[i]]
        /\ j \in 1 .. Cardinality(DOMAIN u) /\ w[j] = u[q[j]]
    BY <1>6, <1>8
  <2> QED BY <1>5, <2>1
<1>12. \A k \in DOMAIN ms : \E j \in DOMAIN w :
          Thread(w[j]) = Thread(ms[k]) /\ Stamp(scope, ms[k]) <= Stamp(scope, w[j])
  <2> TAKE k \in DOMAIN ms
  <2>1. PICK l \in 1 .. Len(o) : o[l] = ms[k]
    BY <1>2, <1>8
  <2>2. PICK i \in DOMAIN u :
           Thread(u[i]) = Thread(o[l]) /\ Stamp(scope, o[l]) <= Stamp(scope, u[i])
    BY <1>4 DEF HoldsNewest
  <2>3. PICK j \in 1 .. Len(u) : q[j] = i
    BY <1>6, <1>8
  <2>4. w[j] = u[i] /\ j \in DOMAIN w
    BY <1>6, <1>8, <2>3
  <2> QED BY <2>1, <2>2, <2>4
<1>13. \A i \in DOMAIN w : Stamp(scope, w[i]) \in Int
  BY <1>6, StampType
<1>14. \A k \in DOMAIN ms : Stamp(scope, ms[k]) \in Int
  BY StampType
<1>15. ASSUME NEW k \in DOMAIN ms, NEW i \in DOMAIN r,
              Stamp(scope, ms[k]) > Stamp(scope, r[i])
       PROVE  \E j \in 1 .. i - 1 : Thread(r[j]) = Thread(ms[k])
  <2>1. PICK j \in DOMAIN w :
           Thread(w[j]) = Thread(ms[k]) /\ Stamp(scope, ms[k]) <= Stamp(scope, w[j])
    BY <1>12
  <2>2. i \in DOMAIN w /\ r[i] = w[i] /\ i \in Nat /\ j \in Nat /\ j >= 1
    BY <1>7, <1>8
  <2>3. Stamp(scope, w[j]) > Stamp(scope, w[i])
    BY <1>13, <1>14, <1>15, <2>1, <2>2
  <2>4. j < i
    <3>1. ~(i < j)
      BY <1>11, <1>13, <2>2, <2>3
    <3>2. i # j
      BY <1>13, <2>2, <2>3
    <3> QED BY <2>2, <3>1, <3>2
  <2>5. j \in 1 .. i - 1 /\ r[j] = w[j]
    BY <1>7, <1>8, <2>2, <2>4
  <2> QED BY <2>1, <2>5
<1>16. Cardinality(threads) = Len(w)
  <2> DEFINE f == [i \in 1 .. Len(w) |-> Thread(w[i])]
  <2>1. f \in [1 .. Len(w) -> threads]
    BY <1>6, <1>8, <1>9
  <2>2. \A t \in threads : \E i \in 1 .. Len(w) : f[i] = t
    BY <1>6, <1>8, <1>12
  <2>3. \A i, j \in 1 .. Len(w) : f[i] = f[j] => i = j
    BY <1>6, <1>8, <1>10
  <2>4. ExistsBijection(1 .. Len(w), threads)
    <3> HIDE DEF f, threads
    <3> QED BY <2>1, <2>2, <2>3
         DEF ExistsBijection, Bijection, Injection, Surjection, IsInjective
  <2> HIDE DEF threads
  <2> QED BY <1>8, <2>4, FS_CountingElements
<1>17. \A i \in DOMAIN r : \E k \in DOMAIN ms : r[i] = ms[k]
  BY <1>7, <1>8, <1>9
<1>18. \A i, j \in DOMAIN r : i < j =>
          Thread(r[i]) # Thread(r[j]) /\ Stamp(scope, r[i]) >= Stamp(scope, r[j])
  <2> TAKE i, j \in DOMAIN r
  <2> HAVE i < j
  <2>1. i \in DOMAIN w /\ j \in DOMAIN w /\ r[i] = w[i] /\ r[j] = w[j] /\ i # j
    BY <1>7, <1>8
  <2> QED BY <1>10, <1>11, <2>1
<1>19. AnswersNewest(r, ms, scope, top_k)
  BY <1>7, <1>15, <1>16, <1>17, <1>18 DEF AnswersNewest
<1> QED BY <1>7, <1>19 DEF r

-----------------------------------------------------------------------------
(* The inductive invariant.                                                *)

TypeOK ==
    /\ pc \in {"idle", "page", "folder", "done"}
    /\ pc # "idle" => ask \in Ask
    /\ box \in Seq(Mail)
    /\ skip \in Nat
    /\ list \in Seq(Mail)
    /\ answer # None => answer \in Seq(Mails)
    /\ changes \in Nat

Page(a) == SubSeq(NewestFirst("received")[Found(a)], 1,
                  Min({NormalizedTopK(a.top_k), Len(Found(a))}))

IsListing == ask.tool = "get_emails_folder"

\* No answer before the end, and none of a request that failed.
NothingYet ==
    /\ pc = "idle" => skip = 0 /\ list = <<>> /\ changes = 0
    /\ pc = "page" => ~IsListing
    /\ pc = "folder" => IsListing /\ changes = 0
    /\ pc # "done" => answer = None

\* The pages of an unchanged mailbox are what was found so far, in order.
FetchedInOrder ==
    (pc = "page" /\ changes = 0) =>
        skip <= Len(Found(ask)) /\ list = SubSeq(Found(ask), 1, skip)

SearchAnswer ==
    (Answered /\ ~IsListing) =>
        /\ answer = Result(Query(ask).scope, Validated(list), ask.top_k)
        /\ changes = 0 => list = Found(ask)

ListingAnswer ==
    (Answered /\ IsListing) =>
        list = Page(ask) /\ answer = Validated(list)

IInv == TypeOK /\ NothingYet /\ FetchedInOrder /\ SearchAnswer /\ ListingAnswer

-----------------------------------------------------------------------------
(* Types.                                                                  *)

\* A mail may be read before or after its times are shifted.
LEMMA MailTypes ==
    /\ \A m \in Mail : InKst(m) \in Mails
    /\ Mail \subseteq Mails
    /\ Seq(Mail) \subseteq Seq(Mails)
<1>1. Mail \subseteq Mails /\ \A m \in Mail : InKst(m) \in Mails
  BY DEF Mails
<1>2. ASSUME NEW s \in Seq(Mail) PROVE s \in Seq(Mails)
  <2> HIDE DEF Mails
  <2> QED BY <1>1
<1> QED BY <1>1, <1>2

\* Reading the mails shifts each and leaves their places.
LEMMA ValidatedType ==
    ASSUME NEW s \in Seq(Mail)
    PROVE  /\ Validated(s) \in Seq(Mails)
           /\ DOMAIN Validated(s) = DOMAIN s
           /\ \A i \in DOMAIN s : Validated(s)[i] = InKst(s[i])
           /\ Len(Validated(s)) = Len(s)
<1>1. \A i \in 1 .. Len(s) : InKst(s[i]) \in Mails
  BY MailTypes
<1>2. Validated(s) = [i \in 1 .. Len(s) |-> InKst(s[i])]
  BY DEF Validated
<1> QED BY <1>1, <1>2

\* Every tool searches by one of the two dates, the folder by receipt.
LEMMA QueryType ==
    ASSUME NEW a \in Ask
    PROVE  /\ Query(a).scope \in Scopes
           /\ Query(a).scope = IF a.tool = "search_sent_mails" THEN "sent" ELSE "received"
<1>1. a.tool \in Tools
  BY AskAssumption
<1> QED BY <1>1 DEF Query, Tools, Scopes, Search, get_recent_emails, get_unread_emails,
      get_important_emails, get_flagged_emails, get_emails_sender, get_emails_cc,
      get_email_attachment, search_recived_mails, search_category_mails,
      search_sent_mails, get_emails_folder

\* What is found is in the mailbox, and every hit of the mailbox is found.
LEMMA FoundType ==
    ASSUME NEW a, box \in Seq(Mail)
    PROVE  /\ Found(a) \in Seq(Mail)
           /\ \A k \in DOMAIN Found(a) :
                 \E i \in DOMAIN box : Found(a)[k] = box[i] /\ Finds(a, box[i])
           /\ \A i \in DOMAIN box : Finds(a, box[i]) =>
                 \E k \in DOMAIN Found(a) : Found(a)[k] = box[i]
<1> DEFINE hits == {i \in DOMAIN box : Finds(a, box[i])}
           n == Cardinality(hits)
<1>1. PICK p : Arranges(p, hits, box, Found(a)) /\ IsFiniteSet(hits)
  BY FoundFacts
<1>2. n \in Nat
  <2> HIDE DEF hits
  <2> QED BY <1>1, FS_CardinalityType
<1>3. /\ p \in [1 .. n -> hits]
      /\ \A i \in hits : \E k \in 1 .. n : p[k] = i
      /\ Found(a) = [k \in 1 .. n |-> box[p[k]]]
  BY <1>1 DEF Arranges
<1>4. \A k \in 1 .. n : p[k] \in DOMAIN box /\ Finds(a, box[p[k]]) /\ box[p[k]] \in Mail
  <2> TAKE k \in 1 .. n
  <2>1. p[k] \in hits
    BY <1>3
  <2> QED BY <2>1
<1>5. Found(a) \in Seq(Mail) /\ DOMAIN Found(a) = 1 .. n
  <2> HIDE DEF n
  <2> QED BY <1>2, <1>3, <1>4
<1>6. ASSUME NEW i \in DOMAIN box, Finds(a, box[i])
      PROVE  \E k \in DOMAIN Found(a) : Found(a)[k] = box[i]
  <2>1. PICK k \in 1 .. n : p[k] = i
    BY <1>3, <1>6
  <2> QED BY <1>3, <1>5, <2>1
<1>7. ASSUME NEW k \in DOMAIN Found(a)
      PROVE  \E i \in DOMAIN box : Found(a)[k] = box[i] /\ Finds(a, box[i])
  <2>1. k \in 1 .. n /\ Found(a)[k] = box[p[k]]
    BY <1>3, <1>5
  <2> QED BY <1>4, <2>1
<1> QED BY <1>5, <1>6, <1>7

\* Mails listed newest first are the same mails.
LEMMA NewestFirstType ==
    ASSUME NEW scope \in Scopes, NEW s \in Seq(Mail)
    PROVE  LET w == NewestFirst(scope)[s] IN
           /\ w \in Seq(Mail)
           /\ Len(w) = Len(s)
           /\ \A k \in DOMAIN w : \E i \in DOMAIN s : w[k] = s[i]
           /\ \A i \in DOMAIN s : \E k \in DOMAIN w : w[k] = s[i]
           /\ \A k, l \in DOMAIN w : k < l => Stamp(scope, w[k]) >= Stamp(scope, w[l])
<1> DEFINE w == NewestFirst(scope)[s]
<1>1. s \in Seq(Mails)
  BY MailTypes
<1>2. PICK p : /\ Arranges(p, DOMAIN s, s, w)
               /\ \A k, l \in 1 .. Cardinality(DOMAIN s) :
                     k < l => Stamp(scope, s[p[k]]) >= Stamp(scope, s[p[l]])
  BY <1>1, NewestFirstFacts
<1> HIDE DEF w
<1>3. /\ Cardinality(DOMAIN s) = Len(s)
      /\ p \in [1 .. Len(s) -> 1 .. Len(s)]
      /\ \A i \in 1 .. Len(s) : \E k \in 1 .. Len(s) : p[k] = i
      /\ w \in Seq(Mail) /\ Len(w) = Len(s)
      /\ \A k \in 1 .. Len(s) : w[k] = s[p[k]]
  <2>1. w \in Seq(Mail) /\ Rearranges(p, s, w)
    BY <1>2, ArrangedSeq
  <2> QED BY <2>1 DEF Rearranges
<1>4. DOMAIN w = 1 .. Len(s) /\ DOMAIN s = 1 .. Len(s)
  BY <1>3
<1>5. \A k \in DOMAIN w : \E i \in DOMAIN s : w[k] = s[i]
  BY <1>3, <1>4
<1>6. \A i \in DOMAIN s : \E k \in DOMAIN w : w[k] = s[i]
  <2> TAKE i \in DOMAIN s
  <2>1. PICK k \in 1 .. Len(s) : p[k] = i
    BY <1>3, <1>4
  <2>2. k \in DOMAIN w /\ w[k] = s[i]
    BY <1>3, <1>4, <2>1
  <2> QED BY <2>2
<1>7. \A k, l \in DOMAIN w : k < l => Stamp(scope, w[k]) >= Stamp(scope, w[l])
  <2> TAKE k, l \in DOMAIN w
  <2> HAVE k < l
  <2>1. /\ k \in 1 .. Cardinality(DOMAIN s) /\ w[k] = s[p[k]]
        /\ l \in 1 .. Cardinality(DOMAIN s) /\ w[l] = s[p[l]]
    BY <1>3, <1>4
  <2> QED BY <1>2, <2>1
<1> QED BY <1>3, <1>5, <1>6, <1>7 DEF w

\* The one page of a listing has at least one mail, if there is any, and at
\* most MaxListed.
LEMMA PageType ==
    ASSUME NEW a \in Ask, box \in Seq(Mail)
    PROVE  /\ Page(a) \in Seq(Mail)
           /\ Len(Page(a)) = Min({NormalizedTopK(a.top_k), Len(Found(a))})
           /\ Len(Page(a)) <= Len(Found(a))
           /\ Len(Page(a)) <= MaxListed
           /\ Len(Found(a)) > 0 => Len(Page(a)) > 0
           /\ \A i \in DOMAIN Page(a) :
                 Page(a)[i] = NewestFirst("received")[Found(a)][i]
<1> DEFINE f == Found(a)
           w == NewestFirst("received")[f]
           n == NormalizedTopK(a.top_k)
           c == Min({n, Len(f)})
<1>1. f \in Seq(Mail) /\ Len(f) \in Nat
  BY FoundType
<1> HIDE DEF f
<1>2. w \in Seq(Mail) /\ Len(w) = Len(f)
  BY <1>1, NewestFirstType DEF Scopes
<1>3. n \in 1 .. MaxListed
  <2>1. a.top_k \in Int
    BY AskAssumption
  <2> QED BY <2>1, MinOfTwo, MaxOfTwo, BoundAssumption DEF NormalizedTopK
<1> HIDE DEF n, w
<1>4. c = IF n <= Len(f) THEN n ELSE Len(f)
  <2>1. n \in Int /\ Len(f) \in Int
    BY <1>1, <1>3
  <2> QED BY <2>1, MinOfTwo
<1>5. c \in 0 .. Len(w) /\ c <= MaxListed /\ (Len(f) > 0 => c > 0)
  BY <1>1, <1>2, <1>3, <1>4, BoundAssumption
<1>6. Page(a) = SubSeq(w, 1, c)
  BY DEF Page, w, n, f
<1> HIDE DEF c
<1>7. SubSeq(w, 1, c) \in Seq(Mail) /\ Len(SubSeq(w, 1, c)) = c
      /\ \A i \in 1 .. c : SubSeq(w, 1, c)[i] = w[i]
  BY <1>2, <1>5
<1>8. Len(Page(a)) = Min({NormalizedTopK(a.top_k), Len(Found(a))})
  BY <1>6, <1>7 DEF c, n, f
<1> QED BY <1>2, <1>5, <1>6, <1>7, <1>8 DEF w, f

-----------------------------------------------------------------------------
(* The invariant is inductive.                                             *)

\* A mailbox and no call.
LEMMA InitIInv == Init => IInv
<1> SUFFICES ASSUME Init PROVE IInv
  OBVIOUS
<1>1. box \in Seq(Mail) /\ pc = "idle" /\ skip = 0 /\ list = <<>> /\ answer = None /\ changes = 0
  BY BoxAssumption DEF Init
<1> QED BY <1>1 DEF IInv, TypeOK, NothingYet, FetchedInOrder, SearchAnswer, ListingAnswer, Answered

\* What was found depends on the call and on the mailbox alone.
LEMMA FoundUnchanged ==
    ASSUME UNCHANGED <<ask, box>>
    PROVE  /\ Found(ask)' = Found(ask)
           /\ Page(ask)' = Page(ask)
           /\ IsListing' = IsListing
           /\ Query(ask)' = Query(ask)
<1>1. Found(ask)' = Found(ask)
  BY DEF Found, Arranged
<1>2. Page(ask)' = Page(ask)
  BY <1>1 DEF Page
<1> QED BY <1>1, <1>2 DEF IsListing

\* A call reads from the first result on.
LEMMA StartKeeps ==
    ASSUME IInv, NEW a \in Ask, Start(a)
    PROVE  IInv'
<1> USE DEF IInv
<1>1. /\ pc = "idle" /\ ask' = a /\ UNCHANGED <<box, skip, list, answer, changes>>
      /\ pc' = IF a.tool = "get_emails_folder" THEN "folder" ELSE "page"
  BY DEF Start
<1>2. skip' = 0 /\ list' = <<>> /\ changes' = 0 /\ answer' = None /\ box' \in Seq(Mail)
  BY <1>1 DEF NothingYet, TypeOK
<1>3. TypeOK'
  BY <1>1, <1>2 DEF TypeOK
<1>4. NothingYet'
  BY <1>1, <1>2 DEF NothingYet, IsListing
<1>5. FetchedInOrder'
  <2>1. Found(ask)' \in Seq(Mail)
    <3>1. Found(a) \in Seq(Mail)
      BY FoundType DEF TypeOK
    <3>2. Found(ask)' = Found(a)
      BY <1>1 DEF Found, Arranged
    <3> QED BY <3>1, <3>2
  <2>2. SubSeq(Found(ask)', 1, 0) = <<>> /\ 0 <= Len(Found(ask)')
    BY <2>1, SubSeqEmpty
  <2> QED BY <1>2, <2>2 DEF FetchedInOrder
<1>6. SearchAnswer' /\ ListingAnswer'
  BY <1>1 DEF SearchAnswer, ListingAnswer, Answered
<1> QED BY <1>3, <1>4, <1>5, <1>6

\* A page adds the next results; the last one is followed by the answer.
LEMMA PageArrivesKeeps ==
    ASSUME IInv, PageArrives
    PROVE  IInv'
<1> USE DEF IInv
<1> DEFINE found == Found(ask)
           rest == Max({Len(found) - skip, 0})
           first == Min({skip, Len(found)})
<1>1. /\ pc = "page" /\ ask \in Ask /\ box \in Seq(Mail) /\ skip \in Nat
      /\ list \in Seq(Mail) /\ changes \in Nat /\ ~IsListing /\ answer = None
  BY DEF PageArrives, TypeOK, NothingYet
<1>2. found \in Seq(Mail) /\ Len(found) \in Nat
  BY <1>1, FoundType
<1>3. UNCHANGED <<ask, box, changes>>
  BY DEF PageArrives
<1>4. found' = found /\ IsListing' = IsListing /\ Query(ask)' = Query(ask)
  BY <1>3, FoundUnchanged
<1>5. PICK n \in Min({1, rest}) .. rest :
         /\ list' = list \o SubSeq(found, first + 1, first + n)
         /\ \/ n < rest /\ skip' = skip + n /\ UNCHANGED <<pc, answer>>
            \/ /\ n = rest
               /\ answer' = Result(Query(ask).scope, Validated(list'), ask.top_k)
               /\ pc' = "done"
               /\ UNCHANGED skip
  BY DEF PageArrives
<1> HIDE DEF found
<1>6. /\ rest = IF skip <= Len(found) THEN Len(found) - skip ELSE 0
      /\ first = IF skip <= Len(found) THEN skip ELSE Len(found)
  <2>1. skip \in Int /\ Len(found) \in Int /\ Len(found) - skip \in Int /\ 0 \in Int
    BY <1>1, <1>2
  <2>2. /\ rest = IF Len(found) - skip >= 0 THEN Len(found) - skip ELSE 0
        /\ first = IF skip <= Len(found) THEN skip ELSE Len(found)
    BY <2>1, MaxOfTwo, MinOfTwo
  <2> HIDE DEF rest, first
  <2> QED BY <2>1, <2>2
<1> HIDE DEF rest, first
<1>7. n \in 0 .. rest
  <2>1. rest \in Nat
    BY <1>1, <1>2, <1>6
  <2>2. Min({1, rest}) \in Nat
    BY <2>1, MinOfTwo
  <2> QED BY <2>1, <2>2, <1>5
<1>8. first \in 0 .. Len(found) /\ first + n \in first .. Len(found)
  BY <1>1, <1>2, <1>6, <1>7
<1>9. list' \in Seq(Mail)
  <2>1. \A i \in first + 1 .. first + n : found[i] \in Mail
    BY <1>2, <1>8
  <2>2. SubSeq(found, first + 1, first + n) \in Seq(Mail)
    BY <1>8, <2>1, SubSeqProperties
  <2> QED BY <1>1, <1>5, <2>2, ConcatProperties
<1>10. changes = 0 => list' = SubSeq(found, 1, skip + n) /\ skip + n <= Len(found)
  <2> SUFFICES ASSUME changes = 0
               PROVE  list' = SubSeq(found, 1, skip + n) /\ skip + n <= Len(found)
    OBVIOUS
  <2>1. skip <= Len(found) /\ list = SubSeq(found, 1, skip)
    BY <1>1 DEF FetchedInOrder, found
  <2>2. first = skip /\ skip + n <= Len(found)
    BY <1>1, <1>6, <1>7, <1>8, <2>1
  <2>3. SubSeq(found, 1, skip) \o SubSeq(found, skip + 1, skip + n) = SubSeq(found, 1, skip + n)
    BY <1>1, <1>2, <1>7, <1>8, <2>1, <2>2, ConcatAdjacentSubSeq
  <2> QED BY <1>5, <2>1, <2>2, <2>3
<1>11. CASE n < rest /\ skip' = skip + n /\ UNCHANGED <<pc, answer>>
  <2>1. skip' \in Nat
    BY <1>1, <1>6, <1>7, <1>11, <1>2
  <2>2. TypeOK'
    BY <1>1, <1>3, <1>9, <1>11, <2>1 DEF TypeOK
  <2>3. NothingYet'
    BY <1>1, <1>3, <1>4, <1>11 DEF NothingYet
  <2>4. FetchedInOrder'
    BY <1>3, <1>4, <1>10, <1>11 DEF FetchedInOrder, found
  <2>5. SearchAnswer' /\ ListingAnswer'
    BY <1>1, <1>11 DEF SearchAnswer, ListingAnswer, Answered
  <2> QED BY <2>2, <2>3, <2>4, <2>5
<1>12. CASE /\ n = rest
            /\ answer' = Result(Query(ask).scope, Validated(list'), ask.top_k)
            /\ pc' = "done"
            /\ UNCHANGED skip
  <2>1. answer' \in Seq(Mails)
    <3>1. Query(ask).scope \in Scopes /\ ask.top_k \in Int
      BY <1>1, QueryType, AskAssumption
    <3>2. Validated(list') \in Seq(Mails)
      BY <1>9, ValidatedType
    <3> QED BY <1>12, <3>1, <3>2, ResultFacts
  <2>2. TypeOK'
    BY <1>1, <1>3, <1>9, <1>12, <2>1 DEF TypeOK
  <2>3. NothingYet' /\ FetchedInOrder'
    BY <1>12 DEF NothingYet, FetchedInOrder
  <2>4. changes = 0 => list' = found
    <3> SUFFICES ASSUME changes = 0 PROVE list' = found
      OBVIOUS
    <3>1. skip <= Len(found)
      BY <1>1 DEF FetchedInOrder, found
    <3>2. skip + n = Len(found)
      BY <1>1, <1>2, <1>6, <1>12, <3>1
    <3> QED BY <1>2, <1>10, <3>2, SubSeqFull
  <2>5. SearchAnswer'
    BY <1>3, <1>4, <1>12, <2>4 DEF SearchAnswer, found
  <2>6. ListingAnswer'
    BY <1>1, <1>4 DEF ListingAnswer
  <2> QED BY <2>2, <2>3, <2>5, <2>6
<1> QED BY <1>5, <1>11, <1>12

\* A folder listing is answered as it was read.
LEMMA ListingArrivesKeeps ==
    ASSUME IInv, ListingArrives
    PROVE  IInv'
<1> USE DEF IInv
<1>1. /\ pc = "folder" /\ ask \in Ask /\ box \in Seq(Mail) /\ IsListing
      /\ skip \in Nat /\ changes \in Nat
  BY DEF ListingArrives, TypeOK, NothingYet
<1>2. /\ list' = Page(ask) /\ answer' = Validated(Page(ask)) /\ pc' = "done"
      /\ UNCHANGED <<ask, box, skip, changes>>
  <2>1. Len(NewestFirst("received")[Found(ask)]) = Len(Found(ask))
    BY <1>1, FoundType, NewestFirstType DEF Scopes
  <2> QED BY <2>1 DEF ListingArrives, Page
<1>3. Page(ask) \in Seq(Mail)
  BY <1>1, PageType
<1>4. Validated(Page(ask)) \in Seq(Mails)
  BY <1>3, ValidatedType
<1>5. Page(ask)' = Page(ask) /\ IsListing' = IsListing
  BY <1>2, FoundUnchanged
<1>6. TypeOK'
  BY <1>1, <1>2, <1>3, <1>4 DEF TypeOK
<1>7. NothingYet' /\ FetchedInOrder'
  BY <1>2 DEF NothingYet, FetchedInOrder
<1>8. SearchAnswer'
  BY <1>1, <1>5 DEF SearchAnswer
<1>9. ListingAnswer'
  BY <1>2, <1>5 DEF ListingAnswer
<1> QED BY <1>6, <1>7, <1>8, <1>9

\* A request that fails leaves no answer.
LEMMA RequestFailsKeeps ==
    ASSUME IInv, RequestFails
    PROVE  IInv'
<1> USE DEF IInv
<1>1. /\ pc # "done" /\ pc # "idle" /\ answer = None /\ pc' = "done"
      /\ UNCHANGED <<ask, box, skip, list, answer, changes>>
  BY DEF RequestFails, NothingYet
<1>2. TypeOK'
  BY <1>1 DEF TypeOK
<1>3. NothingYet' /\ FetchedInOrder'
  BY <1>1 DEF NothingYet, FetchedInOrder
<1>4. SearchAnswer' /\ ListingAnswer'
  BY <1>1 DEF SearchAnswer, ListingAnswer, Answered
<1> QED BY <1>2, <1>3, <1>4

\* A change of the mailbox ends what is known of the pages that follow.
LEMMA MailboxChangesKeeps ==
    ASSUME IInv, MailboxChanges
    PROVE  IInv'
<1> USE DEF IInv
<1>1. /\ pc = "page" /\ changes \in Nat /\ changes' = changes + 1 /\ answer = None
      /\ UNCHANGED <<pc, ask, skip, list, answer>> /\ box \in Seq(Mail) /\ ~IsListing
  BY DEF MailboxChanges, TypeOK, NothingYet
<1>2. box' \in Seq(Mail)
  <2>1. ASSUME NEW m \in Mail, box' = <<m>> \o box PROVE box' \in Seq(Mail)
    <3>1. <<m>> \in Seq(Mail)
      OBVIOUS
    <3> QED BY <1>1, <2>1, <3>1, ConcatProperties
  <2>2. ASSUME NEW i \in DOMAIN box, box' = RemoveAt(box, i) PROVE box' \in Seq(Mail)
    <3>1. i \in 1 .. Len(box) /\ i \in Int /\ Len(box) \in Int
      BY <1>1
    <3>2. /\ \A j \in 1 .. i - 1 : box[j] \in Mail
          /\ \A j \in i + 1 .. Len(box) : box[j] \in Mail
      BY <1>1, <3>1
    <3>3. /\ SubSeq(box, 1, i - 1) \in Seq(Mail)
          /\ SubSeq(box, i + 1, Len(box)) \in Seq(Mail)
      BY <3>1, <3>2, SubSeqProperties
    <3> QED BY <2>2, <3>3, ConcatProperties DEF RemoveAt
  <2> QED BY <2>1, <2>2 DEF MailboxChanges
<1>3. TypeOK'
  BY <1>1, <1>2 DEF TypeOK
<1>4. NothingYet' /\ FetchedInOrder'
  BY <1>1 DEF NothingYet, FetchedInOrder, IsListing
<1>5. SearchAnswer' /\ ListingAnswer'
  BY <1>1 DEF SearchAnswer, ListingAnswer, Answered
<1> QED BY <1>3, <1>4, <1>5

\* Every step keeps the invariant.
LEMMA NextKeeps == IInv /\ [Next]_vars => IInv'
<1> SUFFICES ASSUME IInv, [Next]_vars PROVE IInv'
  OBVIOUS
<1>1. CASE UNCHANGED vars
  <2>1. UNCHANGED <<pc, ask, box, skip, list, answer, changes>>
    BY <1>1 DEF vars
  <2>2. Found(ask)' = Found(ask) /\ Page(ask)' = Page(ask) /\ Query(ask)' = Query(ask)
    BY <2>1, FoundUnchanged
  <2> QED BY <2>1, <2>2 DEF IInv, TypeOK, NothingYet, FetchedInOrder, SearchAnswer,
           ListingAnswer, Answered, IsListing
<1> QED BY <1>1, StartKeeps, PageArrivesKeeps, ListingArrivesKeeps, RequestFailsKeeps,
         MailboxChangesKeeps DEF Next, GraphAnswers

\* Whatever is asked and however the pages are cut, the search has read what
\* IInv says and answers what it made of it.
THEOREM InductiveInvariant == Spec => []IInv
  BY InitIInv, NextKeeps, PTL DEF Spec

\* Every variable holds what it is meant to: the answer is a list of mails.
THEOREM TypeCorrect == Spec => []TypeOK
<1>1. IInv => TypeOK
  BY DEF IInv
<1> QED BY <1>1, InductiveInvariant, PTL

\* NewestOfEachThread is an invariant: a search answers the newest mail of
\* every thread it has read, whatever the pages and the changes between them
\* (mail_service.py:379-403).
THEOREM NewestHold == Spec => []NewestOfEachThread
<1>1. IInv => NewestOfEachThread
  <2> SUFFICES ASSUME IInv, Answered, ~IsListing
               PROVE  NewestOfEachThread
    BY DEF NewestOfEachThread, IsListing
  <2> DEFINE scope == Query(ask).scope
             ms == Validated(list)
             mails == {InKst(m) : m \in Range(list)}
             threads == {Thread(m) : m \in mails}
  <2>1. /\ ask \in Ask /\ list \in Seq(Mail)
        /\ answer = Result(scope, ms, ask.top_k)
    BY DEF IInv, TypeOK, Answered, SearchAnswer
  <2>2. scope \in Scopes /\ ask.top_k \in Int
    BY <2>1, QueryType, AskAssumption
  <2>3. /\ ms \in Seq(Mails) /\ DOMAIN ms = DOMAIN list
        /\ \A i \in DOMAIN list : ms[i] = InKst(list[i])
    BY <2>1, ValidatedType
  <2> HIDE DEF scope, ms
  <2>4. answer \in Seq(Mails) /\ AnswersNewest(answer, ms, scope, ask.top_k)
    BY <2>1, <2>2, <2>3, ResultFacts
  <2>5. mails = {ms[k] : k \in DOMAIN ms}
    BY <2>3 DEF Range
  <2>6. threads = {Thread(ms[k]) : k \in DOMAIN ms}
    BY <2>5
  <2>7. \A i \in DOMAIN answer : Stamp(scope, answer[i]) \in Int
    BY <2>2, <2>4, StampType
  <2> HIDE DEF mails, threads
  <2>8. Range(answer) \subseteq mails
    BY <2>4, <2>5 DEF AnswersNewest, Range
  <2>9. \A i, j \in DOMAIN answer : i < j =>
           /\ Thread(answer[i]) # Thread(answer[j])
           /\ ~(Stamp(scope, answer[j]) > Stamp(scope, answer[i]))
    BY <2>4, <2>7 DEF AnswersNewest
  <2>10. \A m \in mails, i \in DOMAIN answer :
            Stamp(scope, m) > Stamp(scope, answer[i]) =>
                \E j \in 1 .. i - 1 : Thread(answer[j]) = Thread(m)
    BY <2>4, <2>5 DEF AnswersNewest
  <2>11. ask.top_k >= 0 => Len(answer) = Min({ask.top_k, Cardinality(threads)})
    BY <2>4, <2>6 DEF AnswersNewest
  <2> QED BY <2>8, <2>9, <2>10, <2>11 DEF NewestOfEachThread, scope, mails, threads
<1> QED BY <1>1, InductiveInvariant, PTL

-----------------------------------------------------------------------------

\* By hours the days of the search begin and end where the KST days do.
LEMMA HoursOfDays ==
    ASSUME NEW h \in Nat, NEW from \in Int, NEW to \in Int
    PROVE  h \in StartHour(from) .. EndHour(to) <=> (h + 9) \div 24 \in from .. to
<1> DEFINE d == (h + 9) \div 24
<1>1. d \in Int /\ 24 * d <= h + 9 /\ h + 9 < 24 * d + 24
  OBVIOUS
<1>2. StartHour(from) \in Int /\ EndHour(to) \in Int
  BY DEF StartHour, EndHour
<1> HIDE DEF d
<1>3. h >= StartHour(from) <=> from <= d
  BY <1>1 DEF StartHour
<1>4. h <= EndHour(to) <=> d <= to
  BY <1>1 DEF EndHour
<1> QED BY <1>1, <1>2, <1>3, <1>4 DEF d

\* The query says how a mail must concern the user, and of which kind it is.
LEMMA QuerySays ==
    ASSUME ask \in Ask, NEW m \in Mail
    PROVE  /\ ForOrByTheUser(m) <=>
                  (Query(ask).mine # {} => Query(ask).mine \cap m.terms # {})
           /\ OfTheKind(m) <=> Query(ask).terms \subseteq m.terms
<1>1. ask.tool \in Tools
  BY AskAssumption
<1>2. \A t : ({t} # {}) /\ ({t} \cap m.terms # {} <=> t \in m.terms)
  OBVIOUS
<1>3. \A t, u : ({t, u} # {}) /\ ({t, u} \cap m.terms # {} <=> t \in m.terms \/ u \in m.terms)
  OBVIOUS
<1>4. \A t : {t} \subseteq m.terms <=> t \in m.terms
  OBVIOUS
<1>5. \A c, t : When(c, t) \subseteq m.terms <=> (c => t \in m.terms)
  BY DEF When
<1>6. CASE ask.tool = "get_recent_emails"
  BY <1>3, <1>6 DEF Query, ForOrByTheUser, OfTheKind, Search, get_recent_emails
<1>7. CASE ask.tool = "get_unread_emails"
  BY <1>3, <1>4, <1>7 DEF Query, ForOrByTheUser, OfTheKind, Search, get_unread_emails
<1>8. CASE ask.tool = "get_important_emails"
  BY <1>3, <1>4, <1>8 DEF Query, ForOrByTheUser, OfTheKind, Search, get_important_emails
<1>9. CASE ask.tool = "get_flagged_emails"
  BY <1>3, <1>5, <1>9 DEF Query, ForOrByTheUser, OfTheKind, Search, get_flagged_emails
<1>10. CASE ask.tool = "get_emails_sender"
  BY <1>3, <1>5, <1>10 DEF Query, ForOrByTheUser, OfTheKind, Search, get_emails_sender
<1>11. CASE ask.tool = "get_emails_cc"
  BY <1>3, <1>5, <1>11 DEF Query, ForOrByTheUser, OfTheKind, Search, get_emails_cc
<1>12. CASE ask.tool = "get_email_attachment"
  BY <1>3, <1>4, <1>12 DEF Query, ForOrByTheUser, OfTheKind, Search, get_email_attachment
<1>13. CASE ask.tool = "search_recived_mails"
  BY <1>3, <1>5, <1>13 DEF Query, ForOrByTheUser, OfTheKind, Search, search_recived_mails
<1>14. CASE ask.tool = "search_category_mails"
  BY <1>3, <1>5, <1>14 DEF Query, ForOrByTheUser, OfTheKind, Search, search_category_mails
<1>15. CASE ask.tool = "search_sent_mails"
  BY <1>2, <1>5, <1>15 DEF Query, ForOrByTheUser, OfTheKind, Search, search_sent_mails
<1>16. CASE ask.tool = "get_emails_folder"
  BY <1>16 DEF Query, ForOrByTheUser, OfTheKind, get_emails_folder
<1> QED BY <1>1, <1>6, <1>7, <1>8, <1>9, <1>10, <1>11, <1>12, <1>13, <1>14, <1>15, <1>16
        DEF Tools

\* What Graph finds is what was asked for.
LEMMA FindsAskedFor ==
    ASSUME ask \in Ask, NEW m \in Mail
    PROVE  Finds(ask, m) <=> AskedFor(m)
<1> DEFINE at == m[Query(ask).scope]
<1>1. FromDay(ask) \in Int /\ ToDay(ask) \in Int
  BY AskAssumption, BoundAssumption DEF FromDay, ToDay
<1>2. at = IF ask.tool = "search_sent_mails" THEN m.sent ELSE m.received
  BY QueryType
<1>3. at \in Nat \cup {None}
  BY <1>2, MailAssumption
<1>4. at # None =>
         (at \in StartHour(FromDay(ask)) .. EndHour(ToDay(ask))
             <=> (at + 9) \div 24 \in FromDay(ask) .. ToDay(ask))
  BY <1>1, <1>3, HoursOfDays
<1>5. Finds(ask, m) <=>
         /\ Query(ask).mine # {} => Query(ask).mine \cap m.terms # {}
         /\ Query(ask).terms \subseteq m.terms
         /\ at # None => at \in StartHour(FromDay(ask)) .. EndHour(ToDay(ask))
  BY DEF Finds
<1>6. AskedFor(m) <=>
         /\ ForOrByTheUser(m) /\ OfTheKind(m)
         /\ at # None => (at + 9) \div 24 \in FromDay(ask) .. ToDay(ask)
  BY <1>2 DEF AskedFor
<1> HIDE DEF at
<1> QED BY <1>4, <1>5, <1>6, QuerySays

\* Shifting the times keeps the order of the mails.
LEMMA KstKeepsOrder ==
    ASSUME NEW x \in Mail, NEW y \in Mail,
           Stamp("received", x) <= Stamp("received", y)
    PROVE  Stamp("received", InKst(x)) <= Stamp("received", InKst(y))
<1>1. ASSUME NEW m \in Mail
      PROVE  /\ m.received \in Nat \cup {None}
             /\ InKst(m).received = IF m.received = None THEN None ELSE m.received + 9
  BY MailAssumption DEF InKst
<1>2. ASSUME NEW m \in Mail
      PROVE  \/ /\ Stamp("received", m) = -1 /\ Stamp("received", InKst(m)) = -1
             \/ /\ Stamp("received", m) \in Nat
                /\ Stamp("received", InKst(m)) = Stamp("received", m) + 9
  <2>1. CASE m.received = None
    BY <1>1, <2>1 DEF Stamp
  <2>2. CASE m.received \in Nat
    BY <1>1, <2>2, NoneAssumption DEF Stamp
  <2> QED BY <1>1, <2>1, <2>2
<1> QED BY <1>2

\* So is all that it found.
LEMMA FoundIsAskedFor ==
    ASSUME ask \in Ask, box \in Seq(Mail)
    PROVE  Range(Found(ask)) = {x \in Range(box) : AskedFor(x)}
<1>1. /\ Found(ask) \in Seq(Mail)
      /\ \A k \in DOMAIN Found(ask) :
            \E i \in DOMAIN box : Found(ask)[k] = box[i] /\ Finds(ask, box[i])
      /\ \A i \in DOMAIN box : Finds(ask, box[i]) =>
            \E k \in DOMAIN Found(ask) : Found(ask)[k] = box[i]
  BY FoundType
<1>2. \A i \in DOMAIN box : Finds(ask, box[i]) <=> AskedFor(box[i])
  BY FindsAskedFor
<1> QED BY <1>1, <1>2 DEF Range

\* AnswersAskedFor is an invariant: of a mailbox that did not change a search
\* reads the mails asked for, and a listing is their newest.
THEOREM AskedForHold == Spec => []AnswersAskedFor
<1>1. IInv => AnswersAskedFor
  <2> SUFFICES ASSUME IInv, Answered PROVE AnswersAskedFor
    BY DEF AnswersAskedFor
  <2> DEFINE wanted == {InKst(m) : m \in {x \in Range(box) : AskedFor(x)}}
  <2>1. ask \in Ask /\ box \in Seq(Mail) /\ list \in Seq(Mail)
    BY DEF IInv, TypeOK, Answered
  <2>2. Range(Found(ask)) = {x \in Range(box) : AskedFor(x)}
    BY <2>1, FoundIsAskedFor
  <2>3. ASSUME ~IsListing, changes = 0
        PROVE  Range(list) = {x \in Range(box) : AskedFor(x)}
    BY <2>2, <2>3 DEF IInv, SearchAnswer
  <2>4. ASSUME IsListing
        PROVE  /\ Range(answer) \subseteq wanted
               /\ Len(answer) <= MaxListed
               /\ Len(answer) >= Min({1, Cardinality(wanted)})
               /\ \A m \in wanted \ Range(answer) : \A i \in DOMAIN answer :
                     Stamp("received", m) <= Stamp("received", answer[i])
    <3> DEFINE f == Found(ask)
               w == NewestFirst("received")[f]
    <3>1. list = Page(ask) /\ answer = Validated(list)
      BY <2>4 DEF IInv, ListingAnswer
    <3>2. /\ DOMAIN answer = DOMAIN list /\ Len(answer) = Len(list)
          /\ \A i \in DOMAIN list : answer[i] = InKst(list[i])
      BY <2>1, <3>1, ValidatedType
    <3>3. f \in Seq(Mail) /\ Len(f) \in Nat
      BY <2>1, FoundType
    <3>4. /\ Len(list) <= Len(f) /\ Len(list) <= MaxListed
          /\ Len(f) > 0 => Len(list) > 0
          /\ \A i \in DOMAIN list : list[i] = w[i]
      BY <2>1, <3>1, PageType
    <3>5. /\ w \in Seq(Mail)
          /\ Len(w) = Len(f)
          /\ \A k \in DOMAIN w : \E i \in DOMAIN f : w[k] = f[i]
          /\ \A i \in DOMAIN f : \E k \in DOMAIN w : w[k] = f[i]
          /\ \A k, l \in DOMAIN w : k < l =>
                Stamp("received", w[k]) >= Stamp("received", w[l])
      <4> HIDE DEF f
      <4> QED BY <3>3, NewestFirstType DEF Scopes
    <3> HIDE DEF w
    <3>6. wanted = {InKst(f[k]) : k \in DOMAIN f}
      BY <2>2 DEF Range
    <3> HIDE DEF f, wanted
    <3>7. DOMAIN list \subseteq DOMAIN w /\ DOMAIN list = 1 .. Len(list)
          /\ DOMAIN w = 1 .. Len(w) /\ DOMAIN f = 1 .. Len(f)
          /\ Len(list) \in Nat
      BY <2>1, <3>3, <3>4, <3>5
    <3>8. \A i \in DOMAIN answer : answer[i] = InKst(w[i]) /\ i \in DOMAIN w
      BY <3>2, <3>4, <3>7
    <3>9. Range(answer) \subseteq wanted
      <4> SUFFICES ASSUME NEW i \in DOMAIN answer PROVE answer[i] \in wanted
        BY DEF Range
      <4>1. PICK k \in DOMAIN f : w[i] = f[k]
        BY <3>5, <3>8
      <4> QED BY <3>6, <3>8, <4>1
    <3>10. Len(answer) >= Min({1, Cardinality(wanted)})
      <4>1. CASE Len(f) = 0
        <5>1. wanted = {}
          BY <3>6, <3>7, <4>1
        <5>2. Cardinality(wanted) = 0
          BY <5>1, FS_EmptySet
        <5> QED BY <3>2, <3>7, <5>2, MinOfTwo
      <4>2. CASE Len(f) > 0
        <5>1. IsFiniteSet(wanted)
          <6> DEFINE g == [k \in DOMAIN f |-> InKst(f[k])]
          <6>1. g \in Surjection(DOMAIN f, wanted)
            BY <3>6 DEF Surjection
          <6>2. IsFiniteSet(DOMAIN f)
            BY <3>3, <3>7, FS_Interval
          <6> HIDE DEF g
          <6> QED BY <6>1, <6>2, FS_Surjection
        <5>2. Cardinality(wanted) \in Nat
          BY <5>1, FS_CardinalityType
        <5>3. Min({1, Cardinality(wanted)}) <= 1
          BY <5>2, MinOfTwo
        <5>4. Min({1, Cardinality(wanted)}) \in Int
          BY <5>2, MinOfTwo
        <5> QED BY <3>2, <3>4, <3>7, <4>2, <5>3, <5>4
      <4> QED BY <3>3, <4>1, <4>2
    <3>11. ASSUME NEW m \in wanted \ Range(answer), NEW i \in DOMAIN answer
           PROVE  Stamp("received", m) <= Stamp("received", answer[i])
      <4>1. PICK k \in DOMAIN f : m = InKst(f[k])
        BY <3>6
      <4>2. PICK l \in DOMAIN w : w[l] = f[k]
        BY <3>5
      <4>3. l \notin DOMAIN list
        BY <3>2, <3>11, <3>4, <4>1, <4>2 DEF Range
      <4>4. i < l /\ i \in DOMAIN w
        BY <3>2, <3>7, <4>2, <4>3
      <4>5. w[i] \in Mail /\ w[l] \in Mail
        BY <3>5, <4>4
      <4>6. Stamp("received", w[l]) <= Stamp("received", w[i])
        <5>1. Stamp("received", w[i]) >= Stamp("received", w[l])
          BY <3>5, <4>4
        <5>2. Stamp("received", w[l]) \in Int /\ Stamp("received", w[i]) \in Int
          BY <4>5, MailTypes, StampType DEF Scopes
        <5> QED BY <5>1, <5>2
      <4>7. Stamp("received", InKst(w[l])) <= Stamp("received", InKst(w[i]))
        BY <4>5, <4>6, KstKeepsOrder
      <4> QED BY <3>8, <4>1, <4>2, <4>7
    <3> QED BY <3>2, <3>4, <3>9, <3>10, <3>11
  <2> QED BY <2>3, <2>4 DEF AnswersAskedFor, IsListing
<1> QED BY <1>1, InductiveInvariant, PTL

=============================================================================
