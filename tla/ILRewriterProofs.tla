--------------------------- MODULE ILRewriterProofs ---------------------------
(***************************************************************************)
(* Lemmas about the IL rewriter: places in the list, what an insertion and *)
(* the widening of branches keep, offsets, import and export.              *)
(***************************************************************************)
EXTENDS ILRewriterInvariants, SequenceTheorems, WellFoundedInduction, TLAPS

----------------------------------------------------------------------------
(* Induction over numbers, with sets in the place of predicates            *)

NatOrder == OpToRel(<, Nat)

LEMMA OrderIs == \A x, y \in Nat : <<x, y>> \in NatOrder <=> x < y
BY DEF NatOrder, OpToRel

\* Every nonempty set of natural numbers has a least one.
LEMMA Least ==
  ASSUME NEW S \in SUBSET Nat, S # {}
  PROVE  \E x \in S : \A y \in S : x <= y
<1>1. IsWellFoundedOn(NatOrder, Nat)
  BY NatLessThanWellFounded DEF NatOrder
<1>2. PICK x \in S : \A y \in S : ~(<<y, x>> \in NatOrder)
  BY <1>1, WFMin
<1>3. \A y \in S : ~(y < x)
  BY <1>2, OrderIs
<1> QED
  BY <1>3

LEMMA SetInduction ==
  ASSUME NEW S, 0 \in S, \A n \in Nat : n \in S => n + 1 \in S
  PROVE  Nat \subseteq S
<1> SUFFICES ASSUME Nat \ S # {} PROVE FALSE
  OBVIOUS
<1>1. PICK x \in Nat \ S : \A y \in Nat \ S : x <= y
  BY Least
<1>2. x # 0 /\ x - 1 \in Nat
  BY <1>1
<1>3. x - 1 \in S
  BY <1>1, <1>2
<1> QED
  BY <1>1, <1>2, <1>3

----------------------------------------------------------------------------
(* Places in the list                                                       *)

LEMMA ListFacts ==
  ASSUME NEW r, ListOK(r)
  PROVE  /\ Len(r.il) \in Nat \ {0} /\ DOMAIN r.il = 1 .. Len(r.il)
         /\ Len(r.instr) \in Nat /\ DOMAIN r.instr = 1 .. Len(r.instr)
<1>1. r.instr \in Seq(Instr) /\ r.il \in Seq(1 .. Len(r.instr)) /\ r.il # <<>>
  BY DEF ListOK
<1> QED
  BY <1>1, LenProperties, EmptySeq

LEMMA PlaceOf ==
  ASSUME NEW r, ListOK(r), NEW i \in DOMAIN r.il
  PROVE  Place(r, r.il[i]) = i
<1>1. r.il[i] # Sentinel /\ DOMAIN r.il = 1 .. Len(r.il) /\ i \in Nat
  BY DEF ListOK, Sentinel
<1>2. {j \in 1 .. Len(r.il) : r.il[j] = r.il[i]} = {i}
  BY <1>1 DEF ListOK
<1>3. Min({i}) = i
  BY <1>1 DEF Min
<1> QED
  BY <1>1, <1>2, <1>3 DEF Place, SelectInSeq

LEMMA SentinelPlace ==
  ASSUME NEW r
  PROVE  Place(r, Sentinel) = Len(r.il) + 1
BY DEF Place, Sentinel

LEMMA ListedPlace ==
  ASSUME NEW r, ListOK(r), NEW id \in Listed(r)
  PROVE  /\ Place(r, id) \in DOMAIN r.il
         /\ r.il[Place(r, id)] = id
         /\ id \in DOMAIN r.instr
         /\ id # Sentinel
         /\ r.instr[id] \in Instr
<1>1. PICK i \in DOMAIN r.il : id = r.il[i]
  BY DEF Listed
<1>2. Place(r, id) = i
  BY <1>1, PlaceOf
<1>3. id \in 1 .. Len(r.instr) /\ r.instr \in Seq(Instr)
  BY <1>1 DEF ListOK
<1> QED
  BY <1>1, <1>2, <1>3 DEF Sentinel

LEMMA SamePlace ==
  ASSUME NEW r, ListOK(r), NEW a \in Listed(r), NEW b \in Listed(r), Place(r, a) = Place(r, b)
  PROVE  a = b
BY ListedPlace

----------------------------------------------------------------------------
(* Insertion                                                                *)

\* A sequence put inside another one, and what the result looks like.
Spliced(s, t, p) == SubSeq(s, 1, p - 1) \o t \o SubSeq(s, p, Len(s))

IsSplice(u, s, t, p) ==
    /\ Len(u) = Len(s) + Len(t)
    /\ \A i \in 1 .. p - 1 : u[i] = s[i]
    /\ \A i \in 1 .. Len(t) : u[p - 1 + i] = t[i]
    /\ \A i \in p .. Len(s) : u[i + Len(t)] = s[i]

LEMMA Splice ==
  ASSUME NEW T, NEW s \in Seq(T), NEW t \in Seq(T), NEW p \in 1 .. Len(s) + 1
  PROVE  Spliced(s, t, p) \in Seq(T) /\ IsSplice(Spliced(s, t, p), s, t, p)
<1> DEFINE front == SubSeq(s, 1, p - 1)
           back == SubSeq(s, p, Len(s))
           both == front \o t
           v == both \o back
<1>0. Spliced(s, t, p) = v
  BY DEF Spliced
<1>1. Len(s) \in Nat /\ Len(t) \in Nat /\ p \in Nat /\ \A i \in 1 .. Len(s) : s[i] \in T
  OBVIOUS
<1>2. /\ front \in Seq(T) /\ Len(front) = p - 1
      /\ \A i \in 1 .. p - 1 : front[i] = s[i]
  <2>1. \A i \in 1 .. p - 1 : s[i] \in T
    BY <1>1
  <2>2. /\ front \in Seq(T) /\ Len(front) = IF 1 <= p - 1 THEN (p - 1) - 1 + 1 ELSE 0
        /\ \A i \in 1 .. (p - 1) - 1 + 1 : front[i] = s[1 + i - 1]
    BY <2>1, <1>1, SubSeqProperties
  <2> HIDE DEF front
  <2> QED
    BY <1>1, <2>2
<1>3. /\ back \in Seq(T) /\ Len(back) = Len(s) - p + 1
      /\ \A i \in 1 .. Len(s) - p + 1 : back[i] = s[p + i - 1]
  <2>1. \A i \in p .. Len(s) : s[i] \in T
    BY <1>1
  <2>2. /\ back \in Seq(T) /\ Len(back) = IF p <= Len(s) THEN Len(s) - p + 1 ELSE 0
        /\ \A i \in 1 .. Len(s) - p + 1 : back[i] = s[p + i - 1]
    BY <2>1, <1>1, SubSeqProperties
  <2> HIDE DEF back
  <2> QED
    BY <1>1, <2>2
<1> HIDE DEF front, back
<1>4. /\ both \in Seq(T) /\ Len(both) = p - 1 + Len(t)
      /\ \A i \in 1 .. p - 1 + Len(t) : both[i] = IF i <= p - 1 THEN front[i] ELSE t[i - (p - 1)]
  <2>1. /\ both \in Seq(T) /\ Len(both) = Len(front) + Len(t)
        /\ \A i \in 1 .. Len(front) + Len(t) :
              both[i] = IF i <= Len(front) THEN front[i] ELSE t[i - Len(front)]
    BY <1>2, ConcatProperties
  <2> HIDE DEF both
  <2> QED
    BY <1>2, <2>1
<1> HIDE DEF both
<1>5. /\ v \in Seq(T) /\ Len(v) = Len(s) + Len(t)
      /\ \A i \in 1 .. Len(s) + Len(t) :
            v[i] = IF i <= p - 1 + Len(t) THEN both[i] ELSE back[i - (p - 1 + Len(t))]
  <2>1. /\ v \in Seq(T) /\ Len(v) = Len(both) + Len(back)
        /\ \A i \in 1 .. Len(both) + Len(back) :
              v[i] = IF i <= Len(both) THEN both[i] ELSE back[i - Len(both)]
    BY <1>3, <1>4, ConcatProperties
  <2>2. Len(both) + Len(back) = Len(s) + Len(t)
    BY <1>1, <1>3, <1>4
  <2> QED
    BY <1>4, <2>1, <2>2
<1> HIDE DEF v
<1>6. \A i \in 1 .. p - 1 : v[i] = s[i]
  <2>1. ASSUME NEW i \in 1 .. p - 1
        PROVE  v[i] = s[i]
    <3>1. i \in 1 .. p - 1 + Len(t) /\ i \in 1 .. Len(s) + Len(t) /\ i <= p - 1 + Len(t)
      BY <1>1
    <3>2. v[i] = both[i] /\ both[i] = front[i]
      BY <1>1, <1>4, <1>5, <3>1
    <3> QED
      BY <1>2, <3>2
  <2> QED
    BY <2>1
<1>7. ASSUME NEW i \in 1 .. Len(t)
      PROVE  v[p - 1 + i] = t[i]
  <2>1. p - 1 + i \in 1 .. p - 1 + Len(t) /\ ~(p - 1 + i <= p - 1) /\ p - 1 + i - (p - 1) = i
    BY <1>1
  <2>2. p - 1 + i \in 1 .. Len(s) + Len(t) /\ p - 1 + i <= p - 1 + Len(t)
    BY <1>1
  <2>3. v[p - 1 + i] = both[p - 1 + i]
    BY <1>5, <2>2
  <2>4. both[p - 1 + i] = t[p - 1 + i - (p - 1)]
    BY <1>4, <2>1
  <2> QED
    BY <2>1, <2>3, <2>4
<1>8. ASSUME NEW i \in p .. Len(s)
      PROVE  v[i + Len(t)] = s[i]
  <2>1. /\ i + Len(t) \in 1 .. Len(s) + Len(t) /\ ~(i + Len(t) <= p - 1 + Len(t))
        /\ i + Len(t) - (p - 1 + Len(t)) = i - p + 1
    BY <1>1
  <2>2. i - p + 1 \in 1 .. Len(s) - p + 1 /\ p + (i - p + 1) - 1 = i
    BY <1>1
  <2>3. v[i + Len(t)] = back[i - p + 1]
    BY <1>5, <2>1
  <2>4. back[i - p + 1] = s[p + (i - p + 1) - 1]
    BY <1>3, <2>2
  <2> QED
    BY <2>2, <2>3, <2>4
<1> QED
  BY <1>0, <1>5, <1>6, <1>7, <1>8 DEF IsSplice

\* Where the instructions end up: the first of the new ones takes the place p.
Inserted(s, r, p, news) ==
    /\ s.eh = r.eh
    /\ p \in 1 .. Len(r.il) + 1
    /\ Len(s.il) = Len(r.il) + Len(news)
    /\ \A i \in 1 .. p - 1 : s.il[i] = r.il[i]
    /\ \A i \in 1 .. Len(news) : s.il[p - 1 + i] = Len(r.instr) + i
    /\ \A i \in p .. Len(r.il) : s.il[i + Len(news)] = r.il[i]
    /\ Len(s.instr) = Len(r.instr) + Len(news)
    /\ \A i \in 1 .. Len(r.instr) : s.instr[i] = r.instr[i]
    /\ \A i \in 1 .. Len(news) : s.instr[Len(r.instr) + i] = news[i]

LEMMA InsertShape ==
  ASSUME NEW r, ListOK(r), NEW where \in Listed(r) \cup {Sentinel}, NEW news \in Seq(Instr)
  PROVE  /\ ListOK(InsertAllBefore(r, where, news))
         /\ Inserted(InsertAllBefore(r, where, news), r, Place(r, where), news)
<1> DEFINE s == InsertAllBefore(r, where, news)
           p == Place(r, where)
           names == [i \in DOMAIN news |-> Len(r.instr) + i]
<1>1. PICK n \in Nat, l \in Nat, k \in Nat :
         n = Len(news) /\ l = Len(r.il) /\ k = Len(r.instr)
  <2>1. r.instr \in Seq(Instr) /\ r.il \in Seq(1 .. Len(r.instr))
    BY DEF ListOK
  <2> QED
    BY <2>1, LenProperties
<1>2. /\ r.il \in Seq(1 .. k + n) /\ r.instr \in Seq(Instr)
      /\ \A i \in 1 .. l : r.il[i] \in 1 .. k
  <2>1. r.il \in Seq(1 .. k)
    BY <1>1 DEF ListOK
  <2> QED
    BY <1>1, <2>1 DEF ListOK
<1>3. p \in 1 .. l + 1
  <2>1. CASE where \in Listed(r)
    BY <1>1, <1>2, <2>1, ListedPlace
  <2>2. CASE where = Sentinel
    BY <1>1, <2>2, SentinelPlace
  <2> QED
    BY <2>1, <2>2
<1>4. /\ s.il = SubSeq(r.il, 1, p - 1) \o names \o SubSeq(r.il, p, l)
      /\ s.instr = r.instr \o news
      /\ s.eh = r.eh
      /\ DOMAIN s = {"il", "instr", "eh", "maxStack"}
  <2>1. DOMAIN r = {"il", "instr", "eh", "maxStack"}
    BY DEF ListOK
  <2> QED
    BY <1>1, <2>1 DEF InsertAllBefore
<1>5. names \in Seq(1 .. k + n) /\ Len(names) = n /\ \A i \in 1 .. n : names[i] = k + i
  <2>1. DOMAIN news = 1 .. n
    BY <1>1
  <2> QED
    BY <1>1, <2>1
<1> HIDE DEF s, p, names
<1>6. /\ s.il \in Seq(1 .. k + n)
      /\ Len(s.il) = l + n
      /\ \A i \in 1 .. p - 1 : s.il[i] = r.il[i]
      /\ \A i \in 1 .. n : s.il[p - 1 + i] = k + i
      /\ \A i \in p .. l : s.il[i + n] = r.il[i]
  <2> DEFINE T == 1 .. k + n
  <2>1. /\ r.il \in Seq(T) /\ names \in Seq(T) /\ p \in 1 .. Len(r.il) + 1
        /\ s.il = Spliced(r.il, names, p)
    BY <1>1, <1>2, <1>3, <1>4, <1>5 DEF Spliced
  <2> HIDE DEF T
  <2>2. s.il \in Seq(T) /\ IsSplice(s.il, r.il, names, p)
    BY <2>1, Splice
  <2> QED
    BY <1>1, <1>5, <2>2 DEF T, IsSplice
<1>7. /\ s.instr \in Seq(Instr) /\ Len(s.instr) = k + n
      /\ \A i \in 1 .. k : s.instr[i] = r.instr[i]
      /\ \A i \in 1 .. n : s.instr[k + i] = news[i]
  <2>1. /\ s.instr \in Seq(Instr) /\ Len(s.instr) = k + n
        /\ \A i \in 1 .. k + n : s.instr[i] = IF i <= k THEN r.instr[i] ELSE news[i - k]
    BY <1>1, <1>2, <1>4, ConcatProperties
  <2>2. ASSUME NEW i \in 1 .. n
        PROVE  s.instr[k + i] = news[i]
    <3>1. k + i \in 1 .. k + n /\ ~(k + i <= k) /\ k + i - k = i
      OBVIOUS
    <3> QED
      BY <2>1, <3>1
  <2>3. \A i \in 1 .. k : i \in 1 .. k + n /\ i <= k
    OBVIOUS
  <2> QED
    BY <2>1, <2>2, <2>3
<1>8. ASSUME NEW i \in DOMAIN s.il, NEW j \in DOMAIN s.il, s.il[i] = s.il[j]
      PROVE  i = j
  <2>1. \A a, b \in 1 .. l : r.il[a] = r.il[b] => a = b
    BY <1>1 DEF ListOK
  <2>2. ASSUME NEW a \in 1 .. l + n
        PROVE  \/ a \in 1 .. p - 1 /\ s.il[a] = r.il[a] /\ s.il[a] <= k
               \/ a \in p .. p + n - 1 /\ s.il[a] = k + a - p + 1
               \/ a \in p + n .. l + n /\ s.il[a] = r.il[a - n] /\ s.il[a] <= k
    <3>1. CASE a \in 1 .. p - 1
      <4>1. s.il[a] = r.il[a] /\ r.il[a] \in 1 .. k
        BY <3>1, <1>2, <1>3, <1>6
      <4> QED
        BY <3>1, <4>1
    <3>2. CASE a \in p .. p + n - 1
      <4>1. a - p + 1 \in 1 .. n /\ p - 1 + (a - p + 1) = a
        BY <1>3, <3>2
      <4>2. s.il[a] = k + (a - p + 1)
        BY <1>6, <4>1
      <4> QED
        BY <1>3, <3>2, <4>2
    <3>3. CASE a \in p + n .. l + n
      <4>1. a - n \in p .. l /\ (a - n) + n = a
        BY <1>3, <3>3
      <4>2. s.il[a] = r.il[a - n]
        BY <1>6, <4>1
      <4>3. r.il[a - n] \in 1 .. k
        BY <1>2, <1>3, <4>1
      <4> QED
        BY <3>3, <4>2, <4>3
    <3> QED
      BY <1>3, <3>1, <3>2, <3>3
  <2>3. i \in 1 .. l + n /\ j \in 1 .. l + n
    BY <1>6
  <2>4. CASE s.il[i] <= k
    <3>1. \/ i \in 1 .. p - 1 /\ s.il[i] = r.il[i]
          \/ i \in p + n .. l + n /\ s.il[i] = r.il[i - n]
      <4>1. ~(i \in p .. p + n - 1 /\ s.il[i] = k + i - p + 1)
        BY <1>3, <2>4
      <4> QED
        BY <2>2, <2>3, <4>1
    <3>2. \/ j \in 1 .. p - 1 /\ s.il[j] = r.il[j]
          \/ j \in p + n .. l + n /\ s.il[j] = r.il[j - n]
      BY <2>2, <2>3, <2>4, <1>3, <1>8
    <3>3. CASE i \in 1 .. p - 1 /\ j \in 1 .. p - 1
      BY <1>3, <1>8, <2>1, <3>1, <3>2, <3>3
    <3>4. CASE i \in 1 .. p - 1 /\ j \in p + n .. l + n
      BY <1>3, <1>8, <2>1, <3>1, <3>2, <3>4
    <3>5. CASE i \in p + n .. l + n /\ j \in 1 .. p - 1
      BY <1>3, <1>8, <2>1, <3>1, <3>2, <3>5
    <3>6. CASE i \in p + n .. l + n /\ j \in p + n .. l + n
      <4>1. i - n \in 1 .. l /\ j - n \in 1 .. l /\ r.il[i - n] = r.il[j - n]
        BY <1>3, <1>8, <3>1, <3>2, <3>6
      <4> QED
        BY <2>1, <2>3, <4>1
    <3> QED
      BY <3>1, <3>2, <3>3, <3>4, <3>5, <3>6
  <2>5. CASE ~(s.il[i] <= k)
    <3>1. i \in p .. p + n - 1 /\ s.il[i] = k + i - p + 1
      BY <2>2, <2>3, <2>5
    <3>2. j \in p .. p + n - 1 /\ s.il[j] = k + j - p + 1
      BY <2>2, <2>3, <2>5, <1>8
    <3>3. k + i - p + 1 = k + j - p + 1 /\ i \in Int /\ j \in Int /\ p \in Int
      <4>1. k + i - p + 1 = k + j - p + 1
        BY <1>8, <3>1, <3>2
      <4> QED
        BY <1>3, <2>3, <4>1
    <3> QED
      BY <3>3
  <2> QED
    BY <2>4, <2>5
<1>9. ListOK(s)
  <2>1. s.il # <<>>
    BY <1>1, <1>6 DEF ListOK
  <2> QED
    BY <1>4, <1>6, <1>7, <1>8, <2>1 DEF ListOK
<1> QED
  <2>1. Inserted(s, r, p, news)
    BY <1>1, <1>3, <1>4, <1>6, <1>7 DEF Inserted
  <2> QED
    BY <1>9, <2>1 DEF s, p

\* The old instructions keep their order and move up behind the new ones.
LEMMA InsertedPlaces ==
  ASSUME NEW r, ListOK(r), NEW s, ListOK(s), NEW p, NEW news \in Seq(Instr),
         Inserted(s, r, p, news)
  PROVE  /\ \A id \in Listed(r) :
                /\ id \in Listed(s) /\ s.instr[id] = r.instr[id]
                /\ Place(s, id) = Place(r, id) + IF Place(r, id) < p THEN 0 ELSE Len(news)
         /\ \A i \in 1 .. Len(news) :
                /\ Len(r.instr) + i \in Listed(s) /\ s.instr[Len(r.instr) + i] = news[i]
                /\ Place(s, Len(r.instr) + i) = p - 1 + i
         /\ \A id \in Listed(s) :
                id \in Listed(r) \/ \E i \in 1 .. Len(news) : id = Len(r.instr) + i
<1>1. PICK n \in Nat, l \in Nat, k \in Nat :
         n = Len(news) /\ l = Len(r.il) /\ k = Len(r.instr)
  <2>1. r.instr \in Seq(Instr) /\ r.il \in Seq(1 .. Len(r.instr))
    BY DEF ListOK
  <2> QED
    BY <2>1, LenProperties
<1>2. p \in 1 .. l + 1 /\ DOMAIN r.il = 1 .. l /\ DOMAIN s.il = 1 .. l + n
  BY <1>1 DEF ListOK, Inserted
<1>3. ASSUME NEW id \in Listed(r)
      PROVE  /\ id \in Listed(s) /\ s.instr[id] = r.instr[id]
             /\ Place(s, id) = Place(r, id) + IF Place(r, id) < p THEN 0 ELSE n
  <2>1. PICK i \in 1 .. l : id = r.il[i] /\ Place(r, id) = i /\ id \in 1 .. k
    <3>1. id \in DOMAIN r.instr /\ DOMAIN r.instr = 1 .. k
      BY <1>1, ListedPlace, ListFacts
    <3> QED
      BY <1>2, <3>1, ListedPlace
  <2>2. s.instr[id] = r.instr[id]
    BY <1>1, <2>1 DEF Inserted
  <2>3. CASE i < p
    <3>1. i \in DOMAIN s.il /\ s.il[i] = id
      BY <1>1, <1>2, <2>1, <2>3 DEF Inserted
    <3>2. Place(s, id) = i
      BY <3>1, PlaceOf
    <3> QED
      BY <2>1, <2>2, <2>3, <3>1, <3>2 DEF Listed
  <2>4. CASE ~(i < p)
    <3>1. i \in p .. Len(r.il) /\ i + n \in DOMAIN s.il
      BY <1>1, <1>2, <2>1, <2>4
    <3>2. s.il[i + n] = id
      BY <1>1, <2>1, <3>1 DEF Inserted
    <3>3. Place(s, id) = i + n
      BY <3>1, <3>2, PlaceOf
    <3> QED
      BY <2>1, <2>2, <2>4, <3>1, <3>2, <3>3 DEF Listed
  <2> QED
    BY <2>3, <2>4
<1>4. ASSUME NEW i \in 1 .. n
      PROVE  /\ k + i \in Listed(s) /\ s.instr[k + i] = news[i]
             /\ Place(s, k + i) = p - 1 + i
  <2>1. p - 1 + i \in DOMAIN s.il
    BY <1>2
  <2>2. s.il[p - 1 + i] = k + i /\ s.instr[k + i] = news[i]
    BY <1>1 DEF Inserted
  <2>3. Place(s, k + i) = p - 1 + i
    BY <2>1, <2>2, PlaceOf
  <2> QED
    BY <2>1, <2>2, <2>3 DEF Listed
<1>5. ASSUME NEW id \in Listed(s)
      PROVE  id \in Listed(r) \/ \E i \in 1 .. n : id = k + i
  <2>1. PICK j \in 1 .. l + n : id = s.il[j]
    BY <1>2 DEF Listed
  <2>2. CASE j \in 1 .. p - 1
    <3>1. s.il[j] = r.il[j] /\ j \in DOMAIN r.il
      BY <1>1, <1>2, <2>2 DEF Inserted
    <3> QED
      BY <2>1, <3>1 DEF Listed
  <2>3. CASE j \in p .. p + n - 1
    <3>1. j - p + 1 \in 1 .. n /\ p - 1 + (j - p + 1) = j
      BY <1>2, <2>3
    <3>2. s.il[p - 1 + (j - p + 1)] = k + (j - p + 1)
      BY <1>1, <3>1 DEF Inserted
    <3> QED
      BY <2>1, <3>1, <3>2
  <2>4. CASE j \in p + n .. l + n
    <3>1. j - n \in p .. l /\ (j - n) + n = j /\ j - n \in DOMAIN r.il
      BY <1>2, <2>4
    <3>2. s.il[(j - n) + n] = r.il[j - n]
      BY <1>1, <3>1 DEF Inserted
    <3> QED
      BY <2>1, <3>1, <3>2 DEF Listed
  <2> QED
    BY <1>2, <2>2, <2>3, <2>4
<1> QED
  BY <1>1, <1>3, <1>4, <1>5

LEMMA InsertedOrder ==
  ASSUME NEW r, ListOK(r), NEW s, ListOK(s), NEW p, NEW news \in Seq(Instr),
         Inserted(s, r, p, news), NEW a \in Listed(r), NEW b \in Listed(r)
  PROVE  /\ Before(s, a, b) <=> Before(r, a, b)
         /\ NotAfter(s, a, b) <=> NotAfter(r, a, b)
<1>1. /\ Place(s, a) = Place(r, a) + IF Place(r, a) < p THEN 0 ELSE Len(news)
      /\ Place(s, b) = Place(r, b) + IF Place(r, b) < p THEN 0 ELSE Len(news)
  BY InsertedPlaces
<1>2. Place(r, a) \in Nat /\ Place(r, b) \in Nat /\ Len(news) \in Nat /\ p \in Nat
  <2>1. Place(r, a) \in DOMAIN r.il /\ Place(r, b) \in DOMAIN r.il
    BY ListedPlace
  <2> QED
    BY <2>1, ListFacts DEF Inserted
<1> QED
  BY <1>1, <1>2 DEF Before, NotAfter

LEMMA InsertedClauses ==
  ASSUME NEW r, ListOK(r), NEW s, ListOK(s), NEW p, NEW news \in Seq(Instr),
         Inserted(s, r, p, news), ClausesOK(r)
  PROVE  ClausesOK(s)
<1>1. s.eh = r.eh
  BY DEF Inserted
<1>2. Listed(r) \subseteq Listed(s)
  BY InsertedPlaces
<1>3. ASSUME NEW k \in DOMAIN r.eh, NEW l \in DOMAIN r.eh, k < l
      PROVE  WithinIn(s, r.eh[k], r.eh[l]) \/ ApartIn(s, r.eh[k], r.eh[l])
  <2>1. ClauseListed(r, r.eh[k]) /\ ClauseListed(r, r.eh[l])
    BY DEF ClausesOK
  <2>2. WithinIn(r, r.eh[k], r.eh[l]) \/ ApartIn(r, r.eh[k], r.eh[l])
    BY <1>3 DEF ClausesOK
  <2>3. WithinIn(r, r.eh[k], r.eh[l]) => WithinIn(s, r.eh[k], r.eh[l])
    BY <2>1, InsertedOrder DEF WithinIn, ClauseListed
  <2>4. ApartIn(r, r.eh[k], r.eh[l]) => ApartIn(s, r.eh[k], r.eh[l])
    BY <2>1, InsertedOrder DEF ApartIn, ClauseListed
  <2> QED
    BY <2>2, <2>3, <2>4
<1> QED
  BY <1>1, <1>2, <1>3 DEF ClausesOK, ClauseListed

LEMMA InsertedBranches ==
  ASSUME NEW r, ListOK(r), NEW s, ListOK(s), NEW p, NEW news \in Seq(Instr),
         Inserted(s, r, p, news)
  PROVE  /\ Starts(r) \subseteq Starts(s)
         /\ /\ BranchesOK(r)
            /\ \A i \in 1 .. Len(news) : news[i].op \in Branch => news[i].target \in Starts(s)
            => BranchesOK(s)
<1>1. Starts(r) \subseteq Starts(s)
  BY InsertedPlaces DEF Starts
<1>2. ASSUME BranchesOK(r),
             \A i \in 1 .. Len(news) : news[i].op \in Branch => news[i].target \in Starts(s),
             NEW id \in Listed(s), s.instr[id].op \in Branch
      PROVE  s.instr[id].target \in Starts(s)
  <2>1. CASE id \in Listed(r)
    <3>1. s.instr[id] = r.instr[id]
      BY <2>1, InsertedPlaces
    <3> QED
      BY <1>1, <1>2, <2>1, <3>1 DEF BranchesOK
  <2>2. CASE id \notin Listed(r)
    <3>1. PICK i \in 1 .. Len(news) : id = Len(r.instr) + i
      BY <2>2, InsertedPlaces
    <3>2. s.instr[id] = news[i]
      BY <3>1, InsertedPlaces
    <3> QED
      BY <1>2, <3>2
  <2> QED
    BY <2>1, <2>2
<1> QED
  BY <1>1, <1>2 DEF BranchesOK

\* Between an instruction and what followed it only other instructions come.
LEMMA InsertedFollows ==
  ASSUME NEW r, ListOK(r), NEW s, ListOK(s), NEW p, NEW news \in Seq(Instr),
         Inserted(s, r, p, news), \A i \in 1 .. Len(news) : news[i].op # "switch_arg",
         NEW id \in Listed(r), StartFollows(r, id)
  PROVE  StartFollows(s, id)
<1> SUFFICES ASSUME NEW next \in Listed(s), Place(s, next) = Place(s, id) + 1
             PROVE  s.instr[next].op # "switch_arg"
  BY DEF StartFollows
<1>1. CASE next \in Listed(r)
  <2>1. PICK n \in Nat, a \in Nat, b \in Nat :
           n = Len(news) /\ a = Place(r, id) /\ b = Place(r, next)
    <3>1. Place(r, id) \in DOMAIN r.il /\ Place(r, next) \in DOMAIN r.il
      BY <1>1, ListedPlace
    <3> QED
      BY <3>1, ListFacts
  <2>2. p \in Nat
    BY ListFacts DEF Inserted
  <2>3. /\ Place(s, id) = a + IF a < p THEN 0 ELSE n
        /\ Place(s, next) = b + IF b < p THEN 0 ELSE n
        /\ s.instr[next] = r.instr[next]
    BY <1>1, <2>1, InsertedPlaces
  <2>4. b = a + 1
    BY <2>1, <2>2, <2>3
  <2> QED
    BY <1>1, <2>1, <2>3, <2>4 DEF StartFollows
<1>2. CASE next \notin Listed(r)
  <2>1. PICK i \in 1 .. Len(news) : next = Len(r.instr) + i
    BY <1>2, InsertedPlaces
  <2>2. s.instr[next] = news[i]
    BY <2>1, InsertedPlaces
  <2> QED
    BY <2>2
<1> QED
  BY <1>1, <1>2

LEMMA InsertedStarts ==
  ASSUME NEW r, ListOK(r), NEW s, ListOK(s), NEW p, NEW news \in Seq(Instr),
         Inserted(s, r, p, news), \A i \in 1 .. Len(news) : news[i].op # "switch_arg",
         ClausesOK(r), StartsOK(r)
  PROVE  StartsOK(s)
<1>1. s.eh = r.eh /\ Starts(r) \subseteq Starts(s)
  <2>1. s.eh = r.eh
    BY DEF Inserted
  <2>2. Starts(r) \subseteq Starts(s)
    BY InsertedBranches
  <2> QED
    BY <2>1, <2>2
<1>2. s.il[1] \in Starts(s)
  <2> DEFINE x == s.il[1]
  <2>1. x \in Listed(s) /\ Place(s, x) = 1
    <3>1. 1 \in DOMAIN s.il
      BY ListFacts
    <3> QED
      BY <3>1, PlaceOf DEF Listed
  <2> HIDE DEF x
  <2>2. CASE x \in Listed(r)
    <3>1. Place(r, x) \in DOMAIN r.il /\ r.il[Place(r, x)] = x
      BY <2>2, ListedPlace
    <3>2. Place(s, x) = Place(r, x) + IF Place(r, x) < p THEN 0 ELSE Len(news)
      BY <2>2, InsertedPlaces
    <3>3. Len(news) \in Nat /\ DOMAIN r.il = 1 .. Len(r.il) /\ Len(r.il) \in Nat
      BY ListFacts
    <3>4. Place(r, x) = 1
      BY <2>1, <3>1, <3>2, <3>3
    <3> QED
      BY <1>1, <3>1, <3>4 DEF StartsOK, x
  <2>3. CASE x \notin Listed(r)
    <3>1. PICK i \in 1 .. Len(news) : x = Len(r.instr) + i
      BY <2>1, <2>3, InsertedPlaces
    <3>2. s.instr[x] = news[i]
      BY <3>1, InsertedPlaces
    <3> QED
      BY <2>1, <3>2 DEF Starts, x
  <2> QED
    BY <2>2, <2>3
<1>3. ASSUME NEW k \in DOMAIN r.eh
      PROVE  ClauseOrdered(s, r.eh[k])
  <2> DEFINE c == r.eh[k]
  <2>1. ClauseListed(r, c) /\ ClauseOrdered(r, c)
    BY DEF ClausesOK, StartsOK
  <2> HIDE DEF c
  <2>2. /\ Before(s, c.tryBegin, c.tryEnd) /\ NotAfter(s, c.tryEnd, c.handlerBegin)
        /\ NotAfter(s, c.handlerBegin, c.handlerEnd)
    BY <2>1, InsertedOrder DEF ClauseListed, ClauseOrdered
  <2>3. StartFollows(s, c.handlerEnd)
    BY <2>1, InsertedFollows DEF ClauseListed, ClauseOrdered
  <2> QED
    BY <1>1, <2>1, <2>2, <2>3 DEF ClauseOrdered, c
<1> QED
  BY <1>1, <1>2, <1>3 DEF StartsOK

----------------------------------------------------------------------------
(* Offsets in a body, encoded or laid out                                   *)

\* Instructions that follow each other.
Ordered(code) ==
    /\ Len(code) \in Nat \ {0} /\ DOMAIN code = 1 .. Len(code)
    /\ \A i \in DOMAIN code : code[i].at \in Nat /\ code[i].bytes \in Nat \ {0}
    /\ \A i, j \in DOMAIN code : i < j => code[i].at + code[i].bytes <= code[j].at

LEMMA OffsetAtIs ==
  ASSUME NEW code, Ordered(code)
  PROVE  /\ \A i \in DOMAIN code : OffsetAt(code, i) = code[i].at
         /\ OffsetAt(code, Len(code) + 1) = code[Len(code)].at + code[Len(code)].bytes
         /\ \A i \in 1 .. Len(code) + 1 : OffsetAt(code, i) \in Nat
<1>1. /\ Len(code) \in Nat \ {0} /\ DOMAIN code = 1 .. Len(code)
      /\ \A i \in DOMAIN code : code[i].at \in Nat /\ code[i].bytes \in Nat \ {0}
  BY DEF Ordered
<1>2. code # <<>>
  BY <1>1
<1>3. \A i \in DOMAIN code : OffsetAt(code, i) = code[i].at
  BY <1>1 DEF OffsetAt
<1>4. OffsetAt(code, Len(code) + 1) = code[Len(code)].at + code[Len(code)].bytes
  BY <1>1, <1>2 DEF OffsetAt, Last
<1>5. \A i \in 1 .. Len(code) + 1 : i \in DOMAIN code \/ i = Len(code) + 1
  BY <1>1
<1>6. code[Len(code)].at \in Nat /\ code[Len(code)].bytes \in Nat
  BY <1>1
<1> QED
  BY <1>1, <1>3, <1>4, <1>5, <1>6

LEMMA OffsetsGrow ==
  ASSUME NEW code, Ordered(code),
         NEW i \in 1 .. Len(code) + 1, NEW j \in 1 .. Len(code) + 1, i < j
  PROVE  OffsetAt(code, i) < OffsetAt(code, j)
<1>1. /\ Len(code) \in Nat \ {0} /\ DOMAIN code = 1 .. Len(code)
      /\ \A a \in DOMAIN code : code[a].at \in Nat /\ code[a].bytes \in Nat \ {0}
      /\ \A a, b \in DOMAIN code : a < b => code[a].at + code[a].bytes <= code[b].at
  BY DEF Ordered
<1>2. i \in DOMAIN code /\ OffsetAt(code, i) = code[i].at
  BY <1>1, OffsetAtIs
<1>3. CASE j \in DOMAIN code
  <2>1. code[i].at + code[i].bytes <= code[j].at
    BY <1>1, <1>2, <1>3
  <2> QED
    BY <1>1, <1>2, <1>3, <2>1, OffsetAtIs
<1>4. CASE j = Len(code) + 1
  <2> DEFINE l == Len(code)
  <2>1. l \in DOMAIN code /\ i <= l
    BY <1>1, <1>2
  <2>2. code[i].at <= code[l].at
    BY <1>1, <1>2, <2>1
  <2>3. OffsetAt(code, j) = code[l].at + code[l].bytes
    BY <1>4, OffsetAtIs
  <2>4. code[l].at \in Nat /\ code[l].bytes \in Nat \ {0} /\ code[i].at \in Nat
    BY <1>1, <1>2, <2>1
  <2> HIDE DEF l
  <2> QED
    BY <1>2, <2>2, <2>3, <2>4
<1> QED
  BY <1>1, <1>3, <1>4

LEMMA SameOffset ==
  ASSUME NEW code, Ordered(code),
         NEW i \in 1 .. Len(code) + 1, NEW j \in 1 .. Len(code) + 1,
         OffsetAt(code, i) = OffsetAt(code, j)
  PROVE  i = j
<1>1. i \in Nat /\ j \in Nat /\ OffsetAt(code, i) \in Nat /\ OffsetAt(code, j) \in Nat
  <2>1. Len(code) \in Nat
    BY DEF Ordered
  <2> QED
    BY <2>1, OffsetAtIs
<1>2. i < j => OffsetAt(code, i) < OffsetAt(code, j)
  BY OffsetsGrow
<1>3. j < i => OffsetAt(code, j) < OffsetAt(code, i)
  BY OffsetsGrow
<1> QED
  BY <1>1, <1>2, <1>3

\* The place in the code of what starts there; the end has the sentinel.
PlaceIn(code, i) == IF i = Sentinel THEN Len(code) + 1 ELSE i

LEMMA StartOf ==
  ASSUME NEW code, Ordered(code),
         NEW i \in {k \in DOMAIN code : code[k].op # "switch_arg"} \cup {Sentinel},
         NEW o, o = OffsetAt(code, PlaceIn(code, i))
  PROVE  StartsAt(code, o) = {i} /\ IsStart(code, o) /\ InstrFromOffset(code, o) = i
<1>1. Len(code) \in Nat \ {0} /\ DOMAIN code = 1 .. Len(code)
  BY DEF Ordered
<1>2. PlaceIn(code, i) \in 1 .. Len(code) + 1
  BY <1>1 DEF PlaceIn, Sentinel
<1>3. ASSUME NEW j \in DOMAIN code, code[j].at = o
      PROVE  j = i
  <2>1. j \in 1 .. Len(code) + 1 /\ OffsetAt(code, j) = OffsetAt(code, PlaceIn(code, i))
    BY <1>1, <1>3, OffsetAtIs
  <2>2. j = PlaceIn(code, i)
    BY <1>2, <2>1, SameOffset
  <2> QED
    BY <1>1, <2>2 DEF PlaceIn
<1>4. OffsetAt(code, Len(code) + 1) = o => i = Sentinel
  <2>1. ASSUME OffsetAt(code, Len(code) + 1) = o PROVE i = Sentinel
    <3>1. Len(code) + 1 \in 1 .. Len(code) + 1
      BY <1>1
    <3>2. Len(code) + 1 = PlaceIn(code, i)
      BY <1>2, <2>1, <3>1, SameOffset
    <3> QED
      BY <1>1, <3>2 DEF PlaceIn
  <2> QED
    BY <2>1
<1>5. CASE i = Sentinel
  <2>1. OffsetAt(code, Len(code) + 1) = o
    BY <1>5 DEF PlaceIn
  <2>2. \A j \in DOMAIN code : code[j].at # o
    BY <1>1, <1>3, <1>5 DEF Sentinel
  <2>3. StartsAt(code, o) = {i}
    BY <1>5, <2>1, <2>2 DEF StartsAt
  <2> QED
    BY <2>3 DEF IsStart, InstrFromOffset
<1>6. CASE i # Sentinel
  <2>1. i \in DOMAIN code /\ code[i].op # "switch_arg" /\ code[i].at = o
    BY <1>6, OffsetAtIs DEF PlaceIn
  <2>2. OffsetAt(code, Len(code) + 1) # o
    BY <1>4, <1>6
  <2>3. StartsAt(code, o) = {i}
    BY <1>3, <2>1, <2>2 DEF StartsAt
  <2> QED
    BY <2>3 DEF IsStart, InstrFromOffset
<1> QED
  BY <1>5, <1>6

\* The instruction behind the targets of a switch.
BehindArgs(code, i, k) ==
    /\ k \in i + 1 .. Len(code) + 1
    /\ k = Len(code) + 1 \/ code[k].op # "switch_arg"
    /\ \A l \in i .. k - 1 : code[l].op = "switch_arg"

LEMMA BehindArgsUnique ==
  ASSUME NEW code, Len(code) \in Nat, NEW i \in Nat, NEW k, NEW m,
         BehindArgs(code, i, k), BehindArgs(code, i, m)
  PROVE  k = m
<1>1. k \in Nat /\ m \in Nat /\ k > i /\ m > i /\ k <= Len(code) + 1 /\ m <= Len(code) + 1
  BY DEF BehindArgs
<1>2. ~(k < m)
  <2>1. ASSUME k < m PROVE FALSE
    <3>1. k \in i .. m - 1 /\ k # Len(code) + 1
      BY <1>1, <2>1
    <3> QED
      BY <3>1 DEF BehindArgs
  <2> QED
    BY <2>1
<1>3. ~(m < k)
  <2>1. ASSUME m < k PROVE FALSE
    <3>1. m \in i .. k - 1 /\ m # Len(code) + 1
      BY <1>1, <2>1
    <3> QED
      BY <3>1 DEF BehindArgs
  <2> QED
    BY <2>1
<1> QED
  BY <1>1, <1>2, <1>3

LEMMA BehindArgsExists ==
  ASSUME NEW code, Len(code) \in Nat, NEW i \in 1 .. Len(code), code[i].op = "switch_arg"
  PROVE  \E k \in i + 1 .. Len(code) + 1 : BehindArgs(code, i, k)
<1> DEFINE S == {k \in i + 1 .. Len(code) + 1 : k = Len(code) + 1 \/ code[k].op # "switch_arg"}
<1>1. S \in SUBSET Nat /\ S # {}
  <2>1. Len(code) + 1 \in S
    OBVIOUS
  <2> QED
    BY <2>1
<1>2. PICK k \in S : \A y \in S : k <= y
  <2> HIDE DEF S
  <2> QED
    BY <1>1, Least
<1>3. ASSUME NEW l \in i .. k - 1
      PROVE  code[l].op = "switch_arg"
  <2>1. CASE l = i
    BY <2>1
  <2>2. CASE l # i
    <3>1. l \in i + 1 .. Len(code) + 1 /\ l < k /\ l # Len(code) + 1
      BY <2>2
    <3>2. l \notin S
      BY <1>2, <3>1
    <3> QED
      BY <3>1, <3>2
  <2> QED
    BY <2>1, <2>2
<1> QED
  BY <1>3 DEF BehindArgs

\* Distances count from the end of some instruction, which one depends on the
\* operations alone.
LEMMA BranchBaseSame ==
  ASSUME NEW code, NEW lay, Len(code) \in Nat, Len(lay) = Len(code),
         NEW i \in 1 .. Len(code),
         \A j \in 1 .. Len(code) : lay[j].op = code[j].op,
         \A j \in 1 .. Len(code) + 1 : OffsetAt(lay, j) = OffsetAt(code, j)
  PROVE  /\ BranchBase(lay, i) = BranchBase(code, i)
         /\ \E k \in 1 .. Len(code) + 1 : BranchBase(code, i) = OffsetAt(code, k)
<1>1. CASE code[i].op # "switch_arg"
  BY <1>1 DEF BranchBase
<1>2. CASE code[i].op = "switch_arg"
  <2> DEFINE kc == CHOOSE k \in i + 1 .. Len(code) + 1 :
                      /\ k = Len(code) + 1 \/ code[k].op # "switch_arg"
                      /\ \A l \in i .. k - 1 : code[l].op = "switch_arg"
             kl == CHOOSE k \in i + 1 .. Len(lay) + 1 :
                      /\ k = Len(lay) + 1 \/ lay[k].op # "switch_arg"
                      /\ \A l \in i .. k - 1 : lay[l].op = "switch_arg"
  <2>1. BehindArgs(code, i, kc)
    <3>1. PICK k \in i + 1 .. Len(code) + 1 : BehindArgs(code, i, k)
      BY <1>2, BehindArgsExists
    <3> QED
      BY <3>1 DEF BehindArgs
  <2>2. BehindArgs(lay, i, kl)
    <3>1. PICK k \in i + 1 .. Len(lay) + 1 : BehindArgs(lay, i, k)
      BY <1>2, BehindArgsExists
    <3> QED
      BY <3>1 DEF BehindArgs
  <2>3. BranchBase(code, i) = OffsetAt(code, kc)
    BY <1>2 DEF BranchBase
  <2>4. BranchBase(lay, i) = OffsetAt(lay, kl)
    BY <1>2 DEF BranchBase
  <2> HIDE DEF kc, kl
  <2>5. BehindArgs(code, i, kl)
    BY <2>2 DEF BehindArgs
  <2>6. kl = kc
    BY <2>1, <2>5, BehindArgsUnique
  <2>7. kc \in 1 .. Len(code) + 1
    BY <2>1 DEF BehindArgs
  <2> QED
    BY <2>3, <2>4, <2>6, <2>7
<1> QED
  BY <1>1, <1>2

----------------------------------------------------------------------------
(* The offsets of one pass                                                  *)

\* What the pass computes: each offset from the one before.
Adds(at, n, bytes) ==
    at = [i \in 1 .. n |-> IF i = 1 THEN 0 ELSE at[i-1] + bytes[i-1]]

LEMMA AddsExists ==
  ASSUME NEW bytes, NEW n \in Nat
  PROVE  \E at : Adds(at, n, bytes)
<1> DEFINE S == {k \in Nat : \E at : Adds(at, k, bytes)}
<1>1. 0 \in S
  <2> DEFINE at == [i \in 1 .. 0 |-> 0]
  <2>1. Adds(at, 0, bytes)
    BY DEF Adds
  <2> QED
    BY <2>1
<1>2. ASSUME NEW k \in Nat, k \in S
      PROVE  k + 1 \in S
  <2>1. PICK at : Adds(at, k, bytes)
    BY <1>2
  <2> DEFINE more == [i \in 1 .. k + 1 |->
                        IF i = 1 THEN 0 ELSE at[i-1] + bytes[i-1]]
  <2>2. \A i \in 1 .. k : at[i] = IF i = 1 THEN 0 ELSE at[i-1] + bytes[i-1]
    BY <2>1 DEF Adds
  <2>3. \A i \in 1 .. k : more[i] = at[i]
    BY <2>2
  <2>4. \A i \in 1 .. k + 1 : i # 1 => i - 1 \in 1 .. k /\ more[i-1] = at[i-1]
    BY <2>3
  <2>5. more = [i \in 1 .. k + 1 |-> IF i = 1 THEN 0 ELSE more[i-1] + bytes[i-1]]
    <3>1. \A i \in 1 .. k + 1 : more[i] = IF i = 1 THEN 0 ELSE more[i-1] + bytes[i-1]
      BY <2>4
    <3>2. more = [i \in 1 .. k + 1 |-> more[i]]
      OBVIOUS
    <3> HIDE DEF more
    <3> QED
      BY <3>1, <3>2
  <2> HIDE DEF more
  <2>6. Adds(more, k + 1, bytes)
    BY <2>5 DEF Adds
  <2> QED
    BY <2>6
<1> HIDE DEF S
<1>3. Nat \subseteq S
  BY <1>1, <1>2, SetInduction
<1> QED
  BY <1>3 DEF S

LEMMA AddsGrows ==
  ASSUME NEW bytes, NEW n \in Nat, NEW at, Adds(at, n, bytes),
         \A i \in 1 .. n : bytes[i] \in Nat \ {0}
  PROVE  /\ \A i \in 1 .. n : at[i] \in Nat
         /\ \A i, j \in 1 .. n : i < j => at[i] + bytes[i] <= at[j]
<1>1. \A i \in 1 .. n : at[i] = IF i = 1 THEN 0 ELSE at[i-1] + bytes[i-1]
  BY DEF Adds
<1> DEFINE S == {k \in Nat : k <= n =>
                    /\ \A j \in 1 .. k : at[j] \in Nat
                    /\ \A i, j \in 1 .. k : i < j => at[i] + bytes[i] <= at[j]}
<1>2. 0 \in S
  OBVIOUS
<1>3. ASSUME NEW k \in Nat, k \in S
      PROVE  k + 1 \in S
  <2> SUFFICES ASSUME k + 1 <= n
               PROVE  /\ \A j \in 1 .. k + 1 : at[j] \in Nat
                      /\ \A i, j \in 1 .. k + 1 : i < j => at[i] + bytes[i] <= at[j]
    OBVIOUS
  <2>1. /\ \A j \in 1 .. k : at[j] \in Nat
        /\ \A i, j \in 1 .. k : i < j => at[i] + bytes[i] <= at[j]
    BY <1>3
  <2> HIDE DEF S
  <2>2. CASE k = 0
    <3>1. at[1] = 0
      BY <1>1
    <3> QED
      BY <2>2, <3>1
  <2>3. CASE k # 0
    <3>1. at[k + 1] = at[k] + bytes[k]
      <4>1. k + 1 \in 1 .. n /\ k + 1 # 1 /\ (k + 1) - 1 = k
        BY <2>3
      <4> QED
        BY <1>1, <4>1
    <3>2. k \in 1 .. k /\ k \in 1 .. n
      BY <2>3
    <3>3. at[k] \in Nat /\ bytes[k] \in Nat \ {0}
      BY <2>1, <3>2
    <3>4. at[k + 1] \in Nat
      BY <3>1, <3>3
    <3>5. ASSUME NEW i \in 1 .. k
          PROVE  at[i] + bytes[i] <= at[k + 1]
      <4>1. CASE i = k
        BY <3>1, <3>3, <4>1
      <4>2. CASE i # k
        <5>1. at[i] + bytes[i] <= at[k]
          BY <2>1, <3>2, <4>2
        <5>2. at[i] \in Nat /\ bytes[i] \in Nat
          BY <2>1
        <5> QED
          BY <3>1, <3>3, <5>1, <5>2
      <4> QED
        BY <4>1, <4>2
    <3>6. \A j \in 1 .. k + 1 : j \in 1 .. k \/ j = k + 1
      OBVIOUS
    <3>7. ASSUME NEW i \in 1 .. k + 1, NEW j \in 1 .. k + 1, i < j
          PROVE  at[i] + bytes[i] <= at[j]
      <4>1. i \in 1 .. k
        BY <3>7
      <4> QED
        BY <2>1, <3>5, <3>6, <3>7, <4>1
    <3> QED
      BY <2>1, <3>4, <3>6, <3>7
  <2> QED
    BY <2>2, <2>3
<1> HIDE DEF S
<1>4. n \in S
  BY <1>2, <1>3, SetInduction
<1>5. n <= n
  OBVIOUS
<1> QED
  BY <1>4, <1>5 DEF S

BytesOf(r) == [i \in 1 .. Len(r.il) |-> r.instr[r.il[i]].bytes]

LEMMA OffsetsAdd ==
  ASSUME NEW r, ListOK(r)
  PROVE  Adds(Offsets(r), Len(r.il), BytesOf(r))
<1> DEFINE n == Len(r.il)
<1>1. n \in Nat /\ DOMAIN r.il = 1 .. n
  BY ListFacts
<1> HIDE DEF n
<1>2. ASSUME NEW at
      PROVE  Adds(at, n, BytesOf(r))
                <=> at = [i \in DOMAIN r.il |->
                            IF i = 1 THEN 0 ELSE at[i-1] + r.instr[r.il[i-1]].bytes]
  <2>1. ASSUME NEW i \in 1 .. n
        PROVE  (IF i = 1 THEN 0 ELSE at[i-1] + BytesOf(r)[i-1])
                  = (IF i = 1 THEN 0 ELSE at[i-1] + r.instr[r.il[i-1]].bytes)
    BY <1>1 DEF BytesOf, n
  <2>2. [i \in 1 .. n |-> IF i = 1 THEN 0 ELSE at[i-1] + BytesOf(r)[i-1]]
           = [i \in 1 .. n |-> IF i = 1 THEN 0 ELSE at[i-1] + r.instr[r.il[i-1]].bytes]
    BY <2>1
  <2> QED
    BY <1>1, <2>2 DEF Adds
<1>3. \E at : at = [i \in DOMAIN r.il |->
                      IF i = 1 THEN 0 ELSE at[i-1] + r.instr[r.il[i-1]].bytes]
  BY <1>1, <1>2, AddsExists
<1>4. Offsets(r) = [i \in DOMAIN r.il |->
                      IF i = 1 THEN 0 ELSE Offsets(r)[i-1] + r.instr[r.il[i-1]].bytes]
  BY <1>3 DEF Offsets
<1> QED
  BY <1>2, <1>4 DEF n

LEMMA LayoutOrdered ==
  ASSUME NEW r, ListOK(r)
  PROVE  /\ Ordered(Layout(r)) /\ Len(Layout(r)) = Len(r.il)
         /\ \A i \in DOMAIN r.il : /\ Layout(r)[i].op = r.instr[r.il[i]].op
                                   /\ Layout(r)[i].bytes = r.instr[r.il[i]].bytes
<1>1. Len(r.il) \in Nat \ {0} /\ DOMAIN r.il = 1 .. Len(r.il)
  BY ListFacts
<1>2. \A i \in 1 .. Len(r.il) : BytesOf(r)[i] = r.instr[r.il[i]].bytes
  BY DEF BytesOf
<1>3. ASSUME NEW i \in 1 .. Len(r.il)
      PROVE  BytesOf(r)[i] \in Nat \ {0}
  <2>1. r.il[i] \in Listed(r)
    BY <1>1 DEF Listed
  <2>2. r.instr[r.il[i]] \in Instr
    BY <2>1, ListedPlace
  <2> QED
    BY <1>2, <2>2 DEF Instr
<1>4. /\ \A i \in 1 .. Len(r.il) : Offsets(r)[i] \in Nat
      /\ \A i, j \in 1 .. Len(r.il) : i < j => Offsets(r)[i] + BytesOf(r)[i] <= Offsets(r)[j]
  BY <1>1, <1>3, OffsetsAdd, AddsGrows
<1>5. /\ DOMAIN Layout(r) = 1 .. Len(r.il) /\ Len(Layout(r)) = Len(r.il)
      /\ \A i \in 1 .. Len(r.il) : /\ Layout(r)[i].op = r.instr[r.il[i]].op
                                   /\ Layout(r)[i].bytes = r.instr[r.il[i]].bytes
                                   /\ Layout(r)[i].at = Offsets(r)[i]
  BY <1>1 DEF Layout
<1>6. Ordered(Layout(r))
  BY <1>1, <1>2, <1>3, <1>4, <1>5 DEF Ordered
<1> QED
  BY <1>1, <1>5, <1>6

----------------------------------------------------------------------------
(* Export                                                                   *)

LEMMA EncodedCode ==
  ASSUME NEW r, ListOK(r), NEW code, code = Encode(r).code
  PROVE  /\ Len(code) = Len(r.il) /\ Ordered(code)
         /\ \A i \in DOMAIN r.il : /\ code[i].op = r.instr[r.il[i]].op
                                   /\ Layout(r)[i].op = code[i].op
         /\ \A j \in 1 .. Len(r.il) + 1 : OffsetAt(code, j) = OffsetAt(Layout(r), j)
<1> DEFINE lay == Layout(r)
           n == Len(r.il)
<1>1. n \in Nat \ {0} /\ DOMAIN r.il = 1 .. n
  BY ListFacts
<1>2. /\ Ordered(lay) /\ Len(lay) = n
      /\ \A i \in 1 .. n : /\ lay[i].op = r.instr[r.il[i]].op
                           /\ lay[i].bytes = r.instr[r.il[i]].bytes
  BY <1>1, LayoutOrdered
<1>3. /\ DOMAIN code = 1 .. n
      /\ \A i \in 1 .. n : /\ code[i].op = r.instr[r.il[i]].op
                           /\ code[i].bytes = r.instr[r.il[i]].bytes
                           /\ code[i].at = OffsetOf(r, r.il[i])
  BY <1>1 DEF Encode
<1>4. Len(code) = n
  <2>1. code = [i \in DOMAIN r.il |-> code[i]]
    BY <1>1 DEF Encode
  <2> QED
    BY <1>1, <2>1
<1> HIDE DEF n, lay
<1>5. ASSUME NEW i \in 1 .. n
      PROVE  code[i].at = lay[i].at
  <2>1. Place(r, r.il[i]) = i
    BY <1>1, PlaceOf
  <2>2. i \in DOMAIN lay
    BY <1>2 DEF Ordered
  <2>3. OffsetAt(lay, i) = lay[i].at
    BY <1>2, <2>2, OffsetAtIs
  <2> QED
    BY <1>3, <2>1, <2>3 DEF OffsetOf, lay
<1>6. /\ DOMAIN lay = 1 .. n
      /\ \A i \in DOMAIN lay : lay[i].at \in Nat /\ lay[i].bytes \in Nat \ {0}
      /\ \A i, j \in DOMAIN lay : i < j => lay[i].at + lay[i].bytes <= lay[j].at
  BY <1>2 DEF Ordered
<1>7. \A i \in 1 .. n : code[i].at = lay[i].at /\ code[i].bytes = lay[i].bytes
  BY <1>2, <1>3, <1>5
<1>8. Ordered(code)
  <2>1. \A i \in 1 .. n : code[i].at \in Nat /\ code[i].bytes \in Nat \ {0}
    BY <1>6, <1>7
  <2>2. \A i, j \in 1 .. n : i < j => code[i].at + code[i].bytes <= code[j].at
    BY <1>6, <1>7
  <2> QED
    BY <1>1, <1>3, <1>4, <2>1, <2>2 DEF Ordered
<1>9. ASSUME NEW j \in 1 .. n + 1
      PROVE  OffsetAt(code, j) = OffsetAt(lay, j)
  <2>1. CASE j \in 1 .. n
    BY <1>2, <1>3, <1>6, <1>7, <1>8, <2>1, OffsetAtIs
  <2>2. CASE j = n + 1
    <3>1. n \in 1 .. n
      BY <1>1
    <3>2. OffsetAt(code, n + 1) = code[n].at + code[n].bytes
      BY <1>4, <1>8, OffsetAtIs
    <3>3. OffsetAt(lay, n + 1) = lay[n].at + lay[n].bytes
      BY <1>2, OffsetAtIs
    <3> QED
      BY <1>7, <2>2, <3>1, <3>2, <3>3
  <2> QED
    BY <1>1, <2>1, <2>2
<1> QED
  BY <1>1, <1>2, <1>3, <1>4, <1>8, <1>9 DEF n, lay

LEMMA AsInt8Fits ==
  ASSUME NEW d \in Int, FitsInt8(d)
  PROVE  AsInt8(d) = d
BY DEF FitsInt8, AsInt8

\* The offset of a start is where it starts in the exported code.
LEMMA ExportedStart ==
  ASSUME NEW r, ListOK(r), NEW code, code = Encode(r).code, NEW target \in Starts(r)
  PROVE  /\ IsStart(code, OffsetOf(r, target))
         /\ InstrFromOffset(code, OffsetOf(r, target))
                = IF target = Sentinel THEN Sentinel ELSE Place(r, target)
         /\ OffsetOf(r, target) \in Nat
<1> DEFINE n == Len(r.il)
           start == IF target = Sentinel THEN Sentinel ELSE Place(r, target)
           goal == OffsetOf(r, target)
<1>1. n \in Nat \ {0} /\ DOMAIN r.il = 1 .. n
  BY ListFacts
<1>2. /\ Len(code) = n /\ Ordered(code)
      /\ \A j \in 1 .. n : code[j].op = r.instr[r.il[j]].op
      /\ \A j \in 1 .. n + 1 : OffsetAt(code, j) = OffsetAt(Layout(r), j)
  BY <1>1, EncodedCode
<1>3. start \in {k \in DOMAIN code : code[k].op # "switch_arg"} \cup {Sentinel}
  <2>1. CASE target = Sentinel
    BY <2>1
  <2>2. CASE target # Sentinel
    <3>1. target \in Listed(r) /\ r.instr[target].op # "switch_arg"
      BY <2>2 DEF Starts
    <3>2. Place(r, target) \in 1 .. n /\ r.il[Place(r, target)] = target
      BY <1>1, <3>1, ListedPlace
    <3>3. DOMAIN code = 1 .. n
      BY <1>2 DEF Ordered
    <3> QED
      BY <1>2, <2>2, <3>1, <3>2, <3>3
  <2> QED
    BY <2>1, <2>2
<1>4. Place(r, target) = PlaceIn(code, start) /\ PlaceIn(code, start) \in 1 .. n + 1
  <2>1. CASE target = Sentinel
    BY <1>1, <1>2, <2>1, SentinelPlace DEF PlaceIn
  <2>2. CASE target # Sentinel
    <3>1. Place(r, target) \in 1 .. n
      BY <1>1, <2>2, ListedPlace DEF Starts
    <3> QED
      BY <1>1, <2>2, <3>1 DEF PlaceIn, Sentinel
  <2> QED
    BY <2>1, <2>2
<1>5. goal = OffsetAt(code, PlaceIn(code, start)) /\ goal \in Nat
  BY <1>2, <1>4, OffsetAtIs DEF OffsetOf
<1> HIDE DEF goal, start
<1>6. IsStart(code, goal) /\ InstrFromOffset(code, goal) = start
  BY <1>2, <1>3, <1>5, StartOf
<1> QED
  BY <1>5, <1>6 DEF goal, start

\* Every branch of the exported code leads to the instruction it named.
LEMMA ExportedBranches ==
  ASSUME NEW r, ListOK(r), BranchesOK(r), TooFar(r) = {},
         NEW code, code = Encode(r).code,
         NEW i \in DOMAIN r.il, code[i].op \in Branch,
         NEW target, target = r.instr[r.il[i]].target
  PROVE  /\ IsStart(code, TargetOffset(code, i))
         /\ InstrFromOffset(code, TargetOffset(code, i))
                = IF target = Sentinel THEN Sentinel ELSE Place(r, target)
<1> DEFINE n == Len(r.il)
           id == r.il[i]
           start == IF target = Sentinel THEN Sentinel ELSE Place(r, target)
           base == BranchBase(Layout(r), i)
           goal == OffsetOf(r, target)
<1>1. n \in Nat \ {0} /\ DOMAIN r.il = 1 .. n /\ id \in Listed(r) /\ Place(r, id) = i
  BY ListFacts, PlaceOf DEF Listed
<1>2. /\ Len(code) = n /\ Ordered(code)
      /\ \A j \in 1 .. n : code[j].op = r.instr[r.il[j]].op /\ Layout(r)[j].op = code[j].op
      /\ \A j \in 1 .. n + 1 : OffsetAt(code, j) = OffsetAt(Layout(r), j)
  BY <1>1, EncodedCode
<1>3. Len(Layout(r)) = n
  BY LayoutOrdered
<1>4. target \in Starts(r)
  BY <1>1, <1>2 DEF BranchesOK
<1>5. /\ IsStart(code, goal) /\ InstrFromOffset(code, goal) = start
      /\ goal \in Nat
  BY <1>4, ExportedStart
<1>6. /\ BranchBase(code, i) = base
      /\ \E k \in 1 .. n + 1 : BranchBase(code, i) = OffsetAt(code, k)
  <2>1. /\ Len(code) \in Nat /\ Len(Layout(r)) = Len(code) /\ i \in 1 .. Len(code)
        /\ \A j \in 1 .. Len(code) : Layout(r)[j].op = code[j].op
        /\ \A j \in 1 .. Len(code) + 1 : OffsetAt(Layout(r), j) = OffsetAt(code, j)
    BY <1>1, <1>2, <1>3
  <2>2. /\ BranchBase(Layout(r), i) = BranchBase(code, i)
        /\ \E k \in 1 .. Len(code) + 1 : BranchBase(code, i) = OffsetAt(code, k)
    <3> DEFINE lay == Layout(r)
    <3> HIDE DEF lay
    <3> SUFFICES /\ BranchBase(lay, i) = BranchBase(code, i)
                 /\ \E k \in 1 .. Len(code) + 1 : BranchBase(code, i) = OffsetAt(code, k)
      BY DEF lay
    <3>1. /\ Len(code) \in Nat /\ Len(lay) = Len(code) /\ i \in 1 .. Len(code)
          /\ \A j \in 1 .. Len(code) : lay[j].op = code[j].op
          /\ \A j \in 1 .. Len(code) + 1 : OffsetAt(lay, j) = OffsetAt(code, j)
      BY <2>1 DEF lay
    <3> QED
      BY <3>1, BranchBaseSame
  <2> QED
    BY <1>2, <2>2
<1>7. base \in Nat
  BY <1>2, <1>6, OffsetAtIs
<1>8. Delta(r, id) = goal - base
  BY <1>1 DEF Delta
<1> HIDE DEF base, goal, start
<1>9. code[i].delta = goal - base
  <2>1. code[i].delta = IF r.instr[id].op \in Short THEN AsInt8(Delta(r, id))
                        ELSE IF r.instr[id].op \in Branch THEN Delta(r, id) ELSE 0
    BY DEF Encode
  <2>2. r.instr[id].op \in Branch
    BY <1>1, <1>2
  <2>3. CASE r.instr[id].op \in Short
    <3>1. id \in DOMAIN r.instr
      BY <1>1, ListedPlace
    <3>2. FitsInt8(Delta(r, id))
      BY <2>3, <3>1 DEF TooFar
    <3>3. Delta(r, id) \in Int
      BY <1>5, <1>7, <1>8
    <3> QED
      BY <1>8, <2>1, <2>3, <3>2, <3>3, AsInt8Fits
  <2>4. CASE r.instr[id].op \notin Short
    BY <1>8, <2>1, <2>2, <2>4
  <2> QED
    BY <2>3, <2>4
<1>10. TargetOffset(code, i) = goal
  BY <1>5, <1>6, <1>7, <1>9 DEF TargetOffset
<1> QED
  BY <1>5, <1>10 DEF start

----------------------------------------------------------------------------
(* The clauses of the exported body                                         *)

LEMMA NextPlace ==
  ASSUME NEW r, ListOK(r), NEW id \in Listed(r)
  PROVE  Place(r, NextInstr(r, id)) = Place(r, id) + 1
<1>1. Len(r.il) \in Nat \ {0} /\ DOMAIN r.il = 1 .. Len(r.il) /\ Place(r, id) \in DOMAIN r.il
  BY ListFacts, ListedPlace
<1>2. CASE Place(r, id) = Len(r.il)
  BY <1>2, SentinelPlace DEF NextInstr
<1>3. CASE Place(r, id) # Len(r.il)
  <2>1. Place(r, id) + 1 \in DOMAIN r.il
    BY <1>1, <1>3
  <2> QED
    BY <1>3, <2>1, PlaceOf DEF NextInstr
<1> QED
  BY <1>2, <1>3

LEMMA NextStarts ==
  ASSUME NEW r, ListOK(r), NEW id \in Listed(r), StartFollows(r, id)
  PROVE  NextInstr(r, id) \in Starts(r)
<1>1. Len(r.il) \in Nat \ {0} /\ DOMAIN r.il = 1 .. Len(r.il) /\ Place(r, id) \in DOMAIN r.il
  BY ListFacts, ListedPlace
<1>2. CASE Place(r, id) = Len(r.il)
  BY <1>2 DEF NextInstr, Starts
<1>3. CASE Place(r, id) # Len(r.il)
  <2> DEFINE next == r.il[Place(r, id) + 1]
  <2>1. Place(r, id) + 1 \in DOMAIN r.il
    BY <1>1, <1>3
  <2>2. next \in Listed(r) /\ Place(r, next) = Place(r, id) + 1
    BY <2>1, PlaceOf DEF Listed
  <2> QED
    BY <1>3, <2>2 DEF NextInstr, StartFollows, Starts
<1> QED
  BY <1>2, <1>3

LEMMA OffsetOrder ==
  ASSUME NEW r, ListOK(r), NEW a \in Listed(r), NEW b \in Listed(r)
  PROVE  /\ Before(r, a, b) => OffsetOf(r, a) < OffsetOf(r, b)
         /\ NotAfter(r, a, b) => OffsetOf(r, a) < OffsetOf(r, NextInstr(r, b))
         /\ NotAfter(r, a, b) => OffsetOf(r, a) <= OffsetOf(r, b)
         /\ Before(r, a, b) => OffsetOf(r, NextInstr(r, a)) <= OffsetOf(r, b)
         /\ NotAfter(r, a, b) => OffsetOf(r, NextInstr(r, a)) <= OffsetOf(r, NextInstr(r, b))
<1> DEFINE lay == Layout(r)
           At(i) == OffsetAt(lay, i)
           x == Place(r, a)
           y == Place(r, b)
<1>1. Ordered(lay) /\ Len(lay) = Len(r.il)
  BY LayoutOrdered
<1>2. /\ Len(lay) \in Nat /\ x \in 1 .. Len(lay) /\ y \in 1 .. Len(lay)
      /\ Place(r, NextInstr(r, a)) = x + 1 /\ Place(r, NextInstr(r, b)) = y + 1
  BY <1>1, ListFacts, ListedPlace, NextPlace
<1>3. /\ OffsetOf(r, a) = At(x) /\ OffsetOf(r, b) = At(y)
      /\ OffsetOf(r, NextInstr(r, a)) = At(x + 1) /\ OffsetOf(r, NextInstr(r, b)) = At(y + 1)
  BY <1>2 DEF OffsetOf
<1> HIDE DEF lay
<1>4. \A i, j \in 1 .. Len(lay) + 1 : (i <= j => At(i) <= At(j)) /\ (i < j => At(i) < At(j))
  <2>1. ASSUME NEW i \in 1 .. Len(lay) + 1, NEW j \in 1 .. Len(lay) + 1, i <= j
        PROVE  At(i) <= At(j) /\ (i < j => At(i) < At(j))
    <3>1. At(i) \in Nat /\ At(j) \in Nat
      BY <1>1, OffsetAtIs
    <3>2. i < j => At(i) < At(j)
      BY <1>1, OffsetsGrow
    <3>3. i < j \/ i = j
      BY <1>2, <2>1
    <3> QED
      BY <3>1, <3>2, <3>3
  <2> QED
    BY <1>2, <2>1
<1> HIDE DEF At, x, y
<1>5. /\ x \in 1 .. Len(lay) + 1 /\ x + 1 \in 1 .. Len(lay) + 1
      /\ y \in 1 .. Len(lay) + 1 /\ y + 1 \in 1 .. Len(lay) + 1
      /\ (x < y => x + 1 <= y) /\ (x <= y => x + 1 <= y + 1 /\ x < y + 1)
  BY <1>2
<1>6. NotAfter(r, a, b) => OffsetOf(r, a) <= OffsetOf(r, b)
  BY <1>3, <1>4, <1>5 DEF NotAfter, x, y
<1>7. Before(r, a, b) => OffsetOf(r, NextInstr(r, a)) <= OffsetOf(r, b)
  BY <1>3, <1>4, <1>5 DEF Before, x, y
<1>8. NotAfter(r, a, b) => OffsetOf(r, NextInstr(r, a)) <= OffsetOf(r, NextInstr(r, b))
  BY <1>3, <1>4, <1>5 DEF NotAfter, x, y
<1>9. Before(r, a, b) => OffsetOf(r, a) < OffsetOf(r, b)
  BY <1>3, <1>4, <1>5 DEF Before, x, y
<1>10. NotAfter(r, a, b) => OffsetOf(r, a) < OffsetOf(r, NextInstr(r, b))
  BY <1>3, <1>4, <1>5 DEF NotAfter, x, y
<1> QED
  BY <1>6, <1>7, <1>8, <1>9, <1>10

LEMMA ExportedClauses ==
  ASSUME NEW r, ListOK(r), ClausesOK(r)
  PROVE  Nested(Encode(r).clauses)
<1> DEFINE cs == Encode(r).clauses
<1>1. /\ DOMAIN cs = DOMAIN r.eh
      /\ \A k \in DOMAIN r.eh :
            /\ cs[k].try = OffsetOf(r, r.eh[k].tryBegin)
            /\ cs[k].tryEnd = OffsetOf(r, r.eh[k].tryEnd)
            /\ cs[k].handler = OffsetOf(r, r.eh[k].handlerBegin)
            /\ cs[k].handlerEnd = OffsetOf(r, NextInstr(r, r.eh[k].handlerEnd))
  BY DEF Encode
<1> HIDE DEF cs
<1>2. ASSUME NEW k \in DOMAIN r.eh, NEW l \in DOMAIN r.eh, k < l
      PROVE  Within(cs[k], cs[l]) \/ Apart(cs[k], cs[l])
  <2>1. ClauseListed(r, r.eh[k]) /\ ClauseListed(r, r.eh[l])
    BY DEF ClausesOK
  <2>2. WithinIn(r, r.eh[k], r.eh[l]) \/ ApartIn(r, r.eh[k], r.eh[l])
    BY <1>2 DEF ClausesOK
  <2>3. CASE WithinIn(r, r.eh[k], r.eh[l])
    <3>1. Within(cs[k], cs[l])
      BY <1>1, <2>1, <2>3, OffsetOrder DEF WithinIn, Within, ClauseListed
    <3> QED
      BY <3>1
  <2>4. CASE ApartIn(r, r.eh[k], r.eh[l])
    <3>1. Apart(cs[k], cs[l])
      BY <1>1, <2>1, <2>4, OffsetOrder DEF ApartIn, Apart, ClauseListed
    <3> QED
      BY <3>1
  <2> QED
    BY <2>2, <2>3, <2>4
<1> QED
  BY <1>1, <1>2 DEF Nested, cs

\* Each clause begins and ends where an instruction does, in order.
LEMMA ExportedBounds ==
  ASSUME NEW r, ListOK(r), ClausesOK(r), StartsOK(r), NEW b, b = Encode(r),
         NEW k \in DOMAIN b.clauses, NEW c, c = b.clauses[k]
  PROVE  /\ \A o \in {c.try, c.tryEnd, c.handler, c.handlerEnd} : IsStart(b.code, o)
         /\ c.try < c.tryEnd /\ c.tryEnd <= c.handler /\ c.handler < c.handlerEnd
<1> DEFINE x == r.eh[k]
<1>1. k \in DOMAIN r.eh
  BY DEF Encode
<1>2. /\ c.try = OffsetOf(r, x.tryBegin) /\ c.tryEnd = OffsetOf(r, x.tryEnd)
      /\ c.handler = OffsetOf(r, x.handlerBegin)
      /\ c.handlerEnd = OffsetOf(r, NextInstr(r, x.handlerEnd))
  BY <1>1 DEF Encode
<1>3. ClauseListed(r, x) /\ ClauseOrdered(r, x)
  BY <1>1 DEF ClausesOK, StartsOK
<1> HIDE DEF x
<1>4. {x.tryBegin, x.tryEnd, x.handlerBegin, NextInstr(r, x.handlerEnd)} \subseteq Starts(r)
  BY <1>3, NextStarts DEF ClauseListed, ClauseOrdered
<1>5. \A o \in {c.try, c.tryEnd, c.handler, c.handlerEnd} : IsStart(b.code, o)
  BY <1>2, <1>4, ExportedStart
<1>6. c.try < c.tryEnd /\ c.tryEnd <= c.handler /\ c.handler < c.handlerEnd
  BY <1>2, <1>3, OffsetOrder DEF ClauseListed, ClauseOrdered
<1> QED
  BY <1>5, <1>6

----------------------------------------------------------------------------
(* Edits that leave the list as it is                                       *)

LEMMA SameList ==
  ASSUME NEW r, NEW s, s.il = r.il, s.eh = r.eh
  PROVE  /\ \A id : Place(s, id) = Place(r, id)
         /\ Listed(s) = Listed(r)
         /\ ClausesOK(r) => ClausesOK(s)
<1>1. \A id : Place(s, id) = Place(r, id)
  BY DEF Place
<1>2. Listed(s) = Listed(r)
  BY DEF Listed
<1>3. \A a, b : (Before(s, a, b) <=> Before(r, a, b)) /\ (NotAfter(s, a, b) <=> NotAfter(r, a, b))
  BY <1>1 DEF Before, NotAfter
<1>4. \A c, d : (WithinIn(s, c, d) <=> WithinIn(r, c, d)) /\ (ApartIn(s, c, d) <=> ApartIn(r, c, d))
  BY <1>3 DEF WithinIn, ApartIn
<1>5. \A c : ClauseListed(s, c) <=> ClauseListed(r, c)
  BY <1>2 DEF ClauseListed
<1>6. ASSUME ClausesOK(r)
      PROVE  ClausesOK(s)
  <2>1. s.eh \in Seq(EHClause)
    BY <1>6 DEF ClausesOK
  <2>2. \A k \in DOMAIN s.eh : ClauseListed(s, s.eh[k])
    BY <1>5, <1>6 DEF ClausesOK
  <2>3. ASSUME NEW k \in DOMAIN s.eh, NEW l \in DOMAIN s.eh, k < l
        PROVE  WithinIn(s, s.eh[k], s.eh[l]) \/ ApartIn(s, s.eh[k], s.eh[l])
    <3>1. WithinIn(r, s.eh[k], s.eh[l]) \/ ApartIn(r, s.eh[k], s.eh[l])
      BY <1>6, <2>3 DEF ClausesOK
    <3> QED
      BY <1>4, <3>1
  <2> QED
    BY <2>1, <2>2, <2>3 DEF ClausesOK
<1> QED
  BY <1>1, <1>2, <1>6

LEMMA Relabelled ==
  ASSUME NEW r, ListOK(r), NEW s, s.il = r.il, s.eh = r.eh, DOMAIN s = DOMAIN r,
         s.instr \in Seq(Instr), Len(s.instr) = Len(r.instr),
         \A id \in Listed(r) : r.instr[id].op # "switch_arg" => s.instr[id].op # "switch_arg"
  PROVE  ListOK(s) /\ Starts(r) \subseteq Starts(s)
<1>1. ListOK(s)
  BY DEF ListOK
<1>2. Starts(r) \subseteq Starts(s)
  BY DEF Starts, Listed
<1> QED
  BY <1>1, <1>2

LEMMA StartsKept ==
  ASSUME NEW r, NEW s, s.il = r.il, s.eh = r.eh, StartsOK(r),
         \A id \in Listed(r) : r.instr[id].op # "switch_arg" => s.instr[id].op # "switch_arg"
  PROVE  StartsOK(s)
<1>1. (\A id : Place(s, id) = Place(r, id)) /\ Listed(s) = Listed(r)
  BY SameList
<1>2. Starts(r) \subseteq Starts(s)
  BY <1>1 DEF Starts
<1>3. \A id : StartFollows(r, id) => StartFollows(s, id)
  BY <1>1 DEF StartFollows
<1>4. \A c : ClauseOrdered(r, c) => ClauseOrdered(s, c)
  BY <1>1, <1>2, <1>3 DEF ClauseOrdered, Before, NotAfter
<1> QED
  BY <1>2, <1>4 DEF StartsOK

\* What one pass makes of an instruction.
LEMMA WidenedInstr ==
  ASSUME NEW r, ListOK(r), NEW id \in DOMAIN r.instr
  PROVE  /\ Widen(r).instr[id] \in Instr
         /\ Widen(r).instr[id].target = r.instr[id].target
         /\ id \in TooFar(r) => /\ r.instr[id].op \in Short
                               /\ Widen(r).instr[id].op = Long(r.instr[id].op)
         /\ id \notin TooFar(r) => Widen(r).instr[id] = r.instr[id]
<1>1. r.instr \in Seq(Instr) /\ DOMAIN r = {"il", "instr", "eh", "maxStack"}
  BY DEF ListOK
<1>2. r.instr[id] \in Instr
  BY <1>1
<1>3. Widen(r).instr[id] =
        IF id \in TooFar(r)
        THEN LongForm(r.instr[id]) ELSE r.instr[id]
  <2>1. Widen(r).instr = [j \in DOMAIN r.instr |->
           IF j \in TooFar(r)
           THEN LongForm(r.instr[j]) ELSE r.instr[j]]
    BY <1>1 DEF Widen
  <2> QED
    BY <2>1, Zenon
<1>4. CASE id \in TooFar(r)
  <2>1. r.instr[id].op \in Short
    BY <1>4 DEF TooFar
  <2>2. Long(r.instr[id].op) \in {"br", "brtrue", "leave"}
    BY <2>1 DEF Short, Long
  <2> DEFINE w == LongForm(r.instr[id])
             l == Long(r.instr[id].op)
  <2> HIDE DEF l
  <2>3. w \in Instr /\ w.target = r.instr[id].target /\ w.op = Long(r.instr[id].op)
    <3>1. w = [r.instr[id] EXCEPT !.op = l, !.bytes = 5]
      BY DEF LongForm, LongBytes, l
    <3>2. l \in Opcode
      BY <2>2 DEF l, Opcode, Branch
    <3> DEFINE x == r.instr[id]
    <3> HIDE DEF w, x
    <3>3. x \in Instr /\ w = [x EXCEPT !.op = l, !.bytes = 5]
      BY <1>2, <3>1 DEF x
    <3>4. w = [op |-> l, bytes |-> 5, n |-> x.n, name |-> x.name, target |-> x.target]
      BY <3>3 DEF Instr
    <3>5. w \in Instr /\ w.target = x.target /\ w.op = l
      BY <3>2, <3>3, <3>4 DEF Instr
    <3> QED
      BY <3>5 DEF l, x
  <2> HIDE DEF w
  <2> QED
    BY <1>3, <1>4, <2>1, <2>3 DEF w
<1>5. CASE id \notin TooFar(r)
  BY <1>2, <1>3, <1>5
<1> QED
  BY <1>4, <1>5

\* A pass keeps what branches name, and makes some of the short ones long.
LEMMA WidenKeeps ==
  ASSUME NEW r, RewriterOK(r)
  PROVE  RewriterOK(Widen(r))
<1> DEFINE s == Widen(r)
<1>1. ListOK(r) /\ BranchesOK(r) /\ ClausesOK(r) /\ StartsOK(r)
  BY DEF RewriterOK
<1>2. /\ s.il = r.il /\ s.eh = r.eh /\ DOMAIN s = DOMAIN r
      /\ DOMAIN s.instr = DOMAIN r.instr
  BY <1>1 DEF ListOK, Widen
<1>3. \A id \in DOMAIN r.instr :
         /\ s.instr[id] \in Instr
         /\ s.instr[id].target = r.instr[id].target
         /\ id \in TooFar(r) => /\ r.instr[id].op \in Short
                               /\ s.instr[id].op = Long(r.instr[id].op)
         /\ id \notin TooFar(r) => s.instr[id] = r.instr[id]
  BY <1>1, WidenedInstr
<1>4. s.instr \in Seq(Instr) /\ Len(s.instr) = Len(r.instr)
  <2>1. s.instr = [id \in DOMAIN r.instr |-> s.instr[id]]
    BY <1>1 DEF ListOK, Widen
  <2> HIDE DEF s
  <2>2. PICK n \in Nat : n = Len(r.instr) /\ DOMAIN r.instr = 1 .. n
    BY <1>1, ListFacts
  <2>3. s.instr \in [1 .. n -> Instr]
    BY <1>3, <2>1, <2>2
  <2> QED
    BY <2>2, <2>3
<1> HIDE DEF s
<1>5. \A op \in Short : Long(op) \in Branch /\ Long(op) # "switch_arg" /\ op \in Branch
  BY DEF Short, Long, Branch
<1>6. ListOK(s) /\ Starts(r) \subseteq Starts(s) /\ StartsOK(s)
  <2>1. ASSUME NEW id \in Listed(r), r.instr[id].op # "switch_arg"
        PROVE  s.instr[id].op # "switch_arg"
    <3>1. id \in DOMAIN r.instr
      BY <1>1, ListedPlace
    <3> QED
      BY <1>3, <1>5, <2>1, <3>1
  <2> QED
    BY <1>1, <1>2, <1>4, <2>1, Relabelled, StartsKept
<1>7. BranchesOK(s)
  <2>1. ASSUME NEW id \in Listed(s), s.instr[id].op \in Branch
        PROVE  s.instr[id].target \in Starts(s)
    <3>1. id \in Listed(r) /\ id \in DOMAIN r.instr
      BY <1>1, <1>2, ListedPlace, SameList
    <3>2. r.instr[id].op \in Branch
      BY <1>3, <1>5, <2>1, <3>1
    <3> QED
      BY <1>1, <1>3, <1>6, <3>1, <3>2 DEF BranchesOK
  <2> QED
    BY <2>1 DEF BranchesOK
<1>8. ClausesOK(s)
  BY <1>1, <1>2, SameList
<1> QED
  BY <1>6, <1>7, <1>8 DEF RewriterOK, s

----------------------------------------------------------------------------
(* Import                                                                   *)

\* Where an offset that starts something is in the code.
LEMMA StartFound ==
  ASSUME NEW code, Ordered(code), NEW o, IsStart(code, o)
  PROVE  LET i == InstrFromOffset(code, o) IN
         /\ i \in {k \in DOMAIN code : code[k].op # "switch_arg"} \cup {Sentinel}
         /\ OffsetAt(code, PlaceIn(code, i)) = o
         /\ PlaceIn(code, i) \in 1 .. Len(code) + 1
<1> DEFINE i == InstrFromOffset(code, o)
<1>1. i \in StartsAt(code, o)
  BY DEF IsStart, InstrFromOffset
<1>2. Len(code) \in Nat \ {0} /\ DOMAIN code = 1 .. Len(code)
  BY DEF Ordered
<1> HIDE DEF i
<1>3. CASE i \in DOMAIN code /\ code[i].op # "switch_arg" /\ code[i].at = o
  <2>1. PlaceIn(code, i) = i
    BY <1>2, <1>3 DEF PlaceIn, Sentinel
  <2>2. OffsetAt(code, i) = o
    BY <1>3, OffsetAtIs
  <2> QED
    BY <1>2, <1>3, <2>1, <2>2 DEF i
<1>4. CASE i = Sentinel /\ OffsetAt(code, Len(code) + 1) = o
  BY <1>2, <1>4 DEF PlaceIn, i
<1> QED
  BY <1>1, <1>3, <1>4 DEF StartsAt

LEMMA StartsCompared ==
  ASSUME NEW code, Ordered(code), NEW o, IsStart(code, o), NEW q, IsStart(code, q)
  PROVE  LET x == PlaceIn(code, InstrFromOffset(code, o))
             y == PlaceIn(code, InstrFromOffset(code, q))
         IN  (o < q <=> x < y) /\ (o <= q <=> x <= y)
<1> DEFINE x == PlaceIn(code, InstrFromOffset(code, o))
           y == PlaceIn(code, InstrFromOffset(code, q))
<1>1. /\ x \in 1 .. Len(code) + 1 /\ OffsetAt(code, x) = o
      /\ y \in 1 .. Len(code) + 1 /\ OffsetAt(code, y) = q
  BY StartFound
<1>2. Len(code) \in Nat
  BY DEF Ordered
<1> HIDE DEF x, y
<1>3. o \in Nat /\ q \in Nat
  BY <1>1, OffsetAtIs
<1>4. x < y => o < q
  BY <1>1, OffsetsGrow
<1>5. y < x => q < o
  BY <1>1, OffsetsGrow
<1>6. x \in Nat /\ y \in Nat
  BY <1>1, <1>2
<1>7. x = y => o = q
  BY <1>1
<1> QED
  BY <1>3, <1>4, <1>5, <1>6, <1>7 DEF x, y

LEMMA GivenOrdered ==
  ASSUME NEW code \in Seq(EncodedInstr), InOrder(code)
  PROVE  Ordered(code)
<1>1. /\ Len(code) \in Nat \ {0} /\ DOMAIN code = 1 .. Len(code)
      /\ \A i \in DOMAIN code : code[i] \in EncodedInstr
  BY LenProperties, EmptySeq DEF InOrder
<1>2. \A i \in DOMAIN code : code[i].at \in Nat /\ code[i].bytes \in Nat \ {0}
  BY <1>1 DEF EncodedInstr
<1> QED
  BY <1>1, <1>2 DEF Ordered, InOrder

\* A body that the CLR accepts is imported in order.
LEMMA ImportedList ==
  ASSUME NEW body, body.code \in Seq(EncodedInstr), WellFormed(body),
         NEW r, r = Import(body)
  PROVE  /\ ListOK(r) /\ BranchesOK(r)
         /\ Len(r.il) = Len(body.code) /\ Listed(r) = DOMAIN body.code
         /\ \A i \in DOMAIN body.code : Place(r, i) = i /\ r.instr[i].op = body.code[i].op
<1> DEFINE code == body.code
           n == Len(code)
<1>1. Ordered(code) /\ InOrder(code) /\ Importable(body)
  BY GivenOrdered DEF WellFormed
<1>2. /\ n \in Nat \ {0} /\ DOMAIN code = 1 .. n
      /\ \A i \in 1 .. n : code[i] \in EncodedInstr
  BY <1>1 DEF Ordered
<1>3. /\ DOMAIN r = {"il", "instr", "eh", "maxStack"}
      /\ r.il = [i \in 1 .. n |-> i] /\ r.instr = ImportIL(code)
  BY <1>2 DEF Import
<1> HIDE DEF code, n
<1>4. DOMAIN r.il = 1 .. n /\ Len(r.il) = n /\ r.il \in Seq(1 .. n) /\ \A i \in 1 .. n : r.il[i] = i
  BY <1>2, <1>3
<1>5. ASSUME NEW i \in 1 .. n
      PROVE  /\ r.instr[i] = [op |-> code[i].op, bytes |-> code[i].bytes, n |-> code[i].n,
                              name |-> code[i].name, target |-> r.instr[i].target]
             /\ r.instr[i].target = IF code[i].op \in Branch
                                    THEN InstrFromOffset(code, TargetOffset(code, i))
                                    ELSE Sentinel
             /\ r.instr[i].op = code[i].op
  BY <1>2, <1>3 DEF ImportIL
<1>6. ASSUME NEW i \in 1 .. n
      PROVE  r.instr[i].target \in {k \in 1 .. n : code[k].op # "switch_arg"} \cup {Sentinel}
  <2>1. CASE code[i].op \in Branch
    <3>1. IsStart(code, TargetOffset(code, i))
      BY <1>1, <1>2, <2>1 DEF Importable, code
    <3>2. InstrFromOffset(code, TargetOffset(code, i))
             \in {k \in DOMAIN code : code[k].op # "switch_arg"} \cup {Sentinel}
      BY <1>1, <3>1, StartFound
    <3> QED
      BY <1>2, <1>5, <2>1, <3>2
  <2>2. CASE code[i].op \notin Branch
    BY <1>5, <2>2
  <2> QED
    BY <2>1, <2>2
<1>7. ASSUME NEW i \in 1 .. n
      PROVE  r.instr[i] \in Instr
  <2>1. r.instr[i].target \in Nat
    BY <1>2, <1>6 DEF Sentinel
  <2>2. /\ code[i].op \in Opcode /\ code[i].bytes \in Nat \ {0}
        /\ code[i].n \in Int /\ code[i].name \in Name
    BY <1>2 DEF EncodedInstr
  <2>3. \A t \in Nat : [op |-> code[i].op, bytes |-> code[i].bytes, n |-> code[i].n,
                       name |-> code[i].name, target |-> t] \in Instr
    BY <2>2 DEF Instr
  <2> QED
    BY <1>5, <2>1, <2>3
<1>8. r.instr \in Seq(Instr) /\ Len(r.instr) = n
  <2>1. r.instr = [i \in 1 .. n |-> r.instr[i]]
    BY <1>2, <1>3 DEF ImportIL
  <2> QED
    BY <1>2, <1>7, <2>1
<1>9. ListOK(r)
  BY <1>2, <1>3, <1>4, <1>8 DEF ListOK
<1>10. Listed(r) = 1 .. n
  BY <1>4 DEF Listed
<1>11. \A i \in 1 .. n : Place(r, i) = i
  BY <1>4, <1>9, PlaceOf
<1>12. BranchesOK(r)
  <2>1. \A i \in 1 .. n : r.instr[i].op = code[i].op
    BY <1>5
  <2>2. {k \in 1 .. n : code[k].op # "switch_arg"} \cup {Sentinel} \subseteq Starts(r)
    BY <1>10, <2>1 DEF Starts
  <2> QED
    BY <1>6, <1>10, <2>2 DEF BranchesOK
<1>13. \A i \in 1 .. n : r.instr[i].op = code[i].op
  BY <1>5
<1> QED
  BY <1>2, <1>4, <1>9, <1>10, <1>11, <1>12, <1>13 DEF code, n

\* The place of what an offset starts.
StartPlace(code, o) == PlaceIn(code, InstrFromOffset(code, o))

\* Where a clause is in the code, from its offsets.
LEMMA ImportedClause ==
  ASSUME NEW body, body.code \in Seq(EncodedInstr), body.clauses \in Seq(EncodedClause),
         WellFormed(body), NEW r, r = Import(body), NEW k \in DOMAIN body.clauses,
         NEW c, c = body.clauses[k], NEW x, x = r.eh[k]
  PROVE  /\ x \in EHClause /\ ClauseListed(r, x) /\ ClauseOrdered(r, x)
         /\ x.tryBegin = StartPlace(body.code, c.try)
         /\ x.tryEnd = StartPlace(body.code, c.tryEnd)
         /\ x.handlerBegin = StartPlace(body.code, c.handler)
         /\ x.handlerEnd = StartPlace(body.code, c.handlerEnd) - 1
<1> DEFINE code == body.code
           n == Len(code)
           At(o) == StartPlace(code, o)
<1>1. Ordered(code) /\ Importable(body)
  BY GivenOrdered DEF WellFormed
<1>2. n \in Nat \ {0} /\ DOMAIN code = 1 .. n
  BY <1>1 DEF Ordered
<1>3. c \in EncodedClause
  OBVIOUS
<1>4. /\ IsStart(code, c.try) /\ IsStart(code, c.tryEnd)
      /\ IsStart(code, c.handler) /\ IsStart(code, c.handlerEnd)
      /\ c.try < c.tryEnd /\ c.tryEnd <= c.handler /\ c.handler < c.handlerEnd
  BY <1>1 DEF Importable
<1>5. x = [kind |-> c.kind, class |-> c.class,
           tryBegin |-> InstrFromOffset(code, c.try),
           tryEnd |-> InstrFromOffset(code, c.tryEnd),
           handlerBegin |-> InstrFromOffset(code, c.handler),
           handlerEnd |-> IF InstrFromOffset(code, c.handlerEnd) = Sentinel
                          THEN n ELSE InstrFromOffset(code, c.handlerEnd) - 1]
  BY DEF Import, ImportEH
<1>6. /\ Listed(r) = 1 .. n
      /\ \A i \in 1 .. n : Place(r, i) = i /\ r.instr[i].op = code[i].op
  BY <1>2, ImportedList
<1> HIDE DEF code, n
<1>7. /\ At(c.try) \in 1 .. n + 1 /\ At(c.tryEnd) \in 1 .. n + 1
      /\ At(c.handler) \in 1 .. n + 1 /\ At(c.handlerEnd) \in 1 .. n + 1
  BY <1>1, <1>4, StartFound DEF StartPlace, n
<1>8. At(c.try) < At(c.tryEnd) /\ At(c.tryEnd) <= At(c.handler) /\ At(c.handler) < At(c.handlerEnd)
  <2>1. At(c.try) < At(c.tryEnd)
    BY <1>1, <1>4, StartsCompared DEF StartPlace
  <2>2. At(c.tryEnd) <= At(c.handler)
    BY <1>1, <1>4, StartsCompared DEF StartPlace
  <2>3. At(c.handler) < At(c.handlerEnd)
    BY <1>1, <1>4, StartsCompared DEF StartPlace
  <2> QED
    BY <2>1, <2>2, <2>3
<1>9. ASSUME NEW o, At(o) \in 1 .. n
      PROVE  InstrFromOffset(code, o) = At(o)
  BY <1>2, <1>9 DEF StartPlace, PlaceIn, n
<1>10. x.handlerEnd = At(c.handlerEnd) - 1
  BY <1>2, <1>5 DEF StartPlace, PlaceIn, n
<1>11. /\ At(c.try) \in 1 .. n /\ At(c.tryEnd) \in 1 .. n /\ At(c.handler) \in 1 .. n
       /\ At(c.handlerEnd) - 1 \in 1 .. n
  <2> HIDE DEF At
  <2> QED
    BY <1>2, <1>7, <1>8
<1>12. x.tryBegin = At(c.try) /\ x.tryEnd = At(c.tryEnd) /\ x.handlerBegin = At(c.handler)
  BY <1>5, <1>9, <1>11
<1>13. ASSUME NEW o \in {c.try, c.tryEnd, c.handler, c.handlerEnd}, At(o) \in 1 .. n
       PROVE  code[At(o)].op # "switch_arg"
  <2>1. InstrFromOffset(code, o) \in {k1 \in DOMAIN code : code[k1].op # "switch_arg"} \cup {Sentinel}
    BY <1>1, <1>4, StartFound
  <2>2. InstrFromOffset(code, o) = At(o)
    BY <1>9, <1>13
  <2> HIDE DEF At
  <2> QED
    BY <1>2, <1>13, <2>1, <2>2 DEF Sentinel
<1> HIDE DEF At
<1>14. ClauseOrdered(r, x)
  <2>1. {x.tryBegin, x.tryEnd, x.handlerBegin} \subseteq Starts(r)
    BY <1>6, <1>11, <1>12, <1>13 DEF Starts
  <2>2. /\ Before(r, x.tryBegin, x.tryEnd) /\ NotAfter(r, x.tryEnd, x.handlerBegin)
        /\ NotAfter(r, x.handlerBegin, x.handlerEnd)
    <3>1. /\ Place(r, x.tryBegin) = At(c.try) /\ Place(r, x.tryEnd) = At(c.tryEnd)
          /\ Place(r, x.handlerBegin) = At(c.handler)
          /\ Place(r, x.handlerEnd) = At(c.handlerEnd) - 1
      BY <1>6, <1>10, <1>11, <1>12
    <3>2. At(c.handler) \in 1 .. n + 1 /\ At(c.handlerEnd) \in 1 .. n + 1
      BY <1>7
    <3>3. At(c.handler) <= At(c.handlerEnd) - 1
      BY <1>2, <1>8, <3>2
    <3> QED
      BY <1>8, <3>1, <3>3 DEF Before, NotAfter
  <2>3. StartFollows(r, x.handlerEnd)
    <3> SUFFICES ASSUME NEW next \in 1 .. n, next = x.handlerEnd + 1
                 PROVE  code[next].op # "switch_arg"
      BY <1>6, <1>10, <1>11 DEF StartFollows
    <3>1. next = At(c.handlerEnd)
      BY <1>7, <1>10
    <3> QED
      BY <1>13, <3>1
  <2> QED
    BY <2>1, <2>2, <2>3 DEF ClauseOrdered
<1>15. ClauseListed(r, x)
  BY <1>6, <1>10, <1>11, <1>12 DEF ClauseListed
<1>16. x \in EHClause
  <2>1. x = [kind |-> c.kind, class |-> c.class, tryBegin |-> x.tryBegin, tryEnd |-> x.tryEnd,
             handlerBegin |-> x.handlerBegin, handlerEnd |-> x.handlerEnd]
    BY <1>5
  <2>2. c.kind \in {"catch", "finally"} /\ c.class \in Name
    BY <1>3 DEF EncodedClause
  <2>3. x.tryBegin \in Nat /\ x.tryEnd \in Nat /\ x.handlerBegin \in Nat /\ x.handlerEnd \in Nat
    BY <1>10, <1>11, <1>12
  <2> DEFINE kind == c.kind
             class == c.class
             tb == x.tryBegin
             te == x.tryEnd
             hb == x.handlerBegin
             he == x.handlerEnd
  <2>4. [kind |-> kind, class |-> class, tryBegin |-> tb, tryEnd |-> te,
         handlerBegin |-> hb, handlerEnd |-> he] \in EHClause
    <3> HIDE DEF kind, class, tb, te, hb, he
    <3> QED
      BY <2>2, <2>3 DEF EHClause, kind, class, tb, te, hb, he
  <2> QED
    BY <2>1, <2>4
<1> QED
  BY <1>10, <1>12, <1>14, <1>15, <1>16 DEF At, code

LEMMA ImportedClauses ==
  ASSUME NEW body, body.code \in Seq(EncodedInstr), body.clauses \in Seq(EncodedClause),
         WellFormed(body), NEW r, r = Import(body)
  PROVE  /\ ClausesOK(r) /\ Len(r.eh) = Len(body.clauses)
         /\ \A k \in DOMAIN r.eh : ClauseOrdered(r, r.eh[k])
<1> DEFINE code == body.code
           cs == body.clauses
           m == Len(cs)
           At(o) == StartPlace(code, o)
<1>1. /\ m \in Nat /\ DOMAIN cs = 1 .. m /\ DOMAIN r.eh = 1 .. m /\ Len(r.eh) = m
      /\ r.eh = [k \in 1 .. m |-> r.eh[k]]
  BY DEF Import, ImportEH
<1>2. \A k \in 1 .. m :
         /\ r.eh[k] \in EHClause /\ ClauseListed(r, r.eh[k]) /\ ClauseOrdered(r, r.eh[k])
         /\ r.eh[k].tryBegin = At(cs[k].try) /\ r.eh[k].tryEnd = At(cs[k].tryEnd)
         /\ r.eh[k].handlerBegin = At(cs[k].handler)
         /\ r.eh[k].handlerEnd = At(cs[k].handlerEnd) - 1
  BY <1>1, ImportedClause
<1>3. Ordered(code) /\ Importable(body) /\ Nested(cs)
  BY GivenOrdered DEF WellFormed
<1>4. \A k \in 1 .. m :
         /\ IsStart(code, cs[k].try) /\ IsStart(code, cs[k].tryEnd)
         /\ IsStart(code, cs[k].handler) /\ IsStart(code, cs[k].handlerEnd)
  BY <1>1, <1>3 DEF Importable
<1>5. /\ ListOK(r) /\ \A i \in DOMAIN code : Place(r, i) = i
      /\ Listed(r) = DOMAIN code /\ DOMAIN code = 1 .. Len(code) /\ Len(code) \in Nat
  BY <1>3, ImportedList DEF Ordered
<1>6. ASSUME NEW a \in Listed(r), NEW b \in Listed(r)
      PROVE  (Before(r, a, b) <=> a < b) /\ (NotAfter(r, a, b) <=> a <= b)
  BY <1>5 DEF Before, NotAfter
<1>7. ASSUME NEW o, IsStart(code, o), NEW q, IsStart(code, q)
      PROVE  (o <= q <=> At(o) <= At(q)) /\ At(o) \in Int /\ At(q) \in Int
  <2>1. o <= q <=> At(o) <= At(q)
    BY <1>3, <1>7, StartsCompared DEF StartPlace
  <2>2. At(o) \in 1 .. Len(code) + 1 /\ At(q) \in 1 .. Len(code) + 1
    BY <1>3, <1>7, StartFound DEF StartPlace
  <2> QED
    BY <1>5, <2>1, <2>2
<1> HIDE DEF code, cs, m, At
<1>8. ASSUME NEW k \in 1 .. m, NEW l \in 1 .. m, k < l
      PROVE  WithinIn(r, r.eh[k], r.eh[l]) \/ ApartIn(r, r.eh[k], r.eh[l])
  <2> DEFINE c == cs[k]
             d == cs[l]
             x == r.eh[k]
             y == r.eh[l]
  <2>1. /\ IsStart(code, c.try) /\ IsStart(code, c.tryEnd)
        /\ IsStart(code, c.handler) /\ IsStart(code, c.handlerEnd)
        /\ IsStart(code, d.try) /\ IsStart(code, d.tryEnd)
        /\ IsStart(code, d.handler) /\ IsStart(code, d.handlerEnd)
    BY <1>4
  <2>2. /\ x.tryBegin = At(c.try) /\ x.tryEnd = At(c.tryEnd)
        /\ x.handlerBegin = At(c.handler) /\ x.handlerEnd = At(c.handlerEnd) - 1
        /\ y.tryBegin = At(d.try) /\ y.tryEnd = At(d.tryEnd)
        /\ y.handlerBegin = At(d.handler) /\ y.handlerEnd = At(d.handlerEnd) - 1
    BY <1>2
  <2>3. /\ x.tryBegin \in Listed(r) /\ x.handlerEnd \in Listed(r)
        /\ y.tryBegin \in Listed(r) /\ y.tryEnd \in Listed(r)
        /\ y.handlerBegin \in Listed(r) /\ y.handlerEnd \in Listed(r)
    BY <1>2 DEF ClauseListed
  <2>4. Within(c, d) \/ Apart(c, d)
    BY <1>1, <1>3, <1>8 DEF Nested
  <2> HIDE DEF c, d, x, y
  <2>5. c.handlerEnd <= d.tryEnd => Before(r, x.handlerEnd, y.tryEnd)
    BY <1>6, <1>7, <2>1, <2>2, <2>3
  <2>6. c.handlerEnd <= d.handlerEnd => NotAfter(r, x.handlerEnd, y.handlerEnd)
    BY <1>6, <1>7, <2>1, <2>2, <2>3
  <2>7. c.handlerEnd <= d.handler => Before(r, x.handlerEnd, y.handlerBegin)
    BY <1>6, <1>7, <2>1, <2>2, <2>3
  <2>8. c.handlerEnd <= d.try => Before(r, x.handlerEnd, y.tryBegin)
    BY <1>6, <1>7, <2>1, <2>2, <2>3
  <2>9. d.handlerEnd <= c.try => Before(r, y.handlerEnd, x.tryBegin)
    BY <1>6, <1>7, <2>1, <2>2, <2>3
  <2>10. /\ d.try <= c.try => NotAfter(r, y.tryBegin, x.tryBegin)
         /\ d.handler <= c.try => NotAfter(r, y.handlerBegin, x.tryBegin)
    BY <1>6, <1>7, <2>1, <2>2, <2>3
  <2>11. Within(c, d) => WithinIn(r, x, y)
    BY <2>2, <2>5, <2>6, <2>7, <2>10 DEF Within, WithinIn
  <2>12. Apart(c, d) => ApartIn(r, x, y)
    BY <2>8, <2>9 DEF Apart, ApartIn
  <2> QED
    BY <2>4, <2>11, <2>12 DEF x, y
<1>9. r.eh \in Seq(EHClause)
  <2> DEFINE eh == r.eh
  <2> HIDE DEF eh
  <2>1. eh \in [1 .. m -> EHClause]
    BY <1>1, <1>2 DEF eh
  <2>2. eh \in Seq(EHClause)
    BY <1>1, <2>1 DEF m
  <2> QED
    BY <2>2 DEF eh
<1> QED
  BY <1>1, <1>2, <1>8, <1>9 DEF ClausesOK, m, cs
=============================================================================
