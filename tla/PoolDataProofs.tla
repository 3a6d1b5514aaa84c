-------------------------- MODULE PoolDataProofs --------------------------
(***************************************************************************)
(* Lemmas about the sequences of module Pool and the operators on them:    *)
(* what Sift returns, what the methods of a unique batch do to its two     *)
(* views of the addresses, and what the methods of a ring of last-good     *)
(* exits do to its length and its members.                                 *)
(***************************************************************************)
EXTENDS PoolProps, FiniteSetTheorems, SequenceTheorems, WellFoundedInduction, TLAPS

-----------------------------------------------------------------------------
(* What Sift returns.  Induction is by the smallest counterexample.        *)

LEMMA Smallest ==
    ASSUME NEW T, T \subseteq Nat, T # {}
    PROVE  \E x \in T : \A y \in T : x <= y
  <1>1. \E x \in T : \A y \in T : ~(<<y, x>> \in OpToRel(<, Nat))
    BY WFMin, NatLessThanWellFounded
  <1>2. \E x \in T : \A y \in T : ~(y < x)
    BY <1>1 DEF OpToRel
  <1>3. QED
    BY <1>2

UpTo(I, i) == {j \in I : j <= i}

\* The sets of indices that come no later than one of them are finite and grow with it.
LEMMA UpToGrows ==
    ASSUME NEW n \in Nat, NEW I, I \subseteq 1 .. n
    PROVE  /\ IsFiniteSet(I) /\ Cardinality(I) \in Nat /\ Cardinality(I) <= n
           /\ \A i \in I : /\ IsFiniteSet(UpTo(I, i)) /\ Cardinality(UpTo(I, i)) \in Nat
                           /\ Cardinality(UpTo(I, i)) \in 1 .. Cardinality(I)
           /\ \A i, j \in I : Cardinality(UpTo(I, i)) = Cardinality(UpTo(I, j)) => i = j
  <1>0. \A i \in I : i \in Nat
    OBVIOUS
  <1>1. IsFiniteSet(1 .. n) /\ Cardinality(1 .. n) = n
    BY FS_Interval
  <1>2. IsFiniteSet(I) /\ Cardinality(I) \in Nat /\ Cardinality(I) <= n
    BY <1>1, FS_Subset, FS_CardinalityType
  <1>3. ASSUME NEW i \in I
        PROVE  /\ IsFiniteSet(UpTo(I, i)) /\ Cardinality(UpTo(I, i)) \in Nat
               /\ Cardinality(UpTo(I, i)) \in 1 .. Cardinality(I)
    <2>1. UpTo(I, i) \subseteq I /\ i \in UpTo(I, i)
      BY DEF UpTo
    <2>2. IsFiniteSet(UpTo(I, i)) /\ Cardinality(UpTo(I, i)) \in Nat
          /\ Cardinality(UpTo(I, i)) <= Cardinality(I)
      BY <1>2, <2>1, FS_Subset, FS_CardinalityType
    <2>3. Cardinality(UpTo(I, i)) # 0
      BY <2>1, <2>2, FS_EmptySet
    <2>4. QED
      BY <1>2, <2>2, <2>3
  <1>4. ASSUME NEW i \in I, NEW j \in I, i < j
        PROVE  Cardinality(UpTo(I, i)) # Cardinality(UpTo(I, j))
    <2>0. \A x \in I : x <= i => x <= j
      BY <1>0, <1>4
    <2>1. UpTo(I, i) \subseteq UpTo(I, j)
      BY <2>0 DEF UpTo
    <2>2. j \in UpTo(I, j) /\ j \notin UpTo(I, i)
      BY <1>0, <1>4 DEF UpTo
    <2>3. QED
      BY <1>3, <2>1, <2>2, FS_Subset
  <1>5. QED
    BY <1>2, <1>3, <1>4

\* Every place up to the number of indices is taken.
LEMMA PlacesTaken ==
    ASSUME NEW n \in Nat, NEW I, I \subseteq 1 .. n, NEW k \in 1 .. Cardinality(I)
    PROVE  \E i \in I : Cardinality(UpTo(I, i)) = k
  <1> DEFINE Free == {m \in 1 .. Cardinality(I) : \A i \in I : Cardinality(UpTo(I, i)) # m}
  <1>1. SUFFICES Free = {}
    OBVIOUS
  <1>2. SUFFICES ASSUME Free # {} PROVE FALSE
    OBVIOUS
  <1>0. I \subseteq Nat /\ \A i \in I : i \in Nat
    OBVIOUS
  <1>3. Cardinality(I) \in Nat /\ IsFiniteSet(I)
    BY UpToGrows
  <1>4. Free \subseteq Nat
    BY <1>3
  <1>5. PICK m \in Free : \A x \in Free : m <= x
    BY <1>2, <1>4, Smallest
  <1> HIDE DEF Free
  <1>6. m \in 1 .. Cardinality(I) /\ \A i \in I : Cardinality(UpTo(I, i)) # m
    BY <1>5 DEF Free
  <1>7. CASE m = 1
    <2>1. I # {} /\ I \subseteq Nat
      BY <1>3, <1>6, <1>7, FS_EmptySet
    <2>2. PICK i \in I : \A j \in I : i <= j
      BY <2>1, Smallest
    <2>3. UpTo(I, i) = {i}
      <3>1. \A x \in I : x <= i <=> x = i
        BY <1>0, <2>2
      <3>2. QED
        BY <3>1 DEF UpTo
    <2>4. QED
      BY <1>6, <1>7, <2>3, FS_Singleton
  <1>8. CASE m > 1
    <2>1. m - 1 \in 1 .. Cardinality(I) /\ m - 1 \notin Free
      BY <1>3, <1>5, <1>6, <1>8
    <2>2. PICK i \in I : Cardinality(UpTo(I, i)) = m - 1
      BY <2>1 DEF Free
    <2>3. {j \in I : i < j} # {}
      <3>1. SUFFICES ASSUME {j \in I : i < j} = {} PROVE FALSE
        OBVIOUS
      <3>2. UpTo(I, i) = I
        <4>1. \A x \in I : x <= i
          BY <1>0, <3>1
        <4>2. QED
          BY <4>1 DEF UpTo
      <3>3. QED
        BY <1>3, <1>6, <2>2, <3>2
    <2>4. PICK j \in {j \in I : i < j} : \A x \in {x \in I : i < x} : j <= x
      <3>1. {j \in I : i < j} \subseteq Nat
        BY <1>0
      <3>2. QED
        BY <2>3, <3>1, Smallest
    <2>5. UpTo(I, j) = UpTo(I, i) \cup {j} /\ j \notin UpTo(I, i)
      <3>1. \A x \in I : x <= j <=> x <= i \/ x = j
        BY <1>0, <2>4
      <3>2. ~(j <= i) /\ j \in I
        BY <1>0, <2>4
      <3>3. QED
        BY <3>1, <3>2 DEF UpTo
    <2>6. Cardinality(UpTo(I, j)) = m
      <3>1. IsFiniteSet(UpTo(I, i))
        BY UpToGrows
      <3>2. Cardinality(UpTo(I, j)) = (m - 1) + 1
        BY <2>2, <2>5, <3>1, FS_AddElement
      <3>3. QED
        BY <1>3, <1>6, <3>2
    <2>7. QED
      BY <1>6, <2>4, <2>6
  <1>9. QED
    BY <1>3, <1>6, <1>7, <1>8

\* Sift lists the chosen members, each index once.
LEMMA SiftLists ==
    ASSUME NEW T, NEW s \in Seq(T), NEW I, I \subseteq DOMAIN s
    PROVE  /\ Sift(s, I) \in Seq(T) /\ Len(Sift(s, I)) <= Len(s)
           /\ \E f \in [DOMAIN Sift(s, I) -> I] :
                /\ \A k \in DOMAIN Sift(s, I) : Sift(s, I)[k] = s[f[k]]
                /\ \A a, b \in DOMAIN Sift(s, I) : f[a] = f[b] => a = b
                /\ \A i \in I : \E k \in DOMAIN Sift(s, I) : f[k] = i
  <1> DEFINE n == Cardinality(I)
             At(k) == CHOOSE i \in I : Cardinality({j \in I : j <= i}) = k
             f == [k \in 1 .. n |-> At(k)]
  <1>1. Len(s) \in Nat /\ I \subseteq 1 .. Len(s) /\ \A i \in I : s[i] \in T
    BY LenProperties, ElementOfSeq
  <1>2. n \in Nat /\ n <= Len(s)
    BY <1>1, UpToGrows
  <1>3. \A k \in 1 .. n : At(k) \in I /\ Cardinality(UpTo(I, At(k))) = k
    <2>1. \A k \in 1 .. n : \E i \in I : Cardinality({j \in I : j <= i}) = k
      BY <1>1, PlacesTaken DEF UpTo
    <2>2. QED
      BY <2>1 DEF UpTo
  <1> HIDE DEF At
  <1>4. Sift(s, I) = [k \in 1 .. n |-> s[At(k)]]
    BY DEF Sift, At
  <1>5. Sift(s, I) \in Seq(T) /\ Len(Sift(s, I)) = n /\ DOMAIN Sift(s, I) = 1 .. n
    <2>1. Sift(s, I) \in [1 .. n -> T]
      BY <1>1, <1>3, <1>4
    <2>2. Sift(s, I) \in Seq(T)
      BY <1>2, <2>1, SeqDef
    <2>3. QED
      BY <1>2, <2>1, <2>2, LenProperties
  <1>6. f \in [1 .. n -> I] /\ \A k \in 1 .. n : Sift(s, I)[k] = s[f[k]]
    BY <1>3, <1>4
  <1>7. \A a, b \in 1 .. n : f[a] = f[b] => a = b
    BY <1>3
  <1>8. ASSUME NEW i \in I PROVE \E k \in 1 .. n : f[k] = i
    <2>1. Cardinality(UpTo(I, i)) \in 1 .. n
      BY <1>1, UpToGrows
    <2>2. At(Cardinality(UpTo(I, i))) = i
      BY <1>1, <1>3, <2>1, UpToGrows
    <2>3. QED
      BY <2>1, <2>2
  <1>9. /\ f \in [DOMAIN Sift(s, I) -> I]
        /\ \A k \in DOMAIN Sift(s, I) : Sift(s, I)[k] = s[f[k]]
        /\ \A a, b \in DOMAIN Sift(s, I) : f[a] = f[b] => a = b
        /\ \A i \in I : \E k \in DOMAIN Sift(s, I) : f[k] = i
    <2> HIDE DEF f
    <2>1. DOMAIN Sift(s, I) = 1 .. n
      BY <1>5
    <2>2. QED
      BY <1>6, <1>7, <1>8, <2>1
  <1>10. Sift(s, I) \in Seq(T) /\ Len(Sift(s, I)) <= Len(s)
    BY <1>2, <1>5
  <1> HIDE DEF f
  <1>11. QED
    BY <1>9, <1>10

Once(q) == \A i, j \in DOMAIN q : q[i] = q[j] => i = j

\* A sequence that holds each member once keeps doing so, and holds what was chosen.
LEMMA SiftOnce ==
    ASSUME NEW T, NEW s \in Seq(T), Once(s), NEW I, I \subseteq DOMAIN s
    PROVE  /\ Sift(s, I) \in Seq(T) /\ Once(Sift(s, I))
           /\ ToSet(Sift(s, I)) = {s[i] : i \in I}
  <1> DEFINE q == Sift(s, I)
  <1>1. PICK f \in [DOMAIN q -> I] :
          /\ \A k \in DOMAIN q : q[k] = s[f[k]]
          /\ \A a, b \in DOMAIN q : f[a] = f[b] => a = b
          /\ \A i \in I : \E k \in DOMAIN q : f[k] = i
    BY SiftLists
  <1> HIDE DEF q
  <1>2. Once(q)
    BY <1>1 DEF Once
  <1>3. ToSet(q) = {s[i] : i \in I}
    BY <1>1 DEF ToSet
  <1>4. QED
    BY <1>2, <1>3, SiftLists DEF q

\* A member that is not there yet goes to the back.
LEMMA AppendOnce ==
    ASSUME NEW T, NEW s \in Seq(T), Once(s), NEW e \in T, e \notin ToSet(s)
    PROVE  /\ Append(s, e) \in Seq(T) /\ Once(Append(s, e))
           /\ ToSet(Append(s, e)) = ToSet(s) \cup {e}
  <1> DEFINE q == Append(s, e)
             n == Len(s)
  <1>1. /\ q \in Seq(T) /\ n \in Nat /\ DOMAIN s = 1 .. n /\ DOMAIN q = 1 .. n + 1
        /\ \A i \in 1 .. n : q[i] = s[i]
        /\ q[n + 1] = e
    BY AppendProperties, LenProperties
  <1> HIDE DEF q, n
  <1>2. \A i \in 1 .. n : s[i] # e
    BY <1>1 DEF ToSet
  <1>3. \A i \in 1 .. n + 1 : i \in 1 .. n \/ i = n + 1
    BY <1>1
  <1>4. Once(q)
    BY <1>1, <1>2, <1>3 DEF Once
  <1>5. ToSet(q) = ToSet(s) \cup {e}
    <2>1. ToSet(q) = {q[i] : i \in 1 .. n + 1}
      BY <1>1 DEF ToSet
    <2>2. ToSet(s) = {s[i] : i \in 1 .. n}
      BY <1>1 DEF ToSet
    <2>3. 1 .. n \subseteq 1 .. n + 1 /\ n + 1 \in 1 .. n + 1
      BY <1>1
    <2>4. QED
      BY <1>1, <1>3, <2>1, <2>2, <2>3
  <1>6. QED
    BY <1>1, <1>4, <1>5 DEF q

-----------------------------------------------------------------------------
(* The methods of a batch.                                                 *)

\* A batch whose two views of its addresses agree.
SaneBatch(b) ==
    /\ b \in BatchType
    /\ usedIPs(b) = {pair[2] : pair \in b.slotIPs}
    /\ Once(b.burned)
    /\ \A pair \in b.slotIPs : pair[1] \in b.usedSlots

LEMMA StampSane ==
    ASSUME NEW b \in BatchType, Once(b.burned), NEW ip \in IPs
    PROVE  /\ stampLocked(b, ip) \in BatchType
           /\ Once(stampLocked(b, ip).burned)
           /\ usedIPs(stampLocked(b, ip)) = usedIPs(b) \cup {ip}
           /\ stampLocked(b, ip).slotIPs = b.slotIPs
           /\ stampLocked(b, ip).usedSlots = b.usedSlots
           /\ stampLocked(b, ip).served = b.served
           /\ stampLocked(b, ip).expiresAt = b.expiresAt
  <1> DEFINE q == b.burned
             I == {i \in DOMAIN q : q[i] # ip}
             rest == Sift(q, I)
  <1>1. q \in Seq(IPs) /\ Once(q) /\ I \subseteq DOMAIN q
    BY DEF BatchType
  <1>2. rest \in Seq(IPs) /\ Once(rest) /\ ToSet(rest) = {q[i] : i \in I}
    BY <1>1, SiftOnce
  <1>3. ip \notin ToSet(rest) /\ ToSet(rest) \cup {ip} = ToSet(q) \cup {ip}
    BY <1>2 DEF ToSet
  <1>4. stampLocked(b, ip) = [b EXCEPT !.burned = Append(rest, ip)]
    BY DEF stampLocked
  <1> HIDE DEF rest
  <1>5. /\ Append(rest, ip) \in Seq(IPs) /\ Once(Append(rest, ip))
        /\ ToSet(Append(rest, ip)) = ToSet(q) \cup {ip}
    BY <1>2, <1>3, AppendOnce
  <1> HIDE DEF q
  <1>6. QED
    BY <1>4, <1>5 DEF BatchType, usedIPs, q

\* Consuming an address, or a slot with its address.
LEMMA AddIPSane ==
    ASSUME NEW b, SaneBatch(b), NEW s \in Slots, s \in b.usedSlots, NEW ip \in IPs \cup {NoIP}
    PROVE  /\ SaneBatch(addIP(b, s, ip))
           /\ addIP(b, s, ip).usedSlots = b.usedSlots
           /\ addIP(b, s, ip).served = b.served
           /\ addIP(b, s, ip).expiresAt = b.expiresAt
           /\ addIP(b, s, ip).slotIPs =
                IF ip = NoIP THEN b.slotIPs ELSE b.slotIPs \cup {<<s, ip>>}
  <1>1. CASE ip = NoIP \/ <<s, ip>> \in b.slotIPs
    <2>1. addIP(b, s, ip) = b
      BY <1>1 DEF addIP
    <2>2. QED
      BY <1>1, <2>1
  <1>2. CASE ip # NoIP /\ <<s, ip>> \notin b.slotIPs
    <2> DEFINE a == [b EXCEPT !.slotIPs = @ \cup {<<s, ip>>}]
    <2>1. /\ a \in BatchType /\ a.burned = b.burned /\ a.usedSlots = b.usedSlots
          /\ a.served = b.served /\ a.expiresAt = b.expiresAt
          /\ a.slotIPs = b.slotIPs \cup {<<s, ip>>}
      BY <1>2 DEF SaneBatch, BatchType
    <2>2. addIP(b, s, ip) = stampLocked(a, ip)
      BY <1>2 DEF addIP
    <2>3. usedIPs(a) = usedIPs(b)
      BY <2>1 DEF usedIPs
    <2> HIDE DEF a
    <2>4. /\ stampLocked(a, ip) \in BatchType
          /\ Once(stampLocked(a, ip).burned)
          /\ usedIPs(stampLocked(a, ip)) = usedIPs(b) \cup {ip}
          /\ stampLocked(a, ip).slotIPs = b.slotIPs \cup {<<s, ip>>}
          /\ stampLocked(a, ip).usedSlots = b.usedSlots
          /\ stampLocked(a, ip).served = b.served
          /\ stampLocked(a, ip).expiresAt = b.expiresAt
      BY <1>2, <2>1, <2>3, StampSane DEF SaneBatch
    <2>5. {pair[2] : pair \in b.slotIPs \cup {<<s, ip>>}} = usedIPs(b) \cup {ip}
      <3>1. {pair[2] : pair \in b.slotIPs \cup {<<s, ip>>}}
              = {pair[2] : pair \in b.slotIPs} \cup {<<s, ip>>[2]}
        OBVIOUS
      <3>2. QED
        BY <3>1 DEF SaneBatch
    <2>6. \A pair \in b.slotIPs \cup {<<s, ip>>} : pair[1] \in b.usedSlots
      BY DEF SaneBatch
    <2>7. QED
      BY <1>2, <2>2, <2>4, <2>5, <2>6 DEF SaneBatch
  <1>3. QED
    BY <1>1, <1>2

\* Giving a slot back: it leaves with the addresses nobody else accounts for.
LEMMA ReleaseSane ==
    ASSUME NEW b, SaneBatch(b), NEW s \in Slots
    PROVE  /\ SaneBatch(release(b, s))
           /\ release(b, s).usedSlots = b.usedSlots \ {s}
           /\ release(b, s).slotIPs = {pair \in b.slotIPs : pair[1] # s}
           /\ release(b, s).served = b.served
           /\ release(b, s).expiresAt = b.expiresAt
  <1> DEFINE others == {pair \in b.slotIPs : pair[1] # s}
             Kept(ip) == <<s, ip>> \notin b.slotIPs \/ \E pair \in others : pair[2] = ip
             q == b.burned
             I == {i \in DOMAIN q : Kept(q[i])}
             rest == Sift(q, I)
  <1>1. release(b, s) = [b EXCEPT !.usedSlots = @ \ {s}, !.slotIPs = others, !.burned = rest]
    BY DEF release
  <1>2. q \in Seq(IPs) /\ Once(q) /\ I \subseteq DOMAIN q
    BY DEF SaneBatch, BatchType
  <1>3. rest \in Seq(IPs) /\ Once(rest) /\ ToSet(rest) = {q[i] : i \in I}
    BY <1>2, SiftOnce
  <1> HIDE DEF rest
  <1>4. b.slotIPs \subseteq Slots \X IPs
    BY DEF SaneBatch, BatchType
  <1>5. \A ip : ip \in ToSet(rest) <=> \E pair \in others : pair[2] = ip
    <2>1. \A ip : ip \in ToSet(rest) <=> ip \in ToSet(q) /\ Kept(ip)
      BY <1>3 DEF ToSet
    <2>2. \A ip : ip \in ToSet(q) <=> \E pair \in b.slotIPs : pair[2] = ip
      BY DEF SaneBatch, usedIPs
    <2>3. \A pair \in b.slotIPs : pair = <<pair[1], pair[2]>>
      BY <1>4
    <2>4. \A pair \in b.slotIPs : Kept(pair[2]) => \E p \in others : p[2] = pair[2]
      BY <2>3
    <2>5. \A pair \in others : pair \in b.slotIPs /\ Kept(pair[2])
      OBVIOUS
    <2> HIDE DEF others, Kept
    <2>6. ASSUME NEW ip, ip \in ToSet(rest)
          PROVE  \E pair \in others : pair[2] = ip
      <3>1. PICK pair \in b.slotIPs : pair[2] = ip
        BY <2>1, <2>2, <2>6
      <3>2. Kept(pair[2])
        BY <2>1, <2>6, <3>1
      <3>3. QED
        BY <2>4, <3>1, <3>2
    <2>7. ASSUME NEW ip, NEW pair \in others, pair[2] = ip
          PROVE  ip \in ToSet(rest)
      BY <2>1, <2>2, <2>5, <2>7
    <2>8. QED
      BY <2>6, <2>7
  <1> DEFINE r == [b EXCEPT !.usedSlots = @ \ {s}, !.slotIPs = others, !.burned = rest]
  <1>6. /\ r.usedSlots = b.usedSlots \ {s} /\ r.slotIPs = others /\ r.burned = rest
        /\ r.served = b.served /\ r.expiresAt = b.expiresAt /\ r \in BatchType
    BY <1>3, <1>4 DEF SaneBatch, BatchType
  <1> HIDE DEF r
  <1>7. usedIPs(r) = {pair[2] : pair \in r.slotIPs}
    <2> HIDE DEF others
    <2>1. QED
      BY <1>5, <1>6 DEF usedIPs
  <1>8. \A pair \in r.slotIPs : pair[1] \in r.usedSlots
    BY <1>6 DEF SaneBatch
  <1>9. SaneBatch(r)
    BY <1>3, <1>6, <1>7, <1>8 DEF SaneBatch
  <1>10. QED
    BY <1>1, <1>6, <1>9 DEF r

-----------------------------------------------------------------------------
(* The methods of a preferredSet.                                          *)

SaneRing(q) ==
    /\ q \in Seq(PrefType) /\ Len(q) <= opts.PreferredMax
    /\ \A i, j \in DOMAIN q : q[i].publicIP = q[j].publicIP => i = j

\* Forgetting members (prune, removeIP, what pickPreferredLocked drops).
LEMMA SiftRing ==
    ASSUME NEW q, SaneRing(q), NEW I, I \subseteq DOMAIN q
    PROVE  SaneRing(Sift(q, I))
  <1> DEFINE p == Sift(q, I)
  <1>1. q \in Seq(PrefType) /\ Len(q) <= opts.PreferredMax
    BY DEF SaneRing
  <1>2. p \in Seq(PrefType) /\ Len(p) <= Len(q)
    BY <1>1, SiftLists
  <1>3. PICK f \in [DOMAIN p -> I] :
          /\ \A k \in DOMAIN p : p[k] = q[f[k]]
          /\ \A a, b \in DOMAIN p : f[a] = f[b] => a = b
    BY <1>1, SiftLists
  <1> HIDE DEF p
  <1>4. \A a, b \in DOMAIN p : p[a].publicIP = p[b].publicIP => a = b
    BY <1>3 DEF SaneRing
  <1>5. Len(p) <= opts.PreferredMax
    <2>1. Len(p) \in Nat /\ Len(q) \in Nat /\ opts.PreferredMax \in Nat
      BY <1>1, <1>2, LenProperties, InputAssumption DEF Options
    <2>2. QED
      BY <1>1, <1>2, <2>1
  <1>6. QED
    BY <1>2, <1>4, <1>5 DEF SaneRing, p

\* The smallest index of a set of them.
LEMMA MinIndex ==
    ASSUME NEW n \in Nat, NEW I, I \subseteq 1 .. n, I # {}
    PROVE  Min(I) \in I /\ \A i \in I : Min(I) <= i
  <1>1. I \subseteq Nat
    OBVIOUS
  <1>2. \E x \in I : \A y \in I : x <= y
    BY <1>1, Smallest
  <1>3. QED
    BY <1>2 DEF Min

\* Praise refreshes the member that has the address, or joins at the back; the oldest
\* member leaves a full ring.
LEMMA RememberRing ==
    ASSUME NEW q, SaneRing(q), NEW s \in Slots, NEW ip \in IPs, NEW until \in Nat
    PROVE  SaneRing(remember(q, s, ip, until, opts.PreferredMax))
  <1> DEFINE known == {i \in DOMAIN q : q[i].publicIP = ip}
             pref  == [slotID |-> s, publicIP |-> ip, expiresAt |-> until]
             grown == Append(q, pref)
             max   == opts.PreferredMax
             n     == Len(q)
  <1>1. /\ q \in Seq(PrefType) /\ n \in Nat /\ DOMAIN q = 1 .. n /\ n <= max /\ max \in Nat
        /\ pref \in PrefType /\ pref.publicIP = ip
    BY LenProperties, InputAssumption DEF SaneRing, PrefType, Options
  <1>2. CASE known # {}
    <2>1. Min(known) \in known
      BY <1>1, <1>2, MinIndex
    <2> DEFINE m == Min(known)
               p == [q EXCEPT ![m] = pref]
    <2>2. m \in 1 .. n /\ q[m].publicIP = ip
      BY <1>1, <2>1
    <2> HIDE DEF m, pref
    <2>3. /\ p \in Seq(PrefType) /\ Len(p) = n /\ DOMAIN p = 1 .. n
          /\ \A j \in 1 .. n : p[j] = IF j = m THEN pref ELSE q[j]
      BY <1>1, <2>2, ExceptSeq, LenProperties
    <2>4. \A j \in 1 .. n : p[j].publicIP = q[j].publicIP
      BY <1>1, <2>2, <2>3
    <2>5. remember(q, s, ip, until, max) = p
      BY <1>2 DEF remember, m, pref
    <2> HIDE DEF p
    <2>6. QED
      BY <1>1, <2>3, <2>4, <2>5 DEF SaneRing
  <1>3. CASE known = {}
    <2> HIDE DEF pref
    <2>1. /\ grown \in Seq(PrefType) /\ Len(grown) = n + 1
          /\ \A i \in 1 .. n : grown[i] = q[i]
          /\ grown[n + 1] = pref
      BY <1>1, AppendProperties
    <2>2. \A i, j \in 1 .. n + 1 : grown[i].publicIP = grown[j].publicIP => i = j
      <3>1. \A i \in 1 .. n : grown[i].publicIP # ip
        BY <1>1, <1>3, <2>1
      <3>2. \A i, j \in 1 .. n : grown[i].publicIP = grown[j].publicIP => i = j
        BY <1>1, <2>1 DEF SaneRing
      <3>3. \A i \in 1 .. n + 1 : i \in 1 .. n \/ i = n + 1
        BY <1>1
      <3>4. QED
        BY <1>1, <2>1, <3>1, <3>2, <3>3
    <2> DEFINE from == Max({1, Len(grown) - max + 1})
               p    == SubSeq(grown, from, Len(grown))
    <2>3. from \in 1 .. n + 2 /\ n + 2 - from <= max
      <3> DEFINE low == n + 1 - max + 1
      <3>1. low \in Int /\ low <= n + 2
        BY <1>1
      <3>2. \E x \in {1, low} : \A y \in {1, low} : x >= y
        BY <3>1
      <3>3. Max({1, low}) \in {1, low} /\ \A y \in {1, low} : Max({1, low}) >= y
        BY <3>2 DEF Max
      <3>4. from = Max({1, low})
        <4>1. Len(grown) - max + 1 = low
          BY <1>1, <2>1
        <4> HIDE DEF low, grown
        <4>2. QED
          BY <4>1
      <3>5. QED
        BY <1>1, <3>1, <3>3, <3>4
    <2> HIDE DEF from, grown
    <2>4. /\ p \in Seq(PrefType) /\ Len(p) = n + 2 - from
          /\ \A i \in 1 .. n + 2 - from : p[i] = grown[from + i - 1]
      <3>1. \A i \in from .. n + 1 : grown[i] \in PrefType
        BY <1>1, <2>1, <2>3, ElementOfSeq
      <3>2. /\ p \in Seq(PrefType)
            /\ Len(p) = IF from <= n + 1 THEN n + 1 - from + 1 ELSE 0
            /\ \A i \in 1 .. n + 1 - from + 1 : p[i] = grown[from + i - 1]
        BY <1>1, <2>1, <2>3, <3>1, SubSeqProperties
      <3>3. QED
        BY <1>1, <2>3, <3>2
    <2>5. remember(q, s, ip, until, max) = p
      BY <1>3 DEF remember, from, grown, pref
    <2> HIDE DEF p
    <2>6. DOMAIN p = 1 .. n + 2 - from
      BY <2>4, LenProperties
    <2>7. \A i, j \in DOMAIN p : p[i].publicIP = p[j].publicIP => i = j
      <3>1. \A i \in 1 .. n + 2 - from : from + i - 1 \in 1 .. n + 1
        BY <1>1, <2>3
      <3>2. ASSUME NEW i \in 1 .. n + 2 - from, NEW j \in 1 .. n + 2 - from,
                   p[i].publicIP = p[j].publicIP
            PROVE  i = j
        <4>1. from + i - 1 = from + j - 1
          BY <2>2, <2>4, <3>1, <3>2
        <4>2. QED
          BY <1>1, <2>3, <4>1
      <3>3. QED
        BY <2>6, <3>2
    <2>8. QED
      BY <1>1, <2>3, <2>4, <2>5, <2>7 DEF SaneRing
  <1>4. QED
    BY <1>2, <1>3

\* Rotating moves one member to the back.
LEMMA RotateRing ==
    ASSUME NEW q, SaneRing(q), NEW s
    PROVE  SaneRing(rotateToTail(q, s))
  <1> DEFINE here == {i \in 1 .. (Len(q) - 1) : q[i].slotID = s}
             n == Len(q)
             m == Min(here)
             front == SubSeq(q, 1, m - 1)
             back == SubSeq(q, m + 1, n)
             p == Append(RemoveAt(q, m), q[m])
  <1>1. q \in Seq(PrefType) /\ n \in Nat /\ n = Len(q) /\ DOMAIN q = 1 .. n
    BY LenProperties DEF SaneRing
  <1>2. CASE here = {}
    BY <1>2 DEF rotateToTail
  <1>3. CASE here # {}
    <2>1. m \in 1 .. n - 1
      <3>1. here \subseteq 1 .. n
        BY <1>1
      <3>2. m \in here
        BY <1>1, <1>3, <3>1, MinIndex
      <3>3. QED
        BY <3>2
    <2>2. rotateToTail(q, s) = p
      BY <1>3 DEF rotateToTail
    <2> HIDE DEF m
    <2>3. \A i \in 1 .. n : q[i] \in PrefType
      BY <1>1, ElementOfSeq
    <2>4. /\ front \in Seq(PrefType) /\ Len(front) = m - 1
          /\ \A i \in 1 .. m - 1 : front[i] = q[i]
      <3>1. \A i \in 1 .. m - 1 : q[i] \in PrefType
        BY <1>1, <2>1, <2>3
      <3>2. /\ front \in Seq(PrefType)
            /\ Len(front) = IF 1 <= m - 1 THEN m - 1 - 1 + 1 ELSE 0
            /\ \A i \in 1 .. m - 1 - 1 + 1 : front[i] = q[1 + i - 1]
        BY <1>1, <2>1, <3>1, SubSeqProperties
      <3> HIDE DEF front
      <3>3. QED
        BY <1>1, <2>1, <3>2
    <2>5. /\ back \in Seq(PrefType) /\ Len(back) = n - m
          /\ \A i \in 1 .. n - m : back[i] = q[m + i]
      <3>1. \A i \in m + 1 .. n : q[i] \in PrefType
        BY <1>1, <2>1, <2>3
      <3>2. /\ back \in Seq(PrefType)
            /\ Len(back) = IF m + 1 <= n THEN n - (m + 1) + 1 ELSE 0
            /\ \A i \in 1 .. n - (m + 1) + 1 : back[i] = q[m + 1 + i - 1]
        BY <1>1, <2>1, <3>1, SubSeqProperties
      <3> HIDE DEF back
      <3>3. \A i \in 1 .. n - m : m + 1 + i - 1 = m + i
        BY <1>1, <2>1
      <3>4. QED
        BY <1>1, <2>1, <3>2, <3>3
    <2> HIDE DEF front, back
    <2>6. /\ front \o back \in Seq(PrefType) /\ Len(front \o back) = n - 1
          /\ \A i \in 1 .. n - 1 : (front \o back)[i] = IF i < m THEN q[i] ELSE q[i + 1]
      <3>1. /\ front \o back \in Seq(PrefType)
            /\ Len(front \o back) = Len(front) + Len(back)
            /\ \A i \in 1 .. Len(front) + Len(back) :
                 (front \o back)[i] = IF i <= Len(front) THEN front[i] ELSE back[i - Len(front)]
        BY <2>4, <2>5, ConcatProperties
      <3>2. Len(front \o back) = n - 1
        BY <1>1, <2>1, <2>4, <2>5, <3>1
      <3>3. ASSUME NEW i \in 1 .. n - 1
            PROVE  (front \o back)[i] = IF i < m THEN q[i] ELSE q[i + 1]
        <4>1. (front \o back)[i] = IF i <= m - 1 THEN front[i] ELSE back[i - (m - 1)]
          BY <1>1, <2>1, <2>4, <2>5, <3>1
        <4>2. CASE i < m
          BY <1>1, <2>1, <2>4, <4>1, <4>2
        <4>3. CASE ~(i < m)
          <5>1. i - (m - 1) \in 1 .. n - m /\ m + (i - (m - 1)) = i + 1
            BY <1>1, <2>1, <4>3
          <5>2. (front \o back)[i] = back[i - (m - 1)]
            BY <1>1, <2>1, <4>1, <4>3
          <5>3. back[i - (m - 1)] = q[m + (i - (m - 1))]
            BY <2>5, <5>1
          <5>4. QED
            BY <4>3, <5>1, <5>2, <5>3
        <4>4. QED
          BY <4>2, <4>3
      <3>4. QED
        BY <3>1, <3>2, <3>3
    <2>7. RemoveAt(q, m) = front \o back
      BY DEF RemoveAt, front, back
    <2> DEFINE rest == front \o back
               from == [k \in 1 .. n |-> IF k = n THEN m ELSE IF k < m THEN k ELSE k + 1]
    <2> HIDE DEF rest, n
    <2>8. /\ p \in Seq(PrefType) /\ Len(p) = n /\ DOMAIN p = 1 .. n
          /\ \A k \in 1 .. n : from[k] \in 1 .. n /\ p[k] = q[from[k]]
      <3>1. /\ rest \in Seq(PrefType) /\ Len(rest) = n - 1 /\ q[m] \in PrefType /\ p = Append(rest, q[m])
            /\ \A i \in 1 .. n - 1 : rest[i] = IF i < m THEN q[i] ELSE q[i + 1]
        <4>1. p = Append(rest, q[m])
          BY <2>7 DEF rest
        <4>2. m \in 1 .. n
          BY <1>1, <2>1
        <4>3. QED
          BY <2>3, <2>6, <4>1, <4>2 DEF rest
      <3> HIDE DEF p
      <3>2. /\ p \in Seq(PrefType) /\ Len(p) = Len(rest) + 1
            /\ \A i \in 1 .. Len(rest) : p[i] = rest[i]
            /\ p[Len(rest) + 1] = q[m]
        BY <3>1, AppendProperties
      <3>3. Len(p) = n /\ DOMAIN p = 1 .. n /\ p[n] = q[m]
        <4>1. Len(p) = n /\ p[n] = q[m]
          BY <1>1, <3>1, <3>2
        <4>2. QED
          BY <3>2, <4>1, LenProperties
      <3>4. ASSUME NEW k \in 1 .. n
            PROVE  from[k] \in 1 .. n /\ p[k] = q[from[k]]
        <4>1. CASE k = n
          BY <1>1, <2>1, <3>3, <4>1
        <4>2. CASE k # n
          <5>1. k \in 1 .. n - 1
            BY <1>1, <4>2
          <5>2. p[k] = rest[k]
            BY <3>1, <3>2, <5>1
          <5>3. QED
            BY <1>1, <2>1, <3>1, <4>2, <5>1, <5>2
        <4>3. QED
          BY <4>1, <4>2
      <3>5. QED
        BY <3>2, <3>3, <3>4
    <2> HIDE DEF p
    <2>9. \A a, b \in 1 .. n : from[a] = from[b] => a = b
      BY <1>1, <2>1
    <2> HIDE DEF from
    <2>10. \A a, b \in DOMAIN p : p[a].publicIP = p[b].publicIP => a = b
      BY <1>1, <2>8, <2>9 DEF SaneRing
    <2>11. QED
      BY <1>1, <2>2, <2>8, <2>10 DEF SaneRing
  <1>4. QED
    BY <1>2, <1>3
=============================================================================
