-------------------------- MODULE MatchCache_proofs --------------------------
(***************************************************************************)
(* Proofs about lib/match-cache.x, for a cache of any capacity, any number *)
(* of leases and any collision of keys: the bucket chains and the ring     *)
(* keep exactly the entries, a lease runs its own pattern's plan, and the  *)
(* cache lends, keeps and recycles as the list of keys of PlanCache does.  *)
(***************************************************************************)
EXTENDS MatchCache, FiniteSetTheorems, SequenceTheorems, WellFoundedInduction, TLAPS

-----------------------------------------------------------------------------
(* The inductive invariant.  In the predicates O is the set of the slots    *)
(* that hold an entry, e the entries and h the head of the ring.            *)

Occupied(c) == {s \in Slots : c.entry[s].occupied}

(* The links go once around all entries. *)
Ring(O, e, h) ==
  /\ \A s \in O : /\ e[s].next \in O /\ e[s].prev \in O
                  /\ e[e[s].next].prev = s /\ e[e[s].prev].next = s
  /\ h \in O \cup {-1} /\ (h = -1 <=> O = {})
  /\ \A S \in SUBSET O : S # {} /\ (\A s \in S : e[s].next \in S) => S = O

(* A chain leads from its bucket's head to ever older entries of the bucket, *)
(* and to each of them by one link.                                         *)
Place(e, s) == BucketOf[e[s].key]
Linked(O, e, bucket) ==
  /\ \A s \in O : e[s].key \in Keys
  /\ \A b \in Buckets : bucket[b] = -1 \/ (bucket[b] \in O /\ Place(e, bucket[b]) = b)
  /\ \A s \in O : e[s].chain # -1 =>
       /\ e[s].chain \in O /\ Place(e, e[s].chain) = Place(e, s)
       /\ e[e[s].chain].generation < e[s].generation
       /\ e[s].chain # bucket[Place(e, s)]
  /\ \A s, t \in O : e[s].chain = e[t].chain /\ e[s].chain # -1 => s = t
  /\ \A s \in O : bucket[Place(e, s)] = s \/ \E t \in O : e[t].chain = s

Sound(c) ==
  /\ c \in CacheType
  /\ Ring(Occupied(c), c.entry, c.head)
  /\ Linked(Occupied(c), c.entry, c.bucket)
  /\ c.size = Cardinality(Occupied(c)) /\ c.size <= c.capacity
  /\ \A s \in Occupied(c) : c.entry[s].generation <= c.generation

(* The leases that are out, and those that pin a slot. *)
Out(ls) == {l \in Leases : ls[l].active}
Cached(ls) == {l \in Out(ls) : ls[l].transient = None}
Pinning(ls, s) == {l \in Cached(ls) : ls[l].slot = s}

Pinned(c, ls) == /\ c.active = Cardinality(Out(ls))
                 /\ \A s \in Slots : c.entry[s].pins = Cardinality(Pinning(ls, s))

(* A cached lease finds the entry it was given, with its pattern's plan. *)
Lent(c, ls, ct) ==
  \A l \in Cached(ls) :
    LET e == c.entry[ls[l].slot]
    IN /\ ls[l].slot \in Occupied(c)
       /\ e.generation = ls[l].generation /\ e.key = ls[l].key /\ e.plan = ct[ls[l].key]

(* Once no level was released since, every entry may be lent. *)
Fresh(c, ct, now) ==
  /\ c.epoch <= now
  /\ c.epoch = now =>
       \A s \in Occupied(c) : /\ c.entry[s].plan = ct[c.entry[s].key]
                              /\ c.entry[s].plan # None

Good(c) == Sound(c) /\ Pinned(c, lease) /\ Lent(c, lease, content) /\ Fresh(c, content, epoch)

(* What a lease was asked for is still there; a plan of its own is of it. *)
Asked(ls, ct) ==
  \A l \in Out(ls) : /\ ls[l].key \in Keys /\ ct[ls[l].key] # None
                     /\ ls[l].transient # None => ls[l].transient = ct[ls[l].key]

IInv == /\ Asked(lease, content)
        /\ cache = None => Out(lease) = {}
        /\ cache # None => Good(cache)

-----------------------------------------------------------------------------
LEMMA MaxIn ==
  ASSUME NEW n \in Capacities
  PROVE  Max(Capacities) \in Capacities /\ n <= Max(Capacities)
<1> DEFINE Up(x) == {y \in Capacities : y >= x}
           T == {Up(x) : x \in Capacities}
           R == StrictSubsetOrdering(Capacities)
<1>1. IsWellFoundedOn(R, FiniteSubsetsOf(Capacities))
  BY CacheAssumption, FS_StrictSubsetOrderingWellFounded
<1>2. T \subseteq FiniteSubsetsOf(Capacities) /\ T # {}
  <2>1. \A x \in Capacities : Up(x) \subseteq Capacities
    OBVIOUS
  <2>2. \A x \in Capacities : IsFiniteSet(Up(x))
    <3> HIDE DEF Up
    <3> QED BY <2>1, CacheAssumption, FS_Subset
  <2> QED BY <2>1, <2>2 DEF FiniteSubsetsOf
<1>3. PICK U \in T : \A V \in T : ~ (<<V, U>> \in R)
  <2> HIDE DEF T, R
  <2> QED BY <1>1, <1>2, WFMin
<1>4. PICK m \in Capacities : U = Up(m)
  OBVIOUS
<1>5. ASSUME NEW y \in Capacities PROVE m >= y
  <2>1. m \in Nat /\ y \in Nat BY CacheAssumption
  <2>2. SUFFICES ASSUME y > m PROVE FALSE BY <2>1
  <2>3. Up(y) \subseteq Up(m)
    <3>1. SUFFICES ASSUME NEW z \in Capacities, z >= y PROVE z >= m OBVIOUS
    <3>2. z \in Nat BY CacheAssumption
    <3> QED BY ONLY <2>1, <2>2, <3>1, <3>2
  <2>4. m \in Up(m) /\ m \notin Up(y) BY <2>1, <2>2
  <2>5. <<Up(y), Up(m)>> \in R
    <3>1. Up(y) \in SUBSET Capacities /\ Up(m) \in SUBSET Capacities OBVIOUS
    <3>2. Up(y) # Up(m) BY <2>4
    <3> HIDE DEF Up
    <3> QED BY <2>3, <3>1, <3>2 DEF StrictSubsetOrdering
  <2> QED BY <1>3, <1>4, <2>5
<1>6. Max(Capacities) \in Capacities /\ \A y \in Capacities : Max(Capacities) >= y
  BY <1>5 DEF Max
<1> QED BY <1>6, CacheAssumption

LEMMA SlotFacts ==
  /\ Slots \subseteq Nat /\ -1 \notin Slots
  /\ \A n \in Capacities : 0 .. n - 1 \subseteq Slots /\ IsFiniteSet(Slots) /\ 0 \in Slots
<1>1. Slots \subseteq Nat BY DEF Slots
<1>2. ASSUME NEW n \in Capacities PROVE 0 .. n - 1 \subseteq Slots /\ IsFiniteSet(Slots) /\ 0 \in Slots
  <2>1. n \in Nat \ {0} /\ Max(Capacities) \in Nat \ {0} /\ n <= Max(Capacities)
    BY MaxIn, CacheAssumption
  <2>2. IsFiniteSet(0 .. Max(Capacities) - 1) BY <2>1, FS_Interval
  <2> QED BY <2>1, <2>2 DEF Slots
<1> QED BY <1>1, <1>2

-----------------------------------------------------------------------------
(* The ring *)

(* All of an entry but its place in the ring. *)
SameEntry(f, e) == /\ f.key = e.key /\ f.plan = e.plan /\ f.generation = e.generation
                   /\ f.occupied = e.occupied /\ f.pins = e.pins /\ f.chain = e.chain

(* d is c with other ring links. *)
Relinked(d, c) ==
  /\ \A s \in Slots : SameEntry(d.entry[s], c.entry[s])
  /\ d.capacity = c.capacity /\ d.bucket = c.bucket /\ d.size = c.size /\ d.active = c.active
  /\ d.generation = c.generation /\ d.epoch = c.epoch
  /\ d.admitted = c.admitted /\ d.refused = c.refused

LEMMA PrevReplaced ==
  ASSUME NEW e \in [Slots -> EntryType], NEW n \in Slots, NEW x \in Slots
  PROVE  LET f == [e EXCEPT ![n].prev = x]
         IN f \in [Slots -> EntryType] /\ \A t \in Slots :
              /\ SameEntry(f[t], e[t]) /\ f[t].next = e[t].next
              /\ f[t].prev = IF t = n THEN x ELSE e[t].prev
<1>1. e[n] \in EntryType OBVIOUS
<1> DEFINE r == [e[n] EXCEPT !.prev = x]
<1>2. r \in EntryType /\ SameEntry(r, e[n]) /\ r.next = e[n].next /\ r.prev = x
  BY <1>1 DEF EntryType, SameEntry
<1>3. [e EXCEPT ![n].prev = x] = [e EXCEPT ![n] = r] OBVIOUS
<1>4. \A t \in Slots : SameEntry(e[t], e[t]) BY DEF SameEntry
<1> HIDE DEF r
<1> QED BY <1>2, <1>3, <1>4

LEMMA NextReplaced ==
  ASSUME NEW e \in [Slots -> EntryType], NEW n \in Slots, NEW x \in Slots
  PROVE  LET f == [e EXCEPT ![n].next = x]
         IN f \in [Slots -> EntryType] /\ \A t \in Slots :
              /\ SameEntry(f[t], e[t]) /\ f[t].prev = e[t].prev
              /\ f[t].next = IF t = n THEN x ELSE e[t].next
<1>1. e[n] \in EntryType OBVIOUS
<1> DEFINE r == [e[n] EXCEPT !.next = x]
<1>2. r \in EntryType /\ SameEntry(r, e[n]) /\ r.prev = e[n].prev /\ r.next = x
  BY <1>1 DEF EntryType, SameEntry
<1>3. [e EXCEPT ![n].next = x] = [e EXCEPT ![n] = r] OBVIOUS
<1>4. \A t \in Slots : SameEntry(e[t], e[t]) BY DEF SameEntry
<1> HIDE DEF r
<1> QED BY <1>2, <1>3, <1>4

LEMMA UnlinkFacts ==
  ASSUME NEW c \in CacheType, NEW s \in Slots
  PROVE  LET d == Unlink(c, s)
             p == c.entry[s].prev
             n == c.entry[s].next
         IN /\ d \in CacheType /\ Relinked(d, c)
            /\ d.head = IF c.head # s THEN c.head ELSE IF n = s THEN -1 ELSE n
            /\ \A t \in Slots : /\ d.entry[t].next = IF t = p THEN n ELSE c.entry[t].next
                                /\ d.entry[t].prev = IF t = n THEN p ELSE c.entry[t].prev
<1> DEFINE p == c.entry[s].prev
           n == c.entry[s].next
           e1 == [c.entry EXCEPT ![p].next = n]
           e2 == [e1 EXCEPT ![n].prev = p]
<1>1. c.entry \in [Slots -> EntryType] /\ p \in Slots /\ n \in Slots /\ c.head \in Link
  BY DEF CacheType, EntryType
<1>2. e1 \in [Slots -> EntryType] /\ \A t \in Slots :
        /\ SameEntry(e1[t], c.entry[t]) /\ e1[t].prev = c.entry[t].prev
        /\ e1[t].next = IF t = p THEN n ELSE c.entry[t].next
  <2> HIDE DEF p, n
  <2> QED BY <1>1, NextReplaced
<1>3. e2 \in [Slots -> EntryType] /\ \A t \in Slots :
        /\ SameEntry(e2[t], e1[t]) /\ e2[t].next = e1[t].next
        /\ e2[t].prev = IF t = n THEN p ELSE e1[t].prev
  <2> HIDE DEF p, n, e1
  <2> QED BY <1>1, <1>2, PrevReplaced
<1>4. Unlink(c, s) = [c EXCEPT !.entry = e2, !.head = IF c.head # s THEN c.head ELSE IF n = s THEN -1 ELSE n]
  BY DEF Unlink, CacheType
<1>5. (IF c.head # s THEN c.head ELSE IF n = s THEN -1 ELSE n) \in Link
  BY <1>1 DEF Link
<1> DEFINE d == Unlink(c, s)
           hd == IF c.head # s THEN c.head ELSE IF n = s THEN -1 ELSE n
<1>6. d \in CacheType /\ d.entry = e2 /\ d.head = hd
      /\ d.capacity = c.capacity /\ d.bucket = c.bucket /\ d.size = c.size /\ d.active = c.active
      /\ d.generation = c.generation /\ d.epoch = c.epoch
      /\ d.admitted = c.admitted /\ d.refused = c.refused
  <2>1. hd \in Link BY <1>5
  <2>2. d = [c EXCEPT !.entry = e2, !.head = hd] BY <1>4
  <2> HIDE DEF hd, e2, d
  <2> QED BY <1>3, <2>1, <2>2 DEF CacheType
<1>7. \A t \in Slots : SameEntry(d.entry[t], c.entry[t])
  <2> HIDE DEF d, e2, e1
  <2> QED BY <1>2, <1>3, <1>6 DEF SameEntry
<1>8. \A t \in Slots : /\ d.entry[t].next = IF t = p THEN n ELSE c.entry[t].next
                       /\ d.entry[t].prev = IF t = n THEN p ELSE c.entry[t].prev
  <2> HIDE DEF d, e2, e1
  <2> QED BY <1>2, <1>3, <1>6
<1> HIDE DEF d, e2, e1
<1> QED BY <1>6, <1>7, <1>8 DEF Relinked, d

LEMMA LinkMruFacts ==
  ASSUME NEW c \in CacheType, NEW s \in Slots
  PROVE  LET d == LinkMru(c, s)
             a == IF c.head < 0 THEN s ELSE c.head
             p == IF c.head < 0 THEN s ELSE c.entry[c.head].prev
         IN /\ d \in CacheType /\ Relinked(d, c) /\ d.head = s
            /\ \A t \in Slots :
                 /\ d.entry[t].next = IF t = p THEN s ELSE IF t = s THEN a ELSE c.entry[t].next
                 /\ d.entry[t].prev = IF t = a THEN s ELSE IF t = s THEN p ELSE c.entry[t].prev
<1> DEFINE a == IF c.head < 0 THEN s ELSE c.head
           p == IF c.head < 0 THEN s ELSE c.entry[c.head].prev
           e1 == [c.entry EXCEPT ![s].next = a, ![s].prev = p]
           e2 == [e1 EXCEPT ![p].next = s]
           e3 == [e2 EXCEPT ![a].prev = s]
<1>1. c.entry \in [Slots -> EntryType] /\ a \in Slots /\ p \in Slots
  <2>1. c.entry \in [Slots -> EntryType] /\ c.head \in Slots \cup {-1} BY DEF CacheType, Link
  <2>2. CASE c.head = -1 BY <2>1, <2>2
  <2>3. CASE c.head \in Slots
    <3> DEFINE x == c.head
    <3>0. x \in Nat BY <2>3, SlotFacts
    <3>1. ~ (x < 0)
      <4> HIDE DEF x
      <4> QED BY <3>0
    <3>2. c.entry[c.head].prev \in Slots BY <2>1, <2>3 DEF EntryType
    <3> QED BY <2>1, <2>3, <3>1, <3>2
  <2> QED BY <2>1, <2>2, <2>3
<1>2. e1 \in [Slots -> EntryType] /\ \A t \in Slots :
        /\ SameEntry(e1[t], c.entry[t])
        /\ e1[t].prev = IF t = s THEN p ELSE c.entry[t].prev
        /\ e1[t].next = IF t = s THEN a ELSE c.entry[t].next
  <2> DEFINE ahead == [c.entry EXCEPT ![s].next = a]
  <2> HIDE DEF p, a
  <2>1. ahead \in [Slots -> EntryType] /\ \A t \in Slots :
          /\ SameEntry(ahead[t], c.entry[t]) /\ ahead[t].prev = c.entry[t].prev
          /\ ahead[t].next = IF t = s THEN a ELSE c.entry[t].next
    BY <1>1, NextReplaced
  <2>2. e1 = [ahead EXCEPT ![s].prev = p] BY <1>1
  <2> DEFINE moved == [ahead EXCEPT ![s].prev = p]
  <2> HIDE DEF ahead
  <2>4. moved \in [Slots -> EntryType] /\ \A t \in Slots :
          /\ SameEntry(moved[t], ahead[t]) /\ moved[t].next = ahead[t].next
          /\ moved[t].prev = IF t = s THEN p ELSE ahead[t].prev
    BY ONLY <1>1, <2>1, PrevReplaced
  <2> HIDE DEF e1, moved
  <2>3. e1 \in [Slots -> EntryType] /\ \A t \in Slots :
          /\ SameEntry(e1[t], ahead[t]) /\ e1[t].next = ahead[t].next
          /\ e1[t].prev = IF t = s THEN p ELSE ahead[t].prev
    BY <2>2, <2>4 DEF moved
  <2> QED BY <2>1, <2>3 DEF SameEntry
<1>3. e2 \in [Slots -> EntryType] /\ \A t \in Slots :
        /\ SameEntry(e2[t], e1[t]) /\ e2[t].prev = e1[t].prev
        /\ e2[t].next = IF t = p THEN s ELSE e1[t].next
  <2> HIDE DEF p, a, e1
  <2> QED BY <1>1, <1>2, NextReplaced
<1>4. e3 \in [Slots -> EntryType] /\ \A t \in Slots :
        /\ SameEntry(e3[t], e2[t]) /\ e3[t].next = e2[t].next
        /\ e3[t].prev = IF t = a THEN s ELSE e2[t].prev
  <2> HIDE DEF p, a, e2
  <2> QED BY <1>1, <1>3, PrevReplaced
<1> DEFINE d == LinkMru(c, s)
<1>5. d = [c EXCEPT !.entry = e3, !.head = s]
  BY DEF LinkMru
<1>6. d \in CacheType /\ d.entry = e3 /\ d.head = s
      /\ d.capacity = c.capacity /\ d.bucket = c.bucket /\ d.size = c.size /\ d.active = c.active
      /\ d.generation = c.generation /\ d.epoch = c.epoch
      /\ d.admitted = c.admitted /\ d.refused = c.refused
  <2> HIDE DEF d, e3
  <2> QED BY <1>4, <1>5 DEF CacheType, Link
<1>7. \A t \in Slots : SameEntry(d.entry[t], c.entry[t])
  <2> HIDE DEF d, e3, e2, e1
  <2> QED BY <1>2, <1>3, <1>4, <1>6 DEF SameEntry
<1>8. \A t \in Slots : /\ d.entry[t].next = IF t = p THEN s ELSE IF t = s THEN a ELSE c.entry[t].next
                       /\ d.entry[t].prev = IF t = a THEN s ELSE IF t = s THEN p ELSE c.entry[t].prev
  <2> HIDE DEF d, e3, e2, e1
  <2> QED BY <1>2, <1>3, <1>4, <1>6
<1> HIDE DEF d, e3, e2, e1
<1> QED BY <1>6, <1>7, <1>8 DEF Relinked, d
LEMMA SameRing ==
  ASSUME NEW O, NEW e, NEW f, NEW h, Ring(O, e, h),
         \A t \in O : f[t].next = e[t].next /\ f[t].prev = e[t].prev
  PROVE  Ring(O, f, h)
<1>1. \A t \in O : /\ e[t].next \in O /\ e[t].prev \in O
                  /\ e[e[t].next].prev = t /\ e[e[t].prev].next = t
  BY DEF Ring
<1>2. \A S \in SUBSET O : S # {} /\ (\A t \in S : f[t].next \in S) => S = O
  <2> SUFFICES ASSUME NEW S \in SUBSET O, S # {}, \A t \in S : f[t].next \in S PROVE S = O
    OBVIOUS
  <2>1. \A t \in S : e[t].next \in S OBVIOUS
  <2> QED BY <2>1 DEF Ring
<1>3. h \in O \cup {-1} /\ (h = -1 <=> O = {}) BY DEF Ring
<1>4. \A t \in O : /\ f[t].next \in O /\ f[t].prev \in O
                  /\ f[f[t].next].prev = t /\ f[f[t].prev].next = t
  BY <1>1
<1> QED BY ONLY <1>2, <1>3, <1>4 DEF Ring

(* One entry less. *)
LEMMA UnlinkRing ==
  ASSUME NEW c \in CacheType, NEW O \in SUBSET Slots, Ring(O, c.entry, c.head), NEW s \in O
  PROVE  LET d == Unlink(c, s) IN Ring(O \ {s}, d.entry, d.head)
<1> DEFINE d == Unlink(c, s)
           e == c.entry
           f == d.entry
           p == e[s].prev
           n == e[s].next
<1>1. \A t \in O : /\ f[t].next = IF t = p THEN n ELSE e[t].next
                  /\ f[t].prev = IF t = n THEN p ELSE e[t].prev
  BY UnlinkFacts
<1>2. d.head = IF c.head # s THEN c.head ELSE IF n = s THEN -1 ELSE n
  BY UnlinkFacts
<1>3. \A t \in O : /\ e[t].next \in O /\ e[t].prev \in O
                  /\ e[e[t].next].prev = t /\ e[e[t].prev].next = t
  BY DEF Ring
<1>4. c.head \in O \cup {-1} /\ (c.head = -1 <=> O = {}) BY DEF Ring
<1>5. \A S \in SUBSET O : S # {} /\ (\A t \in S : e[t].next \in S) => S = O BY DEF Ring
<1>6. n \in O /\ p \in O /\ e[n].prev = s /\ e[p].next = s BY <1>3
<1>7. p = s <=> n = s BY <1>3
<1>0. -1 \notin O BY SlotFacts
<1> HIDE DEF d, e, f, p, n
<1>8. ASSUME NEW t \in O \ {s}
      PROVE  /\ f[t].next \in O \ {s} /\ f[t].prev \in O \ {s}
             /\ f[f[t].next].prev = t /\ f[f[t].prev].next = t
  <2>1. e[t].next # s \/ t = p BY <1>3 DEF p
  <2>2. e[t].prev # s \/ t = n BY <1>3 DEF n
  <2>3. t = p => n # s BY <1>7
  <2>4. t = n => p # s BY <1>7
  <2>5. t # p => f[t].next = e[t].next /\ e[t].next \in O \ {s} BY <1>1, <1>3, <2>1
  <2>6. t = p => f[t].next = n /\ n \in O \ {s} BY <1>1, <1>6, <2>3
  <2>7. t # n => f[t].prev = e[t].prev /\ e[t].prev \in O \ {s} BY <1>1, <1>3, <2>2
  <2>8. t = n => f[t].prev = p /\ p \in O \ {s} BY <1>1, <1>6, <2>4
  <2>9. t # p => f[e[t].next].prev = t
    <3>1. t # p => e[t].next # n BY <1>3, <1>6
    <3> QED BY <1>1, <1>3, <3>1
  <2>10. t = p => f[n].prev = t BY <1>1, <1>6
  <2>11. t # n => f[e[t].prev].next = t
    <3>1. t # n => e[t].prev # p BY <1>3, <1>6
    <3> QED BY <1>1, <1>3, <3>1
  <2>12. t = n => f[p].next = t BY <1>1, <1>6
  <2> QED BY <2>5, <2>6, <2>7, <2>8, <2>9, <2>10, <2>11, <2>12
<1>9. d.head \in (O \ {s}) \cup {-1} /\ (d.head = -1 <=> O \ {s} = {})
  <2>1. n = s => O = {s}
    <3>1. SUFFICES ASSUME n = s PROVE O = {s} OBVIOUS
    <3>2. {s} \in SUBSET O /\ {s} # {} OBVIOUS
    <3>3. \A t \in {s} : e[t].next \in {s} BY <3>1 DEF n
    <3> QED BY ONLY <1>5, <3>2, <3>3
  <2> QED BY <1>0, <1>2, <1>4, <1>6, <2>1
<1>10. ASSUME NEW S \in SUBSET (O \ {s}), S # {}, \A t \in S : f[t].next \in S
       PROVE  S = O \ {s}
  <2>1. CASE p \in S
    <3>1. f[p].next = n BY <1>1, <1>6
    <3>2. n \in S BY <1>10, <2>1, <3>1
    <3>3. \A t \in S \cup {s} : e[t].next \in S \cup {s}
      <4>1. e[s].next \in S BY <3>2 DEF n
      <4>2. e[p].next = s BY <1>6
      <4>3. \A t \in S : t # p => e[t].next \in S BY <1>1, <1>10
      <4> QED BY <4>1, <4>2, <4>3
    <3>4. S \cup {s} \in SUBSET O /\ S \cup {s} # {} OBVIOUS
    <3>5. S \cup {s} = O BY ONLY <1>5, <3>3, <3>4
    <3> QED BY <3>5
  <2>2. CASE p \notin S
    <3>1. \A t \in S : e[t].next \in S BY <1>1, <1>10, <2>2
    <3>2. S = O BY <1>5, <1>10, <3>1
    <3> QED BY <3>2
  <2> QED BY <2>1, <2>2
<1>11. Ring(O \ {s}, f, d.head)
  BY <1>8, <1>9, <1>10 DEF Ring
<1> QED BY <1>11 DEF d, f

(* One entry more, at the head. *)
LEMMA LinkRing ==
  ASSUME NEW c \in CacheType, NEW O \in SUBSET Slots, Ring(O, c.entry, c.head),
         NEW s \in Slots \ O
  PROVE  LET d == LinkMru(c, s) IN Ring(O \cup {s}, d.entry, d.head)
<1> DEFINE d == LinkMru(c, s)
           e == c.entry
           f == d.entry
           h == c.head
           a == IF h < 0 THEN s ELSE h
           p == IF h < 0 THEN s ELSE e[h].prev
<1>1. \A t \in Slots : /\ f[t].next = IF t = p THEN s ELSE IF t = s THEN a ELSE e[t].next
                      /\ f[t].prev = IF t = a THEN s ELSE IF t = s THEN p ELSE e[t].prev
  BY LinkMruFacts
<1>2. d.head = s BY LinkMruFacts
<1>3. \A t \in O : /\ e[t].next \in O /\ e[t].prev \in O
                  /\ e[e[t].next].prev = t /\ e[e[t].prev].next = t
  BY DEF Ring
<1>4. h \in O \cup {-1} /\ (h = -1 <=> O = {}) BY DEF Ring
<1>5. \A S \in SUBSET O : S # {} /\ (\A t \in S : e[t].next \in S) => S = O BY DEF Ring
<1>6. -1 \notin O /\ s # -1 /\ O \subseteq Nat BY SlotFacts
<1>7. CASE O = {}
  <2>1. a = s /\ p = s BY <1>4, <1>7
  <2> HIDE DEF d, e, f, h, a, p
  <2>2. f[s].next = s /\ f[s].prev = s BY <1>1, <2>1
  <2>3. \A S \in SUBSET (O \cup {s}) : S # {} => S = O \cup {s} BY <1>7
  <2>4. O \cup {s} = {s} BY <1>7
  <2>5. Ring(O \cup {s}, f, d.head) BY <1>2, <1>6, <2>2, <2>3, <2>4 DEF Ring
  <2> QED BY <2>5 DEF f, d
<1>8. CASE O # {}
  <2>1. h \in O /\ ~ (h < 0)
    <3>1. h \in O BY <1>4, <1>8
    <3> HIDE DEF h
    <3> QED BY <1>6, <3>1
  <2>2. a = h /\ p = e[h].prev BY <2>1
  <2>3. a \in O /\ p \in O /\ e[a].prev = p /\ e[p].next = a BY <1>3, <2>1, <2>2
  <2> HIDE DEF d, e, f, h, a, p
  <2>4. ASSUME NEW t \in O \cup {s}
        PROVE  /\ f[t].next \in O \cup {s} /\ f[t].prev \in O \cup {s}
               /\ f[f[t].next].prev = t /\ f[f[t].prev].next = t
    <3>1. f[p].next = s /\ f[s].next = a /\ f[a].prev = s /\ f[s].prev = p
      BY <1>1, <2>3
    <3>2. CASE t = s BY <2>3, <3>1, <3>2
    <3>3. CASE t # s
      <4>1. t \in O BY <3>3
      <4>2. t # p => /\ f[t].next = e[t].next /\ e[t].next \in O /\ e[t].next # a
                     /\ f[e[t].next].prev = e[e[t].next].prev
        <5>1. t # p => e[t].next # a BY <1>3, <2>3, <4>1
        <5> QED BY <1>1, <1>3, <3>3, <4>1, <5>1
      <4>3. t # a => /\ f[t].prev = e[t].prev /\ e[t].prev \in O
                     /\ f[e[t].prev].next = e[e[t].prev].next
        <5>1. t # a => e[t].prev # p BY <1>3, <2>3, <4>1
        <5> QED BY <1>1, <1>3, <3>3, <4>1, <5>1
      <4> QED BY <1>3, <3>1, <4>1, <4>2, <4>3
    <3> QED BY <3>2, <3>3
  <2>5. ASSUME NEW S \in SUBSET (O \cup {s}), S # {}, \A t \in S : f[t].next \in S
        PROVE  S = O \cup {s}
    <3>1. CASE s \in S
      <4>1. a \in S BY <1>1, <2>3, <2>5, <3>1
      <4>2. \A t \in S \ {s} : e[t].next \in S \ {s}
        <5>1. \A t \in O : t # p => f[t].next = e[t].next /\ e[t].next \in O BY <1>1, <1>3
        <5>2. e[p].next \in S \ {s} BY <2>3, <4>1
        <5> QED BY <2>5, <5>1, <5>2
      <4>3. S \ {s} = O BY <1>5, <2>3, <4>1, <4>2
      <4> QED BY <3>1, <4>3
    <3>2. CASE s \notin S
      <4>1. p \notin S BY <1>1, <2>3, <2>5, <3>2
      <4>2. \A t \in S : e[t].next \in S BY <1>1, <2>5, <3>2, <4>1
      <4>3. S = O BY <1>5, <2>5, <3>2, <4>2
      <4> QED BY <2>3, <4>1, <4>3
    <3> QED BY <3>1, <3>2
  <2>6. Ring(O \cup {s}, f, d.head)
    BY <1>2, <1>6, <2>4, <2>5 DEF Ring
  <2> QED BY <2>6 DEF d, f
<1> QED BY <1>7, <1>8

(* Lending an entry moves it to the head. *)
LEMMA TouchRing ==
  ASSUME NEW c \in CacheType, NEW O \in SUBSET Slots, Ring(O, c.entry, c.head), NEW s \in O
  PROVE  LET d == Touch(c, s)
         IN d \in CacheType /\ Relinked(d, c) /\ Ring(O, d.entry, d.head)
<1>1. CASE c.head = s
  <2>1. Touch(c, s) = c BY <1>1 DEF Touch
  <2> QED BY <2>1 DEF Relinked, SameEntry
<1>2. CASE c.head # s /\ c.entry[c.head].prev = s
  <2> DEFINE d == Touch(c, s)
  <2>1. d = [c EXCEPT !.head = s] BY <1>2 DEF Touch
  <2>2. d \in CacheType /\ d.entry = c.entry /\ d.head = s /\ Relinked(d, c)
    <3> HIDE DEF d
    <3> QED BY <2>1 DEF CacheType, Relinked, SameEntry, Link
  <2>3. s # -1 BY SlotFacts
  <2> HIDE DEF d
  <2>4. Ring(O, d.entry, d.head) BY <2>2, <2>3 DEF Ring
  <2> QED BY <2>2, <2>4 DEF d
<1>3. CASE c.head # s /\ c.entry[c.head].prev # s
  <2> DEFINE u == Unlink(c, s)
             d == LinkMru(u, s)
  <2>1. Touch(c, s) = d BY <1>3 DEF Touch
  <2>2. u \in CacheType /\ Relinked(u, c) BY UnlinkFacts
  <2>3. Ring(O \ {s}, u.entry, u.head) BY UnlinkRing
  <2> HIDE DEF u
  <2>4. d \in CacheType /\ Relinked(d, u) BY <2>2, LinkMruFacts
  <2>5. Ring((O \ {s}) \cup {s}, d.entry, d.head) BY <2>2, <2>3, LinkRing
  <2>6. (O \ {s}) \cup {s} = O OBVIOUS
  <2> HIDE DEF d
  <2>7. Relinked(d, c) BY <2>2, <2>4 DEF Relinked, SameEntry
  <2> QED BY <2>1, <2>4, <2>5, <2>6, <2>7
<1> QED BY <1>1, <1>2, <1>3
-----------------------------------------------------------------------------
(* The chains *)

LEMMA BucketsHoldKeys == Capacities # {} => \A k \in Keys : BucketOf[k] \in Buckets
<1> SUFFICES ASSUME NEW n \in Capacities, NEW k \in Keys PROVE BucketOf[k] \in Buckets
  OBVIOUS
<1>1. Max(Capacities) \in Capacities BY MaxIn
<1> QED BY <1>1, CacheAssumption DEF Buckets

(* The links to and from each entry make its chain reach it. *)
LEMMA ChainIsBucket ==
  ASSUME NEW c \in CacheType, Linked(Occupied(c), c.entry, c.bucket), NEW b \in Buckets,
         \A s \in Occupied(c) : c.entry[s].generation <= c.generation
  PROVE  Chain(c, b) = {s \in Occupied(c) : Place(c.entry, s) = b}
<1> DEFINE O == Occupied(c)
           e == c.entry
           B == {s \in O : Place(e, s) = b}
           Closed(S) == /\ c.bucket[b] \in S \cup {-1}
                        /\ \A t \in S : e[t].chain \in S \cup {-1}
<1>0. O \subseteq Slots /\ -1 \notin Slots BY SlotFacts DEF Occupied
<1>1. Chain(c, b) \subseteq B
  <2>1. B \in SUBSET Slots BY <1>0
  <2>2. Closed(B) BY DEF Linked
  <2> QED BY <2>1, <2>2 DEF Chain
<1>2. ASSUME NEW S \in SUBSET Slots, Closed(S) PROVE B \subseteq S
  <2> DEFINE T == B \ S
             age(s) == c.generation - e[s].generation
             Ages == {age(s) : s \in T}
  <2>1. SUFFICES ASSUME T # {} PROVE FALSE OBVIOUS
  <2>2. \A s \in T : \E t \in T : e[t].generation > e[s].generation
    <3> SUFFICES ASSUME NEW s \in T PROVE \E t \in T : e[t].generation > e[s].generation
      OBVIOUS
    <3>1. c.bucket[b] # s BY <1>0, <1>2
    <3>2. s \in O /\ Place(e, s) = b OBVIOUS
    <3>3. PICK t \in O : e[t].chain = s BY <3>1, <3>2 DEF Linked
    <3>4. s # -1 BY <1>0
    <3>5. Place(e, t) = b /\ e[s].generation < e[t].generation BY <3>2, <3>3, <3>4 DEF Linked
    <3>6. t \notin S BY <1>2, <3>3, <3>4
    <3>7. e[s].generation \in Nat /\ e[t].generation \in Nat
      BY <1>0, <3>2 DEF CacheType, EntryType
    <3> QED BY <3>5, <3>6, <3>7
  <2>3. \A s \in O : e[s].generation \in Nat BY <1>0 DEF CacheType, EntryType
  <2>4. \A s \in T : age(s) \in Nat
    <3>1. c.generation \in Nat BY DEF CacheType
    <3>2. \A s \in T : s \in O OBVIOUS
    <3> HIDE DEF T, O, e
    <3> QED BY <2>3, <3>1, <3>2 DEF e, O
  <2>5. Ages \subseteq Nat /\ Ages # {} BY <2>1, <2>4
  <2>6. PICK x \in Ages : \A y \in Ages : ~ (<<y, x>> \in OpToRel(<, Nat))
    <3> HIDE DEF Ages
    <3> QED BY <2>5, NatLessThanWellFounded, WFMin
  <2>7. PICK s \in T : x = age(s) OBVIOUS
  <2>8. PICK t \in T : e[t].generation > e[s].generation BY <2>2
  <2>9. age(t) \in Ages /\ age(t) < x
    <3>1. e[t].generation \in Nat /\ e[s].generation \in Nat /\ c.generation \in Nat
      BY <2>3 DEF CacheType
    <3> HIDE DEF T, e
    <3> QED BY <2>7, <2>8, <3>1
  <2>10. <<age(t), x>> \in OpToRel(<, Nat)
    <3>1. age(t) \in Nat /\ x \in Nat BY <2>4, <2>5
    <3> HIDE DEF age
    <3> QED BY <2>9, <3>1 DEF OpToRel
  <2> QED BY <2>6, <2>9, <2>10
<1>3. Chain(c, b) = {s \in Slots : \A S \in SUBSET Slots : Closed(S) => s \in S}
  BY DEF Chain
<1>4. B \subseteq Slots BY <1>0
<1> HIDE DEF B, Closed
<1>5. B \subseteq Chain(c, b) BY <1>2, <1>3, <1>4
<1> QED BY <1>1, <1>5 DEF B
(* An entry is spliced out of its chain. *)
LEMMA SpliceLinked ==
  ASSUME NEW O \in SUBSET Slots, NEW e \in [Slots -> EntryType], NEW f \in [Slots -> EntryType],
         NEW bk, NEW bl, NEW s \in O, Linked(O, e, bk), Capacities # {},
         \A t \in O \ {s} : /\ f[t].key = e[t].key /\ f[t].generation = e[t].generation
                            /\ f[t].chain = IF e[t].chain = s THEN e[s].chain ELSE e[t].chain,
         \A b \in Buckets : bl[b] = IF bk[b] = s THEN e[s].chain ELSE bk[b]
  PROVE  Linked(O \ {s}, f, bl)
<1> DEFINE P(t) == Place(e, t)
           rest == e[s].chain
<1>0. -1 \notin O /\ \A t \in O : e[t].generation \in Nat
  <2>1. -1 \notin O BY SlotFacts
  <2>2. ASSUME NEW t \in O PROVE e[t].generation \in Nat
    <3>1. e[t] \in EntryType OBVIOUS
    <3> QED BY <3>1, CacheAssumption DEF EntryType
  <2> QED BY <2>1, <2>2
<1>1. \A t \in O \ {s} : Place(f, t) = P(t) /\ f[t].key \in Keys
  BY DEF Place, Linked
<1>2. \A t \in O : P(t) \in Buckets
  BY BucketsHoldKeys DEF Linked, Place
<1>3. rest # -1 => /\ rest \in O \ {s} /\ P(rest) = P(s) /\ e[rest].generation < e[s].generation
                   /\ rest # bk[P(s)] /\ \A t \in O : e[t].chain = rest => t = s
  BY <1>0 DEF Linked
<1>4. \A t \in O : e[t].chain # -1 =>
        /\ e[t].chain \in O /\ P(e[t].chain) = P(t) /\ e[e[t].chain].generation < e[t].generation
        /\ e[t].chain # bk[P(t)]
  BY DEF Linked
<1>5. \A b \in Buckets : bk[b] = -1 \/ (bk[b] \in O /\ P(bk[b]) = b) BY DEF Linked
<1>6. \A t, u \in O : e[t].chain = e[u].chain /\ e[t].chain # -1 => t = u BY DEF Linked
<1>7. \A t \in O : bk[P(t)] = t \/ \E u \in O : e[u].chain = t BY DEF Linked
<1> HIDE DEF P, rest
<1>8. \A b \in Buckets : bl[b] = -1 \/ (bl[b] \in O \ {s} /\ P(bl[b]) = b)
  <2> SUFFICES ASSUME NEW b \in Buckets
               PROVE  bl[b] = -1 \/ (bl[b] \in O \ {s} /\ P(bl[b]) = b)
    OBVIOUS
  <2>1. CASE bk[b] = s
    <3>1. bl[b] = rest /\ P(s) = b BY <1>0, <1>5, <2>1 DEF rest
    <3> QED BY <1>3, <3>1
  <2>2. CASE bk[b] # s BY <1>5, <2>2
  <2> QED BY <2>1, <2>2
<1>9. ASSUME NEW t \in O \ {s}, f[t].chain # -1
      PROVE  /\ f[t].chain \in O \ {s} /\ P(f[t].chain) = P(t)
             /\ f[f[t].chain].generation < f[t].generation /\ f[t].chain # bl[P(t)]
  <2>1. CASE e[t].chain = s
    <3>1. f[t].chain = rest BY <2>1 DEF rest
    <3>2. P(s) = P(t) /\ e[s].generation < e[t].generation /\ s # bk[P(t)] BY <1>0, <1>4, <2>1
    <3>3. bl[P(t)] = bk[P(t)] BY <1>2, <3>2
    <3>4. rest # -1 BY <1>9, <3>1
    <3>5. e[rest].generation < e[t].generation BY <1>0, <1>3, <3>2, <3>4
    <3> QED BY <1>3, <3>1, <3>2, <3>3, <3>4, <3>5
  <2>2. CASE e[t].chain # s
    <3>1. f[t].chain = e[t].chain BY <2>2
    <3>2. e[t].chain # rest BY <1>3, <1>9, <3>1
    <3>3. e[t].chain # bl[P(t)] BY <1>2, <1>4, <1>9, <3>1, <3>2 DEF rest
    <3> QED BY <1>4, <1>9, <2>2, <3>1, <3>3
  <2> QED BY <2>1, <2>2
<1>10. ASSUME NEW t \in O \ {s}, NEW u \in O \ {s}, f[t].chain = f[u].chain, f[t].chain # -1
       PROVE  t = u
  <2>1. CASE e[t].chain = s BY <1>0, <1>3, <1>6, <1>10, <2>1 DEF rest
  <2>2. CASE e[t].chain # s BY <1>0, <1>3, <1>6, <1>10, <2>2 DEF rest
  <2> QED BY <2>1, <2>2
<1>11. ASSUME NEW t \in O \ {s}
       PROVE  bl[P(t)] = t \/ \E u \in O \ {s} : f[u].chain = t
  <2>1. CASE bk[P(t)] = t BY <1>2, <2>1
  <2>2. ASSUME NEW u \in O, e[u].chain = t, u # s PROVE \E v \in O \ {s} : f[v].chain = t
    BY <2>2
  <2>3. CASE rest = t
    <3>1. P(t) = P(s) BY <1>0, <1>3, <2>3
    <3>2. CASE bk[P(s)] = s BY <1>2, <2>3, <3>1, <3>2 DEF rest
    <3>3. ASSUME NEW v \in O, e[v].chain = s PROVE \E w \in O \ {s} : f[w].chain = t
      <4>1. v # s BY <1>0, <1>4, <3>3
      <4> QED BY <2>3, <3>3, <4>1 DEF rest
    <3> QED BY <1>7, <3>2, <3>3
  <2> QED BY <1>7, <2>1, <2>2, <2>3 DEF rest
<1> QED BY <1>1, <1>8, <1>9, <1>10, <1>11 DEF Linked

(* An entry newer than all is put before its chain. *)
Pushed(O, e, f, bk, bl, s) ==
  /\ \A t \in O : /\ f[t].key = e[t].key /\ f[t].generation = e[t].generation
                  /\ f[t].chain = e[t].chain /\ e[t].generation < f[s].generation
  /\ f[s].key \in Keys /\ f[s].chain = bk[Place(f, s)]
  /\ \A b \in Buckets : bl[b] = IF b = Place(f, s) THEN s ELSE bk[b]

LEMMA PushLinked ==
  ASSUME NEW O \in SUBSET Slots, NEW e \in [Slots -> EntryType], NEW f \in [Slots -> EntryType],
         NEW bk, NEW bl, NEW s \in Slots \ O, Linked(O, e, bk), Capacities # {},
         Pushed(O, e, f, bk, bl, s)
  PROVE  Linked(O \cup {s}, f, bl)
<1> USE DEF Pushed
<1> DEFINE P(t) == Place(f, t)
<1>0. -1 \notin O /\ s # -1
  BY SlotFacts
<1>1. \A t \in O : Place(e, t) = P(t) /\ f[t].key \in Keys
  BY DEF Place, Linked
<1>2. \A t \in O \cup {s} : P(t) \in Buckets
  BY <1>1, BucketsHoldKeys DEF Place
<1>4. \A t \in O : f[t].chain # -1 =>
        /\ f[t].chain \in O /\ P(f[t].chain) = P(t) /\ f[f[t].chain].generation < f[t].generation
        /\ f[t].chain # bk[P(t)]
  BY <1>1 DEF Linked
<1>5. \A b \in Buckets : bk[b] = -1 \/ (bk[b] \in O /\ P(bk[b]) = b) BY <1>1 DEF Linked
<1>6. \A t, u \in O : f[t].chain = f[u].chain /\ f[t].chain # -1 => t = u BY DEF Linked
<1>7. \A t \in O : bk[P(t)] = t \/ \E u \in O : f[u].chain = t BY <1>1 DEF Linked
<1>8. f[s].chain # -1 => /\ f[s].chain \in O /\ P(f[s].chain) = P(s)
                         /\ f[f[s].chain].generation < f[s].generation
  BY <1>2, <1>5
<1> HIDE DEF P
<1>9. \A b \in Buckets : bl[b] = -1 \/ (bl[b] \in O \cup {s} /\ P(bl[b]) = b)
  BY <1>5 DEF P
<1>10. \A t \in O \cup {s} : f[t].chain # -1 =>
        /\ f[t].chain \in O \cup {s} /\ P(f[t].chain) = P(t)
        /\ f[f[t].chain].generation < f[t].generation /\ f[t].chain # bl[P(t)]
  BY <1>2, <1>4, <1>8 DEF P
<1>11. \A t, u \in O \cup {s} : f[t].chain = f[u].chain /\ f[t].chain # -1 => t = u
  <2>1. \A t \in O : f[t].chain = f[s].chain => f[t].chain = -1
    <3> SUFFICES ASSUME NEW t \in O, f[t].chain = f[s].chain, f[t].chain # -1 PROVE FALSE
      OBVIOUS
    <3>1. P(t) = P(s) BY <1>4, <1>8
    <3>2. f[t].chain # bk[P(t)] BY <1>4
    <3> QED BY <3>1, <3>2 DEF P
  <2> QED BY <1>6, <2>1
<1>12. \A t \in O \cup {s} : bl[P(t)] = t \/ \E u \in O \cup {s} : f[u].chain = t
  <2>1. bl[P(s)] = s BY <1>2 DEF P
  <2>2. ASSUME NEW t \in O, bk[P(t)] = t PROVE bl[P(t)] = t \/ f[s].chain = t
    BY <1>2, <2>2 DEF P
  <2> QED BY <1>7, <2>1, <2>2
<1> QED BY <1>1, <1>9, <1>10, <1>11, <1>12 DEF Linked, P
-----------------------------------------------------------------------------
(* The operations on a cache keep it sound.                                 *)

(* Everything the table of entries does not determine. *)
SameRest(d, c) == /\ d.capacity = c.capacity /\ d.active = c.active /\ d.epoch = c.epoch
                  /\ d.admitted = c.admitted /\ d.refused = c.refused

(* The ring leads through the slots O in the same way. *)
SameLinks(O, d, c) ==
  /\ d.head = c.head
  /\ \A t \in O : d.entry[t].next = c.entry[t].next /\ d.entry[t].prev = c.entry[t].prev

(* What a lease relies on in an entry. *)
SameUse(f, e) == f.key = e.key /\ f.plan = e.plan /\ f.generation = e.generation

LEMMA TouchSound ==
  ASSUME NEW c, Sound(c), NEW s \in Occupied(c)
  PROVE  LET d == Touch(c, s) IN Sound(d) /\ Relinked(d, c) /\ Occupied(d) = Occupied(c)
<1> DEFINE d == Touch(c, s)
           O == Occupied(c)
<1>1. c \in CacheType /\ O \in SUBSET Slots /\ Ring(O, c.entry, c.head) BY DEF Sound, Occupied
<1>2. d \in CacheType /\ Relinked(d, c) /\ Ring(O, d.entry, d.head) BY <1>1, TouchRing
<1> HIDE DEF d
<1>3. Occupied(d) = O BY <1>2 DEF Occupied, Relinked, SameEntry
<1>4. \A t \in O : /\ d.entry[t].key = c.entry[t].key /\ d.entry[t].chain = c.entry[t].chain
                   /\ d.entry[t].generation = c.entry[t].generation
  BY <1>1, <1>2 DEF Relinked, SameEntry
<1>5. d.bucket = c.bucket /\ d.size = c.size /\ d.capacity = c.capacity /\ d.generation = c.generation
  BY <1>2 DEF Relinked
<1>6. Linked(O, d.entry, d.bucket)
  <2>1. Linked(O, c.entry, c.bucket) BY DEF Sound
  <2> HIDE DEF O
  <2> QED BY <1>4, <1>5, <2>1 DEF Linked, Place
<1>7. d.size = Cardinality(O) /\ d.size <= d.capacity
      /\ \A t \in O : d.entry[t].generation <= d.generation
  BY <1>4, <1>5 DEF Sound
<1>8. Sound(d) BY <1>2, <1>3, <1>6, <1>7 DEF Sound
<1> QED BY <1>2, <1>3, <1>8 DEF d

LEMMA RemoveSound ==
  ASSUME NEW c, Sound(c), NEW s \in Occupied(c)
  PROVE  LET d == Remove1(c, s)
         IN /\ Sound(d) /\ SameRest(d, c) /\ Occupied(d) = Occupied(c) \ {s}
            /\ d.generation = c.generation /\ d.size = c.size - 1
            /\ \A t \in Slots : d.entry[t].pins = c.entry[t].pins
            /\ \A t \in Slots \ {s} : SameUse(d.entry[t], c.entry[t])
            /\ \E m \in CacheType :
                 /\ SameLinks(Occupied(c), m, c) /\ d.head = Unlink(m, s).head
                 /\ \A t \in Slots : d.entry[t].next = Unlink(m, s).entry[t].next
<1> DEFINE O == Occupied(c)
           b == BucketOf[c.entry[s].key]
           rest == c.entry[s].chain
           spliced == IF c.bucket[b] = s THEN [c EXCEPT !.bucket[b] = rest]
                      ELSE [c EXCEPT !.entry = [o \in Slots |->
                              IF o \in Chain(c, b) /\ c.entry[o].chain = s
                              THEN [c.entry[o] EXCEPT !.chain = rest] ELSE c.entry[o]]]
           u == Unlink(spliced, s)
           d == [u EXCEPT !.entry[s] = Vacant(@), !.size = @ - 1]
<1>1. Remove1(c, s) = d BY DEF Remove1
<1>2. /\ c \in CacheType /\ O \in SUBSET Slots /\ Ring(O, c.entry, c.head)
      /\ Linked(O, c.entry, c.bucket) /\ s \in Slots
      /\ \A t \in O : c.entry[t].generation <= c.generation
  BY DEF Sound, Occupied
<1>3. Capacities # {} BY <1>2 DEF CacheType
<1>4. b \in Buckets /\ Place(c.entry, s) = b
  BY <1>2, <1>3, BucketsHoldKeys DEF Linked, Place
<1>5. Chain(c, b) = {t \in O : Place(c.entry, t) = b}
  BY <1>2, <1>4, ChainIsBucket
<1>6. rest \in Link BY <1>2 DEF CacheType, EntryType
<1>7. \A t \in O : c.entry[t].chain = s => t \in Chain(c, b) /\ c.bucket[b] # s
  <2>1. s # -1 BY <1>2, SlotFacts
  <2> QED BY <1>2, <1>4, <1>5, <2>1 DEF Linked
<1>8. \A x \in Buckets \ {b} : c.bucket[x] # s
  <2>1. s # -1 BY <1>2, SlotFacts
  <2> QED BY <1>2, <1>4, <2>1 DEF Linked
<1> HIDE DEF b, rest
<1>9. /\ spliced \in CacheType /\ SameRest(spliced, c) /\ spliced.head = c.head
      /\ spliced.generation = c.generation /\ spliced.size = c.size
      /\ \A x \in Buckets : spliced.bucket[x] = IF c.bucket[x] = s THEN rest ELSE c.bucket[x]
      /\ \A t \in Slots : /\ SameUse(spliced.entry[t], c.entry[t])
                          /\ spliced.entry[t].pins = c.entry[t].pins
                          /\ spliced.entry[t].occupied = c.entry[t].occupied
                          /\ spliced.entry[t].next = c.entry[t].next
                          /\ spliced.entry[t].prev = c.entry[t].prev
      /\ \A t \in O : spliced.entry[t].chain = IF c.entry[t].chain = s THEN rest ELSE c.entry[t].chain
  <2>1. CASE c.bucket[b] = s
    <3>1. spliced = [c EXCEPT !.bucket[b] = rest] BY <2>1
    <3>2. /\ spliced \in CacheType /\ SameRest(spliced, c) /\ spliced.head = c.head
          /\ spliced.generation = c.generation /\ spliced.size = c.size
          /\ spliced.entry = c.entry /\ spliced.bucket = [c.bucket EXCEPT ![b] = rest]
      <4> HIDE DEF spliced, O
      <4> QED BY <1>2, <1>4, <1>6, <3>1 DEF CacheType, SameRest
    <3>3. c.bucket \in [Buckets -> Link] BY <1>2 DEF CacheType
    <3> HIDE DEF spliced, O
    <3>4. \A x \in Buckets : spliced.bucket[x] = IF c.bucket[x] = s THEN rest ELSE c.bucket[x]
      BY <1>8, <2>1, <3>2, <3>3
    <3>5. \A t \in O : c.entry[t].chain # s BY <1>7, <2>1
    <3> QED BY <3>2, <3>4, <3>5 DEF SameUse
  <2>2. CASE c.bucket[b] # s
    <3> DEFINE new == [o \in Slots |-> IF o \in Chain(c, b) /\ c.entry[o].chain = s
                                      THEN [c.entry[o] EXCEPT !.chain = rest] ELSE c.entry[o]]
    <3>1. spliced = [c EXCEPT !.entry = new] BY <2>2
    <3>2. \A t \in Slots : LET r == [c.entry[t] EXCEPT !.chain = rest] IN
            /\ r \in EntryType /\ r.chain = rest /\ SameUse(r, c.entry[t])
            /\ r.pins = c.entry[t].pins /\ r.occupied = c.entry[t].occupied
            /\ r.next = c.entry[t].next /\ r.prev = c.entry[t].prev
      <4> SUFFICES ASSUME NEW t \in Slots
                   PROVE LET r == [c.entry[t] EXCEPT !.chain = rest] IN
                     /\ r \in EntryType /\ r.chain = rest /\ SameUse(r, c.entry[t])
                     /\ r.pins = c.entry[t].pins /\ r.occupied = c.entry[t].occupied
                     /\ r.next = c.entry[t].next /\ r.prev = c.entry[t].prev
        OBVIOUS
      <4>1. c.entry[t] \in EntryType BY <1>2 DEF CacheType
      <4> QED BY <1>6, <4>1 DEF EntryType, SameUse
    <3>3. /\ new \in [Slots -> EntryType]
          /\ \A t \in Slots : /\ SameUse(new[t], c.entry[t])
                              /\ new[t].pins = c.entry[t].pins
                              /\ new[t].occupied = c.entry[t].occupied
                              /\ new[t].next = c.entry[t].next
                              /\ new[t].prev = c.entry[t].prev
      <4>1. \A t \in Slots : c.entry[t] \in EntryType BY <1>2 DEF CacheType
      <4> QED BY <3>2, <4>1 DEF SameUse
    <3>4. \A t \in O : new[t].chain = IF c.entry[t].chain = s THEN rest ELSE c.entry[t].chain
      BY <1>2, <1>7, <3>2
    <3> HIDE DEF spliced, O, new
    <3>5. /\ spliced \in CacheType /\ SameRest(spliced, c) /\ spliced.head = c.head
          /\ spliced.generation = c.generation /\ spliced.size = c.size
          /\ spliced.entry = new /\ spliced.bucket = c.bucket
      BY <1>2, <3>1, <3>3 DEF CacheType, SameRest
    <3>6. \A x \in Buckets : c.bucket[x] # s BY <1>8, <2>2
    <3> QED BY <3>3, <3>4, <3>5, <3>6
  <2> QED BY <2>1, <2>2
<1> HIDE DEF spliced
<1>10. Ring(O, spliced.entry, spliced.head)
  <2>1. \A t \in O : /\ spliced.entry[t].next = c.entry[t].next
                    /\ spliced.entry[t].prev = c.entry[t].prev
    BY <1>2, <1>9
  <2> HIDE DEF O
  <2> QED BY <1>2, <1>9, <2>1, SameRing
<1>11. /\ u \in CacheType /\ Relinked(u, spliced) /\ Ring(O \ {s}, u.entry, u.head)
  BY <1>2, <1>9, <1>10, UnlinkFacts, UnlinkRing
<1> HIDE DEF u
<1>12. /\ d \in CacheType /\ SameRest(d, u) /\ d.head = u.head /\ d.generation = u.generation
       /\ d.bucket = u.bucket /\ d.size = u.size - 1
       /\ \A t \in Slots : /\ d.entry[t].pins = u.entry[t].pins
                           /\ d.entry[t].next = u.entry[t].next
                           /\ d.entry[t].prev = u.entry[t].prev
                           /\ d.entry[t].chain = u.entry[t].chain
                           /\ d.entry[t].key = u.entry[t].key
                           /\ d.entry[t].generation = u.entry[t].generation
                           /\ t # s => d.entry[t] = u.entry[t]
       /\ ~ d.entry[s].occupied
  <2> DEFINE r == Vacant(u.entry[s])
             new == [u.entry EXCEPT ![s] = r]
  <2>1. u.entry \in [Slots -> EntryType] /\ u.entry[s] \in EntryType BY <1>2, <1>11 DEF CacheType
  <2>2. /\ r \in EntryType /\ ~ r.occupied /\ r.pins = u.entry[s].pins
        /\ r.next = u.entry[s].next /\ r.prev = u.entry[s].prev /\ r.chain = u.entry[s].chain
        /\ r.key = u.entry[s].key /\ r.generation = u.entry[s].generation
    BY <2>1 DEF EntryType, Vacant
  <2>3. d = [u EXCEPT !.entry = new, !.size = u.size - 1]
    BY <1>11, <2>1 DEF CacheType
  <2>4. u.size - 1 \in Nat
    <3>1. IsFiniteSet(O) /\ s \in O BY <1>2, <1>3, SlotFacts, FS_Subset
    <3>2. Cardinality(O) # 0 /\ Cardinality(O) \in Nat BY <3>1, FS_EmptySet, FS_CardinalityType
    <3>3. u.size = Cardinality(O) BY <1>9, <1>11 DEF Relinked, Sound
    <3> QED BY <3>2, <3>3
  <2> HIDE DEF r
  <2>5. new \in [Slots -> EntryType] /\ new[s] = r /\ \A t \in Slots \ {s} : new[t] = u.entry[t]
    BY <1>2, <2>1, <2>2
  <2> HIDE DEF new, d
  <2>6. /\ d \in CacheType /\ SameRest(d, u) /\ d.head = u.head /\ d.generation = u.generation
        /\ d.bucket = u.bucket /\ d.size = u.size - 1 /\ d.entry = new
    BY <1>11, <2>3, <2>4, <2>5 DEF CacheType, SameRest
  <2> QED BY <2>2, <2>5, <2>6
<1> HIDE DEF d
<1>13. Occupied(d) = O \ {s}
  BY <1>2, <1>9, <1>11, <1>12 DEF Occupied, Relinked, SameEntry
<1>14. Ring(O \ {s}, d.entry, d.head)
  <2>1. \A t \in O \ {s} : d.entry[t].next = u.entry[t].next /\ d.entry[t].prev = u.entry[t].prev
    BY <1>2, <1>12
  <2>2. d.head = u.head BY <1>12
  <2> HIDE DEF O
  <2> QED BY <1>11, <2>1, <2>2, SameRing
<1>15. Linked(O \ {s}, d.entry, d.bucket)
  <2>1. \A t \in O \ {s} : /\ d.entry[t].key = c.entry[t].key
                           /\ d.entry[t].generation = c.entry[t].generation
                           /\ d.entry[t].chain = IF c.entry[t].chain = s THEN rest ELSE c.entry[t].chain
    BY <1>2, <1>9, <1>11, <1>12 DEF Relinked, SameEntry, SameUse
  <2>2. \A x \in Buckets : d.bucket[x] = IF c.bucket[x] = s THEN rest ELSE c.bucket[x]
    BY <1>9, <1>11, <1>12 DEF Relinked
  <2>3. c.entry \in [Slots -> EntryType] /\ d.entry \in [Slots -> EntryType] BY <1>2, <1>12 DEF CacheType
  <2> HIDE DEF O
  <2> QED BY <1>2, <1>3, <2>1, <2>2, <2>3, SpliceLinked DEF rest, O
<1>16. SameRest(d, c) /\ d.generation = c.generation /\ d.size = c.size - 1
  BY <1>9, <1>11, <1>12 DEF Relinked, SameRest
<1>17. d.size = Cardinality(O \ {s}) /\ d.size <= d.capacity
  <2>1. IsFiniteSet(O) BY <1>2, <1>3, SlotFacts, FS_Subset
  <2>2. Cardinality(O \ {s}) = Cardinality(O) - 1 BY <2>1, FS_RemoveElement
  <2>3. c.size = Cardinality(O) /\ c.size <= c.capacity BY DEF Sound
  <2>4. c.size \in Nat /\ c.capacity \in Nat /\ d.capacity = c.capacity
    BY <1>2, <1>16, CacheAssumption DEF CacheType, SameRest
  <2> QED BY <1>16, <2>2, <2>3, <2>4
<1>18. \A t \in Slots : /\ d.entry[t].pins = c.entry[t].pins
                        /\ d.entry[t].generation = c.entry[t].generation
                        /\ t # s => SameUse(d.entry[t], c.entry[t])
  BY <1>9, <1>11, <1>12 DEF Relinked, SameEntry, SameUse
<1>19. Sound(d)
  BY <1>2, <1>12, <1>13, <1>14, <1>15, <1>16, <1>17, <1>18 DEF Sound
<1>20. \E m \in CacheType :
         /\ SameLinks(O, m, c) /\ d.head = Unlink(m, s).head
         /\ \A t \in Slots : d.entry[t].next = Unlink(m, s).entry[t].next
  <2>1. SameLinks(O, spliced, c) BY <1>2, <1>9 DEF SameLinks
  <2>2. spliced \in CacheType BY <1>9
  <2>3. d.head = Unlink(spliced, s).head
        /\ \A t \in Slots : d.entry[t].next = Unlink(spliced, s).entry[t].next
    BY <1>12 DEF u
  <2> QED BY <2>1, <2>2, <2>3
<1> QED BY <1>1, <1>13, <1>16, <1>18, <1>19, <1>20
LEMMA InsertSound ==
  ASSUME NEW c, Sound(c), NEW s \in Slots \ Occupied(c), NEW k \in Keys, NEW p \in Patterns,
         c.generation < MaxInserts, c.size < c.capacity
  PROVE  LET d == Insert(c, s, k, p)
         IN /\ Sound(d) /\ SameRest(d, c) /\ Occupied(d) = Occupied(c) \cup {s}
            /\ d.entry[s].key = k /\ d.entry[s].plan = p
            /\ \A t \in Slots : d.entry[t].pins = c.entry[t].pins
            /\ \A t \in Slots \ {s} : SameUse(d.entry[t], c.entry[t])
            /\ d.size = c.size + 1
            /\ \E m \in CacheType : SameLinks(Occupied(c), m, c) /\ d = LinkMru(m, s)
<1> DEFINE O == Occupied(c)
           b == BucketOf[k]
           g == c.generation + 1
           e == [c.entry[s] EXCEPT !.key = k, !.plan = p, !.occupied = TRUE,
                                   !.generation = c.generation + 1, !.chain = c.bucket[BucketOf[k]]]
           m == [c EXCEPT !.entry[s] = e, !.bucket[BucketOf[k]] = s,
                          !.generation = @ + 1, !.size = @ + 1]
           d == LinkMru(m, s)
<1>1. Insert(c, s, k, p) = d BY DEF Insert
<1>2. /\ c \in CacheType /\ O \in SUBSET Slots /\ Ring(O, c.entry, c.head)
      /\ Linked(O, c.entry, c.bucket) /\ s \in Slots \ O
      /\ \A t \in O : c.entry[t].generation <= c.generation
  BY DEF Sound, Occupied
<1>3. Capacities # {} BY <1>2 DEF CacheType
<1>4. b \in Buckets BY <1>3, BucketsHoldKeys
<1>5. g \in 0..MaxInserts /\ g \in Nat /\ g > c.generation
  BY <1>2, CacheAssumption DEF CacheType
<1>6. /\ e \in EntryType /\ e.key = k /\ e.plan = p /\ e.occupied /\ e.generation = g
      /\ e.chain = c.bucket[b] /\ e.pins = c.entry[s].pins
  <2>1. c.entry[s] \in EntryType /\ c.bucket[b] \in Link BY <1>2, <1>4 DEF CacheType
  <2> QED BY <1>5, <2>1 DEF EntryType
<1> HIDE DEF e
<1>7. /\ m \in CacheType /\ SameRest(m, c) /\ m.head = c.head /\ m.generation = g
      /\ m.size = c.size + 1 /\ m.entry[s] = e
      /\ \A t \in Slots \ {s} : m.entry[t] = c.entry[t]
      /\ \A x \in Buckets : m.bucket[x] = IF x = b THEN s ELSE c.bucket[x]
  <2> DEFINE en == [c.entry EXCEPT ![s] = e]
             bu == [c.bucket EXCEPT ![b] = s]
  <2>1. c.entry \in [Slots -> EntryType] /\ c.bucket \in [Buckets -> Link] /\ c.size \in Nat
    BY <1>2 DEF CacheType
  <2>2. en \in [Slots -> EntryType] /\ en[s] = e /\ \A t \in Slots \ {s} : en[t] = c.entry[t]
    BY <1>2, <1>6, <2>1
  <2>3. bu \in [Buckets -> Link] /\ \A x \in Buckets : bu[x] = IF x = b THEN s ELSE c.bucket[x]
    BY <1>2, <1>4, <2>1 DEF Link
  <2>4. m = [c EXCEPT !.entry = en, !.bucket = bu, !.generation = g, !.size = c.size + 1]
    BY <1>2 DEF CacheType
  <2>5. c.size + 1 \in Nat BY <2>1
  <2> HIDE DEF m, en, bu, g
  <2>6. m \in CacheType /\ SameRest(m, c) /\ m.head = c.head /\ m.generation = g
        /\ m.size = c.size + 1 /\ m.entry = en /\ m.bucket = bu
    BY <1>2, <1>5, <2>2, <2>3, <2>4, <2>5 DEF CacheType, SameRest
  <2> QED BY <2>2, <2>3, <2>6
<1> HIDE DEF m, g
<1>8. Ring(O, m.entry, m.head)
  <2>1. \A t \in O : m.entry[t].next = c.entry[t].next /\ m.entry[t].prev = c.entry[t].prev
    BY <1>2, <1>7
  <2> HIDE DEF O
  <2> QED BY <1>2, <1>7, <2>1, SameRing
<1>9. d \in CacheType /\ Relinked(d, m) /\ Ring(O \cup {s}, d.entry, d.head)
  BY <1>2, <1>7, <1>8, LinkMruFacts, LinkRing
<1> HIDE DEF d
<1>10. Occupied(d) = O \cup {s}
  BY <1>2, <1>6, <1>7, <1>9 DEF Occupied, Relinked, SameEntry
<1>11. Linked(O \cup {s}, d.entry, d.bucket)
  <2>1. \A t \in O : /\ d.entry[t].key = c.entry[t].key
                     /\ d.entry[t].generation = c.entry[t].generation
                     /\ d.entry[t].chain = c.entry[t].chain
    BY <1>2, <1>7, <1>9 DEF Relinked, SameEntry
  <2>2. d.entry[s].key = k /\ d.entry[s].generation = g /\ d.entry[s].chain = c.bucket[b]
    BY <1>2, <1>6, <1>7, <1>9 DEF Relinked, SameEntry
  <2>3. \A x \in Buckets : d.bucket[x] = IF x = b THEN s ELSE c.bucket[x]
    BY <1>7, <1>9 DEF Relinked
  <2>4. c.entry \in [Slots -> EntryType] /\ d.entry \in [Slots -> EntryType] BY <1>2, <1>9 DEF CacheType
  <2>5. Place(d.entry, s) = b BY <2>2 DEF Place
  <2>6. \A t \in O : c.entry[t].generation < d.entry[s].generation
    <3>1. \A t \in O : c.entry[t].generation \in Nat BY <1>2, <2>4 DEF EntryType
    <3>2. c.generation \in Nat BY <1>2 DEF CacheType
    <3> QED BY <1>2, <1>5, <2>2, <3>1, <3>2
  <2>7. \A t \in O : /\ d.entry[t].key = c.entry[t].key
                     /\ d.entry[t].generation = c.entry[t].generation
                     /\ d.entry[t].chain = c.entry[t].chain
                     /\ c.entry[t].generation < d.entry[s].generation
    BY <2>1, <2>6
  <2>8. /\ d.entry[s].key \in Keys /\ d.entry[s].chain = c.bucket[Place(d.entry, s)]
        /\ \A x \in Buckets : d.bucket[x] = IF x = Place(d.entry, s) THEN s ELSE c.bucket[x]
    BY <2>2, <2>3, <2>5
  <2>9. O \in SUBSET Slots /\ s \in Slots \ O /\ Linked(O, c.entry, c.bucket) BY <1>2
  <2>10. Pushed(O, c.entry, d.entry, c.bucket, d.bucket, s) BY ONLY <2>7, <2>8 DEF Pushed
  <2> HIDE DEF O, b
  <2> QED BY ONLY <1>3, <2>4, <2>9, <2>10, PushLinked
<1>12. SameRest(d, c) /\ d.generation = g /\ d.size = c.size + 1
  BY <1>7, <1>9 DEF Relinked, SameRest
<1>13. d.size = Cardinality(O \cup {s}) /\ d.size <= d.capacity
  <2>1. IsFiniteSet(O) BY <1>2, <1>3, SlotFacts, FS_Subset
  <2>2. Cardinality(O \cup {s}) = Cardinality(O) + 1 BY <1>2, <2>1, FS_AddElement
  <2>3. c.size = Cardinality(O) BY DEF Sound
  <2>4. c.size \in Nat /\ c.capacity \in Nat /\ d.capacity = c.capacity
    BY <1>2, <1>12, CacheAssumption DEF CacheType, SameRest
  <2> QED BY <1>12, <2>2, <2>3, <2>4
<1>14. \A t \in O \cup {s} : d.entry[t].generation <= d.generation
  <2>1. \A t \in O : d.entry[t].generation = c.entry[t].generation
    BY <1>2, <1>7, <1>9 DEF Relinked, SameEntry
  <2>2. d.entry[s].generation = g
    BY <1>2, <1>6, <1>7, <1>9 DEF Relinked, SameEntry
  <2>3. \A t \in O : c.entry[t].generation \in Nat BY <1>2 DEF CacheType, EntryType
  <2>4. c.generation \in Nat BY <1>2 DEF CacheType
  <2> QED BY <1>2, <1>5, <1>12, <2>1, <2>2, <2>3, <2>4
<1>15. Sound(d) BY <1>9, <1>10, <1>11, <1>13, <1>14 DEF Sound
<1>16. /\ d.entry[s].key = k /\ d.entry[s].plan = p
       /\ \A t \in Slots : d.entry[t].pins = c.entry[t].pins
       /\ \A t \in Slots \ {s} : SameUse(d.entry[t], c.entry[t])
  BY <1>2, <1>6, <1>7, <1>9 DEF Relinked, SameEntry, SameUse
<1>17. \E x \in CacheType : SameLinks(O, x, c) /\ d = LinkMru(x, s)
  <2>1. SameLinks(O, m, c) BY <1>2, <1>7 DEF SameLinks
  <2> QED BY <1>7, <2>1 DEF d
<1> QED BY <1>1, <1>10, <1>12, <1>15, <1>16, <1>17

(* A cache without entries: a new one, and one that was resynchronised.     *)
Bare(c) == /\ c \in CacheType /\ c.size = 0 /\ c.head = -1
           /\ \A b \in Buckets : c.bucket[b] = -1
           /\ \A s \in Slots : ~ c.entry[s].occupied

LEMMA BareSound == ASSUME NEW c, Bare(c) PROVE Sound(c) /\ Occupied(c) = {}
<1>1. Occupied(c) = {} BY DEF Bare, Occupied
<1>2. Ring({}, c.entry, c.head) BY DEF Ring, Bare
<1>3. Linked({}, c.entry, c.bucket) BY DEF Linked, Bare
<1>4. c.size <= c.capacity /\ c.size = Cardinality({})
  <2>1. c.capacity \in Nat /\ c.size = 0 BY CacheAssumption DEF Bare, CacheType
  <2> QED BY <2>1, FS_EmptySet
<1> QED BY <1>1, <1>2, <1>3, <1>4 DEF Sound, Bare

LEMMA NewBare ==
  ASSUME TypeOK, NEW n \in Capacities
  PROVE  Bare(New(n)) /\ New(n).active = 0 /\ New(n).epoch = epoch
         /\ \A s \in Slots : New(n).entry[s].pins = 0
<1> DEFINE c == New(n)
           z == [key |-> None, plan |-> None, generation |-> 0, occupied |-> FALSE,
                 pins |-> 0, chain |-> 0, prev |-> 0, next |-> 0]
<1>2. 0 \in 0..MaxInserts /\ epoch \in Nat BY CacheAssumption DEF TypeOK
<1>1. z \in EntryType BY <1>2, SlotFacts DEF EntryType, Link
<1>3. c \in CacheType BY <1>1, <1>2 DEF New, CacheType, Link
<1>4. c.size = 0 /\ c.head = -1 /\ c.active = 0 /\ c.epoch = epoch BY DEF New
<1>5. \A b \in Buckets : c.bucket[b] = -1 BY DEF New
<1>6. \A s \in Slots : ~ c.entry[s].occupied /\ c.entry[s].pins = 0 BY DEF New
<1> QED BY <1>3, <1>4, <1>5, <1>6 DEF Bare

LEMMA ResyncSound ==
  ASSUME TypeOK, NEW c, Sound(c)
  PROVE  LET d == Resync(c)
         IN /\ Sound(d) /\ d.active = c.active /\ d.capacity = c.capacity
            /\ \A s \in Slots : d.entry[s].pins = c.entry[s].pins
            /\ d = c \/ (Bare(d) /\ d.epoch = epoch /\ c.active = 0)
<1>1. CASE c.epoch = epoch \/ c.active > 0 BY <1>1 DEF Resync
<1>2. CASE ~ (c.epoch = epoch \/ c.active > 0)
  <2> DEFINE x == Emptied(c)
             d == Resync(c)
             en == [s \in Slots |-> Vacant(c.entry[s])]
             bu == [b \in Buckets |-> -1]
             no == [m \in Memos |-> None]
  <2>1. c \in CacheType /\ epoch \in Nat /\ c.active = 0
    BY <1>2 DEF Sound, CacheType, TypeOK
  <2>2. en \in [Slots -> EntryType] /\ \A s \in Slots : ~ en[s].occupied /\ en[s].pins = c.entry[s].pins
    <3>1. \A s \in Slots : c.entry[s] \in EntryType BY <2>1 DEF CacheType
    <3>2. ASSUME NEW e \in EntryType
          PROVE  Vacant(e) \in EntryType /\ ~ Vacant(e).occupied /\ Vacant(e).pins = e.pins
      BY DEF Vacant, EntryType
    <3> QED BY <3>1, <3>2
  <2>3. bu \in [Buckets -> Link] /\ no \in [Memos -> Keys \cup {None}] BY DEF Link
  <2>4. x = [c EXCEPT !.entry = en, !.bucket = bu, !.size = 0, !.head = -1] BY DEF Emptied
  <2>5. d = [x EXCEPT !.admitted = no, !.refused = no, !.epoch = epoch] BY <1>2 DEF Resync
  <2> HIDE DEF en, no, x, d
  <2>6. x \in CacheType /\ x.entry = en /\ x.bucket = bu /\ x.size = 0 /\ x.head = -1
        /\ x.active = c.active /\ x.capacity = c.capacity
    <3> HIDE DEF bu
    <3> QED BY <2>1, <2>2, <2>3, <2>4 DEF CacheType, Link
  <2>7. d \in CacheType /\ d.entry = en /\ d.bucket = bu /\ d.size = 0 /\ d.head = -1
        /\ d.active = c.active /\ d.capacity = c.capacity /\ d.epoch = epoch
    <3> HIDE DEF bu
    <3> QED BY <2>1, <2>3, <2>5, <2>6 DEF CacheType
  <2>8. Bare(d) BY <2>2, <2>7 DEF Bare
  <2> QED BY <2>1, <2>2, <2>7, <2>8, BareSound DEF d
<1> QED BY <1>1, <1>2
-----------------------------------------------------------------------------
(* Leases                                                                   *)

(* The same entries in the same order, whatever is pinned. *)
SameView(d, c) ==
  /\ d \in CacheType /\ d.capacity = c.capacity /\ d.size = c.size /\ d.head = c.head
  /\ \A t \in Slots : /\ d.entry[t].next = c.entry[t].next /\ d.entry[t].key = c.entry[t].key
                      /\ d.entry[t].occupied = c.entry[t].occupied

LEMMA OutFacts ==
  \A ls : /\ Out(ls) \subseteq Leases /\ IsFiniteSet(Out(ls)) /\ Cardinality(Out(ls)) \in Nat
          /\ \A s : /\ Pinning(ls, s) \subseteq Out(ls) /\ IsFiniteSet(Pinning(ls, s))
                    /\ Cardinality(Pinning(ls, s)) \in Nat
<1> SUFFICES ASSUME NEW ls
             PROVE  /\ Out(ls) \subseteq Leases /\ IsFiniteSet(Out(ls)) /\ Cardinality(Out(ls)) \in Nat
                    /\ \A s : /\ Pinning(ls, s) \subseteq Out(ls) /\ IsFiniteSet(Pinning(ls, s))
                              /\ Cardinality(Pinning(ls, s)) \in Nat
  OBVIOUS
<1>1. Out(ls) \subseteq Leases BY DEF Out
<1>2. IsFiniteSet(Leases) BY CacheAssumption
<1>3. \A s : Pinning(ls, s) \subseteq Out(ls) BY DEF Pinning, Cached
<1>4. IsFiniteSet(Out(ls)) BY <1>1, <1>2, FS_Subset
<1>5. \A s : IsFiniteSet(Pinning(ls, s)) BY <1>3, <1>4, FS_Subset
<1> QED BY <1>1, <1>3, <1>4, <1>5, FS_CardinalityType

(* A slot that no lease pins may be given away. *)
LEMMA Unpinned ==
  ASSUME NEW c, Pinned(c, lease), NEW s \in Slots
  PROVE  c.entry[s].pins = 0 <=> \A l \in Cached(lease) : lease[l].slot # s
<1>1. c.entry[s].pins = Cardinality(Pinning(lease, s)) /\ IsFiniteSet(Pinning(lease, s))
  BY OutFacts DEF Pinned
<1>2. c.entry[s].pins = 0 <=> Pinning(lease, s) = {} BY <1>1, FS_EmptySet
<1> QED BY <1>2 DEF Pinning

LEMMA NewGood ==
  ASSUME TypeOK, Out(lease) = {}, NEW n \in Capacities
  PROVE  Good(New(n))
<1> DEFINE c == New(n)
<1>1. Bare(c) /\ c.active = 0 /\ c.epoch = epoch /\ \A s \in Slots : c.entry[s].pins = 0
  BY NewBare
<1> HIDE DEF c
<1>2. Sound(c) /\ Occupied(c) = {} BY <1>1, BareSound
<1>3. \A s : Pinning(lease, s) = {} BY DEF Pinning, Cached
<1>4. Pinned(c, lease) BY <1>1, <1>3, FS_EmptySet DEF Pinned
<1>5. Lent(c, lease, content) BY DEF Lent, Cached
<1>6. Fresh(c, content, epoch) BY <1>1, <1>2 DEF Fresh, TypeOK
<1> QED BY <1>2, <1>4, <1>5, <1>6 DEF Good, c

LEMMA ResyncGood ==
  ASSUME TypeOK, NEW c, Good(c)
  PROVE  Good(Resync(c))
<1> DEFINE d == Resync(c)
<1>1. /\ Sound(d) /\ d.active = c.active
      /\ \A s \in Slots : d.entry[s].pins = c.entry[s].pins
      /\ d = c \/ (Bare(d) /\ d.epoch = epoch /\ c.active = 0)
  BY ResyncSound DEF Good
<1> HIDE DEF d
<1>2. CASE d = c BY <1>2 DEF d
<1>3. CASE Bare(d) /\ d.epoch = epoch /\ c.active = 0
  <2>1. Out(lease) = {} BY <1>3, OutFacts, FS_EmptySet DEF Good, Pinned
  <2>2. Occupied(d) = {} BY <1>3, BareSound
  <2>3. Pinned(d, lease) BY <1>1 DEF Good, Pinned
  <2>4. Lent(d, lease, content) BY <2>1 DEF Lent, Cached
  <2>5. Fresh(d, content, epoch) BY <1>3, <2>2 DEF Fresh, TypeOK
  <2>6. Good(d) BY <1>1, <2>3, <2>4, <2>5 DEF Good
  <2> QED BY <2>6 DEF d
<1> QED BY <1>1, <1>2, <1>3

(* The memos have no part in it. *)
LEMMA AdmissionGood ==
  ASSUME TypeOK, NEW c, Good(c), NEW k \in Keys
  PROVE  Good(Admission(c, k)) /\ SameView(Admission(c, k), Resync(c))
<1> DEFINE r == Resync(c)
           d == Admission(c, k)
           m == MemoOf[k]
<1>1. Good(r) BY ResyncGood
<1>2. m \in Memos BY DEF Memos
<1>3. d = r \/ d = [r EXCEPT !.admitted[m] = k] \/ d = [r EXCEPT !.refused[m] = k]
  BY DEF Admission
<1>4. r \in CacheType BY <1>1 DEF Good, Sound
<1> HIDE DEF r, d, m
<1>5. /\ d \in CacheType /\ d.entry = r.entry /\ d.capacity = r.capacity /\ d.bucket = r.bucket
      /\ d.size = r.size /\ d.head = r.head /\ d.active = r.active
      /\ d.generation = r.generation /\ d.epoch = r.epoch
  BY <1>2, <1>3, <1>4 DEF CacheType
<1>6. Occupied(d) = Occupied(r) BY <1>5 DEF Occupied
<1>7. Sound(d) BY <1>1, <1>5, <1>6 DEF Good, Sound
<1>8. Good(d) BY <1>1, <1>5, <1>6, <1>7 DEF Good, Pinned, Lent, Fresh
<1>9. SameView(d, r) BY <1>5 DEF SameView
<1> QED BY <1>8, <1>9 DEF d, r

LEMMA TouchGood ==
  ASSUME NEW c, Good(c), NEW s \in Occupied(c)
  PROVE  LET d == Touch(c, s)
         IN Good(d) /\ Occupied(d) = Occupied(c) /\ d.entry[s].key = c.entry[s].key /\ d.epoch = c.epoch
<1> DEFINE d == Touch(c, s)
<1>1. Sound(d) /\ Relinked(d, c) /\ Occupied(d) = Occupied(c) BY TouchSound DEF Good
<1>2. Occupied(c) \subseteq Slots BY DEF Occupied
<1> HIDE DEF d
<1>3. Pinned(d, lease) BY <1>1 DEF Good, Pinned, Relinked, SameEntry
<1>4. Lent(d, lease, content) BY <1>1, <1>2 DEF Good, Lent, Relinked, SameEntry
<1>5. Fresh(d, content, epoch) BY <1>1, <1>2 DEF Good, Fresh, Relinked, SameEntry
<1>6. d.entry[s].key = c.entry[s].key /\ d.epoch = c.epoch
  BY <1>1, <1>2 DEF Relinked, SameEntry
<1> QED BY <1>1, <1>3, <1>4, <1>5, <1>6 DEF Good, d

LEMMA RemoveGood ==
  ASSUME NEW c, Good(c), NEW s \in Occupied(c), c.entry[s].pins = 0
  PROVE  LET d == Remove1(c, s)
         IN Good(d) /\ Occupied(d) = Occupied(c) \ {s} /\ SameRest(d, c)
            /\ d.generation = c.generation /\ d.size = c.size - 1
<1> DEFINE d == Remove1(c, s)
<1>1. /\ Sound(d) /\ SameRest(d, c) /\ Occupied(d) = Occupied(c) \ {s}
      /\ d.generation = c.generation /\ d.size = c.size - 1
      /\ \A t \in Slots : d.entry[t].pins = c.entry[t].pins
      /\ \A t \in Slots \ {s} : SameUse(d.entry[t], c.entry[t])
  BY RemoveSound DEF Good
<1>2. Occupied(c) \subseteq Slots BY DEF Occupied
<1> HIDE DEF d
<1>3. Pinned(d, lease) BY <1>1 DEF Good, Pinned, SameRest
<1>4. \A l \in Cached(lease) : lease[l].slot # s BY <1>2, Unpinned DEF Good
<1>5. Lent(d, lease, content)
  <2> SUFFICES ASSUME NEW l \in Cached(lease)
               PROVE  LET e == d.entry[lease[l].slot]
                      IN /\ lease[l].slot \in Occupied(d)
                         /\ e.generation = lease[l].generation /\ e.key = lease[l].key
                         /\ e.plan = content[lease[l].key]
    BY DEF Lent
  <2>1. lease[l].slot \in Occupied(c) \ {s} BY <1>4 DEF Good, Lent
  <2>2. SameUse(d.entry[lease[l].slot], c.entry[lease[l].slot]) BY <1>1, <1>2, <2>1
  <2> QED BY <1>1, <2>1, <2>2 DEF Good, Lent, SameUse
<1>6. Fresh(d, content, epoch)
  <2>1. d.epoch = c.epoch BY <1>1 DEF SameRest
  <2>2. \A t \in Occupied(d) : SameUse(d.entry[t], c.entry[t]) /\ t \in Occupied(c) BY <1>1, <1>2
  <2> QED BY <2>1, <2>2 DEF Good, Fresh, SameUse
<1> QED BY <1>1, <1>3, <1>5, <1>6 DEF Good, d

LEMMA InsertGood ==
  ASSUME TypeOK, NEW c, Good(c), NEW s \in Slots \ Occupied(c), NEW k \in Keys, content[k] # None,
         c.generation < MaxInserts, c.size < c.capacity
  PROVE  LET d == Insert(c, s, k, content[k])
         IN Good(d) /\ s \in Occupied(d) /\ d.entry[s].key = k /\ d.epoch = c.epoch
<1> DEFINE p == content[k]
           d == Insert(c, s, k, p)
<1>1. p \in Patterns BY DEF TypeOK
<1>2. /\ Sound(d) /\ SameRest(d, c) /\ Occupied(d) = Occupied(c) \cup {s}
      /\ d.entry[s].key = k /\ d.entry[s].plan = p
      /\ \A t \in Slots : d.entry[t].pins = c.entry[t].pins
      /\ \A t \in Slots \ {s} : SameUse(d.entry[t], c.entry[t])
  <2> HIDE DEF p
  <2> QED BY <1>1, InsertSound DEF Good
<1>3. Occupied(c) \subseteq Slots BY DEF Occupied
<1> HIDE DEF d
<1>4. Pinned(d, lease) BY <1>2 DEF Good, Pinned, SameRest
<1>5. Lent(d, lease, content)
  <2> SUFFICES ASSUME NEW l \in Cached(lease)
               PROVE  LET e == d.entry[lease[l].slot]
                      IN /\ lease[l].slot \in Occupied(d)
                         /\ e.generation = lease[l].generation /\ e.key = lease[l].key
                         /\ e.plan = content[lease[l].key]
    BY DEF Lent
  <2>1. lease[l].slot \in Occupied(c) /\ lease[l].slot # s BY DEF Good, Lent
  <2>2. SameUse(d.entry[lease[l].slot], c.entry[lease[l].slot]) BY <1>2, <1>3, <2>1
  <2> QED BY <1>2, <2>1, <2>2 DEF Good, Lent, SameUse
<1>6. Fresh(d, content, epoch)
  <2>1. d.epoch = c.epoch BY <1>2 DEF SameRest
  <2>2. \A t \in Occupied(c) : SameUse(d.entry[t], c.entry[t]) BY <1>2, <1>3
  <2>3. d.entry[s].plan = content[d.entry[s].key] /\ d.entry[s].plan # None BY <1>2
  <2> QED BY <1>2, <2>1, <2>2, <2>3 DEF Good, Fresh, SameUse
<1>7. d.epoch = c.epoch /\ s \in Occupied(d) BY <1>2 DEF SameRest
<1> QED BY <1>2, <1>4, <1>5, <1>6, <1>7 DEF Good, d
-----------------------------------------------------------------------------
(* The steps *)

Pools == UNCHANGED <<content, loose, epoch>>

LEMMA ActivateStep ==
  ASSUME TypeOK, IInv, Pools, NEW c, Good(c), NEW l \in Leases, ~ lease[l].active,
         NEW s \in Occupied(c), c.epoch = epoch, Activate(c, l, s)
  PROVE  TypeOK' /\ IInv' /\ SameView(cache', c)
<1> DEFINE e == c.entry[s]
           k == e.key
           r == [active |-> TRUE, slot |-> s, key |-> c.entry[s].key,
                 generation |-> c.entry[s].generation, transient |-> None]
           d == cache'
           ls == lease'
<1>1. /\ c \in CacheType /\ s \in Slots /\ e \in EntryType /\ Linked(Occupied(c), c.entry, c.bucket)
  BY DEF Good, Sound, Occupied, CacheType
<1>2. k \in Keys /\ e.plan = content[k] /\ e.plan # None
  BY <1>1 DEF Good, Fresh, Linked
<1>3. r \in LeaseType /\ ls = [lease EXCEPT ![l] = r]
  BY <1>1 DEF Activate, LeaseType, EntryType, Link
<1>4. /\ d \in CacheType /\ d.capacity = c.capacity /\ d.bucket = c.bucket /\ d.size = c.size
      /\ d.head = c.head /\ d.active = c.active + 1 /\ d.generation = c.generation /\ d.epoch = c.epoch
      /\ \A t \in Slots : /\ SameUse(d.entry[t], c.entry[t])
                          /\ d.entry[t].occupied = c.entry[t].occupied
                          /\ d.entry[t].next = c.entry[t].next
                          /\ d.entry[t].prev = c.entry[t].prev
                          /\ d.entry[t].chain = c.entry[t].chain
                          /\ d.entry[t].pins = IF t = s THEN c.entry[t].pins + 1 ELSE c.entry[t].pins
  <2> DEFINE q == [e EXCEPT !.pins = e.pins + 1]
             en == [c.entry EXCEPT ![s] = q]
  <2>1. /\ q \in EntryType /\ SameUse(q, e) /\ q.occupied = e.occupied /\ q.next = e.next
        /\ q.prev = e.prev /\ q.chain = e.chain /\ q.pins = e.pins + 1
    <3>1. e.pins + 1 \in Nat BY <1>1 DEF EntryType
    <3> HIDE DEF e
    <3> QED BY <1>1, <3>1 DEF EntryType, SameUse
  <2>2. d = [c EXCEPT !.active = c.active + 1, !.entry = en]
    BY <1>1 DEF Activate, CacheType
  <2>3. c.active + 1 \in Nat /\ c.entry \in [Slots -> EntryType] BY <1>1 DEF CacheType
  <2> HIDE DEF q
  <2>4. en \in [Slots -> EntryType] /\ en[s] = q /\ \A t \in Slots \ {s} : en[t] = c.entry[t]
    BY <1>1, <2>1, <2>3
  <2> HIDE DEF en, d
  <2>5. /\ d \in CacheType /\ d.capacity = c.capacity /\ d.bucket = c.bucket /\ d.size = c.size
        /\ d.head = c.head /\ d.active = c.active + 1 /\ d.generation = c.generation
        /\ d.epoch = c.epoch /\ d.entry = en
    BY <1>1, <2>2, <2>3, <2>4 DEF CacheType
  <2> QED BY <1>1, <2>1, <2>4, <2>5 DEF SameUse
<1> HIDE DEF d, r
<1>5. Occupied(d) = Occupied(c) BY <1>4 DEF Occupied
<1>6. Sound(d)
  <2>1. Occupied(c) \subseteq Slots BY DEF Occupied
  <2>2. Ring(Occupied(c), d.entry, d.head)
    <3>1. \A t \in Occupied(c) : d.entry[t].next = c.entry[t].next /\ d.entry[t].prev = c.entry[t].prev
      BY <1>4, <2>1
    <3>2. Ring(Occupied(c), c.entry, c.head) BY DEF Good, Sound
    <3> QED BY <1>4, <3>1, <3>2, SameRing
  <2>3. Linked(Occupied(c), d.entry, d.bucket)
    <3>1. \A t \in Occupied(c) : /\ d.entry[t].key = c.entry[t].key
                                /\ d.entry[t].chain = c.entry[t].chain
                                /\ d.entry[t].generation = c.entry[t].generation
      BY <1>4, <2>1 DEF SameUse
    <3>2. d.bucket = c.bucket BY <1>4
    <3> QED BY <1>1, <3>1, <3>2 DEF Linked, Place
  <2>4. \A t \in Occupied(c) : d.entry[t].generation <= d.generation
    BY <1>4, <2>1 DEF Good, Sound, SameUse
  <2> QED BY <1>4, <1>5, <2>2, <2>3, <2>4 DEF Good, Sound
<1>7. ls[l] = r /\ \A x \in Leases \ {l} : ls[x] = lease[x]
  BY <1>3 DEF TypeOK
<1>8. r.active /\ r.slot = s /\ r.key = k /\ r.generation = e.generation /\ r.transient = None
  BY DEF r
<1> HIDE DEF ls, e
<1>9. Out(ls) = Out(lease) \cup {l} /\ Cached(ls) = Cached(lease) \cup {l} /\ l \notin Out(lease)
  BY <1>7, <1>8 DEF Out, Cached
<1>10. /\ Pinning(ls, s) = Pinning(lease, s) \cup {l}
       /\ \A t \in Slots \ {s} : Pinning(ls, t) = Pinning(lease, t)
  <2>1. \A x \in Cached(lease) : ls[x] = lease[x] BY <1>7, <1>9 DEF Cached, Out
  <2>2. ls[l].slot = s BY <1>7, <1>8
  <2> QED BY <1>9, <2>1, <2>2 DEF Pinning
<1>11. Pinned(d, ls)
  <2>1. Cardinality(Out(ls)) = Cardinality(Out(lease)) + 1 BY <1>9, OutFacts, FS_AddElement
  <2>2. Cardinality(Pinning(ls, s)) = Cardinality(Pinning(lease, s)) + 1
    <3>1. l \notin Pinning(lease, s) BY <1>9 DEF Pinning, Cached
    <3> QED BY <1>10, <3>1, OutFacts, FS_AddElement
  <2>3. c.active = Cardinality(Out(lease))
        /\ \A t \in Slots : c.entry[t].pins = Cardinality(Pinning(lease, t))
    BY DEF Good, Pinned
  <2> QED BY <1>4, <1>10, <2>1, <2>2, <2>3 DEF Pinned
<1>12. Lent(d, ls, content)
  <2> SUFFICES ASSUME NEW x \in Cached(ls)
               PROVE  /\ ls[x].slot \in Occupied(d)
                      /\ d.entry[ls[x].slot].generation = ls[x].generation
                      /\ d.entry[ls[x].slot].key = ls[x].key
                      /\ d.entry[ls[x].slot].plan = content[ls[x].key]
    BY DEF Lent
  <2>1. CASE x = l BY <1>1, <1>2, <1>4, <1>5, <1>7, <1>8, <2>1 DEF SameUse, e
  <2>2. CASE x # l
    <3>1. x \in Cached(lease) /\ ls[x] = lease[x] BY <1>7, <1>9, <2>2 DEF Cached, Out
    <3>2. /\ lease[x].slot \in Occupied(c) /\ lease[x].slot \in Slots
          /\ c.entry[lease[x].slot].generation = lease[x].generation
          /\ c.entry[lease[x].slot].key = lease[x].key
          /\ c.entry[lease[x].slot].plan = content[lease[x].key]
      BY <3>1 DEF Good, Lent, Occupied
    <3> QED BY <1>4, <1>5, <3>1, <3>2 DEF SameUse
  <2> QED BY <2>1, <2>2
<1>13. Fresh(d, content, epoch)
  <2>1. \A t \in Occupied(c) : SameUse(d.entry[t], c.entry[t]) BY <1>4 DEF Occupied
  <2> QED BY <1>4, <1>5, <2>1 DEF Good, Fresh, SameUse
<1>14. Asked(ls, content)
  <2> SUFFICES ASSUME NEW x \in Out(ls)
               PROVE  /\ ls[x].key \in Keys /\ content[ls[x].key] # None
                      /\ ls[x].transient # None => ls[x].transient = content[ls[x].key]
    BY DEF Asked
  <2>1. CASE x = l BY <1>2, <1>7, <1>8, <2>1
  <2>2. CASE x # l
    <3>1. x \in Out(lease) /\ ls[x] = lease[x] BY <1>7, <1>9, <2>2 DEF Out
    <3> QED BY <3>1 DEF IInv, Asked
  <2> QED BY <2>1, <2>2
<1>15. TypeOK' BY <1>3, <1>4 DEF TypeOK, Pools, d, ls
<1>16. d # None BY <1>4, NoneAssumption
<1>17. SameView(d, c) BY <1>4 DEF SameView, SameUse
<1> QED BY <1>6, <1>11, <1>12, <1>13, <1>14, <1>15, <1>16, <1>17 DEF IInv, Good, Pools, d, ls

LEMMA TransientStep ==
  ASSUME TypeOK, IInv, Pools, NEW c, Good(c), NEW l \in Leases, ~ lease[l].active,
         NEW k \in Keys, content[k] # None, Transient(c, l, k)
  PROVE  TypeOK' /\ IInv' /\ SameView(cache', c)
<1> DEFINE r == [Inactive EXCEPT !.active = TRUE, !.key = k, !.transient = content[k]]
           d == cache'
           ls == lease'
<1>1. c \in CacheType BY DEF Good, Sound
<1>2. /\ r \in LeaseType /\ r.active /\ r.key = k /\ r.transient = content[k]
  <2>1. content[k] \in Patterns \cup {None} BY DEF TypeOK
  <2>2. 0 \in 0..MaxInserts BY CacheAssumption
  <2> QED BY <2>1, <2>2 DEF LeaseType, Inactive, Link
<1>3. ls = [lease EXCEPT ![l] = r] BY DEF Transient
<1> HIDE DEF r
<1>4. /\ d \in CacheType /\ d.capacity = c.capacity /\ d.bucket = c.bucket /\ d.size = c.size
      /\ d.head = c.head /\ d.active = c.active + 1 /\ d.generation = c.generation
      /\ d.epoch = c.epoch /\ d.entry = c.entry
  <2>1. d = [c EXCEPT !.active = c.active + 1] BY <1>1 DEF Transient, CacheType
  <2>2. c.active + 1 \in Nat BY <1>1 DEF CacheType
  <2> HIDE DEF d
  <2> QED BY <1>1, <2>1, <2>2 DEF CacheType
<1> HIDE DEF d
<1>5. Occupied(d) = Occupied(c) BY <1>4 DEF Occupied
<1>6. Sound(d) BY <1>4, <1>5 DEF Good, Sound
<1>7. ls[l] = r /\ \A x \in Leases \ {l} : ls[x] = lease[x] BY <1>3 DEF TypeOK
<1> HIDE DEF ls
<1>9. Out(ls) = Out(lease) \cup {l} /\ Cached(ls) = Cached(lease) /\ l \notin Out(lease)
  BY <1>2, <1>7 DEF Out, Cached
<1>10. \A t \in Slots : Pinning(ls, t) = Pinning(lease, t)
  BY <1>7, <1>9 DEF Pinning, Cached, Out
<1>11. Pinned(d, ls)
  <2>1. Cardinality(Out(ls)) = Cardinality(Out(lease)) + 1 BY <1>9, OutFacts, FS_AddElement
  <2> QED BY <1>4, <1>10, <2>1 DEF Good, Pinned
<1>12. Lent(d, ls, content)
  <2>1. \A x \in Cached(lease) : ls[x] = lease[x] BY <1>7, <1>9 DEF Cached, Out
  <2> QED BY <1>4, <1>5, <1>9, <2>1 DEF Good, Lent
<1>13. Fresh(d, content, epoch) BY <1>4, <1>5 DEF Good, Fresh
<1>14. Asked(ls, content)
  <2> SUFFICES ASSUME NEW x \in Out(ls)
               PROVE  /\ ls[x].key \in Keys /\ content[ls[x].key] # None
                      /\ ls[x].transient # None => ls[x].transient = content[ls[x].key]
    BY DEF Asked
  <2>1. CASE x = l BY <1>2, <1>7, <2>1
  <2>2. CASE x # l
    <3>1. x \in Out(lease) /\ ls[x] = lease[x] BY <1>7, <1>9, <2>2 DEF Out
    <3> QED BY <3>1 DEF IInv, Asked
  <2> QED BY <2>1, <2>2
<1>15. TypeOK' BY <1>2, <1>3, <1>4 DEF TypeOK, Pools, d, ls
<1>16. d # None BY <1>4, NoneAssumption
<1>17. SameView(d, c) BY <1>4 DEF SameView
<1> QED BY <1>6, <1>11, <1>12, <1>13, <1>14, <1>15, <1>16, <1>17 DEF IInv, Good, Pools, d, ls

LEMMA KeptStep ==
  ASSUME TypeOK, IInv, Pools, NEW c, Good(c), cache' = c, UNCHANGED lease
  PROVE  TypeOK' /\ IInv'
<1>1. c \in CacheType /\ c # None BY NoneAssumption DEF Good, Sound
<1> QED BY <1>1 DEF TypeOK, IInv, Pools, Good

(* The search for a victim stays among the entries. *)
LEMMA VictimFacts ==
  ASSUME NEW c, Sound(c), ~ (c.size < c.capacity), NEW s \in Victim(c)
  PROVE  s \in Occupied(c) /\ c.entry[s].pins = 0
<1>1. c \in CacheType BY DEF Sound
<1>2. Occupied(c) # {}
  <2>1. c.capacity \in Nat \ {0} BY <1>1, CacheAssumption DEF CacheType
  <2>2. c.size = Cardinality(Occupied(c)) /\ c.size \in Nat BY <1>1 DEF Sound, CacheType
  <2> QED BY <2>1, <2>2, FS_EmptySet
<1>3. c.head \in Occupied(c) BY <1>2 DEF Sound, Ring
<1>4. c.entry[c.head].prev \in Occupied(c)
      /\ \A t \in Occupied(c) : c.entry[t].prev \in Occupied(c)
  BY <1>3 DEF Sound, Ring
<1>5. Occupied(c) \in SUBSET Slots BY DEF Occupied
<1>6. Visited(c) \subseteq Occupied(c) BY <1>4, <1>5 DEF Visited
<1> QED BY <1>6 DEF Victim

(* The entry a new one replaces, if any, is gone first. *)
Room(c, s) == IF c.entry[s].occupied THEN Remove1(c, s) ELSE c

LEMMA RoomFacts ==
  ASSUME NEW c, Good(c), NEW s \in Reusable(c)
  PROVE  /\ Good(Room(c, s)) /\ s \in Slots \ Occupied(Room(c, s)) /\ SameRest(Room(c, s), c)
         /\ Room(c, s).generation = c.generation /\ Room(c, s).size < Room(c, s).capacity
         /\ \/ c.size < c.capacity /\ Room(c, s) = c
            \/ /\ ~ (c.size < c.capacity) /\ s \in Victim(c) /\ s \in Occupied(c)
               /\ Room(c, s) = Remove1(c, s)
<1> DEFINE room == Room(c, s)
<1>1. Sound(c) /\ c \in CacheType BY DEF Good, Sound
<1>2. CASE c.size < c.capacity
  <2>1. s \in 0 .. c.capacity - 1 /\ ~ c.entry[s].occupied
    BY <1>2 DEF Reusable, FreeSlot
  <2>2. s \in Slots BY <1>1, <2>1, SlotFacts DEF CacheType
  <2>3. room = c /\ s \notin Occupied(c) BY <2>1 DEF Occupied, Room
  <2> HIDE DEF room
  <2> QED BY <1>2, <2>2, <2>3 DEF SameRest, room
<1>3. CASE ~ (c.size < c.capacity)
  <2>1. s \in Victim(c) BY <1>3 DEF Reusable
  <2>2. s \in Occupied(c) /\ c.entry[s].pins = 0 BY <1>1, <1>3, <2>1, VictimFacts
  <2>3. room = Remove1(c, s) /\ s \in Slots BY <2>2 DEF Occupied, Room
  <2>4. /\ Good(Remove1(c, s)) /\ Occupied(Remove1(c, s)) = Occupied(c) \ {s}
        /\ SameRest(Remove1(c, s), c) /\ Remove1(c, s).generation = c.generation
        /\ Remove1(c, s).size = c.size - 1
    BY <2>2, RemoveGood
  <2>5. c.size <= c.capacity /\ c.size \in Nat /\ c.capacity \in Nat
    BY <1>1, CacheAssumption DEF Sound, CacheType
  <2> HIDE DEF room
  <2>6. room.size < room.capacity BY <2>3, <2>4, <2>5 DEF SameRest
  <2> QED BY <1>3, <2>1, <2>2, <2>3, <2>4, <2>6 DEF room
<1> QED BY <1>2, <1>3

LEMMA MissStep ==
  ASSUME TypeOK, IInv, Pools, NEW c, Good(c), NEW l \in Leases, ~ lease[l].active,
         NEW k \in Keys, content[k] # None, Miss(c, l, k)
  PROVE  /\ TypeOK' /\ IInv'
         /\ \E s \in Reusable(c) : LET d == Insert(Room(c, s), s, k, content[k])
                                   IN SameView(cache', d) /\ Activate(d, l, s)
<1>1. c.epoch = epoch BY DEF Miss, Admits
<1>2. c.generation < MaxInserts BY DEF Miss
<1>3. PICK s \in Reusable(c) : Activate(Insert(Room(c, s), s, k, content[k]), l, s)
  BY DEF Miss, Room
<1> DEFINE room == Room(c, s)
           d == Insert(room, s, k, content[k])
<1>4. /\ Good(room) /\ s \in Slots \ Occupied(room) /\ SameRest(room, c)
      /\ room.generation = c.generation /\ room.size < room.capacity
  BY RoomFacts
<1> HIDE DEF room
<1>5. Good(d) /\ s \in Occupied(d) /\ d.epoch = room.epoch
  BY <1>2, <1>4, InsertGood
<1>6. Activate(d, l, s) /\ d.epoch = epoch BY <1>1, <1>3, <1>4, <1>5 DEF room, SameRest
<1> HIDE DEF d
<1>7. TypeOK' /\ IInv' /\ SameView(cache', d) BY <1>5, <1>6, ActivateStep
<1> QED BY <1>6, <1>7 DEF d, room

LEMMA AcquireStep ==
  ASSUME TypeOK, IInv, NEW l \in Leases, NEW k \in Keys, Acquire(l, k)
  PROVE  TypeOK' /\ IInv'
<1>1. Pools /\ ~ lease[l].active /\ content[k] # None BY DEF Acquire, Pools
<1>2. PICK e \in Existing : LET c == Admission(e, k) IN
         Transient(c, l, k) \/ Hit(c, l, k) \/ Miss(c, l, k) \/ Pressure(c, k) \/ Raises(c, k)
  BY DEF Acquire
<1>3. Good(e)
  <2>1. CASE cache = None
    <3>1. PICK n \in Capacities : e = New(n) BY <1>2, <2>1 DEF Existing
    <3> QED BY <2>1, <3>1, NewGood DEF IInv
  <2>2. CASE cache # None BY <1>2, <2>2 DEF Existing, IInv
  <2> QED BY <2>1, <2>2
<1> DEFINE c == Admission(e, k)
<1>4. Good(c) BY <1>3, AdmissionGood
<1>5. Transient(c, l, k) \/ Hit(c, l, k) \/ Miss(c, l, k) \/ Pressure(c, k) \/ Raises(c, k)
  BY <1>2
<1> HIDE DEF c
<1>6. CASE Transient(c, l, k) BY <1>1, <1>4, <1>6, TransientStep
<1>7. CASE Hit(c, l, k)
  <2>1. PICK s \in Found(c, k) : Activate(Touch(c, s), l, s) BY <1>7 DEF Hit
  <2>2. s \in Occupied(c) /\ c.epoch = epoch
    BY <1>7, <2>1 DEF Hit, Admits, Found, Chain, Occupied
  <2>3. Good(Touch(c, s)) /\ s \in Occupied(Touch(c, s)) /\ Touch(c, s).epoch = epoch
    BY <1>4, <2>2, TouchGood
  <2> QED BY <1>1, <2>1, <2>3, ActivateStep
<1>8. CASE Miss(c, l, k) BY <1>1, <1>4, <1>8, MissStep
<1>9. CASE Pressure(c, k) BY <1>1, <1>4, <1>9, KeptStep DEF Pressure
<1>10. CASE Raises(c, k) BY <1>1, <1>4, <1>10, KeptStep DEF Raises
<1> QED BY <1>5, <1>6, <1>7, <1>8, <1>9, <1>10

LEMMA ReleaseStep ==
  ASSUME TypeOK, IInv, NEW l \in Leases, Release(l)
  PROVE  TypeOK' /\ IInv' /\ cache # None /\ SameView(cache', cache)
<1> DEFINE c == cache
           d == cache'
           ls == lease'
           s == lease[l].slot
<1>1. Pools /\ l \in Out(lease) BY DEF Release, Pools, Out
<1>2. c # None /\ Good(c) BY <1>1 DEF IInv
<1>3. c \in CacheType BY <1>2 DEF Good, Sound
<1>4. ls = [lease EXCEPT ![l] = Inactive] /\ Inactive \in LeaseType /\ ~ Inactive.active
  <2>1. 0 \in 0..MaxInserts BY CacheAssumption
  <2> QED BY <2>1 DEF Release, Inactive, LeaseType, Link
<1>5. c.active - 1 \in Nat /\ c.active = Cardinality(Out(lease))
  <2>1. c.active = Cardinality(Out(lease)) /\ c.active \in Nat BY <1>2, <1>3 DEF Good, Pinned, CacheType
  <2> QED BY <1>1, <2>1, OutFacts, FS_EmptySet
<1>6. l \in Cached(lease) => s \in Occupied(c) /\ s \in Slots /\ c.entry[s].pins - 1 \in Nat
  <2> SUFFICES ASSUME l \in Cached(lease)
               PROVE s \in Occupied(c) /\ s \in Slots /\ c.entry[s].pins - 1 \in Nat
    OBVIOUS
  <2>1. s \in Occupied(c) /\ s \in Slots BY <1>2 DEF Good, Lent, Occupied
  <2>2. c.entry[s].pins # 0 BY <1>2, <2>1, Unpinned DEF Good
  <2>3. c.entry[s].pins \in Nat BY <1>3, <2>1 DEF CacheType, EntryType
  <2> QED BY <2>1, <2>2, <2>3
<1>7. /\ d \in CacheType /\ d.capacity = c.capacity /\ d.bucket = c.bucket /\ d.size = c.size
      /\ d.head = c.head /\ d.active = c.active - 1 /\ d.generation = c.generation /\ d.epoch = c.epoch
      /\ \A t \in Slots : /\ SameUse(d.entry[t], c.entry[t])
                          /\ d.entry[t].occupied = c.entry[t].occupied
                          /\ d.entry[t].next = c.entry[t].next
                          /\ d.entry[t].prev = c.entry[t].prev
                          /\ d.entry[t].chain = c.entry[t].chain
                          /\ d.entry[t].pins = IF l \in Cached(lease) /\ t = s
                                               THEN c.entry[t].pins - 1 ELSE c.entry[t].pins
  <2>1. CASE lease[l].transient # None
    <3>1. l \notin Cached(lease) BY <2>1 DEF Cached
    <3>2. d = [c EXCEPT !.active = c.active - 1] BY <1>3, <2>1 DEF Release, CacheType
    <3> HIDE DEF d, c
    <3>3. /\ d \in CacheType /\ d.capacity = c.capacity /\ d.bucket = c.bucket /\ d.size = c.size
          /\ d.head = c.head /\ d.active = c.active - 1 /\ d.generation = c.generation
          /\ d.epoch = c.epoch /\ d.entry = c.entry
      BY <1>3, <1>5, <3>2 DEF CacheType
    <3> QED BY <3>1, <3>3 DEF SameUse
  <2>2. CASE lease[l].transient = None
    <3>1. l \in Cached(lease) BY <1>1, <2>2 DEF Cached
    <3> DEFINE e == c.entry[s]
               q == [e EXCEPT !.pins = e.pins - 1]
               en == [c.entry EXCEPT ![s] = q]
    <3>2. s \in Slots /\ e \in EntryType /\ c.entry \in [Slots -> EntryType] /\ e.pins - 1 \in Nat
      BY <1>3, <1>6, <3>1 DEF CacheType
    <3>3. d = [c EXCEPT !.active = c.active - 1, !.entry = en]
      BY <1>3, <2>2 DEF Release, CacheType
    <3> HIDE DEF d, c, s, e
    <3>4. /\ q \in EntryType /\ SameUse(q, e) /\ q.occupied = e.occupied /\ q.next = e.next
          /\ q.prev = e.prev /\ q.chain = e.chain /\ q.pins = e.pins - 1
      BY <3>2 DEF EntryType, SameUse
    <3> HIDE DEF q
    <3>5. en \in [Slots -> EntryType] /\ en[s] = q /\ \A t \in Slots \ {s} : en[t] = c.entry[t]
      BY <3>2, <3>4
    <3> HIDE DEF en
    <3>6. /\ d \in CacheType /\ d.capacity = c.capacity /\ d.bucket = c.bucket /\ d.size = c.size
          /\ d.head = c.head /\ d.active = c.active - 1 /\ d.generation = c.generation
          /\ d.epoch = c.epoch /\ d.entry = en
      BY <1>3, <1>5, <3>3, <3>5 DEF CacheType
    <3> QED BY <3>1, <3>2, <3>4, <3>5, <3>6 DEF SameUse, e
  <2> QED BY <2>1, <2>2
<1> HIDE DEF d
<1>8. Occupied(d) = Occupied(c) BY <1>7 DEF Occupied
<1>9. Sound(d)
  <2>1. Occupied(c) \subseteq Slots BY DEF Occupied
  <2>2. Ring(Occupied(c), d.entry, d.head)
    <3>1. \A t \in Occupied(c) : d.entry[t].next = c.entry[t].next /\ d.entry[t].prev = c.entry[t].prev
      BY <1>7, <2>1
    <3>2. Ring(Occupied(c), c.entry, c.head) BY <1>2 DEF Good, Sound
    <3> QED BY <1>7, <3>1, <3>2, SameRing
  <2>3. Linked(Occupied(c), d.entry, d.bucket)
    <3>1. \A t \in Occupied(c) : /\ d.entry[t].key = c.entry[t].key
                                /\ d.entry[t].chain = c.entry[t].chain
                                /\ d.entry[t].generation = c.entry[t].generation
      BY <1>7, <2>1 DEF SameUse
    <3>2. d.bucket = c.bucket /\ Linked(Occupied(c), c.entry, c.bucket) BY <1>2, <1>7 DEF Good, Sound
    <3> QED BY <3>1, <3>2 DEF Linked, Place
  <2>4. \A t \in Occupied(c) : d.entry[t].generation <= d.generation
    BY <1>2, <1>7, <2>1 DEF Good, Sound, SameUse
  <2> QED BY <1>2, <1>7, <1>8, <2>2, <2>3, <2>4 DEF Good, Sound
<1>10. ls[l] = Inactive /\ \A x \in Leases \ {l} : ls[x] = lease[x] BY <1>4 DEF TypeOK
<1> HIDE DEF ls
<1>11. Out(ls) = Out(lease) \ {l} /\ Cached(ls) = Cached(lease) \ {l}
  BY <1>4, <1>10 DEF Out, Cached
<1>12. \A x \in Out(ls) : ls[x] = lease[x] BY <1>10, <1>11 DEF Out
<1>13. \A t : Pinning(ls, t) = Pinning(lease, t) \ {l}
  BY <1>11, <1>12 DEF Pinning, Cached
<1>14. Pinned(d, ls)
  <2>1. Cardinality(Out(ls)) = Cardinality(Out(lease)) - 1 BY <1>1, <1>11, OutFacts, FS_RemoveElement
  <2>2. ASSUME NEW t \in Slots PROVE d.entry[t].pins = Cardinality(Pinning(ls, t))
    <3>1. c.entry[t].pins = Cardinality(Pinning(lease, t)) BY <1>2 DEF Good, Pinned
    <3>2. CASE l \in Cached(lease) /\ t = s
      <4>1. l \in Pinning(lease, t) BY <3>2 DEF Pinning
      <4>2. Cardinality(Pinning(lease, t) \ {l}) = Cardinality(Pinning(lease, t)) - 1
        BY <4>1, OutFacts, FS_RemoveElement
      <4> QED BY <1>7, <1>13, <3>1, <3>2, <4>2
    <3>3. CASE ~ (l \in Cached(lease) /\ t = s)
      <4>1. l \notin Pinning(lease, t) BY <3>3 DEF Pinning
      <4>2. Pinning(ls, t) = Pinning(lease, t) BY <1>13, <4>1
      <4> QED BY <1>7, <3>1, <3>3, <4>2
    <3> QED BY <3>2, <3>3
  <2> QED BY <1>5, <1>7, <2>1, <2>2 DEF Pinned
<1>15. Lent(d, ls, content)
  <2> SUFFICES ASSUME NEW x \in Cached(ls)
               PROVE  /\ ls[x].slot \in Occupied(d)
                      /\ d.entry[ls[x].slot].generation = ls[x].generation
                      /\ d.entry[ls[x].slot].key = ls[x].key
                      /\ d.entry[ls[x].slot].plan = content[ls[x].key]
    BY DEF Lent
  <2>1. x \in Cached(lease) /\ ls[x] = lease[x] BY <1>11, <1>12 DEF Cached
  <2>2. /\ lease[x].slot \in Occupied(c) /\ lease[x].slot \in Slots
        /\ c.entry[lease[x].slot].generation = lease[x].generation
        /\ c.entry[lease[x].slot].key = lease[x].key
        /\ c.entry[lease[x].slot].plan = content[lease[x].key]
    BY <1>2, <2>1 DEF Good, Lent, Occupied
  <2> QED BY <1>7, <1>8, <2>1, <2>2 DEF SameUse
<1>16. Fresh(d, content, epoch)
  <2>1. \A t \in Occupied(c) : SameUse(d.entry[t], c.entry[t]) BY <1>7 DEF Occupied
  <2> QED BY <1>2, <1>7, <1>8, <2>1 DEF Good, Fresh, SameUse
<1>17. Asked(ls, content) BY <1>11, <1>12 DEF IInv, Asked
<1>18. TypeOK' BY <1>1, <1>4, <1>7 DEF TypeOK, Pools, d, ls
<1>19. d # None BY <1>7, NoneAssumption
<1>20. SameView(d, c) BY <1>7 DEF SameView, SameUse
<1>21. TypeOK' /\ IInv'
  BY <1>1, <1>9, <1>14, <1>15, <1>16, <1>17, <1>18, <1>19 DEF IInv, Good, Pools, d, ls
<1> QED BY <1>2, <1>20, <1>21 DEF d

(* A pattern built or a String promoted leaves what is known untouched; a   *)
(* released level makes it stale, but for what leases hold.                 *)
LEMMA PoolStep ==
  ASSUME TypeOK, IInv, UNCHANGED <<cache, lease>>,
         content' \in [Keys -> Patterns \cup {None}], loose' \subseteq Loose,
         epoch' \in 0..MaxEpoch, epoch' >= epoch,
         \A l \in Out(lease) : content'[lease[l].key] = content[lease[l].key],
         epoch' = epoch => \A k \in Keys : content[k] # None => content'[k] = content[k]
  PROVE  TypeOK' /\ IInv'
<1>1. TypeOK' BY DEF TypeOK
<1>2. Asked(lease', content') BY DEF IInv, Asked, Out
<1>3. ASSUME cache # None PROVE Good(cache)'
  <2>1. Good(cache) BY <1>3 DEF IInv
  <2>2. Lent(cache, lease, content') BY <2>1 DEF Good, Lent, Cached
  <2>3. Fresh(cache, content', epoch')
    <3>1. cache.epoch \in Nat /\ epoch \in Nat /\ epoch' \in Nat BY <2>1 DEF Good, Sound, CacheType, TypeOK
    <3>2. cache.epoch <= epoch' BY <2>1, <3>1 DEF Good, Fresh
    <3>3. ASSUME cache.epoch = epoch', NEW s \in Occupied(cache)
          PROVE  /\ cache.entry[s].plan = content'[cache.entry[s].key]
                 /\ cache.entry[s].plan # None
      <4>1. epoch' = epoch BY <2>1, <3>1, <3>3 DEF Good, Fresh
      <4>2. cache.entry[s].key \in Keys BY <2>1 DEF Good, Sound, Linked
      <4> QED BY <2>1, <3>3, <4>1, <4>2 DEF Good, Fresh
    <3> QED BY <3>2, <3>3 DEF Fresh
  <2> QED BY <2>1, <2>2, <2>3 DEF Good
<1> QED BY <1>1, <1>2, <1>3 DEF IInv

LEMMA InvInit == Init => TypeOK /\ IInv
<1> SUFFICES ASSUME Init PROVE TypeOK /\ IInv OBVIOUS
<1>1. Inactive \in LeaseType /\ ~ Inactive.active
  <2>1. 0 \in 0..MaxInserts BY CacheAssumption
  <2> QED BY <2>1 DEF Inactive, LeaseType, Link
<1>2. TypeOK
  <2>1. 0 \in 0..MaxEpoch BY CacheAssumption
  <2> QED BY <1>1, <2>1, CacheAssumption DEF Init, TypeOK
<1>3. Out(lease) = {} BY <1>1 DEF Init, Out
<1>4. Asked(lease, content) BY <1>3 DEF Asked
<1> QED BY <1>2, <1>3, <1>4 DEF Init, IInv

LEMMA InvStep == TypeOK /\ IInv /\ [Next]_vars => TypeOK' /\ IInv'
<1> SUFFICES ASSUME TypeOK, IInv, [Next]_vars PROVE TypeOK' /\ IInv' OBVIOUS
<1>0. epoch \in Nat /\ MaxEpoch \in Nat BY CacheAssumption DEF TypeOK
<1>1. ASSUME NEW l \in Leases, Release(l) PROVE TypeOK' /\ IInv' BY <1>1, ReleaseStep
<1>2. ASSUME NEW l \in Leases, NEW k \in Keys, Acquire(l, k) PROVE TypeOK' /\ IInv'
  BY <1>2, AcquireStep
<1>3. CASE Flush
  <2>1. Out(lease) = {}
    <3>1. Cardinality(Out(lease)) = 0 BY <1>3 DEF Flush, IInv, Good, Pinned
    <3> QED BY <3>1, OutFacts, FS_EmptySet
  <2> QED BY <1>3, <2>1 DEF Flush, TypeOK, IInv, Asked
<1>4. ASSUME NEW k \in Keys, NEW p \in Patterns, Build(k, p) PROVE TypeOK' /\ IInv'
  <2>1. /\ UNCHANGED <<cache, lease, loose, epoch>> /\ content' = [content EXCEPT ![k] = p]
        /\ content[k] = None
    BY <1>4 DEF Build
  <2>2. content' \in [Keys -> Patterns \cup {None}] BY <2>1 DEF TypeOK
  <2>3. \A j \in Keys : content[j] # None => content'[j] = content[j] BY <2>1 DEF TypeOK
  <2>4. \A l \in Out(lease) : content'[lease[l].key] = content[lease[l].key]
    BY <2>3 DEF IInv, Asked
  <2> QED BY <1>0, <2>1, <2>2, <2>3, <2>4, PoolStep DEF TypeOK
<1>5. ASSUME NEW p \in Patterns, PromoteStrings(p) PROVE TypeOK' /\ IInv'
  BY <1>0, <1>5, PoolStep DEF PromoteStrings, TypeOK
<1>6. ASSUME NEW gone \in SUBSET (Keys \ Rooted), ReleaseLevel(gone) PROVE TypeOK' /\ IInv'
  <2>1. /\ UNCHANGED <<cache, lease, loose>> /\ epoch' = epoch + 1 /\ epoch < MaxEpoch
        /\ content' = [k \in Keys |-> IF k \in gone THEN None ELSE content[k]]
        /\ \A l \in Leases : lease[l].active => lease[l].key \notin gone
    BY <1>6 DEF ReleaseLevel
  <2>2. content' \in [Keys -> Patterns \cup {None}] BY <2>1 DEF TypeOK
  <2>3. \A l \in Out(lease) : content'[lease[l].key] = content[lease[l].key]
    BY <2>1 DEF IInv, Asked, Out
  <2>4. epoch' \in 0..MaxEpoch /\ epoch' >= epoch /\ epoch' # epoch BY <1>0, <2>1
  <2> QED BY <2>1, <2>2, <2>3, <2>4, PoolStep DEF TypeOK
<1>7. CASE UNCHANGED vars BY <1>7 DEF vars, TypeOK, IInv, Good
<1> QED BY <1>1, <1>2, <1>3, <1>4, <1>5, <1>6, <1>7 DEF Next

LEMMA Invariant == Spec => [](TypeOK /\ IInv)
BY InvInit, InvStep, PTL DEF Spec

(* The records of the cache and of its leases keep their types.             *)
THEOREM TypesHold == Spec => []TypeOK
BY Invariant, PTL

(* A lease runs the plan of the pattern it was asked for, although pools    *)
(* give addresses the cache knows to other patterns (MatchLease.plan,       *)
(* src/lib/match-cache.x:316).                                              *)
THEOREM LeasesRunTheirPattern == Spec => []LendsItsPattern
<1>1. TypeOK /\ IInv => LendsItsPattern
  <2> SUFFICES ASSUME TypeOK, IInv, NEW l \in Leases, lease[l].active
               PROVE  Plan(l) = content[lease[l].key]
    BY DEF LendsItsPattern
  <2>1. l \in Out(lease) BY DEF Out
  <2>2. CASE lease[l].transient # None BY <2>1, <2>2 DEF Plan, IInv, Asked
  <2>3. CASE lease[l].transient = None
    <3>1. l \in Cached(lease) /\ cache # None BY <2>1, <2>3 DEF Cached, IInv
    <3> QED BY <2>3, <3>1 DEF Plan, IInv, Good, Lent
  <2> QED BY <2>2, <2>3
<1> QED BY <1>1, Invariant, PTL

(* Every entry is in its bucket's chain, and nothing else is: the second    *)
(* assertion of _remove (src/lib/match-cache.x:265) never fires.            *)
THEOREM ChainsAreExact == Spec => []ChainsHoldEntries
<1>1. TypeOK /\ IInv => ChainsHoldEntries
  <2> SUFFICES ASSUME TypeOK, IInv, cache # None, NEW b \in Buckets
               PROVE  Chain(cache, b) = {s \in Slots : /\ cache.entry[s].occupied
                                                      /\ BucketOf[cache.entry[s].key] = b}
    BY DEF ChainsHoldEntries
  <2>1. Sound(cache) BY DEF IInv, Good
  <2>2. Chain(cache, b) = {s \in Occupied(cache) : Place(cache.entry, s) = b}
    BY <2>1, ChainIsBucket DEF Sound
  <2> QED BY <2>2 DEF Occupied, Place
<1> QED BY <1>1, Invariant, PTL
-----------------------------------------------------------------------------
(* The order of the ring *)

(* q lists the slots O from the head on, along the links. *)
Order(O, e, h, q) ==
  /\ q \in Seq(O)
  /\ \A s \in O : \E i \in 1..Len(q) : q[i] = s
  /\ \A i, j \in 1..Len(q) : q[i] = q[j] => i = j
  /\ q # <<>> => h = q[1]
  /\ \A i \in 1..Len(q) : e[q[i]].next = q[IF i = Len(q) THEN 1 ELSE i + 1]

LEMMA Removed ==
  ASSUME NEW S, NEW q \in Seq(S), NEW i \in 1..Len(q)
  PROVE  /\ Len(q) \in Nat \ {0} /\ RemoveAt(q, i) \in Seq(S) /\ Len(RemoveAt(q, i)) = Len(q) - 1
         /\ \A j \in 1 .. Len(q) - 1 : RemoveAt(q, i)[j] = IF j < i THEN q[j] ELSE q[j + 1]
<1> DEFINE a == SubSeq(q, 1, i - 1)
           b == SubSeq(q, i + 1, Len(q))
<1>1. Len(q) \in Nat \ {0} /\ i \in Nat \ {0} /\ i <= Len(q) OBVIOUS
<1>2. a \in Seq(S) /\ Len(a) = i - 1 /\ \A j \in 1 .. i - 1 : a[j] = q[j] BY <1>1
<1>3. b \in Seq(S) /\ Len(b) = Len(q) - i /\ \A j \in 1 .. Len(q) - i : b[j] = q[j + i] BY <1>1
<1>4. RemoveAt(q, i) = a \o b BY DEF RemoveAt
<1> HIDE DEF a, b
<1>5. a \o b \in Seq(S) /\ Len(a \o b) = Len(q) - 1
  <2>1. a \in Seq(S) /\ b \in Seq(S) BY <1>2, <1>3
  <2>2. a \o b \in Seq(S) /\ Len(a \o b) = Len(a) + Len(b) BY ONLY <2>1
  <2>3. Len(a \o b) = (i - 1) + (Len(q) - i) BY <1>2, <1>3, <2>2
  <2> QED BY ONLY <1>1, <2>2, <2>3
<1>6. ASSUME NEW j \in 1 .. Len(q) - 1 PROVE (a \o b)[j] = IF j < i THEN q[j] ELSE q[j + 1]
  <2>1. CASE j < i
    <3>1. j \in 1 .. i - 1 BY <1>1, <2>1
    <3> QED BY <1>1, <1>2, <1>3, <2>1, <3>1
  <2>2. CASE ~ (j < i)
    <3>1. j - (i - 1) \in 1 .. Len(q) - i BY <1>1, <2>2
    <3>2. (a \o b)[j] = b[j - (i - 1)] BY <1>1, <1>2, <1>3, <2>2, <3>1
    <3>3. b[j - (i - 1)] = q[j - (i - 1) + i] BY <1>3, <3>1
    <3>4. j - (i - 1) + i = j + 1 BY <1>1
    <3> QED BY <2>2, <3>2, <3>3, <3>4
  <2> QED BY <2>1, <2>2
<1> QED BY <1>1, <1>4, <1>5, <1>6

LEMMA Prefixed ==
  ASSUME NEW S, NEW q \in Seq(S), NEW x \in S
  PROVE  /\ <<x>> \o q \in Seq(S) /\ Len(<<x>> \o q) = Len(q) + 1 /\ Len(q) \in Nat
         /\ (<<x>> \o q)[1] = x /\ \A j \in 1..Len(q) : (<<x>> \o q)[j + 1] = q[j]
OBVIOUS

LEMMA OrderPrev ==
  ASSUME NEW O, NEW e, NEW h, NEW q, Ring(O, e, h), Order(O, e, h, q)
  PROVE  \A i \in 1..Len(q) : e[q[i]].prev = q[IF i = 1 THEN Len(q) ELSE i - 1]
<1> SUFFICES ASSUME NEW i \in 1..Len(q) PROVE e[q[i]].prev = q[IF i = 1 THEN Len(q) ELSE i - 1]
  OBVIOUS
<1>1. Len(q) \in Nat \ {0} /\ \A j \in 1..Len(q) : q[j] \in O BY DEF Order
<1> DEFINE j == IF i = 1 THEN Len(q) ELSE i - 1
<1>2. j \in 1..Len(q) /\ (IF j = Len(q) THEN 1 ELSE j + 1) = i BY <1>1
<1> HIDE DEF j
<1>3. e[q[j]].next = q[i] BY <1>2 DEF Order
<1>4. e[e[q[j]].next].prev = q[j] BY <1>1, <1>2 DEF Ring
<1> QED BY <1>3, <1>4 DEF j

(* Taking an entry out of the ring takes it out of the list. *)
LEMMA UnlinkOrder ==
  ASSUME NEW c \in CacheType, NEW O \in SUBSET Slots, Ring(O, c.entry, c.head),
         NEW q, Order(O, c.entry, c.head, q), NEW i \in 1..Len(q)
  PROVE  LET d == Unlink(c, q[i])
         IN Order(O \ {q[i]}, d.entry, d.head, RemoveAt(q, i))
<1> DEFINE s == q[i]
           d == Unlink(c, s)
           e == c.entry
           f == d.entry
           p == e[s].prev
           n == e[s].next
           r == RemoveAt(q, i)
           m == Len(q)
<1>1. q \in Seq(O) /\ m \in Nat \ {0} /\ i \in 1..m /\ \A j \in 1..m : q[j] \in O BY DEF Order
<1>2. \A j, k \in 1..m : q[j] = q[k] => j = k BY DEF Order
<1>3. s \in Slots BY <1>1
<1>4. \A t \in O : f[t].next = IF t = p THEN n ELSE e[t].next BY <1>3, UnlinkFacts
<1>5. d.head = IF c.head # s THEN c.head ELSE IF n = s THEN -1 ELSE n BY <1>3, UnlinkFacts
<1>6. n = q[IF i = m THEN 1 ELSE i + 1] BY DEF Order
<1>7. p = q[IF i = 1 THEN m ELSE i - 1] BY OrderPrev
<1>8. \A j \in 1..m : e[q[j]].next = q[IF j = m THEN 1 ELSE j + 1] BY DEF Order
<1>9. r \in Seq(O) /\ Len(r) = m - 1 /\ \A j \in 1 .. m - 1 : r[j] = IF j < i THEN q[j] ELSE q[j + 1]
  BY <1>1, Removed
<1>10. c.head = q[1] BY <1>1 DEF Order
<1>11. \A t \in O : \E j \in 1..m : q[j] = t BY DEF Order
<1>12. s = q[i] OBVIOUS
<1> HIDE DEF s, d, f, e, p, n, r, m
<1>13. ASSUME NEW j \in 1 .. m - 1
       PROVE  \E k \in 1..m : k # i /\ r[j] = q[k] /\ k = IF j < i THEN j ELSE j + 1
  BY <1>1, <1>9
<1>14. \A j \in 1 .. m - 1 : r[j] \in O \ {s} BY <1>1, <1>2, <1>12, <1>13
<1>15. r \in Seq(O \ {s})
  <2>1. r \in [1..Len(r) -> O] /\ Len(r) \in Nat BY <1>9
  <2>2. r \in [1..Len(r) -> O \ {s}] BY <1>9, <1>14, <2>1
  <2> QED BY <2>1, <2>2
<1>16. ASSUME NEW t \in O \ {s} PROVE \E j \in 1 .. m - 1 : r[j] = t
  <2>1. PICK k \in 1..m : q[k] = t BY <1>11
  <2>2. k # i BY <1>12, <2>1
  <2>3. CASE k < i
    <3>1. k \in 1 .. m - 1 /\ r[k] = q[k] BY <1>1, <1>9, <2>3
    <3> QED BY <2>1, <3>1
  <2>4. CASE k > i
    <3>1. k - 1 \in 1 .. m - 1 /\ ~ (k - 1 < i) /\ k - 1 + 1 = k BY <1>1, <2>4
    <3>2. r[k - 1] = q[k] BY <1>9, <3>1
    <3> QED BY <2>1, <3>1, <3>2
  <2> QED BY <1>1, <2>1, <2>2, <2>3, <2>4
<1>17. \A j, k \in 1 .. m - 1 : r[j] = r[k] => j = k
  <2> SUFFICES ASSUME NEW j \in 1 .. m - 1, NEW k \in 1 .. m - 1, r[j] = r[k] PROVE j = k OBVIOUS
  <2>1. PICK x \in 1..m : r[j] = q[x] /\ x = IF j < i THEN j ELSE j + 1 BY <1>13
  <2>2. PICK y \in 1..m : r[k] = q[y] /\ y = IF k < i THEN k ELSE k + 1 BY <1>13
  <2>3. x = y BY <1>2, <2>1, <2>2
  <2> QED BY ONLY <1>1, <2>1, <2>2, <2>3, j \in 1 .. m - 1, k \in 1 .. m - 1
<1>18. m > 1 => d.head = r[1]
  <2> SUFFICES ASSUME m > 1 PROVE d.head = r[1] OBVIOUS
  <2>1. CASE i = 1
    <3>1. n = q[2] /\ r[1] = q[2] BY <1>1, <1>6, <1>9, <2>1
    <3>2. c.head = s /\ n # s BY <1>1, <1>2, <1>10, <1>12, <2>1, <3>1
    <3> QED BY <1>5, <3>1, <3>2
  <2>2. CASE i # 1
    <3>1. r[1] = q[1] BY <1>1, <1>9, <2>2
    <3>2. q[1] # s BY <1>1, <1>2, <1>12, <2>2
    <3> QED BY <1>5, <1>10, <3>1, <3>2
  <2> QED BY <2>1, <2>2
<1>19. ASSUME NEW j \in 1 .. m - 1
       PROVE  f[r[j]].next = r[IF j = m - 1 THEN 1 ELSE j + 1]
  <2>1. f[r[j]].next = IF r[j] = p THEN n ELSE e[r[j]].next BY <1>4, <1>14
  <2>2. CASE j < i
    <3>1. r[j] = q[j] /\ j \in 1..m BY <1>1, <1>9, <2>2
    <3>2. CASE j = i - 1
      <4>1. r[j] = p BY <1>1, <1>7, <3>1, <3>2
      <4>2. CASE i = m
        <5>1. n = q[1] /\ r[1] = q[1] /\ j = m - 1 BY <1>1, <1>6, <1>9, <2>2, <3>2, <4>2
        <5> QED BY <2>1, <4>1, <5>1
      <4>3. CASE i # m
        <5>1. n = q[i + 1] /\ r[i] = q[i + 1] /\ j # m - 1 /\ j + 1 = i
          BY <1>1, <1>6, <1>9, <2>2, <3>2, <4>3
        <5> QED BY <2>1, <4>1, <5>1
      <4> QED BY <4>2, <4>3
    <3>3. CASE j # i - 1
      <4>1. r[j] # p
        <5>1. (IF i = 1 THEN m ELSE i - 1) \in 1..m /\ (IF i = 1 THEN m ELSE i - 1) # j
          BY <1>1, <2>2, <3>3
        <5> QED BY <1>2, <1>7, <3>1, <5>1
      <4>2. e[q[j]].next = q[j + 1] BY <1>1, <1>8, <2>2, <3>1
      <4>3. j # m - 1 /\ j + 1 \in 1 .. m - 1 /\ j + 1 < i BY <1>1, <2>2, <3>3
      <4>4. r[j + 1] = q[j + 1] BY <1>9, <4>3
      <4> QED BY <2>1, <3>1, <4>1, <4>2, <4>3, <4>4
    <3> QED BY <3>2, <3>3
  <2>3. CASE ~ (j < i)
    <3>1. r[j] = q[j + 1] /\ j + 1 \in 1..m BY <1>1, <1>9, <2>3
    <3>2. CASE j = m - 1 /\ i = 1
      <4>1. r[j] = p /\ n = q[2] /\ r[1] = q[2] BY <1>1, <1>6, <1>7, <1>9, <3>1, <3>2
      <4> QED BY <2>1, <3>2, <4>1
    <3>3. CASE j = m - 1 /\ i # 1
      <4>1. r[j] # p
        <5>1. p = q[i - 1] /\ i - 1 \in 1..m /\ i - 1 # j + 1 BY <1>1, <1>7, <2>3, <3>3
        <5> QED BY <1>2, <3>1, <5>1
      <4>2. e[q[j + 1]].next = q[1] /\ r[1] = q[1] BY <1>1, <1>8, <1>9, <3>1, <3>3
      <4> QED BY <2>1, <3>1, <3>3, <4>1, <4>2
    <3>4. CASE j # m - 1
      <4>1. r[j] # p
        <5>1. (IF i = 1 THEN m ELSE i - 1) \in 1..m /\ (IF i = 1 THEN m ELSE i - 1) # j + 1
          BY <1>1, <2>3, <3>4
        <5> QED BY <1>2, <1>7, <3>1, <5>1
      <4>2. e[q[j + 1]].next = q[j + 1 + 1] BY <1>1, <1>8, <3>1, <3>4
      <4>3. j + 1 \in 1 .. m - 1 /\ ~ (j + 1 < i) BY <1>1, <2>3, <3>4
      <4>4. r[j + 1] = q[j + 1 + 1] BY <1>9, <4>3
      <4> QED BY <2>1, <3>1, <3>4, <4>1, <4>2, <4>4
    <3> QED BY <3>2, <3>3, <3>4
  <2> QED BY <2>2, <2>3
<1>20. Len(r) = m - 1 /\ (r # <<>> => m > 1) BY <1>1, <1>9
<1>21. Order(O \ {s}, f, d.head, r) BY ONLY <1>15, <1>16, <1>17, <1>18, <1>19, <1>20 DEF Order
<1> QED BY <1>21 DEF s, d, f, r

(* An entry linked in comes first. *)
LEMMA LinkOrder ==
  ASSUME NEW c \in CacheType, NEW O \in SUBSET Slots, Ring(O, c.entry, c.head),
         NEW q, Order(O, c.entry, c.head, q), NEW s \in Slots \ O
  PROVE  LET d == LinkMru(c, s)
         IN Order(O \cup {s}, d.entry, d.head, <<s>> \o q)
<1> DEFINE d == LinkMru(c, s)
           e == c.entry
           f == d.entry
           h == c.head
           a == IF h < 0 THEN s ELSE h
           p == IF h < 0 THEN s ELSE e[h].prev
           r == <<s>> \o q
           m == Len(q)
<1>1. q \in Seq(O) /\ m \in Nat /\ \A j \in 1..m : q[j] \in O BY DEF Order
<1>2. \A j, k \in 1..m : q[j] = q[k] => j = k BY DEF Order
<1>3. \A t \in Slots : f[t].next = IF t = p THEN s ELSE IF t = s THEN a ELSE e[t].next
  BY LinkMruFacts
<1>4. d.head = s BY LinkMruFacts
<1>5. \A j \in 1..m : e[q[j]].next = q[IF j = m THEN 1 ELSE j + 1] BY DEF Order
<1>6. /\ r \in Seq(O \cup {s}) /\ Len(r) = m + 1 /\ r[1] = s
      /\ \A j \in 1..m : r[j + 1] = q[j]
  <2>1. q \in Seq(O \cup {s}) BY <1>1
  <2> QED BY <2>1, Prefixed
<1>7. \A t \in O : \E j \in 1..m : q[j] = t BY DEF Order
<1>8. s \notin O /\ O \subseteq Slots /\ s \in Slots /\ -1 \notin O /\ O \subseteq Nat BY SlotFacts
<1>9. m > 0 => h = q[1] /\ ~ (h < 0) /\ e[h].prev = q[m]
  <2> SUFFICES ASSUME m > 0 PROVE h = q[1] /\ ~ (h < 0) /\ e[h].prev = q[m] OBVIOUS
  <2>1. h = q[1] /\ 1 \in 1..m BY <1>1 DEF Order
  <2>2. e[q[1]].prev = q[m] BY <2>1, OrderPrev
  <2>3. q[1] \in Nat BY <1>1, <1>8, <2>1
  <2> HIDE DEF h
  <2> QED BY <2>1, <2>2, <2>3
<1>10. m = 0 => h = -1
  <2>1. m = 0 => O = {} BY <1>7
  <2> QED BY <2>1 DEF Ring
<1>11. m > 0 => a = q[1] /\ p = q[m] BY <1>9
<1>12. m = 0 => p = s BY <1>10
<1> HIDE DEF d, e, f, h, a, p, r, m
<1>13. ASSUME NEW t \in O \cup {s} PROVE \E j \in 1 .. m + 1 : r[j] = t
  <2>1. CASE t = s
    <3>1. 1 \in 1 .. m + 1 BY <1>1
    <3> QED BY <1>6, <2>1, <3>1
  <2>2. CASE t # s
    <3>1. PICK j \in 1..m : q[j] = t BY <1>7, <2>2
    <3>2. j + 1 \in 1 .. m + 1 BY <1>1
    <3> QED BY <1>6, <3>1, <3>2
  <2> QED BY <2>1, <2>2
<1>14. ASSUME NEW j \in 1 .. m + 1
       PROVE  (j = 1 /\ r[j] = s) \/ (j > 1 /\ j - 1 \in 1..m /\ r[j] = q[j - 1] /\ r[j] \in O)
  <2>1. CASE j = 1 BY <1>6, <2>1
  <2>2. CASE j # 1
    <3>1. j - 1 \in 1..m /\ j - 1 + 1 = j /\ j > 1 BY <1>1, <2>2
    <3>2. r[j] = q[j - 1] BY <1>6, <3>1
    <3> QED BY <1>1, <3>1, <3>2
  <2> QED BY <2>1, <2>2
<1>15. \A j, k \in 1 .. m + 1 : r[j] = r[k] => j = k
  <2> SUFFICES ASSUME NEW j \in 1 .. m + 1, NEW k \in 1 .. m + 1, r[j] = r[k] PROVE j = k OBVIOUS
  <2>1. (j = 1 /\ r[j] = s) \/ (j > 1 /\ j - 1 \in 1..m /\ r[j] = q[j - 1] /\ r[j] \in O) BY <1>14
  <2>2. (k = 1 /\ r[k] = s) \/ (k > 1 /\ k - 1 \in 1..m /\ r[k] = q[k - 1] /\ r[k] \in O) BY <1>14
  <2>3. j > 1 /\ k > 1 => j - 1 = k - 1 BY <1>2, <1>8, <2>1, <2>2
  <2> QED BY ONLY <1>1, <1>8, <2>1, <2>2, <2>3, r[j] = r[k], j \in 1 .. m + 1, k \in 1 .. m + 1
<1>16. ASSUME NEW j \in 1 .. m + 1 PROVE f[r[j]].next = r[IF j = m + 1 THEN 1 ELSE j + 1]
  <2>0. f[r[j]].next = IF r[j] = p THEN s ELSE IF r[j] = s THEN a ELSE e[r[j]].next
    BY <1>3, <1>8, <1>14
  <2>1. CASE m = 0
    <3>1. r[j] = p /\ j = m + 1 BY <1>12, <1>14, <2>1
    <3> QED BY <1>6, <2>0, <3>1
  <2>2. CASE m > 0
    <3>1. q[1] \in O /\ q[m] \in O /\ 1 \in 1..m /\ m \in 1..m BY <1>1, <2>2
    <3>2. CASE j = 1
      <4>1. r[j] = s /\ s # p BY <1>6, <1>8, <1>11, <2>2, <3>1, <3>2
      <4>2. r[2] = q[1] /\ j # m + 1
        <5>1. r[1 + 1] = q[1] BY <1>6, <3>1
        <5> QED BY <1>1, <2>2, <3>2, <5>1
      <4> QED BY <1>11, <2>0, <2>2, <3>2, <4>1, <4>2
    <3>3. CASE j = m + 1
      <4>1. r[j] = q[m] BY <1>6, <3>1, <3>3
      <4> QED BY <1>6, <1>11, <2>0, <2>2, <3>3, <4>1
    <3>4. CASE j # 1 /\ j # m + 1
      <4>1. j - 1 \in 1..m /\ r[j] = q[j - 1] /\ r[j] \in O BY <1>14, <3>4
      <4>2. j - 1 # m /\ j - 1 + 1 = j /\ j \in 1..m BY <1>1, <3>4
      <4>3. r[j] # p BY <1>2, <1>11, <2>2, <3>1, <4>1, <4>2
      <4>4. e[q[j - 1]].next = q[j] BY <1>5, <4>1, <4>2
      <4>5. r[j + 1] = q[j] BY <1>6, <4>2
      <4> QED BY <1>8, <2>0, <3>4, <4>1, <4>3, <4>4, <4>5
    <3> QED BY <3>2, <3>3, <3>4
  <2> QED BY <1>1, <2>1, <2>2
<1>17. Order(O \cup {s}, f, d.head, r) BY ONLY <1>4, <1>6, <1>13, <1>15, <1>16 DEF Order
<1> QED BY <1>17 DEF d, f, r
LEMMA SameOrder ==
  ASSUME NEW O, NEW e, NEW f, NEW h, NEW q, Order(O, e, h, q), \A t \in O : f[t].next = e[t].next
  PROVE  Order(O, f, h, q)
<1>1. \A i \in 1..Len(q) : q[i] \in O BY DEF Order
<1> QED BY <1>1 DEF Order

(* An entry lent comes first. *)
LEMMA TouchOrder ==
  ASSUME NEW c \in CacheType, NEW O \in SUBSET Slots, Ring(O, c.entry, c.head),
         NEW q, Order(O, c.entry, c.head, q), NEW i \in 1..Len(q)
  PROVE  LET d == Touch(c, q[i])
         IN Order(O, d.entry, d.head, <<q[i]>> \o RemoveAt(q, i))
<1> DEFINE s == q[i]
           d == Touch(c, s)
           e == c.entry
           r == <<s>> \o RemoveAt(q, i)
           m == Len(q)
<1>1. q \in Seq(O) /\ m \in Nat \ {0} /\ i \in 1..m /\ \A j \in 1..m : q[j] \in O BY DEF Order
<1>2. \A j, k \in 1..m : q[j] = q[k] => j = k BY DEF Order
<1>3. c.head = q[1] BY <1>1 DEF Order
<1>4. s \in O /\ s \in Slots BY <1>1
<1>5. CASE c.head = s
  <2>1. i = 1
    <3>1. q[1] = q[i] BY <1>3, <1>5
    <3>2. 1 \in 1..m BY <1>1
    <3> QED BY <1>1, <1>2, <3>1, <3>2
  <2>2. d = c BY <1>5 DEF Touch
  <2>3. r \in Seq(O) /\ Len(r) = m /\ \A j \in 1..m : r[j] = q[j]
    <3>1. /\ RemoveAt(q, i) \in Seq(O) /\ Len(RemoveAt(q, i)) = m - 1
          /\ \A j \in 1 .. m - 1 : RemoveAt(q, i)[j] = IF j < i THEN q[j] ELSE q[j + 1]
      BY <1>1, Removed
    <3>2. /\ r \in Seq(O) /\ Len(r) = m - 1 + 1 /\ r[1] = s
          /\ \A j \in 1 .. m - 1 : r[j + 1] = RemoveAt(q, i)[j]
      BY <1>4, <3>1, Prefixed
    <3>3. ASSUME NEW j \in 1..m PROVE r[j] = q[j]
      <4>1. CASE j = 1 BY <2>1, <3>2, <4>1
      <4>2. CASE j # 1
        <5>1. j - 1 \in 1 .. m - 1 /\ j - 1 + 1 = j /\ ~ (j - 1 < 1) BY <1>1, <4>2
        <5> HIDE DEF r
        <5> QED BY <2>1, <3>1, <3>2, <5>1
      <4> QED BY <4>1, <4>2
    <3> QED BY <1>1, <3>2, <3>3
  <2>4. r = q BY <1>1, <2>3, SeqEqual
  <2> QED BY <2>2, <2>4
<1>6. CASE c.head # s /\ e[c.head].prev = s
  <2>1. d = [c EXCEPT !.head = s] BY <1>6 DEF Touch
  <2>2. d.entry = e /\ d.head = s
    <3> HIDE DEF d, s
    <3> QED BY <2>1 DEF CacheType
  <2>3. i = m /\ m > 1
    <3>1. e[q[1]].prev = q[m] BY <1>1, OrderPrev
    <3> QED BY <1>1, <1>2, <1>3, <1>6, <3>1
  <2>4. /\ RemoveAt(q, i) \in Seq(O) /\ Len(RemoveAt(q, i)) = m - 1
        /\ \A j \in 1 .. m - 1 : RemoveAt(q, i)[j] = IF j < i THEN q[j] ELSE q[j + 1]
    BY <1>1, Removed
  <2>5. /\ r \in Seq(O) /\ Len(r) = m /\ r[1] = s /\ \A j \in 1 .. m - 1 : r[j + 1] = q[j]
    <3>1. /\ r \in Seq(O) /\ Len(r) = m - 1 + 1 /\ r[1] = s
          /\ \A j \in 1 .. m - 1 : r[j + 1] = RemoveAt(q, i)[j]
      BY <1>4, <2>4, Prefixed
    <3>2. \A j \in 1 .. m - 1 : j < i BY <1>1, <2>3
    <3> HIDE DEF r
    <3> QED BY <1>1, <2>4, <3>1, <3>2
  <2>6. \A j \in 1..m : e[q[j]].next = q[IF j = m THEN 1 ELSE j + 1] BY DEF Order
  <2>7. \A t \in O : \E j \in 1..m : q[j] = t BY DEF Order
  <2>8. s = q[m] BY <2>3
  <2> HIDE DEF r, s, d, e, m
  <2>9. ASSUME NEW j \in 1..m
        PROVE  r[j] = q[IF j = 1 THEN m ELSE j - 1] /\ (IF j = 1 THEN m ELSE j - 1) \in 1..m
    <3>1. CASE j = 1 BY <1>1, <2>5, <2>8, <3>1
    <3>2. CASE j # 1
      <4>1. j - 1 \in 1 .. m - 1 /\ j - 1 + 1 = j BY <1>1, <3>2
      <4> QED BY <1>1, <2>5, <3>2, <4>1
    <3> QED BY <3>1, <3>2
  <2>10. ASSUME NEW t \in O PROVE \E j \in 1..m : r[j] = t
    <3>1. PICK j \in 1..m : q[j] = t BY <2>7
    <3>2. CASE j = m
      <4>1. 1 \in 1..m BY <1>1
      <4> QED BY <2>5, <2>8, <3>1, <3>2, <4>1
    <3>3. CASE j # m
      <4>1. j \in 1 .. m - 1 /\ j + 1 \in 1..m BY <1>1, <3>3
      <4> QED BY <2>5, <3>1, <4>1
    <3> QED BY <3>2, <3>3
  <2>11. \A j, k \in 1..m : r[j] = r[k] => j = k
    <3> SUFFICES ASSUME NEW j \in 1..m, NEW k \in 1..m, r[j] = r[k] PROVE j = k OBVIOUS
    <3>1. (IF j = 1 THEN m ELSE j - 1) = (IF k = 1 THEN m ELSE k - 1) BY <1>2, <2>9
    <3> QED BY ONLY <1>1, <3>1, j \in 1..m, k \in 1..m
  <2>12. ASSUME NEW j \in 1..m PROVE e[r[j]].next = r[IF j = m THEN 1 ELSE j + 1]
    <3>1. CASE j = 1
      <4>1. r[j] = q[m] /\ e[q[m]].next = q[1] BY <1>1, <2>6, <2>9, <3>1
      <4>2. r[j + 1] = q[1] /\ j # m
        <5>1. 1 \in 1 .. m - 1 BY <1>1, <2>3
        <5>2. r[1 + 1] = q[1] BY <2>5, <5>1
        <5> QED BY <2>3, <3>1, <5>2
      <4> QED BY <4>1, <4>2
    <3>2. CASE j # 1
      <4>1. j - 1 \in 1..m /\ j - 1 # m /\ j - 1 + 1 = j BY <1>1, <3>2
      <4>2. r[j] = q[j - 1] /\ e[q[j - 1]].next = q[j] BY <2>6, <2>9, <3>2, <4>1
      <4>3. CASE j = m BY <2>5, <2>8, <4>2, <4>3
      <4>4. CASE j # m
        <5>1. j \in 1 .. m - 1 BY <1>1, <4>4
        <5> QED BY <2>5, <4>2, <4>4, <5>1
      <4> QED BY <4>3, <4>4
    <3> QED BY <3>1, <3>2
  <2>13. Order(O, e, s, r) BY ONLY <2>5, <2>10, <2>11, <2>12 DEF Order
  <2> QED BY <2>2, <2>13 DEF e, d, s, r
<1>7. CASE c.head # s /\ e[c.head].prev # s
  <2> DEFINE u == Unlink(c, s)
             w == LinkMru(u, s)
             x == RemoveAt(q, i)
  <2>1. d = w BY <1>7 DEF Touch
  <2>2. u \in CacheType BY <1>4, UnlinkFacts
  <2>3. Ring(O \ {s}, u.entry, u.head) BY <1>4, UnlinkRing
  <2>4. Order(O \ {s}, u.entry, u.head, x) BY UnlinkOrder
  <2>5. O \ {s} \in SUBSET Slots /\ s \in Slots \ (O \ {s}) BY <1>4
  <2> HIDE DEF u, s, x
  <2>6. Order((O \ {s}) \cup {s}, w.entry, w.head, <<s>> \o x) BY <2>2, <2>3, <2>4, <2>5, LinkOrder
  <2>7. (O \ {s}) \cup {s} = O BY <1>4
  <2> HIDE DEF w, d
  <2>8. Order(O, d.entry, d.head, <<s>> \o x) BY <2>1, <2>6, <2>7
  <2> QED BY <2>8 DEF d, s, x
<1> QED BY <1>5, <1>6, <1>7

LEMMA LeastIn ==
  ASSUME NEW S \in SUBSET Nat, S # {}
  PROVE  \E x \in S : \A y \in S : ~ (y < x)
<1>1. PICK x \in S : \A y \in S : ~ (<<y, x>> \in OpToRel(<, Nat))
  BY NatLessThanWellFounded, WFMin
<1>2. ASSUME NEW y \in S, y < x PROVE FALSE
  <2>1. <<y, x>> \in OpToRel(<, Nat) BY <1>2 DEF OpToRel
  <2> QED BY <1>1, <2>1
<1> QED BY <1>2

(* The walk from the head meets the slots in that order. *)
LEMMA ForwardIs ==
  ASSUME NEW c, c.size \in Nat, NEW O, NEW q, Order(O, c.entry, c.head, q), Len(q) = c.size
  PROVE  Forward(c) = q
<1> DEFINE n == c.size
           Walk(w) == w = [i \in 1..n |-> IF i = 1 THEN c.head ELSE c.entry[w[i - 1]].next]
           w == CHOOSE x : Walk(x)
<1>1. Forward(c) = w BY DEF Forward
<1>2. q \in Seq(O) /\ n \in Nat /\ Len(q) = n BY DEF Order
<1>3. \A i \in 1..n : q[i] = IF i = 1 THEN c.head ELSE c.entry[q[i - 1]].next
  <2> SUFFICES ASSUME NEW i \in 1..n PROVE q[i] = IF i = 1 THEN c.head ELSE c.entry[q[i - 1]].next
    OBVIOUS
  <2>1. CASE i = 1 BY <1>2, <2>1 DEF Order
  <2>2. CASE i # 1
    <3>1. i - 1 \in 1..n /\ i - 1 # n /\ i - 1 + 1 = i BY <1>2, <2>2
    <3>2. c.entry[q[i - 1]].next = q[i] BY <1>2, <3>1 DEF Order
    <3> QED BY <2>2, <3>2
  <2> QED BY <2>1, <2>2
<1>4. Walk(q)
  <2>1. q = [i \in 1..n |-> q[i]] BY <1>2
  <2> QED BY <1>3, <2>1
<1>5. Walk(w) BY <1>4
<1> HIDE DEF w
<1>6. DOMAIN w = 1..n /\ \A i \in 1..n : w[i] = IF i = 1 THEN c.head ELSE c.entry[w[i - 1]].next
  BY <1>5
<1> HIDE DEF Walk, n
<1>7. \A i \in 1..n : w[i] = q[i]
  <2> DEFINE S == {i \in 1..n : w[i] # q[i]}
  <2> SUFFICES ASSUME S # {} PROVE FALSE OBVIOUS
  <2>1. S \in SUBSET Nat BY <1>2
  <2>2. PICK i \in S : \A j \in S : ~ (j < i) BY <2>1, LeastIn
  <2>3. i \in 1..n /\ w[i] # q[i] OBVIOUS
  <2>4. i # 1 BY <1>3, <1>6, <2>3
  <2>5. i - 1 \in 1..n /\ i - 1 < i BY <1>2, <2>3, <2>4
  <2>6. w[i - 1] = q[i - 1] BY <2>2, <2>5
  <2> QED BY <1>3, <1>6, <2>3, <2>4, <2>6
<1>8. w = q
  <2>1. DOMAIN q = 1..n /\ q = [i \in DOMAIN q |-> q[i]] BY <1>2
  <2>2. w = [i \in DOMAIN w |-> w[i]] BY <1>5 DEF Walk
  <2> QED BY <1>6, <1>7, <2>1, <2>2
<1> QED BY <1>1, <1>8

-----------------------------------------------------------------------------
(* The cache keeps the promise of PlanCache.                                *)

(* The links list every entry once, and no key has two.                     *)
Lists(c, q) == Len(q) = c.size /\ Order(Occupied(c), c.entry, c.head, q)
Single(c) == \A s, t \in Occupied(c) : c.entry[s].key = c.entry[t].key => s = t
Listed(c) == (\E q : Lists(c, q)) /\ Single(c)

KeyList(c, q) == [i \in 1..Len(q) |-> c.entry[q[i]].key]

LInv == cache # None => Listed(cache)

(* The keys of c, the most recent first, are x. *)
Kept(c, q, x) == Lists(c, q) /\ Single(c) /\ KeyList(c, q) = x

LEMMA RecentIs ==
  ASSUME NEW c \in CacheType, NEW q, Lists(c, q)
  PROVE  [i \in 1 .. c.size |-> c.entry[Forward(c)[i]].key] = KeyList(c, q)
<1>1. c.size \in Nat BY DEF CacheType
<1>2. Forward(c) = q BY <1>1, ForwardIs DEF Lists
<1> QED BY <1>2 DEF KeyList, Lists

LEMMA KeysOf ==
  ASSUME NEW c, Sound(c), NEW q, Lists(c, q)
  PROVE  /\ q \in Seq(Occupied(c)) /\ KeyList(c, q) \in Seq(Keys) /\ Len(KeyList(c, q)) = Len(q)
         /\ Len(q) \in Nat /\ \A i \in 1..Len(q) : KeyList(c, q)[i] = c.entry[q[i]].key
<1>1. q \in Seq(Occupied(c)) /\ Len(q) \in Nat /\ \A i \in 1..Len(q) : q[i] \in Occupied(c)
  BY DEF Lists, Order
<1>2. \A s \in Occupied(c) : c.entry[s].key \in Keys BY DEF Sound, Linked
<1>3. KeyList(c, q) \in [1..Len(q) -> Keys] BY <1>1, <1>2 DEF KeyList
<1>4. KeyList(c, q) \in Seq(Keys) /\ Len(KeyList(c, q)) = Len(q) BY <1>1, <1>3
<1> QED BY <1>1, <1>4 DEF KeyList

Same(x, y) == x = y
SameKeys(O, d, c) == \A t \in O : d.entry[t].key = c.entry[t].key

(* The keys of a list with an entry moved, taken out or put first. *)
LEMMA KeysRemoved ==
  ASSUME NEW c, NEW d, NEW O, NEW q, Order(O, c.entry, c.head, q), NEW i \in 1..Len(q),
         SameKeys(O \ {q[i]}, d, c)
  PROVE  Same(KeyList(d, RemoveAt(q, i)), RemoveAt(KeyList(c, q), i))
<1> DEFINE K == {c.entry[q[j]].key : j \in 1..Len(q)}
           x == KeyList(c, q)
           r == RemoveAt(q, i)
           y == KeyList(d, r)
           m == Len(q)
<1>0. q \in Seq(O) /\ \A j \in 1..Len(q) : q[j] \in O /\ (j # i => q[j] # q[i])
  <2>1. q \in Seq(O) /\ \A j, k \in 1..Len(q) : q[j] = q[k] => j = k BY DEF Order
  <2> QED BY <2>1
<1>1. m \in Nat \ {0} /\ i \in 1..m BY <1>0
<1>2. r \in Seq(O) /\ Len(r) = m - 1 /\ \A j \in 1 .. m - 1 : r[j] = IF j < i THEN q[j] ELSE q[j + 1]
  BY <1>0, Removed
<1>3. x \in Seq(K) /\ Len(x) = m /\ \A j \in 1..m : x[j] = c.entry[q[j]].key
  <2>1. x \in [1..m -> K] BY DEF KeyList
  <2> HIDE DEF K
  <2> QED BY <1>1, <2>1 DEF KeyList
<1>5. /\ RemoveAt(x, i) \in Seq(K) /\ Len(RemoveAt(x, i)) = m - 1
      /\ \A j \in 1 .. m - 1 : RemoveAt(x, i)[j] = IF j < i THEN x[j] ELSE x[j + 1]
  <2> HIDE DEF K, x, m
  <2>1. i \in 1..Len(x) BY <1>1, <1>3
  <2> QED BY <1>3, <2>1, Removed
<1>6. \A j \in 1 .. m - 1 : y[j] = d.entry[r[j]].key /\ Len(r) = m - 1 BY <1>2 DEF KeyList
<1> HIDE DEF x, r, K, m
<1>7. ASSUME NEW j \in 1 .. m - 1 PROVE y[j] = RemoveAt(x, i)[j] /\ y[j] \in K
  <2> DEFINE k == IF j < i THEN j ELSE j + 1
  <2>1. k \in 1..m /\ k # i BY <1>1
  <2>2. r[j] = q[k] /\ RemoveAt(x, i)[j] = x[k] BY <1>2, <1>5
  <2> HIDE DEF k
  <2>3. d.entry[q[k]].key = c.entry[q[k]].key /\ x[k] = c.entry[q[k]].key
    BY <1>0, <1>3, <2>1 DEF m, SameKeys
  <2> QED BY <1>6, <2>1, <2>2, <2>3 DEF K, m
<1>8. y \in Seq(K) /\ Len(y) = m - 1
  <2>1. y = [j \in 1 .. m - 1 |-> y[j]] BY <1>2 DEF KeyList
  <2> HIDE DEF y
  <2>2. y \in [1 .. m - 1 -> K] BY <1>7, <2>1
  <2> QED BY <1>1, <2>2
<1> HIDE DEF y
<1>9. y = RemoveAt(x, i) BY ONLY <1>1, <1>5, <1>7, <1>8, SeqEqual
<1> QED BY <1>9 DEF y, r, x, Same

LEMMA KeysFirst ==
  ASSUME NEW c, NEW d, NEW O, NEW S, NEW q \in Seq(O), NEW s \in S,
         SameKeys(O, d, c)
  PROVE  Same(KeyList(d, <<s>> \o q), <<d.entry[s].key>> \o KeyList(c, q))
<1> DEFINE K == {c.entry[q[j]].key : j \in 1..Len(q)} \cup {d.entry[s].key}
           x == KeyList(c, q)
           r == <<s>> \o q
           y == KeyList(d, r)
           z == <<d.entry[s].key>> \o x
           m == Len(q)
<1>1. m \in Nat /\ q \in Seq(O \cup {s})
  <2>1. q \in Seq(O \cup {s}) OBVIOUS
  <2> QED BY <2>1
<1>2. r \in Seq(O \cup {s}) /\ Len(r) = m + 1 /\ r[1] = s /\ \A j \in 1..m : r[j + 1] = q[j]
  BY <1>1, Prefixed
<1>3. x \in Seq(K) /\ Len(x) = m /\ \A j \in 1..m : x[j] = c.entry[q[j]].key
  <2>1. x \in [1..m -> K] BY DEF KeyList
  <2> HIDE DEF K
  <2> QED BY <1>1, <2>1 DEF KeyList
<1>4. d.entry[s].key \in K OBVIOUS
<1>5. z \in Seq(K) /\ Len(z) = m + 1 /\ z[1] = d.entry[s].key /\ \A j \in 1..m : z[j + 1] = x[j]
  <2> HIDE DEF K, x, m
  <2> QED BY <1>3, <1>4, Prefixed
<1>6. \A j \in 1 .. m + 1 : y[j] = d.entry[r[j]].key BY <1>2 DEF KeyList
<1>7. y = [j \in 1 .. m + 1 |-> y[j]] BY <1>2 DEF KeyList
<1> HIDE DEF x, r, z, y, m
<1>8. ASSUME NEW j \in 1 .. m + 1 PROVE y[j] = z[j] /\ z[j] \in K
  <2>1. CASE j = 1 BY <1>2, <1>4, <1>5, <1>6, <2>1
  <2>2. CASE j # 1
    <3>1. j - 1 \in 1..m /\ j - 1 + 1 = j BY <1>1, <2>2
    <3>2. r[j] = q[j - 1] /\ z[j] = x[j - 1] BY <1>2, <1>5, <3>1
    <3>3. d.entry[q[j - 1]].key = c.entry[q[j - 1]].key /\ x[j - 1] = c.entry[q[j - 1]].key
      BY <1>3, <3>1 DEF m, SameKeys
    <3> QED BY <1>6, <3>1, <3>2, <3>3 DEF m
  <2> QED BY <2>1, <2>2
<1> HIDE DEF K
<1>9. y \in Seq(K) /\ Len(y) = m + 1
  <2>1. y \in [1 .. m + 1 -> K] BY <1>7, <1>8
  <2> QED BY <1>1, <2>1
<1>10. y = z BY ONLY <1>1, <1>5, <1>8, <1>9, SeqEqual
<1> QED BY <1>10 DEF y, r, z, x, Same

(* What an operation makes of the list, and of its keys. *)
LEMMA TouchLists ==
  ASSUME NEW c, Sound(c), Single(c), NEW q, Lists(c, q), NEW i \in 1..Len(q)
  PROVE  LET d == Touch(c, q[i])
             r == <<q[i]>> \o RemoveAt(q, i)
         IN Kept(d, r, <<c.entry[q[i]].key>> \o RemoveAt(KeyList(c, q), i))
<1> DEFINE s == q[i]
           d == Touch(c, s)
           x == RemoveAt(q, i)
           r == <<s>> \o x
           O == Occupied(c)
<1>1. c \in CacheType /\ O \in SUBSET Slots /\ Ring(O, c.entry, c.head) BY DEF Sound, Occupied
<1>2. Order(O, c.entry, c.head, q) /\ Len(q) = c.size BY DEF Lists
<1>3. s \in O /\ q \in Seq(O) /\ Len(q) \in Nat \ {0} /\ \A j \in 1..Len(q) : q[j] \in O
  BY <1>2 DEF Order
<1>4. Relinked(d, c) /\ Occupied(d) = O BY <1>3, TouchSound
<1>5. Order(O, d.entry, d.head, r) BY <1>1, <1>2, TouchOrder
<1>6. x \in Seq(O) /\ Len(x) = Len(q) - 1 BY <1>3, Removed
<1>7. Len(r) = Len(q) /\ \A j \in 1..Len(x) : x[j] \in O
  <2>1. Len(r) = Len(x) + 1 BY <1>3, <1>6, Prefixed
  <2> HIDE DEF r, x
  <2> QED BY <1>3, <1>6, <2>1
<1> HIDE DEF d, x, s
<1>8. \A t \in O : d.entry[t].key = c.entry[t].key BY <1>1, <1>4 DEF Relinked, SameEntry
<1>9. Lists(d, r) BY <1>2, <1>4, <1>5, <1>7 DEF Lists, Relinked
<1>10. Single(d) BY <1>4, <1>8 DEF Single
<1>11. KeyList(d, r) = <<d.entry[s].key>> \o KeyList(d, x)
  <2>1. SameKeys(O, d, d) BY DEF SameKeys
  <2> HIDE DEF O
  <2>2. Same(KeyList(d, <<s>> \o x), <<d.entry[s].key>> \o KeyList(d, x))
    BY <1>3, <1>6, <2>1, KeysFirst
  <2> QED BY <2>2 DEF Same
<1>12. KeyList(d, x) = RemoveAt(KeyList(c, q), i)
  <2>1. SameKeys(O \ {q[i]}, d, c) BY <1>8 DEF SameKeys
  <2> HIDE DEF O
  <2>2. Same(KeyList(d, RemoveAt(q, i)), RemoveAt(KeyList(c, q), i)) BY <1>2, <2>1, KeysRemoved
  <2> QED BY <2>2 DEF Same, x
<1> QED BY <1>3, <1>8, <1>9, <1>10, <1>11, <1>12 DEF d, r, s, x, Kept

LEMMA RemoveLists ==
  ASSUME NEW c, Sound(c), Single(c), NEW q, Lists(c, q), NEW i \in 1..Len(q)
  PROVE  LET d == Remove1(c, q[i])
             r == RemoveAt(q, i)
         IN /\ Kept(d, r, RemoveAt(KeyList(c, q), i))
            /\ \A t \in Occupied(d) : t \in Occupied(c) /\ d.entry[t].key = c.entry[t].key
<1> DEFINE s == q[i]
           d == Remove1(c, s)
           r == RemoveAt(q, i)
           O == Occupied(c)
<1>1. c \in CacheType /\ O \in SUBSET Slots /\ Ring(O, c.entry, c.head) BY DEF Sound, Occupied
<1>2. Order(O, c.entry, c.head, q) /\ Len(q) = c.size BY DEF Lists
<1>3. s \in O /\ q \in Seq(O) /\ Len(q) \in Nat \ {0} /\ \A j \in 1..Len(q) : q[j] \in O
  BY <1>2 DEF Order
<1>4. /\ Occupied(d) = O \ {s} /\ d.size = c.size - 1
      /\ \A t \in Slots \ {s} : SameUse(d.entry[t], c.entry[t])
      /\ \E m \in CacheType :
           /\ SameLinks(O, m, c) /\ d.head = Unlink(m, s).head
           /\ \A t \in Slots : d.entry[t].next = Unlink(m, s).entry[t].next
  BY <1>3, RemoveSound
<1>5. PICK m \in CacheType :
           /\ SameLinks(O, m, c) /\ d.head = Unlink(m, s).head
           /\ \A t \in Slots : d.entry[t].next = Unlink(m, s).entry[t].next
  BY <1>4
<1> HIDE DEF d, O
<1>6. Ring(O, m.entry, m.head) BY <1>1, <1>5, SameRing DEF SameLinks
<1>7. Order(O, m.entry, m.head, q) BY <1>2, <1>5, SameOrder DEF SameLinks
<1>8. Order(O \ {s}, Unlink(m, s).entry, Unlink(m, s).head, r) BY <1>1, <1>6, <1>7, UnlinkOrder
<1>9. Order(O \ {s}, d.entry, d.head, r)
  <2>1. \A t \in O \ {s} : d.entry[t].next = Unlink(m, s).entry[t].next BY <1>1, <1>5
  <2> HIDE DEF s, r
  <2> QED BY <1>5, <1>8, <2>1, SameOrder
<1>10. r \in Seq(O) /\ Len(r) = Len(q) - 1 BY <1>3, Removed
<1>11. \A t \in O \ {s} : d.entry[t].key = c.entry[t].key BY <1>1, <1>4 DEF SameUse
<1>12. Lists(d, r) BY <1>2, <1>4, <1>9, <1>10 DEF Lists
<1>13. Single(d) BY <1>4, <1>11 DEF Single, O
<1>14. KeyList(d, r) = RemoveAt(KeyList(c, q), i)
  <2>1. SameKeys(O \ {q[i]}, d, c) BY <1>11 DEF SameKeys
  <2> HIDE DEF s, r
  <2>2. Same(KeyList(d, RemoveAt(q, i)), RemoveAt(KeyList(c, q), i)) BY <1>2, <2>1, KeysRemoved
  <2> QED BY <2>2 DEF Same, r
<1> QED BY <1>4, <1>11, <1>12, <1>13, <1>14 DEF d, Kept, O

LEMMA InsertLists ==
  ASSUME NEW c, Sound(c), Single(c), NEW q, Lists(c, q), NEW s \in Slots \ Occupied(c),
         NEW k \in Keys, NEW p \in Patterns, c.generation < MaxInserts, c.size < c.capacity,
         \A t \in Occupied(c) : c.entry[t].key # k
  PROVE  LET d == Insert(c, s, k, p)
             r == <<s>> \o q
         IN Kept(d, r, <<k>> \o KeyList(c, q))
<1> DEFINE d == Insert(c, s, k, p)
           r == <<s>> \o q
           O == Occupied(c)
<1>1. c \in CacheType /\ O \in SUBSET Slots /\ Ring(O, c.entry, c.head) BY DEF Sound, Occupied
<1>2. Order(O, c.entry, c.head, q) /\ Len(q) = c.size BY DEF Lists
<1>3. q \in Seq(O) /\ Len(q) \in Nat /\ \A j \in 1..Len(q) : q[j] \in O
  BY <1>2 DEF Order
<1>4. /\ Occupied(d) = O \cup {s} /\ d.size = c.size + 1 /\ d.entry[s].key = k
      /\ \A t \in Slots \ {s} : SameUse(d.entry[t], c.entry[t])
      /\ \E m \in CacheType : SameLinks(O, m, c) /\ d = LinkMru(m, s)
  BY InsertSound
<1>5. PICK m \in CacheType : SameLinks(O, m, c) /\ d = LinkMru(m, s) BY <1>4
<1> HIDE DEF d
<1>6. Ring(O, m.entry, m.head)
  <2> HIDE DEF O
  <2> QED BY <1>1, <1>5, SameRing DEF SameLinks
<1>7. Order(O, m.entry, m.head, q)
  <2> HIDE DEF O
  <2> QED BY <1>2, <1>5, SameOrder DEF SameLinks
<1>8. Order(O \cup {s}, d.entry, d.head, r)
  <2>1. s \in Slots \ O OBVIOUS
  <2> HIDE DEF O
  <2> QED BY <1>1, <1>5, <1>6, <1>7, <2>1, LinkOrder
<1>9. Len(r) = Len(q) + 1
  <2>1. q \in Seq(O \cup {s}) BY <1>3
  <2> QED BY <2>1, Prefixed
<1>10. \A t \in O : d.entry[t].key = c.entry[t].key BY <1>1, <1>4 DEF SameUse
<1> HIDE DEF r
<1>11. Lists(d, r) BY <1>2, <1>4, <1>8, <1>9 DEF Lists
<1>12. Single(d) BY <1>4, <1>10 DEF Single
<1>13. KeyList(d, r) = <<d.entry[s].key>> \o KeyList(c, q)
  <2>1. SameKeys(O, d, c) BY <1>10 DEF SameKeys
  <2> HIDE DEF O
  <2>2. Same(KeyList(d, <<s>> \o q), <<d.entry[s].key>> \o KeyList(c, q))
    BY <1>3, <2>1, KeysFirst
  <2> QED BY <2>2 DEF Same, r
<1> QED BY <1>4, <1>11, <1>12, <1>13 DEF d, r, Kept

(* Pins and counts have no part in it. *)
LEMMA SameLists ==
  ASSUME NEW c, NEW d, NEW q, NEW x, Kept(c, q, x), SameView(d, c)
  PROVE  Kept(d, q, x)
<1>1. Occupied(d) = Occupied(c) /\ Occupied(c) \subseteq Slots BY DEF Occupied, SameView
<1>2. Lists(c, q) /\ Single(c) /\ KeyList(c, q) = x BY DEF Kept
<1>3. Order(Occupied(c), d.entry, c.head, q) BY <1>1, <1>2, SameOrder DEF Lists, SameView
<1>4. Lists(d, q) BY <1>1, <1>2, <1>3 DEF Lists, SameView
<1>5. \A t \in Occupied(c) : d.entry[t].key = c.entry[t].key BY <1>1 DEF SameView
<1>6. Single(d) BY <1>1, <1>2, <1>5 DEF Single
<1>7. \A j \in 1..Len(q) : q[j] \in Occupied(c) BY <1>2 DEF Lists, Order
<1>8. KeyList(d, q) = x BY <1>2, <1>5, <1>7 DEF KeyList
<1> QED BY <1>4, <1>6, <1>8 DEF Kept

LEMMA BareLists ==
  ASSUME NEW c, Bare(c)
  PROVE  Kept(c, <<>>, <<>>)
<1>1. Occupied(c) = {} BY BareSound
<1>2. <<>> \in Seq({}) /\ Len(<<>>) = 0 /\ 1..0 = {} OBVIOUS
<1>3. Order({}, c.entry, c.head, <<>>) BY <1>2 DEF Order
<1>4. KeyList(c, <<>>) = <<>> BY <1>2 DEF KeyList
<1> QED BY <1>1, <1>2, <1>3, <1>4 DEF Lists, Single, Bare, Kept

(* What a step leaves is what PlanCache sees. *)
LEMMA Shown ==
  ASSUME NEW q, NEW x, Kept(cache', q, x), cache' \in CacheType
  PROVE  Recent' = x /\ Limit' = cache'.capacity /\ LInv'
<1>1. cache' # None BY NoneAssumption
<1>2. Lists(cache', q) /\ KeyList(cache', q) = x /\ Single(cache') BY DEF Kept
<1>3. [i \in 1 .. cache'.size |-> cache'.entry[Forward(cache')[i]].key] = x
  BY <1>2, RecentIs
<1>4. Recent' = x BY <1>1, <1>3 DEF Recent
<1>5. Limit' = cache'.capacity BY <1>1 DEF Limit
<1>6. LInv' BY <1>2 DEF LInv, Listed
<1> QED BY <1>4, <1>5, <1>6

LEMMA SeenNow ==
  ASSUME IInv, LInv, cache # None
  PROVE  /\ \E q : Kept(cache, q, Recent)
         /\ Limit = cache.capacity
<1>1. cache \in CacheType BY DEF IInv, Good, Sound
<1>2. PICK q : Lists(cache, q) BY DEF LInv, Listed
<1>3. Recent = KeyList(cache, q) BY <1>1, <1>2, RecentIs DEF Recent
<1> QED BY <1>2, <1>3 DEF Kept, LInv, Listed, Limit

(* An acquisition starts from what is kept, or from nothing. *)
Origin(c, x) == \/ x = Recent /\ c.capacity = Limit
                \/ x = <<>> /\ Out(lease) = {}

LEMMA Started ==
  ASSUME TypeOK, IInv, LInv, NEW e \in Existing, NEW k \in Keys
  PROVE  /\ Good(Admission(e, k))
         /\ \E q, x : Kept(Admission(e, k), q, x) /\ Origin(Admission(e, k), x)
<1> DEFINE r == Resync(e)
           c == Admission(e, k)
<1>1. Good(e) /\ (cache # None => e = cache) /\ (cache = None => Bare(e) /\ e.epoch = epoch)
  <2>1. CASE cache = None
    <3>1. PICK n \in Capacities : e = New(n) BY <2>1 DEF Existing
    <3>2. Good(e) BY <2>1, <3>1, NewGood DEF IInv
    <3>3. Bare(e) /\ e.epoch = epoch BY <3>1, NewBare
    <3> QED BY <2>1, <3>2, <3>3
  <2>2. CASE cache # None BY <2>2 DEF Existing, IInv
  <2> QED BY <2>1, <2>2
<1>2. Good(c) /\ SameView(c, r) BY <1>1, AdmissionGood
<1>3. r = e \/ (Bare(r) /\ e.active = 0) BY <1>1, ResyncSound DEF Good
<1> HIDE DEF c, r
<1>4. CASE cache # None /\ r = e
  <2>1. PICK q : Kept(cache, q, Recent) BY <1>4, SeenNow
  <2>2. e = cache BY <1>1, <1>4
  <2>3. Kept(c, q, Recent) BY <1>2, <1>4, <2>1, <2>2, SameLists
  <2>4. c.capacity = Limit BY <1>2, <1>4, <2>2, SeenNow DEF SameView
  <2> QED BY <1>2, <2>3, <2>4 DEF Origin, c
<1>5. CASE Bare(r) /\ Out(lease) = {}
  <2>1. Kept(c, <<>>, <<>>) BY <1>2, <1>5, BareLists, SameLists
  <2> QED BY <1>2, <1>5, <2>1 DEF Origin, c
<1>6. CASE Bare(r) /\ e.active = 0
  <2>1. Out(lease) = {} BY <1>1, <1>6, OutFacts, FS_EmptySet DEF Good, Pinned
  <2> QED BY <1>5, <1>6, <2>1
<1>7. CASE cache = None /\ r = e
  <2>1. Out(lease) = {} BY <1>7 DEF IInv
  <2> QED BY <1>1, <1>5, <1>7, <2>1
<1> QED BY <1>3, <1>4, <1>6, <1>7

-----------------------------------------------------------------------------
(* A key is held when the slot of its entry is pinned. *)
LEMMA HeldIs ==
  ASSUME NEW c, Good(c), Single(c), NEW s \in Occupied(c)
  PROVE  c.entry[s].key \in PC!Held <=> c.entry[s].pins # 0
<1>1. s \in Slots /\ c.entry[s].key \in Keys BY DEF Occupied, Good, Sound, Linked
<1>2. c.entry[s].pins = 0 <=> \A l \in Cached(lease) : lease[l].slot # s
  BY <1>1, Unpinned DEF Good
<1>3. \A l \in Cached(lease) : /\ lease[l].slot \in Occupied(c)
                               /\ c.entry[lease[l].slot].key = lease[l].key
  BY DEF Good, Lent
<1>4. \A l \in Cached(lease) : lease[l].key = c.entry[s].key => lease[l].slot = s
  BY <1>3 DEF Single
<1>5. c.entry[s].key \in PC!Held <=> \E l \in Cached(lease) : lease[l].key = c.entry[s].key
  <2>1. c.entry[s].key # None BY <1>1, CacheAssumption
  <2>2. \A l \in Leases : LentKeys[l] = IF l \in Cached(lease) THEN lease[l].key ELSE None
    BY DEF LentKeys, Cached, Out
  <2>3. Cached(lease) \subseteq Leases BY DEF Cached, Out
  <2> QED BY <2>1, <2>2, <2>3 DEF PC!Held
<1> QED BY <1>2, <1>3, <1>4, <1>5

LEMMA NoneHeld == Out(lease) = {} => PC!Held = {}
BY DEF PC!Held, LentKeys, Out

(* The walk of _victim finds the least recent entry that no lease holds. *)
LEMMA VictimIs ==
  ASSUME NEW c, Good(c), NEW q, NEW x, Kept(c, q, x), ~ (c.size < c.capacity), NEW s \in Victim(c)
  PROVE  \E a \in 1..Len(q) : s = q[a] /\ a \in PC!Free(x) /\ PC!Victim(x) = a
<1>1. Sound(c) /\ Single(c) /\ Lists(c, q) /\ x = KeyList(c, q) BY DEF Good, Kept
<1>2. s \in Occupied(c) /\ c.entry[s].pins = 0 BY <1>1, VictimFacts
<1>3. /\ Len(q) \in Nat /\ x \in Seq(Keys) /\ Len(x) = Len(q)
      /\ \A j \in 1..Len(q) : x[j] = c.entry[q[j]].key
  BY <1>1, KeysOf
<1>4. Order(Occupied(c), c.entry, c.head, q) /\ Ring(Occupied(c), c.entry, c.head)
  BY <1>1 DEF Lists, Sound
<1>5. /\ \A t \in Occupied(c) : \E j \in 1..Len(q) : q[j] = t
      /\ \A j, k \in 1..Len(q) : q[j] = q[k] => j = k
      /\ \A j \in 1..Len(q) : q[j] \in Occupied(c)
      /\ q # <<>> => c.head = q[1]
  BY <1>4 DEF Order
<1>6. \A j \in 1..Len(q) : c.entry[q[j]].prev = q[IF j = 1 THEN Len(q) ELSE j - 1]
  BY <1>4, OrderPrev
<1>7. PICK a \in 1..Len(q) : q[a] = s BY <1>2, <1>5
<1>8. DOMAIN x = 1..Len(q) BY <1>3
<1>9. \A j \in 1..Len(q) : j \in PC!Free(x) <=> c.entry[q[j]].pins = 0
  <2> SUFFICES ASSUME NEW j \in 1..Len(q) PROVE j \in PC!Free(x) <=> c.entry[q[j]].pins = 0
    OBVIOUS
  <2>1. j \in PC!Free(x) <=> x[j] \notin PC!Held BY <1>8 DEF PC!Free
  <2>2. c.entry[q[j]].key \in PC!Held <=> c.entry[q[j]].pins # 0 BY <1>1, <1>5, HeldIs
  <2> QED BY <1>3, <2>1, <2>2
<1>10. ASSUME NEW b \in 1..Len(q), b > a PROVE c.entry[q[b]].pins # 0
  <2> DEFINE S == {q[j] : j \in b..Len(q)}
  <2> SUFFICES ASSUME c.entry[q[b]].pins = 0 PROVE FALSE OBVIOUS
  <2>1. Len(q) \in b..Len(q) /\ 1 \in 1..Len(q) /\ b..Len(q) \subseteq 1..Len(q) BY <1>3
  <2>2. S \in SUBSET Slots
    <3>1. Occupied(c) \subseteq Slots BY DEF Occupied
    <3> QED BY <1>5, <2>1, <3>1
  <2>3. c.entry[c.head].prev \in S
    <3>1. c.head = q[1] BY <1>3, <1>5, <2>1
    <3>2. c.entry[q[1]].prev = q[Len(q)] BY <1>6, <2>1
    <3> QED BY <2>1, <3>1, <3>2
  <2>4. \A t \in S : c.entry[t].pins > 0 => c.entry[t].prev \in S
    <3> SUFFICES ASSUME NEW j \in b..Len(q), c.entry[q[j]].pins > 0 PROVE c.entry[q[j]].prev \in S
      OBVIOUS
    <3>1. j # b OBVIOUS
    <3>2. j - 1 \in b..Len(q) /\ j # 1 /\ j \in 1..Len(q) BY <1>3, <3>1
    <3>3. c.entry[q[j]].prev = q[j - 1] BY <1>6, <3>2
    <3> QED BY <3>2, <3>3
  <2>5. s \in Visited(c) BY DEF Victim
  <2> HIDE DEF S
  <2>6. s \in S BY <2>2, <2>3, <2>4, <2>5 DEF Visited
  <2>7. PICK j \in b..Len(q) : s = q[j] BY <2>6 DEF S
  <2>8. j = a BY <1>5, <1>7, <2>1, <2>7
  <2> QED BY ONLY <1>3, <1>10, <2>7, <2>8, a \in 1..Len(q), b \in 1..Len(q)
<1>11. a \in PC!Free(x) BY <1>2, <1>7, <1>9
<1>12. \A b \in PC!Free(x) : a >= b
  <2> SUFFICES ASSUME NEW b \in PC!Free(x) PROVE a >= b OBVIOUS
  <2>1. b \in 1..Len(q) BY <1>8 DEF PC!Free
  <2>2. ~ (b > a) BY <1>9, <1>10, <2>1
  <2> QED BY ONLY <1>3, <2>1, <2>2, a \in 1..Len(q)
<1>13. PC!Free(x) \subseteq Nat BY <1>3, <1>8 DEF PC!Free
<1>14. PC!Victim(x) = a
  <2> DEFINE F == PC!Free(x)
             m == CHOOSE y \in F : \A z \in F : y >= z
  <2>1. PC!Victim(x) = m BY DEF PC!Victim, PC!Max
  <2> HIDE DEF F
  <2>2. m \in F /\ \A z \in F : m >= z BY <1>11, <1>12 DEF F
  <2> HIDE DEF m
  <2>3. m >= a /\ a >= m /\ m \in Nat /\ a \in Nat BY <1>11, <1>12, <1>13, <2>2 DEF F
  <2>4. m = a BY <2>3
  <2> QED BY <2>1, <2>4
<1> QED BY <1>7, <1>11, <1>14

-----------------------------------------------------------------------------
(* The steps of PlanCache. *)

LEMMA LimitType ==
  ASSUME NEW c \in CacheType PROVE c.capacity \in Capacities /\ c.capacity \in Nat
BY CacheAssumption DEF CacheType

(* An acquisition that lends nothing from the cache. *)
LEMMA KeptMaps ==
  ASSUME NEW c \in CacheType, NEW q, NEW x, Kept(c, q, x), Origin(c, x), SameView(cache', c),
         UNCHANGED LentKeys
  PROVE  (PC!Drop \/ UNCHANGED PC!vars) /\ LInv'
<1>1. cache' \in CacheType /\ cache'.capacity = c.capacity BY DEF SameView
<1>2. Kept(cache', q, x) BY SameLists
<1>3. Recent' = x /\ Limit' = c.capacity /\ LInv' BY <1>1, <1>2, Shown
<1>4. CASE x = Recent /\ c.capacity = Limit BY <1>3, <1>4 DEF PC!vars
<1>5. CASE x = <<>> /\ Out(lease) = {} BY <1>3, <1>5, LimitType, NoneHeld DEF PC!Drop
<1> QED BY <1>3, <1>4, <1>5 DEF Origin

LEMMA SameIsSame == ASSUME NEW c \in CacheType PROVE SameView(c, c)
BY DEF SameView

(* One that does. *)
LEMMA LendMaps ==
  ASSUME TypeOK, NEW c, NEW x, Origin(c, x), NEW k \in Keys, NEW l \in Leases, ~ lease[l].active,
         NEW d \in CacheType, NEW s \in Slots, NEW q, NEW y, Kept(d, q, y), SameView(cache', d),
         d.entry[s].key = k, Activate(d, l, s), d.capacity = c.capacity, c \in CacheType,
         \/ \E i \in DOMAIN x : x[i] = k /\ y = <<k>> \o RemoveAt(x, i)
         \/ /\ \A i \in DOMAIN x : x[i] # k
            /\ \/ Len(x) < c.capacity /\ y = <<k>> \o x
               \/ /\ ~ (Len(x) < c.capacity) /\ PC!Free(x) # {}
                  /\ y = <<k>> \o RemoveAt(x, PC!Victim(x))
  PROVE  PC!Lend(l, k) /\ LInv'
<1>1. cache' \in CacheType /\ cache'.capacity = c.capacity BY DEF SameView
<1>2. Kept(cache', q, y) BY SameLists
<1>3. Recent' = y /\ Limit' = c.capacity /\ LInv' BY <1>1, <1>2, Shown
<1>4. LentKeys[l] = None BY DEF LentKeys
<1>5. LentKeys' = [LentKeys EXCEPT ![l] = k]
  <2>1. lease' = [lease EXCEPT ![l] = [active |-> TRUE, slot |-> s, key |-> k,
                                       generation |-> d.entry[s].generation, transient |-> None]]
    BY DEF Activate
  <2>2. lease \in [Leases -> LeaseType] BY DEF TypeOK
  <2>3. /\ lease'[l].active /\ lease'[l].key = k /\ lease'[l].transient = None
        /\ \A m \in Leases \ {l} : lease'[m] = lease[m]
    BY <2>1, <2>2
  <2> QED BY <2>3 DEF LentKeys
<1>6. PC!Start(x)
  <2>1. CASE x = Recent /\ c.capacity = Limit BY <1>3, <2>1 DEF PC!Start
  <2>2. CASE x = <<>> /\ Out(lease) = {} BY <1>3, <2>2, LimitType, NoneHeld DEF PC!Start
  <2> QED BY <2>1, <2>2 DEF Origin
<1>7. PC!Lending(x, k)
  <2>1. CASE \E i \in DOMAIN x : x[i] = k /\ y = <<k>> \o RemoveAt(x, i)
    <3>1. PICK i \in DOMAIN x : x[i] = k /\ y = <<k>> \o RemoveAt(x, i) BY <2>1
    <3>2. Recent' = <<k>> \o PC!RemoveAt(x, i) BY <1>3, <3>1 DEF PC!RemoveAt, RemoveAt
    <3> QED BY <3>1, <3>2 DEF PC!Lending
  <2>2. CASE (\A i \in DOMAIN x : x[i] # k) /\ Len(x) < c.capacity /\ y = <<k>> \o x
    <3>1. k \notin PC!ToSet(x) BY <2>2 DEF PC!ToSet
    <3> QED BY <1>3, <2>2, <3>1 DEF PC!Lending
  <2>3. CASE /\ \A i \in DOMAIN x : x[i] # k
             /\ ~ (Len(x) < c.capacity) /\ PC!Free(x) # {}
             /\ y = <<k>> \o RemoveAt(x, PC!Victim(x))
    <3>1. k \notin PC!ToSet(x) BY <2>3 DEF PC!ToSet
    <3>2. Recent' = <<k>> \o PC!RemoveAt(x, PC!Victim(x)) BY <1>3, <2>3 DEF PC!RemoveAt, RemoveAt
    <3> QED BY <1>3, <2>3, <3>1, <3>2 DEF PC!Lending
  <2> QED BY <2>1, <2>2, <2>3
<1>8. x \in {Recent, <<>>} BY DEF Origin
<1>9. PC!Lend(l, k) BY <1>4, <1>5, <1>6, <1>7, <1>8 DEF PC!Lend
<1> QED BY <1>3, <1>9

LEMMA HitMaps ==
  ASSUME TypeOK, IInv, Pools, NEW c, Good(c), NEW q, NEW x, Kept(c, q, x), Origin(c, x),
         NEW l \in Leases, ~ lease[l].active, NEW k \in Keys, Hit(c, l, k)
  PROVE  PC!Lend(l, k) /\ LInv'
<1>1. PICK s \in Found(c, k) : Activate(Touch(c, s), l, s) BY DEF Hit
<1> DEFINE d == Touch(c, s)
<1>2. Sound(c) /\ c \in CacheType /\ Single(c) /\ Lists(c, q) /\ x = KeyList(c, q)
  BY DEF Good, Sound, Kept
<1>3. s \in Occupied(c) /\ s \in Slots /\ c.entry[s].key = k /\ c.epoch = epoch
  BY <1>1 DEF Found, Chain, Occupied, Hit, Admits
<1>4. PICK i \in 1..Len(q) : q[i] = s BY <1>2, <1>3 DEF Lists, Order
<1>5. Good(d) /\ s \in Occupied(d) /\ d.entry[s].key = k /\ d.epoch = epoch
  BY <1>3, TouchGood
<1>6. d \in CacheType /\ d.capacity = c.capacity
  <2>1. Relinked(d, c) BY <1>2, <1>3, TouchSound
  <2> HIDE DEF d
  <2> QED BY <1>5, <2>1 DEF Relinked, Good, Sound
<1>7. Kept(d, <<s>> \o RemoveAt(q, i), <<k>> \o RemoveAt(x, i))
  BY <1>2, <1>3, <1>4, TouchLists
<1>8. i \in DOMAIN x /\ x[i] = k
  BY <1>2, <1>3, <1>4, KeysOf
<1> HIDE DEF d
<1>9. SameView(cache', d) BY <1>1, <1>5, ActivateStep DEF d
<1>10. \E j \in DOMAIN x : x[j] = k /\ <<k>> \o RemoveAt(x, i) = <<k>> \o RemoveAt(x, j) BY <1>8
<1>11. Activate(d, l, s) BY <1>1 DEF d
<1> QED BY <1>2, <1>3, <1>5, <1>6, <1>7, <1>9, <1>10, <1>11, LendMaps

LEMMA MissMaps ==
  ASSUME TypeOK, IInv, Pools, NEW c, Good(c), NEW q, NEW x, Kept(c, q, x), Origin(c, x),
         NEW l \in Leases, ~ lease[l].active, NEW k \in Keys, content[k] # None, Miss(c, l, k)
  PROVE  PC!Lend(l, k) /\ LInv'
<1>1. PICK s \in Reusable(c) : LET d == Insert(Room(c, s), s, k, content[k])
                               IN SameView(cache', d) /\ Activate(d, l, s)
  BY MissStep
<1> DEFINE room == Room(c, s)
           d == Insert(room, s, k, content[k])
<1>2. Sound(c) /\ c \in CacheType /\ Single(c) /\ Lists(c, q) /\ x = KeyList(c, q)
      /\ c.generation < MaxInserts /\ Found(c, k) = {}
  BY DEF Good, Sound, Kept, Miss
<1>3. /\ Good(room) /\ s \in Slots \ Occupied(room) /\ SameRest(room, c)
      /\ room.generation = c.generation /\ room.size < room.capacity
      /\ \/ c.size < c.capacity /\ room = c
         \/ /\ ~ (c.size < c.capacity) /\ s \in Victim(c) /\ s \in Occupied(c)
            /\ room = Remove1(c, s)
  BY RoomFacts
<1>4. \A t \in Occupied(c) : c.entry[t].key # k
  <2> SUFFICES ASSUME NEW t \in Occupied(c), c.entry[t].key = k PROVE FALSE OBVIOUS
  <2>1. Capacities # {} BY <1>2 DEF CacheType
  <2>2. BucketOf[k] \in Buckets BY <2>1, BucketsHoldKeys
  <2>3. Chain(c, BucketOf[k]) = {u \in Occupied(c) : Place(c.entry, u) = BucketOf[k]}
    BY <1>2, <2>2, ChainIsBucket DEF Sound
  <2>4. t \in Found(c, k) BY <2>3 DEF Found, Place, Occupied
  <2> QED BY <1>2, <2>4
<1>5. /\ x \in Seq(Keys) /\ Len(x) = Len(q) /\ Len(q) = c.size
      /\ \A i \in 1..Len(q) : x[i] = c.entry[q[i]].key /\ q[i] \in Occupied(c)
  BY <1>2, KeysOf DEF Lists, Order
<1>6. \A i \in DOMAIN x : x[i] # k BY <1>4, <1>5
<1>7. content[k] \in Patterns BY DEF TypeOK
<1> HIDE DEF room
<1>8. ASSUME NEW r, NEW y, Kept(room, r, y), \A t \in Occupied(room) : room.entry[t].key # k
      PROVE  Kept(d, <<s>> \o r, <<k>> \o y)
  <2>1. Sound(room) /\ Single(room) /\ Lists(room, r) /\ y = KeyList(room, r)
    BY <1>3, <1>8 DEF Good, Kept
  <2> QED BY <1>2, <1>3, <1>7, <1>8, <2>1, InsertLists
<1>9. \E r, y : /\ Kept(d, r, y)
                /\ \/ Len(x) < c.capacity /\ y = <<k>> \o x
                   \/ /\ ~ (Len(x) < c.capacity) /\ PC!Free(x) # {}
                      /\ y = <<k>> \o RemoveAt(x, PC!Victim(x))
  <2>1. CASE c.size < c.capacity /\ room = c
    <3>1. Kept(d, <<s>> \o q, <<k>> \o x) BY <1>4, <1>8, <2>1
    <3> HIDE DEF d
    <3> QED BY <1>5, <2>1, <3>1
  <2>2. CASE ~ (c.size < c.capacity) /\ s \in Victim(c) /\ room = Remove1(c, s)
    <3>1. PICK a \in 1..Len(q) : s = q[a] /\ a \in PC!Free(x) /\ PC!Victim(x) = a BY <2>2, VictimIs
    <3>2. /\ Kept(room, RemoveAt(q, a), RemoveAt(x, a))
          /\ \A t \in Occupied(room) : t \in Occupied(c) /\ room.entry[t].key = c.entry[t].key
      BY <1>2, <2>2, <3>1, RemoveLists
    <3>3. Kept(d, <<s>> \o RemoveAt(q, a), <<k>> \o RemoveAt(x, a)) BY <1>4, <1>8, <3>2
    <3> HIDE DEF d
    <3>4. Kept(d, <<s>> \o RemoveAt(q, a), <<k>> \o RemoveAt(x, PC!Victim(x))) BY <3>1, <3>3
    <3> QED BY <1>5, <2>2, <3>1, <3>4
  <2> QED BY <1>3, <2>1, <2>2
<1>10. /\ d \in CacheType /\ d.entry[s].key = k /\ d.capacity = c.capacity
  <2>1. Sound(room) /\ room.generation < MaxInserts BY <1>2, <1>3 DEF Good
  <2>2. Sound(d) /\ SameRest(d, room) /\ d.entry[s].key = k BY <1>3, <1>7, <2>1, InsertSound
  <2> HIDE DEF d
  <2> QED BY <1>3, <2>2 DEF SameRest, Sound
<1>11. SameView(cache', d) /\ Activate(d, l, s) BY <1>1 DEF room
<1>12. s \in Slots BY <1>3
<1> HIDE DEF d
<1>13. PICK r, y : /\ Kept(d, r, y)
                   /\ \/ Len(x) < c.capacity /\ y = <<k>> \o x
                      \/ /\ ~ (Len(x) < c.capacity) /\ PC!Free(x) # {}
                         /\ y = <<k>> \o RemoveAt(x, PC!Victim(x))
  BY <1>9
<1> QED BY <1>2, <1>6, <1>10, <1>11, <1>12, <1>13, LendMaps

LEMMA AcquireMaps ==
  ASSUME TypeOK, IInv, LInv, NEW l \in Leases, NEW k \in Keys, Acquire(l, k)
  PROVE  (PC!Next \/ UNCHANGED PC!vars) /\ LInv'
<1>1. Pools /\ ~ lease[l].active /\ content[k] # None BY DEF Acquire, Pools
<1>2. PICK e \in Existing : LET c == Admission(e, k) IN
         Transient(c, l, k) \/ Hit(c, l, k) \/ Miss(c, l, k) \/ Pressure(c, k) \/ Raises(c, k)
  BY DEF Acquire
<1> DEFINE c == Admission(e, k)
<1>3. Good(c) /\ \E q, x : Kept(c, q, x) /\ Origin(c, x) BY Started
<1>4. Transient(c, l, k) \/ Hit(c, l, k) \/ Miss(c, l, k) \/ Pressure(c, k) \/ Raises(c, k)
  BY <1>2
<1> HIDE DEF c
<1>5. PICK q, x : Kept(c, q, x) /\ Origin(c, x) BY <1>3
<1>6. c \in CacheType BY <1>3 DEF Good, Sound
<1>7. ASSUME PC!Lend(l, k) PROVE PC!Next BY <1>7 DEF PC!Next
<1>8. CASE Transient(c, l, k)
  <2>1. SameView(cache', c) BY <1>1, <1>3, <1>8, TransientStep
  <2>2. UNCHANGED LentKeys
    <3> DEFINE r == [Inactive EXCEPT !.active = TRUE, !.key = k, !.transient = content[k]]
    <3>1. lease' = [lease EXCEPT ![l] = r] /\ r.transient # None BY <1>1, <1>8 DEF Transient, Inactive
    <3> HIDE DEF r
    <3>2. lease'[l] = r /\ \A m \in Leases \ {l} : lease'[m] = lease[m] BY <3>1 DEF TypeOK
    <3> QED BY <1>1, <3>1, <3>2 DEF LentKeys
  <2>3. (PC!Drop \/ UNCHANGED PC!vars) /\ LInv' BY <1>5, <1>6, <2>1, <2>2, KeptMaps
  <2> QED BY <2>3 DEF PC!Next
<1>9. CASE cache' = c /\ UNCHANGED lease
  <2>1. SameView(cache', c) BY <1>6, <1>9, SameIsSame
  <2>2. UNCHANGED LentKeys BY <1>9 DEF LentKeys
  <2>3. (PC!Drop \/ UNCHANGED PC!vars) /\ LInv' BY <1>5, <1>6, <2>1, <2>2, KeptMaps
  <2> QED BY <2>3 DEF PC!Next
<1>10. CASE Hit(c, l, k) BY <1>1, <1>3, <1>5, <1>7, <1>10, HitMaps
<1>11. CASE Miss(c, l, k) BY <1>1, <1>3, <1>5, <1>7, <1>11, MissMaps
<1> QED BY <1>4, <1>8, <1>9, <1>10, <1>11 DEF Pressure, Raises

LEMMA ReleaseMaps ==
  ASSUME TypeOK, IInv, LInv, NEW l \in Leases, Release(l)
  PROVE  PC!Next /\ LInv'
<1>1. cache # None /\ SameView(cache', cache) BY ReleaseStep
<1>2. PICK q : Kept(cache, q, Recent) BY <1>1, SeenNow
<1>3. Kept(cache', q, Recent) BY <1>1, <1>2, SameLists
<1>4. cache' \in CacheType /\ cache'.capacity = Limit BY <1>1, SeenNow DEF SameView
<1>5. Recent' = Recent /\ Limit' = Limit /\ LInv' BY <1>3, <1>4, Shown
<1>6. LentKeys' = [LentKeys EXCEPT ![l] = None]
  <2>1. lease' = [lease EXCEPT ![l] = Inactive] BY DEF Release
  <2>2. lease'[l] = Inactive /\ \A m \in Leases \ {l} : lease'[m] = lease[m]
    BY <2>1 DEF TypeOK
  <2>3. ~ Inactive.active BY DEF Inactive
  <2> QED BY <2>2, <2>3 DEF LentKeys
<1>7. PC!Return(l) BY <1>5, <1>6 DEF PC!Return
<1> QED BY <1>5, <1>7 DEF PC!Next

LEMMA FlushMaps ==
  ASSUME TypeOK, IInv, LInv, Flush
  PROVE  PC!Next /\ LInv'
<1>1. Out(lease) = {}
  <2>1. Cardinality(Out(lease)) = 0 BY DEF Flush, IInv, Good, Pinned
  <2> QED BY <2>1, OutFacts, FS_EmptySet
<1>2. Recent' = <<>> /\ Limit' = Max(Capacities) /\ LInv' BY DEF Flush, Recent, Limit, LInv
<1>3. Max(Capacities) \in Capacities BY MaxIn, CacheAssumption
<1>4. UNCHANGED LentKeys BY DEF Flush, LentKeys
<1>5. PC!Drop BY <1>1, <1>2, <1>3, <1>4, NoneHeld DEF PC!Drop
<1> QED BY <1>2, <1>5 DEF PC!Next

LEMMA PoolMaps ==
  ASSUME LInv, UNCHANGED <<cache, lease>>
  PROVE  UNCHANGED PC!vars /\ LInv'
<1>1. Recent' = Recent BY DEF Recent
<1>2. Limit' = Limit /\ LentKeys' = LentKeys BY DEF Limit, LentKeys
<1>3. LInv' BY DEF LInv
<1> QED BY <1>1, <1>2, <1>3 DEF PC!vars

LEMMA InitMaps == Init => PC!Init /\ LInv
<1> SUFFICES ASSUME Init PROVE PC!Init /\ LInv OBVIOUS
<1>1. Max(Capacities) \in Capacities BY MaxIn, CacheAssumption
<1>2. Recent = <<>> /\ Limit = Max(Capacities) /\ LInv BY DEF Init, Recent, Limit, LInv
<1>3. LentKeys = [l \in Leases |-> None] BY DEF Init, LentKeys, Inactive
<1> QED BY <1>1, <1>2, <1>3 DEF PC!Init

LEMMA StepMaps == TypeOK /\ IInv /\ LInv /\ [Next]_vars => [PC!Next]_(PC!vars) /\ LInv'
<1> SUFFICES ASSUME TypeOK, IInv, LInv, [Next]_vars
             PROVE  (PC!Next \/ UNCHANGED PC!vars) /\ LInv'
  OBVIOUS
<1>1. ASSUME NEW l \in Leases, Release(l) PROVE (PC!Next \/ UNCHANGED PC!vars) /\ LInv'
  BY <1>1, ReleaseMaps
<1>2. ASSUME NEW l \in Leases, NEW k \in Keys, Acquire(l, k)
      PROVE  (PC!Next \/ UNCHANGED PC!vars) /\ LInv'
  BY <1>2, AcquireMaps
<1>3. CASE Flush BY <1>3, FlushMaps
<1>4. CASE UNCHANGED <<cache, lease>> BY <1>4, PoolMaps
<1> QED BY <1>1, <1>2, <1>3, <1>4 DEF Next, Build, PromoteStrings, ReleaseLevel, vars

(* The links and pins of match-cache.x lend, keep and recycle programs in    *)
(* the order a plain list of keys would: an acquisition puts its program     *)
(* first, replaces only the least recently lent one that no lease holds      *)
(* (_victim, src/lib/match-cache.x:251), and nothing held is ever dropped.   *)
THEOREM CacheImplementsPlanCache == Spec => ImplementsPlanCache
<1>1. Init => PC!Init /\ LInv BY InitMaps
<1>2. TypeOK /\ IInv /\ LInv /\ [Next]_vars => [PC!Next]_(PC!vars) /\ LInv' BY StepMaps
<1>3. Spec => [](TypeOK /\ IInv) BY Invariant
<1> QED BY <1>1, <1>2, <1>3, PTL DEF Spec, ImplementsPlanCache, PC!Spec
=============================================================================
