----------------------------- MODULE MatchCache -----------------------------
(***************************************************************************)
(* The cache of prepared Match plans: src/lib/match-cache.x.               *)
(*                                                                         *)
(* One default cache of one thread, the leases taken from it, and the      *)
(* pools around it, whose cells the cache borrows by address: once a level *)
(* is released, another pattern may appear at an address the cache knows.  *)
(* Patterns, addresses and hashes are abstract; the bucket chains and the  *)
(* ring are the links the code keeps.  A plan is the pattern it was        *)
(* prepared from.                                                          *)
(***************************************************************************)
EXTENDS Integers, FiniteSets, Sequences, SequencesExt

CONSTANTS Keys,        \* addresses of List cells
          Patterns,
          Wide,        \* patterns with parts that are never borrowed
          Loose,       \* patterns with Strings that are not permanent at first
          Fenced,      \* patterns that exceed a lowering limit
          Leases,
          Capacities,  \* capacities a cache may be created with
          BucketOf,    \* the bucket of each key
          MemoOf,      \* the memo slot of each key
          First,       \* the patterns built before the cache is first used
          Rooted,      \* addresses in the process root, which is not released
          MaxEpoch,    \* bound: pool levels released
          MaxInserts,  \* bound: entries installed
          None

ASSUME CacheAssumption == /\ Capacities \subseteq Nat \ {0} /\ IsFiniteSet(Capacities)
                          /\ Capacities # {}
                          /\ IsFiniteSet(Leases) /\ MaxEpoch \in Nat /\ MaxInserts \in Nat
                          /\ \A c \in Capacities : BucketOf \in [Keys -> 0 .. 2 * c]
                          /\ MemoOf \in [Keys -> Nat]
                          /\ First \in [Keys -> Patterns \cup {None}] /\ Rooted \subseteq Keys
                          /\ None \notin Keys \cup Patterns

Slots == 0 .. Max(Capacities) - 1
Buckets == 0 .. 2 * Max(Capacities)
Memos == {MemoOf[k] : k \in Keys}
Link == Slots \cup {-1}

EntryType == [key : Keys \cup {None}, plan : Patterns \cup {None}, generation : 0..MaxInserts,
              occupied : BOOLEAN, pins : Nat, chain : Link, prev : Slots, next : Slots]
CacheType == [capacity : Capacities, entry : [Slots -> EntryType], bucket : [Buckets -> Link],
              size : Nat, head : Link, active : Nat, generation : 0..MaxInserts, epoch : Nat,
              admitted : [Memos -> Keys \cup {None}], refused : [Memos -> Keys \cup {None}]]
LeaseType == [active : BOOLEAN, slot : Link, generation : 0..MaxInserts,
              transient : Patterns \cup {None}, key : Keys \cup {None}]

ASSUME NoneAssumption == None \notin CacheType

VARIABLES cache,    \* the default cache, or None
          lease,    \* MatchLease
          content,  \* the pattern whose cell is at each address, or None
          loose,    \* patterns that still have a String in a nested level
          epoch     \* Pool.epoch()

vars == <<cache, lease, content, loose, epoch>>

Inactive == [active |-> FALSE, slot |-> -1, generation |-> 0, transient |-> None, key |-> None]

(* MatchCache.new *)
New(capacity) ==
       [capacity |-> capacity,
        entry |-> [s \in Slots |->
                     [key |-> None, plan |-> None, generation |-> 0, occupied |-> FALSE,
                      pins |-> 0, chain |-> 0, prev |-> 0, next |-> 0]],
        bucket |-> [b \in Buckets |-> -1],
        size |-> 0, head |-> -1, active |-> 0, generation |-> 0, epoch |-> epoch,
        admitted |-> [m \in Memos |-> None], refused |-> [m \in Memos |-> None]]

Init == /\ cache = None
        /\ lease = [l \in Leases |-> Inactive]
        /\ content = First
        /\ loose = Loose
        /\ epoch = 0

-----------------------------------------------------------------------------
(* The ring: its head is the most recent entry, and the entry before the    *)
(* head the least recent.                                                   *)

Unlink(c, s) ==
  LET e == c.entry[s]
      entry == [c.entry EXCEPT ![e.prev].next = e.next]
  IN [c EXCEPT !.entry = [entry EXCEPT ![e.next].prev = e.prev],
               !.head = IF @ # s THEN @ ELSE IF e.next = s THEN -1 ELSE e.next]

LinkMru(c, s) ==
  LET after  == IF c.head < 0 THEN s ELSE c.head
      before == IF c.head < 0 THEN s ELSE c.entry[c.head].prev
      entry  == [c.entry EXCEPT ![s].next = after, ![s].prev = before]
      linked == [entry EXCEPT ![before].next = s]
  IN [c EXCEPT !.entry = [linked EXCEPT ![after].prev = s], !.head = s]

TouchWrongWay(c, s) ==   \* mutant: the entry after the head is taken for the least recent
  CASE c.head = s -> c
    [] c.head # s /\ c.entry[c.head].next = s -> [c EXCEPT !.head = s]
    [] OTHER -> LinkMru(Unlink(c, s), s)

Touch(c, s) ==
  CASE c.head = s -> c
    [] c.head # s /\ c.entry[c.head].prev = s -> [c EXCEPT !.head = s]
    [] OTHER -> LinkMru(Unlink(c, s), s)

(* The slots met going forward from the head.                               *)
Forward(c) == LET walk[i \in 1 .. c.size] == IF i = 1 THEN c.head ELSE c.entry[walk[i - 1]].next
              IN walk

-----------------------------------------------------------------------------
(* Entries *)

(* The slots of bucket b's chain: those in every set that holds its head    *)
(* and, with a slot, the next one.                                          *)
Chain(c, b) ==
  {s \in Slots : \A S \in SUBSET Slots :
     /\ c.bucket[b] \in S \cup {-1}
     /\ \A t \in S : c.entry[t].chain \in S \cup {-1}
     => s \in S}

Found(c, k) == {s \in Chain(c, BucketOf[k]) : c.entry[s].occupied /\ c.entry[s].key = k}

(* What _victim looks at: the least recent entry, and the one before each   *)
(* that is pinned.                                                          *)
Visited(c) ==
  {s \in Slots : \A S \in SUBSET Slots :
     /\ c.entry[c.head].prev \in S
     /\ \A t \in S : c.entry[t].pins > 0 => c.entry[t].prev \in S
     => s \in S}

Victim(c) == {s \in Visited(c) : c.entry[s].pins = 0}
FreeSlot(c) == {s \in 0 .. c.capacity - 1 : /\ ~ c.entry[s].occupied
                                           /\ \A t \in 0 .. s - 1 : c.entry[t].occupied}

(* A free slot, or the victim's; none when every entry is pinned. *)
Reusable(c) == IF c.size < c.capacity THEN FreeSlot(c) ELSE Victim(c)

InsertAlone(c, s, k, p) ==   \* mutant: the rest of the bucket's chain is lost
  LET e == [c.entry[s] EXCEPT !.key = k, !.plan = p, !.occupied = TRUE,
                              !.generation = c.generation + 1, !.chain = -1]
  IN LinkMru([c EXCEPT !.entry[s] = e, !.bucket[BucketOf[k]] = s,
                       !.generation = @ + 1, !.size = @ + 1], s)

Insert(c, s, k, p) ==
  LET e == [c.entry[s] EXCEPT !.key = k, !.plan = p, !.occupied = TRUE,
                              !.generation = c.generation + 1,
                              !.chain = c.bucket[BucketOf[k]]]
  IN LinkMru([c EXCEPT !.entry[s] = e, !.bucket[BucketOf[k]] = s,
                       !.generation = @ + 1, !.size = @ + 1], s)

(* The plan is freed with its entry. *)
Vacant(e) == [e EXCEPT !.occupied = FALSE, !.plan = None]

Remove1(c, s) ==
  LET b == BucketOf[c.entry[s].key]
      rest == c.entry[s].chain
      spliced == IF c.bucket[b] = s THEN [c EXCEPT !.bucket[b] = rest]
                 ELSE [c EXCEPT !.entry = [o \in Slots |->
                         IF o \in Chain(c, b) /\ c.entry[o].chain = s
                         THEN [c.entry[o] EXCEPT !.chain = rest] ELSE c.entry[o]]]
  IN [Unlink(spliced, s) EXCEPT !.entry[s] = Vacant(@), !.size = @ - 1]

-----------------------------------------------------------------------------
(* Admission *)

(* MatchPlan.borrowable: every part is borrowed for good or is permanent.   *)
Borrowable(k) == content[k] \notin Wide \cup loose

ResyncKeeping(c) ==   \* mutant: the new epoch is adopted and the entries stay
  IF c.epoch = epoch \/ c.active > 0 THEN c ELSE [c EXCEPT !.epoch = epoch]

(* Every entry removed: no link leads to a slot, and none of a free slot    *)
(* means anything.                                                          *)
Emptied(c) == [c EXCEPT !.entry = [s \in Slots |-> Vacant(c.entry[s])],
                        !.bucket = [b \in Buckets |-> -1], !.size = 0, !.head = -1]

(* Drops every entry once a level was released, unless a lease is out. *)
Resync(c) ==
  IF c.epoch = epoch \/ c.active > 0 THEN c
  ELSE [Emptied(c) EXCEPT !.admitted = [m \in Memos |-> None],
                          !.refused = [m \in Memos |-> None], !.epoch = epoch]

(* _admitted: the cache after its memos have answered for k, and the answer. *)
Admission(c, k) ==
  LET d == Resync(c)
      m == MemoOf[k]
  IN IF d.epoch # epoch \/ k \in {d.admitted[m], d.refused[m]} THEN d
     ELSE IF Borrowable(k) THEN [d EXCEPT !.admitted[m] = k]
                           ELSE [d EXCEPT !.refused[m] = k]

Admits(c, k) == c.epoch = epoch /\ c.admitted[MemoOf[k]] = k

-----------------------------------------------------------------------------
(* Leases *)

(* The default cache is created on first use. *)
Existing == IF cache = None THEN {New(n) : n \in Capacities} ELSE {cache}

(* _activate: l pins slot s. *)
Activate(c, l, s) ==
  /\ cache' = [c EXCEPT !.active = @ + 1, !.entry[s].pins = @ + 1]
  /\ lease' = [lease EXCEPT ![l] = [active |-> TRUE, slot |-> s, key |-> c.entry[s].key,
                                    generation |-> c.entry[s].generation, transient |-> None]]

(* An inadmissible pattern gets a plan its lease owns. *)
Transient(c, l, k) ==
  /\ ~ Admits(c, k) /\ content[k] \notin Fenced
  /\ cache' = [c EXCEPT !.active = @ + 1]
  /\ lease' = [lease EXCEPT ![l] = [Inactive EXCEPT !.active = TRUE, !.key = k,
                                                    !.transient = content[k]]]

Hit(c, l, k) == Admits(c, k) /\ \E s \in Found(c, k) : Activate(Touch(c, s), l, s)

(* The plan is prepared before the victim is removed. *)
Miss(c, l, k) ==
  /\ Admits(c, k) /\ Found(c, k) = {} /\ content[k] \notin Fenced
  /\ c.generation < MaxInserts
  /\ \E s \in Reusable(c) :
       LET room == IF c.entry[s].occupied THEN Remove1(c, s) ELSE c
       IN Activate(Insert(room, s, k, content[k]), l, s)

(* Every entry is pinned: the lease stays inactive. *)
Pressure(c, k) == /\ Admits(c, k) /\ Found(c, k) = {} /\ Reusable(c) = {}
                  /\ cache' = c /\ UNCHANGED lease

(* The pattern is fenced, or preparing it fails: acquire raises. *)
Raises(c, k) == /\ ~ Admits(c, k) \/ (Found(c, k) = {} /\ Reusable(c) # {})
                /\ cache' = c /\ UNCHANGED lease

Acquire(l, k) ==
  /\ ~ lease[l].active /\ content[k] # None
  /\ \E e \in Existing : LET c == Admission(e, k) IN
          Transient(c, l, k) \/ Hit(c, l, k) \/ Miss(c, l, k) \/ Pressure(c, k) \/ Raises(c, k)
  /\ UNCHANGED <<content, loose, epoch>>

(* _entry: the slot still holds what the lease was given. *)
Valid(l) == LET e == cache.entry[lease[l].slot]
            IN e.occupied /\ e.generation = lease[l].generation

Release(l) ==
  /\ lease[l].active
  /\ \/ /\ lease[l].transient # None
        /\ cache' = [cache EXCEPT !.active = @ - 1]
     \/ /\ lease[l].transient = None /\ Valid(l)
        /\ cache' = [cache EXCEPT !.active = @ - 1, !.entry[lease[l].slot].pins = @ - 1]
  /\ lease' = [lease EXCEPT ![l] = Inactive]
  /\ UNCHANGED <<content, loose, epoch>>

(* flush_default and the other disposals; refused while a lease is out. *)
Flush == /\ cache # None /\ cache.active = 0
         /\ cache' = None
         /\ UNCHANGED <<lease, content, loose, epoch>>

-----------------------------------------------------------------------------
(* The pools around the cache *)

(* Interning gives a pattern one cell, at an address that may have been     *)
(* another's.                                                               *)
Build(k, p) == /\ content[k] = None /\ \A j \in Keys : content[j] # p
               /\ content' = [content EXCEPT ![k] = p]
               /\ UNCHANGED <<cache, lease, loose, epoch>>

PromoteStrings(p) == p \in loose /\ loose' = loose \ {p} /\ UNCHANGED <<cache, lease, content, epoch>>

(* A level is released with its cells; its caller is no longer matching     *)
(* against any of them.                                                     *)
ReleaseLevel(gone) ==
  /\ epoch < MaxEpoch
  /\ \A l \in Leases : lease[l].active => lease[l].key \notin gone
  /\ epoch' = epoch + 1
  /\ content' = [k \in Keys |-> IF k \in gone THEN None ELSE content[k]]
  /\ UNCHANGED <<cache, lease, loose>>

Next == \/ \E l \in Leases : Release(l) \/ \E k \in Keys : Acquire(l, k)
        \/ Flush
        \/ \E k \in Keys, p \in Patterns : Build(k, p)
        \/ \E p \in Patterns : PromoteStrings(p)
        \/ \E gone \in SUBSET (Keys \ Rooted) : ReleaseLevel(gone)

Spec == Init /\ [][Next]_vars

-----------------------------------------------------------------------------
(* The cache, its leases and the pools around it have their types. *)
TypeOK == /\ cache \in CacheType \cup {None}
          /\ lease \in [Leases -> LeaseType]
          /\ content \in [Keys -> Patterns \cup {None}]
          /\ loose \subseteq Loose
          /\ epoch \in 0..MaxEpoch

Plan(l) == IF lease[l].transient # None THEN lease[l].transient
                                        ELSE cache.entry[lease[l].slot].plan

(* A lease runs the plan of the very pattern it was asked for, whatever     *)
(* other pattern once lived at that address: MatchLease.plan                *)
(* (match-cache.x:316) after any number of levels were released.            *)
LendsItsPattern == \A l \in Leases : lease[l].active => Plan(l) = content[lease[l].key]

(* The assertions of _remove (match-cache.x:265) hold: every entry, and     *)
(* nothing else, is in its bucket's chain.                                  *)
ChainsHoldEntries ==
  cache # None => \A b \in Buckets :
    Chain(cache, b) = {s \in Slots : cache.entry[s].occupied /\ BucketOf[cache.entry[s].key] = b}

(* The keys in the order of the ring, the capacity, and the keys that are  *)
(* lent.                                                                    *)
Recent == IF cache = None THEN <<>>
          ELSE [i \in 1 .. cache.size |-> cache.entry[Forward(cache)[i]].key]
Limit == IF cache = None THEN Max(Capacities) ELSE cache.capacity
LentKeys == [l \in Leases |-> IF lease[l].active /\ lease[l].transient = None
                              THEN lease[l].key ELSE None]

(* The links and pins of the code keep the promise of PlanCache. *)
PC == INSTANCE PlanCache WITH recent <- Recent, limit <- Limit, lent <- LentKeys
ImplementsPlanCache == PC!Spec
=============================================================================
