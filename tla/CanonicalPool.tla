--------------------------- MODULE CanonicalPool ---------------------------
(***************************************************************************)
(* Canonical Strings and Lists over nested pools: src/lib/pool/interning.x *)
(* with the promotions of pool/storage.x, the brackets of pool/threads.x,  *)
(* the constructors of string/storage.x and list/list.x, and the export of *)
(* src/lib/context.x.                                                      *)
(*                                                                         *)
(* Every thread has its own stack of levels over one shared root.  A value *)
(* is a content; an identity is a pointer.  Only the root is shared, so a  *)
(* step is what one thread does between two of its locks on the root.      *)
(* Storage is abstract: each identity has a home, the level whose release  *)
(* frees it; blocks and slots are left out, but not what a promotion does  *)
(* to an allocation too large for them, which a Scope owns.                *)
(***************************************************************************)
EXTENDS Naturals, FiniteSets

CONSTANTS Threads,
          Workers,    \* threads started by Thread.start
          Short,      \* Strings of at most STRING_STACK_BYTES
          Long,       \* longer Strings
          Cells,      \* List cells
          Exporters,  \* threads whose brackets belong to isolated Contexts
          MaxDepth,   \* bound: brackets a thread may have open
          Shallow,    \* bound: threads that have one bracket at most
          Ids,        \* bound: identities that may exist at once
          Large,      \* those among them whose storage exceeds 512 bytes
          Root,       \* the process root
          None
ASSUME PoolAssumption == /\ MaxDepth \in Nat \ {0}
                         /\ Exporters \subseteq Threads /\ Workers \subseteq Threads
                         /\ Large \subseteq Ids

ASSUME KindsAssumption == Short \cap Long = {} /\ Cells \cap (Short \cup Long) = {}

Content == Short \cup Long \cup Cells
Bracket == Threads \X (1..MaxDepth)
Level == {Root} \cup Bracket

ASSUME NamesAssumption == /\ Root \notin Bracket
                          /\ None \notin Ids \cup Level \cup [level : 0..MaxDepth, content : Content]

VARIABLES
  depth,      \* brackets each thread has open
  table,      \* each level's canonical identity of each content
  home,       \* the level whose release frees an identity, or None
  op,         \* a constructor between its lookup and its insertion
  permanent,  \* identities that Pool.own has answered 1 for
  got,        \* the identity a constructor last returned, per thread and
              \* List cell, since a bracket of the thread last closed
  sunk        \* identities whose storage a promotion moved further in

vars == <<depth, table, home, op, permanent, got, sunk>>

(* The level of thread t with i brackets open; the levels it looks through.*)
At(t, i) == IF i = 0 THEN Root ELSE <<t, i>>
Chain(t, i) == {At(t, j) : j \in 0..i}
Current(t) == At(t, depth[t])
Open == UNION {Chain(t, depth[t]) : t \in Threads}

(* A worker runs above its result pool, which it never closes itself. *)
Base(t) == IF t \in Workers THEN 1 ELSE 0

Init == /\ depth = [t \in Threads |-> Base(t)]
        /\ table = [l \in Level |-> [v \in Content |-> None]]
        /\ home = [x \in Ids |-> None]
        /\ op = [t \in Threads |-> None]
        /\ permanent = {}
        /\ got = [t \in Threads |-> [v \in Cells |-> None]]
        /\ sunk = {}

-----------------------------------------------------------------------------
(* Pool.lookup, Pool.intern, Pool.insert *)

(* Pool.lookup: x is what the innermost level that holds v, from i brackets *)
(* outward, holds for it.                                                  *)
Lookup(t, i, v, x) == \E j \in 0..i : /\ x = table[At(t, j)][v]
                                      /\ \A k \in j + 1 .. i : table[At(t, k)][v] = None
Missing(t, i, v) == \A j \in 0..i : table[At(t, j)][v] = None

(* A constructor that runs at the thread's current level gives its answer. *)
Answer(t, i, v, x) ==
  got' = IF i = depth[t] /\ v \in Cells THEN [got EXCEPT ![t][v] = x] ELSE got

(* Free storage.  What tables may still name (see Raise) is not reused.    *)
Fresh(x) == home[x] = None /\ x \notin sunk

(* A cell takes a slot. *)
Fits(v, x) == v \in Cells => x \notin Large

Replace(l, v, x) == table' = [table EXCEPT ![l][v] = x]

InstallReplacing(t, i, v) ==   \* mutant: an equal identity is replaced
  \E x \in Ids : /\ Fresh(x) /\ Fits(v, x)
                 /\ Replace(At(t, i), v, x)
                 /\ home' = [home EXCEPT ![x] = At(t, i)]
                 /\ Answer(t, i, v, x)

(* _intern_locked: the level's own identity, or a new one; a losing        *)
(* candidate is freed.                                                     *)
Install(t, i, v) ==
  \/ /\ table[At(t, i)][v] # None
     /\ Answer(t, i, v, table[At(t, i)][v])
     /\ UNCHANGED <<table, home>>
  \/ /\ table[At(t, i)][v] = None
     /\ \E x \in Ids : /\ Fresh(x) /\ Fits(v, x)
                       /\ Replace(At(t, i), v, x)
                       /\ home' = [home EXCEPT ![x] = At(t, i)]
                       /\ Answer(t, i, v, x)

(* Pool.intern: ancestors first, then the level itself. *)
Intern(t, i, v) ==
  /\ v \in Long
  /\ \/ i > 0 /\ \E x \in Ids : Lookup(t, i - 1, v, x) /\ Answer(t, i, v, x) /\ UNCHANGED <<table, home>>
     \/ (i > 0 => Missing(t, i - 1, v)) /\ Install(t, i, v)
  /\ UNCHANGED <<depth, op, permanent, sunk>>

ProbeTop(t, i, v) ==   \* mutant: only the innermost level is searched
  /\ IF table[At(t, i)][v] # None THEN Answer(t, i, v, table[At(t, i)][v]) /\ UNCHANGED op
     ELSE op' = [op EXCEPT ![t] = [level |-> i, content |-> v]] /\ UNCHANGED got
  /\ UNCHANGED <<depth, table, home, permanent, sunk>>

(* _from_bytes_in and List.cons_in probe the chain from a stack copy,      *)
(* _intern_owned with the buffer it finalizes.                             *)
Probe(t, i, v) ==
  /\ \/ \E x \in Ids : Lookup(t, i, v, x) /\ Answer(t, i, v, x) /\ UNCHANGED op
     \/ /\ Missing(t, i, v)
        /\ op' = [op EXCEPT ![t] = [level |-> i, content |-> v]]
        /\ UNCHANGED got
  /\ UNCHANGED <<depth, table, home, permanent, sunk>>

(* Pool.insert after the probe, of a String of any length: table.set_entry.*)
(* An export copies into a slot of the level.  A buffer that is finalized  *)
(* may be larger than what it holds, and belong to any level of the chain. *)
Insert(t) ==
  LET i == op[t].level  v == op[t].content
  IN /\ op[t] # None /\ v \in Short \cup Long
     /\ \E x \in Ids, h \in 0..i : /\ Fresh(x)
                                   /\ i # depth[t] => x \notin Large /\ h = i
                                   /\ Replace(At(t, i), v, x)
                                   /\ home' = [home EXCEPT ![x] = At(t, h)]
                                   /\ Answer(t, i, v, x)
     /\ op' = [op EXCEPT ![t] = None]
     /\ UNCHANGED <<depth, permanent, sunk>>

(* Pool.intern_new after the probe: the fused table operation. *)
InternNew(t) == /\ op[t] # None /\ op[t].content \in Cells
                /\ Install(t, op[t].level, op[t].content)
                /\ op' = [op EXCEPT ![t] = None]
                /\ UNCHANGED <<depth, permanent, sunk>>

(* The candidate or a larger table cannot be allocated: nothing is         *)
(* installed.                                                              *)
AllocFails(t) == /\ op[t] # None
                 /\ op' = [op EXCEPT ![t] = None]
                 /\ UNCHANGED <<depth, table, home, permanent, got, sunk>>

Idle(t) == op[t] = None

(* At the active level: String.new and cons; a long String is interned at  *)
(* once by String.new, but probed and inserted by String.intern_free and   *)
(* by the operations that build one in a buffer (_finish).                 *)
New(t, v) == Idle(t) /\ (Probe(t, depth[t], v) \/ Intern(t, depth[t], v))

(* Context.export of a value the Context's private pool owns. *)
Export(t, v) == /\ Idle(t) /\ t \in Exporters /\ depth[t] > Base(t)
                /\ table[Current(t)][v] # None
                /\ \/ v \notin Long /\ Probe(t, depth[t] - 1, v)
                   \/ Intern(t, depth[t] - 1, v)

-----------------------------------------------------------------------------
(* _promote_level, Pool.promote and Pool.own *)

(* x, the identity of v at i brackets, is published at levels low to i - 1 *)
(* and its storage survives to level low.  A slot that lives further out   *)
(* stays there; a large allocation is moved to low from wherever it was.   *)
Carries(t, i, low, x) == home[x] \in {At(t, j) : j \in low + 1 .. i} \/ (x \in Large /\ low < i)

RaiseOnly(t, i, low, v, x) ==   \* mutant: published, but its storage stays
  /\ table' = [l \in Level |-> [w \in Content |->
       IF w = v /\ l \in {At(t, j) : j \in low .. i - 1} /\ table[l][w] = None
       THEN x ELSE table[l][w]]]
  /\ UNCHANGED <<home, sunk>>

Raise(t, i, low, v, x) ==
  /\ table' = [l \in Level |-> [w \in Content |->
       IF w = v /\ l \in {At(t, j) : j \in low .. i - 1} /\ table[l][w] = None
       THEN x ELSE table[l][w]]]
  /\ home' = [home EXCEPT ![x] = IF Carries(t, i, low, x) THEN At(t, low) ELSE @]
  /\ sunk' = IF Carries(t, i, low, x) /\ home[x] \notin {At(t, j) : j \in low .. i}
             THEN sunk \cup {x} ELSE sunk

(* Only the innermost pool promotes, and only what its own table holds. *)
Promote(t, v) == /\ Idle(t) /\ depth[t] > 0
                 /\ table[Current(t)][v] # None
                 /\ Raise(t, depth[t], depth[t] - 1, v, table[Current(t)][v])
                 /\ UNCHANGED <<depth, op, permanent, got>>

Other(t, k, v, x) == k > 0 /\ table[At(t, k)][v] \notin {None, x}

(* Pool.own raises x from the level that holds it, at i brackets, level by *)
(* level to the root.  A level that holds another identity, or a promotion *)
(* that cannot be recorded, ends it at low: x is not proved safe.          *)
OwnAnyway(t, i, v) ==   \* mutant: a level in between is not asked
  \E x \in Ids, low \in 0..i :
    /\ Idle(t) /\ i \in 0..depth[t]
    /\ x = table[At(t, i)][v] /\ \A k \in i + 1 .. depth[t] : table[At(t, k)][v] # x
    /\ \A k \in low + 1 .. i - 1 : ~Other(t, k, v, x)
    /\ Raise(t, i, low, v, x)
    /\ permanent' = permanent \cup {x}
    /\ UNCHANGED <<depth, op, got>>

Own(t, i, v) ==
  \E x \in Ids, low \in 0..i :
    /\ Idle(t) /\ i \in 0..depth[t]
    /\ x = table[At(t, i)][v] /\ \A k \in i + 1 .. depth[t] : table[At(t, k)][v] # x
    /\ \A k \in low + 1 .. i - 1 : ~Other(t, k, v, x)
    /\ Raise(t, i, low, v, x)
    /\ permanent' = IF low = 0 THEN permanent \cup {x} ELSE permanent
    /\ UNCHANGED <<depth, op, got>>

-----------------------------------------------------------------------------
(* Pool.open and Pool.close *)

OpenBracket(t) == /\ Idle(t) /\ depth[t] < (IF t \in Shallow THEN 1 ELSE MaxDepth)
                  /\ depth' = [depth EXCEPT ![t] = @ + 1]
                  /\ UNCHANGED <<table, home, op, permanent, got, sunk>>

(* Pool.release: the level's table and every unpromoted identity go. *)
CloseBracket(t) ==
  LET gone == {x \in Ids : home[x] = Current(t)}
  IN /\ Idle(t) /\ depth[t] > Base(t)
     /\ depth' = [depth EXCEPT ![t] = @ - 1]
     /\ table' = [table EXCEPT ![Current(t)] = [v \in Content |-> None]]
     /\ home' = [x \in Ids |-> IF x \in gone THEN None ELSE home[x]]
     /\ got' = [u \in Threads |-> [v \in Cells |->
                 IF u = t \/ got[u][v] \in gone THEN None ELSE got[u][v]]]
     /\ UNCHANGED <<op, permanent, sunk>>

Next == \E t \in Threads :
          \/ \E v \in Content : \/ New(t, v) \/ Export(t, v) \/ Promote(t, v)
                                \/ \E i \in 0..MaxDepth : Own(t, i, v)
          \/ Insert(t) \/ InternNew(t) \/ AllocFails(t) \/ OpenBracket(t) \/ CloseBracket(t)

Spec == Init /\ [][Next]_vars

-----------------------------------------------------------------------------
(* Properties *)

TypeOK == /\ depth \in [Threads -> 0..MaxDepth]
          /\ table \in [Level -> [Content -> Ids \cup {None}]]
          /\ home \in [Ids -> Level \cup {None}]
          /\ op \in [Threads -> {None} \cup [level : 0..MaxDepth, content : Content]]
          /\ permanent \subseteq Ids /\ sunk \subseteq Large
          /\ got \in [Threads -> [Cells -> Ids \cup {None}]]

(* No table names storage that the release of another level has freed or   *)
(* will free first: an identity's home is the level itself or an ancestor, *)
(* unless the identity is large and was promoted although it lived further *)
(* out than the level it was promoted to.                                  *)
NoDangling == \A t \in Threads : \A i \in 0..depth[t] : \A v \in Content :
                LET x == table[At(t, i)][v] IN x \notin sunk \cup {None} => home[x] \in Chain(t, i)

(* storage.x, "Proves `object` safe beyond every pool": what Pool.own has  *)
(* answered 1 for lives at the root, also for the thread that lost a       *)
(* concurrent promotion of an equal value, with the same exception.        *)
PermanentSurvives == \A x \in permanent \ sunk : home[x] = Root

Exchanged(l, v) == table[l][v] # None /\ table'[l][v] # table[l][v]
Same(C) == \A t \in Threads, v \in C :
             None \in {got[t][v], got'[t][v]} \/ got'[t][v] = got[t][v]

(* storage.x:367, "that one stays canonical": the identity a level holds   *)
(* for a content is never exchanged for another while the level is open.   *)
KeepsIdentity == [][\A l \in Open \cap Open', v \in Content : ~ Exchanged(l, v)]_vars

(* Where that fails is the root, at the insertion of a String that its     *)
(* thread had not found there.  Nothing else exchanges an identity: not    *)
(* Pool.intern or Pool.intern_new, whatever another thread promotes in     *)
(* the meantime, nor an insertion in a bracket or in the level around it.  *)
Inserts(t, v) == /\ op[t] # None /\ op[t].level = 0 /\ op[t].content = v /\ op'[t] = None
                 /\ v \in Short \cup Long
KeepsInterned == [][\A l \in Open \cap Open', v \in Content :
                      Exchanged(l, v) => l = Root /\ \E t \in Threads : Inserts(t, v)]_vars

(* list/list.x, one pointer for equal cells: until its bracket closes, a   *)
(* thread gets no other pointer for the same List cell.  Cells are probed  *)
(* innermost first and inserted by the fused operation, also when an       *)
(* export or another thread's promotion puts an equal cell further out,    *)
(* and with any number of threads at work on the root.                     *)
SameCell == [][Same(Cells)]_vars
=============================================================================
