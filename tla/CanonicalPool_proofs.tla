------------------------ MODULE CanonicalPool_proofs ------------------------
(***************************************************************************)
(* For any threads, any brackets and any contents: no canonical table      *)
(* names storage that will go before it, and what Pool.own proved safe     *)
(* stays at the root, but for large identities that a promotion moved      *)
(* further in (sunk).                                                      *)
(***************************************************************************)
EXTENDS CanonicalPool, TLAPS

(* A constructor in progress works at a level its thread still has open:   *)
(* nothing opens or closes a bracket between its probe and its insertion.  *)
OpInv == \A t \in Threads : op[t] # None => op[t].level \in 0..depth[t]

(* The table of a level no thread has open is empty. *)
EmptyAbove == \A t \in Threads : \A i \in 1..MaxDepth :
                i > depth[t] => \A v \in Content : table[At(t, i)][v] = None

IInv == TypeOK /\ OpInv /\ EmptyAbove /\ NoDangling /\ PermanentSurvives

-----------------------------------------------------------------------------
(* Levels *)

LEMMA AtLevel == \A t \in Threads : \A i \in 0..MaxDepth : At(t, i) \in Level
  BY PoolAssumption DEF At, Level, Bracket

(* Two threads share no level but the root. *)
LEMMA AtOnce ==
  \A t, u \in Threads : \A i, j \in 0..MaxDepth :
    At(t, i) = At(u, j) => i = j /\ (i = 0 \/ t = u)
<1> SUFFICES ASSUME NEW t \in Threads, NEW u \in Threads, NEW i \in 0..MaxDepth,
                    NEW j \in 0..MaxDepth, At(t, i) = At(u, j)
             PROVE  i = j /\ (i = 0 \/ t = u)
  OBVIOUS
<1>1. i # 0 => <<t, i>> # Root
  BY NamesAssumption, PoolAssumption DEF Bracket
<1>2. j # 0 => <<u, j>> # Root
  BY NamesAssumption, PoolAssumption DEF Bracket
<1> QED BY <1>1, <1>2 DEF At

LEMMA AtRoot == \A t \in Threads : At(t, 0) = Root
  BY DEF At

LEMMA NotNone == /\ \A t \in Threads : \A i \in 0..MaxDepth : At(t, i) # None
                 /\ Root # None
                 /\ \A x \in Ids : x # None
  BY AtLevel, NamesAssumption DEF Level

LEMMA LevelIsAt == \A l \in Level : l = Root \/ \E t \in Threads : \E i \in 1..MaxDepth : l = At(t, i)
<1> SUFFICES ASSUME NEW l \in Level, l # Root
             PROVE \E t \in Threads : \E i \in 1..MaxDepth : l = At(t, i)
  OBVIOUS
<1>1. PICK t \in Threads, i \in 1..MaxDepth : l = <<t, i>>
  BY DEF Level, Bracket
<1>2. l = At(t, i)
  BY <1>1 DEF At
<1> QED BY <1>2

-----------------------------------------------------------------------------
(* The two ways a table changes *)

(* Fresh storage handed out at a level is named by that level alone. *)
LEMMA Installed ==
  ASSUME TypeOK, EmptyAbove, NoDangling, PermanentSurvives, NEW t \in Threads, NEW i \in 0..depth[t],
         NEW v \in Content, NEW x \in Ids, NEW h \in 0..i, Fresh(x), Replace(At(t, i), v, x),
         home' = [home EXCEPT ![x] = At(t, h)], depth' = depth, permanent' = permanent, sunk' = sunk
  PROVE  /\ table' \in [Level -> [Content -> Ids \cup {None}]]
         /\ home' \in [Ids -> Level \cup {None}]
         /\ EmptyAbove' /\ NoDangling' /\ PermanentSurvives'
<1>1. /\ i \in 0..MaxDepth /\ At(t, i) \in Level /\ depth[t] \in 0..MaxDepth
      /\ h \in 0..MaxDepth /\ At(t, h) \in Level
  BY AtLevel, PoolAssumption DEF TypeOK
<1>2. table' = [table EXCEPT ![At(t, i)][v] = x]
  BY DEF Replace
<1>3. table' \in [Level -> [Content -> Ids \cup {None}]]
  BY <1>1, <1>2 DEF TypeOK
<1>4. home' \in [Ids -> Level \cup {None}]
  BY <1>1 DEF TypeOK
<1>5. NoDangling'
  <2> SUFFICES ASSUME NEW u \in Threads, NEW j \in 0..depth[u], NEW w \in Content,
                      table'[At(u, j)][w] # None, table'[At(u, j)][w] \notin sunk
               PROVE  home'[table'[At(u, j)][w]] \in Chain(u, j)
    BY DEF NoDangling
  <2>1. At(u, j) \in Level /\ j \in 0..MaxDepth
    BY AtLevel, PoolAssumption DEF TypeOK
  <2>2. CASE At(u, j) = At(t, i) /\ w = v
    <3>1. table'[At(u, j)][w] = x
      BY <1>1, <1>2, <2>1, <2>2 DEF TypeOK
    <3>2. home'[x] = At(t, h)
      BY DEF TypeOK
    <3>3. i = j /\ (i = 0 \/ t = u)
      BY <1>1, <2>1, <2>2, AtOnce
    <3>4. At(t, h) = At(u, h) /\ h \in 0..j
      BY <3>3, AtRoot
    <3> QED BY <3>1, <3>2, <3>4 DEF Chain
  <2>3. CASE ~(At(u, j) = At(t, i) /\ w = v)
    <3>1. table'[At(u, j)][w] = table[At(u, j)][w]
      BY <1>1, <1>2, <2>1, <2>3 DEF TypeOK
    <3>2. home[table[At(u, j)][w]] \in Chain(u, j)
      BY <3>1 DEF NoDangling
    <3>3. home[table[At(u, j)][w]] # None
      BY <3>2, NotNone, PoolAssumption DEF Chain, TypeOK
    <3>4. table[At(u, j)][w] # x /\ table[At(u, j)][w] \in Ids
      BY <3>1, <3>3, <2>1 DEF Fresh, TypeOK
    <3> QED BY <3>1, <3>2, <3>4 DEF TypeOK
  <2> QED BY <2>2, <2>3
<1>6. PermanentSurvives'
  BY NotNone DEF PermanentSurvives, Fresh, TypeOK
<1>7. EmptyAbove'
  <2> SUFFICES ASSUME NEW u \in Threads, NEW j \in 1..MaxDepth, j > depth[u], NEW w \in Content
               PROVE  table'[At(u, j)][w] = None
    BY DEF EmptyAbove
  <2>1. At(u, j) \in Level /\ At(u, j) # At(t, i)
    BY <1>1, AtLevel, AtOnce, PoolAssumption DEF TypeOK
  <2> QED BY <1>1, <1>2, <2>1 DEF TypeOK, EmptyAbove
<1> QED BY <1>3, <1>4, <1>5, <1>6, <1>7

(* A promotion moves storage no further out than the levels that name it.  *)
LEMMA Raised ==
  ASSUME TypeOK, EmptyAbove, NoDangling, NEW t \in Threads, NEW i \in 0..depth[t], NEW low \in 0..i,
         NEW v \in Content, NEW x, x = table[At(t, i)][v], x # None,
         Raise(t, i, low, v, x), depth' = depth
  PROVE  /\ table' \in [Level -> [Content -> Ids \cup {None}]]
         /\ home' \in [Ids -> Level \cup {None}]
         /\ EmptyAbove' /\ NoDangling' /\ sunk \subseteq sunk' /\ sunk' \subseteq Large
         /\ \A y \in Ids \ sunk' : home[y] = Root => home'[y] = Root
         /\ low = 0 /\ x \notin sunk' => home'[x] = Root
<1> DEFINE up == {At(t, j) : j \in low .. i - 1}
           moved == {At(t, j) : j \in low + 1 .. i}
<1>1. /\ depth[t] \in 0..MaxDepth /\ i \in 0..MaxDepth /\ low \in 0..MaxDepth
      /\ At(t, i) \in Level /\ At(t, low) \in Level
  BY AtLevel, PoolAssumption DEF TypeOK
<1>2. x \in Ids
  BY <1>1 DEF TypeOK
<1>3. table' = [l \in Level |-> [w \in Content |->
        IF w = v /\ l \in up /\ table[l][w] = None THEN x ELSE table[l][w]]]
  BY DEF Raise
<1>4. home' = [home EXCEPT ![x] = IF Carries(t, i, low, x) THEN At(t, low) ELSE @]
  BY DEF Raise
<1>5. /\ sunk \subseteq sunk' /\ sunk' \subseteq sunk \cup {x}
      /\ x \in sunk' => x \in Large
  BY DEF Raise, Carries, TypeOK
<1>6. x \notin sunk' => \E h \in 0..i : /\ home[x] = At(t, h)
                                        /\ IF h <= low THEN home'[x] = At(t, h) ELSE home'[x] = At(t, low)
  <2> SUFFICES ASSUME x \notin sunk'
               PROVE  \E h \in 0..i : /\ home[x] = At(t, h)
                                      /\ IF h <= low THEN home'[x] = At(t, h) ELSE home'[x] = At(t, low)
    OBVIOUS
  <2>1. home[x] \in Chain(t, i)
    BY <1>5 DEF NoDangling
  <2>2. PICK h \in 0..i : home[x] = At(t, h)
    BY <2>1 DEF Chain
  <2>3. CASE h > low
    <3>1. h \in low + 1 .. i
      BY <1>1, <2>3
    <3>2. home'[x] = At(t, low)
      BY <1>2, <1>4, <2>2, <3>1 DEF Carries, TypeOK
    <3> QED BY <2>2, <2>3, <3>2
  <2>4. CASE h <= low
    <3>1. \A j \in low + 1 .. i : At(t, h) # At(t, j)
      BY <1>1, <2>4, AtOnce, PoolAssumption
    <3>2. home[x] \notin moved
      BY <2>2, <3>1
    <3>3. Carries(t, i, low, x) => home[x] \in {At(t, j) : j \in low .. i}
      BY DEF Raise
    <3>4. Carries(t, i, low, x) => h = low
      <4> SUFFICES ASSUME Carries(t, i, low, x) PROVE h = low
        OBVIOUS
      <4>1. PICK j \in low .. i : At(t, h) = At(t, j)
        BY <2>2, <3>3
      <4> QED BY <1>1, <2>4, <4>1, AtOnce, PoolAssumption
    <3>5. home'[x] = At(t, h)
      BY <1>2, <1>4, <2>2, <3>4 DEF TypeOK
    <3> QED BY <2>2, <2>4, <3>5
  <2> QED BY <1>1, <2>3, <2>4
<1>7. x \notin sunk' => \E g \in 0..low : home'[x] = At(t, g)
  BY <1>1, <1>6, PoolAssumption
<1>8. \A y \in Ids : y # x => home'[y] = home[y]
  BY <1>4 DEF TypeOK
<1> HIDE DEF up, moved
<1>9. table' \in [Level -> [Content -> Ids \cup {None}]]
  BY <1>2, <1>3 DEF TypeOK
<1>10. home' \in [Ids -> Level \cup {None}]
  <2>2. home'[x] \in Level \cup {None}
    BY <1>1, <1>2, <1>4 DEF TypeOK
  <2>3. \A y \in Ids : home'[y] \in Level \cup {None}
    BY <1>8, <2>2 DEF TypeOK
  <2>4. home' = [y \in Ids |-> home'[y]]
    BY <1>4 DEF TypeOK
  <2> QED BY ONLY <2>3, <2>4
<1>11. NoDangling'
  <2> SUFFICES ASSUME NEW u \in Threads, NEW j \in 0..depth[u], NEW w \in Content,
                      NEW y, y = table'[At(u, j)][w], y # None, y \notin sunk'
               PROVE  home'[y] \in Chain(u, j)
    BY DEF NoDangling
  <2>1. At(u, j) \in Level /\ j \in 0..MaxDepth
    BY AtLevel, PoolAssumption DEF TypeOK
  <2>2. CASE w = v /\ At(u, j) \in up /\ table[At(u, j)][w] = None
    <3>1. y = x
      BY <1>3, <2>1, <2>2
    <3>2. PICK k \in low .. i - 1 : At(u, j) = At(t, k)
      BY <2>2 DEF up
    <3>3. k = j /\ (j = 0 \/ u = t) /\ k \in 0..MaxDepth
      BY <1>1, <2>1, <3>2, AtOnce, PoolAssumption
    <3>4. PICK g \in 0..low : home'[x] = At(t, g)
      BY <1>7, <3>1
    <3>5. g \in 0..j /\ (j = 0 => At(t, g) = At(u, 0))
      BY <3>2, <3>3, <3>4, AtRoot, PoolAssumption
    <3> QED BY <3>1, <3>3, <3>4, <3>5 DEF Chain
  <2>3. CASE ~(w = v /\ At(u, j) \in up /\ table[At(u, j)][w] = None)
    <3>1. y = table[At(u, j)][w] /\ y \in Ids
      BY <1>3, <2>1, <2>3 DEF TypeOK
    <3>2. home[y] \in Chain(u, j)
      BY <1>5, <3>1 DEF NoDangling
    <3>3. CASE y # x
      BY <1>8, <3>1, <3>2, <3>3
    <3>4. CASE y = x
      <4>1. PICK h \in 0..i : /\ home[x] = At(t, h)
                              /\ IF h <= low THEN home'[x] = At(t, h) ELSE home'[x] = At(t, low)
        BY <1>6, <3>4
      <4>2. CASE h <= low
        BY <3>2, <3>4, <4>1, <4>2
      <4>3. CASE ~(h <= low)
        <5>1. PICK k \in 0..j : At(t, h) = At(u, k)
          BY <3>2, <3>4, <4>1 DEF Chain
        <5>2. u = t /\ k = h
          BY <1>1, <2>1, <4>3, <5>1, AtOnce, PoolAssumption
        <5>3. low \in 0..j
          BY <1>1, <2>1, <4>3, <5>1, <5>2, PoolAssumption
        <5> QED BY <3>4, <4>1, <4>3, <5>2, <5>3 DEF Chain
      <4> QED BY <4>2, <4>3
    <3> QED BY <3>3, <3>4
  <2> QED BY <2>2, <2>3
<1>12. ASSUME NEW y \in Ids \ sunk', home[y] = Root PROVE home'[y] = Root
  <2>1. CASE y # x
    BY <1>8, <1>12, <2>1
  <2>2. CASE y = x
    <3>1. PICK h \in 0..i : /\ home[x] = At(t, h)
                            /\ IF h <= low THEN home'[x] = At(t, h) ELSE home'[x] = At(t, low)
      BY <1>6, <1>12, <2>2
    <3>2. h = 0
      BY <1>1, <1>12, <2>2, <3>1, AtOnce, AtRoot, PoolAssumption
    <3> QED BY <1>1, <2>2, <3>1, <3>2, AtRoot
  <2> QED BY <2>1, <2>2
<1>13. low = 0 /\ x \notin sunk' => home'[x] = Root
  BY <1>7, AtRoot
<1>14. EmptyAbove'
  <2> SUFFICES ASSUME NEW u \in Threads, NEW j \in 1..MaxDepth, j > depth[u], NEW w \in Content
               PROVE  table'[At(u, j)][w] = None
    BY DEF EmptyAbove
  <2>1. At(u, j) \in Level
    BY AtLevel, PoolAssumption
  <2>2. \A k \in low .. i - 1 : At(u, j) # At(t, k)
    BY <1>1, AtOnce, PoolAssumption DEF TypeOK
  <2>3. At(u, j) \notin up
    BY <2>2 DEF up
  <2> QED BY <1>3, <2>1, <2>3 DEF EmptyAbove
<1>15. sunk' \subseteq Large
  BY <1>5 DEF TypeOK
<1> QED BY <1>5, <1>9, <1>10, <1>11, <1>12, <1>13, <1>14, <1>15

-----------------------------------------------------------------------------
(* The constructors *)

LEMMA Answered ==
  ASSUME TypeOK, NEW t \in Threads, NEW i, NEW v \in Content, NEW x \in Ids, Answer(t, i, v, x)
  PROVE  got' \in [Threads -> [Cells -> Ids \cup {None}]]
  BY DEF TypeOK, Answer

LEMMA InstallStep ==
  ASSUME IInv, NEW t \in Threads, NEW i \in 0..depth[t], NEW v \in Content,
         Install(t, i, v), depth' = depth, permanent' = permanent, sunk' = sunk
  PROVE  /\ table' \in [Level -> [Content -> Ids \cup {None}]]
         /\ home' \in [Ids -> Level \cup {None}]
         /\ got' \in [Threads -> [Cells -> Ids \cup {None}]]
         /\ EmptyAbove' /\ NoDangling' /\ PermanentSurvives'
<1>1. At(t, i) \in Level
  BY AtLevel, PoolAssumption DEF IInv, TypeOK
<1>2. CASE table[At(t, i)][v] # None /\ Answer(t, i, v, table[At(t, i)][v]) /\ UNCHANGED <<table, home>>
  <2>1. table[At(t, i)][v] \in Ids
    BY <1>1, <1>2 DEF IInv, TypeOK
  <2>2. got' \in [Threads -> [Cells -> Ids \cup {None}]]
    BY <1>2, <2>1, Answered DEF IInv
  <2> QED BY <1>2, <2>2 DEF IInv, TypeOK, EmptyAbove, NoDangling, PermanentSurvives
<1>3. ASSUME NEW x \in Ids, Fresh(x), Replace(At(t, i), v, x), home' = [home EXCEPT ![x] = At(t, i)],
             Answer(t, i, v, x)
      PROVE  /\ table' \in [Level -> [Content -> Ids \cup {None}]]
             /\ home' \in [Ids -> Level \cup {None}]
             /\ got' \in [Threads -> [Cells -> Ids \cup {None}]]
             /\ EmptyAbove' /\ NoDangling' /\ PermanentSurvives'
  <2>1. i \in 0..i
    BY DEF IInv, TypeOK
  <2> QED BY <1>3, <2>1, Installed, Answered DEF IInv
<1> QED BY <1>2, <1>3 DEF Install

LEMMA ProbeStep ==
  ASSUME IInv, NEW t \in Threads, NEW i \in 0..depth[t], NEW v \in Content, Probe(t, i, v)
  PROVE  IInv'
<1>1. UNCHANGED <<depth, table, home, permanent, sunk>>
  BY DEF Probe
<1>2. EmptyAbove' /\ NoDangling' /\ PermanentSurvives'
  BY <1>1 DEF IInv, EmptyAbove, NoDangling, PermanentSurvives
<1>3. ASSUME NEW x \in Ids, Answer(t, i, v, x), op' = op PROVE IInv'
  <2>1. got' \in [Threads -> [Cells -> Ids \cup {None}]]
    BY <1>3, Answered DEF IInv
  <2> QED BY <1>1, <1>2, <1>3, <2>1 DEF IInv, TypeOK, OpInv
<1>4. ASSUME op' = [op EXCEPT ![t] = [level |-> i, content |-> v]], got' = got PROVE IInv'
  <2>2. i \in 0..MaxDepth
    BY PoolAssumption DEF IInv, TypeOK
  <2>3. op' \in [Threads -> {None} \cup [level : 0..MaxDepth, content : Content]]
    BY <1>4, <2>2 DEF IInv, TypeOK
  <2>4. OpInv'
    BY <1>1, <1>4 DEF IInv, TypeOK, OpInv
  <2> QED BY <1>1, <1>2, <1>4, <2>3, <2>4 DEF IInv, TypeOK
<1> QED BY <1>3, <1>4 DEF Probe

LEMMA InternStep ==
  ASSUME IInv, NEW t \in Threads, NEW i \in 0..depth[t], NEW v \in Content, Intern(t, i, v)
  PROVE  IInv'
<1>1. UNCHANGED <<depth, op, permanent, sunk>>
  BY DEF Intern
<1>2. ASSUME NEW x \in Ids, Answer(t, i, v, x), UNCHANGED <<table, home>> PROVE IInv'
  <2>1. got' \in [Threads -> [Cells -> Ids \cup {None}]]
    BY <1>2, Answered DEF IInv
  <2> QED BY <1>1, <1>2, <2>1 DEF IInv, TypeOK, OpInv, EmptyAbove, NoDangling, PermanentSurvives
<1>3. CASE Install(t, i, v)
  BY <1>1, <1>3, InstallStep DEF IInv, TypeOK, OpInv
<1> QED BY <1>2, <1>3 DEF Intern

-----------------------------------------------------------------------------

LEMMA InitInv == Init => IInv
<1> SUFFICES ASSUME Init PROVE IInv
  OBVIOUS
<1>1. TypeOK
  BY PoolAssumption DEF Init, TypeOK, Base
<1>2. \A t \in Threads : \A i \in 0..depth[t] : At(t, i) \in Level
  BY <1>1, AtLevel, PoolAssumption DEF TypeOK
<1>3. OpInv /\ EmptyAbove /\ NoDangling /\ PermanentSurvives
  BY <1>2, AtLevel, PoolAssumption DEF Init, OpInv, EmptyAbove, NoDangling, PermanentSurvives
<1> QED BY <1>1, <1>3 DEF IInv

LEMMA NextInv == IInv /\ [Next]_vars => IInv'
<1> SUFFICES ASSUME IInv, [Next]_vars PROVE IInv'
  OBVIOUS
<1> USE PoolAssumption
<1>1. ASSUME NEW t \in Threads, NEW v \in Content, New(t, v) PROVE IInv'
  <2>1. depth[t] \in 0..depth[t]
    BY DEF IInv, TypeOK
  <2> QED BY <1>1, <2>1, ProbeStep, InternStep DEF New
<1>2. ASSUME NEW t \in Threads, NEW v \in Content, Export(t, v) PROVE IInv'
  <2>1. depth[t] - 1 \in 0..depth[t]
    BY <1>2 DEF Export, Base, IInv, TypeOK
  <2> QED BY <1>2, <2>1, ProbeStep, InternStep DEF Export
<1>3. ASSUME NEW t \in Threads, NEW v \in Content, Promote(t, v) PROVE IInv'
  <2> DEFINE x == table[Current(t)][v]
  <2>1. depth[t] \in 0..depth[t] /\ depth[t] - 1 \in 0..depth[t]
    BY <1>3 DEF Promote, IInv, TypeOK
  <2>2. Raise(t, depth[t], depth[t] - 1, v, x) /\ x # None
    BY <1>3 DEF Promote
  <2>3. /\ table' \in [Level -> [Content -> Ids \cup {None}]]
        /\ home' \in [Ids -> Level \cup {None}]
        /\ EmptyAbove' /\ NoDangling' /\ sunk \subseteq sunk' /\ sunk' \subseteq Large
        /\ \A y \in Ids \ sunk' : home[y] = Root => home'[y] = Root
    BY <1>3, <2>1, <2>2, Raised DEF Promote, Current, IInv
  <2> QED BY <1>3, <2>3 DEF Promote, IInv, TypeOK, OpInv, PermanentSurvives
<1>4. ASSUME NEW t \in Threads, NEW v \in Content, NEW i \in 0..MaxDepth, Own(t, i, v) PROVE IInv'
  <2>1. PICK x \in Ids, low \in 0..i :
          /\ i \in 0..depth[t] /\ x = table[At(t, i)][v]
          /\ Raise(t, i, low, v, x) /\ UNCHANGED <<depth, op, got>>
          /\ permanent' = IF low = 0 THEN permanent \cup {x} ELSE permanent
    BY <1>4 DEF Own
  <2>2. /\ table' \in [Level -> [Content -> Ids \cup {None}]]
        /\ home' \in [Ids -> Level \cup {None}]
        /\ EmptyAbove' /\ NoDangling' /\ sunk \subseteq sunk' /\ sunk' \subseteq Large
        /\ \A y \in Ids \ sunk' : home[y] = Root => home'[y] = Root
        /\ low = 0 /\ x \notin sunk' => home'[x] = Root
    BY <2>1, NotNone, Raised DEF IInv
  <2>3. permanent' \subseteq Ids /\ PermanentSurvives'
    BY <2>1, <2>2 DEF IInv, TypeOK, PermanentSurvives
  <2> QED BY <2>1, <2>2, <2>3 DEF IInv, TypeOK, OpInv
<1>5. ASSUME NEW t \in Threads, Insert(t) PROVE IInv'
  <2> DEFINE i == op[t].level
             v == op[t].content
  <2>1. i \in 0..depth[t] /\ v \in Content
    BY <1>5 DEF Insert, IInv, OpInv, Content
  <2>2. PICK x \in Ids, h \in 0..i : /\ Fresh(x) /\ Replace(At(t, i), v, x)
                                     /\ home' = [home EXCEPT ![x] = At(t, h)] /\ Answer(t, i, v, x)
    BY <1>5 DEF Insert
  <2>3. op' = [op EXCEPT ![t] = None] /\ UNCHANGED <<depth, permanent, sunk>>
    BY <1>5 DEF Insert
  <2> HIDE DEF i, v
  <2>4. /\ table' \in [Level -> [Content -> Ids \cup {None}]]
        /\ home' \in [Ids -> Level \cup {None}]
        /\ EmptyAbove' /\ NoDangling' /\ PermanentSurvives'
    BY <2>1, <2>2, <2>3, Installed DEF IInv
  <2>5. got' \in [Threads -> [Cells -> Ids \cup {None}]]
    BY <2>1, <2>2, Answered DEF IInv
  <2> QED BY <2>3, <2>4, <2>5 DEF IInv, TypeOK, OpInv
<1>6. ASSUME NEW t \in Threads, InternNew(t) PROVE IInv'
  <2> DEFINE i == op[t].level
             v == op[t].content
  <2>1. i \in 0..depth[t] /\ v \in Content
    BY <1>6 DEF InternNew, IInv, OpInv, Content
  <2>2. Install(t, i, v) /\ op' = [op EXCEPT ![t] = None] /\ UNCHANGED <<depth, permanent, sunk>>
    BY <1>6 DEF InternNew
  <2> HIDE DEF i, v
  <2>3. /\ table' \in [Level -> [Content -> Ids \cup {None}]]
        /\ home' \in [Ids -> Level \cup {None}]
        /\ got' \in [Threads -> [Cells -> Ids \cup {None}]]
        /\ EmptyAbove' /\ NoDangling' /\ PermanentSurvives'
    BY <2>1, <2>2, InstallStep
  <2> QED BY <2>2, <2>3 DEF IInv, TypeOK, OpInv
<1>7. ASSUME NEW t \in Threads, AllocFails(t) PROVE IInv'
  BY <1>7 DEF AllocFails, IInv, TypeOK, OpInv, EmptyAbove, NoDangling, PermanentSurvives
<1>8. ASSUME NEW t \in Threads, OpenBracket(t) PROVE IInv'
  <2>1. /\ depth' = [depth EXCEPT ![t] = depth[t] + 1] /\ op[t] = None /\ depth[t] < MaxDepth
        /\ UNCHANGED <<table, home, op, permanent, got, sunk>>
    BY <1>8 DEF OpenBracket, Idle, IInv, TypeOK
  <2>2. depth' \in [Threads -> 0..MaxDepth]
    BY <2>1 DEF IInv, TypeOK
  <2>3. OpInv'
    BY <2>1 DEF IInv, TypeOK, OpInv
  <2>4. NoDangling'
    <3> SUFFICES ASSUME NEW u \in Threads, NEW j \in 0..depth'[u], NEW w \in Content,
                        table[At(u, j)][w] # None, table[At(u, j)][w] \notin sunk
                 PROVE  home[table[At(u, j)][w]] \in Chain(u, j)
      BY <2>1 DEF NoDangling
    <3>1. CASE j <= depth[u]
      BY <3>1 DEF IInv, TypeOK, NoDangling
    <3>2. CASE j > depth[u]
      <4>1. j \in 1..MaxDepth
        BY <2>2, <3>2 DEF IInv, TypeOK
      <4>2. table[At(u, j)][w] = None
        BY <3>2, <4>1 DEF IInv, EmptyAbove
      <4> QED BY <4>2
    <3> QED BY <2>2, <3>1, <3>2 DEF IInv, TypeOK
  <2>5. EmptyAbove'
    BY <2>1, <2>2 DEF IInv, TypeOK, EmptyAbove
  <2> QED BY <2>1, <2>2, <2>3, <2>4, <2>5 DEF IInv, TypeOK, PermanentSurvives
<1>9. ASSUME NEW t \in Threads, CloseBracket(t) PROVE IInv'
  <2> DEFINE d == depth[t]
             gone == {x \in Ids : home[x] = At(t, d)}
  <2>1. /\ d \in 1..MaxDepth /\ At(t, d) \in Level /\ op[t] = None
        /\ depth' = [depth EXCEPT ![t] = d - 1]
        /\ table' = [table EXCEPT ![At(t, d)] = [v \in Content |-> None]]
        /\ home' = [x \in Ids |-> IF x \in gone THEN None ELSE home[x]]
        /\ got' = [u \in Threads |-> [v \in Cells |->
                      IF u = t \/ got[u][v] \in gone THEN None ELSE got[u][v]]]
        /\ UNCHANGED <<op, permanent, sunk>>
    <3>1. d \in 1..MaxDepth
      BY <1>9 DEF CloseBracket, Base, IInv, TypeOK
    <3> QED BY <1>9, <3>1, AtLevel DEF CloseBracket, Current, Idle
  <2>2. depth' \in [Threads -> 0..MaxDepth] /\ depth'[t] = d - 1
        /\ \A u \in Threads : u # t => depth'[u] = depth[u]
    BY <2>1 DEF IInv, TypeOK
  <2>3. \A u \in Threads : \A j \in 0..depth'[u] : At(u, j) # At(t, d)
    BY <2>1, <2>2, AtOnce DEF IInv, TypeOK
  <2> HIDE DEF gone
  <2>4. /\ table' \in [Level -> [Content -> Ids \cup {None}]]
        /\ home' \in [Ids -> Level \cup {None}]
        /\ got' \in [Threads -> [Cells -> Ids \cup {None}]]
    BY <2>1 DEF IInv, TypeOK
  <2>5. NoDangling'
    <3> SUFFICES ASSUME NEW u \in Threads, NEW j \in 0..depth'[u], NEW w \in Content,
                        NEW x, x = table'[At(u, j)][w], x # None, x \notin sunk
                 PROVE  home'[x] \in Chain(u, j)
      BY <2>1 DEF NoDangling
    <3>1. j \in 0..depth[u] /\ j \in 0..MaxDepth /\ At(u, j) \in Level
      BY <2>1, <2>2, AtLevel DEF IInv, TypeOK
    <3>2. x = table[At(u, j)][w] /\ x \in Ids
      BY <2>1, <2>3, <3>1 DEF IInv, TypeOK
    <3>3. PICK k \in 0..j : home[x] = At(u, k)
      BY <3>1, <3>2 DEF IInv, NoDangling, Chain
    <3>4. x \notin gone
      BY <2>2, <2>3, <3>1, <3>3 DEF gone
    <3> QED BY <2>1, <3>2, <3>3, <3>4 DEF Chain
  <2>6. OpInv'
    BY <2>1, <2>2 DEF IInv, TypeOK, OpInv
  <2>7. PermanentSurvives'
    <3>1. At(t, d) # Root
      BY <2>1, AtOnce, AtRoot
    <3> QED BY <2>1, <3>1 DEF gone, IInv, TypeOK, PermanentSurvives
  <2>8. EmptyAbove'
    <3> SUFFICES ASSUME NEW u \in Threads, NEW j \in 1..MaxDepth, j > depth'[u], NEW w \in Content
                 PROVE  table'[At(u, j)][w] = None
      BY DEF EmptyAbove
    <3>1. At(u, j) \in Level
      BY AtLevel
    <3>2. CASE At(u, j) = At(t, d)
      BY <2>1, <3>1, <3>2 DEF IInv, TypeOK
    <3>3. CASE At(u, j) # At(t, d)
      <4>1. u = t => j >= d /\ j # d
        <5>1. u = t => j > d - 1 /\ j # d
          BY <2>2, <3>3
        <5> QED BY <2>1, <5>1
      <4>2. u # t => j > depth[u]
        BY <2>2
      <4>3. j > depth[u]
        <5>1. d \in Nat /\ j \in Nat
          BY <2>1
        <5>2. u = t => depth[u] = d
          OBVIOUS
        <5> HIDE DEF d
        <5>3. u = t => j > d
          BY <4>1, <5>1
        <5> QED BY ONLY <4>2, <5>2, <5>3
      <4> QED BY <2>1, <3>1, <3>3, <4>3 DEF IInv, TypeOK, EmptyAbove
    <3> QED BY <3>2, <3>3
  <2> QED BY <2>1, <2>2, <2>4, <2>5, <2>6, <2>7, <2>8 DEF IInv, TypeOK
<1>10. CASE UNCHANGED vars
  BY <1>10 DEF vars, IInv, TypeOK, OpInv, EmptyAbove, NoDangling, PermanentSurvives
<1> QED BY <1>1, <1>2, <1>3, <1>4, <1>5, <1>6, <1>7, <1>8, <1>9, <1>10 DEF Next

LEMMA Inductive == Spec => []IInv
<1>1. IInv /\ [Next]_vars => IInv'
  BY NextInv
<1> QED BY InitInv, <1>1, PTL DEF Spec

(* Every variable keeps its type; in particular no thread closes the level *)
(* it runs on.                                                             *)
THEOREM TypeCorrect == Spec => []TypeOK
<1>1. IInv => TypeOK
  BY DEF IInv
<1> QED BY <1>1, Inductive, PTL

(* However threads intern, promote and close their brackets, no canonical  *)
(* table ever names storage that was freed or that will be freed before    *)
(* the level the table belongs to.                                         *)
THEOREM TablesNameLiveStorage == Spec => []NoDangling
<1>1. IInv => NoDangling
  BY DEF IInv
<1> QED BY <1>1, Inductive, PTL

(* A value Pool.own has proved safe belongs to the root for good, whoever  *)
(* wins the promotion of an equal value.                                   *)
THEOREM OwnedForGood == Spec => []PermanentSurvives
<1>1. IInv => PermanentSurvives
  BY DEF IInv
<1> QED BY <1>1, Inductive, PTL
-----------------------------------------------------------------------------
(* Identities are kept *)

(* A level that exists on both sides of the step. *)
LEMMA OpenLevel == TypeOK => Open \subseteq Level
<1> SUFFICES ASSUME TypeOK, NEW t \in Threads, NEW j \in 0..depth[t] PROVE At(t, j) \in Level
  BY DEF Open, Chain
<1>1. j \in 0..MaxDepth
  BY PoolAssumption DEF TypeOK
<1> QED BY <1>1, AtLevel

(* Install and Raise fill empty places only. *)
LEMMA FillsEmpty ==
  ASSUME TypeOK, NEW l \in Level, NEW v \in Content, table[l][v] # None,
         \/ \E t \in Threads, i \in 0..MaxDepth, w \in Content : Install(t, i, w)
         \/ \E t \in Threads, i \in Nat, low \in Nat, w \in Content, x \in Ids : Raise(t, i, low, w, x)
  PROVE  table'[l][v] = table[l][v]
<1>1. ASSUME NEW t \in Threads, NEW i \in 0..MaxDepth, NEW w \in Content, Install(t, i, w)
      PROVE  table'[l][v] = table[l][v]
  <2>1. At(t, i) \in Level
    BY AtLevel
  <2> QED BY <1>1, <2>1 DEF Install, Replace, TypeOK
<1>2. ASSUME NEW t \in Threads, NEW i \in Nat, NEW low \in Nat, NEW w \in Content, NEW x \in Ids,
             Raise(t, i, low, w, x)
      PROVE  table'[l][v] = table[l][v]
  BY <1>2 DEF Raise
<1> QED BY <1>1, <1>2

(* A level that is closed is no longer open: every other thread's levels   *)
(* bear other names.                                                       *)
LEMMA ClosedLevel ==
  ASSUME TypeOK, NEW t \in Threads, CloseBracket(t) PROVE Current(t) \notin Open'
<1> SUFFICES ASSUME NEW u \in Threads, NEW j \in 0..depth'[u], At(t, depth[t]) = At(u, j) PROVE FALSE
  BY DEF Open, Chain, Current
<1>1. depth[t] \in 1..MaxDepth /\ depth' = [depth EXCEPT ![t] = @ - 1]
  BY PoolAssumption DEF CloseBracket, Base, TypeOK
<1>2. depth'[u] \in 0..MaxDepth /\ j \in 0..MaxDepth
  BY <1>1, PoolAssumption DEF TypeOK
<1>3. u = t /\ j = depth[t]
  BY <1>1, <1>2, AtOnce, PoolAssumption
<1> QED BY <1>1, <1>3 DEF TypeOK

Does(u) == \/ \E v \in Content : \/ New(u, v) \/ Export(u, v) \/ Promote(u, v)
                                 \/ \E i \in 0..MaxDepth : Own(u, i, v)
           \/ Insert(u) \/ InternNew(u) \/ AllocFails(u) \/ OpenBracket(u) \/ CloseBracket(u)

(* A step changes levels of its own thread only, and gives a place that is *)
(* taken another identity only when it inserts or releases the level.      *)
LEMMA Touches ==
  ASSUME IInv, NEW u \in Threads, Does(u), NEW l \in Level, NEW v \in Content,
         table'[l][v] # table[l][v]
  PROVE  /\ \E k \in 0..depth[u] : l = At(u, k)
         /\ \/ table[l][v] = None
            \/ Insert(u) /\ l = At(u, op[u].level) /\ v = op[u].content
            \/ CloseBracket(u) /\ l = Current(u)
<1> USE PoolAssumption
<1>1. TypeOK /\ depth[u] \in 0..MaxDepth /\ depth[u] \in Nat
  BY DEF IInv, TypeOK
<1>2. ASSUME NEW i \in 0..depth[u], NEW w \in Content, Install(u, i, w)
      PROVE  l = At(u, i) /\ table[l][v] = None
  <2>1. i \in 0..MaxDepth /\ At(u, i) \in Level
    BY <1>1, AtLevel
  <2>2. table[l][v] = None
    BY <1>1, <1>2, <2>1, FillsEmpty
  <2>3. l = At(u, i)
    BY <1>1, <1>2, <2>1 DEF Install, Replace, TypeOK
  <2> QED BY <2>2, <2>3
<1>3. ASSUME NEW i \in 0..depth[u], NEW w \in Content, Probe(u, i, w) \/ Intern(u, i, w)
      PROVE  l = At(u, i) /\ table[l][v] = None
  BY <1>2, <1>3 DEF Probe, Intern
<1>4. ASSUME NEW w \in Content, New(u, w) \/ Export(u, w)
      PROVE  \E k \in 0..depth[u] : l = At(u, k) /\ table[l][v] = None
  <2>1. depth[u] \in 0..depth[u] /\ (depth[u] > 0 => depth[u] - 1 \in 0..depth[u])
    BY <1>1
  <2>2. Export(u, w) => depth[u] > 0
    BY <1>1 DEF Export, Base
  <2>3. CASE New(u, w)
    BY <1>3, <2>1, <2>3 DEF New
  <2>4. CASE Export(u, w)
    BY <1>3, <2>1, <2>2, <2>4 DEF Export
  <2> QED BY <1>4, <2>3, <2>4
<1>5. ASSUME NEW i \in 0..depth[u], NEW low \in Nat, NEW w \in Content, NEW x, Raise(u, i, low, w, x)
      PROVE  \E k \in 0..depth[u] : l = At(u, k) /\ table[l][v] = None
  <2>1. table[l][v] = None /\ l \in {At(u, j) : j \in low .. i - 1}
    BY <1>1, <1>5 DEF Raise
  <2>2. PICK k \in low .. i - 1 : l = At(u, k)
    BY <2>1
  <2>3. k \in 0..depth[u]
    BY <1>1, <2>2
  <2> QED BY <2>1, <2>2, <2>3
<1>6. ASSUME NEW w \in Content, Promote(u, w)
      PROVE  \E k \in 0..depth[u] : l = At(u, k) /\ table[l][v] = None
  <2>1. depth[u] \in 0..depth[u] /\ depth[u] - 1 \in Nat
    BY <1>1, <1>6 DEF Promote
  <2> QED BY <1>5, <1>6, <2>1 DEF Promote
<1>7. ASSUME NEW w \in Content, NEW i \in 0..MaxDepth, Own(u, i, w)
      PROVE  \E k \in 0..depth[u] : l = At(u, k) /\ table[l][v] = None
  <2>1. PICK x \in Ids, low \in 0..i : i \in 0..depth[u] /\ Raise(u, i, low, w, x)
    BY <1>7 DEF Own
  <2> QED BY <1>5, <2>1
<1>8. ASSUME Insert(u)
      PROVE  op[u].level \in 0..depth[u] /\ l = At(u, op[u].level) /\ v = op[u].content
  <2>1. /\ op[u].level \in 0..depth[u] /\ op[u].level \in 0..MaxDepth /\ op[u].content \in Content
    BY <1>1, <1>8 DEF Insert, IInv, OpInv, TypeOK
  <2>2. At(u, op[u].level) \in Level
    BY <2>1, AtLevel
  <2> QED BY <1>1, <1>8, <2>1, <2>2 DEF Insert, Replace, TypeOK
<1>9. ASSUME InternNew(u)
      PROVE  \E k \in 0..depth[u] : l = At(u, k) /\ table[l][v] = None
  <2>1. /\ op[u].level \in 0..depth[u] /\ op[u].content \in Content
        /\ Install(u, op[u].level, op[u].content)
    BY <1>1, <1>9 DEF InternNew, IInv, OpInv, TypeOK
  <2> QED BY <1>2, <2>1
<1>10. ASSUME CloseBracket(u) PROVE l = Current(u)
  BY <1>1, <1>10 DEF CloseBracket, TypeOK
<1>11. depth[u] \in 0..depth[u] /\ ~ AllocFails(u) /\ ~ OpenBracket(u)
  BY <1>1 DEF AllocFails, OpenBracket
<1> QED BY <1>4, <1>6, <1>7, <1>8, <1>9, <1>10, <1>11 DEF Does, Current

(* What a constructor probed for and missed in a bracket is still missing  *)
(* there: only its own thread works on the bracket.                        *)
ProbedInv == \A t \in Threads : op[t] # None /\ op[t].level > 0 =>
               table[At(t, op[t].level)][op[t].content] = None

LEMMA ProbedStep == IInv /\ ProbedInv /\ [Next]_vars => ProbedInv'
<1> USE PoolAssumption
<1>1. ASSUME IInv, ProbedInv, NEW u \in Threads, Does(u), NEW t \in Threads,
             op'[t] # None, op'[t].level > 0
      PROVE  table'[At(t, op'[t].level)][op'[t].content] = None
  <2>1. TypeOK
    BY <1>1 DEF IInv
  <2>2. CASE t = u
    <3>1. ASSUME NEW w \in Content, NEW i \in 0..MaxDepth, Probe(u, i, w) \/ Intern(u, i, w), op[u] = None
          PROVE  table'[At(t, op'[t].level)][op'[t].content] = None
      <4>1. /\ op' = [op EXCEPT ![u] = [level |-> i, content |-> w]]
            /\ Missing(u, i, w) /\ table' = table
        BY <1>1, <2>2, <3>1 DEF Probe, Intern
      <4>2. op'[t] = [level |-> i, content |-> w]
        BY <2>1, <2>2, <4>1 DEF TypeOK
      <4>3. i \in 0..i
        OBVIOUS
      <4> QED BY <2>2, <4>1, <4>2, <4>3 DEF Missing
    <3>2. ASSUME NEW w \in Content, New(u, w) \/ Export(u, w)
          PROVE  table'[At(t, op'[t].level)][op'[t].content] = None
      <4>1. depth[u] \in 0..MaxDepth /\ (depth[u] > 0 => depth[u] - 1 \in 0..MaxDepth) /\ op[u] = None
        BY <2>1, <3>2 DEF TypeOK, New, Export, Idle
      <4>2. Export(u, w) => depth[u] > 0
        BY <2>1, <4>1 DEF Export, Base
      <4>3. CASE New(u, w)
        BY <3>1, <4>1, <4>3 DEF New
      <4>4. CASE Export(u, w)
        BY <3>1, <4>1, <4>2, <4>4 DEF Export
      <4> QED BY <3>2, <4>3, <4>4
    <3>3. ~ Insert(u) /\ ~ InternNew(u) /\ ~ AllocFails(u) /\ ~ OpenBracket(u) /\ ~ CloseBracket(u)
      BY <1>1, <2>1, <2>2 DEF Insert, InternNew, AllocFails, OpenBracket, CloseBracket, Idle, TypeOK
    <3>4. \A w \in Content, i \in 0..MaxDepth : ~ Promote(u, w) /\ ~ Own(u, i, w)
      BY <1>1, <2>2 DEF Promote, Own, Idle
    <3> QED BY <1>1, <3>2, <3>3, <3>4 DEF Does
  <2>3. CASE t # u
    <3>1. op'[t] = op[t]
      BY <1>1, <2>1, <2>3 DEF Does, New, Export, Probe, Intern, Promote, Own, Insert, InternNew,
           AllocFails, OpenBracket, CloseBracket, TypeOK
    <3> DEFINE i == op[t].level
               v == op[t].content
    <3>2. /\ i \in 1..MaxDepth /\ v \in Content /\ depth[u] \in 0..MaxDepth
          /\ table[At(t, i)][v] = None
      BY <1>1, <2>1, <3>1 DEF ProbedInv, TypeOK
    <3>3. At(t, i) \in Level /\ \A k \in 0..depth[u] : At(t, i) # At(u, k)
      BY <2>3, <3>2, AtLevel, AtOnce
    <3> HIDE DEF i, v
    <3>4. table'[At(t, i)][v] = table[At(t, i)][v]
      BY <1>1, <3>2, <3>3, Touches
    <3> QED BY <3>1, <3>2, <3>4 DEF i, v
  <2> QED BY <2>2, <2>3
<1>2. ASSUME IInv, ProbedInv, Next PROVE ProbedInv'
  <2>1. PICK u \in Threads : Does(u)
    BY <1>2 DEF Next, Does
  <2> QED BY <1>1, <1>2, <2>1 DEF ProbedInv
<1>3. ASSUME ProbedInv, UNCHANGED vars PROVE ProbedInv'
  BY <1>3 DEF vars, ProbedInv
<1> QED BY <1>2, <1>3

(* Whatever threads promote while a constructor is between its probe and   *)
(* its insertion, an identity is exchanged at the root alone, and there by *)
(* nothing but the insertion of a String that was probed before.           *)
THEOREM InternedKept == Spec => KeepsInterned
<1>1. IInv /\ ProbedInv /\ [Next]_vars =>
        [\A l \in Open \cap Open', v \in Content :
           Exchanged(l, v) => l = Root /\ \E t \in Threads : Inserts(t, v)]_vars
  <2> SUFFICES ASSUME IInv, ProbedInv, Next, NEW l \in Open \cap Open', NEW v \in Content,
                      Exchanged(l, v)
               PROVE  l = Root /\ \E t \in Threads : Inserts(t, v)
    OBVIOUS
  <2>1. PICK u \in Threads : Does(u)
    BY DEF Next, Does
  <2>2. TypeOK /\ l \in Level
    BY OpenLevel DEF IInv
  <2>3. ~ (CloseBracket(u) /\ l = Current(u))
    BY <2>2, ClosedLevel
  <2>4. Insert(u) /\ l = At(u, op[u].level) /\ v = op[u].content /\ table[l][v] # None
    BY <2>1, <2>2, <2>3, Touches DEF Exchanged
  <2>5. op[u] # None /\ op[u].level \in 0..MaxDepth /\ op'[u] = None /\ v \in Short \cup Long
    BY <2>2, <2>4 DEF Insert, TypeOK
  <2>6. op[u].level = 0
    BY <2>4, <2>5, PoolAssumption DEF ProbedInv
  <2> QED BY <2>4, <2>5, <2>6, AtRoot DEF Inserts
<1>2. Init => ProbedInv
  BY DEF Init, ProbedInv
<1>3. Spec => []ProbedInv
  BY <1>2, ProbedStep, Inductive, PTL DEF Spec
<1> QED BY <1>1, <1>3, Inductive, PTL DEF Spec, KeepsInterned
-----------------------------------------------------------------------------
(* One pointer per cell *)

(* x is what the innermost of T's levels up to t's d-th holds for v. *)
Innermost(T, t, d, v, x) == \E j \in 0..d : /\ x = T[At(t, j)][v]
                                            /\ \A k \in j + 1 .. d : T[At(t, k)][v] = None

(* What a constructor returned is still what a lookup finds. *)
GotInv == \A t \in Threads, v \in Cells :
            got[t][v] # None => Innermost(table, t, depth[t], v, got[t][v])

(* A cell about to be inserted at the innermost level has not been         *)
(* returned; one about to be exported is held by the innermost level.      *)
PendInv == \A t \in Threads : (op[t] # None /\ op[t].content \in Cells) =>
             \/ op[t].level = depth[t] /\ got[t][op[t].content] = None
             \/ op[t].level < depth[t] /\ table[At(t, depth[t])][op[t].content] # None

LEMMA InnermostOnce ==
  ASSUME NEW T, NEW t, NEW d \in Nat, NEW v, NEW x, NEW y, x # None, y # None,
         Innermost(T, t, d, v, x), Innermost(T, t, d, v, y)
  PROVE  x = y
<1>1. PICK j \in 0..d : x = T[At(t, j)][v] /\ \A k \in j + 1 .. d : T[At(t, k)][v] = None
  BY DEF Innermost
<1>2. PICK i \in 0..d : y = T[At(t, i)][v] /\ \A k \in i + 1 .. d : T[At(t, k)][v] = None
  BY DEF Innermost
<1>3. i <= j
  BY <1>1, <1>2
<1>4. j <= i
  BY <1>1, <1>2
<1>5. i = j
  BY <1>3, <1>4
<1> QED BY <1>1, <1>2, <1>5

(* A table that gains entries only below one it has, or in an empty root,  *)
(* still finds what it found.                                              *)
LEMMA InnermostKept ==
  ASSUME NEW T, NEW U, NEW t, NEW d \in Nat, NEW v, NEW x, x # None, Innermost(T, t, d, v, x),
         \A k \in 0..d : \/ U[At(t, k)][v] = T[At(t, k)][v]
                         \/ /\ T[At(t, k)][v] = None
                            /\ k = 0 \/ \E n \in k + 1 .. d : T[At(t, n)][v] # None
  PROVE  Innermost(U, t, d, v, x)
<1>1. PICK j \in 0..d : x = T[At(t, j)][v] /\ \A k \in j + 1 .. d : T[At(t, k)][v] = None
  BY DEF Innermost
<1>2. U[At(t, j)][v] = x
  BY <1>1
<1>3. ASSUME NEW k \in j + 1 .. d PROVE U[At(t, k)][v] = None
  <2>1. k \in 0..d /\ k # 0 /\ \A n \in k + 1 .. d : T[At(t, n)][v] = None
    BY <1>1
  <2> QED BY <1>1, <2>1
<1> QED BY <1>2, <1>3 DEF Innermost

(* What a step of u does to the cells of a table. *)
LEMMA TableStep ==
  ASSUME IInv, PendInv, NEW u \in Threads, Does(u), NEW l \in Level, NEW v \in Cells,
         table'[l][v] # table[l][v]
  PROVE  \/ /\ table[l][v] = None
            /\ \E k \in 0..depth[u] :
                 /\ l = At(u, k)
                 /\ \/ \E n \in k + 1 .. depth[u] : table[At(u, n)][v] # None
                    \/ k = depth[u] /\ InternNew(u) /\ op[u].content = v /\ op[u].level = k
         \/ CloseBracket(u) /\ l = Current(u)
<1> USE PoolAssumption, KindsAssumption
<1>1. /\ TypeOK /\ v \in Content /\ v \notin Short \cup Long /\ depth[u] \in 0..MaxDepth
      /\ depth[u] \in Nat
  <2>1. TypeOK /\ v \in Content /\ v \notin Short \cup Long
    BY DEF IInv, Content
  <2>2. depth[u] \in 0..MaxDepth
    BY <2>1 DEF TypeOK
  <2> QED BY <2>1, <2>2
<1>2. ASSUME NEW i \in 0..MaxDepth, NEW w \in Content, Probe(u, i, w) \/ Intern(u, i, w) PROVE FALSE
  <2>1. ~ Probe(u, i, w)
    BY DEF Probe
  <2>2. w # v
    BY <1>1, <1>2, <2>1 DEF Intern
  <2>3. At(u, i) \in Level
    BY AtLevel
  <2> QED BY <1>1, <1>2, <2>1, <2>2, <2>3 DEF Intern, Install, Replace, TypeOK
<1>3. ASSUME NEW w \in Content, New(u, w) \/ Export(u, w) PROVE FALSE
  <2>1. Export(u, w) => depth[u] > 0
    BY <1>1 DEF Export, Base
  <2>2. Export(u, w) => depth[u] - 1 \in 0..MaxDepth
    BY <1>1, <2>1
  <2> QED BY <1>1, <1>2, <1>3, <2>2 DEF New, Export
<1>4. ASSUME NEW i \in 0..depth[u], NEW low \in Nat, NEW w \in Content, NEW x \in Ids, x = table[At(u, i)][w],
             Raise(u, i, low, w, x)
      PROVE  /\ table[l][v] = None
             /\ \E k \in 0..depth[u] : /\ l = At(u, k)
                                       /\ \E n \in k + 1 .. depth[u] : table[At(u, n)][v] # None
  <2>1. /\ table[l][v] = None /\ v = w
        /\ l \in {At(u, j) : j \in low .. i - 1}
    BY <1>1, <1>4 DEF Raise
  <2>2. PICK k \in low .. i - 1 : l = At(u, k)
    BY <2>1
  <2>3. x # None
    BY NotNone
  <2>4. k \in 0..depth[u] /\ i \in k + 1 .. depth[u]
    BY <1>1, <1>4, <2>2
  <2> QED BY <1>4, <2>1, <2>2, <2>3, <2>4
<1>5. ASSUME NEW w \in Content, Promote(u, w)
      PROVE  /\ table[l][v] = None
             /\ \E k \in 0..depth[u] : /\ l = At(u, k)
                                       /\ \E n \in k + 1 .. depth[u] : table[At(u, n)][v] # None
  <2>1. depth[u] \in 0..depth[u] /\ depth[u] - 1 \in Nat
    BY <1>1, <1>5 DEF Promote
  <2>2. table[At(u, depth[u])][w] \in Ids
    BY <1>1, <1>5, AtLevel DEF Promote, Current, TypeOK
  <2> QED BY <1>4, <1>5, <2>1, <2>2 DEF Promote, Current
<1>6. ASSUME NEW w \in Content, NEW i \in 0..MaxDepth, Own(u, i, w)
      PROVE  /\ table[l][v] = None
             /\ \E k \in 0..depth[u] : /\ l = At(u, k)
                                       /\ \E n \in k + 1 .. depth[u] : table[At(u, n)][v] # None
  <2>1. PICK x \in Ids, low \in 0..i : i \in 0..depth[u] /\ x = table[At(u, i)][w] /\ Raise(u, i, low, w, x)
    BY <1>6 DEF Own
  <2> QED BY <1>4, <2>1
<1>7. ASSUME Insert(u) PROVE FALSE
  <2>1. op[u].content \in Short \cup Long /\ op[u].level \in 0..MaxDepth
    BY <1>1, <1>7 DEF Insert, TypeOK
  <2>2. At(u, op[u].level) \in Level
    BY <2>1, AtLevel
  <2> QED BY <1>1, <1>7, <2>1, <2>2 DEF Insert, Replace, TypeOK
<1>8. ASSUME InternNew(u)
      PROVE  /\ table[l][v] = None
             /\ \E k \in 0..depth[u] :
                  /\ l = At(u, k)
                  /\ \/ \E n \in k + 1 .. depth[u] : table[At(u, n)][v] # None
                     \/ k = depth[u] /\ InternNew(u) /\ op[u].content = v /\ op[u].level = k
  <2> DEFINE i == op[u].level
             w == op[u].content
  <2>1. op[u] # None /\ w \in Cells /\ i \in 0..depth[u] /\ i \in 0..MaxDepth /\ Install(u, i, w)
    BY <1>1, <1>8 DEF InternNew, IInv, OpInv, TypeOK
  <2>2. At(u, i) \in Level /\ w \in Content
    BY <2>1, AtLevel DEF Content
  <2>3. table[l][v] = None /\ l = At(u, i) /\ v = w
    <3> HIDE DEF i, w
    <3>1. table[At(u, i)][w] = None
      BY <2>1 DEF Install
    <3>2. PICK x \in Ids : table' = [table EXCEPT ![At(u, i)][w] = x]
      BY <2>1, <3>1 DEF Install, Replace
    <3> QED BY <1>1, <2>2, <3>1, <3>2 DEF TypeOK
  <2>4. i = depth[u] \/ (i < depth[u] /\ table[At(u, depth[u])][w] # None)
    BY <2>1 DEF PendInv
  <2>5. i < depth[u] => depth[u] \in i + 1 .. depth[u]
    BY <1>1, <2>1
  <2> QED BY <1>8, <2>1, <2>3, <2>4, <2>5
<1>9. ASSUME CloseBracket(u) PROVE l = Current(u)
  BY <1>1, <1>9 DEF CloseBracket, TypeOK
<1>10. ~ AllocFails(u) /\ ~ OpenBracket(u)
  BY DEF AllocFails, OpenBracket
<1> QED BY <1>3, <1>5, <1>6, <1>7, <1>8, <1>9, <1>10 DEF Does
(* What a step of u does to what constructors returned. *)
LEMMA GotStep ==
  ASSUME IInv, PendInv, NEW u \in Threads, Does(u), NEW t \in Threads, NEW v \in Cells,
         got'[t][v] # got[t][v], got'[t][v] # None
  PROVE  /\ t = u /\ depth' = depth
         /\ Innermost(table', u, depth[u], v, got'[u][v])
         /\ got[u][v] = None \/ Innermost(table, u, depth[u], v, got'[u][v])
<1> USE PoolAssumption, KindsAssumption
<1>1. /\ TypeOK /\ v \in Content /\ v \notin Short \cup Long /\ depth[u] \in Nat
      /\ depth[u] \in 0..MaxDepth
  <2>1. TypeOK /\ v \in Content /\ v \notin Short \cup Long
    BY DEF IInv, Content
  <2>2. depth[u] \in 0..MaxDepth
    BY <2>1 DEF TypeOK
  <2> QED BY <2>1, <2>2
<1>2. ASSUME NEW i \in 0..MaxDepth, NEW w \in Content, NEW x \in Ids \cup {None}, Answer(u, i, w, x)
      PROVE  t = u /\ i = depth[u] /\ w = v /\ got'[t][v] = x
  BY <1>1, <1>2 DEF Answer, TypeOK
<1>3. ASSUME NEW i \in 0..MaxDepth, NEW w \in Content, NEW x \in Ids, Lookup(u, i, w, x), Answer(u, i, w, x)
      PROVE  /\ t = u /\ i = depth[u] /\ w = v
             /\ Innermost(table, u, depth[u], v, got'[u][v])
  BY <1>2, <1>3 DEF Lookup, Innermost
<1>4. ASSUME NEW i \in 0..MaxDepth, NEW w \in Content, Install(u, i, w)
      PROVE  /\ t = u /\ i = depth[u] /\ w = v
             /\ got'[u][v] = table'[At(u, depth[u])][v]
  <2>1. At(u, i) \in Level
    BY AtLevel
  <2>2. CASE table[At(u, i)][w] # None
    <3>1. table[At(u, i)][w] \in Ids \cup {None}
      BY <1>1, <2>1 DEF TypeOK
    <3>2. Answer(u, i, w, table[At(u, i)][w]) /\ table' = table
      BY <1>4, <2>2 DEF Install
    <3> QED BY <1>2, <3>1, <3>2
  <2>3. CASE table[At(u, i)][w] = None
    <3>1. PICK x \in Ids : table' = [table EXCEPT ![At(u, i)][w] = x] /\ Answer(u, i, w, x)
      BY <1>4, <2>3 DEF Install, Replace
    <3>2. table'[At(u, i)][w] = x
      BY <1>1, <2>1, <3>1 DEF TypeOK
    <3> QED BY <1>2, <3>1, <3>2
  <2> QED BY <2>2, <2>3
<1>5. ASSUME NEW i \in 0..MaxDepth, NEW w \in Content, Intern(u, i, w) PROVE FALSE
  <2>1. i > 0 => i - 1 \in 0..MaxDepth
    OBVIOUS
  <2>2. w # v
    BY <1>1, <1>5 DEF Intern
  <2>3. ASSUME NEW x \in Ids, Answer(u, i, w, x) PROVE FALSE
    BY <1>2, <2>2, <2>3
  <2> QED BY <1>4, <1>5, <2>2, <2>3 DEF Intern
<1>6. ASSUME NEW i \in 0..MaxDepth, NEW w \in Content, Probe(u, i, w)
      PROVE  /\ t = u /\ depth' = depth /\ table' = table
             /\ Innermost(table, u, depth[u], v, got'[u][v])
  <2>1. PICK x \in Ids : Lookup(u, i, w, x) /\ Answer(u, i, w, x)
    BY <1>6 DEF Probe
  <2> QED BY <1>3, <1>6, <2>1 DEF Probe
<1>7. ASSUME NEW w \in Content, New(u, w) \/ Export(u, w)
      PROVE  /\ t = u /\ depth' = depth /\ table' = table
             /\ Innermost(table, u, depth[u], v, got'[u][v])
  <2>1. Export(u, w) => depth[u] > 0
    BY <1>1 DEF Export, Base
  <2>2. Export(u, w) => depth[u] - 1 \in 0..MaxDepth
    BY <1>1, <2>1
  <2> QED BY <1>1, <1>5, <1>6, <1>7, <2>2 DEF New, Export
<1>8. ASSUME Insert(u) PROVE FALSE
  <2>1. op[u].content \in Short \cup Long /\ op[u].level \in 0..MaxDepth /\ op[u].content \in Content
    BY <1>1, <1>8 DEF Insert, TypeOK, Content
  <2>2. PICK x \in Ids : Answer(u, op[u].level, op[u].content, x)
    BY <1>8 DEF Insert
  <2> QED BY <1>1, <1>2, <2>1, <2>2
<1>9. ASSUME InternNew(u)
      PROVE  /\ t = u /\ depth' = depth /\ got[u][v] = None
             /\ got'[u][v] = table'[At(u, depth[u])][v]
  <2>1. /\ op[u] # None /\ op[u].content \in Cells /\ op[u].level \in 0..MaxDepth
        /\ op[u].content \in Content /\ Install(u, op[u].level, op[u].content) /\ depth' = depth
    BY <1>1, <1>9 DEF InternNew, TypeOK, Content
  <2>2. t = u /\ op[u].level = depth[u] /\ op[u].content = v /\ got'[u][v] = table'[At(u, depth[u])][v]
    BY <1>4, <2>1
  <2> QED BY <1>1, <2>1, <2>2 DEF PendInv
<1>10. ASSUME CloseBracket(u) PROVE FALSE
  BY <1>1, <1>10 DEF CloseBracket
<1>11. \A w \in Content, i \in 0..MaxDepth :
         ~ Promote(u, w) /\ ~ Own(u, i, w) /\ ~ AllocFails(u) /\ ~ OpenBracket(u)
  BY DEF Promote, Own, AllocFails, OpenBracket
<1>12. CASE InternNew(u)
  <2>1. depth[u] \in 0..depth[u] /\ \A k \in depth[u] + 1 .. depth[u] : FALSE
    BY <1>1
  <2> QED BY <1>9, <1>12, <2>1 DEF Innermost
<1> QED BY <1>7, <1>8, <1>10, <1>11, <1>12, <1>1 DEF Does

LEMMA CellStep == IInv /\ GotInv /\ PendInv /\ [Next]_vars => GotInv' /\ PendInv'
<1> USE PoolAssumption, KindsAssumption
<1>1. ASSUME IInv, GotInv, PendInv, NEW u \in Threads, Does(u), NEW t \in Threads, NEW v \in Cells,
             got'[t][v] # None
      PROVE  Innermost(table', t, depth'[t], v, got'[t][v])
  <2>1. TypeOK /\ depth[t] \in 0..MaxDepth /\ depth[t] \in Nat /\ depth[u] \in 0..MaxDepth /\ v \in Content
    <3>1. TypeOK /\ v \in Content
      BY <1>1 DEF IInv, Content
    <3>2. depth[t] \in 0..MaxDepth /\ depth[u] \in 0..MaxDepth
      BY <3>1 DEF TypeOK
    <3> QED BY <3>1, <3>2
  <2>2. CASE got'[t][v] # got[t][v]
    BY <1>1, <2>2, GotStep
  <2>3. CASE got'[t][v] = got[t][v]
    <3>1. got[t][v] # None /\ Innermost(table, t, depth[t], v, got[t][v])
      BY <1>1, <2>3 DEF GotInv
    <3>2. CloseBracket(u) => u # t
      BY <1>1, <2>1 DEF CloseBracket
    <3>3. ASSUME NEW k \in 0..depth[t]
          PROVE  \/ table'[At(t, k)][v] = table[At(t, k)][v]
                 \/ /\ table[At(t, k)][v] = None
                    /\ k = 0 \/ \E n \in k + 1 .. depth[t] : table[At(t, n)][v] # None
      <4>1. k \in 0..MaxDepth /\ At(t, k) \in Level
        BY <2>1, AtLevel
      <4>2. ASSUME CloseBracket(u) PROVE At(t, k) # Current(u)
        <5>1. depth[u] \in 1..MaxDepth
          BY <2>1, <4>2 DEF CloseBracket, Base
        <5> QED BY <3>2, <4>1, <4>2, <5>1, AtOnce DEF Current
      <4>3. SUFFICES ASSUME table'[At(t, k)][v] # table[At(t, k)][v]
                     PROVE  /\ table[At(t, k)][v] = None
                            /\ k = 0 \/ \E n \in k + 1 .. depth[t] : table[At(t, n)][v] # None
        OBVIOUS
      <4>4. /\ table[At(t, k)][v] = None
            /\ \E m \in 0..depth[u] :
                 /\ At(t, k) = At(u, m)
                 /\ \/ \E n \in m + 1 .. depth[u] : table[At(u, n)][v] # None
                    \/ m = depth[u] /\ InternNew(u) /\ op[u].content = v /\ op[u].level = m
        BY <1>1, <4>1, <4>2, <4>3, TableStep
      <4>5. PICK m \in 0..depth[u] :
                 /\ At(t, k) = At(u, m)
                 /\ \/ \E n \in m + 1 .. depth[u] : table[At(u, n)][v] # None
                    \/ m = depth[u] /\ InternNew(u) /\ op[u].content = v /\ op[u].level = m
        BY <4>4
      <4>6. k = m /\ (k = 0 \/ t = u)
        <5>1. m \in 0..MaxDepth
          BY <2>1, <4>5
        <5> QED BY <4>1, <4>5, <5>1, AtOnce
      <4>7. CASE k # 0 /\ m = depth[u] /\ InternNew(u) /\ op[u].content = v /\ op[u].level = m
        <5>1. op[u] # None /\ t = u /\ got[u][v] # None
          BY <3>1, <4>6, <4>7 DEF InternNew
        <5> QED BY <1>1, <2>1, <4>7, <5>1 DEF PendInv
      <4> QED BY <4>4, <4>5, <4>6, <4>7
    <3>4. Innermost(table', t, depth[t], v, got[t][v])
      <4> HIDE DEF Innermost
      <4> QED BY <2>1, <3>1, <3>3, InnermostKept
    <3>5. CASE OpenBracket(u) /\ u = t
      <4>1. depth'[t] = depth[t] + 1 /\ table' = table /\ depth[t] + 1 \in 1..MaxDepth
        BY <2>1, <3>5 DEF OpenBracket, TypeOK
      <4>2. table[At(t, depth[t] + 1)][v] = None
        BY <1>1, <2>1, <4>1 DEF IInv, EmptyAbove
      <4>3. PICK j \in 0..depth[t] : /\ got[t][v] = table[At(t, j)][v]
                                     /\ \A k \in j + 1 .. depth[t] : table[At(t, k)][v] = None
        BY <3>1 DEF Innermost
      <4>4. j \in 0..depth'[t] /\ \A k \in j + 1 .. depth'[t] : k \in j + 1 .. depth[t] \/ k = depth[t] + 1
        BY <2>1, <4>1, <4>3
      <4> QED BY <2>3, <4>1, <4>2, <4>3, <4>4 DEF Innermost
    <3>6. CASE ~ (OpenBracket(u) /\ u = t)
      <4>1. depth'[t] = depth[t]
        BY <1>1, <2>1, <3>2, <3>6 DEF Does, New, Export, Probe, Intern, Promote, Own, Insert, InternNew,
             AllocFails, OpenBracket, CloseBracket, TypeOK
      <4> QED BY <2>3, <3>4, <4>1
    <3> QED BY <3>5, <3>6
  <2> QED BY <2>2, <2>3
<1>2. ASSUME IInv, GotInv, PendInv, NEW u \in Threads, Does(u), NEW t \in Threads,
             op'[t] # None, op'[t].content \in Cells
      PROVE  \/ op'[t].level = depth'[t] /\ got'[t][op'[t].content] = None
             \/ op'[t].level < depth'[t] /\ table'[At(t, depth'[t])][op'[t].content] # None
  <2>1. TypeOK /\ depth[t] \in 0..MaxDepth /\ depth[t] \in Nat /\ depth[u] \in 0..MaxDepth
    <3>1. TypeOK
      BY <1>2 DEF IInv
    <3>2. depth[t] \in 0..MaxDepth /\ depth[u] \in 0..MaxDepth
      BY <3>1 DEF TypeOK
    <3> QED BY <3>1, <3>2
  <2>2. CASE t = u
    <3>1. ASSUME NEW v \in Content, NEW i \in 0..MaxDepth, Probe(u, i, v),
                 i = depth[u] \/ (i < depth[u] /\ table[At(u, depth[u])][v] # None), op[u] = None
          PROVE  \/ op'[t].level = depth'[t] /\ got'[t][op'[t].content] = None
                 \/ op'[t].level < depth'[t] /\ table'[At(t, depth'[t])][op'[t].content] # None
      <4>1. /\ Missing(u, i, v) /\ op' = [op EXCEPT ![u] = [level |-> i, content |-> v]]
            /\ UNCHANGED <<depth, table, got>>
        BY <1>2, <2>2, <3>1 DEF Probe
      <4>2. op'[t] = [level |-> i, content |-> v] /\ v \in Cells
        BY <1>2, <2>1, <2>2, <4>1 DEF TypeOK
      <4>3. CASE i = depth[u]
        <5>1. got[u][v] = None
          BY <1>2, <4>1, <4>2, <4>3 DEF GotInv, Innermost, Missing
        <5> QED BY <2>2, <4>1, <4>2, <4>3, <5>1
      <4>4. CASE i # depth[u]
        BY <2>2, <3>1, <4>1, <4>2, <4>4
      <4> QED BY <4>3, <4>4
    <3>2. ASSUME NEW v \in Content, New(u, v)
          PROVE  \/ op'[t].level = depth'[t] /\ got'[t][op'[t].content] = None
                 \/ op'[t].level < depth'[t] /\ table'[At(t, depth'[t])][op'[t].content] # None
      BY <1>2, <2>1, <2>2, <3>1, <3>2 DEF New, Idle, Intern
    <3>3. ASSUME NEW v \in Content, Export(u, v)
          PROVE  \/ op'[t].level = depth'[t] /\ got'[t][op'[t].content] = None
                 \/ op'[t].level < depth'[t] /\ table'[At(t, depth'[t])][op'[t].content] # None
      <4>1. depth[u] > 0 /\ table[At(u, depth[u])][v] # None
        BY <2>1, <3>3 DEF Export, Base, Current
      <4>2. depth[u] - 1 \in 0..MaxDepth /\ depth[u] - 1 < depth[u]
        BY <2>1, <4>1
      <4> QED BY <1>2, <2>2, <3>1, <3>3, <4>1, <4>2 DEF Export, Idle, Intern
    <3>4. ~ Insert(u) /\ ~ InternNew(u) /\ ~ AllocFails(u) /\ ~ OpenBracket(u) /\ ~ CloseBracket(u)
      BY <1>2, <2>1, <2>2 DEF Insert, InternNew, AllocFails, OpenBracket, CloseBracket, Idle, TypeOK
    <3>5. \A v \in Content, i \in 0..MaxDepth : ~ Promote(u, v) /\ ~ Own(u, i, v)
      BY <1>2, <2>2 DEF Promote, Own, Idle
    <3> QED BY <1>2, <3>2, <3>3, <3>4, <3>5 DEF Does
  <2>3. CASE t # u
    <3>1. op'[t] = op[t] /\ depth'[t] = depth[t]
      BY <1>2, <2>1, <2>3 DEF Does, New, Export, Probe, Intern, Promote, Own, Insert, InternNew,
           AllocFails, OpenBracket, CloseBracket, TypeOK
    <3> DEFINE v == op[t].content
    <3>2. v \in Cells
      BY <1>2, <3>1
    <3>3. got[t][v] = None => got'[t][v] = None
      BY <1>2, <2>3, <3>2, GotStep
    <3>4. ASSUME depth[t] > 0, table[At(t, depth[t])][v] # None PROVE table'[At(t, depth[t])][v] # None
      <4>1. At(t, depth[t]) \in Level
        BY <2>1, AtLevel
      <4>2. ASSUME CloseBracket(u) PROVE At(t, depth[t]) # Current(u)
        <5>1. depth[u] \in 1..MaxDepth
          BY <2>1, <4>2 DEF CloseBracket, Base
        <5> QED BY <2>1, <2>3, <5>1, <3>4, AtOnce DEF Current
      <4> HIDE DEF v
      <4> QED BY <1>2, <3>2, <3>4, <4>1, <4>2, TableStep
    <3>5. \/ op[t].level = depth[t] /\ got[t][v] = None
          \/ op[t].level < depth[t] /\ table[At(t, depth[t])][v] # None
      BY <1>2, <3>1, <3>2 DEF PendInv
    <3>6. op[t].level \in Nat
      BY <1>2, <2>1, <3>1 DEF TypeOK
    <3>7. op[t].level < depth[t] => depth[t] > 0
      BY <2>1, <3>6
    <3> QED BY <3>1, <3>3, <3>4, <3>5, <3>7
  <2> QED BY <2>2, <2>3
<1>3. ASSUME IInv, GotInv, PendInv, Next PROVE GotInv' /\ PendInv'
  <2>1. PICK u \in Threads : Does(u)
    BY <1>3 DEF Next, Does
  <2>2. GotInv'
    BY <1>1, <1>3, <2>1 DEF GotInv
  <2>3. PendInv'
    BY <1>2, <1>3, <2>1 DEF PendInv
  <2> QED BY <2>2, <2>3
<1>4. ASSUME GotInv, PendInv, UNCHANGED vars PROVE GotInv' /\ PendInv'
  BY <1>4 DEF vars, GotInv, PendInv
<1> QED BY <1>3, <1>4

(* Until its bracket closes, a thread that builds a cell again gets the    *)
(* cell it was given, whatever it or other threads promote, export or      *)
(* intern in the meantime.                                                 *)
THEOREM OneCell == Spec => SameCell
<1>1. Init => GotInv /\ PendInv
  BY DEF Init, GotInv, PendInv, Content
<1>2. Spec => [](IInv /\ GotInv /\ PendInv)
  BY <1>1, CellStep, Inductive, PTL DEF Spec
<1>3. IInv /\ GotInv /\ PendInv /\ [Next]_vars => [Same(Cells)]_vars
  <2> SUFFICES ASSUME IInv, GotInv, PendInv, Next, NEW t \in Threads, NEW v \in Cells,
                      got[t][v] # None, got'[t][v] # None, got'[t][v] # got[t][v]
               PROVE  FALSE
    BY DEF Same
  <2>1. PICK u \in Threads : Does(u)
    BY DEF Next, Does
  <2>2. t = u /\ Innermost(table, u, depth[u], v, got'[u][v])
    BY <2>1, GotStep
  <2>3. Innermost(table, u, depth[u], v, got[u][v]) /\ depth[u] \in Nat
    BY <2>2, PoolAssumption DEF GotInv, IInv, TypeOK
  <2> QED BY <2>2, <2>3, InnermostOnce
<1> QED BY <1>2, <1>3, PTL DEF Spec, SameCell
=============================================================================
