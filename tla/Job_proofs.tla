------------------------------ MODULE Job_proofs ------------------------------
(***************************************************************************)
(* Proofs about lib/process.x for any jobs of any number of stages: the    *)
(* table of a job and its status for any threads, and, where one thread    *)
(* starts the jobs, the pipe ends a program gets.                          *)
(***************************************************************************)
EXTENDS Job, Integers, FiniteSetTheorems, SequenceTheorems, WellFoundedInduction, TLAPS

(* One thread starts and uses the jobs. *)
OneThread == \A j, k \in Jobs : Owner[j] = Owner[k]

-----------------------------------------------------------------------------
(* The inductive invariant *)

Making == {"link", "sealLink", "report", "sealReport", "fork"}
Ending == {"term", "grace", "reap", "wait"}
Phases == Rest \cup {"table"} \cup Making \cup {"read", "undo"} \cup Ending

JobRecords == [phase : Phases, stage : Nat, count : Nat, after : {"rest", "dropped"},
               pids : SUBSET Nat, statuses : Seq(Nat), finished : BOOLEAN, status : Nat]

Ends == [kind : {"link", "report"}, end : {"r", "w"}, stage : Jobs \X Nat]
States == {"none", "forked", "failed", "running", "zombie", "reaped"}
Children == [state : States, fds : SUBSET Ends, keep : SUBSET Ends, told : BOOLEAN, end : Nat]

TInv == /\ job \in [Jobs -> JobRecords]
        /\ child \in [Stages -> Children]

(* The stages of a job that were forked and not waited for. *)
Forked(j, c) == {i \in 1..Count[j] : c[<<j, i>>].state \notin {"none", "reaped"}}

(* The launch of job j forks its stages in order, each once. *)
Launched(j, r, c) ==
  /\ r.phase \in {"new", "table"} => r.count = 0
  /\ r.phase \in Making \cup {"read", "undo"} => r.count = Count[j]
  /\ r.count \in {0, Count[j]} /\ r.stage \in 1..Count[j]
  /\ r.count = 0 => \A i \in 1..Count[j] : c[<<j, i>>].state = "none"
  /\ r.phase \in Making => \A i \in r.stage..Count[j] : c[<<j, i>>].state = "none"
  /\ r.phase = "read" => /\ r.stage \in Forked(j, c)
                         /\ \A i \in r.stage+1..Count[j] : c[<<j, i>>].state = "none"

(* The table names the processes not waited for, but for one being spawned. *)
Tabled(j, r, c) ==
  /\ r.pids = Forked(j, c) \ (IF r.phase = "read" THEN {r.stage} ELSE {})
  /\ r.finished => r.phase \in {"rest", "dropped"}
  /\ r.finished \/ r.phase = "dropped" => r.pids = {}

StatusOf(j, c) ==
  LET failing == {i \in 1..Count[j] : c[<<j, i>>].state # "reaped" \/ c[<<j, i>>].end # 0}
  IN IF failing = {} THEN 0 ELSE c[<<j, Max(failing)>>].end

(* The table's statuses are those of the stages waited for. *)
Recorded(j, r, c) ==
  /\ \A i \in 1..Count[j] : c[<<j, i>>].state = "none" => c[<<j, i>>].end = 127
  /\ r.count > 0 =>
       /\ DOMAIN r.statuses = 1..r.count
       /\ \A i \in 1..r.count :
            r.statuses[i] = IF c[<<j, i>>].state = "reaped" THEN c[<<j, i>>].end ELSE 127
  /\ r.finished /\ r.count > 0 => r.status = StatusOf(j, c)

Table(j, r, c) == Launched(j, r, c) /\ Tabled(j, r, c) /\ Recorded(j, r, c)
JInv == \A j \in Jobs : Table(j, job[j], child)

(* The ends a job has open in this process, and those not yet close-on-exec. *)
Input(s) == {End("link", "r", Previous(s))}
Output(s) == IF Last(s) THEN {} ELSE Link(s)
OpenEnds(j, r) ==
  LET s == <<j, r.stage>>
  IN CASE r.phase = "link" -> Input(s)
       [] r.phase \in {"sealLink", "report", "undo"} -> Input(s) \cup Output(s)
       [] r.phase \in {"sealReport", "fork", "read"} -> Input(s) \cup Output(s) \cup Report(s)
       [] OTHER -> {}
FreshEnds(j, r) == CASE r.phase = "sealLink" -> Link(<<j, r.stage>>)
                     [] r.phase = "sealReport" -> Report(<<j, r.stage>>) [] OTHER -> {}

HInv == held \subseteq Ends
DInv == /\ \A d \in held : d \in OpenEnds(d.stage[1], job[d.stage[1]])
        /\ \A d \in held \ sealed : d \in FreshEnds(d.stage[1], job[d.stage[1]])
        /\ sealed \subseteq held
        /\ \A j \in Jobs : /\ FreshEnds(j, job[j]) \subseteq held
                           /\ job[j].phase = "sealLink" => ~Last(This(j))

(* A thread is in an operation on one job. *)
OneBusy == \A j, k \in Jobs :
             (Owner[j] = Owner[k] /\ ~At(j, Rest) /\ ~At(k, Rest)) => j = k

(* With one thread, a fork finds every end close-on-exec. *)
KInv == \A s \in Stages : /\ child[s].keep = {}
                          /\ child[s].state = "running" => child[s].fds \subseteq OwnEnds(s)

-----------------------------------------------------------------------------
(* Facts about the values *)

\* Max is in a nonempty set of stages: there is a greatest one.
LEMMA MaxIn ==
  ASSUME NEW n \in Nat, NEW S, S \subseteq 1..n, S # {}
  PROVE  Max(S) \in S
<1> DEFINE Up(x) == {y \in S : y >= x}
           T == {Up(x) : x \in S}
           R == StrictSubsetOrdering(1..n)
<1>1. IsWellFoundedOn(R, FiniteSubsetsOf(1..n))
  BY FS_StrictSubsetOrderingWellFounded
<1>2. T \subseteq FiniteSubsetsOf(1..n) /\ T # {}
  <2>1. \A x \in S : Up(x) \subseteq 1..n
    OBVIOUS
  <2>2. \A x \in S : IsFiniteSet(Up(x))
    <3> HIDE DEF Up
    <3>1. IsFiniteSet(1..n) BY FS_Interval
    <3> QED BY <2>1, <3>1, FS_Subset
  <2> QED BY <2>1, <2>2 DEF FiniteSubsetsOf
<1>3. PICK U \in T : \A V \in T : ~(<<V, U>> \in R)
  <2> HIDE DEF T, R
  <2> QED BY <1>1, <1>2, WFMin
<1>4. PICK x \in S : U = Up(x)
  OBVIOUS
<1>5. ASSUME NEW z \in S, z > x PROVE FALSE
  <2>0. S \subseteq Nat OBVIOUS
  <2>1. Up(z) \subseteq Up(x) /\ x \in Up(x) /\ x \notin Up(z)
    <3> HIDE DEF T, R
    <3>1. x \in Nat /\ z \in Nat /\ z > x BY <1>5, <2>0
    <3>2. \A y \in S : y >= z => y >= x BY <2>0, <3>1
    <3>3. x >= x /\ ~(x >= z) BY <3>1
    <3> QED BY <3>2, <3>3
  <2>2. <<Up(z), Up(x)>> \in R
    <3>1. Up(z) \in SUBSET (1..n) /\ Up(x) \in SUBSET (1..n) OBVIOUS
    <3>2. Up(z) # Up(x) BY <2>1
    <3> HIDE DEF Up
    <3> QED BY <2>1, <3>1, <3>2 DEF StrictSubsetOrdering
  <2> QED BY <1>3, <1>4, <2>2
<1>6. \A z \in S : x >= z
  BY <1>5
<1> QED BY <1>6 DEF Max

\* The statuses of a table, as _open_table and _reap write them.
LEMMA StatusSeq ==
  /\ \A n \in Nat : [i \in 1..n |-> 127] \in Seq(Nat)
  /\ \A n \in Nat : \A f \in [1..n -> Nat] : f \in Seq(Nat)
  /\ \A f \in Seq(Nat) : f \in [1..Len(f) -> Nat] /\ Len(f) \in Nat
<1>1. \A n \in Nat : \A f \in [1..n -> Nat] : f \in Seq(Nat)
  BY SeqDef
<1>2. \A n \in Nat : [i \in 1..n |-> 127] \in [1..n -> Nat]
  OBVIOUS
<1> QED BY <1>1, <1>2, LenProperties

LEMMA StageFacts ==
  /\ \A j \in Jobs : Count[j] \in Nat \ {0}
  /\ \A j \in Jobs : \A i \in 1..Count[j] : <<j, i>> \in Stages
  /\ \A s \in Stages : /\ s[1] \in Jobs /\ s[2] \in 1..Count[s[1]] /\ s = <<s[1], s[2]>>
BY JobAssumption DEF Stages

\* A job's table depends on its own processes only.
LEMMA SameTable ==
  ASSUME NEW j \in Jobs, NEW r, NEW c, NEW d,
         \A i \in 1..Count[j] : c[<<j, i>>] = d[<<j, i>>],
         Table(j, r, c)
  PROVE  Table(j, r, d)
<1>1. Forked(j, c) = Forked(j, d) BY DEF Forked
<1>2. StatusOf(j, c) = StatusOf(j, d)
  <2> DEFINE F == {i \in 1..Count[j] : c[<<j, i>>].state # "reaped" \/ c[<<j, i>>].end # 0}
             G == {i \in 1..Count[j] : d[<<j, i>>].state # "reaped" \/ d[<<j, i>>].end # 0}
  <2>1. F = G
    OBVIOUS
  <2>2. F # {} => Max(F) \in 1..Count[j]
    <3>1. F \subseteq 1..Count[j] OBVIOUS
    <3> HIDE DEF F
    <3> QED BY <3>1, MaxIn, StageFacts
  <2>3. StatusOf(j, c) = IF F = {} THEN 0 ELSE c[<<j, Max(F)>>].end
    BY DEF StatusOf
  <2>4. StatusOf(j, d) = IF G = {} THEN 0 ELSE d[<<j, Max(G)>>].end
    BY DEF StatusOf
  <2> HIDE DEF F, G
  <2> QED BY <2>1, <2>2, <2>3, <2>4
<1>3. Launched(j, r, d) BY <1>1, StageFacts DEF Table, Launched
<1>4. Tabled(j, r, d) BY <1>1 DEF Table, Tabled
<1>5. Recorded(j, r, d)
  <2>1. r.count \in {0, Count[j]} BY DEF Table, Launched
  <2> QED BY <1>2, <2>1, StageFacts DEF Table, Recorded
<1> QED BY <1>3, <1>4, <1>5 DEF Table

-----------------------------------------------------------------------------
(* Types *)

\* An assignment to a field of a job's record, and to one of a process.
LEMMA JobFields ==
  ASSUME NEW r \in JobRecords
  PROVE  /\ \A p \in Phases : [r EXCEPT !.phase = p] \in JobRecords
         /\ \A P \in SUBSET Nat : [r EXCEPT !.pids = P] \in JobRecords
         /\ \A S \in Seq(Nat) : [r EXCEPT !.statuses = S] \in JobRecords
         /\ \A n \in Nat : [r EXCEPT !.finished = TRUE, !.status = n] \in JobRecords
BY DEF JobRecords

LEMMA TInvInit == Init => TInv
<1>1. NewJob \in JobRecords
  <2>1. <<>> \in Seq(Nat) OBVIOUS
  <2> QED BY <2>1 DEF NewJob, JobRecords, Phases, Rest
<1>2. NoChild \in Children BY DEF NoChild, Children, States
<1> QED BY <1>1, <1>2 DEF Init, TInv

\* The job that _reap leaves, and its processes.
LEMMA Reaped ==
  ASSUME TInv, JInv, NEW j \in Jobs, NEW S, S \subseteq Zombies(j)
  PROVE  /\ ReapedJob(j, S) \in JobRecords
         /\ ReapedChildren(j, S) \in [Stages -> Children]
<1> DEFINE r == job[j]
<1>1. r \in JobRecords /\ S \subseteq 1..Count[j]
  BY DEF TInv, JInv, Table, Tabled, Forked, Zombies
<1>2. \A i \in S : child[<<j, i>>].end \in Nat
  BY <1>1, StageFacts DEF TInv, Children
<1>3. [i \in DOMAIN r.statuses |-> IF i \in S THEN child[<<j, i>>].end ELSE r.statuses[i]] \in Seq(Nat)
  <2>1. r.statuses \in [1..Len(r.statuses) -> Nat] /\ Len(r.statuses) \in Nat
    BY <1>1, StatusSeq DEF JobRecords
  <2> QED BY <1>2, <2>1, StatusSeq
<1>4. ReapedJob(j, S) \in JobRecords
  BY <1>1, <1>3 DEF ReapedJob, JobRecords
<1>5. ReapedChildren(j, S) \in [Stages -> Children]
  BY DEF TInv, Children, States, ReapedChildren
<1> QED BY <1>4, <1>5

-----------------------------------------------------------------------------
(* The table of a job *)

\* A step of the operation on one job changes its record and its processes.
LEMMA JobStep ==
  ASSUME TInv, JInv, NEW j \in Jobs, NEW q \in JobRecords, NEW d \in [Stages -> Children],
         job' = [job EXCEPT ![j] = q], child' = d,
         \A s \in Stages : s[1] # j => d[s] = child[s],
         Table(j, q, d)
  PROVE  TInv' /\ JInv'
<1>1. TInv' BY DEF TInv
<1>2. ASSUME NEW k \in Jobs PROVE Table(k, job'[k], d)
  <2>1. CASE k = j BY <2>1 DEF TInv
  <2>2. CASE k # j
    <3>1. job'[k] = job[k] BY <2>2 DEF TInv
    <3>2. \A i \in 1..Count[k] : <<k, i>> \in Stages /\ <<k, i>>[1] = k BY StageFacts
    <3>3. \A i \in 1..Count[k] : child[<<k, i>>] = d[<<k, i>>] BY <2>2, <3>2
    <3>4. Table(k, job[k], child) BY DEF JInv
    <3> QED BY <3>1, <3>3, <3>4, SameTable
  <2> QED BY <2>1, <2>2
<1> QED BY <1>1, <1>2 DEF JInv

\* The operation goes on, with no change to the table.
LEMMA TableMoves ==
  ASSUME NEW j \in Jobs, NEW r \in JobRecords, NEW c, Table(j, r, c), NEW q \in JobRecords,
         /\ q.stage = r.stage /\ q.count = r.count /\ q.pids = r.pids
         /\ q.statuses = r.statuses /\ q.finished = r.finished /\ q.status = r.status,
         r.phase # "read" /\ q.phase # "read",
         r.finished => q.phase \in {"rest", "dropped"},
         q.phase = "dropped" => r.pids = {},
         q.phase \in {"new", "table"} => r.count = 0,
         q.phase \in Making \cup {"undo"} => r.phase \in Making \cup {"undo"},
         q.phase \in Making => r.phase \in Making
  PROVE  Table(j, q, c)
<1>1. Launched(j, q, c) BY DEF Table, Launched
<1>2. Tabled(j, q, c) BY DEF Table, Tabled
<1>3. Recorded(j, q, c) BY DEF Table, Recorded
<1> QED BY <1>1, <1>2, <1>3 DEF Table

\* Processes run and end, and the table stays true of them.
LEMMA TableRuns ==
  ASSUME NEW j \in Jobs, NEW r \in JobRecords, NEW c, Table(j, r, c), NEW d,
         \A i \in 1..Count[j] : \/ d[<<j, i>>] = c[<<j, i>>]
                                \/ /\ c[<<j, i>>].state \notin {"none", "reaped"}
                                   /\ d[<<j, i>>].state \notin {"none", "reaped"}
  PROVE  Table(j, r, d)
<1>1. Forked(j, d) = Forked(j, c) BY DEF Forked
<1>2. CASE r.finished
  <2>1. Forked(j, c) = {} BY <1>2 DEF Table, Tabled
  <2>2. \A i \in 1..Count[j] : c[<<j, i>>] = d[<<j, i>>] BY <2>1 DEF Forked
  <2> QED BY <2>2, SameTable
<1>3. CASE ~r.finished
  <2>1. Launched(j, r, d) BY <1>1, StageFacts DEF Table, Launched, Forked
  <2>2. Tabled(j, r, d) BY <1>1 DEF Table, Tabled
  <2>3. Recorded(j, r, d)
    <3>1. r.count \in {0, Count[j]} BY DEF Table, Launched
    <3> QED BY <1>3, <3>1, StageFacts DEF Table, Recorded
  <2> QED BY <2>1, <2>2, <2>3 DEF Table
<1> QED BY <1>2, <1>3 DEF JobRecords

\* _reap moves what it waited for from the processes to the statuses.
LEMMA TableReaps ==
  ASSUME TInv, JInv, NEW j \in Jobs, NEW S, S \subseteq Zombies(j),
         job[j].phase # "read", ~job[j].finished
  PROVE  Table(j, ReapedJob(j, S), ReapedChildren(j, S))
<1> DEFINE r == job[j]
           q == ReapedJob(j, S)
           d == ReapedChildren(j, S)
<1>1. r \in JobRecords /\ Table(j, r, child) /\ q \in JobRecords
  BY Reaped DEF TInv, JInv
<1>2. /\ q.phase = r.phase /\ q.stage = r.stage /\ q.count = r.count
      /\ q.pids = r.pids \ S /\ q.finished = r.finished
      /\ q.statuses = [i \in DOMAIN r.statuses |->
                         IF i \in S THEN child[<<j, i>>].end ELSE r.statuses[i]]
  BY <1>1 DEF ReapedJob, JobRecords
<1>3. S \subseteq Forked(j, child) /\ S \subseteq 1..Count[j]
  BY <1>1 DEF Zombies, Forked, Table, Tabled
<1>4. \A i \in 1..Count[j] : IF i \in S THEN d[<<j, i>>].state = "reaped" /\ d[<<j, i>>].end = child[<<j, i>>].end
                                        ELSE d[<<j, i>>] = child[<<j, i>>]
  BY StageFacts DEF ReapedChildren, TInv, Children
<1>5. Forked(j, d) = Forked(j, child) \ S
  BY <1>4 DEF Forked
<1> HIDE DEF q, d
<1>6. Launched(j, q, d)
  BY <1>1, <1>2, <1>3, <1>4, StageFacts DEF Table, Launched, Forked
<1>7. Tabled(j, q, d)
  BY <1>1, <1>2, <1>5 DEF Table, Tabled
<1>8. Recorded(j, q, d)
  <2>1. \A i \in 1..Count[j] : d[<<j, i>>].state = "none" => d[<<j, i>>].end = 127
    BY <1>1, <1>4 DEF Table, Recorded
  <2>2. ASSUME r.count > 0
        PROVE  /\ DOMAIN q.statuses = 1..r.count
               /\ \A i \in 1..r.count : q.statuses[i] =
                    IF d[<<j, i>>].state = "reaped" THEN d[<<j, i>>].end ELSE 127
    <3>1. r.count = Count[j] /\ DOMAIN r.statuses = 1..Count[j]
      BY <1>1, <2>2 DEF Table, Launched, Recorded
    <3>2. \A i \in 1..r.count : r.statuses[i] =
            IF child[<<j, i>>].state = "reaped" THEN child[<<j, i>>].end ELSE 127
      BY <1>1, <2>2 DEF Table, Recorded
    <3>3. DOMAIN q.statuses = 1..Count[j] BY <1>2, <3>1
    <3>4. \A i \in 1..Count[j] : q.statuses[i] =
            IF i \in S THEN child[<<j, i>>].end ELSE r.statuses[i]
      BY <1>2, <3>1
    <3> QED BY <1>3, <1>4, <3>1, <3>2, <3>3, <3>4
  <2>3. ~q.finished BY <1>2
  <2> QED BY <1>2, <2>1, <2>2, <2>3 DEF Recorded
<1> QED BY <1>6, <1>7, <1>8 DEF Table, q, d

\* _finish computes the status from the stages, once none is left.
LEMMA TableFinishes ==
  ASSUME NEW j \in Jobs, NEW r \in JobRecords, NEW c, Table(j, r, c),
         \A i \in 1..Count[j] : c[<<j, i>>].end \in Nat,
         r.pids = {}, r.phase # "read"
  PROVE  /\ Finished(r) \in JobRecords
         /\ [Finished(r) EXCEPT !.phase = "rest"] \in JobRecords
         /\ Table(j, [Finished(r) EXCEPT !.phase = "rest"], c)
         /\ Finished(r).phase = r.phase
<1>1. CASE r.finished
  <2>1. Finished(r) = r BY <1>1 DEF Finished
  <2>2. [r EXCEPT !.phase = "rest"] \in JobRecords
    BY JobFields DEF Phases, Rest
  <2> DEFINE q == [r EXCEPT !.phase = "rest"]
  <2>3. /\ q.phase = "rest" /\ q.stage = r.stage /\ q.count = r.count /\ q.pids = r.pids
        /\ q.statuses = r.statuses /\ q.finished = r.finished /\ q.status = r.status
    BY DEF JobRecords
  <2> HIDE DEF q
  <2>4. Table(j, q, c)
    BY <2>2, <2>3, TableMoves DEF Making, q
  <2> QED BY <2>1, <2>2, <2>4 DEF q
<1>2. CASE ~r.finished
  <2> DEFINE F == {i \in 1..r.count : r.statuses[i] # 0}
             G == {i \in 1..Count[j] : c[<<j, i>>].state # "reaped" \/ c[<<j, i>>].end # 0}
             n == IF F = {} THEN 0 ELSE r.statuses[Max(F)]
  <2>0. r.count \in {0, Count[j]} /\ Count[j] \in Nat \ {0} /\ Forked(j, c) = {}
    BY StageFacts DEF Table, Launched, Tabled
  <2>1. r.count > 0 => /\ F = G
                       /\ \A i \in 1..Count[j] : r.statuses[i] = c[<<j, i>>].end
    <3> SUFFICES ASSUME r.count > 0 PROVE F = G /\ \A i \in 1..Count[j] : r.statuses[i] = c[<<j, i>>].end
      OBVIOUS
    <3>1. r.count = Count[j] BY <2>0
    <3>2. \A i \in 1..Count[j] : c[<<j, i>>].state \in {"none", "reaped"}
      BY <2>0 DEF Forked
    <3>3. \A i \in 1..Count[j] : r.statuses[i] = IF c[<<j, i>>].state = "reaped" THEN c[<<j, i>>].end ELSE 127
      BY <3>1 DEF Table, Recorded
    <3>4. \A i \in 1..Count[j] : c[<<j, i>>].state = "none" => c[<<j, i>>].end = 127
      BY DEF Table, Recorded
    <3>5. \A i \in 1..Count[j] : r.statuses[i] = c[<<j, i>>].end
      BY <3>2, <3>3, <3>4
    <3>6. \A i \in 1..Count[j] : r.statuses[i] # 0 <=> (c[<<j, i>>].state # "reaped" \/ c[<<j, i>>].end # 0)
      BY <3>2, <3>4, <3>5
    <3> QED BY <3>1, <3>5, <3>6
  <2>2. r.count = 0 => F = {}
    BY <2>0
  <2>3. F # {} => Max(F) \in 1..Count[j]
    <3>1. F \subseteq 1..Count[j] BY <2>0
    <3> HIDE DEF F
    <3> QED BY <2>0, <3>1, MaxIn
  <2>4. n \in Nat
    <3> HIDE DEF F, G
    <3>1. F # {} => r.count > 0 BY <2>0, <2>2
    <3>2. F # {} => r.statuses[Max(F)] \in Nat BY <2>1, <2>3, <3>1
    <3> QED BY <3>2
  <2>5. Finished(r) = [r EXCEPT !.finished = TRUE, !.status = n]
    BY <1>2 DEF Finished
  <2>6. StatusOf(j, c) = IF G = {} THEN 0 ELSE c[<<j, Max(G)>>].end
    BY DEF StatusOf
  <2>7. r.count > 0 => n = StatusOf(j, c)
    <3> HIDE DEF F, G
    <3> QED BY <2>1, <2>3, <2>6
  <2> HIDE DEF F, G, n
  <2> DEFINE f == [r EXCEPT !.finished = TRUE, !.status = n]
             q == [f EXCEPT !.phase = "rest"]
  <2>8. f \in JobRecords /\ q \in JobRecords
    BY <2>4, JobFields DEF Phases, Rest
  <2>9. /\ q.phase = "rest" /\ q.stage = r.stage /\ q.count = r.count /\ q.pids = r.pids
        /\ q.statuses = r.statuses /\ q.finished /\ q.status = n /\ f.phase = r.phase
    BY DEF JobRecords
  <2> HIDE DEF q, f
  <2>10. Launched(j, q, c)
    BY <2>0, <2>9 DEF Table, Launched, Making
  <2>11. Tabled(j, q, c)
    BY <2>9 DEF Table, Tabled
  <2>12. Recorded(j, q, c)
    BY <2>7, <2>9 DEF Table, Recorded
  <2> QED BY <2>5, <2>8, <2>9, <2>10, <2>11, <2>12 DEF Table, q, f
<1> QED BY <1>1, <1>2 DEF JobRecords

-----------------------------------------------------------------------------
(* The steps of a launch *)

LEMMA InvInit == Init => TInv /\ JInv
<1> SUFFICES ASSUME Init PROVE TInv /\ JInv OBVIOUS
<1>1. ASSUME NEW j \in Jobs PROVE Table(j, job[j], child)
  <2>1. job[j] = NewJob /\ \A i \in 1..Count[j] : child[<<j, i>>] = NoChild
    BY StageFacts DEF Init
  <2>2. Forked(j, child) = {} BY <2>1 DEF Forked, NoChild
  <2>3. Launched(j, NewJob, child) BY <2>1, StageFacts DEF Launched, NewJob, NoChild, Making
  <2>4. Tabled(j, NewJob, child) BY <2>2 DEF Tabled, NewJob
  <2>5. Recorded(j, NewJob, child) BY <2>1 DEF Recorded, NewJob, NoChild
  <2> QED BY <2>1, <2>3, <2>4, <2>5 DEF Table
<1> QED BY <1>1, TInvInit DEF JInv

\* A step that only moves the operation on a job to another phase.
LEMMA GoStep ==
  ASSUME TInv, JInv, NEW j \in Jobs, NEW p \in Phases, Goto(j, p), child' = child,
         job[j].phase # "read" /\ p # "read",
         job[j].finished => p \in {"rest", "dropped"},
         p = "dropped" => job[j].pids = {},
         p \in {"new", "table"} => job[j].count = 0,
         p \in Making \cup {"undo"} => job[j].phase \in Making \cup {"undo"},
         p \in Making => job[j].phase \in Making
  PROVE  TInv' /\ JInv'
<1> DEFINE r == job[j]
           q == [r EXCEPT !.phase = p]
<1>1. r \in JobRecords /\ Table(j, r, child) /\ q \in JobRecords
  BY JobFields DEF TInv, JInv
<1>2. /\ q.stage = r.stage /\ q.count = r.count /\ q.pids = r.pids /\ q.phase = p
      /\ q.statuses = r.statuses /\ q.finished = r.finished /\ q.status = r.status
  BY <1>1 DEF JobRecords
<1>3. job' = [job EXCEPT ![j] = q] BY DEF Goto
<1> HIDE DEF q
<1>4. Table(j, q, child) BY <1>1, <1>2, TableMoves
<1>5. child \in [Stages -> Children] BY DEF TInv
<1> QED BY <1>1, <1>3, <1>4, <1>5, JobStep

LEMMA UnfinishedPhase ==
  ASSUME JInv, NEW j \in Jobs, job[j].phase \notin {"rest", "dropped"}
  PROVE  ~job[j].finished
BY DEF JInv, Table, Tabled

LEMMA LaunchStep ==
  ASSUME TInv, JInv, HInv, NEW j \in Jobs, Start(j) \/ Launch(j)
  PROVE  TInv' /\ JInv'
<1> DEFINE r == job[j]
<1>0. /\ r \in JobRecords /\ Table(j, r, child) /\ child \in [Stages -> Children]
      /\ Count[j] \in Nat \ {0}
  BY StageFacts DEF TInv, JInv
<1>1. CASE Start(j)
  <2>1. r.phase = "new" /\ Goto(j, "table") /\ child' = child BY <1>1 DEF Start, At
  <2>2. ~r.finished /\ r.count = 0 BY <1>0, <2>1 DEF Table, Tabled, Launched
  <2> QED BY <2>1, <2>2, GoStep DEF Phases, Making
<1>2. CASE OpenTable(j)
  <2> DEFINE q == [r EXCEPT !.phase = "link", !.count = Count[j],
                            !.statuses = [i \in 1..Count[j] |-> 127]]
  <2>1. r.phase = "table" /\ job' = [job EXCEPT ![j] = q] /\ child' = child
    BY <1>2 DEF OpenTable, At
  <2>2. [i \in 1..Count[j] |-> 127] \in Seq(Nat) BY <1>0, StatusSeq
  <2>3. q \in JobRecords BY <1>0, <2>2 DEF JobRecords, Phases, Making
  <2>4. /\ q.phase = "link" /\ q.stage = r.stage /\ q.count = Count[j] /\ q.pids = r.pids
        /\ q.statuses = [i \in 1..Count[j] |-> 127] /\ q.finished = r.finished
    BY <1>0 DEF JobRecords
  <2> HIDE DEF q
  <2>5. /\ \A i \in 1..Count[j] : child[<<j, i>>].state = "none" /\ child[<<j, i>>].end = 127
        /\ ~r.finished /\ r.stage \in 1..Count[j]
    BY <1>0, <2>1 DEF Table, Launched, Tabled, Recorded
  <2>6. Launched(j, q, child) BY <1>0, <2>4, <2>5 DEF Launched
  <2>7. Tabled(j, q, child) BY <1>0, <2>1, <2>4, <2>5 DEF Table, Tabled
  <2>8. Recorded(j, q, child) BY <1>0, <2>4, <2>5 DEF Recorded
  <2> QED BY <1>0, <2>1, <2>3, <2>6, <2>7, <2>8, JobStep DEF Table
<1>3. CASE NoTable(j)
  <2>1. r.phase = "table" /\ Goto(j, "rest") /\ child' = child BY <1>3 DEF NoTable, At
  <2> QED BY <2>1, GoStep, UnfinishedPhase DEF Phases, Rest, Making
<1>4. CASE Pipe(j)
  <2>1. /\ r.phase \in Making /\ child' = child
        /\ \E p \in {"sealLink", "report", "sealReport"} : Goto(j, p)
    BY <1>4 DEF Pipe, At, Making
  <2> QED BY <2>1, GoStep, UnfinishedPhase DEF Phases, Making
<1>5. CASE Seal(j)
  <2>1. /\ r.phase \in Making /\ child' = child
        /\ \E p \in {"report", "fork"} : Goto(j, p)
    BY <1>5 DEF Seal, At, Making
  <2> QED BY <2>1, GoStep, UnfinishedPhase DEF Phases, Making
<1>6. CASE PipeFails(j) \/ ForkFails(j)
  <2>1. r.phase \in Making /\ child' = child /\ Goto(j, "undo")
    BY <1>6 DEF PipeFails, ForkFails, At, Making
  <2> QED BY <2>1, GoStep, UnfinishedPhase DEF Phases, Making
<1>7. CASE Undo(j)
  <2>1. r.phase = "undo" /\ child' = child /\ Goto(j, "term")
    BY <1>7 DEF Undo, At
  <2> QED BY <2>1, GoStep, UnfinishedPhase DEF Phases, Making, Ending
<1>8. CASE Fork(j)
  <2> DEFINE n == r.stage
             q == [r EXCEPT !.phase = "read"]
             s == <<j, n>>
             d == child'
  <2>1. r.phase = "fork" /\ job' = [job EXCEPT ![j] = q]
    BY <1>8 DEF Fork, At, Goto
  <2>2. child' = [child EXCEPT ![s] = [child[s] EXCEPT !.state = "forked", !.fds = held,
                                                       !.keep = held \ sealed]]
    BY <1>8 DEF Fork, This
  <2>3. n \in 1..Count[j] /\ s \in Stages /\ child[s] \in Children
    BY <1>0, StageFacts DEF Table, Launched
  <2>4. /\ d = [child EXCEPT ![s] = d[s]] /\ d[s] \in Children /\ d \in [Stages -> Children]
        /\ d[s].state = "forked" /\ d[s].end = child[s].end
    <3>1. [child[s] EXCEPT !.state = "forked", !.fds = held, !.keep = held \ sealed] \in Children
      BY <2>3 DEF HInv, Children, States
    <3> QED BY <1>0, <2>2, <2>3, <3>1 DEF Children
  <2>5. q \in JobRecords BY <1>0, JobFields DEF Phases
  <2>6. /\ q.phase = "read" /\ q.stage = n /\ q.count = r.count /\ q.pids = r.pids
        /\ q.statuses = r.statuses /\ q.finished = r.finished
    BY <1>0 DEF JobRecords
  <2> HIDE DEF q, d
  <2>7. /\ r.count = Count[j] /\ ~r.finished
        /\ \A i \in n..Count[j] : child[<<j, i>>].state = "none"
    BY <1>0, <2>1 DEF Table, Launched, Tabled, Making
  <2>8. \A i \in 1..Count[j] : i # n => d[<<j, i>>] = child[<<j, i>>]
    BY <1>0, <2>3, <2>4, StageFacts
  <2>9. Forked(j, d) = Forked(j, child) \cup {n} /\ n \notin Forked(j, child)
    BY <1>0, <2>3, <2>4, <2>7, <2>8 DEF Forked
  <2>10. Launched(j, q, d) BY <1>0, <2>3, <2>6, <2>7, <2>8, <2>9 DEF Launched, Making
  <2>11. Tabled(j, q, d) BY <1>0, <2>1, <2>6, <2>7, <2>9 DEF Table, Tabled
  <2>12. Recorded(j, q, d)
    <3>1. /\ \A i \in 1..Count[j] : child[<<j, i>>].state = "none" => child[<<j, i>>].end = 127
          /\ r.count > 0 => /\ DOMAIN r.statuses = 1..r.count
                            /\ \A i \in 1..r.count : r.statuses[i] =
                                 IF child[<<j, i>>].state = "reaped" THEN child[<<j, i>>].end ELSE 127
      BY <1>0 DEF Table, Recorded
    <3>2. child[s].state = "none" BY <2>3, <2>7
    <3> QED BY <1>0, <2>3, <2>4, <2>6, <2>7, <2>8, <3>1, <3>2 DEF Recorded
  <2>13. \A t \in Stages : t[1] # j => d[t] = child[t]
    BY <2>2, <2>3, <1>0 DEF d
  <2>14. child' = d BY DEF d
  <2> QED BY <2>1, <2>4, <2>5, <2>10, <2>11, <2>12, <2>13, <2>14, JobStep DEF Table
<1>9. CASE Spawned(j)
  <2> DEFINE n == r.stage
             told == child[<<j, n>>].told
             phase == IF told THEN "undo" ELSE IF Last(<<j, n>>) THEN "rest" ELSE "link"
             stage == IF told \/ Last(<<j, n>>) THEN n ELSE n + 1
             q == [r EXCEPT !.pids = r.pids \cup {n}, !.phase = phase, !.stage = stage]
  <2>1. r.phase = "read" /\ child' = child
    BY <1>9 DEF Spawned, At
  <2>2. job' = [job EXCEPT ![j] = q]
    <3>1. CASE told
      <4>1. stage = n /\ phase = "undo" BY <3>1
      <4>2. q = [r EXCEPT !.pids = r.pids \cup {n}, !.phase = "undo"]
        BY <1>0, <4>1 DEF JobRecords
      <4> QED BY <1>9, <3>1, <4>2 DEF Spawned, This
    <3>2. CASE ~told
      BY <1>9, <3>2 DEF Spawned, This
    <3> QED BY <3>1, <3>2
  <2>3. /\ r.count = Count[j] /\ ~r.finished /\ n \in 1..Count[j] /\ n \in Forked(j, child)
        /\ \A i \in n+1..Count[j] : child[<<j, i>>].state = "none"
        /\ r.pids = Forked(j, child) \ {n}
    BY <1>0, <2>1 DEF Table, Launched, Tabled, Making
  <2>4. Last(<<j, n>>) <=> n = Count[j] BY DEF Last
  <2>5. stage \in 1..Count[j] /\ phase \in {"undo", "rest", "link"} BY <1>0, <2>3, <2>4
  <2>6. phase = "link" => stage = n + 1
    <3>1. CASE told BY <3>1
    <3>2. CASE ~told /\ Last(<<j, n>>) BY <3>2
    <3>3. CASE ~told /\ ~Last(<<j, n>>)
      <4>1. stage = n + 1 BY <3>3
      <4> QED BY <4>1
    <3> HIDE DEF told, phase, stage
    <3> QED BY <3>1, <3>2, <3>3
  <2> HIDE DEF phase, stage
  <2>7. q \in JobRecords
    <3>1. r.pids \cup {n} \in SUBSET Nat /\ stage \in Nat
      BY <1>0, <2>3, <2>5 DEF JobRecords
    <3>2. phase \in Phases BY <2>5 DEF Phases, Rest, Making
    <3> QED BY <1>0, <3>1, <3>2 DEF JobRecords
  <2>8. /\ q.phase = phase /\ q.stage = stage /\ q.count = r.count /\ q.pids = Forked(j, child)
        /\ q.statuses = r.statuses /\ q.finished = r.finished
    BY <1>0, <2>3 DEF JobRecords
  <2> HIDE DEF q
  <2>9. Launched(j, q, child) BY <1>0, <2>3, <2>5, <2>6, <2>8 DEF Launched, Making
  <2>10. Tabled(j, q, child) BY <2>3, <2>5, <2>8 DEF Tabled
  <2>11. Recorded(j, q, child) BY <1>0, <2>3, <2>8 DEF Table, Recorded
  <2> QED BY <1>0, <2>1, <2>2, <2>7, <2>9, <2>10, <2>11, JobStep DEF Table
<1> QED BY <1>1, <1>2, <1>3, <1>4, <1>5, <1>6, <1>7, <1>8, <1>9 DEF Launch


-----------------------------------------------------------------------------
(* The other steps of a thread, and those of the processes *)

\* A step of processes of a job, or of one process, from a state in which it
\* is neither unborn nor waited for to another such state.
LEMMA RunStep ==
  ASSUME TInv, JInv, NEW d \in [Stages -> Children], child' = d,
         \A s \in Stages : \/ d[s] = child[s]
                           \/ /\ child[s].state \notin {"none", "reaped"}
                              /\ d[s].state \notin {"none", "reaped"},
         job' = job
  PROVE  TInv' /\ JInv'
<1>1. TInv' BY DEF TInv
<1>2. ASSUME NEW j \in Jobs PROVE Table(j, job[j], d)
  <2>1. \A i \in 1..Count[j] : <<j, i>> \in Stages BY StageFacts
  <2>2. job[j] \in JobRecords /\ Table(j, job[j], child) BY DEF TInv, JInv
  <2> QED BY <2>1, <2>2, TableRuns
<1> QED BY <1>1, <1>2 DEF JInv

\* A signal ends processes of a job.
LEMMA SignalFacts ==
  ASSUME TInv, NEW j \in Jobs, NEW S, S \subseteq Targets(j), NEW n \in Nat, Signalled(j, S, n)
  PROVE  /\ child' \in [Stages -> Children]
         /\ \A s \in Stages : \/ child'[s] = child[s]
                              \/ /\ child[s].state \notin {"none", "reaped"}
                                 /\ child'[s].state \notin {"none", "reaped"}
         /\ \A s \in Stages : s[1] # j => child'[s] = child[s]
<1>1. S \subseteq {s \in Stages : s[1] = j /\ Live(s)} BY DEF Targets, Of
<1>2. \A s \in Stages : /\ Ended(s, n) \in Children /\ Ended(s, n).state = "zombie"
  BY DEF TInv, Children, States, Ended
<1>3. \A s \in Stages : Live(s) => child[s].state \notin {"none", "reaped"}
  BY DEF Live
<1>4. \A s \in Stages : child'[s] = IF s \in S THEN Ended(s, n) ELSE child[s]
  BY DEF Signalled
<1>5. child' \in [Stages -> Children]
  BY <1>2 DEF Signalled, TInv
<1> QED BY <1>1, <1>2, <1>3, <1>4, <1>5

LEMMA KillFacts ==
  ASSUME TInv, NEW j \in Jobs, Kill(j)
  PROVE  /\ child' \in [Stages -> Children]
         /\ \A s \in Stages : \/ child'[s] = child[s]
                              \/ /\ child[s].state \notin {"none", "reaped"}
                                 /\ child'[s].state \notin {"none", "reaped"}
         /\ \A s \in Stages : s[1] # j => child'[s] = child[s]
BY SignalFacts DEF Kill

\* A signal, and the operation goes on.
LEMMA SignalStep ==
  ASSUME TInv, JInv, NEW j \in Jobs, NEW p \in Ending, Goto(j, p), job[j].phase \in Ending,
         child' \in [Stages -> Children],
         \A s \in Stages : \/ child'[s] = child[s]
                           \/ /\ child[s].state \notin {"none", "reaped"}
                              /\ child'[s].state \notin {"none", "reaped"},
         \A s \in Stages : s[1] # j => child'[s] = child[s]
  PROVE  TInv' /\ JInv'
<1> DEFINE r == job[j]
           q == [r EXCEPT !.phase = p]
           d == child'
<1>1. r \in JobRecords /\ Table(j, r, child) /\ q \in JobRecords /\ ~r.finished
  BY JobFields, UnfinishedPhase DEF TInv, JInv, Ending, Phases
<1>2. /\ q.stage = r.stage /\ q.count = r.count /\ q.pids = r.pids /\ q.phase = p
      /\ q.statuses = r.statuses /\ q.finished = r.finished /\ q.status = r.status
  BY <1>1 DEF JobRecords
<1>3. job' = [job EXCEPT ![j] = q] BY DEF Goto
<1> HIDE DEF q
<1>4. Table(j, q, child) BY <1>1, <1>2, TableMoves DEF Ending, Making
<1>5. Table(j, q, d)
  <2>1. \A i \in 1..Count[j] : <<j, i>> \in Stages BY StageFacts
  <2> HIDE DEF d
  <2>2. \A s \in Stages : \/ d[s] = child[s]
                          \/ /\ child[s].state \notin {"none", "reaped"}
                             /\ d[s].state \notin {"none", "reaped"} BY DEF d
  <2> QED BY <1>1, <1>4, <2>1, <2>2, TableRuns
<1> QED BY <1>1, <1>3, <1>5, JobStep

LEMMA ProgramStep ==
  ASSUME TInv, JInv, NEW s \in Stages, Program(s)
  PROVE  TInv' /\ JInv'
<1> DEFINE u == child[s]
           w == child'[s]
<1>1. u \in Children BY DEF TInv
<1>2. \A n \in Nat : Ended(s, n) \in Children /\ Ended(s, n).state = "zombie"
  BY <1>1 DEF Children, States, Ended
<1>3. OwnEnds(s) \subseteq Ends
  BY StageFacts DEF OwnEnds, Streams, Link, End, Ends, Previous
<1>4. /\ child' = [child EXCEPT ![s] = w] /\ job' = job /\ w \in Children
      /\ u.state \notin {"none", "reaped"} /\ w.state \notin {"none", "reaped"}
  <2>1. CASE Exec(s)
    <3>1. child' = [child EXCEPT ![s] = [u EXCEPT !.state = "running", !.fds = u.keep \cup OwnEnds(s)]]
      BY <2>1 DEF Exec
    <3>2. [u EXCEPT !.state = "running", !.fds = u.keep \cup OwnEnds(s)] \in Children
      BY <1>1, <1>3 DEF Children, States
    <3> QED BY <2>1, <1>1, <3>1, <3>2 DEF Exec, TInv, Children
  <2>2. CASE ExecFails(s)
    <3>1. child' = [child EXCEPT ![s] = [u EXCEPT !.state = "failed", !.told = TRUE]]
      BY <2>2 DEF ExecFails
    <3>2. [u EXCEPT !.state = "failed", !.told = TRUE] \in Children
      BY <1>1 DEF Children, States
    <3> QED BY <2>2, <1>1, <3>1, <3>2 DEF ExecFails, TInv, Children
  <2>3. CASE ExitFailed(s)
    BY <2>3, <1>2 DEF ExitFailed, TInv
  <2>4. CASE Exits(s)
    <3>1. PICK n \in {0, 1} : child' = [child EXCEPT ![s] = Ended(s, n)]
      BY <2>4 DEF Exits
    <3> QED BY <2>4, <1>2, <3>1 DEF Exits, TInv
  <2> QED BY <2>1, <2>2, <2>3, <2>4 DEF Program
<1> HIDE DEF u, w
<1>5. child' \in [Stages -> Children] /\ \A t \in Stages : child'[t] = IF t = s THEN w ELSE child[t]
  BY <1>4 DEF TInv
<1> QED BY <1>4, <1>5, RunStep DEF u

LEMMA FinishingStep ==
  ASSUME TInv, JInv, NEW j \in Jobs, Finishing(j)
  PROVE  TInv' /\ JInv'
<1> DEFINE r == job[j]
           Z == Zombies(j)
           t == ReapedJob(j, Z)
<1>0. /\ r \in JobRecords /\ Table(j, r, child) /\ child \in [Stages -> Children]
      /\ \A i \in 1..Count[j] : child[<<j, i>>].end \in Nat
  BY StageFacts DEF TInv, JInv, Children
<1>1. CASE Term(j) \/ KillAll(j)
  <2>1. r.phase \in Ending /\ \E p \in Ending : Goto(j, p)
    BY <1>1 DEF Term, KillAll, At, Ending
  <2>2. CASE Term(j)
    BY <2>1, <2>2, KillFacts, SignalStep DEF Term
  <2>3. CASE KillAll(j)
    BY <2>1, <2>3, SignalFacts, SignalStep DEF KillAll
  <2> QED BY <1>1, <2>2, <2>3
<1>2. CASE Grace(j)
  <2> DEFINE q == IF t.pids = {} THEN [t EXCEPT !.phase = "reap"] ELSE t
  <2>1. r.phase = "grace" /\ job' = [job EXCEPT ![j] = q] /\ child' = ReapedChildren(j, Z)
    BY <1>2 DEF Grace, At
  <2>2. /\ ReapedJob(j, Z) \in JobRecords
        /\ ReapedChildren(j, Z) \in [Stages -> Children]
        /\ Table(j, ReapedJob(j, Z), ReapedChildren(j, Z))
    BY <2>1, Reaped, TableReaps, UnfinishedPhase
  <2>3. /\ t.phase = "grace" /\ ~t.finished
    BY <1>0, <2>1, UnfinishedPhase DEF ReapedJob, JobRecords
  <2>4. q \in JobRecords /\ Table(j, q, ReapedChildren(j, Z))
    <3> HIDE DEF t
    <3> DEFINE g == [t EXCEPT !.phase = "reap"]
    <3>1. g \in JobRecords BY <2>2, JobFields DEF t, Phases, Ending
    <3>2. /\ g.stage = t.stage /\ g.count = t.count /\ g.pids = t.pids /\ g.phase = "reap"
          /\ g.statuses = t.statuses /\ g.finished = t.finished /\ g.status = t.status
      BY <2>2 DEF t, JobRecords
    <3> HIDE DEF g
    <3>3. Table(j, g, ReapedChildren(j, Z))
      BY <2>2, <2>3, <3>1, <3>2, TableMoves DEF t, Making
    <3> QED BY <2>2, <3>1, <3>3 DEF t, g
  <2>5. \A s \in Stages : s[1] # j => ReapedChildren(j, Z)[s] = child[s]
    BY DEF ReapedChildren
  <2> HIDE DEF q, Z
  <2> QED BY <2>1, <2>2, <2>4, <2>5, JobStep
<1>3. CASE Reap(j)
  <2>1. PICK i \in Zombies(j) : /\ job' = [job EXCEPT ![j] = ReapedJob(j, {i})]
                                /\ child' = ReapedChildren(j, {i})
    BY <1>3 DEF Reap
  <2>2. r.phase \in {"wait", "reap"} BY <1>3 DEF Reap, At
  <2>3. /\ ReapedJob(j, {i}) \in JobRecords
        /\ ReapedChildren(j, {i}) \in [Stages -> Children]
        /\ Table(j, ReapedJob(j, {i}), ReapedChildren(j, {i}))
    BY <2>1, <2>2, Reaped, TableReaps, UnfinishedPhase
  <2>4. \A s \in Stages : s[1] # j => ReapedChildren(j, {i})[s] = child[s]
    BY DEF ReapedChildren
  <2> QED BY <2>1, <2>3, <2>4, JobStep
<1>4. CASE Finish(j)
  <2>1. /\ r.phase \in {"wait", "reap"} /\ r.pids = {} /\ child' = child
        /\ job' = [job EXCEPT ![j] = IF r.after = "dropped" THEN [r EXCEPT !.phase = "dropped"]
                                     ELSE [Finished(r) EXCEPT !.phase = "rest"]]
    BY <1>4 DEF Finish, At
  <2>2. CASE r.after = "dropped"
    <3>1. Goto(j, "dropped") BY <2>1, <2>2 DEF Goto
    <3> QED BY <2>1, <3>1, GoStep DEF Phases, Rest, Making
  <2>3. CASE r.after # "dropped"
    BY <1>0, <2>1, <2>3, TableFinishes, JobStep
  <2> QED BY <2>2, <2>3
<1> QED BY <1>1, <1>2, <1>3, <1>4 DEF Finishing

LEMMA OperationStep ==
  ASSUME TInv, JInv, NEW j \in Jobs, Status(j) \/ Ready(j) \/ UserKill(j) \/ Cleanup(j) \/ Drop(j)
  PROVE  TInv' /\ JInv'
<1> DEFINE r == job[j]
           Z == Zombies(j)
           t == ReapedJob(j, Z)
<1>0. /\ r \in JobRecords /\ Table(j, r, child) /\ child \in [Stages -> Children]
      /\ r.phase = "rest"
  BY DEF TInv, JInv, Status, Ready, UserKill, Cleanup, Drop, Operation, At
<1>1. CASE Status(j) \/ Cleanup(j)
  <2>1. ~r.finished /\ child' = child /\ \E p \in {"wait", "term"} : Goto(j, p)
    BY <1>1 DEF Status, Cleanup
  <2> QED BY <1>0, <2>1, GoStep DEF Phases, Ending, Making
<1>2. CASE Ready(j)
  <2> DEFINE q == IF t.pids = {} THEN Finished(t) ELSE t
             d == ReapedChildren(j, Z)
  <2>1. ~r.finished /\ job' = [job EXCEPT ![j] = q] /\ child' = d
    BY <1>2 DEF Ready
  <2>2. t \in JobRecords /\ d \in [Stages -> Children] /\ Table(j, t, d)
    BY <1>0, <2>1, Reaped, TableReaps
  <2>3. t.phase = "rest"
    BY <1>0 DEF ReapedJob, JobRecords
  <2>4. \A i \in 1..Count[j] : d[<<j, i>>].end \in Nat
    BY <2>2, StageFacts DEF Children
  <2>5. \A s \in Stages : s[1] # j => d[s] = child[s]
    BY DEF ReapedChildren
  <2> HIDE DEF t, d
  <2>6. t.pids = {} => /\ Finished(t) \in JobRecords /\ Table(j, Finished(t), d)
    <3> SUFFICES ASSUME t.pids = {} PROVE Finished(t) \in JobRecords /\ Table(j, Finished(t), d)
      OBVIOUS
    <3> DEFINE f == Finished(t)
    <3>1. /\ f \in JobRecords /\ f.phase = "rest"
          /\ Table(j, [f EXCEPT !.phase = "rest"], d)
      BY <2>2, <2>3, <2>4, TableFinishes
    <3> HIDE DEF f
    <3>2. [f EXCEPT !.phase = "rest"] = f BY <3>1 DEF JobRecords
    <3> QED BY <3>1, <3>2 DEF f
  <2>7. q \in JobRecords /\ Table(j, q, d) BY <2>2, <2>6
  <2> HIDE DEF q
  <2> QED BY <2>1, <2>2, <2>5, <2>7, JobStep
<1>3. CASE UserKill(j)
  <2>1. job' = job /\ Kill(j) BY <1>3 DEF UserKill
  <2> QED BY <2>1, KillFacts, RunStep
<1>4. CASE Drop(j)
  <2> DEFINE p == IF r.finished THEN "dropped" ELSE "term"
             q == [r EXCEPT !.phase = p, !.after = "dropped"]
  <2>1. child' = child /\ job' = [job EXCEPT ![j] = q]
    BY <1>4 DEF Drop
  <2>2. p \in Phases /\ p \in {"dropped", "term"} BY DEF Phases, Rest, Ending
  <2>3. r.finished => p = "dropped" /\ r.pids = {}
    BY <1>0 DEF Table, Tabled
  <2>4. p = "dropped" => r.finished OBVIOUS
  <2> HIDE DEF p
  <2>5. q \in JobRecords BY <1>0, <2>2 DEF JobRecords
  <2>6. /\ q.stage = r.stage /\ q.count = r.count /\ q.pids = r.pids /\ q.phase = p
        /\ q.statuses = r.statuses /\ q.finished = r.finished /\ q.status = r.status
    BY <1>0 DEF JobRecords
  <2> HIDE DEF q
  <2>7. Table(j, q, child)
    BY <1>0, <2>2, <2>3, <2>4, <2>5, <2>6, TableMoves DEF Making
  <2> QED BY <1>0, <2>1, <2>5, <2>7, JobStep
<1> QED BY <1>1, <1>2, <1>3, <1>4

-----------------------------------------------------------------------------
(* The ends this process holds *)

LEMMA EndFacts ==
  ASSUME NEW s \in Jobs \X Nat
  PROVE  /\ Link(s) \subseteq Ends /\ Report(s) \subseteq Ends
         /\ \A d \in Link(s) \cup Report(s) : d.stage = s
BY DEF Link, Report, End, Ends

LEMMA HInvStep ==
  ASSUME TInv, JInv, HInv, [Next]_vars
  PROVE  HInv'
<1>1. \A j \in Jobs : This(j) \in Jobs \X Nat
  BY DEF TInv, JobRecords, This
<1>2. \A ds : Close(ds) => HInv'
  BY DEF Close, HInv
<1>3. held' = held => HInv'
  BY DEF HInv
<1>4. ASSUME NEW j \in Jobs, Launch(j) PROVE HInv'
  <2>1. Link(This(j)) \subseteq Ends /\ Report(This(j)) \subseteq Ends
    BY <1>1, EndFacts
  <2>2. CASE Pipe(j) BY <2>1, <2>2 DEF Pipe, HInv
  <2>3. CASE Fork(j) \/ ForkFails(j) \/ Spawned(j) \/ Undo(j)
    <3>1. \E ds : Close(ds) BY <2>3 DEF Fork, ForkFails, Spawned, Undo
    <3> QED BY <1>2, <3>1
  <2>4. CASE OpenTable(j) \/ NoTable(j) \/ Seal(j) \/ PipeFails(j)
    <3>1. held' = held BY <2>4 DEF OpenTable, NoTable, Seal, PipeFails
    <3> QED BY <1>3, <3>1
  <2> QED BY <1>4, <2>2, <2>3, <2>4 DEF Launch
<1>5. ASSUME NEW j \in Jobs, Start(j) \/ Finishing(j) \/ Status(j) \/ Ready(j) \/ UserKill(j)
                             \/ Cleanup(j) \/ Drop(j)
      PROVE  HInv'
  BY <1>3, <1>5 DEF Start, Finishing, Term, Grace, KillAll, Reap, Finish,
                    Status, Ready, UserKill, Cleanup, Drop
<1>6. ASSUME NEW s \in Stages, Program(s) PROVE HInv'
  BY <1>3, <1>6 DEF Program, Exec, ExecFails, ExitFailed, Exits
<1> QED BY <1>3, <1>4, <1>5, <1>6 DEF Next, vars

\* A step of the operation on one job opens, seals and closes its own ends.
LEMMA EndsStep ==
  ASSUME TInv, HInv, HInv', DInv, NEW j \in Jobs, NEW q, job' = [job EXCEPT ![j] = q],
         \A d : d.stage[1] # j => (d \in held' <=> d \in held) /\ (d \in sealed' <=> d \in sealed),
         \A d \in held' : d.stage[1] = j => d \in OpenEnds(j, q),
         \A d \in held' \ sealed' : d.stage[1] = j => d \in FreshEnds(j, q),
         sealed' \subseteq held', FreshEnds(j, q) \subseteq held',
         q.phase = "sealLink" => ~Last(<<j, q.stage>>)
  PROVE  DInv'
<1>1. \A k \in Jobs : job'[k] = IF k = j THEN q ELSE job[k]
  BY DEF TInv
<1>2. \A d \in held' : d.stage[1] \in Jobs
  BY DEF HInv, Ends
<1>3. \A d \in held' : d \in OpenEnds(d.stage[1], job'[d.stage[1]])
  BY <1>1, <1>2 DEF DInv
<1>4. \A d \in held' \ sealed' : d \in FreshEnds(d.stage[1], job'[d.stage[1]])
  BY <1>1, <1>2 DEF DInv
<1>5. ASSUME NEW k \in Jobs, k # j PROVE FreshEnds(k, job[k]) \subseteq held'
  <2>1. <<k, job[k].stage>> \in Jobs \X Nat BY DEF TInv, JobRecords
  <2>2. \A d \in FreshEnds(k, job[k]) : d.stage = <<k, job[k].stage>>
    BY <2>1, EndFacts DEF FreshEnds
  <2>3. \A d \in FreshEnds(k, job[k]) : d.stage[1] # j BY <1>5, <2>2
  <2> QED BY <2>3 DEF DInv
<1>6. \A k \in Jobs : FreshEnds(k, job'[k]) \subseteq held'
  BY <1>1, <1>5
<1>7. \A k \in Jobs : job'[k].phase = "sealLink" => ~Last(<<k, job'[k].stage>>)
  BY <1>1 DEF DInv, This
<1> QED BY <1>3, <1>4, <1>6, <1>7 DEF DInv, This

\* The phases in which a launch holds ends of pipes.
Holding == {"link", "sealLink", "report", "sealReport", "fork", "read", "undo"}

LEMMA QuietStep ==
  ASSUME TInv, HInv, DInv, NEW j \in Jobs, NEW q, job' = [job EXCEPT ![j] = q],
         held' = held, sealed' = sealed, job[j].phase \notin Holding,
         q.phase \notin Holding \ {"link"}
  PROVE  DInv'
<1>1. OpenEnds(j, job[j]) = {} BY DEF OpenEnds, Holding
<1>2. FreshEnds(j, q) = {} /\ q.phase # "sealLink" BY DEF FreshEnds, Holding
<1>3. \A d \in held : d.stage[1] # j BY <1>1 DEF DInv
<1>4. HInv' BY DEF HInv
<1> QED BY <1>2, <1>3, <1>4, EndsStep DEF DInv

LEMMA QuietGo ==
  ASSUME TInv, HInv, DInv, NEW j \in Jobs, NEW p, Goto(j, p),
         held' = held, sealed' = sealed, job[j].phase \notin Holding, p \notin Holding
  PROVE  DInv'
<1> DEFINE q == [job[j] EXCEPT !.phase = p]
<1>1. job' = [job EXCEPT ![j] = q] BY DEF Goto
<1>2. q.phase = p BY DEF TInv, JobRecords
<1> HIDE DEF q
<1> QED BY <1>1, <1>2, QuietStep

LEMMA LaunchEnds ==
  ASSUME TInv, JInv, HInv, HInv', DInv, NEW j \in Jobs, Start(j) \/ Launch(j)
  PROVE  DInv'
<1> DEFINE r == job[j]
           n == r.stage
           s == <<j, n>>
<1>0. /\ r \in JobRecords /\ n \in Nat /\ s \in Jobs \X Nat /\ This(j) = s
      /\ Previous(s) = <<j, n - 1>>
      /\ job \in [Jobs -> JobRecords]
  BY DEF TInv, JobRecords, This, Previous
<1>1. /\ \A p : [r EXCEPT !.phase = p].phase = p /\ [r EXCEPT !.phase = p].stage = n
      /\ \A p : Goto(j, p) => job' = [job EXCEPT ![j] = [r EXCEPT !.phase = p]]
  BY <1>0 DEF JobRecords, Goto
<1>2. /\ \A d \in held : d.stage[1] = j => d \in OpenEnds(j, r)
      /\ \A d \in held \ sealed : d.stage[1] = j => d \in FreshEnds(j, r)
      /\ FreshEnds(j, r) \subseteq held /\ sealed \subseteq held
      /\ r.phase = "sealLink" => ~Last(s)
  BY <1>0 DEF DInv
<1>3. \A d \in Link(s) \cup Report(s) : d.stage = s /\ d.stage[1] = j
  BY <1>0, EndFacts
<1>4. \A d \in Link(Previous(s)) : d.stage[1] = j
  BY <1>0 DEF Link, End
\* Ends of this job are opened, or made close-on-exec.
<1>16. ASSUME NEW q, NEW H, NEW S, job' = [job EXCEPT ![j] = q],
              held' = held \cup H, sealed' = sealed \cup S, S \subseteq held',
              \A d \in H \cup S : d.stage[1] = j,
              OpenEnds(j, r) \cup H \subseteq OpenEnds(j, q),
              (FreshEnds(j, r) \cup H) \ S \subseteq FreshEnds(j, q),
              FreshEnds(j, q) \subseteq held',
              q.stage = n, q.phase = "sealLink" => ~Last(s)
       PROVE  DInv'
  <2>0. q.phase = "sealLink" => ~Last(<<j, q.stage>>) BY <1>16
  <2> HIDE DEF r, n, s
  <2>1. \A d : d.stage[1] # j => (d \in held' <=> d \in held) /\ (d \in sealed' <=> d \in sealed)
    BY <1>16
  <2>2. \A d \in held' : d.stage[1] = j => d \in OpenEnds(j, q)
    BY <1>2, <1>16
  <2>3. \A d \in held' \ sealed' : d.stage[1] = j => d \in FreshEnds(j, q)
    BY <1>2, <1>16
  <2>4. sealed' \subseteq held'
    BY <1>2, <1>16
  <2> QED BY <1>16, <2>0, <2>1, <2>2, <2>3, <2>4, EndsStep
<1>5. CASE Start(j)
  <2>1. r.phase = "new" /\ Goto(j, "table") /\ held' = held /\ sealed' = sealed
    BY <1>5 DEF Start, At
  <2> QED BY <2>1, QuietGo DEF Holding
<1>6. CASE OpenTable(j)
  <2> DEFINE q == [r EXCEPT !.phase = "link", !.count = Count[j],
                            !.statuses = [i \in 1..Count[j] |-> 127]]
  <2>1. /\ r.phase = "table" /\ job' = [job EXCEPT ![j] = q]
        /\ held' = held /\ sealed' = sealed
    BY <1>6 DEF OpenTable, At
  <2>2. q.phase = "link" BY <1>0 DEF JobRecords
  <2> HIDE DEF q
  <2> QED BY <2>1, <2>2, QuietStep DEF Holding
<1>7. CASE NoTable(j)
  <2>1. r.phase = "table" /\ Goto(j, "rest") /\ held' = held /\ sealed' = sealed
    BY <1>7 DEF NoTable, At
  <2> QED BY <2>1, QuietGo DEF Holding
<1>8. CASE Pipe(j)
  <2>1. CASE At(j, {"link"}) /\ ~Last(s)
    <3> DEFINE q == [r EXCEPT !.phase = "sealLink"]
    <3>1. /\ r.phase = "link" /\ job' = [job EXCEPT ![j] = q] /\ sealed' = sealed
          /\ held' = held \cup Link(s)
      BY <1>0, <1>1, <1>8, <2>1 DEF Pipe, At
    <3>2. q.phase = "sealLink" /\ q.stage = n BY <1>1
    <3> HIDE DEF q
    <3>3. /\ OpenEnds(j, r) = Input(s) /\ OpenEnds(j, q) = Input(s) \cup Link(s)
          /\ FreshEnds(j, r) = {} /\ FreshEnds(j, q) = Link(s)
      BY <2>1, <3>1, <3>2 DEF OpenEnds, Output, FreshEnds
    <3> HIDE DEF s
    <3> QED BY <1>3, <1>16, <2>1, <3>1, <3>2, <3>3
  <2>2. CASE At(j, {"link"}) /\ Last(s)
    <3> DEFINE q == [r EXCEPT !.phase = "report"]
    <3>1. /\ r.phase = "link" /\ job' = [job EXCEPT ![j] = q] /\ sealed' = sealed
          /\ held' = held
      BY <1>0, <1>1, <1>8, <2>2 DEF Pipe, At
    <3>2. q.phase = "report" /\ q.stage = n BY <1>1
    <3> HIDE DEF q
    <3>3. /\ OpenEnds(j, r) = Input(s) /\ OpenEnds(j, q) = Input(s) \cup Output(s)
          /\ FreshEnds(j, r) = {} /\ FreshEnds(j, q) = {}
      BY <3>1, <3>2 DEF OpenEnds, FreshEnds
    <3> QED BY <1>16, <3>1, <3>2, <3>3
  <2>3. CASE At(j, {"report"})
    <3> DEFINE q == [r EXCEPT !.phase = "sealReport"]
    <3>1. /\ r.phase = "report" /\ job' = [job EXCEPT ![j] = q] /\ sealed' = sealed
          /\ held' = held \cup Report(s)
      BY <1>0, <1>1, <1>8, <2>3 DEF Pipe, At
    <3>2. q.phase = "sealReport" /\ q.stage = n BY <1>1
    <3> HIDE DEF q
    <3>3. /\ OpenEnds(j, r) = Input(s) \cup Output(s)
          /\ OpenEnds(j, q) = Input(s) \cup Output(s) \cup Report(s)
          /\ FreshEnds(j, r) = {} /\ FreshEnds(j, q) = Report(s)
      BY <3>1, <3>2 DEF OpenEnds, FreshEnds
    <3> DEFINE H == Report(s)
               S == {d \in H : FALSE}
    <3>4. \A d \in H \cup S : d.stage[1] = j BY <1>3
    <3>5. /\ held' = held \cup H /\ sealed' = sealed \cup S /\ S \subseteq held'
          /\ OpenEnds(j, r) \cup H \subseteq OpenEnds(j, q)
          /\ (FreshEnds(j, r) \cup H) \ S \subseteq FreshEnds(j, q)
          /\ FreshEnds(j, q) \subseteq held' /\ q.phase # "sealLink"
      BY <3>1, <3>2, <3>3
    <3> HIDE DEF s, r, H, S
    <3> QED BY <1>16, <3>1, <3>2, <3>4, <3>5
  <2> QED BY <1>0, <1>8, <2>1, <2>2, <2>3 DEF Pipe
<1>9. CASE Seal(j)
  <2>1. CASE At(j, {"sealLink"})
    <3> DEFINE q == [r EXCEPT !.phase = "report"]
    <3>1. /\ r.phase = "sealLink" /\ job' = [job EXCEPT ![j] = q]
          /\ sealed' = sealed \cup Link(s) /\ held' = held
      BY <1>0, <1>1, <1>9, <2>1 DEF Seal, At
    <3>2. q.phase = "report" /\ q.stage = n BY <1>1
    <3> HIDE DEF q
    <3>3. /\ OpenEnds(j, r) = Input(s) \cup Output(s) /\ OpenEnds(j, q) = Input(s) \cup Output(s)
          /\ FreshEnds(j, r) = Link(s) /\ FreshEnds(j, q) = {}
      BY <3>1, <3>2 DEF OpenEnds, FreshEnds
    <3>4. Link(s) \subseteq held' /\ \A d \in Link(s) : d.stage[1] = j BY <1>2, <1>3, <3>1, <3>3
    <3> HIDE DEF s
    <3> QED BY <1>16, <3>1, <3>2, <3>3, <3>4
  <2>2. CASE At(j, {"sealReport"})
    <3> DEFINE q == [r EXCEPT !.phase = "fork"]
    <3>1. /\ r.phase = "sealReport" /\ job' = [job EXCEPT ![j] = q]
          /\ sealed' = sealed \cup Report(s) /\ held' = held
      BY <1>0, <1>1, <1>9, <2>2 DEF Seal, At
    <3>2. q.phase = "fork" /\ q.stage = n BY <1>1
    <3> HIDE DEF q
    <3>3. /\ OpenEnds(j, q) = OpenEnds(j, r)
          /\ FreshEnds(j, r) = Report(s) /\ FreshEnds(j, q) = {}
      BY <3>1, <3>2 DEF OpenEnds, FreshEnds
    <3>4. Report(s) \subseteq held' /\ \A d \in Report(s) : d.stage[1] = j BY <1>2, <1>3, <3>1, <3>3
    <3> HIDE DEF s
    <3> QED BY <1>16, <3>1, <3>2, <3>3, <3>4
  <2> QED BY <1>9, <2>1, <2>2 DEF Seal
<1>10. CASE PipeFails(j)
  <2> DEFINE q == [r EXCEPT !.phase = "undo"]
  <2>1. /\ r.phase \in {"link", "report"} /\ job' = [job EXCEPT ![j] = q]
        /\ held' = held /\ sealed' = sealed
    BY <1>1, <1>10 DEF PipeFails, At
  <2>2. q.phase = "undo" /\ q.stage = n BY <1>1
  <2> HIDE DEF q
  <2>3. /\ OpenEnds(j, r) \subseteq Input(s) \cup Output(s)
        /\ OpenEnds(j, q) = Input(s) \cup Output(s)
        /\ FreshEnds(j, r) = {} /\ FreshEnds(j, q) = {}
    BY <2>1, <2>2 DEF OpenEnds, FreshEnds
  <2> QED BY <1>16, <2>1, <2>2, <2>3
\* A close of ends of this job, when none is fresh.
<1>11. ASSUME NEW q, NEW ds, Close(ds), job' = [job EXCEPT ![j] = q],
              \A d \in ds : d.stage[1] = j,
              OpenEnds(j, r) \ ds \subseteq OpenEnds(j, q),
              r.phase \notin {"sealLink", "sealReport"}, q.phase \notin {"sealLink", "sealReport"}
       PROVE  DInv'
  <2>1. FreshEnds(j, r) = {} /\ FreshEnds(j, q) = {} BY <1>11 DEF FreshEnds
  <2>2. held' = held \ ds /\ sealed' = sealed \ ds BY <1>11 DEF Close
  <2> HIDE DEF r, s, n
  <2>3. /\ \A d : d.stage[1] # j => (d \in held' <=> d \in held) /\ (d \in sealed' <=> d \in sealed)
        /\ \A d \in held' : d.stage[1] = j => d \in OpenEnds(j, q)
        /\ \A d \in held' \ sealed' : d.stage[1] = j => d \in FreshEnds(j, q)
        /\ sealed' \subseteq held' /\ FreshEnds(j, q) \subseteq held'
    BY <1>2, <1>11, <2>1, <2>2
  <2>4. HInv' /\ HInv /\ TInv /\ DInv OBVIOUS
  <2>5. q.phase = "sealLink" => ~Last(<<j, q.stage>>) BY <1>11
  <2> QED BY <1>11, <2>3, <2>4, <2>5, EndsStep
<1>12. CASE Fork(j)
  <2> DEFINE q == [r EXCEPT !.phase = "read"]
             ds == {End("report", "w", s)}
  <2>1. r.phase = "fork" /\ job' = [job EXCEPT ![j] = q] /\ Close(ds)
    BY <1>0, <1>1, <1>12 DEF Fork, At
  <2>2. q.phase = "read" /\ q.stage = n BY <1>1
  <2> HIDE DEF q
  <2>3. OpenEnds(j, q) = OpenEnds(j, r) BY <2>1, <2>2 DEF OpenEnds
  <2>4. \A d \in ds : d.stage[1] = j BY <1>3 DEF Report
  <2> QED BY <1>11, <2>1, <2>2, <2>3, <2>4
<1>13. CASE ForkFails(j)
  <2> DEFINE q == [r EXCEPT !.phase = "undo"]
  <2>1. r.phase = "fork" /\ job' = [job EXCEPT ![j] = q] /\ Close(Report(s))
    BY <1>0, <1>1, <1>13 DEF ForkFails, At
  <2>2. q.phase = "undo" /\ q.stage = n BY <1>1
  <2> HIDE DEF q
  <2>3. OpenEnds(j, r) \ Report(s) \subseteq OpenEnds(j, q) BY <2>1, <2>2 DEF OpenEnds
  <2> QED BY <1>3, <1>11, <2>1, <2>2, <2>3
<1>14. CASE Undo(j)
  <2> DEFINE q == [r EXCEPT !.phase = "term"]
             ds == Link(s) \cup Link(Previous(s))
  <2>1. r.phase = "undo" /\ job' = [job EXCEPT ![j] = q] /\ Close(ds)
    BY <1>0, <1>1, <1>14 DEF Undo, At
  <2>2. q.phase = "term" /\ q.stage = n BY <1>1
  <2> HIDE DEF q
  <2>3. OpenEnds(j, r) \ ds \subseteq OpenEnds(j, q)
    <3>1. OpenEnds(j, r) = Input(s) \cup Output(s) BY <2>1 DEF OpenEnds
    <3>2. Input(s) \subseteq Link(Previous(s)) /\ Output(s) \subseteq Link(s)
      BY DEF Input, Output, Link
    <3> QED BY <3>1, <3>2
  <2>4. \A d \in ds : d.stage[1] = j BY <1>3, <1>4
  <2> HIDE DEF ds
  <2> QED BY <1>11, <2>1, <2>2, <2>3, <2>4
<1>15. CASE Spawned(j)
  <2>1. r.phase = "read" BY <1>15 DEF Spawned, At
  <2>2. OpenEnds(j, r) = Input(s) \cup Output(s) \cup Report(s) BY <2>1 DEF OpenEnds
  <2>3. CASE child[s].told
    <3> DEFINE q == [r EXCEPT !.pids = r.pids \cup {n}, !.phase = "undo"]
    <3>1. job' = [job EXCEPT ![j] = q] /\ Close(Report(s))
      BY <1>15, <2>3 DEF Spawned, This
    <3>2. q.phase = "undo" /\ q.stage = n BY <1>0 DEF JobRecords
    <3> HIDE DEF q
    <3>3. OpenEnds(j, r) \ Report(s) \subseteq OpenEnds(j, q) BY <2>2, <3>2 DEF OpenEnds
    <3> QED BY <1>3, <1>11, <2>1, <3>1, <3>2, <3>3
  <2>4. CASE ~child[s].told
    <3> DEFINE p == IF Last(s) THEN "rest" ELSE "link"
               m == IF Last(s) THEN n ELSE n + 1
               q == [r EXCEPT !.pids = r.pids \cup {n}, !.phase = p, !.stage = m]
               ds == Report(s) \cup {End("link", "w", s), End("link", "r", Previous(s))}
    <3>1. job' = [job EXCEPT ![j] = q] /\ Close(ds)
      BY <1>15, <2>4 DEF Spawned, This
    <3>2. q.phase = p /\ q.stage = m BY <1>0 DEF JobRecords
    <3>3. p \in {"rest", "link"} OBVIOUS
    <3>4. \A d \in ds : d.stage[1] = j BY <1>3, <1>4 DEF Link
    <3>5. OpenEnds(j, r) \ ds = IF Last(s) THEN {} ELSE {End("link", "r", s)} \ ds
      BY <2>2 DEF Input, Output, Link
    <3>6. ~Last(s) => OpenEnds(j, q) = {End("link", "r", s)}
      <4>1. SUFFICES ASSUME ~Last(s) PROVE OpenEnds(j, q) = {End("link", "r", s)} OBVIOUS
      <4>2. q.phase = "link" /\ q.stage = n + 1 BY <3>2, <4>1
      <4>3. Previous(<<j, n + 1>>) = s BY <1>0 DEF Previous
      <4> HIDE DEF q, s
      <4> QED BY <4>2, <4>3 DEF OpenEnds, Input
    <3> HIDE DEF q, ds, p
    <3>7. OpenEnds(j, r) \ ds \subseteq OpenEnds(j, q) BY <3>5, <3>6
    <3> QED BY <1>11, <2>1, <3>1, <3>2, <3>3, <3>4, <3>7
  <2> QED BY <2>3, <2>4
<1> QED BY <1>5, <1>6, <1>7, <1>8, <1>9, <1>10, <1>12, <1>13, <1>14, <1>15 DEF Launch

LEMMA DInvStep ==
  ASSUME TInv, JInv, HInv, HInv', DInv, [Next]_vars
  PROVE  DInv'
<1>1. ASSUME job' = job, held' = held, sealed' = sealed PROVE DInv'
  BY <1>1 DEF DInv, This
<1>2. ASSUME NEW j \in Jobs, Finishing(j) \/ Status(j) \/ Ready(j) \/ Cleanup(j) \/ Drop(j)
      PROVE  DInv'
  <2>1. /\ held' = held /\ sealed' = sealed
        /\ job[j].phase \in Ending \cup {"rest"}
    BY <1>2 DEF Finishing, Term, Grace, KillAll, Reap, Finish, Status, Ready, Cleanup, Drop,
                Operation, At, Ending
  <2>2. job[j] \in JobRecords /\ Table(j, job[j], child) BY DEF TInv, JInv
  <2>3. \E q : job' = [job EXCEPT ![j] = q] /\ q.phase \in Ending \cup Rest
    <3>1. CASE \E p \in Ending \cup Rest : Goto(j, p)
      <4>1. PICK p \in Ending \cup Rest : Goto(j, p) BY <3>1
      <4>2. [job[j] EXCEPT !.phase = p].phase = p BY <2>2 DEF JobRecords
      <4> QED BY <4>1, <4>2 DEF Goto
    <3>2. \A S : ReapedJob(j, S).phase = job[j].phase
      BY <2>2 DEF ReapedJob, JobRecords
    <3>3. CASE Grace(j)
      <4> DEFINE t == ReapedJob(j, Zombies(j))
      <4>1. job' = [job EXCEPT ![j] = IF t.pids = {} THEN [t EXCEPT !.phase = "reap"] ELSE t]
        BY <3>3 DEF Grace
      <4>2. t \in JobRecords BY Reaped
      <4>3. [t EXCEPT !.phase = "reap"].phase = "reap" BY <4>2 DEF JobRecords
      <4>4. t.phase \in Ending \cup Rest BY <2>1, <3>2 DEF Rest
      <4> HIDE DEF t
      <4> QED BY <4>1, <4>3, <4>4 DEF Ending
    <3>4. CASE Reap(j)
      BY <2>1, <3>2, <3>4 DEF Reap, Rest
    <3>5. CASE Ready(j)
      <4> DEFINE t == ReapedJob(j, Zombies(j))
      <4>1. job' = [job EXCEPT ![j] = IF t.pids = {} THEN Finished(t) ELSE t]
        BY <3>5 DEF Ready
      <4>2. t \in JobRecords BY Reaped
      <4>3. Finished(t).phase = t.phase BY <4>2 DEF Finished, JobRecords
      <4>4. t.phase \in Ending \cup Rest BY <2>1, <3>2 DEF Rest
      <4> HIDE DEF t
      <4> QED BY <4>1, <4>3, <4>4
    <3>6. CASE Finish(j)
      <4> DEFINE r == job[j]
                 q == IF r.after = "dropped" THEN [r EXCEPT !.phase = "dropped"]
                      ELSE [Finished(r) EXCEPT !.phase = "rest"]
      <4>1. job' = [job EXCEPT ![j] = q] BY <3>6 DEF Finish
      <4>2. [r EXCEPT !.phase = "dropped"].phase = "dropped" BY <2>2 DEF JobRecords
      <4>3. [Finished(r) EXCEPT !.phase = "rest"].phase = "rest"
        BY <2>2 DEF Finished, JobRecords
      <4>4. q.phase \in {"rest", "dropped"} BY <4>2, <4>3
      <4> HIDE DEF q
      <4> QED BY <4>1, <4>4 DEF Rest
    <3>7. CASE Drop(j)
      <4> DEFINE p == IF job[j].finished THEN "dropped" ELSE "term"
                 q == [job[j] EXCEPT !.phase = p, !.after = "dropped"]
      <4>1. job' = [job EXCEPT ![j] = q] BY <3>7 DEF Drop
      <4>2. q.phase = p BY <2>2 DEF JobRecords
      <4> HIDE DEF q
      <4> QED BY <4>1, <4>2 DEF Rest, Ending
    <3>8. CASE Term(j) \/ KillAll(j) \/ Status(j) \/ Cleanup(j)
      BY <3>1, <3>8 DEF Term, KillAll, Status, Cleanup, Ending
    <3> QED BY <1>2, <3>3, <3>4, <3>5, <3>6, <3>7, <3>8 DEF Finishing
  <2>4. PICK q : job' = [job EXCEPT ![j] = q] /\ q.phase \in Ending \cup Rest
    BY <2>3
  <2>5. job[j].phase \notin Holding /\ q.phase \notin Holding
    BY <2>1, <2>4 DEF Holding, Ending, Rest
  <2> QED BY <2>1, <2>4, <2>5, QuietStep
<1>3. ASSUME NEW j \in Jobs, UserKill(j) PROVE DInv'
  BY <1>1, <1>3 DEF UserKill
<1>4. ASSUME NEW s \in Stages, Program(s) PROVE DInv'
  BY <1>1, <1>4 DEF Program, Exec, ExecFails, ExitFailed, Exits
<1> QED BY <1>1, <1>2, <1>3, <1>4, LaunchEnds DEF Next, vars

\* Each step of an operation goes on with the operation its thread is in.
LEMMA OneBusyStep ==
  ASSUME TInv, JInv, OneBusy, [Next]_vars
  PROVE  OneBusy'
<1>1. ASSUME NEW j \in Jobs, NEW q, job' = [job EXCEPT ![j] = q],
             Free(j) \/ job[j].phase \notin Rest \/ q.phase \in Rest
      PROVE  OneBusy'
  <2>1. \A k \in Jobs : job'[k] = IF k = j THEN q ELSE job[k] BY <1>1 DEF TInv
  <2> QED BY <1>1, <2>1 DEF OneBusy, Free, At
<1>2. ASSUME job' = job PROVE OneBusy'
  BY <1>2 DEF OneBusy, At
<1>3. \A j \in Jobs : \A p : Goto(j, p) => \E q : job' = [job EXCEPT ![j] = q]
  BY DEF Goto
<1>4. ASSUME NEW j \in Jobs, Launch(j) \/ Finishing(j) PROVE OneBusy'
  <2>1. job[j].phase \notin Rest
    BY <1>4 DEF Launch, Finishing, OpenTable, NoTable, Pipe, Seal, PipeFails, Fork, ForkFails,
                Spawned, Undo, Term, Grace, KillAll, Reap, Finish, At, Rest
  <2>2. \E q : job' = [job EXCEPT ![j] = q]
    <3>1. CASE OpenTable(j) BY <3>1 DEF OpenTable
    <3>2. CASE Spawned(j)
      <4>1. \E q : q = job'[j] OBVIOUS
      <4>2. job' = [job EXCEPT ![j] = job'[j]]
        BY <3>2 DEF Spawned, TInv
      <4> QED BY <4>2
    <3>3. CASE Grace(j) \/ Reap(j) \/ Finish(j)
      BY <3>3 DEF Grace, Reap, Finish
    <3> QED BY <1>3, <1>4, <3>1, <3>2, <3>3
        DEF Launch, Finishing, NoTable, Pipe, Seal, PipeFails, Fork, ForkFails, Undo, Term, KillAll
  <2> QED BY <1>1, <2>1, <2>2
<1>5. ASSUME NEW j \in Jobs, Start(j) \/ Status(j) \/ Ready(j) \/ Cleanup(j) \/ Drop(j)
      PROVE  OneBusy'
  <2>1. Free(j) BY <1>5 DEF Start, Status, Ready, Cleanup, Drop, Operation
  <2>2. \E q : job' = [job EXCEPT ![j] = q]
    <3>1. CASE Ready(j) BY <3>1 DEF Ready
    <3>2. CASE Drop(j)
      <4>1. job' = [job EXCEPT ![j] = job'[j]] BY <3>2 DEF Drop, TInv
      <4> QED BY <4>1
    <3> QED BY <1>3, <1>5, <3>1, <3>2 DEF Start, Status, Cleanup
  <2> QED BY <1>1, <2>1, <2>2
<1>6. ASSUME NEW j \in Jobs, UserKill(j) PROVE OneBusy'
  BY <1>2, <1>6 DEF UserKill
<1>7. ASSUME NEW s \in Stages, Program(s) PROVE OneBusy'
  BY <1>2, <1>7 DEF Program, Exec, ExecFails, ExitFailed, Exits
<1> QED BY <1>2, <1>4, <1>5, <1>6, <1>7 DEF Next, vars

-----------------------------------------------------------------------------
(* The theorems *)

LEMMA TableInvariant == Spec => [](TInv /\ JInv /\ HInv)
<1>1. Init => TInv /\ JInv /\ HInv
  BY InvInit DEF Init, HInv
<1>2. TInv /\ JInv /\ HInv /\ [Next]_vars => (TInv /\ JInv /\ HInv)'
  <2> SUFFICES ASSUME TInv, JInv, HInv, [Next]_vars PROVE TInv' /\ JInv' /\ HInv'
    OBVIOUS
  <2>1. CASE UNCHANGED vars
    BY <2>1, HInvStep DEF vars, TInv, JInv
  <2>2. CASE Next
    BY <2>2, LaunchStep, FinishingStep, OperationStep, ProgramStep, HInvStep DEF Next
  <2> QED BY <2>1, <2>2
<1> QED BY <1>1, <1>2, PTL DEF Spec

\* The table of a job names its processes not waited for and no other.
THEOREM PidsAreExact == Spec => []PidsExact
<1>1. TInv /\ JInv => PidsExact
  <2> SUFFICES ASSUME TInv, JInv, NEW j \in Jobs
               PROVE  /\ ~At(j, {"read"}) => job[j].pids =
                           {s[2] : s \in {t \in Of(j) : child[t].state \notin {"none", "reaped"}}}
                      /\ job[j].finished \/ At(j, {"dropped"}) => job[j].pids = {}
    BY DEF PidsExact
  <2>1. Table(j, job[j], child) BY DEF JInv
  <2>2. Forked(j, child) = {s[2] : s \in {t \in Of(j) : child[t].state \notin {"none", "reaped"}}}
    <3>1. \A i \in 1..Count[j] : <<j, i>> \in Of(j) /\ <<j, i>>[2] = i
      BY StageFacts DEF Of
    <3>2. \A s \in Of(j) : s[2] \in 1..Count[j] /\ s = <<j, s[2]>>
      BY StageFacts DEF Of
    <3> QED BY <3>1, <3>2 DEF Forked
  <2> QED BY <2>1, <2>2 DEF Table, Tabled, At
<1> QED BY <1>1, TableInvariant, PTL

\* The status of a job is how its last failing stage ended.
THEOREM StatusIsExact == Spec => []StatusExact
<1>1. TInv /\ JInv => StatusExact
  <2> SUFFICES ASSUME TInv, JInv, NEW j \in Jobs, job[j].finished, job[j].count > 0
               PROVE  LET failing == {s \in Of(j) : child[s].state # "reaped" \/ child[s].end # 0}
                      IN IF failing = {} THEN job[j].status = 0
                         ELSE job[j].status = child[<<j, Max({s[2] : s \in failing})>>].end
    BY DEF StatusExact
  <2> DEFINE F == {s \in Of(j) : child[s].state # "reaped" \/ child[s].end # 0}
             G == {i \in 1..Count[j] : child[<<j, i>>].state # "reaped" \/ child[<<j, i>>].end # 0}
  <2>1. job[j].status = StatusOf(j, child)
    BY DEF JInv, Table, Recorded
  <2>2. {s[2] : s \in F} = G
    <3>1. \A i \in 1..Count[j] : <<j, i>> \in Of(j) /\ <<j, i>>[2] = i
      BY StageFacts DEF Of
    <3>2. \A s \in Of(j) : s[2] \in 1..Count[j] /\ s = <<j, s[2]>>
      BY StageFacts DEF Of
    <3> QED BY <3>1, <3>2
  <2>3. F = {} <=> G = {}
    BY <2>2
  <2>4. StatusOf(j, child) = IF G = {} THEN 0 ELSE child[<<j, Max(G)>>].end
    BY DEF StatusOf
  <2> HIDE DEF G
  <2> QED BY <2>1, <2>2, <2>3, <2>4
<1> QED BY <1>1, TableInvariant, PTL

LEMMA EndsInvariant == Spec => [](TInv /\ HInv /\ DInv)
<1>1. Init => DInv
  BY DEF Init, DInv, NewJob, FreshEnds
<1>2. TInv /\ JInv /\ HInv /\ HInv' /\ DInv /\ [Next]_vars => DInv'
  BY DInvStep
<1> QED BY <1>1, <1>2, TableInvariant, PTL DEF Spec

\* The records of the jobs, the processes and the descriptors have their types.
THEOREM TypesHold == Spec => []TypeOK
<1>1. TInv /\ JInv /\ DInv => TypeOK
  <2> SUFFICES ASSUME TInv, JInv, DInv PROVE TypeOK OBVIOUS
  <2>1. ASSUME NEW j \in Jobs
        PROVE  job[j].pids \subseteq 1..job[j].count /\ job[j].stage \in 1..Count[j]
    <3>1. Table(j, job[j], child) BY DEF JInv
    <3>2. job[j].count = 0 => Forked(j, child) = {}
      BY <3>1 DEF Table, Launched, Forked
    <3>3. Forked(j, child) \subseteq 1..Count[j] BY DEF Forked
    <3> QED BY <3>1, <3>2, <3>3 DEF Table, Launched, Tabled
  <2>2. \A j \in Jobs : job[j].phase \in Phases BY DEF TInv, JobRecords
  <2>3. \A s \in Stages : child[s].state \in States BY DEF TInv, Children
  <2> QED BY <2>1, <2>2, <2>3 DEF TypeOK, DInv, Phases, States, Making, Ending
<1> QED BY <1>1, TableInvariant, EndsInvariant, PTL

\* Where one thread starts the jobs, no other job is between pipe and fcntl at
\* a fork, so a child keeps nothing over exec but its own streams.
LEMMA KeepStep ==
  ASSUME OneThread, TInv, JInv, HInv, DInv, OneBusy, KInv, [Next]_vars
  PROVE  KInv'
<1>0. child \in [Stages -> Children] BY DEF TInv
<1>1. CASE child' = child
  BY <1>1 DEF KInv
<1>2. ASSUME NEW j \in Jobs, Fork(j) PROVE KInv'
  <2>1. At(j, {"fork"}) BY <1>2 DEF Fork
  <2>2. ASSUME NEW d \in held \ sealed PROVE FALSE
    <3> DEFINE k == d.stage[1]
    <3>1. k \in Jobs /\ d \in FreshEnds(k, job[k]) BY DEF HInv, DInv, Ends
    <3>2. job[k].phase \in {"sealLink", "sealReport"} BY <3>1 DEF FreshEnds
    <3>3. k # j /\ ~At(k, Rest) /\ ~At(j, Rest) BY <2>1, <3>2 DEF At, Rest
    <3>4. Owner[k] = Owner[j] BY <3>1 DEF OneThread
    <3> QED BY <3>1, <3>3, <3>4 DEF OneBusy
  <2>3. held \ sealed = {} BY <2>2
  <2>4. This(j) \in Stages BY StageFacts DEF JInv, Table, Launched, This
  <2> DEFINE u == [child[This(j)] EXCEPT !.state = "forked", !.fds = held, !.keep = held \ sealed]
  <2>5. child' = [child EXCEPT ![This(j)] = u] BY <1>2 DEF Fork
  <2>6. u.state = "forked" /\ u.keep = {} BY <1>0, <2>3, <2>4 DEF Children
  <2> HIDE DEF u
  <2> QED BY <1>0, <2>5, <2>6 DEF KInv
<1>3. ASSUME NEW j \in Jobs, NEW S, NEW n, Signalled(j, S, n) PROVE KInv'
  <2>1. \A s \in Stages : Ended(s, n).keep = child[s].keep /\ Ended(s, n).state = "zombie"
    BY <1>0 DEF Ended, Children
  <2>2. \A s \in Stages : child'[s] = IF s \in S THEN Ended(s, n) ELSE child[s]
    BY <1>3 DEF Signalled
  <2> QED BY <2>1, <2>2 DEF KInv
<1>4. ASSUME NEW j \in Jobs, NEW S, child' = ReapedChildren(j, S) PROVE KInv'
  <2>1. \A s \in Stages : \/ child'[s] = child[s]
                          \/ child'[s].keep = child[s].keep /\ child'[s].state = "reaped"
    BY <1>0, <1>4 DEF ReapedChildren, Children
  <2> QED BY <2>1 DEF KInv
<1>5. ASSUME NEW j \in Jobs, Start(j) \/ Launch(j) PROVE KInv'
  BY <1>1, <1>2, <1>5 DEF Start, Launch, OpenTable, NoTable, Pipe, Seal, PipeFails, ForkFails, Spawned, Undo
<1>6. ASSUME NEW j \in Jobs, Finishing(j) PROVE KInv'
  <2>1. CASE Term(j) BY <1>3, <2>1 DEF Term, Kill
  <2>2. CASE KillAll(j) BY <1>3, <2>2 DEF KillAll
  <2>3. CASE Grace(j) BY <1>4, <2>3 DEF Grace
  <2>4. CASE Reap(j) BY <1>4, <2>4 DEF Reap
  <2>5. CASE Finish(j) BY <1>1, <2>5 DEF Finish
  <2> QED BY <1>6, <2>1, <2>2, <2>3, <2>4, <2>5 DEF Finishing
<1>7. ASSUME NEW j \in Jobs, Status(j) \/ Ready(j) \/ UserKill(j) \/ Cleanup(j) \/ Drop(j)
      PROVE  KInv'
  <2>1. CASE Ready(j) BY <1>4, <2>1 DEF Ready
  <2>2. CASE UserKill(j) BY <1>3, <2>2 DEF UserKill, Kill
  <2> QED BY <1>1, <1>7, <2>1, <2>2 DEF Status, Cleanup, Drop
<1>8. ASSUME NEW s \in Stages, Program(s) PROVE KInv'
  <2>1. ASSUME NEW u, child' = [child EXCEPT ![s] = u], u.keep = child[s].keep,
               u.state = "running" => u.fds = child[s].keep \cup OwnEnds(s)
        PROVE  KInv'
    BY <1>0, <2>1 DEF KInv
  <2>2. CASE Exec(s)
    <3> DEFINE u == [child[s] EXCEPT !.state = "running", !.fds = child[s].keep \cup OwnEnds(s)]
    <3>1. child' = [child EXCEPT ![s] = u] BY <2>2 DEF Exec
    <3>2. u.keep = child[s].keep /\ u.fds = child[s].keep \cup OwnEnds(s) BY <1>0 DEF Children
    <3> HIDE DEF u
    <3> QED BY <2>1, <3>1, <3>2
  <2>3. CASE ExecFails(s)
    <3> DEFINE u == [child[s] EXCEPT !.state = "failed", !.told = TRUE]
    <3>1. child' = [child EXCEPT ![s] = u] BY <2>3 DEF ExecFails
    <3>2. u.keep = child[s].keep /\ u.state = "failed" BY <1>0 DEF Children
    <3> HIDE DEF u
    <3> QED BY <2>1, <3>1, <3>2
  <2>4. CASE ExitFailed(s) \/ Exits(s)
    <3>1. PICK n : child' = [child EXCEPT ![s] = Ended(s, n)] BY <2>4 DEF ExitFailed, Exits
    <3>2. Ended(s, n).keep = child[s].keep /\ Ended(s, n).state = "zombie"
      BY <1>0 DEF Ended, Children
    <3> QED BY <2>1, <3>1, <3>2
  <2> QED BY <1>8, <2>2, <2>3, <2>4 DEF Program
<1> QED BY <1>1, <1>5, <1>6, <1>7, <1>8 DEF Next, vars

\* With one thread, a program has no pipe end but its own, and this process
\* has none of a job it is not launching.
THEOREM OwnEndsOnly == ASSUME OneThread PROVE Spec => []OnlyOwnEnds
<1>1. TInv /\ HInv /\ DInv /\ KInv => OnlyOwnEnds
  <2> SUFFICES ASSUME DInv, KInv PROVE OnlyOwnEnds OBVIOUS
  <2>1. ASSUME NEW d \in held PROVE job[d.stage[1]].phase \in Holding
    <3>1. OpenEnds(d.stage[1], job[d.stage[1]]) # {} BY DEF DInv
    <3> QED BY <3>1 DEF OpenEnds, Holding
  <2> QED BY <2>1 DEF OnlyOwnEnds, KInv, At, Rest, Holding
<1>2. Init => OneBusy /\ KInv
  BY DEF Init, OneBusy, KInv, NewJob, NoChild, At, Rest
<1>3. TInv /\ JInv /\ HInv /\ DInv /\ OneBusy /\ KInv /\ [Next]_vars => OneBusy' /\ KInv'
  BY OneBusyStep, KeepStep
<1> QED BY <1>1, <1>2, <1>3, TableInvariant, EndsInvariant, PTL DEF Spec
=============================================================================
