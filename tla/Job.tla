-------------------------------- MODULE Job --------------------------------
(***************************************************************************)
(* Pipelines of processes: src/lib/process.x.  A thread launches the       *)
(* stages of a job one after the other, each with a pipe to the next stage *)
(* and a report pipe on which a child says that its program did not run.   *)
(* Descriptors belong to the whole process: what one thread has open when  *)
(* another forks, the other's child has too, and keeps when it runs its    *)
(* program, unless the descriptor was close-on-exec by then.               *)
(*                                                                         *)
(* A stage is <<job, index>>; a descriptor is one end of the link that     *)
(* leaves a stage or of its report pipe.  Capture files, the `dir', `env'  *)
(* and `input' options and the text of the results are left out.           *)
(***************************************************************************)
EXTENDS Naturals, FiniteSets, FiniteSetsExt

CONSTANTS Jobs, Threads,
          Owner,     \* the thread that uses a job
          Count,     \* the number of stages of each job
          Endless    \* the jobs whose first program need not end by itself

ASSUME JobAssumption == /\ Owner \in [Jobs -> Threads]
                        /\ Count \in [Jobs -> Nat \ {0}] /\ Endless \subseteq Jobs

VARIABLES
  job,      \* each job's record, and how far the operation on it has come
  child,    \* the process of each stage
  held,     \* the descriptors this process has open
  sealed    \* those of them that are close-on-exec

vars == <<job, child, held, sealed>>

-----------------------------------------------------------------------------
(* Stages, descriptors and processes *)

Stages == UNION {{j} \X (1..Count[j]) : j \in Jobs}
End(kind, end, s) == [kind |-> kind, end |-> end, stage |-> s]
Link(s) == {End("link", "r", s), End("link", "w", s)}
Report(s) == {End("report", "r", s), End("report", "w", s)}

Of(j) == {s \in Stages : s[1] = j}
Last(s) == s[2] = Count[s[1]]
Previous(s) == <<s[1], s[2] - 1>>   \* of no stage, and so of no descriptor, for the first

(* The ends a stage's program has as its standard input and output. *)
Streams(s) == {End("link", "r", Previous(s)), End("link", "w", s)}
OwnEnds(s) == IF Last(s) THEN Streams(s) \ Link(s) ELSE Streams(s)

NoChild == [state |-> "none", fds |-> {}, keep |-> {}, told |-> FALSE, end |-> 127]
NewJob == [phase |-> "new", stage |-> 1, count |-> 0, after |-> "rest",
           pids |-> {}, statuses |-> <<>>, finished |-> FALSE, status |-> 0]

Init == /\ job = [j \in Jobs |-> NewJob]
        /\ child = [s \in Stages |-> NoChild]
        /\ held = {} /\ sealed = {}

Live(s) == child[s].state \in {"forked", "failed", "running"}
Ended(s, status) == [child[s] EXCEPT !.state = "zombie", !.end = status, !.fds = {}]

(* Some process has the descriptor open. *)
IsOpen(d) == d \in held \/ \E s \in Stages : d \in child[s].fds

Rest == {"new", "rest", "dropped"}
Free(j) == \A k \in Jobs : Owner[k] = Owner[j] => job[k].phase \in Rest
At(j, phases) == job[j].phase \in phases
Goto(j, phase) == job' = [job EXCEPT ![j].phase = phase]
This(j) == <<j, job[j].stage>>

-----------------------------------------------------------------------------
(* _start: launching.  A raise goes through `undo', where the deferred     *)
(* closes and the cleanup of the stages already started run.               *)

Start(j) == /\ Free(j) /\ At(j, {"new"}) /\ Goto(j, "table")
            /\ UNCHANGED <<child, held, sealed>>

OpenTableZeroed(j) == /\ At(j, {"table"})   \* mutant: the statuses are left as calloc made them
                      /\ job' = [job EXCEPT ![j] = [@ EXCEPT !.phase = "link", !.count = Count[j],
                                                     !.statuses = [i \in 1..Count[j] |-> 0]]]
                      /\ UNCHANGED <<child, held, sealed>>
(* _open_table *)
OpenTable(j) == /\ At(j, {"table"})
                /\ job' = [job EXCEPT ![j] = [@ EXCEPT !.phase = "link", !.count = Count[j],
                                               !.statuses = [i \in 1..Count[j] |-> 127]]]
                /\ UNCHANGED <<child, held, sealed>>
NoTable(j) == At(j, {"table"}) /\ Goto(j, "rest") /\ UNCHANGED <<child, held, sealed>>

(* _pipe *)
Pipe(j) == \/ /\ At(j, {"link"}) /\ ~Last(This(j))
              /\ held' = held \cup Link(This(j)) /\ Goto(j, "sealLink")
              /\ UNCHANGED <<child, sealed>>
           \/ /\ At(j, {"link"}) /\ Last(This(j))
              /\ Goto(j, "report") /\ UNCHANGED <<child, held, sealed>>
           \/ /\ At(j, {"report"})
              /\ held' = held \cup Report(This(j)) /\ Goto(j, "sealReport")
              /\ UNCHANGED <<child, sealed>>

SealReportOnly(j) ==   \* mutant: the links are not made close-on-exec
  /\ \/ At(j, {"sealLink"}) /\ Goto(j, "report") /\ UNCHANGED sealed
     \/ At(j, {"sealReport"}) /\ Goto(j, "fork") /\ sealed' = sealed \cup Report(This(j))
  /\ UNCHANGED <<child, held>>
Seal(j) == /\ \/ At(j, {"sealLink"}) /\ Goto(j, "report") /\ sealed' = sealed \cup Link(This(j))
              \/ At(j, {"sealReport"}) /\ Goto(j, "fork") /\ sealed' = sealed \cup Report(This(j))
           /\ UNCHANGED <<child, held>>

Close(ds) == /\ held' = held \ ds /\ sealed' = sealed \ ds

(* A pipe, a file of _open_streams or the words of a stage fail. *)
PipeFails(j) == /\ At(j, {"link", "report"}) /\ Goto(j, "undo")
                /\ UNCHANGED <<child, held, sealed>>

(* _spawn: the fork, and the close of this side's writing end. *)
Fork(j) == /\ At(j, {"fork"})
           /\ child' = [child EXCEPT ![This(j)] =
                [@ EXCEPT !.state = "forked", !.fds = held, !.keep = held \ sealed]]
           /\ Close({End("report", "w", This(j))}) /\ Goto(j, "read")

ForkFails(j) == /\ At(j, {"fork"})
                /\ Close(Report(This(j))) /\ Goto(j, "undo") /\ UNCHANGED child

(* _read_report: it waits for a report, or for the end of the pipe. *)
Answered(s) == child[s].told \/ ~IsOpen(End("report", "w", s))

(* _spawn records the child before it raises; _stage closes what only the child needs. *)
SpawnedUnrecorded(j) ==   \* mutant: a child that reports a failure is not recorded
  LET s == This(j) IN
  /\ At(j, {"read"}) /\ Answered(s)
  /\ IF child[s].told
     THEN Close(Report(s)) /\ Goto(j, "undo")
     ELSE /\ Close(Report(s) \cup {End("link", "w", s), End("link", "r", Previous(s))})
          /\ job' = [job EXCEPT
               ![j].pids = @ \cup {s[2]}, ![j].phase = IF Last(s) THEN "rest" ELSE "link",
               ![j].stage = IF Last(s) THEN @ ELSE @ + 1]
  /\ UNCHANGED child
Spawned(j) ==
  LET s == This(j) IN
  /\ At(j, {"read"}) /\ Answered(s)
  /\ IF child[s].told
     THEN /\ Close(Report(s))
          /\ job' = [job EXCEPT ![j].pids = @ \cup {s[2]}, ![j].phase = "undo"]
     ELSE /\ Close(Report(s) \cup {End("link", "w", s), End("link", "r", Previous(s))})
          /\ job' = [job EXCEPT
               ![j].pids = @ \cup {s[2]}, ![j].phase = IF Last(s) THEN "rest" ELSE "link",
               ![j].stage = IF Last(s) THEN @ ELSE @ + 1]
  /\ UNCHANGED child

(* The `defer's of _stage and _start, then Job.cleanup. *)
Undo(j) == /\ At(j, {"undo"})
           /\ Close(Link(This(j)) \cup Link(Previous(This(j)))) /\ Goto(j, "term")
           /\ UNCHANGED child

-----------------------------------------------------------------------------
(* Waiting and ending *)

Signalled(j, S, status) ==
  child' = [s \in Stages |-> IF s \in S THEN Ended(s, status) ELSE child[s]]
Targets(j) == {s \in Of(j) : s[2] \in job[j].pids /\ Live(s)}

(* Job.kill(SIGTERM): a program may ignore it, or end later. *)
Kill(j) == \E S \in SUBSET Targets(j) : Signalled(j, S, 143)

Zombies(j) == {i \in job[j].pids : child[<<j, i>>].state = "zombie"}

(* _reap of the stages S, which have ended. *)
ReapedJob(j, S) == [job[j] EXCEPT
  !.pids = @ \ S,
  !.statuses = [i \in DOMAIN @ |-> IF i \in S THEN child[<<j, i>>].end ELSE @[i]]]
ReapedChildren(j, S) ==
  [s \in Stages |-> IF s[1] = j /\ s[2] \in S THEN [child[s] EXCEPT !.state = "reaped"] ELSE child[s]]

(* _finish *)
Finished(r) ==
  IF r.finished THEN r
  ELSE [r EXCEPT !.finished = TRUE,
                 !.status = LET failing == {i \in 1..r.count : r.statuses[i] # 0}
                            IN IF failing = {} THEN 0 ELSE r.statuses[Max(failing)]]

(* _terminate *)
Term(j) == /\ At(j, {"term"}) /\ Kill(j) /\ Goto(j, "grace") /\ UNCHANGED <<held, sealed>>

Grace(j) == /\ At(j, {"grace"})
            /\ LET r == ReapedJob(j, Zombies(j))
               IN job' = [job EXCEPT ![j] = IF r.pids = {} THEN [r EXCEPT !.phase = "reap"] ELSE r]
            /\ child' = ReapedChildren(j, Zombies(j))
            /\ UNCHANGED <<held, sealed>>

OnlyTerm(j) == /\ At(j, {"grace"}) /\ Goto(j, "reap")   \* mutant: no SIGKILL after the grace
               /\ UNCHANGED <<child, held, sealed>>
KillAll(j) == /\ At(j, {"grace"}) /\ Signalled(j, Targets(j), 137)
              /\ Goto(j, "reap") /\ UNCHANGED <<held, sealed>>

(* The blocking _reap, of the stages in order; then _finish, unless the job is dropped. *)
Reap(j) == /\ At(j, {"wait", "reap"}) /\ job[j].pids # {}
           /\ LET i == Min(job[j].pids)
              IN /\ i \in Zombies(j)
                 /\ job' = [job EXCEPT ![j] = ReapedJob(j, {i})]
                 /\ child' = ReapedChildren(j, {i})
           /\ UNCHANGED <<held, sealed>>

Finish(j) == /\ At(j, {"wait", "reap"}) /\ job[j].pids = {}
             /\ job' = [job EXCEPT ![j] =
                  IF @.after = "dropped" THEN [@ EXCEPT !.phase = "dropped"]
                                         ELSE [Finished(@) EXCEPT !.phase = "rest"]]
             /\ UNCHANGED <<child, held, sealed>>

-----------------------------------------------------------------------------
(* The operations on a job that has started.  Job.status, Job.check and    *)
(* the rest of an unstarted job are Start and then Status.                 *)

Operation(j) == Free(j) /\ At(j, {"rest"})

Status(j) == /\ Operation(j) /\ ~job[j].finished /\ Goto(j, "wait")
             /\ UNCHANGED <<child, held, sealed>>

Ready(j) == /\ Operation(j) /\ ~job[j].finished
            /\ LET r == ReapedJob(j, Zombies(j))
               IN job' = [job EXCEPT ![j] = IF r.pids = {} THEN Finished(r) ELSE r]
            /\ child' = ReapedChildren(j, Zombies(j))
            /\ UNCHANGED <<held, sealed>>

UserKill(j) == Operation(j) /\ Kill(j) /\ UNCHANGED <<job, held, sealed>>

Cleanup(j) == /\ Operation(j) /\ ~job[j].finished /\ Goto(j, "term")
              /\ UNCHANGED <<child, held, sealed>>

(* _drop_job, the finalizer. *)
Drop(j) == /\ Operation(j)
           /\ job' = [job EXCEPT ![j].phase = IF job[j].finished THEN "dropped" ELSE "term",
                                 ![j].after = "dropped"]
           /\ UNCHANGED <<child, held, sealed>>

-----------------------------------------------------------------------------
(* _child, and the program it becomes *)

Exec(s) == /\ child[s].state = "forked"
           /\ child' = [child EXCEPT ![s] = [@ EXCEPT !.state = "running",
                                                      !.fds = child[s].keep \cup OwnEnds(s)]]
           /\ UNCHANGED <<job, held, sealed>>

ExecFails(s) == /\ child[s].state = "forked"
                /\ child' = [child EXCEPT ![s] = [@ EXCEPT !.state = "failed", !.told = TRUE]]
                /\ UNCHANGED <<job, held, sealed>>

ExitFailed(s) == /\ child[s].state = "failed"
                 /\ child' = [child EXCEPT ![s] = Ended(s, 127)]
                 /\ UNCHANGED <<job, held, sealed>>

Exits(s) == /\ child[s].state = "running"
            /\ \E status \in {0, 1} : child' = [child EXCEPT ![s] = Ended(s, status)]
            /\ UNCHANGED <<job, held, sealed>>

(* A program ends with its input, without a reader, or by itself. *)
Over(s) == \/ s[2] = 1 /\ s[1] \notin Endless
           \/ s[2] > 1 /\ ~IsOpen(End("link", "w", Previous(s)))
           \/ ~Last(s) /\ ~IsOpen(End("link", "r", s))

-----------------------------------------------------------------------------
Launch(j) == \/ OpenTable(j) \/ NoTable(j) \/ Pipe(j) \/ Seal(j) \/ PipeFails(j)
             \/ Fork(j) \/ ForkFails(j) \/ Spawned(j) \/ Undo(j)
Finishing(j) == Term(j) \/ Grace(j) \/ KillAll(j) \/ Reap(j) \/ Finish(j)
Program(s) == Exec(s) \/ ExecFails(s) \/ ExitFailed(s) \/ Exits(s)

Next == \/ \E j \in Jobs : \/ Start(j) \/ Launch(j) \/ Finishing(j)
                           \/ Status(j) \/ Ready(j) \/ UserKill(j) \/ Cleanup(j) \/ Drop(j)
        \/ \E s \in Stages : Program(s)

Spec == Init /\ [][Next]_vars

(* The thread goes on where it does not wait, a second passes, a child     *)
(* runs its program or exits, and programs end as Over says.               *)
FairSpec == /\ Spec
            /\ \A j \in Jobs : WF_vars(Launch(j)) /\ WF_vars(Finishing(j))
            /\ \A s \in Stages : /\ WF_vars(Exec(s) \/ ExecFails(s)) /\ WF_vars(ExitFailed(s))
                                 /\ WF_vars(Over(s) /\ Exits(s))

-----------------------------------------------------------------------------
(* Properties *)

TypeOK ==
  /\ \A j \in Jobs : /\ job[j].phase \in Rest \cup {"table", "link", "sealLink", "report",
                          "sealReport", "fork", "read", "undo", "term", "grace", "reap", "wait"}
                     /\ job[j].pids \subseteq 1..job[j].count
                     /\ job[j].stage \in 1..Count[j]
  /\ \A s \in Stages : child[s].state \in {"none", "forked", "failed", "running", "zombie", "reaped"}
  /\ sealed \subseteq held

(* src/lib/process.x:29-32, 145-149: the job's table names exactly its     *)
(* processes that were forked and not waited for, so that a kill reaches   *)
(* no other process, whatever step of the launch failed; a job that ended  *)
(* or was dropped has left none behind.                                    *)
PidsExact ==
  \A j \in Jobs :
    /\ ~At(j, {"read"}) =>
         job[j].pids = {s[2] : s \in {t \in Of(j) : child[t].state \notin {"none", "reaped"}}}
    /\ job[j].finished \/ At(j, {"dropped"}) => job[j].pids = {}

(* src/lib/process.x:9-10, 542-544: the status of a job that got its table *)
(* is how its last failing stage really ended, and zero only if every      *)
(* stage ran its program to an exit of zero.                               *)
StatusExact ==
  \A j \in Jobs : job[j].finished /\ job[j].count > 0 =>
    LET failing == {s \in Of(j) : child[s].state # "reaped" \/ child[s].end # 0}
    IN IF failing = {} THEN job[j].status = 0
       ELSE job[j].status = child[<<j, Max({s[2] : s \in failing})>>].end

(* src/lib/process.x:183-185, 215-219: a program has no pipe end but its   *)
(* own, and this process none of a job it is not launching, so the end of  *)
(* a stage is the end of its neighbour's input and output.                 *)
OnlyOwnEnds ==
  /\ \A s \in Stages : child[s].state = "running" => child[s].fds \subseteq OwnEnds(s)
  /\ \A d \in held : ~At(d.stage[1], Rest \cup {"term", "grace", "reap", "wait"})

(* src/lib/process.x:531: Job.start does not wait for a program. *)
StartReturns == \A j \in Jobs : At(j, {"table"}) ~> At(j, Rest)

(* And the end of a job, and the wait for one whose programs end, return. *)
OperationsReturn ==
  /\ StartReturns
  /\ \A j \in Jobs : At(j, {"term"}) ~> At(j, Rest)
  /\ \A j \in Jobs \ Endless : At(j, {"wait"}) ~> At(j, Rest)
=============================================================================
