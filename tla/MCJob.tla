---- MODULE MCJob ----
(* A pipeline, and a job of one stage that need not end, on one thread or on two. *)
EXTENDS Job
CONSTANTS pipeline, server, main, worker
OneThread == [j \in Jobs |-> main]
TwoThreads == [j \in Jobs |-> IF j = pipeline THEN main ELSE worker]
ThreeAndOne == [j \in Jobs |-> IF j = pipeline THEN 3 ELSE 1]
OneEach == [j \in Jobs |-> 1]
====
