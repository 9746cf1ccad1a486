---------------------------- MODULE BuildReuse ----------------------------
(***************************************************************************)
(* What a retained build uses again: src/commands/build/build.x.  A unit's *)
(* translation reads its source, and a header if the source includes it,   *)
(* publishes three outputs and a depfile one rename at a time, and leaves  *)
(* a record of the inputs' contents.  A script's executable is made from   *)
(* the outputs and has a record of its own.  The user edits the inputs at  *)
(* any time, and a build may fail or be killed between any two steps.      *)
(*                                                                         *)
(* A fingerprint is the contents it was computed from, and an output is    *)
(* the contents its translation read: both are functions on the inputs.    *)
(* Options and tools do not change.  The compile of the outputs, which is  *)
(* reused by the preprocessed text itself, is one step.                    *)
(***************************************************************************)
EXTENDS Naturals, Sequences

CONSTANTS Builders,     \* builds that may run at the same time
          Including,    \* the contents of the source that include the header
          MaxEdits      \* bound: edits of the inputs

ASSUME ReuseAssumption == MaxEdits \in Nat /\ Including \subseteq 0..MaxEdits

Inputs == {"source", "header"}
Outputs == <<".h", ".c", ".xi">>
None == <<>>   \* no file, and a record of nothing

VARIABLES
  file,       \* the contents of each input; an edit that changes it numbers them anew
  edits,      \* edits so far
  reverted,   \* history: an edit gave an input contents it had before
  out,        \* the generated directory: what each output was made from
  dep,        \* the depfile: the inputs it names, none when it is missing
  record,     \* the unit's record
  script,     \* the script's executable and its record
  build       \* each build: where it is, what it has read, what was edited since it began

vars == <<file, edits, reverted, out, dep, record, script, build>>
Files == <<file, edits, reverted>>

-----------------------------------------------------------------------------
NoBuild == [at |-> "idle", edited |-> {}, read |-> None, hash |-> None]

Init == /\ file = [f \in Inputs |-> 0]
        /\ edits = 0 /\ reverted = FALSE
        /\ out = [o \in {".h", ".c", ".xi"} |-> None]
        /\ dep = {} /\ record = None
        /\ script = [run |-> None, record |-> None]
        /\ build = [b \in Builders |-> NoBuild]

(* The contents now of the inputs S, and of those the depfile names.       *)
Contents(S) == [f \in S |-> file[f]]
Fingerprint == Contents(dep)

(* What a translation of the inputs as they are would read. *)
Fresh == Contents(IF file["source"] \in Including THEN Inputs ELSE {"source"})

At(b, place) == build[b].at = place
Goto(b, place) == build' = [build EXCEPT ![b].at = place]

-----------------------------------------------------------------------------
(* The user: an edit sets the input's modification time. *)

Edit(f, v) == /\ edits < MaxEdits /\ v \in 0..edits + 1 /\ v # file[f]
              /\ file' = [file EXCEPT ![f] = v]
              /\ edits' = edits + 1
              /\ reverted' = (reverted \/ v <= edits)
              /\ build' = [b \in Builders |-> [build[b] EXCEPT !.edited = @ \cup {f}]]
              /\ UNCHANGED <<out, dep, record, script>>

-----------------------------------------------------------------------------
(* Translation *)

(* translation_current *)
Current == /\ \A i \in DOMAIN Outputs : out[Outputs[i]] # None
           /\ dep # {} /\ record = Fingerprint

Begin(b) == /\ At(b, "idle")
            /\ build' = [build EXCEPT ![b] = [NoBuild EXCEPT !.at = "check"]]
            /\ UNCHANGED <<Files, out, dep, record, script>>

Check(b) == /\ At(b, "check")
            /\ Goto(b, IF Current THEN "link" ELSE "translate")
            /\ UNCHANGED <<Files, out, dep, record, script>>

ReadSource(b) == /\ At(b, "translate")
                 /\ build' = [build EXCEPT ![b] = [@ EXCEPT
                      !.read = Contents({"source"}),
                      !.at = IF file["source"] \in Including THEN "include" ELSE Outputs[1]]]
                 /\ UNCHANGED <<Files, out, dep, record, script>>

ReadHeader(b) == /\ At(b, "include")
                 /\ build' = [build EXCEPT ![b] = [@ EXCEPT
                      !.read = [f \in Inputs |-> IF f = "header" THEN file[f] ELSE build[b].read[f]],
                      !.at = Outputs[1]]]
                 /\ UNCHANGED <<Files, out, dep, record, script>>

(* publish_files: one rename. *)
Publish(b) == \E i \in DOMAIN Outputs :
  /\ At(b, Outputs[i])
  /\ out' = [out EXCEPT ![Outputs[i]] = build[b].read]
  /\ Goto(b, IF i = Len(Outputs) THEN ".d" ELSE Outputs[i + 1])
  /\ UNCHANGED <<Files, dep, record, script>>

OnlySource(b) == /\ At(b, ".d")   \* mutant: the depfile names no header
                 /\ dep' = {"source"}
                 /\ Goto(b, "hash") /\ UNCHANGED <<Files, out, record, script>>
(* write_depfile *)
WriteDepfile(b) == /\ At(b, ".d")
                   /\ dep' = DOMAIN build[b].read
                   /\ Goto(b, "hash") /\ UNCHANGED <<Files, out, record, script>>

(* record_translation: the fingerprint, and then the modification times. *)
Hash(b) == /\ At(b, "hash")
           /\ build' = [build EXCEPT ![b] = [@ EXCEPT !.at = "record", !.hash = Fingerprint]]
           /\ UNCHANGED <<Files, out, dep, record, script>>

Unchanged(b) == build[b].edited \cap dep = {}

RecordAny(b) == /\ At(b, "record")   \* mutant: a file written while the build ran is not noticed
                /\ record' = build[b].hash
                /\ Goto(b, "link") /\ UNCHANGED <<Files, out, dep, script>>
Record(b) == /\ At(b, "record")
             /\ record' = IF Unchanged(b) THEN build[b].hash ELSE record
             /\ Goto(b, "link") /\ UNCHANGED <<Files, out, dep, script>>

-----------------------------------------------------------------------------
(* The script's executable: publish_script *)

Link(b) == /\ At(b, "link")
           /\ build' = [build EXCEPT ![b] = [@ EXCEPT !.at = "move", !.read = out[".c"]]]
           /\ UNCHANGED <<Files, out, dep, record, script>>

Move(b) == /\ At(b, "move")
           /\ script' = [script EXCEPT !.run = build[b].read]
           /\ Goto(b, "unlink") /\ UNCHANGED <<Files, out, dep, record>>

Unlink(b) == /\ At(b, "unlink")
             /\ script' = [script EXCEPT !.record = None]
             /\ Goto(b, "hashScript") /\ UNCHANGED <<Files, out, dep, record>>

HashScript(b) == /\ At(b, "hashScript")
                 /\ build' = [build EXCEPT ![b] = [@ EXCEPT !.at = "recordScript", !.hash = Fingerprint]]
                 /\ UNCHANGED <<Files, out, dep, record, script>>

RecordScriptAny(b) == /\ At(b, "recordScript")   \* mutant: modification times are not looked at
                      /\ script' = [script EXCEPT !.record = build[b].hash]
                      /\ Goto(b, "idle") /\ UNCHANGED <<Files, out, dep, record>>
RecordScript(b) == /\ At(b, "recordScript")
                   /\ script' = IF Unchanged(b) THEN [script EXCEPT !.record = build[b].hash] ELSE script
                   /\ Goto(b, "idle") /\ UNCHANGED <<Files, out, dep, record>>

(* script_current *)
ScriptCurrent == /\ script.run # None /\ script.record # None
                 /\ script.record = Contents(DOMAIN script.record)

(* A failed step, an error in another unit, or a signal ends the build.    *)
Ends(b) == /\ ~At(b, "idle") /\ Goto(b, "idle")
           /\ UNCHANGED <<Files, out, dep, record, script>>

-----------------------------------------------------------------------------
Build(b) == \/ Begin(b) \/ Check(b) \/ ReadSource(b) \/ ReadHeader(b) \/ Publish(b)
            \/ WriteDepfile(b) \/ Hash(b) \/ Record(b) \/ Link(b)
            \/ Move(b) \/ Unlink(b) \/ HashScript(b) \/ RecordScript(b) \/ Ends(b)

Next == \/ \E b \in Builders : Build(b)
        \/ \E f \in Inputs, v \in 0..MaxEdits : Edit(f, v)

Spec == Init /\ [][Next]_vars

-----------------------------------------------------------------------------
(* Properties *)

TypeOK ==
  LET Readings == {None} \cup UNION {[S -> 0..MaxEdits] : S \in {{"source"}, Inputs}}
  IN /\ file \in [Inputs -> 0..MaxEdits] /\ edits \in 0..MaxEdits /\ reverted \in BOOLEAN
     /\ out \in [{".h", ".c", ".xi"} -> Readings] /\ dep \in SUBSET Inputs
     /\ record \in Readings /\ script \in [run : Readings, record : Readings]
     /\ \A b \in Builders : /\ build[b].edited \subseteq Inputs
                            /\ build[b].read \in Readings /\ build[b].hash \in Readings

(* src/commands/build/build.x:1343-1349: a record describes the outputs    *)
(* that are there, although their inputs are fingerprinted only after they *)
(* were read, and may be edited between any two steps of the build.        *)
RecordsDescribe == [][record' # record => \A o \in DOMAIN out : out[o] = record']_vars

Matches == \A o \in DOMAIN out : out[o] = Fresh

(* The outputs used again were all made from the inputs as they are,       *)
(* whatever failed, was killed, or changed its includes in between, as     *)
(* long as no input gets contents back that it had before.                 *)
ReusedUnlessReverted == ~reverted /\ Current => Matches

(* src/commands/build/build.x:1191-1193: so was a script's executable,     *)
(* which is run without a look at the outputs.                             *)
ScriptUnlessReverted == ~reverted /\ ScriptCurrent => script.run = Fresh

(* src/commands/build/build.x:369-372: "the generated C is never reused    *)
(* for an input it does not match".                                        *)
NeverMismatched == \A b \in Builders : At(b, "check") /\ Current => Matches
=============================================================================
