------------------------------ MODULE Benchmark ------------------------------
(***************************************************************************)
(* run_benchmark: replays of one recording in child processes, their       *)
(* reports collected under <output>.part, a manifest over them, and the    *)
(* directory renamed to <output>.  Several harnesses may be started with   *)
(* the same output; each may fail or be killed at any step.                *)
(*                                                                         *)
(* A harness creates at most one directory, so directories are named by    *)
(* their creators, and a directory is a function from the names in it to   *)
(* what the files hold: nothing, one text, or one text with the end of a   *)
(* longer one behind it.  Files are opened by path and written through the *)
(* open descriptor: a writer keeps the directory it opened in, whatever    *)
(* becomes of the path.  Left out are the files nobody reads again:        *)
(* fixture.sha256 and the standard errors of the replays.                  *)
(*                                                                         *)
(* A replay reports how many of the recording's trades it processed: that  *)
(* they are the first ones, and that they may be fewer than there are, is  *)
(* what Pipeline shows.  The reader's metrics depend on the recording      *)
(* alone; of them malformed stays, whether there are parse errors.         *)
(***************************************************************************)
EXTENDS Integers, Sequences

CONSTANTS
  Harness,
  None,
  Warmups, Runs,   \* pairs of replays
  Events           \* trades in the recording

ASSUME BenchmarkAssumption ==
  /\ None \notin Harness
  /\ Warmups \in Nat /\ Runs \in Nat \ {0}
  /\ Events \in Nat

VARIABLES
  malformed,   \* the recording has a record that does not parse
  pc,
  replay,      \* the replay each harness is at
  measured,    \* reports parsed so far, warm-ups aside
  open,        \* the directory of the file that is open for writing
  part,        \* what <output>.part names
  output,      \* what <output> names
  files,       \* the files of each directory
  users,       \* history: who opened files in each directory
  unflushed    \* history: texts of each harness lost when they were closed

paths    == << part, output >>
progress == << malformed, replay, measured >>
steady   == << progress, unflushed >>
vars     == << steady, pc, open, paths, files, users >>

Replays == 1 .. 2 * (Warmups + Runs)
IsMeasured(i) == i > 2 * Warmups

RunFile(i) == << "run", i >>
manifest_json == << "manifest.json", 0 >>
report_html == << "report.html", 0 >>

(* from stands for what differs between two replays, like elapsed_ns.      *)
Report == [from : Harness, events : 0 .. Events]

Ended == {"refused", "failed", "killed", "done"}
Running == {"check_part", "create", "hash", "replay", "wait", "parse",
            "open manifest", "write manifest", "open html", "write html",
            "rename"}

Init ==
  /\ malformed \in BOOLEAN
  /\ pc = [h \in Harness |-> "start"]
  /\ replay = [h \in Harness |-> 1]
  /\ measured = [h \in Harness |-> << >>]
  /\ open = [h \in Harness |-> None]
  /\ part = None /\ output = None
  /\ files = [d \in Harness |-> << >>]
  /\ users = [d \in Harness |-> {}]
  /\ unflushed = [h \in Harness |-> {}]

Goes(h, from, to) == pc[h] = from /\ pc' = [pc EXCEPT ![h] = to]

-----------------------------------------------------------------------------
CheckOutput(h) ==
  /\ Goes(h, "start", IF output = None THEN "check_part" ELSE "refused")
  /\ UNCHANGED << steady, open, paths, files, users >>

CheckPart(h) ==
  /\ Goes(h, "check_part", IF part = None THEN "create" ELSE "refused")
  /\ UNCHANGED << steady, open, paths, files, users >>

(* An existing directory is fine with create_directories.                  *)
CreateDirectories(h) ==
  /\ Goes(h, "create", "hash")
  /\ part' = IF part = None THEN h ELSE part
  /\ users' = [users EXCEPT ![part'] = @ \cup {h}]
  /\ UNCHANGED << steady, open, output, files >>

(* The digests of recording and executable, and fixture.sha256.            *)
HashInputs(h) ==
  /\ Goes(h, "hash", "replay")
  /\ part # None
  /\ users' = [users EXCEPT ![part] = @ \cup {h}]
  /\ UNCHANGED << steady, open, paths, files >>

(* open with O_CREAT and O_TRUNC.                                          *)
OpenFile(h, name) ==
  /\ part # None
  /\ open' = [open EXCEPT ![h] = part]
  /\ files' = [files EXCEPT ![part] =
                 [n \in DOMAIN @ \cup {name} |->
                    IF n = name THEN << >> ELSE @[n]]]
  /\ users' = [users EXCEPT ![part] = @ \cup {h}]

(* A write from the start of the file: of a longer text that another one   *)
(* has written, the end stays.  A file without a name is written in vain.  *)
WriteFile(h, name, content) ==
  /\ IF open[h] = None
     THEN UNCHANGED files
     ELSE \/ files' = [files EXCEPT ![open[h]][name] = << content >>]
          \/ /\ files[open[h]][name] # << >>
             /\ files' = [files EXCEPT ![open[h]][name] =
                            << content, @[Len(@)] >>]
  /\ open' = [open EXCEPT ![h] = None]

-----------------------------------------------------------------------------
(* run_replay.                                                             *)

StartReplay(h) ==
  /\ Goes(h, "replay", "wait")
  /\ OpenFile(h, RunFile(replay[h]))
  /\ UNCHANGED << steady, paths >>

(* What the child writes of its report: all, or nothing of use.            *)
ChildWrites(h) ==
  \/ \E n \in 0 .. Events :
       WriteFile(h, RunFile(replay[h]), [from |-> h, events |-> n])
  \/ UNCHANGED files /\ open' = [open EXCEPT ![h] = None]

(* The child exits with 0, or with 1 if there are parse errors, and both   *)
(* will do.                                                                *)
ReplayExits(h) ==
  /\ Goes(h, "wait", "parse")
  /\ ChildWrites(h)
  /\ UNCHANGED << steady, paths, users >>

(* Any other exit.                                                         *)
ReplayFails(h) ==
  /\ Goes(h, "wait", "failed")
  /\ ChildWrites(h)
  /\ UNCHANGED << steady, paths, users >>

(* parse_report reads the file the path now leads to, and throws unless it *)
(* holds one report.                                                       *)
HasReport(d, i) ==
  /\ d # None
  /\ RunFile(i) \in DOMAIN files[d]
  /\ Len(files[d][RunFile(i)]) = 1

NextReplay(h) ==
  /\ replay' = [replay EXCEPT ![h] = @ + 1]
  /\ Goes(h, "parse",
          IF replay[h] + 1 \in Replays THEN "replay" ELSE "open manifest")

ParseMeasured(h) ==
  /\ IsMeasured(replay[h])
  /\ HasReport(part, replay[h])
  /\ NextReplay(h)
  /\ measured' = [measured EXCEPT
                    ![h] = Append(@, files[part][RunFile(replay[h])][1])]
  /\ UNCHANGED << malformed, unflushed, open, paths, files, users >>

(* Mutant of ParseWarmup: the report stays.                                *)
ParseWarmupKeeps(h) ==
  /\ ~IsMeasured(replay[h])
  /\ HasReport(part, replay[h])
  /\ NextReplay(h)
  /\ UNCHANGED << malformed, unflushed, measured, open, paths, files, users >>

(* The file is removed, also for those who have it open.                   *)
ParseWarmup(h) ==
  /\ ~IsMeasured(replay[h])
  /\ HasReport(part, replay[h])
  /\ NextReplay(h)
  /\ files' = [files EXCEPT ![part] =
                 [name \in DOMAIN @ \ {RunFile(replay[h])} |-> @[name]]]
  /\ open' = [g \in Harness |->
                IF open[g] = part /\ replay[g] = replay[h] THEN None
                                                           ELSE open[g]]
  /\ UNCHANGED << malformed, unflushed, measured, paths, users >>

-----------------------------------------------------------------------------
comparable(reports) ==
  /\ ~malformed
  /\ \A i \in 1 .. Len(reports) : reports[i].events = reports[1].events

Manifest(reports) == [comparable |-> comparable(reports), runs |-> reports]

OpenText(h, from, name, to) ==
  /\ Goes(h, from, to)
  /\ OpenFile(h, name)
  /\ UNCHANGED << steady, paths >>

(* The stream is asked before its destructor writes what it has buffered:  *)
(* if that fails, nobody notices.                                          *)
WriteText(h, from, name, to) ==
  /\ Goes(h, from, to)
  /\ \/ WriteFile(h, name, Manifest(measured[h])) /\ UNCHANGED unflushed
     \/ /\ unflushed' = [unflushed EXCEPT ![h] = @ \cup {name}]
        /\ open' = [open EXCEPT ![h] = None] /\ UNCHANGED files
  /\ UNCHANGED << progress, paths, users >>

(* Mutants of Publish: what is there is replaced, and a copy for a rename. *)
PublishOver(h) ==
  /\ Goes(h, "rename", "done")
  /\ part # None
  /\ output' = part /\ part' = None
  /\ UNCHANGED << steady, open, files, users >>

PublishCopy(h) ==
  /\ Goes(h, "rename", "done")
  /\ part # None
  /\ output = None
  /\ output' = part
  /\ UNCHANGED << part, steady, open, files, users >>

(* rename fails on a directory that is not empty.                          *)
Publish(h) ==
  /\ Goes(h, "rename", "done")
  /\ part # None
  /\ output = None
  /\ output' = part /\ part' = None
  /\ UNCHANGED << steady, open, files, users >>

-----------------------------------------------------------------------------
(* Any call may throw, and those that need a directory or a sound report   *)
(* do so without: what is there stays there.                               *)
Fails(h) ==
  /\ pc[h] \in Running \ {"wait"}
  /\ Goes(h, pc[h], "failed")
  /\ open' = [open EXCEPT ![h] = None]
  /\ UNCHANGED << steady, paths, files, users >>

(* A child outlives its harness.                                           *)
Kill(h) ==
  /\ pc[h] \in Running
  /\ Goes(h, pc[h], "killed")
  /\ open' = [open EXCEPT ![h] = IF pc[h] = "wait" THEN @ ELSE None]
  /\ UNCHANGED << steady, paths, files, users >>

OrphanWrites(h) ==
  /\ pc[h] = "killed" /\ open[h] # None
  /\ ChildWrites(h)
  /\ UNCHANGED << steady, pc, paths, users >>

Finished == /\ \A h \in Harness : pc[h] \in Ended
            /\ UNCHANGED vars

Next ==
  \/ \E h \in Harness :
       \/ CheckOutput(h) \/ CheckPart(h) \/ CreateDirectories(h)
       \/ HashInputs(h) \/ StartReplay(h) \/ ReplayExits(h) \/ ReplayFails(h)
       \/ ParseMeasured(h) \/ ParseWarmup(h)
       \/ OpenText(h, "open manifest", manifest_json, "write manifest")
       \/ WriteText(h, "write manifest", manifest_json, "open html")
       \/ OpenText(h, "open html", report_html, "write html")
       \/ WriteText(h, "write html", report_html, "rename")
       \/ Publish(h) \/ Fails(h) \/ Kill(h) \/ OrphanWrites(h)
  \/ Finished

Spec == Init /\ [][Next]_vars

-----------------------------------------------------------------------------
(* Every variable keeps to its domain, and a directory is named once.      *)
TypeOK ==
  /\ malformed \in BOOLEAN
  /\ pc \in [Harness -> {"start"} \cup Running \cup Ended]
  /\ replay \in [Harness -> Replays \cup {2 * (Warmups + Runs) + 1}]
  /\ \A h \in Harness :
       /\ measured[h] \in Seq(Report)
       /\ Len(measured[h]) <= 2 * Runs
       /\ open[h] \in Harness \cup {None}
       /\ users[h] \subseteq Harness
       /\ unflushed[h] \subseteq {manifest_json, report_html}
       /\ DOMAIN files[h] \subseteq
            {RunFile(i) : i \in Replays} \cup {manifest_json, report_html}
  /\ part \in Harness \cup {None} /\ output \in Harness \cup {None}
  /\ part = output => part = None

(* A directory that only one harness has used keeps the reports it         *)
(* measured, in their order and unmodified, whatever became of the         *)
(* harness; if it is published, there is nothing else in it but the two    *)
(* texts, about these reports and complete but for a failure at their very *)
(* end.                                                                    *)
SoleBundleIsConsistent ==
  \A h \in Harness : users[h] = {h} =>
    /\ \A i \in 1 .. Len(measured[h]) :
         files[h][RunFile(2 * Warmups + i)] = << measured[h][i] >>
    /\ output = h =>
         /\ Len(measured[h]) = 2 * Runs
         /\ DOMAIN files[h] = {RunFile(i) : i \in 2 * Warmups + 1 ..
                                                  2 * (Warmups + Runs)}
                              \cup {manifest_json, report_html}
         /\ \A name \in {manifest_json, report_html} \ unflushed[h] :
              files[h][name] = << Manifest(measured[h]) >>

(* Of several harnesses with one output one publishes at most, and what is *)
(* under either path stays there or is published: no harness replaces the  *)
(* evidence of another or takes it away.                                   *)
NeverReplaced ==
  [][/\ output # None => output' = output
     /\ part # None => \/ part' = part
                       \/ part' = None /\ output' = part]_vars

(* docs/BENCHMARK_REPORT.md:22-23,64: "Neither path is overwritten."  "Raw *)
(* JSON files are unmodified `replay` stdout."  Two harnesses can both     *)
(* find the paths free, and then share the partial directory.              *)
PublishedReportsAreMeasured ==
  \A h \in Harness : pc[h] = "done" =>
    \A i \in 1 .. Len(measured[h]) :
      files[output][RunFile(2 * Warmups + i)] = << measured[h][i] >>
=============================================================================
