-------------------------- MODULE BenchmarkProofs --------------------------
(***************************************************************************)
(* Proofs about Benchmark for every number of harnesses, replays and       *)
(* trades.                                                                 *)
(***************************************************************************)
EXTENDS Benchmark, SequenceTheorems, TLAPS

Early   == {"start", "check_part", "create", "refused"}
Inside  == Running \ {"check_part", "create"}
InTexts == {"open manifest", "write manifest", "open html", "write html",
            "rename", "done"}
LastReplay == 2 * (Warmups + Runs)
Names == {RunFile(i) : i \in Replays} \cup {manifest_json, report_html}

Types ==
  /\ malformed \in BOOLEAN
  /\ pc \in [Harness -> {"start"} \cup Running \cup Ended]
  /\ replay \in [Harness -> 1 .. LastReplay + 1]
  /\ measured \in [Harness -> Seq(Report)]
  /\ open \in [Harness -> Harness \cup {None}]
  /\ users \in [Harness -> SUBSET Harness]
  /\ unflushed \in [Harness -> SUBSET {manifest_json, report_html}]
  /\ part \in Harness \cup {None} /\ output \in Harness \cup {None}
  /\ DOMAIN files = Harness
  /\ \A d \in Harness :
       /\ DOMAIN files[d] \subseteq Names
       /\ \A i \in Replays : RunFile(i) \in DOMAIN files[d] =>
                               files[d][RunFile(i)] \in Seq(Report)

(* How far a harness has come, and where it can have a file open.          *)
Progressed(h) ==
  /\ Len(measured[h]) = IF replay[h] > 2 * Warmups
                        THEN replay[h] - 1 - 2 * Warmups ELSE 0
  /\ pc[h] \in Early \cup {"hash", "replay", "wait", "parse"} =>
       replay[h] \in Replays
  /\ pc[h] \in Early \cup {"hash"} => replay[h] = 1
  /\ pc[h] \in InTexts => replay[h] = LastReplay + 1
  /\ open[h] # None => \/ pc[h] \in {"wait", "write manifest", "write html"}
                       \/ pc[h] = "killed" /\ replay[h] \in Replays

(* A directory is where its creator put it, or published; whoever has a    *)
(* file open in it has used it, and so has everyone who may publish it.    *)
Placed(d) ==
  /\ d \notin users[d] => /\ users[d] = {} /\ DOMAIN files[d] = {}
                          /\ part # d /\ output # d
  /\ d \in users[d] => part = d \/ output = d
  /\ pc[d] \in Early => d \notin users[d]
  /\ open[d] # None => d \in users[open[d]]
  /\ pc[d] \in Inside /\ output = None => part # None /\ d \in users[part]
  /\ output = d /\ users[d] = {d} => pc[d] = "done"

Separate == part = output => part = None

Expected(h) ==
  {RunFile(i) : i \in 2 * Warmups + 1 .. replay[h] - 1}
    \cup (IF pc[h] \in {"wait", "parse"} THEN {RunFile(replay[h])} ELSE {})
    \cup (IF pc[h] \in InTexts \ {"open manifest"} THEN {manifest_json}
                                                   ELSE {})
    \cup (IF pc[h] \in {"write html", "rename", "done"} THEN {report_html}
                                                        ELSE {})

(* The reports a harness has measured are in a directory of its own.       *)
Kept(h) ==
  users[h] = {h} =>
    \A i \in 1 .. Len(measured[h]) :
      /\ RunFile(2 * Warmups + i) \in DOMAIN files[h]
      /\ files[h][RunFile(2 * Warmups + i)] = << measured[h][i] >>

(* So is, until another directory can be under way, all the rest.          *)
Stored(h) ==
  /\ DOMAIN files[h] = Expected(h)
  /\ pc[h] = "write manifest" => open[h] = h /\ files[h][manifest_json] = << >>
  /\ pc[h] = "write html" => open[h] = h /\ files[h][report_html] = << >>
  /\ pc[h] \in {"open html", "write html", "rename", "done"} =>
       \/ manifest_json \in unflushed[h]
       \/ files[h][manifest_json] = << Manifest(measured[h]) >>
  /\ pc[h] \in {"rename", "done"} =>
       \/ report_html \in unflushed[h]
       \/ files[h][report_html] = << Manifest(measured[h]) >>

Filled(h) ==
  users[h] = {h} /\ output \in {None, h} /\ pc[h] \in Inside \cup {"done"} =>
    Stored(h)

Inv ==
  /\ Types /\ Separate
  /\ \A h \in Harness : Progressed(h) /\ Placed(h) /\ Kept(h) /\ Filled(h)

-----------------------------------------------------------------------------

(* Files of a directory do not share a name.                               *)
LEMMA NamesDiffer ==
  /\ \A i : RunFile(i) # manifest_json /\ RunFile(i) # report_html
  /\ \A i, j : RunFile(i) = RunFile(j) => i = j
  /\ manifest_json # report_html
<1>1. /\ \A i : RunFile(i)[1] = "run" /\ RunFile(i)[2] = i
      /\ manifest_json[1] = "manifest.json" /\ report_html[1] = "report.html"
  BY DEF RunFile, manifest_json, report_html
<1> QED
  BY <1>1

(* What is opened and written has the right types.                         *)
LEMMA OpenTyped ==
  ASSUME Types, NEW h \in Harness, NEW name \in Names, OpenFile(h, name)
  PROVE  /\ open' \in [Harness -> Harness \cup {None}]
         /\ users' \in [Harness -> SUBSET Harness]
         /\ DOMAIN files' = Harness
         /\ \A d \in Harness :
              /\ DOMAIN files'[d] \subseteq Names
              /\ \A i \in Replays : RunFile(i) \in DOMAIN files'[d] =>
                                      files'[d][RunFile(i)] \in Seq(Report)
<1>1. << >> \in Seq(Report)
  OBVIOUS
<1>2. /\ open' \in [Harness -> Harness \cup {None}]
      /\ users' \in [Harness -> SUBSET Harness]
      /\ DOMAIN files' = Harness
  BY DEF Types, OpenFile
<1>3. ASSUME NEW d \in Harness PROVE DOMAIN files'[d] \subseteq Names
  BY DEF Types, OpenFile
<1>4. ASSUME NEW d \in Harness, NEW i \in Replays,
             RunFile(i) \in DOMAIN files'[d]
      PROVE  files'[d][RunFile(i)] \in Seq(Report)
  BY <1>1, <1>4 DEF Types, OpenFile
<1> QED
  BY <1>2, <1>3, <1>4

(* What is written into an open file is of its kind.                       *)
LEMMA WriteTyped ==
  ASSUME Types, NEW h \in Harness, NEW name \in Names, NEW content,
         \A i \in Replays : name = RunFile(i) => content \in Report,
         WriteFile(h, name, content)
  PROVE  /\ open' \in [Harness -> Harness \cup {None}]
         /\ DOMAIN files' = Harness
         /\ \A d \in Harness :
              /\ DOMAIN files'[d] \subseteq Names
              /\ \A i \in Replays : RunFile(i) \in DOMAIN files'[d] =>
                                      files'[d][RunFile(i)] \in Seq(Report)
<1>1. /\ open' \in [Harness -> Harness \cup {None}]
      /\ DOMAIN files' = Harness
  BY DEF Types, WriteFile
<1>2. ASSUME NEW d \in Harness PROVE DOMAIN files'[d] \subseteq Names
  BY DEF Types, WriteFile
<1>3. ASSUME NEW d \in Harness, NEW i \in Replays,
             RunFile(i) \in DOMAIN files'[d]
      PROVE  files'[d][RunFile(i)] \in Seq(Report)
  <2>1. RunFile(i) \in DOMAIN files[d] /\ files[d][RunFile(i)] \in Seq(Report)
    BY <1>3 DEF Types, WriteFile
  <2>2. CASE files'[d][RunFile(i)] = files[d][RunFile(i)]
    BY <2>1, <2>2
  <2>3. CASE files'[d][RunFile(i)] = << content >> /\ name = RunFile(i)
    BY <2>3
  <2>4. CASE /\ name = RunFile(i) /\ files[d][RunFile(i)] # << >>
             /\ files'[d][RunFile(i)] =
                  << content, files[d][RunFile(i)][Len(files[d][RunFile(i)])] >>
    BY <2>1, <2>4
  <2>5. CASE files' = files
    BY <2>2, <2>5
  <2>6. CASE files' = [files EXCEPT ![open[h]][name] = << content >>]
    BY <2>1, <2>2, <2>3, <2>6 DEF Types
  <2>7. CASE /\ files[open[h]][name] # << >>
             /\ files' = [files EXCEPT ![open[h]][name] =
                            << content, @[Len(@)] >>]
    <3>1. CASE d = open[h] /\ name = RunFile(i)
      BY <2>1, <2>4, <2>7, <3>1 DEF Types
    <3>2. CASE ~ (d = open[h] /\ name = RunFile(i))
      BY <2>1, <2>2, <2>7, <3>2 DEF Types
    <3> QED
      BY <3>1, <3>2
  <2> QED
    BY <2>5, <2>6, <2>7 DEF WriteFile
<1> QED
  BY <1>1, <1>2, <1>3

(* Likewise for what a replay, orphaned or not, writes into its file.      *)
LEMMA ChildTyped ==
  ASSUME Types, NEW h \in Harness, replay[h] \in Replays, ChildWrites(h)
  PROVE  /\ open' \in [Harness -> Harness \cup {None}]
         /\ DOMAIN files' = Harness
         /\ \A d \in Harness :
              /\ DOMAIN files'[d] \subseteq Names
              /\ \A i \in Replays : RunFile(i) \in DOMAIN files'[d] =>
                                      files'[d][RunFile(i)] \in Seq(Report)
<1>1. CASE UNCHANGED files /\ open' = [open EXCEPT ![h] = None]
  BY <1>1 DEF Types
<1>2. ASSUME NEW n \in 0 .. Events,
             WriteFile(h, RunFile(replay[h]), [from |-> h, events |-> n])
      PROVE  /\ open' \in [Harness -> Harness \cup {None}]
             /\ DOMAIN files' = Harness
             /\ \A d \in Harness :
                  /\ DOMAIN files'[d] \subseteq Names
                  /\ \A i \in Replays : RunFile(i) \in DOMAIN files'[d] =>
                                      files'[d][RunFile(i)] \in Seq(Report)
  <2>1. [from |-> h, events |-> n] \in Report
    BY DEF Report
  <2>2. RunFile(replay[h]) \in Names
    BY DEF Names
  <2> QED
    BY <1>2, <2>1, <2>2, WriteTyped
<1> QED
  BY <1>1, <1>2 DEF ChildWrites

-----------------------------------------------------------------------------
(* The types, and the progress of each harness, are kept by every step.    *)
Going == Types /\ \A h \in Harness : Progressed(h)

(* A parsed result takes its harness to the next replay, or to the texts.  *)
LEMMA Advances ==
  ASSUME Going, NEW h \in Harness, NextReplay(h)
  PROVE  /\ replay[h] \in Replays
         /\ replay' = [replay EXCEPT ![h] = @ + 1]
         /\ replay' \in [Harness -> 1 .. LastReplay + 1]
         /\ pc[h] = "parse"
         /\ pc' = [pc EXCEPT ![h] = IF replay[h] + 1 \in Replays
                                    THEN "replay" ELSE "open manifest"]
         /\ replay[h] + 1 \notin Replays => replay[h] = LastReplay
<1> USE BenchmarkAssumption DEF LastReplay, Replays
<1>1. pc[h] = "parse" /\ replay[h] \in Replays
  BY DEF NextReplay, Goes, Going, Progressed
<1>2. replay[h] \in 1 .. LastReplay /\ LastReplay \in Nat
  BY <1>1
<1>3. replay' \in [Harness -> 1 .. LastReplay + 1]
  <2>1. replay[h] + 1 \in 1 .. LastReplay + 1
    BY <1>2
  <2>2. replay \in [Harness -> 1 .. LastReplay + 1]
    BY DEF Going, Types
  <2> HIDE DEF LastReplay
  <2> QED
    BY <2>1, <2>2 DEF NextReplay
<1>4. replay[h] + 1 \notin Replays => replay[h] = LastReplay
  <2>1. Replays = 1 .. LastReplay
    OBVIOUS
  <2> HIDE DEF LastReplay, Replays
  <2> QED
    BY <1>2, <2>1
<1> QED
  BY <1>1, <1>3, <1>4 DEF NextReplay, Goes

(* After a result is parsed, every harness has as many as it should.       *)
LEMMA ParseProgresses ==
  ASSUME Going, NEW h \in Harness, ParseMeasured(h) \/ ParseWarmup(h),
         NEW g \in Harness
  PROVE  Progressed(g)'
<1>0. Progressed(g) /\ Types /\ NextReplay(h) /\ pc[h] = "parse"
  BY Advances DEF ParseMeasured, ParseWarmup, Going
<1>1. /\ Warmups \in Nat /\ Runs \in Nat /\ LastReplay \in Nat
      /\ replay[h] \in Nat
  BY <1>0, BenchmarkAssumption DEF Types, LastReplay
<1>4. /\ replay' = [replay EXCEPT ![h] = @ + 1]
      /\ pc' = [pc EXCEPT ![h] = IF replay[h] + 1 \in Replays
                                 THEN "replay" ELSE "open manifest"]
      /\ replay[h] + 1 \notin Replays => replay[h] = LastReplay
  BY <1>0, Advances
<1>5. DOMAIN replay = Harness /\ DOMAIN pc = Harness
  BY <1>0 DEF Types
<1>2. CASE g = h
  <2>1. open[h] = None /\ Len(measured[h]) = IF replay[h] > 2 * Warmups
                          THEN replay[h] - 1 - 2 * Warmups ELSE 0
    BY <1>0, <1>2 DEF Progressed, InTexts
  <2>2. open'[h] = None
    BY <1>0, <2>1 DEF ParseMeasured, ParseWarmup, Types
  <2>3. replay'[h] = replay[h] + 1
    BY <1>4, <1>5
  <2>4. ASSUME ParseMeasured(h)
        PROVE  Len(measured'[h]) = IF replay'[h] > 2 * Warmups
                                  THEN replay'[h] - 1 - 2 * Warmups ELSE 0
    <3>1. PICK r : measured'[h] = Append(measured[h], r)
      BY <1>0, <2>4 DEF ParseMeasured, Types
    <3>2. measured[h] \in Seq(Report)
      BY <1>0 DEF Types
    <3>3. Len(measured'[h]) = Len(measured[h]) + 1
      BY <3>1, <3>2
    <3>4. replay[h] > 2 * Warmups
      BY <2>4 DEF ParseMeasured, IsMeasured
    <3> QED
      BY <1>1, <2>1, <2>3, <3>3, <3>4
  <2>5. ASSUME ParseWarmup(h)
        PROVE  Len(measured'[h]) = IF replay'[h] > 2 * Warmups
                                  THEN replay'[h] - 1 - 2 * Warmups ELSE 0
    <3>1. measured'[h] = measured[h] /\ ~ replay[h] > 2 * Warmups
      BY <2>5 DEF ParseWarmup, IsMeasured
    <3> QED
      BY <1>1, <2>1, <2>3, <3>1
  <2>6. Len(measured'[h]) = IF replay'[h] > 2 * Warmups
                            THEN replay'[h] - 1 - 2 * Warmups ELSE 0
    BY <2>4, <2>5
  <2>7. \/ pc'[h] = "replay" /\ replay'[h] \in Replays
        \/ pc'[h] = "open manifest" /\ replay'[h] = LastReplay + 1
    BY <1>4, <1>5, <2>3
  <2> QED
    BY <1>2, <2>2, <2>6, <2>7 DEF Progressed, Early, InTexts
<1>3. CASE g # h
  <2>1. /\ pc'[g] = pc[g] /\ replay'[g] = replay[g]
        /\ measured'[g] = measured[g] /\ open'[g] \in {None, open[g]}
    BY <1>0, <1>3, <1>4, <1>5 DEF ParseMeasured, ParseWarmup, Types
  <2> QED
    BY <1>0, <2>1 DEF Progressed
<1> QED
  BY <1>2, <1>3

(* How far a parsed result takes its own harness.                          *)
LEMMA ParseAdvances ==
  ASSUME Going, NEW h \in Harness, ParseMeasured(h) \/ ParseWarmup(h)
  PROVE  /\ pc[h] = "parse" /\ pc'[h] \in {"replay", "open manifest"}
         /\ replay[h] \in Nat /\ replay'[h] = replay[h] + 1
<1>1. /\ DOMAIN replay = Harness /\ DOMAIN pc = Harness
      /\ NextReplay(h)
  BY DEF Going, Types, ParseMeasured, ParseWarmup
<1>2. /\ pc[h] = "parse" /\ replay' = [replay EXCEPT ![h] = @ + 1]
      /\ pc' = [pc EXCEPT ![h] = IF replay[h] + 1 \in Replays
                                 THEN "replay" ELSE "open manifest"]
      /\ replay[h] \in Replays
  BY <1>1, Advances
<1>3. replay[h] \in Nat
  <2>1. Replays \subseteq Nat
    BY BenchmarkAssumption DEF Replays
  <2> QED
    BY <1>2, <2>1
<1>4. pc'[h] \in {"replay", "open manifest"}
  BY <1>1, <1>2
<1>5. replay'[h] = replay[h] + 1
  BY <1>1, <1>2
<1> QED
  BY <1>2, <1>3, <1>4, <1>5

(* Types and progress are kept by every step.                              *)
LEMMA GoingKept ==
  ASSUME Going, [Next]_vars PROVE Going'
<1>1. Types'
  <2> USE BenchmarkAssumption DEF Goes, steady, progress, paths, Running,
          Ended, LastReplay
  <2>1. CASE UNCHANGED vars \/ Finished
    BY <2>1 DEF vars, Finished, Going, Types
  <2>2. ASSUME NEW h \in Harness,
               CheckOutput(h) \/ CheckPart(h) \/ Fails(h) \/ Kill(h)
        PROVE  Types'
    BY <2>2, ZenonT(60) DEF CheckOutput, CheckPart, Fails, Kill, Going, Types
  <2>3. ASSUME NEW h \in Harness,
               CreateDirectories(h) \/ HashInputs(h) \/ Publish(h)
        PROVE  Types'
    <3>1. part' \in Harness \cup {None}
      BY <2>3 DEF CreateDirectories, HashInputs, Publish, Going, Types
    <3>2. CASE CreateDirectories(h)
      BY <3>1, <3>2, ZenonT(60) DEF CreateDirectories, Going, Types
    <3>3. CASE HashInputs(h)
      BY <3>1, <3>3 DEF HashInputs, Going, Types
    <3>4. CASE Publish(h)
      BY <3>1, <3>4 DEF Publish, Going, Types
    <3> QED
      BY <2>3, <3>2, <3>3, <3>4
  <2>4. ASSUME NEW h \in Harness, StartReplay(h) PROVE Types'
    <3>1. replay[h] \in Replays /\ RunFile(replay[h]) \in Names
      BY <2>4 DEF StartReplay, Going, Progressed, Names
    <3> QED
      BY <2>4, <3>1, OpenTyped DEF StartReplay, Going, Types
  <2>5. ASSUME NEW h \in Harness,
               ReplayExits(h) \/ ReplayFails(h) \/ OrphanWrites(h)
        PROVE  Types'
    <3>1. replay[h] \in Replays
      BY <2>5 DEF ReplayExits, ReplayFails, OrphanWrites, Going, Progressed
    <3>2. ChildWrites(h)
      BY <2>5 DEF ReplayExits, ReplayFails, OrphanWrites
    <3> QED
      BY <2>5, <3>1, <3>2, ChildTyped
      DEF ReplayExits, ReplayFails, OrphanWrites, Going, Types
  <2>6. ASSUME NEW h \in Harness, ParseMeasured(h) PROVE Types'
    <3>1. files[part][RunFile(replay[h])] \in Seq(Report)
      BY <2>6 DEF ParseMeasured, HasReport, NextReplay, Going, Types,
                  Progressed
    <3>2. files[part][RunFile(replay[h])][1] \in Report
      BY <2>6, <3>1, ElementOfSeq DEF ParseMeasured, HasReport
    <3>3. measured'[h] \in Seq(Report)
      BY <2>6, <3>2, AppendProperties DEF ParseMeasured, Going, Types
    <3>4. replay' \in [Harness -> 1 .. LastReplay + 1]
      BY <2>6, Advances DEF ParseMeasured, Going, Types
    <3> QED
      BY <2>6, <3>3, <3>4 DEF ParseMeasured, NextReplay, Going, Types
  <2>7. ASSUME NEW h \in Harness, ParseWarmup(h) PROVE Types'
    <3>1. replay' \in [Harness -> 1 .. LastReplay + 1]
      BY <2>7, Advances DEF ParseWarmup, Going, Types
    <3> QED
      BY <2>7, <3>1 DEF ParseWarmup, HasReport, NextReplay, Going, Types
  <2>8. ASSUME NEW h \in Harness, NEW from, NEW name, NEW to \in Running,
               name \in {manifest_json, report_html},
               OpenText(h, from, name, to)
        PROVE  Types'
    <3>1. name \in Names
      BY <2>8 DEF Names
    <3> QED
      BY <2>8, <3>1, OpenTyped DEF OpenText, Going, Types
  <2>9. ASSUME NEW h \in Harness, NEW from, NEW name, NEW to \in Running,
               name \in {manifest_json, report_html},
               WriteText(h, from, name, to)
        PROVE  Types'
    <3>1. name \in Names
      BY <2>9 DEF Names
    <3>2. \A i \in Replays : name # RunFile(i)
      BY <2>9, NamesDiffer
    <3>3. CASE /\ WriteFile(h, name, Manifest(measured[h]))
               /\ UNCHANGED unflushed
      BY <2>9, <3>1, <3>2, <3>3, WriteTyped DEF WriteText, Going, Types
    <3>4. CASE /\ unflushed' = [unflushed EXCEPT ![h] = @ \cup {name}]
               /\ open' = [open EXCEPT ![h] = None] /\ UNCHANGED files
      BY <2>9, <3>4 DEF WriteText, Going, Types
    <3> QED
      BY <2>9, <3>3, <3>4 DEF WriteText
  <2> QED
    BY <2>1, <2>2, <2>3, <2>4, <2>5, <2>6, <2>7, <2>8, <2>9 DEF Next
<1>2. ASSUME NEW g \in Harness PROVE Progressed(g)'
  <2> USE BenchmarkAssumption DEF Goes, steady, progress, paths, Early,
          Running, Ended, InTexts, LastReplay, Replays
  <2>0. Progressed(g) /\ Types
    BY DEF Going
  <2>1. CASE UNCHANGED vars \/ Finished
    BY <2>0, <2>1 DEF vars, Finished, Progressed
  <2>2. ASSUME NEW h \in Harness,
               \/ CheckOutput(h) \/ CheckPart(h) \/ Fails(h) \/ Kill(h)
               \/ CreateDirectories(h) \/ HashInputs(h) \/ Publish(h)
        PROVE  Progressed(g)'
    BY <2>0, <2>2, ZenonT(60)
    DEF CheckOutput, CheckPart, Fails, Kill, CreateDirectories, HashInputs,
        Publish, Types, Progressed
  <2>3. ASSUME NEW h \in Harness, StartReplay(h) PROVE Progressed(g)'
    BY <2>0, <2>3 DEF StartReplay, OpenFile, Types, Progressed
  <2>4. ASSUME NEW h \in Harness,
               ReplayExits(h) \/ ReplayFails(h) \/ OrphanWrites(h)
        PROVE  Progressed(g)'
    BY <2>0, <2>4 DEF ReplayExits, ReplayFails, OrphanWrites, ChildWrites,
                      WriteFile, Types, Progressed
  <2>5. ASSUME NEW h \in Harness, ParseMeasured(h) \/ ParseWarmup(h)
        PROVE  Progressed(g)'
    BY <2>5, ParseProgresses
  <2>7. ASSUME NEW h \in Harness, NEW from, NEW name, NEW to,
               \/ from = "open manifest" /\ to = "write manifest"
               \/ from = "open html" /\ to = "write html",
               OpenText(h, from, name, to)
        PROVE  Progressed(g)'
    BY <2>0, <2>7 DEF OpenText, OpenFile, Types, Progressed
  <2>8. ASSUME NEW h \in Harness, NEW from, NEW name, NEW to,
               \/ from = "write manifest" /\ to = "open html"
               \/ from = "write html" /\ to = "rename",
               WriteText(h, from, name, to)
        PROVE  Progressed(g)'
    BY <2>0, <2>8 DEF WriteText, WriteFile, Types, Progressed
  <2> QED
    BY <2>1, <2>2, <2>3, <2>4, <2>5, <2>7, <2>8 DEF Next
<1> QED
  BY <1>1, <1>2 DEF Going

-----------------------------------------------------------------------------
(* What a step changes of a directory.                                     *)
LEMMA OpenEffect ==
  ASSUME Types, NEW h \in Harness, NEW name, OpenFile(h, name),
         NEW d \in Harness
  PROVE  /\ part \in Harness
         /\ open'[d] = IF d = h THEN part ELSE open[d]
         /\ DOMAIN files'[d] =
              DOMAIN files[d] \cup (IF d = part THEN {name} ELSE {})
         /\ \A n \in DOMAIN files'[d] :
              files'[d][n] = IF d = part /\ n = name THEN << >>
                                                     ELSE files[d][n]
<1>1. part \in Harness
  BY DEF OpenFile, Types
<1>2. open'[d] = IF d = h THEN part ELSE open[d]
  BY DEF OpenFile, Types
<1>3. CASE d = part
  BY <1>1, <1>2, <1>3 DEF OpenFile, Types
<1>4. CASE d # part
  BY <1>1, <1>2, <1>4 DEF OpenFile, Types
<1> QED
  BY <1>3, <1>4

(* Writing changes the one file that is open, and closes it.               *)
LEMMA WriteEffect ==
  ASSUME Types, NEW h \in Harness, NEW name, NEW content,
         WriteFile(h, name, content), NEW d \in Harness
  PROVE  /\ open'[d] = IF d = h THEN None ELSE open[d]
         /\ DOMAIN files'[d] = DOMAIN files[d]
         /\ \A n \in DOMAIN files[d] :
              ~ (d = open[h] /\ n = name) => files'[d][n] = files[d][n]
         /\ open[h] = d /\ name \in DOMAIN files[d]
                        /\ files[d][name] = << >> =>
              files'[d][name] = << content >>
<1>1. open'[d] = IF d = h THEN None ELSE open[d]
  BY DEF WriteFile, Types
<1>2. CASE files' = files /\ open[h] = None
  BY <1>1, <1>2, BenchmarkAssumption
<1>3. CASE files' = [files EXCEPT ![open[h]][name] = << content >>]
  BY <1>1, <1>3 DEF Types
<1>4. CASE /\ files[open[h]][name] # << >>
           /\ files' = [files EXCEPT ![open[h]][name] =
                          << content, @[Len(@)] >>]
  BY <1>1, <1>4 DEF Types
<1> QED
  BY <1>2, <1>3, <1>4 DEF WriteFile

(* A directory in which nobody has a file open is left alone.              *)
LEMMA WriteElsewhere ==
  ASSUME Types, NEW h \in Harness, NEW name, NEW content,
         WriteFile(h, name, content), NEW d \in Harness, open[h] # d, h # d
  PROVE  /\ DOMAIN files'[d] = DOMAIN files[d] /\ open'[d] = open[d]
         /\ \A n \in DOMAIN files[d] : files'[d][n] = files[d][n]
<1>1. /\ open'[d] = IF d = h THEN None ELSE open[d]
      /\ DOMAIN files'[d] = DOMAIN files[d]
      /\ \A n \in DOMAIN files[d] :
           ~ (d = open[h] /\ n = name) => files'[d][n] = files[d][n]
  BY WriteEffect
<1> QED
  BY <1>1

(* Opening a file in one's own directory.                                  *)
LEMMA OpenOwn ==
  ASSUME Types, NEW d \in Harness, NEW name, OpenFile(d, name), part = d
  PROVE  /\ open'[d] = d
         /\ DOMAIN files'[d] = DOMAIN files[d] \cup {name}
         /\ files'[d][name] = << >>
         /\ \A n \in DOMAIN files[d] : n # name => files'[d][n] = files[d][n]
BY OpenEffect

(* Writing a file opened in one's own directory.                           *)
LEMMA WriteOwn ==
  ASSUME Types, NEW d \in Harness, NEW name, NEW content,
         WriteFile(d, name, content), open[d] = d,
         name \in DOMAIN files[d], files[d][name] = << >>
  PROVE  /\ DOMAIN files'[d] = DOMAIN files[d]
         /\ files'[d][name] = << content >>
         /\ \A n \in DOMAIN files[d] : n # name => files'[d][n] = files[d][n]
BY WriteEffect

(* The report of a warm-up is removed, and nothing else.                   *)
LEMMA RemoveEffect ==
  ASSUME Types, NEW h \in Harness, ParseWarmup(h), NEW d \in Harness
  PROVE  /\ part \in Harness
         /\ open'[d] \in {None, open[d]}
         /\ DOMAIN files'[d] =
              DOMAIN files[d] \ (IF d = part THEN {RunFile(replay[h])} ELSE {})
         /\ \A n \in DOMAIN files'[d] : files'[d][n] = files[d][n]
<1>1. part \in Harness /\ open'[d] \in {None, open[d]}
  BY DEF ParseWarmup, HasReport, Types
<1>2. CASE d = part
  BY <1>1, <1>2 DEF ParseWarmup, Types
<1>3. CASE d # part
  BY <1>1, <1>3 DEF ParseWarmup, Types
<1> QED
  BY <1>2, <1>3

-----------------------------------------------------------------------------
(* So is the place of every directory: by steps that use none anew, ...    *)
AllPlaced == Going /\ Separate /\ \A d \in Harness : Placed(d)

(* A harness stays in place when its directory gains nothing.              *)
LEMMA QuietPlaced ==
  ASSUME AllPlaced, NEW d \in Harness,
         UNCHANGED << users, part, output >>,
         DOMAIN files'[d] \subseteq DOMAIN files[d],
         open'[d] \in {None, open[d]},
         pc'[d] \in Early => pc[d] \in Early,
         pc'[d] \in Inside => pc[d] \in Inside,
         pc[d] = "done" => pc'[d] = "done"
  PROVE  Placed(d)'
<1>1. Placed(d)
  BY DEF AllPlaced
<1> QED
  BY <1>1 DEF Placed

(* ... and by steps that use the partial one.                              *)
LEMMA UsePlaced ==
  ASSUME AllPlaced, NEW d \in Harness, NEW h \in Harness,
         part # None, users' = [users EXCEPT ![part] = @ \cup {h}],
         UNCHANGED << part, output >>,
         d # part => DOMAIN files'[d] = DOMAIN files[d],
         open'[d] = open[d] \/ (d = h /\ open'[d] = part),
         IF d = h THEN {pc[d], pc'[d]} \subseteq Inside ELSE pc'[d] = pc[d]
  PROVE  Placed(d)'
<1>1. Placed(d) /\ Types /\ Separate
  BY DEF AllPlaced, Going
<1>2. part \in Harness /\ part \in users[part] /\ part # output
  <2>1. part \in Harness /\ Placed(part) /\ part # output
    BY <1>1 DEF Types, AllPlaced, Separate
  <2> QED
    BY <2>1 DEF Placed
<1>3. /\ part \in users'[part] /\ h \in users'[part]
      /\ \A e \in Harness : users[e] \subseteq users'[e]
      /\ \A e \in Harness \ {part} : users'[e] = users[e]
  BY <1>1, <1>2 DEF Types
<1>4. Inside \cap Early = {} /\ "done" \notin Inside
  BY DEF Inside, Early, Running
<1>5. d \notin users'[d] => /\ users'[d] = {} /\ DOMAIN files'[d] = {}
                            /\ part # d /\ output # d
  BY <1>1, <1>3 DEF Placed
<1>6. d \in users'[d] => part = d \/ output = d
  BY <1>1, <1>3 DEF Placed
<1>7. pc'[d] \in Early => d \notin users'[d]
  BY <1>1, <1>2, <1>3, <1>4 DEF Placed
<1>8. open'[d] # None => d \in users'[open'[d]]
  BY <1>1, <1>2, <1>3 DEF Placed, Types
<1>9. pc'[d] \in Inside /\ output = None => d \in users'[part]
  BY <1>1, <1>2, <1>3 DEF Placed
<1>10. output = d /\ users'[d] = {d} => pc'[d] = "done"
  BY <1>1, <1>2, <1>3, <1>4 DEF Placed
<1> QED
  BY <1>5, <1>6, <1>7, <1>8, <1>9, <1>10 DEF Placed

(* Harnesses that create the directories find their place.                 *)
LEMMA CreatePlaced ==
  ASSUME AllPlaced, NEW d \in Harness, NEW h \in Harness, CreateDirectories(h)
  PROVE  Placed(d)'
<1>1. /\ Placed(d) /\ Placed(h) /\ Types /\ Separate
      /\ part \in Harness => Placed(part)
  BY DEF AllPlaced, Going
<1>2. /\ part' = IF part = None THEN h ELSE part
      /\ users' = [users EXCEPT ![part'] = @ \cup {h}]
      /\ pc[h] = "create" /\ pc' = [pc EXCEPT ![h] = "hash"]
      /\ UNCHANGED << open, output, files >>
  BY DEF CreateDirectories, Goes
<1>3. h \notin users[h] /\ output # h
  BY <1>1, <1>2 DEF Placed, Early
<1>4. part # None => part \in users[part] /\ part # output
  BY <1>1 DEF Placed, Types, Separate
<1>5. part' \in Harness /\ part' # output
  BY <1>1, <1>2, <1>3, <1>4 DEF Types
<1>6. /\ part' \in users'[part'] /\ h \in users'[part']
      /\ \A e \in Harness : users[e] \subseteq users'[e]
      /\ \A e \in Harness \ {part'} : users'[e] = users[e]
  BY <1>1, <1>2, <1>4, <1>5 DEF Types
<1>7. /\ pc'[h] \in Inside /\ pc'[h] \notin Early
      /\ d # h => pc'[d] = pc[d]
  BY <1>1, <1>2 DEF Types, Inside, Early, Running
<1>8. d \notin users'[d] => /\ users'[d] = {} /\ DOMAIN files'[d] = {}
                            /\ part' # d /\ output' # d
  BY <1>1, <1>2, <1>6 DEF Placed
<1>9. d \in users'[d] => part' = d \/ output' = d
  BY <1>1, <1>2, <1>6, BenchmarkAssumption DEF Placed
<1>10. pc'[d] \in Early => d \notin users'[d]
  <2>1. CASE d = h
    BY <1>7, <2>1
  <2>2. CASE d # h /\ d = part'
    BY <1>1, <1>2, <1>4, <1>7, <2>2 DEF Placed
  <2>3. CASE d # part'
    BY <1>1, <1>6, <1>7, <2>3 DEF Placed
  <2> QED
    BY <2>1, <2>2, <2>3
<1>11. open'[d] # None => d \in users'[open'[d]]
  BY <1>1, <1>2, <1>6 DEF Placed, Types
<1>12. pc'[d] \in Inside /\ output' = None =>
         part' # None /\ d \in users'[part']
  BY <1>1, <1>2, <1>5, <1>6, <1>7, BenchmarkAssumption DEF Placed
<1>13. output' = d /\ users'[d] = {d} => pc'[d] = "done"
  BY <1>1, <1>2, <1>3, <1>5, <1>6, <1>7 DEF Placed
<1> QED
  BY <1>8, <1>9, <1>10, <1>11, <1>12, <1>13 DEF Placed

(* Who publishes a directory that nobody else has used, has made it.       *)
LEMMA PublishPlaced ==
  ASSUME AllPlaced, NEW d \in Harness, NEW h \in Harness, Publish(h)
  PROVE  Placed(d)'
<1>1. Placed(d) /\ Placed(h) /\ Types /\ Separate
  BY DEF AllPlaced, Going
<1>2. /\ part # None /\ output = None /\ output' = part /\ part' = None
      /\ pc[h] = "rename" /\ pc' = [pc EXCEPT ![h] = "done"]
      /\ UNCHANGED << open, files, users >>
  BY DEF Publish, Goes, steady, progress
<1>3. h \in users[part]
  BY <1>1, <1>2 DEF Placed, Inside, Running
<1>4. pc'[h] = "done" /\ (d # h => pc'[d] = pc[d])
  BY <1>1, <1>2 DEF Types
<1> QED
  BY <1>1, <1>2, <1>3, <1>4, BenchmarkAssumption
  DEF Placed, Early, Inside, Running

(* Every step leaves every harness in its place.                           *)
LEMMA AllPlacedKept ==
  ASSUME AllPlaced, [Next]_vars PROVE AllPlaced'
<1>1. Going' /\ Types /\ Separate /\ Going
  BY GoingKept DEF AllPlaced, Going
<1>2. /\ Inside \cap Early = {} /\ "done" \notin Inside
      /\ Ended \cap Inside = {} /\ Ended \cap Early = {"refused"}
  BY DEF Inside, Early, Running, Ended
<1>3. CASE UNCHANGED vars \/ Finished
  BY <1>1, <1>3 DEF vars, steady, progress, paths, Finished, AllPlaced,
                    Placed, Separate
<1>4. ASSUME NEW h \in Harness, CreateDirectories(h) PROVE AllPlaced'
  <2>1. h \notin users[h] /\ output # h
    BY <1>4 DEF AllPlaced, Placed, Early, CreateDirectories, Goes
  <2>2. Separate'
    BY <1>1, <1>4, <2>1 DEF Separate, CreateDirectories
  <2> QED
    BY <1>1, <1>4, <2>2, CreatePlaced DEF AllPlaced
<1>5. ASSUME NEW h \in Harness, Publish(h) PROVE AllPlaced'
  <2>1. Separate'
    BY <1>5 DEF Separate, Publish
  <2> QED
    BY <1>1, <1>5, <2>1, PublishPlaced DEF AllPlaced
<1>6. ASSUME NEW h \in Harness,
             \/ CheckOutput(h) \/ CheckPart(h) \/ Fails(h) \/ Kill(h)
             \/ ReplayExits(h) \/ ReplayFails(h) \/ OrphanWrites(h)
             \/ ParseMeasured(h) \/ ParseWarmup(h)
             \/ WriteText(h, "write manifest", manifest_json, "open html")
             \/ WriteText(h, "write html", report_html, "rename")
      PROVE  AllPlaced'
  <2>1. UNCHANGED << users, part, output >>
    BY <1>6
    DEF CheckOutput, CheckPart, Fails, Kill, ReplayExits, ReplayFails,
        OrphanWrites, ParseMeasured, ParseWarmup, WriteText, paths
  <2>2. ASSUME NEW d \in Harness
        PROVE  /\ DOMAIN files'[d] \subseteq DOMAIN files[d]
               /\ open'[d] \in {None, open[d]}
    <3>1. CASE \/ CheckOutput(h) \/ CheckPart(h) \/ Fails(h) \/ Kill(h)
               \/ ParseMeasured(h)
      BY <1>1, <3>1
      DEF CheckOutput, CheckPart, Fails, Kill, ParseMeasured, Types
    <3>2. CASE UNCHANGED files /\ open' = [open EXCEPT ![h] = None]
      BY <1>1, <3>2 DEF Types
    <3>3. CASE \E name, content : WriteFile(h, name, content)
      BY <1>1, <3>3, WriteEffect
    <3>4. CASE ParseWarmup(h)
      BY <1>1, <3>4, RemoveEffect
    <3> QED
      BY <1>6, <3>1, <3>2, <3>3, <3>4
      DEF ReplayExits, ReplayFails, OrphanWrites, WriteText, ChildWrites
  <2>3. ASSUME NEW d \in Harness
        PROVE  /\ pc'[d] \in Early => pc[d] \in Early
               /\ pc'[d] \in Inside => pc[d] \in Inside
               /\ pc[d] = "done" => pc'[d] = "done"
    BY <1>1, <1>6, Advances, ZenonT(60)
    DEF CheckOutput, CheckPart, Fails, Kill, ReplayExits, ReplayFails,
        OrphanWrites, ParseMeasured, ParseWarmup, WriteText, Goes, Types,
        Early, Inside, Running
  <2>4. \A d \in Harness : Placed(d)'
    BY <2>1, <2>2, <2>3, QuietPlaced
  <2>5. Separate'
    BY <1>1, <2>1 DEF Separate
  <2> QED
    BY <1>1, <2>4, <2>5 DEF AllPlaced
<1>7. ASSUME NEW h \in Harness,
             \/ HashInputs(h) \/ StartReplay(h)
             \/ OpenText(h, "open manifest", manifest_json, "write manifest")
             \/ OpenText(h, "open html", report_html, "write html")
      PROVE  AllPlaced'
  <2>1. /\ part # None /\ users' = [users EXCEPT ![part] = @ \cup {h}]
        /\ UNCHANGED << part, output >>
    BY <1>7 DEF HashInputs, StartReplay, OpenText, OpenFile, paths
  <2>2. ASSUME NEW d \in Harness
        PROVE  /\ d # part => DOMAIN files'[d] = DOMAIN files[d]
               /\ open'[d] = open[d] \/ (d = h /\ open'[d] = part)
    <3>1. CASE HashInputs(h)
      <4>1. open' = open /\ files' = files
        BY <3>1 DEF HashInputs
      <4> QED
        BY <4>1
    <3>2. ASSUME NEW name, OpenFile(h, name)
          PROVE  /\ d # part => DOMAIN files'[d] = DOMAIN files[d]
                 /\ open'[d] = open[d] \/ (d = h /\ open'[d] = part)
      <4>1. /\ open'[d] = IF d = h THEN part ELSE open[d]
            /\ DOMAIN files'[d] =
                 DOMAIN files[d] \cup (IF d = part THEN {name} ELSE {})
        BY <1>1, <3>2, OpenEffect
      <4> QED
        BY <4>1
    <3> QED
      BY <1>7, <3>1, <3>2 DEF StartReplay, OpenText
  <2>3. ASSUME NEW d \in Harness
        PROVE  IF d = h THEN {pc[d], pc'[d]} \subseteq Inside
                        ELSE pc'[d] = pc[d]
    BY <1>1, <1>7 DEF HashInputs, StartReplay, OpenText, Goes, Types, Inside,
                      Running
  <2>4. \A d \in Harness : Placed(d)'
    BY <2>1, <2>2, <2>3, UsePlaced
  <2>5. Separate'
    BY <1>1, <2>1 DEF Separate
  <2> QED
    BY <1>1, <2>4, <2>5 DEF AllPlaced
<1> QED
  BY <1>3, <1>4, <1>5, <1>6, <1>7 DEF Next

-----------------------------------------------------------------------------
(* A directory of its own is where its harness finds it, and nobody else   *)
(* writes in it.                                                           *)
LEMMA SoleUser ==
  ASSUME AllPlaced, NEW d \in Harness, users[d] = {d}
  PROVE  /\ \A h \in Harness : open[h] = d => h = d
         /\ pc[d] \in Inside => part = d
<1>1. Types /\ Placed(d) /\ \A h \in Harness : Placed(h)
  BY DEF AllPlaced, Going
<1>2. ASSUME NEW h \in Harness, open[h] = d PROVE h = d
  <2>1. h \in users[d]
    BY <1>1, <1>2, BenchmarkAssumption DEF Placed
  <2> QED
    BY <2>1
<1>3. pc[d] \in Inside => part = d
  BY <1>1 DEF Placed, Inside, Running
<1> QED
  BY <1>2, <1>3

(* And it is its own before the step, unless it is created.                *)
LEMMA WasSole ==
  ASSUME AllPlaced, [Next]_vars, NEW d \in Harness, users'[d] = {d}
  PROVE  users[d] = {d} \/ (CreateDirectories(d) /\ users[d] = {})
<1>1. Types /\ Placed(d)
  BY DEF AllPlaced, Going
<1>2. users[d] = {d} \/ users[d] = {}
  <2>1. users[d] \subseteq users'[d]
    <3>1. CASE users' = users
      BY <3>1
    <3>2. CASE \E h \in Harness : \E e :
             users' = [users EXCEPT ![e] = @ \cup {h}]
      BY <1>1, <3>2 DEF Types
    <3> QED
      BY <3>1, <3>2
      DEF Next, vars, CheckOutput, CheckPart, CreateDirectories, HashInputs,
          StartReplay, ReplayExits, ReplayFails, ParseMeasured, ParseWarmup,
          OpenText, OpenFile, WriteText, Publish, Fails, Kill, OrphanWrites,
          Finished
  <2>2. d \notin users[d] => users[d] = {}
    BY <1>1 DEF Placed
  <2> QED
    BY <2>1, <2>2
<1>3. ASSUME users[d] = {} PROVE CreateDirectories(d)
  <2>1. part # d /\ users'[d] # users[d]
    BY <1>1, <1>3 DEF Placed
  <2>2. ~ \E h \in Harness : users' = [users EXCEPT ![part] = @ \cup {h}]
    BY <1>1, <2>1 DEF Types
  <2>3. PICK h \in Harness : CreateDirectories(h)
    BY <2>1, <2>2
    DEF Next, vars, CheckOutput, CheckPart, HashInputs,
        StartReplay, ReplayExits, ReplayFails, ParseMeasured, ParseWarmup,
        OpenText, OpenFile, WriteText, Publish, Fails, Kill, OrphanWrites,
        Finished
  <2>4. users' = [users EXCEPT ![part'] = @ \cup {h}]
    BY <2>3 DEF CreateDirectories
  <2>5. h = d
    BY <1>1, <2>1, <2>4
    DEF Types
  <2> QED
    BY <2>3, <2>5
<1> QED
  BY <1>2, <1>3

(* The reports measured are in files numbered below the replay to come.    *)
LEMMA ReportsBelow ==
  ASSUME Going, NEW d \in Harness, NEW i \in 1 .. Len(measured[d])
  PROVE  /\ Warmups \in Nat /\ Runs \in Nat /\ LastReplay \in Nat
         /\ replay[d] \in Nat /\ i \in Nat
         /\ 2 * Warmups + i < replay[d]
         /\ 2 * Warmups + i \in Replays
<1>1. Types /\ Progressed(d)
  BY DEF Going
<1>2. /\ Warmups \in Nat /\ Runs \in Nat /\ LastReplay \in Nat
      /\ LastReplay = 2 * (Warmups + Runs)
      /\ replay[d] \in 1 .. LastReplay + 1
  BY <1>1, BenchmarkAssumption DEF Types, LastReplay
<1>3. Len(measured[d]) = IF replay[d] > 2 * Warmups
                         THEN replay[d] - 1 - 2 * Warmups ELSE 0
  BY <1>1 DEF Progressed
<1> QED
  BY <1>2, <1>3 DEF Replays

(* Who opens a file in a directory with one user is that user.             *)
LEMMA SoleOpener ==
  ASSUME Types, NEW h \in Harness, NEW name, OpenFile(h, name),
         users'[part] = {part}
  PROVE  h = part
<1>1. part \in Harness /\ users' = [users EXCEPT ![part] = @ \cup {h}]
  BY DEF OpenFile, Types
<1>2. h \in users'[part]
  BY <1>1 DEF Types
<1> QED
  BY <1>2

-----------------------------------------------------------------------------
(* So are the reports a harness has measured in a directory of its own.    *)
LEMMA KeptKept ==
  ASSUME AllPlaced, [Next]_vars, NEW d \in Harness, Kept(d) PROVE Kept(d)'
<1>1. Types /\ Going /\ Progressed(d)
  BY DEF AllPlaced, Going
<1> SUFFICES ASSUME users'[d] = {d},
                    NEW i \in 1 .. Len(measured'[d])
             PROVE  /\ RunFile(2 * Warmups + i) \in DOMAIN files'[d]
                    /\ files'[d][RunFile(2 * Warmups + i)]
                         = << measured'[d][i] >>
  BY DEF Kept
<1>2. CASE CreateDirectories(d)
  <2>1. replay[d] = 1 /\ measured' = measured
    BY <1>1, <1>2 DEF CreateDirectories, Goes, Progressed, Early, steady,
                      progress
  <2>2. Len(measured[d]) = 0
    <3>1. Len(measured[d]) = IF replay[d] > 2 * Warmups
                             THEN replay[d] - 1 - 2 * Warmups ELSE 0
      BY <1>1 DEF Progressed
    <3> QED
      BY <2>1, <3>1, BenchmarkAssumption
  <2> QED
    BY <2>1, <2>2
<1>3. CASE users[d] = {d}
  <2>1. /\ \A h \in Harness : open[h] = d => h = d
        /\ pc[d] \in Inside => part = d
    BY <1>3, SoleUser
  <2>2. ASSUME measured'[d] = measured[d],
               /\ RunFile(2 * Warmups + i) \in DOMAIN files[d] =>
                    /\ RunFile(2 * Warmups + i) \in DOMAIN files'[d]
                    /\ files'[d][RunFile(2 * Warmups + i)] =
                         files[d][RunFile(2 * Warmups + i)]
        PROVE  /\ RunFile(2 * Warmups + i) \in DOMAIN files'[d]
               /\ files'[d][RunFile(2 * Warmups + i)] = << measured'[d][i] >>
    BY <1>3, <2>2 DEF Kept
  <2>3. CASE UNCHANGED << measured, files >>
    BY <2>2, <2>3
  <2>5. measured' = measured => 2 * Warmups + i < replay[d]
    BY <1>1, ReportsBelow
  <2>6. ASSUME NEW h \in Harness, StartReplay(h)
        PROVE  /\ RunFile(2 * Warmups + i) \in DOMAIN files'[d]
               /\ files'[d][RunFile(2 * Warmups + i)] = << measured'[d][i] >>
    <3>1. measured' = measured /\ OpenFile(h, RunFile(replay[h]))
      BY <2>6 DEF StartReplay, steady, progress
    <3>2. \A n \in DOMAIN files[d] : ~ (d = part /\ n = RunFile(replay[h])) =>
            n \in DOMAIN files'[d] /\ files'[d][n] = files[d][n]
      BY <1>1, <3>1, OpenEffect
    <3>3. d = part => h = d
      BY <1>1, <3>1, SoleOpener
    <3>4. CASE d # part
      BY <2>2, <3>1, <3>2, <3>4
    <3>5. CASE d = part
      <4>1. 2 * Warmups + i # replay[h]
        BY <1>1, <2>5, <3>1, <3>3, <3>5, ReportsBelow
      <4>2. RunFile(2 * Warmups + i) # RunFile(replay[h])
        BY <4>1, NamesDiffer
      <4> QED
        BY <2>2, <3>1, <3>2, <4>2
    <3> QED
      BY <3>4, <3>5
  <2>7. ASSUME NEW h \in Harness, ChildWrites(h), measured' = measured
        PROVE  /\ RunFile(2 * Warmups + i) \in DOMAIN files'[d]
               /\ files'[d][RunFile(2 * Warmups + i)] = << measured'[d][i] >>
    <3>1. CASE files' = files
      BY <2>2, <2>7, <3>1
    <3>2. ASSUME NEW content, WriteFile(h, RunFile(replay[h]), content)
          PROVE  /\ RunFile(2 * Warmups + i) \in DOMAIN files'[d]
                 /\ files'[d][RunFile(2 * Warmups + i)] = << measured'[d][i] >>
      <4>1. \A n \in DOMAIN files[d] :
              ~ (d = open[h] /\ n = RunFile(replay[h])) =>
                n \in DOMAIN files'[d] /\ files'[d][n] = files[d][n]
        BY <1>1, <3>2, WriteEffect
      <4>2. ~ (d = open[h]
               /\ RunFile(2 * Warmups + i) = RunFile(replay[h]))
        BY <1>1, <2>1, <2>5, <2>7, NamesDiffer, ReportsBelow
      <4> QED
        BY <2>2, <2>7, <4>1, <4>2
    <3> QED
      BY <2>7, <3>1, <3>2 DEF ChildWrites
  <2>8. ASSUME NEW h \in Harness, NEW name \in {manifest_json, report_html},
               OpenFile(h, name), measured' = measured
        PROVE  /\ RunFile(2 * Warmups + i) \in DOMAIN files'[d]
               /\ files'[d][RunFile(2 * Warmups + i)] = << measured'[d][i] >>
    <3>1. \A n \in DOMAIN files[d] : n # name =>
            n \in DOMAIN files'[d] /\ files'[d][n] = files[d][n]
      BY <1>1, <2>8, OpenEffect
    <3> QED
      BY <2>2, <2>8, <3>1, NamesDiffer
  <2>9. ASSUME NEW h \in Harness, NEW name \in {manifest_json, report_html},
               \/ WriteFile(h, name, Manifest(measured[h]))
               \/ UNCHANGED files,
               measured' = measured
        PROVE  /\ RunFile(2 * Warmups + i) \in DOMAIN files'[d]
               /\ files'[d][RunFile(2 * Warmups + i)] = << measured'[d][i] >>
    <3>1. CASE files' = files
      BY <2>2, <2>9, <3>1
    <3>2. CASE WriteFile(h, name, Manifest(measured[h]))
      <4>1. \A n \in DOMAIN files[d] : n # name =>
              n \in DOMAIN files'[d] /\ files'[d][n] = files[d][n]
        BY <1>1, <3>2, WriteEffect
      <4> QED
        BY <2>2, <2>9, <4>1, NamesDiffer
    <3> QED
      BY <2>9, <3>1, <3>2
  <2>10. ASSUME NEW h \in Harness, ParseWarmup(h)
        PROVE  /\ RunFile(2 * Warmups + i) \in DOMAIN files'[d]
               /\ files'[d][RunFile(2 * Warmups + i)] = << measured'[d][i] >>
    <3>1. measured' = measured /\ ~ replay[h] > 2 * Warmups
      BY <2>10 DEF ParseWarmup, IsMeasured
    <3>2. \A n \in DOMAIN files[d] : n # RunFile(replay[h]) =>
            n \in DOMAIN files'[d] /\ files'[d][n] = files[d][n]
      BY <1>1, <2>10, RemoveEffect
    <3>3. 2 * Warmups + i # replay[h]
      BY <1>1, <3>1, ReportsBelow
    <3> QED
      BY <2>2, <3>1, <3>2, <3>3, NamesDiffer
  <2>11. ASSUME NEW h \in Harness, ParseMeasured(h)
        PROVE  /\ RunFile(2 * Warmups + i) \in DOMAIN files'[d]
               /\ files'[d][RunFile(2 * Warmups + i)] = << measured'[d][i] >>
    <3>1. files' = files
      BY <2>11 DEF ParseMeasured
    <3>2. CASE h # d
      <4>1. measured'[d] = measured[d]
        BY <1>1, <2>11, <3>2 DEF ParseMeasured, Types
      <4> QED
        BY <2>2, <3>1, <4>1
    <3>3. CASE h = d
      <4>1. part = d /\ replay[d] \in Replays
        BY <1>1, <2>1, <2>11, <3>3, Advances
        DEF ParseMeasured, Inside, Running
      <4> DEFINE report == files[d][RunFile(replay[d])]
      <4>2. /\ measured'[d] = Append(measured[d], report[1])
            /\ RunFile(replay[d]) \in DOMAIN files[d]
            /\ Len(report) = 1 /\ replay[d] > 2 * Warmups
        BY <1>1, <2>11, <3>3, <4>1
        DEF ParseMeasured, HasReport, IsMeasured, Types
      <4>3. report \in Seq(Report) /\ measured[d] \in Seq(Report)
        BY <1>1, <4>1, <4>2 DEF Types
      <4>4. report = << report[1] >>
        BY <4>2, <4>3
      <4>5. /\ Len(measured[d]) = replay[d] - 1 - 2 * Warmups
            /\ replay[d] \in Nat /\ Warmups \in Nat
        <5>1. Len(measured[d]) = IF replay[d] > 2 * Warmups
                                 THEN replay[d] - 1 - 2 * Warmups ELSE 0
          BY <1>1 DEF Progressed
        <5>2. replay[d] \in Nat
          BY <4>1 DEF Replays
        <5> QED
          BY <4>2, <5>1, <5>2, BenchmarkAssumption
      <4> HIDE DEF report
      <4>6. /\ Len(measured'[d]) = Len(measured[d]) + 1
            /\ measured'[d][Len(measured[d]) + 1] = report[1]
            /\ \A j \in 1 .. Len(measured[d]) :
                 measured'[d][j] = measured[d][j]
        BY <4>2, <4>3
      <4>7. CASE i = Len(measured[d]) + 1
        <5>1. 2 * Warmups + i = replay[d]
          BY <4>5, <4>7
        <5> QED
          BY <3>1, <4>2, <4>4, <4>6, <4>7, <5>1 DEF report
      <4>8. CASE i \in 1 .. Len(measured[d])
        BY <1>3, <3>1, <4>6, <4>8 DEF Kept
      <4> QED
        BY <4>3, <4>6, <4>7, <4>8
    <3> QED
      BY <3>2, <3>3
  <2>12. ASSUME NEW h \in Harness,
                ReplayExits(h) \/ ReplayFails(h) \/ OrphanWrites(h)
         PROVE  ChildWrites(h) /\ measured' = measured
    BY <2>12 DEF ReplayExits, ReplayFails, OrphanWrites, steady, progress
  <2>13. ASSUME NEW h \in Harness,
                \/ CheckOutput(h) \/ CheckPart(h) \/ CreateDirectories(h)
                \/ HashInputs(h) \/ Publish(h) \/ Fails(h) \/ Kill(h)
         PROVE  UNCHANGED << measured, files >>
    BY <2>13
    DEF CheckOutput, CheckPart, CreateDirectories, HashInputs, Publish, Fails,
        Kill, steady, progress
  <2>14. CASE UNCHANGED vars \/ Finished
    BY <2>3, <2>14 DEF vars, Finished, steady, progress
  <2>15. ASSUME NEW h \in Harness,
             \/ OpenText(h, "open manifest", manifest_json, "write manifest")
             \/ WriteText(h, "write manifest", manifest_json, "open html")
             \/ OpenText(h, "open html", report_html, "write html")
             \/ WriteText(h, "write html", report_html, "rename")
         PROVE  /\ RunFile(2 * Warmups + i) \in DOMAIN files'[d]
                /\ files'[d][RunFile(2 * Warmups + i)] = << measured'[d][i] >>
    <3>1. CASE OpenText(h, "open manifest", manifest_json, "write manifest")
      BY <2>8, <3>1 DEF OpenText, steady, progress
    <3>2. CASE OpenText(h, "open html", report_html, "write html")
      BY <2>8, <3>2 DEF OpenText, steady, progress
    <3>3. CASE WriteText(h, "write manifest", manifest_json, "open html")
      BY <2>9, <3>3 DEF WriteText, progress
    <3>4. CASE WriteText(h, "write html", report_html, "rename")
      BY <2>9, <3>4 DEF WriteText, progress
    <3> QED
      BY <2>15, <3>1, <3>2, <3>3, <3>4
  <2>16. ASSUME NEW h \in Harness,
                ReplayExits(h) \/ ReplayFails(h) \/ OrphanWrites(h)
         PROVE  /\ RunFile(2 * Warmups + i) \in DOMAIN files'[d]
                /\ files'[d][RunFile(2 * Warmups + i)] = << measured'[d][i] >>
    BY <2>7, <2>12, <2>16
  <2>17. ASSUME NEW h \in Harness,
                \/ CheckOutput(h) \/ CheckPart(h) \/ CreateDirectories(h)
                \/ HashInputs(h) \/ Publish(h) \/ Fails(h) \/ Kill(h)
         PROVE  /\ RunFile(2 * Warmups + i) \in DOMAIN files'[d]
                /\ files'[d][RunFile(2 * Warmups + i)] = << measured'[d][i] >>
    BY <2>3, <2>13, <2>17
  <2> QED
    BY <2>6, <2>10, <2>11, <2>14, <2>15, <2>16, <2>17 DEF Next
<1> QED
  BY <1>2, <1>3, WasSole

-----------------------------------------------------------------------------
(* So is all else in it: it stays as it is, ...                            *)
LEMMA StoredStays ==
  ASSUME NEW d \in Harness, Stored(d),
         malformed' = malformed, pc'[d] = pc[d], replay'[d] = replay[d],
         measured'[d] = measured[d], open'[d] = open[d],
         unflushed'[d] = unflushed[d],
         DOMAIN files'[d] = DOMAIN files[d],
         \A n \in DOMAIN files[d] : files'[d][n] = files[d][n]
  PROVE  Stored(d)'
<1>1. Expected(d)' = Expected(d)
  BY DEF Expected
<1>2. Manifest(measured[d])' = Manifest(measured[d])
  BY DEF Manifest, comparable
<1>3. /\ pc[d] \in {"write manifest", "open html", "write html", "rename",
                    "done"} => manifest_json \in DOMAIN files[d]
      /\ pc[d] \in {"write html", "rename", "done"} =>
           report_html \in DOMAIN files[d]
  BY DEF Stored, Expected, InTexts
<1> QED
  BY <1>1, <1>2, <1>3 DEF Stored

(* ... whatever the others do, ...                                         *)
LEMMA OthersStep ==
  ASSUME AllPlaced, NEW d \in Harness, NEW h \in Harness \ {d},
         users[d] = {d}, users'[d] = {d}, output \in {None, d},
         pc[d] \in Inside \cup {"done"}, Stored(d),
         \/ CheckOutput(h) \/ CheckPart(h) \/ CreateDirectories(h)
         \/ HashInputs(h) \/ StartReplay(h) \/ ReplayExits(h) \/ ReplayFails(h)
         \/ ParseMeasured(h) \/ ParseWarmup(h)
         \/ OpenText(h, "open manifest", manifest_json, "write manifest")
         \/ WriteText(h, "write manifest", manifest_json, "open html")
         \/ OpenText(h, "open html", report_html, "write html")
         \/ WriteText(h, "write html", report_html, "rename")
         \/ Publish(h) \/ Fails(h) \/ Kill(h) \/ OrphanWrites(h)
  PROVE  Stored(d)'
<1>1. Types /\ Separate /\ Going /\ Placed(h) /\ Placed(d)
  BY DEF AllPlaced, Going
<1>2. /\ malformed' = malformed /\ pc'[d] = pc[d] /\ replay'[d] = replay[d]
      /\ measured'[d] = measured[d] /\ unflushed'[d] = unflushed[d]
  BY <1>1
  DEF CheckOutput, CheckPart, CreateDirectories, HashInputs, StartReplay,
      ReplayExits, ReplayFails, ParseMeasured, ParseWarmup, NextReplay,
      OpenText, WriteText, Publish, Fails, Kill, OrphanWrites, Goes, steady,
      progress, Types
<1>3. ASSUME NEW name, OpenFile(h, name)
      PROVE  /\ DOMAIN files'[d] = DOMAIN files[d] /\ open'[d] = open[d]
             /\ \A n \in DOMAIN files[d] : files'[d][n] = files[d][n]
  <2>1. part # d
    BY <1>1, <1>3, SoleOpener
  <2> QED
    BY <1>1, <1>3, <2>1, OpenEffect, ZenonT(60)
<1>4. ASSUME NEW name, NEW content, WriteFile(h, name, content)
      PROVE  /\ DOMAIN files'[d] = DOMAIN files[d] /\ open'[d] = open[d]
             /\ \A n \in DOMAIN files[d] : files'[d][n] = files[d][n]
  <2>1. open[h] # d
    BY SoleUser
  <2>2. Types /\ h \in Harness /\ h # d
    BY <1>1
  <2> QED
    BY <1>4, <2>1, <2>2, WriteElsewhere
<1>5. ASSUME ParseWarmup(h)
      PROVE  /\ DOMAIN files'[d] = DOMAIN files[d] /\ open'[d] = open[d]
             /\ \A n \in DOMAIN files[d] : files'[d][n] = files[d][n]
  <2>1. pc[h] = "parse" /\ part # None
    BY <1>5, <1>1, Advances DEF ParseWarmup, HasReport
  <2>2. part # d
    BY <1>1, <2>1 DEF Placed, Separate, Inside, Running
  <2>3. pc[d] = "done"
    BY <2>2, SoleUser
  <2>4. open[d] = None
    BY <1>1, <2>3 DEF Going, Progressed
  <2> QED
    BY <1>1, <1>5, <2>2, <2>4, RemoveEffect
<1>6. ASSUME files' = files, open'[d] = open[d]
      PROVE  /\ DOMAIN files'[d] = DOMAIN files[d] /\ open'[d] = open[d]
             /\ \A n \in DOMAIN files[d] : files'[d][n] = files[d][n]
  BY <1>6
<1>7. /\ DOMAIN files'[d] = DOMAIN files[d] /\ open'[d] = open[d]
      /\ \A n \in DOMAIN files[d] : files'[d][n] = files[d][n]
  <2>1. CASE CheckOutput(h) \/ CheckPart(h) \/ CreateDirectories(h)
             \/ HashInputs(h) \/ ParseMeasured(h) \/ Publish(h)
    BY <1>6, <2>1
    DEF CheckOutput, CheckPart, CreateDirectories, HashInputs, ParseMeasured,
        Publish
  <2>2. CASE Fails(h) \/ Kill(h)
    BY <1>1, <1>6, <2>2 DEF Fails, Kill, Types
  <2>3. CASE UNCHANGED files /\ open' = [open EXCEPT ![h] = None]
    BY <1>1, <1>6, <2>3 DEF Types
  <2>4. CASE \E name : OpenFile(h, name)
    BY <1>3, <2>4
  <2>5. CASE \E name, content : WriteFile(h, name, content)
    BY <1>4, <2>5
  <2>6. CASE StartReplay(h)
    BY <2>4, <2>6 DEF StartReplay
  <2>7. CASE \/ OpenText(h, "open manifest", manifest_json, "write manifest")
             \/ OpenText(h, "open html", report_html, "write html")
    BY <2>4, <2>7 DEF OpenText
  <2>8. CASE ReplayExits(h) \/ ReplayFails(h) \/ OrphanWrites(h)
    BY <2>3, <2>5, <2>8
    DEF ReplayExits, ReplayFails, OrphanWrites, ChildWrites
  <2>9. CASE \/ WriteText(h, "write manifest", manifest_json, "open html")
             \/ WriteText(h, "write html", report_html, "rename")
    BY <2>3, <2>5, <2>9 DEF WriteText
  <2> QED
    BY <1>5, <2>1, <2>2, <2>6, <2>7, <2>8, <2>9
<1> QED
  BY <1>2, <1>7, StoredStays

-----------------------------------------------------------------------------
(* ... and grows with its own harness.                                     *)
LEMMA OwnReplays ==
  ASSUME AllPlaced, NEW d \in Harness, users[d] = {d}, part = d, Stored(d),
         \/ HashInputs(d) \/ StartReplay(d) \/ ReplayExits(d)
         \/ ParseMeasured(d) \/ ParseWarmup(d)
  PROVE  Stored(d)'
<1>1. Types /\ Going /\ Progressed(d) /\ DOMAIN files[d] = Expected(d)
  BY DEF AllPlaced, Going, Stored
<1>2. /\ Warmups \in Nat /\ replay[d] \in Nat
  BY <1>1, BenchmarkAssumption DEF Types
<1>3. SUFFICES /\ pc'[d] \in {"replay", "wait", "parse", "open manifest"}
               /\ DOMAIN files'[d] = Expected(d)'
  BY DEF Stored
<1>4. CASE HashInputs(d)
  <2>1. /\ pc[d] = "hash" /\ pc'[d] = "replay" /\ replay' = replay
        /\ files' = files
    BY <1>1, <1>4 DEF HashInputs, Goes, Types, steady, progress
  <2> QED
    BY <1>1, <2>1 DEF Expected, InTexts
<1>5. CASE StartReplay(d)
  <2>1. /\ pc[d] = "replay" /\ pc'[d] = "wait" /\ replay' = replay
        /\ OpenFile(d, RunFile(replay[d]))
    BY <1>1, <1>5 DEF StartReplay, Goes, Types, steady, progress
  <2>2. DOMAIN files'[d] = DOMAIN files[d] \cup {RunFile(replay[d])}
    BY <1>1, <2>1, OpenEffect
  <2> QED
    BY <1>1, <2>1, <2>2 DEF Expected, InTexts
<1>6. CASE ReplayExits(d)
  <2>1. /\ pc[d] = "wait" /\ pc'[d] = "parse" /\ replay' = replay
        /\ ChildWrites(d)
    BY <1>1, <1>6 DEF ReplayExits, Goes, Types, steady, progress
  <2>2. DOMAIN files'[d] = DOMAIN files[d]
    BY <1>1, <2>1, WriteEffect DEF ChildWrites
  <2> QED
    BY <1>1, <2>1, <2>2 DEF Expected, InTexts
<1>7. CASE ParseMeasured(d)
  <2>1. /\ pc[d] = "parse" /\ pc'[d] \in {"replay", "open manifest"}
        /\ replay'[d] = replay[d] + 1 /\ replay[d] > 2 * Warmups
        /\ files' = files
    BY <1>1, <1>7, ParseAdvances DEF ParseMeasured, IsMeasured
  <2>2. 2 * Warmups + 1 .. replay'[d] - 1
          = (2 * Warmups + 1 .. replay[d] - 1) \cup {replay[d]}
    <3> DEFINE from == 2 * Warmups + 1
    <3>0. Warmups \in Nat /\ replay[d] \in Nat /\ replay[d] > 2 * Warmups
      BY <1>2, <2>1
    <3>1. from \in Nat /\ from <= replay[d] /\ replay[d] \in Nat
      BY <3>0
    <3> HIDE DEF from
    <3>2. from .. replay[d] = (from .. replay[d] - 1) \cup {replay[d]}
      BY <3>1
    <3>3. replay'[d] - 1 = replay[d]
      <4>1. replay'[d] = replay[d] + 1
        BY <2>1
      <4> QED
        BY <3>0, <4>1
    <3> QED
      BY <3>2, <3>3 DEF from
  <2>3. {RunFile(i) : i \in 2 * Warmups + 1 .. replay'[d] - 1}
          = {RunFile(i) : i \in 2 * Warmups + 1 .. replay[d] - 1}
              \cup {RunFile(replay[d])}
    BY <2>2
  <2> QED
    BY <1>1, <2>1, <2>3 DEF Expected, InTexts
<1>8. CASE ParseWarmup(d)
  <2>1. /\ pc[d] = "parse" /\ pc'[d] \in {"replay", "open manifest"}
        /\ replay'[d] = replay[d] + 1 /\ ~ replay[d] > 2 * Warmups
    BY <1>1, <1>8, ParseAdvances DEF ParseWarmup, IsMeasured
  <2>2. DOMAIN files'[d] = DOMAIN files[d] \ {RunFile(replay[d])}
    BY <1>1, <1>8, RemoveEffect
  <2>3. /\ 2 * Warmups + 1 .. replay[d] - 1 = {}
        /\ 2 * Warmups + 1 .. replay'[d] - 1 = {}
    <3>1. /\ Warmups \in Nat /\ replay[d] \in Nat /\ ~ replay[d] > 2 * Warmups
          /\ replay'[d] = replay[d] + 1
      BY <1>2, <2>1
    <3>2. replay'[d] - 1 = replay[d]
      BY <3>1
    <3> QED
      BY <3>1, <3>2
  <2> QED
    BY <1>1, <2>1, <2>2, <2>3 DEF Expected, InTexts
<1> QED
  BY <1>4, <1>5, <1>6, <1>7, <1>8

(* The texts and the renaming of a harness that has its directory alone.   *)
LEMMA OwnTexts ==
  ASSUME AllPlaced, NEW d \in Harness, users[d] = {d}, part = d, Stored(d),
         \/ OpenText(d, "open manifest", manifest_json, "write manifest")
         \/ WriteText(d, "write manifest", manifest_json, "open html")
         \/ OpenText(d, "open html", report_html, "write html")
         \/ WriteText(d, "write html", report_html, "rename")
         \/ Publish(d)
  PROVE  Stored(d)'
<1>1. Types /\ DOMAIN files[d] = Expected(d)
  BY DEF AllPlaced, Going, Stored
<1>2. /\ UNCHANGED << malformed, replay, measured >>
      /\ Manifest(measured[d])' = Manifest(measured[d])
  <2>1. UNCHANGED << malformed, replay, measured >>
    BY DEF OpenText, WriteText, Publish, steady, progress
  <2> QED
    BY <2>1 DEF Manifest, comparable
<1>3. CASE OpenText(d, "open manifest", manifest_json, "write manifest")
  <2>1. /\ pc[d] = "open manifest" /\ pc'[d] = "write manifest"
        /\ OpenFile(d, manifest_json)
    BY <1>1, <1>3 DEF OpenText, Goes, Types
  <2>2. /\ open'[d] = d
        /\ DOMAIN files'[d] = DOMAIN files[d] \cup {manifest_json}
        /\ files'[d][manifest_json] = << >>
    BY <1>1, <2>1, OpenOwn
  <2>3. Expected(d)' = Expected(d) \cup {manifest_json}
    BY <1>2, <2>1 DEF Expected, InTexts
  <2> QED
    BY <1>1, <2>1, <2>2, <2>3 DEF Stored
<1>4. CASE WriteText(d, "write manifest", manifest_json, "open html")
  <2>1. /\ pc[d] = "write manifest" /\ pc'[d] = "open html"
    BY <1>1, <1>4 DEF WriteText, Goes, Types
  <2>2. Expected(d)' = Expected(d) /\ manifest_json \in Expected(d)
    BY <1>2, <2>1 DEF Expected, InTexts
  <2>3. open[d] = d /\ files[d][manifest_json] = << >>
    BY <2>1 DEF Stored
  <2>4. /\ DOMAIN files'[d] = DOMAIN files[d]
        /\ \/ manifest_json \in unflushed'[d]
           \/ files'[d][manifest_json] = << Manifest(measured[d]) >>
    <3>1. CASE WriteFile(d, manifest_json, Manifest(measured[d]))
      <4>1. manifest_json \in DOMAIN files[d]
        BY <1>1, <2>2
      <4>2. /\ DOMAIN files'[d] = DOMAIN files[d]
            /\ files'[d][manifest_json] = << Manifest(measured[d]) >>
        BY <1>1, <2>3, <3>1, <4>1, WriteOwn
      <4> QED
        BY <4>2
    <3>2. CASE /\ unflushed' = [unflushed EXCEPT ![d] = @ \cup {manifest_json}]
               /\ UNCHANGED files
      BY <1>1, <3>2 DEF Types
    <3> QED
      BY <1>4, <3>1, <3>2 DEF WriteText
  <2> QED
    BY <1>1, <1>2, <2>1, <2>2, <2>4 DEF Stored
<1>5. CASE OpenText(d, "open html", report_html, "write html")
  <2>1. /\ pc[d] = "open html" /\ pc'[d] = "write html"
        /\ OpenFile(d, report_html) /\ unflushed' = unflushed
    BY <1>1, <1>5 DEF OpenText, Goes, Types, steady
  <2>2. manifest_json \in DOMAIN files[d]
    BY <1>1, <2>1 DEF Expected, InTexts
  <2>3. /\ open'[d] = d
        /\ DOMAIN files'[d] = DOMAIN files[d] \cup {report_html}
        /\ files'[d][report_html] = << >>
        /\ files'[d][manifest_json] = files[d][manifest_json]
    <3>1. /\ open'[d] = d
          /\ DOMAIN files'[d] = DOMAIN files[d] \cup {report_html}
          /\ files'[d][report_html] = << >>
          /\ \A n \in DOMAIN files[d] :
               n # report_html => files'[d][n] = files[d][n]
      BY <1>1, <2>1, OpenOwn, ZenonT(60)
    <3> QED
      BY <2>2, <3>1, NamesDiffer
  <2>4. Expected(d)' = Expected(d) \cup {report_html}
    BY <1>2, <2>1 DEF Expected, InTexts
  <2> QED
    BY <1>1, <1>2, <2>1, <2>3, <2>4 DEF Stored
<1>6. CASE WriteText(d, "write html", report_html, "rename")
  <2>1. /\ pc[d] = "write html" /\ pc'[d] = "rename"
    BY <1>1, <1>6 DEF WriteText, Goes, Types
  <2>2. /\ Expected(d)' = Expected(d)
        /\ manifest_json \in Expected(d) /\ report_html \in Expected(d)
    BY <1>2, <2>1 DEF Expected, InTexts
  <2>3. open[d] = d /\ files[d][report_html] = << >>
    BY <2>1 DEF Stored
  <2>4. /\ DOMAIN files'[d] = DOMAIN files[d]
        /\ \/ report_html \in unflushed'[d]
           \/ files'[d][report_html] = << Manifest(measured[d]) >>
        /\ files'[d][manifest_json] = files[d][manifest_json]
        /\ unflushed[d] \subseteq unflushed'[d]
    <3>1. /\ manifest_json \in DOMAIN files[d]
          /\ report_html \in DOMAIN files[d]
      BY <1>1, <2>2
    <3>2. CASE /\ WriteFile(d, report_html, Manifest(measured[d]))
               /\ UNCHANGED unflushed
      <4>1. /\ DOMAIN files'[d] = DOMAIN files[d]
            /\ files'[d][report_html] = << Manifest(measured[d]) >>
            /\ \A n \in DOMAIN files[d] :
                 n # report_html => files'[d][n] = files[d][n]
        BY <1>1, <2>3, <3>1, <3>2, WriteOwn
      <4> QED
        BY <3>1, <3>2, <4>1, NamesDiffer
    <3>3. CASE /\ unflushed' = [unflushed EXCEPT ![d] = @ \cup {report_html}]
               /\ UNCHANGED files
      BY <1>1, <3>3 DEF Types
    <3> QED
      BY <1>6, <3>2, <3>3 DEF WriteText
  <2> QED
    BY <1>1, <1>2, <2>1, <2>2, <2>4 DEF Stored
<1>7. CASE Publish(d)
  <2>1. /\ pc[d] = "rename" /\ pc'[d] = "done"
        /\ UNCHANGED << files, unflushed >>
    BY <1>1, <1>7 DEF Publish, Goes, Types, steady
  <2>2. Expected(d)' = Expected(d)
    BY <1>2, <2>1 DEF Expected, InTexts
  <2> QED
    BY <1>1, <1>2, <2>1, <2>2 DEF Stored
<1> QED
  BY <1>3, <1>4, <1>5, <1>6, <1>7

(* A directory with one user is filled as far as its user has come.        *)
LEMMA FilledKept ==
  ASSUME AllPlaced, [Next]_vars, NEW d \in Harness, Filled(d) PROVE Filled(d)'
<1>1. Types /\ Going /\ Progressed(d) /\ Placed(d) /\ Going'
  BY GoingKept DEF AllPlaced, Going
<1> SUFFICES ASSUME users'[d] = {d}, output' \in {None, d},
                    pc'[d] \in Inside \cup {"done"}
             PROVE  Stored(d)'
  BY DEF Filled
<1>2. CASE CreateDirectories(d) /\ users[d] = {}
  <2>1. /\ pc[d] = "create" /\ pc'[d] = "hash" /\ replay' = replay
        /\ files' = files
    BY <1>1, <1>2 DEF CreateDirectories, Goes, Types, steady, progress
  <2>2. DOMAIN files[d] = {}
    BY <1>1, <1>2 DEF Placed
  <2>3. replay[d] = 1
    BY <1>1, <2>1 DEF Progressed, Early
  <2>4. 2 * Warmups + 1 .. replay[d] - 1 = {}
    BY <2>3, BenchmarkAssumption
  <2>5. {RunFile(i) : i \in 2 * Warmups + 1 .. replay[d] - 1} = {}
    BY <2>4
  <2>6. Expected(d)' = {}
    BY <2>1, <2>5 DEF Expected, InTexts
  <2> QED
    BY <2>1, <2>2, <2>6 DEF Stored
<1>3. CASE users[d] = {d}
  <2>1. pc[d] \notin Early
    BY <1>1, <1>3 DEF Placed
  <2>2. output \in {None, d}
    <3>1. CASE output' = output
      BY <3>1
    <3>2. CASE \E h \in Harness : Publish(h)
      BY <3>2 DEF Publish
    <3>3. output' = output \/ \E h \in Harness : Publish(h)
      BY DEF Next, vars, paths, CheckOutput, CheckPart, CreateDirectories,
             HashInputs, StartReplay, ReplayExits, ReplayFails, ParseMeasured,
             ParseWarmup, OpenText, WriteText, Fails, Kill, OrphanWrites,
             Finished
    <3> QED
      BY <3>1, <3>2, <3>3
  <2>3. pc[d] \in Inside \cup {"done"}
    <3>1. pc[d] \in {"start"} \cup Running \cup Ended
      BY <1>1 DEF Types
    <3>2. ASSUME pc[d] \in {"refused", "failed", "killed"}
          PROVE  pc'[d] = pc[d]
      <4>1. ASSUME NEW h \in Harness, NEW to,
                   pc' = [pc EXCEPT ![h] = to],
                   pc[h] \in Running \cup {"start"}
            PROVE  pc'[d] = pc[d]
        BY <1>1, <3>2, <4>1 DEF Types, Running
      <4>2. ASSUME NEW h \in Harness,
                   \/ CheckOutput(h) \/ CheckPart(h) \/ CreateDirectories(h)
                   \/ HashInputs(h) \/ StartReplay(h) \/ ReplayExits(h)
                   \/ ReplayFails(h) \/ Publish(h) \/ Fails(h) \/ Kill(h)
            PROVE  pc'[d] = pc[d]
        BY <4>1, <4>2
        DEF CheckOutput, CheckPart, CreateDirectories, HashInputs,
            StartReplay, ReplayExits, ReplayFails, Publish, Fails, Kill, Goes,
            Running
      <4>3. ASSUME NEW h \in Harness, ParseMeasured(h) \/ ParseWarmup(h)
            PROVE  pc'[d] = pc[d]
        BY <1>1, <4>1, <4>3, Advances DEF ParseMeasured, ParseWarmup, Running
      <4>4. ASSUME NEW h \in Harness,
             \/ OpenText(h, "open manifest", manifest_json, "write manifest")
             \/ WriteText(h, "write manifest", manifest_json, "open html")
             \/ OpenText(h, "open html", report_html, "write html")
             \/ WriteText(h, "write html", report_html, "rename")
            PROVE  pc'[d] = pc[d]
        BY <4>1, <4>4 DEF OpenText, WriteText, Goes, Running
      <4>5. CASE UNCHANGED pc
        BY <4>5
      <4> QED
        BY <4>2, <4>3, <4>4, <4>5 DEF Next, vars, OrphanWrites, Finished
    <3> QED
      BY <2>1, <3>1, <3>2 DEF Early, Inside, Running, Ended
  <2>4. Stored(d)
    BY <1>3, <2>2, <2>3 DEF Filled
  <2>5. pc[d] \in Inside => part = d
    BY <1>3, SoleUser
  <2>6. CASE UNCHANGED vars \/ Finished
    BY <2>4, <2>6, StoredStays DEF vars, Finished, steady, progress
  <2>7. ASSUME NEW h \in Harness \ {d},
               \/ CheckOutput(h) \/ CheckPart(h) \/ CreateDirectories(h)
               \/ HashInputs(h) \/ StartReplay(h) \/ ReplayExits(h)
               \/ ReplayFails(h) \/ ParseMeasured(h) \/ ParseWarmup(h)
               \/ OpenText(h, "open manifest", manifest_json, "write manifest")
               \/ WriteText(h, "write manifest", manifest_json, "open html")
               \/ OpenText(h, "open html", report_html, "write html")
               \/ WriteText(h, "write html", report_html, "rename")
               \/ Publish(h) \/ Fails(h) \/ Kill(h) \/ OrphanWrites(h)
        PROVE  Stored(d)'
    BY <1>3, <2>2, <2>3, <2>4, <2>7, OthersStep
  <2>8. CASE \/ HashInputs(d) \/ StartReplay(d) \/ ReplayExits(d)
             \/ ParseMeasured(d) \/ ParseWarmup(d)
    <3>1. pc[d] \in Inside
      BY <1>1, <2>8, Advances
      DEF HashInputs, StartReplay, ReplayExits, ParseMeasured, ParseWarmup,
          Goes, Inside, Running
    <3> QED
      BY <1>3, <2>4, <2>5, <2>8, <3>1, OwnReplays
  <2>9. CASE \/ OpenText(d, "open manifest", manifest_json, "write manifest")
             \/ WriteText(d, "write manifest", manifest_json, "open html")
             \/ OpenText(d, "open html", report_html, "write html")
             \/ WriteText(d, "write html", report_html, "rename")
             \/ Publish(d)
    <3>1. pc[d] \in Inside
      BY <2>9 DEF OpenText, WriteText, Publish, Goes, Inside, Running
    <3> QED
      BY <1>3, <2>4, <2>5, <2>9, <3>1, OwnTexts
  <2>10. ~ (\/ CheckOutput(d) \/ CheckPart(d) \/ CreateDirectories(d)
            \/ ReplayFails(d) \/ Fails(d) \/ Kill(d) \/ OrphanWrites(d))
    BY <1>1, <2>1
    DEF CheckOutput, CheckPart, CreateDirectories, ReplayFails, Fails, Kill,
        OrphanWrites, Goes, Types, Early, Inside, Running
  <2> QED
    BY <2>6, <2>7, <2>8, <2>9, <2>10 DEF Next
<1> QED
  BY <1>2, <1>3, WasSole

-----------------------------------------------------------------------------
(* Nothing has started.                                                    *)
LEMMA InitInv ==
  Init => Inv
<1> SUFFICES ASSUME Init PROVE Inv
  OBVIOUS
<1> USE BenchmarkAssumption DEF Init
<1>1. Types
  <2>1. << >> \in Seq(Report)
    OBVIOUS
  <2>2. LastReplay \in Nat
    BY DEF LastReplay
  <2> QED
    BY <2>1, <2>2 DEF Types
<1>2. Separate
  BY DEF Separate
<1>3. ASSUME NEW d \in Harness PROVE Progressed(d)
  BY DEF Progressed, Replays, InTexts
<1>4. ASSUME NEW d \in Harness PROVE Placed(d)
  BY DEF Placed, Inside, Running
<1>5. ASSUME NEW d \in Harness PROVE Kept(d) /\ Filled(d)
  BY DEF Kept, Filled
<1> QED
  BY <1>1, <1>2, <1>3, <1>4, <1>5 DEF Inv

(* The invariant is kept by every step.                                    *)
LEMMA NextInv ==
  Inv /\ [Next]_vars => Inv'
<1> SUFFICES ASSUME Inv, [Next]_vars PROVE Inv'
  OBVIOUS
<1>1. AllPlaced
  BY DEF Inv, AllPlaced, Going
<1>2. AllPlaced'
  BY <1>1, AllPlacedKept
<1>3. \A d \in Harness : Kept(d)'
  BY <1>1, KeptKept DEF Inv
<1>4. \A d \in Harness : Filled(d)'
  BY <1>1, FilledKept DEF Inv
<1> QED
  BY <1>2, <1>3, <1>4 DEF Inv, AllPlaced, Going

(* The inductive invariant of run_benchmark: where each harness is, who    *)
(* has used which directory, and what a directory of one's own holds.      *)
THEOREM InvCorrect ==
  Spec => []Inv
BY InitInv, NextInv, PTL DEF Spec

(* The variables of the harnesses keep to their domains, and <output> and  *)
(* <output>.part never name one directory.                                 *)
THEOREM TypeCorrect ==
  Spec => []TypeOK
<1>1. Inv => TypeOK
  <2> SUFFICES ASSUME Inv PROVE TypeOK
    OBVIOUS
  <2>1. Types /\ Separate
    BY DEF Inv
  <2>2. replay \in [Harness -> Replays \cup {2 * (Warmups + Runs) + 1}]
    <3>1. 1 .. LastReplay + 1 = Replays \cup {2 * (Warmups + Runs) + 1}
      BY BenchmarkAssumption DEF LastReplay, Replays
    <3> QED
      BY <2>1, <3>1 DEF Types
  <2>3. ASSUME NEW h \in Harness PROVE Len(measured[h]) <= 2 * Runs
    <3>1. /\ Len(measured[h]) = IF replay[h] > 2 * Warmups
                                THEN replay[h] - 1 - 2 * Warmups ELSE 0
          /\ replay[h] \in 1 .. LastReplay + 1
      BY <2>1 DEF Inv, Progressed, Types
    <3> QED
      BY <3>1, BenchmarkAssumption DEF LastReplay
  <2>4. ASSUME NEW h \in Harness
        PROVE  /\ measured[h] \in Seq(Report) /\ open[h] \in Harness \cup {None}
               /\ users[h] \subseteq Harness
               /\ unflushed[h] \subseteq {manifest_json, report_html}
               /\ DOMAIN files[h] \subseteq Names
    BY <2>1 DEF Types
  <2> QED
    BY <2>1, <2>2, <2>3, <2>4 DEF TypeOK, Types, Separate, Names
<1> QED
  BY <1>1, InvCorrect, PTL

(* Nobody who runs alone in his directory loses or mixes up a report, and  *)
(* what he publishes is complete.                                          *)
THEOREM BundleCorrect ==
  Spec => []SoleBundleIsConsistent
<1>1. Inv => SoleBundleIsConsistent
  <2> SUFFICES ASSUME Inv, NEW h \in Harness, users[h] = {h}
               PROVE  /\ \A i \in 1 .. Len(measured[h]) :
                           files[h][RunFile(2 * Warmups + i)] =
                             << measured[h][i] >>
                      /\ output = h =>
                           /\ Len(measured[h]) = 2 * Runs
                           /\ DOMAIN files[h] =
                                {RunFile(i) : i \in 2 * Warmups + 1 ..
                                                    2 * (Warmups + Runs)}
                                  \cup {manifest_json, report_html}
                           /\ \A name \in {manifest_json, report_html}
                                            \ unflushed[h] :
                                files[h][name] = << Manifest(measured[h]) >>
    BY DEF SoleBundleIsConsistent
  <2>1. \A i \in 1 .. Len(measured[h]) :
          files[h][RunFile(2 * Warmups + i)] = << measured[h][i] >>
    BY DEF Inv, Kept
  <2>2. CASE output = h
    <3>1. pc[h] = "done"
      BY <2>2 DEF Inv, Placed
    <3>2. Stored(h)
      BY <2>2, <3>1 DEF Inv, Filled
    <3>3. replay[h] = LastReplay + 1
      BY <3>1 DEF Inv, Progressed, InTexts
    <3>4. Len(measured[h]) = 2 * Runs
      <4>1. Len(measured[h]) = IF replay[h] > 2 * Warmups
                               THEN replay[h] - 1 - 2 * Warmups ELSE 0
        BY DEF Inv, Progressed
      <4> QED
        BY <3>3, <4>1, BenchmarkAssumption DEF LastReplay
    <3>5. replay[h] - 1 = 2 * (Warmups + Runs)
      BY <3>3, BenchmarkAssumption DEF LastReplay
    <3>6. DOMAIN files[h] = {RunFile(i) : i \in 2 * Warmups + 1 ..
                                                2 * (Warmups + Runs)}
                              \cup {manifest_json, report_html}
      BY <3>1, <3>2, <3>5 DEF Stored, Expected, InTexts
    <3>7. \A name \in {manifest_json, report_html} \ unflushed[h] :
            files[h][name] = << Manifest(measured[h]) >>
      BY <3>1, <3>2 DEF Stored
    <3> QED
      BY <2>1, <3>4, <3>6, <3>7
  <2> QED
    BY <2>1, <2>2
<1> QED
  BY <1>1, InvCorrect, PTL

(* No step of a harness replaces the evidence of another.                  *)
THEOREM NeverReplacedCorrect ==
  Spec => NeverReplaced
<1>1. Inv /\ [Next]_vars =>
        [/\ output # None => output' = output
         /\ part # None => \/ part' = part
                           \/ part' = None /\ output' = part]_vars
  <2> SUFFICES ASSUME Next
               PROVE  /\ output # None => output' = output
                      /\ part # None => \/ part' = part
                                        \/ part' = None /\ output' = part
    OBVIOUS
  <2>1. CASE UNCHANGED paths
    BY <2>1 DEF paths
  <2>2. CASE \E h \in Harness : CreateDirectories(h)
    BY <2>2 DEF CreateDirectories
  <2>3. CASE \E h \in Harness : Publish(h)
    BY <2>3 DEF Publish
  <2> QED
    BY <2>1, <2>2, <2>3
    DEF Next, CheckOutput, CheckPart, HashInputs, StartReplay, ReplayExits,
        ReplayFails, ParseMeasured, ParseWarmup, OpenText, WriteText, Fails,
        Kill, OrphanWrites, Finished, vars
<1> QED
  BY <1>1, InvCorrect, PTL DEF Spec, NeverReplaced
=============================================================================
