------------------------- MODULE AtomicOutputProofs -------------------------
(***************************************************************************)
(* Proofs about AtomicOutput for every set of processes and every number   *)
(* of writes.                                                              *)
(***************************************************************************)
EXTENDS AtomicOutput, SequenceTheorems, TLAPS

Uncommitted == {"start", "open", "writing", "fsync"}
Committed   == {"close", "link", "unlink", "sync_parent", "done"}
Unlinked    == Uncommitted \cup {"close", "link"}
HoldingPart == {"writing", "fsync", "close", "link", "unlink"}

(* Every record whose write returned is in the file, durably.              *)
Stored(p) == synced[p] + threw[p] = asked[p] /\ written[p] = synced[p]

(* A process that is not killed has in its file what write acknowledged,   *)
(* and durably once its fsync returned.                                    *)
DataKept ==
  \A p \in Process :
    /\ pc[p] \in Uncommitted => written[p] + threw[p] = asked[p]
    /\ pc[p] \in {"start", "open"} => asked[p] = 0
    /\ pc[p] \in Committed => Stored(p)

(* The names a running process goes by.                                    *)
NamesHeld ==
  \A p \in Process :
    /\ pc[p] \in HoldingPart => directory.part = p
    /\ pc[p] = "unlink" => directory.destination = p
    /\ pc[p] = "sync_parent" => /\ directory.destination = p
                                /\ directory.part # p

(* A final name that may be met after a power loss is the name of a file   *)
(* whose process came past link, and no other than the current one.        *)
DestinationsLinked ==
  \A k \in 1 .. Len(journal) :
    /\ journal[k].destination \in {None, directory.destination}
    /\ \A p \in Process : journal[k].destination = p => pc[p] \notin Unlinked

(* The inductive invariant.                                                *)
Inv ==
  /\ TypeOK /\ DataKept /\ NamesHeld /\ DestinationsLinked
  /\ AcknowledgedIsPublished /\ SuccessIsDurable /\ NothingThrownAway

-----------------------------------------------------------------------------
(* The directory is an entry of the journal.                               *)
LEMMA DirectoryTyped ==
  ASSUME journal \in Seq(Directory), journal # << >>
  PROVE  /\ directory \in Directory
         /\ Len(journal) \in 1 .. Len(journal)
<1>1. Len(journal) \in Nat \ {0}
  BY EmptySeq
<1> QED
  BY <1>1, ElementOfSeq DEF directory

(* An operation appends one directory state and keeps the earlier ones.    *)
LEMMA DirectoryStep ==
  ASSUME journal \in Seq(Directory), journal # << >>,
         NEW new \in Directory, SetDirectory(new)
  PROVE  /\ journal' \in Seq(Directory) /\ journal' # << >>
         /\ directory' = new
         /\ Len(journal') = Len(journal) + 1
         /\ \A k \in 1 .. Len(journal') :
              \/ k \in 1 .. Len(journal) /\ journal'[k] = journal[k]
              \/ journal'[k] = new
<1>1. Len(journal) \in Nat
  OBVIOUS
<1>2. journal' = Append(journal, new)
  BY DEF SetDirectory
<1>3. /\ Len(journal') = Len(journal) + 1
      /\ journal' \in Seq(Directory)
      /\ journal'[Len(journal) + 1] = new
      /\ \A k \in 1 .. Len(journal) : journal'[k] = journal[k]
  BY <1>2, AppendProperties
<1>4. \A k \in 1 .. Len(journal') : k \in 1 .. Len(journal)
                                    \/ k = Len(journal) + 1
  BY <1>1, <1>3
<1>5. journal' # << >>
  BY <1>1, <1>3, EmptySeq
<1> QED
  BY <1>3, <1>4, <1>5 DEF directory

(* A sync or a power loss leaves one of the states.                        *)
LEMMA JournalCut ==
  ASSUME journal \in Seq(Directory),
         NEW k \in 1 .. Len(journal), journal' = << journal[k] >>
  PROVE  /\ journal' \in Seq(Directory) /\ journal' # << >>
         /\ directory' = journal[k]
         /\ \A i \in 1 .. Len(journal') : journal'[i] = journal[k]
<1>1. journal[k] \in Directory
  BY ElementOfSeq
<1> QED
  BY <1>1 DEF directory

-----------------------------------------------------------------------------
LEMMA InvInit == Init => Inv
<1> SUFFICES ASSUME Init PROVE Inv
  OBVIOUS
<1> DEFINE empty == [destination |-> None, part |-> None]
<1>1. empty \in Directory
  BY DEF Directory
<1>2. /\ journal \in Seq(Directory) /\ journal # << >>
      /\ Len(journal) = 1 /\ journal[1] = empty /\ directory = empty
  BY <1>1 DEF Init, directory
<1>3. TypeOK
  <2>1. [p \in Process |-> 0] \in [Process -> 0 .. MaxWrites]
    BY OutputAssumption
  <2>2. pc \in [Process -> {"start"} \cup Running \cup Ended]
    BY DEF Init
  <2>3. /\ written \in [Process -> 0 .. MaxWrites]
        /\ synced \in [Process -> 0 .. MaxWrites]
        /\ asked \in [Process -> 0 .. MaxWrites]
        /\ threw \in [Process -> 0 .. MaxWrites]
        /\ powerLost \in BOOLEAN
    BY <2>1 DEF Init
  <2>4. \A p \in Process : /\ synced[p] = 0 /\ written[p] = 0
                        /\ asked[p] = 0 /\ threw[p] = 0
    BY DEF Init
  <2> QED
    BY <1>2, <2>2, <2>3, <2>4 DEF TypeOK
<1>4. DataKept /\ NamesHeld /\ SuccessIsDurable /\ NothingThrownAway
  BY DEF Init, DataKept, Committed, NamesHeld, HoldingPart, SuccessIsDurable,
         NothingThrownAway
<1>5. DestinationsLinked /\ AcknowledgedIsPublished
  BY <1>2, OutputAssumption DEF DestinationsLinked, AcknowledgedIsPublished
<1> QED
  BY <1>3, <1>4, <1>5 DEF Inv

(* A step that changes nothing but the calls processes make next, and      *)
(* takes none of them forward past a call it has not made.                 *)
LEMMA QuietStep ==
  ASSUME Inv, UNCHANGED journal, SameData, NEW p \in Process,
         NEW to \in {"open", "fsync", "link", "refused", "failed", "killed"},
         pc' = [pc EXCEPT ![p] = to],
         to = "open" => pc[p] = "start",
         to = "fsync" => pc[p] = "writing",
         to = "link" => pc[p] = "close"
  PROVE  Inv'
<1> USE DEF Inv, TypeOK, Stored
<1>1. directory' = directory
  BY DEF directory
<1>2. pc' \in [Process -> {"start"} \cup Running \cup Ended]
  BY DEF Running, Ended
<1>3. TypeOK'
  BY <1>2 DEF SameData
<1>4. DataKept'
  BY DEF SameData, DataKept, Uncommitted, Committed
<1>5. NamesHeld'
  BY <1>1 DEF NamesHeld, HoldingPart
<1>6. DestinationsLinked'
  BY <1>1 DEF DestinationsLinked, Unlinked, Uncommitted
<1>7. AcknowledgedIsPublished' /\ SuccessIsDurable' /\ NothingThrownAway'
  BY <1>1 DEF SameData, AcknowledgedIsPublished, SuccessIsDurable,
              NothingThrownAway
<1> QED
  BY <1>3, <1>4, <1>5, <1>6, <1>7

LEMMA InvStep == Inv /\ [Next]_vars => Inv'
<1> SUFFICES ASSUME Inv, [Next]_vars PROVE Inv'
  OBVIOUS
<1> USE DEF Inv, TypeOK, Goes, Stored
<1>d. directory \in Directory /\ Len(journal) \in 1 .. Len(journal)
  BY DirectoryTyped
<1>e. /\ \A p \in Process : directory.destination = p =>
           /\ pc[p] \notin Unlinked
           /\ Stored(p)
      /\ \A p \in Process : pc[p] = "done" =>
           directory.destination = p /\ directory.part # p
  BY <1>d DEF directory, DestinationsLinked, AcknowledgedIsPublished,
              SuccessIsDurable
<1>1. ASSUME NEW p \in Process, CheckDestination(p) PROVE Inv'
  BY <1>1, QuietStep DEF CheckDestination
<1>2. ASSUME NEW p \in Process, OpenPart(p) PROVE Inv'
  <2> DEFINE new == [directory EXCEPT !.part = p]
  <2>1. /\ new \in Directory /\ new.part = p
        /\ new.destination = directory.destination
    BY <1>d DEF Directory
  <2>2. pc[p] = "open" /\ pc' = [pc EXCEPT ![p] = "writing"]
        /\ directory.part = None /\ SetDirectory(new) /\ SameData
    BY <1>2 DEF OpenPart
  <2>3. /\ journal' \in Seq(Directory) /\ journal' # << >>
        /\ directory' = new
        /\ \A k \in 1 .. Len(journal') :
             \/ k \in 1 .. Len(journal) /\ journal'[k] = journal[k]
             \/ journal'[k] = new
    BY <2>1, <2>2, DirectoryStep
  <2> HIDE DEF new
  <2>4. TypeOK'
    BY <2>2, <2>3 DEF SameData, Running
  <2>5. DataKept'
    BY <2>2 DEF SameData, DataKept, Uncommitted, Committed
  <2>6. NamesHeld'
    BY <2>1, <2>2, <2>3, OutputAssumption DEF NamesHeld, HoldingPart
  <2>7. DestinationsLinked'
    <3>1. new.destination = directory.destination
      BY <2>1
    <3>2. \A q \in Process : pc[q] \notin Unlinked => pc'[q] \notin Unlinked
      BY <2>2 DEF Unlinked, Uncommitted
    <3>3. ASSUME NEW k \in 1 .. Len(journal')
          PROVE  /\ journal'[k].destination \in {None, directory.destination}
                 /\ \A q \in Process : journal'[k].destination = q =>
                                        pc[q] \notin Unlinked
      BY <1>e, <2>3, <3>1, <3>3 DEF DestinationsLinked
    <3> QED
      BY <2>3, <3>1, <3>2, <3>3 DEF DestinationsLinked
  <2>8. AcknowledgedIsPublished'
    <3> SUFFICES ASSUME NEW k \in 1 .. Len(journal'), NEW q \in Process,
                        journal'[k].destination = q
                 PROVE  Stored(q)
      BY <2>2 DEF AcknowledgedIsPublished, SameData
    <3> QED
      BY <1>e, <2>1, <2>3 DEF AcknowledgedIsPublished
  <2>9. SuccessIsDurable'
    <3> SUFFICES ASSUME NEW q \in Process, pc'[q] = "done",
                        NEW k \in 1 .. Len(journal')
                 PROVE  journal'[k].destination = q /\ journal'[k].part # q
      BY DEF SuccessIsDurable
    <3>1. pc[q] = "done"
      BY <2>2
    <3>2. new.destination = q /\ new.part # q
      BY <1>e, <2>1, <2>2, <3>1, OutputAssumption
    <3> QED
      BY <2>3, <3>1, <3>2 DEF SuccessIsDurable
  <2>10. NothingThrownAway'
    BY <2>1, <2>2, <2>3, OutputAssumption DEF NothingThrownAway, SameData
  <2> QED
    BY <2>4, <2>5, <2>6, <2>7, <2>8, <2>9, <2>10
<1>3. ASSUME NEW p \in Process, OpenFails(p) PROVE Inv'
  BY <1>3, QuietStep DEF OpenFails
<1>4. ASSUME NEW p \in Process, Write(p) PROVE Inv'
  <2>1. /\ pc[p] = "writing" /\ pc' = [pc EXCEPT ![p] = "writing"]
        /\ written' = [written EXCEPT ![p] = @ + 1]
        /\ asked' = [asked EXCEPT ![p] = @ + 1] /\ asked[p] < MaxWrites
        /\ UNCHANGED << journal, synced, threw, powerLost >>
    BY <1>4 DEF Write
  <2>2. pc' = pc /\ directory' = directory
    BY <2>1 DEF directory
  <2>3. TypeOK'
    <3>1. asked[p] + 1 \in 0 .. MaxWrites /\ written[p] + 1 \in 0 .. MaxWrites
      BY <2>1, OutputAssumption
    <3>2. asked' \in [Process -> 0 .. MaxWrites]
          /\ written' \in [Process -> 0 .. MaxWrites]
      BY <2>1, <3>1
    <3>3. \A q \in Process : synced'[q] <= written'[q]
                             /\ written'[q] + threw'[q] <= asked'[q]
      BY <2>1, OutputAssumption
    <3> QED
      BY <2>1, <2>2, <3>2, <3>3
  <2>4. DataKept'
    BY <2>1, <2>2 DEF DataKept, Uncommitted, Committed
  <2>5. NamesHeld' /\ DestinationsLinked' /\ SuccessIsDurable'
    BY <2>1, <2>2 DEF NamesHeld, DestinationsLinked, SuccessIsDurable
  <2>6. AcknowledgedIsPublished'
    BY <2>1, <2>2
       DEF DestinationsLinked, Unlinked, Uncommitted, AcknowledgedIsPublished
  <2>7. NothingThrownAway'
    BY <2>1, <2>2 DEF NothingThrownAway, NamesHeld, HoldingPart
  <2> QED
    BY <2>3, <2>4, <2>5, <2>6, <2>7
<1>16. ASSUME NEW p \in Process, WriteFails(p) PROVE Inv'
  <2>1. /\ pc[p] = "writing" /\ pc' = [pc EXCEPT ![p] = "writing"]
        /\ asked' = [asked EXCEPT ![p] = @ + 1] /\ asked[p] < MaxWrites
        /\ threw' = [threw EXCEPT ![p] = @ + 1]
        /\ UNCHANGED << journal, written, synced, powerLost >>
    BY <1>16 DEF WriteFails
  <2>2. pc' = pc /\ directory' = directory
    BY <2>1 DEF directory
  <2>3. TypeOK'
    <3>1. asked[p] + 1 \in 0 .. MaxWrites /\ threw[p] + 1 \in 0 .. MaxWrites
      BY <2>1, OutputAssumption
    <3>2. asked' \in [Process -> 0 .. MaxWrites]
          /\ threw' \in [Process -> 0 .. MaxWrites]
      BY <2>1, <3>1
    <3>3. \A q \in Process : synced'[q] <= written'[q]
                             /\ written'[q] + threw'[q] <= asked'[q]
      BY <2>1, OutputAssumption
    <3> QED
      BY <2>1, <2>2, <3>2, <3>3
  <2>4. DataKept'
    BY <2>1, <2>2 DEF DataKept, Uncommitted, Committed
  <2>5. NamesHeld' /\ DestinationsLinked' /\ SuccessIsDurable'
    BY <2>1, <2>2 DEF NamesHeld, DestinationsLinked, SuccessIsDurable
  <2>6. AcknowledgedIsPublished'
    BY <2>1, <2>2
       DEF DestinationsLinked, Unlinked, Uncommitted, AcknowledgedIsPublished
  <2>7. NothingThrownAway'
    BY <2>1, <2>2 DEF NothingThrownAway, NamesHeld, HoldingPart
  <2> QED
    BY <2>3, <2>4, <2>5, <2>6, <2>7
<1>5. ASSUME NEW p \in Process, GiveUp(p) PROVE Inv'
  BY <1>5, QuietStep DEF GiveUp
<1>6. ASSUME NEW p \in Process, BeginCommit(p) PROVE Inv'
  BY <1>6, QuietStep DEF BeginCommit
<1>7. ASSUME NEW p \in Process, Fsync(p) PROVE Inv'
  <2>1. /\ pc[p] = "fsync" /\ pc' = [pc EXCEPT ![p] = "close"]
        /\ synced' = [synced EXCEPT ![p] = written[p]]
        /\ UNCHANGED << journal, written, asked, threw, powerLost >>
    BY <1>7 DEF Fsync
  <2>2. directory' = directory
    BY <2>1 DEF directory
  <2>3. TypeOK'
    BY <2>1, OutputAssumption DEF Running
  <2>4. DataKept'
    BY <2>1 DEF DataKept, Uncommitted, Committed
  <2>5. NamesHeld' /\ SuccessIsDurable' /\ NothingThrownAway'
    BY <2>1, <2>2 DEF NamesHeld, HoldingPart, SuccessIsDurable,
                      NothingThrownAway
  <2>6. DestinationsLinked' /\ AcknowledgedIsPublished'
    BY <2>1, <2>2 DEF DestinationsLinked, Unlinked, Uncommitted,
                      AcknowledgedIsPublished
  <2> QED
    BY <2>3, <2>4, <2>5, <2>6
<1>8. ASSUME NEW p \in Process, Close(p) PROVE Inv'
  BY <1>8, QuietStep DEF Close
<1>9. ASSUME NEW p \in Process, Link(p) PROVE Inv'
  <2> DEFINE new == [directory EXCEPT !.destination = p]
  <2>1. /\ new \in Directory /\ new.destination = p
        /\ new.part = directory.part
    BY <1>d DEF Directory
  <2>2. pc[p] = "link" /\ pc' = [pc EXCEPT ![p] = "unlink"]
        /\ directory.destination = None /\ SetDirectory(new) /\ SameData
    BY <1>9 DEF Link
  <2>3. /\ journal' \in Seq(Directory) /\ journal' # << >>
        /\ directory' = new
        /\ \A k \in 1 .. Len(journal') :
             \/ k \in 1 .. Len(journal) /\ journal'[k] = journal[k]
             \/ journal'[k] = new
    BY <2>1, <2>2, DirectoryStep
  <2> HIDE DEF new
  <2>4. TypeOK'
    BY <2>2, <2>3 DEF SameData, Running
  <2>5. DataKept'
    BY <2>2 DEF SameData, DataKept, Uncommitted, Committed
  <2>6. NamesHeld'
    BY <2>1, <2>2, <2>3, OutputAssumption DEF NamesHeld, HoldingPart
  <2>7. DestinationsLinked'
    BY <2>1, <2>2, <2>3, OutputAssumption
       DEF DestinationsLinked, Unlinked, Uncommitted
  <2>8. AcknowledgedIsPublished'
    <3> SUFFICES ASSUME NEW k \in 1 .. Len(journal'), NEW q \in Process,
                        journal'[k].destination = q
                 PROVE  Stored(q)
      BY <2>2 DEF AcknowledgedIsPublished, SameData
    <3> QED
      BY <2>1, <2>2, <2>3 DEF AcknowledgedIsPublished, DataKept, Committed
  <2>9. SuccessIsDurable'
    <3> SUFFICES ASSUME NEW q \in Process, pc'[q] = "done" PROVE FALSE
      BY DEF SuccessIsDurable
    <3> QED
      BY <1>e, <2>2, OutputAssumption
  <2>10. NothingThrownAway'
    BY <2>1, <2>2, <2>3, OutputAssumption DEF NothingThrownAway, SameData
  <2> QED
    BY <2>4, <2>5, <2>6, <2>7, <2>8, <2>9, <2>10
<1>10. ASSUME NEW p \in Process, Unlink(p) PROVE Inv'
  <2> DEFINE new == [directory EXCEPT !.part = None]
  <2>1. /\ new \in Directory /\ new.part = None
        /\ new.destination = directory.destination
    BY <1>d DEF Directory
  <2>2. pc[p] = "unlink" /\ pc' = [pc EXCEPT ![p] = "sync_parent"]
        /\ SetDirectory(new) /\ SameData
    BY <1>10 DEF Unlink
  <2>3. /\ journal' \in Seq(Directory) /\ journal' # << >>
        /\ directory' = new
        /\ \A k \in 1 .. Len(journal') :
             \/ k \in 1 .. Len(journal) /\ journal'[k] = journal[k]
             \/ journal'[k] = new
    BY <2>1, <2>2, DirectoryStep
  <2> HIDE DEF new
  <2>4. directory.part = p /\ directory.destination = p
    BY <2>2 DEF NamesHeld, HoldingPart
  <2>5. TypeOK'
    BY <2>2, <2>3 DEF SameData, Running
  <2>6. DataKept'
    BY <2>2 DEF SameData, DataKept, Uncommitted, Committed
  <2>7. NamesHeld'
    BY <2>1, <2>2, <2>3, <2>4, OutputAssumption DEF NamesHeld, HoldingPart
  <2>8. DestinationsLinked'
    <3>1. new.destination = directory.destination
      BY <2>1
    <3>2. \A q \in Process : pc[q] \notin Unlinked => pc'[q] \notin Unlinked
      BY <2>2 DEF Unlinked, Uncommitted
    <3>3. ASSUME NEW k \in 1 .. Len(journal')
          PROVE  /\ journal'[k].destination \in {None, directory.destination}
                 /\ \A q \in Process : journal'[k].destination = q =>
                                        pc[q] \notin Unlinked
      BY <1>e, <2>3, <3>1, <3>3 DEF DestinationsLinked
    <3> QED
      BY <2>3, <3>1, <3>2, <3>3 DEF DestinationsLinked
  <2>9. AcknowledgedIsPublished'
    <3> SUFFICES ASSUME NEW k \in 1 .. Len(journal'), NEW q \in Process,
                        journal'[k].destination = q
                 PROVE  Stored(q)
      BY <2>2 DEF AcknowledgedIsPublished, SameData
    <3> QED
      BY <1>e, <2>1, <2>3 DEF AcknowledgedIsPublished
  <2>10. SuccessIsDurable'
    <3> SUFFICES ASSUME NEW q \in Process, pc'[q] = "done",
                        NEW k \in 1 .. Len(journal')
                 PROVE  journal'[k].destination = q /\ journal'[k].part # q
      BY DEF SuccessIsDurable
    <3>1. pc[q] = "done"
      BY <2>2
    <3>2. new.destination = q /\ new.part # q
      BY <1>e, <2>1, <2>2, <3>1, OutputAssumption
    <3> QED
      BY <2>3, <3>1, <3>2 DEF SuccessIsDurable
  <2>11. NothingThrownAway'
    BY <2>1, <2>2, <2>3, <2>4 DEF NothingThrownAway, SameData
  <2> QED
    BY <2>5, <2>6, <2>7, <2>8, <2>9, <2>10, <2>11
<1>11. ASSUME NEW p \in Process, SyncParent(p) \/ CloseParentFails(p)
       PROVE Inv'
  <2> PICK to \in {"done", "failed"} :
        /\ pc[p] = "sync_parent" /\ pc' = [pc EXCEPT ![p] = to]
        /\ journal' = << directory >> /\ SameData
    BY <1>11 DEF SyncParent, CloseParentFails
  <2>1. /\ journal' \in Seq(Directory) /\ journal' # << >>
        /\ directory' = directory
        /\ \A i \in 1 .. Len(journal') : journal'[i] = directory
    BY <1>d, JournalCut DEF directory
  <2>2. TypeOK'
    BY <2>1 DEF SameData, Ended
  <2>3. DataKept'
    BY DEF SameData, DataKept, Uncommitted, Committed
  <2>4. NamesHeld' /\ NothingThrownAway'
    BY <2>1 DEF NamesHeld, HoldingPart, NothingThrownAway, SameData
  <2>5. DestinationsLinked'
    BY <1>e, <2>1 DEF DestinationsLinked, Unlinked, Uncommitted
  <2>6. AcknowledgedIsPublished'
    <3> SUFFICES ASSUME NEW q \in Process, directory.destination = q
                 PROVE  Stored(q)
      BY <2>1 DEF AcknowledgedIsPublished, SameData
    <3> QED
      BY <1>e
  <2>7. SuccessIsDurable'
    BY <1>e, <2>1 DEF SuccessIsDurable, NamesHeld
  <2> QED
    BY <2>2, <2>3, <2>4, <2>5, <2>6, <2>7
<1>12. ASSUME NEW p \in Process, CommitFails(p) PROVE Inv'
  BY <1>12, QuietStep DEF CommitFails
<1>13. ASSUME NEW p \in Process, Kill(p) PROVE Inv'
  BY <1>13, QuietStep DEF Kill
<1>14. CASE PowerLoss
  <2>1. PICK k \in 1 .. Len(journal) : journal' = << journal[k] >>
    BY <1>14 DEF PowerLoss
  <2>2. /\ journal' \in Seq(Directory) /\ journal' # << >>
        /\ directory' = journal[k]
        /\ \A i \in 1 .. Len(journal') : journal'[i] = journal[k]
    BY <2>1, JournalCut
  <2>3. /\ pc' = [p \in Process |-> IF pc[p] \in Running THEN "killed"
                                                         ELSE pc[p]]
        /\ written' \in [Process -> 0 .. MaxWrites]
        /\ \A p \in Process : written'[p] \in synced[p] .. written[p]
        /\ synced' = written' /\ asked' = asked /\ threw' = threw
        /\ powerLost' = TRUE
    BY <1>14 DEF PowerLoss
  <2>4. \A p \in Process : pc'[p] = pc[p] \/ pc'[p] = "killed"
    BY <2>3
  <2>5. \A p \in Process : pc'[p] \in {"start"} \cup Ended
    BY <2>3 DEF Ended
  <2>6. TypeOK'
    BY <2>2, <2>3, <2>5, OutputAssumption
  <2>7. DataKept'
    <3> SUFFICES ASSUME NEW p \in Process,
                        pc'[p] \in Uncommitted \cup Committed
                 PROVE  /\ Stored(p)'
                        /\ pc[p] = pc'[p] /\ asked'[p] = asked[p]
      BY DEF DataKept, Uncommitted, Committed
    <3>1. pc'[p] \in {"start", "done"} /\ pc[p] = pc'[p]
      BY <2>4, <2>5 DEF Uncommitted, Committed, Ended
    <3>2. Stored(p)
      BY <3>1, OutputAssumption DEF DataKept, Uncommitted, Committed
    <3> QED
      BY <2>3, <3>1, <3>2, OutputAssumption
  <2>8. NamesHeld' /\ NothingThrownAway'
    BY <2>3, <2>5 DEF NamesHeld, HoldingPart, Ended, NothingThrownAway
  <2>9. DestinationsLinked'
    BY <2>2, <2>4 DEF DestinationsLinked, Unlinked, Uncommitted
  <2>10. AcknowledgedIsPublished'
    <3> SUFFICES ASSUME NEW p \in Process, journal[k].destination = p
                 PROVE  Stored(p)'
      BY <2>2 DEF AcknowledgedIsPublished
    <3>1. Stored(p)
      BY DEF AcknowledgedIsPublished
    <3> QED
      BY <2>3, <3>1, OutputAssumption
  <2>11. SuccessIsDurable'
    BY <2>2, <2>4 DEF SuccessIsDurable
  <2> QED
    BY <2>6, <2>7, <2>8, <2>9, <2>10, <2>11
<1>15. CASE UNCHANGED vars
  BY <1>15 DEF vars, DataKept, NamesHeld, DestinationsLinked, directory,
               AcknowledgedIsPublished, SuccessIsDurable, NothingThrownAway
<1> QED
  BY <1>1, <1>2, <1>3, <1>4, <1>5, <1>6, <1>7, <1>8, <1>9, <1>10, <1>11,
     <1>12, <1>13, <1>14, <1>15, <1>16 DEF Next, Finished

-----------------------------------------------------------------------------
LEMMA InvAlways == Spec => []Inv
<1> QED
  BY InvInit, InvStep, PTL DEF Spec

(* The domains of the file system's and the processes' state.              *)
THEOREM TypeCorrect == Spec => []TypeOK
<1>1. Inv => TypeOK
  BY DEF Inv
<1> QED
  BY <1>1, InvAlways, PTL

(* commit publishes nothing before all that write acknowledged is durable, *)
(* whatever a power loss leaves.                                           *)
THEOREM PublicationCorrect == Spec => []AcknowledgedIsPublished
<1>1. Inv => AcknowledgedIsPublished
  BY DEF Inv
<1> QED
  BY <1>1, InvAlways, PTL

(* A commit that has returned is beyond the reach of a power loss.         *)
THEOREM DurabilityCorrect == Spec => []SuccessIsDurable
<1>1. Inv => SuccessIsDurable
  BY DEF Inv
<1> QED
  BY <1>1, InvAlways, PTL

(* commit's unlink meets no other process's partial file.                  *)
THEOREM UnlinkCorrect == Spec => []UnlinksItsOwnPart
<1>1. Inv => UnlinksItsOwnPart
  BY DEF Inv, NamesHeld, HoldingPart, UnlinksItsOwnPart
<1> QED
  BY <1>1, InvAlways, PTL

(* Failed and killed processes leave their recording under a name.         *)
THEOREM KeepingCorrect == Spec => []NothingThrownAway
<1>1. Inv => NothingThrownAway
  BY DEF Inv
<1> QED
  BY <1>1, InvAlways, PTL

-----------------------------------------------------------------------------
(* Only link and a power loss change the final name, link only when there  *)
(* is none, and a power loss never to another file.                        *)
LEMMA DestinationStep ==
  ASSUME Inv, [Next]_vars, NEW p \in Process, directory.destination = p
  PROVE  \/ directory'.destination = p
         \/ directory'.destination = None /\ pc[p] # "done"
<1> USE DEF Inv, TypeOK, Goes, Stored
<1>d. directory \in Directory /\ Len(journal) \in 1 .. Len(journal)
  BY DirectoryTyped
<1>1. CASE UNCHANGED journal
  BY <1>1 DEF directory
<1>2. ASSUME NEW q \in Process, OpenPart(q) \/ Unlink(q)
      PROVE  directory'.destination = p
  <2> PICK part \in Process \cup {None} :
        SetDirectory([directory EXCEPT !.part = part])
    BY <1>2 DEF OpenPart, Unlink
  <2> DEFINE new == [directory EXCEPT !.part = part]
  <2>1. new \in Directory /\ new.destination = p
    BY <1>d DEF Directory
  <2> QED
    BY <2>1, DirectoryStep
<1>3. ASSUME NEW q \in Process, Link(q) PROVE FALSE
  BY <1>3, OutputAssumption DEF Link
<1>4. ASSUME NEW q \in Process, SyncParent(q) \/ CloseParentFails(q)
      PROVE  directory'.destination = p
  BY <1>4, <1>d, JournalCut DEF SyncParent, CloseParentFails, directory
<1>5. CASE PowerLoss
  <2>1. PICK k \in 1 .. Len(journal) : journal' = << journal[k] >>
    BY <1>5 DEF PowerLoss
  <2>2. directory' = journal[k]
    BY <2>1, JournalCut
  <2> QED
    BY <2>2, OutputAssumption DEF DestinationsLinked, SuccessIsDurable
<1> QED
  BY <1>1, <1>2, <1>3, <1>4, <1>5
     DEF Next, vars, CheckDestination, OpenFails, Write, WriteFails, GiveUp,
         BeginCommit,
         Fsync, Close, CommitFails, Kill, Finished

(* link, unlike rename, replaces nothing, and no crash does either.        *)
THEOREM NeverReplacedCorrect == Spec => NeverReplaced
<1>1. Inv /\ [Next]_vars =>
        [\A p \in Process : directory.destination = p =>
           \/ directory'.destination = p
           \/ directory'.destination = None /\ pc[p] # "done"]_vars
  BY DestinationStep
<1> QED
  BY <1>1, InvAlways, PTL DEF Spec, NeverReplaced
=============================================================================
