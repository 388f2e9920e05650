---------------------------- MODULE AtomicOutput ----------------------------
(***************************************************************************)
(* atomic_output: a recording is written to <output>.part, synced, linked  *)
(* to <output>, and the partial name removed.  Several processes may be    *)
(* given the same output; any of them may be killed at any system call,    *)
(* any call may fail, and the power may go.                                *)
(*                                                                         *)
(* The file system is external.  A process creates at most one file, so    *)
(* files are named by their process, and a file's contents are the number  *)
(* of records it holds whole; torn bytes of failed writes among them are   *)
(* not counted (Capture has them).  The parent directory is the sequence   *)
(* of its states since it was last durable: operations reach the disk in   *)
(* order (a metadata journal), so a power loss leaves one of them.  A      *)
(* file's data survives up to some point at or after its last fsync.       *)
(***************************************************************************)
EXTENDS Integers, Sequences

CONSTANTS
  Process,
  None,        \* no file
  MaxWrites    \* bound: calls of write one process makes

ASSUME OutputAssumption == None \notin Process /\ MaxWrites \in Nat

VARIABLES
  pc,          \* the call each process makes next
  journal,     \* directory states, the durable one first, the current last
  written,     \* records each file holds
  synced,      \* records each file keeps through a power loss
  asked,       \* history: calls of write each process made
  threw,       \* history: how many of them ended in an exception
  powerLost    \* history: there was a power loss

vars == << pc, journal, written, synced, asked, threw, powerLost >>

Directory == [destination : Process \cup {None}, part : Process \cup {None}]

directory == journal[Len(journal)]

Running == {"open", "writing", "fsync", "close", "link", "unlink",
            "sync_parent"}
Ended   == {"done", "refused", "failed", "killed"}

Init ==
  /\ pc = [p \in Process |-> "start"]
  /\ journal = << [destination |-> None, part |-> None] >>
  /\ written = [p \in Process |-> 0]
  /\ synced = [p \in Process |-> 0]
  /\ asked = [p \in Process |-> 0]
  /\ threw = [p \in Process |-> 0]
  /\ powerLost = FALSE

Goes(p, from, to) == pc[p] = from /\ pc' = [pc EXCEPT ![p] = to]

SameData == UNCHANGED << written, synced, asked, threw, powerLost >>

SetDirectory(new) == journal' = Append(journal, new)

-----------------------------------------------------------------------------
(* The constructor.                                                        *)

CheckDestination(p) ==
  /\ Goes(p, "start",
          IF directory.destination = None THEN "open" ELSE "refused")
  /\ UNCHANGED journal
  /\ SameData

(* Mutant of OpenPart: a partial file that is there is removed first.      *)
OpenPartAfterRemove(p) ==
  /\ Goes(p, "open", "writing")
  /\ SetDirectory([directory EXCEPT !.part = p])
  /\ SameData

(* O_CREAT | O_EXCL.                                                       *)
OpenPart(p) ==
  /\ Goes(p, "open", "writing")
  /\ directory.part = None
  /\ SetDirectory([directory EXCEPT !.part = p])
  /\ SameData

OpenFails(p) ==
  /\ Goes(p, "open", "refused")
  /\ UNCHANGED journal
  /\ SameData

-----------------------------------------------------------------------------
(* write.                                                                  *)

(* Mutant of Write: the offset is not advanced over a short write.         *)
WriteAgain(p) ==
  /\ Goes(p, "writing", "writing")
  /\ asked[p] < MaxWrites - 1
  /\ asked' = [asked EXCEPT ![p] = @ + 1]
  /\ written' = [written EXCEPT ![p] = @ + 2]
  /\ UNCHANGED << journal, synced, threw, powerLost >>

Write(p) ==
  /\ Goes(p, "writing", "writing")
  /\ asked[p] < MaxWrites
  /\ asked' = [asked EXCEPT ![p] = @ + 1]
  /\ written' = [written EXCEPT ![p] = @ + 1]
  /\ UNCHANGED << journal, synced, threw, powerLost >>

(* A failing or short ::write.  The object can be used as before, and its  *)
(* caller does: capture_live takes the exception for a failed connection,  *)
(* goes on writing, and may commit.                                        *)
WriteFails(p) ==
  /\ Goes(p, "writing", "writing")
  /\ asked[p] < MaxWrites
  /\ asked' = [asked EXCEPT ![p] = @ + 1]
  /\ threw' = [threw EXCEPT ![p] = @ + 1]
  /\ UNCHANGED << journal, written, synced, powerLost >>

(* Mutant of GiveUp: the destructor tidies the partial file away.          *)
GiveUpTidily(p) ==
  /\ Goes(p, "writing", "failed")
  /\ SetDirectory([directory EXCEPT !.part = None])
  /\ SameData

(* The caller leaves by an exception, of write or of its own, through the  *)
(* destructor, which closes the file and nothing more.                     *)
GiveUp(p) ==
  /\ Goes(p, "writing", "failed")
  /\ UNCHANGED journal
  /\ SameData

-----------------------------------------------------------------------------
(* commit: each call throws when it fails, and the object stays as it is.  *)

(* Mutant of BeginCommit: commit without its fsync.                        *)
BeginCommitUnsynced(p) ==
  /\ Goes(p, "writing", "close")
  /\ UNCHANGED journal
  /\ SameData

BeginCommit(p) ==
  /\ Goes(p, "writing", "fsync")
  /\ UNCHANGED journal
  /\ SameData

Fsync(p) ==
  /\ Goes(p, "fsync", "close")
  /\ synced' = [synced EXCEPT ![p] = written[p]]
  /\ UNCHANGED << journal, written, asked, threw, powerLost >>

Close(p) ==
  /\ Goes(p, "close", "link")
  /\ UNCHANGED journal
  /\ SameData

(* Mutant of Link: rename instead of link.                                 *)
RenamePart(p) ==
  /\ Goes(p, "link", "unlink")
  /\ SetDirectory([directory EXCEPT !.destination = p])
  /\ SameData

(* link fails on an existing destination.                                  *)
Link(p) ==
  /\ Goes(p, "link", "unlink")
  /\ directory.destination = None
  /\ SetDirectory([directory EXCEPT !.destination = p])
  /\ SameData

Unlink(p) ==
  /\ Goes(p, "unlink", "sync_parent")
  /\ SetDirectory([directory EXCEPT !.part = None])
  /\ SameData

(* Mutant of SyncParent: the directory is not synced.                      *)
SyncParentNot(p) ==
  /\ Goes(p, "sync_parent", "done")
  /\ UNCHANGED journal
  /\ SameData

SyncParent(p) ==
  /\ Goes(p, "sync_parent", "done")
  /\ journal' = << directory >>
  /\ SameData

CommitFails(p) ==
  /\ \E step \in {"fsync", "close", "link", "unlink", "sync_parent"} :
       Goes(p, step, "failed")
  /\ UNCHANGED journal
  /\ SameData

(* The directory was synced, and closing it failed.                        *)
CloseParentFails(p) ==
  /\ Goes(p, "sync_parent", "failed")
  /\ journal' = << directory >>
  /\ SameData

-----------------------------------------------------------------------------
(* External events.                                                        *)

Kill(p) ==
  /\ pc[p] \in Running
  /\ pc' = [pc EXCEPT ![p] = "killed"]
  /\ UNCHANGED journal
  /\ SameData

(* A process at "start" is one begun after the restart.                    *)
PowerLoss ==
  /\ powerLost' = TRUE
  /\ pc' = [p \in Process |-> IF pc[p] \in Running THEN "killed" ELSE pc[p]]
  /\ \E k \in 1 .. Len(journal) : journal' = << journal[k] >>
  /\ written' \in {w \in [Process -> 0 .. MaxWrites] :
                    \A p \in Process : w[p] \in synced[p] .. written[p]}
  /\ synced' = written'
  /\ UNCHANGED << asked, threw >>

Finished == /\ \A p \in Process : pc[p] \in Ended
            /\ UNCHANGED vars

Next ==
  \/ \E p \in Process :
       \/ CheckDestination(p) \/ OpenPart(p) \/ OpenFails(p)
       \/ Write(p) \/ WriteFails(p) \/ GiveUp(p)
       \/ BeginCommit(p) \/ Fsync(p) \/ Close(p) \/ Link(p) \/ Unlink(p)
       \/ SyncParent(p) \/ CommitFails(p) \/ CloseParentFails(p)
       \/ Kill(p)
  \/ PowerLoss
  \/ Finished

Spec == Init /\ [][Next]_vars

-----------------------------------------------------------------------------
(* Every variable keeps to its domain, and no file holds more than the     *)
(* writes that returned, nor less than what is durable.                    *)
TypeOK ==
  /\ pc \in [Process -> {"start"} \cup Running \cup Ended]
  /\ journal \in Seq(Directory) /\ journal # << >>
  /\ written \in [Process -> 0 .. MaxWrites]
  /\ synced \in [Process -> 0 .. MaxWrites]
  /\ asked \in [Process -> 0 .. MaxWrites]
  /\ threw \in [Process -> 0 .. MaxWrites]
  /\ powerLost \in BOOLEAN
  /\ \A p \in Process : /\ synced[p] <= written[p]
                        /\ written[p] + threw[p] <= asked[p]

(* Whatever state of the directory a power loss leaves, a file under the   *)
(* final name holds, durably, every record whose write returned.  Only an  *)
(* exception of write tells of a record that is missing or torn: a file    *)
(* can be published after one, and atomic_output does not prevent it.      *)
AcknowledgedIsPublished ==
  \A k \in 1 .. Len(journal) : \A p \in Process :
    journal[k].destination = p =>
      /\ synced[p] + threw[p] = asked[p]
      /\ written[p] = synced[p]

(* Once commit has returned, no power loss can bring the partial name back *)
(* or take the recording away.                                             *)
SuccessIsDurable ==
  \A p \in Process : pc[p] = "done" =>
    \A k \in 1 .. Len(journal) :
      journal[k].destination = p /\ journal[k].part # p

(* The unlink of one process only ever meets its own partial file, however *)
(* many were given the same output.                                        *)
UnlinksItsOwnPart ==
  \A p \in Process : pc[p] = "unlink" => directory.part = p

(* Without a power loss what a process wrote stays under one of the two    *)
(* names, whichever call failed and wherever it was killed.                *)
NothingThrownAway ==
  ~powerLost =>
    \A p \in Process :
      asked[p] > 0 => p \in {directory.destination, directory.part}

(* A published recording is never replaced; only a power loss before its   *)
(* commit returned can take it away.                                       *)
NeverReplaced ==
  [][\A p \in Process : directory.destination = p =>
       \/ directory'.destination = p
       \/ directory'.destination = None /\ pc[p] # "done"]_vars
=============================================================================
