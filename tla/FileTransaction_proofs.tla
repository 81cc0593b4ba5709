----------------------- MODULE FileTransaction_proofs -----------------------
(***************************************************************************)
(* What holds of FileTransaction for every set of files, contents and      *)
(* names, and for any number of failed calls and killed holders.           *)
(***************************************************************************)
EXTENDS FileTransaction, TLAPS

\* Helpers of the type proof: the constant functions and what is saved.
LEMMA NoRequestType == NoRequest \in [Target -> FileState \cup {Untouched}]
  BY DEF NoRequest

LEMMA NoEntriesType == NoEntries \in [Target -> Entry]
  BY DEF NoEntries, Entry

\* What a restore puts back is the content of a file, or its absence.
LEMMA SavedType ==
  ASSUME copies \in [CopyId -> FileState], NEW j, NEW t \in Target
  PROVE  Saved(j, t) \in FileState
  BY DEF Saved, FileState

\* The types alone are not inductive: what a commit or a save writes is a
\* file's content because the loop only visits files the request names.
StagedOK ==
    /\ pc = "commit" => todo \subseteq Touched(staged)
    /\ pc = "save" => staged[StateFile] \in Content

TypeInv == TypeOK /\ StagedOK

\* Every step keeps the variables in their types: in particular a rollback
\* only ever puts file contents, never a path, into a managed file
\* (rollbackFileTransaction).
THEOREM TypeInvariant == Spec => []TypeInv
<1>1. Init => TypeInv
  <2> USE ConstantsAssumption
  <2>1. Init => copies \in [CopyId -> FileState]
    BY DEF Init, FileState
  <2>2. Init => pc = "free" /\ faults \in 0..MaxFaults /\ crashes \in 0..MaxCrashes
    BY DEF Init
  <2>3. QED
    BY <2>1, <2>2, NoRequestType, NoEntriesType
    DEF Init, TypeInv, TypeOK, StagedOK
<1>2. TypeInv /\ [Next]_vars => TypeInv'
  <2> SUFFICES ASSUME TypeInv, [Next]_vars
               PROVE  TypeInv'
    OBVIOUS
  <2> USE ConstantsAssumption, NoRequestType, NoEntriesType
          DEF TypeInv, TypeOK, StagedOK, onDisk, budget, Fault, AfterError,
              NoteGoingOn
  <2>1. CASE Acquire
    BY <2>1 DEF Acquire, Listed
  <2>2. CASE Release
    BY <2>2 DEF Release
  <2>3. CASE BeginTransaction
    BY <2>3 DEF BeginTransaction, Requests, Touched
  <2>4. ASSUME NEW t \in Target, SnapshotTarget(t)
        PROVE  TypeInv'
    BY <2>4 DEF SnapshotTarget, FreeIds, Entry
  <2>5. CASE SnapshotFails
    BY <2>5 DEF SnapshotFails
  <2>6. CASE WriteJournal
    BY <2>6 DEF WriteJournal, Touched
  <2>7. CASE JournalWriteFails
    BY <2>7 DEF JournalWriteFails
  <2>8. ASSUME NEW t \in Target, CommitFile(t)
        PROVE  TypeInv'
    <3>1. disk' \in [Target -> FileState]
      BY <2>8 DEF CommitFile, Touched
    <3>2. QED
      BY <2>8, <3>1 DEF CommitFile
  <2>9. ASSUME NEW t \in Target, CommitFails(t)
        PROVE  TypeInv'
    <3>1. disk' \in [Target -> FileState]
      BY <2>9 DEF CommitFails, Touched
    <3>2. faults' \in 0..MaxFaults /\ crashes' \in 0..MaxCrashes
      BY <2>9 DEF CommitFails
    <3>3. /\ pc' = "undo" /\ answer' = "error" /\ incomplete' = FALSE
          /\ todo' = Listed(entries) /\ staged' = NoRequest
          /\ UNCHANGED <<copies, journal, entries, wentOn>>
      BY <2>9 DEF CommitFails
    <3>4. QED
      BY <3>1, <3>2, <3>3 DEF Listed
  <2>10. ASSUME NEW t \in Target, RestoreFile(t)
         PROVE  TypeInv'
    BY <2>10, SavedType DEF RestoreFile
  <2>11. ASSUME NEW t \in Target, RestoreFails(t)
         PROVE  TypeInv'
    BY <2>11, SavedType DEF RestoreFails, FileState
  <2>12. CASE GiveUpUndo
    BY <2>12 DEF GiveUpUndo
  <2>13. CASE RemoveJournal
    BY <2>13 DEF RemoveJournal
  <2>14. CASE JournalRemoveFails
    BY <2>14 DEF JournalRemoveFails
  <2>15. CASE Cleanup
    BY <2>15 DEF Cleanup, FileState
  <2>16. CASE BeginSave
    BY <2>16 DEF BeginSave, FileState
  <2>17. CASE SaveState
    BY <2>17 DEF SaveState
  <2>18. CASE SaveFails
    BY <2>18 DEF SaveFails
  <2>19. CASE Crash
    <3>1. crashes' \in 0..MaxCrashes /\ UNCHANGED <<disk, copies, journal, faults>>
      BY <2>19 DEF Crash
    <3>2. QED
      BY <2>19, <3>1 DEF Crash
  <2>20. CASE UNCHANGED vars
    BY <2>20 DEF vars
  <2>21. QED
    BY <2>1, <2>2, <2>3, <2>4, <2>5, <2>6, <2>7, <2>8, <2>9, <2>10, <2>11,
       <2>12, <2>13, <2>14, <2>15, <2>16, <2>17, <2>18, <2>19, <2>20
    DEF Next, Progress, Failure
<1>3. QED
  BY <1>1, <1>2, PTL DEF Spec

\* The type invariant the runs check (every variable of FileTransaction).
THEOREM TypeCorrect == Spec => []TypeOK
  BY TypeInvariant, PTL DEF TypeInv

-----------------------------------------------------------------------------
(* The journal, for holders of either kind: those that return at the first  *)
(* failed operation and those that go on.                                   *)

\* Nothing is listed in an absent journal, and recovering it changes nothing.
LEMMA EmptyJournal ==
  \A t \in Target : NoEntries[t] = Unlisted /\ NoEntries[t] \notin CopyId
  BY ConstantsAssumption DEF NoEntries

\* Removing copies cannot hurt a journal that is not there.
LEMMA AbsentJournal ==
  ASSUME journal' = NoEntries
  PROVE  (Backed(journal) /\ Distinct(journal))'
  BY EmptyJournal DEF Backed, Distinct

\* Whoever works under the lock has settled files, or left the journal there
\* itself and went on.
QuietInv ==
    \/ pc \in {"held", "save", "snapshot"}
    \/ pc = "cleanup" /\ answer # "error"
    => journal = NoEntries \/ wentOn

LEMMA QuietInvariant == Spec => []QuietInv
<1>1. Init => QuietInv
  BY DEF Init, QuietInv
<1>2. TypeInv /\ QuietInv /\ [Next]_vars => QuietInv'
  <2> SUFFICES ASSUME TypeInv, QuietInv, [Next]_vars
               PROVE  QuietInv'
    OBVIOUS
  <2> USE DEF onDisk, QuietInv
  <2>0. wentOn \in BOOLEAN
    BY DEF TypeInv, TypeOK
  <2>1. CASE Acquire
    BY <2>1 DEF Acquire
  <2>2. CASE Release \/ BeginTransaction \/ BeginSave \/ SaveState
    BY <2>2 DEF Release, BeginTransaction, BeginSave, SaveState
  <2>3. CASE WriteJournal \/ RemoveJournal
    BY <2>3 DEF WriteJournal, RemoveJournal
  <2>4. CASE GiveUpUndo
    <3>1. pc' \in {"held", "free"} /\ (pc' = "held" => answer' = "error")
      BY <2>4 DEF GiveUpUndo, AfterError
    <3>2. pc' = "held" => journal' = NoEntries \/ wentOn'
      BY <2>0, <2>4, <3>1 DEF GiveUpUndo, NoteGoingOn
    <3>3. QED
      BY <3>1, <3>2
  <2>5. CASE JournalRemoveFails
    <3>1. pc' \in {"held", "free"} /\ (pc' = "held" => answer' = "error")
      BY <2>5 DEF JournalRemoveFails, AfterError
    <3>2. pc' = "held" => journal' = NoEntries \/ wentOn'
      BY <2>0, <2>5, <3>1 DEF JournalRemoveFails, NoteGoingOn
    <3>3. QED
      BY <3>1, <3>2
  <2>6. CASE Cleanup
    <3>1. /\ pc = "cleanup" /\ pc' \in {"held", "free"}
          /\ UNCHANGED <<journal, answer>> /\ NoteGoingOn
      BY <2>6 DEF Cleanup, AfterError, TypeInv, TypeOK
    <3>2. CASE answer = "error"
      <4>1. pc' = "held" => journal' = NoEntries \/ wentOn'
        BY <2>0, <3>1, <3>2 DEF NoteGoingOn
      <4>2. QED
        BY <3>1, <4>1
    <3>3. CASE answer # "error"
      <4>1. journal = NoEntries \/ wentOn
        BY <3>1, <3>3
      <4>2. wentOn => wentOn'
        BY <2>0, <3>1 DEF NoteGoingOn
      <4>3. QED
        BY <3>1, <4>1, <4>2
    <3>4. QED
      BY <3>2, <3>3
  <2>7. CASE SnapshotFails \/ JournalWriteFails \/ SaveFails \/ Crash
    BY <2>7 DEF SnapshotFails, JournalWriteFails, SaveFails, Crash
  <2>8. CASE \E t \in Target : SnapshotTarget(t) \/ CommitFile(t) \/ RestoreFile(t)
    BY <2>8 DEF SnapshotTarget, CommitFile, RestoreFile
  <2>9. CASE \E t \in Target : CommitFails(t) \/ RestoreFails(t)
    BY <2>9 DEF CommitFails, RestoreFails
  <2>10. CASE UNCHANGED vars
    BY <2>10 DEF vars
  <2>11. QED
    BY <2>1, <2>2, <2>3, <2>4, <2>5, <2>6, <2>7, <2>8, <2>9, <2>10
    DEF Next, Progress, Failure
<1>3. QED
  BY <1>1, <1>2, TypeInvariant, PTL DEF Spec

\* No operation of a lock holder runs on files a dead one left half-applied:
\* a pending journal is its own (AcquireStateLock, monitor.go:100-108).
THEOREM SettledWhenHeld == Spec => []HeldMeansSettled
<1>1. QuietInv => HeldMeansSettled
  BY DEF QuietInv, HeldMeansSettled
<1>2. QED
  BY <1>1, QuietInvariant, PTL

\* Only a transaction whose snapshots are complete writes the journal, and a
\* holder that did not leave one there itself starts them when none is
\* pending: until a journal is removed, it names the copies of the bundle it
\* was written for, or was replaced by the holder that went on after leaving
\* it (executeFileTransaction, monitor.go:100-108).
THEOREM JournalsAreKept == Spec => JournalNeverReplaced
<1>1. QuietInv /\ [Next]_vars
        => [journal # NoEntries /\ ~wentOn =>
               journal' \in {journal, NoEntries}]_vars
  <2> SUFFICES ASSUME QuietInv, Next, journal # NoEntries, ~wentOn
               PROVE  journal' \in {journal, NoEntries}
    OBVIOUS
  <2> USE DEF onDisk
  <2>1. CASE RemoveJournal
    BY <2>1 DEF RemoveJournal
  <2>2. CASE WriteJournal \/ JournalWriteFails
    BY <2>2 DEF WriteJournal, JournalWriteFails, QuietInv
  <2>3. CASE Acquire \/ Release \/ BeginTransaction \/ GiveUpUndo \/ Cleanup
             \/ BeginSave \/ SaveState
    BY <2>3 DEF Acquire, Release, BeginTransaction, GiveUpUndo, Cleanup,
       BeginSave, SaveState
  <2>4. CASE \E t \in Target : SnapshotTarget(t) \/ CommitFile(t) \/ RestoreFile(t)
    BY <2>4 DEF SnapshotTarget, CommitFile, RestoreFile
  <2>5. CASE SnapshotFails \/ JournalRemoveFails \/ SaveFails \/ Crash
    BY <2>5 DEF SnapshotFails, JournalRemoveFails, SaveFails, Crash
  <2>6. CASE \E t \in Target : CommitFails(t) \/ RestoreFails(t)
    BY <2>6 DEF CommitFails, RestoreFails
  <2>7. QED
    BY <2>1, <2>2, <2>3, <2>4, <2>5, <2>6 DEF Next, Progress, Failure
<1>2. QED
  BY <1>1, QuietInvariant, PTL DEF Spec, JournalNeverReplaced

\* No copy of one journal is named by another.
Apart(j, k) == \A t, u \in Target : j[t] \in CopyId => k[u] # j[t]

\* The journal on disk is backed by copies of its own.  A holder that goes on
\* makes new copies next to those of the journal it left, and removes only
\* copies of a transaction whose journal is gone or was never written.
RestorableInv ==
    /\ Backed(journal) /\ Distinct(journal)
    /\ pc \in {"commit", "undo"} => entries = journal
    /\ pc = "snapshot" =>
          /\ Backed(entries) /\ Distinct(entries)
          /\ \A t \in todo : entries[t] = Unlisted
    /\ pc \in {"snapshot", "cleanup"} => Apart(entries, journal)

\* Recovery never finds a rollback copy missing or shared, whatever kind of
\* holder left the journal, as long as a journal that was renamed into place
\* is reported as written (rollbackFileTransaction).
THEOREM JournalRestorable ==
  ASSUME "journal" \notin ChmodFails
  PROVE  Spec => []PendingJournalIsRestorable
<1>1. Init => RestorableInv
  BY EmptyJournal DEF Init, RestorableInv, Backed, Distinct
<1>2. TypeInv /\ RestorableInv /\ [Next]_vars => RestorableInv'
  <2> SUFFICES ASSUME TypeInv, RestorableInv, [Next]_vars
               PROVE  RestorableInv'
    OBVIOUS
  <2> USE ConstantsAssumption
  <2> USE DEF onDisk
  <2>a. /\ entries \in [Target -> Entry] /\ journal \in [Target -> Entry]
        /\ copies \in [CopyId -> FileState] /\ todo \subseteq Target
    BY DEF TypeInv, TypeOK
  <2>b. ASSUME UNCHANGED <<copies, journal>>
        PROVE  (Backed(journal) /\ Distinct(journal))'
    BY <2>b DEF RestorableInv, Backed, Distinct
  <2>c. AfterError \in {"held", "free"}
    BY DEF AfterError
  <2>1. CASE Acquire
    <3>1. /\ pc' \in {"held", "undo"} /\ entries' = journal
          /\ UNCHANGED <<copies, journal>>
      BY <2>1 DEF Acquire
    <3>2. QED
      BY <3>1, <2>b DEF RestorableInv
  <2>2. CASE Release \/ BeginSave \/ SaveState \/ SaveFails \/ Crash
    <3>1. pc' \in {"free", "held", "save"} /\ UNCHANGED <<copies, journal>>
      BY <2>2 DEF Release, BeginSave, SaveState, SaveFails, Crash
    <3>2. QED
      BY <3>1, <2>b DEF RestorableInv
  <2>3. CASE BeginTransaction
    <3>1. /\ pc' = "snapshot" /\ entries' = NoEntries
          /\ todo' \subseteq Target /\ UNCHANGED <<copies, journal>>
      BY <2>3 DEF BeginTransaction, Touched
    <3>2. QED
      BY <3>1, <2>b, EmptyJournal DEF RestorableInv, Backed, Distinct, Apart
  <2>4. ASSUME NEW t \in Target, SnapshotTarget(t)
        PROVE  RestorableInv'
    <3>1. /\ pc = "snapshot" /\ pc' = "snapshot" /\ t \in todo
          /\ todo' = todo \ {t} /\ UNCHANGED journal
      BY <2>4 DEF SnapshotTarget
    <3>2. /\ Backed(entries) /\ Distinct(entries) /\ Apart(entries, journal)
          /\ Backed(journal) /\ Distinct(journal)
          /\ \A u \in todo : entries[u] = Unlisted
      BY <3>1 DEF RestorableInv
    <3>3. ASSUME NEW e \in CopyId \cup {New}, entries' = [entries EXCEPT ![t] = e]
          PROVE  \A u \in todo' : entries'[u] = Unlisted
      BY <2>a, <3>1, <3>2, <3>3
    <3>4. CASE entries' = [entries EXCEPT ![t] = New] /\ UNCHANGED copies
      <4>1. Backed(entries)' /\ Distinct(entries)' /\ Apart(entries, journal)'
        BY <2>a, <3>1, <3>2, <3>4 DEF Backed, Distinct, Apart
      <4>2. QED
        BY <2>b, <3>1, <3>3, <3>4, <4>1 DEF RestorableInv
    <3>5. ASSUME NEW id \in CopyId, copies[id] = Absent, disk[t] # Absent,
                 entries' = [entries EXCEPT ![t] = id],
                 copies' = [copies EXCEPT ![id] = disk[t]]
          PROVE  RestorableInv'
      <4>1. /\ \A u \in Target : entries[u] # id /\ journal[u] # id
            /\ entries'[t] = id /\ copies'[id] # Absent
            /\ \A u \in Target \ {t} : entries'[u] = entries[u]
            /\ \A c \in CopyId \ {id} : copies'[c] = copies[c]
        BY <2>a, <3>2, <3>5 DEF Backed
      <4>2. Backed(entries)' /\ Distinct(entries)'
        BY <2>a, <3>2, <4>1 DEF Backed, Distinct
      <4>3. Apart(entries, journal)'
        BY <2>a, <3>1, <3>2, <4>1 DEF Apart
      <4>4. Backed(journal)' /\ Distinct(journal)'
        BY <2>a, <3>1, <3>2, <4>1 DEF Backed, Distinct
      <4>5. \A u \in todo' : entries'[u] = Unlisted
        BY <3>3, <3>5
      <4>6. QED
        BY <3>1, <4>2, <4>3, <4>4, <4>5 DEF RestorableInv
    <3>6. QED
      BY <2>4, <3>4, <3>5 DEF SnapshotTarget, FreeIds
  <2>5. CASE SnapshotFails \/ JournalWriteFails
    <3>1. /\ pc = "snapshot" /\ pc' = "cleanup"
          /\ UNCHANGED <<copies, journal, entries>>
      BY <2>5 DEF SnapshotFails, JournalWriteFails
    <3>2. Apart(entries, journal)'
      BY <3>1 DEF RestorableInv, Apart
    <3>3. QED
      BY <3>1, <3>2, <2>b DEF RestorableInv
  <2>6. CASE WriteJournal
    <3>1. /\ pc = "snapshot" /\ pc' = "commit" /\ journal' = entries
          /\ UNCHANGED <<copies, entries>>
      BY <2>6 DEF WriteJournal
    <3>2. QED
      BY <3>1 DEF RestorableInv, Backed, Distinct
  <2>7. CASE \E t \in Target : CommitFile(t) \/ CommitFails(t)
                               \/ RestoreFile(t) \/ RestoreFails(t)
    <3>1. /\ pc \in {"commit", "undo"} /\ pc' \in {"commit", "undo"}
          /\ UNCHANGED <<copies, journal, entries>>
      BY <2>7 DEF CommitFile, CommitFails, RestoreFile, RestoreFails
    <3>2. QED
      BY <3>1, <2>b DEF RestorableInv
  <2>8. CASE GiveUpUndo \/ JournalRemoveFails
    <3>1. pc' \in {"held", "free"} /\ UNCHANGED <<copies, journal>>
      BY <2>8, <2>c DEF GiveUpUndo, JournalRemoveFails
    <3>2. QED
      BY <3>1, <2>b DEF RestorableInv
  <2>9. CASE RemoveJournal
    <3>1. pc' = "cleanup" /\ journal' = NoEntries /\ UNCHANGED entries
      BY <2>9 DEF RemoveJournal
    <3>2. Apart(entries, journal)'
      BY <2>a, <3>1, EmptyJournal DEF Apart
    <3>3. QED
      BY <3>1, <3>2, AbsentJournal DEF RestorableInv
  <2>10. CASE Cleanup
    <3>1. /\ pc = "cleanup" /\ pc' \in {"held", "free"} /\ UNCHANGED journal
          /\ \A id \in CopyId : id \notin NamedCopies(entries) =>
                copies'[id] = copies[id]
      BY <2>10, <2>c DEF Cleanup, TypeInv, TypeOK
    <3>2. \A t \in Target : journal[t] \notin NamedCopies(entries)
      BY <3>1 DEF RestorableInv, Apart, NamedCopies
    <3>3. Backed(journal)' /\ Distinct(journal)'
      BY <3>1, <3>2 DEF RestorableInv, Backed, Distinct
    <3>4. QED
      BY <3>1, <3>3 DEF RestorableInv
  <2>11. CASE UNCHANGED vars
    BY <2>11 DEF vars, RestorableInv, Backed, Distinct, Apart
  <2>12. QED
    BY <2>1, <2>2, <2>3, <2>4, <2>5, <2>6, <2>7, <2>8, <2>9, <2>10, <2>11
    DEF Next, Progress, Failure
<1>3. RestorableInv => PendingJournalIsRestorable
  BY DEF RestorableInv, PendingJournalIsRestorable, Backed, Distinct, Listed
<1>4. QED
  BY <1>1, <1>2, <1>3, TypeInvariant, PTL DEF Spec

-----------------------------------------------------------------------------
(* The whole transaction, for a holder that returns at the first failed     *)
(* operation and a journal that is either written or not.                   *)

Disciplined == ~ContinueAfterError /\ "journal" \notin ChmodFails

\* A step that leaves journal and copies alone keeps the journal restorable.
LEMMA SameJournal ==
  ASSUME TransactionInv, UNCHANGED <<copies, journal>>
  PROVE  (Backed(journal) /\ Distinct(journal))'
  BY DEF TransactionInv, Backed, Distinct

\* The inductive invariant holds at every step of every transaction, recovery
\* and save of such holders, and across a crash at any of them.
THEOREM TransactionInvariant ==
  ASSUME Disciplined
  PROVE  Spec => []TransactionInv
<1>1. Init => TransactionInv
  BY EmptyJournal DEF Init, TransactionInv, Backed, Distinct, SnapshotInv,
     CommitInv, UndoInv, RequestInv
<1>2. TypeInv /\ TransactionInv /\ [Next]_vars => TransactionInv'
  <2> SUFFICES ASSUME TypeInv, TransactionInv, [Next]_vars
               PROVE  TransactionInv'
    OBVIOUS
  <2> USE ConstantsAssumption
  <2> USE DEF onDisk, budget, Fault
  <2>0. AfterError = "free" /\ "journal" \notin ChmodFails
    BY DEF AfterError, Disciplined
  <2>1. CASE Acquire
    <3>1. pc' \in {"held", "undo"} /\ (pc' = "held" => journal = NoEntries)
      BY <2>1 DEF Acquire
    <3>2. pc' = "undo" => UndoInv'
      BY <2>1, SameJournal DEF Acquire, UndoInv, Listed, Saved
    <3>3. staged' = NoRequest
      BY <2>1 DEF Acquire, TransactionInv, RequestInv
    <3>4. UNCHANGED <<copies, journal>>
      BY <2>1 DEF Acquire
    <3>5. QED
      BY <3>1, <3>2, <3>3, <3>4, SameJournal
      DEF TransactionInv, SnapshotInv, CommitInv, UndoInv, RequestInv
  <2>2. CASE Release
    <3>1. pc' = "free" /\ staged' = NoRequest /\ UNCHANGED <<copies, journal>>
      BY <2>2 DEF Release, TransactionInv, RequestInv
    <3>2. QED
      BY <3>1, SameJournal
      DEF TransactionInv, SnapshotInv, CommitInv, UndoInv, RequestInv
  <2>3. CASE BeginTransaction
    <3>1. /\ pc' = "snapshot" /\ journal' = NoEntries /\ entries' = NoEntries
          /\ staged' # NoRequest /\ todo' = Touched(staged)'
          /\ UNCHANGED <<copies, journal>>
      BY <2>3 DEF BeginTransaction, TransactionInv, Requests, Touched
    <3>2. SnapshotInv'
      BY <3>1, EmptyJournal DEF SnapshotInv, Backed, Distinct
    <3>3. QED
      BY <3>1, <3>2, SameJournal
      DEF TransactionInv, CommitInv, UndoInv, RequestInv
  <2>4. ASSUME NEW t \in Target, SnapshotTarget(t)
        PROVE  TransactionInv'
    <3>1. /\ pc = "snapshot" /\ pc' = "snapshot" /\ t \in todo
          /\ todo' = todo \ {t} /\ journal' = NoEntries
          /\ UNCHANGED <<disk, staged>>
      BY <2>4 DEF SnapshotTarget, TransactionInv
    <3>2. /\ entries \in [Target -> Entry]
          /\ copies \in [CopyId -> FileState]
          /\ entries[t] = Unlisted
          /\ SnapshotInv
      BY <3>1 DEF TypeInv, TypeOK, TransactionInv, SnapshotInv
    <3>3. CASE disk[t] = Absent
      <4>1. entries' = [entries EXCEPT ![t] = New] /\ copies' = copies
        BY <2>4, <3>3 DEF SnapshotTarget
      <4>2. SnapshotInv'
        BY <3>1, <3>2, <3>3, <4>1
        DEF SnapshotInv, Backed, Distinct, Saved, Touched
      <4>3. QED
        BY <3>1, <4>2, AbsentJournal
        DEF TransactionInv, CommitInv, UndoInv, RequestInv
    <3>4. CASE disk[t] # Absent
      <4>1. PICK id \in CopyId :
               /\ copies[id] = Absent
               /\ entries' = [entries EXCEPT ![t] = id]
               /\ copies' = [copies EXCEPT ![id] = disk[t]]
        BY <2>4, <3>4 DEF SnapshotTarget, FreeIds
      <4>2. \A u \in Target : entries[u] # id
        BY <3>1, <3>2, <4>1 DEF SnapshotInv, Backed
      <4>3. \A u \in Target \ {t} :
               /\ entries'[u] = entries[u]
               /\ entries[u] \in CopyId => copies'[entries[u]] = copies[entries[u]]
        BY <3>2, <4>1, <4>2
      <4>4. entries'[t] = id /\ copies'[id] = disk[t]
        BY <3>2, <4>1
      <4>5. Backed(entries)' /\ Distinct(entries)'
        BY <3>1, <3>2, <3>4, <4>2, <4>3, <4>4
        DEF SnapshotInv, Backed, Distinct
      <4>6. \A u \in Target :
               /\ entries'[u] # Unlisted <=> u \in Touched(staged) \ todo'
               /\ entries'[u] # Unlisted => Saved(entries, u)' = disk[u]
        <5>1. ASSUME NEW u \in Target \ {t}
              PROVE  /\ entries'[u] # Unlisted <=> u \in Touched(staged) \ todo'
                     /\ entries'[u] # Unlisted => Saved(entries, u)' = disk[u]
          BY <3>1, <3>2, <4>3, <5>1 DEF SnapshotInv, Saved
        <5>2. /\ entries'[t] # Unlisted <=> t \in Touched(staged) \ todo'
              /\ entries'[t] # Unlisted => Saved(entries, t)' = disk[t]
          BY <3>1, <3>2, <4>4 DEF SnapshotInv, Saved
        <5>3. QED
          BY <5>1, <5>2
      <4>7. SnapshotInv'
        BY <3>1, <3>2, <4>5, <4>6 DEF SnapshotInv, Touched
      <4>8. QED
        BY <3>1, <4>7, AbsentJournal
        DEF TransactionInv, CommitInv, UndoInv, RequestInv
    <3>5. QED
      BY <3>3, <3>4
  <2>5. CASE SnapshotFails
    <3>1. /\ pc' = "cleanup" /\ staged' = NoRequest /\ journal' = NoEntries
      BY <2>5 DEF SnapshotFails, TransactionInv
    <3>2. QED
      BY <3>1, AbsentJournal
      DEF TransactionInv, SnapshotInv, CommitInv, UndoInv, RequestInv
  <2>6. CASE WriteJournal
    <3>1. /\ pc = "snapshot" /\ pc' = "commit" /\ todo = {}
          /\ journal' = entries /\ todo' = Touched(staged)
          /\ UNCHANGED <<disk, copies, staged, entries>>
      BY <2>6 DEF WriteJournal
    <3>2. Backed(journal)' /\ Distinct(journal)'
      BY <3>1 DEF TransactionInv, SnapshotInv, Backed, Distinct
    <3>3. CommitInv'
      BY <3>1 DEF TransactionInv, SnapshotInv, CommitInv, Touched
    <3>4. QED
      BY <3>1, <3>2, <3>3
      DEF TransactionInv, SnapshotInv, UndoInv, RequestInv
  <2>7. CASE JournalWriteFails
    <3>1. /\ pc' = "cleanup" /\ staged' = NoRequest /\ journal' = NoEntries
      BY <2>0, <2>7 DEF JournalWriteFails, TransactionInv
    <3>2. QED
      BY <3>1, AbsentJournal
      DEF TransactionInv, SnapshotInv, CommitInv, UndoInv, RequestInv
  <2>8. ASSUME NEW t \in Target, CommitFile(t)
        PROVE  TransactionInv'
    <3>1. /\ pc = "commit" /\ pc' = "commit" /\ t \in todo
          /\ disk' = [disk EXCEPT ![t] = staged[t]] /\ todo' = todo \ {t}
          /\ UNCHANGED <<copies, journal, staged, entries>>
      BY <2>8 DEF CommitFile
    <3>2. CommitInv'
      BY <3>1 DEF TransactionInv, CommitInv, TypeInv, TypeOK, Touched
    <3>3. QED
      BY <3>1, <3>2, SameJournal
      DEF TransactionInv, SnapshotInv, UndoInv, RequestInv
  <2>9. ASSUME NEW t \in Target, CommitFails(t)
        PROVE  TransactionInv'
    <3>1. /\ pc = "commit" /\ pc' = "undo" /\ todo' = Listed(entries)
          /\ staged' = NoRequest
          /\ UNCHANGED <<copies, journal, entries>>
      BY <2>9 DEF CommitFails
    <3>2. UndoInv'
      BY <3>1 DEF TransactionInv, CommitInv, UndoInv, Listed
    <3>3. QED
      BY <3>1, <3>2, SameJournal
      DEF TransactionInv, SnapshotInv, CommitInv, RequestInv
  <2>10. ASSUME NEW t \in Target, RestoreFile(t)
         PROVE  TransactionInv'
    <3>1. /\ pc = "undo" /\ pc' = "undo" /\ t \in todo
          /\ disk' = [disk EXCEPT ![t] = Saved(entries, t)]
          /\ todo' = todo \ {t}
          /\ UNCHANGED <<copies, journal, staged, entries, incomplete>>
      BY <2>10 DEF RestoreFile
    <3>2. UndoInv'
      BY <3>1 DEF TransactionInv, UndoInv, TypeInv, TypeOK, Saved
    <3>3. QED
      BY <3>1, <3>2, SameJournal
      DEF TransactionInv, SnapshotInv, CommitInv, RequestInv
  <2>11. ASSUME NEW t \in Target, RestoreFails(t)
         PROVE  TransactionInv'
    <3>1. /\ pc = "undo" /\ pc' = "undo" /\ incomplete' = TRUE
          /\ todo' = todo \ {t}
          /\ UNCHANGED <<copies, journal, staged, entries>>
      BY <2>11 DEF RestoreFails
    <3>2. UndoInv'
      BY <3>1 DEF TransactionInv, UndoInv, Listed
    <3>3. QED
      BY <3>1, <3>2, SameJournal
      DEF TransactionInv, SnapshotInv, CommitInv, RequestInv
  <2>12. CASE GiveUpUndo
    <3>1. pc' = "free" /\ staged' = NoRequest /\ UNCHANGED <<copies, journal>>
      BY <2>0, <2>12 DEF GiveUpUndo, TransactionInv, RequestInv
    <3>2. QED
      BY <3>1, SameJournal
      DEF TransactionInv, SnapshotInv, CommitInv, UndoInv, RequestInv
  <2>13. CASE RemoveJournal
    <3>1. pc' = "cleanup" /\ staged' = NoRequest /\ journal' = NoEntries
      BY <2>13 DEF RemoveJournal
    <3>2. QED
      BY <3>1, AbsentJournal
      DEF TransactionInv, SnapshotInv, CommitInv, UndoInv, RequestInv
  <2>14. CASE JournalRemoveFails
    <3>1. pc' = "free" /\ staged' = NoRequest /\ UNCHANGED <<copies, journal>>
      BY <2>0, <2>14 DEF JournalRemoveFails, TransactionInv, RequestInv
    <3>2. QED
      BY <3>1, SameJournal
      DEF TransactionInv, SnapshotInv, CommitInv, UndoInv, RequestInv
  <2>15. CASE Cleanup
    <3>1. /\ pc' \in {"held", "free"} /\ staged' = NoRequest
          /\ journal' = NoEntries
      BY <2>0, <2>15
      DEF Cleanup, TransactionInv, RequestInv, TypeInv, TypeOK
    <3>2. QED
      BY <3>1, AbsentJournal
      DEF TransactionInv, SnapshotInv, CommitInv, UndoInv, RequestInv
  <2>16. CASE BeginSave
    <3>1. /\ pc' = "save" /\ journal' = NoEntries
      BY <2>16 DEF BeginSave, TransactionInv
    <3>2. PICK c \in Content : staged' = [NoRequest EXCEPT ![StateFile] = c]
      BY <2>16 DEF BeginSave
    <3>3. RequestInv'
      BY <3>1, <3>2 DEF RequestInv, NoRequest
    <3>4. QED
      BY <3>1, <3>3, AbsentJournal
      DEF TransactionInv, SnapshotInv, CommitInv, UndoInv
  <2>17. CASE SaveState
    <3>1. pc' = "held" /\ staged' = NoRequest /\ journal' = NoEntries
      BY <2>17 DEF SaveState, TransactionInv
    <3>2. QED
      BY <3>1, AbsentJournal
      DEF TransactionInv, SnapshotInv, CommitInv, UndoInv, RequestInv
  <2>18. CASE SaveFails
    <3>1. pc' = "free" /\ staged' = NoRequest /\ journal' = NoEntries
      BY <2>18 DEF SaveFails, TransactionInv
    <3>2. QED
      BY <3>1, AbsentJournal
      DEF TransactionInv, SnapshotInv, CommitInv, UndoInv, RequestInv
  <2>19. CASE Crash
    <3>1. pc' = "free" /\ staged' = NoRequest /\ UNCHANGED <<copies, journal>>
      BY <2>19 DEF Crash
    <3>2. QED
      BY <3>1, SameJournal
      DEF TransactionInv, SnapshotInv, CommitInv, UndoInv, RequestInv
  <2>20. CASE UNCHANGED vars
    BY <2>20 DEF vars, TransactionInv, SnapshotInv, CommitInv, UndoInv,
       RequestInv, Backed, Distinct, Saved, Touched
  <2>21. QED
    BY <2>1, <2>2, <2>3, <2>4, <2>5, <2>6, <2>7, <2>8, <2>9, <2>10, <2>11,
       <2>12, <2>13, <2>14, <2>15, <2>16, <2>17, <2>18, <2>19, <2>20
    DEF Next, Progress, Failure
<1>3. QED
  BY <1>1, <1>2, TypeInvariant, PTL DEF Spec

-----------------------------------------------------------------------------
(* FileTransaction implements AtomicBundle.  The files an abstract step     *)
(* changes are the effective ones, so commits and restores are stutters and *)
(* the bundle takes effect in the one step that removes its journal.        *)

\* With no journal the effective files are the ones on disk.
LEMMA EffectiveSettled ==
  ASSUME TypeOK, journal = NoEntries
  PROVE  Effective = disk
  BY EmptyJournal DEF Effective, TypeOK

\* Steps that leave what a pending journal decides alone change no effective
\* file: a target may move on disk as long as the journal lists it.
LEMMA EffectiveUnchanged ==
  ASSUME TypeOK, TypeOK', UNCHANGED <<copies, journal>>,
         \A t \in Target : journal[t] = Unlisted => disk'[t] = disk[t]
  PROVE  UNCHANGED Effective
  BY DEF Effective, Saved

\* Every behaviour of the file layer with such holders, with its crashes, failed calls and
\* interrupted recoveries, is one in which bundles are applied atomically and
\* callers are told the truth (executeFileTransaction, recoverFileTransaction,
\* SaveState).
THEOREM TransactionsAreAtomic ==
  ASSUME Disciplined, "state" \notin ChmodFails
  PROVE  Spec => AtomicUpdates
<1> USE DEF Atomic!NoRequest, NoRequest
<1>1. Init => Atomic!Init
  <2> SUFFICES ASSUME Init
               PROVE  Atomic!Init
    OBVIOUS
  <2>1. Effective \in [Target -> FileState]
    BY EmptyJournal DEF Init, Effective
  <2>2. QED
    BY <2>1 DEF Init, Atomic!Init, Atomic!FileState, FileState
<1>2. TypeInv /\ TypeInv' /\ TransactionInv /\ [Next]_vars
        => [Atomic!Next]_(Atomic!vars)
  <2> SUFFICES ASSUME TypeInv, TypeInv', TransactionInv, [Next]_vars
               PROVE  Atomic!Begin \/ Atomic!Apply \/ Atomic!Refuse
                      \/ Atomic!Forget \/ UNCHANGED <<Effective, staged, answer>>
    BY DEF Atomic!Next, Atomic!vars
  <2> USE ConstantsAssumption
  <2> USE DEF onDisk, budget, Fault, TypeInv
  <2>0. AfterError = "free" /\ "journal" \notin ChmodFails
    BY DEF AfterError, Disciplined
  <2>a. UNCHANGED <<disk, copies, journal>> => UNCHANGED Effective
    BY DEF Effective, Saved
  <2>b. journal = NoEntries /\ journal' = NoEntries /\ disk' = disk
          => UNCHANGED Effective
    BY EffectiveSettled, EmptyJournal DEF Effective, TypeOK
  <2>1. CASE Acquire
    BY <2>1, <2>a
    DEF Acquire, Atomic!Forget, TransactionInv, RequestInv
  <2>2. CASE Release
    BY <2>2, <2>a
    DEF Release, Atomic!Forget, TransactionInv, RequestInv
  <2>3. CASE BeginTransaction
    BY <2>3, <2>a
    DEF BeginTransaction, Atomic!Begin, Atomic!Requests, Requests, FileState,
        Atomic!FileState, TransactionInv, RequestInv
  <2>4. ASSUME NEW t \in Target, SnapshotTarget(t)
        PROVE  UNCHANGED <<Effective, staged, answer>>
    BY <2>4, <2>b DEF SnapshotTarget, TransactionInv
  <2>5. CASE SnapshotFails
    BY <2>5, <2>a
    DEF SnapshotFails, Atomic!Refuse, TransactionInv, SnapshotInv
  <2>6. CASE WriteJournal
    <3>1. UNCHANGED <<staged, answer, disk, copies>> /\ journal' = entries
          /\ SnapshotInv /\ journal = NoEntries
      BY <2>6 DEF WriteJournal, TransactionInv
    <3>2. \A t \in Target : entries[t] # Unlisted => Saved(entries, t) = disk[t]
      BY <2>6, <3>1 DEF WriteJournal, SnapshotInv
    <3>3. Effective = disk
      BY <3>1, EffectiveSettled
    <3>4. Effective' = disk
      BY <3>1, <3>2 DEF Effective, Saved, TypeOK
    <3>5. QED
      BY <3>1, <3>3, <3>4
  <2>7. CASE JournalWriteFails
    BY <2>0, <2>7, <2>a
    DEF JournalWriteFails, Atomic!Refuse, TransactionInv, SnapshotInv
  <2>8. ASSUME NEW t \in Target, CommitFile(t)
        PROVE  UNCHANGED <<Effective, staged, answer>>
    <3>1. journal[t] # Unlisted /\ UNCHANGED <<copies, journal, staged, answer>>
      BY <2>8 DEF CommitFile, TransactionInv, CommitInv, Touched
    <3>2. \A u \in Target : journal[u] = Unlisted => disk'[u] = disk[u]
      BY <2>8, <3>1 DEF CommitFile, TypeOK
    <3>3. QED
      BY <3>1, <3>2, EffectiveUnchanged
  <2>9. ASSUME NEW t \in Target, CommitFails(t)
        PROVE  Atomic!Refuse
    <3>1. /\ journal[t] # Unlisted /\ UNCHANGED <<copies, journal>>
          /\ staged # NoRequest /\ staged' = NoRequest /\ answer' = "error"
      BY <2>9 DEF CommitFails, TransactionInv, CommitInv, Touched
    <3>2. \A u \in Target : journal[u] = Unlisted => disk'[u] = disk[u]
      BY <2>9, <3>1 DEF CommitFails, TypeOK
    <3>3. QED
      BY <3>1, <3>2, EffectiveUnchanged DEF Atomic!Refuse
  <2>10. ASSUME NEW t \in Target, RestoreFile(t) \/ RestoreFails(t)
         PROVE  UNCHANGED <<Effective, staged, answer>>
    <3>1. /\ t \in todo /\ UNCHANGED <<copies, journal, staged, answer>>
          /\ \A u \in Target \ {t} : disk'[u] = disk[u]
      BY <2>10 DEF RestoreFile, RestoreFails, TypeOK
    <3>2. journal[t] # Unlisted
      BY <2>10 DEF RestoreFile, RestoreFails, TransactionInv, UndoInv, Listed
    <3>3. QED
      BY <3>1, <3>2, EffectiveUnchanged
  <2>12. CASE GiveUpUndo
    BY <2>12, <2>a DEF GiveUpUndo
  <2>13. CASE RemoveJournal
    <3>1. /\ journal' = NoEntries /\ staged' = NoRequest /\ todo = {}
          /\ ~incomplete /\ UNCHANGED <<disk, copies>> /\ pc \in {"commit", "undo"}
      BY <2>13 DEF RemoveJournal, LoopDone
    <3>2. Effective' = disk
      BY <3>1, EmptyJournal DEF Effective, TypeOK
    <3>3. CASE pc = "commit"
      <4>1. /\ staged # NoRequest /\ answer' = "ok"
            /\ \A t \in Target :
                  /\ journal[t] # Unlisted <=> staged[t] # Untouched
                  /\ staged[t] # Untouched => disk[t] = staged[t]
        BY <2>13, <3>1, <3>3 DEF RemoveJournal, TransactionInv, CommitInv
      <4>2. disk = Atomic!Updated(Effective, staged)
        BY <4>1 DEF Atomic!Updated, Effective, TypeOK
      <4>3. QED
        BY <3>1, <3>2, <4>1, <4>2 DEF Atomic!Apply
    <3>4. CASE pc = "undo"
      <4>1. UNCHANGED <<staged, answer>>
        BY <2>13, <3>1, <3>4 DEF RemoveJournal, TransactionInv, RequestInv
      <4>2. Effective = disk
        BY <3>1, <3>4 DEF TransactionInv, UndoInv, Effective, TypeOK
      <4>3. QED
        BY <3>2, <4>1, <4>2
    <3>5. QED
      BY <3>1, <3>3, <3>4
  <2>14. CASE JournalRemoveFails
    <3>1. /\ UNCHANGED <<disk, copies, journal>> /\ staged' = NoRequest
          /\ pc \in {"commit", "undo"}
      BY <2>14 DEF JournalRemoveFails, LoopDone
    <3>2. CASE pc = "commit"
      BY <2>14, <2>a, <3>1, <3>2
      DEF JournalRemoveFails, Atomic!Refuse, TransactionInv, CommitInv
    <3>3. CASE pc = "undo"
      BY <2>14, <2>a, <3>1, <3>3
      DEF JournalRemoveFails, TransactionInv, RequestInv
    <3>4. QED
      BY <3>1, <3>2, <3>3
  <2>15. CASE Cleanup
    BY <2>15, <2>b DEF Cleanup, TransactionInv
  <2>16. CASE BeginSave
    <3>1. PICK c \in Content : staged' = [NoRequest EXCEPT ![StateFile] = c]
      BY <2>16 DEF BeginSave
    <3>2. staged' \in Atomic!Requests
      BY <3>1 DEF Atomic!Requests, Atomic!FileState
    <3>3. QED
      BY <2>16, <2>a, <3>2
      DEF BeginSave, Atomic!Begin, TransactionInv, RequestInv
  <2>17. CASE SaveState
    <3>1. /\ staged[StateFile] \in Content
          /\ \A t \in Target \ {StateFile} : staged[t] = Untouched
          /\ journal = NoEntries /\ journal' = NoEntries
      BY <2>17 DEF SaveState, TransactionInv, RequestInv
    <3>2. Effective = disk /\ Effective' = disk'
      BY <3>1, EmptyJournal DEF Effective, TypeOK
    <3>3. disk' = Atomic!Updated(disk, staged)
      BY <2>17, <3>1 DEF SaveState, Atomic!Updated, TypeOK
    <3>4. QED
      BY <2>17, <3>1, <3>2, <3>3 DEF SaveState, Atomic!Apply
  <2>18. CASE SaveFails
    <3>1. /\ staged[StateFile] \in Content /\ UNCHANGED <<disk, copies, journal>>
          /\ staged' = NoRequest /\ answer' = "error"
      BY <2>18 DEF SaveFails, TransactionInv, RequestInv
    <3>2. staged # NoRequest
      BY <3>1
    <3>3. QED
      BY <2>a, <3>1, <3>2 DEF Atomic!Refuse
  <2>19. CASE Crash
    BY <2>19, <2>a DEF Crash, Atomic!Forget
  <2>20. CASE UNCHANGED vars
    BY <2>20, <2>a DEF vars
  <2>21. QED
    BY <2>1, <2>2, <2>3, <2>4, <2>5, <2>6, <2>7, <2>8, <2>9, <2>10,
       <2>12, <2>13, <2>14, <2>15, <2>16, <2>17, <2>18, <2>19, <2>20
    DEF Next, Progress, Failure
<1>3. QED
  BY <1>1, <1>2, TypeInvariant, TransactionInvariant, PTL
  DEF Spec, AtomicUpdates, Atomic!Spec

-----------------------------------------------------------------------------
(* What a run without failures leaves behind                                *)

\* While nothing fails, the rollback copies on disk are those the running
\* transaction knows of, and a journal exists only while it commits.
CopiesAreNamed ==
    \A id \in CopyId : copies[id] # Absent => id \in NamedCopies(entries)

CleanInv ==
    faults = 0 /\ crashes = 0 =>
        /\ pc # "undo"
        /\ pc # "commit" => journal = NoEntries
        /\ pc \in {"free", "held", "save"} => FreeIds = CopyId
        /\ CopiesAreNamed
        /\ pc = "snapshot" => \A t \in todo : entries[t] = Unlisted

\* A transaction that nothing disturbs removes all it put next to the managed
\* files, also when a snapshot cannot be taken and it is refused: for every
\* holder, those that go on after an error included.
THEOREM NothingIsLeftBehind == Spec => []CleanRunLeavesNothing
<1>1. Init => CleanInv
  BY DEF Init, CleanInv, FreeIds, CopiesAreNamed
<1>2. TypeInv /\ CleanInv /\ [Next]_vars => CleanInv'
  <2> SUFFICES ASSUME TypeInv, CleanInv, [Next]_vars,
                      faults' = 0, crashes' = 0
               PROVE  CleanInv'
    BY DEF CleanInv
  <2> USE DEF onDisk, budget
  <2>a. faults \in Nat /\ crashes \in Nat /\ ~Fault
    BY ConstantsAssumption DEF TypeInv, TypeOK, Fault
  <2>b. UNCHANGED budget => faults = 0 /\ crashes = 0
    OBVIOUS
  <2>c. UNCHANGED copies => FreeIds' = FreeIds
    BY DEF FreeIds
  <2>d. UNCHANGED <<copies, entries>> => (CopiesAreNamed => CopiesAreNamed')
    BY DEF CopiesAreNamed, NamedCopies
  <2>e. copies \in [CopyId -> FileState] /\ entries \in [Target -> Entry]
        /\ todo \subseteq Target
    BY DEF TypeInv, TypeOK
  <2>f. FreeIds = CopyId => \A id \in CopyId : copies[id] = Absent
    BY DEF FreeIds
  <2>1. CASE Acquire
    <3>1. UNCHANGED <<copies, journal>> /\ pc' \in {"held", "undo"} /\ UNCHANGED budget
          /\ pc = "free" /\ (journal = NoEntries => pc' = "held")
      BY <2>1 DEF Acquire
    <3>2. journal = NoEntries /\ FreeIds = CopyId
      BY <2>b, <3>1 DEF CleanInv
    <3>3. CopiesAreNamed'
      BY <2>f, <3>1, <3>2 DEF CopiesAreNamed
    <3>4. QED
      BY <2>c, <3>1, <3>2, <3>3 DEF CleanInv
  <2>2. CASE Release
    BY <2>2, <2>b, <2>c, <2>d DEF Release, CleanInv
  <2>3. CASE BeginTransaction
    <3>1. /\ UNCHANGED <<copies, journal>> /\ pc' = "snapshot" /\ pc = "held"
          /\ entries' = NoEntries /\ todo' \subseteq Target
          /\ UNCHANGED budget
      BY <2>3 DEF BeginTransaction, Touched
    <3>2. journal = NoEntries /\ FreeIds = CopyId
      BY <2>b, <3>1 DEF CleanInv
    <3>3. CopiesAreNamed'
      BY <2>f, <3>1, <3>2 DEF CopiesAreNamed
    <3>4. \A t \in todo' : entries'[t] = Unlisted
      BY <3>1, EmptyJournal
    <3>5. QED
      BY <3>1, <3>2, <3>3, <3>4 DEF CleanInv
  <2>4. ASSUME NEW t \in Target, SnapshotTarget(t)
        PROVE  CleanInv'
    <3>1. /\ pc = "snapshot" /\ pc' = "snapshot" /\ t \in todo
          /\ todo' = todo \ {t} /\ UNCHANGED journal /\ UNCHANGED budget
      BY <2>4 DEF SnapshotTarget
    <3>2. /\ journal = NoEntries /\ CopiesAreNamed
          /\ \A u \in todo : entries[u] = Unlisted
      BY <2>b, <3>1 DEF CleanInv
    <3>3. CASE entries' = [entries EXCEPT ![t] = New] /\ UNCHANGED copies
      <4>1. \A u \in Target \ {t} : entries'[u] = entries[u]
        BY <2>e, <3>3
      <4>2. ASSUME NEW id \in CopyId, copies'[id] # Absent
            PROVE  id \in NamedCopies(entries)'
        <5>1. PICK u \in Target : entries[u] = id
          BY <3>2, <3>3, <4>2 DEF CopiesAreNamed, NamedCopies
        <5>2. u # t
          BY <3>1, <3>2, <5>1, ConstantsAssumption
        <5>3. QED
          BY <4>1, <5>1, <5>2 DEF NamedCopies
      <4>3. \A u \in todo' : entries'[u] = Unlisted
        BY <2>e, <3>1, <3>2, <4>1
      <4>4. QED
        BY <3>1, <3>2, <4>2, <4>3 DEF CleanInv, CopiesAreNamed
    <3>4. ASSUME NEW new \in CopyId,
                 entries' = [entries EXCEPT ![t] = new],
                 copies' = [copies EXCEPT ![new] = disk[t]]
          PROVE  CleanInv'
      <4>1. /\ \A u \in Target \ {t} : entries'[u] = entries[u]
            /\ entries'[t] = new
        BY <2>e, <3>4
      <4>2. ASSUME NEW id \in CopyId, copies'[id] # Absent
            PROVE  id \in NamedCopies(entries)'
        <5>1. CASE id = new
          BY <4>1, <5>1 DEF NamedCopies
        <5>2. CASE id # new
          <6>1. copies[id] # Absent
            BY <2>e, <3>4, <4>2, <5>2
          <6>2. PICK u \in Target : entries[u] = id
            BY <3>2, <6>1 DEF CopiesAreNamed, NamedCopies
          <6>3. u # t
            BY <3>1, <3>2, <6>2, ConstantsAssumption
          <6>4. QED
            BY <4>1, <6>2, <6>3 DEF NamedCopies
        <5>3. QED
          BY <5>1, <5>2
      <4>3. \A u \in todo' : entries'[u] = Unlisted
        BY <2>e, <3>1, <3>2, <4>1
      <4>4. QED
        BY <3>1, <3>2, <4>2, <4>3 DEF CleanInv, CopiesAreNamed
    <3>5. QED
      BY <2>4, <3>3, <3>4 DEF SnapshotTarget, FreeIds
  <2>5. CASE SnapshotFails
    BY <2>5, <2>a, <2>b, <2>d DEF SnapshotFails, CleanInv
  <2>6. CASE WriteJournal
    BY <2>6, <2>b, <2>d DEF WriteJournal, CleanInv
  <2>7. CASE JournalWriteFails \/ JournalRemoveFails \/ SaveFails
    BY <2>7, <2>a DEF JournalWriteFails, JournalRemoveFails, SaveFails
  <2>8. ASSUME NEW t \in Target,
               CommitFile(t) \/ CommitFails(t) \/ RestoreFile(t) \/ RestoreFails(t)
        PROVE  CleanInv'
    BY <2>8, <2>a, <2>b, <2>d
    DEF CommitFile, CommitFails, RestoreFile, RestoreFails, CleanInv
  <2>9. CASE GiveUpUndo
    BY <2>9, <2>b DEF GiveUpUndo, CleanInv
  <2>10. CASE RemoveJournal
    BY <2>10, <2>b, <2>d DEF RemoveJournal, CleanInv
  <2>11. CASE Cleanup
    <3>1. PICK kept \in SUBSET NamedCopies(entries) :
             /\ IF kept = {} THEN UNCHANGED budget ELSE Fault
             /\ copies' = [id \in CopyId |->
                              IF id \in NamedCopies(entries) \ kept
                              THEN Absent ELSE copies[id]]
      BY <2>11 DEF Cleanup
    <3>2. kept = {} /\ UNCHANGED budget
      BY <2>a, <3>1
    <3>3. CopiesAreNamed /\ journal = NoEntries
      BY <2>11, <2>b, <3>2 DEF CleanInv, Cleanup
    <3>4. \A id \in CopyId : copies'[id] = Absent
      BY <3>1, <3>2, <3>3 DEF CopiesAreNamed
    <3>5. FreeIds' = CopyId /\ CopiesAreNamed'
      BY <3>4 DEF FreeIds, CopiesAreNamed
    <3>6. pc' \in {"held", "free"} /\ UNCHANGED journal
      BY <2>11 DEF Cleanup, AfterError, TypeInv, TypeOK
    <3>7. QED
      BY <3>3, <3>5, <3>6 DEF CleanInv
  <2>12. CASE BeginSave
    BY <2>12, <2>b, <2>c, <2>d DEF BeginSave, CleanInv
  <2>13. CASE SaveState
    BY <2>13, <2>b, <2>c, <2>d DEF SaveState, CleanInv
  <2>14. CASE Crash
    BY <2>14, <2>a DEF Crash
  <2>15. CASE UNCHANGED vars
    BY <2>15, <2>b, <2>c, <2>d DEF vars, CleanInv
  <2>16. QED
    BY <2>1, <2>2, <2>3, <2>4, <2>5, <2>6, <2>7, <2>8, <2>9, <2>10, <2>11,
       <2>12, <2>13, <2>14, <2>15
    DEF Next, Progress, Failure
<1>3. CleanInv => CleanRunLeavesNothing
  BY DEF CleanInv, CleanRunLeavesNothing
<1>4. QED
  BY <1>1, <1>2, <1>3, TypeInvariant, PTL DEF Spec
=============================================================================
