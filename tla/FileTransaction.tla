-------------------------- MODULE FileTransaction --------------------------
(***************************************************************************)
(* The recoverable file transaction (internal/subswapper/transaction.go)   *)
(* run under the state lock (lock.go), with the plain atomic save of the   *)
(* state file (state.go) that callers make under the same lock.            *)
(*                                                                         *)
(* Only the process that holds the lock touches the disk, so the model     *)
(* keeps one program counter, that of the current holder; the kernel frees *)
(* the lock when the holder dies.  Every system call may fail and the      *)
(* holder may be killed between any two of them.                           *)
(***************************************************************************)
EXTENDS Naturals

CONSTANTS
    Target,       \* the managed files: live files, backups, the state file
    StateFile,    \* state.json, one of them
    Content,      \* what a file may hold
    CopyId,       \* names os.CreateTemp can give to a rollback copy
    Absent,       \* a file that does not exist
    Untouched,    \* a target the transaction does not name
    Unlisted,     \* a target the journal does not name
    New,          \* a journal entry with existed = false
    ChmodFails,   \* which of "target", "journal", "state" may be renamed
                  \* into place and still fail, in the chmod that follows
    ContinueAfterError, \* TRUE for a holder that goes on to another file
                        \* operation after one failed (the monitor's loop
                        \* over services), FALSE for one that returns
    MaxFaults,    \* bound: failing system calls in a behaviour
    MaxCrashes    \* bound: killed lock holders in a behaviour

ASSUME ConstantsAssumption ==
    /\ StateFile \in Target
    /\ Absent \notin Content
    /\ Untouched \notin Content \cup {Absent}
    /\ Unlisted \notin CopyId
    /\ New \notin CopyId \cup {Unlisted}
    /\ ChmodFails \subseteq {"target", "journal", "state"}
    /\ ContinueAfterError \in BOOLEAN
    /\ MaxFaults \in Nat
    /\ MaxCrashes \in Nat

VARIABLES
    disk,        \* the managed files
    copies,      \* the rollback copies lying next to them
    journal,     \* <state>.transaction.json; NoEntries when it is absent
    pc,          \* where the lock holder is; "free" when nobody holds it
    staged,      \* holder's memory: the bundle it is applying
    entries,     \* holder's memory: the journal it built or read
    todo,        \* holder's memory: targets its current loop has still to do
    incomplete,  \* holder's memory: some entry could not be restored
    answer,      \* what the operation returned, once that is decided
    wentOn,      \* history: the holder went on although its failed operation
                 \* left the journal on disk
    faults, crashes

onDisk == <<disk, copies, journal>>
budget == <<faults, crashes>>
vars == <<disk, copies, journal, pc, staged, entries, todo, incomplete,
          answer, wentOn, faults, crashes>>

FileState == Content \cup {Absent}
Entry     == CopyId \cup {New, Unlisted}
NoRequest == [t \in Target |-> Untouched]
NoEntries == [t \in Target |-> Unlisted]
Requests  == [Target -> FileState \cup {Untouched}] \ {NoRequest}

Touched(req) == {t \in Target : req[t] # Untouched}
Listed(j)    == {t \in Target : j[t] # Unlisted}
NamedCopies(j) == {j[t] : t \in Target} \cap CopyId
FreeIds      == {id \in CopyId : copies[id] = Absent}

\* What restoring entry t of journal j puts back.
Saved(j, t) == IF j[t] \in CopyId THEN copies[j[t]] ELSE Absent

TypeOK ==
    /\ disk \in [Target -> FileState]
    /\ copies \in [CopyId -> FileState]
    /\ journal \in [Target -> Entry]
    /\ pc \in {"free", "held", "snapshot", "commit", "undo", "cleanup", "save"}
    /\ staged \in [Target -> FileState \cup {Untouched}]
    /\ entries \in [Target -> Entry]
    /\ todo \subseteq Target
    /\ incomplete \in BOOLEAN
    /\ answer \in {"none", "ok", "error"}
    /\ wentOn \in BOOLEAN
    /\ faults \in 0..MaxFaults
    /\ crashes \in 0..MaxCrashes

Init ==
    /\ disk \in [Target -> FileState]
    /\ copies = [id \in CopyId |-> Absent]
    /\ journal = NoEntries
    /\ pc = "free"
    /\ staged = NoRequest
    /\ entries = NoEntries
    /\ todo = {}
    /\ incomplete = FALSE
    /\ answer = "none"
    /\ wentOn = FALSE
    /\ faults = 0
    /\ crashes = 0

Fault ==
    /\ faults < MaxFaults
    /\ faults' = faults + 1
    /\ UNCHANGED crashes

\* A failed operation hands its error to the holder, which goes on or returns
\* (its deferred Release frees the lock).
AfterError == IF ContinueAfterError THEN "held" ELSE "free"

NoteGoingOn ==
    wentOn' = (wentOn \/ (answer' = "error" /\ pc' = "held"
                                            /\ journal # NoEntries))

-----------------------------------------------------------------------------
(* Taking and releasing the lock *)

\* Mutant: a pending journal is not looked for.
AcquireWithoutRecovery ==
    /\ pc = "free"
    /\ pc' = "held"
    /\ entries' = NoEntries
    /\ todo' = {}
    /\ answer' = "none"
    /\ wentOn' = FALSE
    /\ UNCHANGED <<onDisk, staged, incomplete, budget>>

\* AcquireStateLock: the lock is ours; a journal left behind is undone first.
Acquire ==
    /\ pc = "free"
    /\ pc' = IF journal = NoEntries THEN "held" ELSE "undo"
    /\ entries' = journal
    /\ todo' = Listed(journal)
    /\ incomplete' = FALSE
    /\ answer' = "none"
    /\ wentOn' = FALSE
    /\ UNCHANGED <<disk, copies, journal, staged, budget>>

Release ==
    /\ pc = "held"
    /\ pc' = "free"
    /\ answer' = "none"
    /\ UNCHANGED <<onDisk, staged, entries, todo, incomplete, budget, wentOn>>

-----------------------------------------------------------------------------
(* executeFileTransaction *)

BeginTransaction ==
    /\ pc = "held"
    /\ staged' \in Requests
    /\ entries' = NoEntries
    /\ todo' = Touched(staged')
    /\ answer' = "none"
    /\ pc' = "snapshot"
    /\ UNCHANGED <<onDisk, incomplete, budget, wentOn>>

\* Mutant: a rollback copy may take a name that is in use.
SnapshotOverCopy(t) ==
    /\ pc = "snapshot"
    /\ t \in todo
    /\ disk[t] # Absent
    /\ \E id \in CopyId :
          /\ entries' = [entries EXCEPT ![t] = id]
          /\ copies' = [copies EXCEPT ![id] = disk[t]]
    /\ todo' = todo \ {t}
    /\ UNCHANGED <<disk, journal, pc, staged, incomplete, answer, budget,
                   wentOn>>

\* snapshotTransactionTarget: an existing target is copied to a temp name
\* nobody uses; a missing one is only noted.
SnapshotTarget(t) ==
    /\ pc = "snapshot"
    /\ t \in todo
    /\ \/ /\ disk[t] = Absent
          /\ entries' = [entries EXCEPT ![t] = New]
          /\ UNCHANGED copies
       \/ /\ disk[t] # Absent
          /\ \E id \in FreeIds :
                /\ entries' = [entries EXCEPT ![t] = id]
                /\ copies' = [copies EXCEPT ![id] = disk[t]]
    /\ todo' = todo \ {t}
    /\ UNCHANGED <<disk, journal, pc, staged, incomplete, answer, budget,
                   wentOn>>

\* A snapshot cannot be taken (always so when CopyId, a bound of the model,
\* is used up); the copies made so far are cleaned up.
SnapshotFails ==
    /\ pc = "snapshot"
    /\ todo # {}
    /\ IF FreeIds = {} THEN UNCHANGED budget ELSE Fault
    /\ pc' = "cleanup"
    /\ staged' = NoRequest
    /\ todo' = {}
    /\ answer' = "error"
    /\ UNCHANGED <<onDisk, entries, incomplete, wentOn>>

WriteJournal ==
    /\ pc = "snapshot"
    /\ todo = {}
    /\ journal' = entries
    /\ todo' = Touched(staged)
    /\ pc' = "commit"
    /\ UNCHANGED <<disk, copies, staged, entries, incomplete, answer, budget,
                   wentOn>>

JournalWriteFails ==
    /\ pc = "snapshot"
    /\ todo = {}
    /\ Fault
    /\ \/ UNCHANGED journal
       \/ "journal" \in ChmodFails /\ journal' = entries
    /\ pc' = "cleanup"
    /\ staged' = NoRequest
    /\ answer' = "error"
    /\ UNCHANGED <<disk, copies, entries, todo, incomplete, wentOn>>

\* Mutant: a file is counted as committed before its rename.
CommitSkipsRename(t) ==
    /\ pc = "commit"
    /\ t \in todo
    /\ todo' = todo \ {t}
    /\ UNCHANGED <<onDisk, pc, staged, entries, incomplete, answer, budget,
                   wentOn>>

\* Mutant: the name of a rollback copy ends up in the file.
CommitWritesName(t) ==
    /\ pc = "commit"
    /\ t \in todo
    /\ disk' = [disk EXCEPT ![t] = entries[t]]
    /\ todo' = todo \ {t}
    /\ UNCHANGED <<copies, journal, pc, staged, entries, incomplete, answer,
                   budget, wentOn>>

\* commitStagedFile: rename the staged file over its target, or remove it.
\* The order is the caller's; here it is any.
CommitFile(t) ==
    /\ pc = "commit"
    /\ t \in todo
    /\ disk' = [disk EXCEPT ![t] = staged[t]]
    /\ todo' = todo \ {t}
    /\ UNCHANGED <<copies, journal, pc, staged, entries, incomplete, answer,
                   budget, wentOn>>

CommitFails(t) ==
    /\ pc = "commit"
    /\ t \in todo
    /\ Fault
    /\ \/ UNCHANGED disk
       \/ /\ "target" \in ChmodFails
          /\ staged[t] # Absent
          /\ disk' = [disk EXCEPT ![t] = staged[t]]
    /\ pc' = "undo"
    /\ todo' = Listed(entries)
    /\ incomplete' = FALSE
    /\ staged' = NoRequest
    /\ answer' = "error"
    /\ UNCHANGED <<copies, journal, entries, wentOn>>

-----------------------------------------------------------------------------
(* rollbackFileTransaction, for a failed commit and for recovery *)

CanRestore(t) == entries[t] \in CopyId => copies[entries[t]] # Absent

\* Mutant: a file that did not exist before is not removed.
RestoreKeepsNewFiles(t) ==
    /\ pc = "undo"
    /\ t \in todo
    /\ CanRestore(t)
    /\ disk' = IF entries[t] = New THEN disk
               ELSE [disk EXCEPT ![t] = Saved(entries, t)]
    /\ todo' = todo \ {t}
    /\ UNCHANGED <<copies, journal, pc, staged, entries, incomplete, answer,
                   budget, wentOn>>

RestoreFile(t) ==
    /\ pc = "undo"
    /\ t \in todo
    /\ CanRestore(t)
    /\ disk' = [disk EXCEPT ![t] = Saved(entries, t)]
    /\ todo' = todo \ {t}
    /\ UNCHANGED <<copies, journal, pc, staged, entries, incomplete, answer,
                   budget, wentOn>>

\* The target is removed before the copy is renamed over it, so a failure
\* can leave it as it was, missing, or restored with the wrong mode.
RestoreFails(t) ==
    /\ pc = "undo"
    /\ t \in todo
    /\ IF CanRestore(t) THEN Fault ELSE UNCHANGED budget
    /\ \/ UNCHANGED disk
       \/ /\ entries[t] \in CopyId
          /\ CanRestore(t)
          /\ \E left \in {Absent, Saved(entries, t)} :
                disk' = [disk EXCEPT ![t] = left]
    /\ todo' = todo \ {t}
    /\ incomplete' = TRUE
    /\ UNCHANGED <<copies, journal, pc, staged, entries, answer, wentOn>>

\* Some entry was not restored: the journal stays for the next lock holder.
GiveUpUndo ==
    /\ pc = "undo"
    /\ todo = {}
    /\ incomplete
    /\ pc' = IF answer = "error" THEN AfterError ELSE "free"
    /\ incomplete' = FALSE
    /\ UNCHANGED <<onDisk, staged, entries, todo, answer, budget>>
    /\ NoteGoingOn

-----------------------------------------------------------------------------
(* Removing the journal decides the transaction *)

LoopDone == pc \in {"commit", "undo"} /\ todo = {} /\ ~incomplete

\* Mutant: the rollback copies are not cleaned up.
RemoveJournalOnly ==
    /\ LoopDone
    /\ journal' = NoEntries
    /\ answer' = IF pc = "commit" THEN "ok" ELSE answer
    /\ staged' = NoRequest
    /\ pc' = "held"
    /\ UNCHANGED <<disk, copies, entries, todo, incomplete, budget, wentOn>>

RemoveJournal ==
    /\ LoopDone
    /\ journal' = NoEntries
    /\ answer' = IF pc = "commit" THEN "ok" ELSE answer
    /\ staged' = NoRequest
    /\ pc' = "cleanup"
    /\ UNCHANGED <<disk, copies, entries, todo, incomplete, budget, wentOn>>

JournalRemoveFails ==
    /\ LoopDone
    /\ Fault
    /\ answer' = IF pc = "commit" THEN "error" ELSE answer
    /\ staged' = NoRequest
    /\ pc' = IF answer' = "error" THEN AfterError ELSE "free"
    /\ UNCHANGED <<onDisk, entries, todo, incomplete>>
    /\ NoteGoingOn

\* cleanupFileTransactionRollbacks: copies that cannot be removed are left
\* behind.  Only recovery reports it, by giving the lock back.
Cleanup ==
    /\ pc = "cleanup"
    /\ \E kept \in SUBSET NamedCopies(entries) :
          /\ IF kept = {} THEN UNCHANGED budget ELSE Fault
          /\ copies' = [id \in CopyId |->
                           IF id \in NamedCopies(entries) \ kept
                           THEN Absent ELSE copies[id]]
          /\ pc' = CASE answer = "ok"    -> "held"
                     [] answer = "error" -> AfterError
                     [] answer = "none"  -> IF kept = {} THEN "held" ELSE "free"
    /\ UNCHANGED <<disk, journal, staged, entries, todo, incomplete, answer>>
    /\ NoteGoingOn

-----------------------------------------------------------------------------
(* SaveState: one file, no journal *)

BeginSave ==
    /\ pc = "held"
    /\ \E c \in Content : staged' = [NoRequest EXCEPT ![StateFile] = c]
    /\ answer' = "none"
    /\ pc' = "save"
    /\ UNCHANGED <<onDisk, entries, todo, incomplete, budget, wentOn>>

SaveState ==
    /\ pc = "save"
    /\ disk' = [disk EXCEPT ![StateFile] = staged[StateFile]]
    /\ staged' = NoRequest
    /\ answer' = "ok"
    /\ pc' = "held"
    /\ UNCHANGED <<copies, journal, entries, todo, incomplete, budget, wentOn>>

SaveFails ==
    /\ pc = "save"
    /\ Fault
    /\ \/ UNCHANGED disk
       \/ /\ "state" \in ChmodFails
          /\ disk' = [disk EXCEPT ![StateFile] = staged[StateFile]]
    /\ staged' = NoRequest
    /\ answer' = "error"
    /\ pc' = "free"
    /\ UNCHANGED <<copies, journal, entries, todo, incomplete, wentOn>>

-----------------------------------------------------------------------------
\* The holder is killed; the kernel drops its lock and its memory is gone.
Crash ==
    /\ pc # "free"
    /\ crashes < MaxCrashes
    /\ crashes' = crashes + 1
    /\ pc' = "free"
    /\ staged' = NoRequest
    /\ entries' = NoEntries
    /\ todo' = {}
    /\ incomplete' = FALSE
    /\ answer' = "none"
    /\ UNCHANGED <<onDisk, faults, wentOn>>

\* What the holder does when nothing goes wrong.
Progress ==
    \/ Acquire \/ Release \/ BeginTransaction \/ WriteJournal
    \/ \E t \in Target : SnapshotTarget(t) \/ CommitFile(t) \/ RestoreFile(t)
    \/ GiveUpUndo \/ RemoveJournal \/ Cleanup \/ BeginSave \/ SaveState

Failure ==
    \/ SnapshotFails \/ JournalWriteFails \/ JournalRemoveFails \/ SaveFails
    \/ \E t \in Target : CommitFails(t) \/ RestoreFails(t)

Next == Progress \/ Failure \/ Crash

Spec == Init /\ [][Next]_vars

\* A holder that is not killed goes on, and there is always a next one: the
\* monitor takes the lock every interval.
FairSpec == Spec /\ WF_vars(Progress)

-----------------------------------------------------------------------------
(* Correctness *)

\* As long as a journal is on disk, every rollback copy it names is there and
\* no two entries share one, so recovery can restore the bundle
\* (executeFileTransaction deletes copies only after the journal).
PendingJournalIsRestorable ==
    \A t \in Listed(journal) :
        journal[t] \in CopyId =>
            /\ copies[journal[t]] # Absent
            /\ \A u \in Target \ {t} : journal[u] # journal[t]

\* A caller that got the lock from AcquireStateLock works on settled files:
\* no journal is pending while it runs or starts an operation, unless it is
\* one that went on although its own failed operation left the journal there
\* (monitor.go:100-108).
HeldMeansSettled ==
    pc \in {"held", "save", "snapshot"} /\ ~wentOn => journal = NoEntries

\* Without a failed call or a killed process, nothing is left next to the
\* managed files once the lock is free (files_test.go:363).
CleanRunLeavesNothing ==
    pc = "free" /\ faults = 0 /\ crashes = 0 =>
        journal = NoEntries /\ FreeIds = CopyId

\* A journal is replaced by nobody but a holder that left it there when an
\* operation failed and went on to the next: otherwise, until it is removed, it
\* describes the bundle it was written for, which stays recoverable
\* (files.go:201, "the same recoverable transaction").
JournalNeverReplaced ==
    [][journal # NoEntries /\ ~wentOn =>
          journal' \in {journal, NoEntries}]_vars

\* The files as the next lock holder will find them: a pending journal is
\* going to be undone.
Effective ==
    [t \in Target |-> IF journal[t] = Unlisted THEN disk[t]
                                               ELSE Saved(journal, t)]

Atomic == INSTANCE AtomicBundle WITH files <- Effective, request <- staged

\* Through crashes, failed calls and interrupted recoveries, every bundle
\* takes effect as a whole when its journal is removed, or not at all, and
\* what executeFileTransaction and SaveState return tells which.
AtomicUpdates == Atomic!Spec

-----------------------------------------------------------------------------
(* The inductive invariant behind the three safety properties above.  The   *)
(* journal that matters is on disk, but the loops run on the holder's copy  *)
(* in memory, so the invariant ties the two, and says for each loop what it *)
(* has already established for the files it has visited.                    *)

Backed(j)   == \A t \in Target : j[t] \in CopyId => copies[j[t]] # Absent
Distinct(j) == \A t, u \in Target : j[t] \in CopyId /\ j[u] = j[t] => u = t

\* Snapshots: exactly the visited targets are listed, with what they hold.
SnapshotInv ==
    pc = "snapshot" =>
        /\ todo \subseteq Touched(staged)
        /\ staged # NoRequest
        /\ Backed(entries)
        /\ Distinct(entries)
        /\ \A t \in Target :
              /\ entries[t] # Unlisted <=> t \in Touched(staged) \ todo
              /\ entries[t] # Unlisted => Saved(entries, t) = disk[t]

\* Commits: the journal lists the request, visited targets hold the new files.
CommitInv ==
    pc = "commit" =>
        /\ entries = journal
        /\ staged # NoRequest
        /\ todo \subseteq Touched(staged)
        /\ \A t \in Target :
              /\ journal[t] # Unlisted <=> staged[t] # Untouched
              /\ staged[t] # Untouched /\ t \notin todo => disk[t] = staged[t]

\* Restores: unless one failed, visited targets hold what the journal saved.
UndoInv ==
    pc = "undo" =>
        /\ entries = journal
        /\ todo \subseteq Listed(journal)
        /\ ~incomplete => \A t \in Target :
              journal[t] # Unlisted /\ t \notin todo =>
                  disk[t] = Saved(journal, t)

\* A request is in memory only while an operation runs.
RequestInv ==
    /\ pc \in {"free", "held", "undo", "cleanup"} => staged = NoRequest
    /\ pc = "save" =>
          /\ staged[StateFile] \in Content
          /\ \A t \in Target \ {StateFile} : staged[t] = Untouched

\* Together they say, at every point of the code, what a crash there leaves
\* to recover from and that recovering it yields the old or the new bundle.
TransactionInv ==
    /\ Backed(journal) /\ Distinct(journal)
    /\ pc \in {"held", "save", "snapshot", "cleanup"} => journal = NoEntries
    /\ SnapshotInv /\ CommitInv /\ UndoInv /\ RequestInv

\* A journal left behind is undone or removed once calls stop failing.
PendingJournalIsSettled == (journal # NoEntries) ~> (journal = NoEntries)
=============================================================================
