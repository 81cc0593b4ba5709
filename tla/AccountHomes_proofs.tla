------------------------ MODULE AccountHomes_proofs ------------------------
(***************************************************************************)
(* Proofs about AccountHomes: its types, what commands leave of the user's *)
(* entries, that a failed creation undoes what it did, and that the last   *)
(* copy of a login is kept.                                                *)
(***************************************************************************)
EXTENDS AccountHomes, TLAPS

\* What a command knows of the shared names.
EntriesInv == ConflictHasCause /\ StepsInv /\ CreationInv /\ UnlinkInv

-----------------------------------------------------------------------------
(* It holds in the beginning *)

LEMMA InitHomesInv == Init => HomesInv
<1>1. SUFFICES ASSUME Init PROVE HomesInv
  OBVIOUS
<1>2. TypeOK
  <2>1. {1, 2, 3} \subseteq Login /\ 0 \in 0..MaxChanges
    BY ConstantsAssumption DEF Login
  <2>2. config \in Config \cup {Absent}
    BY <1>1, <2>1 DEF Init, Config
  <2>3. op \in Command /\ launch \in [Launcher -> Launched]
    BY <1>1 DEF Init, Command, Launched, NoCommand, NoLaunch, Names
  <2>4. QED
    BY <1>1, <2>1, <2>2, <2>3 DEF Init, TypeOK
<1>3. EntriesInv
  BY <1>1
  DEF Init, NoCommand, EntriesInv, ConflictHasCause, OwnEntries, StepsInv,
      CreationInv, UnlinkInv
<1>4. BackupInv
  BY <1>1 DEF Init, NoLaunch, BackupInv
<1>5. QED
  BY <1>2, <1>3, <1>4 DEF HomesInv, EntriesInv

-----------------------------------------------------------------------------
(* Every step keeps the types *)

\* The steps of a command that holds the lock, and those it takes at once.
CommandStep ==
    \/ BeginCreate \/ BeginRepair \/ BeginMigrate
    \/ MakeHome
    \/ \E n \in Name : Inspect(n)
    \/ Symlink \/ AllInspected \/ Save \/ Undo \/ Unlink \/ UndoHome
    \/ StatLegacy \/ CopyLegacy
    \/ Remove \/ RemoveWithHome \/ RemoveAll \/ Capture

LaunchStep(p) ==
    \/ \E cmd \in {"run", "proxy-auth"} : Launch(p, cmd)
    \/ EnsureHome(p) \/ Ensure(p) \/ Replace(p) \/ BackUp(p) \/ Write(p)
    \/ ReadConfig(p) \/ ReadCredentials(p)
    \/ CommitConfig(p) \/ CommitCredentials(p)

UserStep ==
    \/ SignIn \/ ReplaceRuntime \/ SaveConfig
    \/ \E n \in Name : Edit(n) \/ EditNative(n)
    \/ Kill

\* What a failed step makes of a command is a command.
LEMMA CommandRecords ==
  /\ NoCommand \in Command
  /\ \A o \in Command :
        /\ Failed(o) \in Command
        /\ \A pc \in {"inspect", "save", "stat", "copy"} :
              [o EXCEPT !.pc = pc] \in Command
<1>1. NoCommand \in Command
  BY DEF Command, NoCommand, Names
<1>2. ASSUME NEW o \in Command
      PROVE  /\ Failed(o) \in Command
             /\ \A pc \in {"inspect", "save", "stat", "copy"} :
                   [o EXCEPT !.pc = pc] \in Command
  <2>1. \A pc \in {"inspect", "save", "stat", "copy", "undo"} :
           [o EXCEPT !.pc = pc] \in Command
    BY DEF Command
  <2>2. QED
    BY <1>1, <2>1 DEF Failed
<1>3. QED
  BY <1>1, <1>2

\* A command's steps are those of its record, its files and its registration.
LEMMA CommandKeepsTypes ==
  ASSUME TypeOK, CommandStep
  PROVE  TypeOK'
<1>1. op' \in Command
  <2>1. op \in Command /\ Failed(op) \in Command
    BY CommandRecords DEF TypeOK
  <2>2. CASE BeginCreate \/ BeginRepair \/ BeginMigrate
    <3>1. PICK cmd \in {"create", "repair", "migrate"},
               pc \in {"make", "inspect"} :
            op' = [NoCommand EXCEPT !.cmd = cmd, !.pc = pc, !.todo = Name,
                                    !.existed = exists, !.before = entry]
      BY <2>2 DEF BeginCreate, BeginRepair, BeginMigrate, Begin
    <3>2. exists \in BOOLEAN /\ entry \in [Name -> {"none", "link", "own"}]
      BY DEF TypeOK
    <3>3. QED
      BY <3>1, <3>2 DEF NoCommand, Command
  <2>3. CASE MakeHome
    BY <2>1, <2>3, CommandRecords DEF MakeHome
  <2>4. CASE \E n \in Name : Inspect(n)
    <3>1. PICK n \in Name : op' \in {Inspected(n), Failed(op)}
      BY <2>4 DEF Inspect
    <3>2. Inspected(n) \in Command
      BY <2>1, <3>1 DEF Inspected, Command
    <3>3. QED
      BY <2>1, <3>1, <3>2
  <2>5. CASE Symlink
    <3>1. CASE op' = Failed([op EXCEPT !.at = {}])
      <4>1. [op EXCEPT !.at = {}] \in Command
        BY <2>1 DEF Command
      <4>2. QED
        BY <3>1, <4>1, CommandRecords
    <3>2. CASE \E n \in op.at : op' = [op EXCEPT !.pc = "inspect", !.at = {},
                                                 !.todo = @ \ {n},
                                                 !.linked = @ \cup {n}]
      <4>1. PICK n \in op.at : op' = [op EXCEPT !.pc = "inspect", !.at = {},
                                                !.todo = @ \ {n},
                                                !.linked = @ \cup {n}]
        BY <3>2
      <4>2. n \in Name
        BY <2>1 DEF Command
      <4>3. QED
        BY <2>1, <4>1, <4>2 DEF Command
    <3>3. QED
      BY <2>5, <3>1, <3>2 DEF Symlink
  <2>6. CASE AllInspected
    BY <2>1, <2>6, CommandRecords DEF AllInspected
  <2>7. CASE Undo \/ Unlink
    <3>1. ASSUME NEW n \in Name
          PROVE  /\ [op EXCEPT !.pc = "unlink", !.at = {n}] \in Command
                 /\ [op EXCEPT !.linked = @ \ {n}] \in Command
                 /\ [op EXCEPT !.pc = "undo", !.linked = @ \ {n}, !.at = {},
                               !.late = {}] \in Command
      BY <2>1, <3>1 DEF Command
    <3>2. op.linked \subseteq Name /\ op.at \subseteq Name
      BY <2>1 DEF Command
    <3>3. CASE Undo
      BY <3>1, <3>2, <3>3 DEF Undo
    <3>4. CASE Unlink
      <4>1. PICK n \in op.at :
              op' = [op EXCEPT !.pc = "undo", !.linked = @ \ {n}, !.at = {},
                              !.late = {}]
        BY <3>4 DEF Unlink
      <4>2. QED
        BY <3>1, <3>2, <4>1
    <3>5. QED
      BY <2>7, <3>3, <3>4
  <2>8. CASE StatLegacy
    <3>1. [op EXCEPT !.pc = "copy", !.saw = auth] \in Command
      BY <2>1 DEF Command, TypeOK
    <3>2. QED
      BY <2>8, <3>1, CommandRecords DEF StatLegacy
  <2>9. CASE RemoveWithHome
    <3>1. [NoCommand EXCEPT !.cmd = "remove", !.pc = "removeall"] \in Command
      <4>1. PICK o \in Command : o = NoCommand
        BY CommandRecords
      <4>2. [o EXCEPT !.cmd = "remove", !.pc = "removeall"] \in Command
        BY DEF Command
      <4>3. QED
        BY <4>1, <4>2
    <3>2. QED
      BY <2>9, <3>1 DEF RemoveWithHome
  <2>10. CASE op' \in {op, NoCommand, Failed(op)}
    BY <2>1, <2>10, CommandRecords
  <2>11. QED
    BY <2>2, <2>3, <2>4, <2>5, <2>6, <2>7, <2>8, <2>9, <2>10
    DEF CommandStep, Save, UndoHome, CopyLegacy, Remove, RemoveAll, Capture
<1>2. entry' \in [Name -> {"none", "link", "own"}] /\ source' = source
  <2>1. CASE Unlink
    BY <2>1 DEF Unlink, TypeOK
  <2>2. CASE Symlink
    BY <2>2 DEF Symlink, TypeOK
  <2>3. CASE RemoveAll
    BY <2>3 DEF RemoveAll, Names, TypeOK
  <2>4. CASE UNCHANGED links
    BY <2>4 DEF links, TypeOK
  <2>5. QED
    BY <2>1, <2>2, <2>3, <2>4
    DEF CommandStep, BeginCreate, BeginRepair, BeginMigrate, Begin, MakeHome,
        Inspect, AllInspected, Save, Undo, UndoHome, StatLegacy, CopyLegacy,
        Remove, RemoveWithHome, Capture
<1>3. /\ auth' \in {auth, legacy, runtime, Absent}
      /\ auth' \in Login \cup {Absent, Placeholder}
      /\ legacy' \in {legacy, Absent}
      /\ UNCHANGED <<runtime, loose, backups, launch, kind, shared>>
      /\ config' \in {config, Absent}
      /\ known' \in BOOLEAN /\ exists' \in BOOLEAN
  <2>1. CASE CopyLegacy
    BY <2>1 DEF CopyLegacy, TypeOK, service
  <2>2. CASE RemoveWithHome
    BY <2>2 DEF RemoveWithHome, TypeOK, service
  <2>3. CASE RemoveAll
    BY <2>3 DEF RemoveAll, TypeOK, service
  <2>4. CASE Capture
    <3>1. auth' \in {auth, runtime} /\ known' \in {known, TRUE}
      BY <2>4 DEF Capture
    <3>2. QED
      BY <2>4, <3>1 DEF Capture, TypeOK, service
  <2>5. CASE /\ UNCHANGED <<service, logins, config, launch>>
             /\ known' \in {known, TRUE, FALSE}
             /\ exists' \in {exists, TRUE, FALSE}
    BY <2>5 DEF TypeOK, service, logins
  <2>6. CASE UndoHome
    BY <2>6 DEF UndoHome, TypeOK, service, logins
  <2>7. QED
    BY <2>1, <2>2, <2>3, <2>4, <2>5, <2>6
    DEF CommandStep, BeginCreate, BeginRepair, BeginMigrate, Begin, MakeHome,
        Inspect, Symlink, AllInspected, Save, Undo, Unlink, StatLegacy, Remove
<1>4. ~exists' => HomeIsEmpty'
  <2>1. CASE UndoHome
    BY <2>1 DEF UndoHome, HomeIsEmpty, TypeOK, links, logins, service
  <2>2. CASE RemoveAll
    <3>1. entry \in [Name -> {"none", "link", "own"}] /\ UNCHANGED shared
      BY <2>2 DEF RemoveAll, TypeOK, service
    <3>2. CASE exists
      BY <2>2, <3>1, <3>2 DEF RemoveAll, HomeIsEmpty, Names, TypeOK
    <3>3. CASE ~exists
      <4>1. HomeIsEmpty
        BY <3>3 DEF TypeOK
      <4>2. UNCHANGED <<entry, auth, legacy>> /\ (shared \/ config' = config)
        BY <2>2, <3>1, <4>1 DEF RemoveAll, HomeIsEmpty, Names
      <4>3. QED
        BY <3>1, <4>1, <4>2 DEF HomeIsEmpty
    <3>4. QED
      BY <3>2, <3>3
  <2>3. CASE Symlink \/ Unlink
    BY <2>3 DEF Symlink, Unlink, HomeIsEmpty, TypeOK, logins, service, Names
  <2>4. CASE CopyLegacy \/ RemoveWithHome
    BY <2>4
    DEF CopyLegacy, RemoveWithHome, HomeIsEmpty, TypeOK, links, service
  <2>5. CASE /\ exists => exists'
             /\ UNCHANGED <<service, links, legacy, config>>
             /\ exists' \/ auth' = auth
    BY <2>5 DEF HomeIsEmpty, TypeOK, links, service
  <2>6. QED
    BY <2>1, <2>2, <2>3, <2>4, <2>5
    DEF TypeOK, CommandStep, BeginCreate, BeginRepair, BeginMigrate, Begin,
        MakeHome, Inspect, AllInspected, Save, Undo, StatLegacy, Remove,
        Capture, logins
<1>5. changes' \in 0..MaxChanges
  <2>1. \/ changes' = changes
        \/ changes < MaxChanges /\ changes' = changes + 1
    BY DEF CommandStep, BeginCreate, BeginRepair, BeginMigrate, Begin,
           MakeHome, Inspect, Symlink, AllInspected, Save, Undo, Unlink,
           UndoHome,
           StatLegacy, CopyLegacy, Remove, RemoveWithHome, RemoveAll, Capture
  <2>2. QED
    BY <2>1, ConstantsAssumption DEF TypeOK
<1>6. QED
  BY <1>1, <1>2, <1>3, <1>4, <1>5 DEF TypeOK

\* A launch's steps are those of its record, the login and the config.
LEMMA LaunchKeepsTypes ==
  ASSUME TypeOK, BackupInv, NEW p \in Launcher, LaunchStep(p)
  PROVE  TypeOK'
<1>1. NoLaunch \in Launched /\ launch[p] \in Launched
  BY DEF TypeOK, Launched, NoLaunch
<1>2. Runtime \in Login \cup {Absent, Placeholder}
  BY DEF TypeOK, Runtime
<1>3. UNCHANGED <<kind, shared, known, entry, source, legacy, op,
                  changes>>
  BY DEF LaunchStep, Launch, EnsureHome, Ensure, Replace, BackUp, Write,
         ReadConfig,
         ReadCredentials, CommitConfig, CommitCredentials, service, links,
         logins
<1>4. launch' \in [Launcher -> Launched]
  <2>1. CASE \E cmd \in {"run", "proxy-auth"} : Launch(p, cmd)
    <3>1. PICK cmd \in {"run", "proxy-auth"} :
            launch' = [launch EXCEPT ![p] = [@ EXCEPT !.cmd = cmd,
                                                      !.pc = "make"]]
      BY <2>1 DEF Launch, TypeOK
    <3>2. [launch[p] EXCEPT !.cmd = cmd, !.pc = "make"] \in Launched
      BY <1>1, <3>1 DEF Launched
    <3>3. PICK r \in Launched : launch' = [launch EXCEPT ![p] = r]
      BY <3>1, <3>2
    <3>4. QED
      BY <3>3 DEF TypeOK
  <2>2. CASE Ensure(p) \/ Replace(p)
    <3>1. PICK pc \in {"backup", "write"} :
            \/ launch' = [launch EXCEPT ![p] = [@ EXCEPT !.pc = pc,
                                                         !.saw = Runtime]]
            \/ launch' = [launch EXCEPT ![p] = NoLaunch]
      BY <2>2 DEF Ensure, Replace, Over, TypeOK
    <3>2. [launch[p] EXCEPT !.pc = pc, !.saw = Runtime] \in Launched
      BY <1>1, <1>2 DEF Launched
    <3>3. PICK r \in Launched : launch' = [launch EXCEPT ![p] = r]
      BY <1>1, <3>1, <3>2
    <3>4. QED
      BY <3>3 DEF TypeOK
  <2>3. CASE BackUp(p) \/ Write(p) \/ CommitConfig(p) \/ CommitCredentials(p)
    BY <1>1, <2>3
    DEF BackUp, Write, CommitConfig, CommitCredentials, Over, TypeOK, Launched
  <2>4. CASE ReadConfig(p)
    <3>1. config \in Config => [config EXCEPT !.identity = FALSE,
                                              !.private = TRUE] \in Config
      BY DEF Config
    <3>2. PICK c \in Config \cup {Absent} :
            launch' = [launch EXCEPT ![p].pc = "secure", ![p].config = c]
      BY <2>4, <3>1 DEF ReadConfig, TypeOK
    <3>3. QED
      BY <1>1, <3>2 DEF TypeOK, Launched
  <2>5. CASE ReadCredentials(p)
    BY <1>1, <2>5 DEF ReadCredentials, Over, TypeOK, Launched
  <2>6. CASE EnsureHome(p)
    BY <1>1, <2>6 DEF EnsureHome, Over, TypeOK, Launched
  <2>7. QED
    BY <2>1, <2>2, <2>3, <2>4, <2>5, <2>6 DEF LaunchStep
<1>5. /\ auth' \in {auth, Placeholder} /\ (auth' # auth => exists)
      /\ runtime' \in {runtime, Placeholder, launch[p].saw}
      /\ loose' \in {loose, FALSE}
      /\ config' \in {config, launch[p].config}
      /\ config' # config => RuntimeExists
      /\ exists' \in {exists, TRUE}
      /\ backups' \in {backups, backups \cup {launch[p].saw}}
  <2>1. CASE EnsureHome(p)
    BY <2>1 DEF EnsureHome, TypeOK, logins
  <2>2. CASE BackUp(p)
    BY <2>2 DEF BackUp
  <2>3. CASE Write(p)
    BY <2>3 DEF Write, RuntimeExists, TypeOK
  <2>4. CASE CommitConfig(p)
    BY <2>4 DEF CommitConfig, logins
  <2>5. CASE CommitCredentials(p)
    BY <2>5 DEF CommitCredentials
  <2>6. CASE UNCHANGED <<logins, config, exists>>
    BY <2>6 DEF logins
  <2>7. QED
    BY <2>1, <2>2, <2>3, <2>4, <2>5, <2>6
    DEF LaunchStep, Launch, Ensure, Replace, ReadConfig, ReadCredentials
<1>6. ~exists' => HomeIsEmpty'
  BY <1>3, <1>5 DEF TypeOK, HomeIsEmpty, RuntimeExists
<1>7. backups' \subseteq Login
  BY DEF TypeOK, BackupInv, LaunchStep, Launch, EnsureHome, Ensure, Replace,
         BackUp, Write,
         ReadConfig, ReadCredentials, CommitConfig, CommitCredentials, logins
<1>8. /\ auth' \in Login \cup {Absent, Placeholder}
      /\ runtime' \in Login \cup {Absent, Placeholder}
      /\ loose' \in BOOLEAN /\ exists' \in BOOLEAN
      /\ config' \in Config \cup {Absent}
  BY <1>1, <1>5 DEF TypeOK, Launched
<1>9. QED
  BY <1>1, <1>3, <1>4, <1>5, <1>6, <1>7, <1>8 DEF TypeOK

\* What the user and the client do keeps within the bound on changes.
LEMMA UserKeepsTypes ==
  ASSUME TypeOK, UserStep
  PROVE  TypeOK'
<1>1. changes' \in 0..MaxChanges /\ 3 + changes' \in Login
  <2>1. changes < MaxChanges /\ changes' = changes + 1
    BY DEF UserStep, SignIn, ReplaceRuntime, SaveConfig, Edit, EditNative,
           Kill, Change
  <2>2. QED
    BY <2>1, ConstantsAssumption DEF TypeOK, Login
<1>2. CASE SignIn
  BY <1>1, <1>2 DEF SignIn, TypeOK, HomeIsEmpty, service, links
<1>3. CASE ReplaceRuntime
  BY <1>1, <1>3 DEF ReplaceRuntime, TypeOK, HomeIsEmpty, service, links
<1>4. CASE SaveConfig
  <2>1. config' \in Config
    BY <1>1, <1>4 DEF SaveConfig, Config
  <2>2. QED
    BY <1>1, <1>4, <2>1
    DEF SaveConfig, TypeOK, HomeIsEmpty, RuntimeExists, service, links, logins
<1>5. CASE \E n \in Name : Edit(n)
  <2>1. PICK n \in Name : Edit(n)
    BY <1>5
  <2>2. op' \in Command
    BY <2>1 DEF Edit, TypeOK, Command
  <2>3. entry' \in [Name -> {"none", "link", "own"}]
    BY <2>1 DEF Edit, TypeOK
  <2>4. QED
    BY <1>1, <2>1, <2>2, <2>3 DEF Edit, TypeOK, HomeIsEmpty, service, logins
<1>6. CASE \E n \in Name : EditNative(n)
  BY <1>1, <1>6 DEF EditNative, TypeOK, HomeIsEmpty, service, logins
<1>7. CASE Kill
  BY <1>1, <1>7, CommandRecords
  DEF Kill, TypeOK, HomeIsEmpty, service, links, logins
<1>8. QED
  BY <1>2, <1>3, <1>4, <1>5, <1>6, <1>7 DEF UserStep

-----------------------------------------------------------------------------
(* What commands do to the user's entries *)

\* A step that fails ends its command, or begins to undo what it did.
LEMMA FailureKeepsEntries ==
  ASSUME TypeOK, EntriesInv,
         op' \in {NoCommand, Failed(op)}, UNCHANGED <<entry>>,
         op' = NoCommand \/ exists'
  PROVE  EntriesInv'
<1>1. CASE op' = NoCommand
  BY <1>1
  DEF NoCommand, EntriesInv, ConflictHasCause, OwnEntries, StepsInv,
      CreationInv, UnlinkInv
<1>2. CASE op.cmd = "create" /\ op' = [op EXCEPT !.pc = "undo"] /\ exists'
  <2>1. /\ op'.cmd = op.cmd /\ op'.pc = "undo"
        /\ op'.linked = op.linked /\ op'.before = op.before
        /\ op'.touched = op.touched /\ op'.conflict = op.conflict
        /\ op'.late = op.late
    BY <1>2 DEF TypeOK, Command
  <2>2. QED
    BY <1>2, <2>1
    DEF EntriesInv, ConflictHasCause, OwnEntries, StepsInv, CreationInv,
        UnlinkInv
<1>3. QED
  BY <1>1, <1>2 DEF Failed

\* Nor does a step that only moves the command on do anything to the entries.
LEMMA ProgressKeepsEntries ==
  ASSUME TypeOK, EntriesInv,
         UNCHANGED <<entry>>, exists => exists',
         NEW pc \in {"inspect", "symlink", "save", "stat"},
         \/ op' = [op EXCEPT !.pc = pc]
         \/ \E n \in Name : op' = [op EXCEPT !.pc = pc, !.at = {n}],
         \/ op.cmd = "create" /\ exists' /\ pc \in {"inspect", "symlink", "save"}
         \/ op.cmd = "repair" /\ exists' /\ pc = "symlink"
         \/ op.cmd = "migrate" /\ pc = "stat"
  PROVE  EntriesInv'
<1>1. /\ op'.cmd = op.cmd /\ op'.pc = pc
      /\ op'.linked = op.linked /\ op'.before = op.before
      /\ op'.touched = op.touched /\ op'.conflict = op.conflict
      /\ op'.late = op.late
  BY DEF TypeOK, Command
<1>2. ConflictHasCause'
  BY <1>1 DEF EntriesInv, ConflictHasCause, OwnEntries
<1>3. CreationInv'
  BY <1>1 DEF EntriesInv, CreationInv
<1>4. UnlinkInv'
  BY <1>1 DEF EntriesInv, UnlinkInv
<1>5. StepsInv'
  BY <1>1 DEF EntriesInv, StepsInv
<1>6. QED
  BY <1>2, <1>3, <1>4, <1>5 DEF EntriesInv

\* A command makes and removes links only, and knows which it made.
LEMMA CommandKeepsEntries ==
  ASSUME TypeOK, EntriesInv,
         CommandStep
  PROVE  EntriesInv'
<1>1. CASE BeginCreate \/ BeginRepair \/ BeginMigrate
  <2>1. PICK cmd \in {"create", "repair", "migrate"},
             pc \in {"make", "inspect"} :
          /\ op' = [NoCommand EXCEPT !.cmd = cmd, !.pc = pc, !.todo = Name,
                                     !.existed = exists, !.before = entry]
          /\ pc = "inspect" => exists /\ cmd = "repair"
    BY <1>1 DEF BeginCreate, BeginRepair, BeginMigrate, Begin
  <2>2. UNCHANGED <<links, exists>>
    BY <1>1 DEF BeginCreate, BeginRepair, BeginMigrate, Begin
  <2>3. QED
    BY <2>1, <2>2
    DEF NoCommand, links, EntriesInv, ConflictHasCause, OwnEntries, StepsInv,
        CreationInv, UnlinkInv
<1>2. CASE MakeHome
  <2>1. CASE op' = NoCommand
    BY <1>2, <2>1, FailureKeepsEntries DEF MakeHome, links
  <2>2. CASE \E pc \in {"inspect", "save", "stat"} :
               /\ op' = [op EXCEPT !.pc = pc] /\ exists' = TRUE
               /\ op.cmd = IF pc = "stat" THEN "migrate" ELSE "create"
    BY <1>2, <2>2, ProgressKeepsEntries DEF MakeHome, links
  <2>3. QED
    BY <1>2, <2>1, <2>2 DEF MakeHome
<1>3. CASE \E n \in Name : Inspect(n)
  <2>1. PICK n \in Name : Inspect(n)
    BY <1>3
  <2>2. UNCHANGED <<entry, exists>> /\ op.pc = "inspect" /\ exists
    BY <2>1 DEF Inspect, links, EntriesInv, StepsInv
  <2>3. CASE op' = Failed(op)
    BY <2>2, <2>3, FailureKeepsEntries
  <2>4. CASE op' = [op EXCEPT !.pc = "symlink", !.at = {n}]
    BY <2>2, <2>4, ProgressKeepsEntries DEF EntriesInv, StepsInv
  <2>5. CASE \/ op' = [op EXCEPT !.todo = @ \ {n}]
             \/ /\ op' = [op EXCEPT !.todo = @ \ {n}, !.conflict = TRUE]
                /\ entry[n] = "own"
    <3>1. /\ op'.cmd = op.cmd /\ op'.pc = op.pc
          /\ op'.linked = op.linked /\ op'.before = op.before
          /\ op'.touched = op.touched /\ op'.saw = op.saw
          /\ op'.late = op.late
          /\ op'.conflict = op.conflict \/ n \in OwnEntries
      BY <2>5 DEF TypeOK, Command, OwnEntries
    <3>2. QED
      BY <2>2, <3>1
      DEF EntriesInv, ConflictHasCause, OwnEntries, StepsInv, CreationInv,
          UnlinkInv
  <2>6. QED
    BY <2>1, <2>3, <2>4, <2>5 DEF Inspect, Inspected
<1>4. CASE Symlink
  <2>1. CASE /\ op' = Failed([op EXCEPT !.at = {}]) /\ entry' = entry
             /\ UNCHANGED <<exists>> /\ op.pc = "symlink"
    <3>1. CASE op.cmd # "create"
      BY <2>1, <3>1, FailureKeepsEntries DEF Failed, TypeOK, Command
    <3>2. CASE op.cmd = "create"
      <4>1. /\ op'.cmd = op.cmd /\ op'.pc = "undo"
            /\ op'.linked = op.linked /\ op'.before = op.before
            /\ op'.touched = op.touched /\ op'.conflict = op.conflict
            /\ op'.late = op.late
        BY <2>1, <3>2 DEF Failed, TypeOK, Command
      <4>2. ConflictHasCause'
        BY <2>1, <4>1 DEF EntriesInv, ConflictHasCause, OwnEntries
      <4>3. StepsInv'
        BY <2>1, <3>2, <4>1 DEF EntriesInv, StepsInv
      <4>4. CreationInv' /\ UnlinkInv'
        BY <2>1, <4>1 DEF EntriesInv, CreationInv, UnlinkInv
      <4>5. QED
        BY <4>2, <4>3, <4>4 DEF EntriesInv
    <3>3. QED
      BY <3>1, <3>2
  <2>2. ASSUME NEW n \in op.at, entry[n] = "none", op.pc = "symlink",
               entry' = [entry EXCEPT ![n] = "link"],
               op' = [op EXCEPT !.pc = "inspect", !.at = {},
                                !.todo = @ \ {n}, !.linked = @ \cup {n}],
               UNCHANGED <<exists>>
        PROVE  EntriesInv'
    <3>1. n \in Name
      BY DEF TypeOK, Command
    <3>2. ConflictHasCause' /\ StepsInv' /\ UnlinkInv'
      BY <2>2, <3>1 DEF EntriesInv, ConflictHasCause, OwnEntries, StepsInv,
                        UnlinkInv, TypeOK, Command
    <3>3. CreationInv'
      BY <2>2, <3>1 DEF EntriesInv, CreationInv, TypeOK, Command
    <3>4. QED
      BY <3>2, <3>3 DEF EntriesInv
  <2>3. QED
    BY <1>4, <2>1, <2>2 DEF Symlink
<1>5. CASE AllInspected \/ Save
  <2>1. UNCHANGED <<entry, exists>> /\ exists
    BY <1>5 DEF AllInspected, Save, links, EntriesInv, StepsInv
  <2>2. CASE op' \in {NoCommand, Failed(op)}
    BY <2>1, <2>2, FailureKeepsEntries
  <2>3. CASE op' = [op EXCEPT !.pc = "save"] /\ op.cmd = "create"
    BY <2>1, <2>3, ProgressKeepsEntries
  <2>4. QED
    BY <1>5, <2>2, <2>3 DEF AllInspected, Save
<1>6. CASE Undo
  <2>1. PICK n \in op.linked :
          /\ op' = IF entry[n] = "link"
                   THEN [op EXCEPT !.pc = "unlink", !.at = {n}]
                   ELSE [op EXCEPT !.linked = @ \ {n}]
          /\ op.pc = "undo" /\ UNCHANGED <<entry, exists>>
    BY <1>6 DEF Undo, links
  <2>2. /\ op'.cmd = op.cmd /\ op'.before = op.before
        /\ op'.touched = op.touched /\ op'.conflict = op.conflict
        /\ op'.late = op.late
        /\ op'.saw = op.saw /\ n \in Name
    BY <2>1 DEF TypeOK, Command
  <2>3. CASE entry[n] = "link"
    <3>1. op'.pc = "unlink" /\ op'.at = {n} /\ op'.linked = op.linked
      BY <2>1, <2>3 DEF TypeOK, Command
    <3>2. QED
      BY <2>1, <2>2, <2>3, <3>1
      DEF EntriesInv, ConflictHasCause, OwnEntries, StepsInv, CreationInv,
          UnlinkInv
  <2>4. CASE entry[n] # "link"
    <3>1. op'.pc = "undo" /\ op'.linked = op.linked \ {n}
      BY <2>1, <2>4 DEF TypeOK, Command
    <3>2. QED
      BY <2>1, <2>2, <2>4, <3>1
      DEF EntriesInv, ConflictHasCause, OwnEntries, StepsInv, CreationInv,
          UnlinkInv
  <2>5. QED
    BY <2>3, <2>4
<1>7. CASE UndoHome \/ StatLegacy \/ CopyLegacy \/ Remove \/ Capture
  <2>1. UNCHANGED <<entry>>
    BY <1>7 DEF UndoHome, StatLegacy, CopyLegacy, Remove, Capture, links
  <2>2. CASE op' = NoCommand
    BY <2>1, <2>2, FailureKeepsEntries
  <2>3. CASE op' = [op EXCEPT !.pc = "copy", !.saw = auth] /\ auth = Absent
             /\ StatLegacy
    <3>1. /\ op'.cmd = op.cmd /\ op'.pc = "copy" /\ op'.saw = Absent
          /\ op'.linked = op.linked /\ op'.before = op.before
          /\ op'.touched = op.touched /\ op'.conflict = op.conflict
          /\ op'.late = op.late
          /\ op.cmd = "migrate"
      BY <2>3 DEF StatLegacy, EntriesInv, StepsInv, TypeOK, Command
    <3>2. QED
      BY <2>1, <3>1 DEF EntriesInv, ConflictHasCause, OwnEntries, StepsInv,
                        CreationInv, UnlinkInv
  <2>4. QED
    BY <1>7, <2>2, <2>3 DEF UndoHome, StatLegacy, CopyLegacy, Remove, Capture
<1>8. CASE RemoveWithHome
  <2>1. /\ op' = [NoCommand EXCEPT !.cmd = "remove", !.pc = "removeall"]
        /\ UNCHANGED <<entry>>
    BY <1>8 DEF RemoveWithHome, links
  <2>2. QED
    BY <2>1
    DEF NoCommand, EntriesInv, ConflictHasCause, OwnEntries, StepsInv,
        CreationInv, UnlinkInv
<1>9. CASE RemoveAll
  <2>1. op.cmd = "remove" /\ op.pc = "removeall"
    BY <1>9 DEF RemoveAll, EntriesInv, StepsInv
  <2>2. CASE op' = NoCommand
    BY <2>2 DEF NoCommand, EntriesInv, ConflictHasCause, OwnEntries, StepsInv,
                CreationInv, UnlinkInv
  <2>3. CASE op' = op
    BY <2>1, <2>3 DEF EntriesInv, ConflictHasCause, OwnEntries, StepsInv,
                      CreationInv, UnlinkInv
  <2>4. QED
    BY <1>9, <2>2, <2>3 DEF RemoveAll
<1>10. CASE Unlink
  <2>1. PICK n \in op.at :
          /\ \/ entry' = [entry EXCEPT ![n] = "none"]
             \/ entry' = entry /\ entry[n] = "own"
          /\ op' = [op EXCEPT !.pc = "undo", !.linked = @ \ {n}, !.at = {},
                              !.late = {}]
          /\ op.pc = "unlink" /\ exists' = exists
    BY <1>10 DEF Unlink
  <2>2. /\ op'.cmd = op.cmd /\ op'.before = op.before
        /\ op'.touched = op.touched /\ op'.conflict = op.conflict
        /\ op'.late = {}
        /\ op'.saw = op.saw /\ n \in Name /\ op'.pc = "undo"
        /\ op'.linked = op.linked \ {n}
        /\ entry \in [Name -> {"none", "link", "own"}]
    BY <2>1 DEF TypeOK, Command
  <2>3. StepsInv' /\ UnlinkInv'
    BY <2>1, <2>2 DEF EntriesInv, StepsInv, UnlinkInv
  \* Only the user's own entry at this name may go.
  <2>4. ConflictHasCause'
    <3>1. n \in op.late \/ entry[n] = "link"
      BY <2>1 DEF EntriesInv, UnlinkInv
    <3>2. n \in op.touched \/ entry[n] = "link"
      BY <2>1, <3>1 DEF EntriesInv, UnlinkInv
    <3>3. QED
      BY <2>1, <2>2, <3>2 DEF EntriesInv, ConflictHasCause, OwnEntries
  <2>5. CreationInv'
    <3>1. n \in op.linked
      BY <2>1 DEF EntriesInv, UnlinkInv
    <3>2. ASSUME NEW m \in Name \ op.touched, op.cmd = "create"
          PROVE  IF m \in op'.linked
                 THEN entry'[m] = "link" /\ op.before[m] = "none"
                 ELSE entry'[m] = op.before[m]
      BY <2>1, <2>2, <3>1, <3>2 DEF EntriesInv, CreationInv
    <3>3. QED
      BY <2>2, <3>2 DEF CreationInv
  <2>6. QED
    BY <2>3, <2>4, <2>5 DEF EntriesInv
<1>11. QED
  BY <1>1, <1>2, <1>3, <1>4, <1>5, <1>6, <1>7, <1>8, <1>9, <1>10
  DEF CommandStep

\* The user's own changes are counted as such while a command is under way.
LEMMA UserKeepsEntries ==
  ASSUME TypeOK, EntriesInv,
         UserStep
  PROVE  EntriesInv'
<1>1. CASE SignIn \/ ReplaceRuntime \/ SaveConfig \/ \E n \in Name : EditNative(n)
  <2>1. UNCHANGED <<entry, op, exists>>
    BY <1>1 DEF SignIn, ReplaceRuntime, SaveConfig, EditNative, links
  <2>2. QED
    BY <2>1 DEF EntriesInv, ConflictHasCause, OwnEntries, StepsInv,
                CreationInv, UnlinkInv
<1>2. CASE Kill
  BY <1>2, FailureKeepsEntries DEF Kill, links
<1>3. CASE \E n \in Name : Edit(n)
  <2>1. PICK n \in Name, e \in {"own", "none"} :
          /\ entry' = [entry EXCEPT ![n] = e]
          /\ op' = IF op = NoCommand THEN op
                   ELSE [op EXCEPT !.touched = @ \cup {n},
                                   !.late = IF op.pc = "unlink"
                                            THEN @ \cup (op.at \cap {n}) ELSE @]
          /\ exists' = exists
    BY <1>3 DEF Edit
  <2>2. /\ op'.cmd = op.cmd /\ op'.pc = op.pc /\ op'.conflict = op.conflict
        /\ op'.linked = op.linked /\ op'.before = op.before
        /\ op'.saw = op.saw /\ op'.at = op.at
        /\ op.touched \subseteq op'.touched
        /\ op.pc # "unlink" => op'.late = op.late
        /\ op'.touched \subseteq op.touched \cup {n}
        /\ op = NoCommand \/ n \in op'.touched
        /\ op.pc = "unlink" =>
              op'.late = op.late \cup (op.at \cap {n}) /\ n \in op'.touched
    BY <2>1 DEF TypeOK, Command, NoCommand
  <2>3. StepsInv'
    BY <2>1, <2>2 DEF EntriesInv, StepsInv
  <2>4. ConflictHasCause' /\ UnlinkInv'
    BY <2>1, <2>2 DEF EntriesInv, ConflictHasCause, UnlinkInv, OwnEntries,
                      NoCommand, TypeOK
  <2>5. CreationInv'
    <3>1. SUFFICES ASSUME op.cmd = "create", NEW m \in Name \ op'.touched
                   PROVE  m \in Name \ op.touched /\ m # n
      BY <2>1, <2>2 DEF EntriesInv, CreationInv, TypeOK
    <3>2. QED
      BY <2>2, <3>1 DEF NoCommand
  <2>6. QED
    BY <2>3, <2>4, <2>5 DEF EntriesInv
<1>4. QED
  BY <1>1, <1>2, <1>3 DEF UserStep

-----------------------------------------------------------------------------
(* Backups *)

\* A launch has a backup of the login it has seen before it writes.
LEMMA BackupsAreKept ==
  ASSUME TypeOK, BackupInv, [Next]_vars
  PROVE  BackupInv'
<1>1. CASE UNCHANGED vars
  BY <1>1 DEF vars, BackupInv
<1>2. CASE CommandStep \/ UserStep
  <2>1. UNCHANGED <<launch, backups, kind>>
    BY <1>2
    DEF CommandStep, BeginCreate, BeginRepair, BeginMigrate, Begin, MakeHome,
        Inspect, Symlink, AllInspected, Save, Undo, Unlink, UndoHome,
        StatLegacy,
        CopyLegacy, Remove, RemoveWithHome, RemoveAll, Capture, UserStep,
        SignIn, ReplaceRuntime, SaveConfig, Edit, EditNative, Kill, service,
        logins
  <2>2. QED
    BY <2>1 DEF BackupInv
<1>3. ASSUME NEW p \in Launcher, LaunchStep(p)
      PROVE  BackupInv'
  <2>1. kind' = kind /\ backups \subseteq backups'
    BY <1>3
    DEF LaunchStep, Launch, EnsureHome, Ensure, Replace, BackUp, Write,
        ReadConfig,
        ReadCredentials, CommitConfig, CommitCredentials, service, logins
  <2>2. PICK r : launch' = [launch EXCEPT ![p] = r]
    BY <1>3
    DEF LaunchStep, Launch, EnsureHome, Ensure, Replace, BackUp, Write,
        ReadConfig,
        ReadCredentials, CommitConfig, CommitCredentials, Over
  <2>3. /\ launch'[p].pc \in {"secure", "commit"} => kind = "claude"
        /\ launch'[p].pc = "backup" => launch'[p].saw \in Login
        /\ launch'[p].pc = "write" /\ kind = "codex" /\ launch'[p].saw \in Login
           => launch'[p].saw \in backups'
    <3>1. launch[p] \in Launched /\ launch \in [Launcher -> Launched]
      BY DEF TypeOK
    <3>2. CASE \E cmd \in {"run", "proxy-auth"} : Launch(p, cmd)
      BY <3>1, <3>2 DEF Launch, Launched
    <3>3. CASE Ensure(p)
      BY <3>1, <3>3 DEF Ensure, Over, NoLaunch, Launched
    <3>4. CASE Replace(p)
      BY <3>1, <3>4 DEF Replace, Over, NoLaunch, Launched
    <3>5. CASE BackUp(p)
      BY <3>1, <3>5 DEF BackUp, Over, NoLaunch, Launched
    <3>6. CASE Write(p) \/ CommitCredentials(p)
      BY <3>1, <3>6 DEF Write, CommitCredentials, Over, NoLaunch
    <3>7. CASE ReadConfig(p)
      BY <3>1, <3>7 DEF ReadConfig, Launched
    <3>8. CASE ReadCredentials(p)
      BY <3>1, <3>8 DEF BackupInv, ReadCredentials, Over, NoLaunch, Launched
    <3>9. CASE CommitConfig(p)
      BY <3>1, <3>9 DEF BackupInv, CommitConfig, Over, NoLaunch, Launched
    <3>10. CASE EnsureHome(p)
      BY <3>1, <3>10 DEF EnsureHome, Over, NoLaunch, Launched
    <3>11. QED
      BY <1>3, <3>2, <3>3, <3>4, <3>5, <3>6, <3>7, <3>8, <3>9, <3>10
      DEF LaunchStep
  <2>4. QED
    BY <2>1, <2>2, <2>3 DEF BackupInv, TypeOK
<1>4. QED
  BY <1>1, <1>2, <1>3 DEF Next, CommandStep, LaunchStep, UserStep
-----------------------------------------------------------------------------
(* The invariant, and what follows from it *)

LEMMA NextHomesInv == HomesInv /\ [Next]_vars => HomesInv'
<1>1. SUFFICES ASSUME HomesInv, [Next]_vars PROVE HomesInv'
  OBVIOUS
<1>2. BackupInv'
  BY <1>1, BackupsAreKept DEF HomesInv, EntriesInv
<1>3. CASE UNCHANGED vars
  <2>1. TypeOK'
    BY <1>1, <1>3 DEF HomesInv, TypeOK, vars, HomeIsEmpty
  <2>2. EntriesInv'
    BY <1>1, <1>3
    DEF HomesInv, vars, EntriesInv, ConflictHasCause, OwnEntries, StepsInv,
        CreationInv, UnlinkInv
  <2>3. QED
    BY <1>2, <2>1, <2>2 DEF HomesInv, EntriesInv
<1>4. CASE CommandStep
  BY <1>1, <1>2, <1>4, CommandKeepsTypes, CommandKeepsEntries DEF HomesInv,
                                                                  EntriesInv
<1>5. ASSUME NEW p \in Launcher, LaunchStep(p)
      PROVE  HomesInv'
  <2>1. UNCHANGED <<entry, op>> /\ exists' \in {exists, TRUE}
    BY <1>1, <1>5
    DEF LaunchStep, Launch, EnsureHome, Ensure, Replace, BackUp, Write,
        ReadConfig,
        ReadCredentials, CommitConfig, CommitCredentials, links, HomesInv,
        TypeOK
  <2>2. EntriesInv'
    BY <1>1, <2>1
    DEF HomesInv, EntriesInv, ConflictHasCause, OwnEntries, StepsInv,
        CreationInv, UnlinkInv
  <2>3. QED
    BY <1>1, <1>2, <1>5, <2>2, LaunchKeepsTypes DEF HomesInv, EntriesInv
<1>6. CASE UserStep
  BY <1>1, <1>2, <1>6, UserKeepsTypes, UserKeepsEntries DEF HomesInv,
                                                            EntriesInv
<1>7. QED
  BY <1>1, <1>3, <1>4, <1>5, <1>6
  DEF Next, CommandStep, LaunchStep, UserStep

\* HomesInv holds in every reachable state: a command knows at each step which
\* of the links are its own, and a launch has moved aside what it writes over.
THEOREM HomesInvariant == Spec => []HomesInv
BY InitHomesInv, NextHomesInv, PTL DEF Spec

\* Every variable keeps its type, and a home that does not exist is empty.
THEOREM TypeCorrect == Spec => []TypeOK
<1>1. HomesInv => TypeOK
  BY DEF HomesInv
<1>2. QED
  BY <1>1, HomesInvariant, PTL

\* An entry of the user's own stays, but for their own changes, the removal of
\* the home, and what they put under a name that a failed creation has looked
\* at and is about to clear.
THEOREM EntriesSurvive == Spec => OwnEntriesSurvive
<1>1. HomesInv /\ [Next]_vars =>
        [\A n \in Name :
           entry[n] = "own" /\ entry'[n] # "own" =>
              \/ Edit(n)
              \/ op.cmd = "remove"
              \/ op.pc = "unlink" /\ n \in op.late]_vars
  <2>1. SUFFICES ASSUME HomesInv, Next, NEW n \in Name, entry[n] = "own",
                        entry'[n] # "own", ~Edit(n), op.cmd # "remove"
                 PROVE  op.pc = "unlink" /\ n \in op.late
    OBVIOUS
  <2>2. CASE CommandStep
    <3>1. /\ entry \in [Name -> {"none", "link", "own"}] /\ ~RemoveAll
          /\ entry' # entry
      BY <2>1 DEF HomesInv, TypeOK, StepsInv, RemoveAll
    <3>2. Symlink \/ Unlink
      BY <2>2, <3>1
      DEF CommandStep, BeginCreate, BeginRepair, BeginMigrate, Begin, MakeHome,
          Inspect, AllInspected, Save, Undo, UndoHome, StatLegacy, CopyLegacy,
          Remove, RemoveWithHome, Capture, links
    <3>3. ~Symlink
      BY <2>1, <3>1 DEF Symlink
    <3>4. PICK m \in op.at : op.pc = "unlink"
                            /\ entry' \in {[entry EXCEPT ![m] = "none"], entry}
      BY <3>2, <3>3 DEF Unlink
    <3>5. m = n
      BY <2>1, <3>1, <3>4
    <3>6. QED
      BY <2>1, <3>4, <3>5 DEF HomesInv, UnlinkInv
  <2>3. ASSUME NEW p \in Launcher, LaunchStep(p)
        PROVE  FALSE
    BY <2>1, <2>3
    DEF LaunchStep, Launch, EnsureHome, Ensure, Replace, BackUp, Write,
        ReadConfig, ReadCredentials, CommitConfig, CommitCredentials, links
  <2>4. CASE UserStep
    <3>1. PICK m \in Name : Edit(m)
      BY <2>1, <2>4
      DEF UserStep, SignIn, ReplaceRuntime, SaveConfig, EditNative, Kill, links
    <3>2. m # n
      BY <2>1, <3>1
    <3>3. QED
      BY <2>1, <3>1, <3>2 DEF Edit, HomesInv, TypeOK
  <2>5. QED
    BY <2>1, <2>2, <2>3, <2>4 DEF Next, CommandStep, LaunchStep, UserStep
<1>2. QED
  BY <1>1, HomesInvariant, PTL DEF Spec, OwnEntriesSurvive

\* Conflicts are reported over entries of the user's only.
THEOREM ConflictsHaveCauses == Spec => []ConflictHasCause
<1>1. HomesInv => ConflictHasCause
  BY DEF HomesInv
<1>2. QED
  BY <1>1, HomesInvariant, PTL

\* A creation that fails has undone itself: the last step of its clean-up is
\* the one that ends it, and by then no link of its own is left.
THEOREM FailuresAreUndone == Spec => FailureIsUndone
<1>1. HomesInv /\ [Next]_vars =>
        [op.pc = "undo" /\ op' = NoCommand /\ changes' = changes =>
           /\ \A n \in Name \ op.touched : entry'[n] = op.before[n]
           /\ ~op.existed /\ exists' => ~HomeIsEmpty']_vars
  <2>1. SUFFICES ASSUME HomesInv, Next, op.pc = "undo", op' = NoCommand,
                        changes' = changes
                 PROVE  /\ \A n \in Name \ op.touched :
                              entry'[n] = op.before[n]
                        /\ ~op.existed /\ exists' => ~HomeIsEmpty'
    OBVIOUS
  <2>2. op' # op /\ op # NoCommand
    BY <2>1 DEF NoCommand
  <2>3. UndoHome
    <3>1. ~UserStep
      <4>1. UserStep => changes' = changes + 1
        BY DEF UserStep, SignIn, ReplaceRuntime, SaveConfig, Edit, EditNative,
               Kill, Change
      <4>2. changes \in 0..MaxChanges
        BY <2>1 DEF HomesInv, TypeOK
      <4>3. QED
        BY <2>1, <4>1, <4>2
    <3>2. ~\E p \in Launcher : LaunchStep(p)
      BY <2>2
      DEF LaunchStep, Launch, EnsureHome, Ensure, Replace, BackUp, Write,
          ReadConfig,
          ReadCredentials, CommitConfig, CommitCredentials
    <3>3. ~Undo
      <4>1. SUFFICES ASSUME Undo PROVE FALSE
        OBVIOUS
      <4>2. op \in Command /\ op.pc = "undo" /\ op' = NoCommand
        BY <2>1, <4>1 DEF Undo, HomesInv, TypeOK
      <4>3. PICK n \in op.linked :
               op' \in {[op EXCEPT !.pc = "unlink", !.at = {n}],
                       [op EXCEPT !.linked = @ \ {n}]}
        BY <4>1 DEF Undo
      <4>4. op'.pc \in {"undo", "unlink"}
        BY <4>2, <4>3 DEF Command
      <4>5. QED
        BY <4>2, <4>4 DEF NoCommand
    <3>4. CommandStep
      BY <2>1, <3>1, <3>2 DEF Next, CommandStep, LaunchStep, UserStep
    <3>5. QED
      BY <2>1, <2>2, <3>3, <3>4
      DEF CommandStep, BeginCreate, BeginRepair, BeginMigrate, Begin,
          MakeHome, Inspect, Symlink, AllInspected, Save, Unlink, StatLegacy,
          CopyLegacy, Remove, RemoveWithHome, RemoveAll, Capture
  <2>4. \A n \in Name \ op.touched : entry'[n] = op.before[n]
    BY <2>1, <2>3
    DEF UndoHome, links, HomesInv, StepsInv, CreationInv
  <2>5. ~op.existed /\ exists' => ~HomeIsEmpty'
    BY <2>3 DEF UndoHome, HomeIsEmpty, links, logins, service
  <2>6. QED
    BY <2>4, <2>5
<1>2. QED
  BY <1>1, HomesInvariant, PTL DEF Spec, FailureIsUndone

\* Who can take the last copy of a login: the client and the user themselves,
\* the removal and the capture the user asks for, and a migration, a launch or
\* proxy-auth that has not seen it.
THEOREM LastCopiesAreKept == Spec => LoginsAreKept
<1>1. HomesInv /\ [Next]_vars =>
        [\A l \in Copies :
            \/ l \in Copies'
            \/ SignIn \/ ReplaceRuntime
            \/ RemoveWithHome \/ op.cmd = "remove"
            \/ Capture
            \/ op.pc = "copy" /\ op.saw # l
            \/ \E p \in Launcher :
                  launch[p].pc = "write" /\ launch[p].saw # l]_vars
  <2>1. SUFFICES ASSUME HomesInv, Next, NEW l \in Copies,
                        ~SignIn, ~ReplaceRuntime, ~RemoveWithHome, ~Capture,
                        op.cmd # "remove",
                        op.pc = "copy" => op.saw = l,
                        \A p \in Launcher :
                           launch[p].pc = "write" => launch[p].saw = l
                 PROVE  l \in Copies'
    OBVIOUS
  <2>2. CASE UNCHANGED logins
    BY <2>2 DEF logins, Copies
  <2>3. CASE CommandStep
    <3>1. op.pc # "removeall" /\ op.pc # "copy"
      BY <2>1, ConstantsAssumption DEF HomesInv, StepsInv, Copies, Login
    <3>2. ~CopyLegacy /\ ~RemoveAll
      BY <3>1 DEF CopyLegacy, RemoveAll
    <3>3. QED
      BY <2>1, <2>2, <2>3, <3>2
      DEF CommandStep, BeginCreate, BeginRepair, BeginMigrate, Begin,
          MakeHome, Inspect, Symlink, AllInspected, Save, Undo, Unlink,
          UndoHome,
          StatLegacy, Remove
  <2>4. ASSUME NEW p \in Launcher, LaunchStep(p)
        PROVE  l \in Copies'
    <3>1. CASE BackUp(p)
      BY <3>1 DEF BackUp, Copies
    <3>2. CASE Write(p)
      <4>1. l \in backups /\ l \in Login /\ backups' = backups
        BY <2>1, <3>2 DEF Write, HomesInv, BackupInv, Copies
      <4>2. QED
        BY <4>1 DEF Copies
    <3>3. CASE CommitCredentials(p)
      <4>1. /\ runtime' \in {runtime, l}
            /\ auth' = auth /\ legacy' = legacy /\ backups' = backups
        BY <2>1, <3>3 DEF CommitCredentials
      <4>2. QED
        BY <4>1 DEF Copies
    <3>4. QED
      BY <2>2, <2>4, <3>1, <3>2, <3>3
      DEF LaunchStep, Launch, EnsureHome, Ensure, Replace, ReadConfig,
          ReadCredentials,
          CommitConfig
  <2>5. CASE UserStep
    BY <2>1, <2>2, <2>5 DEF UserStep, SaveConfig, Edit, EditNative, Kill
  <2>6. QED
    BY <2>1, <2>3, <2>4, <2>5 DEF Next, CommandStep, LaunchStep, UserStep
<1>2. QED
  BY <1>1, HomesInvariant, PTL DEF Spec, LoginsAreKept
=============================================================================
