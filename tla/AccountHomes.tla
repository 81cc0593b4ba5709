---------------------------- MODULE AccountHomes ----------------------------
(***************************************************************************)
(* An account's home and the runtime home its provider runs in, for a      *)
(* service of mode "home".  Creating, repairing, migrating and removing a  *)
(* home (homes.go, claude_home_config.go, files.go) hold the state lock,   *)
(* step by step; launches prepare the runtime home's files without it      *)
(* (claude_launch.go, codex_proxy.go), and the user and the provider's     *)
(* client change all of it at any time.                                    *)
(*                                                                         *)
(* A claude home has links to the shared configuration, a config file and  *)
(* credentials; a codex home has a login, and the runtime home of a proxy  *)
(* has a placeholder instead.  Logins are numbered as they are made.       *)
(***************************************************************************)
EXTENDS Naturals, FiniteSets

CONSTANTS
    Kinds,       \* the services' kinds
    Sharing,     \* whether the service has a shared runtime home
    Name,        \* claudeSharedConfigNames
    Launcher,    \* processes that launch the provider
    Commands,    \* what the user does with subswapper
    Absent,      \* a file that does not exist
    Placeholder, \* the login of the Codex proxy
    MaxChanges   \* bound: changes by the user and the client, and kills

ASSUME ConstantsAssumption ==
    /\ Kinds \subseteq {"claude", "codex"}
    /\ Sharing \subseteq BOOLEAN
    /\ Commands \subseteq {"create", "repair", "migrate", "remove", "capture",
                           "run", "proxy-auth"}
    /\ Absent \notin Nat
    /\ Placeholder \notin Nat \cup {Absent}
    /\ MaxChanges \in Nat

VARIABLES
    kind,       \* the service's kind
    shared,     \* it has a shared runtime home
    known,      \* state: the account is registered
    exists,     \* its home's directory exists
    entry,      \* the home's entry under each shared name
    source,     \* names there are in the native ~/.claude
    auth,       \* the home's login
    legacy,     \* the home's login under the name bundles used
    runtime,    \* the login in the shared runtime home, for codex ~/.codex
    loose,      \* others may read the file it is in
    config,     \* the runtime home's Claude config
    backups,    \* logins proxy-auth moved aside
    op,         \* the command that holds the lock
    launch,     \* memory of each launch
    changes     \* changes so far

service == <<kind, shared>>
links == <<entry, source>>
logins == <<auth, legacy, runtime, loose, backups>>
vars == <<kind, shared, known, exists, entry, source, auth, legacy, runtime,
          loose, config, backups, op, launch, changes>>

Login == 1..(3 + MaxChanges)
Config == [edit : 0..MaxChanges, identity : BOOLEAN, private : BOOLEAN]
Names(e) == [n \in Name |-> e]

NoCommand == [cmd |-> "none", pc |-> "idle", todo |-> {}, at |-> {},
              linked |-> {}, conflict |-> FALSE, existed |-> FALSE,
              before |-> Names("none"), touched |-> {}, late |-> {},
              saw |-> Absent]
NoLaunch == [cmd |-> "none", pc |-> "idle", saw |-> Absent, config |-> Absent]

\* RuntimeHome: the account's own home unless one is shared.
Runtime == IF shared THEN runtime ELSE auth
RuntimeExists == shared \/ exists
HomeIsEmpty ==
    /\ entry = Names("none")
    /\ auth = Absent
    /\ legacy = Absent
    /\ shared \/ config = Absent

\* The logins there is a copy of somewhere.
Copies == ({auth, legacy, runtime} \cup backups) \cap Login

Command == [cmd      : {"none", "create", "repair", "migrate", "remove"},
            pc       : {"idle", "make", "inspect", "symlink", "save", "undo",
                        "unlink", "stat", "copy", "removeall"},
            todo     : SUBSET Name,
            at       : SUBSET Name,
            linked   : SUBSET Name,
            conflict : BOOLEAN,
            existed  : BOOLEAN,
            before   : [Name -> {"none", "link", "own"}],
            \* history: names the user has changed meanwhile, those they
            \* have changed since the undo looked, and the login a
            \* migration has found
            touched  : SUBSET Name,
            late     : SUBSET Name,
            saw      : Login \cup {Absent, Placeholder}]
Launched == [cmd    : {"none", "run", "proxy-auth"},
             pc     : {"idle", "make", "read", "secure", "backup", "commit",
                       "write"},
             saw    : Login \cup {Absent, Placeholder},
             config : Config \cup {Absent}]

TypeOK ==
    /\ kind \in Kinds
    /\ shared \in Sharing
    /\ known \in BOOLEAN
    /\ exists \in BOOLEAN
    /\ entry \in [Name -> {"none", "link", "own"}]
    /\ source \subseteq Name
    /\ auth \in Login \cup {Absent, Placeholder}
    /\ legacy \in Login \cup {Absent}
    /\ runtime \in Login \cup {Absent, Placeholder}
    /\ loose \in BOOLEAN
    /\ config \in Config \cup {Absent}
    /\ backups \subseteq Login
    /\ ~exists => HomeIsEmpty
    /\ op \in Command
    /\ launch \in [Launcher -> Launched]
    /\ changes \in 0..MaxChanges

Init ==
    /\ kind \in Kinds
    /\ shared \in Sharing
    /\ known \in BOOLEAN
    /\ exists \in BOOLEAN
    /\ entry \in [Name -> {"none", "own"}]
    /\ kind = "codex" => entry = Names("none")
    /\ source \in SUBSET Name
    /\ kind = "codex" => source = {}
    /\ auth \in {Absent, 1}
    /\ legacy \in {Absent, 2}
    /\ kind = "codex" => legacy = Absent
    /\ runtime \in {Absent, 3}
    /\ kind = "claude" /\ ~shared => runtime = Absent
    /\ loose = (kind = "claude" /\ runtime # Absent)
    /\ config = IF kind = "claude" /\ RuntimeExists
                THEN [edit |-> 0, identity |-> TRUE, private |-> TRUE]
                ELSE Absent
    /\ ~exists => ~known /\ HomeIsEmpty
    /\ backups = {}
    /\ op = NoCommand
    /\ launch = [p \in Launcher |-> NoLaunch]
    /\ changes = 0

-----------------------------------------------------------------------------
(* home create, repair and migrate, under the lock *)

\* Beginning a command leaves everything but the lock alone.
Begin(cmd, pc) ==
    /\ cmd \in Commands
    /\ op = NoCommand
    /\ op' = [NoCommand EXCEPT !.cmd = cmd, !.pc = pc, !.todo = Name,
                               !.existed = exists, !.before = entry]
    /\ UNCHANGED <<service, known, exists, links, logins, config, launch,
                   changes>>

\* CreateAccountHome, up to looking at the directory.
BeginCreate == ~known /\ Begin("create", "make")

\* RepairAccountHome.
BeginRepair ==
    /\ kind = "claude"
    /\ known /\ exists
    /\ Begin("repair", "inspect")

\* MigrateAccountHomes.
BeginMigrate == known /\ Begin("migrate", "make")

\* The directory is made and made private.  When that fails the command
\* returns at once, also from a directory it has made.
MakeHome ==
    /\ op.pc = "make"
    /\ \/ /\ exists' = TRUE
          /\ op' = CASE op.cmd = "create" ->
                          [op EXCEPT !.pc = IF kind = "claude"
                                            THEN "inspect" ELSE "save"]
                     [] op.cmd = "migrate" /\ kind = "claude" ->
                          [op EXCEPT !.pc = "stat"]
                     [] OTHER -> NoCommand
       \/ /\ exists' \in {exists, TRUE}
          /\ op' = NoCommand
    /\ UNCHANGED <<service, known, links, logins, config, launch, changes>>

\* A failed creation undoes what it did, a failed repair just returns.
Failed(o) == IF o.cmd = "create" THEN [o EXCEPT !.pc = "undo"] ELSE NoCommand

\* Mutant: a link that is there already is a conflict.
InspectedStrictly(n) ==
    CASE n \notin source     -> [op EXCEPT !.todo = @ \ {n}]
      [] entry[n] # "none"   -> [op EXCEPT !.todo = @ \ {n},
                                           !.conflict = TRUE]
      [] OTHER               -> [op EXCEPT !.pc = "symlink", !.at = {n}]

\* What repairClaudeSharedConfig makes of a name: it is missing in the native
\* home, linked already, in conflict, or to be linked.
Inspected(n) ==
    CASE n \notin source \/ entry[n] = "link" -> [op EXCEPT !.todo = @ \ {n}]
      [] n \in source /\ entry[n] = "own"     -> [op EXCEPT !.todo = @ \ {n},
                                                            !.conflict = TRUE]
      [] OTHER -> [op EXCEPT !.pc = "symlink", !.at = {n}]

Inspect(n) ==
    /\ op.pc = "inspect"
    /\ n \in op.todo
    /\ op' \in {Inspected(n), Failed(op)}
    /\ UNCHANGED <<service, known, exists, links, logins, config, launch,
                   changes>>

\* Mutant: a link that was made is not recorded.
SymlinkUnrecorded ==
    /\ op.pc = "symlink"
    /\ \/ \E n \in op.at :
             /\ exists
             /\ entry[n] = "none"
             /\ entry' = [entry EXCEPT ![n] = "link"]
             /\ op' = [op EXCEPT !.pc = "inspect", !.at = {},
                                 !.todo = @ \ {n}]
       \/ /\ op' = Failed([op EXCEPT !.at = {}])
          /\ UNCHANGED entry
    /\ UNCHANGED <<service, known, exists, source, logins, config,
                   launch, changes>>

\* Creating a link fails where an entry has appeared since.
Symlink ==
    /\ op.pc = "symlink"
    /\ \/ \E n \in op.at :
             /\ exists
             /\ entry[n] = "none"
             /\ entry' = [entry EXCEPT ![n] = "link"]
             /\ op' = [op EXCEPT !.pc = "inspect", !.at = {},
                                 !.todo = @ \ {n}, !.linked = @ \cup {n}]
       \/ /\ op' = Failed([op EXCEPT !.at = {}])
          /\ UNCHANGED entry
    /\ UNCHANGED <<service, known, exists, source, logins, config,
                   launch, changes>>

AllInspected ==
    /\ op.pc = "inspect"
    /\ op.todo = {}
    /\ op' = IF op.cmd = "create" /\ ~op.conflict THEN [op EXCEPT !.pc = "save"]
             ELSE Failed(op)
    /\ UNCHANGED <<service, known, exists, links, logins, config, launch,
                   changes>>

\* Saving the state can fail before the new file is in place or after it.
Save ==
    /\ op.pc = "save"
    /\ \/ known' = TRUE /\ op' = NoCommand
       \/ known' \in {known, TRUE} /\ op' = Failed(op)
    /\ UNCHANGED <<service, exists, links, logins, config, launch, changes>>

\* Mutant: whatever has the name is taken for the link.
UndoBlindly ==
    /\ op.pc = "undo"
    /\ \E n \in op.linked : op' = [op EXCEPT !.pc = "unlink", !.at = {n}]
    /\ UNCHANGED <<service, known, exists, links, logins, config, launch,
                   changes>>

\* Mutant: links that were there before are removed as well.
UndoAll ==
    /\ op.pc = "undo"
    /\ \E n \in Name :
          op' = IF entry[n] = "link"
                THEN [op EXCEPT !.pc = "unlink", !.at = {n}]
                ELSE [op EXCEPT !.linked = @ \ {n}]
    /\ UNCHANGED <<service, known, exists, links, logins, config, launch,
                   changes>>

\* removeClaudeSharedConfigLinks looks at each name that was linked, and leaves
\* what is not a link to the native file.
Undo ==
    /\ op.pc = "undo"
    /\ \E n \in op.linked :
          op' = IF entry[n] = "link"
                THEN [op EXCEPT !.pc = "unlink", !.at = {n}]
                ELSE [op EXCEPT !.linked = @ \ {n}]
    /\ UNCHANGED <<service, known, exists, links, logins, config, launch,
                   changes>>

\* Then it removes what has the name by now, but for a directory with
\* something in it.
Unlink ==
    /\ op.pc = "unlink"
    /\ \E n \in op.at :
          /\ entry' \in {[entry EXCEPT ![n] = "none"]}
                       \cup {e \in {entry} : entry[n] = "own"}
          /\ op' = [op EXCEPT !.pc = "undo", !.linked = @ \ {n}, !.at = {},
                              !.late = {}]
    /\ UNCHANGED <<service, known, exists, source, logins, config, launch,
                   changes>>

\* Last the directory, if the command made it; one with entries stays.
UndoHome ==
    /\ op.pc = "undo"
    /\ op.linked = {}
    /\ exists' = (exists /\ (op.existed \/ ~HomeIsEmpty))
    /\ op' = NoCommand
    /\ UNCHANGED <<service, known, links, logins, config, launch, changes>>

\* A file under its native name is left alone.  Any error ends the command.
StatLegacy ==
    /\ op.pc = "stat"
    /\ \/ /\ legacy # Absent /\ auth = Absent
          /\ op' = [op EXCEPT !.pc = "copy", !.saw = auth]
       \/ op' = NoCommand
    /\ UNCHANGED <<service, known, exists, links, logins, config, launch,
                   changes>>

CopyLegacy ==
    /\ op.pc = "copy"
    /\ auth' \in {auth, legacy}
    /\ op' = NoCommand
    /\ UNCHANGED <<service, known, exists, links, legacy, runtime, loose,
                   backups, config, launch, changes>>

-----------------------------------------------------------------------------
(* remove and capture *)

\* RemoveAccountWithOptions keeps the home unless it is told to delete it.
Remove ==
    /\ "remove" \in Commands
    /\ op = NoCommand
    /\ known
    /\ known' = FALSE
    /\ UNCHANGED <<service, exists, links, logins, config, op, launch, changes>>

\* The managed files go with the registration in one transaction, the rest of
\* the home after it.
RemoveWithHome ==
    /\ "remove" \in Commands
    /\ op = NoCommand
    /\ known
    /\ changes < MaxChanges
    /\ known' = FALSE
    /\ auth' = Absent
    /\ config' = IF shared THEN config ELSE Absent
    /\ op' = [NoCommand EXCEPT !.cmd = "remove", !.pc = "removeall"]
    /\ changes' = changes + 1
    /\ UNCHANGED <<service, exists, links, legacy, runtime, loose, backups,
                   launch>>

\* One thing after another goes, in any order, and at last the directory if by
\* then it is empty.  It may all fail halfway.
RemoveAll ==
    /\ op.pc = "removeall"
    /\ \/ /\ \E n \in Name : entry[n] # "none"
                            /\ entry' = [entry EXCEPT ![n] = "none"]
          /\ UNCHANGED <<auth, legacy, config, exists, op>>
       \/ /\ auth # Absent /\ auth' = Absent
          /\ UNCHANGED <<entry, legacy, config, exists, op>>
       \/ /\ legacy # Absent /\ legacy' = Absent
          /\ UNCHANGED <<entry, auth, config, exists, op>>
       \/ /\ ~shared /\ config # Absent
          /\ config' = Absent
          /\ UNCHANGED <<entry, auth, legacy, exists, op>>
       \/ /\ exists' \in {exists, exists /\ ~HomeIsEmpty}
          /\ op' = NoCommand
          /\ UNCHANGED <<entry, auth, legacy, config>>
    /\ UNCHANGED <<service, known, source, runtime, loose, backups, launch,
                   changes>>

\* CaptureAccount of ~/.codex/auth.json, whatever is in it.  The directory is
\* made first; the copy and the registration are one transaction.
Capture ==
    /\ "capture" \in Commands
    /\ kind = "codex"
    /\ op = NoCommand
    /\ changes < MaxChanges
    /\ exists' = TRUE
    /\ \/ /\ runtime # Absent
          /\ auth' = runtime
          /\ known' = TRUE
       \/ UNCHANGED <<auth, known>>
    /\ changes' = changes + 1
    /\ UNCHANGED <<service, links, legacy, runtime, loose, backups, config, op,
                   launch>>

-----------------------------------------------------------------------------
(* Launches, without the lock *)

\* runHome finds the account; a Codex launch has read or made its placeholder
\* under the lock by now.
Launch(p, cmd) ==
    /\ cmd \in Commands
    /\ op = NoCommand
    /\ known
    /\ kind = "codex" \/ cmd = "run"
    /\ kind = "codex" /\ cmd = "run" => shared
    /\ launch[p] = NoLaunch
    /\ launch' = [launch EXCEPT ![p].cmd = cmd, ![p].pc = "make"]
    /\ UNCHANGED <<service, known, exists, links, logins, config, op, changes>>

\* A launch is over: it has started the provider, was refused, or failed.
Over(p) == launch' = [launch EXCEPT ![p] = NoLaunch]

\* Every launch makes the runtime home first, an account's own again if it was
\* removed meanwhile.
EnsureHome(p) ==
    /\ launch[p].pc = "make"
    /\ \/ /\ exists' = (exists \/ ~shared)
          /\ launch' = [launch EXCEPT ![p].pc = "read"]
       \/ Over(p) /\ exists' \in {exists, exists \/ ~shared}
    /\ UNCHANGED <<service, known, links, logins, config, op, changes>>

\* Mutant: a real login is replaced by the placeholder as well.
EnsureAnyway(p) ==
    /\ launch[p].pc = "read"
    /\ kind = "codex"
    /\ launch[p].cmd = "run"
    /\ launch' = [launch EXCEPT ![p].pc = "write", ![p].saw = Runtime]
    /\ UNCHANGED <<service, known, exists, links, logins, config, op, changes>>

\* EnsureCodexProxyAuth: a real login is reported; the current placeholder is
\* left alone, one of an earlier secret is not.
Ensure(p) ==
    /\ launch[p].pc = "read"
    /\ kind = "codex"
    /\ launch[p].cmd = "run"
    /\ \/ /\ Runtime \notin Login
          /\ launch' = [launch EXCEPT ![p].pc = "write", ![p].saw = Runtime]
       \/ Over(p)
    /\ UNCHANGED <<service, known, exists, links, logins, config, op, changes>>

\* ReplaceCodexRuntimeAuth: a real login gets a backup first.
Replace(p) ==
    /\ launch[p].pc = "read"
    /\ launch[p].cmd = "proxy-auth"
    /\ \/ launch' = [launch EXCEPT ![p].saw = Runtime,
                                   ![p].pc = IF Runtime \in Login THEN "backup"
                                             ELSE "write"]
       \/ Over(p)
    /\ UNCHANGED <<service, known, exists, links, logins, config, op, changes>>

BackUp(p) ==
    /\ launch[p].pc = "backup"
    /\ \/ /\ RuntimeExists
          /\ backups' = backups \cup {launch[p].saw}
          /\ launch' = [launch EXCEPT ![p].pc = "write"]
       \/ Over(p) /\ UNCHANGED backups
    /\ UNCHANGED <<service, known, exists, links, auth, legacy, runtime, loose,
                   config, op, changes>>

\* writePrivateFile of the placeholder.
Write(p) ==
    /\ launch[p].pc = "write"
    /\ kind = "codex"
    /\ \/ /\ RuntimeExists
          /\ runtime' = IF shared THEN Placeholder ELSE runtime
          /\ auth' = IF shared THEN auth ELSE Placeholder
       \/ UNCHANGED <<runtime, auth>>
    /\ Over(p)
    /\ UNCHANGED <<service, known, exists, links, legacy, loose, backups,
                   config, op, changes>>

\* prepareClaudeRuntimeHome reads the config, and rewrites one that carries an
\* identity or that others may read.
ReadConfig(p) ==
    /\ launch[p].pc = "read"
    /\ kind = "claude"
    /\ LET dirty == config # Absent /\ (config.identity \/ ~config.private)
       IN  launch' = [launch EXCEPT
                        ![p].pc = "secure",
                        ![p].config = IF dirty
                                      THEN [config EXCEPT !.identity = FALSE,
                                                          !.private = TRUE]
                                      ELSE Absent]
    /\ UNCHANGED <<service, known, exists, links, logins, config, op, changes>>

\* PrepareClaudeSharedRuntimeHome: so are credentials that others may read.
\* Either file may be unfit, or not be staged, and the launch is refused.
ReadCredentials(p) ==
    /\ launch[p].pc = "secure"
    /\ \/ launch' = [launch EXCEPT
                       ![p].pc = "commit",
                       ![p].saw = IF shared /\ loose THEN runtime ELSE Absent]
       \/ Over(p)
    /\ UNCHANGED <<service, known, exists, links, logins, config, op, changes>>

\* commitClaudeConfigRewrites, once all are staged: first the config.
CommitConfig(p) ==
    /\ launch[p].pc = "commit"
    /\ \/ /\ RuntimeExists
          /\ config' = IF launch[p].config = Absent THEN config
                       ELSE launch[p].config
          /\ launch' = [launch EXCEPT ![p].pc = "write"]
       \/ Over(p) /\ UNCHANGED config
    /\ UNCHANGED <<service, known, exists, links, logins, op, changes>>

\* Then the credentials.
CommitCredentials(p) ==
    /\ launch[p].pc = "write"
    /\ kind = "claude"
    /\ \/ /\ launch[p].saw # Absent
          /\ runtime' = launch[p].saw
          /\ loose' = FALSE
       \/ UNCHANGED <<runtime, loose>>
    /\ Over(p)
    /\ UNCHANGED <<service, known, exists, links, auth, legacy, backups,
                   config, op, changes>>

-----------------------------------------------------------------------------
(* The client, the user, and kills *)

Change ==
    /\ changes < MaxChanges
    /\ changes' = changes + 1

\* The client logs in, or refreshes a login, in the home or the shared one.
SignIn ==
    /\ Change
    /\ \/ /\ exists
          /\ auth' = 3 + changes'
          /\ UNCHANGED <<runtime, loose>>
       \/ /\ kind = "codex" \/ shared
          /\ runtime' = 3 + changes'
          /\ loose' = FALSE
          /\ UNCHANGED auth
    /\ UNCHANGED <<service, known, exists, links, legacy, backups, config, op,
                   launch>>

\* The user logs out of the runtime home, or moves a backup back there.
ReplaceRuntime ==
    /\ Change
    /\ kind = "codex"
    /\ runtime' \in backups \cup {Absent}
    /\ UNCHANGED <<service, known, exists, links, auth, legacy, loose, backups,
                   config, op, launch>>

\* A running client saves its config.
SaveConfig ==
    /\ Change
    /\ kind = "claude"
    /\ RuntimeExists
    /\ \E identity \in BOOLEAN :
          config' = [edit |-> changes', identity |-> identity,
                     private |-> TRUE]
    /\ UNCHANGED <<service, known, exists, links, logins, op, launch>>

\* The user puts something of their own under a name, or deletes what is there.
Edit(n) ==
    /\ Change
    /\ kind = "claude"
    /\ exists
    /\ entry' \in {[entry EXCEPT ![n] = e] : e \in {"own", "none"}}
    /\ op' = IF op = NoCommand THEN op
             ELSE [op EXCEPT !.touched = @ \cup {n},
                             !.late = IF op.pc = "unlink"
                                      THEN @ \cup (op.at \cap {n}) ELSE @]
    /\ UNCHANGED <<service, known, exists, source, logins, config, launch>>

\* The user adds to the native ~/.claude or deletes from it.
EditNative(n) ==
    /\ Change
    /\ kind = "claude"
    /\ source' = IF n \in source THEN source \ {n} ELSE source \cup {n}
    /\ UNCHANGED <<service, known, exists, entry, logins, config, op, launch>>

\* The command that holds the lock is killed.
Kill ==
    /\ Change
    /\ op # NoCommand
    /\ op' = NoCommand
    /\ UNCHANGED <<service, known, exists, links, logins, config, launch>>

-----------------------------------------------------------------------------
Next ==
    \/ BeginCreate \/ BeginRepair \/ BeginMigrate
    \/ MakeHome
    \/ \E n \in Name : Inspect(n)
    \/ Symlink \/ AllInspected \/ Save \/ Undo \/ Unlink \/ UndoHome
    \/ StatLegacy \/ CopyLegacy
    \/ Remove \/ RemoveWithHome \/ RemoveAll \/ Capture
    \/ \E p \in Launcher :
          \/ \E cmd \in {"run", "proxy-auth"} : Launch(p, cmd)
          \/ EnsureHome(p) \/ Ensure(p) \/ Replace(p) \/ BackUp(p) \/ Write(p)
          \/ ReadConfig(p) \/ ReadCredentials(p)
          \/ CommitConfig(p) \/ CommitCredentials(p)
    \/ SignIn \/ ReplaceRuntime \/ SaveConfig
    \/ \E n \in Name : Edit(n) \/ EditNative(n)
    \/ Kill

Spec == Init /\ [][Next]_vars

-----------------------------------------------------------------------------
(* Properties *)

\* An entry of the user's own under a shared name goes by their own hand, or
\* with the home they asked to remove: no creation, repair or failed creation
\* replaces or removes it (claude_home_config.go:34, "does not replace any
\* existing account-home entry").  The exception is an entry put there after a
\* failed creation had found its own link under the name (132-139) and before
\* it removed what it took for that (140).
OwnEntriesSurvive ==
    [][\A n \in Name :
         entry[n] = "own" /\ entry'[n] # "own" =>
            \/ Edit(n)
            \/ op.cmd = "remove"
            \/ op.pc = "unlink" /\ n \in op.late]_vars

OwnEntries == {n \in Name : entry[n] = "own"}

\* A command reports a conflict only over something of the user's: the links a
\* killed creation left behind do not keep its retry, or a repair, from
\* completing the home.
ConflictHasCause == op.conflict => op.touched \cup OwnEntries # {}

\* Each command keeps to its own steps, and a creation has its directory from
\* the first link on.
StepsInv ==
    /\ op.pc = "idle" <=> op.cmd = "none"
    /\ op.pc = "removeall" => op.cmd = "remove" /\ ~op.conflict
    /\ op.pc \in {"save", "undo", "unlink"} => op.cmd = "create"
    /\ op.pc \in {"stat", "copy"} => op.cmd = "migrate"
    /\ op.pc \in {"inspect", "symlink"} => op.cmd \in {"create", "repair"}
    /\ op.pc \in {"inspect", "symlink", "save", "undo", "unlink"} => exists
    /\ op.pc = "copy" => op.saw = Absent

\* Under every name the user has not touched since a creation began, there is
\* what there was before, or else a link that the creation will undo.
CreationInv ==
    op.cmd = "create" =>
        \A n \in Name \ op.touched :
            IF n \in op.linked THEN entry[n] = "link" /\ op.before[n] = "none"
            ELSE entry[n] = op.before[n]

\* What is about to be removed is a link the creation made, unless the user has
\* changed it since it was looked at.
UnlinkInv ==
    /\ op.late \subseteq op.touched
    /\ op.pc = "unlink" =>
        /\ op.at \subseteq op.linked
        /\ \A n \in op.at \ op.late : entry[n] = "link"

\* Only Claude launches get to the steps of a config, and a login that
\* proxy-auth is about to write over has its backup.
BackupInv ==
    \A p \in Launcher :
        /\ launch[p].pc \in {"secure", "commit"} => kind = "claude"
        /\ launch[p].pc = "backup" => launch[p].saw \in Login
        /\ launch[p].pc = "write" /\ kind = "codex" /\ launch[p].saw \in Login
           => launch[p].saw \in backups

\* The inductive invariant: whatever step a command or a launch has got to,
\* what it will undo or write over is still what it believes it to be.
HomesInv ==
    /\ TypeOK /\ ConflictHasCause
    /\ StepsInv /\ CreationInv /\ UnlinkInv /\ BackupInv

\* A creation that fails leaves the home as it was, but for what the user
\* changed meanwhile: links it found stay, links it made go, and so does a
\* directory it made unless there is something in it.
FailureIsUndone ==
    [][op.pc = "undo" /\ op' = NoCommand /\ changes' = changes =>
         /\ \A n \in Name \ op.touched : entry'[n] = op.before[n]
         /\ ~op.existed /\ exists' => ~HomeIsEmpty']_vars

\* The last copy of a login goes only where the client signs in anew or the
\* user gives it up, with a home the user asked to remove, or under a capture,
\* which they asked for and which writes over whatever login the home has.  A
\* migration, a launch and proxy-auth write over none they have seen: the
\* exception is one that arrives after they have looked.
LoginsAreKept ==
    [][\A l \in Copies :
         \/ l \in Copies'
         \/ SignIn \/ ReplaceRuntime
         \/ RemoveWithHome \/ op.cmd = "remove"
         \/ Capture
         \/ op.pc = "copy" /\ op.saw # l
         \/ \E p \in Launcher : launch[p].pc = "write" /\ launch[p].saw # l]_vars

\* A launch drops nothing from the config but the identity, so what another
\* session of a shared runtime home has saved there stays.
LaunchDropsOnlyTheIdentity ==
    [][\/ changes' # changes
       \/ op.cmd = "remove"
       \/ config' = config
       \/ /\ config # Absent
          /\ config' = [config EXCEPT !.identity = FALSE, !.private = TRUE]]_vars

=============================================================================
