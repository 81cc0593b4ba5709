------------------------- MODULE BundleCredentials -------------------------
(***************************************************************************)
(* The logins of a bundle-mode service, live for the provider's client and *)
(* backed up for each account.  Claude has a credentials file and a config *)
(* file that says whose they are; Codex has one file that says both.       *)
(* Switching and capturing (files.go) move them around under the state     *)
(* lock, usage probes refresh them upstream without it and write them back *)
(* under it (usage.go, claude_usage.go, codex_usage.go), and the client    *)
(* refreshes or replaces the live ones whenever it likes, between any two  *)
(* of subswapper's steps.                                                  *)
(*                                                                         *)
(* Refresh tokens rotate: using one consumes it, and whoever loses the     *)
(* answer has lost the login.  A bundle is written in one step, which      *)
(* FileTransaction shows is sound under the lock; the two transactions of  *)
(* a switch are two steps.                                                 *)
(***************************************************************************)
EXTENDS Naturals, FiniteSets

CONSTANTS
    Kinds,      \* the services' kinds
    Account,    \* names of the captured accounts
    User,       \* provider logins
    Named,      \* those whose files name them
    Prober,     \* processes that probe usage
    Nobody,     \* no account, no user
    Absent,     \* a file that does not exist
    Broken,     \* a credentials file that is empty or cannot be parsed
    Client,     \* what the provider's client does besides using its login
    Commands,   \* what the user does with subswapper
    MaxTokens,  \* bound: refresh tokens ever issued to one user
    MaxChanges  \* bound: captures, removals, imports and broken live files
                \* in a behaviour

ASSUME ConstantsAssumption ==
    /\ Kinds \subseteq {"claude", "codex"}
    /\ Named \subseteq User
    /\ Nobody \notin Account \cup User
    /\ Absent \notin User
    /\ Absent # Broken
    /\ {Absent, Broken} \cap [user : User, token : 1..MaxTokens] = {}
    /\ Client \subseteq {"refresh", "race", "login", "break"}
    /\ Commands \subseteq {"switch", "capture", "remove", "import", "kill",
                           "fail"}
    /\ MaxTokens \in Nat \ {0}
    /\ MaxChanges \in Nat

VARIABLES
    kind,       \* the service's kind
    live,       \* the managed files the client uses
    backup,     \* each account's copy of them
    known,      \* state: the captured accounts
    added,      \* state: AddedAt of each
    active,     \* state: ActiveAccount
    switching,  \* the account a switch in progress is going to, holding
                \* the lock between its two transactions
    issued,     \* upstream: how many tokens each user was given
    valid,      \* upstream: tokens not used yet
    probe,      \* memory of each usage probe
    owner,      \* history: whose login each account was captured from,
                \* Absent if the files were not of one user
    changes,    \* those of MaxChanges so far
    landed      \* history: the client has written the live files since the
                \* probe that is writing compared them

state == <<known, added, active>>
files == <<live, backup>>
upstream == <<issued, valid>>
bookkeeping == <<kind, owner, changes, landed>>
vars == <<kind, live, backup, known, added, active, switching, issued, valid,
          probe, owner, changes, landed>>

\* The content of a credentials file, by the refresh token in it.
Login == [user : User, token : 1..MaxTokens]
Bundle == [login : Login \cup {Absent, Broken}, config : User \cup {Absent}]
NoFiles == [login |-> Absent, config |-> Absent]

NameOf(u) == IF u \in Named THEN u ELSE Absent
BundleOf(u, n) == [login  |-> [user |-> u, token |-> n],
                   config |-> IF kind = "claude" THEN NameOf(u) ELSE Absent]

\* credentialIdentity: whom the files name, Claude's config or Codex's login.
Identity(bundle) ==
    CASE kind = "claude"                          -> bundle.config
      [] kind = "codex" /\ bundle.login \in Login -> NameOf(bundle.login.user)
      [] OTHER                                    -> Absent

ProbeState ==
    [pc : {"idle", "begun", "read", "fetched", "refreshed", "mirroring",
           "replacing"},
     account : Account \cup {Nobody}, added : 0..MaxChanges, active : BOOLEAN,
     login : Login \cup {Absent}, fromLive : BOOLEAN, new : Login \cup {Absent}]
NoProbe == [pc |-> "idle", account |-> Nobody, added |-> 0, active |-> FALSE,
            login |-> Absent, fromLive |-> FALSE, new |-> Absent]

TypeOK ==
    /\ kind \in Kinds
    /\ live \in Bundle
    /\ backup \in [Account -> Bundle]
    /\ known \subseteq Account
    /\ added \in [Account -> 0..MaxChanges]
    /\ active \in known \cup {Nobody}
    /\ switching \in Account \cup {Nobody}
    /\ issued \in [User -> 0..MaxTokens]
    /\ valid \in [User -> SUBSET (1..MaxTokens)]
    /\ probe \in [Prober -> ProbeState]
    /\ owner \in [Account -> User \cup {Nobody, Absent}]
    /\ changes \in 0..MaxChanges
    /\ landed \in BOOLEAN

\* Each account was captured from a login of its own; the selected one is live.
Init ==
    \E o \in [Account -> User] :
        /\ \A a, b \in Account : a # b => o[a] # o[b]
        /\ owner = o
        /\ kind \in Kinds
        /\ known = Account
        /\ active \in Account \cup {Nobody}
        /\ backup = [a \in Account |-> BundleOf(o[a], 1)]
        /\ live = IF active = Nobody THEN NoFiles ELSE backup[active]
        /\ added = [a \in Account |-> 0]
        /\ switching = Nobody
        /\ issued = [u \in User |-> IF u \in {o[a] : a \in Account}
                                    THEN 1 ELSE 0]
        /\ valid = [u \in User |-> 1..issued[u]]
        /\ probe = [p \in Prober |-> NoProbe]
        /\ changes = 0
        /\ landed = FALSE

\* Probe P has compared the files, and holds the lock until it has written.
Writing(P) == P.pc \in {"mirroring", "replacing"}

\* Nobody is between two steps that one holding of the lock covers.
LockIsFree ==
    /\ switching = Nobody
    /\ \A p \in Prober : ~Writing(probe[p])

\* Mutant: nobody asks whose login is live.
Unverified(a) == TRUE

\* verifyActiveIdentity: the live files belong to account a, as far as can be
\* told.  Without a name on either side only equal files do, or a live one
\* that is lost.  Claude's nameless configs, which the code compares too, are
\* all the same here: to compare them could only refuse more.
Verified(a) ==
    IF {Identity(live), Identity(backup[a])} # {Absent}
    THEN Identity(live) = Identity(backup[a])
    ELSE \/ Absent \in {live.login, backup[a].login}
         \/ live.login = backup[a].login
         \/ live.login = Broken

-----------------------------------------------------------------------------
(* Upstream *)

\* User u's token n is traded for a new one.
Rotate(u, n) ==
    /\ n \in valid[u]
    /\ issued[u] < MaxTokens
    /\ issued' = [issued EXCEPT ![u] = @ + 1]
    /\ valid' = [valid EXCEPT ![u] = (@ \ {n}) \cup {issued'[u]}]

-----------------------------------------------------------------------------
(* The provider's client, which knows nothing of the lock *)

\* It has written the live files, perhaps under the hands of a probe.
ClientWrites ==
    /\ landed' = \E p \in Prober : Writing(probe[p])
    /\ UNCHANGED <<backup, state, switching, probe, kind, owner>>

ClientRefreshes ==
    /\ "refresh" \in Client
    /\ "race" \in Client \/ switching = Nobody
    /\ live.login \in Login
    /\ Rotate(live.login.user, live.login.token)
    /\ live' = [live EXCEPT !.login.token = issued'[live.login.user]]
    /\ ClientWrites
    /\ UNCHANGED changes

ClientLogsIn(u) ==
    /\ "login" \in Client
    /\ issued[u] < MaxTokens
    /\ issued' = [issued EXCEPT ![u] = @ + 1]
    /\ valid' = [valid EXCEPT ![u] = @ \cup {issued'[u]}]
    /\ live' = BundleOf(u, issued'[u])
    /\ ClientWrites
    /\ UNCHANGED changes

\* The client logs out, or dies while it writes its credentials.
ClientBreaksFile ==
    /\ "break" \in Client
    /\ live.login \in Login
    /\ changes < MaxChanges
    /\ changes' = changes + 1
    /\ \E left \in {Absent, Broken} : live' = [live EXCEPT !.login = left]
    /\ ClientWrites
    /\ UNCHANGED upstream

-----------------------------------------------------------------------------
(* Switching, capturing and removing accounts *)

\* Mutant: the outgoing account is not synced.
NotSynced(a) == backup

\* syncAccountFiles: a missing live file leaves the backup alone, and so does
\* a broken one if the backup is good.  The config files agree already.
Synced(a) ==
    IF \/ live.login = Absent
       \/ live.login = Broken /\ backup[a].login \in Login
    THEN backup
    ELSE [backup EXCEPT ![a].login = live.login]

\* The first half of switchServiceFiles, called only for another account.
BeginSwitch(b) ==
    /\ "switch" \in Commands
    /\ LockIsFree
    /\ b \in known
    /\ active # b
    /\ IF active = Nobody THEN UNCHANGED backup
       ELSE Verified(active) /\ backup' = Synced(active)
    /\ switching' = b
    /\ UNCHANGED <<live, state, upstream, probe, bookkeeping>>

\* Its second half: the account's backup becomes the live bundle.
FinishSwitch ==
    /\ switching # Nobody
    /\ backup[switching].login # Absent
    /\ live' = backup[switching]
    /\ active' = switching
    /\ switching' = Nobody
    /\ UNCHANGED <<backup, known, added, upstream, probe, bookkeeping>>

\* The bundle is not there, cannot be staged or is rolled back, or the
\* process dies.
AbandonSwitch ==
    /\ switching # Nobody
    /\ switching' = Nobody
    /\ UNCHANGED <<files, state, upstream, probe, bookkeeping>>

Change ==
    /\ LockIsFree
    /\ changes < MaxChanges
    /\ changes' = changes + 1
    /\ UNCHANGED <<kind, landed>>

\* Claude's config names the user of the login beside it, if that has a name.
WellFormed(bundle) ==
    /\ kind = "codex" => bundle.config = Absent
    /\ kind = "claude" /\ bundle.login \in Login =>
          bundle.config = NameOf(bundle.login.user)

\* CaptureAccount, for a new account or one captured before.
CaptureAccount(a) ==
    /\ "capture" \in Commands
    /\ Change
    /\ live.login # Absent
    /\ backup' = [backup EXCEPT ![a] = live]
    /\ known' = known \cup {a}
    /\ added' = [added EXCEPT ![a] = changes']
    /\ active' = a
    /\ owner' = [owner EXCEPT ![a] =
                    IF ~WellFormed(live) THEN Absent
                    ELSE IF Identity(live) # Absent THEN Identity(live)
                    ELSE IF live.login \in Login THEN live.login.user
                    ELSE Nobody]
    /\ UNCHANGED <<live, switching, upstream, probe>>

\* Mutant: a removed account stays selected.
RemoveSelected(a) ==
    /\ "remove" \in Commands
    /\ Change
    /\ a \in known
    /\ known' = known \ {a}
    /\ backup' = [backup EXCEPT ![a] = NoFiles]
    /\ added' = [added EXCEPT ![a] = 0]
    /\ owner' = [owner EXCEPT ![a] = Nobody]
    /\ UNCHANGED <<live, active, switching, upstream, probe>>

\* RemoveAccountWithOptions; the selected account only with -force.
RemoveAccount(a) ==
    /\ "remove" \in Commands
    /\ Change
    /\ a \in known
    /\ known' = known \ {a}
    /\ backup' = [backup EXCEPT ![a] = NoFiles]
    /\ added' = [added EXCEPT ![a] = 0]
    /\ owner' = [owner EXCEPT ![a] = Nobody]
    /\ active' = IF active = a THEN Nobody ELSE active
    /\ UNCHANGED <<live, switching, upstream, probe>>

\* What another tool may have kept, current or not.
Kept == {login \in Login : login.token <= issued[login.user]}

\* ImportClaudeSwap: accounts that are not registered get the bundles another
\* tool kept and the dates it gave them, and none becomes the selected one
\* unless its bundle is the live one.
ImportClaudeSwap ==
    /\ "import" \in Commands
    /\ kind = "claude"
    /\ Change
    /\ \E slots \in (SUBSET (Account \ known)) \ {{}} :
       \E login \in [slots -> Kept] :
          /\ backup' = [a \in Account |->
                           IF a \in slots
                           THEN BundleOf(login[a].user, login[a].token)
                           ELSE backup[a]]
          /\ known' = known \cup slots
          /\ added' = [a \in Account |-> IF a \in slots THEN 0 ELSE added[a]]
          /\ owner' = [a \in Account |-> IF a \in slots THEN login[a].user
                                                       ELSE owner[a]]
          /\ active' \in {active} \cup
                         {a \in slots : active = Nobody /\ live = backup'[a]}
    /\ UNCHANGED <<live, switching, upstream, probe>>

-----------------------------------------------------------------------------
(* A usage probe of one account (fetchClaudeUsage, fetchCodexUsage) *)

\* CollectService reaches account a with a copy of the state, and its backup
\* is complete.
BeginProbe(p, a) ==
    /\ probe[p].pc = "idle"
    /\ LockIsFree
    /\ a \in known
    /\ backup[a].login # Absent
    /\ probe' = [probe EXCEPT ![p] =
                    [NoProbe EXCEPT !.pc = "begun", !.account = a,
                                    !.added = added[a],
                                    !.active = active = a]]
    /\ UNCHANGED <<files, state, switching, upstream, bookkeeping>>

EndProbe(p) == probe' = [probe EXCEPT ![p] = NoProbe]

\* snapshotCredentialSource: the live login of an account that was selected,
\* else its backup.
ReadSource(p) ==
    LET P == probe[p]
        Take(login, fromLive) ==
            probe' = [probe EXCEPT ![p] = [P EXCEPT !.pc = "read",
                                                    !.login = login,
                                                    !.fromLive = fromLive]]
    IN /\ P.pc = "begun"
       /\ LockIsFree
       /\ CASE P.active /\ live.login \in Login ->
                  IF Verified(P.account) THEN Take(live.login, TRUE)
                                         ELSE EndProbe(p)
            [] (P.active => live.login \notin Login)
               /\ backup[P.account].login \in Login ->
                  Take(backup[P.account].login, FALSE)
            [] OTHER -> EndProbe(p)
       /\ UNCHANGED <<files, state, switching, upstream, bookkeeping>>

\* Claude's usage endpoint accepts the login, and a live one is newer than the
\* backup; else there is nothing to write, as after any other failure.
FetchUsage(p) ==
    /\ kind = "claude"
    /\ probe[p].pc = "read"
    /\ \/ /\ probe[p].fromLive
          /\ backup[probe[p].account].login # probe[p].login
          /\ probe' = [probe EXCEPT ![p].pc = "fetched",
                                    ![p].new = probe[p].login]
       \/ EndProbe(p)
    /\ UNCHANGED <<files, state, switching, upstream, bookkeeping>>

\* It rejects the login, so the probe trades its refresh token.  If that has
\* been used already, the probe ends (FetchUsage).
RefreshLogin(p) ==
    LET login == probe[p].login IN
    /\ kind = "claude"
    /\ probe[p].pc = "read"
    /\ Rotate(login.user, login.token)
    /\ probe' = [probe EXCEPT
                    ![p].pc = "refreshed",
                    ![p].new = [login EXCEPT !.token = issued'[login.user]]]
    /\ UNCHANGED <<files, state, switching, bookkeeping>>

\* Codex's app-server, started on a copy of the login in a directory of its
\* own, refreshes it there.
ServerRefreshes(p) ==
    LET login == probe[p].login IN
    /\ kind = "codex"
    /\ probe[p].pc = "read"
    /\ probe[p].new = Absent
    /\ Rotate(login.user, login.token)
    /\ probe' = [probe EXCEPT
                    ![p].new = [login EXCEPT !.token = issued'[login.user]]]
    /\ UNCHANGED <<files, state, switching, bookkeeping>>

\* It tells the limits, and is sent the end of its input, upon which it writes
\* its login (readCodexRateLimits).  One that is the same is not written back.
ServerAnswers(p) ==
    /\ kind = "codex"
    /\ probe[p].pc = "read"
    /\ IF probe[p].new = Absent THEN EndProbe(p)
       ELSE probe' = [probe EXCEPT ![p].pc = "refreshed"]
    /\ UNCHANGED <<files, state, switching, upstream, bookkeeping>>

\* It tells an error, breaks off, or never ends and is killed: its directory
\* is removed with the login in it.
ServerFails(p) ==
    /\ kind = "codex"
    /\ probe[p].pc = "read"
    /\ "fail" \in Commands \/ probe[p].new = Absent
    /\ EndProbe(p)
    /\ UNCHANGED <<files, state, switching, upstream, bookkeeping>>

\* Where the source of probe P is now (applyCredentialUpdate).
SourceNow(P) == IF P.fromLive /\ active = P.account
                THEN live.login ELSE backup[P.account].login

\* Mutant: the live file is not compared when the backup was the source.
UnchangedBackup(P) ==
    /\ P.account \in known
    /\ added[P.account] = P.added
    /\ active = P.account => Verified(P.account)
    /\ SourceNow(P) = P.login

\* What the probe read is still there, and the account the same.
SourceUnchanged(P) ==
    /\ P.account \in known
    /\ added[P.account] = P.added
    /\ active = P.account => Verified(P.account)
    /\ SourceNow(P) = P.login
    /\ active = P.account /\ ~P.fromLive => live.login = P.login

\* The first half of applyCredentialUpdate: it takes the lock and compares.
\* A login that was only read is to go to the backup, a refreshed one to the
\* live file of a selected account too.
CompareSource(p) ==
    LET P == probe[p] IN
    /\ P.pc \in {"fetched", "refreshed"}
    /\ LockIsFree
    /\ IF SourceUnchanged(P)
       THEN probe' = [probe EXCEPT ![p].pc =
                         IF P.pc = "fetched" THEN "mirroring" ELSE "replacing"]
       ELSE EndProbe(p)
    /\ landed' = FALSE
    /\ UNCHANGED <<files, state, switching, upstream, kind, owner, changes>>

\* Its second half, by then over whatever the client has left there.
WriteUpdate(p) ==
    LET P == probe[p] IN
    /\ Writing(P)
    /\ backup' = [backup EXCEPT ![P.account].login = P.new]
    /\ live' = IF P.pc = "replacing" /\ active = P.account
               THEN [live EXCEPT !.login = P.new] ELSE live
    /\ EndProbe(p)
    /\ landed' = FALSE
    /\ UNCHANGED <<state, switching, upstream, kind, owner, changes>>

\* The prober is killed, upstream's answer is lost, or its files cannot be
\* staged or are rolled back.
KillProbe(p) ==
    /\ "kill" \in Commands
    /\ probe[p].pc # "idle"
    /\ EndProbe(p)
    /\ landed' = (landed /\ ~Writing(probe[p]))
    /\ UNCHANGED <<files, state, switching, upstream, kind, owner, changes>>

Next ==
    \/ ClientRefreshes \/ ClientBreaksFile
    \/ \E u \in User : ClientLogsIn(u)
    \/ \E a \in Account :
          BeginSwitch(a) \/ CaptureAccount(a) \/ RemoveAccount(a)
    \/ FinishSwitch \/ AbandonSwitch \/ ImportClaudeSwap
    \/ \E p \in Prober :
          \/ \E a \in Account : BeginProbe(p, a)
          \/ ReadSource(p) \/ FetchUsage(p) \/ RefreshLogin(p)
          \/ ServerRefreshes(p) \/ ServerAnswers(p) \/ ServerFails(p)
          \/ CompareSource(p) \/ WriteUpdate(p) \/ KillProbe(p)

Spec == Init /\ [][Next]_vars

-----------------------------------------------------------------------------
(* Correctness *)

\* Whatever logins come and go in the live files, an account's backup only
\* ever holds a login of the user it was captured from
\* (TestClaudeForeignLiveIdentityDoesNotOverwriteBackup, files_test.go:63).
\* The exception is an account captured from Claude files that were of two
\* users: another one's login, arriving while a probe was writing, left its
\* config beside the probe's credentials.
BackupBelongsToAccount ==
    \A a \in known :
        backup[a].login \in Login /\ owner[a] # Absent =>
            backup[a].login.user = owner[a]

\* A probe replaces the live login only if that is the very one it had
\* refreshed, or arrived after the probe had compared (usage.go:126-145) and
\* before it wrote (146-160).  "never clobber a live login we did not read"
\* (codex_usage.go:111) does not make the exception; the code does.
ProbeReplacesWhatItRead ==
    [][\A p \in Prober :
           probe[p].pc = "replacing" /\ probe'[p].pc = "idle" /\ live' # live
           => live.login = probe[p].login \/ landed]_vars

\* Where account a's login can be found: in its backup, in the live file
\* while it is selected, or on its way back from a refresh.
LoginsOf(a) ==
    {backup[a].login}
    \cup {live.login : x \in {active} \cap {a}}
    \cup {probe[p].new : p \in {q \in Prober : /\ probe[q].account = a
                                               /\ probe[q].new # Absent
                                               /\ probe[q].pc \notin
                                                     {"fetched", "mirroring"}}}

\* No account loses its login to a rotation: somewhere subswapper keeps a
\* token that upstream still accepts (files.go:202, "It first syncs the
\* outgoing account so rotated credentials are not lost"; usage.go:66, the
\* backup is "the destination for refresh write-backs").
LoginSurvives ==
    \A a \in known :
        \E login \in LoginsOf(a) \cap Login : login.token \in valid[login.user]

-----------------------------------------------------------------------------
(* The inductive invariants behind these properties *)

\* Codex has no config.
OneFile(bundle) == kind = "codex" => bundle.config = Absent

\* Bundle is one that an account of user u may have as its backup.
BelongsTo(bundle, u) ==
    /\ OneFile(bundle)
    /\ u # Absent => /\ WellFormed(bundle)
                     /\ bundle.config \in {u, Absent}
                     /\ bundle.login \in Login => bundle.login.user = u

\* Live files of two users do not pass for the selected account's.
FilesInv ==
    /\ switching \in known \cup {Nobody}
    /\ \A a \in known : backup[a].login # Absent /\ BelongsTo(backup[a], owner[a])
    /\ OneFile(live)
    /\ active # Nobody /\ ~WellFormed(live) =>
          owner[active] = Absent \/ live.config # backup[active].config

\* A probe brings back a login of the user whose login it read.
ProbeInv ==
    \A p \in Prober : LET P == probe[p] IN
        /\ P.pc # "idle" => P.account \in Account
        /\ P.login # Absent <=> P.pc \notin {"idle", "begun"}
        /\ P.pc \notin {"idle", "begun", "read"} => P.new # Absent
        /\ P.new # Absent => P.login # Absent /\ P.new.user = P.login.user
        /\ P.pc = "read" /\ kind = "claude" => P.new = Absent

\* A probe that writes is alone, and what it writes is the account's own.
WriterInv ==
    \A p \in Prober : LET P == probe[p] IN
        Writing(P) =>
            /\ switching = Nobody
            /\ \A q \in Prober : Writing(probe[q]) => q = p
            /\ P.account \in known
            /\ BelongsTo([backup[P.account] EXCEPT !.login = P.new],
                         owner[P.account])
            /\ P.pc = "replacing" /\ active = P.account =>
                  live.login = P.login \/ landed

BundleInv ==
    TypeOK /\ FilesInv /\ ProbeInv /\ WriterInv /\ BackupBelongsToAccount

\* The rest holds as long as the client only refreshes its login, and nobody
\* does more than switch.

\* The one login of account a that upstream accepts.
Current(a) == [user |-> owner[a], token |-> issued[owner[a]]]

\* The login the account would go on with.
Working(a) == IF active = a THEN live.login ELSE backup[a].login

\* No two accounts have a user in common, and no file has a login that was not
\* issued.  A switch under way has the outgoing account in its backup.
SettledInv ==
    /\ known = Account
    /\ WellFormed(live)
    /\ \A a, b \in Account : a # b => owner[a] # owner[b]
    /\ \A a \in Account :
          /\ added[a] = 0
          /\ owner[a] \in User
          /\ backup[a].login \in Login
          /\ backup[a].login.token <= issued[owner[a]]
          /\ valid[owner[a]] = {issued[owner[a]]}
    /\ active = Nobody => live.login = Absent
    /\ active # Nobody =>
          /\ live.login \in Login
          /\ live.login.user = owner[active]
          /\ live.login.token <= issued[owner[active]]
          /\ switching # Nobody => backup[active].login = live.login
    /\ switching # Nobody => switching # active

\* What probe P read can be compared when it writes.
OnFile(P) == \/ backup[P.account].login = P.login
             \/ P.fromLive /\ owner[P.account] \in Named

ReadOK(P) ==
    /\ P.added = 0
    /\ P.pc \in {"fetched", "mirroring"} => P.new = P.login
    /\ P.login # Absent =>
          /\ P.login.user = owner[P.account]
          /\ P.login.token <= issued[owner[P.account]]
          /\ P.login = Current(P.account) => OnFile(P)

ReadInv == \A p \in Prober : ReadOK(probe[p])

\* Probe P has traded a login and not written the new one yet.
Carries(P) == P.pc \notin {"fetched", "mirroring"} /\ P.new # Absent

ProbersOf(a) == {p \in Prober : probe[p].account = a}

AtRest(a) ==
    /\ Working(a) = Current(a)
    /\ \A p \in ProbersOf(a) : ~Carries(probe[p])

\* Probe p brings back account a's login, and finds what it has read.
OnItsWay(a, p) ==
    /\ Carries(probe[p])
    /\ probe[p].new = Current(a)
    /\ Working(a) = probe[p].login
    /\ OnFile(probe[p])
    /\ backup[a].login # Current(a)
    /\ \A q \in ProbersOf(a) : /\ probe[q].login # Current(a)
                               /\ q # p => ~Carries(probe[q])

CarryInv ==
    \A a \in Account : AtRest(a) \/ \E p \in ProbersOf(a) : OnItsWay(a, p)

\* The probe that writes finds what it compared, or the client has refreshed
\* the live login that it only copies, and nobody has read the new one.
WriteOK(P) ==
    Writing(P) => \/ SourceUnchanged(P)
                  \/ /\ P.pc = "mirroring"
                     /\ active = P.account
                     /\ live.login = Current(P.account)
                     /\ \A q \in ProbersOf(P.account) :
                           probe[q].login # Current(P.account)

WriteInv == \A p \in Prober : WriteOK(probe[p])

RotationInv == SettledInv /\ ReadInv /\ CarryInv /\ WriteInv
=============================================================================
