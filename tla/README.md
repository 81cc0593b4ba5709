# Verification of subswapper

TLA+ models of subswapper, checked by TLC on small instances, and proofs about
them checked by TLAPS for instances of any size. File names without a directory
are those of `internal/subswapper/`; line numbers are those of the commit this
directory stands beside.

## The system

subswapper keeps several Claude and Codex accounts on one machine and decides
which of them serves the next request. Nothing of it stays in memory between
operations: every command, the monitor's loop and the two local proxies share
one state file and a few credential files, and each of them takes one
cross-process lock to read or write them. All the hard behaviour comes from
that: locked sections are short, the work between them takes as long as the
network does, processes die, and the provider's own clients change some of the
files without the lock.

| Part | State | Operations | Talks to | What makes it correct |
| --- | --- | --- | --- | --- |
| State lock (`lock*.go`) | the lock file | acquire (which recovers a pending transaction), release, release by the kernel | everything | whoever holds it works on settled files |
| File transaction (`transaction.go`, `files.go`) | staged files, rollback copies, the journal | snapshot, journal, commit, roll back, recover, clean up | lock, state store | a bundle takes effect as a whole or not at all, whatever fails or dies, and its caller is told which |
| State store (`state.go`) | `state.json` | load, save | everything | a save is atomic and never lost to a later recovery |
| Claude proxy (`claude_proxy.go`) | per request: routes, position, whether the failover sticks | look up routes, forward, retry, record | state, tokens, Anthropic | fails over for a reason, never blames a token for another's reply |
| Setup-token usage (`claude_setup_token_usage.go`, `claude_statusline.go`) | per probe: a copy of the state | probe an account, record a status-line sample | state, tokens, Anthropic | never clears or replaces newer facts |
| Monitor and selection (`monitor.go`, `selector.go`) | per cycle: snapshot and scores | snapshot, merge, match, switch | state, probes | switches only on facts that still hold |
| Setup tokens (`setup_tokens.go`) | token files, revisions in the state | set, load, remove | state | token and state agree or the token is unusable; no two accounts share one |
| Codex proxy (`codex_proxy.go`) | per request as above; fetches in flight; a balance counter | look up, balance, forward, retry, record, refresh usage | state, account homes, ChatGPT | as the Claude proxy; one usage fetch per account at a time |
| Bundles (`files.go`, `identity.go`) | live files, backups | capture, switch, sync, remove | state, transaction, the client | rotated credentials survive a switch; a bundle is never mixed |
| Credential refresh (`usage.go`, `claude_usage.go`, `codex_usage.go`) | per probe: what it read | snapshot, refresh upstream, write back | bundles, provider | a refreshed token is stored for its own account, over nothing newer |
| Warm-up (`warmup.go`) | warm-up times in the state | list, warm, record | state, provider | an account is warmed once per window and not again too early |
| Account homes and links (`homes.go`, `claude_home_config.go`, `claude_launch.go`) | directories, links, config and login files | create, repair, migrate, prepare a runtime home | state, the client, the user | a failed creation undoes what it did and no more; nothing of the user's, and no last copy of a login, is overwritten |
| Swap import (`claude_swap_import.go`) | another tool's store | import | state, transaction | as a transaction |
| CLI, launch, delegate (`cmd/subswapper`, `*_launch.go`) | process environment, a child and its output | run, redact, kill | everything | no secret in the output, success means complete output, no child left behind, an end in time |
| Configuration, rendering, samples, fx wrapper, plugins | - | - | - | plain data and text |

The hard behaviours are: a process that dies between two file operations;
system calls that fail halfway through a bundle; requests, probes and user
commands that overlap, so that what one of them read is stale when it writes;
replies that are recorded in another order than they came; a token or account
replaced under an operation that is using it; windows that reset while nobody
looks. `PROJECT.json` lists every such hazard at its line, with the properties
that are about it.

## The modules

| Module | Models | Kind |
| --- | --- | --- |
| `AtomicBundle` | what a transaction promises | abstract specification |
| `FileTransaction` | `transaction.go`, `lock.go`, `SaveState` | state machine, refines `AtomicBundle` |
| `FileTransaction_proofs` | | theorems about it |
| `ClaudeRouting` | Claude proxy, probes, monitor, tokens and the user's commands on one state file | state machine |
| `ClaudeRouting_proofs` | | theorems about it |
| `CodexProxy` | Codex proxy: routing, failover, background usage fetches, over logins that others replace | state machine |
| `CodexProxy_proofs` | | theorems about it |
| `BundleCredentials` | bundle-mode accounts of Claude and Codex: capture, switch, sync, remove, import, and the refresh of their logins by probes and by the client | state machine |
| `BundleCredentials_proofs` | | theorems about it |
| `AccountHomes` | `homes.go`, `claude_home_config.go` and what launches do to the files of a runtime home | state machine |
| `AccountHomes_proofs` | | theorems about it |
| `Redactor` | `secretRedactingWriter`, next to a definition of what it should do | operators |
| `Launch` | the delegate, the launcher it runs, the client and its descendants, over `Redactor` | state machine |
| `Launch_proofs` | | theorems about both |
| `TokenStore` | what storing a setup token promises | abstract specification |
| `SetupTokens` | `setup_tokens.go`: storing, removing and expiry of setup tokens, their duplicates and damage | state machine, refines `TokenStore` |
| `SetupTokens_proofs` | | theorems about it |
| `Warmup` | `warmup.go`: planning, sending and recording of warm-ups over time, with the accounts' use, probes and commands meanwhile | state machine |
| `Warmup_proofs` | | theorems about it |
| `MC...` | | model values' symmetry for TLC |

### FileTransaction

Only the lock holder touches the disk, so there is one program counter, and a
crash is a step that frees the lock and forgets the holder's memory. A file is
its content or `Absent`; a rollback copy is a file under a name chosen by
`os.CreateTemp`; the journal maps each target it names to its copy or to "did
not exist". Staging (temp files next to the targets) is part of the request in
memory: what a crash leaves of it is never read again. Every system call has an
action in which it fails, with whatever it may have done by then: the rename of
`commit` is followed by a chmod that may fail alone, and a restore removes its
target first. A kill stands for the death of the process; the file system keeps
the order of its operations (power loss is not modelled: the code syncs file
contents but no directories).

`ContinueAfterError` tells the two kinds of holders apart: commands return
after an error, the monitor and `switch -account auto -service all` go on to
the next service under the same lock (monitor.go:100, monitor.go:179).
`ChmodFails` says for which files a chmod may fail after the rename. The history
variable `wentOn` notes that a holder of the second kind went on although the
operation that failed had left its journal on disk, which is the only way a
journal is replaced or a holder works on unsettled files; the two properties
about that excuse it by name.

`AtomicBundle` knows neither copies nor journal. The refinement mapping
(`Effective`) reads the disk as the next lock holder will find it: entries of
a pending journal count as already restored. So the commit of a bundle is the
single step that removes the journal.

### ClaudeRouting

One action per locked section, one per reply from upstream. A request reads the
state (`ReadState`), loads tokens (`LoadTokens`), gets an answer (`Answer`) and
records it (`Record`), which ends it or sends it along the next route. A probe
takes its copy of the state (`BeginProbe`), rates one account after another
(`ProbeAccount`) and merges what it found (`FinishProbe`) in one of three ways:
`status`, `monitor` with its automatic switch, or `best` for `switch -account
auto`. The user's commands are one locked section each; those that change a
token may die between token file and state.

Abstractions: a token is its revision. How used up an account is has three
levels (below the threshold, at or above it, at a limit); the margin of an
improvement and the cooldown are choices, since any value of them may hold
between two levels. A stored sample can be read as any lower level, because its
windows may have reset since. Deadlines (backoff, freshness) are flags that may
or may not have passed when they are read. The clock ticks with events whose
stamps the code compares (start of a probe, a rejection, a status-line sample);
everything else carries the present stamp, and samples of the proxy, whose
stamps nothing compares, carry none. Two readings of the real clock can be equal, and equality is on the
permissive side of every comparison in the code. A configured `usage_command`,
several services at once and bundle-mode services are not in this module.

### CodexProxy

The Codex proxy routes like the Claude proxy, so only what differs is explained
here. Logins are files in the accounts' homes: `ReadLogins` reads them without
the lock, and Codex, its app-server or the user replaces them at any time
(`RefreshLogin`, `CaptureAccount`). A quota rejection is followed by a call of
the usage endpoint before it is recorded (`AskUsage`). A success is followed by
`CheckUsage` (which reads the state) and `Claim` (which takes `usageMu`), two
steps because the code takes two locks; the goroutine that may result is
`FetchUsage`, `RecordFetch` and `Unmark`.

Abstractions: a login is its revision. With `Balanced` the order of the routes
is free except that exhausted accounts come last: headroom per hour, sessions
near their limit and the alternating turn only choose among the others. Of the
two samples of an account (the proxy's and the monitor's) the model keeps one,
as the code uses the newer. A client connection starts its next request when the
fetch it left has ended; two connections are enough for fetches that overlap
with any number of requests.

### BundleCredentials

A credentials file is its refresh token (of which user, and which in the row of
those upstream gave them), `Absent` or `Broken`; a config file says whose the
login is, or not (users outside `Named`, for whom the code has to compare whole
files). Upstream accepts each token once. Locked sections are single actions,
with `switching` holding the lock between the two transactions of a switch; the
probe's upstream calls are actions of their own without the lock. The client
takes no lock. `Client` and `Commands` choose what a run lets it and the user
do.

A probe writes in two steps, because applyCredentialUpdate does: it takes the
lock and compares (`CompareSource`), then stages and renames (`WriteUpdate`). The
lock keeps other commands out between them but not the client, whose login or
refresh may land there (`landed`) and is overwritten. A login of another user that
lands there leaves Claude's two files of two users; an account that is captured
from such files has no owner (`Absent`).

Abstractions: the client writes both files in one step and reads the live
credentials before it refreshes them; verifying and staging in one sync are one
step. Claude's configs that name nobody are one value, although the code compares
their bytes (identity.go:35): comparing could refuse more syncs, never allow
one more, and the run about lost logins assumes that nobody edits such a config,
as a sync that is refused for it would leave the new login in the live file only.
Credentials that parse but have no refresh token are left out; access
tokens are not modelled, upstream may reject one at any time. Each login
belongs to one account at the start, as when the user captured one after
another.

`kind` is chosen at the start. Claude has two files per bundle and subswapper
trades the refresh token itself (`RefreshLogin`); Codex has one file that says
whose login it is, and its app-server refreshes the login in a temporary home
that is read back if the server tells the limits (`ServerRefreshes`,
`ServerAnswers`) and removed in any case (`ServerFails`). `ImportClaudeSwap`
registers accounts from the files of another tool, which may hold any login that
was ever issued (`Kept`), spent or not, and with any date.

### AccountHomes

A home is a directory with, for Claude, one entry per shared configuration name
(`entry`: none, a link to the native `~/.claude`, or something of the user's) and
a login; the runtime home is that home or a shared one (`shared`). Commands that
hold the lock run step by step (`op`): make the directory, look at each name, link
it, save, and undo on failure; each step may fail and the command may be killed
before each. The undo looks at a name (`Undo`: Lstat and Readlink) and removes what
is there in another step (`Unlink`), with the user between the two; a home that is
removed on request goes thing by thing (`RemoveAll`). Launches (`launch`) take no
lock: they make the runtime home (`EnsureHome`), read its config and login in one
step each and write in another, the way EnsureCodexProxyAuth,
ReplaceCodexRuntimeAuth and prepareClaudeRuntimeHome do. The user and the client
change every one of these files in between (`SignIn`, `SaveConfig`, `Edit`, ...).

Abstractions: there is one account, since homes share nothing but the runtime
home and the native configuration. Names are visited in any order, the code has
a fixed one. Looking at one name is one step, though it is an Lstat and a
Readlink, and where a link is made an Lstat of the native file before. Removing a
link or an empty directory in an undo does not fail by itself. Claude's two names for its config are one file. A placeholder is the
current one or one of an earlier secret, which Ensure may or may not replace.
The backups of proxy-auth are a set: their names have the resolution of a
second, and two within one second need two logins in it. Capturing a login into a
Claude home is left out.

### Redactor and Launch

`Drained` is the loop of `drain` on the pending bytes (`Turn` is one turn of it),
and `Retained` is longestSecretPrefixSuffix. `Redacted` says, without chunks or
searching, what a whole stream should become: it goes over the positions once
(`Scan`), and from each on an occurrence becomes a mark, and so does an end of the
stream that a secret may begin with; every other element stays. Both are
recursive functions over positions.

`Launch` puts the writer to use. The delegate starts the runner ("home run") in
a process group, and waits for it, its deadline or a signal; the runner checks
the login with a first run of the client (`ProbeEnds`), starts the client, and
copies its output in chunks of any size (`Copy`) until the pipe has no writer
(`Wait`), then flushes. `stray` is a descendant of the client that may keep the
task's pipe, the output pipe, both or none, and may leave the group. Any process
may die by itself; the client and the descendant may also never end.

Abstractions: the secret is the token or the proxy's shared secret, two or three
characters long; one of the two output streams is modelled; a destination that
failed once goes on failing; a write to a pipe nobody reads would end the
writer. A second signal, the relay of a terminal (`claude_terminal_unix.go`), the
checks of runDelegate's arguments and the building of the environment are left
out.

### SetupTokens

Each command holds the lock from its first read to its last write, so there is
one program counter (`op`), and its steps are the writes: the token file, then
the state. Each of them may fail before or after it took effect (a rename that
is not synced, a state that is saved and not chmod-ed), and the process may die
before each. Nothing is undone then: what is left stays for the next command,
and the promise (`TokenStore`) is only that it cannot be launched. Two
consequences that the model shows and a reader may not expect: a token whose
storing failed halfway cannot be stored again for the same account before it is
removed, because the duplicate check reads its own file too
(setup_tokens.go:250), and one unreadable file keeps every account from being
given a token.

Abstractions: a token is a model value with a user (`owner`); a revision is the
number of the write that made it, so it never repeats, as 16 random bytes do
not. A damaged file is `"unsafe"` if writing and removing refuse it too, and
`"malformed"` if only reading does. Users delete damaged files but do not repair
them, and nobody touches a file between its write and the save that follows
(`LeftAlone`). Samples and probe stamps are in `ClaudeRouting`, which has the
same commands.

### Warmup

Times are relative to the present: what lies ahead as the ticks left, what has
passed as the ticks since, up to the longest window, so `Tick` needs no bound.
`runs` is the truth upstream, a sample in `acct` what the state file knows of
it. A warmer plans under the lock (`Plan`), sends one request after another in
any order (`Warm`, `WarmFails`, `WarmRefused`) and records each under the lock
(`Record`); the context may end anywhere (`EndContext`) and the process may die
or fail to save (`LoseRecord`). Meanwhile the account is used (`Use`), probed
(`ProbeCodex`), removed, added again and given another login. The history
variable `sent` says how long ago a warm-up planned for the account as it is
last covered each window.

Abstractions: the request, its answer and the recording of its headers are one
step; a token that changes within it makes the warm-up fail, which `WarmFails`
includes. A setup token is there or not: a sample taken with another token is
not used (claude_proxy.go:671), so storing a token forgets the sample. Expiry of
tokens and services with a `usage_command` are left out. A Codex account that
was removed and added again can still receive the request planned for its
namesake: the code checks `addedAt` only when it records, so `sent` counts
requests planned for the present account.

## The runs

| Run | Checks | Shows |
| --- | --- | --- |
| `FileTransaction_atomic` | `TypeOK`, `TransactionInv`, `PendingJournalIsRestorable`, `CleanRunLeavesNothing`, `AtomicUpdates`, `JournalNeverReplaced`, `PendingJournalIsSettled` | Transactions and state saves by successive lock holders, with failing system calls and kills between any two of them: every bundle takes effect as a whole or not at all, and what the caller is told agrees with which. Once calls stop failing and holders stop being killed, a journal left behind is undone or removed. |
| `ClaudeRouting_failover` | `RoutingInv`, `FailoverHasCause` | A proxied request over two accounts, while the user selects another one and tokens are revoked, replaced and removed: the request moves the selection away from the account it found selected only if that account could not serve, and what selects its route is tried first. |
| `ClaudeRouting_probes` | `ProbesMergeInOrder`, `ProbeSwitchesOnCurrentFacts` | Two probes that overlap with each other, with samples of the status line and with the user's commands: no merge puts an older observation over a newer one, and a probe switches only on facts that still hold. |
| `ClaudeRouting_tokens` | `RejectionBlamesItsToken`, `ActiveIsRegistered`, `RejectionOutlivesOlderProbe` | Tokens replaced, removed and revoked, and the account removed and added again, during requests and probes, with a token change that dies halfway: no late reply or probe marks a token it was not about, and no probe clears a rejection it has not seen, and none selects an account that is gone. |
| `ClaudeRouting_rejected` | `RejectedStaysUnselectable` (violated) | An account whose token was rejected becomes selectable again without a successful fetch, from a stored sample. |
| `BundleCredentials_rotation` | `RotationInv`, `LoginSurvives` | The client of a Claude or Codex service refreshes while the user switches and two probers refresh, with nobody killed, no write and no probe that fails after a refresh, no refresh between the two transactions of a switch, and nobody who edits the config of an account without a name: every account keeps a token upstream accepts, in the files it goes on with or with one prober that is about to write it there. |
| `BundleCredentials_identity` | `BundleInv`, `BackupBelongsToAccount`, `ProbeReplacesWhatItRead` | Any user logs in or out in the live files of either service while accounts are switched, captured, removed, imported and probed: the backup of an account that was captured from one user's files never holds another user's login, and a probe overwrites no live login but the one it read, or one that arrived between its comparison and its write. |
| `CodexProxy_requests` | `ProxyInv`, `FetchesAreMarked`, `FailoverHasCause` | Two requests over two accounts and the fetches they leave, while an account is selected, removed or captured again, or its login refreshed, reset or revoked: the selection moves away from the active account only if that account could not serve, no request selects an account that is gone, and there is one fetch per account at a time, its mark in step with it. |
| `Warmup_idle` | `WarmupInv`, `WarmthIsItsOwn`, `WarmedOncePerWindow`, `IdleWindowsStart` | One account of either service that others use, probe, log in, remove and add again, and one warmer that may be cut off, fail or die: no window is warmed twice within its length, an account added again is not skipped for its namesake's warm-up, and no idle window stays unstarted. |
| `SetupTokens_store` | `IdentityIsItsToken`, `UsersAreApart`, `StoreInv`, `FailsClosed` | Tokens of two users stored for and removed from two accounts, with a failure or a death at every write and files that expire or are damaged: a launch gets the token its user was told is stored, or none; no token is held twice, the recorded person is the token's, and no two accounts are one person's. |
| `Launch_delegate` | `LaunchInv`, `NoneIsLeftBehind`, `SuccessIsComplete`, `OutputIsRedacted`, `DelegateReturns` | A delegated client whose output is read in chunks of any size, with a login check before it, a descendant that keeps pipes or the group or neither, a destination that fails, processes that die or hang, a deadline and an interrupt: no process of the group outlives the delegate, success means complete output, no part of a secret leaves, and the delegate returns. |
| `AccountHomes_homes` | `HomesInv`, `OwnEntriesSurvive`, `ConflictHasCause`, `FailureIsUndone`, `LoginsAreKept` | One account of either kind, with a runtime home of its own or a shared one, created, repaired, migrated, captured, removed and launched step by step while the user and the client change the same files: a creation, a repair or a failed creation removes no entry of the user's that was there when it looked, a creation that fails undoes exactly what it did, one that was killed can be repeated, and no migration, launch or proxy-auth writes over the last copy of a login that it has seen. What the user does, a removal of the home, a capture, and what arrives between a look and the write that follows are excused by name. |

The bounds of the runs are in their `.cfg` files. For FileTransaction two
targets, the state file among them, two contents and three copy names (one
more than a bundle needs, for what a killed holder left) are enough for a bundle
that is half applied, half restored and overtaken by a second one, with two
faults and two crashes in any places. For
ClaudeRouting one or two accounts and one request or probe of each kind
suffice for each question, because every property is about one actor that is
overtaken by at most two others; the clock's bound lets every stamped event of
those actors happen once in every order. For BundleCredentials two accounts
and two users (one that is named by its config file and one that is not) are
enough for a foreign login; three or four tokens for a refresh that overlaps another
and a login. `BundleCredentials_identity` lets the client log in and break files but
not refresh: whose files they are does not tell a refresh from another login of the
same user, and `BundleCredentials_rotation` has the refreshes. For AccountHomes two names are what a creation needs to fail after a
link, and two changes by the user, the client or a kill let a command be killed
and repeated among the user's files, or a login come and go around a launch; all
combinations of kind and sharing are in one run. For Launch the secrets are `xxy`,
whose beginning overlaps with itself, and `yx`, over the same two characters, and
four characters of output are enough for a whole secret that comes in any pieces
with a false start before it, or a cut one at the end. For SetupTokens two accounts, tokens and users are what a duplicate
needs, and three writes let a token be stored over one that a failed command left
and that had replaced another. For CodexProxy two accounts and two requests let a request meet two rejections
of different kinds before it gives up, and two fetches meet. For Warmup a short window of
one tick, long ones of two, one fault and two commands let every window reset
while an account is skipped, a record be lost and the account be replaced during
a request; one account is enough because a warmer treats each on its own. The probe runs that have no request
stop when the clock is used up, so they do not check for deadlock.

### Fairness

`FileTransaction!FairSpec` has weak fairness of the steps that make progress: a
holder that is not killed goes on, and there is always a next holder, because
the monitor takes the lock every interval. Failures and kills are bounded there
(`MaxFaults`, `MaxCrashes`), which is the assumption that they end.

`Launch!FairSpec` has weak fairness of three steps of the delegate: the system
starts a process or refuses, the timer fires, and a killed process ends. Nothing
is assumed about the runner, the client or its descendants, which may hang for
ever.

`Warmup!FairSpec` has weak fairness of time, of Codex probes and of the warmer:
the monitor probes and warms in every interval, and every request has a timeout
(`claudeWarmupTimeout`, `codexWarmupTimeout`). Failures and interruptions are
bounded by `MaxFaults`. Nobody needs to use the account.

## What is proved

- `FileTransaction_proofs!TypeCorrect`: Every variable keeps its type, for any set of files, contents and copy names and any number of faults and crashes.
- `FileTransaction_proofs!TransactionInvariant`: For holders that stop at an error, and as long as no chmod of a journal fails after its rename: at every point of the code, what is on disk is enough to recover the old bundle, or is the new one (the inductive invariant of the protocol).
- `FileTransaction_proofs!JournalRestorable`: For holders that stop at an error and those that go on: whatever is killed or fails, a pending journal names only rollback copies that exist, each once; assumed is that no chmod of a journal fails after its rename.
- `FileTransaction_proofs!SettledWhenHeld`: For every holder: whoever works under the lock does so with no journal pending, or left the journal there itself in an operation that failed and went on.
- `FileTransaction_proofs!JournalsAreKept`: For every holder and every failure: a journal is replaced by none but the holder whose own failed operation left it there and which went on to the next one (monitor.go:100-108 does).
- `FileTransaction_proofs!NothingIsLeftBehind`: As long as nothing fails and nobody is killed, no journal and no rollback copy is left once the lock is free, also after a transaction that was refused: for holders of either kind.
- `FileTransaction_proofs!TransactionsAreAtomic`: The journalled transaction implements the atomic bundle: a step-by-step refinement for every number of files, faults and crashes, under the assumption that lock holders stop at an error and that a journal or a state file that was renamed into place is reported as written.
- `ClaudeRouting_proofs!TypeCorrect`: Every variable keeps its type, for any finite set of accounts, any requests, probers and bounds.
- `ClaudeRouting_proofs!RoutingInvariant`: The inductive invariant behind the safety properties: a rejection stays with its token wherever it is on its way, stamps are ordered in time, and whatever happened to an account behind a probe's back shows in the stamps the probe compares; a request that may still select its route has tried the selected account first.
- `ClaudeRouting_proofs!SelectionIsRegistered`: The selected account is registered, or none is selected, also when it is removed while a request or a probe that would select it is under way.
- `ClaudeRouting_proofs!RejectionIsDeserved`: An account is marked as rejected only for the token it has now.
- `ClaudeRouting_proofs!SwitchIsCurrent`: A probe switches only if nobody switched since it began, and only to an account that was not removed, added again, given another token or rejected since.
- `ClaudeRouting_proofs!RejectionOutlives`: No probe clears a rejection that was recorded after the probe began.
- `ClaudeRouting_proofs!FailoversHaveCauses`: A request takes the selection away from the account it found selected only if it was told, or read in the state, that this account cannot serve, whatever other requests, probes and the user do meanwhile.
- `ClaudeRouting_proofs!MergedInOrder`: While an account keeps a token, an older observation never replaces a newer one.
- `BundleCredentials_proofs!BundleInvariant`: The inductive invariant of bundle mode: the files of one account agree with each other and belong to its user, a probe brings back a login of the user whose login it read, and one that is about to write holds the lock alone and finds what it compared unless the client has written since.
- `BundleCredentials_proofs!TypeCorrect`: Every variable keeps its type, whatever the client and the user do.
- `BundleCredentials_proofs!BackupsBelong`: No switch, capture, import or probe puts a login of another user into an account's backup, whoever logs in to the live files, named by them or not, also between a probe's comparison and its write; except for an account captured from Claude files of two users, which such a login leaves behind.
- `BundleCredentials_proofs!ProbesReplaceWhatTheyRead`: A probe that replaces the live login replaces the one it had refreshed, or one the client wrote after the probe had compared the files (usage.go:126-145) and before it replaced them (146-160).
- `BundleCredentials_proofs!RotationInvariant`: While the client only refreshes, the user only switches, nothing fails and no nameless config is edited, the one token upstream accepts for an account is in the files the account goes on with, or one probe is bringing it back and finds what it read.
- `BundleCredentials_proofs!LoginsSurvive`: Under the same conditions, with any number of accounts and probes, no account loses its login to a rotation.
- `CodexProxy_proofs!ProxyInvariant`: The inductive invariant of the Codex proxy: a request remembers the route it is at and whom it owes a cause, and a fetch runs between two requests, under its own mark.
- `CodexProxy_proofs!TypeCorrect`: Every variable keeps its type, for any finite set of accounts, any requests and bounds.
- `CodexProxy_proofs!SelectionIsRegistered`: No request, fetch or command leaves an account selected that is gone.
- `CodexProxy_proofs!MarksFollowFetches`: No two background fetches are about one account, none runs without its mark, and no mark outlives its fetch.
- `CodexProxy_proofs!FailoversHaveCauses`: Unless requests are spread over the accounts, a request takes the selection away from the account it found selected only for a reason, whatever other requests and the user do meanwhile.
- `Warmup_proofs!TypeCorrect`: Every variable keeps its type, and a removed account leaves nothing in the state, for any accounts, lengths and number of warmers.
- `Warmup_proofs!WarmupInvariant`: What the state says of each account's last warm-ups agrees with what was sent to it, but for the requests that some warmer has still to record: for any number of warmers.
- `Warmup_proofs!WarmthIsOwn`: An account added again under its name counts as warmed only by a request sent since, whatever warmers still remember of the former account.
- `Warmup_proofs!WarmupsAreSpaced`: A warmer that has no other beside it sends no warm-up for a window within its length after the one before, for any accounts, window lengths, failures and commands.
- `SetupTokens_proofs!StoreInvariant`: The inductive invariant of the token store: what was checked under the lock still holds when the state is written, and until then the new file counts nowhere.
- `SetupTokens_proofs!TypeCorrect`: Every variable keeps its type, and nothing is kept of accounts that are not registered.
- `SetupTokens_proofs!IdentityFits`: The UUID in the state is that of the token that can be launched.
- `SetupTokens_proofs!UsersDiffer`: No two accounts that can be launched are known to belong to one user.
- `SetupTokens_proofs!StoringFailsClosed`: Storing and removing tokens, file first and state second, implements the abstract store: a launch gets the token its user was told is stored, or none, and no token is held twice.
- `Launch_proofs!LaunchInvariant`: The inductive invariant of a launch: who is alive at each stage, and that what was forwarded and what is kept back make up what was read, whatever comes after it.
- `Launch_proofs!TypeCorrect`: Every variable keeps its type, for any characters, secrets and length of output.
- `Launch_proofs!GroupIsGone`: However the delegate returns, no process of its group is left.
- `Launch_proofs!SuccessesAreComplete`: Success means that the client succeeded and all of its output was forwarded, redacted as a whole.
- `Launch_proofs!OutputRedacted`: However the output is cut into chunks and wherever forwarding stops, what was forwarded is the beginning of the whole output's redaction: for every secret and every output.
- `Launch_proofs!NoSecretLeaves`: The secret the client was given occurs nowhere in what was forwarded.
- `AccountHomes_proofs!HomesInvariant`: The inductive invariant of the homes: a creation knows which links are its own, what it is about to unlink is such a link unless the user changed it since it was looked at, a conflict has a cause, and a launch that is about to write over a login it has seen has moved it aside.
- `AccountHomes_proofs!TypeCorrect`: Every variable keeps its type, and a home that does not exist is empty.
- `AccountHomes_proofs!EntriesSurvive`: For any names, launches and kills: an entry of the user's goes only by their own hand, with a home they asked to remove, or when they put it under a name after a failed creation had looked at its link there (claude_home_config.go:132-139) and before it removed that (140).
- `AccountHomes_proofs!ConflictsHaveCauses`: A conflict is reported only where the user has, or had meanwhile, an entry of their own.
- `AccountHomes_proofs!FailuresAreUndone`: A creation that fails leaves under every name the user did not touch what was there before, and no directory of its own that is empty.
- `AccountHomes_proofs!LastCopiesAreKept`: For any number of launches: no migration, launch or proxy-auth writes over the last copy of a login it has seen. Logins also go when the client signs in anew, the user replaces them, a home is removed on request, or a capture puts another one in their place; a login that arrives between a look and the write is excused.

The inductive invariant of FileTransaction (`TransactionInv`, itself checked by
TLC) has to relate the journal on disk with the copy of it the holder runs its
loops on, and to say for each loop what it has established for the files it has
visited: after the snapshots every listed copy equals its file, during commits
the visited files are the new ones, during a restore the visited files equal
their copies unless one failed. From it follow that a pending journal can be
restored, that the lock holder works on settled files, and, step by step, that
the transaction implements `AtomicBundle`. The proofs are for any sets of
files, contents and copy names and any number of faults and crashes.

Which holders a theorem is about differs. `TransactionInvariant` and
`TransactionsAreAtomic` assume `Disciplined`: holders stop at an error, and a
chmod of the journal does not fail after its rename (`TransactionsAreAtomic` also
that one of the state file does not). The theorems about the journal itself are
for holders of either kind. `JournalsAreKept` and `SettledWhenHeld` assume nothing;
they rest on `QuietInv`, which says that a holder who works has no journal on disk
unless it is one that went on past its own (`wentOn`, monitor.go:100-108), and a
journal is written only from there. What they excuse is thus exactly that holder,
and with `ContinueAfterError = TRUE` TLC shows that it does replace the journal.
`JournalRestorable` rests on `RestorableInv`: the copies a journal names are on
disk and are not among those a later transaction makes and deletes, even if it
then replaces the journal. It assumes only that the journal's chmod does not fail,
without which a journal can name deleted copies. `NothingIsLeftBehind` and
`TypeCorrect` assume nothing either; the former has an invariant of its own
(`CleanInv`): while nothing has failed, the copies on disk are those the running
transaction names, and there is a journal only while it commits.

The inductive invariant of ClaudeRouting (`RoutingInv`, checked by TLC in
`ClaudeRouting_failover`) has five parts besides the types. One of them,
`ActiveIsRegistered`, is checked in `ClaudeRouting_tokens`, where accounts come and
go; it is inductive with the types alone. `RejectionInv` follows a rejection from upstream's answer
through the reply, the state and every probe's copy, because each of them is a
place from which it can reach the state. `StampInv` puts a probe's start after
everything it has read. `TouchInv` is the heart: the history variable `touched`
collects the accounts that were removed, added, given another token or rejected
while a probe was under way, and the invariant says that each of them differs
from the probe's copy in one of the three stamps (`added`, `rev`, `probeAt`)
that `mergeProbeState` and `serviceStateMatchesSnapshot` compare. The proof
first shows that every step changes an account in one of four ways (`Change`)
and marks it whenever it is more than a newer result (`Marks`); the invariant
and the three action properties use only that. `SelectionInv` is behind `FailoversHaveCauses`: a request that may still
select its route has either been given a cause against the account it found
selected, or is at that account, so that selecting it changes nothing; the
routes it has read agree on which one was selected, and that one is sorted
first. The run has one request; the theorem is for any number of requests,
probes and commands. The theorems hold for any finite
set of accounts, any sets of requests and probers and any bounds; finiteness is
needed because a request sorts its candidates. The proof of `MergedInOrder`
made the property say "keeps a token": removing the token of an account that
has none resets its probe time.

The inductive invariant of SetupTokens (`StoreInv`, checked by TLC) says that
what a command checked still holds when it writes: nobody else has its token or
its person, its revision is newer than any in the state (`HolderInv`), and
wherever file and state agree the recorded person is the token's (`RecordsInv`).
So a file that was written counts for nothing until the state names it, which
makes the save the step that stores the token in `TokenStore`. The theorems are
for any accounts, tokens and users and any number of commands and failures.

The inductive invariant of AccountHomes (`HomesInv`, checked by TLC) adds four
parts to types and entries. `StepsInv` says which command can be at which step
and that a home being linked exists. `CreationInv` compares the entries with
those from before the creation: under a name the user has not touched there is
the old entry, or a link that is recorded to be undone where there was none; so
the last step of the undoing, which needs that no link is left to undo, ends with
the old entries. `UnlinkInv` says that what the undo is about to remove is a link
of this creation, unless the user has changed it since the look (`late`); so the
one entry of the user's that `EntriesSurvive` gives up, besides those they remove
themselves or with a home, is one put there between look and removal. `BackupInv`
says that a login that proxy-auth will write over is among the backups.
`LastCopiesAreKept` excuses by name what the user does to logins (signing in anew,
replacing the runtime home's, removing a home), a capture, and a login that arrived
after a launch or a migration looked (`saw`); what is left is that no launch,
proxy-auth or migration writes over one it has seen. The theorems are for any
names, any number of launches and any bound on changes. `FailureIsUndone`
excuses a creation that was killed, as the code does.

The inductive invariant of CodexProxy (`ProxyInv`, checked by TLC) adds two parts
to types, `ActiveIsRegistered` and `FetchesAreMarked`. `RequestInv` is the
counterpart of `SelectionInv` and holds because routes come in order of selection
unless they are spread, so `FailoversHaveCauses` assumes `~Balanced`. `FetchInv` says
that a connection asks for usage only between two requests, which keeps the mark
of a fetch from being taken for that of the next one. The theorems are for any
finite set of accounts and any number of connections, logins and commands.

`BundleCredentials` has two invariants, both checked by TLC. `BundleInv`
(`BundleCredentials_identity`) holds whatever the client and the user do: the
files of a backup agree with each other (`FilesInv`), a probe brings back a
login of the user whose login it read (`ProbeInv`), and one that has compared is
alone and writes what belongs to the account (`WriterInv`). So no backup gets a
login of somebody else, and a probe replaces what it read. Both have the same
exception, a client that writes between a probe's comparison and its write: its
login is replaced unread, and if it was another user's, the live files are then of
two users, which an account captured from them inherits. `FilesInv` shows that such
files do not pass for the selected account's unless it was captured so. `RotationInv`
(`BundleCredentials_rotation`) is why no login is lost. Upstream accepts one token
per user. `CarryInv` says that for every account either the files it goes on with
have that token and no probe holds a newer one (`AtRest`), or exactly one probe is
bringing it back and will find the files as it read them (`OnItsWay`), so that its
write is not refused. `WriteInv` says what a probe that has compared will find: what it compared, or, if it only copies
the live login to the backup, a live login the client has refreshed meanwhile,
which stays where it is. (A probe that writes the live file brings the only token
that upstream accepts, so the client cannot have refreshed.)
To keep that, `SettledInv` says that accounts share no user
and that a switch has put the outgoing login in its backup before it overwrites
the live one, and `ReadInv` that a probe whose login is still the current one has
it in the file it will compare. `RotationInvariant` and `LoginsSurvive` assume
`NothingFails`: the client only refreshes, no config changes, and the user only
switches. That is what the run allows too; "Where the properties stop" says how the code loses a login
otherwise. Accounts, users, tokens and probes are any number.

The inductive invariant of Warmup (`WarmupInv`, checked by TLC) says that the state
and the history of what was sent agree, but for a request that some warmer is
about to record: `HistoryInv` has one disjunct for each, `PendingInv` says that what
will be recorded was sent, and `CandidateInv` that a candidate was planned for an
account as it is or was, so that the comparison of `addedAt` tells them apart.
Those parts are for any number of warmers. `PlannedInv` (every account still to be
warmed is unwarmed) needs that there is one, as two may plan before either
records, and so `WarmupsAreSpaced` assumes `OneWarmer`. The theorems are for any
accounts, any lengths of windows with the short ones no longer than the long
ones, and any number of failures and commands.

The inductive invariant of Launch (`LaunchInv`, checked by TLC) has four parts
besides the types and `OutputIsRedacted`. `ProcessInv` says who is alive at which
stage, and gives `GroupIsGone` at once. `PipeInv` says that nobody is left who could
write when the runner flushes. `StreamInv` is the heart: what was forwarded,
followed by the redaction of what is kept back and of anything that may come, is
the redaction of what was read and of that. It has to speak of every
continuation, because what is kept back means nothing until more is known.
`SuccessInv` carries the end of it to the exit codes. That a chunk keeps
`StreamInv` is a lemma about `Redactor` alone (`Chunk`): the turns of `drain` find the
occurrences the scan finds, since an occurrence that ends in a later chunk begins
within what `Retained` keeps, which is the longest end of the bytes a secret begins
with. `NoSecretLeaves` then says what a user wants to know, that the secret is
nowhere in what was forwarded, and needs that `Mark` is no character of a secret.
The theorems are for any secrets over any characters, and for output and chunks
of any length.

The functions of `Redactor` are recursive over positions. The library's induction
theorems take an operator as a parameter, which the provers cannot instantiate, so
`Launch_proofs` argues by a least counterexample: the naturals are well founded,
hence a set of positions that is not empty has a last one (`Downward`). No other
module needs induction over data.

Every safety property the runs check is a theorem but for
`RejectedStaysUnselectable`, which does not hold (see the findings). Liveness
(`PendingJournalIsSettled`, `IdleWindowsStart`, `DelegateReturns`) and ENABLED are
beyond the prover and are checked by TLC. The types and `ActiveIsRegistered` are
conjuncts of the inductive invariants, and so are checked by TLC with them, except
for FileTransaction's and the `ActiveIsRegistered` of ClaudeRouting, which a run
lists; `HeldMeansSettled` follows from `TransactionInv`.

## Findings

- `ClaudeRouting_rejected` (`RejectedStaysUnselectable`): For an account that is not active the probe adopts the proxy's last sample, or keeps a fresh cached one (line 33), before it looks at CredentialsError, and marks the account selectable, so an automatic switch can choose an account whose token was just rejected. state.go:37 says "CredentialsError records why the stored credentials were rejected; the account stays unselectable until a fetch succeeds or it is re-captured."

## Where the properties stop

Some properties hold only under the conditions of their runs, and TLC shows why
when a condition is dropped:

- `TransactionInv` and the refinement need `ContinueAfterError = FALSE`.
  With `TRUE` (the monitor, monitor.go:100) the journal of a bundle whose
  rollback failed is replaced by the next service's, and the first bundle stays
  half restored. `JournalNeverReplaced` and `HeldMeansSettled` excuse precisely
  that holder (`wentOn`). The run has holders that stop only, so that it never uses
  the excuse; the theorems cover both kinds.
- `ProbeReplacesWhatItRead`, for want of its exception: applyCredentialUpdate compares
  the live files (usage.go:126-145) and writes them (146-160) under a lock the
  client does not take. A login or refresh in between is overwritten, contrary to
  "never clobber a live login we did not read" (codex_usage.go:110). If it was
  another user's, Claude's live config names that user beside the probe's
  credentials, and a capture of such files is the exception in
  `BackupBelongsToAccount`.
- `OwnEntriesSurvive` excuses an entry that the user puts in place of a link while a
  failed creation is between looking at the link (claude_home_config.go:132-139) and
  os.Remove (140), which removes whatever has the name by then. It also excuses the
  removal of a home with everything in it, which the user asks for.
- `FailoverHasCause` of the Claude proxy is about the account that was selected
  when the request began. It excuses one that the user, or another request, has
  selected since: every response that is not a 401 or 429 asks for its route to
  become the selected one (claude_proxy.go:383), and recordClaudeProxyObservation
  does so whenever another is selected by then (claude_proxy.go:726), so a request
  sent before the user's `switch` undoes it when it succeeds.
- `WarmedOncePerWindow` with two warmers, the monitor and the warmup command:
  PlanWarmups reserves nothing, so both may warm an account they found in the
  same state.
- `IdleWindowsStart` without a bound on interruptions: an interrupted request
  leaves no backoff (warmup.go:135), and the next cycle begins with it again.
- `LoginSurvives` with the client's `"race"` allowed: switchServiceFiles syncs
  the outgoing account and restores the incoming one in two transactions
  (files.go:212) and does not compare the live files in between, so a login that
  the client refreshes there is overwritten.
- `LoginSurvives` with `Client = {"break"}` and `MaxChanges = 1`: when the live credentials of the
  active account are missing or unusable, the probe falls back to the backup and
  trades its refresh token; applyCredentialUpdate then requires the live file to
  equal what was read (usage.go:140), which it cannot, so the only valid token is
  dropped, although usage.go:66 calls the backup copy "the fallback and the
  destination for refresh write-backs".
- `LoginSurvives` with `Commands = {"fail"}`: fetchCodexUsage returns on an error
  of the app-server (codex_usage.go:99) before it reads the login back, and its
  deferred RemoveAll deletes the temporary home; a login that was refreshed there
  before the error is gone. The comment at codex_usage.go:204 wants "the server
  [to] flush a refreshed auth.json", which is of use only after a success.
- `LaunchDropsOnlyTheIdentity` of `AccountHomes` (a launch changes nothing in the
  shared config but the identity, README.md:320): with one launch and one client
  that saves its config between the launch's read (claude_launch.go:264) and its
  rename (claude_launch.go:343), TLC shows that the launch puts the older copy
  back. Launches that find neither an identity nor loose permissions write
  nothing.
- `LoginsAreKept` excuses a login that arrives between reading and writing, both of
  a launch and of a migration (between its Stat and its write): they look and write
  without anything that would notice. It excuses a capture too, which writes the
  runtime home's login over whatever login the account's home has.
- `FailoverHasCause` of the Codex proxy with `Balanced = TRUE`: the first route
  need not be the selected one, and its success takes the selection
  (codex_proxy.go:486).
- "At most once per TTL per account" (codex_proxy.go:815) is not a property of
  the code: whether the sample is stale is decided by what was read under the
  state lock (line 831), whether a fetch is under way under `usageMu` (line
  835). A request that found the sample stale before another one's fetch was
  recorded, and gets to the second check after that fetch has removed its mark,
  starts a second fetch. `FetchesAreMarked` holds all the same.
- Unlike the Claude proxy, recordCodexProxyObservation (codex_proxy.go:871)
  does not check which login a reply is about: a 401 for a login that has been
  replaced meanwhile marks the account with its new login. So there is no
  counterpart of `RejectionBlamesItsToken` in `CodexProxy`.
- The account homes' login and the placeholder: CaptureAccount does not ask
  IsCodexProxyAuthFile, so a capture while the shared runtime home holds the
  placeholder replaces the account's registered login by it (the model's `Capture`
  does so, and `LoginsAreKept` excuses captures), after which
  codex_proxy.go:732 finds no login in the account.
- A chmod that fails after the journal's rename (files.go:451) reports a failure,
  so the copies are deleted while the journal that names them stays; the run and
  the theorems about what the journal can restore, `TransactionInvariant`,
  `TransactionsAreAtomic` and `JournalRestorable`, assume that it does not fail
  (`ChmodFails`).
- Not stated at all, because nothing in the code answers it: a prober that is
  killed between trading a refresh token and writing the new one
  (claude_usage.go:104); a client that logs in between the identity check and the
  staging of one sync (identity.go:29), or that is halfway through writing its two
  files (files.go:259); two samples of one account that are recorded in the
  opposite order (claude_proxy.go:707); a Codex login replaced in its home while a
  request with the old one is under way (codex_proxy.go:882); a directory left
  behind when its chmod fails (homes.go:114).

## What is not modelled

- Credential refresh (partly): The snapshot of a login, its refresh, by subswapper or inside Codex's app-server, and the write-back, for both kinds; what CollectService does with the result for bundle and Codex accounts (backoff, errors, selectability) is left out.
- Launching (partly): Preparing the runtime home (AccountHomes), checking the login, starting the client and forwarding its output (Launch). The environment and the relay of a terminal are left out.
- Command line (partly): Launching a client and redacting its output (Launch, Redactor), launching Codex and proxy-auth (AccountHomes). The rest parses arguments and calls the operations modelled elsewhere.
- Configuration, rendering, samples (not modelled): Validation of a file and formatting of text, without state.
- fx wrapper and plugins (not modelled): A shell script and documents.

## Plan

In this order:

1. `CollectService` (`usage.go`): backoff, errors, cached snapshots and
   selectability from what a probe returned, over `BundleCredentials`, and the
   proof that it blames no account for another's answer.
2. Proofs: `NothingFails` of `BundleCredentials_proofs` weakened to single kinds of
   disturbance (what is still kept when the user removes, captures or imports), and
   the bound on what a chunk keeps back as a property of `Redactor` alone.
3. Pure operators checked against reference definitions: windows and scores
   (`usage.go`), `balanceCodexRoutes` and `codexHeadroomPerHour`.
