------------------------------- MODULE Warmup -------------------------------
(***************************************************************************)
(* Warm-ups (warmup.go).  A window of an account starts with the first     *)
(* request after its reset, so the monitor and the warmup command send a   *)
(* small request to every account with a window that has not started.      *)
(* They decide on what the state file knows of the windows: the sample     *)
(* that some response left, and when the account was warmed last.          *)
(*                                                                         *)
(* Times are kept relative to the present: what lies ahead as the ticks    *)
(* that remain, what has passed as the ticks since then, up to the longest *)
(* window.  So the clock has no bound.  One action is one section under    *)
(* the state lock, or one request with its answer.                         *)
(***************************************************************************)
EXTENDS Naturals, FiniteSets

CONSTANTS
    Account,     \* names of accounts in account-home mode
    Warmer,      \* processes that warm: the monitor, the warmup command
    Short,       \* length of the five-hour window in ticks
    Long,        \* length of the weekly windows
    Retry,       \* warmupRetryBackoff
    MaxFaults,   \* bound: warm-ups that fail
    MaxCommands  \* bound: accounts removed and added, tokens stored

ASSUME ConstantsAssumption ==
    /\ Short \in Nat \ {0} /\ Long \in Nat /\ Short <= Long
    /\ Retry \in Nat
    /\ MaxFaults \in Nat
    /\ MaxCommands \in Nat

VARIABLES
    service,   \* configuration: which service each account belongs to
    known,     \* state: the registered accounts
    acct,      \* state: AccountState of each of them
    token,     \* whether each account has a setup token or login
    runs,      \* upstream: ticks left of each window, 0 when it has not started
    warmer,    \* memory of each warmer
    sent,      \* history: ticks since a warm-up, planned for the account as
               \* it is, last covered each window
    faults,    \* warm-ups that have failed
    commands   \* commands that have been given

state == <<known, acct>>
vars  == <<service, known, acct, token, runs, warmer, sent, faults, commands>>

Core   == {"5h", "weekly"}
Window == Core \cup {"fable"}
Length(w) == IF w = "5h" THEN Short ELSE Long
Timer == 0..Long
Never == Long + 1

\* What the account's windows looked like in its last sample: which of them
\* it names, the ticks left of each, which are used up, and which had not
\* started although they have a reset (Codex).
Sample == [windows : SUBSET Window, left : [Window -> Timer],
           full : SUBSET Window, floats : SUBSET Window]
NoSample == [windows |-> {}, left |-> [w \in Window |-> 0],
             full |-> {}, floats |-> {}]

\* error: CredentialsError is set; warm and fable: ticks since WarmupAt and
\* FableWarmupAt; retry: ticks until WarmupRetryAt.
AccountState == [added : 0..MaxCommands, error : BOOLEAN, sample : Sample,
                 warm : Timer, fable : Timer, retry : 0..Retry]
Fresh(n) == [added |-> n, error |-> FALSE, sample |-> NoSample, warm |-> Long,
             fable |-> Long, retry |-> 0]

Unknown   == "usage unknown"
Candidate == [account : Account, added : 0..MaxCommands,
              windows : SUBSET (Window \cup {Unknown})]

\* pc is "cycle" before a request and "record" after it; ended: the context
\* has ended, which stops the cycle.
WarmerState == [pc : {"idle", "cycle", "record"}, todo : SUBSET Candidate,
                current : SUBSET Candidate, ok : BOOLEAN, ended : BOOLEAN]
Idle == [pc |-> "idle", todo |-> {}, current |-> {}, ok |-> FALSE,
         ended |-> FALSE]

\* Nothing is kept of an account that is not registered.
TypeOK ==
    /\ service \in [Account -> {"claude", "codex"}]
    /\ known \subseteq Account
    /\ acct \in [Account -> AccountState]
    /\ token \in [Account -> BOOLEAN]
    /\ runs \in [Account -> [Window -> Timer]]
    /\ warmer \in [Warmer -> WarmerState]
    /\ sent \in [Account -> [Window -> Timer \cup {Never}]]
    /\ faults \in 0..MaxFaults
    /\ commands \in 0..MaxCommands
    /\ \A a \in Account \ known : acct[a] = Fresh(acct[a].added)

\* Accounts that have never been used.
Init ==
    /\ service \in [Account -> {"claude", "codex"}]
    /\ known = Account
    /\ acct = [a \in Account |-> Fresh(0)]
    /\ token = [a \in Account |-> TRUE]
    /\ runs = [a \in Account |-> [w \in Window |-> 0]]
    /\ warmer = [p \in Warmer |-> Idle]
    /\ sent = [a \in Account |-> [w \in Window |-> Never]]
    /\ faults = 0
    /\ commands = 0

Fault == faults < MaxFaults /\ faults' = faults + 1

-----------------------------------------------------------------------------
(* Time *)

Down(n) == IF n = 0 THEN 0 ELSE n - 1
Up(n)   == IF n >= Long THEN n ELSE n + 1

\* A window that resets is not used up any more (LimitWindow.Ratio).
Older(sample) ==
    LET left == [w \in Window |-> Down(sample.left[w])]
    IN [sample EXCEPT !.left = left, !.full = {w \in @ : left[w] # 0},
                      !.floats = {w \in @ : left[w] # 0}]

Tick ==
    /\ acct' = [a \in Account |->
                   [acct[a] EXCEPT !.sample = Older(@), !.warm = Up(@),
                                   !.fable = Up(@), !.retry = Down(@)]]
    /\ runs' = [a \in Account |-> [w \in Window |-> Down(runs[a][w])]]
    /\ sent' = [a \in Account |-> [w \in Window |-> Up(sent[a][w])]]
    /\ UNCHANGED <<service, known, token, warmer, faults, commands>>

-----------------------------------------------------------------------------
(* Upstream *)

\* A request to a model starts the windows it counts against.
Covered(a, fable) ==
    IF service[a] = "claude" /\ fable THEN Window ELSE Core

Started(a, fable) ==
    [w \in Window |-> IF w \in Covered(a, fable) /\ runs[a][w] = 0
                      THEN Length(w) ELSE runs[a][w]]

\* parseClaudeRateLimitHeaders and recordClaudeProxyObservation: other models
\* do not report the Fable window, so what was known of it is kept.
Reported(a, fable, left, full) ==
    LET old  == acct[a].sample
        keep == ~fable /\ "fable" \in old.windows
    IN [windows |-> Covered(a, fable) \cup (IF keep THEN {"fable"} ELSE {}),
        left    |-> [w \in Window |-> IF w \in Covered(a, fable) THEN left[w]
                                      ELSE IF keep THEN old.left[w] ELSE 0],
        full    |-> full \cup (IF keep THEN old.full \cap {"fable"} ELSE {}),
        floats  |-> {}]

\* Somebody uses the account, through the proxy, which may see a limit
\* reached, or past it.
Use(a) ==
    /\ token[a]
    /\ \E fable \in BOOLEAN :
          /\ fable => service[a] = "claude"
          /\ runs' = [runs EXCEPT ![a] = Started(a, fable)]
          /\ \/ /\ service[a] = "claude" /\ a \in known
                /\ \E full \in {{}} \cup {{w} : w \in Covered(a, fable)} :
                      acct' = [acct EXCEPT ![a].error = FALSE,
                                  ![a].sample = Reported(a, fable, runs'[a], full)]
             \/ UNCHANGED acct
    /\ UNCHANGED <<service, known, token, warmer, sent, faults, commands>>

\* A probe of a Codex account: a window that has not started is reported as
\* unused with a reset that floats one window ahead.
ProbeCodex(a) ==
    /\ service[a] = "codex" /\ a \in known /\ token[a]
    /\ \E full \in SUBSET {w \in Core : runs[a][w] # 0} :
          acct' = [acct EXCEPT ![a].error = FALSE,
                      ![a].sample = [windows |-> Core,
                                     left    |-> [w \in Window |->
                                         IF w = "fable" THEN 0
                                         ELSE IF runs[a][w] = 0 THEN Length(w)
                                         ELSE runs[a][w]],
                                     full    |-> full,
                                     floats  |-> {w \in Core : runs[a][w] = 0}]]
    /\ UNCHANGED <<service, known, token, runs, warmer, sent, faults, commands>>

-----------------------------------------------------------------------------
(* Planning *)

\* claudeProxyKnownUsage, codexProxyKnownUsage
KnownUsage(a) == acct[a].sample # NoSample

\* Each window's own kind of warm-up: how long ago it was recorded.
Warmth(a, w) == IF w = "fable" THEN acct[a].fable ELSE acct[a].warm

\* warmedWithin
WarmedWithin(a, w) == Warmth(a, w) < Length(w)

\* windowUnstarted, for what may have been warmed.
Due(a) ==
    LET s == acct[a].sample IN
    {w \in s.windows \ s.full :
        ~WarmedWithin(a, w) /\ (s.left[w] = 0 \/ w \in s.floats)}

\* Mutant: an account without a sample waits for one.
WindowsKnown(a) ==
    IF KnownUsage(a) /\ ~acct[a].error /\ acct[a].retry = 0 THEN Due(a) ELSE {}

\* warmupWindows
WarmupWindows(a) ==
    IF acct[a].error \/ acct[a].retry > 0 \/ (service[a] = "claude" /\ ~token[a])
    THEN {}
    ELSE IF ~KnownUsage(a)
    THEN IF service[a] = "codex" \/ WarmedWithin(a, "5h") THEN {} ELSE {Unknown}
    ELSE IF acct[a].sample.full \cap Core # {} THEN {} ELSE Due(a)

\* PlanWarmups.  Without a candidate the cycle is over.
Plan(p) ==
    LET todo == {[account |-> a, added |-> acct[a].added,
                  windows |-> WarmupWindows(a)] :
                    a \in {b \in known : WarmupWindows(b) # {}}}
    IN /\ warmer[p].pc = "idle"
       /\ todo # {}
       /\ warmer' = [warmer EXCEPT ![p] = [Idle EXCEPT !.pc = "cycle", !.todo = todo]]
       /\ UNCHANGED <<service, state, token, runs, sent, faults, commands>>

-----------------------------------------------------------------------------
(* Warming *)

Sent(p, c, ok) ==
    warmer' = [warmer EXCEPT ![p].pc = "record", ![p].todo = @ \ {c},
                             ![p].current = {c}, ![p].ok = ok]

WarmsFable(c) == "fable" \in c.windows

\* warmClaudeAccount, warmCodexAccount: the request is served.  A Claude
\* response is recorded like a proxied one, if it has the headers.
Warm(p, c) ==
    LET a == c.account
        fable == WarmsFable(c)
    IN /\ warmer[p].pc = "cycle"
       /\ c \in warmer[p].todo
       /\ token[a] /\ (service[a] = "claude" => a \in known)
       /\ Sent(p, c, TRUE)
       /\ runs' = [runs EXCEPT ![a] = Started(a, fable)]
       /\ sent' = [sent EXCEPT ![a] =
                      [w \in Window |->
                          IF acct[a].added = c.added /\ w \in Covered(a, fable)
                          THEN 0 ELSE sent[a][w]]]
       /\ \/ /\ service[a] = "claude"
             /\ acct' = [acct EXCEPT ![a].error = FALSE,
                            ![a].sample = Reported(a, fable, runs'[a], {})]
          \/ UNCHANGED acct
       /\ UNCHANGED <<service, known, token, faults, commands>>

\* No answer came, though the windows may have started; or upstream was at a
\* limit; or it rejected the token.
WarmFails(p, c) ==
    LET a == c.account IN
    /\ warmer[p].pc = "cycle"
    /\ c \in warmer[p].todo
    /\ Fault
    /\ token[a] /\ (service[a] = "claude" => a \in known)
    /\ Sent(p, c, FALSE)
    /\ \/ UNCHANGED acct /\ runs' \in {runs, [runs EXCEPT ![a] =
                                          Started(a, WarmsFable(c))]}
       \/ /\ service[a] = "claude" /\ UNCHANGED runs
          /\ \E w \in Core : runs[a][w] # 0 /\
                acct' = [acct EXCEPT ![a].error = FALSE,
                    ![a].sample = Reported(a, WarmsFable(c), runs[a], {w})]
       \/ /\ service[a] = "claude" /\ UNCHANGED runs
          /\ acct' = [acct EXCEPT ![a].error = TRUE]
    /\ UNCHANGED <<service, known, token, sent, commands>>

\* The token cannot be loaded, or the home has no login.
WarmRefused(p, c) ==
    LET a == c.account IN
    /\ warmer[p].pc = "cycle"
    /\ c \in warmer[p].todo
    /\ ~token[a] \/ (service[a] = "claude" /\ a \notin known)
    /\ Sent(p, c, FALSE)
    /\ UNCHANGED <<service, state, token, runs, sent, faults, commands>>

\* The account as recordWarmup leaves it.
Recorded(a, c, ok) ==
    IF ~ok THEN [acct[a] EXCEPT !.retry = Retry]
    ELSE [acct[a] EXCEPT !.warm = 0, !.retry = 0,
                         !.fable = IF WarmsFable(c) THEN 0 ELSE @]

\* Go on with the next account, unless the context has ended.
GoOn(p) ==
    warmer' = [warmer EXCEPT ![p] =
                  IF @.ended \/ @.todo = {} THEN Idle
                  ELSE [@ EXCEPT !.pc = "cycle", !.current = {}, !.ok = FALSE]]

\* Mutant: a context that has ended ends the recording too.
RecordUnlessEnded(p, c) ==
    /\ c \in warmer[p].current /\ warmer[p].pc = "record"
    /\ IF ~warmer[p].ended /\ c.account \in known /\ acct[c.account].added = c.added
       THEN acct' = [acct EXCEPT ![c.account] = Recorded(c.account, c, warmer[p].ok)]
       ELSE UNCHANGED acct
    /\ GoOn(p)
    /\ UNCHANGED <<service, known, token, runs, sent, faults, commands>>

\* Mutant: an account that was added again counts as warmed.
RecordByName(p, c) ==
    /\ c \in warmer[p].current /\ warmer[p].pc = "record"
    /\ IF c.account \in known
       THEN acct' = [acct EXCEPT ![c.account] = Recorded(c.account, c, warmer[p].ok)]
       ELSE UNCHANGED acct
    /\ GoOn(p)
    /\ UNCHANGED <<service, known, token, runs, sent, faults, commands>>

\* Mutant: an account that was removed is written all the same.
RecordRemoved(p, c) ==
    /\ c \in warmer[p].current /\ warmer[p].pc = "record"
    /\ acct' = [acct EXCEPT ![c.account] = Recorded(c.account, c, warmer[p].ok)]
    /\ GoOn(p)
    /\ UNCHANGED <<service, known, token, runs, sent, faults, commands>>

\* recordWarmup, for a request that went out, with a context of its own: only
\* a request that was cut off leaves nothing.
Record(p, c) ==
    LET cutOff == warmer[p].ended /\ ~warmer[p].ok IN
    /\ warmer[p].pc = "record"
    /\ c \in warmer[p].current
    /\ IF ~cutOff /\ c.account \in known /\ acct[c.account].added = c.added
       THEN acct' = [acct EXCEPT ![c.account] = Recorded(c.account, c, warmer[p].ok)]
       ELSE UNCHANGED acct
    /\ GoOn(p)
    /\ UNCHANGED <<service, known, token, runs, sent, faults, commands>>

\* The process dies, or cannot save, before a warm-up is recorded: nothing
\* tells of it then, so the history is not held to it.
LoseRecord(p, c) ==
    /\ warmer[p].pc = "record"
    /\ c \in warmer[p].current
    /\ Fault
    /\ \/ GoOn(p)
       \/ warmer' = [warmer EXCEPT ![p] = Idle]
    /\ sent' = IF warmer[p].ok /\ acct[c.account].added = c.added
               THEN [sent EXCEPT ![c.account] = [w \in Window |-> Long]] ELSE sent
    /\ UNCHANGED <<service, state, token, runs, commands>>

\* The context ends between two requests, or during one.
EndContext(p) ==
    /\ warmer[p].pc # "idle" /\ ~warmer[p].ended
    /\ Fault
    /\ warmer' = [warmer EXCEPT ![p] = IF @.pc = "cycle" THEN Idle
                                       ELSE [@ EXCEPT !.ended = TRUE]]
    /\ UNCHANGED <<service, state, token, runs, sent, commands>>

-----------------------------------------------------------------------------
(* The user's commands *)

Command ==
    /\ commands < MaxCommands
    /\ commands' = commands + 1
    /\ UNCHANGED <<service, warmer, faults>>

\* RemoveAccountWithOptions: a Claude account only without a setup token, a
\* Codex account with its home or without it.
RemoveAccount(a) ==
    /\ Command
    /\ a \in known
    /\ service[a] = "claude" => ~token[a]
    /\ known' = known \ {a}
    /\ acct' = [acct EXCEPT ![a] = Fresh(acct[a].added)]
    /\ token' \in {token, [token EXCEPT ![a] = FALSE]}
    /\ UNCHANGED <<runs, sent>>

\* CreateAccountHome: a new account, of which nothing is known.
CreateAccount(a) ==
    /\ Command
    /\ a \notin known
    /\ known' = known \cup {a}
    /\ acct' = [acct EXCEPT ![a] = Fresh(commands')]
    /\ sent' = [sent EXCEPT ![a] = [w \in Window |-> Never]]
    /\ UNCHANGED <<token, runs>>

\* The account gets another token, perhaps of another login, or loses it
\* (ReplaceClaudeSetupToken, RemoveClaudeSetupToken, codex login).  A sample
\* taken with another setup token is not used any more, and has no place here
\* (trustedClaudeProxyUsage); a Codex sample has no revision.
SetToken(a) ==
    /\ Command
    /\ a \in known
    /\ \E b \in BOOLEAN : token' = [token EXCEPT ![a] = b]
    /\ acct' = [acct EXCEPT ![a].error = FALSE,
                   ![a].sample = IF service[a] = "claude" THEN NoSample ELSE @]
    /\ runs' \in {runs, [runs EXCEPT ![a] = [w \in Window |-> 0]]}
    /\ UNCHANGED <<known, sent>>

UserCommand(a) == RemoveAccount(a) \/ CreateAccount(a) \/ SetToken(a)

Warming(p) ==
    \/ Plan(p)
    \/ \E c \in warmer[p].todo : Warm(p, c) \/ WarmRefused(p, c)
    \/ \E c \in warmer[p].current : Record(p, c)

Next ==
    \/ Tick
    \/ \E a \in Account : Use(a) \/ ProbeCodex(a) \/ UserCommand(a)
    \/ \E p \in Warmer : Warming(p) \/ EndContext(p)
    \/ \E p \in Warmer : \/ \E c \in warmer[p].todo : WarmFails(p, c)
                        \/ \E c \in warmer[p].current : LoseRecord(p, c)

Spec == Init /\ [][Next]_vars

\* The monitor starts a cycle every interval, probes the accounts and then
\* warms them, and none of its requests takes for ever (claudeWarmupTimeout,
\* codexWarmupTimeout).  Failures end, as MaxFaults is a bound.
FairSpec ==
    /\ Spec
    /\ WF_vars(Tick)
    /\ \A a \in Account : WF_vars(ProbeCodex(a))
    /\ \A p \in Warmer : WF_vars(Warming(p))

-----------------------------------------------------------------------------
(* Correctness *)

\* Candidate c may be warmed: none of its windows was within its length
\* of the warm-up before.
Unwarmed(c) ==
    \A w \in c.windows : IF w = Unknown THEN sent[c.account]["5h"] >= Short
                                        ELSE sent[c.account][w] >= Length(w)

\* "After a warm-up, the account is skipped for the length of each window it
\* started" (README.md:379), also when the context ends after the request went
\* out (warmup.go:143): no warm-up is sent for a window within its length after
\* the one before.
WarmedOncePerWindow ==
    [][\A p \in Warmer : \A c \in warmer[p].todo :
           warmer[p].pc = "cycle" /\ warmer'[p].current = {c}
           => Unwarmed(c)]_vars

\* An account that was added again under its name is not skipped for what was
\* sent to the former one (warmup.go:345): it counts as warmed only if a
\* warm-up has gone out since it was added.
WarmthIsItsOwn ==
    \A a \in known :
        /\ acct[a].warm < Long => sent[a]["weekly"] # Never
        /\ acct[a].fable < Long => sent[a]["fable"] # Never

\* An account whose window could be started and is known, or not known at all.
Startable(a, w) ==
    /\ a \in known /\ token[a] /\ ~acct[a].error
    /\ acct[a].sample.full \cap Core = {}
    /\ w = "fable" => KnownUsage(a) /\ w \in acct[a].sample.windows \ acct[a].sample.full
    /\ runs[a][w] = 0

\* "An account that sits idle past a reset" gets its clocks started
\* (README.md:361): no window stays unstarted for ever while the account is in
\* order, whatever failed before.
IdleWindowsStart ==
    \A a \in Account, w \in Window : Startable(a, w) ~> ~Startable(a, w)

-----------------------------------------------------------------------------
(* The inductive invariant behind the first two properties.  What a warmer  *)
(* sent is in its memory until it is recorded, so the state and the history *)
(* agree but for the request that is being recorded.                        *)

\* A candidate is of an account as some command left it, and of the Fable
\* window only if the service has one, as samples are.
CandidateInv ==
    /\ \A a \in Account :
          /\ acct[a].added <= commands
          /\ "fable" \in acct[a].sample.windows => service[a] = "claude"
    /\ \A p \in Warmer : \A c \in warmer[p].todo \cup warmer[p].current :
          /\ c.added <= commands
          /\ WarmsFable(c) => service[c.account] = "claude"

\* One request at a time is recorded, and only in that phase.
PhaseInv ==
    \A p \in Warmer :
        IF warmer[p].pc = "record"
        THEN \E c \in Candidate : warmer[p].current = {c}
        ELSE warmer[p].current = {}

\* The windows a warm-up of candidate c is recorded for.
Recordable(c) == IF WarmsFable(c) THEN Window ELSE Core

\* Warmer p has to record a warm-up of the account as it is.
Pending(p, c) == warmer[p].ok /\ acct[c.account].added = c.added

\* What is going to be recorded was sent.
PendingInv ==
    \A p \in Warmer : \A c \in warmer[p].current :
        Pending(p, c) => \A w \in Recordable(c) : sent[c.account][w] # Never

\* What was sent has been recorded, or lost, or is going to be recorded.
HistoryInv ==
    \A a \in known, w \in Window :
        \/ sent[a][w] >= Warmth(a, w)
        \/ \E p \in Warmer : \E c \in warmer[p].current :
              c.account = a /\ Pending(p, c) /\ w \in Recordable(c)

\* What a warmer that has no other beside it is going to send.
PlannedInv ==
    \A p \in Warmer : \A c \in warmer[p].todo :
        /\ Unwarmed(c)
        /\ \A d \in warmer[p].todo : d.account = c.account => d = c

OneWarmer == \A p, q \in Warmer : p = q

WarmupInv ==
    /\ TypeOK
    /\ CandidateInv /\ PhaseInv /\ PendingInv /\ HistoryInv
    /\ WarmthIsItsOwn
    /\ OneWarmer => PlannedInv
=============================================================================
