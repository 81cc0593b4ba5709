--------------------------- MODULE ClaudeRouting ---------------------------
(***************************************************************************)
(* Who decides which Claude account serves the next request.  Requests of  *)
(* the local auth proxy (claude_proxy.go), usage probes of the monitor and *)
(* of the status and switch commands (monitor.go,                          *)
(* claude_setup_token_usage.go), and commands of the user share one state  *)
(* file.  Each of them reads it under the state lock, works without the    *)
(* lock for as long as the network takes, and writes what it learned under *)
(* the lock again.                                                         *)
(*                                                                         *)
(* One action is one section under the lock, or one answer from upstream.  *)
(* FileTransaction shows why a locked section is one step.  Time is a      *)
(* counter: it advances with the events whose stamps must be later than    *)
(* what came before, and other events are stamped with the present time.   *)
(* A deadline that has been set may or may not have passed when it is read.*)
(***************************************************************************)
EXTENDS Naturals, Sequences, FiniteSets

CONSTANTS
    Account,     \* names of accounts of one home-mode Claude service
    Request,     \* client connections of the proxy
    Prober,      \* processes that probe usage
    Nobody,      \* ActiveAccount = ""
    Level,       \* how used up an account can be, see below
    Kinds,       \* how probers end: "status", "monitor", "best"
    Commands,    \* the user's commands this instance explores
    MaxRevision, \* bound: setup tokens ever stored for one account
    MaxTime,     \* bound: the clock
    MaxCommands  \* bound: the user's commands in a behaviour

\* Below the switch threshold, at or above it, at a limit.  Unknown scores
\* +Inf without being exhausted.
Low == 0
High == 1
Full == 2
Unknown == 3

ASSUME ConstantsAssumption ==
    /\ IsFiniteSet(Account)
    /\ Level \subseteq Low..Full /\ Low \in Level
    /\ Nobody \notin Account
    /\ Kinds \subseteq {"status", "monitor", "best"}
    /\ Commands \subseteq {"switch", "token", "untoken", "remove", "create",
                           "reset", "line"}
    /\ MaxRevision \in Nat \ {0}
    /\ MaxTime \in Nat \ {0}
    /\ MaxCommands \in Nat

VARIABLES
    time,
    active,      \* state: ActiveAccount
    switchedAt,  \* state: LastSwitchedAt
    known,       \* state: the registered accounts
    acct,        \* state: AccountState of each of them
    tokenFile,   \* revision in each setup-token file, 0 when there is none
    issued,      \* how many revisions each account has been given
    revoked,     \* upstream: revisions it rejects
    req,         \* memory of each proxied request
    probe,       \* memory of each usage probe
    commands,    \* how many commands the user has given
    touched      \* history: accounts that, since each probe began, were
                 \* added, removed, given another token or rejected

stateFile == <<active, switchedAt, known, acct>>
vars == <<time, active, switchedAt, known, acct, tokenFile, issued, revoked,
          req, probe, commands, touched>>

Time     == 0..MaxTime
Revision == 0..MaxRevision

Sample   == [rev : Revision, level : Level]
NoSample == [rev |-> 0, level |-> Low]

\* seen is ProxyUsage.
AccountState ==
    [added : Time, rev : Revision, error : BOOLEAN, paused : BOOLEAN,
     probeAt : Time, usage : Sample, seen : Sample]

Fresh(t) ==
    [added |-> t, rev |-> 0, error |-> FALSE, paused |-> FALSE,
     probeAt |-> 0, usage |-> NoSample, seen |-> NoSample]

\* A route as it is looked up, and as it is tried.
Candidate == [account : Account, rev : Revision, level : Level \cup {Unknown},
              active : BOOLEAN]
Route   == [account : Account, rev : Revision, active : BOOLEAN]
NoRoute == [account |-> Nobody, rev |-> 0, active |-> FALSE]

Reply   == [kind : {"ok", "quota", "throttled", "unauthorized"},
            sample : Sample]
NoReply == [kind |-> "ok", sample |-> NoSample]

RequestState ==
    [pc : {"idle", "lookup", "sent", "answered"}, active : Account \cup {Nobody},
     found : SUBSET Candidate, routes : Seq(Route), current : Route \cup {NoRoute},
     sticky : BOOLEAN, excused : SUBSET Account, reply : Reply]
Idle == [pc |-> "idle", active |-> Nobody, found |-> {}, routes |-> <<>>,
         current |-> NoRoute, sticky |-> TRUE, excused |-> {},
         reply |-> NoReply]

ProbeState ==
    [pc : {"idle", "probing"}, started : Time, active : Account \cup {Nobody},
     switchedAt : Time, known : SUBSET Account, acct : [Account -> AccountState],
     todo : SUBSET Account, score : [Account -> Level \cup {Unknown}]]
NoProbe == [pc |-> "idle", started |-> 0, active |-> Nobody, switchedAt |-> 0,
            known |-> {}, acct |-> [a \in Account |-> Fresh(0)], todo |-> {},
            score |-> [a \in Account |-> Unknown]]

TypeOK ==
    /\ time \in Time
    /\ active \in Account \cup {Nobody}
    /\ switchedAt \in Time
    /\ known \subseteq Account
    /\ acct \in [Account -> AccountState]
    /\ tokenFile \in [Account -> Revision]
    /\ issued \in [Account -> Revision]
    /\ revoked \in [Account -> SUBSET Revision]
    /\ req \in [Request -> RequestState]
    /\ probe \in [Prober -> ProbeState]
    /\ commands \in 0..MaxCommands
    /\ touched \in [Prober -> SUBSET Account]

\* Every account has a token; any one of them, or none, is selected.
Init ==
    /\ time = 1
    /\ active \in Account \cup {Nobody}
    /\ switchedAt = 0
    /\ known = Account
    /\ acct = [a \in Account |-> [Fresh(1) EXCEPT !.rev = 1]]
    /\ tokenFile = [a \in Account |-> 1]
    /\ issued = [a \in Account |-> 1]
    /\ revoked = [a \in Account |-> {}]
    /\ req = [r \in Request |-> Idle]
    /\ probe = [p \in Prober |-> NoProbe]
    /\ commands = 0
    /\ touched = [p \in Prober |-> {}]

Tick ==
    /\ time < MaxTime
    /\ time' = time + 1

\* Account a is no longer what the probes under way have read.
Touch(a) ==
    touched' = [p \in Prober |-> IF probe[p].pc = "probing"
                                 THEN touched[p] \cup {a} ELSE {}]

\* A sample of this token, whatever its age (trustedClaudeProxyUsage).
Trusted(sample, rev) == rev # 0 /\ sample.rev = rev

\* A window whose reset has passed counts as empty, so a sample can be read
\* as anything up to what it recorded (LimitWindow.Ratio).
ReadAs(sample) == {l \in Level : l <= sample.level}

\* LoadClaudeSetupTokenWithStatus succeeds.
Usable(a) == /\ a \in known
             /\ tokenFile[a] # 0
             /\ acct[a].rev = tokenFile[a]


-----------------------------------------------------------------------------
(* A proxied request *)

\* Mutant: the selected account comes before its equals only.
RankByUse(x) == 10 * x.level + (IF x.active THEN 0 ELSE 1)

\* An exhausted account comes last, the selected one before its equals, then
\* the less used.  Names break ties, in any way here.
Rank(x) ==
    (IF x.level = Full THEN 10 ELSE 0) + (IF x.active THEN 0 ELSE 5) + x.level

Sorted(found) ==
    {s \in [1..Cardinality(found) -> found] :
        \A i, j \in DOMAIN s : i < j => s[i] # s[j] /\ Rank(s[i]) <= Rank(s[j])}

\* Go on to the next route.
Send(r, q) ==
    req' = [req EXCEPT ![r] = [q EXCEPT !.pc = "sent",
                                        !.current = Head(q.routes),
                                        !.routes = Tail(q.routes),
                                        !.reply = NoReply]]

\* claudeProxyKnownUsage: the proxy's sample comes before the probe's.
KnownUsage(a) == IF Trusted(acct[a].seen, acct[a].rev) THEN acct[a].seen
                                                       ELSE acct[a].usage

\* The accounts that come into question, and how used up they seem.
Candidates(barred, read) ==
    {[account |-> a, rev |-> acct[a].rev, active |-> a = active,
      level |-> IF Trusted(KnownUsage(a), acct[a].rev) THEN read[a] ELSE Unknown] :
        a \in {b \in known \ barred : acct[b].rev # 0}}

\* claudeProxyRoutes up to lock.Release.
ReadState(r) ==
    /\ req[r].pc = "idle"
    /\ \E barred \in SUBSET {a \in known : acct[a].error /\ acct[a].paused},
          read \in [known -> Level] :
          /\ \A a \in known : read[a] \in ReadAs(KnownUsage(a))
          /\ req' = [req EXCEPT ![r] =
                        [Idle EXCEPT !.pc = "lookup", !.active = active,
                                     !.found = Candidates(barred, read)]]
    /\ UNCHANGED <<time, stateFile, tokenFile, issued, revoked, probe,
                   commands, touched>>

\* Those whose token can be loaded; one stored in between has no usage yet.
Loaded(found) ==
    {[x EXCEPT !.rev = acct[x.account].rev,
               !.level = IF acct[x.account].rev = x.rev THEN x.level ELSE Unknown] :
        x \in {y \in found : Usable(y.account)}}

\* The accounts that are exhausted, or no route at all.
Spent(loaded) == Account \ {x.account : x \in {y \in loaded : y.level # Full}}

RoutesOf(s) ==
    [i \in DOMAIN s |-> [account |-> s[i].account, rev |-> s[i].rev,
                         active |-> s[i].active]]

\* Each token is then loaded under the lock again, here all of them at once.
\* Without a route the client gets a 503.  What is selected later, by another
\* request, a probe or the user, owes nothing to this request.
LoadTokens(r) ==
    /\ req[r].pc = "lookup"
    /\ LET loaded == Loaded(req[r].found) IN
       IF loaded = {}
       THEN req' = [req EXCEPT ![r] = Idle]
       ELSE \E s \in Sorted(loaded) :
               Send(r, [Idle EXCEPT
                          !.routes = RoutesOf(s),
                          !.excused = Spent(loaded) \cup
                                      (Account \ {req[r].active})])
    /\ UNCHANGED <<time, stateFile, tokenFile, issued, revoked, probe,
                   commands, touched>>

\* What upstream can answer to route x, each with or without usage headers:
\* 401 to a revoked token, and to others a response, or a 429 that carries
\* rate-limit headers or names a rejected window, whatever usage it reports; or
\* a bare 429.  Every other status counts as served.
RepliesTo(x) ==
    LET samples == [rev : {x.rev}, level : Level]
        told(kind, of) == [kind : {kind}, sample : of \cup {NoSample}]
    IN IF x.rev \in revoked[x.account] THEN told("unauthorized", samples)
       ELSE told("ok", samples)
            \cup told("quota", samples)
            \cup told("throttled", {})

Answer(r) ==
    /\ req[r].pc = "sent"
    /\ \E reply \in RepliesTo(req[r].current) :
          req' = [req EXCEPT ![r].pc = "answered", ![r].reply = reply]
    /\ UNCHANGED <<time, stateFile, tokenFile, issued, revoked, probe,
                   commands, touched>>

\* Upstream cannot be reached, or the client hangs up.
GiveUp(r) ==
    /\ req[r].pc = "sent"
    /\ req' = [req EXCEPT ![r] = Idle]
    /\ UNCHANGED <<time, stateFile, tokenFile, issued, revoked, probe,
                   commands, touched>>

\* What the proxy makes of a reply (ServeHTTP).
Retries(q)    == q.reply.kind # "ok" /\ q.routes # <<>>
\* Mutant: a bare 429 counts as a reason to switch.
ThrottleMovesOn(q) == FALSE

StaysPut(q)   == q.current.active /\ q.reply.kind = "throttled"
SwitchesTo(q) == q.reply.kind = "ok" /\ q.sticky

\* Mutant: a rejection leaves the time of the last probe alone.
RejectedWithoutStamp(a, reply) ==
    IF reply.kind = "unauthorized"
    THEN [acct[a] EXCEPT !.error = TRUE, !.paused = TRUE]
    ELSE [acct[a] EXCEPT !.error = FALSE]

\* The account as recordClaudeProxyObservation leaves it.
Observed(a, reply) ==
    LET sampled == reply.sample # NoSample
        stored  == IF sampled
                   THEN [acct[a] EXCEPT !.seen = reply.sample]
                   ELSE acct[a]
    IN CASE reply.kind = "unauthorized" ->
                [stored EXCEPT !.error = TRUE, !.paused = TRUE, !.probeAt = time']
         [] reply.kind # "unauthorized" /\ sampled /\ acct[a].error ->
                [stored EXCEPT !.error = FALSE, !.paused = FALSE]
         [] OTHER -> stored

\* Mutant: the account is not looked up again.
ObserveUnchecked(q) ==
    LET a == q.current.account IN
    /\ acct' = [acct EXCEPT ![a].seen = q.reply.sample]
    /\ IF SwitchesTo(q) THEN active' = a ELSE UNCHANGED active
    /\ UNCHANGED <<time, switchedAt, known, touched>>

\* recordClaudeProxyObservation, refused when the token is not the one the
\* request was sent with.
Observe(q) ==
    LET a == q.current.account IN
    /\ a \in known
    /\ acct[a].rev = q.current.rev
    /\ IF q.reply.kind = "unauthorized" THEN Tick ELSE UNCHANGED time
    /\ acct' = [acct EXCEPT ![a] = Observed(a, q.reply)]
    /\ IF SwitchesTo(q) /\ active # a
       THEN active' = a /\ switchedAt' = time
       ELSE UNCHANGED <<active, switchedAt>>
    /\ IF q.reply.kind = "unauthorized" THEN Touch(a) ELSE UNCHANGED touched
    /\ UNCHANGED known

\* A reply is recorded, if it can be, and passed on to the client or followed
\* by a retry.  An error of the recording is only logged.
Record(r) ==
    /\ req[r].pc = "answered"
    /\ \/ Observe(req[r])
       \/ UNCHANGED <<time, stateFile, touched>>
    /\ LET q == [req[r] EXCEPT
                    !.sticky = @ /\ ~StaysPut(req[r]),
                    !.excused = IF req[r].reply.kind \in {"quota", "unauthorized"}
                                THEN @ \cup {req[r].current.account} ELSE @]
       IN IF Retries(q) THEN Send(r, q) ELSE req' = [req EXCEPT ![r] = Idle]
    /\ UNCHANGED <<tokenFile, issued, revoked, probe, commands>>

-----------------------------------------------------------------------------
(* A usage probe *)

\* collectUsageSnapshot reads the state and stamps its copy of it.
BeginProbe(p) ==
    /\ probe[p].pc = "idle"
    /\ Tick
    /\ probe' = [probe EXCEPT ![p] =
                    [pc |-> "probing", started |-> time',
                     active |-> active, switchedAt |-> switchedAt,
                     known |-> known, todo |-> known,
                     acct |-> [a \in Account |->
                                  IF a \in known
                                  THEN [acct[a] EXCEPT !.probeAt = time']
                                  ELSE acct[a]],
                     score |-> [a \in Account |-> Unknown]]]
    /\ UNCHANGED <<stateFile, tokenFile, issued, revoked, req, commands,
                   touched>>

\* The probe leaves account a as `result`, and selectable unless it is used
\* up (markClaudeSetupTokenSelectable).
Rated(p, a, result) ==
    \E l \in ReadAs(result.usage) :
        probe' = [probe EXCEPT ![p].acct[a] = result,
                               ![p].todo = @ \ {a},
                               ![p].score[a] = IF l = Full THEN Unknown ELSE l]

Unselectable(p, a, result) ==
    probe' = [probe EXCEPT ![p].acct[a] = result, ![p].todo = @ \ {a}]

\* Without an answer from upstream the proxy's sample stands in, then a
\* fresh one of the status line, which may have aged.
Fallback(p, a, before) ==
    IF Trusted(before.seen, before.rev)
    THEN Rated(p, a, [before EXCEPT !.usage = before.seen])
    ELSE \/ /\ Trusted(before.usage, before.rev)
            /\ Rated(p, a, before)
         \/ Unselectable(p, a, [before EXCEPT !.usage = NoSample])

\* collectClaudeSetupTokenAccount.  The token is loaded and used in one step:
\* if it changes in between, mergeProbeState drops the result all the same.
ProbeAccount(p, a) ==
    /\ probe[p].pc = "probing"
    /\ a \in probe[p].todo
    /\ LET before == probe[p].acct[a]
           spare  == a # probe[p].active
           adopts == spare /\ Trusted(before.seen, before.rev)
           useful == Usable(a) /\ acct[a].rev = before.rev
       IN \/ /\ ~useful
             /\ Unselectable(p, a, [before EXCEPT !.usage = NoSample])
          \/ /\ useful /\ spare /\ Trusted(before.usage, before.rev)
             /\ Rated(p, a, before)                          \* still fresh
          \/ /\ useful /\ adopts
             /\ Rated(p, a, [before EXCEPT !.usage = before.seen])
          \/ /\ useful /\ ~adopts /\ before.paused           \* not over yet
             /\ IF before.error THEN Unselectable(p, a, before)
                                ELSE Fallback(p, a, before)
          \/ /\ useful /\ ~adopts                            \* asks upstream
             /\ LET clear == [before EXCEPT !.error = FALSE, !.paused = FALSE]
                IN \/ /\ before.rev \in revoked[a]
                      /\ Unselectable(p, a, [before EXCEPT
                            !.usage = NoSample, !.error = TRUE, !.paused = TRUE])
                   \/ /\ before.rev \notin revoked[a]
                      /\ \E l \in Level :
                            Rated(p, a, [clear EXCEPT
                                !.usage = [rev |-> before.rev, level |-> l]])
                   \/ Fallback(p, a, [clear EXCEPT !.paused = TRUE])
    /\ UNCHANGED <<time, stateFile, tokenFile, issued, revoked, req, commands,
                   touched>>

\* Mutant: a result is merged whatever token it was obtained with.
MergedForAnyToken(P) ==
    [a \in Account |->
        IF a \in known \cap P.known THEN [acct[a] EXCEPT !.error = P.acct[a].error]
                                   ELSE acct[a]]

\* Mutant: a result is merged although a later probe has reported.
MergedInAnyOrder(P) ==
    [a \in Account |->
        IF /\ a \in known \cap P.known
           /\ acct[a].added = P.acct[a].added
           /\ acct[a].rev = P.acct[a].rev
        THEN [acct[a] EXCEPT !.usage   = P.acct[a].usage,
                             !.probeAt = P.acct[a].probeAt]
        ELSE acct[a]]

\* mergeProbeState: nothing of an account that was replaced, of a token that
\* was, or of a probe that has been overtaken.
Merged(P) ==
    [a \in Account |->
        IF /\ a \in known \cap P.known
           /\ acct[a].added = P.acct[a].added
           /\ acct[a].rev = P.acct[a].rev
           /\ acct[a].probeAt <= P.acct[a].probeAt
        THEN [acct[a] EXCEPT !.usage   = P.acct[a].usage,
                             !.paused  = P.acct[a].paused,
                             !.error   = P.acct[a].error,
                             !.probeAt = P.acct[a].probeAt]
        ELSE acct[a]]

\* Mutant: only the selection is compared, not when it was made.
MatchesSelection(P) == active = P.active /\ known = P.known

\* serviceStateMatchesSnapshot, after the merge.
Matches(P) ==
    /\ active = P.active
    /\ switchedAt = P.switchedAt
    /\ known = P.known
    /\ \A a \in known :
          /\ acct[a].added = P.acct[a].added
          /\ acct[a].rev = P.acct[a].rev
          /\ Merged(P)[a].probeAt = P.acct[a].probeAt

\* BestAccount; averages and names break ties, in any way here.
Selectable(P) == {a \in P.known : P.score[a] # Unknown}
Best(P) == {a \in Selectable(P) : \A b \in Selectable(P) : P.score[a] <= P.score[b]}

\* shouldAutoSwitch: at once from an account that cannot serve, otherwise
\* only above the threshold and if margin and cooldown allow it.
MustSwitch(P) == P.active \notin Selectable(P)
MaySwitch(P)  ==
    \/ MustSwitch(P)
    \/ P.active \in {a \in P.known : P.acct[a].usage.level >= High}

\* The locked second half of StatusOnce, monitorUsageOnce or SwitchBest.
FinishProbe(p, kind) ==
    LET P == probe[p]
        Keep == UNCHANGED <<active, switchedAt>>
        Choices == IF Matches(P) THEN Best(P) ELSE {}
    IN /\ P.pc = "probing"
       /\ P.todo = {}
       /\ \/ /\ acct' = Merged(P)
             /\ \/ kind = "status" /\ Keep
                \/ /\ kind \in {"monitor", "best"}
                   /\ Choices = {} \/ P.active \in Choices
                   /\ Keep
                \/ /\ kind = "monitor"
                   /\ Choices # {} /\ ~MustSwitch(P)
                   /\ Keep
                \/ \E b \in Choices \ {P.active} :
                      /\ \/ kind = "monitor" /\ MaySwitch(P)
                         \/ kind = "best"
                      /\ active' = b
                      /\ switchedAt' = time
          \/ /\ kind = "best"        \* fails for the service it was given,
             /\ Choices = {}           \* and saves nothing
             /\ Keep
             /\ UNCHANGED acct
       /\ probe' = [probe EXCEPT ![p] = NoProbe]
       /\ touched' = [touched EXCEPT ![p] = {}]
       /\ UNCHANGED <<time, known, tokenFile, issued, revoked, req, commands>>

\* The prober is killed or cannot get at the state.
AbandonProbe(p) ==
    /\ probe[p].pc = "probing"
    /\ probe' = [probe EXCEPT ![p] = NoProbe]
    /\ touched' = [touched EXCEPT ![p] = {}]
    /\ UNCHANGED <<time, stateFile, tokenFile, issued, revoked, req, commands>>

-----------------------------------------------------------------------------
(* The user's commands, each one locked section *)

Command(name) ==
    /\ name \in Commands
    /\ commands < MaxCommands
    /\ commands' = commands + 1
    /\ UNCHANGED <<revoked, req, probe>>

\* SwitchAccount
SwitchAccount(a) ==
    /\ Command("switch")
    /\ a \in known
    /\ active # a
    /\ active' = a
    /\ switchedAt' = time
    /\ UNCHANGED <<time, known, acct, tokenFile, issued, touched>>

\* The account with its token set to rev, and clearSetupTokenProbeState.
WithToken(a, rev) ==
    [acct[a] EXCEPT !.rev = rev, !.error = FALSE, !.paused = FALSE,
                    !.probeAt = 0, !.usage = NoSample]

\* ReplaceClaudeSetupToken writes the token file, then the state.  If it dies
\* or the save fails in between, the two disagree.
ReplaceToken(a) ==
    /\ Command("token")
    /\ a \in known
    /\ issued[a] < MaxRevision
    /\ issued' = [issued EXCEPT ![a] = @ + 1]
    /\ tokenFile' = [tokenFile EXCEPT ![a] = issued'[a]]
    /\ \/ acct' = [acct EXCEPT ![a] = WithToken(a, issued'[a])] /\ Touch(a)
       \/ UNCHANGED <<acct, touched>>
    /\ UNCHANGED <<time, active, switchedAt, known>>

\* RemoveClaudeSetupToken, in the same order.
RemoveToken(a) ==
    /\ Command("untoken")
    /\ a \in known
    /\ tokenFile' = [tokenFile EXCEPT ![a] = 0]
    /\ \/ /\ acct' = [acct EXCEPT ![a] = WithToken(a, 0)]
          /\ IF acct[a].rev = 0 THEN UNCHANGED touched ELSE Touch(a)
       \/ UNCHANGED <<acct, touched>>
    /\ UNCHANGED <<time, active, switchedAt, known, issued>>

\* RemoveAccountWithOptions: only without a token; the selected account only
\* with -force.
RemoveAccount(a) ==
    /\ Command("remove")
    /\ a \in known
    /\ tokenFile[a] = 0 /\ acct[a].rev = 0
    /\ known' = known \ {a}
    /\ acct' = [acct EXCEPT ![a] = Fresh(0)]
    /\ active' = IF active = a THEN Nobody ELSE active
    /\ Touch(a)
    /\ UNCHANGED <<time, switchedAt, tokenFile, issued>>

\* CreateAccountHome selects the first account.
CreateAccount(a) ==
    /\ Command("create")
    /\ a \notin known
    /\ known' = known \cup {a}
    /\ acct' = [acct EXCEPT ![a] = Fresh(time)]
    /\ active' = IF active = Nobody THEN a ELSE active
    /\ Touch(a)
    /\ UNCHANGED <<time, switchedAt, tokenFile, issued>>

\* ResetAccountProbeState
ResetProbeState(a) ==
    /\ Command("reset")
    /\ a \in known
    /\ acct' = [acct EXCEPT ![a].error = FALSE, ![a].paused = FALSE]
    /\ UNCHANGED <<time, active, switchedAt, known, tokenFile, issued,
                   touched>>

\* RecordClaudeStatusLineUsage: a sample observed at t, perhaps just now, by
\* a session that was started with the present token.
StatusLine(a) ==
    /\ Command("line")
    /\ Usable(a)
    /\ ~acct[a].error
    /\ \E t \in acct[a].probeAt..time + 1, l \in Level :
          /\ IF t > time THEN Tick ELSE UNCHANGED time
          /\ acct' = [acct EXCEPT ![a].usage = [rev |-> acct[a].rev, level |-> l],
                                  ![a].probeAt = t]
    /\ UNCHANGED <<active, switchedAt, known, tokenFile, issued, touched>>

\* Anthropic stops accepting a token, for good.
RevokeToken(a) ==
    /\ acct[a].rev \notin revoked[a] \cup {0}
    /\ revoked' = [revoked EXCEPT ![a] = @ \cup {acct[a].rev}]
    /\ UNCHANGED <<time, stateFile, tokenFile, issued, req, probe, commands,
                   touched>>

Proxy(r) == ReadState(r) \/ LoadTokens(r) \/ Answer(r) \/ GiveUp(r) \/ Record(r)

Probing(p) ==
    \/ BeginProbe(p) \/ AbandonProbe(p)
    \/ \E a \in Account : ProbeAccount(p, a)
    \/ \E kind \in Kinds : FinishProbe(p, kind)

UserCommand(a) ==
    \/ SwitchAccount(a) \/ ReplaceToken(a) \/ RemoveToken(a)
    \/ RemoveAccount(a) \/ CreateAccount(a) \/ ResetProbeState(a)
    \/ StatusLine(a)

Next ==
    \/ \E r \in Request : Proxy(r)
    \/ \E p \in Prober : Probing(p)
    \/ \E a \in Account : UserCommand(a) \/ RevokeToken(a)

Spec == Init /\ [][Next]_vars

-----------------------------------------------------------------------------
(* Correctness *)

\* The selected account is registered, also when it is removed while a
\* request or a probe that would select it is under way (claude_proxy.go:692,
\* monitor.go:249).
ActiveIsRegistered == active \in known \cup {Nobody}

\* An account is marked as rejected only for the token it has now, never for
\* one replaced while the rejection was on its way (claude_proxy.go:692,
\* monitor.go:233).
RejectionBlamesItsToken ==
    \A a \in known : acct[a].error => acct[a].rev \in revoked[a]

\* "A newer probe timestamp stops an in-flight monitor merge from clearing
\* the rejection with its older result" (claude_proxy.go:714).
RejectionOutlivesOlderProbe ==
    [][\A p \in Prober, a \in Account :
           /\ probe[p].pc = "probing" /\ probe'[p].pc = "idle"
           /\ a \in known /\ acct[a].error /\ ~acct'[a].error
           => a \notin touched[p]]_vars

\* "LastProbeStartedAt orders overlapping provider probes so an older result
\* cannot replace a newer snapshot" (state.go:43): as long as an account keeps
\* a token, what is known about it never goes back in time.
ProbesMergeInOrder ==
    [][\A a \in known \cap known' :
           /\ acct'[a].added = acct[a].added
           /\ acct'[a].rev = acct[a].rev /\ acct[a].rev # 0
           => acct'[a].probeAt >= acct[a].probeAt]_vars

\* A probe switches only if nobody has switched since it began, and to an
\* account that has not been removed, added again, given another token or
\* rejected since then (monitor.go:249).
ProbeSwitchesOnCurrentFacts ==
    [][\A p \in Prober :
           /\ probe[p].pc = "probing" /\ probe'[p].pc = "idle"
           /\ active' # active
           => /\ switchedAt < probe[p].started
              /\ active' \notin touched[p]]_vars

\* "A failover becomes the selected route only when the active account is
\* really out of quota or its token is rejected" (claude_proxy.go:358): a
\* request takes the selection away from the account that was selected when it
\* began only if it was told, or read in the state, that this account cannot
\* serve.
FailoverHasCause ==
    [][\A r \in Request :
           /\ req[r].pc = "answered" /\ req'[r].pc # "answered"
           /\ active' # active
           => active \in req[r].excused \cup {Nobody}]_vars

\* "CredentialsError records why the stored credentials were rejected; the
\* account stays unselectable until a fetch succeeds or it is re-captured"
\* (state.go:37).
RejectedStaysUnselectable ==
    \A p \in Prober : \A a \in probe[p].known :
        probe[p].acct[a].error => probe[p].score[a] = Unknown

-----------------------------------------------------------------------------
(* The inductive invariant behind these properties *)

\* A rejection concerns the token it is kept with, wherever it is on its way:
\* in the state, in a reply, in a probe's copy.
RejectionInv ==
    /\ \A a \in Account : acct[a].error => acct[a].rev \in revoked[a]
    /\ \A a \in Account : 0 \notin revoked[a]
    /\ \A r \in Request :
          req[r].pc = "answered" /\ req[r].reply.kind = "unauthorized"
          => req[r].current.rev \in revoked[req[r].current.account]
    /\ \A p \in Prober, a \in Account :
          probe[p].acct[a].error => probe[p].acct[a].rev \in revoked[a]

\* Stamps are not in the future, and a probe is later than all it has read.
StampInv ==
    /\ switchedAt <= time
    /\ \A a \in Account : /\ acct[a].probeAt <= time
                          /\ acct[a].added <= time
                          /\ acct[a].rev <= issued[a]
    /\ \A p \in Prober : probe[p].pc = "probing" =>
          /\ probe[p].started <= time
          /\ probe[p].switchedAt < probe[p].started
          /\ \A a \in probe[p].known :
                /\ probe[p].acct[a].probeAt = probe[p].started
                /\ probe[p].acct[a].added < probe[p].started
                /\ probe[p].acct[a].rev <= issued[a]

\* What the probe copied of account a is out of date, and shows it.
Outdated(P, a) ==
    \/ acct[a].added # P.acct[a].added
    \/ acct[a].rev # P.acct[a].rev
    \/ acct[a].probeAt > P.acct[a].probeAt

\* Whatever happened to an account while it was probed can be seen by the one
\* who merges, unless it had no token and so could not be selected.
TouchInv ==
    \A p \in Prober :
        /\ probe[p].pc = "idle" => touched[p] = {}
        /\ \A a \in probe[p].known :
              probe[p].score[a] # Unknown => probe[p].acct[a].rev # 0
        /\ \A a \in touched[p] \cap known \cap probe[p].known :
              probe[p].acct[a].rev = 0 \/ Outdated(probe[p], a)

\* A request that may still select its route has tried the selected account
\* first: every account it would owe a cause is the one it is at.
SelectionInv ==
    \A r \in Request : LET q == req[r] IN
        /\ q.pc = "lookup" => \A x \in q.found : x.active = (x.account = q.active)
        /\ q.pc \in {"sent", "answered"} /\ q.sticky =>
              \A a \in Account \ q.excused :
                  q.current.active /\ q.current.account = a

RoutingInv ==
    /\ TypeOK
    /\ ActiveIsRegistered
    /\ RejectionInv
    /\ StampInv
    /\ TouchInv
    /\ SelectionInv
=============================================================================
