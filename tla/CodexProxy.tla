----------------------------- MODULE CodexProxy -----------------------------
(***************************************************************************)
(* The local auth proxy of the Codex accounts (codex_proxy.go).  Unlike the *)
(* Claude proxy it takes the logins from the accounts' homes, where the     *)
(* Codex client and its app-server replace them without the state lock; it  *)
(* asks an endpoint of its own for usage, at once after a quota rejection   *)
(* and in the background after a success; and it may spread requests over   *)
(* the accounts.                                                            *)
(*                                                                          *)
(* One action is one section under the state lock or the usage mutex, one   *)
(* reading of the homes, or one answer from upstream.  A login is the       *)
(* number of its revision.                                                  *)
(***************************************************************************)
EXTENDS Naturals, Sequences, FiniteSets

CONSTANTS
    Account,     \* names of accounts
    Request,     \* client connections, each with at most one fetch it left
    Nobody,      \* ActiveAccount = ""
    Level,       \* how used up an account can be, see below
    Balanced,    \* SUBSWAPPER_CODEX_BALANCE=1
    Commands,    \* what the user and the client do in this instance
    MaxLogin,    \* bound: logins ever written for one account
    MaxCommands  \* bound: commands in a behaviour

\* Below the limits, near one, at one; Unknown scores +Inf.
Low == 0
High == 1
Full == 2
Unknown == 3

ASSUME ConstantsAssumption ==
    /\ IsFiniteSet(Account)
    /\ Nobody \notin Account
    /\ Level \subseteq Low..Full
    /\ Balanced \in BOOLEAN
    /\ Commands \subseteq {"switch", "capture", "remove", "refresh", "reset",
                           "revoke"}
    /\ MaxLogin \in Nat \ {0}
    /\ MaxCommands \in Nat

VARIABLES
    active,     \* state: ActiveAccount
    known,      \* state: the registered accounts
    acct,       \* state: AccountState of each of them
    auth,       \* login in each account's home, 0 when there is none
    issued,     \* how many logins each account has been given
    revoked,    \* upstream: logins it rejects
    req,        \* memory of each proxied request
    inFlight,   \* memory: usageInFlight
    fetch,      \* memory: the background fetch a request has left
    commands    \* how many commands have been given

stateFile == <<active, known, acct>>
vars == <<active, known, acct, auth, issued, revoked, req, inFlight, fetch,
          commands>>

Login == 0..MaxLogin
Usage == Level \cup {Unknown}

\* error: CredentialsError is set; backoff: FetchBackoffUntil is set, and may
\* have passed when it is read; fresh: the sample is younger than the TTL.
AccountState == [error : BOOLEAN, backoff : BOOLEAN, level : Usage,
                 fresh : BOOLEAN]
Fresh == [error |-> FALSE, backoff |-> FALSE, level |-> Unknown,
          fresh |-> FALSE]

Route   == [account : Account, login : Login \ {0}, active : BOOLEAN]
NoRoute == [account |-> Nobody, login |-> 0, active |-> FALSE]
Candidate == [account : Account, level : Usage, active : BOOLEAN]

Reply   == [kind : {"ok", "quota", "throttled", "unauthorized"}, level : Usage]
NoReply == [kind |-> "ok", level |-> Unknown]

RequestState ==
    [pc : {"idle", "lookup", "sent", "asking", "answered", "check", "claim"},
     active : Account \cup {Nobody}, found : SUBSET Candidate,
     routes : Seq(Route), current : Route \cup {NoRoute}, sticky : BOOLEAN,
     excused : SUBSET Account, reply : Reply]
Idle == [pc |-> "idle", active |-> Nobody, found |-> {}, routes |-> <<>>,
         current |-> NoRoute, sticky |-> TRUE, excused |-> {},
         reply |-> NoReply]

FetchState == [pc : {"none", "asking", "answered", "done"},
               route : Route \cup {NoRoute}, level : Usage]
NoFetch    == [pc |-> "none", route |-> NoRoute, level |-> Unknown]

TypeOK ==
    /\ active \in Account \cup {Nobody}
    /\ known \subseteq Account
    /\ acct \in [Account -> AccountState]
    /\ auth \in [Account -> Login]
    /\ issued \in [Account -> Login]
    /\ revoked \in [Account -> SUBSET Login]
    /\ req \in [Request -> RequestState]
    /\ inFlight \subseteq Account
    /\ fetch \in [Request -> FetchState]
    /\ commands \in 0..MaxCommands

\* Every account has a login that nothing is known of yet.
Init ==
    /\ active \in Account \cup {Nobody}
    /\ known = Account
    /\ acct = [a \in Account |-> Fresh]
    /\ auth = [a \in Account |-> 1]
    /\ issued = [a \in Account |-> 1]
    /\ revoked = [a \in Account |-> {}]
    /\ req = [r \in Request |-> Idle]
    /\ inFlight = {}
    /\ fetch = [r \in Request |-> NoFetch]
    /\ commands = 0

\* A sample whose windows have reset since counts as empty.
ReadAs(level) == IF level = Unknown THEN {Unknown}
                 ELSE {l \in Level : l <= level}

-----------------------------------------------------------------------------
(* A proxied request *)

\* codexProxyRoutes: an exhausted account comes last, the selected one before
\* its equals, then the less used.  balanceCodexRoutes leaves only the first
\* of these (what it sorts by instead is not modelled).
Rank(x) ==
    (IF x.level = Full THEN 10 ELSE 0)
    + (IF Balanced THEN 0 ELSE (IF x.active THEN 0 ELSE 5) + x.level)

Sorted(found) ==
    {s \in [1..Cardinality(found) -> found] :
        \A i, j \in DOMAIN s : i < j => s[i] # s[j] /\ Rank(s[i]) <= Rank(s[j])}

\* Forward the request along the next route.
Send(r, q) ==
    req' = [req EXCEPT ![r] = [q EXCEPT !.pc = "sent",
                                        !.current = Head(q.routes),
                                        !.routes = Tail(q.routes),
                                        !.reply = NoReply]]

Candidates(barred, read) ==
    {[account |-> a, level |-> read[a], active |-> a = active] :
        a \in known \ barred}

\* codexProxyRoutes up to lock.Release.
ReadState(r) ==
    /\ req[r].pc = "idle"
    /\ fetch[r].pc = "none"
    /\ \E barred \in SUBSET {a \in known : acct[a].error /\ acct[a].backoff},
          read \in [known -> Usage] :
          /\ \A a \in known : read[a] \in ReadAs(acct[a].level)
          /\ req' = [req EXCEPT ![r] =
                        [Idle EXCEPT !.pc = "lookup", !.active = active,
                                     !.found = Candidates(barred, read)]]
    /\ UNCHANGED <<stateFile, auth, issued, revoked, inFlight, fetch, commands>>

\* readCodexProxyCredentials
Loaded(found) == {x \in found : auth[x.account] # 0}

RoutesOf(s) ==
    [i \in DOMAIN s |-> [account |-> s[i].account, login |-> auth[s[i].account],
                         active |-> s[i].active]]

\* The accounts that are exhausted, or no route at all.
Spent(loaded) == Account \ {x.account : x \in {y \in loaded : y.level # Full}}

\* The logins are read from the homes without the lock, here all at once.
\* Without a route the client gets a 503.  What is selected later, by another
\* request or the user, owes nothing to this request.
ReadLogins(r) ==
    /\ req[r].pc = "lookup"
    /\ LET loaded == Loaded(req[r].found) IN
       IF loaded = {}
       THEN req' = [req EXCEPT ![r] = Idle]
       ELSE \E s \in Sorted(loaded) :
               Send(r, [Idle EXCEPT
                          !.routes = RoutesOf(s),
                          !.excused = Spent(loaded) \cup
                                      (Account \ {req[r].active})])
    /\ UNCHANGED <<stateFile, auth, issued, revoked, inFlight, fetch, commands>>

\* Upstream rejects a revoked login, and otherwise serves the request, rejects
\* it for the account's quota (codexQuotaRejected), or throttles it.
Answer(r) ==
    /\ req[r].pc = "sent"
    /\ \E kind \in IF req[r].current.login \in revoked[req[r].current.account]
                   THEN {"unauthorized"} ELSE {"ok", "quota", "throttled"} :
          req' = [req EXCEPT ![r].pc = IF kind = "quota" THEN "asking"
                                                         ELSE "answered",
                             ![r].reply = [NoReply EXCEPT !.kind = kind]]
    /\ UNCHANGED <<stateFile, auth, issued, revoked, inFlight, fetch, commands>>

\* What the usage endpoint can tell about a route; Unknown when it fails.
Told(x) == IF x.login \in revoked[x.account] THEN {Unknown} ELSE Usage

\* "The rejection carries no numbers; ask the usage endpoint".
AskUsage(r) ==
    /\ req[r].pc = "asking"
    /\ \E level \in Told(req[r].current) :
          req' = [req EXCEPT ![r].pc = "answered", ![r].reply.level = level]
    /\ UNCHANGED <<stateFile, auth, issued, revoked, inFlight, fetch, commands>>

\* Upstream cannot be reached, or the client hangs up.
GiveUp(r) ==
    /\ req[r].pc = "sent"
    /\ req' = [req EXCEPT ![r] = Idle]
    /\ UNCHANGED <<stateFile, auth, issued, revoked, inFlight, fetch, commands>>

\* Mutant: a throttled request moves the selection like a rejected one.
ThrottleMovesOn(q) == FALSE

\* What the proxy makes of a reply (ServeHTTP).
Retries(q)    == q.reply.kind # "ok" /\ q.routes # <<>>
SwitchesTo(q) == q.reply.kind = "ok" /\ q.sticky
StaysPut(q)   == q.current.active /\ q.reply.kind = "throttled"

\* The account as recordCodexProxyObservation leaves it.
Observed(a, kind, level) ==
    LET sampled == level # Unknown
        told    == IF sampled
                   THEN [acct[a] EXCEPT !.level = level, !.fresh = TRUE]
                   ELSE acct[a]
    IN CASE kind = "unauthorized" -> [told EXCEPT !.error = TRUE, !.backoff = TRUE]
         [] kind # "unauthorized" /\ sampled /\ acct[a].error ->
                [told EXCEPT !.error = FALSE, !.backoff = FALSE]
         [] OTHER -> told

\* Mutant: the account is not looked up again.
ObserveUnchecked(a, kind, level, switchTo) ==
    /\ acct' = [acct EXCEPT ![a] = Observed(a, kind, level)]
    /\ active' = IF switchTo THEN a ELSE active
    /\ UNCHANGED known

\* recordCodexProxyObservation, refused when the account is gone.
Observe(a, kind, level, switchTo) ==
    /\ a \in known
    /\ acct' = [acct EXCEPT ![a] = Observed(a, kind, level)]
    /\ active' = IF switchTo THEN a ELSE active
    /\ UNCHANGED known

\* A reply is recorded, if it can be, and passed on to the client, after a
\* look at the account's usage if it was a success, or followed by a retry.
Record(r) ==
    /\ req[r].pc = "answered"
    /\ \/ Observe(req[r].current.account, req[r].reply.kind, req[r].reply.level,
                  SwitchesTo(req[r]))
       \/ UNCHANGED stateFile
    /\ LET q == [req[r] EXCEPT
                    !.sticky = @ /\ ~StaysPut(req[r]),
                    !.excused = IF req[r].reply.kind \in {"quota", "unauthorized"}
                                THEN @ \cup {req[r].current.account} ELSE @]
       IN CASE Retries(q)          -> Send(r, q)
            [] q.reply.kind = "ok" -> req' = [req EXCEPT ![r] =
                                        [Idle EXCEPT !.pc = "check",
                                                     !.current = q.current]]
            [] OTHER               -> req' = [req EXCEPT ![r] = Idle]
    /\ UNCHANGED <<auth, issued, revoked, inFlight, fetch, commands>>

-----------------------------------------------------------------------------
(* Usage in the background (refreshUsageIfStale) *)

\* Under the state lock: the account is known and has no fresh sample.
CheckUsage(r) ==
    /\ req[r].pc = "check"
    /\ LET a == req[r].current.account IN
       IF a \in known /\ ~acct[a].fresh
       THEN req' = [req EXCEPT ![r].pc = "claim"]
       ELSE req' = [req EXCEPT ![r] = Idle]
    /\ UNCHANGED <<stateFile, auth, issued, revoked, inFlight, fetch, commands>>

\* Mutant: the mark is set without a look at it.
ClaimUnchecked(r) ==
    /\ req[r].pc = "claim"
    /\ inFlight' = inFlight \cup {req[r].current.account}
    /\ fetch' = [fetch EXCEPT ![r] = [NoFetch EXCEPT
                    !.pc = "asking", !.route = req[r].current]]
    /\ req' = [req EXCEPT ![r] = Idle]
    /\ UNCHANGED <<stateFile, auth, issued, revoked, commands>>

\* Under usageMu: nobody else is asking.
Claim(r) ==
    /\ req[r].pc = "claim"
    /\ LET a == req[r].current.account IN
       IF a \in inFlight
       THEN UNCHANGED <<inFlight, fetch>>
       ELSE /\ inFlight' = inFlight \cup {a}
            /\ fetch' = [fetch EXCEPT ![r] = [NoFetch EXCEPT
                            !.pc = "asking", !.route = req[r].current]]
    /\ req' = [req EXCEPT ![r] = Idle]
    /\ UNCHANGED <<stateFile, auth, issued, revoked, commands>>

\* The endpoint answers within codexProxyUsageFetchWindow or fails.
FetchUsage(r) ==
    /\ fetch[r].pc = "asking"
    /\ \E level \in Told(fetch[r].route) :
          fetch' = [fetch EXCEPT ![r].pc = IF level = Unknown THEN "done"
                                                              ELSE "answered",
                                 ![r].level = level]
    /\ UNCHANGED <<stateFile, auth, issued, revoked, req, inFlight, commands>>

RecordFetch(r) ==
    /\ fetch[r].pc = "answered"
    /\ \/ Observe(fetch[r].route.account, "fetch", fetch[r].level, FALSE)
       \/ UNCHANGED stateFile
    /\ fetch' = [fetch EXCEPT ![r].pc = "done"]
    /\ UNCHANGED <<auth, issued, revoked, req, inFlight, commands>>

\* The deferred delete.
Unmark(r) ==
    /\ fetch[r].pc = "done"
    /\ inFlight' = inFlight \ {fetch[r].route.account}
    /\ fetch' = [fetch EXCEPT ![r] = NoFetch]
    /\ UNCHANGED <<stateFile, auth, issued, revoked, req, commands>>

\* A sample outlives the TTL.
Age(a) ==
    /\ acct[a].fresh
    /\ acct' = [acct EXCEPT ![a].fresh = FALSE]
    /\ UNCHANGED <<active, known, auth, issued, revoked, req, inFlight, fetch,
                   commands>>

-----------------------------------------------------------------------------
(* What the user, the client and the provider do meanwhile *)

Command(name) ==
    /\ name \in Commands
    /\ commands < MaxCommands
    /\ commands' = commands + 1
    /\ UNCHANGED <<req, inFlight, fetch>>

\* SwitchAccount
SwitchAccount(a) ==
    /\ Command("switch")
    /\ a \in known
    /\ active # a
    /\ active' = a
    /\ UNCHANGED <<known, acct, auth, issued, revoked>>

\* The home of account a gets another login.
NewLogin(a) ==
    /\ issued[a] < MaxLogin
    /\ issued' = [issued EXCEPT ![a] = @ + 1]
    /\ auth' = [auth EXCEPT ![a] = issued'[a]]

\* CaptureAccount: the runtime home's login, for an account that is new or is
\* captured again.
CaptureAccount(a) ==
    /\ Command("capture")
    /\ NewLogin(a)
    /\ known' = known \cup {a}
    /\ acct' = [acct EXCEPT ![a] = Fresh]
    /\ active' = a
    /\ UNCHANGED revoked

\* RemoveAccountWithOptions, with -delete-home or without it.
RemoveAccount(a) ==
    /\ Command("remove")
    /\ a \in known
    /\ known' = known \ {a}
    /\ acct' = [acct EXCEPT ![a] = Fresh]
    /\ active' = IF active = a THEN Nobody ELSE active
    /\ auth' \in {auth, [auth EXCEPT ![a] = 0]}
    /\ UNCHANGED <<issued, revoked>>

\* Codex, or the monitor's app-server probe, refreshes the login in a home, or
\* the user logs in there.
RefreshLogin(a) ==
    /\ Command("refresh")
    /\ auth[a] # 0
    /\ NewLogin(a)
    /\ UNCHANGED <<stateFile, revoked>>

\* ResetAccountProbeState, after such a login.
ResetProbeState(a) ==
    /\ Command("reset")
    /\ a \in known
    /\ acct' = [acct EXCEPT ![a].error = FALSE, ![a].backoff = FALSE]
    /\ UNCHANGED <<active, known, auth, issued, revoked>>

\* The provider stops accepting a login.
RevokeLogin(a) ==
    /\ Command("revoke")
    /\ \E login \in 1..issued[a] :
          /\ login \notin revoked[a]
          /\ revoked' = [revoked EXCEPT ![a] = @ \cup {login}]
    /\ UNCHANGED <<stateFile, auth, issued>>

-----------------------------------------------------------------------------
Proxy(r) ==
    \/ ReadState(r) \/ ReadLogins(r) \/ Answer(r) \/ AskUsage(r)
    \/ GiveUp(r) \/ Record(r) \/ CheckUsage(r) \/ Claim(r)

Fetching(r) == FetchUsage(r) \/ RecordFetch(r) \/ Unmark(r)

UserCommand(a) ==
    \/ SwitchAccount(a) \/ CaptureAccount(a) \/ RemoveAccount(a)
    \/ RefreshLogin(a) \/ ResetProbeState(a) \/ RevokeLogin(a)

Next ==
    \/ \E r \in Request : Proxy(r) \/ Fetching(r)
    \/ \E a \in Account : UserCommand(a) \/ Age(a)

Spec == Init /\ [][Next]_vars

-----------------------------------------------------------------------------
(* Correctness *)

\* The selected account is registered, also when it is removed while a
\* request that would select it is under way (codex_proxy.go:871).
ActiveIsRegistered == active \in known \cup {Nobody}

\* Background fetches and their marks belong together: no two fetches are
\* about one account, none goes on without its mark, and no mark is left by a
\* fetch that has ended (codex_proxy.go:835).
FetchesAreMarked ==
    LET Fetchers == {r \in Request : fetch[r].pc # "none"} IN
    /\ inFlight = {fetch[r].route.account : r \in Fetchers}
    /\ \A r, s \in Fetchers :
          r # s => fetch[r].route.account # fetch[s].route.account

\* "Only a quota rejection or a dead token on the active account makes the
\* fallback the selected route" (codex_proxy.go:459): a request takes the
\* selection away from the account that was selected when it began only if it
\* was told, or read in the state, that this account cannot serve.
FailoverHasCause ==
    [][\A r \in Request :
           /\ req[r].pc = "answered" /\ req'[r].pc # "answered"
           /\ active' # active
           => active \in req[r].excused \cup {Nobody}]_vars

-----------------------------------------------------------------------------
(* The inductive invariant behind these properties *)

\* A request that has been sent remembers the route it was sent along.  Unless
\* requests are spread, one that may still select its route has tried the
\* selected account first: every account it would owe a cause is the one it
\* is at.
RequestInv ==
    \A r \in Request : LET q == req[r] IN
        /\ IsFiniteSet(q.found)
        /\ q.pc = "lookup" => \A x \in q.found : x.active = (x.account = q.active)
        /\ q.pc \notin {"idle", "lookup"} => q.current \in Route
        /\ ~Balanced /\ q.pc \in {"sent", "asking", "answered"} /\ q.sticky =>
              \A a \in Account \ q.excused :
                  q.current.active /\ q.current.account = a

\* A connection asks for usage only between two requests, about the route of
\* the first.
FetchInv ==
    \A r \in Request :
        fetch[r].pc # "none" => fetch[r].route \in Route /\ req[r].pc = "idle"

ProxyInv ==
    TypeOK /\ ActiveIsRegistered /\ FetchesAreMarked /\ RequestInv /\ FetchInv
=============================================================================
