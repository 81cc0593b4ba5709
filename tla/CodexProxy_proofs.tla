------------------------- MODULE CodexProxy_proofs -------------------------
(***************************************************************************)
(* Proofs about CodexProxy: its inductive invariant ProxyInv, the three    *)
(* invariants that are parts of it, and that a failover has a cause.       *)
(***************************************************************************)
EXTENDS CodexProxy, TLAPS, FiniteSetTheorems, SequenceTheorems

-----------------------------------------------------------------------------
(* Operators *)

\* The constants that requests, fetches and accounts start from.
LEMMA StartTypes ==
  /\ NoReply \in Reply
  /\ Idle \in RequestState
  /\ NoFetch \in FetchState
  /\ Fresh \in AccountState
<1>1. NoReply \in Reply
  BY DEF NoReply, Reply, Usage
<1>2. <<>> \in Seq(Route)
  BY EmptySeq
<1>3. Idle \in RequestState
  BY <1>1, <1>2 DEF Idle, RequestState
<1>4. NoFetch \in FetchState
  BY DEF NoFetch, FetchState, Usage
<1>5. Fresh \in AccountState
  BY DEF Fresh, AccountState, Usage
<1>6. QED
  BY <1>1, <1>3, <1>4, <1>5

\* What is recorded of an account is an account.
LEMMA ObservedType ==
  ASSUME TypeOK, NEW a \in Account, NEW kind, NEW level \in Usage
  PROVE  Observed(a, kind, level) \in AccountState
<1>1. acct[a] \in AccountState
  BY DEF TypeOK
<1>2. [acct[a] EXCEPT !.level = level, !.fresh = TRUE] \in AccountState
  BY <1>1 DEF AccountState
<1>3. QED
  BY <1>1, <1>2 DEF Observed, AccountState

\* A request finds finitely many accounts, and knows which one is selected.
LEMMA CandidatesFound ==
  ASSUME TypeOK, NEW barred, NEW read \in [known -> Usage]
  PROVE  /\ Candidates(barred, read) \in SUBSET Candidate
         /\ IsFiniteSet(Candidates(barred, read))
         /\ \A x \in Candidates(barred, read) : x.active = (x.account = active)
<1> DEFINE D == known \ barred
           f == [a \in D |->
                   [account |-> a, level |-> read[a], active |-> a = active]]
           T == Candidates(barred, read)
<1>1. IsFiniteSet(D)
  BY ConstantsAssumption, FS_Subset DEF TypeOK
<1>2. f \in Surjection(D, T)
  BY DEF Surjection, Candidates
<1>3. IsFiniteSet(T)
  BY <1>1, <1>2, FS_Surjection
<1>4. ASSUME NEW x \in T
      PROVE  x \in Candidate /\ x.active = (x.account = active)
  <2>1. PICK a \in D : x = [account |-> a, level |-> read[a],
                            active |-> a = active]
    BY DEF Candidates
  <2>2. a \in Account /\ read[a] \in Usage
    BY DEF TypeOK
  <2>3. QED
    BY <2>1, <2>2 DEF Candidate
<1>5. QED
  BY <1>3, <1>4

\* Sorting a finite, non-empty set of candidates gives a sequence of all of
\* them, which begins with one of the lowest rank.
LEMMA SortedBeginsLowest ==
  ASSUME NEW S \in SUBSET Candidate, IsFiniteSet(S), S # {}, NEW s \in Sorted(S)
  PROVE  /\ s \in Seq(S) /\ s # <<>> /\ Len(s) \in Nat \ {0}
         /\ DOMAIN s = 1..Len(s)
         /\ \A x \in S : x = s[1] \/ Rank(s[1]) <= Rank(x)
<1> DEFINE n == Cardinality(S)
<1>1. n \in Nat \ {0}
  BY FS_CardinalityType, FS_EmptySet
<1>2. s \in [1..n -> S] /\ DOMAIN s = 1..n
  BY DEF Sorted
<1>3. s \in Seq(S) /\ s # <<>> /\ Len(s) = n
  BY <1>1, <1>2
<1>4. \A i, j \in 1..n : i < j => s[i] # s[j] /\ Rank(s[i]) <= Rank(s[j])
  BY <1>2 DEF Sorted
<1>5. \A x \in S : \E i \in 1..n : s[i] = x
  <2>1. IsFiniteSet(1..n) /\ Cardinality(1..n) = n
    BY <1>1, FS_Interval
  <2>2. s \in Injection(1..n, S)
    <3>1. \A i, j \in 1..n : s[i] = s[j] => i = j
      BY <1>1, <1>4
    <3>2. QED
      BY <1>2, <3>1 DEF Injection, IsInjective
  <2>3. s \in Surjection(1..n, S)
    BY <2>1, <2>2, FS_Injection
  <2>4. QED
    BY <1>2, <2>3 DEF Surjection
<1>6. ASSUME NEW x \in S
      PROVE  x = s[1] \/ Rank(s[1]) <= Rank(x)
  <2>1. PICK i \in 1..n : s[i] = x
    BY <1>5
  <2>2. i = 1 \/ (1 \in 1..n /\ 1 < i)
    BY <1>1
  <2>3. QED
    BY <1>4, <2>1, <2>2
<1>7. QED
  BY <1>1, <1>2, <1>3, <1>6

\* The routes are those of the sorted candidates that have a login.
LEMMA RoutesType ==
  ASSUME TypeOK, NEW S \in SUBSET Candidate, NEW s \in Seq(Loaded(S)), s # <<>>
  PROVE  /\ RoutesOf(s) \in Seq(Route) /\ RoutesOf(s) # <<>>
         /\ Head(RoutesOf(s)).account = s[1].account
         /\ Head(RoutesOf(s)).active = s[1].active
<1>1. \A i \in 1..Len(s) :
         [account |-> s[i].account, login |-> auth[s[i].account],
          active |-> s[i].active] \in Route
  <2>1. SUFFICES ASSUME NEW i \in 1..Len(s)
                 PROVE  [account |-> s[i].account, login |-> auth[s[i].account],
                         active |-> s[i].active] \in Route
    OBVIOUS
  <2>2. s[i] \in Candidate /\ auth[s[i].account] # 0
    BY DEF Loaded
  <2>3. auth[s[i].account] \in Login \ {0}
    BY <2>2 DEF TypeOK, Candidate
  <2>4. QED
    BY <2>2, <2>3 DEF Candidate, Route
<1>2. DOMAIN s = 1..Len(s) /\ Len(s) \in Nat \ {0}
  BY EmptySeq
<1>3. RoutesOf(s) \in [1..Len(s) -> Route]
  BY <1>1, <1>2 DEF RoutesOf
<1>4. RoutesOf(s) \in Seq(Route) /\ Len(RoutesOf(s)) = Len(s)
  BY <1>2, <1>3
<1>5. RoutesOf(s) # <<>> /\ Head(RoutesOf(s)) = RoutesOf(s)[1]
  BY <1>2, <1>4
<1>6. QED
  BY <1>2, <1>4, <1>5 DEF RoutesOf

\* Unless requests are spread, the selected account comes first when it is not
\* used up.
LEMMA SelectedComesFirst ==
  ASSUME ~Balanced, NEW S \in SUBSET Candidate, IsFiniteSet(S),
         NEW selected, \A x \in S : x.active = (x.account = selected),
         NEW s \in Sorted(S), S # {},
         NEW a \in Account \ (Spent(S) \cup (Account \ {selected}))
  PROVE  s[1].active /\ s[1].account = a
<1>1. PICK x \in S : x.account = a /\ x.level # Full /\ x.active
  BY DEF Spent
<1>2. x.level \in {Low, High, Full, Unknown} /\ s[1].level \in {Low, High, Full, Unknown}
      /\ s[1] \in S
  BY SortedBeginsLowest, ConstantsAssumption
  DEF Candidate, Usage, Low, High, Full, Unknown
<1>3. Rank(x) <= 3
  BY <1>1, <1>2 DEF Rank, Low, High, Full, Unknown
<1>4. x = s[1] \/ Rank(s[1]) <= 3
  <2>1. x = s[1] \/ Rank(s[1]) <= Rank(x)
    BY SortedBeginsLowest
  <2>2. Rank(x) \in Nat /\ Rank(s[1]) \in Nat
    BY <1>2 DEF Rank, Low, High, Full, Unknown
  <2>3. QED
    BY <1>3, <2>1, <2>2
<1>5. s[1].active
  BY <1>1, <1>2, <1>4 DEF Rank, Low, High, Full, Unknown
<1>6. QED
  BY <1>2, <1>5

-----------------------------------------------------------------------------
(* Requests *)

RequestOK(q) ==
    /\ q \in RequestState
    /\ IsFiniteSet(q.found)
    /\ q.pc = "lookup" => \A x \in q.found : x.active = (x.account = q.active)
    /\ q.pc \notin {"idle", "lookup"} => q.current \in Route
    /\ ~Balanced /\ q.pc \in {"sent", "asking", "answered"} /\ q.sticky =>
          \A a \in Account \ q.excused : q.current.active /\ q.current.account = a

\* Request r goes on to n.
Becomes(r, n) == req' = [req EXCEPT ![r] = n]

LEMMA IdleIsOK == RequestOK(Idle) /\ Idle.pc = "idle"
BY StartTypes, FS_EmptySet DEF RequestOK, Idle

\* What is sent along the next route remembers it.
LEMMA SendIsOK ==
  ASSUME TypeOK, NEW r \in Request, NEW q \in RequestState, Send(r, q),
         q.routes # <<>>, IsFiniteSet(q.found),
         ~Balanced /\ q.sticky =>
            \A a \in Account \ q.excused :
                Head(q.routes).active /\ Head(q.routes).account = a
  PROVE  \E n : RequestOK(n) /\ n.pc = "sent" /\ Becomes(r, n)
<1> DEFINE n == [q EXCEPT !.pc = "sent", !.current = Head(q.routes),
                          !.routes = Tail(q.routes), !.reply = NoReply]
<1>1. Head(q.routes) \in Route /\ Tail(q.routes) \in Seq(Route)
  BY HeadTailProperties DEF RequestState
<1>2. /\ n \in RequestState /\ n.found = q.found /\ n.pc = "sent"
      /\ n.current = Head(q.routes) /\ n.sticky = q.sticky
      /\ n.excused = q.excused
  BY <1>1, StartTypes DEF RequestState
<1>3. Becomes(r, n)
  BY DEF Send, Becomes
<1> HIDE DEF n
<1>4. RequestOK(n)
  BY <1>1, <1>2 DEF RequestOK
<1>5. QED
  BY <1>2, <1>3, <1>4

LEMMA ReadLoginsIsOK ==
  ASSUME TypeOK, NEW r \in Request, RequestOK(req[r]), ReadLogins(r)
  PROVE  \E n : RequestOK(n) /\ Becomes(r, n)
<1> DEFINE q == req[r]
           S == Loaded(q.found)
<1>1. S \in SUBSET Candidate /\ IsFiniteSet(S)
      /\ \A x \in S : x.active = (x.account = q.active)
  BY FS_Subset DEF Loaded, RequestOK, RequestState, ReadLogins
<1>2. CASE S = {}
  BY <1>2, IdleIsOK DEF ReadLogins, Becomes
<1>3. CASE S # {}
  <2>1. PICK s \in Sorted(S) :
          Send(r, [Idle EXCEPT !.routes = RoutesOf(s),
                               !.excused = Spent(S) \cup (Account \ {q.active})])
    BY <1>3 DEF ReadLogins
  <2> DEFINE m == [Idle EXCEPT !.routes = RoutesOf(s),
                               !.excused = Spent(S) \cup (Account \ {q.active})]
  <2>2. s \in Seq(S) /\ s # <<>>
    BY <1>1, <1>3, SortedBeginsLowest
  <2>3. /\ RoutesOf(s) \in Seq(Route) /\ RoutesOf(s) # <<>>
        /\ Head(RoutesOf(s)).account = s[1].account
        /\ Head(RoutesOf(s)).active = s[1].active
    BY <2>2, RoutesType DEF RequestOK, RequestState
  <2>4. /\ m \in RequestState /\ m.found = {} /\ m.routes = RoutesOf(s)
        /\ m.excused = Spent(S) \cup (Account \ {q.active})
    BY <2>3, StartTypes DEF RequestState, Idle, Spent
  <2>5. ~Balanced => \A a \in Account \ m.excused :
                        s[1].active /\ s[1].account = a
    BY <1>1, <1>3, <2>4, SelectedComesFirst
  <2>6. Send(r, m)
    BY <2>1
  <2> HIDE DEF m
  <2>7. QED
    BY <2>3, <2>4, <2>5, <2>6, SendIsOK, FS_EmptySet
<1>4. QED
  BY <1>2, <1>3

LEMMA RecordIsOK ==
  ASSUME TypeOK, NEW r \in Request, RequestOK(req[r]), Record(r)
  PROVE  \E n : RequestOK(n) /\ Becomes(r, n)
<1> DEFINE p == req[r]
           q == [p EXCEPT
                    !.sticky = @ /\ ~StaysPut(p),
                    !.excused = IF p.reply.kind \in {"quota", "unauthorized"}
                                THEN @ \cup {p.current.account} ELSE @]
<1>1. p \in RequestState /\ p.pc = "answered" /\ p.current \in Route
  BY DEF RequestOK, Record
<1>2. /\ q \in RequestState /\ q.found = p.found /\ q.routes = p.routes
      /\ q.current = p.current /\ q.reply = p.reply
      /\ q.sticky = (p.sticky /\ ~StaysPut(p))
      /\ q.excused = IF p.reply.kind \in {"quota", "unauthorized"}
                     THEN p.excused \cup {p.current.account} ELSE p.excused
  BY <1>1 DEF RequestState, Route
<1>3. CASE Becomes(r, Idle)
  BY <1>3, IdleIsOK
<1>4. CASE Retries(q) /\ Send(r, q)
  <2>1. q.routes # <<>> /\ q.reply.kind # "ok"
    BY <1>4 DEF Retries
  <2> HIDE DEF q
  <2>2. ~Balanced /\ q.sticky => Account \ q.excused = {}
    <3>1. SUFFICES ASSUME ~Balanced, q.sticky, NEW a \in Account \ q.excused
                   PROVE  FALSE
      OBVIOUS
    <3>2. a \in Account \ p.excused /\ p.sticky
      BY <1>2, <3>1
    <3>3. p.current.active /\ p.current.account = a
      BY <1>1, <3>1, <3>2 DEF RequestOK
    <3>4. p.reply.kind = "throttled"
      <4>1. p.reply.kind # "ok" /\ p.reply.kind \notin {"quota", "unauthorized"}
        BY <1>2, <2>1, <3>1, <3>3
      <4>2. p.reply.kind \in {"ok", "quota", "throttled", "unauthorized"}
        BY <1>1 DEF RequestState, Reply
      <4>3. QED
        BY <4>1, <4>2
    <3>5. QED
      BY <1>2, <3>1, <3>3, <3>4 DEF StaysPut
  <2>3. IsFiniteSet(q.found)
    BY <1>2 DEF RequestOK
  <2>4. QED
    BY <1>2, <1>4, <2>1, <2>2, <2>3, SendIsOK
<1>5. CASE Becomes(r, [Idle EXCEPT !.pc = "check", !.current = q.current])
  <2> DEFINE n == [Idle EXCEPT !.pc = "check", !.current = q.current]
  <2>1. q.current \in Route
    BY <1>1, <1>2
  <2>2. Idle \in RequestState /\ IsFiniteSet(Idle.found)
    BY IdleIsOK DEF RequestOK
  <2> HIDE DEF q
  <2>3. /\ n \in RequestState /\ n.pc = "check" /\ n.current = q.current
        /\ n.found = Idle.found
    BY <2>1, <2>2 DEF RequestState
  <2>4. Becomes(r, n)
    BY <1>5
  <2> HIDE DEF n
  <2>5. RequestOK(n)
    BY <2>1, <2>2, <2>3 DEF RequestOK
  <2>6. QED
    BY <2>4, <2>5
<1>6. QED
  BY <1>3, <1>4, <1>5 DEF Record, Becomes

\* Every step of the proxy replaces one request by a sound one.
LEMMA ProxyRequest ==
  ASSUME TypeOK, NEW r \in Request, RequestOK(req[r]), Proxy(r)
  PROVE  \E n : RequestOK(n) /\ Becomes(r, n)
<1> DEFINE q == req[r]
<1>1. q \in RequestState /\ req \in [Request -> RequestState]
  BY DEF RequestOK, TypeOK
<1>2. CASE ReadState(r)
  <2>1. PICK barred \in SUBSET known, read \in [known -> Usage] :
          Becomes(r, [Idle EXCEPT !.pc = "lookup", !.active = active,
                                  !.found = Candidates(barred, read)])
    BY <1>2 DEF ReadState, Becomes
  <2> DEFINE n == [Idle EXCEPT !.pc = "lookup", !.active = active,
                               !.found = Candidates(barred, read)]
  <2>2. /\ n \in RequestState /\ n.pc = "lookup" /\ n.active = active
        /\ n.found = Candidates(barred, read)
    BY CandidatesFound, StartTypes DEF RequestState, TypeOK
  <2>3. Becomes(r, n)
    BY <2>1
  <2> HIDE DEF n
  <2>4. RequestOK(n)
    BY <2>2, CandidatesFound DEF RequestOK
  <2>5. QED
    BY <2>3, <2>4
<1>3. CASE ReadLogins(r)
  BY <1>3, ReadLoginsIsOK
<1>4. CASE Answer(r)
  <2>1. PICK kind \in {"unauthorized", "ok", "quota", "throttled"},
             pc \in {"asking", "answered"} :
          req' = [req EXCEPT ![r].pc = pc,
                             ![r].reply = [NoReply EXCEPT !.kind = kind]]
    BY <1>4 DEF Answer
  <2> DEFINE n == [q EXCEPT !.pc = pc, !.reply = [NoReply EXCEPT !.kind = kind]]
  <2>2. [NoReply EXCEPT !.kind = kind] \in Reply
    BY StartTypes DEF Reply
  <2>3. /\ n \in RequestState /\ n.pc = pc /\ n.found = q.found
        /\ n.current = q.current /\ n.sticky = q.sticky
        /\ n.excused = q.excused
    BY <1>1, <2>2 DEF RequestState
  <2>4. Becomes(r, n)
    BY <1>1, <2>1 DEF Becomes, RequestState
  <2>5. q.pc = "sent"
    BY <1>4 DEF Answer
  <2> HIDE DEF n
  <2>6. RequestOK(n)
    BY <2>3, <2>5 DEF RequestOK
  <2>7. QED
    BY <2>4, <2>6
<1>5. CASE AskUsage(r)
  <2>1. PICK level \in Usage :
          req' = [req EXCEPT ![r].pc = "answered", ![r].reply.level = level]
    BY <1>5 DEF AskUsage, Told, Usage
  <2> DEFINE n == [q EXCEPT !.pc = "answered",
                            !.reply = [@ EXCEPT !.level = level]]
  <2>2. [q.reply EXCEPT !.level = level] \in Reply
    BY <1>1 DEF Reply, RequestState
  <2>3. /\ n \in RequestState /\ n.pc = "answered" /\ n.found = q.found
        /\ n.current = q.current /\ n.sticky = q.sticky
        /\ n.excused = q.excused
    BY <1>1, <2>2 DEF RequestState
  <2>4. Becomes(r, n)
    BY <1>1, <2>1 DEF Becomes, RequestState
  <2>5. q.pc = "asking"
    BY <1>5 DEF AskUsage
  <2> HIDE DEF n
  <2>6. RequestOK(n)
    BY <2>3, <2>5 DEF RequestOK
  <2>7. QED
    BY <2>4, <2>6
<1>6. CASE GiveUp(r) \/ Claim(r)
  BY <1>6, IdleIsOK DEF GiveUp, Claim, Becomes
<1>7. CASE Record(r)
  BY <1>7, RecordIsOK
<1>8. CASE CheckUsage(r)
  <2>1. CASE Becomes(r, Idle)
    BY <2>1, IdleIsOK
  <2>2. CASE req' = [req EXCEPT ![r].pc = "claim"]
    <3> DEFINE n == [q EXCEPT !.pc = "claim"]
    <3>1. /\ n \in RequestState /\ n.pc = "claim" /\ n.found = q.found
          /\ n.current = q.current
      BY <1>1 DEF RequestState
    <3>2. Becomes(r, n)
      BY <1>1, <2>2 DEF Becomes
    <3>3. q.pc = "check"
      BY <1>8 DEF CheckUsage
    <3> HIDE DEF n
    <3>4. RequestOK(n)
      BY <3>1, <3>3 DEF RequestOK
    <3>5. QED
      BY <3>2, <3>4
  <2>3. QED
    BY <1>8, <2>1, <2>2 DEF CheckUsage, Becomes
<1>9. QED
  BY <1>2, <1>3, <1>4, <1>5, <1>6, <1>7, <1>8 DEF Proxy

-----------------------------------------------------------------------------
(* The state file and the marks *)

\* What the state file has to be, apart from requests and fetches.
StateOK ==
    /\ active \in known \cup {Nobody}
    /\ known \subseteq Account
    /\ acct \in [Account -> AccountState]

HomesOK ==
    /\ auth \in [Account -> Login]
    /\ issued \in [Account -> Login]
    /\ revoked \in [Account -> SUBSET Login]
    /\ commands \in 0..MaxCommands

MarksOK ==
    /\ inFlight \subseteq Account
    /\ fetch \in [Request -> FetchState]
    /\ FetchesAreMarked
    /\ FetchInv

RequestsOK ==
    /\ req \in [Request -> RequestState]
    /\ \A r \in Request : RequestOK(req[r])

LEMMA ProxyInvParts ==
  ProxyInv <=> StateOK /\ HomesOK /\ MarksOK /\ RequestsOK
<1>1. ProxyInv => StateOK /\ HomesOK /\ MarksOK /\ RequestsOK
  BY DEF ProxyInv, TypeOK, ActiveIsRegistered, StateOK, HomesOK, MarksOK,
         RequestsOK, RequestInv, RequestOK
<1>2. StateOK /\ HomesOK /\ MarksOK /\ RequestsOK => ProxyInv
  BY DEF ProxyInv, TypeOK, ActiveIsRegistered, StateOK, HomesOK, MarksOK,
         RequestsOK, RequestInv, RequestOK
<1>3. QED
  BY <1>1, <1>2

LEMMA PartsMakeNextInv ==
  ASSUME StateOK', HomesOK', MarksOK', RequestsOK'
  PROVE  ProxyInv'
BY DEF ProxyInv, TypeOK, ActiveIsRegistered, StateOK, HomesOK, MarksOK,
       RequestsOK, RequestInv, RequestOK

\* Nothing is recorded about an account that is gone, and none such is selected.
LEMMA ObserveKeepsState ==
  ASSUME ProxyInv, NEW a \in Account, NEW kind, NEW level \in Usage,
         NEW switchTo, Observe(a, kind, level, switchTo)
  PROVE  StateOK'
<1>1. Observed(a, kind, level) \in AccountState
  BY ObservedType DEF ProxyInv
<1>2. QED
  BY <1>1 DEF Observe, StateOK, ProxyInv, TypeOK, ActiveIsRegistered

\* A step that leaves the fetches alone leaves their marks right, as long as
\* no request begins while its connection has a fetch.
LEMMA MarksAreKept ==
  ASSUME ProxyInv, UNCHANGED <<inFlight, fetch>>,
         \A r \in Request : fetch[r].pc # "none" => req'[r].pc = "idle"
  PROVE  MarksOK'
BY DEF MarksOK, ProxyInv, TypeOK, FetchesAreMarked, FetchInv

LEMMA ProxyKeepsInv ==
  ASSUME ProxyInv, NEW r \in Request, Proxy(r)
  PROVE  ProxyInv'
<1>1. PICK n : RequestOK(n) /\ Becomes(r, n)
  BY ProxyInvParts, ProxyRequest DEF ProxyInv, RequestsOK
<1>2. RequestsOK'
  BY <1>1, ProxyInvParts DEF RequestsOK, Becomes, RequestOK
<1>3. HomesOK'
  <2>1. UNCHANGED <<auth, issued, revoked, commands>>
    BY DEF Proxy, ReadState, ReadLogins, Answer, AskUsage, GiveUp, Record,
           CheckUsage, Claim
  <2>2. QED
    BY <2>1, ProxyInvParts DEF HomesOK
<1>4. StateOK'
  <2>1. CASE UNCHANGED stateFile
    BY <2>1, ProxyInvParts DEF stateFile, StateOK
  <2>2. CASE Record(r) /\ Observe(req[r].current.account, req[r].reply.kind,
                                  req[r].reply.level, SwitchesTo(req[r]))
    <3>1. req[r].current.account \in Account /\ req[r].reply.level \in Usage
      BY <2>2, ProxyInvParts
      DEF Record, RequestsOK, RequestOK, RequestState, Reply, Route
    <3>2. QED
      BY <2>2, <3>1, ObserveKeepsState
  <2>3. QED
    BY <2>1, <2>2
    DEF Proxy, ReadState, ReadLogins, Answer, AskUsage, GiveUp, Record,
        CheckUsage, Claim
<1>5. MarksOK'
  <2>1. req \in [Request -> RequestState]
    BY DEF ProxyInv, TypeOK
  <2>2. CASE Claim(r)
    <3> DEFINE a == req[r].current.account
    <3>1. fetch[r].pc = "none" /\ req[r].current \in Route /\ a \in Account
      BY <2>2, ProxyInvParts
      DEF Claim, ProxyInv, FetchInv, RequestsOK, RequestOK, Route
    <3>2. req' = [req EXCEPT ![r] = Idle] /\ Idle.pc = "idle"
      BY <2>2 DEF Claim, Idle
    <3>3. CASE a \in inFlight
      BY <2>1, <2>2, <3>2, <3>3, MarksAreKept DEF Claim, ProxyInv, FetchInv
    <3>4. CASE a \notin inFlight
      <4> DEFINE f == [NoFetch EXCEPT !.pc = "asking", !.route = req[r].current]
      <4>1. f \in FetchState /\ f.pc = "asking" /\ f.route = req[r].current
        BY <3>1, StartTypes DEF FetchState
      <4>2. inFlight' = inFlight \cup {a} /\ fetch' = [fetch EXCEPT ![r] = f]
        BY <2>2, <3>4 DEF Claim
      <4> HIDE DEF f
      <4>3. inFlight' \subseteq Account /\ fetch' \in [Request -> FetchState]
        BY <3>1, <4>1, <4>2 DEF ProxyInv, TypeOK
      <4>4. /\ fetch'[r] = f
            /\ \A s \in Request \ {r} : fetch'[s] = fetch[s]
        BY <4>2 DEF ProxyInv, TypeOK
      <4>5. FetchInv'
        BY <2>1, <3>1, <3>2, <4>1, <4>4 DEF ProxyInv, FetchInv
      <4>6. FetchesAreMarked'
        <5>1. inFlight' = {fetch'[s].route.account :
                             s \in {t \in Request : fetch'[t].pc # "none"}}
          BY <3>1, <4>1, <4>2, <4>4 DEF ProxyInv, FetchesAreMarked
        <5>2. \A s, t \in {t \in Request : fetch'[t].pc # "none"} :
                 s # t => fetch'[s].route.account # fetch'[t].route.account
          BY <3>1, <3>4, <4>1, <4>4 DEF ProxyInv, FetchesAreMarked
        <5>3. QED
          BY <5>1, <5>2 DEF FetchesAreMarked
      <4>7. QED
        BY <4>3, <4>5, <4>6 DEF MarksOK
    <3>5. QED
      BY <3>3, <3>4
  <2>3. CASE ~Claim(r)
    <3>1. UNCHANGED <<inFlight, fetch>>
      BY <2>3
      DEF Proxy, ReadState, ReadLogins, Answer, AskUsage, GiveUp, Record,
          CheckUsage
    <3>2. fetch[r].pc = "none"
      BY <2>3
      DEF Proxy, ReadState, ReadLogins, Answer, AskUsage, GiveUp, Record,
          CheckUsage, ProxyInv, FetchInv
    <3>3. \A s \in Request \ {r} : req'[s] = req[s]
      BY <1>1, <2>1 DEF Becomes
    <3>4. QED
      BY <3>1, <3>2, <3>3, MarksAreKept DEF ProxyInv, FetchInv
  <2>4. QED
    BY <2>2, <2>3
<1>6. QED
  BY <1>2, <1>3, <1>4, <1>5, PartsMakeNextInv

LEMMA FetchingKeepsInv ==
  ASSUME ProxyInv, NEW r \in Request, Fetching(r)
  PROVE  ProxyInv'
<1>1. /\ UNCHANGED <<auth, issued, revoked, req, commands>>
      /\ fetch[r].pc # "none"
  BY DEF Fetching, FetchUsage, RecordFetch, Unmark
<1>2. /\ fetch \in [Request -> FetchState] /\ fetch[r] \in FetchState
      /\ fetch[r].route \in Route /\ fetch[r].route.account \in Account
      /\ req[r].pc = "idle"
  BY <1>1 DEF ProxyInv, TypeOK, FetchInv, Route
<1>3. HomesOK' /\ RequestsOK'
  BY <1>1, ProxyInvParts DEF HomesOK, RequestsOK
<1>4. StateOK'
  <2>1. CASE UNCHANGED stateFile
    BY <2>1, ProxyInvParts DEF stateFile, StateOK
  <2>2. CASE Observe(fetch[r].route.account, "fetch", fetch[r].level, FALSE)
    BY <1>2, <2>2, ObserveKeepsState DEF FetchState
  <2>3. QED
    BY <2>1, <2>2 DEF Fetching, FetchUsage, RecordFetch, Unmark
<1>5. MarksOK'
  <2>1. CASE Unmark(r)
    <3> DEFINE a == fetch[r].route.account
    <3>1. inFlight' = inFlight \ {a} /\ fetch' = [fetch EXCEPT ![r] = NoFetch]
      BY <2>1 DEF Unmark
    <3>2. /\ fetch'[r].pc = "none"
          /\ \A s \in Request \ {r} : fetch'[s] = fetch[s]
      BY <1>2, <3>1 DEF NoFetch
    <3>3. inFlight' \subseteq Account /\ fetch' \in [Request -> FetchState]
      BY <1>2, <3>1, StartTypes DEF ProxyInv, TypeOK
    <3>4. FetchInv'
      BY <1>1, <3>2 DEF ProxyInv, FetchInv
    <3>5. FetchesAreMarked'
      <4>1. inFlight' = {fetch'[s].route.account :
                           s \in {t \in Request : fetch'[t].pc # "none"}}
        BY <1>1, <3>1, <3>2 DEF ProxyInv, FetchesAreMarked
      <4>2. \A s, t \in {t \in Request : fetch'[t].pc # "none"} :
               s # t => fetch'[s].route.account # fetch'[t].route.account
        BY <3>2 DEF ProxyInv, FetchesAreMarked
      <4>3. QED
        BY <4>1, <4>2 DEF FetchesAreMarked
    <3>6. QED
      BY <3>3, <3>4, <3>5 DEF MarksOK
  <2>2. CASE FetchUsage(r) \/ RecordFetch(r)
    <3>1. PICK f \in FetchState :
            /\ f.pc # "none" /\ f.route = fetch[r].route
            /\ fetch' = [fetch EXCEPT ![r] = f]
      <4>1. CASE FetchUsage(r)
        <5>1. PICK level \in Usage, pc \in {"done", "answered"} :
                fetch' = [fetch EXCEPT ![r].pc = pc, ![r].level = level]
          BY <4>1 DEF FetchUsage, Told, Usage
        <5> DEFINE f == [fetch[r] EXCEPT !.pc = pc, !.level = level]
        <5>2. f \in FetchState /\ f.pc = pc /\ f.route = fetch[r].route
          BY <1>2 DEF FetchState
        <5>3. fetch' = [fetch EXCEPT ![r] = f]
          BY <1>2, <5>1 DEF FetchState
        <5> HIDE DEF f
        <5>4. QED
          BY <5>2, <5>3
      <4>2. CASE RecordFetch(r)
        <5> DEFINE f == [fetch[r] EXCEPT !.pc = "done"]
        <5>1. f \in FetchState /\ f.pc = "done" /\ f.route = fetch[r].route
          BY <1>2 DEF FetchState
        <5>2. fetch' = [fetch EXCEPT ![r] = f]
          BY <1>2, <4>2 DEF RecordFetch
        <5> HIDE DEF f
        <5>3. QED
          BY <5>1, <5>2
      <4>3. QED
        BY <2>2, <4>1, <4>2
    <3>2. inFlight' = inFlight
      BY <2>2 DEF FetchUsage, RecordFetch
    <3>3. /\ fetch' \in [Request -> FetchState]
          /\ \A s \in Request : /\ fetch'[s].route = fetch[s].route
                                /\ fetch'[s].pc = "none" <=> fetch[s].pc = "none"
      BY <1>1, <1>2, <3>1
    <3>4. FetchInv'
      BY <1>1, <3>3 DEF ProxyInv, FetchInv
    <3>5. FetchesAreMarked'
      BY <3>2, <3>3 DEF ProxyInv, FetchesAreMarked
    <3>6. QED
      BY <3>2, <3>3, <3>4, <3>5 DEF MarksOK, ProxyInv, TypeOK
  <2>3. QED
    BY <2>1, <2>2 DEF Fetching
<1>6. QED
  BY <1>3, <1>4, <1>5, PartsMakeNextInv

\* Commands and the passing of time leave requests and fetches alone.
LEMMA CommandsKeepInv ==
  ASSUME ProxyInv, NEW a \in Account, UserCommand(a) \/ Age(a)
  PROVE  ProxyInv'
<1>1. UNCHANGED <<req, inFlight, fetch>>
  BY DEF UserCommand, SwitchAccount, CaptureAccount, RemoveAccount,
         RefreshLogin, ResetProbeState, RevokeLogin, Command, Age
<1>2. RequestsOK' /\ MarksOK'
  BY <1>1, ProxyInvParts
  DEF RequestsOK, MarksOK, FetchesAreMarked, FetchInv
<1>3. /\ commands' \in 0..MaxCommands
      /\ 0 \in Login /\ \A l \in Login : l < MaxLogin => l + 1 \in Login
  BY ConstantsAssumption
  DEF ProxyInv, TypeOK, UserCommand, SwitchAccount, CaptureAccount,
      RemoveAccount, RefreshLogin, ResetProbeState, RevokeLogin, Command, Age,
      Login
<1>4. acct \in [Account -> AccountState] /\ acct[a] \in AccountState
      /\ issued[a] \in Login
  BY DEF ProxyInv, TypeOK
<1>5. CASE SwitchAccount(a)
  BY <1>2, <1>3, <1>5, ProxyInvParts, PartsMakeNextInv
  DEF SwitchAccount, StateOK, HomesOK
<1>6. CASE CaptureAccount(a) \/ RefreshLogin(a)
  <2>1. issued[a] + 1 \in Login
    BY <1>3, <1>4, <1>6 DEF CaptureAccount, RefreshLogin, NewLogin
  <2>2. /\ issued' = [issued EXCEPT ![a] = @ + 1]
        /\ auth' = [auth EXCEPT ![a] = issued'[a]]
        /\ revoked' = revoked
    BY <1>6 DEF CaptureAccount, RefreshLogin, NewLogin
  <2>3. HomesOK'
    BY <1>3, <2>1, <2>2, ProxyInvParts DEF HomesOK
  <2>4. StateOK'
    BY <1>6, StartTypes, ProxyInvParts
    DEF CaptureAccount, RefreshLogin, StateOK, stateFile
  <2>5. QED
    BY <1>2, <2>3, <2>4, PartsMakeNextInv
<1>7. CASE RemoveAccount(a)
  <2>1. HomesOK'
    BY <1>3, <1>7, ProxyInvParts DEF RemoveAccount, HomesOK
  <2>2. StateOK'
    BY <1>7, StartTypes, ProxyInvParts DEF RemoveAccount, StateOK
  <2>3. QED
    BY <1>2, <2>1, <2>2, PartsMakeNextInv
<1>8. CASE ResetProbeState(a) \/ Age(a)
  <2>1. HomesOK'
    BY <1>3, <1>8, ProxyInvParts DEF ResetProbeState, Age, HomesOK
  <2>2. acct' \in [Account -> AccountState]
    <3>1. CASE Age(a)
      BY <1>4, <3>1 DEF Age, AccountState
    <3>2. CASE ResetProbeState(a)
      <4>1. [acct[a] EXCEPT !.error = FALSE, !.backoff = FALSE] \in AccountState
        BY <1>4 DEF AccountState
      <4>2. acct' = [acct EXCEPT ![a] = [acct[a] EXCEPT !.error = FALSE,
                                                        !.backoff = FALSE]]
        BY <1>4, <3>2 DEF ResetProbeState
      <4>3. QED
        BY <1>4, <4>1, <4>2
    <3>3. QED
      BY <1>8, <3>1, <3>2
  <2>3. StateOK'
    BY <1>8, <2>2, ProxyInvParts DEF ResetProbeState, Age, StateOK
  <2>4. QED
    BY <1>2, <2>1, <2>3, PartsMakeNextInv
<1>9. CASE RevokeLogin(a)
  <2>1. PICK login \in 1..issued[a] : revoked' = [revoked EXCEPT ![a] = @ \cup {login}]
    BY <1>9 DEF RevokeLogin
  <2>2. login \in Login
    BY <1>4, <2>1, ConstantsAssumption DEF Login
  <2>3. HomesOK'
    BY <1>3, <1>9, <2>1, <2>2, ProxyInvParts DEF RevokeLogin, HomesOK
  <2>4. StateOK'
    BY <1>9, ProxyInvParts DEF RevokeLogin, StateOK, stateFile
  <2>5. QED
    BY <1>2, <2>3, <2>4, PartsMakeNextInv
<1>10. QED
  BY <1>5, <1>6, <1>7, <1>8, <1>9 DEF UserCommand

LEMMA InitProxyInv == Init => ProxyInv
<1>1. SUFFICES ASSUME Init PROVE ProxyInv
  OBVIOUS
<1>2. StateOK
  BY <1>1, StartTypes DEF Init, StateOK
<1>3. HomesOK
  <2>1. 1 \in Login /\ 0 \in 0..MaxCommands
    BY ConstantsAssumption DEF Login
  <2>2. QED
    BY <1>1, <2>1 DEF Init, HomesOK
<1>4. MarksOK
  <2>1. \A r \in Request : fetch[r] = NoFetch /\ NoFetch.pc = "none"
    BY <1>1 DEF Init, NoFetch
  <2>2. QED
    BY <1>1, <2>1, StartTypes DEF Init, MarksOK, FetchesAreMarked, FetchInv
<1>5. RequestsOK
  BY <1>1, IdleIsOK, StartTypes DEF Init, RequestsOK
<1>6. QED
  BY <1>2, <1>3, <1>4, <1>5, ProxyInvParts

LEMMA NextProxyInv == ProxyInv /\ [Next]_vars => ProxyInv'
<1>1. SUFFICES ASSUME ProxyInv, [Next]_vars PROVE ProxyInv'
  OBVIOUS
<1>2. CASE UNCHANGED vars
  <2>1. StateOK' /\ HomesOK' /\ RequestsOK'
    BY <1>1, <1>2, ProxyInvParts DEF vars, stateFile, StateOK, HomesOK, RequestsOK
  <2>2. MarksOK'
    BY <1>1, <1>2, ProxyInvParts DEF vars, MarksOK, FetchesAreMarked, FetchInv
  <2>3. QED
    BY <2>1, <2>2, PartsMakeNextInv
<1>3. QED
  BY <1>1, <1>2, ProxyKeepsInv, FetchingKeepsInv, CommandsKeepInv DEF Next

-----------------------------------------------------------------------------
(* What follows *)

\* ProxyInv holds in every reachable state: a request remembers the route it
\* is at and whom it owes a cause, and a fetch runs between two requests.
THEOREM ProxyInvariant == Spec => []ProxyInv
BY InitProxyInv, NextProxyInv, PTL DEF Spec

\* Every variable keeps its type.
THEOREM TypeCorrect == Spec => []TypeOK
<1>1. ProxyInv => TypeOK
  BY DEF ProxyInv
<1>2. QED
  BY <1>1, ProxyInvariant, PTL

\* No request, fetch or command leaves an account selected that is gone.
THEOREM SelectionIsRegistered == Spec => []ActiveIsRegistered
<1>1. ProxyInv => ActiveIsRegistered
  BY DEF ProxyInv
<1>2. QED
  BY <1>1, ProxyInvariant, PTL

\* No two background fetches are about one account, and no mark outlives its
\* fetch.
THEOREM MarksFollowFetches == Spec => []FetchesAreMarked
<1>1. ProxyInv => FetchesAreMarked
  BY DEF ProxyInv
<1>2. QED
  BY <1>1, ProxyInvariant, PTL

\* Unless requests are spread over the accounts, a request takes the selection
\* away from an account only for a reason, whatever other requests and the user
\* do meanwhile.
THEOREM FailoversHaveCauses ==
  ASSUME ~Balanced
  PROVE  Spec => FailoverHasCause
<1>1. ProxyInv /\ [Next]_vars =>
        [\A r \in Request :
            /\ req[r].pc = "answered" /\ req'[r].pc # "answered"
            /\ active' # active
            => active \in req[r].excused \cup {Nobody}]_vars
  <2>1. SUFFICES ASSUME ProxyInv, Next, NEW r \in Request,
                        req[r].pc = "answered", req'[r].pc # "answered",
                        active' # active
                 PROVE  active \in req[r].excused \cup {Nobody}
    OBVIOUS
  <2>2. Record(r)
    <3>1. PICK s \in Request : Proxy(s)
      BY <2>1
      DEF Next, Fetching, FetchUsage, RecordFetch, Unmark, UserCommand,
          SwitchAccount, CaptureAccount, RemoveAccount, RefreshLogin,
          ResetProbeState, RevokeLogin, Command, Age
    <3>2. PICK n : req' = [req EXCEPT ![s] = n]
      BY <2>1, <3>1, ProxyInvParts, ProxyRequest
      DEF ProxyInv, RequestsOK, Becomes
    <3>3. s = r
      BY <2>1, <3>2 DEF ProxyInv, TypeOK
    <3>4. QED
      BY <2>1, <3>1, <3>3
      DEF Proxy, ReadState, ReadLogins, Answer, AskUsage, GiveUp, CheckUsage,
          Claim
  <2>3. active' = req[r].current.account /\ req[r].sticky
    BY <2>1, <2>2 DEF Record, Observe, SwitchesTo, stateFile
  <2>4. \A a \in Account \ req[r].excused : req[r].current.account = a
    BY <2>1, <2>3, ProxyInvParts DEF RequestsOK, RequestOK
  <2>5. active \in Account \cup {Nobody}
    BY <2>1 DEF ProxyInv, TypeOK
  <2>6. QED
    BY <2>1, <2>3, <2>4, <2>5
<1>2. QED
  BY <1>1, ProxyInvariant, PTL DEF Spec, FailoverHasCause
=============================================================================
