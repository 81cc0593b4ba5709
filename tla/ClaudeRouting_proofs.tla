------------------------ MODULE ClaudeRouting_proofs ------------------------
(***************************************************************************)
(* What holds of ClaudeRouting for every set of accounts, requests and     *)
(* probers, any clock and any number of tokens and commands.               *)
(***************************************************************************)
EXTENDS ClaudeRouting, TLAPS, FiniteSetTheorems, SequenceTheorems

-----------------------------------------------------------------------------
(* Types *)

\* The image of a finite set under a function is finite.
LEMMA FiniteImage ==
  ASSUME NEW f, IsFiniteSet(DOMAIN f)
  PROVE  IsFiniteSet({f[x] : x \in DOMAIN f})
<1> DEFINE T == {f[x] : x \in DOMAIN f}
           g == [x \in DOMAIN f |-> f[x]]
<1>1. g \in Surjection(DOMAIN f, T)
  BY DEF Surjection
<1>2. QED
  BY <1>1, FS_Surjection

\* The constants that requests, probes and accounts start from.
LEMMA StartTypes ==
  /\ NoSample \in Sample
  /\ NoReply \in Reply
  /\ Idle \in RequestState
  /\ \A t \in Time : Fresh(t) \in AccountState
  /\ NoProbe \in ProbeState
<1> USE ConstantsAssumption
<1>1. 0 \in Time /\ 0 \in Revision /\ Low \in Level
  BY DEF Time, Revision
<1>2. NoSample \in Sample
  BY <1>1 DEF NoSample, Sample
<1>3. NoReply \in Reply
  BY <1>1, <1>2 DEF NoReply, Reply
<1>4. \A t \in Time : Fresh(t) \in AccountState
  BY <1>1, <1>2 DEF Fresh, AccountState
<1>5. Idle \in RequestState
  <2>1. <<>> \in Seq(Route)
    BY EmptySeq
  <2>2. QED
    BY <2>1, <1>3 DEF Idle, RequestState
<1>6. NoProbe \in ProbeState
  BY <1>1, <1>4 DEF NoProbe, ProbeState
<1>7. QED
  BY <1>2, <1>3, <1>4, <1>5, <1>6

\* Routes are sequences because only finitely many accounts come into
\* question, and a request that was sent has a route; the types do not say so.
RequestsOK(reqs) ==
    \A r \in Request :
        /\ IsFiniteSet(reqs[r].found)
        /\ reqs[r].pc \in {"sent", "answered"} => reqs[r].current \in Route

TypeInv == TypeOK /\ RequestsOK(req)

\* Sorting a finite, non-empty set of candidates gives a non-empty sequence.
LEMMA SortedIsSequence ==
  ASSUME NEW S \in SUBSET Candidate, IsFiniteSet(S), S # {}, NEW s \in Sorted(S)
  PROVE  s \in Seq(S) /\ s # <<>>
<1>1. Cardinality(S) \in Nat \ {0}
  BY FS_CardinalityType, FS_EmptySet
<1>2. s \in [1..Cardinality(S) -> S]
  BY DEF Sorted
<1>3. QED
  BY <1>1, <1>2

\* Going on to the next route keeps a request's memory well-typed.
LEMMA SendType ==
  ASSUME TypeInv, NEW r \in Request, NEW q \in RequestState,
         q.routes # <<>>, IsFiniteSet(q.found), Send(r, q)
  PROVE  /\ req' \in [Request -> RequestState]
         /\ RequestsOK(req')
<1> DEFINE n == [q EXCEPT !.pc = "sent", !.current = Head(q.routes),
                          !.routes = Tail(q.routes), !.reply = NoReply]
<1>1. Head(q.routes) \in Route /\ Tail(q.routes) \in Seq(Route)
  BY HeadTailProperties DEF RequestState
<1>2. n \in RequestState /\ n.found = q.found /\ n.current \in Route
  BY <1>1, StartTypes DEF RequestState
<1>3. req' = [req EXCEPT ![r] = n]
  BY DEF Send
<1>4. QED
  BY <1>2, <1>3 DEF TypeInv, TypeOK, RequestsOK

\* What a reply leaves of an account is an account.
LEMMA ObservedType ==
  ASSUME TypeOK, NEW a \in Account, NEW reply \in Reply, time' \in Time
  PROVE  Observed(a, reply) \in AccountState
<1>1. acct[a] \in AccountState
  BY DEF TypeOK
<1>2. [acct[a] EXCEPT !.seen = reply.sample] \in AccountState
  BY <1>1 DEF AccountState, Reply
<1>3. QED
  BY <1>1, <1>2 DEF Observed, AccountState

\* So is what a probe merges.
LEMMA MergedType ==
  ASSUME TypeOK, NEW P \in ProbeState
  PROVE  Merged(P) \in [Account -> AccountState]
<1> SUFFICES ASSUME NEW a \in Account
             PROVE  [acct[a] EXCEPT !.usage   = P.acct[a].usage,
                                    !.paused  = P.acct[a].paused,
                                    !.error   = P.acct[a].error,
                                    !.probeAt = P.acct[a].probeAt] \in AccountState
  BY DEF Merged, TypeOK
<1>1. acct[a] \in AccountState /\ P.acct[a] \in AccountState
  BY DEF TypeOK, ProbeState
<1>2. QED
  BY <1>1 DEF AccountState

\* An account with another token is one too.
LEMMA WithTokenType ==
  ASSUME TypeOK, NEW a \in Account, NEW rev \in Revision
  PROVE  WithToken(a, rev) \in AccountState
<1>1. acct[a] \in AccountState
  BY DEF TypeOK
<1>2. 0 \in Time
  BY ConstantsAssumption DEF Time
<1>3. QED
  BY <1>1, <1>2, StartTypes DEF WithToken, AccountState

\* A probe that leaves account a as `result` stays well-typed.
LEMMA RatedType ==
  ASSUME TypeInv, NEW p \in Prober, NEW a \in Account, NEW result \in AccountState,
         Rated(p, a, result) \/ Unselectable(p, a, result)
  PROVE  probe' \in [Prober -> ProbeState]
<1> DEFINE with == [probe[p].acct EXCEPT ![a] = result]
           n == [probe[p] EXCEPT !.acct = with, !.todo = @ \ {a}]
<1>1. /\ probe \in [Prober -> ProbeState]
      /\ probe[p] \in ProbeState
  BY DEF TypeInv, TypeOK
<1>2. with \in [Account -> AccountState]
  BY <1>1 DEF ProbeState
<1>3. n \in ProbeState
  BY <1>1, <1>2 DEF ProbeState
<1>4. CASE Unselectable(p, a, result)
  <2>1. probe' = [probe EXCEPT ![p] = n]
    BY <1>1, <1>4 DEF Unselectable, ProbeState
  <2>2. QED
    BY <1>1, <1>3, <2>1
<1>5. CASE Rated(p, a, result)
  <2>1. PICK l \in ReadAs(result.usage) :
           probe' = [probe EXCEPT ![p].acct[a] = result,
                                  ![p].todo = @ \ {a},
                                  ![p].score[a] = IF l = Full THEN Unknown ELSE l]
    BY <1>5 DEF Rated
  <2> DEFINE scored == [probe[p].score EXCEPT ![a] = IF l = Full THEN Unknown ELSE l]
             m == [n EXCEPT !.score = scored]
  <2>2. scored \in [Account -> Level \cup {Unknown}]
    BY <1>1, <2>1 DEF ReadAs, ProbeState
  <2>3. m \in ProbeState
    BY <1>3, <2>2 DEF ProbeState
  <2>4. probe' = [probe EXCEPT ![p] = m]
    BY <1>1, <2>1 DEF ProbeState
  <2>5. QED
    BY <1>1, <2>3, <2>4
<1>6. QED
  BY <1>4, <1>5

LEMMA FallbackType ==
  ASSUME TypeInv, NEW p \in Prober, NEW a \in Account, NEW before \in AccountState,
         Fallback(p, a, before)
  PROVE  probe' \in [Prober -> ProbeState]
<1>1. [before EXCEPT !.usage = before.seen] \in AccountState
  BY DEF AccountState
<1>2. [before EXCEPT !.usage = NoSample] \in AccountState
  BY StartTypes DEF AccountState
<1>3. QED
  BY <1>1, <1>2, RatedType DEF Fallback

\* A step that marks account a for the probes under way.
LEMMA TouchType ==
  ASSUME TypeOK, NEW a \in Account, Touch(a)
  PROVE  touched' \in [Prober -> SUBSET Account]
  BY DEF Touch, TypeOK

\* What a request finds in the state, and what is left of it once the tokens
\* are loaded.
LEMMA CandidatesType ==
  ASSUME TypeOK, NEW barred, NEW read \in [known -> Level]
  PROVE  /\ Candidates(barred, read) \in SUBSET Candidate
         /\ IsFiniteSet(Candidates(barred, read))
<1> DEFINE D == {b \in known \ barred : acct[b].rev # 0}
           f == [a \in D |->
                   [account |-> a, rev |-> acct[a].rev, active |-> a = active,
                    level |-> IF Trusted(KnownUsage(a), acct[a].rev)
                              THEN read[a] ELSE Unknown]]
<1>1. IsFiniteSet(D)
  BY ConstantsAssumption, FS_Subset DEF TypeOK
<1>2. Candidates(barred, read) = {f[a] : a \in DOMAIN f}
  BY DEF Candidates
<1>3. \A a \in D : acct[a].rev \in Revision
  BY DEF TypeOK, AccountState
<1>4. \A a \in D : f[a] \in Candidate
  BY <1>3 DEF TypeOK, Candidate
<1>5. IsFiniteSet({f[a] : a \in DOMAIN f})
  <2>1. DOMAIN f = D
    OBVIOUS
  <2> HIDE DEF f
  <2>2. QED
    BY <1>1, <2>1, FiniteImage
<1>6. DOMAIN f = D
  OBVIOUS
<1> HIDE DEF D, f
<1>7. QED
  BY <1>2, <1>4, <1>5, <1>6

LEMMA LoadedType ==
  ASSUME TypeOK, NEW found \in SUBSET Candidate, IsFiniteSet(found)
  PROVE  Loaded(found) \in SUBSET Candidate /\ IsFiniteSet(Loaded(found))
<1> DEFINE D == {y \in found : Usable(y.account)}
           f == [x \in D |->
                   [x EXCEPT !.rev = acct[x.account].rev,
                             !.level = IF acct[x.account].rev = x.rev
                                       THEN x.level ELSE Unknown]]
<1>1. IsFiniteSet(D)
  BY FS_Subset
<1>2. Loaded(found) = {f[x] : x \in DOMAIN f}
  BY DEF Loaded
<1>3. \A x \in D : acct[x.account].rev \in Revision
  BY DEF TypeOK, AccountState, Candidate
<1>4. \A x \in D : f[x] \in Candidate
  BY <1>3 DEF Candidate
<1>5. IsFiniteSet({f[x] : x \in DOMAIN f})
  <2>1. DOMAIN f = D
    OBVIOUS
  <2>2. QED
    BY <1>1, <2>1, FiniteImage
<1>6. QED
  BY <1>2, <1>4, <1>5

LEMMA RoutesType ==
  ASSUME NEW s \in Seq(Candidate), s # <<>>
  PROVE  RoutesOf(s) \in Seq(Route) /\ RoutesOf(s) # <<>>
<1>1. \A i \in 1..Len(s) : s[i] \in Candidate
  OBVIOUS
<1>2. \A i \in 1..Len(s) :
         [account |-> s[i].account, rev |-> s[i].rev, active |-> s[i].active] \in Route
  BY <1>1 DEF Candidate, Route
<1>3. RoutesOf(s) \in [1..Len(s) -> Route]
  BY <1>2 DEF RoutesOf
<1>4. Len(s) \in Nat \ {0}
  BY EmptySeq
<1>5. QED
  BY <1>3, <1>4

LEMMA ProxyType ==
  ASSUME TypeInv, NEW r \in Request, Proxy(r)
  PROVE  TypeInv'
<1> USE ConstantsAssumption, StartTypes
<1>1. /\ req \in [Request -> RequestState] /\ req[r] \in RequestState
      /\ IsFiniteSet(req[r].found) /\ Idle.found = {} /\ IsFiniteSet({})
      /\ req[r].pc \in {"sent", "answered"} => req[r].current \in Route
      /\ Idle.pc = "idle"
      /\ RequestsOK(req)
  BY FS_EmptySet DEF TypeInv, TypeOK, RequestsOK, Idle
<1>2. CASE ReadState(r)
  <2>1. PICK barred \in SUBSET {a \in known : acct[a].error /\ acct[a].paused},
             read \in [known -> Level] :
           /\ \A a \in known : read[a] \in ReadAs(KnownUsage(a))
           /\ req' = [req EXCEPT ![r] =
                        [Idle EXCEPT !.pc = "lookup", !.active = active,
                                     !.found = Candidates(barred, read)]]
    BY <1>2 DEF ReadState
  <2> DEFINE n == [Idle EXCEPT !.pc = "lookup", !.active = active,
                               !.found = Candidates(barred, read)]
  <2>2. n \in RequestState /\ IsFiniteSet(n.found) /\ n.pc = "lookup"
    BY CandidatesType DEF TypeInv, TypeOK, RequestState
  <2>3. req' = [req EXCEPT ![r] = n]
    BY <2>1
  <2> HIDE DEF n
  <2>4. req' \in [Request -> RequestState] /\ RequestsOK(req')
    BY <1>1, <2>2, <2>3 DEF RequestsOK
  <2>5. QED
    BY <1>2, <2>4 DEF ReadState, TypeInv, TypeOK, stateFile
<1>3. CASE LoadTokens(r)
  <2> DEFINE loaded == Loaded(req[r].found)
  <2>1. loaded \in SUBSET Candidate /\ IsFiniteSet(loaded)
    BY <1>1, LoadedType DEF TypeInv, RequestState
  <2>2. CASE loaded = {}
    BY <1>1, <1>3, <2>2 DEF LoadTokens, TypeInv, TypeOK, stateFile, RequestsOK
  <2>3. CASE loaded # {}
    <3>1. PICK s \in Sorted(loaded) :
             Send(r, [Idle EXCEPT !.routes = RoutesOf(s),
                                  !.excused = Spent(loaded) \cup (Account \ {req[r].active})])
      BY <1>3, <2>3 DEF LoadTokens
    <3> DEFINE n == [Idle EXCEPT !.routes = RoutesOf(s),
                                 !.excused = Spent(loaded) \cup (Account \ {req[r].active})]
    <3>2. s \in Seq(Candidate) /\ s # <<>>
      BY <2>1, <2>3, SortedIsSequence
    <3>3. n.routes \in Seq(Route) /\ n.routes # <<>> /\ n.found = {}
      BY <3>2, RoutesType, <1>1 DEF Idle
    <3>4. n \in RequestState
      BY <3>3 DEF RequestState, Spent
    <3>5. QED
      BY <1>1, <1>3, <3>1, <3>3, <3>4, SendType
      DEF LoadTokens, TypeInv, TypeOK, stateFile
  <2>4. QED
    BY <2>2, <2>3
<1>4. CASE Answer(r)
  <2>1. PICK reply \in RepliesTo(req[r].current) :
           req' = [req EXCEPT ![r].pc = "answered", ![r].reply = reply]
    BY <1>4 DEF Answer
  <2> DEFINE answered == [req[r] EXCEPT !.pc = "answered", !.reply = reply]
  <2>2. req[r].current \in Route
    BY <1>1, <1>4 DEF Answer
  <2>3. reply \in Reply
    BY <2>2 DEF RepliesTo, Reply, Sample, Route, NoSample
  <2>4. /\ answered \in RequestState
        /\ answered.found = req[r].found
        /\ answered.current \in Route
    BY <1>1, <2>2, <2>3 DEF RequestState
  <2>5. req' = [req EXCEPT ![r] = answered]
    BY <1>1, <2>1 DEF RequestState
  <2> HIDE DEF answered
  <2>6. req' \in [Request -> RequestState] /\ RequestsOK(req')
    BY <1>1, <2>4, <2>5 DEF RequestsOK
  <2>7. QED
    BY <1>4, <2>6 DEF Answer, TypeInv, TypeOK, stateFile
<1>5. CASE GiveUp(r)
  BY <1>1, <1>5 DEF GiveUp, TypeInv, TypeOK, stateFile, RequestsOK
<1>6. CASE Record(r)
  <2> DEFINE q == [req[r] EXCEPT
                     !.sticky = @ /\ ~StaysPut(req[r]),
                     !.excused = IF req[r].reply.kind \in {"quota", "unauthorized"}
                                 THEN @ \cup {req[r].current.account} ELSE @]
             a == req[r].current.account
  <2>1. /\ req' \in [Request -> RequestState]
        /\ RequestsOK(req')
    <3>1. CASE req' = [req EXCEPT ![r] = Idle]
      BY <1>1, <3>1 DEF TypeInv, RequestsOK
    <3>2. CASE Retries(q) /\ Send(r, q)
      <4>1. req[r].current.account \in Account
        BY <1>1, <1>6 DEF Record, Route
      <4>2. q \in RequestState /\ q.found = req[r].found
        <5>1. req[r] \in RequestState
          BY <1>1
        <5>2. PICK sticky \in BOOLEAN, excused \in SUBSET Account :
                q = [req[r] EXCEPT !.sticky = sticky, !.excused = excused]
          <6>1. req[r].excused \cup {a} \in SUBSET Account
            BY <4>1, <5>1 DEF RequestState
          <6>2. (req[r].sticky /\ ~StaysPut(req[r])) \in BOOLEAN
            OBVIOUS
          <6>3. QED
            BY <5>1, <6>1, <6>2 DEF RequestState
        <5> HIDE DEF q
        <5>3. QED
          BY <5>1, <5>2 DEF RequestState
      <4>3. q.routes # <<>>
        BY <3>2 DEF Retries
      <4>4. QED
        BY <1>1, <3>2, <4>2, <4>3, SendType
    <3>3. QED
      BY <1>6, <3>1, <3>2 DEF Record
  <2>2. CASE Observe(req[r])
    <3>1. a \in Account /\ req[r].reply \in Reply
      BY <1>1, <2>2 DEF Observe, TypeInv, TypeOK, RequestState
    <3>2. time' \in Time
      BY <2>2 DEF Observe, Tick, TypeInv, TypeOK, Time
    <3>3. acct' \in [Account -> AccountState]
      BY <2>2, <3>1, <3>2, ObservedType DEF Observe, TypeInv, TypeOK
    <3>4. active' \in Account \cup {Nobody} /\ switchedAt' \in Time /\ known' \subseteq Account
      BY <2>2, <3>1 DEF Observe, TypeInv, TypeOK
    <3>5. touched' \in [Prober -> SUBSET Account]
      BY <2>2, <3>1, TouchType DEF Observe, TypeInv, TypeOK
    <3>6. QED
      BY <1>6, <2>1, <3>2, <3>3, <3>4, <3>5 DEF Record, TypeInv, TypeOK
  <2>3. CASE UNCHANGED <<time, stateFile, touched>>
    BY <1>6, <2>1, <2>3 DEF Record, TypeInv, TypeOK, stateFile
  <2>4. QED
    BY <1>6, <2>2, <2>3 DEF Record
<1>7. QED
  BY <1>2, <1>3, <1>4, <1>5, <1>6 DEF Proxy

LEMMA ProbingType ==
  ASSUME TypeInv, NEW p \in Prober, Probing(p)
  PROVE  TypeInv'
<1> USE ConstantsAssumption, StartTypes
<1>1. probe \in [Prober -> ProbeState] /\ probe[p] \in ProbeState
  BY DEF TypeInv, TypeOK
<1>2. CASE BeginProbe(p)
  <2>1. time' \in Time
    BY <1>2 DEF BeginProbe, Tick, TypeInv, TypeOK, Time
  <2> DEFINE copy == [a \in Account |->
                        IF a \in known THEN [acct[a] EXCEPT !.probeAt = time']
                                       ELSE acct[a]]
             n == [pc |-> "probing", started |-> time', active |-> active,
                   switchedAt |-> switchedAt, known |-> known, todo |-> known,
                   acct |-> copy, score |-> [a \in Account |-> Unknown]]
  <2>2. copy \in [Account -> AccountState]
    BY <2>1 DEF TypeInv, TypeOK, AccountState
  <2>3. n \in ProbeState
    BY <2>1, <2>2 DEF TypeInv, TypeOK, ProbeState
  <2>4. probe' = [probe EXCEPT ![p] = n]
    BY <1>2 DEF BeginProbe
  <2>5. QED
    BY <1>1, <1>2, <2>1, <2>3, <2>4 DEF BeginProbe, TypeInv, TypeOK, stateFile
<1>3. CASE AbandonProbe(p)
  BY <1>1, <1>3 DEF AbandonProbe, TypeInv, TypeOK, stateFile
<1>4. ASSUME NEW a \in Account, ProbeAccount(p, a)
      PROVE  TypeInv'
  <2> DEFINE before == probe[p].acct[a]
             clear == [before EXCEPT !.error = FALSE, !.paused = FALSE]
             rejected == [before EXCEPT !.usage = NoSample, !.error = TRUE,
                                        !.paused = TRUE]
             asked(l) == [clear EXCEPT !.usage = [rev |-> before.rev, level |-> l]]
  <2>1. before \in AccountState
    BY <1>1 DEF ProbeState
  <2>2. /\ clear \in AccountState /\ rejected \in AccountState
        /\ [clear EXCEPT !.paused = TRUE] \in AccountState
        /\ [before EXCEPT !.usage = NoSample] \in AccountState
        /\ [before EXCEPT !.usage = before.seen] \in AccountState
        /\ \A l \in Level : asked(l) \in AccountState
    BY <2>1 DEF AccountState, Sample
  <2>3. \/ \E result \in AccountState : Rated(p, a, result) \/ Unselectable(p, a, result)
        \/ \E from \in AccountState : Fallback(p, a, from)
    BY <1>4, <2>1, <2>2, Zenon DEF ProbeAccount
  <2>4. probe' \in [Prober -> ProbeState]
    BY <2>3, RatedType, FallbackType
  <2>5. QED
    BY <1>4, <2>4 DEF ProbeAccount, TypeInv, TypeOK, stateFile
<1>5. ASSUME NEW kind \in Kinds, FinishProbe(p, kind)
      PROVE  TypeInv'
  <2>1. acct' \in [Account -> AccountState]
    BY <1>1, <1>5, MergedType DEF FinishProbe, TypeInv, TypeOK
  <2>2. active' \in Account \cup {Nobody} /\ switchedAt' \in Time
    BY <1>1, <1>5 DEF FinishProbe, Best, Selectable, TypeInv, TypeOK, ProbeState
  <2>3. /\ probe' \in [Prober -> ProbeState]
        /\ touched' \in [Prober -> SUBSET Account]
    BY <1>1, <1>5 DEF FinishProbe, TypeInv, TypeOK
  <2>4. UNCHANGED <<time, known, tokenFile, issued, revoked, req, commands>>
    BY <1>5 DEF FinishProbe
  <2>5. QED
    BY <2>1, <2>2, <2>3, <2>4 DEF TypeInv, TypeOK
<1>6. QED
  BY <1>2, <1>3, <1>4, <1>5 DEF Probing

LEMMA CommandType ==
  ASSUME TypeInv, NEW a \in Account, UserCommand(a) \/ RevokeToken(a)
  PROVE  TypeInv'
<1> USE ConstantsAssumption, StartTypes
<1>1. acct[a] \in AccountState /\ 0 \in Revision /\ 0 \in Time
  BY DEF TypeInv, TypeOK, Revision, Time
<1>2. ASSUME NEW name, Command(name)
      PROVE  commands' \in 0..MaxCommands /\ UNCHANGED <<revoked, req, probe>>
  BY <1>2 DEF Command, TypeInv, TypeOK
<1>3. CASE SwitchAccount(a)
  BY <1>2, <1>3 DEF SwitchAccount, TypeInv, TypeOK
<1>4. CASE ReplaceToken(a)
  <2>1. issued[a] + 1 \in Revision
    BY <1>4 DEF ReplaceToken, TypeInv, TypeOK, Revision
  <2>2. acct' \in [Account -> AccountState]
    BY <1>4, <2>1, WithTokenType DEF ReplaceToken, TypeInv, TypeOK
  <2>3. touched' \in [Prober -> SUBSET Account]
    BY <1>4, TouchType DEF ReplaceToken, TypeInv, TypeOK
  <2>4. QED
    BY <1>2, <1>4, <2>1, <2>2, <2>3 DEF ReplaceToken, TypeInv, TypeOK
<1>5. CASE RemoveToken(a)
  <2>1. acct' \in [Account -> AccountState]
    BY <1>1, <1>5, WithTokenType DEF RemoveToken, TypeInv, TypeOK
  <2>2. touched' \in [Prober -> SUBSET Account]
    BY <1>5, TouchType DEF RemoveToken, TypeInv, TypeOK
  <2>3. QED
    BY <1>1, <1>2, <1>5, <2>1, <2>2 DEF RemoveToken, TypeInv, TypeOK
<1>6. CASE RemoveAccount(a)
  BY <1>1, <1>2, <1>6, TouchType DEF RemoveAccount, TypeInv, TypeOK
<1>7. CASE CreateAccount(a)
  BY <1>1, <1>2, <1>7, TouchType DEF CreateAccount, TypeInv, TypeOK
<1>8. CASE ResetProbeState(a)
  <2>1. acct' = [acct EXCEPT ![a] = [acct[a] EXCEPT !.error = FALSE, !.paused = FALSE]]
    BY <1>1, <1>8 DEF ResetProbeState, AccountState, TypeInv, TypeOK
  <2>2. [acct[a] EXCEPT !.error = FALSE, !.paused = FALSE] \in AccountState
    BY <1>1 DEF AccountState
  <2>3. QED
    BY <1>2, <1>8, <2>1, <2>2 DEF ResetProbeState, TypeInv, TypeOK
<1>9. CASE StatusLine(a)
  <2>1. PICK t \in acct[a].probeAt..time + 1, l \in Level :
           /\ IF t > time THEN Tick ELSE UNCHANGED time
           /\ acct' = [acct EXCEPT ![a].usage = [rev |-> acct[a].rev, level |-> l],
                                   ![a].probeAt = t]
    BY <1>9 DEF StatusLine
  <2>2. time' \in Time /\ t \in Time
    BY <1>1, <2>1 DEF Tick, TypeInv, TypeOK, AccountState, Time
  <2> DEFINE n == [acct[a] EXCEPT !.usage = [rev |-> acct[a].rev, level |-> l],
                                  !.probeAt = t]
  <2>3. n \in AccountState
    BY <1>1, <2>2 DEF AccountState, Sample
  <2>4. acct' = [acct EXCEPT ![a] = n]
    BY <1>1, <2>1 DEF TypeInv, TypeOK, AccountState
  <2> HIDE DEF n
  <2>5. QED
    BY <1>2, <1>9, <2>2, <2>3, <2>4 DEF StatusLine, TypeInv, TypeOK
<1>10. CASE RevokeToken(a)
  BY <1>1, <1>10 DEF RevokeToken, TypeInv, TypeOK, stateFile, AccountState
<1>11. QED
  BY <1>3, <1>4, <1>5, <1>6, <1>7, <1>8, <1>9, <1>10 DEF UserCommand

LEMMA TypeStep == TypeInv /\ [Next]_vars => TypeInv'
<1> SUFFICES ASSUME TypeInv, [Next]_vars
             PROVE  TypeInv'
  OBVIOUS
<1>1. CASE UNCHANGED vars
  BY <1>1 DEF vars, TypeInv, TypeOK, RequestsOK
<1>2. QED
  BY <1>1, ProxyType, ProbingType, CommandType DEF Next

LEMMA TypeInit == Init => TypeInv
<1> SUFFICES ASSUME Init
             PROVE  TypeInv
  OBVIOUS
<1> USE ConstantsAssumption, StartTypes
<1>1. 1 \in Time /\ 0 \in Time /\ 1 \in Revision
  BY DEF Time, Revision
<1>2. Fresh(1) \in AccountState
  BY <1>1
<1>3. [Fresh(1) EXCEPT !.rev = 1] \in AccountState
  BY <1>1, <1>2 DEF AccountState
<1>4. TypeOK
  BY <1>1, <1>3 DEF Init, TypeOK
<1>5. RequestsOK(req)
  BY FS_EmptySet DEF Init, RequestsOK, Idle
<1>6. QED
  BY <1>4, <1>5 DEF TypeInv

\* Every variable keeps its type, for instance no stamp lies in the future of
\* the clock's range and no request holds a route that is not an account's.
THEOREM TypeCorrect == Spec => []TypeOK
<1>1. Spec => []TypeInv
  BY TypeInit, TypeStep, PTL DEF Spec
<1>2. TypeInv => TypeOK
  BY DEF TypeInv
<1>3. QED
  BY <1>1, <1>2, PTL

-----------------------------------------------------------------------------
(* What the steps do, as far as the invariant is concerned *)

\* A probe of account a changes nothing of its copy but what it learned about
\* a, and rates a only with a token (collectClaudeSetupTokenAccount).
LEMMA RatedEffect ==
  ASSUME TypeInv, NEW p \in Prober, NEW a \in Account, NEW result \in AccountState,
         Rated(p, a, result) \/ Unselectable(p, a, result)
  PROVE  /\ \A x \in Prober \ {p} : probe'[x] = probe[x]
         /\ probe'[p].pc = probe[p].pc /\ probe'[p].started = probe[p].started
         /\ probe'[p].known = probe[p].known /\ probe'[p].active = probe[p].active
         /\ probe'[p].switchedAt = probe[p].switchedAt
         /\ probe'[p].acct = [probe[p].acct EXCEPT ![a] = result]
         /\ \A b \in Account \ {a} : probe'[p].score[b] = probe[p].score[b]
<1>1. /\ probe \in [Prober -> ProbeState]
      /\ probe[p] \in ProbeState
  BY DEF TypeInv, TypeOK
<1>2. CASE Unselectable(p, a, result)
  BY <1>1, <1>2 DEF Unselectable, ProbeState
<1>3. CASE Rated(p, a, result)
  <2>1. PICK l \in ReadAs(result.usage) :
           probe' = [probe EXCEPT ![p].acct[a] = result,
                                  ![p].todo = @ \ {a},
                                  ![p].score[a] = IF l = Full THEN Unknown ELSE l]
    BY <1>3 DEF Rated
  <2> DEFINE m == [probe[p] EXCEPT !.acct = [@ EXCEPT ![a] = result],
                                   !.todo = @ \ {a},
                                   !.score = [@ EXCEPT ![a] =
                                                IF l = Full THEN Unknown ELSE l]]
  <2>2. probe' = [probe EXCEPT ![p] = m]
    BY <1>1, <2>1 DEF ProbeState
  <2>3. QED
    BY <1>1, <2>2 DEF ProbeState
<1>4. QED
  BY <1>2, <1>3

\* What a probe may make of the account it copied as `before`.
Learned(a, before, result) ==
    /\ result \in AccountState
    /\ result.rev = before.rev
    /\ result.added = before.added
    /\ result.probeAt = before.probeAt
    /\ result.error => before.error \/ before.rev \in revoked[a]

LEMMA FallbackEffect ==
  ASSUME NEW p \in Prober, NEW a \in Account, NEW before \in AccountState,
         Fallback(p, a, before)
  PROVE  \E result : /\ Learned(a, before, result)
                     /\ Rated(p, a, result) \/ Unselectable(p, a, result)
<1> DEFINE seen == [before EXCEPT !.usage = before.seen]
           none == [before EXCEPT !.usage = NoSample]
<1>1. Learned(a, before, seen) /\ Learned(a, before, none) /\ Learned(a, before, before)
  BY StartTypes DEF Learned, AccountState
<1>2. \/ Rated(p, a, seen) \/ Rated(p, a, before) \/ Unselectable(p, a, none)
  BY DEF Fallback
<1> HIDE DEF seen, none
<1>3. QED
  BY <1>1, <1>2

LEMMA ProbeAccountEffect ==
  ASSUME TypeInv, NEW p \in Prober, NEW a \in Account, ProbeAccount(p, a)
  PROVE  /\ \E result : /\ Learned(a, probe[p].acct[a], result)
                        /\ Rated(p, a, result) \/ Unselectable(p, a, result)
         /\ probe'[p].score[a] = probe[p].score[a] \/ probe[p].acct[a].rev # 0
<1> DEFINE before == probe[p].acct[a]
           useful == Usable(a) /\ acct[a].rev = before.rev
           clear == [before EXCEPT !.error = FALSE, !.paused = FALSE]
           failed == [clear EXCEPT !.paused = TRUE]
           rejected == [before EXCEPT !.usage = NoSample, !.error = TRUE,
                                      !.paused = TRUE]
           asked(l) == [clear EXCEPT !.usage = [rev |-> before.rev, level |-> l]]
           seen == [before EXCEPT !.usage = before.seen]
           none == [before EXCEPT !.usage = NoSample]
<1>1. /\ probe \in [Prober -> ProbeState]
      /\ probe[p] \in ProbeState
      /\ before \in AccountState
  BY DEF TypeInv, TypeOK, ProbeState
<1>2. /\ clear \in AccountState /\ failed \in AccountState
      /\ \A l \in Level : asked(l) \in AccountState
  BY <1>1 DEF AccountState, Sample
<1>3. /\ Learned(a, before, before) /\ Learned(a, before, none)
      /\ Learned(a, before, seen)
      /\ \A l \in Level : Learned(a, before, asked(l))
      /\ before.rev \in revoked[a] => Learned(a, before, rejected)
  BY <1>1, <1>2, StartTypes DEF Learned, AccountState
<1>4. \A result : Learned(a, failed, result) => Learned(a, before, result)
  BY <1>1 DEF Learned, AccountState
<1>5. \/ ~useful /\ Unselectable(p, a, none)
      \/ useful /\ (Rated(p, a, before) \/ Rated(p, a, seen) \/ Unselectable(p, a, before))
      \/ useful /\ before.rev \in revoked[a] /\ Unselectable(p, a, rejected)
      \/ useful /\ \E l \in Level : Rated(p, a, asked(l))
      \/ useful /\ (Fallback(p, a, before) \/ Fallback(p, a, failed))
  BY Zenon DEF ProbeAccount
<1>6. \E result : /\ Learned(a, before, result)
                  /\ Rated(p, a, result) \/ Unselectable(p, a, result)
  <2>1. CASE Fallback(p, a, before) \/ Fallback(p, a, failed)
    BY <1>1, <1>2, <1>4, <2>1, FallbackEffect
  <2> HIDE DEF seen, none, asked, rejected, failed, clear
  <2>2. QED
    BY <1>3, <1>5, <2>1
<1>7. probe'[p].score[a] = probe[p].score[a] \/ before.rev # 0
  <2>1. CASE useful
    BY <2>1 DEF Usable
  <2>2. CASE ~useful
    <3>1. probe' = [probe EXCEPT ![p].acct[a] = none, ![p].todo = @ \ {a}]
      BY <1>5, <2>2 DEF Unselectable
    <3> HIDE DEF none
    <3>2. QED
      BY <1>1, <3>1 DEF ProbeState
  <2>3. QED
    BY <2>1, <2>2
<1>8. QED
  BY <1>6, <1>7

\* A merge keeps token and identity of an account, and what it takes over of a
\* probe is about that token and not older (mergeProbeState).
LEMMA MergedEffect ==
  ASSUME TypeOK, NEW P \in ProbeState, NEW a \in Account
  PROVE  LET m == Merged(P)[a] IN
         /\ m.rev = acct[a].rev /\ m.added = acct[a].added
         /\ \/ m = acct[a]
            \/ /\ a \in known \cap P.known
               /\ acct[a].added = P.acct[a].added
               /\ acct[a].rev = P.acct[a].rev
               /\ acct[a].probeAt <= P.acct[a].probeAt
               /\ m.error = P.acct[a].error
               /\ m.probeAt = P.acct[a].probeAt
<1>1. acct[a] \in AccountState
  BY DEF TypeOK
<1>2. QED
  BY <1>1 DEF Merged, AccountState

\* A reply sets the error only if it was a rejection, and then with a stamp.
LEMMA ObservedEffect ==
  ASSUME TypeOK, NEW a \in Account, NEW reply
  PROVE  LET o == Observed(a, reply) IN
         /\ o.rev = acct[a].rev /\ o.added = acct[a].added
         /\ reply.kind = "unauthorized" => o.error /\ o.probeAt = time'
         /\ reply.kind # "unauthorized" =>
              (o.error => acct[a].error) /\ o.probeAt = acct[a].probeAt
<1>1. acct[a] \in AccountState
  BY DEF TypeOK
<1>2. QED
  BY <1>1 DEF Observed, AccountState

-----------------------------------------------------------------------------
(* The invariant *)

LEMMA ActiveStep ==
  ASSUME TypeInv, ActiveIsRegistered, [Next]_vars
  PROVE  ActiveIsRegistered'
<1> USE DEF ActiveIsRegistered, stateFile
<1>1. CASE UNCHANGED vars
  BY <1>1 DEF vars
<1>2. ASSUME NEW r \in Request, Proxy(r)
      PROVE  ActiveIsRegistered'
  <2>1. CASE Record(r) /\ Observe(req[r])
    BY <2>1 DEF Observe
  <2>2. CASE UNCHANGED <<active, known>>
    BY <2>2
  <2>3. QED
    BY <1>2, <2>1, <2>2 DEF Proxy, ReadState, LoadTokens, Answer, GiveUp, Record
<1>3. ASSUME NEW p \in Prober, NEW kind \in Kinds, FinishProbe(p, kind)
      PROVE  ActiveIsRegistered'
  <2>1. CASE active' = active
    BY <1>3, <2>1 DEF FinishProbe
  <2>2. CASE active' # active
    <3>1. Matches(probe[p]) /\ active' \in Best(probe[p])
      BY <1>3, <2>2 DEF FinishProbe
    <3>2. active' \in known
      BY <3>1 DEF Matches, Best, Selectable
    <3>3. QED
      BY <1>3, <3>2 DEF FinishProbe
  <2>3. QED
    BY <2>1, <2>2
<1>4. ASSUME NEW p \in Prober,
             BeginProbe(p) \/ AbandonProbe(p) \/ \E a \in Account : ProbeAccount(p, a)
      PROVE  ActiveIsRegistered'
  BY <1>4 DEF BeginProbe, AbandonProbe, ProbeAccount
<1>5. ASSUME NEW a \in Account, UserCommand(a) \/ RevokeToken(a)
      PROVE  ActiveIsRegistered'
  BY <1>5 DEF UserCommand, SwitchAccount, ReplaceToken, RemoveToken, RemoveAccount,
     CreateAccount, ResetProbeState, StatusLine, RevokeToken
<1>6. QED
  BY <1>1, <1>2, <1>3, <1>4, <1>5 DEF Next, Probing

LEMMA RejectionStep ==
  ASSUME TypeInv, RejectionInv, [Next]_vars
  PROVE  RejectionInv'
<1> USE ConstantsAssumption DEF stateFile
<1>1. /\ acct \in [Account -> AccountState] /\ revoked \in [Account -> SUBSET Revision]
      /\ req \in [Request -> RequestState] /\ probe \in [Prober -> ProbeState]
  BY DEF TypeInv, TypeOK
<1>2. CASE UNCHANGED vars
  BY <1>2 DEF vars, RejectionInv
<1>3. ASSUME NEW r \in Request, Proxy(r)
      PROVE  RejectionInv'
  <2>1. UNCHANGED <<revoked, probe>>
    BY <1>3 DEF Proxy, ReadState, LoadTokens, Answer, GiveUp, Record
  <2>2. \A a \in Account : acct'[a].error => acct'[a].rev \in revoked[a]
    <3>1. CASE Record(r) /\ Observe(req[r])
      <4> DEFINE a == req[r].current.account
      <4>1. a \in Account /\ acct' = [acct EXCEPT ![a] = Observed(a, req[r].reply)]
        BY <3>1 DEF Observe, TypeInv, TypeOK
      <4>2. acct'[a].error => acct'[a].rev \in revoked[a]
        BY <1>1, <3>1, <4>1, ObservedEffect DEF TypeInv, RejectionInv, Observe, Record
      <4>3. QED
        BY <1>1, <4>1, <4>2 DEF RejectionInv
    <3>2. CASE UNCHANGED acct
      BY <3>2 DEF RejectionInv
    <3>3. QED
      BY <1>3, <3>1, <3>2 DEF Proxy, ReadState, LoadTokens, Answer, GiveUp, Record
  <2>3. \A x \in Request :
           req'[x].pc = "answered" /\ req'[x].reply.kind = "unauthorized"
           => req'[x].current.rev \in revoked[req'[x].current.account]
    <3>1. CASE Answer(r)
      <4>1. PICK told \in RepliesTo(req[r].current) :
               /\ req'[r].reply.kind = told.kind
               /\ req'[r].current = req[r].current
               /\ \A x \in Request \ {r} : req'[x] = req[x]
        BY <1>1, <3>1 DEF Answer, RequestState
      <4>2. told.kind = "unauthorized" =>
               req[r].current.rev \in revoked[req[r].current.account]
        BY <4>1 DEF RepliesTo
      <4>3. QED
        BY <4>1, <4>2 DEF RejectionInv
    <3>2. CASE req'[r].pc # "answered" /\ \A x \in Request \ {r} : req'[x] = req[x]
      BY <3>2 DEF RejectionInv
    <3>3. ASSUME ~Answer(r)
          PROVE  \E q : \/ Send(r, q)
                        \/ req' = [req EXCEPT ![r] = q] /\ q.pc # "answered"
      <4>1. Idle.pc = "idle"
        BY DEF Idle
      <4>2. CASE ReadState(r)
        <5>1. PICK found : req' = [req EXCEPT ![r] =
                             [Idle EXCEPT !.pc = "lookup", !.active = active,
                                          !.found = found]]
          BY <4>2 DEF ReadState
        <5>2. [Idle EXCEPT !.pc = "lookup", !.active = active,
                           !.found = found].pc = "lookup"
          BY DEF Idle
        <5>3. QED
          BY <5>1, <5>2
      <4>3. CASE LoadTokens(r)
        BY <4>1, <4>3, Zenon DEF LoadTokens
      <4>4. CASE GiveUp(r)
        BY <4>1, <4>4 DEF GiveUp
      <4>5. CASE Record(r)
        BY <4>1, <4>5, Zenon DEF Record
      <4>6. QED
        BY <1>3, <3>3, <4>2, <4>3, <4>4, <4>5 DEF Proxy
    <3>4. CASE ~Answer(r)
      <4>1. PICK q : \/ Send(r, q)
                     \/ req' = [req EXCEPT ![r] = q] /\ q.pc # "answered"
        BY <3>3, <3>4
      <4>2. CASE Send(r, q)
        <5>1. req'[r].pc # "answered" /\ \A x \in Request \ {r} : req'[x] = req[x]
          BY <1>1, <4>2 DEF Send
        <5>2. QED
          BY <3>2, <5>1
      <4>3. CASE req' = [req EXCEPT ![r] = q] /\ q.pc # "answered"
        <5>1. req'[r].pc # "answered" /\ \A x \in Request \ {r} : req'[x] = req[x]
          BY <1>1, <4>3
        <5>2. QED
          BY <3>2, <5>1
      <4>4. QED
        BY <4>1, <4>2, <4>3
    <3>5. QED
      BY <3>1, <3>4
  <2>4. QED
    BY <2>1, <2>2, <2>3 DEF RejectionInv
<1>4. ASSUME NEW p \in Prober, BeginProbe(p) \/ AbandonProbe(p)
      PROVE  RejectionInv'
  <2>1. /\ UNCHANGED <<acct, revoked, req>>
        /\ \A x \in Prober \ {p} : probe'[x] = probe[x]
    BY <1>1, <1>4 DEF BeginProbe, AbandonProbe
  <2>2. \A a \in Account : probe'[p].acct[a].error => probe'[p].acct[a].rev \in revoked[a]
    <3>1. CASE BeginProbe(p)
      <4>1. \A a \in Account : /\ probe'[p].acct[a].error = acct[a].error
                               /\ probe'[p].acct[a].rev = acct[a].rev
        BY <1>1, <3>1 DEF BeginProbe, AccountState
      <4>2. QED
        BY <4>1 DEF RejectionInv
    <3>2. CASE AbandonProbe(p)
      BY <1>1, <3>2 DEF AbandonProbe, NoProbe, Fresh
    <3>3. QED
      BY <1>4, <3>1, <3>2
  <2>3. QED
    BY <2>1, <2>2 DEF RejectionInv
<1>5. ASSUME NEW p \in Prober, NEW a \in Account, ProbeAccount(p, a)
      PROVE  RejectionInv'
  <2>1. UNCHANGED <<acct, revoked, req>>
    BY <1>5 DEF ProbeAccount
  <2>2. PICK result : /\ Learned(a, probe[p].acct[a], result)
                      /\ Rated(p, a, result) \/ Unselectable(p, a, result)
    BY <1>5, ProbeAccountEffect
  <2>3. /\ \A x \in Prober \ {p} : probe'[x] = probe[x]
        /\ probe'[p].acct = [probe[p].acct EXCEPT ![a] = result]
    BY <2>2, RatedEffect DEF Learned
  <2>4. result.error => result.rev \in revoked[a]
    BY <2>2 DEF Learned, RejectionInv
  <2>5. \A b \in Account : probe'[p].acct[b].error => probe'[p].acct[b].rev \in revoked[b]
    <3>1. probe[p].acct \in [Account -> AccountState]
      BY <1>1 DEF ProbeState
    <3>2. QED
      BY <2>3, <2>4, <3>1 DEF RejectionInv
  <2>6. revoked' = revoked
    BY <1>5 DEF ProbeAccount
  <2>7. QED
    BY <2>1, <2>3, <2>5, <2>6 DEF RejectionInv
<1>6. ASSUME NEW p \in Prober, NEW kind \in Kinds, FinishProbe(p, kind)
      PROVE  RejectionInv'
  <2>1. /\ UNCHANGED <<revoked, req>>
        /\ probe' = [probe EXCEPT ![p] = NoProbe]
        /\ acct' = Merged(probe[p]) \/ acct' = acct
    BY <1>6 DEF FinishProbe
  <2>2. \A a \in Account : acct'[a].error => acct'[a].rev \in revoked[a]
    BY <1>1, <2>1, MergedEffect DEF RejectionInv, TypeInv
  <2>3. \A x \in Prober, a \in Account :
           probe'[x].acct[a].error => probe'[x].acct[a].rev \in revoked[a]
    BY <1>1, <2>1 DEF RejectionInv, NoProbe, Fresh
  <2>4. QED
    BY <2>1, <2>2, <2>3 DEF RejectionInv
<1>7. ASSUME NEW a \in Account, UserCommand(a)
      PROVE  RejectionInv'
  <2>1. UNCHANGED <<revoked, req, probe>>
    BY <1>7 DEF UserCommand, SwitchAccount, ReplaceToken, RemoveToken, RemoveAccount,
       CreateAccount, ResetProbeState, StatusLine, Command
  <2>2. /\ \A b \in Account \ {a} : acct'[b] = acct[b]
        /\ acct'[a].error => acct'[a].rev = acct[a].rev /\ acct[a].error
    <3>1. acct[a] \in AccountState
      BY <1>1
    <3>2. ASSUME NEW n, acct' = [acct EXCEPT ![a] = n],
                 n.error => n.rev = acct[a].rev /\ acct[a].error
          PROVE  /\ \A b \in Account \ {a} : acct'[b] = acct[b]
                 /\ acct'[a].error => acct'[a].rev = acct[a].rev /\ acct[a].error
      BY <1>1, <3>2
    <3>3. CASE UNCHANGED acct
      BY <3>3
    <3>4. CASE ReplaceToken(a) \/ RemoveToken(a)
      <4>1. \A rev : ~WithToken(a, rev).error
        BY <3>1 DEF WithToken, AccountState
      <4>2. QED
        BY <3>2, <3>3, <3>4, <4>1 DEF ReplaceToken, RemoveToken
    <3>5. CASE RemoveAccount(a) \/ CreateAccount(a)
      <4>1. \A t : ~Fresh(t).error
        BY DEF Fresh
      <4>2. QED
        BY <3>2, <3>5, <4>1 DEF RemoveAccount, CreateAccount
    <3>6. CASE ResetProbeState(a)
      BY <1>1, <3>1, <3>6 DEF ResetProbeState, AccountState
    <3>7. CASE StatusLine(a)
      <4>1. PICK t, l :
               acct' = [acct EXCEPT ![a].usage = [rev |-> acct[a].rev, level |-> l],
                                    ![a].probeAt = t]
        BY <3>7 DEF StatusLine
      <4>2. QED
        BY <1>1, <3>1, <4>1 DEF AccountState
    <3>8. QED
      BY <1>7, <3>3, <3>4, <3>5, <3>6, <3>7 DEF UserCommand, SwitchAccount
  <2>3. QED
    BY <2>1, <2>2 DEF RejectionInv
<1>8. ASSUME NEW a \in Account, RevokeToken(a)
      PROVE  RejectionInv'
  <2>1. /\ UNCHANGED <<acct, req, probe>>
        /\ \A b \in Account : revoked[b] \subseteq revoked'[b] /\ 0 \notin revoked'[b]
    BY <1>1, <1>8 DEF RevokeToken, RejectionInv
  <2>2. \A r \in Request : req[r].pc = "answered" => req[r].current.account \in Account
    BY DEF TypeInv, RequestsOK, Route
  <2>3. QED
    BY <2>1, <2>2 DEF RejectionInv
<1>9. QED
  BY <1>2, <1>3, <1>4, <1>5, <1>6, <1>7, <1>8 DEF Next, Probing

-----------------------------------------------------------------------------
(* How an account can change in one step *)

\* It keeps its token and hears of something not older than what it knew,
Advances(a) ==
    /\ acct'[a].added = acct[a].added /\ acct'[a].rev = acct[a].rev
    /\ acct'[a].probeAt \in acct[a].probeAt..time'

\* or it gets a token it never had, or none,
Retokened(a) ==
    /\ acct'[a].added = acct[a].added /\ acct'[a].probeAt = 0
    /\ \/ acct'[a].rev = 0
       \/ acct'[a].rev = issued[a] + 1 /\ issued'[a] = issued[a] + 1

\* or it is removed or created.
Removed(a) == a \notin known' /\ acct'[a] = Fresh(0)
Created(a) == a \notin known /\ acct'[a] = Fresh(time)

Change(a) ==
    /\ Advances(a) \/ Retokened(a) \/ Removed(a) \/ Created(a)
    /\ a \in known' => a \in known \/ Created(a)

\* The steps that mark account a for the probes under way.
Marks(a) ==
    /\ UNCHANGED probe
    /\ touched' = [p \in Prober |-> IF probe[p].pc = "probing"
                                    THEN touched[p] \cup {a} ELSE {}]
    /\ \/ Advances(a) /\ acct'[a].probeAt > time
       \/ Retokened(a) /\ acct'[a].rev # acct[a].rev
       \/ Removed(a) \/ Created(a)

\* What all steps have in common: accounts change in these ways only, and the
\* probes under way are told of every change but a newer result.
Effect ==
    /\ time' >= time
    /\ switchedAt' = switchedAt \/ switchedAt' = time
    /\ \A a \in Account : issued'[a] >= issued[a] /\ Change(a)

LEMMA UserEffect ==
  ASSUME TypeInv, StampInv, NEW a \in Account, UserCommand(a) \/ RevokeToken(a)
  PROVE  /\ Effect
         /\ UNCHANGED probe
         /\ UNCHANGED touched \/ Marks(a)
<1> USE ConstantsAssumption DEF stateFile
<1>1. /\ acct \in [Account -> AccountState] /\ issued \in [Account -> Revision]
      /\ acct[a] \in AccountState /\ time \in Nat /\ Revision \subseteq Nat
      /\ Time \subseteq Nat
  BY DEF TypeInv, TypeOK, Time, Revision
<1>2. \A b \in Account : /\ acct[b].probeAt \in Nat /\ acct[b].probeAt <= time
                         /\ issued[b] \in Nat /\ acct[b].rev \in Nat
                         /\ acct[b].rev <= issued[b]
  BY <1>1 DEF AccountState, StampInv
<1>3. ASSUME NEW b \in Account, acct'[b] = acct[b], time' \in Nat, time' >= time,
             known' \subseteq known \cup {a}, b # a \/ known' \subseteq known
      PROVE  Change(b)
  BY <1>1, <1>2, <1>3 DEF Change, Advances
<1>4. CASE SwitchAccount(a)
  BY <1>1, <1>2, <1>3, <1>4 DEF SwitchAccount, Command, Effect
<1>5. CASE RevokeToken(a)
  BY <1>1, <1>2, <1>3, <1>5 DEF RevokeToken, Effect
<1>6. CASE ReplaceToken(a)
  <2> DEFINE n == WithToken(a, issued[a] + 1)
  <2>1. /\ time' = time /\ known' = known /\ probe' = probe /\ switchedAt' = switchedAt
        /\ issued' = [issued EXCEPT ![a] = @ + 1]
    BY <1>6 DEF ReplaceToken, Command
  <2>2. CASE UNCHANGED <<acct, touched>>
    BY <1>1, <1>2, <1>3, <2>1, <2>2 DEF Effect
  <2>3. CASE acct' = [acct EXCEPT ![a] = n] /\ Touch(a)
    <3>1. n.added = acct[a].added /\ n.probeAt = 0 /\ n.rev = issued[a] + 1
      BY <1>1 DEF WithToken, AccountState
    <3> HIDE DEF n
    <3>2. Retokened(a) /\ acct'[a].rev # acct[a].rev
      BY <1>1, <1>2, <2>1, <2>3, <3>1 DEF Retokened
    <3>3. \A b \in Account : b # a => acct'[b] = acct[b]
      BY <1>1, <2>3
    <3>4. Effect
      BY <1>1, <1>2, <1>3, <2>1, <3>2, <3>3 DEF Effect, Change
    <3>5. QED
      BY <2>1, <2>3, <3>2, <3>4 DEF Marks, Touch
  <2>4. QED
    BY <1>1, <1>6, <2>1, <2>2, <2>3 DEF ReplaceToken
<1>7. CASE RemoveToken(a)
  <2> DEFINE n == WithToken(a, 0)
  <2>1. /\ time' = time /\ known' = known /\ probe' = probe /\ switchedAt' = switchedAt
        /\ issued' = issued
    BY <1>7 DEF RemoveToken, Command
  <2>2. CASE UNCHANGED <<acct, touched>>
    BY <1>1, <1>2, <1>3, <2>1, <2>2 DEF Effect
  <2>3. CASE /\ acct' = [acct EXCEPT ![a] = n]
             /\ IF acct[a].rev = 0 THEN UNCHANGED touched ELSE Touch(a)
    <3>1. n.added = acct[a].added /\ n.probeAt = 0 /\ n.rev = 0
      BY <1>1 DEF WithToken, AccountState
    <3> HIDE DEF n
    <3>2. Retokened(a) /\ acct'[a].rev = 0
      <4>1. acct'[a] = n
        BY <1>1, <2>3
      <4>2. QED
        BY <3>1, <4>1 DEF Retokened
    <3>3. \A b \in Account : b # a => acct'[b] = acct[b]
      BY <1>1, <2>3
    <3>4. Effect
      BY <1>1, <1>2, <1>3, <2>1, <3>2, <3>3 DEF Effect, Change
    <3>5. QED
      BY <2>1, <2>3, <3>2, <3>4 DEF Marks, Touch
  <2>4. QED
    BY <1>7, <2>2, <2>3 DEF RemoveToken
<1>8. CASE RemoveAccount(a)
  <2>1. /\ time' = time /\ known' = known \ {a} /\ probe' = probe
        /\ switchedAt' = switchedAt /\ issued' = issued /\ Touch(a)
        /\ acct' = [acct EXCEPT ![a] = Fresh(0)]
    BY <1>8 DEF RemoveAccount, Command
  <2>2. Removed(a)
    BY <1>1, <2>1 DEF Removed
  <2>3. \A b \in Account : b # a => acct'[b] = acct[b]
    BY <1>1, <2>1
  <2>4. Effect
    BY <1>1, <1>2, <1>3, <2>1, <2>2, <2>3 DEF Effect, Change
  <2>5. QED
    BY <2>1, <2>2, <2>4 DEF Marks, Touch
<1>9. CASE CreateAccount(a)
  <2>1. /\ time' = time /\ known' = known \cup {a} /\ probe' = probe
        /\ switchedAt' = switchedAt /\ issued' = issued /\ Touch(a)
        /\ acct' = [acct EXCEPT ![a] = Fresh(time)] /\ a \notin known
    BY <1>9 DEF CreateAccount, Command
  <2>2. Created(a)
    BY <1>1, <2>1 DEF Created
  <2>3. \A b \in Account : b # a => acct'[b] = acct[b]
    BY <1>1, <2>1
  <2>4. Effect
    BY <1>1, <1>2, <1>3, <2>1, <2>2, <2>3 DEF Effect, Change
  <2>5. QED
    BY <2>1, <2>2, <2>4 DEF Marks, Touch
<1>10. CASE ResetProbeState(a)
  <2>1. /\ time' = time /\ known' = known /\ probe' = probe /\ touched' = touched
        /\ switchedAt' = switchedAt /\ issued' = issued
        /\ acct' = [acct EXCEPT ![a].error = FALSE, ![a].paused = FALSE]
    BY <1>10 DEF ResetProbeState, Command
  <2>2. Advances(a)
    BY <1>1, <1>2, <2>1 DEF Advances, AccountState
  <2>3. \A b \in Account : b # a => acct'[b] = acct[b]
    BY <1>1, <2>1
  <2>4. QED
    BY <1>1, <1>2, <1>3, <2>1, <2>2, <2>3 DEF Effect, Change
<1>11. CASE StatusLine(a)
  <2>1. PICK t \in acct[a].probeAt..time + 1, l \in Level :
           /\ IF t > time THEN Tick ELSE UNCHANGED time
           /\ acct' = [acct EXCEPT ![a].usage = [rev |-> acct[a].rev, level |-> l],
                                   ![a].probeAt = t]
    BY <1>11 DEF StatusLine
  <2>2. /\ known' = known /\ probe' = probe /\ touched' = touched
        /\ switchedAt' = switchedAt /\ issued' = issued
    BY <1>11 DEF StatusLine, Command
  <2>3. time' \in Nat /\ time' >= time /\ t <= time'
    BY <1>1, <1>2, <2>1 DEF Tick
  <2>4. /\ acct'[a].added = acct[a].added /\ acct'[a].rev = acct[a].rev
        /\ acct'[a].probeAt = t
    BY <1>1, <2>1 DEF AccountState
  <2>5. Advances(a)
    BY <1>2, <2>1, <2>3, <2>4 DEF Advances
  <2>6. \A b \in Account : b # a => acct'[b] = acct[b]
    BY <1>1, <2>1
  <2>7. QED
    BY <1>1, <1>2, <1>3, <2>2, <2>3, <2>5, <2>6 DEF Effect, Change
<1>12. QED
  BY <1>4, <1>5, <1>6, <1>7, <1>8, <1>9, <1>10, <1>11 DEF UserCommand

LEMMA ProxyEffect ==
  ASSUME TypeInv, StampInv, NEW r \in Request, Proxy(r)
  PROVE  /\ Effect
         /\ UNCHANGED probe
         /\ UNCHANGED touched \/ \E a \in Account : Marks(a)
<1> USE ConstantsAssumption DEF stateFile
<1>1. /\ acct \in [Account -> AccountState] /\ issued \in [Account -> Revision]
      /\ time \in Nat /\ Revision \subseteq Nat /\ Time \subseteq Nat
  BY DEF TypeInv, TypeOK, Time, Revision
<1>2. \A b \in Account : /\ acct[b].probeAt \in Nat /\ acct[b].probeAt <= time
                         /\ issued[b] \in Nat
  BY <1>1 DEF AccountState, StampInv
<1>3. UNCHANGED <<probe, issued>>
  BY DEF Proxy, ReadState, LoadTokens, Answer, GiveUp, Record
<1>4. time' \in Nat /\ time' >= time
  <2>1. time' = time \/ time' = time + 1
    BY DEF Proxy, ReadState, LoadTokens, Answer, GiveUp, Record, Observe, Tick
  <2>2. QED
    BY <1>1, <2>1
<1>5. CASE Record(r) /\ Observe(req[r])
  <2> DEFINE a == req[r].current.account
             reply == req[r].reply
  <2>1. /\ a \in Account
        /\ known' = known
        /\ acct' = [acct EXCEPT ![a] = Observed(a, reply)]
        /\ switchedAt' = switchedAt \/ switchedAt' = time
    BY <1>5 DEF Observe, TypeInv, TypeOK
  <2>2. /\ acct'[a].added = acct[a].added /\ acct'[a].rev = acct[a].rev
        /\ acct'[a].probeAt = IF reply.kind = "unauthorized" THEN time'
                                                            ELSE acct[a].probeAt
    BY <1>1, <2>1, ObservedEffect DEF TypeInv
  <2>3. \A b \in Account : b # a => acct'[b] = acct[b]
    BY <1>1, <2>1
  <2> HIDE DEF a, reply
  <2>4. \A b \in Account : Advances(b)
    BY <1>2, <1>4, <1>1, <2>2, <2>3 DEF Advances
  <2>5. Effect
    BY <1>1, <1>2, <1>3, <1>4, <2>1, <2>4 DEF Effect, Change
  <2>6. UNCHANGED touched \/ Marks(a)
    <3>1. CASE reply.kind = "unauthorized"
      <4>1. Touch(a) /\ time' = time + 1
        BY <1>5, <3>1 DEF Observe, Tick, a, reply
      <4>2. acct'[a].probeAt > time
        BY <1>1, <2>2, <3>1, <4>1
      <4>3. QED
        BY <1>3, <2>1, <2>4, <4>1, <4>2 DEF Marks, Touch
    <3>2. CASE reply.kind # "unauthorized"
      BY <1>5, <3>2 DEF Observe, reply
    <3>3. QED
      BY <3>1, <3>2
  <2>7. QED
    BY <1>3, <2>1, <2>5, <2>6
<1>6. CASE UNCHANGED <<stateFile, touched>>
  <2>1. \A b \in Account : Advances(b)
    BY <1>1, <1>2, <1>4, <1>6 DEF Advances
  <2>2. QED
    BY <1>1, <1>2, <1>3, <1>4, <1>6, <2>1 DEF Effect, Change
<1>7. QED
  BY <1>5, <1>6 DEF Proxy, ReadState, LoadTokens, Answer, GiveUp, Record

\* A probe that ends may merge what it found, which is then newer.
LEMMA FinishEffect ==
  ASSUME TypeInv, StampInv, NEW p \in Prober, NEW kind \in Kinds, FinishProbe(p, kind)
  PROVE  Effect
<1> USE ConstantsAssumption
<1>1. /\ acct \in [Account -> AccountState] /\ issued \in [Account -> Revision]
      /\ time \in Nat /\ Revision \subseteq Nat /\ Time \subseteq Nat
      /\ probe[p] \in ProbeState
  BY DEF TypeInv, TypeOK, Time, Revision
<1>2. \A b \in Account : /\ acct[b].probeAt \in Nat /\ acct[b].probeAt <= time
                         /\ issued[b] \in Nat
  BY <1>1 DEF AccountState, StampInv
<1>3. /\ UNCHANGED <<time, known, issued>>
      /\ acct' = Merged(probe[p]) \/ acct' = acct
      /\ switchedAt' = switchedAt \/ switchedAt' = time
      /\ probe[p].pc = "probing"
  BY DEF FinishProbe
<1>4. \A b \in probe[p].known : /\ probe[p].acct[b].probeAt \in Nat
                                /\ probe[p].acct[b].probeAt <= time
  BY <1>1, <1>3 DEF StampInv, ProbeState
<1>5. ASSUME NEW b \in Account
      PROVE  Advances(b)
  <2>1. CASE acct'[b] = acct[b]
    BY <1>1, <1>2, <1>3, <2>1 DEF Advances
  <2>2. CASE acct' = Merged(probe[p])
    BY <1>1, <1>2, <1>3, <1>4, <2>2, MergedEffect DEF Advances, TypeInv
  <2>3. QED
    BY <1>3, <2>1, <2>2
<1>6. QED
  BY <1>1, <1>2, <1>3, <1>5 DEF Effect, Change

\* Other steps of a probe leave the state alone.
LEMMA ProbeEffect ==
  ASSUME TypeInv, StampInv, UNCHANGED <<stateFile, issued>>,
         time' = time \/ time' = time + 1
  PROVE  Effect /\ \A a \in Account : Advances(a)
<1>1. /\ acct \in [Account -> AccountState] /\ issued \in [Account -> Revision]
      /\ time \in Nat /\ Revision \subseteq Nat /\ Time \subseteq Nat
  BY ConstantsAssumption DEF TypeInv, TypeOK, Time, Revision
<1>2. \A b \in Account : /\ acct[b].probeAt \in Nat /\ acct[b].probeAt <= time
                         /\ issued[b] \in Nat
  BY <1>1 DEF AccountState, StampInv
<1>3. \A b \in Account : Advances(b)
  BY <1>1, <1>2 DEF Advances, stateFile
<1>4. QED
  BY <1>1, <1>2, <1>3 DEF Effect, Change, stateFile

LEMMA StateStamps ==
  ASSUME TypeInv, StampInv, Effect, TypeInv'
  PROVE  /\ switchedAt' <= time'
         /\ \A a \in Account : /\ acct'[a].probeAt <= time'
                               /\ acct'[a].added <= time'
                               /\ acct'[a].rev <= issued'[a]
<1> USE ConstantsAssumption
<1>1. /\ acct \in [Account -> AccountState] /\ issued \in [Account -> Revision]
      /\ acct' \in [Account -> AccountState] /\ issued' \in [Account -> Revision]
      /\ time \in Nat /\ time' \in Nat /\ switchedAt \in Nat
      /\ Revision \subseteq Nat /\ Time \subseteq Nat
  BY DEF TypeInv, TypeOK, Time, Revision
<1>2. \A t \in Time : Fresh(t).probeAt = 0 /\ Fresh(t).added = t /\ Fresh(t).rev = 0
  BY DEF Fresh
<1>3. ASSUME NEW a \in Account
      PROVE  /\ acct'[a].probeAt <= time' /\ acct'[a].added <= time'
             /\ acct'[a].rev <= issued'[a]
  <2>1. /\ acct[a].probeAt \in Nat /\ acct[a].added \in Nat /\ acct[a].rev \in Nat
        /\ acct'[a].rev \in Nat /\ issued[a] \in Nat /\ issued'[a] \in Nat
        /\ acct[a].added <= time /\ acct[a].rev <= issued[a]
        /\ issued'[a] >= issued[a] /\ time' >= time
    BY <1>1 DEF AccountState, StampInv, Effect
  <2>2. CASE Advances(a)
    BY <1>1, <2>1, <2>2 DEF Advances
  <2>3. CASE Retokened(a)
    BY <1>1, <2>1, <2>3 DEF Retokened
  <2>4. CASE Removed(a) \/ Created(a)
    <3>1. 0 \in Time /\ time \in Time
      BY DEF TypeInv, TypeOK, Time
    <3>2. QED
      BY <1>1, <1>2, <2>1, <2>4, <3>1 DEF Removed, Created
  <2>5. QED
    BY <2>2, <2>3, <2>4 DEF Effect, Change
<1>4. switchedAt' <= time'
  BY <1>1 DEF Effect, StampInv
<1>5. QED
  BY <1>3, <1>4

\* What StampInv says of one probe.
ProbeStamps(P) ==
    P.pc = "probing" =>
        /\ P.started <= time
        /\ P.switchedAt < P.started
        /\ \A a \in P.known : /\ P.acct[a].probeAt = P.started
                              /\ P.acct[a].added < P.started
                              /\ P.acct[a].rev <= issued[a]

\* A probe that is under way stays later than all it has read.
LEMMA StampsKept ==
  ASSUME TypeInv, TypeInv', StampInv, Effect, NEW p \in Prober,
         probe'[p].pc = probe[p].pc, probe'[p].started = probe[p].started,
         probe'[p].switchedAt = probe[p].switchedAt,
         probe'[p].known = probe[p].known,
         \A a \in probe[p].known :
            /\ probe'[p].acct[a].probeAt = probe[p].acct[a].probeAt
            /\ probe'[p].acct[a].added = probe[p].acct[a].added
            /\ probe'[p].acct[a].rev = probe[p].acct[a].rev
  PROVE  ProbeStamps(probe[p])'
<1> USE ConstantsAssumption
<1>1. /\ issued \in [Account -> Revision] /\ issued' \in [Account -> Revision]
      /\ time \in Nat /\ time' \in Nat /\ probe[p] \in ProbeState
      /\ Revision \subseteq Nat /\ Time \subseteq Nat
  BY DEF TypeInv, TypeOK, Time, Revision
<1>2. /\ probe[p].started \in Nat /\ probe[p].known \subseteq Account
      /\ \A a \in Account : probe[p].acct[a].rev \in Nat
  BY <1>1 DEF ProbeState, AccountState
<1>3. ProbeStamps(probe[p])
  BY DEF StampInv, ProbeStamps
<1>4. time' >= time /\ \A a \in Account : issued'[a] >= issued[a]
  BY DEF Effect
<1>5. ASSUME probe[p].pc = "probing"
      PROVE  /\ probe[p].started <= time' /\ probe[p].switchedAt < probe[p].started
             /\ \A a \in probe[p].known :
                   /\ probe[p].acct[a].probeAt = probe[p].started
                   /\ probe[p].acct[a].added < probe[p].started
                   /\ probe[p].acct[a].rev <= issued'[a]
  <2>1. ASSUME NEW a \in probe[p].known
        PROVE  probe[p].acct[a].rev <= issued'[a]
    <3>1. /\ issued[a] \in Nat /\ issued'[a] \in Nat /\ probe[p].acct[a].rev \in Nat
          /\ issued'[a] >= issued[a]
      BY <1>1, <1>2, <1>4
    <3>2. QED
      BY <1>3, <1>5, <3>1 DEF ProbeStamps
  <2>2. QED
    BY <1>1, <1>2, <1>3, <1>4, <1>5, <2>1 DEF ProbeStamps
<1>6. QED
  BY <1>5 DEF ProbeStamps

LEMMA StampStep ==
  ASSUME TypeInv, StampInv, [Next]_vars
  PROVE  StampInv'
<1> USE ConstantsAssumption
<1>0. TypeInv' /\ probe \in [Prober -> ProbeState]
  BY TypeStep DEF TypeInv, TypeOK
<1>1. ASSUME Effect, \A p \in Prober : ProbeStamps(probe[p])'
      PROVE  StampInv'
  BY <1>0, <1>1, StateStamps DEF StampInv, ProbeStamps
<1>2. ASSUME Effect, UNCHANGED probe
      PROVE  StampInv'
  BY <1>0, <1>1, <1>2, StampsKept
<1>3. ASSUME Effect, NEW p \in Prober, \A x \in Prober \ {p} : probe'[x] = probe[x],
             ProbeStamps(probe[p])'
      PROVE  StampInv'
  <2>1. ASSUME NEW x \in Prober \ {p}
        PROVE  ProbeStamps(probe[x])'
    BY <1>0, <1>3, <2>1, StampsKept
  <2>2. QED
    BY <1>1, <1>3, <2>1
<1>4. CASE UNCHANGED vars
  <2>1. UNCHANGED <<stateFile, issued, probe>> /\ time' = time
    BY <1>4 DEF vars, stateFile
  <2>2. QED
    BY <1>2, <2>1, ProbeEffect
<1>5. ASSUME NEW r \in Request, Proxy(r)
      PROVE  StampInv'
  BY <1>2, <1>5, ProxyEffect
<1>6. ASSUME NEW a \in Account, UserCommand(a) \/ RevokeToken(a)
      PROVE  StampInv'
  BY <1>2, <1>6, UserEffect
<1>7. ASSUME NEW p \in Prober, BeginProbe(p)
      PROVE  StampInv'
  <2>1. Effect
    <3>1. UNCHANGED <<stateFile, issued>> /\ time' = time + 1
      BY <1>7 DEF BeginProbe, Tick
    <3>2. QED
      BY <3>1, ProbeEffect
  <2>2. \A x \in Prober \ {p} : probe'[x] = probe[x]
    BY <1>0, <1>7 DEF BeginProbe
  <2>3. ProbeStamps(probe[p])'
    <3>1. /\ acct \in [Account -> AccountState] /\ issued \in [Account -> Revision]
          /\ time \in Nat /\ switchedAt \in Nat /\ known \subseteq Account
          /\ Time \subseteq Nat /\ Revision \subseteq Nat
      BY DEF TypeInv, TypeOK, Time, Revision
    <3>2. /\ probe'[p].started = time + 1 /\ probe'[p].switchedAt = switchedAt
          /\ probe'[p].known = known /\ issued' = issued /\ time' = time + 1
          /\ \A a \in known :
                probe'[p].acct[a] = [acct[a] EXCEPT !.probeAt = time + 1]
      BY <1>0, <1>7, <3>1 DEF BeginProbe, Tick
    <3>3. \A a \in known : /\ probe'[p].acct[a].probeAt = time + 1
                           /\ probe'[p].acct[a].added = acct[a].added
                           /\ probe'[p].acct[a].rev = acct[a].rev
                           /\ acct[a].added \in Nat
      <4> TAKE a \in known
      <4>1. acct[a] \in AccountState /\ acct[a].added \in Nat
        BY <3>1 DEF AccountState
      <4>2. probe'[p].acct[a] = [acct[a] EXCEPT !.probeAt = time + 1]
        BY <3>2
      <4>3. QED
        BY <4>1, <4>2 DEF AccountState
    <3>4. \A a \in known : acct[a].added < time + 1 /\ acct[a].rev <= issued[a]
      BY <3>1, <3>3 DEF StampInv
    <3>5. switchedAt < time + 1
      BY <3>1 DEF StampInv
    <3>6. QED
      BY <3>1, <3>2, <3>3, <3>4, <3>5 DEF ProbeStamps
  <2>4. QED
    BY <1>3, <2>1, <2>2, <2>3
<1>8. ASSUME NEW p \in Prober, probe' = [probe EXCEPT ![p] = NoProbe], Effect
      PROVE  StampInv'
  <2>1. ProbeStamps(probe[p])'
    BY <1>0, <1>8 DEF ProbeStamps, NoProbe
  <2>2. \A x \in Prober \ {p} : probe'[x] = probe[x]
    BY <1>0, <1>8
  <2>3. QED
    BY <1>3, <1>8, <2>1, <2>2
<1>9. ASSUME NEW p \in Prober, AbandonProbe(p)
      PROVE  StampInv'
  BY <1>8, <1>9, ProbeEffect DEF AbandonProbe
<1>10. ASSUME NEW p \in Prober, NEW kind \in Kinds, FinishProbe(p, kind)
       PROVE  StampInv'
  BY <1>8, <1>10, FinishEffect DEF FinishProbe
<1>11. ASSUME NEW p \in Prober, NEW a \in Account, ProbeAccount(p, a)
       PROVE  StampInv'
  <2>1. Effect
    <3>1. UNCHANGED <<stateFile, issued>> /\ time' = time
      BY <1>11 DEF ProbeAccount
    <3>2. QED
      BY <3>1, ProbeEffect
  <2>2. PICK result : /\ Learned(a, probe[p].acct[a], result)
                      /\ Rated(p, a, result) \/ Unselectable(p, a, result)
    BY <1>11, ProbeAccountEffect
  <2>3. /\ \A x \in Prober \ {p} : probe'[x] = probe[x]
        /\ probe'[p].pc = probe[p].pc /\ probe'[p].started = probe[p].started
        /\ probe'[p].known = probe[p].known
        /\ probe'[p].switchedAt = probe[p].switchedAt
        /\ probe'[p].acct = [probe[p].acct EXCEPT ![a] = result]
    BY <2>2, RatedEffect DEF Learned
  <2>4. \A b \in probe[p].known :
           /\ probe'[p].acct[b].probeAt = probe[p].acct[b].probeAt
           /\ probe'[p].acct[b].added = probe[p].acct[b].added
           /\ probe'[p].acct[b].rev = probe[p].acct[b].rev
    BY <1>0, <2>2, <2>3 DEF Learned, ProbeState
  <2>5. ProbeStamps(probe[p])'
    BY <1>0, <2>1, <2>3, <2>4, StampsKept
  <2>6. QED
    BY <1>3, <2>1, <2>3, <2>5
<1>12. QED
  BY <1>4, <1>5, <1>6, <1>7, <1>9, <1>10, <1>11 DEF Next, Probing

-----------------------------------------------------------------------------
(* A probe that something happened to behind its back can tell *)

\* What a probe has read of an account stays out of date.
LEMMA OutdatedStays ==
  ASSUME TypeInv, TypeInv', Effect,
         NEW P \in ProbeState, NEW a \in known',
         P.acct[a].rev # 0, P.acct[a].rev <= issued[a], P.acct[a].added < time,
         a \in known => Outdated(P, a)
  PROVE  \/ acct'[a].added # P.acct[a].added
         \/ acct'[a].rev # P.acct[a].rev
         \/ acct'[a].probeAt > P.acct[a].probeAt
<1> USE ConstantsAssumption
<1>1. /\ acct \in [Account -> AccountState] /\ acct' \in [Account -> AccountState]
      /\ issued \in [Account -> Revision] /\ a \in Account
      /\ time \in Nat /\ time \in Time /\ Time \subseteq Nat /\ Revision \subseteq Nat
  BY DEF TypeInv, TypeOK, Time, Revision
<1>2. /\ P.acct[a].rev \in Nat /\ P.acct[a].added \in Nat /\ P.acct[a].probeAt \in Nat
      /\ acct[a].probeAt \in Nat /\ acct'[a].probeAt \in Nat /\ issued[a] \in Nat
  BY <1>1 DEF ProbeState, AccountState
<1>3. CASE Created(a)
  BY <1>1, <1>2, <1>3 DEF Created, Fresh
<1>4. CASE Retokened(a)
  BY <1>2, <1>4 DEF Retokened
<1>5. CASE Advances(a) /\ a \in known
  BY <1>2, <1>5 DEF Advances, Outdated
<1>6. QED
  BY <1>1, <1>3, <1>4, <1>5 DEF Effect, Change, Removed

\* A step that marks an account makes what the probes have read of it out of
\* date.
LEMMA MarkedOutdated ==
  ASSUME TypeInv, TypeInv', NEW a \in Account, Marks(a), a \in known',
         NEW P \in ProbeState,
         P.acct[a].rev # 0, P.acct[a].rev <= issued[a], P.acct[a].added < time,
         P.acct[a].probeAt <= time
  PROVE  \/ acct'[a].added # P.acct[a].added
         \/ acct'[a].rev # P.acct[a].rev
         \/ acct'[a].probeAt > P.acct[a].probeAt
<1> USE ConstantsAssumption
<1>1. /\ acct \in [Account -> AccountState] /\ acct' \in [Account -> AccountState]
      /\ issued \in [Account -> Revision]
      /\ time \in Nat /\ time \in Time /\ Time \subseteq Nat /\ Revision \subseteq Nat
  BY DEF TypeInv, TypeOK, Time, Revision
<1>2. /\ P.acct[a].rev \in Nat /\ P.acct[a].added \in Nat /\ P.acct[a].probeAt \in Nat
      /\ acct'[a].probeAt \in Nat /\ issued[a] \in Nat
  BY <1>1 DEF ProbeState, AccountState
<1>3. CASE Created(a)
  BY <1>1, <1>2, <1>3 DEF Created, Fresh
<1>4. CASE Retokened(a)
  BY <1>2, <1>4 DEF Retokened
<1>5. CASE Advances(a) /\ acct'[a].probeAt > time
  BY <1>1, <1>2, <1>5
<1>6. QED
  BY <1>3, <1>4, <1>5 DEF Marks, Removed

\* What TouchInv says of one probe.
TouchOf(p) ==
    /\ probe[p].pc = "idle" => touched[p] = {}
    /\ \A a \in probe[p].known :
          probe[p].score[a] # Unknown => probe[p].acct[a].rev # 0
    /\ \A a \in touched[p] \cap known \cap probe[p].known :
          probe[p].acct[a].rev = 0 \/ Outdated(probe[p], a)

LEMMA ReadEarlier ==
  ASSUME TypeInv, StampInv, NEW p \in Prober, probe[p].pc = "probing",
         NEW a \in probe[p].known
  PROVE  /\ probe[p].acct[a].rev <= issued[a]
         /\ probe[p].acct[a].added < time
         /\ probe[p].acct[a].probeAt <= time
<1>1. /\ probe[p].started \in Nat /\ time \in Nat /\ a \in Account
      /\ probe[p].acct[a].added \in Nat
  BY DEF TypeInv, TypeOK, Time, ProbeState, AccountState
<1>2. QED
  BY <1>1 DEF StampInv

LEMMA TouchKept ==
  ASSUME TypeInv, TypeInv', StampInv, TouchInv, Effect, NEW p \in Prober,
         probe'[p].pc = probe[p].pc, probe'[p].known = probe[p].known,
         touched'[p] = touched[p],
         \A a \in probe[p].known :
            /\ probe'[p].acct[a].probeAt = probe[p].acct[a].probeAt
            /\ probe'[p].acct[a].added = probe[p].acct[a].added
            /\ probe'[p].acct[a].rev = probe[p].acct[a].rev
            /\ probe'[p].score[a] = probe[p].score[a] \/ probe[p].acct[a].rev # 0
  PROVE  TouchOf(p)'
<1>1. probe[p] \in ProbeState
  BY DEF TypeInv, TypeOK
<1>2. ASSUME NEW a \in touched'[p] \cap known' \cap probe'[p].known,
             probe'[p].acct[a].rev # 0
      PROVE  Outdated(probe[p], a)'
  <2>1. probe[p].pc = "probing" /\ a \in probe[p].known /\ probe[p].acct[a].rev # 0
    BY <1>1, <1>2 DEF TouchInv, ProbeState
  <2>2. a \in known => Outdated(probe[p], a)
    BY <1>2, <2>1 DEF TouchInv
  <2>3. \/ acct'[a].added # probe[p].acct[a].added
        \/ acct'[a].rev # probe[p].acct[a].rev
        \/ acct'[a].probeAt > probe[p].acct[a].probeAt
    BY <1>1, <1>2, <2>1, <2>2, ReadEarlier, OutdatedStays
  <2>4. QED
    BY <2>1, <2>3 DEF Outdated
<1>3. QED
  BY <1>2 DEF TouchOf, TouchInv

LEMMA TouchMarked ==
  ASSUME TypeInv, TypeInv', StampInv, TouchInv, Effect, NEW a \in Account, Marks(a)
  PROVE  TouchInv'
<1> SUFFICES ASSUME NEW p \in Prober
             PROVE  TouchOf(p)'
  BY DEF TouchInv, TouchOf
<1>1. probe' = probe /\ probe[p] \in ProbeState
  BY DEF TypeInv, TypeOK, Marks
<1>2. touched'[p] = IF probe[p].pc = "probing" THEN touched[p] \cup {a} ELSE {}
  BY DEF Marks
<1>3. ASSUME NEW b \in touched'[p] \cap known' \cap probe[p].known,
             probe[p].acct[b].rev # 0
      PROVE  Outdated(probe[p], b)'
  <2>1. /\ probe[p].pc = "probing" /\ b \in probe[p].known
        /\ b \in touched[p] \/ b = a
    BY <1>2, <1>3
  <2>2. CASE b = a
    <3>1. \/ acct'[a].added # probe[p].acct[a].added
          \/ acct'[a].rev # probe[p].acct[a].rev
          \/ acct'[a].probeAt > probe[p].acct[a].probeAt
      BY <1>1, <1>3, <2>1, <2>2, ReadEarlier, MarkedOutdated
    <3>2. QED
      BY <1>1, <2>2, <3>1 DEF Outdated
  <2>3. CASE b \in touched[p]
    <3>1. b \in known => Outdated(probe[p], b)
      BY <1>3, <2>1, <2>3 DEF TouchInv
    <3>2. \/ acct'[b].added # probe[p].acct[b].added
          \/ acct'[b].rev # probe[p].acct[b].rev
          \/ acct'[b].probeAt > probe[p].acct[b].probeAt
      BY <1>1, <1>3, <2>1, <3>1, ReadEarlier, OutdatedStays
    <3>3. QED
      BY <1>1, <3>2 DEF Outdated
  <2>4. QED
    BY <2>1, <2>2, <2>3
<1>4. probe[p].pc = "idle" => touched'[p] = {}
  BY <1>2
<1>5. QED
  BY <1>1, <1>3, <1>4 DEF TouchOf, TouchInv

LEMMA TouchStep ==
  ASSUME TypeInv, StampInv, TouchInv, [Next]_vars
  PROVE  TouchInv'
<1> USE ConstantsAssumption
<1>0. TypeInv' /\ probe \in [Prober -> ProbeState]
      /\ touched \in [Prober -> SUBSET Account]
  BY TypeStep DEF TypeInv, TypeOK
<1>1. ASSUME \A p \in Prober : TouchOf(p)'
      PROVE  TouchInv'
  BY <1>1 DEF TouchInv, TouchOf
<1>2. ASSUME Effect, UNCHANGED <<probe, touched>>
      PROVE  TouchInv'
  BY <1>0, <1>1, <1>2, TouchKept
<1>3. ASSUME Effect, NEW p \in Prober, TouchOf(p)',
             \A x \in Prober \ {p} : probe'[x] = probe[x] /\ touched'[x] = touched[x]
      PROVE  TouchInv'
  <2>1. ASSUME NEW x \in Prober \ {p}
        PROVE  TouchOf(x)'
    BY <1>0, <1>3, <2>1, TouchKept
  <2>2. QED
    BY <1>1, <1>3, <2>1
<1>4. CASE UNCHANGED vars
  <2>1. UNCHANGED <<stateFile, issued, probe, touched>> /\ time' = time
    BY <1>4 DEF vars, stateFile
  <2>2. QED
    BY <1>2, <2>1, ProbeEffect
<1>5. ASSUME NEW r \in Request, Proxy(r)
      PROVE  TouchInv'
  BY <1>0, <1>2, <1>5, ProxyEffect, TouchMarked
<1>6. ASSUME NEW a \in Account, UserCommand(a) \/ RevokeToken(a)
      PROVE  TouchInv'
  BY <1>0, <1>2, <1>6, UserEffect, TouchMarked
<1>7. ASSUME NEW p \in Prober, BeginProbe(p)
      PROVE  TouchInv'
  <2>1. UNCHANGED <<stateFile, issued, touched>> /\ time' = time + 1
    BY <1>7 DEF BeginProbe, Tick
  <2>2. \A x \in Prober \ {p} : probe'[x] = probe[x]
    BY <1>0, <1>7 DEF BeginProbe
  <2>3. touched[p] = {}
    BY <1>7 DEF BeginProbe, TouchInv
  <2>4. \A a \in Account : probe'[p].score[a] = Unknown
    BY <1>0, <1>7 DEF BeginProbe
  <2>5. probe'[p].known \subseteq Account
    BY <1>0 DEF TypeInv, TypeOK, ProbeState
  <2>6. TouchOf(p)'
    BY <2>1, <2>3, <2>4, <2>5 DEF TouchOf
  <2>7. QED
    BY <1>3, <2>1, <2>2, <2>6, ProbeEffect
<1>8. ASSUME NEW p \in Prober, Effect, probe' = [probe EXCEPT ![p] = NoProbe],
             touched' = [touched EXCEPT ![p] = {}]
      PROVE  TouchInv'
  <2>1. /\ probe'[p] = NoProbe /\ touched'[p] = {}
        /\ \A x \in Prober \ {p} : probe'[x] = probe[x] /\ touched'[x] = touched[x]
    BY <1>0, <1>8
  <2>2. TouchOf(p)'
    BY <2>1 DEF TouchOf, NoProbe
  <2>3. QED
    BY <1>3, <1>8, <2>1, <2>2
<1>9. ASSUME NEW p \in Prober, AbandonProbe(p)
      PROVE  TouchInv'
  BY <1>8, <1>9, ProbeEffect DEF AbandonProbe
<1>10. ASSUME NEW p \in Prober, NEW kind \in Kinds, FinishProbe(p, kind)
       PROVE  TouchInv'
  BY <1>8, <1>10, FinishEffect DEF FinishProbe
<1>11. ASSUME NEW p \in Prober, NEW a \in Account, ProbeAccount(p, a)
       PROVE  TouchInv'
  <2>1. Effect /\ touched' = touched
    <3>1. UNCHANGED <<stateFile, issued, touched>> /\ time' = time
      BY <1>11 DEF ProbeAccount
    <3>2. QED
      BY <3>1, ProbeEffect
  <2>2. PICK result : /\ Learned(a, probe[p].acct[a], result)
                      /\ Rated(p, a, result) \/ Unselectable(p, a, result)
    BY <1>11, ProbeAccountEffect
  <2>3. /\ \A x \in Prober \ {p} : probe'[x] = probe[x]
        /\ probe'[p].pc = probe[p].pc /\ probe'[p].known = probe[p].known
        /\ probe'[p].acct = [probe[p].acct EXCEPT ![a] = result]
        /\ \A b \in Account \ {a} : probe'[p].score[b] = probe[p].score[b]
    BY <2>2, RatedEffect DEF Learned
  <2>4. probe[p].acct \in [Account -> AccountState] /\ probe[p].known \subseteq Account
    BY <1>0 DEF ProbeState
  <2>5. \A b \in probe[p].known :
           /\ probe'[p].acct[b].probeAt = probe[p].acct[b].probeAt
           /\ probe'[p].acct[b].added = probe[p].acct[b].added
           /\ probe'[p].acct[b].rev = probe[p].acct[b].rev
           /\ probe'[p].score[b] = probe[p].score[b] \/ probe[p].acct[b].rev # 0
    BY <1>11, <2>2, <2>3, <2>4, ProbeAccountEffect DEF Learned
  <2>6. TouchOf(p)'
    BY <1>0, <2>1, <2>3, <2>5, TouchKept
  <2>7. QED
    BY <1>3, <2>1, <2>3, <2>6
<1>12. QED
  BY <1>4, <1>5, <1>6, <1>7, <1>9, <1>10, <1>11 DEF Next, Probing

-----------------------------------------------------------------------------
(* The account that was selected when a request began is tried first *)

\* What the invariant says of one request.
SelectionOK(q) ==
    /\ q.pc = "lookup" => \A x \in q.found : x.active = (x.account = q.active)
    /\ q.pc \in {"sent", "answered"} /\ q.sticky =>
          \A a \in Account \ q.excused : q.current.active /\ q.current.account = a

\* Request r goes on to n.
Becomes(r, n) == req' = [req EXCEPT ![r] = n]

LEMMA IdleSelection == SelectionOK(Idle)
BY DEF SelectionOK, Idle

\* Sorting puts one of the lowest rank first.
LEMMA SortedBeginsLowest ==
  ASSUME NEW S, IsFiniteSet(S), S # {}, NEW s \in Sorted(S)
  PROVE  s[1] \in S /\ \A x \in S : x = s[1] \/ Rank(s[1]) <= Rank(x)
<1> DEFINE n == Cardinality(S)
<1>1. n \in Nat \ {0}
  BY FS_CardinalityType, FS_EmptySet
<1>2. s \in [1..n -> S] /\ 1 \in 1..n
  BY <1>1 DEF Sorted
<1>3. \A i, j \in 1..n : i < j => s[i] # s[j] /\ Rank(s[i]) <= Rank(s[j])
  BY <1>2 DEF Sorted
<1>4. \A x \in S : \E i \in 1..n : s[i] = x
  <2>1. IsFiniteSet(1..n) /\ Cardinality(1..n) = n
    BY <1>1, FS_Interval
  <2>2. \A i, j \in 1..n : s[i] = s[j] => i = j
    BY <1>1, <1>3
  <2>3. s \in Injection(1..n, S)
    BY <1>2, <2>2 DEF Injection, IsInjective
  <2>4. s \in Surjection(1..n, S)
    BY <2>1, <2>3, FS_Injection
  <2>5. QED
    BY <1>2, <2>4 DEF Surjection
<1>5. ASSUME NEW x \in S
      PROVE  x = s[1] \/ Rank(s[1]) <= Rank(x)
  <2>1. PICK i \in 1..n : s[i] = x
    BY <1>4
  <2>2. i = 1 \/ 1 < i
    BY <1>1
  <2>3. QED
    BY <1>2, <1>3, <2>1, <2>2
<1>6. QED
  BY <1>2, <1>5

\* Only the account that was selected can still be owed a cause when its
\* candidates are sorted, and only as the first of them.
LEMMA SelectedComesFirst ==
  ASSUME NEW S \in SUBSET Candidate, IsFiniteSet(S), S # {},
         NEW selected, \A x \in S : x.active = (x.account = selected),
         NEW s \in Sorted(S),
         NEW a \in Account \ (Spent(S) \cup (Account \ {selected}))
  PROVE  s[1].active /\ s[1].account = a
<1>1. PICK x \in S : x.account = a /\ x.level # Full /\ x.active
  BY DEF Spent
<1>2. /\ s[1] \in S
      /\ x.level \in {Low, High, Full, Unknown}
      /\ s[1].level \in {Low, High, Full, Unknown}
  BY SortedBeginsLowest, ConstantsAssumption
  DEF Candidate, Low, High, Full, Unknown
<1>3. Rank(x) <= 3 /\ Rank(x) \in Nat /\ Rank(s[1]) \in Nat
  BY <1>1, <1>2 DEF Rank, Low, High, Full, Unknown
<1>4. x = s[1] \/ Rank(s[1]) <= 3
  <2>1. x = s[1] \/ Rank(s[1]) <= Rank(x)
    BY SortedBeginsLowest
  <2>2. QED
    BY <1>3, <2>1
<1>5. s[1].active
  BY <1>1, <1>2, <1>4 DEF Rank, Low, High, Full, Unknown
<1>6. QED
  BY <1>2, <1>5

\* The first route is that of the first candidate.
LEMMA RoutesBegin ==
  ASSUME NEW s \in Seq(Candidate), s # <<>>
  PROVE  /\ Head(RoutesOf(s)).account = s[1].account
         /\ Head(RoutesOf(s)).active = s[1].active
<1>1. RoutesOf(s) \in Seq(Route) /\ RoutesOf(s) # <<>>
  BY RoutesType
<1>2. Head(RoutesOf(s)) = RoutesOf(s)[1] /\ 1 \in DOMAIN s
  BY <1>1, EmptySeq
<1>3. QED
  BY <1>2 DEF RoutesOf

LEMMA SendSelection ==
  ASSUME NEW r \in Request, NEW q \in RequestState, Send(r, q),
         q.sticky => \A a \in Account \ q.excused :
                        Head(q.routes).active /\ Head(q.routes).account = a
  PROVE  \E n : SelectionOK(n) /\ Becomes(r, n)
<1> DEFINE n == [q EXCEPT !.pc = "sent", !.current = Head(q.routes),
                          !.routes = Tail(q.routes), !.reply = NoReply]
<1>1. /\ n.pc = "sent" /\ n.current = Head(q.routes)
      /\ n.sticky = q.sticky /\ n.excused = q.excused
  BY DEF RequestState
<1>2. Becomes(r, n)
  BY DEF Send, Becomes
<1> HIDE DEF n
<1>3. SelectionOK(n)
  BY <1>1 DEF SelectionOK
<1>4. QED
  BY <1>2, <1>3

LEMMA LoadSelection ==
  ASSUME TypeInv, NEW r \in Request, SelectionOK(req[r]), LoadTokens(r)
  PROVE  \E n : SelectionOK(n) /\ Becomes(r, n)
<1> DEFINE q == req[r]
           S == Loaded(q.found)
<1>1. q.found \in SUBSET Candidate /\ IsFiniteSet(q.found)
      /\ \A x \in q.found : x.active = (x.account = q.active)
  BY DEF TypeInv, TypeOK, RequestsOK, RequestState, SelectionOK, LoadTokens
<1>2. S \in SUBSET Candidate /\ IsFiniteSet(S)
  BY <1>1, LoadedType DEF TypeInv
<1>3. \A x \in S : x.active = (x.account = q.active)
  <2>1. SUFFICES ASSUME NEW x \in S PROVE x.active = (x.account = q.active)
    OBVIOUS
  <2>2. PICK y \in q.found : /\ x.active = y.active
                             /\ x.account = y.account
    <3>1. PICK y \in q.found :
            x = [y EXCEPT !.rev = acct[y.account].rev,
                          !.level = IF acct[y.account].rev = y.rev
                                    THEN y.level ELSE Unknown]
      BY <2>1 DEF Loaded
    <3>2. y \in Candidate
      BY <1>1
    <3>3. QED
      BY <3>1, <3>2 DEF Candidate
  <2>3. QED
    BY <1>1, <2>2
<1>4. CASE S = {}
  BY <1>4, IdleSelection DEF LoadTokens, Becomes
<1>5. CASE S # {}
  <2>1. PICK s \in Sorted(S) :
          Send(r, [Idle EXCEPT !.routes = RoutesOf(s),
                               !.excused = Spent(S) \cup (Account \ {q.active})])
    BY <1>5 DEF LoadTokens
  <2> DEFINE m == [Idle EXCEPT !.routes = RoutesOf(s),
                               !.excused = Spent(S) \cup (Account \ {q.active})]
  <2>2. s \in Seq(Candidate) /\ s # <<>>
    BY <1>2, <1>5, SortedIsSequence
  <2>3. m \in RequestState /\ m.routes = RoutesOf(s)
        /\ m.excused = Spent(S) \cup (Account \ {q.active})
    BY <2>2, RoutesType, StartTypes DEF RequestState, Spent
  <2>4. \A a \in Account \ m.excused : s[1].active /\ s[1].account = a
    BY <1>2, <1>3, <1>5, <2>3, SelectedComesFirst
  <2>5. Send(r, m)
    BY <2>1
  <2> HIDE DEF m
  <2>6. QED
    BY <2>2, <2>3, <2>4, <2>5, RoutesBegin, SendSelection
<1>6. QED
  BY <1>4, <1>5

\* A request that goes on from the selected account has been told why, or no
\* longer selects its route.
LEMMA RecordSelection ==
  ASSUME TypeInv, NEW r \in Request, SelectionOK(req[r]), Record(r)
  PROVE  \E n : SelectionOK(n) /\ Becomes(r, n)
<1> DEFINE p == req[r]
           q == [p EXCEPT
                    !.sticky = @ /\ ~StaysPut(p),
                    !.excused = IF p.reply.kind \in {"quota", "unauthorized"}
                                THEN @ \cup {p.current.account} ELSE @]
<1>1. p \in RequestState /\ p.pc = "answered" /\ p.current \in Route
  BY DEF TypeInv, TypeOK, RequestsOK, Record
<1>2. /\ q \in RequestState /\ q.routes = p.routes
      /\ q.current = p.current /\ q.reply = p.reply
      /\ q.sticky = (p.sticky /\ ~StaysPut(p))
      /\ q.excused = IF p.reply.kind \in {"quota", "unauthorized"}
                     THEN p.excused \cup {p.current.account} ELSE p.excused
  BY <1>1 DEF RequestState, Route
<1>3. CASE Becomes(r, Idle)
  BY <1>3, IdleSelection
<1>4. CASE Retries(q) /\ Send(r, q)
  <2>1. q.reply.kind # "ok"
    BY <1>4 DEF Retries
  <2> HIDE DEF q
  <2>2. q.sticky => Account \ q.excused = {}
    <3>1. SUFFICES ASSUME q.sticky, NEW a \in Account \ q.excused
                   PROVE  FALSE
      OBVIOUS
    <3>2. a \in Account \ p.excused /\ p.sticky
      BY <1>2, <3>1
    <3>3. p.current.active /\ p.current.account = a
      BY <1>1, <3>2 DEF SelectionOK
    <3>4. p.reply.kind = "throttled"
      <4>1. p.reply.kind # "ok" /\ p.reply.kind \notin {"quota", "unauthorized"}
        BY <1>2, <2>1, <3>1, <3>3
      <4>2. p.reply.kind \in {"ok", "quota", "throttled", "unauthorized"}
        BY <1>1 DEF RequestState, Reply
      <4>3. QED
        BY <4>1, <4>2
    <3>5. QED
      BY <1>2, <3>1, <3>3, <3>4 DEF StaysPut
  <2>3. QED
    BY <1>2, <1>4, <2>2, SendSelection
<1>5. QED
  BY <1>3, <1>4 DEF Record, Becomes

LEMMA ProxySelection ==
  ASSUME TypeInv, NEW r \in Request, SelectionOK(req[r]), Proxy(r)
  PROVE  \E n : SelectionOK(n) /\ Becomes(r, n)
<1> DEFINE q == req[r]
<1>1. q \in RequestState
  BY DEF TypeInv, TypeOK
<1>2. CASE ReadState(r)
  <2>1. PICK barred, read :
          Becomes(r, [Idle EXCEPT !.pc = "lookup", !.active = active,
                                  !.found = Candidates(barred, read)])
    BY <1>2 DEF ReadState, Becomes
  <2> DEFINE n == [Idle EXCEPT !.pc = "lookup", !.active = active,
                               !.found = Candidates(barred, read)]
  <2>2. n.pc = "lookup" /\ n.active = active /\ n.found = Candidates(barred, read)
    BY DEF Idle
  <2>3. \A x \in Candidates(barred, read) : x.active = (x.account = active)
    BY DEF Candidates
  <2>4. Becomes(r, n)
    BY <2>1
  <2> HIDE DEF n
  <2>5. SelectionOK(n)
    BY <2>2, <2>3 DEF SelectionOK
  <2>6. QED
    BY <2>4, <2>5
<1>3. CASE LoadTokens(r)
  BY <1>3, LoadSelection
<1>4. CASE Answer(r)
  <2>1. PICK reply : req' = [req EXCEPT ![r].pc = "answered", ![r].reply = reply]
    BY <1>4 DEF Answer
  <2> DEFINE n == [q EXCEPT !.pc = "answered", !.reply = reply]
  <2>2. /\ n.pc = "answered" /\ n.current = q.current
        /\ n.sticky = q.sticky /\ n.excused = q.excused
    BY <1>1 DEF RequestState
  <2>3. Becomes(r, n)
    BY <1>1, <2>1 DEF Becomes, RequestState, TypeInv, TypeOK
  <2>4. q.pc = "sent"
    BY <1>4 DEF Answer
  <2> HIDE DEF n
  <2>5. SelectionOK(n)
    BY <2>2, <2>4 DEF SelectionOK
  <2>6. QED
    BY <2>3, <2>5
<1>5. CASE GiveUp(r)
  BY <1>5, IdleSelection DEF GiveUp, Becomes
<1>6. CASE Record(r)
  BY <1>6, RecordSelection
<1>7. QED
  BY <1>2, <1>3, <1>4, <1>5, <1>6 DEF Proxy

\* Nothing but a proxied request's own steps changes its memory.
LEMMA OthersKeepRequests ==
  ASSUME [Next]_vars, \A r \in Request : ~Proxy(r)
  PROVE  UNCHANGED req
<1>1. CASE UNCHANGED vars
  BY <1>1 DEF vars
<1>2. ASSUME NEW p \in Prober, Probing(p)
      PROVE  UNCHANGED req
  <2>1. CASE BeginProbe(p) \/ AbandonProbe(p)
    BY <2>1 DEF BeginProbe, AbandonProbe
  <2>2. ASSUME NEW a \in Account, ProbeAccount(p, a)
        PROVE  UNCHANGED req
    BY <2>2 DEF ProbeAccount
  <2>3. ASSUME NEW kind \in Kinds, FinishProbe(p, kind)
        PROVE  UNCHANGED req
    BY <2>3 DEF FinishProbe
  <2>4. QED
    BY <1>2, <2>1, <2>2, <2>3 DEF Probing
<1>3. ASSUME NEW a \in Account, UserCommand(a) \/ RevokeToken(a)
      PROVE  UNCHANGED req
  BY <1>3 DEF UserCommand, SwitchAccount, ReplaceToken, RemoveToken, RemoveAccount,
     CreateAccount, ResetProbeState, StatusLine, Command, RevokeToken
<1>4. QED
  BY <1>1, <1>2, <1>3 DEF Next

LEMMA SelectionStep ==
  ASSUME TypeInv, SelectionInv, [Next]_vars
  PROVE  SelectionInv'
<1>1. \A r \in Request : SelectionOK(req[r])
  BY DEF SelectionInv, SelectionOK
<1>2. ASSUME \A r \in Request : SelectionOK(req'[r])
      PROVE  SelectionInv'
  BY <1>2 DEF SelectionInv, SelectionOK
<1>3. ASSUME NEW r \in Request, Proxy(r)
      PROVE  SelectionInv'
  <2>1. PICK n : SelectionOK(n) /\ Becomes(r, n)
    BY <1>1, <1>3, ProxySelection
  <2>2. \A x \in Request : req'[x] = IF x = r THEN n ELSE req[x]
    BY <2>1 DEF Becomes, TypeInv, TypeOK
  <2>3. \A x \in Request : SelectionOK(req'[x])
    BY <1>1, <2>1, <2>2
  <2>4. QED
    BY <1>2, <2>3
<1>4. CASE UNCHANGED req
  BY <1>1, <1>2, <1>4
<1>5. QED
  BY <1>3, <1>4, OthersKeepRequests

-----------------------------------------------------------------------------
(* The invariant holds, and what follows from it *)

LEMMA RoutingStep == TypeInv /\ RoutingInv /\ [Next]_vars => RoutingInv'
  BY TypeStep, ActiveStep, RejectionStep, StampStep, TouchStep, SelectionStep
  DEF RoutingInv, TypeInv

LEMMA RoutingInit == Init => RoutingInv
<1> SUFFICES ASSUME Init
             PROVE  RoutingInv
  OBVIOUS
<1> USE ConstantsAssumption
<1>1. [Fresh(1) EXCEPT !.rev = 1].error = FALSE
      /\ [Fresh(1) EXCEPT !.rev = 1].probeAt = 0
      /\ [Fresh(1) EXCEPT !.rev = 1].added = 1
      /\ [Fresh(1) EXCEPT !.rev = 1].rev = 1
      /\ Fresh(0).error = FALSE /\ NoProbe.pc = "idle" /\ NoProbe.known = {}
      /\ NoProbe.acct = [a \in Account |-> Fresh(0)] /\ Idle.pc = "idle"
  BY DEF Fresh, NoProbe, Idle
<1>2. ActiveIsRegistered
  BY DEF Init, ActiveIsRegistered
<1>3. RejectionInv
  BY <1>1 DEF Init, RejectionInv
<1>4. StampInv
  <2>1. \A a \in Account : /\ acct[a].probeAt = 0 /\ acct[a].added = 1
                           /\ acct[a].rev = 1 /\ issued[a] = 1
    BY <1>1 DEF Init
  <2>2. \A p \in Prober : probe[p].pc # "probing"
    BY <1>1 DEF Init
  <2>3. time = 1 /\ switchedAt = 0
    BY DEF Init
  <2>4. QED
    BY <2>1, <2>2, <2>3 DEF StampInv
<1>5. TouchInv
  BY <1>1 DEF Init, TouchInv
<1>6. SelectionInv
  BY <1>1 DEF Init, SelectionInv
<1>7. QED
  BY <1>2, <1>3, <1>4, <1>5, <1>6, TypeInit DEF RoutingInv, TypeInv

\* For any number of accounts, requests and probers: the selected account is
\* registered, a rejection is kept with the token it concerns wherever it is
\* on its way, stamps and probes are ordered in time, and a probe behind whose
\* back an account changed can see it in the stamps it compares
\* (mergeProbeState, serviceStateMatchesSnapshot); and a request that may still
\* select its route has tried the selected account first.
THEOREM RoutingInvariant == Spec => []RoutingInv
<1>1. Init => TypeInv /\ RoutingInv
  BY TypeInit, RoutingInit
<1>2. (TypeInv /\ RoutingInv) /\ [Next]_vars => (TypeInv /\ RoutingInv)'
  BY TypeStep, RoutingStep
<1>3. QED
  BY <1>1, <1>2, PTL DEF Spec

\* The selected account is registered or there is none, whatever is removed
\* while a request or a probe that would select it is under way.
THEOREM SelectionIsRegistered == Spec => []ActiveIsRegistered
<1>1. RoutingInv => ActiveIsRegistered
  BY DEF RoutingInv
<1>2. QED
  BY <1>1, RoutingInvariant, PTL

\* An account is marked as rejected only for the token it has now: neither a
\* late 401 nor a late probe blames the token that replaced the one it used.
THEOREM RejectionIsDeserved == Spec => []RejectionBlamesItsToken
<1>1. TypeInv /\ RoutingInv => RejectionBlamesItsToken
  BY DEF TypeInv, TypeOK, RoutingInv, RejectionInv, RejectionBlamesItsToken
<1>2. Spec => []TypeInv
  BY TypeInit, TypeStep, PTL DEF Spec
<1>3. QED
  BY <1>1, <1>2, RoutingInvariant, PTL

LEMMA ProbeEnds ==
  ASSUME TypeInv, [Next]_vars, NEW p \in Prober,
         probe[p].pc = "probing", probe'[p].pc = "idle"
  PROVE  AbandonProbe(p) \/ \E kind \in Kinds : FinishProbe(p, kind)
<1>1. probe \in [Prober -> ProbeState]
  BY DEF TypeInv, TypeOK
<1>2. ASSUME NEW x \in Prober, Probing(x), x # p
      PROVE  FALSE
  <2>1. CASE BeginProbe(x) \/ AbandonProbe(x) \/ \E kind \in Kinds : FinishProbe(x, kind)
    BY <1>1, <1>2, <2>1 DEF BeginProbe, AbandonProbe, FinishProbe
  <2>2. ASSUME NEW a \in Account, ProbeAccount(x, a)
        PROVE  FALSE
    <3>1. PICK result : /\ Learned(a, probe[x].acct[a], result)
                        /\ Rated(x, a, result) \/ Unselectable(x, a, result)
      BY <2>2, ProbeAccountEffect
    <3>2. probe'[p] = probe[p]
      BY <1>2, <3>1, RatedEffect DEF Learned
    <3>3. QED
      BY <3>2
  <2>3. QED
    BY <1>2, <2>1, <2>2 DEF Probing
<1>3. ASSUME Probing(p)
      PROVE  AbandonProbe(p) \/ \E kind \in Kinds : FinishProbe(p, kind)
  <2>1. ~BeginProbe(p)
    BY DEF BeginProbe
  <2>2. ASSUME NEW a \in Account, ProbeAccount(p, a)
        PROVE  FALSE
    <3>1. PICK result : /\ Learned(a, probe[p].acct[a], result)
                        /\ Rated(p, a, result) \/ Unselectable(p, a, result)
      BY <2>2, ProbeAccountEffect
    <3>2. probe'[p].pc = probe[p].pc
      BY <3>1, RatedEffect DEF Learned
    <3>3. QED
      BY <3>2
  <2>3. QED
    BY <1>3, <2>1, <2>2 DEF Probing
<1>4. ASSUME UNCHANGED probe
      PROVE  FALSE
  BY <1>4
<1>5. ASSUME NEW r \in Request, Proxy(r)
      PROVE  FALSE
  BY <1>4, <1>5 DEF Proxy, ReadState, LoadTokens, Answer, GiveUp, Record
<1>6. ASSUME NEW a \in Account, UserCommand(a) \/ RevokeToken(a)
      PROVE  FALSE
  BY <1>4, <1>6 DEF UserCommand, SwitchAccount, ReplaceToken, RemoveToken,
     RemoveAccount, CreateAccount, ResetProbeState, StatusLine, Command, RevokeToken
<1>7. QED
  BY <1>2, <1>3, <1>4, <1>5, <1>6 DEF Next, vars

\* A probe switches only if nobody has switched since it began, and to an
\* account that was not removed, added again, given another token or rejected
\* since then.
THEOREM SwitchIsCurrent == Spec => ProbeSwitchesOnCurrentFacts
<1>1. ASSUME TypeInv, RoutingInv, [Next]_vars, NEW p \in Prober,
             probe[p].pc = "probing", probe'[p].pc = "idle", active' # active
      PROVE  switchedAt < probe[p].started /\ active' \notin touched[p]
  <2> DEFINE P == probe[p]
             b == active'
  <2>1. PICK kind \in Kinds : FinishProbe(p, kind)
    BY <1>1, ProbeEnds DEF AbandonProbe, stateFile
  <2>2. Matches(P) /\ b \in Best(P)
    BY <1>1, <2>1 DEF FinishProbe
  <2>3. P \in ProbeState /\ acct \in [Account -> AccountState]
    BY <1>1 DEF TypeInv, TypeOK
  <2>4. b \in known /\ b \in P.known /\ b \in Account /\ P.score[b] # Unknown
    BY <2>2, <2>3 DEF Matches, Best, Selectable, ProbeState
  <2>5. switchedAt < P.started
    BY <1>1, <2>2 DEF Matches, RoutingInv, StampInv
  <2>6. /\ acct[b].added = P.acct[b].added /\ acct[b].rev = P.acct[b].rev
        /\ Merged(P)[b].probeAt = P.acct[b].probeAt
    BY <2>2, <2>4 DEF Matches
  <2>7. ~Outdated(P, b)
    <3>1. acct[b].probeAt \in Nat /\ P.acct[b].probeAt \in Nat
      BY <2>3, <2>4 DEF ProbeState, AccountState, Time
    <3>2. acct[b].probeAt <= P.acct[b].probeAt
      BY <1>1, <2>3, <2>4, <2>6, <3>1, MergedEffect DEF TypeInv
    <3>3. QED
      BY <2>6, <3>1, <3>2 DEF Outdated
  <2>8. P.acct[b].rev # 0
    BY <1>1, <2>4 DEF RoutingInv, TouchInv
  <2>9. QED
    BY <1>1, <2>4, <2>5, <2>7, <2>8 DEF RoutingInv, TouchInv
<1>2. TypeInv /\ RoutingInv /\ [Next]_vars =>
        [\A p \in Prober :
            /\ probe[p].pc = "probing" /\ probe'[p].pc = "idle"
            /\ active' # active
            => /\ switchedAt < probe[p].started
               /\ active' \notin touched[p]]_vars
  BY <1>1
<1>3. Spec => []TypeInv
  BY TypeInit, TypeStep, PTL DEF Spec
<1>4. QED
  BY <1>2, <1>3, RoutingInvariant, PTL DEF Spec, ProbeSwitchesOnCurrentFacts

\* "A newer probe timestamp stops an in-flight monitor merge from clearing the
\* rejection with its older result" (claude_proxy.go:714): no probe clears the
\* error of an account that was rejected after the probe began.
THEOREM RejectionOutlives == Spec => RejectionOutlivesOlderProbe
<1>1. ASSUME TypeInv, RoutingInv, [Next]_vars, NEW p \in Prober, NEW a \in Account,
             probe[p].pc = "probing", probe'[p].pc = "idle",
             a \in known, acct[a].error, ~acct'[a].error
      PROVE  a \notin touched[p]
  <2> DEFINE P == probe[p]
  <2>1. PICK kind \in Kinds : FinishProbe(p, kind)
    BY <1>1, ProbeEnds DEF AbandonProbe, stateFile
  <2>2. P \in ProbeState /\ acct \in [Account -> AccountState]
    BY <1>1 DEF TypeInv, TypeOK
  <2>3. acct' = Merged(P) /\ acct'[a] # acct[a]
    BY <1>1, <2>1 DEF FinishProbe
  <2>4. /\ a \in known \cap P.known
        /\ acct[a].added = P.acct[a].added /\ acct[a].rev = P.acct[a].rev
        /\ acct[a].probeAt <= P.acct[a].probeAt
    BY <1>1, <2>2, <2>3, MergedEffect DEF TypeInv
  <2>5. ~Outdated(P, a)
    <3>1. acct[a].probeAt \in Nat /\ P.acct[a].probeAt \in Nat
      BY <2>2 DEF ProbeState, AccountState, Time
    <3>2. QED
      BY <2>4, <3>1 DEF Outdated
  <2>6. P.acct[a].rev # 0
    BY <1>1, <2>4 DEF RoutingInv, RejectionInv
  <2>7. QED
    BY <1>1, <2>4, <2>5, <2>6 DEF RoutingInv, TouchInv
<1>2. TypeInv /\ RoutingInv /\ [Next]_vars =>
        [\A p \in Prober, a \in Account :
            /\ probe[p].pc = "probing" /\ probe'[p].pc = "idle"
            /\ a \in known /\ acct[a].error /\ ~acct'[a].error
            => a \notin touched[p]]_vars
  BY <1>1
<1>3. Spec => []TypeInv
  BY TypeInit, TypeStep, PTL DEF Spec
<1>4. QED
  BY <1>2, <1>3, RoutingInvariant, PTL DEF Spec, RejectionOutlivesOlderProbe

\* The results of overlapping probes, rejections and status lines are taken
\* over in the order of their stamps as long as the account keeps a token:
\* "an older result cannot replace a newer snapshot" (state.go:43).
THEOREM MergedInOrder == Spec => ProbesMergeInOrder
<1>1. ASSUME TypeInv, StampInv, [Next]_vars
      PROVE  Effect
  <2>1. CASE UNCHANGED vars
    <3>1. UNCHANGED <<stateFile, issued>> /\ time' = time
      BY <2>1 DEF vars, stateFile
    <3>2. QED
      BY <1>1, <3>1, ProbeEffect
  <2>2. ASSUME NEW p \in Prober, Probing(p)
        PROVE  Effect
    <3>1. CASE \E kind \in Kinds : FinishProbe(p, kind)
      BY <1>1, <3>1, FinishEffect
    <3>2. CASE /\ UNCHANGED <<stateFile, issued>>
               /\ time' = time \/ time' = time + 1
      BY <1>1, <3>2, ProbeEffect
    <3>3. QED
      BY <2>2, <3>1, <3>2 DEF Probing, BeginProbe, AbandonProbe, ProbeAccount, Tick
  <2>3. QED
    BY <1>1, <2>1, <2>2, ProxyEffect, UserEffect DEF Next
<1>2. ASSUME TypeInv, TypeInv', StampInv, Effect, NEW a \in known \cap known',
             acct'[a].added = acct[a].added, acct'[a].rev = acct[a].rev,
             acct[a].rev # 0
      PROVE  acct'[a].probeAt >= acct[a].probeAt
  <2>1. /\ a \in Account /\ acct[a] \in AccountState /\ issued[a] \in Nat
        /\ acct[a].probeAt \in Nat /\ acct[a].rev \in Nat /\ acct[a].rev <= issued[a]
    BY <1>2 DEF TypeInv, TypeOK, AccountState, Time, Revision, StampInv
  <2>2. CASE Advances(a)
    BY <2>1, <2>2 DEF Advances
  <2>3. ~Retokened(a)
    BY <1>2, <2>1 DEF Retokened
  <2>4. QED
    BY <1>2, <2>1, <2>2, <2>3 DEF Effect, Change, Removed, Created
<1>3. (TypeInv /\ TypeInv') /\ RoutingInv /\ [Next]_vars =>
        [\A a \in known \cap known' :
            /\ acct'[a].added = acct[a].added
            /\ acct'[a].rev = acct[a].rev /\ acct[a].rev # 0
            => acct'[a].probeAt >= acct[a].probeAt]_vars
  BY <1>1, <1>2 DEF RoutingInv
<1>4. Spec => []TypeInv
  BY TypeInit, TypeStep, PTL DEF Spec
<1>5. QED
  BY <1>3, <1>4, RoutingInvariant, PTL DEF Spec, ProbesMergeInOrder

\* "A failover becomes the selected route only when the active account is
\* really out of quota or its token is rejected" (claude_proxy.go:358),
\* whatever other requests, probes and the user do meanwhile.
THEOREM FailoversHaveCauses == Spec => FailoverHasCause
<1>1. ASSUME TypeInv, RoutingInv, Next, NEW r \in Request,
             req[r].pc = "answered", req'[r].pc # "answered", active' # active
      PROVE  active \in req[r].excused \cup {Nobody}
  <2>1. Record(r)
    <3>1. PICK s \in Request : Proxy(s)
      BY <1>1, OthersKeepRequests
    <3>2. PICK n : Becomes(s, n)
      BY <1>1, <3>1, ProxySelection DEF RoutingInv, SelectionInv, SelectionOK
    <3>3. s = r
      BY <1>1, <3>2 DEF Becomes, TypeInv, TypeOK
    <3>4. QED
      BY <1>1, <3>1, <3>3 DEF Proxy, ReadState, LoadTokens, Answer, GiveUp
  <2>2. active' = req[r].current.account /\ req[r].sticky
    BY <1>1, <2>1 DEF Record, Observe, SwitchesTo, stateFile
  <2>3. \A a \in Account \ req[r].excused : req[r].current.account = a
    BY <1>1, <2>2 DEF RoutingInv, SelectionInv
  <2>4. active \in Account \cup {Nobody}
    BY <1>1 DEF TypeInv, TypeOK
  <2>5. QED
    BY <1>1, <2>2, <2>3, <2>4
<1>2. TypeInv /\ RoutingInv /\ [Next]_vars =>
        [\A r \in Request :
            /\ req[r].pc = "answered" /\ req'[r].pc # "answered"
            /\ active' # active
            => active \in req[r].excused \cup {Nobody}]_vars
  BY <1>1
<1>3. Spec => []TypeInv
  BY TypeInit, TypeStep, PTL DEF Spec
<1>4. QED
  BY <1>2, <1>3, RoutingInvariant, PTL DEF Spec, FailoverHasCause

=============================================================================
