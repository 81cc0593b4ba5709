----------------------- MODULE BundleCredentials_proofs -----------------------
(***************************************************************************)
(* Proofs about BundleCredentials: whose login a backup holds, what a      *)
(* probe may write over, and that no login is lost to a rotation.          *)
(***************************************************************************)
EXTENDS BundleCredentials, TLAPS

-----------------------------------------------------------------------------
(* Files *)

\* A login is neither a missing nor a broken file.
LEMMA LoginsAreFiles == Absent \notin Login /\ Broken \notin Login /\ Absent \notin User
BY ConstantsAssumption DEF Login

\* BundleInv in parts that a step touches one at a time.
UpstreamOK ==
    /\ issued \in [User -> 0..MaxTokens]
    /\ valid \in [User -> SUBSET (1..MaxTokens)]

CountersOK ==
    /\ added \in [Account -> 0..MaxChanges]
    /\ changes \in 0..MaxChanges
    /\ landed \in BOOLEAN

AccountOK(bundle, u) ==
    /\ bundle \in Bundle
    /\ bundle.login # Absent
    /\ BelongsTo(bundle, u)

LiveOK ==
    /\ OneFile(live)
    /\ active # Nobody /\ ~WellFormed(live) =>
          owner[active] = Absent \/ live.config # backup[active].config

FilesOK ==
    /\ kind \in Kinds
    /\ live \in Bundle /\ LiveOK
    /\ backup \in [Account -> Bundle]
    /\ owner \in [Account -> User \cup {Nobody, Absent}]
    /\ known \subseteq Account
    /\ active \in known \cup {Nobody}
    /\ switching \in known \cup {Nobody}
    /\ \A a \in known : AccountOK(backup[a], owner[a])

ProbeOK(P) ==
    /\ P \in ProbeState
    /\ P.pc # "idle" => P.account \in Account
    /\ P.login # Absent <=> P.pc \notin {"idle", "begun"}
    /\ P.pc \notin {"idle", "begun", "read"} => P.new # Absent
    /\ P.new # Absent => P.login # Absent /\ P.new.user = P.login.user
    /\ P.pc = "read" /\ kind = "claude" => P.new = Absent

ProbesOK ==
    /\ probe \in [Prober -> ProbeState]
    /\ \A p \in Prober : ProbeOK(probe[p])

LEMMA BundleParts ==
  ASSUME BundleInv
  PROVE  UpstreamOK /\ CountersOK /\ FilesOK /\ ProbesOK /\ WriterInv
BY DEF BundleInv, TypeOK, FilesInv, ProbeInv,
       UpstreamOK, CountersOK, FilesOK, LiveOK, ProbesOK, AccountOK, ProbeOK

LEMMA PartsMakeInv ==
  ASSUME UpstreamOK, CountersOK, FilesOK, ProbesOK, WriterInv
  PROVE  BundleInv
BY DEF BundleInv, TypeOK, FilesInv, ProbeInv, BackupBelongsToAccount, BelongsTo,
       UpstreamOK, CountersOK, FilesOK, LiveOK, ProbesOK, AccountOK, ProbeOK

LEMMA PartsMakeNextInv ==
  ASSUME UpstreamOK', CountersOK', FilesOK', ProbesOK', WriterInv'
  PROVE  BundleInv'
BY DEF BundleInv, TypeOK, FilesInv, ProbeInv, BackupBelongsToAccount, BelongsTo,
       UpstreamOK, CountersOK, FilesOK, LiveOK, ProbesOK, AccountOK, ProbeOK

\* The files a client or another tool writes for a login.
LEMMA BundleOfType ==
  ASSUME NEW u \in User, NEW n \in 1..MaxTokens
  PROVE  /\ BundleOf(u, n) \in Bundle /\ WellFormed(BundleOf(u, n))
         /\ BundleOf(u, n).login = [user |-> u, token |-> n]
         /\ BundleOf(u, n).config \in {u, Absent}
         /\ kind \in Kinds => AccountOK(BundleOf(u, n), u)
<1>1. [user |-> u, token |-> n] \in Login
  BY DEF Login
<1>2. /\ BundleOf(u, n) \in Bundle /\ WellFormed(BundleOf(u, n))
      /\ BundleOf(u, n).login = [user |-> u, token |-> n]
      /\ BundleOf(u, n).config \in {u, Absent}
  BY <1>1 DEF BundleOf, Bundle, WellFormed, NameOf
<1>3. QED
  BY <1>1, <1>2, LoginsAreFiles DEF AccountOK, BelongsTo, OneFile, WellFormed

\* Live files that pass for the account's are of one user.
LEMMA VerifiedIsWellFormed ==
  ASSUME FilesOK, NEW a \in known, Verified(a), owner[a] # Absent, active = a
  PROVE  WellFormed(live)
<1>1. /\ AccountOK(backup[a], owner[a]) /\ live \in Bundle /\ a # Nobody
      /\ kind \in {"claude", "codex"} /\ a \in Account
  BY ConstantsAssumption DEF FilesOK
<1>2. CASE kind = "claude"
  BY <1>1, <1>2 DEF Verified, Identity, FilesOK, LiveOK
<1>3. CASE kind = "codex"
  BY <1>1, <1>3 DEF FilesOK, LiveOK, OneFile, WellFormed
<1>4. QED
  BY <1>1, <1>2, <1>3

\* verifyActiveIdentity does what it is for: a live login that passes is the
\* account's own, and its files say the same as the backup's.
LEMMA VerifiedIsOwn ==
  ASSUME FilesOK, NEW a \in known, Verified(a), live.login \in Login,
         owner[a] # Absent, active = a \/ WellFormed(live)
  PROVE  /\ live.login.user = owner[a]
         /\ backup[a].config = live.config
         /\ WellFormed(live)
<1>1. AccountOK(backup[a], owner[a]) /\ live \in Bundle /\ WellFormed(live)
      /\ WellFormed(backup[a])
  BY VerifiedIsWellFormed DEF FilesOK, AccountOK, BelongsTo
<1>2. kind \in {"claude", "codex"}
  BY ConstantsAssumption DEF FilesOK
<1>3. live.login.user \in User /\ Absent \notin User /\ live.login # Absent
      /\ live.login # Broken
  BY LoginsAreFiles DEF Login
<1>4. Identity(live) = NameOf(live.login.user)
  BY <1>1, <1>2 DEF Identity, WellFormed
<1>5. CASE Identity(live) # Absent
  <2>1. Identity(backup[a]) = live.login.user
    BY <1>4, <1>5 DEF Verified, NameOf
  <2>2. CASE kind = "claude"
    BY <1>1, <1>3, <1>4, <1>5, <2>1, <2>2 DEF Identity, AccountOK, BelongsTo, NameOf
  <2>3. CASE kind = "codex"
    BY <1>1, <1>3, <2>1, <2>3 DEF Identity, AccountOK, BelongsTo, NameOf, WellFormed
  <2>4. QED
    BY <1>2, <2>2, <2>3
<1>6. CASE Identity(live) = Absent
  <2>1. Identity(backup[a]) = Absent
    BY <1>6 DEF Verified
  <2>2. live.login = backup[a].login
    BY <1>1, <1>3, <1>6, <2>1 DEF Verified, AccountOK
  <2>3. backup[a].config = live.config
    BY <1>1, <1>2, <1>6, <2>1 DEF Identity, WellFormed
  <2>4. QED
    BY <1>1, <2>2, <2>3 DEF AccountOK, BelongsTo
<1>7. QED
  BY <1>5, <1>6

\* A login of its own user that is put beside the config the account has, or
\* that the verified live login has, belongs to the account.
LEMMA NewLoginIsOwn ==
  ASSUME FilesOK, NEW a \in known, NEW login \in Login,
         owner[a] # Absent =>
            /\ login.user = owner[a]
            /\ kind = "claude" => backup[a].config = NameOf(login.user)
  PROVE  AccountOK([backup[a] EXCEPT !.login = login], owner[a])
<1> DEFINE n == [backup[a] EXCEPT !.login = login]
<1>1. AccountOK(backup[a], owner[a]) /\ backup[a] \in Bundle
  BY DEF FilesOK, AccountOK
<1>2. n.login = login /\ n.config = backup[a].config /\ n \in Bundle
  BY <1>1 DEF Bundle
<1> HIDE DEF n
<1>3. OneFile(n)
  BY <1>1, <1>2 DEF OneFile, AccountOK, BelongsTo
<1>4. owner[a] # Absent => WellFormed(n)
  BY <1>2, <1>3 DEF WellFormed, OneFile
<1>5. AccountOK(n, owner[a])
  BY <1>1, <1>2, <1>3, <1>4, LoginsAreFiles DEF AccountOK, BelongsTo
<1>6. QED
  BY <1>5 DEF n

\* A live login that passes goes well beside the account's config.
LEMMA VerifiedFits ==
  ASSUME FilesOK, NEW a \in known, Verified(a), live.login \in Login,
         active = a, owner[a] # Absent
  PROVE  /\ live.login.user = owner[a]
         /\ kind = "claude" => backup[a].config = NameOf(live.login.user)
BY VerifiedIsOwn DEF WellFormed

\* syncAccountFiles leaves the account with a login of its own.
LEMMA SyncedIsOwn ==
  ASSUME FilesOK, NEW a \in known, Verified(a), active = a
  PROVE  /\ Synced(a) \in [Account -> Bundle]
         /\ \A b \in known : AccountOK(Synced(a)[b], owner[b])
         /\ \A b \in known : Synced(a)[b].config = backup[b].config
<1>1. /\ \A b \in known : AccountOK(backup[b], owner[b])
      /\ backup \in [Account -> Bundle] /\ a \in Account /\ live \in Bundle
      /\ known \subseteq Account
  BY DEF FilesOK
<1>2. CASE Synced(a) = backup
  BY <1>1, <1>2
<1>3. CASE Synced(a) # backup
  <2> DEFINE n == [backup[a] EXCEPT !.login = live.login]
  <2>1. /\ Synced(a) = [backup EXCEPT ![a] = n]
        /\ live.login # Absent
        /\ live.login = Broken => backup[a].login \notin Login
    BY <1>1, <1>3 DEF Synced
  <2>2. AccountOK(n, owner[a])
    <3>1. CASE live.login \in Login
      BY <1>1, <3>1, VerifiedFits, NewLoginIsOwn
    <3>2. CASE live.login = Broken
      <4>1. n.login = Broken /\ n.config = backup[a].config /\ n \in Bundle
        BY <1>1, <3>2 DEF Bundle
      <4>2. AccountOK(backup[a], owner[a]) /\ Broken \notin Login /\ Broken # Absent
        BY <1>1, LoginsAreFiles, ConstantsAssumption
      <4> HIDE DEF n
      <4>3. QED
        BY <4>1, <4>2 DEF AccountOK, BelongsTo, OneFile, WellFormed
    <3>3. QED
      BY <1>1, <2>1, <3>1, <3>2 DEF Bundle
  <2>3. n \in Bundle /\ n.config = backup[a].config
    BY <1>1, <2>2 DEF AccountOK, Bundle
  <2> HIDE DEF n
  <2>4. QED
    BY <1>1, <2>1, <2>2, <2>3
<1>4. QED
  BY <1>2, <1>3

\* Trading a token gives a new one of the same user.
LEMMA RotateType ==
  ASSUME UpstreamOK, NEW u \in User, NEW n, Rotate(u, n)
  PROVE  /\ UpstreamOK'
         /\ issued'[u] \in 1..MaxTokens /\ issued'[u] = issued[u] + 1
<1>1. issued[u] \in 0..MaxTokens /\ issued[u] < MaxTokens /\ MaxTokens \in Nat
  BY ConstantsAssumption DEF UpstreamOK, Rotate
<1>2. issued'[u] = issued[u] + 1 /\ issued[u] + 1 \in 1..MaxTokens
  BY <1>1 DEF UpstreamOK, Rotate
<1>3. issued' \in [User -> 0..MaxTokens]
  BY <1>1, <1>2 DEF UpstreamOK, Rotate
<1>4. valid' \in [User -> SUBSET (1..MaxTokens)]
  BY <1>2 DEF UpstreamOK, Rotate
<1>5. QED
  BY <1>2, <1>3, <1>4 DEF UpstreamOK

-----------------------------------------------------------------------------
(* Probes *)

LEMMA NoProbeIsOK == ProbeOK(NoProbe) /\ NoProbe.pc = "idle"
<1>1. 0 \in 0..MaxChanges
  BY ConstantsAssumption
<1>2. QED
  BY <1>1, LoginsAreFiles DEF ProbeOK, NoProbe, ProbeState

LEMMA ProbeGoesOn ==
  ASSUME ProbesOK, NEW p \in Prober, NEW n, ProbeOK(n), kind' = kind,
         probe' = [probe EXCEPT ![p] = n]
  PROVE  ProbesOK'
<1>1. n \in ProbeState /\ probe \in [Prober -> ProbeState]
  BY DEF ProbesOK, ProbeOK
<1>2. \A q \in Prober : probe'[q] = IF q = p THEN n ELSE probe[q]
  BY <1>1
<1>3. \A q \in Prober : ProbeOK(probe'[q])
  BY <1>2 DEF ProbesOK
<1>4. probe' \in [Prober -> ProbeState]
  BY <1>1
<1>5. QED
  BY <1>3, <1>4 DEF ProbesOK, ProbeOK

\* What a probe reads is a login of the account's own user.
LEMMA ReadSourceEffect ==
  ASSUME FilesOK, ProbesOK, NEW p \in Prober, ReadSource(p)
  PROVE  \/ EndProbe(p)
         \/ \E login \in Login, fromLive \in BOOLEAN :
              LET n == [probe[p] EXCEPT !.pc = "read", !.login = login,
                                        !.fromLive = fromLive]
              IN /\ probe' = [probe EXCEPT ![p] = n]
                 /\ \/ /\ fromLive
                       /\ login = live.login
                       /\ Verified(probe[p].account)
                    \/ login = backup[probe[p].account].login
BY DEF ReadSource

\* What a writer relies on does not change under the lock, but for the live
\* files, which the client leaves a trace in.
LEMMA WritersStay ==
  ASSUME WriterInv, UNCHANGED <<backup, owner, known, active, switching, kind>>,
         \A q \in Prober : Writing(probe'[q]) =>
             probe'[q] = probe[q] /\ (landed' \/ UNCHANGED <<live, landed>>)
  PROVE  WriterInv'
<1>1. SUFFICES ASSUME NEW q \in Prober, Writing(probe'[q])
               PROVE  /\ switching' = Nobody
                      /\ \A r \in Prober : Writing(probe'[r]) => r = q
                      /\ probe'[q].account \in known'
                      /\ BelongsTo([backup[probe[q].account] EXCEPT
                                       !.login = probe[q].new],
                                   owner[probe[q].account])'
                      /\ probe'[q].pc = "replacing"
                         /\ active' = probe'[q].account =>
                            live'.login = probe'[q].login \/ landed'
  BY DEF WriterInv
<1>2. probe'[q] = probe[q] /\ Writing(probe[q])
      /\ (landed' \/ UNCHANGED <<live, landed>>)
  BY <1>1
<1>3. /\ switching = Nobody
      /\ \A r \in Prober : Writing(probe[r]) => r = q
      /\ probe[q].account \in known
      /\ BelongsTo([backup[probe[q].account] EXCEPT !.login = probe[q].new],
                   owner[probe[q].account])
      /\ probe[q].pc = "replacing" /\ active = probe[q].account =>
            live.login = probe[q].login \/ landed
  BY <1>2 DEF WriterInv
<1>4. BelongsTo([backup[probe[q].account] EXCEPT !.login = probe[q].new],
                owner[probe[q].account])'
  BY <1>2, <1>3 DEF BelongsTo, OneFile, WellFormed
<1>5. QED
  BY <1>2, <1>3, <1>4

LEMMA NoWriters ==
  ASSUME \A q \in Prober : ~Writing(probe'[q])
  PROVE  WriterInv'
BY DEF WriterInv

LEMMA ProbingKeepsInv ==
  ASSUME BundleInv, NEW p \in Prober,
         \/ \E a \in Account : BeginProbe(p, a)
         \/ ReadSource(p) \/ FetchUsage(p) \/ RefreshLogin(p)
         \/ ServerRefreshes(p) \/ ServerAnswers(p) \/ ServerFails(p)
         \/ KillProbe(p)
  PROVE  BundleInv'
<1> DEFINE P == probe[p]
<1>1. /\ UpstreamOK /\ CountersOK /\ FilesOK /\ ProbesOK /\ WriterInv
      /\ ProbeOK(P) /\ P \in ProbeState
  BY BundleParts DEF ProbesOK
<1>2. /\ UNCHANGED <<live, backup, known, added, active, switching, kind, owner,
                     changes>>
      /\ landed' \in BOOLEAN /\ (Writing(P) \/ landed' = landed)
  <2>1. CASE KillProbe(p)
    BY <1>1, <2>1 DEF KillProbe, files, state, CountersOK
  <2>2. CASE ~KillProbe(p)
    BY <1>1, <2>2 DEF CountersOK, BeginProbe, ReadSource, FetchUsage, RefreshLogin,
         ServerRefreshes,
         ServerAnswers, ServerFails, files, state, bookkeeping, Writing
  <2>3. QED
    BY <2>1, <2>2
<1>3. FilesOK' /\ CountersOK' /\ kind' = kind
  BY <1>1, <1>2 DEF FilesOK, LiveOK, CountersOK, AccountOK, BelongsTo, OneFile,
                    WellFormed
<1>4. ASSUME NEW n, ProbeOK(n), probe' = [probe EXCEPT ![p] = n], UpstreamOK',
             ~Writing(n)
      PROVE  BundleInv'
  <2>1. ProbesOK'
    BY <1>1, <1>3, <1>4, ProbeGoesOn
  <2>2. ASSUME NEW q \in Prober, Writing(probe'[q])
        PROVE  probe'[q] = probe[q] /\ UNCHANGED <<live, landed>>
    <3>1. q # p /\ probe'[q] = probe[q]
      BY <1>1, <1>4, <2>2 DEF ProbesOK
    <3>2. ~Writing(P)
      BY <1>1, <2>2, <3>1 DEF WriterInv
    <3>3. QED
      BY <1>2, <3>1, <3>2
  <2>3. WriterInv'
    BY <1>1, <1>2, <2>2, WritersStay
  <2>4. QED
    BY <1>3, <1>4, <2>1, <2>3, PartsMakeNextInv
<1>5. ASSUME UNCHANGED upstream
      PROVE  UpstreamOK'
  BY <1>1, <1>5 DEF upstream, UpstreamOK
<1>6. CASE EndProbe(p) /\ UNCHANGED upstream
  BY <1>4, <1>5, <1>6, NoProbeIsOK DEF EndProbe, Writing
<1>7. ASSUME NEW a \in Account, BeginProbe(p, a)
      PROVE  BundleInv'
  <2> DEFINE n == [NoProbe EXCEPT !.pc = "begun", !.account = a,
                                  !.added = added[a], !.active = active = a]
  <2>1. /\ n \in ProbeState /\ n.pc = "begun" /\ n.account = a
        /\ n.login = Absent /\ n.new = Absent
    BY <1>1, NoProbeIsOK DEF ProbeOK, ProbeState, CountersOK, NoProbe
  <2>2. probe' = [probe EXCEPT ![p] = n] /\ UNCHANGED upstream
    BY <1>7 DEF BeginProbe
  <2> HIDE DEF n
  <2>3. ProbeOK(n)
    BY <2>1 DEF ProbeOK
  <2>4. QED
    BY <1>4, <1>5, <2>1, <2>2, <2>3 DEF Writing
<1>8. CASE ReadSource(p) /\ ~EndProbe(p)
  <2>1. PICK login \in Login, fromLive \in BOOLEAN :
           probe' = [probe EXCEPT ![p] = [P EXCEPT !.pc = "read", !.login = login,
                                                   !.fromLive = fromLive]]
    BY <1>1, <1>8, ReadSourceEffect
  <2> DEFINE n == [P EXCEPT !.pc = "read", !.login = login, !.fromLive = fromLive]
  <2>2. P.pc = "begun" /\ UNCHANGED upstream
    BY <1>8 DEF ReadSource
  <2>3. P.new = Absent /\ P.account \in Account
    BY <1>1, <2>2 DEF ProbeOK
  <2>4. /\ n \in ProbeState /\ n.pc = "read" /\ n.account = P.account
        /\ n.login = login /\ n.new = P.new
    BY <1>1 DEF ProbeState
  <2>5. probe' = [probe EXCEPT ![p] = n]
    BY <2>1
  <2> HIDE DEF n
  <2>6. ProbeOK(n)
    BY <2>3, <2>4, LoginsAreFiles DEF ProbeOK
  <2>7. QED
    BY <1>4, <1>5, <2>2, <2>4, <2>5, <2>6 DEF Writing
<1>9. CASE FetchUsage(p) /\ ~EndProbe(p)
  <2> DEFINE n == [P EXCEPT !.pc = "fetched", !.new = P.login]
  <2>1. P.pc = "read" /\ UNCHANGED upstream /\ probe' = [probe EXCEPT ![p] = n]
    BY <1>1, <1>9 DEF FetchUsage, ProbesOK, ProbeState
  <2>2. /\ n \in ProbeState /\ n.pc = "fetched" /\ n.account = P.account
        /\ n.login = P.login /\ n.new = P.login
    BY <1>1 DEF ProbeState
  <2> HIDE DEF n
  <2>3. ProbeOK(n)
    BY <1>1, <2>1, <2>2 DEF ProbeOK
  <2>4. QED
    BY <1>4, <1>5, <2>1, <2>2, <2>3 DEF Writing
<1>10. CASE RefreshLogin(p) \/ ServerRefreshes(p)
  <2> DEFINE u == P.login.user
             new == [P.login EXCEPT !.token = issued'[u]]
             pc == IF kind = "claude" THEN "refreshed" ELSE "read"
             n == [P EXCEPT !.pc = pc, !.new = new]
  <2>1. P.pc = "read" /\ kind \in {"claude", "codex"} /\ Rotate(u, P.login.token)
    BY <1>10 DEF RefreshLogin, ServerRefreshes
  <2>2. P.login \in Login /\ u \in User
    BY <1>1, <2>1 DEF ProbeOK, ProbeState, Login
  <2>3. UpstreamOK' /\ issued'[u] \in 1..MaxTokens
    BY <1>1, <2>1, <2>2, RotateType
  <2>4. new \in Login /\ new.user = u
    BY <2>2, <2>3 DEF Login
  <2>5. probe' = [probe EXCEPT ![p] = n]
    <3>1. CASE RefreshLogin(p)
      <4>1. probe' = [probe EXCEPT ![p].pc = "refreshed", ![p].new = new]
            /\ kind = "claude"
        BY <3>1 DEF RefreshLogin
      <4>2. QED
        BY <1>1, <4>1 DEF ProbesOK, ProbeState
    <3>2. CASE ServerRefreshes(p)
      <4>1. probe' = [probe EXCEPT ![p].new = new] /\ kind = "codex"
        BY <3>2 DEF ServerRefreshes
      <4>2. QED
        BY <1>1, <2>1, <4>1 DEF ProbesOK, ProbeState
    <3>3. QED
      BY <1>10, <3>1, <3>2
  <2>6. /\ n \in ProbeState /\ n.pc = pc /\ n.account = P.account
        /\ n.login = P.login /\ n.new = new
    BY <1>1, <2>4 DEF ProbeState
  <2> HIDE DEF n, new
  <2>7. ProbeOK(n)
    BY <1>1, <2>1, <2>2, <2>4, <2>6, LoginsAreFiles DEF ProbeOK
  <2>8. QED
    BY <1>4, <2>3, <2>5, <2>6, <2>7 DEF Writing
<1>11. CASE ServerAnswers(p) /\ ~EndProbe(p)
  <2> DEFINE n == [P EXCEPT !.pc = "refreshed"]
  <2>1. /\ P.pc = "read" /\ P.new # Absent /\ UNCHANGED upstream
        /\ probe' = [probe EXCEPT ![p] = n]
    BY <1>11 DEF ServerAnswers
  <2>2. /\ n \in ProbeState /\ n.pc = "refreshed" /\ n.account = P.account
        /\ n.login = P.login /\ n.new = P.new
    BY <1>1 DEF ProbeState
  <2> HIDE DEF n
  <2>3. ProbeOK(n)
    BY <1>1, <2>1, <2>2 DEF ProbeOK
  <2>4. QED
    BY <1>4, <1>5, <2>1, <2>2, <2>3 DEF Writing
<1>12. CASE ServerFails(p) \/ KillProbe(p)
  BY <1>6, <1>12 DEF ServerFails, KillProbe
<1>13. QED
  <2>1. ASSUME ReadSource(p) \/ FetchUsage(p) \/ ServerAnswers(p)
        PROVE  UNCHANGED upstream
    BY <2>1 DEF ReadSource, FetchUsage, ServerAnswers
  <2>2. QED
    BY <1>6, <1>7, <1>8, <1>9, <1>10, <1>11, <1>12, <2>1

\* A probe that still finds what it read is going to write a login of the
\* account's own user.
LEMMA CompareKeepsInv ==
  ASSUME BundleInv, NEW p \in Prober, CompareSource(p)
  PROVE  BundleInv'
<1> DEFINE P == probe[p]
           a == P.account
           n == [P EXCEPT !.pc = IF P.pc = "fetched" THEN "mirroring"
                                                     ELSE "replacing"]
<1>1. /\ UpstreamOK /\ CountersOK /\ FilesOK /\ ProbesOK /\ WriterInv
      /\ ProbeOK(P) /\ P \in ProbeState /\ probe \in [Prober -> ProbeState]
  BY BundleParts DEF ProbesOK
<1>2. /\ P.login \in Login /\ P.new \in Login /\ P.new.user = P.login.user
      /\ P.pc \in {"fetched", "refreshed"}
  BY <1>1 DEF CompareSource, ProbeOK, ProbeState
<1>3. /\ UNCHANGED <<live, backup, known, added, active, switching, issued,
                     valid, kind, owner, changes>>
      /\ landed' = FALSE /\ LockIsFree
  BY DEF CompareSource, files, state, upstream
<1>4. UpstreamOK' /\ CountersOK' /\ FilesOK'
  BY <1>1, <1>3 DEF UpstreamOK, CountersOK, FilesOK, LiveOK, AccountOK,
                    BelongsTo, OneFile, WellFormed
<1>5. CASE ~SourceUnchanged(P)
  <2>1. probe' = [probe EXCEPT ![p] = NoProbe]
    BY <1>5 DEF CompareSource, EndProbe
  <2>2. ProbesOK'
    BY <1>1, <1>3, <2>1, NoProbeIsOK, ProbeGoesOn
  <2>3. \A q \in Prober : ~Writing(probe'[q])
    BY <1>1, <1>3, <2>1 DEF LockIsFree, Writing, NoProbe
  <2>4. QED
    BY <1>4, <2>2, <2>3, NoWriters, PartsMakeNextInv
<1>6. CASE SourceUnchanged(P)
  <2>1. probe' = [probe EXCEPT ![p] = n]
    BY <1>1, <1>6 DEF CompareSource, ProbeState
  <2>2. /\ n \in ProbeState /\ n.pc \in {"mirroring", "replacing"}
        /\ n.account = a /\ n.login = P.login /\ n.new = P.new
    BY <1>1 DEF ProbeState
  <2> HIDE DEF n
  <2>3. ProbeOK(n)
    BY <1>1, <1>2, <2>2, LoginsAreFiles DEF ProbeOK
  <2>4. ProbesOK'
    BY <1>1, <1>3, <2>1, <2>3, ProbeGoesOn
  <2>5. \A q \in Prober : /\ probe'[q] = IF q = p THEN n ELSE probe[q]
                          /\ q # p => ~Writing(probe'[q])
    BY <1>1, <1>3, <2>1 DEF LockIsFree
  <2>6. a \in known /\ SourceNow(P) = P.login
        /\ (active = a => Verified(a))
        /\ (active = a /\ ~P.fromLive => live.login = P.login)
    BY <1>6 DEF SourceUnchanged
  <2>7. active = a => live.login = P.login
    BY <2>6 DEF SourceNow
  <2>8. AccountOK([backup[a] EXCEPT !.login = P.new], owner[a])
    <3>1. owner[a] # Absent => /\ P.new.user = owner[a]
                               /\ kind = "claude" =>
                                     backup[a].config = NameOf(P.new.user)
      <4>1. CASE active = a
        BY <1>1, <1>2, <2>6, <2>7, <4>1, VerifiedFits
      <4>2. CASE active # a
        BY <1>1, <1>2, <2>6, <4>2 DEF SourceNow, FilesOK, AccountOK, BelongsTo, WellFormed
      <4>3. QED
        BY <4>1, <4>2
    <3>2. QED
      BY <1>1, <1>2, <2>6, <3>1, NewLoginIsOwn
  <2>9. WriterInv'
    <3>1. SUFFICES ASSUME NEW q \in Prober, Writing(probe'[q])
                   PROVE  /\ switching' = Nobody
                          /\ \A r \in Prober : Writing(probe'[r]) => r = q
                          /\ probe'[q].account \in known'
                          /\ BelongsTo([backup[probe[q].account] EXCEPT
                                           !.login = probe[q].new],
                                       owner[probe[q].account])'
                          /\ probe'[q].pc = "replacing"
                             /\ active' = probe'[q].account =>
                                live'.login = probe'[q].login \/ landed'
      BY DEF WriterInv
    <3>2. q = p
      BY <2>5, <3>1
    <3>3. BelongsTo([backup[probe[q].account] EXCEPT !.login = probe[q].new],
                    owner[probe[q].account])'
      BY <1>3, <2>2, <2>5, <2>8, <3>2 DEF AccountOK, BelongsTo, OneFile, WellFormed
    <3>4. QED
      BY <1>3, <2>2, <2>5, <2>6, <2>7, <3>2, <3>3 DEF LockIsFree
  <2>10. QED
    BY <1>4, <2>4, <2>9, PartsMakeNextInv
<1>7. QED
  BY <1>5, <1>6

\* What it writes is the account's own, whatever the client has done since.
LEMMA WriteKeepsInv ==
  ASSUME BundleInv, NEW p \in Prober, WriteUpdate(p)
  PROVE  BundleInv'
<1> DEFINE P == probe[p]
           a == P.account
           n == [backup[a] EXCEPT !.login = P.new]
           l == [live EXCEPT !.login = P.new]
<1>1. /\ UpstreamOK /\ CountersOK /\ FilesOK /\ ProbesOK /\ WriterInv
      /\ ProbeOK(P) /\ P \in ProbeState /\ probe \in [Prober -> ProbeState]
  BY BundleParts DEF ProbesOK
<1>2. Writing(P) /\ P.new \in Login
  BY <1>1 DEF WriteUpdate, Writing, ProbeOK, ProbeState
<1>3. /\ UNCHANGED <<known, added, active, switching, issued, valid, kind,
                     owner, changes>>
      /\ landed' = FALSE /\ probe' = [probe EXCEPT ![p] = NoProbe]
  BY DEF WriteUpdate, state, upstream, EndProbe
<1>4. /\ \A q \in Prober : Writing(probe[q]) => q = p
      /\ a \in known /\ BelongsTo(n, owner[a])
  BY <1>1, <1>2 DEF WriterInv
<1>5. UpstreamOK' /\ CountersOK' /\ ProbesOK'
  BY <1>1, <1>3, NoProbeIsOK, ProbeGoesOn DEF UpstreamOK, CountersOK
<1>6. WriterInv'
  <2>1. \A q \in Prober : ~Writing(probe'[q])
    BY <1>1, <1>3, <1>4 DEF Writing, NoProbe
  <2>2. QED
    BY <2>1, NoWriters
<1>7. a \in Account /\ backup[a] \in Bundle /\ live \in Bundle
      /\ backup \in [Account -> Bundle] /\ active \in known \cup {Nobody}
      /\ known \subseteq Account
  BY <1>1, <1>4 DEF FilesOK
<1>8. /\ backup' = [backup EXCEPT ![a] = n]
      /\ live' = IF P.pc = "replacing" /\ active = a THEN l ELSE live
  BY <1>7 DEF WriteUpdate, Bundle
<1>9. /\ n \in Bundle /\ n.login = P.new /\ n.config = backup[a].config
      /\ l \in Bundle /\ l.login = P.new /\ l.config = live.config
  BY <1>2, <1>7 DEF Bundle
<1>10. AccountOK(n, owner[a])
  BY <1>2, <1>4, <1>9, LoginsAreFiles DEF AccountOK
<1> HIDE DEF n, l
<1>11. backup' \in [Account -> Bundle] /\ live' \in Bundle
  BY <1>7, <1>8, <1>9
<1>12. \A b \in known : /\ AccountOK(backup'[b], owner[b])
                        /\ backup'[b].config = backup[b].config
  BY <1>1, <1>7, <1>8, <1>9, <1>10 DEF FilesOK
<1>13. \A b \in known' : AccountOK(backup[b], owner[b])'
  BY <1>3, <1>12 DEF AccountOK, BelongsTo, OneFile, WellFormed
\* Files that now agree with the backup are of one user as it is.
<1>14. LiveOK'
  <2>1. OneFile(live)'
    BY <1>1, <1>3, <1>8, <1>9 DEF FilesOK, LiveOK, OneFile
  <2>2. ASSUME active # Nobody, owner[active] # Absent, ~WellFormed(live'),
               live'.config = backup'[active].config
        PROVE  FALSE
    <3>1. active \in known
      BY <1>7, <2>2
    <3>2. CASE live' = live
      BY <1>1, <1>12, <2>2, <3>1, <3>2 DEF FilesOK, LiveOK
    <3>3. CASE live' = l /\ active = a
      <4>1. WellFormed(n)
        BY <1>4, <2>2, <3>3 DEF BelongsTo
      <4>2. l.config = n.config
        BY <1>7, <1>8, <2>2, <3>3
      <4>3. WellFormed(l)
        BY <1>9, <4>1, <4>2 DEF WellFormed
      <4>4. QED
        BY <2>2, <3>3, <4>3
    <3>4. QED
      BY <1>8, <3>2, <3>3
  <2>3. QED
    BY <1>3, <2>1, <2>2 DEF LiveOK, WellFormed
<1>15. FilesOK'
  BY <1>1, <1>3, <1>11, <1>13, <1>14 DEF FilesOK
<1>16. QED
  BY <1>5, <1>6, <1>15, PartsMakeNextInv

-----------------------------------------------------------------------------
(* The client and the user *)

LEMMA ClientKeepsInv ==
  ASSUME BundleInv,
         \/ ClientRefreshes \/ ClientBreaksFile
         \/ \E u \in User : ClientLogsIn(u)
  PROVE  BundleInv'
<1>1. UpstreamOK /\ CountersOK /\ FilesOK /\ ProbesOK /\ WriterInv
  BY BundleParts
<1>2. /\ UNCHANGED <<backup, known, added, active, switching, probe, kind, owner>>
      /\ landed' = \E p \in Prober : Writing(probe[p])
      /\ changes' = changes \/ (changes < MaxChanges /\ changes' = changes + 1)
  BY DEF ClientRefreshes, ClientBreaksFile, ClientLogsIn, ClientWrites, state
<1>3. CountersOK' /\ ProbesOK' /\ WriterInv'
  <2>1. changes' \in 0..MaxChanges
    BY <1>1, <1>2, ConstantsAssumption DEF CountersOK
  <2>2. CountersOK' /\ ProbesOK'
    BY <1>1, <1>2, <2>1 DEF CountersOK, ProbesOK, ProbeOK
  <2>3. WriterInv'
    BY <1>1, <1>2, WritersStay
  <2>4. QED
    BY <2>2, <2>3
<1>4. ASSUME live' \in Bundle, OneFile(live'),
             \/ /\ live'.config = live.config
                /\ WellFormed(live) => WellFormed(live')
             \/ WellFormed(live')
      PROVE  FilesOK'
  <2>1. LiveOK'
    BY <1>1, <1>2, <1>4 DEF FilesOK, LiveOK, OneFile, WellFormed
  <2>2. \A a \in known' : AccountOK(backup[a], owner[a])'
    BY <1>1, <1>2 DEF FilesOK, AccountOK, BelongsTo, OneFile, WellFormed
  <2>3. QED
    BY <1>1, <1>2, <1>4, <2>1, <2>2 DEF FilesOK
<1>5. live \in Bundle /\ OneFile(live) /\ kind \in Kinds
  BY <1>1 DEF FilesOK, LiveOK
<1>6. CASE ClientRefreshes
  <2> DEFINE u == live.login.user
             new == [live.login EXCEPT !.token = issued'[u]]
             l == [live EXCEPT !.login = new]
  <2>1. live.login \in Login /\ u \in User /\ Rotate(u, live.login.token)
    BY <1>6 DEF ClientRefreshes, Login
  <2>2. UpstreamOK' /\ issued'[u] \in 1..MaxTokens
    BY <1>1, <2>1, RotateType
  <2>3. new \in Login /\ new.user = u
    BY <2>1, <2>2 DEF Login
  <2>4. live' = l
    BY <1>5, <1>6, <2>1 DEF ClientRefreshes, Bundle, Login
  <2>5. l \in Bundle /\ l.login = new /\ l.config = live.config
    BY <1>5, <2>3 DEF Bundle
  <2> HIDE DEF l, new
  <2>6. OneFile(l) /\ (WellFormed(live) => WellFormed(l))
    BY <1>5, <2>1, <2>3, <2>5 DEF WellFormed, OneFile
  <2>7. QED
    BY <1>3, <1>4, <2>2, <2>4, <2>5, <2>6, PartsMakeNextInv
<1>7. ASSUME NEW u \in User, ClientLogsIn(u)
      PROVE  BundleInv'
  <2>1. issued[u] \in 0..MaxTokens /\ issued[u] < MaxTokens /\ MaxTokens \in Nat
    BY <1>1, <1>7, ConstantsAssumption DEF UpstreamOK, ClientLogsIn
  <2>2. issued'[u] = issued[u] + 1 /\ issued[u] + 1 \in 1..MaxTokens
    BY <1>1, <1>7, <2>1 DEF UpstreamOK, ClientLogsIn
  <2>3. issued' \in [User -> 0..MaxTokens] /\ valid' \in [User -> SUBSET (1..MaxTokens)]
    BY <1>1, <1>7, <2>1, <2>2 DEF UpstreamOK, ClientLogsIn
  <2>4. live' = BundleOf(u, issued'[u])
    BY <1>7 DEF ClientLogsIn
  <2>5. QED
    BY <1>3, <1>4, <2>2, <2>3, <2>4, BundleOfType, PartsMakeNextInv
    DEF UpstreamOK, OneFile, WellFormed
<1>8. CASE ClientBreaksFile
  <2>1. PICK left \in {Absent, Broken} : live' = [live EXCEPT !.login = left]
    BY <1>8 DEF ClientBreaksFile
  <2> DEFINE l == [live EXCEPT !.login = left]
  <2>2. l \in Bundle /\ l.login = left /\ l.config = live.config /\ live' = l
    BY <1>5, <2>1 DEF Bundle
  <2> HIDE DEF l
  <2>3. OneFile(l) /\ WellFormed(l)
    BY <1>5, <2>2, LoginsAreFiles DEF WellFormed, OneFile
  <2>4. UpstreamOK'
    BY <1>1, <1>8 DEF ClientBreaksFile, upstream, UpstreamOK
  <2>5. QED
    BY <1>3, <1>4, <2>2, <2>3, <2>4, PartsMakeNextInv
<1>9. QED
  BY <1>6, <1>7, <1>8

LEMMA SwitchKeepsInv ==
  ASSUME BundleInv,
         (\E b \in Account : BeginSwitch(b)) \/ FinishSwitch \/ AbandonSwitch
  PROVE  BundleInv'
<1>1. UpstreamOK /\ CountersOK /\ FilesOK /\ ProbesOK /\ WriterInv
  BY BundleParts
<1>2. UNCHANGED <<known, added, issued, valid, probe, kind, owner, changes, landed>>
  BY DEF BeginSwitch, FinishSwitch, AbandonSwitch, state, upstream, bookkeeping
<1>3. UpstreamOK' /\ CountersOK' /\ ProbesOK' /\ WriterInv'
  <2>1. \A q \in Prober : ~Writing(probe[q])
    BY <1>1 DEF BeginSwitch, FinishSwitch, AbandonSwitch, LockIsFree, WriterInv
  <2>2. WriterInv'
    BY <1>2, <2>1, NoWriters
  <2>3. QED
    BY <1>1, <1>2, <2>2 DEF UpstreamOK, CountersOK, ProbesOK, ProbeOK
<1>4. ASSUME NEW b \in Account, BeginSwitch(b)
      PROVE  FilesOK'
  <2>1. UNCHANGED <<live, active>> /\ switching' = b /\ b \in known
    BY <1>4 DEF BeginSwitch, state
  <2>2. /\ backup' \in [Account -> Bundle]
        /\ \A c \in known : /\ AccountOK(backup'[c], owner[c])
                            /\ backup'[c].config = backup[c].config
    <3>1. CASE active = Nobody
      BY <1>1, <1>4, <3>1 DEF BeginSwitch, FilesOK
    <3>2. CASE active # Nobody
      BY <1>1, <1>4, <3>2, SyncedIsOwn DEF BeginSwitch, FilesOK
    <3>3. QED
      BY <3>1, <3>2
  <2>3. \A c \in known' : AccountOK(backup[c], owner[c])'
    BY <1>2, <2>2 DEF AccountOK, BelongsTo, OneFile, WellFormed
  <2>4. LiveOK'
    BY <1>1, <1>2, <2>1, <2>2 DEF FilesOK, LiveOK, OneFile, WellFormed
  <2>5. QED
    BY <1>1, <1>2, <2>1, <2>2, <2>3, <2>4 DEF FilesOK
<1>5. ASSUME FinishSwitch
      PROVE  FilesOK'
  <2>1. switching \in known /\ AccountOK(backup[switching], owner[switching])
    BY <1>1, <1>5 DEF FinishSwitch, FilesOK
  <2>2. /\ backup' = backup /\ live' = backup[switching] /\ active' = switching
        /\ switching' = Nobody
    BY <1>5 DEF FinishSwitch
  <2>3. \A c \in known' : AccountOK(backup[c], owner[c])'
    BY <1>1, <1>2, <2>2 DEF FilesOK, AccountOK, BelongsTo, OneFile, WellFormed
  <2>4. live' \in Bundle /\ LiveOK'
    BY <1>2, <2>1, <2>2 DEF AccountOK, BelongsTo, LiveOK, OneFile, WellFormed
  <2>5. /\ kind' \in Kinds /\ backup' \in [Account -> Bundle]
        /\ owner' \in [Account -> User \cup {Nobody, Absent}]
        /\ known' \subseteq Account
    BY <1>1, <1>2, <2>2 DEF FilesOK
  <2>6. active' \in known' \cup {Nobody} /\ switching' \in known' \cup {Nobody}
    BY <1>2, <2>1, <2>2
  <2>7. QED
    BY <2>3, <2>4, <2>5, <2>6 DEF FilesOK
<1>6. ASSUME AbandonSwitch
      PROVE  FilesOK'
  <2>1. UNCHANGED <<live, backup, active>> /\ switching' = Nobody
    BY <1>6 DEF AbandonSwitch, files, state
  <2>2. \A c \in known' : AccountOK(backup[c], owner[c])'
    BY <1>1, <1>2, <2>1 DEF FilesOK, AccountOK, BelongsTo, OneFile, WellFormed
  <2>3. /\ kind' \in Kinds /\ backup' \in [Account -> Bundle]
        /\ owner' \in [Account -> User \cup {Nobody, Absent}]
        /\ known' \subseteq Account
        /\ active' \in known' \cup {Nobody} /\ switching' \in known' \cup {Nobody}
    BY <1>1, <1>2, <2>1 DEF FilesOK
  <2>4. live' \in Bundle /\ LiveOK'
    BY <1>1, <1>2, <2>1 DEF FilesOK, LiveOK, OneFile, WellFormed
  <2>5. QED
    BY <2>2, <2>3, <2>4 DEF FilesOK
<1>7. QED
  BY <1>3, <1>4, <1>5, <1>6, PartsMakeNextInv

LEMMA ChangeKeepsInv ==
  ASSUME BundleInv,
         \/ \E a \in Account : CaptureAccount(a) \/ RemoveAccount(a)
         \/ ImportClaudeSwap
  PROVE  BundleInv'
<1>1. UpstreamOK /\ CountersOK /\ FilesOK /\ ProbesOK
  BY BundleParts
<1>2. /\ UNCHANGED <<live, switching, issued, valid, probe, kind, landed>>
      /\ LockIsFree /\ switching = Nobody
      /\ changes' = changes + 1 /\ changes < MaxChanges
  BY DEF CaptureAccount, RemoveAccount, ImportClaudeSwap, Change, LockIsFree,
         upstream
<1>3. changes' \in 0..MaxChanges /\ 0 \in 0..MaxChanges
  BY <1>1, <1>2, ConstantsAssumption DEF CountersOK
<1>4. UpstreamOK' /\ ProbesOK' /\ WriterInv'
  BY <1>1, <1>2, NoWriters DEF UpstreamOK, ProbesOK, ProbeOK, LockIsFree
<1>5. live \in Bundle /\ OneFile(live) /\ kind \in {"claude", "codex"}
  BY <1>1, ConstantsAssumption DEF FilesOK, LiveOK
<1>6. ASSUME NEW a \in Account, CaptureAccount(a)
      PROVE  FilesOK' /\ CountersOK'
  <2> DEFINE u == IF ~WellFormed(live) THEN Absent
                  ELSE IF Identity(live) # Absent THEN Identity(live)
                  ELSE IF live.login \in Login THEN live.login.user
                  ELSE Nobody
  <2>1. /\ live.login # Absent /\ backup' = [backup EXCEPT ![a] = live]
        /\ known' = known \cup {a} /\ active' = a
        /\ added' = [added EXCEPT ![a] = changes']
        /\ owner' = [owner EXCEPT ![a] = u]
    BY <1>6 DEF CaptureAccount
  <2>2. u \in User \cup {Nobody, Absent} /\ AccountOK(live, u)
        /\ (u = Absent \/ WellFormed(live))
    <3>0. CASE ~WellFormed(live)
      <4>1. u = Absent
        BY <3>0
      <4> HIDE DEF u
      <4>2. QED
        BY <1>5, <2>1, <4>1 DEF AccountOK, BelongsTo
    <3>1. CASE WellFormed(live) /\ live.login \in Login
      <4>1. live.login.user \in User
        BY <3>1 DEF Login
      <4>2. Identity(live) = NameOf(live.login.user)
        BY <1>5, <3>1 DEF Identity, WellFormed
      <4>3. u = live.login.user
        BY <3>1, <4>1, <4>2, LoginsAreFiles DEF NameOf
      <4>4. live.config \in {u, Absent}
        BY <1>5, <3>1, <4>3 DEF WellFormed, NameOf
      <4> HIDE DEF u
      <4>5. QED
        BY <1>5, <2>1, <3>1, <4>1, <4>3, <4>4 DEF AccountOK, BelongsTo
    <3>2. CASE WellFormed(live) /\ live.login \notin Login
      <4>1. Identity(live) = live.config
        BY <1>5, <3>2 DEF Identity, WellFormed
      <4>2. live.config \in User \cup {Absent}
        BY <1>5 DEF Bundle
      <4>3. u \in User \cup {Nobody} /\ live.config \in {u, Absent}
        BY <3>2, <4>1, <4>2
      <4> HIDE DEF u
      <4>4. QED
        BY <1>5, <2>1, <3>2, <4>3 DEF AccountOK, BelongsTo
    <3>3. QED
      BY <3>0, <3>1, <3>2
  <2> HIDE DEF u
  <2>3. /\ backup' \in [Account -> Bundle]
        /\ owner' \in [Account -> User \cup {Nobody, Absent}]
        /\ known' \subseteq Account /\ active' \in known'
    BY <1>1, <1>5, <2>1, <2>2 DEF FilesOK
  <2>4. \A b \in known' : AccountOK(backup'[b], owner'[b])
    BY <1>1, <2>1, <2>2 DEF FilesOK
  <2>5. \A b \in known' : AccountOK(backup[b], owner[b])'
    BY <1>2, <2>4 DEF AccountOK, BelongsTo, OneFile, WellFormed
  <2>6. LiveOK'
    BY <1>1, <1>2, <1>5, <2>1, <2>2 DEF FilesOK, LiveOK, OneFile, WellFormed
  <2>7. FilesOK'
    BY <1>1, <1>2, <2>3, <2>5, <2>6 DEF FilesOK
  <2>8. QED
    BY <1>1, <1>2, <1>3, <2>1, <2>7 DEF CountersOK
<1>7. ASSUME NEW a \in Account, RemoveAccount(a)
      PROVE  FilesOK' /\ CountersOK'
  <2>1. /\ known' = known \ {a} /\ backup' = [backup EXCEPT ![a] = NoFiles]
        /\ active' = IF active = a THEN Nobody ELSE active
        /\ added' = [added EXCEPT ![a] = 0]
        /\ owner' = [owner EXCEPT ![a] = Nobody]
    BY <1>7 DEF RemoveAccount
  <2>2. NoFiles \in Bundle
    BY DEF NoFiles, Bundle
  <2>3. backup' \in [Account -> Bundle] /\ known' \subseteq Account
        /\ active' \in known' \cup {Nobody}
        /\ owner' \in [Account -> User \cup {Nobody, Absent}]
    BY <1>1, <2>1, <2>2 DEF FilesOK
  <2>4. \A b \in known' : backup'[b] = backup[b] /\ owner'[b] = owner[b]
    BY <1>1, <2>1 DEF FilesOK
  <2>5. \A b \in known' : AccountOK(backup[b], owner[b])'
    BY <1>1, <1>2, <2>1, <2>4 DEF FilesOK, AccountOK, BelongsTo, OneFile, WellFormed
  <2>6. LiveOK'
    BY <1>1, <1>2, <2>1, <2>3, <2>4 DEF FilesOK, LiveOK, OneFile, WellFormed
  <2>7. FilesOK'
    BY <1>1, <1>2, <2>1, <2>3, <2>5, <2>6 DEF FilesOK
  <2>8. QED
    BY <1>1, <1>2, <1>3, <2>1, <2>7 DEF CountersOK
<1>8. ASSUME ImportClaudeSwap
      PROVE  FilesOK' /\ CountersOK'
  <2>0. PICK slots \in (SUBSET (Account \ known)) \ {{}} : \E login \in [slots -> Kept] :
          /\ backup' = [a \in Account |->
                           IF a \in slots
                           THEN BundleOf(login[a].user, login[a].token)
                           ELSE backup[a]]
          /\ known' = known \cup slots
          /\ added' = [a \in Account |-> IF a \in slots THEN 0 ELSE added[a]]
          /\ owner' = [a \in Account |-> IF a \in slots THEN login[a].user
                                                       ELSE owner[a]]
          /\ active' \in {active} \cup
                         {a \in slots : active = Nobody /\ live = backup'[a]}
    BY <1>8 DEF ImportClaudeSwap
  <2>1. PICK login \in [slots -> Kept] :
          /\ backup' = [a \in Account |->
                           IF a \in slots
                           THEN BundleOf(login[a].user, login[a].token)
                           ELSE backup[a]]
          /\ known' = known \cup slots
          /\ added' = [a \in Account |-> IF a \in slots THEN 0 ELSE added[a]]
          /\ owner' = [a \in Account |-> IF a \in slots THEN login[a].user
                                                       ELSE owner[a]]
          /\ active' \in {active} \cup
                         {a \in slots : active = Nobody /\ live = backup'[a]}
    BY <2>0
  <2>2. ASSUME NEW a \in slots
        PROVE  /\ login[a].user \in User
               /\ BundleOf(login[a].user, login[a].token) \in Bundle
               /\ AccountOK(BundleOf(login[a].user, login[a].token), login[a].user)
    <3>1. login[a] \in Login
      BY <2>1, <2>2 DEF Kept
    <3>2. login[a].user \in User /\ login[a].token \in 1..MaxTokens
      BY <3>1 DEF Login
    <3>3. QED
      BY <1>1, <3>2, BundleOfType DEF FilesOK
  <2>3. /\ backup' \in [Account -> Bundle]
        /\ owner' \in [Account -> User \cup {Nobody, Absent}]
        /\ known' \subseteq Account /\ active' \in known' \cup {Nobody}
    BY <1>1, <2>1, <2>2 DEF FilesOK
  <2>4. \A b \in known' : AccountOK(backup'[b], owner'[b])
    BY <1>1, <2>1, <2>2 DEF FilesOK
  <2>5. \A b \in known' : AccountOK(backup[b], owner[b])'
    BY <1>2, <2>4 DEF AccountOK, BelongsTo, OneFile, WellFormed
  <2>6. FilesOK'
    <3>1. CASE active' = active /\ active # Nobody
      <4>1. active \in known /\ backup'[active] = backup[active]
            /\ owner'[active] = owner[active]
        BY <1>1, <2>1, <3>1 DEF FilesOK
      <4>2. LiveOK'
        BY <1>1, <1>2, <3>1, <4>1 DEF FilesOK, LiveOK, OneFile, WellFormed
      <4>3. QED
        BY <1>1, <1>2, <2>3, <2>5, <4>2 DEF FilesOK
    <3>2. CASE active' # Nobody /\ live = backup'[active']
      <4>1. LiveOK'
        BY <1>2, <1>5, <2>3, <2>5, <3>2
        DEF LiveOK, OneFile, AccountOK, BelongsTo, WellFormed
      <4>2. QED
        BY <1>1, <1>2, <2>3, <2>5, <4>1 DEF FilesOK
    <3>3. CASE active' = Nobody
      <4>1. LiveOK'
        BY <1>2, <1>5, <3>3 DEF LiveOK, OneFile
      <4>2. QED
        BY <1>1, <1>2, <2>3, <2>5, <4>1 DEF FilesOK
    <3>4. QED
      BY <2>1, <3>1, <3>2, <3>3
  <2>7. added' \in [Account -> 0..MaxChanges]
    BY <1>1, <1>3, <2>1 DEF CountersOK
  <2>8. CountersOK'
    BY <1>1, <1>2, <1>3, <2>7 DEF CountersOK
  <2>9. QED
    BY <2>6, <2>8
<1>9. QED
  BY <1>4, <1>6, <1>7, <1>8, PartsMakeNextInv

LEMMA InitBundleInv == Init => BundleInv
<1>1. SUFFICES ASSUME Init PROVE BundleInv
  OBVIOUS
<1>2. PICK o \in [Account -> User] :
        /\ owner = o
        /\ kind \in Kinds
        /\ known = Account
        /\ active \in Account \cup {Nobody}
        /\ backup = [a \in Account |-> BundleOf(o[a], 1)]
        /\ live = IF active = Nobody THEN NoFiles ELSE backup[active]
        /\ added = [a \in Account |-> 0]
        /\ switching = Nobody
        /\ issued = [u \in User |-> IF u \in {o[a] : a \in Account}
                                    THEN 1 ELSE 0]
        /\ valid = [u \in User |-> 1..issued[u]]
        /\ probe = [p \in Prober |-> NoProbe]
        /\ changes = 0
        /\ landed = FALSE
  BY <1>1 DEF Init
<1>3. 1 \in 1..MaxTokens /\ 0 \in 0..MaxChanges
  BY ConstantsAssumption
<1>4. \A a \in Account : AccountOK(BundleOf(o[a], 1), o[a])
  BY <1>2, <1>3, BundleOfType
<1>5. UpstreamOK
  <2>1. issued \in [User -> 0..MaxTokens]
    <3>1. \A n \in {0, 1} : n \in 0..MaxTokens
      BY ConstantsAssumption
    <3>2. QED
      BY <1>2, <3>1
  <2>2. ASSUME NEW u \in User
        PROVE  1..issued[u] \subseteq 1..MaxTokens
    <3>1. MaxTokens \in Nat /\ issued[u] \in 0..MaxTokens
      BY <2>1, <2>2, ConstantsAssumption
    <3>2. QED
      BY <3>1
  <2>3. valid \in [User -> SUBSET (1..MaxTokens)]
    BY <1>2, <2>2
  <2>4. QED
    BY <2>1, <2>3 DEF UpstreamOK
<1>6. CountersOK
  BY <1>2, <1>3 DEF CountersOK
<1>7. FilesOK
  <2>1. backup \in [Account -> Bundle]
    BY <1>2, <1>4 DEF AccountOK
  <2>2. active # Nobody => AccountOK(live, owner[active]) /\ owner[active] # Absent
    BY <1>2, <1>4, LoginsAreFiles
  <2>3. live \in Bundle /\ LiveOK
    BY <1>2, <2>2, LoginsAreFiles DEF AccountOK, BelongsTo, NoFiles, Bundle, LiveOK,
                                      OneFile
  <2>4. QED
    BY <1>2, <1>4, <2>1, <2>3 DEF FilesOK
<1>8. ProbesOK /\ WriterInv
  BY <1>2, NoProbeIsOK DEF ProbesOK, ProbeOK, WriterInv, Writing
<1>9. QED
  BY <1>5, <1>6, <1>7, <1>8, PartsMakeInv

LEMMA NextBundleInv == BundleInv /\ [Next]_vars => BundleInv'
<1>1. SUFFICES ASSUME BundleInv, [Next]_vars PROVE BundleInv'
  OBVIOUS
<1>2. CASE UNCHANGED vars
  BY <1>1, <1>2
  DEF vars, BundleInv, TypeOK, FilesInv, ProbeInv, WriterInv, Writing,
      BackupBelongsToAccount, BelongsTo, OneFile, WellFormed
<1>3. ASSUME NEW p \in Prober,
             \/ \E a \in Account : BeginProbe(p, a)
             \/ ReadSource(p) \/ FetchUsage(p) \/ RefreshLogin(p)
             \/ ServerRefreshes(p) \/ ServerAnswers(p) \/ ServerFails(p)
             \/ CompareSource(p) \/ WriteUpdate(p) \/ KillProbe(p)
      PROVE  BundleInv'
  BY <1>1, <1>3, ProbingKeepsInv, CompareKeepsInv, WriteKeepsInv
<1>4. QED
  BY <1>1, <1>2, <1>3, ClientKeepsInv, SwitchKeepsInv, ChangeKeepsInv DEF Next

-----------------------------------------------------------------------------
(* What follows *)

\* BundleInv holds in every reachable state: the files of one account agree
\* with each other and belong to its user, and a probe brings back a login of
\* the user whose login it read.
THEOREM BundleInvariant == Spec => []BundleInv
BY InitBundleInv, NextBundleInv, PTL DEF Spec

\* Every variable keeps its type.
THEOREM TypeCorrect == Spec => []TypeOK
<1>1. BundleInv => TypeOK
  BY DEF BundleInv
<1>2. QED
  BY <1>1, BundleInvariant, PTL

\* Whoever logs in to the live files, named or not, and whatever switch,
\* capture, import or probe comes next: an account's backup never gets a login
\* of another user.
THEOREM BackupsBelong == Spec => []BackupBelongsToAccount
<1>1. BundleInv => BackupBelongsToAccount
  BY DEF BundleInv
<1>2. QED
  BY <1>1, BundleInvariant, PTL

\* A probe that writes the live file replaces the login it had refreshed, or
\* one that arrived between its comparison and its write.
THEOREM ProbesReplaceWhatTheyRead == Spec => ProbeReplacesWhatItRead
<1>1. BundleInv /\ [Next]_vars =>
        [\A p \in Prober :
            probe[p].pc = "replacing" /\ probe'[p].pc = "idle" /\ live' # live
            => live.login = probe[p].login \/ landed]_vars
  <2>1. SUFFICES ASSUME BundleInv, Next, NEW p \in Prober, live' # live,
                        probe[p].pc = "replacing", probe'[p].pc = "idle"
                 PROVE  live.login = probe[p].login \/ landed
    OBVIOUS
  <2>2. probe' # probe
    BY <2>1
  <2>3. PICK q \in Prober : WriteUpdate(q)
    BY <2>1, <2>2
    DEF Next, ClientRefreshes, ClientBreaksFile, ClientLogsIn, ClientWrites,
        BeginSwitch, CaptureAccount, RemoveAccount, FinishSwitch, AbandonSwitch,
        ImportClaudeSwap, BeginProbe, ReadSource, FetchUsage, RefreshLogin,
        ServerRefreshes, ServerAnswers, ServerFails, CompareSource, KillProbe,
        files
  <2>4. q = p
    BY <2>1, <2>3 DEF WriteUpdate, EndProbe, BundleInv, TypeOK
  <2>5. active = probe[p].account
    BY <2>1, <2>3, <2>4 DEF WriteUpdate
  <2>6. QED
    BY <2>1, <2>5 DEF BundleInv, WriterInv, Writing
<1>2. QED
  BY <1>1, BundleInvariant, PTL DEF Spec, ProbeReplacesWhatItRead
-----------------------------------------------------------------------------
(* Rotation: the client refreshes its login, the user switches, probes run, *)
(* and nothing fails                                                        *)

NothingFails == Client \subseteq {"refresh"} /\ Commands \subseteq {"switch"}

LEMMA SameLogin ==
  ASSUME NEW x \in Login, NEW y \in Login, x.user = y.user, x.token = y.token
  PROVE  x = y
BY DEF Login

\* What is settled about one account.
LEMMA SettledFacts ==
  ASSUME BundleInv, SettledInv, NEW a \in Account
  PROVE  /\ owner[a] \in User /\ owner[a] # Absent
         /\ WellFormed(backup[a])
         /\ Current(a) \in Login
         /\ Current(a).user = owner[a] /\ Current(a).token = issued[owner[a]]
         /\ issued[owner[a]] \in Nat
         /\ valid[owner[a]] = {issued[owner[a]]}
         /\ backup[a].login \in Login
         /\ backup[a].login.user = owner[a]
         /\ backup[a].login.token <= issued[owner[a]]
         /\ Working(a) \in Login
         /\ Working(a).user = owner[a]
         /\ Working(a).token <= issued[owner[a]]
<1>1. /\ owner[a] \in User /\ issued[owner[a]] \in 0..MaxTokens
      /\ valid[owner[a]] = {issued[owner[a]]} /\ MaxTokens \in Nat
  BY ConstantsAssumption DEF BundleInv, TypeOK, SettledInv
<1>0. owner[a] # Absent /\ WellFormed(backup[a])
  BY <1>1, LoginsAreFiles DEF BundleInv, FilesInv, BelongsTo, SettledInv
<1>2. /\ backup[a].login \in Login /\ backup[a].login.user = owner[a]
      /\ backup[a].login.token <= issued[owner[a]]
  BY <1>0 DEF BundleInv, BackupBelongsToAccount, SettledInv
<1>3. issued[owner[a]] \in 1..MaxTokens
  BY <1>1, <1>2 DEF Login
<1>4. /\ Current(a) \in Login
      /\ Current(a).user = owner[a] /\ Current(a).token = issued[owner[a]]
  BY <1>1, <1>3 DEF Current, Login
<1>5. CASE active = a
  <2>1. a # Nobody
    BY ConstantsAssumption
  <2>2. QED
    BY <1>0, <1>1, <1>2, <1>3, <1>4, <1>5, <2>1 DEF SettledInv, Working
<1>6. CASE active # a
  BY <1>0, <1>1, <1>2, <1>3, <1>4, <1>6 DEF Working
<1>7. QED
  BY <1>5, <1>6

\* A live login that passes for account a's is the one a goes on with, and is
\* on file.
LEMMA VerifiedIsWorking ==
  ASSUME BundleInv, SettledInv, NEW a \in Account, Verified(a),
         live.login \in Login
  PROVE  /\ live.login = Working(a)
         /\ backup[a].login = live.login \/ owner[a] \in Named
<1>1. FilesOK /\ a \in known
  BY BundleParts DEF SettledInv
<1>2. live.login.user = owner[a] /\ backup[a].config = live.config
  BY <1>1, VerifiedIsOwn, SettledFacts DEF SettledInv
<1>3. active # Nobody
  BY LoginsAreFiles DEF SettledInv
<1>4. active \in Account /\ live.login.user = owner[active]
  BY <1>1, <1>3 DEF FilesOK, SettledInv
<1>5. active = a
  BY <1>2, <1>4 DEF SettledInv
<1>6. ASSUME owner[a] \notin Named
      PROVE  backup[a].login = live.login
  <2>1. kind \in {"claude", "codex"} /\ WellFormed(live) /\ WellFormed(backup[a])
    BY <1>1, ConstantsAssumption, SettledFacts DEF FilesOK, SettledInv
  <2>2. NameOf(live.login.user) = Absent
    BY <1>2, <1>6 DEF NameOf
  <2>3. Identity(live) = Absent
    BY <2>1, <2>2 DEF Identity, WellFormed
  <2>4. Identity(backup[a]) = Absent
    BY <1>2, <2>1, <2>3, SettledFacts, <1>6 DEF Identity, WellFormed, NameOf
  <2>5. backup[a].login \in Login
    BY SettledFacts
  <2>6. QED
    BY <2>3, <2>4, <2>5, LoginsAreFiles DEF Verified
<1>7. QED
  BY <1>5, <1>6 DEF Working

\* Two files with the user's name, or with the same login, pass for one
\* another's.
LEMMA OnFileIsVerified ==
  ASSUME BundleInv, SettledInv, NEW a \in Account, active = a,
         backup[a].login = live.login \/ owner[a] \in Named
  PROVE  Verified(a)
<1>1. /\ FilesOK /\ kind \in {"claude", "codex"} /\ a \in known
      /\ WellFormed(live) /\ WellFormed(backup[a])
  BY BundleParts, ConstantsAssumption, SettledFacts DEF FilesOK, SettledInv
<1>2. /\ live.login \in Login /\ live.login.user = owner[a]
      /\ backup[a].login \in Login /\ backup[a].login.user = owner[a]
  BY SettledFacts DEF Working
<1>3. Identity(live) = NameOf(owner[a]) /\ Identity(backup[a]) = NameOf(owner[a])
  BY <1>1, <1>2 DEF Identity, WellFormed
<1>4. CASE owner[a] \in Named
  BY <1>3, <1>4, ConstantsAssumption DEF Verified, NameOf
<1>5. CASE owner[a] \notin Named
  BY <1>3, <1>5 DEF Verified, NameOf
<1>6. QED
  BY <1>4, <1>5

KeptInv == SettledInv /\ ReadInv /\ CarryInv

\* P comes to Q without taking a login from upstream or bringing one back.
Looks(P, Q) ==
    /\ Q.added = 0
    /\ \/ Q.login = Absent /\ Q.new = Absent /\ ~Carries(P)
       \/ /\ Q.account = P.account /\ Q.login = P.login
          /\ Q.fromLive = P.fromLive
          /\ Q.pc \in {"fetched", "mirroring"} => Q.new = Q.login
          /\ IF Carries(P) THEN Carries(Q) /\ Q.new = P.new ELSE ~Carries(Q)
       \/ /\ Q.account \in Account
          /\ Q.login \in {backup[Q.account].login, Working(Q.account)}
          /\ OnFile(Q)
          /\ Q.pc \notin {"fetched", "mirroring"}
          /\ ~Carries(P) /\ ~Carries(Q)

\* As long as nobody trades a token, moving logins between the live files and
\* the backups loses none.
LEMMA NothingTraded ==
  ASSUME BundleInv, RotationInv, SettledInv', UNCHANGED <<issued, owner>>,
         \A a \in Account : Working(a)' = Working(a),
         \A a \in Account :
            \/ backup'[a].login \in {backup[a].login, Working(a)}
            \/ /\ AtRest(a)
               /\ \A q \in Prober : probe'[q].account = a =>
                                      probe'[q].login # Current(a),
         \A p \in Prober : Looks(probe[p], probe'[p])
  PROVE  KeptInv'
<1>1. SettledInv /\ ReadInv /\ CarryInv
  BY DEF RotationInv
<1>2. \A a \in Account : Current(a)' = Current(a)
  BY DEF Current
<1>3. ASSUME NEW a \in Account
      PROVE  /\ Current(a) \in Login /\ Current(a).user = owner[a]
             /\ Current(a).token = issued[owner[a]]
             /\ backup[a].login \in Login /\ backup[a].login.user = owner[a]
             /\ backup[a].login.token <= issued[owner[a]]
             /\ Working(a) \in Login /\ Working(a).user = owner[a]
             /\ Working(a).token <= issued[owner[a]]
             /\ Current(a) # Absent
  BY <1>1, <1>3, SettledFacts, LoginsAreFiles
\* An account whose current login is in its backup or read by a probe has it.
<1>4. ASSUME NEW a \in Account,
             \/ backup[a].login = Current(a)
             \/ \E p \in ProbersOf(a) : probe[p].login = Current(a)
      PROVE  AtRest(a)
  BY <1>1, <1>4 DEF CarryInv, OnItsWay
<1>5. ASSUME NEW a \in Account, NEW p \in Prober, probe[p].account = a,
             OnFile(probe[p]), probe[p].login = Working(a),
             backup'[a].login \in {backup[a].login, Working(a)},
             probe'[p].account = a, probe'[p].login = probe[p].login,
             probe'[p].fromLive = probe[p].fromLive
      PROVE  OnFile(probe[p])'
  BY <1>5 DEF OnFile
<1>6. ASSUME NEW p \in Prober
      PROVE  ReadOK(probe[p])'
  <2> DEFINE P == probe[p]
             Q == probe'[p]
  <2>1. Looks(P, Q) /\ ReadOK(P)
    BY <1>1, <1>6 DEF ReadInv
  <2>2. CASE Q.login = Absent /\ (Q.pc \in {"fetched", "mirroring"} => Q.new = Q.login)
    BY <2>1, <2>2 DEF Looks, ReadOK
  <2>3. CASE /\ Q.login # Absent
             /\ Q.account = P.account /\ Q.login = P.login
             /\ Q.fromLive = P.fromLive
             /\ Q.pc \in {"fetched", "mirroring"} => Q.new = Q.login
    <3> DEFINE a == P.account
    <3>1. P \in ProbeState /\ ProbeOK(P)
      BY <1>6, BundleParts DEF ProbesOK
    <3>2. a \in Account
      BY <2>3, <3>1 DEF ProbeOK
    <3>3. ASSUME Q.login = Current(a)
          PROVE  OnFile(probe[p])'
      <4>1. AtRest(a)
        BY <1>4, <1>6, <2>3, <3>2, <3>3 DEF ProbersOf
      <4>2. OnFile(P) /\ P.login = Working(a)
        BY <2>1, <2>3, <3>3, <4>1 DEF ReadOK, AtRest
      <4>3. QED
        BY <1>5, <1>6, <2>3, <3>2, <3>3, <4>2
    <3>4. /\ Q.added = 0 /\ Q.login.user = owner[a]
          /\ Q.login.token <= issued[owner[a]]
      BY <2>1, <2>3 DEF Looks, ReadOK
    <3>5. QED
      BY <1>2, <2>3, <3>2, <3>3, <3>4 DEF ReadOK
  <2>4. CASE /\ Q.account \in Account
             /\ Q.login \in {backup[Q.account].login, Working(Q.account)}
             /\ OnFile(Q)
             /\ Q.pc \notin {"fetched", "mirroring"}
    <3> DEFINE a == Q.account
    <3>1. ASSUME Q.login = Current(a)
          PROVE  OnFile(probe[p])'
      <4>1. CASE Q.fromLive /\ owner[a] \in Named
        BY <4>1 DEF OnFile
      <4>2. CASE backup[a].login = Q.login
        <5>1. AtRest(a)
          BY <1>4, <2>4, <3>1, <4>2
        <5>2. backup'[a].login = Q.login
          BY <2>4, <3>1, <4>2, <5>1 DEF AtRest
        <5>3. QED
          BY <5>2 DEF OnFile
      <4>3. QED
        BY <2>4, <4>1, <4>2 DEF OnFile
    <3>2. Q.added = 0 /\ Q.login.user = owner[a] /\ Q.login.token <= issued[owner[a]]
      BY <1>3, <2>1, <2>4 DEF Looks
    <3>3. QED
      BY <1>2, <2>4, <3>1, <3>2 DEF ReadOK
  <2>5. QED
    BY <2>1, <2>2, <2>3, <2>4 DEF Looks
<1>7. ASSUME NEW a \in Account
      PROVE  (AtRest(a) \/ \E p \in ProbersOf(a) : OnItsWay(a, p))'
  <2>1. ASSUME NEW q \in Prober, probe'[q].account = a, Carries(probe'[q])
        PROVE  /\ Carries(probe[q]) /\ q \in ProbersOf(a)
               /\ probe'[q].new = probe[q].new /\ probe'[q].login = probe[q].login
               /\ probe'[q].fromLive = probe[q].fromLive
    BY <2>1 DEF Looks, ProbersOf, Carries
  <2>2. CASE AtRest(a)
    <3>1. \A p \in Prober : probe'[p].account = a => ~Carries(probe'[p])
      BY <2>1, <2>2 DEF AtRest
    <3>2. Working(a)' = Current(a)'
      BY <1>2, <2>2, <1>7 DEF AtRest
    <3>3. AtRest(a)'
      BY <3>1, <3>2 DEF AtRest, ProbersOf, Carries
    <3>4. QED
      BY <3>3
  <2>3. ASSUME NEW p \in ProbersOf(a), OnItsWay(a, p)
        PROVE  \E q \in Prober : (q \in ProbersOf(a) /\ OnItsWay(a, q))'
    <3>1. /\ p \in Prober /\ probe[p].account = a /\ Carries(probe[p])
          /\ probe[p].new = Current(a) /\ Working(a) = probe[p].login
          /\ OnFile(probe[p]) /\ backup[a].login # Current(a)
          /\ \A q \in ProbersOf(a) : /\ probe[q].login # Current(a)
                                     /\ q # p => ~Carries(probe[q])
      BY <2>3 DEF ProbersOf, OnItsWay
    <3>2. /\ probe'[p].account = a /\ probe'[p].login = probe[p].login
          /\ probe'[p].fromLive = probe[p].fromLive
          /\ Carries(probe'[p]) /\ probe'[p].new = probe[p].new
      BY <3>1 DEF Looks
    <3>3. Working(a) # Current(a)
      BY <2>3, <3>1
    <3>4. backup'[a].login \in {backup[a].login, Working(a)}
      BY <1>7, <3>3 DEF AtRest
    <3>5. backup'[a].login # Current(a) /\ OnFile(probe[p])'
      BY <1>5, <1>7, <3>1, <3>2, <3>3, <3>4
    <3>6. ASSUME NEW q \in Prober, probe'[q].account = a
          PROVE  /\ probe'[q].login # Current(a)
                 /\ q # p => ~Carries(probe'[q])
      <4>1. q # p => ~Carries(probe'[q])
        BY <2>1, <3>1, <3>6
      <4>2. CASE probe'[q].login = Absent
        BY <1>3, <4>1, <4>2
      <4>3. CASE probe'[q].account = probe[q].account /\ probe'[q].login = probe[q].login
        BY <3>1, <3>6, <4>1, <4>3 DEF ProbersOf
      <4>4. CASE probe'[q].login \in {backup[a].login, Working(a)}
        BY <3>1, <3>3, <4>1, <4>4
      <4>5. QED
        BY <3>6, <4>2, <4>3, <4>4 DEF Looks
    <3>7. OnItsWay(a, p)'
      BY <1>2, <2>3, <3>1, <3>2, <3>5, <3>6 DEF OnItsWay, ProbersOf, Carries
    <3>8. (p \in ProbersOf(a))'
      BY <3>1, <3>2 DEF ProbersOf
    <3>9. QED
      BY <3>1, <3>7, <3>8
  <2>4. CASE \E p \in ProbersOf(a) : OnItsWay(a, p)
    BY <2>3, <2>4
  <2>5. QED
    BY <1>1, <1>7, <2>2, <2>4 DEF CarryInv
<1>8. QED
  BY <1>6, <1>7 DEF KeptInv, ReadInv, CarryInv

LEMMA LooksStill ==
  ASSUME RotationInv, NEW p \in Prober
  PROVE  Looks(probe[p], probe[p])
BY DEF RotationInv, ReadInv, ReadOK, Looks

LEMMA OneLooks ==
  ASSUME BundleInv, RotationInv, NEW p \in Prober, NEW n, Looks(probe[p], n),
         probe' = [probe EXCEPT ![p] = n]
  PROVE  \A q \in Prober : Looks(probe[q], probe'[q])
<1>1. \A q \in Prober : probe'[q] = IF q = p THEN n ELSE probe[q]
  BY DEF BundleInv, TypeOK
<1>2. QED
  BY <1>1, LooksStill

\* A switch under way has saved the outgoing account's login, so either way it
\* ends each account goes on with the login it had.
LEMMA SwitchKeepsLogins ==
  ASSUME BundleInv, RotationInv,
         (\E b \in Account : BeginSwitch(b)) \/ FinishSwitch \/ AbandonSwitch
  PROVE  KeptInv'
<1>1. /\ SettledInv /\ FilesOK /\ known = Account /\ Nobody \notin Account
      /\ active \in Account \cup {Nobody} /\ switching \in Account \cup {Nobody}
  BY BundleParts, ConstantsAssumption DEF RotationInv, SettledInv, FilesOK
<1>2. UNCHANGED <<known, added, issued, valid, probe, owner, kind>>
  BY DEF BeginSwitch, FinishSwitch, AbandonSwitch, state, upstream, bookkeeping
<1>3. \A p \in Prober : Looks(probe[p], probe'[p])
  BY <1>2, LooksStill
<1>4. ASSUME NEW a \in Account
      PROVE  /\ backup[a].login \in Login /\ backup[a].login.user = owner[a]
             /\ backup[a].login.token <= issued[owner[a]]
             /\ WellFormed(backup[a])
  BY <1>1, <1>4, SettledFacts
<1>5. ASSUME NEW b \in Account, BeginSwitch(b)
      PROVE  KeptInv'
  <2>1. UNCHANGED <<live, active>> /\ switching' = b /\ active # b
        /\ WellFormed(live)'
    BY <1>1, <1>2, <1>5 DEF BeginSwitch, state, SettledInv, WellFormed
  <2>2. CASE active = Nobody
    <3>1. backup' = backup
      BY <1>5, <2>2 DEF BeginSwitch
    <3>2. \A a \in Account : Working(a)' = Working(a)
      BY <2>1, <3>1 DEF Working
    <3>3. SettledInv'
      BY <1>1, <1>2, <2>1, <2>2, <3>1 DEF SettledInv
    <3>4. QED
      BY <1>2, <1>3, <3>1, <3>2, <3>3, NothingTraded
  <2>3. CASE active # Nobody
    <3> DEFINE n == [backup[active] EXCEPT !.login = live.login]
    <3>1. /\ active \in Account /\ live.login \in Login
          /\ live.login.user = owner[active]
          /\ live.login.token <= issued[owner[active]]
      BY <1>1, <2>3 DEF SettledInv
    <3>2. live.login # Absent /\ live.login # Broken
      BY <3>1, LoginsAreFiles
    <3>3. backup' = [backup EXCEPT ![active] = n]
      BY <1>5, <2>3, <3>1, <3>2 DEF BeginSwitch, Synced
    <3>4. backup \in [Account -> Bundle] /\ backup[active] \in Bundle
      BY <1>1, <3>1 DEF FilesOK
    <3>5. n.login = live.login
      BY <3>4 DEF Bundle
    <3> HIDE DEF n
    <3>6. \A a \in Account :
            backup'[a].login = IF a = active THEN live.login ELSE backup[a].login
      BY <3>1, <3>3, <3>4, <3>5
    <3>7. \A a \in Account : /\ Working(a)' = Working(a)
                             /\ backup'[a].login \in {backup[a].login, Working(a)}
      BY <2>1, <3>6 DEF Working
    <3>8. SettledInv'
      <4>1. \A a \in Account : /\ backup'[a].login \in Login
                               /\ backup'[a].login.token <= issued[owner[a]]
        BY <1>4, <3>1, <3>6
      <4>2. backup'[active].login = live.login
        BY <3>1, <3>6
      <4>3. QED
        BY <1>1, <1>2, <2>1, <2>3, <4>1, <4>2 DEF SettledInv
    <3>9. QED
      BY <1>2, <1>3, <3>7, <3>8, NothingTraded
  <2>4. QED
    BY <2>2, <2>3
<1>6. ASSUME FinishSwitch
      PROVE  KeptInv'
  <2>1. /\ backup' = backup /\ live' = backup[switching] /\ active' = switching
        /\ switching' = Nobody /\ switching \in Account /\ switching # active
    BY <1>1, <1>6 DEF FinishSwitch, SettledInv
  <2> WellFormed(live)'
    BY <1>2, <1>4, <2>1 DEF WellFormed
  <2>2. active \in Account => backup[active].login = live.login
    BY <1>1, <2>1 DEF SettledInv
  <2>3. \A a \in Account : Working(a)' = Working(a)
    BY <2>1, <2>2 DEF Working
  <2>4. SettledInv'
    BY <1>1, <1>2, <1>4, <2>1 DEF SettledInv
  <2>5. QED
    BY <1>2, <1>3, <2>1, <2>3, <2>4, NothingTraded
<1>7. ASSUME AbandonSwitch
      PROVE  KeptInv'
  <2>1. UNCHANGED <<live, backup, active>> /\ switching' = Nobody
        /\ WellFormed(live)'
    BY <1>1, <1>2, <1>7 DEF AbandonSwitch, files, state, SettledInv, WellFormed
  <2>2. \A a \in Account : Working(a)' = Working(a)
    BY <2>1 DEF Working
  <2>3. SettledInv'
    BY <1>1, <1>2, <2>1 DEF SettledInv
  <2>4. QED
    BY <1>2, <1>3, <2>1, <2>2, <2>3, NothingTraded
<1>8. QED
  BY <1>5, <1>6, <1>7

\* Everything a probe does short of trading a login or writing one.
LEMMA LookingKeepsLogins ==
  ASSUME NothingFails, BundleInv, RotationInv, NEW p \in Prober,
         \/ \E a \in Account : BeginProbe(p, a)
         \/ ReadSource(p) \/ FetchUsage(p) \/ ServerAnswers(p) \/ ServerFails(p)
  PROVE  KeptInv'
<1> DEFINE P == probe[p]
<1>1. /\ SettledInv /\ FilesOK /\ ProbeOK(P) /\ P \in ProbeState /\ ReadOK(P)
      /\ known = Account
  BY BundleParts DEF RotationInv, ReadInv, ProbesOK, SettledInv
<1>2. UNCHANGED <<live, backup, known, added, active, switching, issued, valid,
                  kind, owner>>
  BY DEF BeginProbe, ReadSource, FetchUsage, ServerAnswers, ServerFails, files,
         state, upstream, bookkeeping
<1>3. SettledInv'
  BY <1>1, <1>2 DEF SettledInv, WellFormed
<1>4. \A a \in Account : /\ Working(a)' = Working(a)
                         /\ backup'[a].login \in {backup[a].login, Working(a)}
  BY <1>2 DEF Working
<1>5. ASSUME NEW n, probe' = [probe EXCEPT ![p] = n], Looks(P, n)
      PROVE  KeptInv'
  BY <1>2, <1>3, <1>4, <1>5, OneLooks, NothingTraded
<1>6. ASSUME ~Carries(P)
      PROVE  Looks(P, NoProbe)
  BY <1>6 DEF Looks, NoProbe
<1>7. ASSUME NEW a \in Account, BeginProbe(p, a)
      PROVE  KeptInv'
  <2> DEFINE n == [NoProbe EXCEPT !.pc = "begun", !.account = a,
                                  !.added = added[a], !.active = active = a]
  <2>1. n.login = Absent /\ n.new = Absent /\ n.added = added[a]
    BY DEF NoProbe
  <2>2. P.pc = "idle" /\ probe' = [probe EXCEPT ![p] = n]
    BY <1>7 DEF BeginProbe
  <2> HIDE DEF n
  <2>3. ~Carries(P)
    BY <1>1, <2>2 DEF ProbeOK, Carries
  <2>4. added[a] = 0
    BY <1>1 DEF SettledInv
  <2>5. QED
    BY <1>5, <2>1, <2>2, <2>3, <2>4 DEF Looks
<1>8. CASE EndProbe(p) /\ ~Carries(P)
  BY <1>5, <1>6, <1>8 DEF EndProbe
<1>9. ASSUME ReadSource(p)
      PROVE  KeptInv'
  <2>1. P.pc = "begun" /\ P.account \in Account /\ P.new = Absent /\ ~Carries(P)
    BY <1>1, <1>9 DEF ReadSource, ProbeOK, Carries
  <2> DEFINE a == P.account
  <2>2. CASE EndProbe(p)
    BY <1>8, <2>1, <2>2
  <2>3. CASE /\ live.login \in Login /\ Verified(a)
             /\ probe' = [probe EXCEPT ![p] = [P EXCEPT !.pc = "read",
                                                        !.login = live.login,
                                                        !.fromLive = TRUE]]
    <3> DEFINE n == [P EXCEPT !.pc = "read", !.login = live.login,
                              !.fromLive = TRUE]
    <3>1. /\ n.pc = "read" /\ n.login = live.login /\ n.fromLive
          /\ n.account = a /\ n.new = P.new /\ n.added = P.added
      BY <1>1 DEF ProbeState
    <3>2. /\ live.login = Working(a)
          /\ backup[a].login = live.login \/ owner[a] \in Named
      BY <1>1, <2>1, <2>3, VerifiedIsWorking
    <3>3. probe' = [probe EXCEPT ![p] = n]
      BY <2>3
    <3> HIDE DEF n
    <3>4. Looks(P, n)
      BY <1>1, <2>1, <3>1, <3>2 DEF Looks, OnFile, Carries, ReadOK
    <3>5. QED
      BY <1>5, <3>3, <3>4
  <2>4. CASE probe' = [probe EXCEPT ![p] = [P EXCEPT !.pc = "read",
                                                     !.login = backup[a].login,
                                                     !.fromLive = FALSE]]
    <3> DEFINE n == [P EXCEPT !.pc = "read", !.login = backup[a].login,
                              !.fromLive = FALSE]
    <3>1. /\ n.pc = "read" /\ n.login = backup[a].login
          /\ n.account = a /\ n.new = P.new /\ n.added = P.added
      BY <1>1 DEF ProbeState
    <3>2. probe' = [probe EXCEPT ![p] = n]
      BY <2>4
    <3> HIDE DEF n
    <3>3. Looks(P, n)
      BY <1>1, <2>1, <3>1 DEF Looks, OnFile, Carries, ReadOK
    <3>4. QED
      BY <1>5, <3>2, <3>3
  <2>5. QED
    BY <1>9, <2>2, <2>3, <2>4 DEF ReadSource
<1>10. ASSUME FetchUsage(p), ~EndProbe(p)
       PROVE  KeptInv'
  <2> DEFINE n == [P EXCEPT !.pc = "fetched", !.new = P.login]
  <2>1. P.pc = "read" /\ probe' = [probe EXCEPT ![p] = n] /\ kind = "claude"
    BY <1>1, <1>10 DEF FetchUsage, BundleInv, TypeOK, ProbeState
  <2>2. /\ n.pc = "fetched" /\ n.login = P.login /\ n.fromLive = P.fromLive
        /\ n.account = P.account /\ n.new = P.login /\ n.added = P.added
    BY <1>1 DEF ProbeState
  <2> HIDE DEF n
  <2>3. ~Carries(P) /\ ~Carries(n)
    BY <1>1, <2>1, <2>2 DEF ProbeOK, Carries
  <2>4. Looks(P, n)
    BY <1>1, <2>2, <2>3 DEF Looks, ReadOK
  <2>5. QED
    BY <1>5, <2>1, <2>4
<1>11. ASSUME ServerAnswers(p), ~EndProbe(p)
       PROVE  KeptInv'
  <2> DEFINE n == [P EXCEPT !.pc = "refreshed"]
  <2>1. P.pc = "read" /\ probe' = [probe EXCEPT ![p] = n]
    BY <1>1, <1>11 DEF ServerAnswers, BundleInv, TypeOK, ProbeState
  <2>2. /\ n.pc = "refreshed" /\ n.login = P.login /\ n.fromLive = P.fromLive
        /\ n.account = P.account /\ n.new = P.new /\ n.added = P.added
    BY <1>1 DEF ProbeState
  <2> HIDE DEF n
  <2>3. Looks(P, n)
    BY <1>1, <2>1, <2>2 DEF Looks, ReadOK, Carries
  <2>4. QED
    BY <1>5, <2>1, <2>3
<1>12. ASSUME FetchUsage(p) \/ ServerAnswers(p) \/ ServerFails(p), EndProbe(p)
       PROVE  KeptInv'
  <2>1. CASE FetchUsage(p)
    <3>1. ~Carries(P)
      BY <1>1, <2>1 DEF FetchUsage, ProbeOK, Carries
    <3>2. QED
      BY <1>8, <1>12, <3>1
  <2>2. CASE ServerFails(p)
    <3>1. "fail" \notin Commands
      BY DEF NothingFails
    <3>2. QED
      BY <1>8, <1>12, <2>2, <3>1 DEF ServerFails, Carries
  <2>3. CASE ServerAnswers(p) /\ Carries(P)
    <3> DEFINE n == [P EXCEPT !.pc = "refreshed"]
    <3>1. probe' = [probe EXCEPT ![p] = n]
      BY <1>1, <2>3 DEF ServerAnswers, BundleInv, TypeOK, ProbeState, Carries
    <3>2. n.pc = "refreshed" /\ probe'[p] = n
      BY <1>1, <3>1 DEF ProbeState, BundleInv, TypeOK
    <3>3. probe'[p] = NoProbe /\ NoProbe.pc = "idle"
      BY <1>12, NoProbeIsOK DEF EndProbe, BundleInv, TypeOK
    <3>4. QED
      BY <3>2, <3>3
  <2>4. QED
    BY <1>8, <1>12, <2>1, <2>2, <2>3
<1>13. QED
  <2>1. ServerFails(p) => EndProbe(p)
    BY DEF ServerFails
  <2>2. QED
    BY <1>7, <1>9, <1>10, <1>11, <1>12, <2>1

\* Whoever trades account a's current login has the only one upstream accepts,
\* and nobody else is bringing it back.
LEMMA TradeIsOfCurrent ==
  ASSUME BundleInv, RotationInv, NEW a \in Account, NEW login \in Login,
         login.user = owner[a], Rotate(login.user, login.token)
  PROVE  /\ login = Current(a)
         /\ issued' \in [User -> 0..MaxTokens]
         /\ issued'[owner[a]] = issued[owner[a]] + 1
         /\ valid'[owner[a]] = {issued'[owner[a]]}
         /\ \A b \in Account \ {a} : /\ issued'[owner[b]] = issued[owner[b]]
                                     /\ valid'[owner[b]] = valid[owner[b]]
<1>1. SettledInv /\ UpstreamOK /\ MaxTokens \in Nat
  BY BundleParts, ConstantsAssumption DEF RotationInv
<1>2. /\ Current(a) \in Login /\ Current(a).user = owner[a]
      /\ Current(a).token = issued[owner[a]] /\ owner[a] \in User
      /\ valid[owner[a]] = {issued[owner[a]]} /\ issued[owner[a]] \in Nat
  BY <1>1, SettledFacts
<1>3. login.token = issued[owner[a]]
  BY <1>2 DEF Rotate
<1>4. login = Current(a)
  BY <1>2, <1>3, SameLogin
<1>5. issued'[owner[a]] = issued[owner[a]] + 1 /\ issued' \in [User -> 0..MaxTokens]
  BY <1>1, <1>2, RotateType DEF UpstreamOK
<1>6. valid'[owner[a]] = {issued'[owner[a]]}
  BY <1>1, <1>2, <1>3 DEF Rotate, UpstreamOK
<1>7. ASSUME NEW b \in Account \ {a}
      PROVE  /\ issued'[owner[b]] = issued[owner[b]]
             /\ valid'[owner[b]] = valid[owner[b]]
  <2>1. owner[b] # owner[a] /\ owner[b] \in User
    BY <1>1, <1>7 DEF SettledInv
  <2>2. QED
    BY <1>1, <1>2, <2>1 DEF Rotate, UpstreamOK
<1>8. QED
  BY <1>4, <1>5, <1>6, <1>7

\* Accounts that a trade is not about keep their login, or wait for it still.
LEMMA OthersKeepLogins ==
  ASSUME NEW b \in Account, AtRest(b) \/ \E p \in ProbersOf(b) : OnItsWay(b, p),
         owner' = owner, issued'[owner[b]] = issued[owner[b]],
         backup' = backup, Working(b)' = Working(b),
         \A p \in Prober :
            \/ probe'[p] = probe[p]
            \/ probe'[p].account # b /\ probe[p].account # b
  PROVE  (AtRest(b) \/ \E p \in ProbersOf(b) : OnItsWay(b, p))'
<1>1. Current(b)' = Current(b)
  BY DEF Current
<1>2. \A p \in Prober : /\ probe'[p].account = b <=> probe[p].account = b
                        /\ probe[p].account = b => probe'[p] = probe[p]
  OBVIOUS
<1>3. CASE AtRest(b)
  BY <1>1, <1>2, <1>3 DEF AtRest, ProbersOf, Carries
<1>4. ASSUME NEW p \in ProbersOf(b), OnItsWay(b, p)
      PROVE  (\E q \in ProbersOf(b) : OnItsWay(b, q))'
  <2>1. p \in Prober /\ probe'[p] = probe[p] /\ probe'[p].account = b
    BY <1>2 DEF ProbersOf
  <2>2. OnFile(probe[p]) => OnFile(probe[p])'
    BY <2>1 DEF OnFile
  <2>3. OnItsWay(b, p)'
    BY <1>1, <1>2, <1>4, <2>1, <2>2 DEF OnItsWay, ProbersOf, Carries
  <2>4. QED
    BY <2>1, <2>3 DEF ProbersOf
<1>5. QED
  BY <1>3, <1>4

\* The client uses the login the selected account goes on with, and has the
\* new one at once.
LEMMA ClientKeepsLogins ==
  ASSUME NothingFails, BundleInv, RotationInv, ClientRefreshes
  PROVE  KeptInv'
<1> DEFINE a == active
           new == [live.login EXCEPT !.token = issued'[live.login.user]]
<1>1. /\ SettledInv /\ ReadInv /\ CarryInv /\ FilesOK /\ ProbesOK /\ known = Account
      /\ live \in Bundle
  BY BundleParts DEF RotationInv, SettledInv, FilesOK
<1>2. /\ live.login \in Login /\ Rotate(live.login.user, live.login.token)
      /\ live' = [live EXCEPT !.login.token = issued'[live.login.user]]
      /\ switching = Nobody
      /\ UNCHANGED <<backup, known, added, active, switching, probe, owner, kind>>
  BY DEF ClientRefreshes, ClientWrites, NothingFails, state
<1>3. a \in Account /\ a # Nobody /\ live.login.user = owner[a]
  BY <1>1, <1>2, LoginsAreFiles DEF SettledInv, FilesOK
<1>4. /\ live.login = Current(a)
      /\ issued' \in [User -> 0..MaxTokens]
      /\ issued'[owner[a]] = issued[owner[a]] + 1
      /\ valid'[owner[a]] = {issued'[owner[a]]}
      /\ \A b \in Account \ {a} : /\ issued'[owner[b]] = issued[owner[b]]
                                  /\ valid'[owner[b]] = valid[owner[b]]
  BY <1>2, <1>3, TradeIsOfCurrent
<1>5. Working(a) = Current(a) /\ AtRest(a)
  BY <1>1, <1>3, <1>4 DEF Working, CarryInv, OnItsWay
<1>6. live'.login = new /\ live'.config = live.config
  BY <1>1, <1>2 DEF Bundle, Login
<1>7. new.user = owner[a] /\ new.token = issued'[owner[a]] /\ new \in Login
  <2>1. issued[owner[a]] \in Nat /\ owner[a] \in User /\ MaxTokens \in Nat
    BY <1>1, <1>3, SettledFacts, ConstantsAssumption
  <2>2. issued'[owner[a]] \in 1..MaxTokens
    BY <1>4, <2>1
  <2>3. QED
    BY <1>2, <1>3, <2>2 DEF Login
<1> HIDE DEF new
<1>8. SettledInv'
  <2>1. ASSUME NEW b \in Account
        PROVE  /\ backup'[b].login \in Login
               /\ backup'[b].login.token <= issued'[owner[b]]
               /\ valid'[owner[b]] = {issued'[owner[b]]}
    <3>1. /\ backup[b].login \in Login /\ backup[b].login.token <= issued[owner[b]]
          /\ issued[owner[b]] \in Nat /\ valid[owner[b]] = {issued[owner[b]]}
          /\ backup[b].login.token \in Nat
      BY <1>1, <2>1, SettledFacts DEF Login
    <3>2. QED
      BY <1>2, <1>4, <3>1, <2>1
  <2>2. new.token <= issued'[owner[a]]
    BY <1>7 DEF Login
  <2>3. QED
    <3>1. WellFormed(live)'
      BY <1>1, <1>2, <1>3, <1>6, <1>7 DEF SettledInv, WellFormed
    <3>2. QED
      BY <1>1, <1>2, <1>3, <1>6, <1>7, <2>1, <2>2, <3>1 DEF SettledInv
<1>9. ASSUME NEW p \in Prober
      PROVE  ReadOK(probe[p])'
  <2> DEFINE P == probe[p]
  <2>1. ReadOK(P) /\ ProbeOK(P) /\ P \in ProbeState
    BY <1>1, <1>9 DEF ReadInv, ProbesOK
  <2>2. CASE P.login = Absent
    BY <1>2, <2>1, <2>2 DEF ReadOK
  <2>3. CASE P.login # Absent /\ P.account # a
    <3>1. P.account \in Account \ {a}
      BY <2>1, <2>3 DEF ProbeOK
    <3>2. Current(P.account)' = Current(P.account)
      BY <1>2, <1>4, <3>1 DEF Current
    <3>3. OnFile(P) => OnFile(P)'
      BY <1>2 DEF OnFile
    <3>4. QED
      BY <1>2, <1>4, <2>1, <3>1, <3>2, <3>3 DEF ReadOK
  <2>4. CASE P.login # Absent /\ P.account = a
    <3>1. /\ P.login \in Login /\ P.login.user = owner[a]
          /\ P.login.token <= issued[owner[a]] /\ P.login.token \in Nat
          /\ issued[owner[a]] \in Nat
      BY <1>1, <1>3, <2>1, <2>4, SettledFacts DEF ReadOK, ProbeState, Login
    <3>2. P.login.token <= issued'[owner[a]] /\ P.login.token # issued'[owner[a]]
      BY <1>4, <3>1
    <3>3. P.login # Current(a)'
      BY <1>2, <3>2 DEF Current
    <3>4. QED
      BY <1>2, <2>1, <2>4, <3>1, <3>2, <3>3 DEF ReadOK
  <2>5. QED
    BY <2>2, <2>3, <2>4
<1>10. ASSUME NEW b \in Account
       PROVE  (AtRest(b) \/ \E p \in ProbersOf(b) : OnItsWay(b, p))'
  <2>1. CASE b = a
    <3>1. Working(b)' = new
      BY <1>2, <1>6, <2>1 DEF Working
    <3>2. Current(b)' = [user |-> owner[b], token |-> issued'[owner[b]]]
      BY <1>2 DEF Current
    <3>3. Working(b)' = Current(b)'
      BY <1>7, <2>1, <3>1, <3>2 DEF Login
    <3>4. AtRest(b)'
      BY <1>2, <1>5, <2>1, <3>3 DEF AtRest, ProbersOf, Carries
    <3>5. QED
      BY <3>4
  <2>2. CASE b # a
    <3>1. Working(b)' = Working(b)
      BY <1>2, <2>2 DEF Working
    <3>2. AtRest(b) \/ \E p \in ProbersOf(b) : OnItsWay(b, p)
      BY <1>1, <1>10 DEF CarryInv
    <3>3. issued'[owner[b]] = issued[owner[b]]
      BY <1>4, <1>10, <2>2
    <3>4. QED
      BY <1>2, <1>10, <3>1, <3>2, <3>3, OthersKeepLogins
  <2>3. QED
    BY <2>1, <2>2
<1>11. QED
  BY <1>8, <1>9, <1>10 DEF KeptInv, ReadInv, CarryInv

\* A probe that trades what it read for an account read the login the account
\* goes on with, and brings the new one back.
LEMMA TradeKeepsLogins ==
  ASSUME BundleInv, RotationInv, NEW p \in Prober,
         RefreshLogin(p) \/ ServerRefreshes(p)
  PROVE  KeptInv'
<1> DEFINE P == probe[p]
           Q == probe'[p]
           a == P.account
<1>1. /\ SettledInv /\ ReadInv /\ CarryInv /\ FilesOK /\ ProbesOK
      /\ ProbeOK(P) /\ P \in ProbeState /\ ReadOK(P) /\ known = Account
      /\ probe \in [Prober -> ProbeState]
  BY BundleParts DEF RotationInv, ReadInv, ProbesOK, SettledInv
<1>2. /\ P.pc = "read" /\ Rotate(P.login.user, P.login.token)
      /\ UNCHANGED <<live, backup, known, added, active, switching, owner, kind>>
  BY DEF RefreshLogin, ServerRefreshes, files, state, bookkeeping
<1>3. P.login \in Login /\ P.login.user = owner[a] /\ a \in Account
  BY <1>1, <1>2 DEF ProbeOK, ProbeState, ReadOK
<1>4. /\ P.login = Current(a)
      /\ issued' \in [User -> 0..MaxTokens]
      /\ issued'[owner[a]] = issued[owner[a]] + 1
      /\ valid'[owner[a]] = {issued'[owner[a]]}
      /\ \A b \in Account \ {a} : /\ issued'[owner[b]] = issued[owner[b]]
                                  /\ valid'[owner[b]] = valid[owner[b]]
  BY <1>1, <1>2, <1>3, TradeIsOfCurrent
<1>5. AtRest(a) /\ OnFile(P)
  BY <1>1, <1>3, <1>4, LoginsAreFiles DEF CarryInv, OnItsWay, ProbersOf, ReadOK
<1> DEFINE new == [P.login EXCEPT !.token = issued'[P.login.user]]
<1>6. /\ Q.pc \in {"read", "refreshed"} /\ Q.new = new /\ Q.account = a
      /\ Q.login = P.login /\ Q.fromLive = P.fromLive /\ Q.added = P.added
      /\ \A q \in Prober \ {p} : probe'[q] = probe[q]
  <2>1. CASE RefreshLogin(p)
    <3>1. probe' = [probe EXCEPT ![p].pc = "refreshed", ![p].new = new]
      BY <2>1 DEF RefreshLogin
    <3>2. QED
      BY <1>1, <3>1 DEF ProbeState
  <2>2. CASE ServerRefreshes(p)
    <3>1. probe' = [probe EXCEPT ![p].new = new]
      BY <2>2 DEF ServerRefreshes
    <3>2. QED
      BY <1>1, <1>2, <3>1 DEF ProbeState
  <2>3. QED
    BY <2>1, <2>2
<1>7. new = [user |-> owner[a], token |-> issued'[owner[a]]] /\ new # Absent
  <2>1. issued[owner[a]] \in Nat /\ owner[a] \in User /\ MaxTokens \in Nat
    BY <1>1, <1>3, SettledFacts, ConstantsAssumption
  <2>2. issued'[owner[a]] \in 1..MaxTokens
    BY <1>4, <2>1
  <2>3. new \in Login
    BY <1>3, <2>2 DEF Login
  <2>4. QED
    BY <1>3, <2>3, LoginsAreFiles DEF Login
<1> HIDE DEF new
<1>8. ASSUME NEW b \in Account
      PROVE  /\ backup[b].login \in Login /\ owner[b] \in User
             /\ backup[b].login.token <= issued'[owner[b]]
             /\ Working(b).token <= issued'[owner[b]]
             /\ valid'[owner[b]] = {issued'[owner[b]]}
             /\ issued[owner[b]] <= issued'[owner[b]]
             /\ issued[owner[b]] \in Nat /\ issued'[owner[b]] \in Nat
  <2>1. /\ backup[b].login \in Login /\ backup[b].login.token <= issued[owner[b]]
        /\ issued[owner[b]] \in Nat /\ valid[owner[b]] = {issued[owner[b]]}
        /\ backup[b].login.token \in Nat /\ owner[b] \in User
        /\ Working(b).token <= issued[owner[b]] /\ Working(b).token \in Nat
    BY <1>1, <1>8, SettledFacts DEF Login
  <2>2. QED
    BY <1>4, <1>8, <2>1
<1>9. SettledInv'
  <2> WellFormed(live)'
    BY <1>1, <1>2 DEF SettledInv, WellFormed
  <2>1. CASE active = Nobody
    BY <1>1, <1>2, <1>8, <2>1 DEF SettledInv
  <2>2. CASE active # Nobody
    <3>1. active \in Account /\ Working(active) = live.login
      BY <1>1, <2>2 DEF FilesOK, Working
    <3>2. live.login.token <= issued'[owner[active]]
      BY <1>8, <3>1
    <3>3. QED
      BY <1>1, <1>2, <1>8, <2>2, <3>2 DEF SettledInv
  <2>3. QED
    BY <2>1, <2>2
<1>10. ASSUME NEW q \in Prober
       PROVE  /\ ReadOK(probe[q])'
              /\ probe[q].account = a => probe'[q].login # new
  <2> DEFINE R == probe[q]
             S == probe'[q]
  <2>1. ReadOK(R) /\ ProbeOK(R) /\ R \in ProbeState
    BY <1>1, <1>10 DEF ReadInv, ProbesOK
  <2>2. /\ S.account = R.account /\ S.login = R.login
        /\ S.fromLive = R.fromLive /\ S.added = R.added
        /\ S.pc \in {"fetched", "mirroring"} => S.new = S.login
    BY <1>6, <2>1 DEF ReadOK
  <2>3. CASE R.login = Absent
    <3>1. ReadOK(probe[q])'
      BY <2>1, <2>2, <2>3 DEF ReadOK
    <3>2. QED
      BY <1>7, <2>2, <2>3, <3>1
  <2>4. CASE R.login # Absent /\ R.account # a
    <3>1. R.account \in Account \ {a}
      BY <2>1, <2>4 DEF ProbeOK
    <3>2. issued'[owner[R.account]] = issued[owner[R.account]]
      BY <1>4, <3>1
    <3>3. OnFile(R) => OnFile(probe[q])'
      BY <1>2, <2>2 DEF OnFile
    <3>4. S.login = Current(probe[q].account)' => OnFile(probe[q])'
      BY <1>2, <2>1, <2>2, <2>4, <3>2, <3>3 DEF Current, ReadOK
    <3>5. QED
      BY <1>2, <2>1, <2>2, <2>4, <3>2, <3>4 DEF ReadOK
  <2>5. CASE R.login # Absent /\ R.account = a
    <3>1. /\ R.login \in Login /\ R.login.user = owner[a]
          /\ R.login.token <= issued[owner[a]] /\ R.login.token \in Nat
          /\ issued[owner[a]] \in Nat
      BY <1>3, <1>8, <2>1, <2>5 DEF ReadOK, ProbeState, Login
    <3>2. R.login.token <= issued'[owner[a]] /\ R.login.token # issued'[owner[a]]
      BY <1>4, <3>1
    <3>3. R.login # [user |-> owner[a], token |-> issued'[owner[a]]]
      BY <3>2
    <3>4. S.login # Current(probe[q].account)' /\ S.login # new
      BY <1>2, <1>7, <2>2, <2>5, <3>3 DEF Current
    <3>5. QED
      BY <1>2, <2>1, <2>2, <2>5, <3>1, <3>2, <3>4 DEF ReadOK
  <2>6. QED
    BY <2>3, <2>4, <2>5
<1>11. \A b \in Account : Working(b)' = Working(b)
  BY <1>2 DEF Working
<1>12. ASSUME NEW b \in Account
       PROVE  (AtRest(b) \/ \E q \in ProbersOf(b) : OnItsWay(b, q))'
  <2>1. CASE b = a
    <3>1. Current(b)' = new
      BY <1>2, <1>7, <2>1 DEF Current
    <3>2. Carries(Q) /\ Q.new = Current(b)'
      BY <1>6, <1>7, <3>1 DEF Carries
    <3>3. Working(b)' = Q.login
      BY <1>4, <1>5, <1>6, <1>11, <2>1 DEF AtRest
    <3>4. OnFile(probe[p])'
      BY <1>2, <1>5, <1>6 DEF OnFile
    <3>5. backup'[b].login # Current(b)'
      <4>1. backup[b].login.token <= issued[owner[b]] /\ backup[b].login \in Login
        BY <1>1, SettledFacts
      <4>2. backup[b].login.token # issued'[owner[b]]
        BY <1>4, <1>8, <2>1, <4>1 DEF Login
      <4>3. QED
        BY <1>2, <1>7, <2>1, <3>1, <4>2
    <3>6. ASSUME NEW q \in Prober, probe'[q].account = b
          PROVE  /\ probe'[q].login # Current(b)'
                 /\ q # p => ~Carries(probe'[q])
      <4>1. probe[q].account = a
        BY <1>6, <2>1, <3>6
      <4>2. probe'[q].login # new
        BY <1>10, <3>6, <4>1
      <4>3. q # p => ~Carries(probe'[q])
        BY <1>5, <1>6, <3>6, <4>1 DEF AtRest, ProbersOf
      <4>4. QED
        BY <3>1, <4>2, <4>3
    <3>7. OnItsWay(b, p)'
      BY <3>2, <3>3, <3>4, <3>5, <3>6 DEF OnItsWay, ProbersOf, Carries
    <3>8. (p \in ProbersOf(b))'
      BY <1>6, <2>1 DEF ProbersOf
    <3>9. QED
      BY <3>7, <3>8
  <2>2. CASE b # a
    <3>1. \A q \in Prober : \/ probe'[q] = probe[q]
                            \/ probe'[q].account # b /\ probe[q].account # b
      BY <1>6, <2>2
    <3>2. AtRest(b) \/ \E q \in ProbersOf(b) : OnItsWay(b, q)
      BY <1>1, <1>12 DEF CarryInv
    <3>3. issued'[owner[b]] = issued[owner[b]]
      BY <1>4, <1>12, <2>2
    <3>4. QED
      BY <1>2, <1>11, <1>12, <3>1, <3>2, <3>3, OthersKeepLogins
  <2>3. QED
    BY <2>1, <2>2
<1>13. QED
  BY <1>9, <1>10, <1>12 DEF KeptInv, ReadInv, CarryInv

\* The probe that brings an account's login back finds what it has read.
LEMMA CarrierFindsIt ==
  ASSUME BundleInv, RotationInv, NEW p \in Prober, probe[p].pc = "refreshed"
  PROVE  SourceUnchanged(probe[p])
<1> DEFINE P == probe[p]
           a == P.account
<1>1. /\ SettledInv /\ CarryInv /\ ProbeOK(P) /\ P \in ProbeState /\ ReadOK(P)
      /\ known = Account
  BY BundleParts DEF RotationInv, ReadInv, ProbesOK, SettledInv
<1>2. P.login \in Login /\ a \in Account /\ P.login # Absent
  BY <1>1, LoginsAreFiles DEF ProbeOK, ProbeState
<1>3. Carries(P) /\ p \in ProbersOf(a)
  BY <1>1 DEF Carries, ProbersOf, ProbeOK
<1>4. Working(a) = P.login /\ OnFile(P)
  BY <1>1, <1>2, <1>3 DEF CarryInv, AtRest, OnItsWay
<1>5. added[a] = P.added /\ a \in known
  BY <1>1, <1>2 DEF ReadOK, SettledInv
<1>6. ASSUME active = a
      PROVE  /\ Verified(a) /\ live.login = P.login
             /\ ~P.fromLive => backup[a].login = P.login
  <2>1. live.login = P.login
    BY <1>4, <1>6 DEF Working
  <2>2. backup[a].login = P.login \/ (P.fromLive /\ owner[a] \in Named)
    BY <1>4 DEF OnFile
  <2>3. Verified(a)
    BY <1>1, <1>2, <1>6, <2>1, <2>2, OnFileIsVerified
  <2>4. QED
    BY <2>1, <2>2, <2>3
<1>7. active # a => backup[a].login = P.login
  BY <1>4 DEF Working
<1>8. QED
  BY <1>5, <1>6, <1>7 DEF SourceUnchanged, SourceNow

\* To compare moves no login, and lets go of none that was traded.
LEMMA CompareKeepsLogins ==
  ASSUME BundleInv, RotationInv, NEW p \in Prober, CompareSource(p)
  PROVE  KeptInv'
<1> DEFINE P == probe[p]
           n == [P EXCEPT !.pc = IF P.pc = "fetched" THEN "mirroring"
                                                     ELSE "replacing"]
<1>1. /\ SettledInv /\ ProbeOK(P) /\ P \in ProbeState /\ ReadOK(P)
      /\ P.pc \in {"fetched", "refreshed"} /\ probe \in [Prober -> ProbeState]
  BY BundleParts DEF RotationInv, ReadInv, ProbesOK, CompareSource
<1>2. UNCHANGED <<live, backup, known, added, active, switching, issued, valid,
                  kind, owner>>
  BY DEF CompareSource, files, state, upstream
<1>3. SettledInv'
  BY <1>1, <1>2 DEF SettledInv, WellFormed
<1>4. \A a \in Account : /\ Working(a)' = Working(a)
                         /\ backup'[a].login \in {backup[a].login, Working(a)}
  BY <1>2 DEF Working
<1>5. ASSUME NEW m, probe' = [probe EXCEPT ![p] = m], Looks(P, m)
      PROVE  KeptInv'
  BY <1>2, <1>3, <1>4, <1>5, OneLooks, NothingTraded
<1>6. CASE SourceUnchanged(P)
  <2>1. probe' = [probe EXCEPT ![p] = n]
    BY <1>1, <1>6 DEF CompareSource, ProbeState
  <2>2. /\ n.pc = (IF P.pc = "fetched" THEN "mirroring" ELSE "replacing")
        /\ n.login = P.login /\ n.fromLive = P.fromLive
        /\ n.account = P.account /\ n.new = P.new /\ n.added = P.added
    BY <1>1 DEF ProbeState
  <2> HIDE DEF n
  <2>3. Looks(P, n)
    BY <1>1, <2>2 DEF Looks, ReadOK, Carries
  <2>4. QED
    BY <1>5, <2>1, <2>3
<1>7. CASE ~SourceUnchanged(P)
  <2>1. ~Carries(P)
    BY <1>1, <1>7, CarrierFindsIt DEF Carries
  <2>2. Looks(P, NoProbe)
    BY <2>1 DEF Looks, NoProbe
  <2>3. QED
    BY <1>5, <1>7, <2>2 DEF CompareSource, EndProbe
<1>8. QED
  BY <1>6, <1>7

\* A probe that only read the live login copies what is still there, or what
\* nobody needs any more; the one that brings an account's login back writes
\* it over the login it has read.
LEMMA WriteKeepsLogins ==
  ASSUME BundleInv, RotationInv, NEW p \in Prober, WriteUpdate(p)
  PROVE  KeptInv'
<1> DEFINE P == probe[p]
           a == P.account
<1>1. /\ SettledInv /\ ReadInv /\ CarryInv /\ WriteOK(P) /\ FilesOK /\ ProbesOK
      /\ ProbeOK(P) /\ P \in ProbeState /\ ReadOK(P) /\ known = Account
      /\ probe \in [Prober -> ProbeState] /\ live \in Bundle
      /\ backup \in [Account -> Bundle]
  BY BundleParts DEF RotationInv, ReadInv, WriteInv, ProbesOK, SettledInv, FilesOK
<1>2. /\ P.pc \in {"mirroring", "replacing"} /\ switching = Nobody
      /\ probe' = [probe EXCEPT ![p] = NoProbe]
      /\ UNCHANGED <<known, added, active, switching, issued, valid, owner, kind>>
  <2>1. Writing(P)
    BY DEF WriteUpdate
  <2>2. switching = Nobody
    BY <2>1 DEF BundleInv, WriterInv
  <2>3. QED
    BY <2>1, <2>2 DEF WriteUpdate, Writing, EndProbe, state, upstream
<1>3. /\ P.login \in Login /\ P.new \in Login /\ P.login.user = owner[a]
      /\ P.login.token <= issued[owner[a]] /\ P.new.user = owner[a]
      /\ a \in Account
  BY <1>1, <1>2 DEF ProbeOK, ProbeState, ReadOK
<1>4. /\ NoProbe.pc = "idle" /\ NoProbe.login = Absent /\ NoProbe.new = Absent
      /\ NoProbe.added = 0
  BY DEF NoProbe
<1>5. ASSUME NEW login \in Login
      PROVE  /\ [backup[a] EXCEPT !.login = login].login = login
             /\ [live EXCEPT !.login = login].login = login
             /\ [live EXCEPT !.login = login].config = live.config
             /\ [backup EXCEPT ![a].login = login]
                   = [backup EXCEPT ![a] = [backup[a] EXCEPT !.login = login]]
  BY <1>1, <1>3 DEF Bundle
<1>6. CASE P.pc = "mirroring"
  <2>1. P.new = P.login /\ ~Carries(P)
    BY <1>1, <1>6 DEF ReadOK, Carries
  <2>2. Looks(P, NoProbe)
    BY <1>4, <2>1 DEF Looks
  <2>3. \A q \in Prober : Looks(probe[q], probe'[q])
    BY <1>2, <2>2, OneLooks
  <2>4. live' = live /\ WellFormed(live)'
    BY <1>1, <1>2, <1>6 DEF WriteUpdate, SettledInv, WellFormed
  <2>5. \A b \in Account :
           backup'[b].login = IF b = a THEN P.login ELSE backup[b].login
    <3>1. backup' = [backup EXCEPT ![a] = [backup[a] EXCEPT !.login = P.login]]
      BY <1>3, <1>5, <2>1 DEF WriteUpdate
    <3>2. QED
      BY <1>1, <1>3, <1>5, <3>1
  <2>6. \A b \in Account : Working(b)' = Working(b)
    <3>1. active # a => backup[a].login = P.login
      BY <1>1, <1>2 DEF WriteOK, Writing, SourceUnchanged, SourceNow
    <3>2. QED
      BY <1>2, <2>4, <2>5, <3>1 DEF Working
  <2>7. SettledInv'
    <3>1. \A b \in Account : /\ backup'[b].login \in Login
                             /\ backup'[b].login.token <= issued[owner[b]]
      BY <1>1, <1>3, <2>5, SettledFacts
    <3>2. QED
      BY <1>1, <1>2, <2>4, <3>1 DEF SettledInv
  <2>8. CASE SourceUnchanged(P)
    <3>1. Working(a) = P.login
      BY <2>8 DEF SourceUnchanged, SourceNow, Working
    <3>2. \A b \in Account : backup'[b].login \in {backup[b].login, Working(b)}
      BY <2>5, <3>1
    <3>3. QED
      BY <1>2, <2>3, <2>6, <2>7, <3>2, NothingTraded
  <2>9. CASE /\ active = a /\ live.login = Current(a)
             /\ \A q \in ProbersOf(a) : probe[q].login # Current(a)
    <3>1. Working(a) = Current(a) /\ AtRest(a)
      BY <1>1, <1>3, <2>9 DEF Working, CarryInv, OnItsWay
    <3>2. Current(a) # Absent
      BY <1>1, <1>3, SettledFacts, LoginsAreFiles
    <3>3. ASSUME NEW q \in Prober, probe'[q].account = a
          PROVE  probe'[q].login # Current(a)
      <4>1. probe'[q] = IF q = p THEN NoProbe ELSE probe[q]
        BY <1>1, <1>2
      <4>2. QED
        BY <1>4, <2>9, <3>2, <3>3, <4>1 DEF ProbersOf
    <3>4. \A b \in Account :
             \/ backup'[b].login \in {backup[b].login, Working(b)}
             \/ /\ AtRest(b)
                /\ \A q \in Prober : probe'[q].account = b =>
                                       probe'[q].login # Current(b)
      BY <2>5, <3>1, <3>3
    <3>5. QED
      BY <1>2, <2>3, <2>6, <2>7, <3>4, NothingTraded
  <2>10. QED
    BY <1>1, <1>2, <2>8, <2>9 DEF WriteOK, Writing
<1>7. CASE P.pc = "replacing"
  <2>1. Carries(P) /\ p \in ProbersOf(a)
    BY <1>3, <1>7, LoginsAreFiles DEF Carries, ProbersOf
  <2>2. OnItsWay(a, p)
    BY <1>1, <1>3, <2>1 DEF CarryInv, AtRest, OnItsWay
  <2>3. /\ P.new = Current(a) /\ Working(a) = P.login /\ OnFile(P)
        /\ \A q \in ProbersOf(a) : /\ probe[q].login # Current(a)
                                   /\ q # p => ~Carries(probe[q])
    BY <2>2 DEF OnItsWay
  <2>5. /\ backup' = [backup EXCEPT ![a] = [backup[a] EXCEPT !.login = P.new]]
        /\ live' = IF active = a THEN [live EXCEPT !.login = P.new] ELSE live
    BY <1>3, <1>5, <1>7 DEF WriteUpdate
  <2>6. /\ \A b \in Account :
             backup'[b].login = IF b = a THEN P.new ELSE backup[b].login
        /\ live'.login = IF active = a THEN P.new ELSE live.login
    BY <1>1, <1>3, <1>5, <2>5
  <2>7. P.new.token = issued[owner[a]] /\ issued[owner[a]] \in Nat
    BY <1>1, <1>3, <2>3, SettledFacts
  <2>8. SettledInv'
    <3>1. \A b \in Account : /\ backup'[b].login \in Login
                             /\ backup'[b].login.token <= issued[owner[b]]
      BY <1>1, <1>3, <2>6, <2>7, SettledFacts
    <3>2. CASE active = a
      <4>1. /\ live'.config = live.config /\ live'.login = P.new
            /\ live.login = P.login /\ WellFormed(live) /\ a # Nobody
        BY <1>1, <1>3, <1>5, <2>3, <2>5, <3>2, ConstantsAssumption
           DEF Working, SettledInv
      <4>2. WellFormed(live)'
        BY <1>2, <1>3, <4>1 DEF WellFormed, NameOf
      <4>3. /\ active' # Nobody /\ live'.login \in Login
            /\ live'.login.user = owner[active]
            /\ live'.login.token <= issued[owner[active]]
        BY <1>2, <1>3, <2>7, <3>2, <4>1
      <4>4. QED
        BY <1>1, <1>2, <3>1, <4>2, <4>3 DEF SettledInv
    <3>3. CASE active # a
      <4>1. live' = live /\ WellFormed(live)'
        BY <1>1, <1>2, <2>5, <3>3 DEF SettledInv, WellFormed
      <4>2. QED
        BY <1>1, <1>2, <3>1, <4>1 DEF SettledInv
    <3>4. QED
      BY <3>2, <3>3
  <2>9. /\ \A b \in Account : Current(b)' = Current(b)
        /\ \A b \in Account :
             Working(b)' = IF b = a THEN Current(b) ELSE Working(b)
    BY <1>2, <2>3, <2>6 DEF Current, Working
  <2>10. ASSUME NEW b \in Account, b # a
         PROVE  backup'[b] = backup[b]
    BY <1>1, <2>5, <2>10
  <2>11. \A q \in Prober : probe'[q] = IF q = p THEN NoProbe ELSE probe[q]
    BY <1>1, <1>2
  <2>12. ASSUME NEW q \in Prober
         PROVE  ReadOK(probe[q])'
    <3>1. CASE q = p
      BY <1>4, <2>11, <3>1 DEF ReadOK
    <3>2. CASE q # p
      <4> DEFINE R == probe[q]
      <4>1. ReadOK(R) /\ ProbeOK(R) /\ probe'[q] = R
        BY <1>1, <2>11, <2>12, <3>2 DEF ReadInv, ProbesOK
      <4>2. CASE R.login = Absent
        BY <4>1, <4>2 DEF ReadOK
      <4>3. CASE R.login # Absent
        <5>1. R.account \in Account
          BY <4>1, <4>3 DEF ProbeOK
        <5>2. Current(probe[q].account)' = Current(R.account)
          BY <1>2, <4>1 DEF Current
        <5>3. R.login = Current(R.account) => OnFile(probe[q])'
          <6>1. CASE R.account = a
            BY <2>3, <2>12, <6>1 DEF ProbersOf
          <6>2. CASE R.account # a
            BY <1>2, <2>10, <4>1, <4>3, <5>1, <6>2 DEF ReadOK, OnFile
          <6>3. QED
            BY <6>1, <6>2
        <5>4. QED
          BY <1>2, <4>1, <4>3, <5>2, <5>3 DEF ReadOK
      <4>4. QED
        BY <4>2, <4>3
    <3>3. QED
      BY <3>1, <3>2
  <2>13. ASSUME NEW b \in Account
         PROVE  (AtRest(b) \/ \E q \in ProbersOf(b) : OnItsWay(b, q))'
    <3>1. CASE b = a
      <4>1. Working(b)' = Current(b)'
        BY <2>9, <3>1
      <4>2. \A q \in Prober : probe'[q].account = b => ~Carries(probe'[q])
        BY <1>4, <2>3, <2>11, <3>1 DEF ProbersOf, Carries
      <4>3. AtRest(b)'
        BY <4>1, <4>2 DEF AtRest, ProbersOf, Carries
      <4>4. QED
        BY <4>3
    <3>2. CASE b # a /\ AtRest(b)
      <4>1. Working(b)' = Current(b)'
        BY <2>9, <3>2 DEF AtRest
      <4>2. \A q \in Prober : probe'[q].account = b => ~Carries(probe'[q])
        BY <1>4, <2>11, <3>2 DEF AtRest, ProbersOf, Carries
      <4>3. AtRest(b)'
        BY <4>1, <4>2 DEF AtRest, ProbersOf, Carries
      <4>4. QED
        BY <4>3
    <3>3. ASSUME b # a, NEW q \in ProbersOf(b), OnItsWay(b, q)
          PROVE  (\E r \in ProbersOf(b) : OnItsWay(b, r))'
      <4>1. q \in Prober /\ q # p /\ probe'[q] = probe[q] /\ probe'[q].account = b
        BY <2>11, <3>3 DEF ProbersOf
      <4>2. OnFile(probe[q])'
        BY <1>2, <2>10, <3>3, <4>1 DEF OnFile, OnItsWay
      <4>3. ASSUME NEW r \in Prober, probe'[r].account = b
            PROVE  /\ probe'[r].login # Current(b)
                   /\ r # q => ~Carries(probe'[r])
        <5>1. CASE r = p
          <6>1. Current(b) \in Login
            BY <1>1, SettledFacts
          <6>2. QED
            BY <1>4, <2>11, <5>1, <6>1, LoginsAreFiles DEF Carries
        <5>2. CASE r # p
          BY <2>11, <3>3, <4>3, <5>2 DEF OnItsWay, ProbersOf
        <5>3. QED
          BY <5>1, <5>2
      <4>4. OnItsWay(b, q)'
        BY <2>9, <2>10, <3>3, <4>1, <4>2, <4>3 DEF OnItsWay, ProbersOf, Carries
      <4>5. QED
        BY <4>1, <4>4 DEF ProbersOf
    <3>4. QED
      BY <1>1, <2>13, <3>1, <3>2, <3>3 DEF CarryInv
  <2>14. QED
    BY <2>8, <2>12, <2>13 DEF KeptInv, ReadInv, CarryInv
<1>8. QED
  BY <1>2, <1>6, <1>7

\* Nobody writes after a step for which the lock must be free, and one probe
\* may have changed in.
LEMMA NobodyWrites ==
  ASSUME NEW p \in Prober,
         \A q \in Prober \ {p} : ~Writing(probe[q]),
         ~Writing(probe'[p]),
         \A q \in Prober \ {p} : probe'[q] = probe[q]
  PROVE  WriteInv'
<1>1. \A q \in Prober : ~Writing(probe'[q])
  OBVIOUS
<1>2. ASSUME NEW q \in Prober
      PROVE  WriteOK(probe[q])'
  <2>1. ~Writing(probe[q])'
    BY <1>1 DEF Writing
  <2>2. QED
    BY <2>1 DEF WriteOK
<1>3. QED
  BY <1>2 DEF WriteInv

\* A probe that writes is not disturbed by one that leaves the files alone.
LEMMA OthersWrite ==
  ASSUME BundleInv, RotationInv, NEW p \in Prober, ~Writing(probe'[p]),
         UNCHANGED <<live, backup, known, added, active, kind, owner>>,
         \A q \in Prober \ {p} : probe'[q] = probe[q],
         \/ probe'[p].login = Absent
         \/ /\ probe'[p].login = probe[p].login
            /\ probe'[p].account = probe[p].account,
         \A a \in Account :
            \/ issued'[owner[a]] = issued[owner[a]]
            \/ p \in ProbersOf(a) /\ probe[p].login = Current(a)
  PROVE  WriteInv'
<1>1. ASSUME NEW q \in Prober, Writing(probe'[q])
      PROVE  \/ SourceUnchanged(probe[q])'
             \/ /\ probe'[q].pc = "mirroring"
                /\ active' = probe'[q].account
                /\ live'.login = Current(probe[q].account)'
                /\ \A r \in Prober : probe'[r].account = probe'[q].account =>
                      probe'[r].login # Current(probe[q].account)'
  <2> DEFINE P == probe[q]
             a == P.account
  <2>1. q # p /\ probe'[q] = P /\ Writing(P) /\ WriteOK(P)
    BY <1>1 DEF Writing, RotationInv, WriteInv
  <2>2. CASE SourceUnchanged(P)
    <3>1. SourceUnchanged(probe[q])'
      BY <2>1, <2>2 DEF SourceUnchanged, SourceNow, Verified, Identity, NameOf
    <3>2. QED
      BY <3>1
  <2>3. CASE /\ P.pc = "mirroring" /\ active = a
             /\ live.login = Current(a)
             /\ \A r \in ProbersOf(a) : probe[r].login # Current(a)
    <3>1. a \in Account /\ SettledInv
      BY <2>1, BundleParts DEF ProbesOK, ProbeOK, Writing, RotationInv
    <3>2. issued'[owner[a]] = issued[owner[a]]
      BY <2>3, <3>1
    <3>3. Current(probe[q].account)' = Current(a)
      BY <2>1, <3>2 DEF Current
    <3>4. Current(a) # Absent
      BY <3>1, SettledFacts, LoginsAreFiles
    <3>5. ASSUME NEW r \in Prober, probe'[r].account = a
          PROVE  probe'[r].login # Current(a)
      BY <2>3, <3>4, <3>5 DEF ProbersOf
    <3>6. QED
      BY <2>1, <2>3, <3>3, <3>5
  <2>4. QED
    BY <2>1, <2>2, <2>3 DEF WriteOK
<1>2. ASSUME NEW q \in Prober
      PROVE  WriteOK(probe[q])'
  BY <1>1, <1>2 DEF WriteOK, Writing, ProbersOf
<1>3. QED
  BY <1>2 DEF WriteInv

\* The client's new login finds the probe writing for another account, or
\* copying the login the client has replaced.
LEMMA ClientLetsWrite ==
  ASSUME NothingFails, BundleInv, RotationInv, ClientRefreshes
  PROVE  WriteInv'
<1> DEFINE a == active
<1>1. /\ SettledInv /\ ReadInv /\ CarryInv /\ WriteInv /\ FilesOK /\ ProbesOK
      /\ live \in Bundle
  BY BundleParts DEF RotationInv, FilesOK
<1>2. /\ live.login \in Login /\ Rotate(live.login.user, live.login.token)
      /\ live' = [live EXCEPT !.login.token = issued'[live.login.user]]
      /\ UNCHANGED <<backup, known, added, active, probe, owner, kind>>
  BY DEF ClientRefreshes, ClientWrites, state
<1>3. a \in Account /\ live.login.user = owner[a]
  BY <1>1, <1>2, LoginsAreFiles DEF SettledInv, FilesOK
<1>4. /\ live.login = Current(a) /\ issued'[owner[a]] = issued[owner[a]] + 1
      /\ issued' \in [User -> 0..MaxTokens]
  BY <1>1, <1>2, <1>3, TradeIsOfCurrent
<1>5. AtRest(a)
  BY <1>1, <1>3, <1>4 DEF Working, CarryInv, OnItsWay
<1>6. live'.login = [user |-> owner[a], token |-> issued'[owner[a]]]
  BY <1>1, <1>2, <1>3 DEF Bundle, Login
<1>7. Current(a)' = [user |-> owner[a], token |-> issued'[owner[a]]]
  BY <1>2 DEF Current
<1>8. ASSUME NEW q \in Prober, Writing(probe[q])
      PROVE  WriteOK(probe[q])'
  <2> DEFINE P == probe[q]
  <2>1. probe'[q] = P /\ WriteOK(P) /\ ProbeOK(P) /\ P.account \in Account
    BY <1>1, <1>2, <1>8 DEF WriteInv, ProbesOK, ProbeOK, Writing
  <2>2. CASE a # P.account
    <3>1. SourceUnchanged(P)
      BY <1>8, <2>1, <2>2 DEF WriteOK
    <3>2. SourceUnchanged(probe[q])'
      BY <1>2, <2>1, <2>2, <3>1 DEF SourceUnchanged, SourceNow
    <3>3. QED
      BY <3>2 DEF WriteOK
  <2>3. CASE a = P.account
    <3>1. ~Carries(P)
      BY <1>5, <2>3 DEF AtRest, ProbersOf
    <3>2. P.pc = "mirroring"
      BY <1>8, <2>1, <3>1 DEF Writing, Carries, ProbeOK
    <3>3. ASSUME NEW r \in Prober, probe[r].account = a
          PROVE  probe[r].login # [user |-> owner[a], token |-> issued'[owner[a]]]
      <4>1. issued[owner[a]] \in Nat
        BY <1>1, <1>3, SettledFacts
      <4>2. ReadOK(probe[r]) /\ probe[r].login \in Login \cup {Absent}
        BY <1>1 DEF ReadInv, ProbesOK, ProbeState
      <4>3. CASE probe[r].login = Absent
        <5>1. issued'[owner[a]] \in 1..MaxTokens /\ owner[a] \in User
          BY <1>1, <1>3, <1>4, <4>1, SettledFacts, ConstantsAssumption
        <5>2. [user |-> owner[a], token |-> issued'[owner[a]]] \in Login
          BY <5>1 DEF Login
        <5>3. QED
          BY <4>3, <5>2, LoginsAreFiles
      <4>4. CASE probe[r].login # Absent
        BY <1>4, <3>3, <4>1, <4>2, <4>4 DEF ReadOK, Login
      <4>5. QED
        BY <4>3, <4>4
    <3>4. /\ probe'[q].pc = "mirroring" /\ active' = probe'[q].account
          /\ live'.login = Current(probe[q].account)'
          /\ \A r \in Prober : probe'[r].account = probe'[q].account =>
                probe'[r].login # Current(probe[q].account)'
      BY <1>2, <1>6, <1>7, <2>1, <2>3, <3>2, <3>3 DEF Current
    <3>5. QED
      BY <3>4 DEF WriteOK, ProbersOf
  <2>4. QED
    BY <2>2, <2>3
<1>9. ASSUME NEW q \in Prober, ~Writing(probe[q])
      PROVE  WriteOK(probe[q])'
  BY <1>2, <1>9 DEF WriteOK, Writing
<1>10. QED
  BY <1>8, <1>9 DEF WriteInv

LEMMA NextWriteInv ==
  ASSUME NothingFails, BundleInv, RotationInv, NEW p \in Prober,
         \/ \E a \in Account : BeginProbe(p, a)
         \/ ReadSource(p) \/ FetchUsage(p) \/ RefreshLogin(p)
         \/ ServerRefreshes(p) \/ ServerAnswers(p) \/ ServerFails(p)
         \/ CompareSource(p) \/ WriteUpdate(p)
  PROVE  WriteInv'
<1> DEFINE P == probe[p]
<1>1. /\ SettledInv /\ ProbesOK /\ ProbeOK(P) /\ P \in ProbeState /\ ReadOK(P)
      /\ probe \in [Prober -> ProbeState]
  BY BundleParts DEF RotationInv, ReadInv, ProbesOK
<1>2. NoProbe.pc = "idle" /\ NoProbe.login = Absent
  BY DEF NoProbe
<1>3. ASSUME NEW m, probe' = [probe EXCEPT ![p] = m]
      PROVE  probe'[p] = m /\ \A q \in Prober \ {p} : probe'[q] = probe[q]
  BY <1>1, <1>3
<1>4. ASSUME NEW a \in Account, BeginProbe(p, a)
      PROVE  WriteInv'
  <2> DEFINE n == [NoProbe EXCEPT !.pc = "begun", !.account = a,
                                  !.added = added[a], !.active = active = a]
  <2>1. n.pc = "begun"
    BY DEF NoProbe
  <2>2. probe' = [probe EXCEPT ![p] = n] /\ LockIsFree
    BY <1>4 DEF BeginProbe
  <2> HIDE DEF n
  <2>3. QED
    BY <1>3, <2>1, <2>2, NobodyWrites DEF LockIsFree, Writing
<1>5. CASE ReadSource(p)
  <2>1. LockIsFree
    BY <1>5 DEF ReadSource
  <2>2. PICK m : probe' = [probe EXCEPT ![p] = m] /\ ~Writing(m)
    <3>1. CASE EndProbe(p)
      BY <1>2, <3>1 DEF EndProbe, Writing
    <3>2. ASSUME NEW login, NEW fromLive,
                 probe' = [probe EXCEPT ![p] = [P EXCEPT !.pc = "read",
                                                         !.login = login,
                                                         !.fromLive = fromLive]]
          PROVE  \E m : probe' = [probe EXCEPT ![p] = m] /\ ~Writing(m)
      <4> DEFINE n == [P EXCEPT !.pc = "read", !.login = login,
                                !.fromLive = fromLive]
      <4>1. n.pc = "read"
        BY <1>1 DEF ProbeState
      <4> HIDE DEF n
      <4>2. ~Writing(n)
        BY <4>1 DEF Writing
      <4>3. QED
        BY <3>2, <4>2 DEF n
    <3>3. QED
      BY <1>5, <3>1, <3>2 DEF ReadSource
  <2>3. QED
    BY <1>3, <2>1, <2>2, NobodyWrites DEF LockIsFree
<1>6. CASE CompareSource(p)
  <2> DEFINE n == [P EXCEPT !.pc = IF P.pc = "fetched" THEN "mirroring"
                                                       ELSE "replacing"]
  <2>1. LockIsFree /\ UNCHANGED <<live, backup, known, added, active, kind>>
    BY <1>6 DEF CompareSource, files, state
  <2>2. CASE SourceUnchanged(P)
    <3>1. probe' = [probe EXCEPT ![p] = n]
      BY <1>1, <1>6, <2>2 DEF CompareSource, ProbeState
    <3>2. /\ n.login = P.login /\ n.fromLive = P.fromLive
          /\ n.account = P.account /\ n.added = P.added
      BY <1>1 DEF ProbeState
    <3> HIDE DEF n
    <3>3. probe'[p] = n /\ \A q \in Prober \ {p} : probe'[q] = probe[q]
      BY <1>3, <3>1
    <3>4. SourceUnchanged(probe[p])'
      BY <2>1, <2>2, <3>2, <3>3
         DEF SourceUnchanged, SourceNow, Verified, Identity, NameOf
    <3>5. ASSUME NEW q \in Prober
          PROVE  WriteOK(probe[q])'
      <4>1. CASE q = p
        BY <3>4, <4>1 DEF WriteOK
      <4>2. CASE q # p
        BY <2>1, <3>3, <4>2 DEF LockIsFree, WriteOK, Writing
      <4>3. QED
        BY <4>1, <4>2
    <3>6. QED
      BY <3>5 DEF WriteInv
  <2>3. CASE ~SourceUnchanged(P)
    <3>1. probe' = [probe EXCEPT ![p] = NoProbe]
      BY <1>6, <2>3 DEF CompareSource, EndProbe
    <3>2. QED
      BY <1>2, <1>3, <2>1, <3>1, NobodyWrites DEF LockIsFree, Writing
  <2>4. QED
    BY <2>2, <2>3
<1>7. CASE WriteUpdate(p)
  <2>1. Writing(P) /\ probe' = [probe EXCEPT ![p] = NoProbe]
    BY <1>7 DEF WriteUpdate, EndProbe
  <2>2. \A q \in Prober \ {p} : ~Writing(probe[q])
    BY <2>1 DEF BundleInv, WriterInv
  <2>3. QED
    BY <1>2, <1>3, <2>1, <2>2, NobodyWrites DEF Writing
<1>8. CASE FetchUsage(p) \/ ServerAnswers(p) \/ ServerFails(p)
  <2>1. UNCHANGED <<live, backup, known, added, active, kind, owner, issued>>
    BY <1>8 DEF FetchUsage, ServerAnswers, ServerFails, files, state, upstream,
                bookkeeping
  <2>2. PICK m : /\ probe' = [probe EXCEPT ![p] = m] /\ ~Writing(m)
                 /\ \/ m.login = Absent
                    \/ m.login = P.login /\ m.account = P.account
    <3>1. CASE EndProbe(p)
      BY <1>2, <3>1 DEF EndProbe, Writing
    <3>2. CASE probe' = [probe EXCEPT ![p].pc = "fetched",
                                      ![p].new = probe[p].login]
      <4> DEFINE n == [P EXCEPT !.pc = "fetched", !.new = P.login]
      <4>1. n.pc = "fetched" /\ n.login = P.login /\ n.account = P.account
        BY <1>1 DEF ProbeState
      <4>2. probe' = [probe EXCEPT ![p] = n]
        BY <1>1, <3>2 DEF ProbeState
      <4> HIDE DEF n
      <4>3. QED
        BY <4>1, <4>2 DEF Writing
    <3>3. CASE probe' = [probe EXCEPT ![p].pc = "refreshed"]
      <4> DEFINE n == [P EXCEPT !.pc = "refreshed"]
      <4>1. n.pc = "refreshed" /\ n.login = P.login /\ n.account = P.account
        BY <1>1 DEF ProbeState
      <4>2. probe' = [probe EXCEPT ![p] = n]
        BY <1>1, <3>3 DEF ProbeState
      <4> HIDE DEF n
      <4>3. QED
        BY <4>1, <4>2 DEF Writing
    <3>4. QED
      BY <1>8, <3>1, <3>2, <3>3 DEF FetchUsage, ServerAnswers, ServerFails
  <2>3. probe'[p] = m /\ \A q \in Prober \ {p} : probe'[q] = probe[q]
    BY <1>3, <2>2
  <2>4. QED
    BY <2>1, <2>2, <2>3, OthersWrite
<1>9. CASE RefreshLogin(p) \/ ServerRefreshes(p)
  <2> DEFINE a == P.account
             new == [P.login EXCEPT !.token = issued'[P.login.user]]
  <2>1. /\ P.pc = "read" /\ Rotate(P.login.user, P.login.token)
        /\ UNCHANGED <<live, backup, known, added, active, kind, owner>>
    BY <1>9 DEF RefreshLogin, ServerRefreshes, files, state, bookkeeping
  <2>2. P.login \in Login /\ P.login.user = owner[a] /\ a \in Account
    BY <1>1, <2>1 DEF ProbeOK, ProbeState, ReadOK
  <2>3. /\ P.login = Current(a)
        /\ \A b \in Account \ {a} : issued'[owner[b]] = issued[owner[b]]
    BY <1>1, <2>1, <2>2, TradeIsOfCurrent
  <2>4. /\ probe'[p].pc \in {"read", "refreshed"} /\ probe'[p].login = P.login
        /\ probe'[p].account = a
        /\ \A q \in Prober \ {p} : probe'[q] = probe[q]
    <3>1. CASE RefreshLogin(p)
      <4>1. probe' = [probe EXCEPT ![p].pc = "refreshed", ![p].new = new]
        BY <3>1 DEF RefreshLogin
      <4>2. QED
        BY <1>1, <4>1 DEF ProbeState
    <3>2. CASE ServerRefreshes(p)
      <4>1. probe' = [probe EXCEPT ![p].new = new]
        BY <3>2 DEF ServerRefreshes
      <4>2. QED
        BY <1>1, <2>1, <4>1 DEF ProbeState
    <3>3. QED
      BY <1>9, <3>1, <3>2
  <2>5. \A b \in Account :
           \/ issued'[owner[b]] = issued[owner[b]]
           \/ p \in ProbersOf(b) /\ probe[p].login = Current(b)
    BY <2>3 DEF ProbersOf
  <2>6. ~Writing(probe'[p])
    BY <2>4 DEF Writing
  <2>7. QED
    BY <2>1, <2>4, <2>5, <2>6, OthersWrite
<1>10. QED
  BY <1>4, <1>5, <1>6, <1>7, <1>8, <1>9

\* A switch holds the lock.
LEMMA SwitchLetsNobodyWrite ==
  ASSUME BundleInv,
         (\E b \in Account : BeginSwitch(b)) \/ FinishSwitch \/ AbandonSwitch
  PROVE  WriteInv'
<1>1. probe' = probe
  BY DEF BeginSwitch, FinishSwitch, AbandonSwitch
<1>2. \A q \in Prober : ~Writing(probe[q])
  <2>1. CASE \E b \in Account : BeginSwitch(b)
    BY <2>1 DEF BeginSwitch, LockIsFree
  <2>2. CASE FinishSwitch \/ AbandonSwitch
    BY <2>2 DEF FinishSwitch, AbandonSwitch, BundleInv, WriterInv
  <2>3. QED
    BY <2>1, <2>2
<1>3. QED
  BY <1>1, <1>2 DEF WriteInv, WriteOK, Writing

LEMMA InitRotationInv == Init => RotationInv
<1>1. SUFFICES ASSUME Init PROVE RotationInv
  OBVIOUS
<1>2. PICK o \in [Account -> User] :
        /\ \A a, b \in Account : a # b => o[a] # o[b]
        /\ owner = o
        /\ kind \in Kinds
        /\ known = Account
        /\ active \in Account \cup {Nobody}
        /\ backup = [a \in Account |-> BundleOf(o[a], 1)]
        /\ live = IF active = Nobody THEN NoFiles ELSE backup[active]
        /\ added = [a \in Account |-> 0]
        /\ switching = Nobody
        /\ issued = [u \in User |-> IF u \in {o[a] : a \in Account}
                                    THEN 1 ELSE 0]
        /\ valid = [u \in User |-> 1..issued[u]]
        /\ probe = [p \in Prober |-> NoProbe]
  BY <1>1 DEF Init
<1>3. ASSUME NEW a \in Account
      PROVE  /\ owner[a] \in User /\ issued[owner[a]] = 1
             /\ valid[owner[a]] = {issued[owner[a]]}
             /\ backup[a].login = [user |-> owner[a], token |-> 1]
             /\ backup[a].login \in Login
             /\ backup[a].login.user = owner[a]
             /\ backup[a].login.token <= issued[owner[a]]
  <2>1. owner[a] \in User /\ issued[owner[a]] = 1
    BY <1>2, <1>3
  <2>2. valid[owner[a]] = 1..1 /\ 1..1 = {1} /\ 1 \in 1..MaxTokens
    BY <1>2, <2>1, ConstantsAssumption
  <2>3. backup[a].login = [user |-> owner[a], token |-> 1]
    BY <1>2, <1>3 DEF BundleOf
  <2>4. backup[a].login \in Login
    BY <2>1, <2>2, <2>3 DEF Login
  <2>5. backup[a].login.user = owner[a] /\ backup[a].login.token = 1
    BY <2>3
  <2>6. QED
    BY <2>1, <2>2, <2>3, <2>4, <2>5
<1>4. active # Nobody => active \in Account /\ live = backup[active]
  BY <1>2
<1>5. SettledInv
  <2>1. \A a \in Account :
           /\ added[a] = 0 /\ backup[a].login \in Login
           /\ backup[a].login.token <= issued[owner[a]]
           /\ backup[a].login.user = owner[a]
    BY <1>2, <1>3
  <2>2. active = Nobody => live.login = Absent
    BY <1>2 DEF NoFiles
  <2>3. WellFormed(live)
    <3>1. CASE active = Nobody
      <4>1. live = NoFiles /\ Absent \notin Login
        BY <1>2, <3>1, LoginsAreFiles
      <4>2. QED
        BY <4>1 DEF WellFormed, NoFiles
    <3>2. CASE active # Nobody
      <4>1. /\ live.login.user = owner[active]
            /\ live.config = IF kind = "claude" THEN NameOf(owner[active])
                                              ELSE Absent
        BY <1>2, <1>3, <1>4, <3>2 DEF BundleOf
      <4>2. QED
        BY <1>2, <4>1, ConstantsAssumption DEF WellFormed
    <3>3. QED
      BY <3>1, <3>2
  <2>4. QED
    BY <1>2, <1>3, <1>4, <2>1, <2>2, <2>3 DEF SettledInv
<1>6. \A p \in Prober : probe[p] = NoProbe
  BY <1>2
<1>7. ReadInv
  BY <1>6 DEF ReadInv, ReadOK, NoProbe
<1>8. ASSUME NEW a \in Account
      PROVE  AtRest(a)
  <2>1. Working(a) = backup[a].login
    BY <1>4, ConstantsAssumption DEF Working
  <2>2. backup[a].login = Current(a)
    BY <1>3 DEF Current
  <2>3. QED
    BY <1>6, <2>1, <2>2 DEF AtRest, ProbersOf, Carries, NoProbe
<1>9. WriteInv
  BY <1>6 DEF WriteInv, WriteOK, Writing, NoProbe
<1>10. QED
  BY <1>5, <1>7, <1>8, <1>9 DEF RotationInv, CarryInv

LEMMA NextRotationInv ==
  ASSUME NothingFails, BundleInv, RotationInv, [Next]_vars
  PROVE  RotationInv'
<1>1. CASE UNCHANGED vars
  <2>1. KeptInv'
    BY <1>1 DEF vars, RotationInv, KeptInv, SettledInv, WellFormed, ReadInv,
                ReadOK, OnFile, CarryInv, AtRest, OnItsWay, ProbersOf, Working,
                Current, Carries
  <2>2. WriteInv'
    <3>1. ASSUME NEW q \in Prober
          PROVE  WriteOK(probe[q])'
      <4>1. WriteOK(probe[q])
        BY DEF RotationInv, WriteInv
      <4>2. SourceUnchanged(probe[q]) => SourceUnchanged(probe[q])'
        BY <1>1 DEF vars, SourceUnchanged, SourceNow, Verified, Identity, NameOf
      <4>3. QED
        BY <1>1, <4>1, <4>2 DEF vars, WriteOK, Writing, ProbersOf, Current
    <3>2. QED
      BY <3>1 DEF WriteInv
  <2>3. QED
    BY <2>1, <2>2 DEF RotationInv, KeptInv
<1>2. CASE ClientRefreshes
  BY <1>2, ClientKeepsLogins, ClientLetsWrite DEF RotationInv, KeptInv
<1>3. CASE (\E b \in Account : BeginSwitch(b)) \/ FinishSwitch \/ AbandonSwitch
  BY <1>3, SwitchKeepsLogins, SwitchLetsNobodyWrite DEF RotationInv, KeptInv
<1>4. ASSUME NEW p \in Prober,
             \/ \E a \in Account : BeginProbe(p, a)
             \/ ReadSource(p) \/ FetchUsage(p) \/ ServerAnswers(p)
             \/ ServerFails(p)
      PROVE  RotationInv'
  BY <1>4, LookingKeepsLogins, NextWriteInv DEF RotationInv, KeptInv
<1>5. ASSUME NEW p \in Prober,
             RefreshLogin(p) \/ ServerRefreshes(p)
             \/ CompareSource(p) \/ WriteUpdate(p)
      PROVE  RotationInv'
  BY <1>5, TradeKeepsLogins, CompareKeepsLogins, WriteKeepsLogins, NextWriteInv
     DEF RotationInv, KeptInv
\* What the user and the client do not do.
<1>6. /\ ~ClientBreaksFile /\ \A u \in User : ~ClientLogsIn(u)
      /\ \A a \in Account : ~CaptureAccount(a) /\ ~RemoveAccount(a)
      /\ ~ImportClaudeSwap /\ \A p \in Prober : ~KillProbe(p)
  BY DEF NothingFails, ClientBreaksFile, ClientLogsIn, CaptureAccount,
         RemoveAccount, ImportClaudeSwap, KillProbe
<1>7. QED
  BY <1>1, <1>2, <1>3, <1>4, <1>5, <1>6 DEF Next

-----------------------------------------------------------------------------
(* What follows *)

\* As long as the client only refreshes its login, the user only switches, and
\* nothing fails: for each account the one token upstream accepts is in the
\* files the account goes on with, or in the memory of one probe that is going
\* to write it there.  Any number of probes may be under way at once.
THEOREM RotationInvariant == ASSUME NothingFails PROVE Spec => []RotationInv
<1>1. BundleInv /\ RotationInv /\ [Next]_vars => RotationInv'
  BY NothingFails, NextRotationInv
<1>2. QED
  BY <1>1, BundleInvariant, InitRotationInv, PTL DEF Spec

\* No account loses its login to a rotation.
THEOREM LoginsSurvive == ASSUME NothingFails PROVE Spec => []LoginSurvives
<1>1. BundleInv /\ RotationInv => LoginSurvives
  <2>1. SUFFICES ASSUME BundleInv, RotationInv, NEW a \in known
                 PROVE  \E login \in LoginsOf(a) \cap Login :
                           login.token \in valid[login.user]
    BY DEF LoginSurvives
  <2>2. SettledInv /\ CarryInv /\ a \in Account
    BY <2>1 DEF RotationInv, SettledInv
  <2>3. /\ Current(a) \in Login /\ Current(a).user = owner[a]
        /\ Current(a).token = issued[owner[a]]
        /\ valid[owner[a]] = {issued[owner[a]]}
    BY <2>1, <2>2, SettledFacts
  <2>4. Current(a) \in LoginsOf(a)
    <3>1. CASE AtRest(a)
      BY <3>1 DEF AtRest, Working, LoginsOf
    <3>2. ASSUME NEW p \in ProbersOf(a), OnItsWay(a, p)
          PROVE  Current(a) \in LoginsOf(a)
      BY <3>2 DEF OnItsWay, Carries, ProbersOf, LoginsOf
    <3>3. QED
      BY <2>2, <3>1, <3>2 DEF CarryInv
  <2>5. QED
    BY <2>3, <2>4
<1>2. QED
  BY <1>1, BundleInvariant, RotationInvariant, NothingFails, PTL
=============================================================================
