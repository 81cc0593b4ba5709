--------------------------- MODULE Warmup_proofs ---------------------------
(***************************************************************************)
(* What holds of Warmup for every set of accounts, window lengths, backoff *)
(* and number of failures and commands: what the state says of warm-ups is *)
(* what was sent, for any number of warmers, and one warmer alone sends    *)
(* none too early.                                                         *)
(***************************************************************************)
EXTENDS Warmup, TLAPS

-----------------------------------------------------------------------------
(* Types *)

\* The lengths of the windows, and the clocks that measure them.
LEMMA LengthType ==
  \A w \in Window : Length(w) \in Timer /\ Length(w) \in Nat
  BY ConstantsAssumption DEF Length, Timer

LEMMA TimerNat == Timer \subseteq Nat /\ 0 \in Timer /\ Long \in Timer
  BY ConstantsAssumption DEF Timer

\* What lies ahead comes nearer, and what has passed recedes.
LEMMA ClockType ==
  /\ \A n \in Timer : Down(n) \in Timer
  /\ \A n \in 0..Retry : Down(n) \in 0..Retry
  /\ \A n \in Timer : Up(n) \in Timer /\ Up(n) >= n
  /\ \A n \in Timer \cup {Never} : Up(n) \in Timer \cup {Never}
  BY ConstantsAssumption DEF Down, Up, Timer, Never

LEMMA NoSampleType == NoSample \in Sample
  BY TimerNat DEF NoSample, Sample

LEMMA FreshType == \A n \in 0..MaxCommands : Fresh(n) \in AccountState
  BY NoSampleType, TimerNat, ConstantsAssumption DEF Fresh, AccountState

LEMMA OlderType ==
  ASSUME NEW s \in Sample
  PROVE  Older(s) \in Sample
<1> DEFINE left == [w \in Window |-> Down(s.left[w])]
<1>1. left \in [Window -> Timer]
  BY ClockType DEF Sample
<1>2. QED
  BY <1>1 DEF Older, Sample

\* A sample that has nothing to say says nothing later.
LEMMA OlderNoSample == Older(NoSample) = NoSample
<1> DEFINE left == [w \in Window |-> Down(NoSample.left[w])]
<1>1. left = [w \in Window |-> 0]
  BY DEF NoSample, Down
<1>2. Older(NoSample) = [NoSample EXCEPT !.left = left,
                            !.full = {w \in NoSample.full : left[w] # 0},
                            !.floats = {w \in NoSample.floats : left[w] # 0}]
  BY DEF Older
<1> HIDE DEF left
<1>3. Older(NoSample) = [NoSample EXCEPT !.left = left, !.full = {}, !.floats = {}]
  BY <1>2 DEF NoSample
<1>4. QED
  BY <1>1, <1>3 DEF NoSample

\* The windows a request starts run for their length.
LEMMA StartedType ==
  ASSUME runs \in [Account -> [Window -> Timer]], NEW a \in Account,
         NEW fable \in BOOLEAN
  PROVE  Started(a, fable) \in [Window -> Timer]
  BY LengthType DEF Started

LEMMA CoveredType ==
  ASSUME NEW a \in Account, NEW fable \in BOOLEAN
  PROVE  /\ Covered(a, fable) \subseteq Window
         /\ "fable" \in Covered(a, fable) => service[a] = "claude"
  BY DEF Covered, Window, Core

LEMMA ReportedType ==
  ASSUME acct \in [Account -> AccountState], NEW a \in Account,
         NEW fable \in BOOLEAN, NEW left \in [Window -> Timer],
         NEW full \in SUBSET Window
  PROVE  Reported(a, fable, left, full) \in Sample
<1> DEFINE old  == acct[a].sample
           keep == ~fable /\ "fable" \in old.windows
           l    == [w \in Window |-> IF w \in Covered(a, fable) THEN left[w]
                                     ELSE IF keep THEN old.left[w] ELSE 0]
           ws   == Covered(a, fable) \cup (IF keep THEN {"fable"} ELSE {})
           f    == full \cup (IF keep THEN old.full \cap {"fable"} ELSE {})
<1>1. old \in Sample
  BY DEF AccountState
<1>2. l \in [Window -> Timer]
  BY <1>1, TimerNat DEF Sample
<1>3. ws \in SUBSET Window
  BY CoveredType DEF Window
<1>4. f \in SUBSET Window
  BY DEF Window
<1>5. Reported(a, fable, left, full)
        = [windows |-> ws, left |-> l, full |-> f, floats |-> {}]
  BY DEF Reported
<1> HIDE DEF l, ws, f
<1>6. QED
  BY <1>2, <1>3, <1>4, <1>5 DEF Sample

\* What is due is a window of the account's sample.
LEMMA WindowsType ==
  ASSUME acct \in [Account -> AccountState], NEW a \in Account
  PROVE  WarmupWindows(a) \in SUBSET (Window \cup {Unknown})
<1>1. acct[a].sample.windows \subseteq Window
  BY DEF AccountState, Sample
<1>2. QED
  BY <1>1 DEF WarmupWindows, Due

\* A warmer goes on to its next candidate or is done.
LEMMA GoOnType ==
  ASSUME warmer \in [Warmer -> WarmerState], NEW p \in Warmer, GoOn(p)
  PROVE  warmer' \in [Warmer -> WarmerState]
  BY DEF GoOn, WarmerState, Idle

LEMMA SentType ==
  ASSUME warmer \in [Warmer -> WarmerState], NEW p \in Warmer,
         NEW c \in warmer[p].todo, NEW ok \in BOOLEAN, Sent(p, c, ok)
  PROVE  warmer' \in [Warmer -> WarmerState]
<1> DEFINE n == [warmer[p] EXCEPT !.pc = "record", !.todo = @ \ {c},
                                  !.current = {c}, !.ok = ok]
<1>1. n \in WarmerState
  BY DEF WarmerState
<1>2. warmer' = [warmer EXCEPT ![p] = n]
  BY DEF Sent
<1> HIDE DEF n
<1>3. QED
  BY <1>1, <1>2

\* An account whose error and sample alone change is still an account.
LEMMA SampledType ==
  ASSUME acct \in [Account -> AccountState], NEW a \in Account,
         NEW error \in BOOLEAN, NEW s \in Sample,
         acct' = [acct EXCEPT ![a].error = error, ![a].sample = s]
  PROVE  acct' \in [Account -> AccountState]
<1> DEFINE n == [acct[a] EXCEPT !.error = error, !.sample = s]
<1>1. n \in AccountState
  BY DEF AccountState
<1>2. acct' = [acct EXCEPT ![a] = n]
  OBVIOUS
<1> HIDE DEF n
<1>3. QED
  BY <1>1, <1>2

LEMMA RecordedType ==
  ASSUME acct \in [Account -> AccountState], NEW a \in Account,
         NEW c \in Candidate, NEW ok \in BOOLEAN
  PROVE  Recorded(a, c, ok) \in AccountState
<1>1. acct[a] \in AccountState /\ Retry \in 0..Retry /\ 0 \in 0..Retry /\ 0 \in Timer
  BY TimerNat, ConstantsAssumption
<1>2. CASE ~ok
  BY <1>1, <1>2 DEF Recorded, AccountState
<1>3. CASE ok
  <2> DEFINE f == IF WarmsFable(c) THEN 0 ELSE acct[a].fable
  <2>1. f \in Timer
    BY <1>1 DEF AccountState
  <2>2. Recorded(a, c, ok) = [acct[a] EXCEPT !.warm = 0, !.retry = 0, !.fable = f]
    BY <1>3 DEF Recorded
  <2> HIDE DEF f
  <2>3. QED
    BY <1>1, <2>1, <2>2 DEF AccountState
<1>4. QED
  BY <1>2, <1>3

\* The type invariant, as one conjunct per group of variables.
LEMMA CandidateType ==
  ASSUME warmer \in [Warmer -> WarmerState], NEW p \in Warmer
  PROVE  /\ warmer[p] \in WarmerState
         /\ warmer[p].todo \subseteq Candidate
         /\ warmer[p].current \subseteq Candidate
         /\ warmer[p].ok \in BOOLEAN
         /\ \A c \in Candidate : /\ c.account \in Account
                                 /\ c.added \in 0..MaxCommands
                                 /\ WarmsFable(c) \in BOOLEAN
  BY DEF WarmerState, Candidate, WarmsFable

-----------------------------------------------------------------------------
\* The type invariant the runs check: a removed account leaves nothing in the
\* state, whatever warm-up of it is still under way (recordWarmup).
THEOREM TypeCorrect == Spec => []TypeOK
<1>1. Init => TypeOK
  <2> SUFFICES ASSUME Init
               PROVE  TypeOK
    OBVIOUS
  <2>1. acct \in [Account -> AccountState] /\ \A a \in Account : acct[a] = Fresh(0)
    BY FreshType, ConstantsAssumption DEF Init
  <2>2. warmer \in [Warmer -> WarmerState]
    BY DEF Init, Idle, WarmerState
  <2>3. /\ runs \in [Account -> [Window -> Timer]]
        /\ sent \in [Account -> [Window -> Timer \cup {Never}]]
    BY TimerNat DEF Init
  <2>4. QED
    BY <2>1, <2>2, <2>3, ConstantsAssumption DEF Init, TypeOK
<1>2. TypeOK /\ [Next]_vars => TypeOK'
  <2> SUFFICES ASSUME TypeOK, [Next]_vars
               PROVE  TypeOK'
    OBVIOUS
  <2> USE DEF state
  <2>t. /\ service \in [Account -> {"claude", "codex"}]
        /\ known \subseteq Account
        /\ acct \in [Account -> AccountState]
        /\ token \in [Account -> BOOLEAN]
        /\ runs \in [Account -> [Window -> Timer]]
        /\ warmer \in [Warmer -> WarmerState]
        /\ sent \in [Account -> [Window -> Timer \cup {Never}]]
        /\ faults \in 0..MaxFaults
        /\ commands \in 0..MaxCommands
        /\ \A a \in Account \ known : acct[a] = Fresh(acct[a].added)
    BY DEF TypeOK
  <2>f. Fault => faults' \in 0..MaxFaults
    BY <2>t, ConstantsAssumption DEF Fault
  <2>s. ASSUME NEW a \in known, NEW n,
               acct' = [acct EXCEPT ![a].error = n.error, ![a].sample = n.sample]
        PROVE  \A b \in Account \ known : acct'[b] = acct[b]
    BY <2>t, <2>s
  <2>1. CASE Tick
    <3> DEFINE n(a) == [acct[a] EXCEPT !.sample = Older(@), !.warm = Up(@),
                                       !.fable = Up(@), !.retry = Down(@)]
    <3>1. \A a \in Account : n(a) \in AccountState
      <4> SUFFICES ASSUME NEW a \in Account PROVE n(a) \in AccountState
        OBVIOUS
      <4>1. acct[a] \in AccountState
        BY <2>t
      <4>2. Older(acct[a].sample) \in Sample
        BY <4>1, OlderType DEF AccountState
      <4>3. /\ Up(acct[a].warm) \in Timer /\ Up(acct[a].fable) \in Timer
            /\ Down(acct[a].retry) \in 0..Retry
        BY <4>1, ClockType DEF AccountState
      <4>4. QED
        BY <4>1, <4>2, <4>3 DEF AccountState
    <3>2. \A a \in Account \ known : n(a) = Fresh(n(a).added)
      <4> SUFFICES ASSUME NEW a \in Account \ known
                   PROVE  n(a) = Fresh(n(a).added)
        OBVIOUS
      <4>1. acct[a] = Fresh(acct[a].added)
        BY <2>t
      <4>2. Up(Long) = Long /\ Down(0) = 0
        BY ConstantsAssumption DEF Up, Down
      <4> DEFINE f == Fresh(acct[a].added)
      <4>3. n(a) = [f EXCEPT !.sample = Older(f.sample), !.warm = Up(f.warm),
                             !.fable = Up(f.fable), !.retry = Down(f.retry)]
        BY <4>1
      <4>4. /\ f.sample = NoSample /\ f.warm = Long /\ f.fable = Long /\ f.retry = 0
            /\ f.added = acct[a].added
        BY DEF Fresh
      <4>5. n(a) = [f EXCEPT !.sample = NoSample, !.warm = Long,
                             !.fable = Long, !.retry = 0]
        BY <4>2, <4>3, <4>4, OlderNoSample
      <4> HIDE DEF n
      <4>6. n(a) = f
        BY <4>5 DEF Fresh
      <4>7. QED
        BY <4>4, <4>6
    <3>3. acct' = [a \in Account |-> n(a)]
      BY <2>1 DEF Tick
    <3> HIDE DEF n
    <3>4. runs' \in [Account -> [Window -> Timer]]
      BY <2>1, <2>t, ClockType DEF Tick
    <3>5. sent' \in [Account -> [Window -> Timer \cup {Never}]]
      BY <2>1, <2>t, ClockType DEF Tick
    <3>6. UNCHANGED <<service, known, token, warmer, faults, commands>>
      BY <2>1 DEF Tick
    <3>7. /\ acct' \in [Account -> AccountState]
          /\ \A a \in Account \ known : acct'[a] = Fresh(acct'[a].added)
      BY <3>1, <3>2, <3>3
    <3>8. QED
      BY <2>t, <3>4, <3>5, <3>6, <3>7 DEF TypeOK
  <2>2. ASSUME NEW a \in Account, Use(a)
        PROVE  TypeOK'
    <3>1. PICK fable \in BOOLEAN :
             /\ runs' = [runs EXCEPT ![a] = Started(a, fable)]
             /\ \/ /\ service[a] = "claude" /\ a \in known
                   /\ \E full \in {{}} \cup {{w} : w \in Covered(a, fable)} :
                         acct' = [acct EXCEPT ![a].error = FALSE,
                                     ![a].sample = Reported(a, fable, runs'[a], full)]
                \/ UNCHANGED acct
      BY <2>2 DEF Use
    <3>2. runs' \in [Account -> [Window -> Timer]] /\ runs'[a] \in [Window -> Timer]
      BY <2>t, <3>1, StartedType
    <3>3. /\ acct' \in [Account -> AccountState]
          /\ \A b \in Account \ known : acct'[b] = acct[b]
      <4>1. CASE UNCHANGED acct
        BY <2>t, <4>1
      <4>2. ASSUME a \in known, NEW full \in {{}} \cup {{w} : w \in Covered(a, fable)},
                   acct' = [acct EXCEPT ![a].error = FALSE,
                               ![a].sample = Reported(a, fable, runs'[a], full)]
            PROVE  /\ acct' \in [Account -> AccountState]
                   /\ \A b \in Account \ known : acct'[b] = acct[b]
        <5>1. full \in SUBSET Window
          BY CoveredType
        <5>2. Reported(a, fable, runs'[a], full) \in Sample
          BY <2>t, <3>2, <5>1, ReportedType
        <5>3. QED
          BY <2>t, <4>2, <5>2, SampledType
      <4>3. QED
        BY <3>1, <4>1, <4>2
    <3>4. QED
      BY <2>2, <2>t, <3>2, <3>3 DEF Use, TypeOK
  <2>3. ASSUME NEW a \in Account, ProbeCodex(a)
        PROVE  TypeOK'
    <3> DEFINE l == [w \in Window |-> IF w = "fable" THEN 0
                                      ELSE IF runs[a][w] = 0 THEN Length(w)
                                      ELSE runs[a][w]]
    <3>1. PICK full \in SUBSET {w \in Core : runs[a][w] # 0} :
             acct' = [acct EXCEPT ![a].error = FALSE,
                      ![a].sample = [windows |-> Core, left |-> l, full |-> full,
                          floats |-> {w \in Core : runs[a][w] = 0}]]
      BY <2>3 DEF ProbeCodex
    <3>2. l \in [Window -> Timer]
      BY <2>t, LengthType, TimerNat
    <3> DEFINE s == [windows |-> Core, left |-> l, full |-> full,
                     floats |-> {w \in Core : runs[a][w] = 0}]
    <3>3. s \in Sample
      BY <3>2 DEF Sample, Window
    <3>4. acct' = [acct EXCEPT ![a].error = FALSE, ![a].sample = s]
      BY <3>1
    <3> HIDE DEF s
    <3>5. acct' \in [Account -> AccountState]
      BY <2>t, <3>3, <3>4, SampledType
    <3>6. \A b \in Account \ known : acct'[b] = acct[b]
      BY <2>3, <2>t, <3>4 DEF ProbeCodex
    <3>7. QED
      BY <2>3, <2>t, <3>5, <3>6 DEF ProbeCodex, TypeOK
  <2>4. ASSUME NEW a \in Account, RemoveAccount(a)
        PROVE  TypeOK'
    <3>1. commands' \in 0..MaxCommands /\ UNCHANGED <<service, warmer, faults>>
      BY <2>4, <2>t, ConstantsAssumption DEF RemoveAccount, Command
    <3>2. acct[a].added \in 0..MaxCommands
      BY <2>t DEF AccountState
    <3>3. acct' = [acct EXCEPT ![a] = Fresh(acct[a].added)] /\ known' = known \ {a}
      BY <2>4 DEF RemoveAccount
    <3>4. acct' \in [Account -> AccountState]
      BY <2>t, <3>2, <3>3, FreshType
    <3>5. Fresh(acct[a].added).added = acct[a].added
      BY DEF Fresh
    <3>6. \A b \in Account \ known' : acct'[b] = Fresh(acct'[b].added)
      BY <2>t, <3>3, <3>5
    <3>7. token' \in [Account -> BOOLEAN] /\ UNCHANGED <<runs, sent>>
      BY <2>4, <2>t DEF RemoveAccount
    <3>8. QED
      BY <2>t, <3>1, <3>3, <3>4, <3>6, <3>7 DEF TypeOK
  <2>5. ASSUME NEW a \in Account, CreateAccount(a)
        PROVE  TypeOK'
    <3>1. commands' \in 0..MaxCommands /\ UNCHANGED <<service, warmer, faults>>
      BY <2>5, <2>t, ConstantsAssumption DEF CreateAccount, Command
    <3>2. /\ acct' = [acct EXCEPT ![a] = Fresh(commands')] /\ known' = known \cup {a}
          /\ sent' = [sent EXCEPT ![a] = [w \in Window |-> Never]]
          /\ UNCHANGED <<token, runs>>
      BY <2>5 DEF CreateAccount
    <3>3. acct' \in [Account -> AccountState]
      BY <2>t, <3>1, <3>2, FreshType
    <3>4. \A b \in Account \ known' : acct'[b] = Fresh(acct'[b].added)
      BY <2>t, <3>2
    <3>5. sent' \in [Account -> [Window -> Timer \cup {Never}]]
      BY <2>t, <3>2
    <3>6. QED
      BY <2>t, <3>1, <3>2, <3>3, <3>4, <3>5 DEF TypeOK
  <2>6. ASSUME NEW a \in Account, SetToken(a)
        PROVE  TypeOK'
    <3>1. commands' \in 0..MaxCommands /\ UNCHANGED <<service, warmer, faults>>
      BY <2>6, <2>t, ConstantsAssumption DEF SetToken, Command
    <3>2. a \in known /\ UNCHANGED <<known, sent>>
      BY <2>6 DEF SetToken
    <3> DEFINE s == IF service[a] = "claude" THEN NoSample ELSE acct[a].sample
    <3>3. s \in Sample
      BY <2>t, NoSampleType DEF AccountState
    <3>4. acct' = [acct EXCEPT ![a].error = FALSE, ![a].sample = s]
      BY <2>6, <2>t DEF SetToken
    <3> HIDE DEF s
    <3>5. acct' \in [Account -> AccountState]
      BY <2>t, <3>3, <3>4, SampledType
    <3>6. \A b \in Account \ known : acct'[b] = acct[b]
      BY <2>t, <3>2, <3>4
    <3>7. token' \in [Account -> BOOLEAN]
      BY <2>6, <2>t DEF SetToken
    <3>8. runs' \in [Account -> [Window -> Timer]]
      <4>1. [w \in Window |-> 0] \in [Window -> Timer]
        BY TimerNat
      <4>2. runs' \in {runs, [runs EXCEPT ![a] = [w \in Window |-> 0]]}
        BY <2>6 DEF SetToken
      <4>3. QED
        BY <2>t, <4>1, <4>2
    <3>9. QED
      BY <2>t, <3>1, <3>2, <3>5, <3>6, <3>7, <3>8 DEF TypeOK
  <2>7. ASSUME NEW p \in Warmer, Plan(p)
        PROVE  TypeOK'
    <3> DEFINE todo == {[account |-> a, added |-> acct[a].added,
                         windows |-> WarmupWindows(a)] :
                            a \in {b \in known : WarmupWindows(b) # {}}}
               n == [Idle EXCEPT !.pc = "cycle", !.todo = todo]
    <3>1. todo \subseteq Candidate
      BY <2>t, WindowsType DEF Candidate, AccountState
    <3>2. warmer' = [warmer EXCEPT ![p] = n]
      BY <2>7 DEF Plan
    <3> HIDE DEF todo
    <3>3. n \in WarmerState
      BY <3>1 DEF Idle, WarmerState
    <3> HIDE DEF n
    <3>4. QED
      BY <2>7, <2>t, <3>2, <3>3 DEF Plan, TypeOK
  <2>8. ASSUME NEW p \in Warmer, NEW c \in warmer[p].todo, Warm(p, c)
        PROVE  TypeOK'
    <3> DEFINE a == c.account
               fable == WarmsFable(c)
    <3>1. c \in Candidate /\ a \in Account /\ fable \in BOOLEAN
      BY <2>8, <2>t, CandidateType
    <3>2. warmer' \in [Warmer -> WarmerState]
      BY <2>8, <2>t, SentType DEF Warm
    <3>3. runs' \in [Account -> [Window -> Timer]] /\ runs'[a] \in [Window -> Timer]
      BY <2>8, <2>t, <3>1, StartedType DEF Warm
    <3>4. sent' \in [Account -> [Window -> Timer \cup {Never}]]
      BY <2>8, <2>t, <3>1, TimerNat DEF Warm
    <3>5. /\ acct' \in [Account -> AccountState]
          /\ \A b \in Account \ known : acct'[b] = acct[b]
      <4>1. CASE UNCHANGED acct
        BY <2>t, <4>1
      <4>2. CASE /\ service[a] = "claude"
                 /\ acct' = [acct EXCEPT ![a].error = FALSE,
                                ![a].sample = Reported(a, fable, runs'[a], {})]
        <5>1. Reported(a, fable, runs'[a], {}) \in Sample
          BY <2>t, <3>1, <3>3, ReportedType
        <5>2. a \in known
          BY <2>8, <4>2 DEF Warm
        <5>3. QED
          BY <2>t, <3>1, <4>2, <5>1, <5>2, SampledType
      <4>3. QED
        BY <2>8, <4>1, <4>2 DEF Warm
    <3>6. QED
      BY <2>8, <2>t, <3>2, <3>3, <3>4, <3>5 DEF Warm, TypeOK
  <2>9. ASSUME NEW p \in Warmer, NEW c \in warmer[p].todo, WarmRefused(p, c)
        PROVE  TypeOK'
    <3>1. warmer' \in [Warmer -> WarmerState]
      BY <2>9, <2>t, SentType DEF WarmRefused
    <3>2. QED
      BY <2>9, <2>t, <3>1 DEF WarmRefused, TypeOK
  <2>10. ASSUME NEW p \in Warmer, NEW c \in warmer[p].current, Record(p, c)
         PROVE  TypeOK'
    <3>1. c \in Candidate /\ warmer[p].ok \in BOOLEAN
      BY <2>10, <2>t, CandidateType
    <3>2. warmer' \in [Warmer -> WarmerState]
      BY <2>10, <2>t, GoOnType DEF Record
    <3>3. /\ acct' \in [Account -> AccountState]
          /\ \A b \in Account \ known : acct'[b] = acct[b]
      <4>1. CASE UNCHANGED acct
        BY <2>t, <4>1
      <4>2. CASE /\ c.account \in known
                 /\ acct' = [acct EXCEPT ![c.account] =
                                Recorded(c.account, c, warmer[p].ok)]
        <5>1. Recorded(c.account, c, warmer[p].ok) \in AccountState
          BY <2>t, <3>1, <4>2, RecordedType
        <5>2. QED
          BY <2>t, <4>2, <5>1
      <4>3. QED
        BY <2>10, <4>1, <4>2 DEF Record
    <3>4. QED
      BY <2>10, <2>t, <3>2, <3>3 DEF Record, TypeOK
  <2>11. ASSUME NEW p \in Warmer, EndContext(p)
         PROVE  TypeOK'
    <3>1. warmer' \in [Warmer -> WarmerState]
      <4>0. warmer[p] \in WarmerState
        BY <2>t
      <4>a. Idle \in WarmerState
        BY DEF Idle, WarmerState
      <4>1. Idle \in WarmerState /\ [warmer[p] EXCEPT !.ended = TRUE] \in WarmerState
        BY <4>0, <4>a DEF WarmerState
      <4>2. PICK n \in WarmerState : warmer' = [warmer EXCEPT ![p] = n]
        BY <2>11, <4>1 DEF EndContext
      <4>3. QED
        BY <2>t, <4>2
    <3>2. QED
      BY <2>11, <2>t, <2>f, <3>1 DEF EndContext, TypeOK
  <2>12. ASSUME NEW p \in Warmer, NEW c \in warmer[p].todo, WarmFails(p, c)
         PROVE  TypeOK'
    <3> DEFINE a == c.account
               fable == WarmsFable(c)
    <3>1. c \in Candidate /\ a \in Account /\ fable \in BOOLEAN
      BY <2>12, <2>t, CandidateType
    <3>2. warmer' \in [Warmer -> WarmerState]
      BY <2>12, <2>t, SentType DEF WarmFails
    <3>3. runs' \in [Account -> [Window -> Timer]]
      <4>1. Started(a, fable) \in [Window -> Timer]
        BY <2>t, <3>1, StartedType
      <4>2. runs' \in {runs, [runs EXCEPT ![a] = Started(a, fable)]}
        BY <2>12 DEF WarmFails
      <4>3. QED
        BY <2>t, <3>1, <4>1, <4>2
    <3>4. service[a] = "claude" => a \in known
      BY <2>12 DEF WarmFails
    <3>5. /\ acct' \in [Account -> AccountState]
          /\ \A b \in Account \ known : acct'[b] = acct[b]
      <4>1. CASE UNCHANGED acct
        BY <2>t, <4>1
      <4>2. ASSUME service[a] = "claude", NEW w \in Core,
                   acct' = [acct EXCEPT ![a].error = FALSE,
                               ![a].sample = Reported(a, fable, runs[a], {w})]
            PROVE  /\ acct' \in [Account -> AccountState]
                   /\ \A b \in Account \ known : acct'[b] = acct[b]
        <5>1. {w} \in SUBSET Window /\ runs[a] \in [Window -> Timer]
          BY <2>t, <3>1 DEF Window
        <5>2. Reported(a, fable, runs[a], {w}) \in Sample
          BY <2>t, <3>1, <5>1, ReportedType
        <5>3. QED
          BY <2>t, <3>1, <3>4, <4>2, <5>2, SampledType
      <4>3. CASE /\ service[a] = "claude"
                 /\ acct' = [acct EXCEPT ![a].error = TRUE]
        <5> DEFINE n == [acct[a] EXCEPT !.error = TRUE]
        <5>0. acct[a] \in AccountState
          BY <2>t, <3>1
        <5>1. n \in AccountState
          BY <5>0 DEF AccountState
        <5>2. acct' = [acct EXCEPT ![a] = n]
          BY <4>3
        <5> HIDE DEF n
        <5>3. QED
          BY <2>t, <3>1, <3>4, <4>3, <5>1, <5>2
      <4>4. QED
        BY <2>12, <4>1, <4>2, <4>3 DEF WarmFails
    <3>6. QED
      BY <2>12, <2>t, <2>f, <3>2, <3>3, <3>5 DEF WarmFails, TypeOK
  <2>13. ASSUME NEW p \in Warmer, NEW c \in warmer[p].current, LoseRecord(p, c)
         PROVE  TypeOK'
    <3>1. warmer' \in [Warmer -> WarmerState]
      <4>1. Idle \in WarmerState
        BY DEF Idle, WarmerState
      <4>2. QED
        BY <2>13, <2>t, <4>1, GoOnType DEF LoseRecord
    <3>2. sent' \in [Account -> [Window -> Timer \cup {Never}]]
      BY <2>13, <2>t, CandidateType, TimerNat DEF LoseRecord
    <3>3. QED
      BY <2>13, <2>t, <2>f, <3>1, <3>2 DEF LoseRecord, TypeOK
  <2>14. CASE UNCHANGED vars
    BY <2>14, <2>t DEF vars, TypeOK
  <2>15. QED
    BY <2>1, <2>2, <2>3, <2>4, <2>5, <2>6, <2>7, <2>8, <2>9, <2>10, <2>11,
       <2>12, <2>13, <2>14
    DEF Next, Warming, UserCommand
<1>3. QED
  BY <1>1, <1>2, PTL DEF Spec

-----------------------------------------------------------------------------
(* What the state says of warm-ups is what was sent *)

\* The inductive invariant beside the types.
AgreementInv ==
    /\ CandidateInv /\ PhaseInv /\ PendingInv /\ HistoryInv
    /\ WarmthIsItsOwn
    /\ OneWarmer => PlannedInv

\* The facts about types that the steps below need.
LEMMA Types ==
  ASSUME TypeOK
  PROVE  /\ \A a \in Account : /\ acct[a].added \in Nat /\ acct[a].warm \in Timer
                               /\ acct[a].fable \in Timer
                               /\ acct[a].sample.windows \subseteq Window
         /\ \A a \in Account, w \in Window : sent[a][w] \in Timer \cup {Never}
         /\ \A p \in Warmer : /\ warmer[p].todo \subseteq Candidate
                              /\ warmer[p].current \subseteq Candidate
                              /\ warmer[p].ok \in BOOLEAN
         /\ known \subseteq Account /\ commands \in Nat
<1>1. \A a \in Account : acct[a] \in AccountState
  BY DEF TypeOK
<1>2. \A n \in 0..MaxCommands : n \in Nat
  OBVIOUS
<1>3. \A a \in Account : acct[a].sample \in Sample
  BY <1>1 DEF AccountState
<1>4. \A a \in Account : acct[a].sample.windows \subseteq Window
  BY <1>3 DEF Sample
<1>5. \A a \in Account : /\ acct[a].added \in Nat /\ acct[a].warm \in Timer
                         /\ acct[a].fable \in Timer
  BY <1>1, <1>2 DEF AccountState
<1>6. \A p \in Warmer : /\ warmer[p].todo \subseteq Candidate
                        /\ warmer[p].current \subseteq Candidate
                        /\ warmer[p].ok \in BOOLEAN
  BY DEF TypeOK, WarmerState
<1>7. QED
  BY <1>2, <1>4, <1>5, <1>6 DEF TypeOK

\* After a step too, what is known of the last warm-up is a time.
LEMMA NextWarmth ==
  ASSUME TypeOK'
  PROVE  \A a \in Account, w \in Window : Warmth(a, w)' \in Timer
<1>1. \A a \in Account : acct'[a] \in AccountState
  BY DEF TypeOK
<1>2. QED
  BY <1>1 DEF Warmth, AccountState

\* A candidate's account and windows.
LEMMA CandidateFields ==
  \A c \in Candidate : /\ c.account \in Account /\ c.added \in Nat
                       /\ c.windows \subseteq Window \cup {Unknown}
                       /\ \A w \in c.windows : w # Unknown => w \in Window
  BY DEF Candidate

LEMMA WindowNames ==
  /\ "5h" \in Window /\ "weekly" \in Window /\ "fable" \in Window
  /\ Core \subseteq Window /\ Core = {"5h", "weekly"}
  BY DEF Window, Core

LEMMA RecordableWindows ==
  \A c : /\ Core \subseteq Recordable(c) /\ Recordable(c) \subseteq Window
         /\ WarmsFable(c) => Recordable(c) = Window
         /\ ~WarmsFable(c) => "fable" \notin Recordable(c)
  BY DEF Recordable, Window, Core

\* The accounts look the same but for their errors and samples.
SameWarmth ==
    \A a \in Account :
        /\ acct'[a].added = acct[a].added
        /\ acct'[a].warm = acct[a].warm
        /\ acct'[a].fable = acct[a].fable
        /\ "fable" \in acct'[a].sample.windows => service[a] = "claude"

LEMMA SampledWarmth ==
  ASSUME TypeOK, CandidateInv, NEW a \in Account, NEW error, NEW s,
         "fable" \in s.windows => service[a] = "claude",
         acct' = [acct EXCEPT ![a].error = error, ![a].sample = s]
  PROVE  SameWarmth
<1> DEFINE n == [acct[a] EXCEPT !.error = error, !.sample = s]
<1>1. acct[a] \in AccountState /\ acct \in [Account -> AccountState]
  BY DEF TypeOK
<1>2. /\ n.added = acct[a].added /\ n.warm = acct[a].warm
      /\ n.fable = acct[a].fable /\ n.sample = s
  BY <1>1 DEF AccountState
<1>3. acct' = [acct EXCEPT ![a] = n]
  OBVIOUS
<1> HIDE DEF n
<1>4. QED
  BY <1>1, <1>2, <1>3 DEF SameWarmth, CandidateInv

\* A Claude response may name the Fable window, a Codex one never does.
LEMMA ReportedFable ==
  ASSUME CandidateInv, NEW a \in Account, NEW fable \in BOOLEAN,
         NEW left, NEW full
  PROVE  "fable" \in Reported(a, fable, left, full).windows
            => service[a] = "claude"
<1>1. Reported(a, fable, left, full).windows
        = Covered(a, fable) \cup
             (IF ~fable /\ "fable" \in acct[a].sample.windows THEN {"fable"} ELSE {})
  BY DEF Reported
<1>2. QED
  BY <1>1, CoveredType DEF CandidateInv

\* Steps that learn something of the windows, or change the token.
LEMMA SampleStep ==
  ASSUME TypeOK, AgreementInv, SameWarmth,
         UNCHANGED <<service, known, warmer, sent>>,
         commands' \in Nat, commands <= commands'
  PROVE  AgreementInv'
<1> USE Types, CandidateFields
<1>1. CandidateInv'
  BY DEF AgreementInv, CandidateInv, SameWarmth
<1>2. PhaseInv'
  BY DEF AgreementInv, PhaseInv
<1>3. PendingInv'
  BY DEF AgreementInv, PendingInv, Pending, SameWarmth
<1>4. HistoryInv'
  BY DEF AgreementInv, HistoryInv, Warmth, Pending, SameWarmth
<1>5. WarmthIsItsOwn'
  BY DEF AgreementInv, WarmthIsItsOwn, SameWarmth
<1>6. PlannedInv => PlannedInv'
  BY DEF PlannedInv, Unwarmed
<1>7. QED
  BY <1>1, <1>2, <1>3, <1>4, <1>5, <1>6 DEF AgreementInv, OneWarmer

\* What the other warmers remember is not touched.
Others(p) == \A q \in Warmer \ {p} : warmer'[q] = warmer[q]

\* A warmer with no request to record still has none.
LEMMA PlanStep ==
  ASSUME TypeOK, AgreementInv, NEW p \in Warmer, Others(p),
         UNCHANGED <<service, known, acct, sent, commands>>,
         warmer[p].current = {}, warmer'[p].current = {},
         warmer'[p].pc # "record",
         \A c \in warmer'[p].todo : /\ c.added <= commands
                                    /\ WarmsFable(c) => service[c.account] = "claude",
         OneWarmer => \A c \in warmer'[p].todo :
            /\ Unwarmed(c)
            /\ \A d \in warmer'[p].todo : d.account = c.account => d = c
  PROVE  AgreementInv'
<1>1. CandidateInv'
  BY DEF AgreementInv, CandidateInv, Others
<1>2. PhaseInv'
  BY DEF AgreementInv, PhaseInv, Others
<1>3. PendingInv'
  BY DEF AgreementInv, PendingInv, Pending, Others
<1>4. HistoryInv'
  <2> SUFFICES ASSUME NEW a \in known, NEW w \in Window,
                      ~(sent[a][w] >= Warmth(a, w))
               PROVE  \E q \in Warmer : \E c \in warmer'[q].current :
                         c.account = a /\ Pending(q, c)' /\ w \in Recordable(c)
    BY DEF HistoryInv, Warmth
  <2>1. PICK q \in Warmer : \E c \in warmer[q].current :
            c.account = a /\ Pending(q, c) /\ w \in Recordable(c)
    BY DEF AgreementInv, HistoryInv
  <2>2. q # p
    BY <2>1
  <2>3. QED
    BY <2>1, <2>2 DEF Others, Pending
<1>5. WarmthIsItsOwn'
  BY DEF AgreementInv, WarmthIsItsOwn
<1>6. OneWarmer => PlannedInv'
  BY DEF PlannedInv, OneWarmer, Unwarmed
<1>7. QED
  BY <1>1, <1>2, <1>3, <1>4, <1>5, <1>6 DEF AgreementInv, OneWarmer

\* A request goes out for candidate c, or fails.
LEMMA RequestStep ==
  ASSUME TypeOK, TypeOK', AgreementInv, SameWarmth,
         NEW p \in Warmer, NEW c \in warmer[p].todo, NEW ok \in BOOLEAN,
         warmer[p].pc = "cycle", Sent(p, c, ok),
         UNCHANGED <<service, known, commands>>,
         \A a \in Account, w \in Window :
            sent'[a][w] = IF ok /\ a = c.account /\ acct[a].added = c.added
                             /\ w \in Recordable(c)
                          THEN 0 ELSE sent[a][w]
  PROVE  AgreementInv'
<1> USE Types, CandidateFields
<1>1. c \in Candidate /\ c.account \in Account
  OBVIOUS
<1>2. /\ warmer'[p].pc = "record" /\ warmer'[p].current = {c}
      /\ warmer'[p].todo = warmer[p].todo \ {c} /\ warmer'[p].ok = ok
      /\ Others(p)
  BY DEF Sent, TypeOK, WarmerState, Others
<1>3. warmer[p].current = {}
  BY DEF AgreementInv, PhaseInv
<1>4. 0 # Never
  BY ConstantsAssumption DEF Never
<1>5. CandidateInv'
  <2>1. \A a \in Account :
           /\ acct'[a].added <= commands'
           /\ "fable" \in acct'[a].sample.windows => service'[a] = "claude"
    BY DEF AgreementInv, CandidateInv, SameWarmth
  <2>2. \A q \in Warmer : warmer'[q].todo \cup warmer'[q].current
                            \subseteq warmer[q].todo \cup warmer[q].current
    BY <1>2 DEF Others
  <2>3. \A q \in Warmer : \A d \in warmer'[q].todo \cup warmer'[q].current :
           /\ d.added <= commands
           /\ WarmsFable(d) => service[d.account] = "claude"
    BY <2>2 DEF AgreementInv, CandidateInv
  <2>4. QED
    BY <2>1, <2>3 DEF CandidateInv
<1>6. PhaseInv'
  BY <1>1, <1>2 DEF AgreementInv, PhaseInv, Others
<1>7. PendingInv'
  <2> SUFFICES ASSUME NEW q \in Warmer, NEW d \in warmer'[q].current,
                      Pending(q, d)', NEW w \in Recordable(d)
               PROVE  sent'[d.account][w] # Never
    BY DEF PendingInv
  <2>1. w \in Window
    BY RecordableWindows
  <2>2. CASE q = p
    BY <1>1, <1>2, <1>4, <2>1, <2>2 DEF Pending, SameWarmth
  <2>3. CASE q # p
    <3>1. d \in warmer[q].current /\ warmer'[q] = warmer[q]
      BY <1>2, <2>3 DEF Others
    <3>2. d.account \in Account
      BY <3>1
    <3>3. Pending(q, d)
      BY <3>1, <3>2 DEF Pending, SameWarmth
    <3>4. sent[d.account][w] # Never
      BY <3>1, <3>3 DEF AgreementInv, PendingInv
    <3>5. QED
      BY <1>4, <2>1, <3>2, <3>4
  <2>4. QED
    BY <2>2, <2>3
<1>8. HistoryInv'
  <2> SUFFICES ASSUME NEW a \in known, NEW w \in Window,
                      ~(sent'[a][w] >= Warmth(a, w)')
               PROVE  \E q \in Warmer : \E d \in warmer'[q].current :
                         d.account = a /\ Pending(q, d)' /\ w \in Recordable(d)
    BY DEF HistoryInv
  <2>1. a \in Account /\ Warmth(a, w)' = Warmth(a, w)
    BY DEF Warmth, SameWarmth
  <2>2. CASE sent[a][w] >= Warmth(a, w)
    <3>1. ok /\ a = c.account /\ acct[a].added = c.added /\ w \in Recordable(c)
      BY <2>1, <2>2
    <3>2. Pending(p, c)'
      BY <1>2, <2>1, <3>1 DEF Pending, SameWarmth
    <3>3. QED
      BY <1>2, <3>1, <3>2
  <2>3. CASE ~(sent[a][w] >= Warmth(a, w))
    <3>1. PICK q \in Warmer, d \in Candidate :
             /\ d \in warmer[q].current
             /\ d.account = a /\ Pending(q, d) /\ w \in Recordable(d)
      BY <2>3 DEF AgreementInv, HistoryInv
    <3>2. q # p
      BY <1>3, <3>1
    <3>3. Pending(q, d)'
      BY <1>2, <2>1, <3>1, <3>2 DEF Others, Pending, SameWarmth
    <3>4. QED
      BY <1>2, <3>1, <3>2, <3>3 DEF Others
  <2>4. QED
    BY <2>2, <2>3
<1>9. WarmthIsItsOwn'
  BY <1>4, WindowNames DEF AgreementInv, WarmthIsItsOwn, SameWarmth
<1>10. OneWarmer => PlannedInv'
  <2> SUFFICES ASSUME OneWarmer, NEW q \in Warmer, NEW d \in warmer'[q].todo
               PROVE  /\ Unwarmed(d)'
                      /\ \A e \in warmer'[q].todo : e.account = d.account => e = d
    BY DEF PlannedInv
  <2>1. q = p /\ d \in warmer[p].todo /\ d # c
    BY <1>2 DEF OneWarmer
  <2>2. /\ Unwarmed(d) /\ d.account # c.account
        /\ \A e \in warmer[p].todo : e.account = d.account => e = d
    BY <2>1 DEF AgreementInv, PlannedInv
  <2>3. \A w \in Window : sent'[d.account][w] = sent[d.account][w]
    BY <2>1, <2>2
  <2>4. Unwarmed(d)'
    BY <2>1, <2>2, <2>3, WindowNames DEF Unwarmed
  <2>5. QED
    BY <1>2, <2>1, <2>2, <2>4
<1>11. QED
  BY <1>5, <1>6, <1>7, <1>8, <1>9, <1>10 DEF AgreementInv, OneWarmer

\* After a request the warmer remembers nothing of it: it goes on, or it ends.
LEMMA GoneOn ==
  ASSUME TypeOK, NEW p \in Warmer,
         GoOn(p) \/ warmer' = [warmer EXCEPT ![p] = Idle]
  PROVE  /\ warmer'[p].current = {} /\ warmer'[p].pc # "record"
         /\ warmer'[p].todo \subseteq warmer[p].todo
         /\ Others(p)
<1>1. warmer \in [Warmer -> WarmerState] /\ warmer[p] \in WarmerState
  BY DEF TypeOK
<1>2. Others(p)
  BY <1>1 DEF GoOn, Others
<1>3. Idle.current = {} /\ Idle.pc # "record" /\ Idle.todo = {}
  BY DEF Idle
<1>4. CASE warmer'[p] = Idle
  BY <1>2, <1>3, <1>4
<1>5. CASE warmer'[p] = [warmer[p] EXCEPT !.pc = "cycle", !.current = {}, !.ok = FALSE]
  BY <1>1, <1>2, <1>5 DEF WarmerState
<1>6. QED
  BY <1>1, <1>4, <1>5 DEF GoOn

\* A request is recorded or forgotten, and the accounts and the history are
\* what that makes of them.
LEMMA RecordStep ==
  ASSUME TypeOK, AgreementInv, NEW p \in Warmer, NEW c \in warmer[p].current,
         GoOn(p) \/ warmer' = [warmer EXCEPT ![p] = Idle],
         UNCHANGED <<service, known, commands>>,
         \A a \in Account :
            /\ acct'[a].added = acct[a].added
            /\ "fable" \in acct'[a].sample.windows => service[a] = "claude",
         \A a \in Account, w \in Window :
            /\ sent[a][w] # Never => sent'[a][w] # Never
            /\ \/ sent'[a][w] >= sent[a][w]
               \/ sent'[a][w] = Long
            /\ sent'[a][w] \in Nat,
         \A a \in known, w \in Window :
            \/ Warmth(a, w)' = Warmth(a, w)
            \/ /\ Warmth(a, w)' = 0
               /\ c.account = a /\ Pending(p, c) /\ w \in Recordable(c),
         \A a \in known, w \in Recordable(c) :
            c.account = a /\ Pending(p, c)
               => Warmth(a, w)' = 0 \/ sent'[a][w] = Long,
         \A a \in Account, w \in Window : Warmth(a, w)' \in Timer
  PROVE  AgreementInv'
<1> USE Types, CandidateFields
<1>0. Long \in Nat /\ 0 # Never /\ Long # Never /\ \A n \in Timer : n \in Nat /\ n <= Long
  BY ConstantsAssumption DEF Never, Timer
<1>1. /\ warmer'[p].current = {} /\ warmer'[p].pc # "record"
      /\ warmer'[p].todo \subseteq warmer[p].todo
      /\ Others(p)
  BY GoneOn
<1>2. warmer[p].current = {c}
  BY DEF AgreementInv, PhaseInv
<1>3. CandidateInv'
  <2>1. \A q \in Warmer : warmer'[q].todo \cup warmer'[q].current
                            \subseteq warmer[q].todo \cup warmer[q].current
    BY <1>1 DEF Others
  <2>2. \A q \in Warmer : \A d \in warmer'[q].todo \cup warmer'[q].current :
           /\ d.added <= commands
           /\ WarmsFable(d) => service[d.account] = "claude"
    BY <2>1 DEF AgreementInv, CandidateInv
  <2>3. QED
    BY <2>2 DEF AgreementInv, CandidateInv
<1>4. PhaseInv'
  BY <1>1 DEF AgreementInv, PhaseInv, Others
<1>5. PendingInv'
  <2> SUFFICES ASSUME NEW q \in Warmer, NEW d \in warmer'[q].current,
                      Pending(q, d)', NEW w \in Recordable(d)
               PROVE  sent'[d.account][w] # Never
    BY DEF PendingInv
  <2>1. q # p /\ d \in warmer[q].current /\ warmer'[q] = warmer[q]
    BY <1>1 DEF Others
  <2>2. d.account \in Account /\ w \in Window
    BY <2>1, RecordableWindows
  <2>3. Pending(q, d)
    BY <2>1, <2>2 DEF Pending
  <2>4. QED
    BY <2>1, <2>2, <2>3 DEF AgreementInv, PendingInv
<1>6. HistoryInv'
  <2> SUFFICES ASSUME NEW a \in known, NEW w \in Window,
                      ~(sent'[a][w] >= Warmth(a, w)')
               PROVE  \E q \in Warmer : \E d \in warmer'[q].current :
                         d.account = a /\ Pending(q, d)' /\ w \in Recordable(d)
    BY DEF HistoryInv
  <2>0. /\ a \in Account /\ sent'[a][w] \in Nat
        /\ Warmth(a, w)' \in Nat /\ Warmth(a, w)' <= Long
    BY <1>0
  <2>1. Warmth(a, w)' # 0 /\ sent'[a][w] # Long
    BY <1>0, <2>0
  <2>2. Warmth(a, w)' = Warmth(a, w) /\ sent'[a][w] >= sent[a][w]
    BY <2>0, <2>1
  <2>3. sent[a][w] \in Nat
    BY <1>0, <2>0, ConstantsAssumption DEF Never
  <2>4. ~(sent[a][w] >= Warmth(a, w))
    BY <2>0, <2>2, <2>3
  <2>5. PICK q \in Warmer, d \in Candidate :
           /\ d \in warmer[q].current
           /\ d.account = a /\ Pending(q, d) /\ w \in Recordable(d)
    BY <2>4 DEF AgreementInv, HistoryInv
  <2>6. q # p
    BY <1>2, <2>1, <2>5
  <2>7. Pending(q, d)' /\ d \in warmer'[q].current
    BY <1>1, <2>0, <2>5, <2>6 DEF Others, Pending
  <2>8. QED
    BY <2>5, <2>7
<1>7. WarmthIsItsOwn'
  <2> SUFFICES ASSUME NEW a \in known, NEW w \in {"weekly", "fable"},
                      Warmth(a, w)' < Long
               PROVE  sent'[a][w] # Never
    BY DEF WarmthIsItsOwn, Warmth
  <2>1. a \in Account /\ w \in Window
    BY WindowNames
  <2>2. CASE Warmth(a, w)' = Warmth(a, w)
    BY <2>1, <2>2 DEF AgreementInv, WarmthIsItsOwn, Warmth
  <2>3. CASE c.account = a /\ Pending(p, c) /\ w \in Recordable(c)
    BY <2>1, <2>3 DEF AgreementInv, PendingInv
  <2>4. QED
    BY <2>1, <2>2, <2>3
<1>8. OneWarmer => PlannedInv'
  <2> SUFFICES ASSUME OneWarmer, NEW q \in Warmer, NEW d \in warmer'[q].todo
               PROVE  /\ Unwarmed(d)'
                      /\ \A e \in warmer'[q].todo : e.account = d.account => e = d
    BY DEF PlannedInv
  <2>1. q = p /\ d \in warmer[p].todo
    BY <1>1 DEF OneWarmer
  <2>2. /\ Unwarmed(d)
        /\ \A e \in warmer[p].todo : e.account = d.account => e = d
    BY <2>1 DEF AgreementInv, PlannedInv
  <2>3. d.account \in Account
    BY <2>1
  <2>4. \A w \in Window : /\ Length(w) \in Nat /\ Length(w) <= Long
                          /\ Short \in Nat /\ Short <= Long
    BY ConstantsAssumption DEF Length
  <2>5. \A w \in Window : sent[d.account][w] \in Nat
    BY <1>0, <2>3, ConstantsAssumption DEF Never
  <2>6. ASSUME NEW w \in d.windows
        PROVE  IF w = Unknown THEN sent'[d.account]["5h"] >= Short
                              ELSE sent'[d.account][w] >= Length(w)
    <3>1. CASE w = Unknown
      <4>1. sent[d.account]["5h"] >= Short
        BY <2>2, <3>1 DEF Unwarmed
      <4>2. QED
        BY <2>3, <2>4, <2>5, <3>1, <4>1, WindowNames
    <3>2. CASE w # Unknown
      <4>1. w \in Window
        BY <2>1, <3>2
      <4>2. sent[d.account][w] >= Length(w)
        BY <2>2, <3>2 DEF Unwarmed
      <4>3. QED
        BY <2>3, <2>4, <2>5, <3>2, <4>1, <4>2
    <3>3. QED
      BY <3>1, <3>2
  <2>7. Unwarmed(d)'
    BY <2>6 DEF Unwarmed
  <2>8. QED
    BY <1>1, <2>1, <2>2, <2>7
<1>9. QED
  BY <1>3, <1>4, <1>5, <1>6, <1>7, <1>8 DEF AgreementInv, OneWarmer

\* Time passes for what is recorded as for what was sent.
LEMMA TickStep ==
  ASSUME TypeOK, AgreementInv, Tick
  PROVE  AgreementInv'
<1> USE Types, CandidateFields
<1>0. /\ Long \in Nat /\ Long # Never
      /\ \A n \in Timer : n \in Nat /\ n <= Long /\ n # Never
      /\ \A n \in Timer : Up(n) \in Timer /\ Up(n) >= n
      /\ \A n \in Timer \cup {Never} : /\ Up(n) \in Nat /\ Up(n) >= n
                                       /\ n # Never => Up(n) # Never
      /\ \A n \in Timer \cup {Never}, m \in Timer : n >= m => Up(n) >= Up(m)
  BY ConstantsAssumption DEF Never, Timer, Up
<1>1. \A a \in Account :
         /\ acct'[a].added = acct[a].added
         /\ acct'[a].warm = Up(acct[a].warm)
         /\ acct'[a].fable = Up(acct[a].fable)
         /\ acct'[a].sample.windows = acct[a].sample.windows
  <2> SUFFICES ASSUME NEW a \in Account
               PROVE  /\ acct'[a].added = acct[a].added
                      /\ acct'[a].warm = Up(acct[a].warm)
                      /\ acct'[a].fable = Up(acct[a].fable)
                      /\ acct'[a].sample.windows = acct[a].sample.windows
    OBVIOUS
  <2>1. acct[a] \in AccountState
    BY DEF TypeOK
  <2>2. acct[a].sample \in Sample
    BY <2>1 DEF AccountState
  <2>3. Older(acct[a].sample).windows = acct[a].sample.windows
    BY <2>2 DEF Older, Sample
  <2>4. acct'[a] = [acct[a] EXCEPT !.sample = Older(@), !.warm = Up(@),
                                   !.fable = Up(@), !.retry = Down(@)]
    BY DEF Tick
  <2>5. QED
    BY <2>1, <2>3, <2>4 DEF AccountState
<1>2. \A a \in Account, w \in Window : sent'[a][w] = Up(sent[a][w])
  BY DEF Tick
<1>3. UNCHANGED <<service, known, warmer, commands>>
  BY DEF Tick
<1>4. \A a \in Account, w \in Window :
         Warmth(a, w)' = Up(Warmth(a, w)) /\ Warmth(a, w) \in Timer
  BY <1>1 DEF Warmth
<1>5. CandidateInv' /\ PhaseInv'
  BY <1>1, <1>3 DEF AgreementInv, CandidateInv, PhaseInv
<1>6. PendingInv'
  <2> SUFFICES ASSUME NEW q \in Warmer, NEW d \in warmer[q].current,
                      Pending(q, d)', NEW w \in Recordable(d)
               PROVE  sent'[d.account][w] # Never
    BY <1>3 DEF PendingInv
  <2>1. d.account \in Account /\ w \in Window
    BY RecordableWindows
  <2>2. Pending(q, d)
    BY <1>1, <1>3, <2>1 DEF Pending
  <2>3. sent[d.account][w] # Never
    BY <2>2 DEF AgreementInv, PendingInv
  <2>4. QED
    BY <1>0, <1>2, <2>1, <2>3
<1>7. HistoryInv'
  <2> SUFFICES ASSUME NEW a \in known, NEW w \in Window,
                      ~(sent'[a][w] >= Warmth(a, w)')
               PROVE  \E q \in Warmer : \E d \in warmer'[q].current :
                         d.account = a /\ Pending(q, d)' /\ w \in Recordable(d)
    BY <1>3 DEF HistoryInv
  <2>1. a \in Account /\ ~(sent[a][w] >= Warmth(a, w))
    BY <1>0, <1>2, <1>4
  <2>2. PICK q \in Warmer, d \in Candidate :
           /\ d \in warmer[q].current
           /\ d.account = a /\ Pending(q, d) /\ w \in Recordable(d)
    BY <2>1 DEF AgreementInv, HistoryInv
  <2>3. Pending(q, d)'
    BY <1>1, <1>3, <2>1, <2>2 DEF Pending
  <2>4. QED
    BY <1>3, <2>2, <2>3
<1>8. WarmthIsItsOwn'
  <2> SUFFICES ASSUME NEW a \in known, NEW w \in {"weekly", "fable"},
                      Warmth(a, w)' < Long
               PROVE  sent'[a][w] # Never
    BY <1>3 DEF WarmthIsItsOwn, Warmth
  <2>1. a \in Account /\ w \in Window
    BY WindowNames
  <2>2. Warmth(a, w) < Long
    BY <1>0, <1>4, <2>1
  <2>3. sent[a][w] # Never
    BY <2>2 DEF AgreementInv, WarmthIsItsOwn, Warmth
  <2>4. QED
    BY <1>0, <1>2, <2>1, <2>3
<1>9. OneWarmer => PlannedInv'
  <2> SUFFICES ASSUME OneWarmer, NEW q \in Warmer, NEW d \in warmer[q].todo
               PROVE  /\ Unwarmed(d)'
                      /\ \A e \in warmer[q].todo : e.account = d.account => e = d
    BY <1>3 DEF PlannedInv
  <2>1. /\ Unwarmed(d)
        /\ \A e \in warmer[q].todo : e.account = d.account => e = d
    BY DEF AgreementInv, PlannedInv
  <2>2. d.account \in Account /\ Short \in Nat
    BY ConstantsAssumption
  <2>3. \A w \in Window : /\ sent'[d.account][w] >= sent[d.account][w]
                          /\ sent'[d.account][w] \in Nat /\ Length(w) \in Nat
                          /\ sent[d.account][w] \in Nat
    BY <1>0, <1>2, <2>2, LengthType, ConstantsAssumption DEF Never
  <2>4. ASSUME NEW w \in d.windows
        PROVE  IF w = Unknown THEN sent'[d.account]["5h"] >= Short
                              ELSE sent'[d.account][w] >= Length(w)
    <3>1. CASE w = Unknown
      <4>1. sent[d.account]["5h"] >= Short
        BY <2>1, <3>1 DEF Unwarmed
      <4>2. QED
        BY <2>2, <2>3, <3>1, <4>1, WindowNames
    <3>2. CASE w # Unknown
      <4>1. w \in Window
        BY <3>2
      <4>2. sent[d.account][w] >= Length(w)
        BY <2>1, <3>2 DEF Unwarmed
      <4>3. QED
        BY <2>3, <3>2, <4>1, <4>2
    <3>3. QED
      BY <3>1, <3>2
  <2>5. Unwarmed(d)'
    BY <2>4 DEF Unwarmed
  <2>6. QED
    BY <2>1, <2>5
<1>10. QED
  BY <1>5, <1>6, <1>7, <1>8, <1>9 DEF AgreementInv, OneWarmer

\* A removed account is no longer in the state; its warm-ups are forgotten.
LEMMA RemoveStep ==
  ASSUME TypeOK, AgreementInv, NEW a \in Account, RemoveAccount(a)
  PROVE  AgreementInv'
<1> USE Types, CandidateFields
<1>1. /\ known' = known \ {a} /\ acct' = [acct EXCEPT ![a] = Fresh(acct[a].added)]
      /\ UNCHANGED <<service, warmer, sent>>
      /\ commands <= commands'
  BY DEF RemoveAccount, Command
<1>2. \A b \in Account :
         /\ acct'[b].added = acct[b].added
         /\ "fable" \in acct'[b].sample.windows => service[b] = "claude"
         /\ b # a => acct'[b] = acct[b]
  <2>1. Fresh(acct[a].added).added = acct[a].added
        /\ Fresh(acct[a].added).sample.windows = {}
    BY DEF Fresh, NoSample
  <2>2. acct \in [Account -> AccountState]
    BY DEF TypeOK
  <2>3. QED
    BY <1>1, <2>1, <2>2 DEF AgreementInv, CandidateInv
<1>3. CandidateInv' /\ PhaseInv'
  <2>1. commands' \in Nat
    BY DEF RemoveAccount, Command
  <2>2. QED
    BY <1>1, <1>2, <2>1 DEF AgreementInv, CandidateInv, PhaseInv
<1>4. PendingInv'
  BY <1>1, <1>2 DEF AgreementInv, PendingInv, Pending
<1>5. HistoryInv'
  BY <1>1, <1>2 DEF AgreementInv, HistoryInv, Warmth, Pending
<1>6. WarmthIsItsOwn'
  BY <1>1, <1>2 DEF AgreementInv, WarmthIsItsOwn
<1>7. PlannedInv => PlannedInv'
  BY <1>1 DEF PlannedInv, Unwarmed
<1>8. QED
  BY <1>3, <1>4, <1>5, <1>6, <1>7 DEF AgreementInv, OneWarmer

\* A new account has an age no candidate has, and nothing was sent to it.
LEMMA CreateStep ==
  ASSUME TypeOK, AgreementInv, NEW a \in Account, CreateAccount(a)
  PROVE  AgreementInv'
<1> USE Types, CandidateFields
<1>0. Never \in Nat /\ Long \in Nat /\ Long <= Never
  BY ConstantsAssumption DEF Never
<1>1. /\ known' = known \cup {a} /\ acct' = [acct EXCEPT ![a] = Fresh(commands')]
      /\ sent' = [sent EXCEPT ![a] = [w \in Window |-> Never]]
      /\ UNCHANGED <<service, warmer>>
      /\ commands' = commands + 1
  BY DEF CreateAccount, Command
<1>2. /\ \A b \in Account \ {a} : acct'[b] = acct[b] /\ sent'[b] = sent[b]
      /\ acct'[a] = Fresh(commands') /\ \A w \in Window : sent'[a][w] = Never
  BY <1>1 DEF TypeOK
<1>3. /\ acct'[a].added = commands' /\ acct'[a].sample.windows = {}
      /\ acct'[a].warm = Long /\ acct'[a].fable = Long
  BY <1>2 DEF Fresh, NoSample
<1>4. \A q \in Warmer : \A d \in warmer[q].todo \cup warmer[q].current :
         d.account = a => acct'[a].added # d.added
  BY <1>1, <1>3 DEF AgreementInv, CandidateInv
<1>5. CandidateInv'
  <2>1. \A b \in Account :
           /\ acct'[b].added <= commands'
           /\ "fable" \in acct'[b].sample.windows => service'[b] = "claude"
    BY <1>1, <1>2, <1>3 DEF AgreementInv, CandidateInv
  <2>2. \A q \in Warmer : \A d \in warmer[q].todo \cup warmer[q].current :
           /\ d.added <= commands'
           /\ WarmsFable(d) => service[d.account] = "claude"
    BY <1>1 DEF AgreementInv, CandidateInv
  <2>3. QED
    BY <1>1, <2>1, <2>2 DEF CandidateInv
<1>6. PhaseInv'
  BY <1>1 DEF AgreementInv, PhaseInv
<1>7. PendingInv'
  <2> SUFFICES ASSUME NEW q \in Warmer, NEW d \in warmer[q].current,
                      Pending(q, d)', NEW w \in Recordable(d)
               PROVE  sent'[d.account][w] # Never
    BY <1>1 DEF PendingInv
  <2>1. d.account \in Account /\ d.account # a
    BY <1>4 DEF Pending
  <2>2. Pending(q, d)
    BY <1>1, <1>2, <2>1 DEF Pending
  <2>3. QED
    BY <1>2, <2>1, <2>2 DEF AgreementInv, PendingInv
<1>8. HistoryInv'
  <2> SUFFICES ASSUME NEW b \in known', NEW w \in Window,
                      ~(sent'[b][w] >= Warmth(b, w)')
               PROVE  \E q \in Warmer : \E d \in warmer[q].current :
                         d.account = b /\ Pending(q, d)' /\ w \in Recordable(d)
    BY <1>1 DEF HistoryInv
  <2>1. b # a
    BY <1>0, <1>2, <1>3 DEF Warmth
  <2>2. b \in known /\ ~(sent[b][w] >= Warmth(b, w))
    BY <1>1, <1>2, <2>1 DEF Warmth
  <2>3. PICK q \in Warmer, d \in Candidate :
           /\ d \in warmer[q].current
           /\ d.account = b /\ Pending(q, d) /\ w \in Recordable(d)
    BY <2>2 DEF AgreementInv, HistoryInv
  <2>4. Pending(q, d)'
    BY <1>1, <1>2, <2>1, <2>3 DEF Pending
  <2>5. QED
    BY <2>3, <2>4
<1>9. WarmthIsItsOwn'
  BY <1>0, <1>1, <1>2, <1>3 DEF AgreementInv, WarmthIsItsOwn
<1>10. PlannedInv => PlannedInv'
  <2> SUFFICES ASSUME PlannedInv, NEW q \in Warmer, NEW d \in warmer[q].todo
               PROVE  Unwarmed(d)'
    BY <1>1 DEF PlannedInv
  <2>1. Unwarmed(d) /\ d.account \in Account
    BY DEF PlannedInv
  <2>2. CASE d.account = a
    <3>1. \A w \in Window : Length(w) \in Nat /\ Length(w) <= Long
      BY ConstantsAssumption DEF Length
    <3>2. Short \in Nat /\ Short <= Long
      BY ConstantsAssumption
    <3>3. sent'[a]["5h"] >= Short
      BY <1>0, <1>2, <3>2, WindowNames
    <3>4. \A w \in Window : sent'[a][w] >= Length(w)
      BY <1>0, <1>2, <3>1
    <3>5. QED
      BY <2>2, <3>3, <3>4 DEF Unwarmed
  <2>3. CASE d.account # a
    BY <1>2, <2>1, <2>3 DEF Unwarmed
  <2>4. QED
    BY <2>2, <2>3
<1>11. QED
  BY <1>5, <1>6, <1>7, <1>8, <1>9, <1>10 DEF AgreementInv, OneWarmer

\* A due window has gone unwarmed for its length, if nothing is unrecorded.
LEMMA DueWindows ==
  ASSUME TypeOK, AgreementInv, NEW a \in known, NEW w \in WarmupWindows(a),
         \A p \in Warmer : warmer[p].current = {}
  PROVE  /\ w = "fable" => service[a] = "claude"
         /\ IF w = Unknown THEN sent[a]["5h"] >= Short
                           ELSE sent[a][w] >= Length(w)
<1> USE Types
<1>1. a \in Account
  OBVIOUS
<1>2. \A v \in Window : sent[a][v] >= Warmth(a, v)
  BY DEF AgreementInv, HistoryInv
<1>3. \A v \in Window : /\ sent[a][v] \in Nat /\ Warmth(a, v) \in Nat
                        /\ Length(v) \in Nat
  <2>1. \A v \in Window : Warmth(a, v) \in Timer /\ sent[a][v] \in Timer \cup {Never}
    BY <1>1 DEF Warmth
  <2>2. Never \in Nat
    BY ConstantsAssumption DEF Never
  <2>3. QED
    BY <2>1, <2>2, LengthType, TimerNat
<1>4. CASE w \in Due(a)
  <2>1. w \in acct[a].sample.windows /\ w \in Window /\ ~(Warmth(a, w) < Length(w))
    BY <1>1, <1>4 DEF Due, WarmedWithin
  <2>2. w # Unknown
    BY <2>1 DEF Window, Core, Unknown
  <2>3. sent[a][w] >= Length(w)
    BY <1>2, <1>3, <2>1
  <2>4. w = "fable" => service[a] = "claude"
    BY <1>1, <2>1 DEF AgreementInv, CandidateInv
  <2>5. QED
    BY <2>2, <2>3, <2>4
<1>5. CASE w = Unknown /\ ~WarmedWithin(a, "5h")
  <2>1. ~(Warmth(a, "5h") < Short)
    BY <1>5 DEF WarmedWithin, Length
  <2>2. sent[a]["5h"] >= Short
    BY <1>2, <1>3, <2>1, WindowNames, ConstantsAssumption
  <2>3. w # "fable"
    BY <1>5 DEF Unknown
  <2>4. QED
    BY <1>5, <2>2, <2>3
<1>6. QED
  BY <1>4, <1>5 DEF WarmupWindows

LEMMA AgreementStep ==
  ASSUME TypeOK, TypeOK', AgreementInv, Next
  PROVE  AgreementInv'
<1> USE Types, CandidateFields
<1> USE DEF state
<1>c. CandidateInv /\ PhaseInv
  BY DEF AgreementInv
<1>d. ASSUME UNCHANGED <<service, acct>>
      PROVE  SameWarmth
  BY <1>c, <1>d DEF SameWarmth, CandidateInv
<1>e. \A c \in Candidate, fable \in BOOLEAN :
         fable = WarmsFable(c) /\ (fable => service[c.account] = "claude")
            => Covered(c.account, fable) = Recordable(c)
  BY DEF Covered, Recordable
<1>1. CASE Tick
  BY <1>1, TickStep
<1>2. ASSUME NEW a \in Account, Use(a)
      PROVE  AgreementInv'
  <2>1. UNCHANGED <<service, known, warmer, sent, commands>>
    BY <1>2 DEF Use
  <2>2. SameWarmth
    <3>1. CASE UNCHANGED acct
      BY <1>d, <2>1, <3>1
    <3>2. ASSUME NEW fable \in BOOLEAN, NEW full,
                 acct' = [acct EXCEPT ![a].error = FALSE,
                             ![a].sample = Reported(a, fable, runs'[a], full)]
          PROVE  SameWarmth
      BY <1>c, <3>2, ReportedFable, SampledWarmth
    <3>3. QED
      BY <1>2, <3>1, <3>2 DEF Use
  <2>3. QED
    BY <2>1, <2>2, SampleStep
<1>3. ASSUME NEW a \in Account, ProbeCodex(a)
      PROVE  AgreementInv'
  <2>1. UNCHANGED <<service, known, warmer, sent, commands>>
    BY <1>3 DEF ProbeCodex
  <2> DEFINE l == [w \in Window |-> IF w = "fable" THEN 0
                                    ELSE IF runs[a][w] = 0 THEN Length(w)
                                    ELSE runs[a][w]]
  <2>2. PICK full \in SUBSET {w \in Core : runs[a][w] # 0} :
           acct' = [acct EXCEPT ![a].error = FALSE,
                    ![a].sample = [windows |-> Core, left |-> l, full |-> full,
                        floats |-> {w \in Core : runs[a][w] = 0}]]
    BY <1>3 DEF ProbeCodex
  <2> DEFINE s == [windows |-> Core, left |-> l, full |-> full,
                   floats |-> {w \in Core : runs[a][w] = 0}]
  <2>3. "fable" \notin s.windows
    BY DEF Core
  <2>4. SameWarmth
    <3>1. acct' = [acct EXCEPT ![a].error = FALSE, ![a].sample = s]
      BY <2>2
    <3> HIDE DEF s
    <3>2. QED
      BY <1>c, <2>3, <3>1, SampledWarmth
  <2>5. QED
    BY <2>1, <2>4, SampleStep
<1>4. ASSUME NEW a \in Account, RemoveAccount(a)
      PROVE  AgreementInv'
  BY <1>4, RemoveStep
<1>5. ASSUME NEW a \in Account, CreateAccount(a)
      PROVE  AgreementInv'
  BY <1>5, CreateStep
<1>6. ASSUME NEW a \in Account, SetToken(a)
      PROVE  AgreementInv'
  <2>1. UNCHANGED <<service, known, warmer, sent>> /\ commands' = commands + 1
    BY <1>6 DEF SetToken, Command
  <2> DEFINE s == IF service[a] = "claude" THEN NoSample ELSE acct[a].sample
  <2>2. acct' = [acct EXCEPT ![a].error = FALSE, ![a].sample = s]
    BY <1>6 DEF SetToken, TypeOK
  <2>3. "fable" \in s.windows => service[a] = "claude"
    BY <1>c DEF CandidateInv
  <2> HIDE DEF s
  <2>4. SameWarmth
    BY <1>c, <2>2, <2>3, SampledWarmth
  <2>5. QED
    BY <2>1, <2>4, SampleStep
<1>7. ASSUME NEW p \in Warmer, Plan(p)
      PROVE  AgreementInv'
  <2> DEFINE todo == {[account |-> a, added |-> acct[a].added,
                       windows |-> WarmupWindows(a)] :
                          a \in {b \in known : WarmupWindows(b) # {}}}
  <2>1. /\ warmer[p].pc = "idle"
        /\ warmer' = [warmer EXCEPT ![p] = [Idle EXCEPT !.pc = "cycle", !.todo = todo]]
        /\ UNCHANGED <<service, known, acct, sent, commands>>
    BY <1>7 DEF Plan
  <2>2. /\ warmer[p].current = {} /\ warmer'[p].current = {}
        /\ warmer'[p].pc = "cycle" /\ warmer'[p].todo = todo /\ Others(p)
    BY <1>c, <2>1 DEF PhaseInv, Idle, Others, TypeOK
  <2>3. \A c \in todo : /\ c.account \in known /\ c.added = acct[c.account].added
                        /\ c.windows = WarmupWindows(c.account)
                        /\ c = [account |-> c.account, added |-> c.added,
                                windows |-> c.windows]
    OBVIOUS
  <2> HIDE DEF todo
  <2>4. ASSUME NEW c \in todo
        PROVE  /\ c.added <= commands
               /\ WarmsFable(c) => service[c.account] = "claude"
    <3>1. c.added <= commands
      BY <1>c, <2>3 DEF CandidateInv
    <3>2. WarmsFable(c) => "fable" \in acct[c.account].sample.windows
      <4>1. WarmupWindows(c.account) \in {{}, {Unknown}, Due(c.account)}
        BY DEF WarmupWindows
      <4>2. "fable" # Unknown
        BY DEF Unknown
      <4>3. Due(c.account) \subseteq acct[c.account].sample.windows
        BY DEF Due
      <4>4. QED
        BY <2>3, <4>1, <4>2, <4>3 DEF WarmsFable
    <3>3. QED
      BY <1>c, <2>3, <3>1, <3>2 DEF CandidateInv
  <2>5. ASSUME OneWarmer, NEW c \in todo
        PROVE  /\ Unwarmed(c)
               /\ \A d \in todo : d.account = c.account => d = c
    <3>1. \A q \in Warmer : warmer[q].current = {}
      BY <2>2, <2>5 DEF OneWarmer
    <3>2. Unwarmed(c)
      BY <2>3, <3>1, DueWindows DEF Unwarmed
    <3>3. QED
      BY <2>3, <3>2
  <2>6. QED
    BY <2>1, <2>2, <2>4, <2>5, PlanStep
<1>8. ASSUME NEW p \in Warmer, NEW c \in warmer[p].todo, Warm(p, c)
      PROVE  AgreementInv'
  <2> DEFINE a == c.account
             fable == WarmsFable(c)
  <2>1. c \in Candidate /\ a \in Account /\ fable \in BOOLEAN
    BY DEF WarmsFable
  <2>2. Covered(a, fable) = Recordable(c)
    BY <1>c, <1>e, <2>1 DEF CandidateInv
  <2>3. UNCHANGED <<service, known, commands>> /\ Sent(p, c, TRUE)
        /\ warmer[p].pc = "cycle"
    BY <1>8 DEF Warm
  <2>4. SameWarmth
    <3>1. CASE UNCHANGED acct
      BY <1>d, <2>3, <3>1
    <3>2. CASE acct' = [acct EXCEPT ![a].error = FALSE,
                           ![a].sample = Reported(a, fable, runs'[a], {})]
      BY <1>c, <2>1, <3>2, ReportedFable, SampledWarmth
    <3>3. QED
      BY <1>8, <3>1, <3>2 DEF Warm
  <2>5. \A b \in Account, w \in Window :
           sent'[b][w] = IF TRUE /\ b = c.account /\ acct[b].added = c.added
                            /\ w \in Recordable(c)
                         THEN 0 ELSE sent[b][w]
    BY <1>8, <2>1, <2>2 DEF Warm, TypeOK
  <2>6. QED
    BY <2>3, <2>4, <2>5, RequestStep
<1>9. ASSUME NEW p \in Warmer, NEW c \in warmer[p].todo, WarmRefused(p, c)
      PROVE  AgreementInv'
  <2>1. /\ UNCHANGED <<service, known, commands, acct, sent>>
        /\ Sent(p, c, FALSE) /\ warmer[p].pc = "cycle"
    BY <1>9 DEF WarmRefused
  <2>2. SameWarmth
    BY <1>d, <2>1
  <2>3. QED
    BY <2>1, <2>2, RequestStep
<1>10. ASSUME NEW p \in Warmer, NEW c \in warmer[p].todo, WarmFails(p, c)
       PROVE  AgreementInv'
  <2> DEFINE a == c.account
             fable == WarmsFable(c)
  <2>1. /\ UNCHANGED <<service, known, commands, sent>>
        /\ Sent(p, c, FALSE) /\ warmer[p].pc = "cycle"
    BY <1>10 DEF WarmFails
  <2>2. a \in Account /\ fable \in BOOLEAN
    BY DEF WarmsFable
  <2>3. SameWarmth
    <3>1. CASE UNCHANGED acct
      BY <1>d, <2>1, <3>1
    <3>2. ASSUME NEW w \in Core,
                 acct' = [acct EXCEPT ![a].error = FALSE,
                             ![a].sample = Reported(a, fable, runs[a], {w})]
          PROVE  SameWarmth
      BY <1>c, <2>2, <3>2, ReportedFable, SampledWarmth
    <3>3. CASE acct' = [acct EXCEPT ![a].error = TRUE]
      <4> DEFINE n == [acct[a] EXCEPT !.error = TRUE]
                 m == [acct[a] EXCEPT !.error = TRUE, !.sample = acct[a].sample]
      <4>0. acct[a] \in AccountState
        BY <2>2 DEF TypeOK
      <4>a. n = m
        BY <4>0 DEF AccountState
      <4>1. acct' = [acct EXCEPT ![a].error = TRUE, ![a].sample = acct[a].sample]
        BY <3>3, <4>a
      <4>2. QED
        BY <1>c, <2>2, <4>1, SampledWarmth DEF CandidateInv
    <3>4. QED
      BY <1>10, <3>1, <3>2, <3>3 DEF WarmFails
  <2>4. QED
    BY <2>1, <2>3, RequestStep
<1>11. ASSUME NEW p \in Warmer, NEW c \in warmer[p].current, Record(p, c)
       PROVE  AgreementInv'
  <2>0. /\ c \in Candidate /\ c.account \in Account
        /\ acct[c.account] \in AccountState /\ acct \in [Account -> AccountState]
    BY DEF TypeOK
  <2>1. UNCHANGED <<service, known, commands, sent>> /\ GoOn(p)
    BY <1>11 DEF Record
  <2>2. \/ /\ UNCHANGED acct
           /\ ~(c.account \in known /\ Pending(p, c))
        \/ /\ acct' = [acct EXCEPT ![c.account] =
                          Recorded(c.account, c, warmer[p].ok)]
           /\ acct[c.account].added = c.added
    BY <1>11 DEF Record, Pending
  <2> DEFINE n == Recorded(c.account, c, warmer[p].ok)
  <2>3. /\ n.added = acct[c.account].added /\ n.sample = acct[c.account].sample
        /\ ~warmer[p].ok => /\ n.warm = acct[c.account].warm
                            /\ n.fable = acct[c.account].fable
        /\ warmer[p].ok =>
              /\ n.warm = 0
              /\ n.fable = IF WarmsFable(c) THEN 0 ELSE acct[c.account].fable
    BY <2>0 DEF Recorded, AccountState
  <2> HIDE DEF n
  <2>4. \A a \in Account :
           /\ acct'[a].added = acct[a].added
           /\ "fable" \in acct'[a].sample.windows => service[a] = "claude"
    BY <1>c, <2>0, <2>2, <2>3 DEF CandidateInv, n
  <2>5. \A a \in Account, w \in Window :
           Warmth(a, w)' \in Timer /\ sent[a][w] \in Nat
    <3>1. \A a \in Account, w \in Window : sent[a][w] \in Nat
      BY ConstantsAssumption DEF Never, Timer
    <3>2. QED
      BY <3>1, NextWarmth
  <2>6. ASSUME NEW a \in known, NEW w \in Window
        PROVE  /\ \/ Warmth(a, w)' = Warmth(a, w)
                  \/ /\ Warmth(a, w)' = 0
                     /\ c.account = a /\ Pending(p, c) /\ w \in Recordable(c)
               /\ w \in Recordable(c) /\ c.account = a /\ Pending(p, c)
                     => Warmth(a, w)' = 0
    <3>1. CASE UNCHANGED acct /\ ~(c.account \in known /\ Pending(p, c))
      BY <3>1 DEF Warmth
    <3>2. CASE acct' = [acct EXCEPT ![c.account] = n] /\ acct[c.account].added = c.added
      <4>1. CASE a # c.account
        BY <2>0, <3>2, <4>1 DEF Warmth
      <4>2. CASE a = c.account
        <5>1. acct'[a] = n
          BY <2>0, <3>2, <4>2
        <5>2. w \in Core \/ w = "fable"
          BY DEF Window
        <5>3. CASE w \in Core
          <6>1. w # "fable" /\ w \in Recordable(c)
            BY <5>3, RecordableWindows DEF Core
          <6>2. Warmth(a, w)' = n.warm /\ Warmth(a, w) = acct[a].warm
            BY <5>1, <6>1 DEF Warmth
          <6>3. QED
            BY <2>3, <3>2, <4>2, <6>1, <6>2 DEF Pending
        <5>4. CASE w = "fable"
          <6>1. Warmth(a, w)' = n.fable /\ Warmth(a, w) = acct[a].fable
            BY <5>1, <5>4 DEF Warmth
          <6>2. w \in Recordable(c) <=> WarmsFable(c)
            BY <5>4, RecordableWindows, WindowNames
          <6>3. QED
            BY <2>3, <3>2, <4>2, <6>1, <6>2 DEF Pending
        <5>5. QED
          BY <5>2, <5>3, <5>4
      <4>3. QED
        BY <4>1, <4>2
    <3>3. QED
      BY <2>2, <3>1, <3>2 DEF n
  <2>7. \A a \in Account, w \in Window :
           /\ sent[a][w] # Never => sent'[a][w] # Never
           /\ sent'[a][w] >= sent[a][w]
           /\ sent'[a][w] \in Nat
    BY <2>1, <2>5
  <2>8. \A a \in known, w \in Recordable(c) :
           c.account = a /\ Pending(p, c) => Warmth(a, w)' = 0
    BY <2>6, RecordableWindows
  <2>9. QED
    BY <2>1, <2>4, <2>5, <2>6, <2>7, <2>8, RecordStep
<1>12. ASSUME NEW p \in Warmer, EndContext(p)
       PROVE  AgreementInv'
  <2>1. UNCHANGED <<service, known, acct, sent, commands>>
        /\ warmer[p].pc # "idle" /\ warmer \in [Warmer -> WarmerState]
    BY <1>12 DEF EndContext, TypeOK
  <2>2. CASE warmer[p].pc = "cycle"
    <3>1. warmer' = [warmer EXCEPT ![p] = Idle]
      BY <1>12, <2>1, <2>2 DEF EndContext
    <3>2. /\ warmer'[p].current = {} /\ warmer'[p].pc # "record"
          /\ warmer'[p].todo = {} /\ Others(p) /\ warmer[p].current = {}
      BY <1>c, <2>1, <2>2, <3>1 DEF PhaseInv, Idle, Others
    <3>3. QED
      BY <2>1, <3>2, PlanStep
  <2>3. CASE warmer[p].pc # "cycle"
    <3>1. \A q \in Warmer :
             /\ warmer'[q].pc = warmer[q].pc /\ warmer'[q].todo = warmer[q].todo
             /\ warmer'[q].current = warmer[q].current
             /\ warmer'[q].ok = warmer[q].ok
      BY <1>12, <2>1, <2>3 DEF EndContext, WarmerState
    <3>2. CandidateInv' /\ PhaseInv' /\ PendingInv'
      BY <2>1, <3>1 DEF AgreementInv, CandidateInv, PhaseInv, PendingInv, Pending
    <3>3. HistoryInv' /\ WarmthIsItsOwn'
      BY <2>1, <3>1
      DEF AgreementInv, HistoryInv, WarmthIsItsOwn, Warmth, Pending
    <3>4. PlannedInv => PlannedInv'
      BY <2>1, <3>1 DEF PlannedInv, Unwarmed
    <3>5. QED
      BY <3>2, <3>3, <3>4 DEF AgreementInv, OneWarmer
  <2>4. QED
    BY <2>2, <2>3
<1>13. ASSUME NEW p \in Warmer, NEW c \in warmer[p].current, LoseRecord(p, c)
       PROVE  AgreementInv'
  <2>0. /\ c \in Candidate /\ c.account \in Account
        /\ Long \in Nat /\ Long # Never
    BY ConstantsAssumption DEF Never
  <2>1. /\ UNCHANGED <<service, known, acct, commands>>
        /\ GoOn(p) \/ warmer' = [warmer EXCEPT ![p] = Idle]
        /\ sent' = IF Pending(p, c)
                   THEN [sent EXCEPT ![c.account] = [w \in Window |-> Long]] ELSE sent
    BY <1>13 DEF LoseRecord, Pending
  <2>2. \A a \in Account :
           /\ acct'[a].added = acct[a].added
           /\ "fable" \in acct'[a].sample.windows => service[a] = "claude"
    BY <1>c, <2>1 DEF CandidateInv
  <2>3. \A a \in Account, w \in Window :
           /\ Warmth(a, w)' = Warmth(a, w) /\ Warmth(a, w) \in Timer
           /\ sent[a][w] \in Nat
    BY <2>1, ConstantsAssumption DEF Warmth, Never, Timer
  <2>4. \A a \in Account, w \in Window :
           sent'[a][w] = IF Pending(p, c) /\ a = c.account THEN Long
                         ELSE sent[a][w]
    BY <2>0, <2>1 DEF TypeOK
  <2>5. \A a \in Account, w \in Window :
           /\ sent[a][w] # Never => sent'[a][w] # Never
           /\ sent'[a][w] >= sent[a][w] \/ sent'[a][w] = Long
           /\ sent'[a][w] \in Nat
    BY <2>0, <2>3, <2>4
  <2>6. \A a \in known, w \in Recordable(c) :
           c.account = a /\ Pending(p, c) => sent'[a][w] = Long
    BY <2>0, <2>4, RecordableWindows
  <2>7. QED
    BY <2>1, <2>2, <2>3, <2>5, <2>6, RecordStep
<1>14. QED
  BY <1>1, <1>2, <1>3, <1>4, <1>5, <1>6, <1>7, <1>8, <1>9, <1>10, <1>11,
     <1>12, <1>13
  DEF Next, Warming, UserCommand

\* What the state says of warm-ups agrees with what was sent, but for what is
\* being recorded: for any number of warmers that plan, send and record side
\* by side while accounts are removed and added again (recordWarmup).
THEOREM WarmupInvariant == Spec => []WarmupInv
<1>1. Init => AgreementInv
  <2> SUFFICES ASSUME Init
               PROVE  AgreementInv
    OBVIOUS
  <2>1. \A a \in Account : /\ acct[a].added = 0 /\ acct[a].sample.windows = {}
                           /\ acct[a].warm = Long /\ acct[a].fable = Long
    BY DEF Init, Fresh, NoSample
  <2>2. \A p \in Warmer : /\ warmer[p].todo = {} /\ warmer[p].current = {}
                          /\ warmer[p].pc = "idle"
    BY DEF Init, Idle
  <2>3. \A a \in Account, w \in Window : sent[a][w] = Never
    BY DEF Init
  <2>4. Never >= Long /\ ~(Long < Long) /\ known = Account /\ commands = 0
    BY ConstantsAssumption DEF Never, Init
  <2>5. CandidateInv /\ PhaseInv /\ PendingInv /\ WarmthIsItsOwn /\ PlannedInv
    BY <2>1, <2>2, <2>4
    DEF CandidateInv, PhaseInv, PendingInv, WarmthIsItsOwn, PlannedInv
  <2>6. HistoryInv
    BY <2>1, <2>3, <2>4 DEF HistoryInv, Warmth
  <2>7. QED
    BY <2>5, <2>6 DEF AgreementInv
<1>2. TypeOK /\ TypeOK' /\ AgreementInv /\ [Next]_vars => AgreementInv'
  <2> SUFFICES ASSUME TypeOK, TypeOK', AgreementInv, [Next]_vars
               PROVE  AgreementInv'
    OBVIOUS
  <2>1. CASE UNCHANGED vars
    <3>1. SameWarmth
      BY <2>1 DEF vars, SameWarmth, AgreementInv, CandidateInv
    <3>2. commands' \in Nat /\ commands <= commands'
      BY <2>1, Types DEF vars
    <3>3. QED
      BY <2>1, <3>1, <3>2, SampleStep DEF vars
  <2>2. QED
    BY <2>1, AgreementStep
<1>3. TypeOK /\ AgreementInv => WarmupInv
  BY DEF AgreementInv, WarmupInv
<1>4. QED
  BY <1>1, <1>2, <1>3, TypeCorrect, PTL DEF Spec

\* An account added again under its name does not count as warmed by a
\* request for the former one, however many warmers there are and whenever
\* they record (warmup.go, recordWarmup's check of AddedAt).
THEOREM WarmthIsOwn == Spec => []WarmthIsItsOwn
<1>1. WarmupInv => WarmthIsItsOwn
  BY DEF WarmupInv
<1>2. QED
  BY <1>1, WarmupInvariant, PTL

\* One warmer alone sends no warm-up for a window within its length after the
\* one before, whatever fails, ends or is used meanwhile (PlanWarmups and
\* RunWarmups; two warmers may both plan before either records).
THEOREM WarmupsAreSpaced ==
  ASSUME OneWarmer
  PROVE  Spec => WarmedOncePerWindow
<1>1. WarmupInv /\ [Next]_vars
        => [\A p \in Warmer : \A c \in warmer[p].todo :
               warmer[p].pc = "cycle" /\ warmer'[p].current = {c}
                  => Unwarmed(c)]_vars
  BY DEF WarmupInv, PlannedInv
<1>2. QED
  BY <1>1, WarmupInvariant, PTL DEF Spec, WarmedOncePerWindow
=============================================================================
