------------------------- MODULE SetupTokens_proofs -------------------------
(***************************************************************************)
(* Proofs about SetupTokens: the inductive invariant StoreInv, the two     *)
(* invariants that follow from it, and that storing and removing tokens    *)
(* file by file keeps the promise of TokenStore.                           *)
(***************************************************************************)
EXTENDS SetupTokens, TLAPS

-----------------------------------------------------------------------------
(* The inductive invariant *)

LEMMA ZeroIsRevision == 0 \in Revision
BY ConstantsAssumption DEF Revision

\* In the beginning nothing is registered and nothing stored.
LEMMA InitStoreInv == Init => StoreInv
<1>1. SUFFICES ASSUME Init PROVE StoreInv
  OBVIOUS
<1>2. TypeOK
  BY <1>1, ConstantsAssumption DEF Init, TypeOK, Meta, NoMeta, Revision, Free
<1>3. RecordsInv
  BY <1>1 DEF Init, RecordsInv, NoMeta, NoFile
<1>4. HolderInv
  BY <1>1 DEF Init, HolderInv, Free
<1>5. QED
  BY <1>2, <1>3, <1>4 DEF StoreInv

\* The steps in which a replacement gets on.
LEMMA ReplaceStep ==
  ASSUME StoreInv, NEW a \in Account, NEW t \in Token, NEW u \in Identities(t),
         Replace(a, t, u)
  PROVE  StoreInv'
<1>1. /\ op = Free /\ a \in known /\ TokenIsNew(t) /\ UuidIsNew(a, u)
      /\ issued \in Nat /\ issued' = issued + 1 /\ issued' \in Revision
      /\ op' = [pc |-> "write", account |-> a, token |-> t, uuid |-> u, rev |-> issued']
      /\ told' = "nothing"
      /\ UNCHANGED <<owner, known, meta, file>>
  BY ConstantsAssumption DEF Replace, Acceptable, StoreInv, TypeOK, Revision
<1>2. u \in User \cup {Nobody}
  BY DEF Identities, StoreInv, TypeOK
<1>3. TypeOK'
  BY <1>1, <1>2 DEF StoreInv, TypeOK, Op
<1>4. RecordsInv'
  <2>1. \A b \in Account : meta[b].rev \in Nat /\ file[b].rev \in Nat
    BY ConstantsAssumption
    DEF StoreInv, TypeOK, Meta, Envelope, NoFile, Revision
  <2>2. QED
    BY <1>1, <2>1 DEF StoreInv, RecordsInv, Counts, HasToken
<1>5. HolderInv'
  <2>1. \A b \in Account : meta[b].rev \in Nat /\ meta[b].rev < issued'
    BY <1>1, ConstantsAssumption
    DEF StoreInv, TypeOK, Meta, Revision, RecordsInv
  <2>2. \A b \in known \ {a} : HasToken(b) => file[b].token # t
    BY <1>1 DEF TokenIsNew
  <2>3. QED
    BY <1>1, <2>1, <2>2 DEF HolderInv, Identities, UuidIsNew, HasToken
<1>6. QED
  BY <1>3, <1>4, <1>5 DEF StoreInv

\* The token file is written: whether the command goes on or ends there, the
\* new file counts for nothing yet.
LEMMA WrittenStep ==
  ASSUME StoreInv, op.pc = "write", file' = Written,
         \/ op' = [op EXCEPT !.pc = "save"] /\ told' = told
         \/ op' = Free /\ told' = "failed",
         UNCHANGED <<owner, known, meta, issued>>
  PROVE  StoreInv'
<1>1. PICK a \in Account : a = op.account /\ a \in known
  BY DEF StoreInv, TypeOK, Free
<1>2. /\ op \in Op /\ op.token \in Token /\ op.rev \in Revision
      /\ op.rev = issued /\ meta[a].rev < op.rev
  BY <1>1 DEF StoreInv, TypeOK, HolderInv, Free
<1>3. /\ file'[a] = [kind |-> "token", token |-> op.token,
                     rev |-> op.rev, expired |-> FALSE]
      /\ \A b \in Account \ {a} : file'[b] = file[b]
      /\ file' \in [Account -> Envelope \cup {NoFile}]
  BY <1>1, <1>2 DEF StoreInv, TypeOK, Written, Envelope
<1>4. known \subseteq Account /\ UNCHANGED <<owner, known, meta, issued>>
  BY DEF StoreInv, TypeOK
<1>5. TypeOK'
  BY <1>1, <1>2, <1>3 DEF StoreInv, TypeOK, Op, Free
<1>6. RecordsInv'
  <2>1. meta[a].rev \in Nat /\ op.rev \in Nat
    BY <1>2, ConstantsAssumption DEF StoreInv, TypeOK, Meta, Revision
  <2>2. ~Counts(a)'
    BY <1>2, <1>3, <1>4, <2>1 DEF Counts
  <2>3. \A b \in Account \ {a} : Counts(b)' = Counts(b)
    BY <1>3, <1>4 DEF Counts, HasToken
  <2>4. \A b \in Account : meta'[b].rev <= issued' /\ file'[b].rev <= issued'
    BY <1>2, <1>3, <1>4, <2>1 DEF StoreInv, RecordsInv
  <2>5. \A b \in known' : Counts(b)' /\ meta'[b].uuid # Nobody
                          => meta'[b].uuid = owner'[file'[b].token]
    BY <1>3, <1>4, <2>2, <2>3 DEF StoreInv, RecordsInv
  <2>6. QED
    BY <1>4, <2>4, <2>5 DEF StoreInv, RecordsInv
<1>7. HolderInv'
  <2>1. CASE op' = Free
    BY <2>1 DEF HolderInv, Free
  <2>2. CASE op' = [op EXCEPT !.pc = "save"]
    <3>1. /\ op'.pc = "save" /\ op'.account = a /\ op'.token = op.token
          /\ op'.uuid = op.uuid /\ op'.rev = op.rev
      BY <1>1, <1>2, <2>2 DEF Op
    <3>2. \A b \in known \ {a} : HasToken(b)' => file'[b].token # op.token
      BY <1>1, <1>3, <1>4 DEF StoreInv, HolderInv, HasToken
    <3>3. QED
      BY <1>1, <1>3, <1>4, <3>1, <3>2 DEF StoreInv, HolderInv, UuidIsNew, Identities
  <2>3. QED
    BY <2>1, <2>2
<1>8. QED
  BY <1>5, <1>6, <1>7 DEF StoreInv

\* The state is written, and the new revision counts.
LEMMA SavedStep ==
  ASSUME StoreInv, op.pc = "save", meta' = Saved,
         op' = Free, told' \in {"stored", "failed"},
         UNCHANGED <<owner, known, file, issued>>
  PROVE  StoreInv'
<1>1. PICK a \in Account : a = op.account /\ a \in known
  BY DEF StoreInv, TypeOK, Free
<1>2. /\ op.rev = issued /\ op.rev \in Revision /\ op.uuid \in User \cup {Nobody}
      /\ op.uuid \in Identities(op.token) /\ UuidIsNew(a, op.uuid)
      /\ file[a].token = op.token
  BY <1>1 DEF StoreInv, TypeOK, HolderInv, Free, Op
<1>3. /\ meta'[a] = [rev |-> op.rev, uuid |-> op.uuid]
      /\ \A b \in Account \ {a} : meta'[b] = meta[b]
      /\ meta' \in [Account -> Meta]
  BY <1>1, <1>2 DEF StoreInv, TypeOK, Saved, Meta
<1>4. known \subseteq Account /\ UNCHANGED <<owner, known, file, issued>>
  BY DEF StoreInv, TypeOK
<1>5. TypeOK'
  BY <1>1, <1>3, <1>4 DEF StoreInv, TypeOK
<1>6. RecordsInv'
  <2>1. \A b \in Account : meta'[b].rev <= issued' /\ file'[b].rev <= issued'
    BY <1>2, <1>3, <1>4, ConstantsAssumption DEF StoreInv, RecordsInv, Revision
  <2>2. \A b \in known' : Counts(b)' /\ meta'[b].uuid # Nobody
                          => meta'[b].uuid = owner'[file'[b].token]
    BY <1>1, <1>2, <1>3, <1>4 DEF StoreInv, RecordsInv, Counts, HasToken, Identities
  <2>3. \A b, c \in known' : b # c /\ meta'[b].uuid # Nobody
                             => meta'[b].uuid # meta'[c].uuid
    BY <1>1, <1>2, <1>3, <1>4 DEF StoreInv, RecordsInv, UuidIsNew
  <2>4. QED
    BY <2>1, <2>2, <2>3 DEF RecordsInv
<1>7. HolderInv'
  BY DEF HolderInv, Free
<1>8. QED
  BY <1>5, <1>6, <1>7 DEF StoreInv
\* Files only lose what they say: one is deleted, damaged or expires.
LEMMA FileStep ==
  ASSUME StoreInv, NEW a \in known,
         NEW f \in {NoFile, [file[a] EXCEPT !.expired = TRUE],
                    [file[a] EXCEPT !.kind = "malformed"],
                    [file[a] EXCEPT !.kind = "unsafe"]},
         f = NoFile \/ HasToken(a),
         file' = [file EXCEPT ![a] = f],
         \/ op' = op /\ LeftAlone(a)
         \/ op' = Free
         \/ op.pc = "unlink" /\ op.account = a /\ f = NoFile
               /\ op' = [op EXCEPT !.pc = "forget"],
         told' \in {told, "failed"},
         UNCHANGED <<owner, known, meta, issued>>
  PROVE  StoreInv'
<1>1. a \in Account /\ known \subseteq Account /\ file[a] \in Envelope \cup {NoFile}
  BY DEF StoreInv, TypeOK
<1>2. /\ NoFile.kind = "none" /\ NoFile.rev = 0
      /\ f # NoFile => HasToken(a) /\ file[a] \in Envelope
  BY <1>1 DEF HasToken, NoFile
<1>3. f # NoFile => f \in Envelope /\ f.token = file[a].token /\ f.rev = file[a].rev
  BY <1>2 DEF Envelope
<1>4. /\ file'[a] = f
      /\ \A b \in Account \ {a} : file'[b] = file[b]
      /\ file' \in [Account -> Envelope \cup {NoFile}]
  BY <1>1, <1>3 DEF StoreInv, TypeOK
<1>5. TypeOK'
  <2>1. op' \in Op \cup {Free} /\ (op' # Free => op'.account \in known)
    BY DEF StoreInv, TypeOK, Op, Free
  <2>2. QED
    BY <1>1, <1>4, <2>1 DEF StoreInv, TypeOK
<1>6. RecordsInv'
  <2>1. f.rev <= issued
    BY <1>1, <1>2, <1>3, ConstantsAssumption
    DEF StoreInv, RecordsInv, TypeOK, Revision
  <2>2. \A b \in known : Counts(b)' => Counts(b) /\ file'[b].token = file[b].token
    BY <1>1, <1>2, <1>3, <1>4 DEF Counts, HasToken
  <2>3. QED
    BY <1>1, <1>4, <2>1, <2>2 DEF StoreInv, RecordsInv
<1>7. HolderInv'
  <2>1. \A b \in known : HasToken(b)' => HasToken(b) /\ file'[b].token = file[b].token
    BY <1>1, <1>2, <1>3, <1>4 DEF HasToken
  <2>2. CASE op' = op /\ LeftAlone(a)
    <3>1. op.pc = "save" => file'[op.account] = file[op.account]
      BY <1>1, <1>4, <2>2 DEF StoreInv, TypeOK, LeftAlone, Free
    <3>2. ASSUME op.pc = "forget" PROVE file'[op.account] = NoFile
      <4>1. op.account \in known /\ file[op.account] = NoFile
        BY <3>2 DEF StoreInv, TypeOK, HolderInv, Free
      <4>2. op.account = a => f = NoFile
        BY <1>2, <4>1 DEF HasToken
      <4>3. QED
        BY <1>1, <1>4, <4>1, <4>2
    <3>3. op.pc \in {"write", "save"} =>
              /\ \A b \in known \ {op.account} :
                    HasToken(b)' => file'[b].token # op.token
              /\ op.account \in known
      BY <2>1, <2>2 DEF StoreInv, TypeOK, HolderInv, Free
    <3>4. QED
      BY <2>2, <3>1, <3>2, <3>3 DEF StoreInv, HolderInv, UuidIsNew, Identities
  <2>3. CASE op' = Free
    BY <2>3 DEF HolderInv, Free
  <2>4. CASE /\ op.pc = "unlink" /\ op.account = a /\ f = NoFile
             /\ op' = [op EXCEPT !.pc = "forget"]
    BY <1>4, <2>4 DEF StoreInv, TypeOK, Op, HolderInv, Free
  <2>5. QED
    BY <2>2, <2>3, <2>4
<1>8. QED
  BY <1>5, <1>6, <1>7 DEF StoreInv

\* The account is cleared, and perhaps not registered any more.
LEMMA ClearedStep ==
  ASSUME StoreInv, NEW a \in known, file[a] = NoFile,
         meta' = [meta EXCEPT ![a] = NoMeta],
         op' = Free, known' \in {known, known \ {a}},
         told' \in {told, "removed", "failed"},
         UNCHANGED <<owner, file, issued>>
  PROVE  StoreInv'
<1>1. a \in Account /\ known \subseteq Account /\ known' \subseteq known
  BY DEF StoreInv, TypeOK
<1>2. /\ meta'[a] = NoMeta
      /\ \A b \in Account \ {a} : meta'[b] = meta[b]
      /\ meta' \in [Account -> Meta]
  BY <1>1, ConstantsAssumption DEF StoreInv, TypeOK, NoMeta, Meta, Revision
<1>3. TypeOK'
  BY <1>1, <1>2 DEF StoreInv, TypeOK, Free
<1>4. RecordsInv'
  BY <1>1, <1>2, ConstantsAssumption
  DEF StoreInv, RecordsInv, Counts, HasToken, NoMeta, NoFile, TypeOK, Revision
<1>5. HolderInv'
  BY DEF HolderInv, Free
<1>6. QED
  BY <1>3, <1>4, <1>5 DEF StoreInv

\* Only the holder changes: a command ends without effect, dies, or a removal
\* begins.
LEMMA HolderStep ==
  ASSUME StoreInv,
         \/ op' = Free
         \/ \E a \in known : op' = [Free EXCEPT !.pc = "unlink", !.account = a],
         told' \in {told, "nothing", "stored", "failed"},
         UNCHANGED <<owner, known, meta, file, issued>>
  PROVE  StoreInv'
<1>1. /\ op'.pc \in {"free", "unlink"} /\ op' \in Op \cup {Free}
      /\ op' # Free => op'.account \in known
  <2>1. CASE op' = Free
    BY <2>1 DEF Free
  <2>2. ASSUME NEW a \in known, op' = [Free EXCEPT !.pc = "unlink", !.account = a]
        PROVE  op' \in Op /\ op'.pc = "unlink" /\ op'.account = a
    <3>1. op' = [pc |-> "unlink", account |-> a, token |-> NoToken,
                 uuid |-> Nobody, rev |-> 0]
      BY <2>2 DEF Free
    <3>2. a \in Account
      BY <2>2 DEF StoreInv, TypeOK
    <3>3. 0 \in Revision
      BY ZeroIsRevision
    <3>4. QED
      BY <3>1, <3>2, <3>3 DEF Op
  <2>3. QED
    BY <2>1, <2>2
<1>2. TypeOK'
  BY <1>1 DEF StoreInv, TypeOK
<1>3. RecordsInv'
  BY DEF StoreInv, RecordsInv, Counts, HasToken
<1>4. HolderInv'
  BY <1>1 DEF HolderInv
<1>5. QED
  BY <1>2, <1>3, <1>4 DEF StoreInv

\* An account is registered, of which there is nothing yet.
LEMMA CreateStep ==
  ASSUME StoreInv, NEW a \in Account, CreateAccount(a)
  PROVE  StoreInv'
<1>1. /\ a \notin known /\ known' = known \cup {a} /\ op = Free
      /\ UNCHANGED <<owner, meta, file, issued, op, told>>
      /\ meta[a] = NoMeta /\ file[a] = NoFile
  BY DEF CreateAccount, StoreInv, TypeOK
<1>2. TypeOK'
  BY <1>1 DEF StoreInv, TypeOK
<1>3. RecordsInv'
  BY <1>1 DEF StoreInv, RecordsInv, Counts, HasToken, NoMeta, NoFile
<1>4. HolderInv'
  BY <1>1 DEF HolderInv, Free
<1>5. QED
  BY <1>2, <1>3, <1>4 DEF StoreInv

LEMMA StoreStep ==
  ASSUME StoreInv, [Next]_vars
  PROVE  StoreInv'
<1>0. TypeOK
  BY DEF StoreInv
<1>1. ASSUME NEW a \in Account, NEW t \in Token, NEW u \in Identities(t), Replace(a, t, u)
      PROVE  StoreInv'
  BY <1>1, ReplaceStep
<1>2. CASE ReplaceRefused
  BY <1>2, HolderStep DEF ReplaceRefused, Ends
<1>3. CASE WriteEnvelope
  BY <1>3, WrittenStep DEF WriteEnvelope
<1>4. CASE WriteFails
  <2>1. CASE UNCHANGED file
    BY <1>4, <2>1, HolderStep DEF WriteFails, Ends
  <2>2. CASE file' = Written
    BY <1>4, <2>2, WrittenStep DEF WriteFails, Ends
  <2>3. QED
    BY <1>4, <2>1, <2>2 DEF WriteFails
<1>5. CASE SaveToken
  BY <1>5, SavedStep DEF SaveToken, Ends
<1>6. CASE SaveFails
  <2>1. CASE meta' = meta
    BY <1>6, <2>1, HolderStep DEF SaveFails, Ends
  <2>2. CASE meta' = Saved
    BY <1>6, <2>2, SavedStep DEF SaveFails, Ends
  <2>3. QED
    BY <1>6, <2>1, <2>2 DEF SaveFails
<1>7. ASSUME NEW a \in Account, RemoveToken(a)
      PROVE  StoreInv'
  BY <1>7, HolderStep DEF RemoveToken
<1>8. CASE Unlink
  <2>1. op.account \in known
    BY <1>0, <1>8 DEF Unlink, TypeOK, Free
  <2>2. QED
    BY <1>8, <2>1, FileStep DEF Unlink, Unlinked
<1>9. CASE UnlinkFails
  <2>1. op.account \in known
    BY <1>0, <1>9 DEF UnlinkFails, TypeOK, Free
  <2>2. CASE UNCHANGED file
    BY <1>9, <2>2, HolderStep DEF UnlinkFails, Ends
  <2>3. CASE file' = Unlinked
    BY <1>9, <2>1, <2>3, FileStep DEF UnlinkFails, Unlinked, Ends
  <2>4. QED
    BY <1>9, <2>2, <2>3 DEF UnlinkFails
<1>10. ASSUME Forget \/ ForgetFails
       PROVE  StoreInv'
  <2>1. op.account \in known /\ file[op.account] = NoFile
    BY <1>0, <1>10 DEF Forget, ForgetFails, TypeOK, Free, StoreInv, HolderInv
  <2>2. CASE meta' = meta
    BY <1>10, <2>2, HolderStep, <2>1, ClearedStep
    DEF Forget, ForgetFails, Ends, Forgotten
  <2>3. CASE meta' = Forgotten
    BY <1>10, <2>1, <2>3, ClearedStep DEF Forget, ForgetFails, Ends, Forgotten
  <2>4. QED
    BY <1>10, <2>2, <2>3 DEF Forget, ForgetFails
<1>11. CASE Die
  BY <1>11, HolderStep DEF Die
<1>12. ASSUME NEW a \in Account, CreateAccount(a)
       PROVE  StoreInv'
  BY <1>12, CreateStep
<1>13. ASSUME NEW a \in Account, RemoveAccount(a)
       PROVE  StoreInv'
  <2>1. file[a] = NoFile /\ op' = Free
    BY <1>0, <1>13 DEF RemoveAccount, Tokenless, TypeOK, Envelope
  <2>2. QED
    BY <1>13, <2>1, ClearedStep DEF RemoveAccount
<1>14. ASSUME NEW a \in Account, Expire(a) \/ Damage(a) \/ Discard(a)
       PROVE  StoreInv'
  <2>1. a \in known
    BY <1>0, <1>14 DEF Expire, Damage, Discard, HasToken, Readable, TypeOK, NoFile
  <2>2. LeftAlone(a)
    BY <1>0, <1>14
    DEF Expire, Damage, Discard, LeftAlone, Readable, StoreInv, HolderInv
  <2>3. file[a] \in Envelope \cup {NoFile}
    BY <1>0, <1>14 DEF TypeOK
  <2>4. CASE Expire(a)
    <3>1. file' = [file EXCEPT ![a] = [file[a] EXCEPT !.expired = TRUE]]
      BY <2>4 DEF Expire
    <3>2. QED
      BY <2>1, <2>2, <2>4, <3>1, FileStep DEF Expire
  <2>5. CASE Damage(a)
    <3>1. PICK k \in {"malformed", "unsafe"} :
              file' = [file EXCEPT ![a] = [file[a] EXCEPT !.kind = k]]
      BY <2>5 DEF Damage
    <3>2. QED
      BY <2>1, <2>2, <2>5, <3>1, FileStep DEF Damage
  <2>6. CASE Discard(a)
    BY <2>1, <2>2, <2>6, FileStep DEF Discard
  <2>7. QED
    BY <1>14, <2>4, <2>5, <2>6
<1>15. CASE UNCHANGED vars
  BY <1>15 DEF vars, StoreInv, TypeOK, RecordsInv, HolderInv, Counts, HasToken,
               UuidIsNew, Identities
<1>16. QED
  BY <1>1, <1>2, <1>3, <1>4, <1>5, <1>6, <1>7, <1>8, <1>9, <1>10, <1>11, <1>12,
     <1>13, <1>14, <1>15 DEF Next

\* The inductive invariant holds whatever fails, dies or happens to the files.
THEOREM StoreInvariant == Spec => []StoreInv
<1>1. Init => StoreInv
  BY InitStoreInv
<1>2. StoreInv /\ [Next]_vars => StoreInv'
  BY StoreStep
<1>3. QED
  BY <1>1, <1>2, PTL DEF Spec

\* Every variable keeps its type, and nothing is kept of accounts that are not
\* registered.
THEOREM TypeCorrect == Spec => []TypeOK
<1>1. StoreInv => TypeOK
  BY DEF StoreInv
<1>2. QED
  BY <1>1, StoreInvariant, PTL

\* The UUID in the state is that of the token that can be launched.
THEOREM IdentityFits == Spec => []IdentityIsItsToken
<1>1. StoreInv => IdentityIsItsToken
  BY DEF StoreInv, RecordsInv, IdentityIsItsToken, Usable, Counts
<1>2. QED
  BY <1>1, StoreInvariant, PTL

\* No two accounts that can be launched are known to belong to one user.
THEOREM UsersDiffer == Spec => []UsersAreApart
<1>1. StoreInv => UsersAreApart
  BY DEF StoreInv, RecordsInv, UsersAreApart
<1>2. QED
  BY <1>1, StoreInvariant, PTL

-----------------------------------------------------------------------------
(* Storing file by file keeps the promise of TokenStore *)

PromiseSteps == [Promise!Next]_<<Launchable, told>>

\* What can be launched depends on file, metadata and registration only.
LEMMA SameToken ==
  ASSUME NEW a \in Account, file'[a] = file[a], meta'[a] = meta[a],
         a \in known' <=> a \in known
  PROVE  Usable(a)' = Usable(a)
BY DEF Usable, HasToken

LEMMA SameTokens ==
  ASSUME \A a \in Account : Usable(a)' = Usable(a)
  PROVE  UNCHANGED Launchable
BY DEF Launchable

\* Without a file there is nothing to launch.
LEMMA NoFileNoToken ==
  ASSUME NEW a \in Account, file[a] = NoFile
  PROVE  Usable(a) = NoToken
BY DEF Usable, HasToken, NoFile

\* Nothing happens to the tokens, and the user is told nothing or a failure.
LEMMA NothingLost ==
  ASSUME \A a \in Account : Usable(a)' = Usable(a),
         told' \in {told, "nothing", "failed"}
  PROVE  PromiseSteps
<1>1. UNCHANGED Launchable
  BY SameTokens
<1>2. CASE told' = told
  BY <1>1, <1>2 DEF PromiseSteps
<1>3. CASE told' = "nothing"
  BY <1>1, <1>3 DEF PromiseSteps, Promise!Next, Promise!Ask
<1>4. CASE told' = "failed"
  BY <1>1, <1>4 DEF PromiseSteps, Promise!Next, Promise!Refuse
<1>5. QED
  BY <1>2, <1>3, <1>4

\* One account loses its token.
LEMMA OneLost ==
  ASSUME NEW a \in Account, Usable(a)' = NoToken,
         \A b \in Account \ {a} : Usable(b)' = Usable(b),
         told' \in {told, "failed", "removed"}
  PROVE  PromiseSteps
<1>1. Launchable' = [Launchable EXCEPT ![a] = NoToken]
  BY DEF Launchable
<1>2. CASE told' = told
  BY <1>1, <1>2 DEF PromiseSteps, Promise!Next, Promise!Lose
<1>3. CASE told' = "failed"
  BY <1>1, <1>3 DEF PromiseSteps, Promise!Next, Promise!Fail
<1>4. CASE told' = "removed"
  BY <1>1, <1>4 DEF PromiseSteps, Promise!Next, Promise!Remove
<1>5. QED
  BY <1>2, <1>3, <1>4

\* A file that has been written counts for nothing before the state names it.
LEMMA WrittenLoses ==
  ASSUME StoreInv, op.pc = "write", file' = Written,
         UNCHANGED <<known, meta>>, told' \in {told, "failed"}
  PROVE  PromiseSteps
<1>1. PICK a \in Account : a = op.account
  BY DEF StoreInv, TypeOK, Free
<1>2. meta[a].rev \in Nat /\ op.rev \in Nat /\ meta[a].rev < op.rev
  BY <1>1, ConstantsAssumption
  DEF StoreInv, TypeOK, Meta, Op, Revision, HolderInv, Free
<1>3. file'[a].rev = op.rev /\ \A b \in Account \ {a} : file'[b] = file[b]
  BY <1>1 DEF StoreInv, TypeOK, Written
<1>4. Usable(a)' = NoToken
  BY <1>2, <1>3 DEF Usable
<1>5. \A b \in Account \ {a} : Usable(b)' = Usable(b)
  BY <1>3, SameToken
<1>6. QED
  BY <1>4, <1>5, OneLost

\* When the state names it, the new token can be launched, and nobody else
\* holds it.
LEMMA SavedStores ==
  ASSUME StoreInv, op.pc = "save", meta' = Saved,
         UNCHANGED <<known, file>>, told' \in {"stored", "failed"}
  PROVE  PromiseSteps
<1>1. PICK a \in Account : a = op.account /\ a \in known
  BY DEF StoreInv, TypeOK, Free
<1>2. /\ op.token \in Token /\ op.token # NoToken
      /\ op.rev # 0 /\ meta[a].rev < op.rev
      /\ file[a] = [kind |-> "token", token |-> op.token,
                    rev |-> op.rev, expired |-> FALSE]
      /\ \A b \in known \ {a} : HasToken(b) => file[b].token # op.token
  BY <1>1, ConstantsAssumption DEF StoreInv, HolderInv
<1>3. meta[a].rev \in Nat /\ op.rev \in Nat
  BY <1>1, ConstantsAssumption DEF StoreInv, TypeOK, Meta, Op, Revision, Free
<1>4. /\ meta'[a].rev = op.rev
      /\ \A b \in Account \ {a} : meta'[b] = meta[b]
  BY <1>1 DEF StoreInv, TypeOK, Saved
<1>5. Usable(a)' = op.token
  BY <1>1, <1>2, <1>4 DEF Usable, HasToken
<1>6. \A b \in Account \ {a} : Usable(b)' = Usable(b)
  BY <1>4, SameToken
<1>7. Launchable' = [Launchable EXCEPT ![a] = op.token]
  BY <1>5, <1>6 DEF Launchable
<1>8. \A b \in Account : Usable(b) # op.token
  BY <1>1, <1>2, <1>3 DEF Usable, HasToken
<1>9. Promise!Free(op.token)
  BY <1>8 DEF Promise!Free, Launchable
<1>10. Promise!Store(a, op.token) \/ Promise!StoreFails(a, op.token)
  BY <1>7, <1>9 DEF Promise!Store, Promise!StoreFails
<1>11. QED
  BY <1>2, <1>10 DEF PromiseSteps, Promise!Next

\* A file is deleted, expires or is damaged.
LEMMA FileLoses ==
  ASSUME StoreInv, NEW a \in Account, NEW f,
         f.kind # "token" \/ f.expired,
         file' = [file EXCEPT ![a] = f],
         UNCHANGED <<known, meta>>, told' \in {told, "failed"}
  PROVE  PromiseSteps
<1>1. file'[a] = f /\ \A b \in Account \ {a} : file'[b] = file[b]
  BY DEF StoreInv, TypeOK
<1>2. Usable(a)' = NoToken
  BY <1>1 DEF Usable, HasToken
<1>3. \A b \in Account \ {a} : Usable(b)' = Usable(b)
  BY <1>1, SameToken
<1>4. QED
  BY <1>2, <1>3, OneLost

\* Nothing is lost with the state of an account whose file is gone.
LEMMA ForgottenLoses ==
  ASSUME StoreInv, op.pc = "forget", meta' \in {meta, Forgotten},
         UNCHANGED <<known, file>>, told' \in {"removed", "failed"}
  PROVE  PromiseSteps
<1>1. PICK a \in Account : a = op.account /\ file[a] = NoFile
  BY DEF StoreInv, TypeOK, HolderInv, Free
<1>2. \A b \in Account \ {a} : meta'[b] = meta[b]
  BY <1>1 DEF StoreInv, TypeOK, Forgotten
<1>3. Usable(a)' = NoToken
  BY <1>1 DEF Usable, HasToken, NoFile
<1>4. \A b \in Account \ {a} : Usable(b)' = Usable(b)
  BY <1>2, SameToken
<1>5. QED
  BY <1>3, <1>4, OneLost

LEMMA PromiseStep ==
  ASSUME StoreInv, [Next]_vars
  PROVE  PromiseSteps
<1>0. TypeOK
  BY DEF StoreInv
<1>1. ASSUME UNCHANGED <<known, meta, file>>, told' \in {told, "nothing", "failed"}
      PROVE  PromiseSteps
  BY <1>1, SameToken, NothingLost
<1>2. ASSUME NEW a \in Account, NEW t \in Token, NEW u \in Identities(t), Replace(a, t, u)
      PROVE  PromiseSteps
  BY <1>1, <1>2 DEF Replace
<1>3. ASSUME NEW a \in Account, RemoveToken(a)
      PROVE  PromiseSteps
  BY <1>1, <1>3 DEF RemoveToken
<1>4. CASE ReplaceRefused \/ Die
  BY <1>1, <1>4 DEF ReplaceRefused, Die, Ends
<1>5. CASE WriteEnvelope
  BY <1>5, WrittenLoses DEF WriteEnvelope
<1>6. CASE WriteFails
  BY <1>1, <1>6, WrittenLoses DEF WriteFails, Ends
<1>7. CASE SaveToken
  BY <1>7, SavedStores DEF SaveToken, Ends
<1>8. CASE SaveFails
  BY <1>1, <1>8, SavedStores DEF SaveFails, Ends
<1>9. CASE Unlink \/ UnlinkFails
  <2>1. op.account \in Account
    BY <1>0, <1>9 DEF Unlink, UnlinkFails, TypeOK, Free
  <2>2. NoFile.kind # "token"
    BY DEF NoFile
  <2>3. QED
    BY <1>1, <1>9, <2>1, <2>2, FileLoses DEF Unlink, UnlinkFails, Unlinked, Ends
<1>10. CASE Forget \/ ForgetFails
  BY <1>10, ForgottenLoses DEF Forget, ForgetFails, Ends
<1>11. ASSUME NEW a \in Account, CreateAccount(a) \/ RemoveAccount(a)
       PROVE  PromiseSteps
  <2>1. file[a] = NoFile /\ UNCHANGED <<file, told>>
    BY <1>0, <1>11
    DEF CreateAccount, RemoveAccount, Tokenless, TypeOK, Envelope
  <2>2. Usable(a) = NoToken /\ Usable(a)' = NoToken
    BY <2>1 DEF Usable, HasToken, NoFile
  <2>3. \A b \in Account \ {a} :
           meta'[b] = meta[b] /\ (b \in known' <=> b \in known)
    BY <1>0, <1>11 DEF CreateAccount, RemoveAccount, TypeOK
  <2>4. \A b \in Account \ {a} : Usable(b)' = Usable(b)
    BY <2>1, <2>3, SameToken
  <2>5. QED
    BY <2>1, <2>2, <2>4, NothingLost
<1>12. ASSUME NEW a \in Account, Expire(a) \/ Damage(a) \/ Discard(a)
       PROVE  PromiseSteps
  <2>1. UNCHANGED <<known, meta, told>>
    BY <1>12 DEF Expire, Damage, Discard
  <2>2. CASE Expire(a)
    <3>1. /\ file' = [file EXCEPT ![a] = [file[a] EXCEPT !.expired = TRUE]]
          /\ file[a] \in Envelope
      BY <1>0, <2>2 DEF Expire, HasToken, TypeOK, NoFile
    <3>2. [file[a] EXCEPT !.expired = TRUE].expired
      BY <3>1 DEF Envelope
    <3>3. QED
      BY <2>1, <3>1, <3>2, FileLoses
  <2>3. CASE Damage(a)
    <3>1. PICK k \in {"malformed", "unsafe"} :
             file' = [file EXCEPT ![a] = [file[a] EXCEPT !.kind = k]]
      BY <2>3 DEF Damage
    <3>2. file[a] \in Envelope
      BY <1>0, <2>3 DEF Damage, HasToken, TypeOK, NoFile
    <3>3. [file[a] EXCEPT !.kind = k].kind # "token"
      BY <3>2 DEF Envelope
    <3>4. QED
      BY <2>1, <3>1, <3>3, FileLoses
  <2>4. CASE Discard(a)
    <3>1. NoFile.kind # "token"
      BY DEF NoFile
    <3>2. QED
      BY <2>1, <2>4, <3>1, FileLoses DEF Discard
  <2>5. QED
    BY <1>12, <2>2, <2>3, <2>4
<1>13. CASE UNCHANGED vars
  BY <1>1, <1>13 DEF vars
<1>14. QED
  BY <1>2, <1>3, <1>4, <1>5, <1>6, <1>7, <1>8, <1>9, <1>10, <1>11, <1>12, <1>13
  DEF Next

\* In the beginning there is nothing to launch.
LEMMA PromiseInit == Init => Promise!Init
BY DEF Init, Promise!Init, Launchable, Usable

\* Whatever fails, dies or happens to the files, a launch gets the token its
\* user was told is stored, or none.
THEOREM StoringFailsClosed == Spec => FailsClosed
<1>1. StoreInv /\ [Next]_vars => [Promise!Next]_<<Launchable, told>>
  BY PromiseStep DEF PromiseSteps
<1>2. QED
  BY <1>1, PromiseInit, StoreInvariant, PTL DEF Spec, FailsClosed, Promise!Spec
=============================================================================
