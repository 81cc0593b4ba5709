---------------------------- MODULE SetupTokens ----------------------------
(***************************************************************************)
(* Claude setup tokens (setup_tokens.go).  A token is a file of its own    *)
(* with a random revision; the state file names the revision that counts.  *)
(* Storing and removing a token write the file first and the state second, *)
(* and each write may fail, before or after it took effect, or be the last *)
(* thing the process does.  The lock is held throughout, so the holder is  *)
(* one program counter, op.                                                *)
(***************************************************************************)
EXTENDS Naturals, FiniteSets

CONSTANTS
    Account,     \* names of accounts of the Claude services
    Token,
    User,        \* whom a token belongs to: the account's UUID upstream
    NoToken,
    Nobody,      \* no UUID is known
    MaxRevision  \* bound: tokens written

ASSUME ConstantsAssumption ==
    /\ NoToken \notin Token
    /\ Nobody \notin User
    /\ MaxRevision \in Nat

VARIABLES
    owner,   \* upstream: the user of each token
    known,   \* state: the registered accounts
    meta,    \* state: SetupTokenRevision and AccountUUID of each
    file,    \* the token file of each account
    issued,  \* revisions generated so far
    op,      \* the holder of the lock
    told     \* what the last command told its user

vars == <<owner, known, meta, file, issued, op, told>>

Revision == 0..MaxRevision
Meta     == [rev : Revision, uuid : User \cup {Nobody}]
NoMeta   == [rev |-> 0, uuid |-> Nobody]

\* claudeSetupTokenEnvelope.  A damaged file is unsafe, that is a link or open
\* to others, or it is malformed, or its directory is unsafe.
Envelope == [kind : {"token", "malformed", "unsafe"}, token : Token,
             rev : Revision, expired : BOOLEAN]
NoFile   == [kind |-> "none", token |-> NoToken, rev |-> 0, expired |-> FALSE]

Op   == [pc : {"write", "save", "unlink", "forget"}, account : Account,
         token : Token \cup {NoToken}, uuid : User \cup {Nobody},
         rev : Revision]
Free == [pc |-> "free", account |-> NoToken, token |-> NoToken,
         uuid |-> Nobody, rev |-> 0]

\* The holder works on a registered account, and of one that is not
\* registered there is neither a token nor metadata.
TypeOK ==
    /\ owner \in [Token -> User]
    /\ known \subseteq Account
    /\ meta \in [Account -> Meta]
    /\ file \in [Account -> Envelope \cup {NoFile}]
    /\ issued \in Revision
    /\ op \in Op \cup {Free}
    /\ told \in {"nothing", "stored", "removed", "failed"}
    /\ op # Free => op.account \in known
    /\ \A a \in Account \ known : meta[a] = NoMeta /\ file[a] = NoFile

Init ==
    /\ owner \in [Token -> User]
    /\ known = {}
    /\ meta = [a \in Account |-> NoMeta]
    /\ file = [a \in Account |-> NoFile]
    /\ issued = 0
    /\ op = Free
    /\ told = "nothing"

-----------------------------------------------------------------------------
(* Reading *)

HasToken(a) == file[a].kind = "token"

\* readClaudeSetupTokenEnvelope gives an error for a damaged file.
Readable(a) == file[a].kind \in {"none", "token"}

\* LoadClaudeSetupTokenWithStatus
Usable(a) ==
    IF /\ a \in known
       /\ HasToken(a)
       /\ meta[a].rev # 0 /\ meta[a].rev = file[a].rev
       /\ ~file[a].expired
    THEN file[a].token ELSE NoToken

\* rejectDuplicateClaudeSetupToken: of every registered account, its own
\* included; one file that cannot be read is enough to refuse.
TokenIsNew(t) == \A a \in known : Readable(a) /\ (HasToken(a) => file[a].token # t)

\* duplicateClaudeAccountUUID
UuidIsNew(a, u) == u # Nobody => \A b \in known \ {a} : meta[b].uuid # u

-----------------------------------------------------------------------------
(* ReplaceClaudeSetupToken *)

\* The identity that was looked up before the lock was taken, if upstream
\* told it.
Identities(t) == {owner[t], Nobody}

\* Mutant: the UUIDs are not compared.
UuidsIgnored(a, t, u) == TokenIsNew(t)

Acceptable(a, t, u) == TokenIsNew(t) /\ UuidIsNew(a, u)

Replace(a, t, u) ==
    /\ op = Free
    /\ a \in known
    /\ Acceptable(a, t, u)
    /\ issued < MaxRevision
    /\ issued' = issued + 1
    /\ op' = [pc |-> "write", account |-> a, token |-> t, uuid |-> u, rev |-> issued']
    /\ told' = "nothing"
    /\ UNCHANGED <<owner, known, meta, file>>

Ends(answer) == op' = Free /\ told' = answer

\* The token has no form, its identity cannot be looked up, or it is not
\* acceptable.
ReplaceRefused ==
    /\ op = Free
    /\ Ends("failed")
    /\ UNCHANGED <<owner, known, meta, file, issued>>

\* Mutant: a token that replaces another keeps its revision.
WithOldRevision ==
    [file EXCEPT ![op.account] =
        [kind |-> "token", token |-> op.token, expired |-> FALSE,
         rev |-> IF meta[op.account].rev # 0 THEN meta[op.account].rev ELSE op.rev]]

Written ==
    [file EXCEPT ![op.account] =
        [kind |-> "token", token |-> op.token, expired |-> FALSE, rev |-> op.rev]]

\* writeClaudeSetupTokenEnvelope, which refuses a target that has become
\* unsafe.
WriteEnvelope ==
    /\ op.pc = "write"
    /\ file[op.account].kind # "unsafe"
    /\ file' = Written
    /\ op' = [op EXCEPT !.pc = "save"]
    /\ UNCHANGED <<owner, known, meta, issued, told>>

\* The directory cannot be prepared, the file not written; or not synced,
\* after it took its place.
WriteFails ==
    /\ op.pc = "write"
    /\ \/ UNCHANGED file
       \/ file[op.account].kind # "unsafe" /\ file' = Written
    /\ Ends("failed")
    /\ UNCHANGED <<owner, known, meta, issued>>

Saved == [meta EXCEPT ![op.account] = [rev |-> op.rev, uuid |-> op.uuid]]

\* Mutant: whether the state was saved is not asked.
SaveUnchecked ==
    /\ op.pc = "save"
    /\ meta' \in {meta, Saved}
    /\ Ends("stored")
    /\ UNCHANGED <<owner, known, file, issued>>

SaveToken ==
    /\ op.pc = "save"
    /\ meta' = Saved
    /\ Ends("stored")
    /\ UNCHANGED <<owner, known, file, issued>>

\* The state is not saved, or saved and its permissions not set.
SaveFails ==
    /\ op.pc = "save"
    /\ meta' \in {meta, Saved}
    /\ Ends("failed")
    /\ UNCHANGED <<owner, known, file, issued>>

-----------------------------------------------------------------------------
(* RemoveClaudeSetupToken *)

RemoveToken(a) ==
    /\ op = Free
    /\ a \in known
    /\ op' = [Free EXCEPT !.pc = "unlink", !.account = a]
    /\ told' = "nothing"
    /\ UNCHANGED <<owner, known, meta, file, issued>>

\* removeClaudeSetupTokenFile; a file that is merely malformed can go.
Unlinked == [file EXCEPT ![op.account] = NoFile]

Unlink ==
    /\ op.pc = "unlink"
    /\ file[op.account].kind # "unsafe"
    /\ file' = Unlinked
    /\ op' = [op EXCEPT !.pc = "forget"]
    /\ UNCHANGED <<owner, known, meta, issued, told>>

UnlinkFails ==
    /\ op.pc = "unlink"
    /\ \/ UNCHANGED file
       \/ file[op.account].kind # "unsafe" /\ file' = Unlinked
    /\ Ends("failed")
    /\ UNCHANGED <<owner, known, meta, issued>>

Forgotten == [meta EXCEPT ![op.account] = NoMeta]

Forget ==
    /\ op.pc = "forget"
    /\ meta' = Forgotten
    /\ Ends("removed")
    /\ UNCHANGED <<owner, known, file, issued>>

ForgetFails ==
    /\ op.pc = "forget"
    /\ meta' \in {meta, Forgotten}
    /\ Ends("failed")
    /\ UNCHANGED <<owner, known, file, issued>>

\* The process dies, and the kernel releases its lock.
Die ==
    /\ op # Free
    /\ op' = Free
    /\ UNCHANGED <<owner, known, meta, file, issued, told>>

-----------------------------------------------------------------------------
(* What happens to accounts and files meanwhile *)

\* CreateAccountHome
CreateAccount(a) ==
    /\ op = Free
    /\ a \notin known
    /\ known' = known \cup {a}
    /\ UNCHANGED <<owner, meta, file, issued, op, told>>

\* RemoveAccountWithOptions asks for file and revision.
Tokenless(a) == file[a].kind = "none" /\ meta[a].rev = 0

\* Mutant: the lock is not taken.
UnregisterAtOnce(a) ==
    /\ a \in known
    /\ Tokenless(a)
    /\ known' = known \ {a}
    /\ UNCHANGED <<owner, meta, file, issued, op, told>>

RemoveAccount(a) ==
    /\ op = Free
    /\ a \in known
    /\ Tokenless(a)
    /\ known' = known \ {a}
    /\ meta' = [meta EXCEPT ![a] = NoMeta]
    /\ UNCHANGED <<owner, file, issued, op, told>>

\* Nobody gets at a file between its writing and the save of the state.
LeftAlone(a) == ~(op.pc = "save" /\ op.account = a)

\* A year has passed.
Expire(a) ==
    /\ HasToken(a) /\ LeftAlone(a)
    /\ file' = [file EXCEPT ![a].expired = TRUE]
    /\ UNCHANGED <<owner, known, meta, issued, op, told>>

\* Somebody else's doing, which may happen at any time.
Damage(a) ==
    /\ HasToken(a) /\ LeftAlone(a)
    /\ \E k \in {"malformed", "unsafe"} : file' = [file EXCEPT ![a].kind = k]
    /\ UNCHANGED <<owner, known, meta, issued, op, told>>

\* The user deletes a damaged file by hand.
Discard(a) ==
    /\ ~Readable(a)
    /\ file' = [file EXCEPT ![a] = NoFile]
    /\ UNCHANGED <<owner, known, meta, issued, op, told>>

Next ==
    \/ \E a \in Account, t \in Token : \E u \in Identities(t) :
          Replace(a, t, u)
    \/ ReplaceRefused
    \/ WriteEnvelope \/ WriteFails \/ SaveToken \/ SaveFails
    \/ \E a \in Account : RemoveToken(a)
    \/ Unlink \/ UnlinkFails \/ Forget \/ ForgetFails
    \/ Die
    \/ \E a \in Account : CreateAccount(a) \/ RemoveAccount(a)
    \/ \E a \in Account : Expire(a) \/ Damage(a) \/ Discard(a)

Spec == Init /\ [][Next]_vars

-----------------------------------------------------------------------------
(* Correctness *)

Launchable == [a \in Account |-> Usable(a)]

\* A replacement that fails at any point, or is never finished, fails closed
\* (setup_tokens.go:66): whatever happens, an account can be launched with the
\* token that its user was told is stored, or with none, and no two accounts
\* with the same.
Promise == INSTANCE TokenStore WITH usable <- Launchable
FailsClosed == Promise!Spec

\* The UUID in the state is that of the token in the file, though the one is
\* looked up before the lock is taken and the other is written before the
\* state (setup_tokens.go:118): launches and duplicate checks rely on it.
IdentityIsItsToken ==
    \A a \in known : Usable(a) # NoToken /\ meta[a].uuid # Nobody
                     => meta[a].uuid = owner[Usable(a)]

\* Two accounts that can be launched never belong to the same user, as far as
\* upstream tells (setup_tokens.go:99), although the checks compare what
\* failed replacements and removals left.
UsersAreApart ==
    \A a, b \in known :
        a # b /\ Usable(a) # NoToken /\ Usable(b) # NoToken /\ meta[a].uuid # Nobody
        => meta[a].uuid # meta[b].uuid

-----------------------------------------------------------------------------
(* The inductive invariant behind these properties *)

\* What the token file of an account and its metadata say together.
Counts(a) == a \in known /\ HasToken(a) /\ meta[a].rev = file[a].rev

\* Nothing has a revision that was not issued yet, and no two accounts have
\* the same UUID.
RecordsInv ==
    /\ \A a \in Account : meta[a].rev <= issued /\ file[a].rev <= issued
    /\ \A a \in known : Counts(a) /\ meta[a].uuid # Nobody
                        => meta[a].uuid = owner[file[a].token]
    /\ \A a, b \in known : a # b /\ meta[a].uuid # Nobody
                           => meta[a].uuid # meta[b].uuid

\* What was checked under the lock still holds when the state is written, and
\* until then the new revision counts nowhere.
HolderInv ==
    /\ op.pc \in {"write", "save"} =>
          /\ op.token \in Token
          /\ op.rev = issued /\ op.rev # 0
          /\ op.uuid \in Identities(op.token)
          /\ \A b \in known \ {op.account} : HasToken(b) => file[b].token # op.token
          /\ UuidIsNew(op.account, op.uuid)
          /\ \A a \in Account : meta[a].rev < op.rev
    /\ op.pc = "save"  => file[op.account] =
          [kind |-> "token", token |-> op.token, rev |-> op.rev, expired |-> FALSE]
    /\ op.pc = "forget" => file[op.account] = NoFile

StoreInv == TypeOK /\ RecordsInv /\ HolderInv
=============================================================================
