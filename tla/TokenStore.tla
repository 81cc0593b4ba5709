----------------------------- MODULE TokenStore -----------------------------
(***************************************************************************)
(* What storing a Claude setup token promises ("a partial failure fails    *)
(* closed", setup_tokens.go:66): an account can be launched with the token *)
(* its user was told is stored, or with none.  A replacement that fails    *)
(* may cost the old token, and may have stored the new one, but no token   *)
(* comes back, moves, or is held by two accounts.                          *)
(***************************************************************************)
CONSTANTS Account, Token, NoToken

VARIABLES
    usable,  \* the token each account would be launched with
    told     \* what the last command told its user

Init ==
    /\ usable = [a \in Account |-> NoToken]
    /\ told = "nothing"

\* A command begins.
Ask == told' = "nothing" /\ UNCHANGED usable

\* The token of an account is lost: half replaced, damaged or expired.
Lose(a) ==
    /\ usable' = [usable EXCEPT ![a] = NoToken]
    /\ UNCHANGED told

Free(t) == \A a \in Account : usable[a] # t

Store(a, t) ==
    /\ Free(t)
    /\ usable' = [usable EXCEPT ![a] = t]
    /\ told' = "stored"

StoreFails(a, t) ==
    /\ Free(t)
    /\ usable' = [usable EXCEPT ![a] = t]
    /\ told' = "failed"

Remove(a) ==
    /\ usable' = [usable EXCEPT ![a] = NoToken]
    /\ told' = "removed"

\* A command is refused, or fails without effect.
Refuse == told' = "failed" /\ UNCHANGED usable

\* A command fails, and the token is lost.
Fail(a) ==
    /\ usable' = [usable EXCEPT ![a] = NoToken]
    /\ told' = "failed"

Next ==
    \/ Ask \/ Refuse
    \/ \E a \in Account : Lose(a) \/ Remove(a) \/ Fail(a)
    \/ \E a \in Account, t \in Token : Store(a, t) \/ StoreFails(a, t)

Spec == Init /\ [][Next]_<<usable, told>>
=============================================================================
