------------------------------ MODULE Redactor ------------------------------
(***************************************************************************)
(* secretRedactingWriter (cmd/subswapper/main.go): what it makes of the    *)
(* bytes it is given, chunk by chunk, next to a definition of what the     *)
(* whole stream should become.                                             *)
(***************************************************************************)
EXTENDS Naturals, SequencesExt, FiniteSetsExt

Mark == "[REDACTED]"

\* The secret occurs in s at position i.
OccursAt(secret, s, i) ==
    /\ i + Len(secret) <= Len(s) + 1
    /\ SubSeq(s, i, i + Len(secret) - 1) = secret

\* Mutant: one character less than could be the beginning of a secret.
RetainedTooLittle(secret, s) ==
    Max({0} \cup {n \in 1..Min({Len(s), Len(secret) - 2}) :
                     SubSeq(s, Len(s) - n + 1, Len(s)) = SubSeq(secret, 1, n)})

\* longestSecretPrefixSuffix: how much of the end of s may be the beginning of
\* a secret.
Retained(secret, s) ==
    Max({0} \cup {n \in 1..Min({Len(s), Len(secret) - 1}) :
                     SubSeq(s, Len(s) - n + 1, Len(s)) = SubSeq(secret, 1, n)})

\* One turn of drain's loop with the bytes from i on pending; loop says what
\* the turns after it make of the bytes from a later position on.
Turn(secret, s, final, loop, i) ==
    LET hits == {j \in i..Len(s) : OccursAt(secret, s, j)}
        tail == SubSeq(s, i, Len(s))
        emit == Len(s) - Retained(secret, tail)
    IN IF hits # {}
       THEN LET j    == Min(hits)
                next == loop[j + Len(secret)]
            IN [out  |-> SubSeq(s, i, j - 1) \o <<Mark>> \o next.out,
                kept |-> next.kept]
       ELSE IF final
       THEN [out  |-> IF tail # <<>> /\ IsPrefix(tail, secret)
                      THEN <<Mark>> ELSE tail,
             kept |-> <<>>]
       ELSE [out  |-> SubSeq(s, i, emit),
             kept |-> SubSeq(s, emit + 1, Len(s))]

Turns(secret, s, final) ==
    LET loop[i \in 1..(Len(s) + 1)] == Turn(secret, s, final, loop, i)
    IN loop

\* drain(final): what is written of the pending bytes s, and what stays.
Drained(secret, s, final) == Turns(secret, s, final)[1]

\* The reference, for a stream that is known as a whole: from position i on, a
\* secret becomes a mark, and so does what may be the beginning of one at the
\* end of the stream; all else stays.
Scan(secret, s, rest, i) ==
    IF i > Len(s) THEN <<>>
    ELSE IF OccursAt(secret, s, i) THEN <<Mark>> \o rest[i + Len(secret)]
    ELSE IF IsPrefix(SubSeq(s, i, Len(s)), secret) THEN <<Mark>>
    ELSE <<s[i]>> \o rest[i + 1]

Redaction(secret, s) ==
    LET rest[i \in 1..(Len(s) + 1)] == Scan(secret, s, rest, i)
    IN rest

Redacted(secret, s) == Redaction(secret, s)[1]
=============================================================================
