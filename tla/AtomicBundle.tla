---------------------------- MODULE AtomicBundle ----------------------------
(***************************************************************************)
(* What the file layer promises its callers.  A caller asks for a bundle   *)
(* of files to be written or removed together; the whole bundle takes      *)
(* effect in one step or none of it does, and the answer the caller gets   *)
(* says which.  A caller that dies gets no answer: its request has taken   *)
(* effect or it never will.                                                *)
(***************************************************************************)
CONSTANTS
    Target,     \* the managed files: live files, backups, the state file
    Content,    \* what a file may hold
    Absent,     \* the file does not exist
    Untouched   \* the request says nothing about the file

VARIABLES
    files,      \* what each file holds, as far as any lock holder can tell
    request,    \* the bundle being applied
    answer      \* what the last operation told its caller

vars == <<files, request, answer>>

FileState == Content \cup {Absent}
NoRequest == [t \in Target |-> Untouched]
Requests  == [Target -> FileState \cup {Untouched}] \ {NoRequest}

Updated(old, req) ==
    [t \in Target |-> IF req[t] = Untouched THEN old[t] ELSE req[t]]

Init ==
    /\ files \in [Target -> FileState]
    /\ request = NoRequest
    /\ answer = "none"

Begin ==
    /\ request = NoRequest
    /\ request' \in Requests
    /\ answer' = "none"
    /\ UNCHANGED files

Apply ==
    /\ request # NoRequest
    /\ files' = Updated(files, request)
    /\ request' = NoRequest
    /\ answer' = "ok"

Refuse ==
    /\ request # NoRequest
    /\ request' = NoRequest
    /\ answer' = "error"
    /\ UNCHANGED files

\* The caller died, or went away with its answer.
Forget ==
    /\ request' = NoRequest
    /\ answer' = "none"
    /\ UNCHANGED files

Next == Begin \/ Apply \/ Refuse \/ Forget

Spec == Init /\ [][Next]_vars
=============================================================================
