------------------------------- MODULE Launch -------------------------------
(***************************************************************************)
(* A Claude client launched for somebody who delegates a task to it: the   *)
(* delegate command (delegate.go, delegate_unix.go) runs "home run"        *)
(* (runClaudeWithSetupToken in main.go) in a process group of its own,     *)
(* which checks the login with a first run of the client, starts it, and   *)
(* forwards its output without the secret it was given.                    *)
(*                                                                         *)
(* Processes die, hang, and leave descendants that keep pipes open; the    *)
(* delegate has a deadline and may be interrupted.                         *)
(***************************************************************************)
EXTENDS Integers, Redactor

CONSTANTS
    Char,         \* what the client writes
    Token,        \* the account's setup token, of such characters
    ProxySecret,  \* what a client gets instead of it when the proxy runs
    MaxOutput     \* bound: characters written in a behaviour

ASSUME ConstantsAssumption ==
    /\ Mark \notin Char
    /\ Token \in Seq(Char) \ {<<>>}
    /\ ProxySecret \in Seq(Char) \ {<<>>}
    /\ MaxOutput \in Nat

VARIABLES
    delegate,  \* the delegating process
    runner,    \* "home run"
    client,    \* the wait status of the client, once it has ended
    alive,     \* the processes there are, besides the delegating one
    stray,     \* what a descendant of the client has kept
    fed,       \* the task has been written to the pipe it is read from
    written,   \* what the client and its descendant have written
    copied,    \* how much of it the runner has read
    pending,   \* memory of the runner: the writer's buffer
    out,       \* what was forwarded
    broken     \* writing to the destination fails

output == <<written, copied, pending, out, broken>>
vars == <<delegate, runner, client, alive, stray, fed, output>>

Process == {"runner", "probe", "client", "stray"}

\* Exit codes, and the one Go reports for a process a signal has ended.
Killed == -1
Exit   == {0, 1, 7, 124, 130, 137}
None   == 256

\* group: in the delegate's process group; task, pipe: holds the task's pipe,
\* or the client's output pipe.
Stray == [group : BOOLEAN, task : BOOLEAN, pipe : BOOLEAN]

TypeOK ==
    /\ delegate \in [pc : {"starting", "waiting", "killing", "returned"},
                     code : Exit \cup {None}]
    /\ runner \in [pc : {"none", "prepare", "auth", "start", "running",
                         "flushing", "ended"},
                   secret : {Token, ProxySecret}, copying : BOOLEAN,
                   code : Exit \cup {None, Killed}]
    /\ client \in Exit \cup {None, Killed}
    /\ alive \subseteq Process
    /\ stray \in Stray
    /\ fed \in BOOLEAN
    /\ written \in Seq(Char) /\ Len(written) <= MaxOutput
    /\ copied \in 0..Len(written)
    /\ pending \in Seq(Char)
    /\ out \in Seq(Char \cup {Mark})
    /\ broken \in BOOLEAN

Init ==
    /\ delegate = [pc |-> "starting", code |-> None]
    /\ runner = [pc |-> "none", secret |-> Token, copying |-> TRUE,
                 code |-> None]
    /\ client = None
    /\ alive = {}
    /\ stray = [group |-> TRUE, task |-> FALSE, pipe |-> FALSE]
    /\ fed = FALSE
    /\ written = <<>> /\ copied = 0 /\ pending = <<>> /\ out = <<>>
    /\ broken = FALSE

\* What a process ends with as its caller tells it (processExitCode).
ExitCode(status) == IF status >= 0 THEN status ELSE 137

Group == {x \in Process : x = "stray" => stray.group}

-----------------------------------------------------------------------------
(* The runner (runClaudeWithSetupToken) *)

\* The runner ends with an error or with its client.
Ends(code) ==
    /\ alive' = alive \ {"runner"}
    /\ runner' = [runner EXCEPT !.pc = "ended", !.code = code]

Runs(pc) == "runner" \in alive /\ runner.pc = pc

\* The token is loaded, the proxy asked for, the home prepared and the
\* environment built with the secret the client will hold; or one of these
\* fails.  A proxy that does not run is no failure.
Prepare ==
    /\ Runs("prepare")
    /\ \/ /\ \E secret \in {Token, ProxySecret} :
                runner' = [runner EXCEPT !.pc = "auth", !.secret = secret]
          /\ alive' = alive \cup {"probe"}
       \/ Ends(1)
    /\ UNCHANGED <<delegate, client, stray, fed, output>>

\* checkClaudeAuthentication: the first run tells that the login is usable, or
\* something else, or is killed at its timeout, without its descendants.
ProbeEnds ==
    /\ Runs("auth")
    /\ \/ /\ alive' = alive \ {"probe"}
          /\ runner' = [runner EXCEPT !.pc = "start"]
       \/ /\ alive' = alive \ {"probe", "runner"}
          /\ runner' = [runner EXCEPT !.pc = "ended", !.code = 1]
    /\ UNCHANGED <<delegate, client, stray, fed, output>>

StartClient ==
    /\ Runs("start")
    /\ \/ /\ alive' = alive \cup {"client"}
          /\ runner' = [runner EXCEPT !.pc = "running"]
       \/ Ends(1)
    /\ UNCHANGED <<delegate, client, stray, fed, output>>

\* The destination takes all of text, or some of it and then fails for good.
Forward(text) ==
    \/ /\ ~broken
       /\ out' = out \o text
       /\ UNCHANGED broken
    \/ /\ text # <<>>
       /\ broken' = TRUE
       /\ \E n \in 0..(IF broken THEN 0 ELSE Len(text) - 1) :
             out' = out \o SubSeq(text, 1, n)

\* io.Copy reads some of what is in the pipe and writes it to the redacting
\* writer (Write); it stops when that fails.
Copy ==
    /\ Runs("running")
    /\ runner.copying
    /\ \E n \in (copied + 1)..Len(written) :
          LET text == pending \o SubSeq(written, copied + 1, n)
              d    == Drained(runner.secret, text, FALSE)
          IN /\ Forward(d.out)
             /\ copied' = n
             /\ pending' = IF broken' THEN text ELSE d.kept
    /\ runner' = [runner EXCEPT !.copying = ~broken']
    /\ UNCHANGED <<delegate, client, alive, stray, fed, written>>

\* A process holds the writing end of the client's output.
Open == "client" \in alive \/ ("stray" \in alive /\ stray.pipe)

\* Mutant: the client is waited for, and not its output.
WaitForClient ==
    /\ Runs("running")
    /\ "client" \notin alive
    /\ runner' = [runner EXCEPT !.pc = "flushing"]
    /\ UNCHANGED <<delegate, client, alive, stray, fed, output>>

\* cmd.Run returns when the client has ended and all of its output is read,
\* or cannot be forwarded.  Nothing limits the wait for a descendant that
\* keeps the pipe.
Wait ==
    /\ Runs("running")
    /\ "client" \notin alive
    /\ runner.copying => ~Open /\ copied = Len(written)
    /\ runner' = [runner EXCEPT !.pc = "flushing"]
    /\ UNCHANGED <<delegate, client, alive, stray, fed, output>>

\* Mutant: an error of Flush is dropped.
FlushQuietly ==
    /\ Runs("flushing")
    /\ LET d == Drained(runner.secret, pending, TRUE) IN Forward(d.out)
    /\ Ends(ExitCode(client))
    /\ pending' = <<>>
    /\ UNCHANGED <<delegate, client, stray, fed, written, copied>>

\* Flush, and the end of the runner with the error of it or of cmd.Run: the
\* client's, or else that of the copying.
Flush ==
    /\ Runs("flushing")
    /\ LET d == Drained(runner.secret, pending, TRUE) IN Forward(d.out)
    /\ Ends(IF broken' THEN 1 ELSE ExitCode(client))
    /\ pending' = <<>>
    /\ UNCHANGED <<delegate, client, stray, fed, written, copied>>

-----------------------------------------------------------------------------
(* The client, its descendant and the system *)

ReadTask ==
    /\ "client" \in alive
    /\ ~fed
    /\ fed' = TRUE
    /\ UNCHANGED <<delegate, runner, client, alive, stray, output>>

\* A write to a pipe nobody reads ends the writer; the model leaves it out.
Write ==
    /\ Open
    /\ "runner" \in alive /\ runner.copying
    /\ Len(written) < MaxOutput
    /\ \E c \in Char : written' = Append(written, c)
    /\ UNCHANGED <<delegate, runner, client, alive, stray, fed, copied,
                   pending, out, broken>>

\* A descendant that goes on without its parent, with its pipes or not, in
\* its process group or in one of its own.
Fork ==
    /\ alive \cap {"probe", "client"} # {}
    /\ "stray" \notin alive
    /\ alive' = alive \cup {"stray"}
    /\ stray' \in {s \in Stray : "probe" \in alive => ~s.task /\ ~s.pipe}
    /\ UNCHANGED <<delegate, runner, client, fed, output>>

StrayEnds ==
    /\ "stray" \in alive
    /\ alive' = alive \ {"stray"}
    /\ UNCHANGED <<delegate, runner, client, stray, fed, output>>

ClientEnds ==
    /\ "client" \in alive
    /\ alive' = alive \ {"client"}
    /\ client' \in {0, 7, Killed}
    /\ UNCHANGED <<delegate, runner, stray, fed, output>>

\* The system kills the runner, and nothing else.
RunnerDies ==
    /\ "runner" \in alive
    /\ Ends(Killed)
    /\ UNCHANGED <<delegate, client, stray, fed, output>>

-----------------------------------------------------------------------------
(* The delegate (executeDelegate) *)

Start ==
    /\ delegate.pc = "starting"
    /\ \/ /\ delegate' = [delegate EXCEPT !.pc = "waiting"]
          /\ runner' = [runner EXCEPT !.pc = "prepare"]
          /\ alive' = {"runner"}
       \/ /\ delegate' = [pc |-> "returned", code |-> 1]
          /\ UNCHANGED <<runner, alive>>
    /\ UNCHANGED <<client, stray, fed, output>>

\* kill: the runner and whoever is left of its group.
Kill ==
    /\ alive' = alive \ Group
    /\ runner' = IF "runner" \in alive
                 THEN [runner EXCEPT !.pc = "ended", !.code = Killed]
                 ELSE runner
    /\ client' = IF "client" \in alive THEN Killed ELSE client

\* Somebody still holds the pipe of a task that is not written.
Clogged == ~fed /\ ("client" \in alive \/ ("stray" \in alive /\ stray.task))

\* Mutant: without a WaitDelay.
ReapedUnclogged == "runner" \notin alive /\ ~Clogged

\* cmd.Wait has reaped the runner, and the task was written, cannot be
\* written, or WaitDelay has passed.
Reaped == "runner" \notin alive

\* What it returns: ErrWaitDelay only when all else is well.
Result == IF Clogged /\ runner.code = 0 THEN 1 ELSE ExitCode(runner.code)

\* Mutant: only a deadline and a signal kill the group.
LeaveBehind ==
    /\ delegate.pc = "waiting"
    /\ Reaped
    /\ delegate' = [pc |-> "returned", code |-> Result]
    /\ UNCHANGED <<runner, client, alive, stray, fed, output>>

\* The runner has ended first; the deferred kill ends what it left.
Done ==
    /\ delegate.pc = "waiting"
    /\ Reaped
    /\ delegate' = [pc |-> "returned", code |-> Result]
    /\ Kill
    /\ UNCHANGED <<stray, fed, output>>

\* The deadline passes, or a signal comes.
Stop(code) ==
    /\ delegate.pc = "waiting"
    /\ delegate' = [pc |-> "killing", code |-> code]
    /\ Kill
    /\ UNCHANGED <<stray, fed, output>>

TimeOut == Stop(124)
Cancel  == Stop(130)

\* "<-done"
Return ==
    /\ delegate.pc = "killing"
    /\ Reaped
    /\ delegate' = [delegate EXCEPT !.pc = "returned"]
    /\ Kill
    /\ UNCHANGED <<stray, fed, output>>

Next ==
    \/ Prepare \/ ProbeEnds \/ StartClient \/ Copy \/ Wait \/ Flush
    \/ ReadTask \/ Write \/ Fork \/ StrayEnds \/ ClientEnds \/ RunnerDies
    \/ Start \/ Done \/ TimeOut \/ Cancel \/ Return

Spec == Init /\ [][Next]_vars

\* Processes are started, time passes, and the system delivers SIGKILL.  The
\* client and its descendant may hang for ever.
FairSpec == Spec /\ WF_vars(Start) /\ WF_vars(TimeOut) /\ WF_vars(Return)

-----------------------------------------------------------------------------
(* Correctness *)

\* "Forced termination also covers children that ignore INT and TERM"
\* (delegate_unix.go:31): when the delegate returns, however that came about,
\* no process of its group is left.
NoneIsLeftBehind ==
    delegate.pc = "returned" => alive \cap Group = {}

\* A delegate that reports success has forwarded everything its client wrote,
\* and the client has succeeded.
SuccessIsComplete ==
    delegate.code = 0 =>
        client = 0 /\ out = Redacted(runner.secret, written)

\* However the output is cut into chunks, and wherever forwarding stops, what
\* was forwarded is the beginning of what the whole output should become, and
\* so contains no secret (main.go:585).
OutputIsRedacted ==
    IsPrefix(out, Redacted(runner.secret, written))

\* Who is there, by how far the delegate and the runner are: nobody before the
\* start, and nobody of the group once the delegate has killed it.
ProcessInv ==
    /\ delegate.pc = "starting" => alive = {} /\ runner.pc = "none"
    /\ delegate.pc \in {"killing", "returned"} => alive \cap Group = {}
    /\ "runner" \in alive <=> runner.pc \notin {"none", "ended"}
    /\ "probe" \in alive => runner.pc \in {"auth", "ended"}
    /\ "client" \in alive => runner.pc \in {"running", "ended"}

\* Nothing is written before the client runs, and when the runner flushes all
\* is read and nobody is left who could write more.
PipeInv ==
    /\ runner.pc \in {"none", "prepare", "auth", "start"} =>
           /\ written = <<>> /\ pending = <<>> /\ out = <<>>
           /\ ~broken /\ ~stray.pipe
    /\ runner.pc # "ended" => (runner.copying <=> ~broken)
    /\ runner.pc = "flushing" /\ ~broken => ~Open /\ copied = Len(written)

\* What was forwarded and what is kept back make up what was read, whatever
\* comes after it; and what is kept back is no whole secret.
StreamInv ==
    runner.pc # "ended" /\ ~broken =>
        /\ IsStrictPrefix(pending, runner.secret)
        /\ \A rest \in SeqOf(Char, MaxOutput - copied) :
               Redacted(runner.secret, SubSeq(written, 1, copied) \o rest)
                   = out \o Redacted(runner.secret, pending \o rest)

\* A success, reported or about to be, is the client's, and complete.
SuccessInv ==
    /\ runner.code = 0 =>
           /\ runner.pc = "ended" /\ "client" \notin alive
           /\ client = 0 /\ out = Redacted(runner.secret, written)
    /\ delegate.code = 0 => runner.code = 0

\* All of it: an invariant that every step keeps.
LaunchInv ==
    /\ TypeOK
    /\ ProcessInv
    /\ PipeInv
    /\ StreamInv
    /\ SuccessInv
    /\ OutputIsRedacted

\* "A descendant retaining an output pipe must not block Wait forever"
\* (delegate_unix.go:22): the delegate returns, whoever hangs.
DelegateReturns == <>(delegate.pc = "returned")
=============================================================================
