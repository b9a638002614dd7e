------------------------------- MODULE Login -------------------------------
(***************************************************************************)
(* bambulab login (internal/cli/cli.go): it asks for an account and a      *)
(* password, then for a verification code if the server wants one, until   *)
(* the server returns a token, and saves that.  prompt reads standard      *)
(* input in a goroutine of its own so that a signal can end it; that       *)
(* goroutine cannot be stopped and switches the terminal's echo off and    *)
(* on.  --password-stdin reads it without one, and no signal ends that.    *)
(* main (cmd/bambulab/main.go) exits the process when login returns.       *)
(*                                                                         *)
(* What is typed is abstracted to whether it is blank.                     *)
(***************************************************************************)
EXTENDS CloudClient

VARIABLES
    pc,
    interactive, \* no password and no code came with the command
    tty,         \* whether standard input is a terminal
    account, password, code, \* the credential, as far as it is known
    asked,       \* what prompt asks for
    reader,      \* the goroutine that reads standard input
    echo,        \* the terminal's echo
    state,       \* echo as GetState saw it
    answer,      \* the server's answer, or LoginContext's own error
    done,        \* whether the context is done
    saved,       \* whether this login has saved credentials
    result,      \* what login returns
    granted,     \* history: the server's last answer grants a token
    inTime,      \* history: that answer came before any signal
    late         \* history: echo was switched off after login had returned

vars == <<pc, interactive, tty, account, password, code, asked, reader, echo, state, answer, done,
          saved, result, granted, inTime, late>>
credential == <<account, password, code>>
exchange   == <<answer, granted, inTime>>
terminal   == <<reader, echo, state, late>>

\* The types of the variables; login does nothing more once it has its result.
TypeOK ==
    /\ pc \in {"stdin", "prompt", "select", "request", "answered", "save", "ended", "exited"}
    /\ interactive \in BOOLEAN /\ tty \in BOOLEAN
    /\ account \in {"none", "blank", "given"}
    /\ password \in BOOLEAN /\ code \in BOOLEAN
    /\ asked \in {"account", "password", "code"}
    /\ reader \in {"none", "spawned", "reading", "blank", "value", "error"}
    /\ echo \in BOOLEAN /\ state \in BOOLEAN
    /\ answer \in {"none", "token", "verifyCode", "other", "error"}
    /\ done \in BOOLEAN
    /\ saved \in BOOLEAN
    /\ result \in {"none", "nil", "error", "context"}
    /\ granted \in BOOLEAN /\ inTime \in BOOLEAN
    /\ late \in BOOLEAN
    /\ pc \in {"stdin", "prompt", "request", "answered", "save"} => result = "none"

\* The account, the password and the code come from flags and the environment, where
\* a code leaves no use for a password, or the password is yet to be read from standard
\* input; an account given may be blank.
Init ==
    /\ interactive \in BOOLEAN
    /\ tty \in BOOLEAN
    /\ account \in {"none", "blank", "given"}
    /\ password \in BOOLEAN /\ code \in BOOLEAN
    /\ pc \in IF interactive THEN {"prompt"} ELSE {"stdin", "request"}
    /\ IF pc = "request" THEN password # code ELSE ~password /\ ~code
    /\ asked = IF account = "none" THEN "account" ELSE "password"
    /\ reader = "none"
    /\ echo = TRUE /\ state = TRUE
    /\ answer = "none"
    /\ done = FALSE
    /\ saved = FALSE
    /\ result = "none"
    /\ granted = FALSE /\ inTime = TRUE
    /\ late = FALSE

Return(r) == pc' = "ended" /\ result' = r

Ask(what) == pc' = "prompt" /\ asked' = what

-----------------------------------------------------------------------------
(* --password-stdin *)

\* All of standard input, read by login itself: a signal is noted and does not end the
\* wait.  An empty password is no reason to ask for one.
StdinRead ==
    /\ pc = "stdin"
    /\ password' \in BOOLEAN
    /\ pc' = "request"
    /\ UNCHANGED <<interactive, tty, account, code, asked, terminal, exchange, done, saved, result>>

\* The input cannot be read, or is too long.
StdinFails ==
    /\ pc = "stdin"
    /\ Return("error")
    /\ UNCHANGED <<interactive, tty, credential, asked, terminal, exchange, done, saved>>

-----------------------------------------------------------------------------
(* prompt *)

Secret == asked = "password" /\ tty

PromptCancelled ==
    /\ pc = "prompt"
    /\ done
    /\ Return("context")
    /\ UNCHANGED <<interactive, tty, credential, asked, terminal, exchange, done, saved>>

\* The label cannot be written.
PromptFails ==
    /\ pc = "prompt"
    /\ ~done
    /\ Return("error")
    /\ UNCHANGED <<interactive, tty, credential, asked, terminal, exchange, done, saved>>

\* The label is written, the terminal's state kept, the goroutine started.
PromptReads ==
    /\ pc = "prompt"
    /\ ~done
    /\ state' = IF Secret THEN echo ELSE state
    /\ reader' = "spawned"
    /\ pc' = "select"
    /\ UNCHANGED <<interactive, tty, credential, asked, echo, exchange, done, saved, result, late>>

\* ReadPassword switches the echo off; the goroutine may get there late.
ReaderStarts ==
    /\ pc # "exited"
    /\ reader = "spawned"
    /\ reader' = "reading"
    /\ echo' = IF Secret THEN FALSE ELSE echo
    /\ late' = (late \/ (Secret /\ pc = "ended"))
    /\ UNCHANGED <<pc, interactive, tty, credential, asked, state, exchange, done, saved, result>>

\* A line, or the end of the input; ReadPassword puts back what it found.
ReaderGets ==
    /\ pc # "exited"
    /\ reader = "reading"
    /\ reader' \in {"blank", "value", "error"}
    /\ echo' = IF Secret THEN TRUE ELSE echo
    /\ UNCHANGED <<pc, interactive, tty, credential, asked, state, exchange, done, saved, result, late>>

\* Mutant of SelectCancelled: the terminal is left as it is.
SelectCancelledUnrestored ==
    /\ pc = "select"
    /\ done
    /\ Return("context")
    /\ UNCHANGED <<interactive, tty, credential, asked, terminal, exchange, done, saved>>

\* Mutant of SelectCancelled: the question is put once more.
SelectCancelledAsksAgain ==
    /\ pc = "select"
    /\ done
    /\ echo' = IF Secret THEN state ELSE echo
    /\ Ask(asked)
    /\ UNCHANGED <<interactive, tty, credential, reader, state, exchange, done, saved, result, late>>

\* Mutant of SelectCancelled: only an answer ends the wait.
SelectCancelledNever == pc = "select" /\ done /\ UNCHANGED vars

SelectCancelled ==
    /\ pc = "select"
    /\ done
    /\ echo' = IF Secret THEN state ELSE echo
    /\ Return("context")
    /\ UNCHANGED <<interactive, tty, credential, asked, reader, state, exchange, done, saved, late>>

SelectError ==
    /\ pc = "select"
    /\ reader = "error"
    /\ reader' = "none"
    /\ Return("error")
    /\ UNCHANGED <<interactive, tty, credential, asked, echo, state, exchange, done, saved, late>>

\* A value is required.
SelectBlank ==
    /\ pc = "select"
    /\ reader = "blank"
    /\ reader' = "none"
    /\ Ask(asked)
    /\ UNCHANGED <<interactive, tty, credential, echo, state, exchange, done, saved, result, late>>

\* The account is followed by the password; the credential is complete with the
\* password or the code.
SelectValue ==
    /\ pc = "select"
    /\ reader = "value"
    /\ reader' = "none"
    /\ \/ /\ asked = "account"
          /\ account' = "given"
          /\ Ask("password")
          /\ UNCHANGED <<password, code>>
       \/ /\ asked = "password" /\ password' = TRUE
          /\ pc' = "request"
          /\ UNCHANGED <<account, code, asked>>
       \/ /\ asked = "code" /\ code' = TRUE
          /\ pc' = "request"
          /\ UNCHANGED <<account, password, asked>>
    /\ UNCHANGED <<interactive, tty, echo, state, exchange, done, saved, result, late>>

-----------------------------------------------------------------------------
(* LoginContext and the loop around it *)

Complete == account = "given" /\ (password # code)

\* LoginContext sends only a complete credential.
Rejected ==
    /\ pc = "request"
    /\ ~Complete
    /\ answer' = "error"
    /\ pc' = "answered"
    /\ UNCHANGED <<interactive, tty, credential, asked, terminal, done, saved, result, granted, inTime>>

ServerAnswers ==
    /\ pc = "request"
    /\ Complete
    /\ \E r \in Response :
           /\ answer' = do(r)
           /\ granted' = (r.status = "2xx" /\ ~r.envelope /\ r.body = "token")
    /\ inTime' = ~done
    /\ pc' = "answered"
    /\ UNCHANGED <<interactive, tty, credential, asked, terminal, done, saved, result>>

\* The URL is no good, the request does not get through or the response is too long.
RequestFails ==
    /\ pc = "request"
    /\ Complete
    /\ answer' = "error"
    /\ granted' = FALSE
    /\ pc' = "answered"
    /\ UNCHANGED <<interactive, tty, credential, asked, terminal, done, saved, result, inTime>>

\* The context is looked at first: a token that came too late is dropped.
AnswerTooLate ==
    /\ pc = "answered" /\ interactive
    /\ done
    /\ Return("context")
    /\ UNCHANGED <<interactive, tty, credential, asked, terminal, exchange, done, saved>>

TokenAnswered ==
    /\ pc = "answered"
    /\ interactive => ~done
    /\ answer = "token"
    /\ pc' = "save"
    /\ UNCHANGED <<interactive, tty, credential, asked, terminal, exchange, done, saved, result>>

CodeWanted ==
    /\ pc = "answered" /\ interactive
    /\ ~done
    /\ answer = "verifyCode"
    /\ password' = FALSE
    /\ Ask("code")
    /\ UNCHANGED <<interactive, tty, account, code, terminal, exchange, done, saved, result>>

\* The failure is shown and whatever was wrong asked for again; what was typed
\* before stays until it is replaced.
AskAgain ==
    /\ pc = "answered" /\ interactive
    /\ ~done
    /\ answer \in {"other", "error"}
    /\ Ask(IF code THEN "code" ELSE "account")
    /\ UNCHANGED <<interactive, tty, credential, terminal, exchange, done, saved, result>>

\* Without a user to ask, anything but a token is an error; with one, only a failure
\* that cannot be shown.
NotAnswered ==
    /\ pc = "answered"
    /\ answer # "token"
    /\ interactive => ~done /\ answer # "verifyCode"
    /\ Return("error")
    /\ UNCHANGED <<interactive, tty, credential, asked, terminal, exchange, done, saved>>

-----------------------------------------------------------------------------
(* saveLogin, and the end of the process *)

\* The credentials are saved; telling the user may still fail.
SaveSucceeds ==
    /\ pc = "save"
    /\ saved' = TRUE
    /\ \E r \in {"nil", "error"} : Return(r)
    /\ UNCHANGED <<interactive, tty, credential, asked, terminal, exchange, done>>

SaveFails ==
    /\ pc = "save"
    /\ Return("error")
    /\ UNCHANGED <<interactive, tty, credential, asked, terminal, exchange, done, saved>>

\* main exits, whatever the reader is doing.
Exit ==
    /\ pc = "ended"
    /\ pc' = "exited"
    /\ UNCHANGED <<interactive, tty, credential, asked, terminal, exchange, done, saved, result>>

\* SIGINT or SIGTERM.
ContextDone ==
    /\ ~done /\ pc \notin {"ended", "exited"}
    /\ done' = TRUE
    /\ UNCHANGED <<pc, interactive, tty, credential, asked, terminal, exchange, saved, result>>

StdinStep  == StdinRead \/ StdinFails
PromptStep == PromptCancelled \/ PromptFails \/ PromptReads
SelectStep == SelectCancelled \/ SelectError \/ SelectBlank \/ SelectValue
ReaderStep == ReaderStarts \/ ReaderGets
AnswerStep == AnswerTooLate \/ TokenAnswered \/ CodeWanted \/ AskAgain \/ NotAnswered
SaveStep   == SaveSucceeds \/ SaveFails

Next == \/ StdinStep \/ PromptStep \/ SelectStep \/ ReaderStep \/ Rejected \/ ServerAnswers \/ RequestFails
        \/ AnswerStep \/ SaveStep \/ Exit \/ ContextDone

Spec == Init /\ [][Next]_vars

\* The program runs and an HTTP request heeds its context.  Neither the user nor the
\* server need answer, and standard input need not end.
Fairness ==
    /\ WF_vars(PromptStep) /\ WF_vars(SelectStep) /\ WF_vars(Rejected)
    /\ WF_vars(done /\ RequestFails) /\ WF_vars(AnswerStep) /\ WF_vars(SaveStep) /\ WF_vars(Exit)

FairSpec == Spec /\ Fairness

-----------------------------------------------------------------------------
(* Properties *)

\* Standard input has one reader: a question is put only after the goroutine of the
\* last one has delivered, else the two would share what the user types.
OneReader == pc = "prompt" => reader = "none"

\* Credentials are saved only on a token the server has granted, in a response that
\* is no error in any of the ways the cloud has to report one; and an interactive login
\* drops a token that came only after the signal.
SavedIsGranted == saved => granted /\ (interactive => inTime)

\* The terminal echoes again when the process has ended, unless the goroutine
\* switched the echo off only after the cancelled login had returned.
EchoRestored == pc = "exited" /\ ~echo => late

\* A signal ends the login although the user and the server say nothing, but for one
\* that still reads its password from standard input, which heeds no context
\* (internal/cli/cli.go:606) while the signal no longer kills the process.
SignalEnds == done /\ pc # "stdin" ~> pc = "exited"
=============================================================================
