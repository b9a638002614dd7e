----------------------------- MODULE FtpSession -----------------------------
(***************************************************************************)
(* One implicit-FTPS session (bambulab/files.go): session dials the        *)
(* control connection, logs in, runs one operation, which may dial a data  *)
(* connection, and quits.  The FTP library knows nothing of contexts, so   *)
(* session bounds it by closing the sockets it has handed out: in a        *)
(* goroutine of its own once the context is done, and again on return.     *)
(*                                                                         *)
(* The library's calls are modelled by the I/O they wait for; a read or a  *)
(* write may fail at any time, which covers the sockets' own deadline.     *)
(***************************************************************************)
CONSTANTS
    Control, Data,   \* the two connections of a session
    Main, Cleaner,   \* the goroutine of session, the one context.AfterFunc starts
    Nobody           \* the free mutex

ASSUME SessionAssumption ==
    /\ Control # Data /\ Main # Cleaner /\ Nobody \notin {Main, Cleaner}

Conns == {Control, Data}

VARIABLES
    pc,        \* where session stands
    transfers, \* whether the operation needs a data connection
    conn,      \* the connections
    target,    \* the connection being dialed
    mu,        \* holder of mu
    sockets,   \* sockets: the connections handed out
    done,      \* whether the context is done
    hook,      \* the function registered with context.AfterFunc
    err,       \* session's err is not nil
    result,    \* what session returns
    performed  \* history: how far the operation got on the printer

vars == <<pc, transfers, conn, target, mu, sockets, done, hook, err, result, performed>>

\* The types of the variables; session holds the mutex exactly while it checks the
\* context and hands out the connection.
TypeOK ==
    /\ pc \in {"dial", "lock", "check", "append", "greeting", "login", "passive", "command",
               "transfer", "reply", "quit", "result", "cleanup", "stop", "ended"}
    /\ transfers \in BOOLEAN
    /\ conn \in [Conns -> {"none", "open", "closed"}]
    /\ target \in Conns
    /\ mu \in {Main, Cleaner, Nobody}
    /\ sockets \in SUBSET Conns
    /\ done \in BOOLEAN
    /\ hook \in {"armed", "started", "closing", "finished", "stopped"}
    /\ err \in BOOLEAN
    /\ result \in {"none", "nil", "error", "context"}
    /\ performed \in {"no", "broken", "whole"}
    /\ mu = Main <=> pc \in {"check", "append"}
    /\ mu = Cleaner <=> hook = "closing"

\* The caller's context may be done already.
Init ==
    /\ pc = "dial"
    /\ transfers \in BOOLEAN
    /\ conn = [c \in Conns |-> "none"]
    /\ target = Control
    /\ mu = Nobody
    /\ sockets = {}
    /\ done \in BOOLEAN
    /\ hook = "armed"
    /\ err = FALSE
    /\ result = "none"
    /\ performed = "no"

-----------------------------------------------------------------------------
(* The context and cleanup *)

\* The caller cancels or the timeout passes.
ContextDone ==
    /\ ~done /\ pc # "ended"
    /\ done' = TRUE
    /\ UNCHANGED <<pc, transfers, conn, target, mu, sockets, hook, err, result, performed>>

HookStarts ==
    /\ hook = "armed" /\ done
    /\ hook' = "started"
    /\ UNCHANGED <<pc, transfers, conn, target, mu, sockets, done, err, result, performed>>

HookLocks ==
    /\ hook = "started"
    /\ mu = Nobody
    /\ mu' = Cleaner
    /\ hook' = "closing"
    /\ UNCHANGED <<pc, transfers, conn, target, sockets, done, err, result, performed>>

CloseSockets == conn' = [c \in Conns |-> IF c \in sockets THEN "closed" ELSE conn[c]]

HookCloses ==
    /\ hook = "closing"
    /\ CloseSockets
    /\ mu' = Nobody
    /\ hook' = "finished"
    /\ UNCHANGED <<pc, transfers, target, sockets, done, err, result, performed>>

-----------------------------------------------------------------------------
(* dial, which the library calls for either connection *)

\* The library gives up: a session without control connection is over, an
\* operation without data connection has failed.
DialGivesUp == pc' = IF target = Control THEN "result" ELSE "quit"

Connected ==
    /\ pc = "dial"
    /\ conn' = [conn EXCEPT ![target] = "open"]
    /\ pc' = "lock"
    /\ UNCHANGED <<transfers, target, mu, sockets, done, hook, err, result, performed>>

\* Mutant of DialFails: net.Dial instead of DialContext.
DialHangs ==
    /\ pc = "dial"
    /\ ~done
    /\ err' = TRUE
    /\ DialGivesUp
    /\ UNCHANGED <<transfers, conn, target, mu, sockets, done, hook, result, performed>>

\* Refused, no address to dial, or the context is done.
DialFails ==
    /\ pc = "dial"
    /\ err' = TRUE
    /\ DialGivesUp
    /\ UNCHANGED <<transfers, conn, target, mu, sockets, done, hook, result, performed>>

Lock ==
    /\ pc = "lock"
    /\ mu = Nobody
    /\ mu' = Main
    /\ pc' = "check"
    /\ UNCHANGED <<transfers, conn, target, sockets, done, hook, err, result, performed>>

\* Mutant of StillLive: the context is not looked at.
AlwaysLive ==
    /\ pc = "check"
    /\ pc' = "append"
    /\ UNCHANGED <<transfers, conn, target, mu, sockets, done, hook, err, result, performed>>

StillLive ==
    /\ pc = "check"
    /\ ~done
    /\ pc' = "append"
    /\ UNCHANGED <<transfers, conn, target, mu, sockets, done, hook, err, result, performed>>

\* Mutant of TooLate: the connection just made is not closed.
TooLateLeaks ==
    /\ pc = "check"
    /\ done
    /\ mu' = Nobody
    /\ err' = TRUE
    /\ DialGivesUp
    /\ UNCHANGED <<transfers, conn, target, sockets, done, hook, result, performed>>

\* Connected while the context ended: the clean-up may have come and gone.
TooLate ==
    /\ pc = "check"
    /\ done
    /\ mu' = Nobody
    /\ conn' = [conn EXCEPT ![target] = "closed"]
    /\ err' = TRUE
    /\ DialGivesUp
    /\ UNCHANGED <<transfers, target, sockets, done, hook, result, performed>>

Append ==
    /\ pc = "append"
    /\ sockets' = sockets \cup {target}
    /\ mu' = Nobody
    /\ pc' = IF target = Control THEN "greeting" ELSE "command"
    /\ UNCHANGED <<transfers, conn, target, done, hook, err, result, performed>>

-----------------------------------------------------------------------------
(* The library: the replies and the transfer it waits for *)

WaitsOn == IF pc = "transfer" THEN Data ELSE Control

Waiting == pc \in {"greeting", "login", "passive", "command", "transfer", "reply"}

\* Greeting, login, then a transfer or a single command.
Proceed ==
    CASE pc = "greeting" -> "login"
      [] pc = "login"    -> IF transfers THEN "passive" ELSE "command"
      [] pc = "passive"  -> "dial"
      [] pc = "command"  -> IF transfers THEN "transfer" ELSE "quit"
      [] pc = "transfer" -> "reply"
      [] pc = "reply"    -> "quit"

\* The printer answers as the library expects; the data connection is closed after
\* the transfer, whose outcome the last reply tells.
Answered ==
    /\ Waiting
    /\ conn[WaitsOn] = "open"
    /\ pc' = Proceed
    /\ target' = IF pc = "passive" THEN Data ELSE target
    /\ conn' = IF pc = "transfer" THEN [conn EXCEPT ![Data] = "closed"] ELSE conn
    /\ performed' = IF Proceed = "quit" /\ performed = "no" THEN "whole" ELSE performed
    /\ UNCHANGED <<transfers, mu, sockets, done, hook, err, result>>

\* Mutant of IOFails: Download drops the error of io.Copy.
IOFailsSilently ==
    /\ Waiting
    /\ err' = (err \/ pc # "transfer")
    /\ pc' = CASE pc = "greeting" -> "result"
               [] pc = "transfer" -> "reply"
               [] OTHER           -> "quit"
    /\ conn' = IF conn[Data] = "open" THEN [conn EXCEPT ![Data] = "closed"] ELSE conn
    /\ performed' = "broken"
    /\ UNCHANGED <<transfers, target, mu, sockets, done, hook, result>>

\* An unexpected reply, a failed or interrupted read or write.  After a broken
\* transfer the library still waits for the last reply; the data connection of a
\* refused command is closed.
IOFails ==
    /\ Waiting
    /\ err' = TRUE
    /\ pc' = CASE pc = "greeting" -> "result"
               [] pc = "transfer" -> "reply"
               [] OTHER           -> "quit"
    /\ conn' = IF conn[Data] = "open" THEN [conn EXCEPT ![Data] = "closed"] ELSE conn
    /\ performed' = "broken"
    /\ UNCHANGED <<transfers, target, mu, sockets, done, hook, result>>

\* Quit says goodbye without waiting for an answer and closes its connection.
Quit ==
    /\ pc = "quit"
    /\ \E quitErr \in {TRUE} \cup (IF conn[Control] = "open" THEN {FALSE} ELSE {}) :
           err' = (err \/ quitErr)
    /\ conn' = [conn EXCEPT ![Control] = "closed"]
    /\ pc' = "result"
    /\ UNCHANGED <<transfers, target, mu, sockets, done, hook, result, performed>>

-----------------------------------------------------------------------------
(* The return of session and its deferred calls *)

Result ==
    /\ pc = "result"
    /\ result' = IF done THEN "context" ELSE IF err THEN "error" ELSE "nil"
    /\ pc' = "cleanup"
    /\ UNCHANGED <<transfers, conn, target, mu, sockets, done, hook, err, performed>>

\* The deferred cleanup.
Cleanup ==
    /\ pc = "cleanup"
    /\ mu = Nobody
    /\ CloseSockets
    /\ pc' = "stop"
    /\ UNCHANGED <<transfers, target, mu, sockets, done, hook, err, result, performed>>

\* stop, which does not wait for a hook that has started, then cancel.
Stop ==
    /\ pc = "stop"
    /\ hook' = IF hook = "armed" THEN "stopped" ELSE hook
    /\ done' = TRUE
    /\ pc' = "ended"
    /\ UNCHANGED <<transfers, conn, target, mu, sockets, err, result, performed>>

DialStep    == Connected \/ DialFails \/ Lock \/ StillLive \/ TooLate \/ Append
LibraryStep == Answered \/ IOFails \/ Quit
ReturnStep  == Result \/ Cleanup \/ Stop
HookStep    == HookStarts \/ HookLocks \/ HookCloses

Next == DialStep \/ LibraryStep \/ ReturnStep \/ HookStep \/ ContextDone

Spec == Init /\ [][Next]_vars

\* Goroutines run, the timeout passes, DialContext heeds its context and I/O on a
\* closed connection fails.  The printer need not answer.
Fairness ==
    /\ WF_vars(done /\ DialFails) /\ SF_vars(Lock) /\ WF_vars(StillLive \/ TooLate \/ Append)
    /\ WF_vars(conn[WaitsOn] # "open" /\ IOFails) /\ WF_vars(Quit)
    /\ WF_vars(Result) /\ SF_vars(Cleanup) /\ WF_vars(Stop)
    /\ WF_vars(HookStarts) /\ SF_vars(HookLocks) /\ WF_vars(HookCloses)
    /\ WF_vars(ContextDone)

FairSpec == Spec /\ Fairness

-----------------------------------------------------------------------------
(* Properties *)

\* The clean-up that follows cancellation is final: once it has run, the library
\* holds no open connection, and is given none, to wait for a silent printer on.
CleanupIsFinal == hook = "finished" => \A c \in sockets : conn[c] # "open"

\* No connection outlives its session, one that was made too late included.
NothingLeftOpen == pc = "ended" => \A c \in Conns : conn[c] # "open"

\* Success is reported only for an operation the printer has confirmed, with every
\* byte of a download written and no error on the way out.
NilMeansPerformed == result = "nil" => performed = "whole"

\* A session ends, however silent the printer.
SessionEnds == <>(pc = "ended")
=============================================================================
