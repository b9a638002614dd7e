------------------------------- MODULE Camera -------------------------------
(***************************************************************************)
(* The A1/P1 camera stream (bambulab/camera.go): DialCamera sends the      *)
(* authentication packet, after which ReadFrame reads one JPEG after the   *)
(* other.  Both bound their I/O by a context through connectionContext     *)
(* (bambulab/tls.go): a deadline on the connection plus a hook, in a       *)
(* goroutine of its own, that sets the deadline to now on cancellation.    *)
(*                                                                         *)
(* The bytes of the stream are abstracted to where in a frame it stands.   *)
(***************************************************************************)
CONSTANTS
    Readers,  \* goroutines that call ReadFrame
    Dialer,   \* the goroutine that calls DialCamera
    NoOne     \* nobody: the free mutex, a connection without a deadline

ASSUME CameraAssumption == Dialer \notin Readers /\ NoOne \notin Readers \cup {Dialer}

Users == Readers \cup {Dialer}

VARIABLES
    mu,       \* holder of c.mu
    conn,     \* the connection
    setter,   \* who has set the connection's deadline
    past,     \* whether that deadline has passed
    stream,   \* where the bytes read so far end
    pc,
    done,     \* whether a call's context is done
    hook,     \* a call's cancellation hook
    failed    \* whether the dial has failed

vars == <<mu, conn, setter, past, stream, pc, done, hook, failed>>

\* The types of the variables; the dialer never holds the mutex.
TypeOK ==
    /\ mu \in Readers \cup {NoOne}
    /\ conn \in {"none", "open", "closed"}
    /\ setter \in Users \cup {NoOne}
    /\ past \in BOOLEAN
    /\ stream \in {"boundary", "header", "body"}
    /\ pc \in [Users -> {"idle", "lock", "check", "dial", "arm", "io", "close", "cleanup", "clear",
                         "finish", "end"}]
    /\ done \in [Users -> BOOLEAN]
    /\ hook \in [Users -> {"none", "armed", "running", "finished"}]
    /\ failed \in BOOLEAN
    /\ mu # NoOne => pc[mu] \notin {"idle", "lock"}

Init ==
    /\ mu = NoOne
    /\ conn = "none"
    /\ setter = NoOne
    /\ past = FALSE
    /\ stream = "boundary"
    /\ pc = [u \in Users |-> IF u = Dialer THEN "dial" ELSE "idle"]
    /\ done = [u \in Users |-> FALSE]
    /\ hook = [u \in Users |-> "none"]
    /\ failed = FALSE

Goto(u, label) == pc' = [pc EXCEPT ![u] = label]

-----------------------------------------------------------------------------
(* connectionContext *)

\* The deadline is set and the hook armed.
Arm(u) ==
    /\ pc[u] = "arm"
    /\ setter' = u
    /\ past' = FALSE
    /\ hook' = [hook EXCEPT ![u] = "armed"]
    /\ Goto(u, "io")
    /\ UNCHANGED <<mu, conn, stream, done, failed>>

\* context.AfterFunc starts the hook in its own goroutine once the context is done.
HookStarts(u) ==
    /\ hook[u] = "armed"
    /\ done[u]
    /\ hook' = [hook EXCEPT ![u] = "running"]
    /\ UNCHANGED <<mu, conn, setter, past, stream, pc, done, failed>>

\* Mutant of HookInterrupts: the hook does not touch the connection.
HookIdles(u) ==
    /\ hook[u] = "running"
    /\ hook' = [hook EXCEPT ![u] = "finished"]
    /\ UNCHANGED <<mu, conn, setter, past, stream, pc, done, failed>>

\* conn.SetDeadline(time.Now()), close(finished)
HookInterrupts(u) ==
    /\ hook[u] = "running"
    /\ setter' = u
    /\ past' = TRUE
    /\ hook' = [hook EXCEPT ![u] = "finished"]
    /\ UNCHANGED <<mu, conn, stream, pc, done, failed>>

\* Mutant of Stop: a hook that has started is not waited for.
StopNoWait(u) ==
    /\ pc[u] = "cleanup"
    /\ hook' = [hook EXCEPT ![u] = IF @ = "armed" THEN "none" ELSE @]
    /\ Goto(u, "clear")
    /\ UNCHANGED <<mu, conn, setter, past, stream, done, failed>>

\* The clean-up stops the hook, or waits until it has finished.
Stop(u) ==
    /\ pc[u] = "cleanup"
    /\ hook[u] \in {"armed", "finished"}
    /\ hook' = [hook EXCEPT ![u] = "none"]
    /\ Goto(u, "clear")
    /\ UNCHANGED <<mu, conn, setter, past, stream, done, failed>>

\* Then it clears the deadline.  ReadFrame's locals, its context and the mutex go
\* with the call; DialCamera goes on.
ClearDeadline(u) ==
    /\ pc[u] = "clear"
    /\ setter' = NoOne
    /\ past' = FALSE
    /\ IF u = Dialer
       THEN Goto(u, "finish") /\ UNCHANGED <<mu, done>>
       ELSE /\ Goto(u, "idle")
            /\ mu' = NoOne
            /\ done' = [done EXCEPT ![u] = FALSE]
    /\ UNCHANGED <<conn, stream, hook, failed>>

-----------------------------------------------------------------------------
(* DialCamera *)

DialConnects ==
    /\ pc[Dialer] = "dial"
    /\ conn' = "open"
    /\ Goto(Dialer, "arm")
    /\ UNCHANGED <<mu, setter, past, stream, done, hook, failed>>

\* A refused configuration, a connect or handshake that fails or lasts too long.
DialFails ==
    /\ pc[Dialer] = "dial"
    /\ failed' = TRUE
    /\ Goto(Dialer, "end")
    /\ UNCHANGED <<mu, conn, setter, past, stream, done, hook>>

AuthWritten ==
    /\ pc[Dialer] = "io"
    /\ ~past /\ conn = "open"
    /\ Goto(Dialer, "cleanup")
    /\ UNCHANGED <<mu, conn, setter, past, stream, done, hook, failed>>

\* The network, or the deadline: the connection is closed after the clean-up.
AuthFails ==
    /\ pc[Dialer] = "io"
    /\ failed' = TRUE
    /\ Goto(Dialer, "cleanup")
    /\ UNCHANGED <<mu, conn, setter, past, stream, done, hook>>

DialReturns ==
    /\ pc[Dialer] = "finish"
    /\ conn' = IF failed THEN "closed" ELSE conn
    /\ Goto(Dialer, "end")
    /\ UNCHANGED <<mu, setter, past, stream, done, hook, failed>>

\* There is a Camera to read from or to close.
Dialed == pc[Dialer] = "end" /\ ~failed

-----------------------------------------------------------------------------
(* ReadFrame and Close *)

ReadFrame(r) ==
    /\ Dialed
    /\ pc[r] = "idle"
    /\ Goto(r, "lock")
    /\ UNCHANGED <<mu, conn, setter, past, stream, done, hook, failed>>

Lock(r) ==
    /\ pc[r] = "lock"
    /\ mu = NoOne
    /\ mu' = r
    /\ Goto(r, "check")
    /\ UNCHANGED <<conn, setter, past, stream, done, hook, failed>>

\* A context that is done by now: nothing is read, the stream stays open.
AlreadyDone(r) ==
    /\ pc[r] = "check"
    /\ done[r]
    /\ mu' = NoOne
    /\ done' = [done EXCEPT ![r] = FALSE]
    /\ Goto(r, "idle")
    /\ UNCHANGED <<conn, setter, past, stream, hook, failed>>

NotDone(r) ==
    /\ pc[r] = "check"
    /\ ~done[r]
    /\ Goto(r, "arm")
    /\ UNCHANGED <<mu, conn, setter, past, stream, done, hook, failed>>

\* Bytes arrive: the header, of a sensible size, then the first part of a frame.
ReadPart(r) ==
    /\ pc[r] = "io"
    /\ ~past /\ conn = "open"
    /\ \/ stream = "boundary" /\ stream' = "header"
       \/ stream = "header" /\ stream' = "body"
    /\ UNCHANGED <<mu, conn, setter, past, pc, done, hook, failed>>

ReadWhole(r) ==
    /\ pc[r] = "io"
    /\ ~past /\ conn = "open"
    /\ stream = "body"
    /\ stream' = "boundary"
    /\ Goto(r, "cleanup")
    /\ UNCHANGED <<mu, conn, setter, past, done, hook, failed>>

\* Mutant of ReadFails: the stream is left open.
ReadFailsOpen(r) ==
    /\ pc[r] = "io"
    /\ Goto(r, "cleanup")
    /\ UNCHANGED <<mu, conn, setter, past, stream, done, hook, failed>>

\* A wrong size, data that is no JPEG, a deadline, a closed or broken connection.
ReadFails(r) ==
    /\ pc[r] = "io"
    /\ Goto(r, "close")
    /\ UNCHANGED <<mu, conn, setter, past, stream, done, hook, failed>>

ReadCloses(r) ==
    /\ pc[r] = "close"
    /\ conn' = "closed"
    /\ Goto(r, "cleanup")
    /\ UNCHANGED <<mu, setter, past, stream, done, hook, failed>>

\* Any goroutine may close the Camera at any time.
Close ==
    /\ Dialed
    /\ conn = "open"
    /\ conn' = "closed"
    /\ UNCHANGED <<mu, setter, past, stream, pc, done, hook, failed>>

-----------------------------------------------------------------------------
(* Contexts and time *)

\* The caller cancels, or the timeout's timer fires.
ContextDone(u) ==
    /\ pc[u] \notin {"idle", "finish", "end"}
    /\ ~done[u]
    /\ done' = [done EXCEPT ![u] = TRUE]
    /\ UNCHANGED <<mu, conn, setter, past, stream, pc, hook, failed>>

\* The deadline on the connection passes, before or after the context's timer.
DeadlinePasses ==
    /\ setter # NoOne
    /\ ~past
    /\ past' = TRUE
    /\ UNCHANGED <<mu, conn, setter, stream, pc, done, hook, failed>>

Interrupted == past \/ conn = "closed"

DialStep == DialConnects \/ DialFails \/ AuthWritten \/ AuthFails \/ DialReturns

ReaderStep(r) ==
    \/ AlreadyDone(r) \/ NotDone(r) \/ ReadCloses(r)

Next ==
    \/ \E u \in Users : \/ Arm(u) \/ HookStarts(u) \/ HookInterrupts(u) \/ Stop(u)
                        \/ ClearDeadline(u) \/ ContextDone(u)
    \/ DialStep
    \/ \E r \in Readers : \/ ReadFrame(r) \/ Lock(r) \/ ReaderStep(r)
                          \/ ReadPart(r) \/ ReadWhole(r) \/ ReadFails(r)
    \/ Close
    \/ DeadlinePasses

Spec == Init /\ [][Next]_vars

\* Goroutines run, contexts time out, an interrupted read fails, the mutex starves
\* nobody.  The printer need not send anything; the connection's own deadline is
\* not relied on.
Fairness ==
    /\ \A u \in Users : /\ WF_vars(Arm(u)) /\ WF_vars(HookStarts(u)) /\ WF_vars(HookInterrupts(u))
                        /\ WF_vars(Stop(u)) /\ WF_vars(ClearDeadline(u))
                        /\ WF_vars(ContextDone(u))
    /\ \A r \in Readers : /\ SF_vars(Lock(r)) /\ WF_vars(ReaderStep(r))
                          /\ WF_vars(Interrupted /\ ReadFails(r))
    /\ WF_vars(DialFails \/ DialReturns)
    /\ WF_vars(Interrupted /\ AuthFails)

FairSpec == Spec /\ Fairness

-----------------------------------------------------------------------------
(* Properties *)

\* A call never starts in the middle of a frame: a stream that is open and not
\* being read stands at the boundary of one.
OpenIsAligned == conn = "open" /\ mu = NoOne => stream = "boundary"

\* A cancelled call cannot poison the next one: the deadline on the connection,
\* and a hook that may still set it, are always those of the call now using it.
DeadlineIsOwn ==
    \A u \in Users : setter = u \/ hook[u] \in {"armed", "running"} =>
        pc[u] \in {"io", "close", "cleanup", "clear"} /\ (u # Dialer => mu = u)

\* ReadFrame returns, however silent the printer and whoever holds the mutex.
EveryReadReturns == \A r \in Readers : (pc[r] = "lock") ~> (pc[r] = "idle")
=============================================================================
