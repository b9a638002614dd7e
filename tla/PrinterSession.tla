--------------------------- MODULE PrinterSession ---------------------------
(***************************************************************************)
(* One connected Printer (bambulab/mqtt.go): the state shared by           *)
(*   - the callers of Request, Send and Close (any number of goroutines),  *)
(*   - the MQTT client's dispatcher, which calls receive for one message   *)
(*     after the other (paho's default OrderMatters), and                  *)
(*   - the goroutine in which the MQTT client reports a lost connection.   *)
(* The mutex p.mu is explicit, so the steps between a lock and its unlock  *)
(* interleave with everything that does not need the mutex.                *)
(*                                                                         *)
(* Abstractions: "section:command" is a member of Commands; a message is   *)
(* the set of replies its sections amount to plus what its push_status     *)
(* section says.  Sections of one message have distinct keys, so the order *)
(* in which receive visits them is immaterial.  The print status has       *)
(* top-level Fields and, in those that are objects, Members; the content   *)
(* of a leaf is the number of the report that set it.  Two levels are kept *)
(* of the recursion: below them mergeObject repeats what it does at these. *)
(***************************************************************************)
EXTENDS Integers, Sequences, FiniteSets

CONSTANTS
    Callers,     \* goroutines that use the Printer
    Receiver,    \* the MQTT client's dispatcher
    Lost,        \* the goroutine that runs OnConnectionLost
    NoOne,       \* nobody: the free mutex, a key no request is waiting for
    Commands,    \* the "section:command" pairs the callers use
    Fields,      \* top-level fields of the print status
    Members,     \* fields of the objects among their values
    Scalar,      \* in a delta: a number, a string, an array or null
    Unsaid,      \* in a delta: a field it does not contain
    Payloads,    \* well-formed messages the printer's topic may carry
    BufferSize,  \* capacity of the Reports and of the Errors channel
    MaxSeq,      \* bound: commands encoded in a behaviour
    MaxReports   \* bound: messages accepted in a behaviour

Processes == Callers \cup {Receiver, Lost}
Seqs      == 1..MaxSeq
Keys      == Commands \X Seqs
Results   == {"success", "rejected", "undecodable"}
Reply     == [key : Keys, result : Results]
Delta     == [Fields -> {Scalar, Unsaid} \cup SUBSET Members]
Payload   == [replies : SUBSET Reply, fields : Delta]
Report    == [id : 1..MaxReports, fields : Delta]

\* The value of a field: who set it, or its members, 0 for one it does not have.
Value == [kind : {"absent", "scalar", "object"}, by : 0..MaxReports,
          members : [Members -> 0..MaxReports]]

ASSUME ProcessesAssumption ==
    /\ Receiver # Lost
    /\ {Receiver, Lost} \cap Callers = {}
    /\ NoOne \notin Processes

ASSUME DeltaAssumption == Scalar # Unsaid /\ \A o \in SUBSET Members : o \notin {Scalar, Unsaid}

ASSUME BoundsAssumption ==
    /\ BufferSize \in Nat \ {0}
    /\ MaxSeq \in Nat
    /\ MaxReports \in Nat

\* A message has each section once, so at most one reply per command.
ASSUME PayloadsAssumption ==
    /\ Payloads \subseteq Payload
    /\ \A m \in Payloads : \A a, b \in m.replies : a.key[1] = b.key[1] => a = b

VARIABLES
    \* -- the Printer's fields --
    mu,        \* holder of p.mu
    closed,    \* p.closed, and whether p.done is closed
    seq,       \* p.seq
    pending,   \* p.pending: who waits under a key
    status,    \* p.state, the merged print status
    reports,   \* the Reports channel
    errors,    \* the Errors channel
    dropped,   \* p.dropped
    connected, \* the MQTT client's connection
    \* -- the goroutines' locals --
    pc,
    call,      \* a caller's operation and key
    expired,   \* whether a caller's context is done
    slot,      \* a caller's reply channel, of capacity 1
    outcome,   \* what a Request is about to return
    payload,   \* the message receive is working on
    \* -- history --
    answered,  \* requests whose reply went through receive after their command
               \* was handed to the client
    received,  \* messages accepted so far
    accepted,  \* the reports these messages made
    taken,     \* reports a consumer has taken
    drained,   \* whether an error was taken since the loss was reported
    closes,    \* executions of close(p.done)
    closer     \* who executed it

sharedVars  == <<mu, closed, seq, pending, status, reports, errors, dropped, connected>>
localVars   == <<pc, call, expired, slot, outcome, payload>>
historyVars == <<answered, received, accepted, taken, drained, closes, closer>>
vars        == <<sharedVars, localVars, historyVars>>

NoCall    == [op |-> "none", key |-> <<>>]
Silence   == [f \in Fields |-> Unsaid]
NoPayload == [replies |-> {}, fields |-> Silence]
NoMembers == [m \in Members |-> 0]
Absent    == [kind |-> "absent", by |-> 0, members |-> NoMembers]

CallerPCs == {"idle", "register", "send", "publish", "token", "await",
              "unregister", "lock", "push", "close", "disconnect"}
Outcomes  == {"none", "invalid", "cancelled", "closed", "failed"} \cup Results

\* newPrinter: everything empty, one connection.
Init ==
    /\ mu = NoOne
    /\ closed = FALSE
    /\ seq = 0
    /\ pending = [k \in Keys |-> NoOne]
    /\ status = [f \in Fields |-> Absent]
    /\ reports = <<>>
    /\ errors = <<>>
    /\ dropped = 0
    /\ connected = TRUE
    /\ pc = [p \in Processes |-> "idle"]
    /\ call = [c \in Callers |-> NoCall]
    /\ expired = [c \in Callers |-> FALSE]
    /\ slot = [c \in Callers |-> <<>>]
    /\ outcome = [c \in Callers |-> "none"]
    /\ payload = NoPayload
    /\ answered = {}
    /\ received = 0
    /\ accepted = {}
    /\ taken = 0
    /\ drained = FALSE
    /\ closes = 0
    /\ closer = NoOne

-----------------------------------------------------------------------------
(* Helpers *)

Goto(p, label) == pc' = [pc EXCEPT ![p] = label]

\* The call is over; its locals are gone.
Return(c) ==
    /\ Goto(c, "idle")
    /\ call' = [call EXCEPT ![c] = NoCall]
    /\ expired' = [expired EXCEPT ![c] = FALSE]
    /\ outcome' = [outcome EXCEPT ![c] = "none"]

\* Mutant of Leave: no deferred delete.
LeaveNoDelete(c, o) == Return(c)

\* The return of o: Request's deferred delete runs first, Send has none.
Leave(c, o) ==
    IF call[c].op = "request"
    THEN /\ Goto(c, "unregister")
         /\ outcome' = [outcome EXCEPT ![c] = o]
         /\ UNCHANGED <<call, expired>>
    ELSE Return(c)

\* Mutant of Offer: a channel that never fills.
OfferUnbounded(ch, v, capacity) == Append(ch, v)

\* select { case ch <- v: default: } on a channel of the given capacity.
Offer(ch, v, capacity) == IF Len(ch) < capacity THEN Append(ch, v) ELSE ch

-----------------------------------------------------------------------------
(* Request and Send *)

\* encode takes the next sequence number; fields it cannot encode end the call
\* before that, with no effect.  The deadline of the call is already running.
Encode(c, op, cmd) ==
    /\ pc[c] = "idle"
    /\ seq < MaxSeq
    /\ seq' = seq + 1
    /\ call' = [call EXCEPT ![c] = [op |-> op, key |-> <<cmd, seq + 1>>]]
    /\ Goto(c, IF op = "request" THEN "register" ELSE "send")
    /\ UNCHANGED <<mu, closed, pending, status, reports, errors, dropped, connected,
                   expired, slot, outcome, payload, historyVars>>

\* The reply channel is made and entered in p.pending before anything is sent.
Register(c) ==
    /\ pc[c] = "register"
    /\ mu = NoOne
    /\ pending' = [pending EXCEPT ![call[c].key] = c]
    /\ Goto(c, "send")
    /\ UNCHANGED <<mu, closed, seq, status, reports, errors, dropped, connected,
                   call, expired, slot, outcome, payload, historyVars>>

\* send's early returns: an unsupported QoS, a context that is done, a session
\* that is closed.
SendRejected(c) ==
    /\ pc[c] = "send"
    /\ Leave(c, "invalid")
    /\ UNCHANGED <<sharedVars, historyVars, slot, payload>>

SendCancelled(c) ==
    /\ pc[c] = "send"
    /\ expired[c]
    /\ Leave(c, "cancelled")
    /\ UNCHANGED <<sharedVars, historyVars, slot, payload>>

SendClosed(c) ==
    /\ pc[c] = "send"
    /\ ~expired[c]
    /\ closed
    /\ Leave(c, "closed")
    /\ UNCHANGED <<sharedVars, historyVars, slot, payload>>

SendOpen(c) ==
    /\ pc[c] = "send"
    /\ ~expired[c]
    /\ ~closed
    /\ Goto(c, "publish")
    /\ UNCHANGED <<sharedVars, historyVars, call, expired, slot, outcome, payload>>

\* client.Publish: the session may have been closed since send looked.  The
\* token of a client without a connection has failed from the start.
Publish(c) ==
    /\ pc[c] = "publish"
    /\ connected
    /\ Goto(c, "token")
    /\ UNCHANGED <<sharedVars, historyVars, call, expired, slot, outcome, payload>>

PublishOffline(c) ==
    /\ pc[c] = "publish"
    /\ ~connected
    /\ \/ Leave(c, "failed")
       \/ expired[c] /\ Leave(c, "cancelled")
    /\ UNCHANGED <<sharedVars, historyVars, slot, payload>>

\* waitToken: the token resolves, with or without an error, or the context ends.
TokenDelivered(c) ==
    /\ pc[c] = "token"
    /\ IF call[c].op = "request"
       THEN Goto(c, "await") /\ UNCHANGED <<call, expired, outcome>>
       ELSE Return(c)
    /\ UNCHANGED <<sharedVars, historyVars, slot, payload>>

TokenFailed(c) ==
    /\ pc[c] = "token"
    /\ Leave(c, "failed")
    /\ UNCHANGED <<sharedVars, historyVars, slot, payload>>

TokenCancelled(c) ==
    /\ pc[c] = "token"
    /\ expired[c]
    /\ Leave(c, "cancelled")
    /\ UNCHANGED <<sharedVars, historyVars, slot, payload>>

\* Mutant of AwaitCancelled: every end of the wait is reported as ErrClosed.
AwaitCancelledAsClosed(c) ==
    /\ pc[c] = "await"
    /\ expired[c]
    /\ Leave(c, "closed")
    /\ UNCHANGED <<sharedVars, historyVars, slot, payload>>

\* Request's select: any case that is ready may be the one taken.
AwaitCancelled(c) ==
    /\ pc[c] = "await"
    /\ expired[c]
    /\ Leave(c, "cancelled")
    /\ UNCHANGED <<sharedVars, historyVars, slot, payload>>

AwaitClosed(c) ==
    /\ pc[c] = "await"
    /\ closed
    /\ Leave(c, "closed")
    /\ UNCHANGED <<sharedVars, historyVars, slot, payload>>

AwaitReply(c) ==
    /\ pc[c] = "await"
    /\ slot[c] # <<>>
    /\ Leave(c, Head(slot[c]).result)
    /\ UNCHANGED <<sharedVars, historyVars, slot, payload>>

\* The deferred delete, on every path out of Request after the registration.
\* The reply channel is garbage from here on.
Unregister(c) ==
    /\ pc[c] = "unregister"
    /\ mu = NoOne
    /\ pending' = [pending EXCEPT ![call[c].key] = NoOne]
    /\ slot' = [slot EXCEPT ![c] = <<>>]
    /\ answered' = answered \ {c}
    /\ Return(c)
    /\ UNCHANGED <<mu, closed, seq, status, reports, errors, dropped, connected,
                   payload, received, accepted, taken, drained, closes, closer>>

\* The caller cancels its context or the Printer's timeout elapses.
ContextExpires(c) ==
    /\ pc[c] \in {"register", "send", "publish", "token", "await"}
    /\ ~expired[c]
    /\ expired' = [expired EXCEPT ![c] = TRUE]
    /\ UNCHANGED <<sharedVars, historyVars, pc, call, slot, outcome, payload>>

-----------------------------------------------------------------------------
(* fail, run by Close and by the connection-lost handler *)

CloseBegin(c) ==
    /\ pc[c] = "idle"
    /\ Goto(c, "lock")
    /\ UNCHANGED <<sharedVars, historyVars, call, expired, slot, outcome, payload>>

\* Automatic reconnect is disabled: a Printer loses its connection at most once.
ConnectionLost ==
    /\ pc[Lost] = "idle"
    /\ connected
    /\ connected' = FALSE
    /\ Goto(Lost, "lock")
    /\ UNCHANGED <<mu, closed, seq, pending, status, reports, errors, dropped,
                   historyVars, call, expired, slot, outcome, payload>>

\* Where fail returns to: Close goes on to client.Disconnect.
AfterFail(p) == IF p = Lost THEN "idle" ELSE "disconnect"

FailAlreadyClosed(p) ==
    /\ pc[p] = "lock"
    /\ mu = NoOne
    /\ closed
    /\ Goto(p, AfterFail(p))
    /\ UNCHANGED <<sharedVars, historyVars, call, expired, slot, outcome, payload>>

\* Mutant of FailLock: p.closed is not looked at under the mutex.
FailLockUnchecked(p) ==
    /\ pc[p] = "lock"
    /\ mu = NoOne
    /\ mu' = p
    /\ Goto(p, IF p = Lost THEN "push" ELSE "close")
    /\ UNCHANGED <<closed, seq, pending, status, reports, errors, dropped, connected,
                   historyVars, call, expired, slot, outcome, payload>>

\* Mutant of FailLock: a loss is handled as fail(nil).
FailLockNoReason(p) ==
    /\ pc[p] = "lock"
    /\ mu = NoOne
    /\ ~closed
    /\ mu' = p
    /\ Goto(p, "close")
    /\ UNCHANGED <<closed, seq, pending, status, reports, errors, dropped, connected,
                   historyVars, call, expired, slot, outcome, payload>>

FailLock(p) ==
    /\ pc[p] = "lock"
    /\ mu = NoOne
    /\ ~closed
    /\ mu' = p
    /\ Goto(p, IF p = Lost THEN "push" ELSE "close")
    /\ UNCHANGED <<closed, seq, pending, status, reports, errors, dropped, connected,
                   historyVars, call, expired, slot, outcome, payload>>

\* Only a loss has a reason to report; a full Errors channel swallows it.
FailPush(p) ==
    /\ pc[p] = "push"
    /\ errors' = Offer(errors, "lost", BufferSize)
    /\ drained' = FALSE
    /\ Goto(p, "close")
    /\ UNCHANGED <<mu, closed, seq, pending, status, reports, dropped, connected,
                   call, expired, slot, outcome, payload,
                   answered, received, accepted, taken, closes, closer>>

\* p.closed = true, close(p.done), unlock.
FailClose(p) ==
    /\ pc[p] = "close"
    /\ closed' = TRUE
    /\ closes' = closes + 1
    /\ closer' = p
    /\ mu' = NoOne
    /\ Goto(p, AfterFail(p))
    /\ UNCHANGED <<seq, pending, status, reports, errors, dropped, connected,
                   call, expired, slot, outcome, payload,
                   answered, received, accepted, taken, drained>>

Disconnect(c) ==
    /\ pc[c] = "disconnect"
    /\ connected' = FALSE
    /\ Return(c)
    /\ UNCHANGED <<mu, closed, seq, pending, status, reports, errors, dropped,
                   historyVars, slot, payload>>

-----------------------------------------------------------------------------
(* receive: messages the client has read keep coming after a loss or a Close *)

\* A malformed message is reported without the mutex, closed or not.
ReceiveMalformed ==
    /\ pc[Receiver] = "idle"
    /\ errors' = Offer(errors, "malformed", BufferSize)
    /\ UNCHANGED <<mu, closed, seq, pending, status, reports, dropped, connected,
                   localVars, historyVars>>

ReceiveBegin(m) ==
    /\ pc[Receiver] = "idle"
    /\ received < MaxReports
    /\ payload' = m
    /\ Goto(Receiver, "lock")
    /\ UNCHANGED <<sharedVars, historyVars, call, expired, slot, outcome>>

ReceiveClosed ==
    /\ pc[Receiver] = "lock"
    /\ mu = NoOne
    /\ closed
    /\ payload' = NoPayload
    /\ Goto(Receiver, "idle")
    /\ UNCHANGED <<sharedVars, historyVars, call, expired, slot, outcome>>

\* Mutant of ReceiveLock: p.closed is not looked at.
ReceiveLockUnchecked ==
    /\ pc[Receiver] = "lock"
    /\ mu = NoOne
    /\ mu' = Receiver
    /\ received' = received + 1
    /\ accepted' = accepted \cup {[id |-> received + 1, fields |-> payload.fields]}
    /\ Goto(Receiver, "dispatch")
    /\ UNCHANGED <<closed, seq, pending, status, reports, errors, dropped, connected,
                   call, expired, slot, outcome, payload,
                   answered, taken, drained, closes, closer>>

ReceiveLock ==
    /\ pc[Receiver] = "lock"
    /\ mu = NoOne
    /\ ~closed
    /\ mu' = Receiver
    /\ received' = received + 1
    /\ accepted' = accepted \cup {[id |-> received + 1, fields |-> payload.fields]}
    /\ Goto(Receiver, "dispatch")
    /\ UNCHANGED <<closed, seq, pending, status, reports, errors, dropped, connected,
                   call, expired, slot, outcome, payload, answered, taken, drained, closes, closer>>

\* Mutant of RepliesFor: replies are matched by section and command only.
RepliesByCommand(c) ==
    {r \in payload.replies : \E n \in Seqs : pending[<<r.key[1], n>>] = c}

\* The replies of the message that a registered caller waits for.
RepliesFor(c) == {r \in payload.replies : pending[r.key] = c}

\* Mutant of DispatchReplies: an unbuffered reply channel, to which a send
\* succeeds only when the caller already waits.
DispatchUnbuffered ==
    slot' = [c \in Callers |->
                IF RepliesFor(c) = {} \/ pc[c] # "await" THEN slot[c]
                ELSE Offer(slot[c], CHOOSE r \in RepliesFor(c) : TRUE, 1)]

\* Every reply goes, without blocking, to the channel registered under its key;
\* a channel that already holds a reply keeps it.
DispatchReplies ==
    slot' = [c \in Callers |->
                IF RepliesFor(c) = {} THEN slot[c]
                ELSE Offer(slot[c], CHOOSE r \in RepliesFor(c) : TRUE, 1)]

\* Mutant of MergeValue: an object replaces the object that is there.
MergeValueFlat(old, new) ==
    IF new = Unsaid THEN old
    ELSE IF new = Scalar THEN [Absent EXCEPT !.kind = "scalar", !.by = received]
    ELSE [Absent EXCEPT !.kind = "object",
                        !.members = [m \in Members |-> IF m \in new THEN received ELSE 0]]

\* mergeObject on one key: an object is merged into an object, whatever else the
\* key had or gets is replaced; null and arrays are no objects, {} is one.
MergeValue(old, new) ==
    IF new = Unsaid THEN old
    ELSE IF new = Scalar THEN [Absent EXCEPT !.kind = "scalar", !.by = received]
    ELSE LET base == IF old.kind = "object" THEN old.members ELSE NoMembers
         IN  [kind |-> "object", by |-> 0,
              members |-> [m \in Members |-> IF m \in new THEN received ELSE base[m]]]

\* Mutant of MergeStatus: a report that will be dropped is not merged.
MergeUnlessFull ==
    status' = [f \in Fields |-> IF Len(reports) < BufferSize
                                THEN MergeValue(status[f], payload.fields[f]) ELSE status[f]]

MergeStatus == status' = [f \in Fields |-> MergeValue(status[f], payload.fields[f])]

ReceiveDispatch ==
    /\ pc[Receiver] = "dispatch"
    /\ DispatchReplies
    /\ MergeStatus
    /\ answered' = answered \cup
           {c \in Callers : /\ call[c].op = "request"
                            /\ pc[c] \in {"token", "await"}
                            /\ \E r \in payload.replies : r.key = call[c].key}
    /\ Goto(Receiver, "enqueue")
    /\ UNCHANGED <<mu, closed, seq, pending, reports, errors, dropped, connected,
                   call, expired, outcome, payload,
                   received, accepted, taken, drained, closes, closer>>

\* Mutant of ReceiveEnqueue: a send that blocks, mutex held, while nobody reads.
ReceiveEnqueueBlocking ==
    /\ pc[Receiver] = "enqueue"
    /\ Len(reports) < BufferSize
    /\ reports' = Append(reports, [id |-> received, fields |-> payload.fields])
    /\ mu' = NoOne
    /\ payload' = NoPayload
    /\ Goto(Receiver, "idle")
    /\ UNCHANGED <<closed, seq, pending, status, errors, dropped, connected,
                   call, expired, slot, outcome, historyVars>>

\* Mutant of ReceiveEnqueue: a drop is not counted.
ReceiveEnqueueUncounted ==
    /\ pc[Receiver] = "enqueue"
    /\ reports' = Offer(reports, [id |-> received, fields |-> payload.fields], BufferSize)
    /\ mu' = NoOne
    /\ payload' = NoPayload
    /\ Goto(Receiver, "idle")
    /\ UNCHANGED <<closed, seq, pending, status, errors, dropped, connected,
                   call, expired, slot, outcome, historyVars>>

\* A full Reports channel costs the report, never the merge, and is counted.
ReceiveEnqueue ==
    /\ pc[Receiver] = "enqueue"
    /\ reports' = Offer(reports, [id |-> received, fields |-> payload.fields], BufferSize)
    /\ dropped' = IF Len(reports) < BufferSize THEN dropped ELSE dropped + 1
    /\ mu' = NoOne
    /\ payload' = NoPayload
    /\ Goto(Receiver, "idle")
    /\ UNCHANGED <<closed, seq, pending, status, errors, connected,
                   call, expired, slot, outcome, historyVars>>

-----------------------------------------------------------------------------
(* The consumer of Reports and Errors *)

TakeReport ==
    /\ reports # <<>>
    /\ reports' = Tail(reports)
    /\ taken' = taken + 1
    /\ UNCHANGED <<mu, closed, seq, pending, status, errors, dropped, connected, localVars,
                   answered, received, accepted, drained, closes, closer>>

TakeError ==
    /\ errors # <<>>
    /\ errors' = Tail(errors)
    /\ drained' = TRUE
    /\ UNCHANGED <<mu, closed, seq, pending, status, reports, dropped, connected, localVars,
                   answered, received, accepted, taken, closes, closer>>

-----------------------------------------------------------------------------
SendStep(c) ==
    \/ SendRejected(c)   \/ SendCancelled(c) \/ SendClosed(c) \/ SendOpen(c)
    \/ Publish(c)        \/ PublishOffline(c)
    \/ TokenDelivered(c) \/ TokenFailed(c)   \/ TokenCancelled(c)

AwaitStep(c) == AwaitCancelled(c) \/ AwaitClosed(c) \/ AwaitReply(c)

FailStep(p) == FailAlreadyClosed(p) \/ FailLock(p) \/ FailPush(p) \/ FailClose(p)

ReceiveStep == ReceiveClosed \/ ReceiveLock \/ ReceiveDispatch \/ ReceiveEnqueue

CallerNext(c) ==
    \/ \E op \in {"request", "send"}, cmd \in Commands : Encode(c, op, cmd)
    \/ Register(c)
    \/ SendStep(c)
    \/ AwaitStep(c)
    \/ Unregister(c)
    \/ ContextExpires(c)
    \/ CloseBegin(c)
    \/ Disconnect(c)

ReceiverNext == ReceiveMalformed \/ (\E m \in Payloads : ReceiveBegin(m)) \/ ReceiveStep

Next ==
    \/ \E c \in Callers : CallerNext(c)
    \/ ConnectionLost
    \/ \E p \in Callers \cup {Lost} : FailStep(p)
    \/ ReceiverNext
    \/ TakeReport
    \/ TakeError

Spec == Init /\ [][Next]_vars

-----------------------------------------------------------------------------
(* Fairness.  A goroutine that can run does run, timers fire, and Go's       *)
(* mutex hands itself over to a waiter that has starved (strong fairness for *)
(* the steps that lock).  Nothing is promised of the printer, of the broker, *)
(* of who consumes Reports and Errors, or of a token ever resolving.         *)

LockStep(p) ==
    \/ p \in Callers /\ (Register(p) \/ Unregister(p))
    \/ p \in Callers \cup {Lost} /\ (FailAlreadyClosed(p) \/ FailLock(p))
    \/ p = Receiver /\ (ReceiveClosed \/ ReceiveLock)

\* A caller's own steps that need neither the mutex nor the broker.
RunStep(c) ==
    \/ SendCancelled(c) \/ SendClosed(c) \/ SendOpen(c)
    \/ Publish(c) \/ PublishOffline(c) \/ TokenCancelled(c) \/ AwaitStep(c) \/ Disconnect(c)

Fairness ==
    /\ \A p \in Processes : SF_vars(LockStep(p))
    /\ \A c \in Callers : WF_vars(RunStep(c)) /\ WF_vars(ContextExpires(c))
    /\ \A p \in Callers \cup {Lost} : WF_vars(FailPush(p) \/ FailClose(p))
    /\ WF_vars(ReceiveDispatch \/ ReceiveEnqueue)

FairSpec == Spec /\ Fairness

-----------------------------------------------------------------------------
(* Properties *)

AllPCs == CallerPCs \cup {"dispatch", "enqueue"}

PCs(p) ==
    IF p = Receiver THEN {"idle", "lock", "dispatch", "enqueue"}
    ELSE IF p = Lost THEN {"idle", "lock", "push", "close"}
    ELSE CallerPCs \ {"push"}

Calls == [op : {"request", "send"}, key : Keys]
             \cup {NoCall}

FlagsOK ==
    /\ {closed, connected, drained} \subseteq BOOLEAN
    /\ expired \in [Callers -> BOOLEAN]

SharedOK ==
    /\ mu \in Processes \cup {NoOne}
    /\ seq \in 0..MaxSeq
    /\ pending \in [Keys -> Callers \cup {NoOne}]
    /\ status \in [Fields -> Value]
    /\ reports \in Seq(Report) /\ Len(reports) <= BufferSize
    /\ errors \in Seq({"malformed", "lost"}) /\ Len(errors) <= BufferSize
    /\ dropped \in Nat

LocalOK ==
    /\ pc \in [Processes -> AllPCs]
    /\ \A p \in Processes : pc[p] \in PCs(p)
    /\ call \in [Callers -> Calls]
    /\ slot \in [Callers -> Seq(Reply)] /\ \A c \in Callers : Len(slot[c]) <= 1
    /\ outcome \in [Callers -> Outcomes]
    /\ payload \in Payloads \cup {NoPayload}

HistoryOK ==
    /\ answered \subseteq Callers
    /\ received \in 0..MaxReports
    /\ accepted \subseteq Report
    /\ taken \in Nat
    /\ closes \in Nat
    /\ closer \in Callers \cup {Lost, NoOne}

\* The types of the Printer's fields, the goroutines' locals and the history.
TypeOK == FlagsOK /\ SharedOK /\ LocalOK /\ HistoryOK

\* The steps of Request between its registration and its deferred delete.
InFlight(c) ==
    /\ call[c].op = "request"
    /\ pc[c] \in {"send", "publish", "token", "await", "unregister"}

\* p.pending holds exactly the requests in flight, each under its own key: a
\* path out of Request that forgets the delete leaks an entry, and a shared key
\* makes one request evict the other.
PendingExact ==
    \A k \in Keys, c \in Callers :
        pending[k] = c <=> InFlight(c) /\ call[c].key = k

\* However Close calls and the loss of the connection race, p.done is closed at
\* most once (a second close of a channel panics) and p.closed agrees with it.
DoneClosedOnce == closes = (IF closed THEN 1 ELSE 0)

\* The reply a request finds in its channel answers its own command: replies to
\* other callers, to other clients of the printer or to earlier commands never
\* end up there.
ReplyIsOwn ==
    \A c \in Callers : \A i \in DOMAIN slot[c] :
        InFlight(c) /\ slot[c][i].key = call[c].key

\* A reply that comes back after the command was handed to the client is not
\* lost, however early it comes: it waits in the request's channel, also while
\* the delivery of the command is still unconfirmed.
NoLostReply == \A c \in answered : slot[c] # <<>>

\* When the session died of a lost connection, a consumer that sees Done and
\* has not read Errors since finds an error there.
LossHasReason == closed /\ closer = Lost /\ ~drained => errors # <<>>

\* The largest of a set of report numbers, 0 for none.
Latest(ids) == IF ids = {} THEN 0 ELSE CHOOSE i \in ids : \A j \in ids : j <= i

\* The newest of the reports that give f one of the values in S.
LatestOn(reps, f, S) == Latest({r.id : r \in {r \in reps : \E v \in S : r.fields[f] = v}})

\* What reports add up to, path by path: the newest report on a field decides
\* whether it is an object, and a member comes from the newest report that sets it,
\* if that is newer than every non-object in its place.
DocumentOf(reps) ==
    LET Objects == SUBSET Members
    IN  [f \in Fields |->
            LET scalar == LatestOn(reps, f, {Scalar})
                object == LatestOn(reps, f, Objects)
            IN  IF scalar = 0 /\ object = 0 THEN Absent
                ELSE IF scalar > object
                THEN [kind |-> "scalar", by |-> scalar, members |-> NoMembers]
                ELSE [kind |-> "object", by |-> 0,
                      members |-> [m \in Members |->
                          LET i == LatestOn(reps, f, {o \in Objects : m \in o})
                          IN  IF i > scalar THEN i ELSE 0]]]

\* The document the first n accepted reports add up to.
Document(n) == DocumentOf({r \in accepted : r.id <= n})

\* Outside receive's critical section the snapshot is what all accepted reports
\* add up to, including those the Reports channel had no room for.
SnapshotIsComplete == mu # Receiver => status = Document(received)

\* Every accepted message is on the channel, was taken, or is counted as dropped.
NothingUncounted ==
    received = Len(reports) + taken + dropped + (IF mu = Receiver THEN 1 ELSE 0)

\* After Done no message has an effect: the snapshot, the drop count and the
\* waiting requests stay as they are and no report is added.
ClosedFreezes ==
    [][closed => /\ UNCHANGED <<status, dropped, accepted>>
                 /\ Len(reports') <= Len(reports)
                 /\ \A c \in Callers : slot'[c] \in {slot[c], <<>>}]_vars

\* Request, Send and Close return, whatever the printer, the broker and the
\* consumers of Reports and Errors do or fail to do.
EveryCallReturns == \A c \in Callers : (pc[c] # "idle") ~> (pc[c] = "idle")
=============================================================================
