------------------------------ MODULE DialMQTT ------------------------------
(***************************************************************************)
(* DialMQTT (bambulab/mqtt.go): connect, subscribe, and the clean-up of a  *)
(* dial that is given up while the MQTT client is still connecting.  Four  *)
(* goroutines take part: the dialer, the client's own connect, the         *)
(* clean-up that waits for it, and the connection-lost handler.            *)
(***************************************************************************)
EXTENDS Naturals

CONSTANT Dials   \* concurrent calls of DialMQTT, each with a client of its own

VARIABLES
    pc,          \* the dialer
    expired,     \* connectCtx is done
    connect,     \* the Connect token
    connection,  \* the client's connection
    subscribe,   \* the Subscribe token
    cleanup,     \* the clean-up goroutine
    handler,     \* the connection-lost handler
    closed,      \* p.closed
    reason,      \* whether fail has queued an error
    result       \* what DialMQTT returned

vars == <<pc, expired, connect, connection, subscribe, cleanup, handler, closed, reason, result>>

Tokens == {"none", "pending", "ok", "failed"}

\* The types of the state of a dial; it has a result once it has returned.
TypeOK ==
    /\ pc \in [Dials -> {"validate", "connect", "subscribe", "close", "disconnect", "returned"}]
    /\ expired \in [Dials -> BOOLEAN]
    /\ connect \in [Dials -> Tokens]
    /\ connection \in [Dials -> {"none", "up", "down"}]
    /\ subscribe \in [Dials -> Tokens]
    /\ cleanup \in [Dials -> {"none", "waiting", "disconnect", "ended"}]
    /\ handler \in [Dials -> {"idle", "running", "ended"}]
    /\ closed \in [Dials -> BOOLEAN]
    /\ reason \in [Dials -> BOOLEAN]
    /\ result \in [Dials -> {"none", "printer", "invalid", "error"}]
    /\ \A d \in Dials : pc[d] = "returned" <=> result[d] # "none"

Init ==
    /\ pc = [d \in Dials |-> "validate"]
    /\ expired = [d \in Dials |-> FALSE]
    /\ connect = [d \in Dials |-> "none"]
    /\ connection = [d \in Dials |-> "none"]
    /\ subscribe = [d \in Dials |-> "none"]
    /\ cleanup = [d \in Dials |-> "none"]
    /\ handler = [d \in Dials |-> "idle"]
    /\ closed = [d \in Dials |-> FALSE]
    /\ reason = [d \in Dials |-> FALSE]
    /\ result = [d \in Dials |-> "none"]

-----------------------------------------------------------------------------
(* The dialer *)

Returns(d, r) ==
    /\ pc' = [pc EXCEPT ![d] = "returned"]
    /\ result' = [result EXCEPT ![d] = r]

\* Credentials, broker URL, timeout or buffer size are refused.
Refuse(d) ==
    /\ pc[d] = "validate"
    /\ Returns(d, "invalid")
    /\ UNCHANGED <<expired, connect, connection, subscribe, cleanup, handler, closed, reason>>

\* p.client.Connect(); the caller's context may be done already.
StartConnect(d) ==
    /\ pc[d] = "validate"
    /\ pc' = [pc EXCEPT ![d] = "connect"]
    /\ connect' = [connect EXCEPT ![d] = "pending"]
    /\ UNCHANGED <<expired, connection, subscribe, cleanup, handler, closed, reason, result>>

\* p.fail, which pushes its error only when the Printer is still open.
Fail(d, withReason) ==
    /\ reason' = [reason EXCEPT ![d] = @ \/ (withReason /\ ~closed[d])]
    /\ closed' = [closed EXCEPT ![d] = TRUE]

\* Mutant of ConnectFails: the connection attempt is left to itself.
ConnectFailsNoCleanup(d) ==
    /\ pc[d] = "connect"
    /\ connect[d] = "failed" \/ expired[d]
    /\ Fail(d, TRUE)
    /\ Returns(d, "error")
    /\ UNCHANGED <<expired, connect, connection, subscribe, cleanup, handler>>

\* waitToken(connectCtx, Connect): an error of the token or of the context.  When
\* both are ready either may be taken, so the client may be connected here.
ConnectFails(d) ==
    /\ pc[d] = "connect"
    /\ connect[d] = "failed" \/ expired[d]
    /\ Fail(d, TRUE)
    /\ cleanup' = [cleanup EXCEPT ![d] = "waiting"]
    /\ Returns(d, "error")
    /\ UNCHANGED <<expired, connect, connection, subscribe, handler>>

ConnectSucceeds(d) ==
    /\ pc[d] = "connect"
    /\ connect[d] = "ok"
    /\ pc' = [pc EXCEPT ![d] = "subscribe"]
    /\ subscribe' = [subscribe EXCEPT ![d] = IF connection[d] = "up" THEN "pending" ELSE "failed"]
    /\ UNCHANGED <<expired, connect, connection, cleanup, handler, closed, reason, result>>

SubscribeSucceeds(d) ==
    /\ pc[d] = "subscribe"
    /\ subscribe[d] = "ok"
    /\ Returns(d, "printer")
    /\ UNCHANGED <<expired, connect, connection, subscribe, cleanup, handler, closed, reason>>

SubscribeFails(d) ==
    /\ pc[d] = "subscribe"
    /\ subscribe[d] = "failed" \/ expired[d]
    /\ pc' = [pc EXCEPT ![d] = "close"]
    /\ UNCHANGED <<expired, connect, connection, subscribe, cleanup, handler, closed, reason,
                   result>>

\* p.Close(): fail(nil), then client.Disconnect.
CloseFails(d) ==
    /\ pc[d] = "close"
    /\ Fail(d, FALSE)
    /\ pc' = [pc EXCEPT ![d] = "disconnect"]
    /\ UNCHANGED <<expired, connect, connection, subscribe, cleanup, handler, result>>

CloseDisconnects(d) ==
    /\ pc[d] = "disconnect"
    /\ connection' = [connection EXCEPT ![d] = "down"]
    /\ Returns(d, "error")
    /\ UNCHANGED <<expired, connect, subscribe, cleanup, handler, closed, reason>>

-----------------------------------------------------------------------------
(* The clean-up goroutine: a connect that succeeds too late is undone. *)

\* Mutant of CleanupConnected: the token's error is tested the other way round.
CleanupConnectedInverted(d) ==
    /\ cleanup[d] = "waiting"
    /\ connect[d] = "ok"
    /\ cleanup' = [cleanup EXCEPT ![d] = "ended"]
    /\ UNCHANGED <<pc, expired, connect, connection, subscribe, handler, closed, reason, result>>

CleanupConnected(d) ==
    /\ cleanup[d] = "waiting"
    /\ connect[d] = "ok"
    /\ cleanup' = [cleanup EXCEPT ![d] = "disconnect"]
    /\ UNCHANGED <<pc, expired, connect, connection, subscribe, handler, closed, reason, result>>

CleanupFailed(d) ==
    /\ cleanup[d] = "waiting"
    /\ connect[d] = "failed"
    /\ cleanup' = [cleanup EXCEPT ![d] = "ended"]
    /\ UNCHANGED <<pc, expired, connect, connection, subscribe, handler, closed, reason, result>>

CleanupDisconnects(d) ==
    /\ cleanup[d] = "disconnect"
    /\ connection' = [connection EXCEPT ![d] = "down"]
    /\ cleanup' = [cleanup EXCEPT ![d] = "ended"]
    /\ UNCHANGED <<pc, expired, connect, subscribe, handler, closed, reason, result>>

-----------------------------------------------------------------------------
(* The MQTT client and the network *)

\* The connect attempt is bounded by SetConnectTimeout: it always ends.
Connected(d) ==
    /\ connect[d] = "pending"
    /\ connect' = [connect EXCEPT ![d] = "ok"]
    /\ connection' = [connection EXCEPT ![d] = "up"]
    /\ UNCHANGED <<pc, expired, subscribe, cleanup, handler, closed, reason, result>>

NotConnected(d) ==
    /\ connect[d] = "pending"
    /\ connect' = [connect EXCEPT ![d] = "failed"]
    /\ UNCHANGED <<pc, expired, connection, subscribe, cleanup, handler, closed, reason, result>>

\* The broker need not acknowledge a subscription, ever.
Subscribed(d) ==
    /\ subscribe[d] = "pending"
    /\ connection[d] = "up"
    /\ subscribe' = [subscribe EXCEPT ![d] = "ok"]
    /\ UNCHANGED <<pc, expired, connect, connection, cleanup, handler, closed, reason, result>>

\* The connection is lost; a subscription that is still awaited fails.
Loss(d) ==
    /\ connection[d] = "up"
    /\ connection' = [connection EXCEPT ![d] = "down"]
    /\ handler' = [handler EXCEPT ![d] = "running"]
    /\ subscribe' = [subscribe EXCEPT ![d] = IF @ = "pending" THEN "failed" ELSE @]
    /\ UNCHANGED <<pc, expired, connect, cleanup, closed, reason, result>>

\* Mutant of HandlerFails: the handler drops the reason of the loss.
HandlerFailsNoReason(d) ==
    /\ handler[d] = "running"
    /\ Fail(d, FALSE)
    /\ handler' = [handler EXCEPT ![d] = "ended"]
    /\ UNCHANGED <<pc, expired, connect, connection, subscribe, cleanup, result>>

HandlerFails(d) ==
    /\ handler[d] = "running"
    /\ Fail(d, TRUE)
    /\ handler' = [handler EXCEPT ![d] = "ended"]
    /\ UNCHANGED <<pc, expired, connect, connection, subscribe, cleanup, result>>

\* The caller cancels, or config.Timeout has passed since the dial began.
Expire(d) ==
    /\ pc[d] # "returned"
    /\ ~expired[d]
    /\ expired' = [expired EXCEPT ![d] = TRUE]
    /\ UNCHANGED <<pc, connect, connection, subscribe, cleanup, handler, closed, reason, result>>

-----------------------------------------------------------------------------
DialerStep(d) ==
    \/ ConnectFails(d)   \/ ConnectSucceeds(d)
    \/ SubscribeFails(d) \/ SubscribeSucceeds(d)
    \/ CloseFails(d)     \/ CloseDisconnects(d)

CleanupStep(d) == CleanupConnected(d) \/ CleanupFailed(d) \/ CleanupDisconnects(d)

Next ==
    \E d \in Dials :
        \/ Refuse(d) \/ StartConnect(d) \/ DialerStep(d) \/ CleanupStep(d)
        \/ Connected(d) \/ NotConnected(d) \/ Subscribed(d) \/ Loss(d)
        \/ HandlerFails(d) \/ Expire(d)

Spec == Init /\ [][Next]_vars

\* Goroutines run, timers fire and the connect attempt ends; a broker may leave
\* a subscription unanswered for ever.
Fairness ==
    \A d \in Dials :
        /\ WF_vars(DialerStep(d)) /\ WF_vars(CleanupStep(d)) /\ WF_vars(HandlerFails(d))
        /\ WF_vars(Expire(d)) /\ WF_vars(Connected(d) \/ NotConnected(d))

FairSpec == Spec /\ Fairness

-----------------------------------------------------------------------------
(* Properties *)

\* A dial that reported an error has closed the Printer, or left nobody to do so,
\* and some goroutine is still on its way to take the connection down, if there
\* is or can still be one.
AbandonedIsHandled ==
    \A d \in Dials : result[d] = "error" =>
        /\ closed[d]
        /\ connection[d] = "up" \/ connect[d] = "pending" => cleanup[d] \in {"waiting", "disconnect"}

\* A Printer handed out whose connection is gone shows it: it is closed with a
\* reason, or the handler that will close it is running.
PrinterNotDeaf ==
    \A d \in Dials : result[d] = "printer" /\ connection[d] # "up" =>
        handler[d] = "running" \/ (closed[d] /\ reason[d])

\* After a dial that reported an error the connection ends up down for good, also
\* when the MQTT client finished connecting only after the dial was given up.
NoOrphan == \A d \in Dials : (result[d] = "error") ~> [](connection[d] # "up")
=============================================================================
