--------------------------- MODULE DialMQTTProofs ---------------------------
(* Proofs about DialMQTT: a dial that is given up takes its connection     *)
(* along, and a Printer that is handed out notices the loss of its own.    *)
EXTENDS DialMQTT, TLAPS

\* A client has a connection only after its connect, which a dialer has seen succeed
\* before it subscribes.
ConnectInv(d) ==
    /\ pc[d] = "validate" => connect[d] = "none"
    /\ connect[d] # "ok" => connection[d] = "none"
    /\ connect[d] = "ok" => connection[d] # "none"
    /\ pc[d] \in {"subscribe", "close", "disconnect"} => connect[d] = "ok"
    /\ result[d] = "printer" => connect[d] = "ok"

\* The clean-up belongs to a dial that has failed, and disconnects what is connected.
CleanupInv(d) ==
    /\ cleanup[d] # "none" => pc[d] = "returned" /\ result[d] = "error"
    /\ cleanup[d] = "disconnect" => connect[d] = "ok"

\* A Printer that is open, or about to be handed out, is closed by the loss alone, which
\* leaves its reason; a connection that is gone has been lost.
LossInv(d) ==
    pc[d] \in {"validate", "connect", "subscribe"} \/ result[d] = "printer" =>
        /\ closed[d] => reason[d]
        /\ connection[d] = "down" => handler[d] = "running" \/ (closed[d] /\ reason[d])

\* What an abandoned dial leaves behind, on its way to its result or with it.
AbandonedInv(d) ==
    /\ pc[d] = "disconnect" => closed[d]
    /\ result[d] = "error" =>
           /\ closed[d]
           /\ connection[d] = "up" \/ connect[d] = "pending" =>
                  cleanup[d] \in {"waiting", "disconnect"}

DialInv == \A d \in Dials : ConnectInv(d) /\ CleanupInv(d) /\ LossInv(d) /\ AbandonedInv(d)

IInv == TypeOK /\ DialInv

\* The inductive invariant holds initially.
LEMMA InitEstablishes == Init => IInv
  BY DEF Init, IInv, TypeOK, Tokens, DialInv, ConnectInv, CleanupInv, LossInv, AbandonedInv

\* Every step preserves the types.
LEMMA TypeStep == TypeOK /\ DialInv /\ [Next]_vars => TypeOK'
  <1> SUFFICES ASSUME TypeOK, DialInv, [Next]_vars PROVE TypeOK'
    OBVIOUS
  <1> USE DEF TypeOK, Tokens, DialInv, CleanupInv
  <1>1. ASSUME NEW e \in Dials, Refuse(e) PROVE TypeOK'
    BY <1>1 DEF Refuse, Returns
  <1>2. ASSUME NEW e \in Dials, StartConnect(e) PROVE TypeOK'
    BY <1>2 DEF StartConnect
  <1>3. ASSUME NEW e \in Dials, ConnectFails(e) PROVE TypeOK'
    BY <1>3 DEF ConnectFails, Fail, Returns
  <1>4. ASSUME NEW e \in Dials, ConnectSucceeds(e) PROVE TypeOK'
    BY <1>4 DEF ConnectSucceeds
  <1>5. ASSUME NEW e \in Dials, SubscribeSucceeds(e) PROVE TypeOK'
    BY <1>5 DEF SubscribeSucceeds, Returns
  <1>6. ASSUME NEW e \in Dials, SubscribeFails(e) PROVE TypeOK'
    BY <1>6 DEF SubscribeFails
  <1>7. ASSUME NEW e \in Dials, CloseFails(e) PROVE TypeOK'
    BY <1>7 DEF CloseFails, Fail
  <1>8. ASSUME NEW e \in Dials, CloseDisconnects(e) PROVE TypeOK'
    BY <1>8 DEF CloseDisconnects, Returns
  <1>9. ASSUME NEW e \in Dials, CleanupConnected(e) PROVE TypeOK'
    BY <1>9 DEF CleanupConnected
  <1>10. ASSUME NEW e \in Dials, CleanupFailed(e) PROVE TypeOK'
    BY <1>10 DEF CleanupFailed
  <1>11. ASSUME NEW e \in Dials, CleanupDisconnects(e) PROVE TypeOK'
    BY <1>11 DEF CleanupDisconnects
  <1>12. ASSUME NEW e \in Dials, Connected(e) PROVE TypeOK'
    BY <1>12 DEF Connected
  <1>13. ASSUME NEW e \in Dials, NotConnected(e) PROVE TypeOK'
    BY <1>13 DEF NotConnected
  <1>14. ASSUME NEW e \in Dials, Subscribed(e) PROVE TypeOK'
    BY <1>14 DEF Subscribed
  <1>15. ASSUME NEW e \in Dials, Loss(e) PROVE TypeOK'
    BY <1>15 DEF Loss
  <1>16. ASSUME NEW e \in Dials, HandlerFails(e) PROVE TypeOK'
    BY <1>16 DEF HandlerFails, Fail
  <1>17. ASSUME NEW e \in Dials, Expire(e) PROVE TypeOK'
    BY <1>17 DEF Expire
  <1>18. CASE UNCHANGED vars
    BY <1>18 DEF vars
  <1> QED
    BY <1>1, <1>2, <1>3, <1>4, <1>5, <1>6, <1>7, <1>8, <1>9, <1>10, <1>11, <1>12,
       <1>13, <1>14, <1>15, <1>16, <1>17, <1>18
       DEF Next, DialerStep, CleanupStep

\* Every step preserves the discipline of each dial.
LEMMA DialStep == TypeOK /\ DialInv /\ [Next]_vars => DialInv'
  <1> SUFFICES ASSUME TypeOK, DialInv, [Next]_vars PROVE DialInv'
    OBVIOUS
  <1> USE DEF TypeOK, Tokens, DialInv, ConnectInv, CleanupInv, LossInv, AbandonedInv
  <1>1. ASSUME NEW e \in Dials, Refuse(e) PROVE DialInv'
    BY <1>1 DEF Refuse, Returns
  <1>2. ASSUME NEW e \in Dials, StartConnect(e) PROVE DialInv'
    BY <1>2 DEF StartConnect
  <1>3. ASSUME NEW e \in Dials, ConnectFails(e) PROVE DialInv'
    BY <1>3 DEF ConnectFails, Fail, Returns
  <1>4. ASSUME NEW e \in Dials, ConnectSucceeds(e) PROVE DialInv'
    BY <1>4 DEF ConnectSucceeds
  <1>5. ASSUME NEW e \in Dials, SubscribeSucceeds(e) PROVE DialInv'
    BY <1>5 DEF SubscribeSucceeds, Returns
  <1>6. ASSUME NEW e \in Dials, SubscribeFails(e) PROVE DialInv'
    BY <1>6 DEF SubscribeFails
  <1>7. ASSUME NEW e \in Dials, CloseFails(e) PROVE DialInv'
    BY <1>7 DEF CloseFails, Fail
  <1>8. ASSUME NEW e \in Dials, CloseDisconnects(e) PROVE DialInv'
    BY <1>8 DEF CloseDisconnects, Returns
  <1>9. ASSUME NEW e \in Dials, CleanupConnected(e) PROVE DialInv'
    BY <1>9 DEF CleanupConnected
  <1>10. ASSUME NEW e \in Dials, CleanupFailed(e) PROVE DialInv'
    BY <1>10 DEF CleanupFailed
  <1>11. ASSUME NEW e \in Dials, CleanupDisconnects(e) PROVE DialInv'
    BY <1>11 DEF CleanupDisconnects
  <1>12. ASSUME NEW e \in Dials, Connected(e) PROVE DialInv'
    BY <1>12 DEF Connected
  <1>13. ASSUME NEW e \in Dials, NotConnected(e) PROVE DialInv'
    BY <1>13 DEF NotConnected
  <1>14. ASSUME NEW e \in Dials, Subscribed(e) PROVE DialInv'
    BY <1>14 DEF Subscribed
  <1>15. ASSUME NEW e \in Dials, Loss(e) PROVE DialInv'
    BY <1>15 DEF Loss
  <1>16. ASSUME NEW e \in Dials, HandlerFails(e) PROVE DialInv'
    <2>1. /\ UNCHANGED <<pc, expired, connect, connection, subscribe, cleanup, result>>
          /\ handler' = [handler EXCEPT ![e] = "ended"]
          /\ closed' = [closed EXCEPT ![e] = TRUE]
      BY <1>16, Zenon DEF HandlerFails, Fail
    <2>2. \A d \in Dials : d # e => reason'[d] = reason[d]
      BY <1>16 DEF HandlerFails, Fail
    <2>3. reason[e] \/ ~closed[e] => reason'[e]
      <3> DEFINE r == reason[e] \/ (TRUE /\ ~closed[e])
      <3>1. reason' = [reason EXCEPT ![e] = r]
        BY <1>16, Zenon DEF HandlerFails, Fail
      <3>2. reason'[e] = r
        <4> HIDE DEF r
        <4> QED
          BY <3>1
      <3> QED
        BY <3>2, Zenon
    <2>4. closed'[e]
      BY <2>1
    <2>5. \A d \in Dials : d # e => closed'[d] = closed[d] /\ handler'[d] = handler[d]
      BY <2>1
    <2> QED
      BY <2>1, <2>2, <2>3, <2>4, <2>5
  <1>17. ASSUME NEW e \in Dials, Expire(e) PROVE DialInv'
    BY <1>17 DEF Expire
  <1>18. CASE UNCHANGED vars
    BY <1>18 DEF vars
  <1> QED
    BY <1>1, <1>2, <1>3, <1>4, <1>5, <1>6, <1>7, <1>8, <1>9, <1>10, <1>11, <1>12,
       <1>13, <1>14, <1>15, <1>16, <1>17, <1>18
       DEF Next, DialerStep, CleanupStep

\* The inductive invariant holds in every reachable state, for any number of dials.
THEOREM DialInvariant == Spec => []IInv
  <1>1. IInv /\ [Next]_vars => IInv'
    BY TypeStep, DialStep DEF IInv
  <1> QED
    BY InitEstablishes, <1>1, PTL DEF Spec

\* The variables keep their types, and a dial has a result exactly when it has returned.
THEOREM TypeCorrect == Spec => []TypeOK
  <1>1. IInv => TypeOK
    BY DEF IInv
  <1> QED
    BY <1>1, DialInvariant, PTL

\* Whenever a dial has failed, whatever its connect is doing, the Printer is closed and
\* what is or may yet be connected has a goroutine that will take it down.
THEOREM AbandonedHandled == Spec => []AbandonedIsHandled
  <1>1. IInv => AbandonedIsHandled
    BY DEF IInv, DialInv, AbandonedInv, AbandonedIsHandled
  <1> QED
    BY <1>1, DialInvariant, PTL

\* A Printer that was handed out and has lost its connection, even before DialMQTT
\* returned it, is closed with a reason or about to be.
THEOREM PrinterHears == Spec => []PrinterNotDeaf
  <1>1. IInv => PrinterNotDeaf
    BY DEF IInv, TypeOK, DialInv, ConnectInv, LossInv, PrinterNotDeaf
  <1> QED
    BY <1>1, DialInvariant, PTL
=============================================================================
