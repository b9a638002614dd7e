---------------------------- MODULE PrinterProofs ----------------------------
(***************************************************************************)
(* Proofs about PrinterSession, for any number of callers, commands,       *)
(* fields and messages and any capacity of the channels; and, from them,   *)
(* about PrinterCommand.  The constants PrinterCommand adds to the session *)
(* restrict those of the session only in that somebody may call it.        *)
(***************************************************************************)
EXTENDS PrinterContract, PrinterCommand, WellFoundedInduction, TLAPS

-----------------------------------------------------------------------------
(* The inductive invariant, in layers: each is preserved by a step that      *)
(* starts in the layers above it.                                            *)

\* Where a call has a key, and where it must be a Request's.
Active(c) == pc[c] \in {"register", "send", "publish", "token", "await", "unregister"}

CallOK ==
    \A c \in Callers :
        /\ Active(c) => call[c].op \in {"request", "send"} /\ call[c].key \in Keys
        /\ ~Active(c) => call[c] = NoCall
        /\ pc[c] \in {"register", "await", "unregister"} => call[c].op = "request"

\* The report receive is working on has a number within the bound.
NumberOK ==
    /\ pc[Receiver] = "lock" => received < MaxReports
    /\ pc[Receiver] \in {"dispatch", "enqueue"} => received >= 1

TypeInv == TypeOK /\ CallOK /\ NumberOK

\* A nonblocking send on a bounded channel of S keeps it one, and leaves it
\* non-empty when it can hold anything.
LEMMA OfferType ==
  ASSUME NEW S, NEW ch \in Seq(S), NEW v \in S, NEW n \in Nat, Len(ch) <= n
  PROVE  /\ Offer(ch, v, n) \in Seq(S)
         /\ Len(Offer(ch, v, n)) <= n
         /\ n > 0 => Offer(ch, v, n) # <<>>
  BY DEF Offer

\* A field the status does not have is a value of one.
LEMMA AbsentType == NoMembers \in [Members -> 0..MaxReports] /\ Absent \in Value
  <1>1. NoMembers \in [Members -> 0..MaxReports]
    BY BoundsAssumption DEF NoMembers
  <1> QED
    BY <1>1, BoundsAssumption DEF Absent, Value

\* Merging a delta into a value keeps it one.
LEMMA MergeType ==
  ASSUME NEW old \in Value, NEW new \in {Scalar, Unsaid} \cup SUBSET Members,
         received \in 0..MaxReports
  PROVE  MergeValue(old, new) \in Value
  <1>1. CASE new = Unsaid
    BY <1>1 DEF MergeValue
  <1>2. CASE new = Scalar /\ new # Unsaid
    <2>1. MergeValue(old, new) = [kind |-> "scalar", by |-> received, members |-> NoMembers]
      BY <1>2 DEF MergeValue, Absent
    <2> QED
      BY <2>1, AbsentType DEF Value
  <1>3. CASE new # Scalar /\ new # Unsaid
    <2> DEFINE base == IF old.kind = "object" THEN old.members ELSE NoMembers
               merged == [m \in Members |-> IF m \in new THEN received ELSE base[m]]
    <2>1. base \in [Members -> 0..MaxReports]
      BY AbsentType DEF Value
    <2>2. merged \in [Members -> 0..MaxReports]
      BY <2>1
    <2>3. MergeValue(old, new) = [kind |-> "object", by |-> 0, members |-> merged]
      BY <1>3 DEF MergeValue
    <2> HIDE DEF merged
    <2> QED
      BY <2>2, <2>3, BoundsAssumption DEF Value
  <1> QED
    BY <1>1, <1>2, <1>3

LEMMA InitTypeInv == Init => TypeInv
  <1> SUFFICES ASSUME Init PROVE TypeInv
    OBVIOUS
  <1> USE ProcessesAssumption, BoundsAssumption, PayloadsAssumption DEF Init
  <1>1. FlagsOK
    BY DEF FlagsOK
  <1>2. SharedOK
    BY AbsentType DEF SharedOK
  <1>3. LocalOK
    <2>1. pc \in [Processes -> AllPCs] /\ \A p \in Processes : pc[p] \in PCs(p)
      BY DEF AllPCs, PCs, CallerPCs
    <2>2. slot \in [Callers -> Seq(Reply)] /\ \A c \in Callers : Len(slot[c]) <= 1
      OBVIOUS
    <2> QED
      BY <2>1, <2>2 DEF LocalOK, Calls, Outcomes
  <1>4. HistoryOK
    BY DEF HistoryOK
  <1>5. CallOK
    BY DEF CallOK, Active, Processes, NoCall
  <1>6. NumberOK
    BY DEF NumberOK, Processes
  <1> QED
    BY <1>1, <1>2, <1>3, <1>4, <1>5, <1>6 DEF TypeInv, TypeOK

\* What receive works on is a message.
LEMMA PayloadType ==
  ASSUME payload \in Payloads \cup {NoPayload}
  PROVE  payload.fields \in Delta /\ payload.replies \in SUBSET Reply
  BY PayloadsAssumption DEF NoPayload, Silence, Payload, Delta

\* A caller that returns, from anywhere, leaves well-typed locals behind.
LEMMA ReturnType ==
  ASSUME TypeInv, NEW c \in Callers, Return(c),
         UNCHANGED <<historyVars, slot, payload>>, SharedOK', FlagsOK'
  PROVE  TypeInv'
  <1> USE ProcessesAssumption DEF TypeInv, TypeOK, LocalOK, Return, Goto, historyVars
  <1>1. LocalOK'
    BY DEF Calls, NoCall, Outcomes, Processes, AllPCs, PCs, CallerPCs
  <1>2. HistoryOK'
    BY DEF HistoryOK
  <1>3. CallOK' /\ NumberOK'
    BY DEF CallOK, NumberOK, Active, Processes, NoCall
  <1> QED
    BY <1>1, <1>2, <1>3

LEMMA LeaveType ==
  ASSUME TypeInv, NEW c \in Callers, NEW o \in Outcomes,
         pc[c] \in {"send", "publish", "token", "await"}, Leave(c, o),
         UNCHANGED <<sharedVars, historyVars, slot, payload>>
  PROVE  TypeInv'
  <1>1. CASE call[c].op = "request"
    <2> USE <1>1, ProcessesAssumption
        DEF TypeInv, TypeOK, LocalOK, Leave, Goto, sharedVars, historyVars
    <2>1. LocalOK'
      BY DEF Processes, AllPCs, PCs, CallerPCs
    <2>2. SharedOK' /\ HistoryOK'
      BY DEF SharedOK, HistoryOK
    <2>3. FlagsOK'
      BY DEF FlagsOK
    <2>4. CallOK' /\ NumberOK'
      BY DEF CallOK, NumberOK, Active, Processes
    <2> QED
      BY <2>1, <2>2, <2>3, <2>4
  <1>2. CASE call[c].op # "request"
    <2>1. Return(c)
      BY <1>2 DEF Leave
    <2>2. SharedOK'
      BY DEF TypeInv, TypeOK, SharedOK, sharedVars
    <2>3. FlagsOK'
      BY <2>1 DEF TypeInv, TypeOK, FlagsOK, sharedVars, historyVars, Return
    <2> QED
      BY <2>1, <2>2, <2>3, ReturnType
  <1> QED
    BY <1>1, <1>2

LEMMA OfferErrors ==
  ASSUME SharedOK, NEW v \in {"malformed", "lost"}
  PROVE  LET ch == Offer(errors, v, BufferSize)
         IN  /\ ch \in Seq({"malformed", "lost"})
             /\ Len(ch) <= BufferSize
             /\ ch # <<>>
  <1> DEFINE S == {"malformed", "lost"}
  <1>1. errors \in Seq(S) /\ v \in S /\ BufferSize \in Nat /\ BufferSize > 0
           /\ Len(errors) <= BufferSize
    BY BoundsAssumption DEF SharedOK
  <1> HIDE DEF S
  <1>2. /\ Offer(errors, v, BufferSize) \in Seq(S)
        /\ Len(Offer(errors, v, BufferSize)) <= BufferSize
        /\ Offer(errors, v, BufferSize) # <<>>
    BY <1>1, OfferType
  <1> QED
    BY <1>2 DEF S

LEMMA NextTypeInv == TypeInv /\ [Next]_vars => TypeInv'
  <1> SUFFICES ASSUME TypeInv, [Next]_vars PROVE TypeInv'
    OBVIOUS
  <1> USE ProcessesAssumption, BoundsAssumption
  <1>1. ASSUME NEW c \in Callers, SendRejected(c) PROVE TypeInv'
    BY <1>1, LeaveType DEF SendRejected, Outcomes
  <1>2. ASSUME NEW c \in Callers, SendCancelled(c) PROVE TypeInv'
    BY <1>2, LeaveType DEF SendCancelled, Outcomes
  <1>3. ASSUME NEW c \in Callers, SendClosed(c) PROVE TypeInv'
    BY <1>3, LeaveType DEF SendClosed, Outcomes
  <1>4. ASSUME NEW c \in Callers, PublishOffline(c) PROVE TypeInv'
    BY <1>4, LeaveType DEF PublishOffline, Outcomes
  <1>5. ASSUME NEW c \in Callers, TokenFailed(c) PROVE TypeInv'
    BY <1>5, LeaveType DEF TokenFailed, Outcomes
  <1>6. ASSUME NEW c \in Callers, TokenCancelled(c) PROVE TypeInv'
    BY <1>6, LeaveType DEF TokenCancelled, Outcomes
  <1>7. ASSUME NEW c \in Callers, AwaitCancelled(c) PROVE TypeInv'
    BY <1>7, LeaveType DEF AwaitCancelled, Outcomes
  <1>8. ASSUME NEW c \in Callers, AwaitClosed(c) PROVE TypeInv'
    BY <1>8, LeaveType DEF AwaitClosed, Outcomes
  <1>9. ASSUME NEW c \in Callers, AwaitReply(c) PROVE TypeInv'
    <2>1. slot[c] \in Seq(Reply) /\ slot[c] # <<>>
      BY <1>9 DEF AwaitReply, TypeInv, TypeOK, LocalOK
    <2>2. Head(slot[c]) \in Reply
      BY <2>1
    <2>3. Head(slot[c]).result \in Outcomes
      BY <2>2 DEF Reply, Outcomes
    <2> QED
      BY <1>9, <2>3, LeaveType DEF AwaitReply
  <1>10. ASSUME NEW c \in Callers, TokenDelivered(c), call[c].op # "request"
        PROVE  TypeInv'
    <2>1. SharedOK' /\ FlagsOK'
      BY <1>10 DEF TokenDelivered, Return, TypeInv, TypeOK, SharedOK, FlagsOK,
                 sharedVars, historyVars
    <2> QED
      BY <1>10, <2>1, ReturnType DEF TokenDelivered
  <1> USE DEF TypeInv, TypeOK, FlagsOK, SharedOK, LocalOK, HistoryOK, CallOK, NumberOK,
              Active, Processes, AllPCs, PCs, CallerPCs, Goto,
              sharedVars, localVars, historyVars
  <1>11. ASSUME NEW c \in Callers, TokenDelivered(c), call[c].op = "request"
        PROVE  TypeInv'
    <2>1. /\ pc' = [pc EXCEPT ![c] = "await"]
          /\ UNCHANGED <<sharedVars, historyVars, slot, payload, call, expired, outcome>>
      BY <1>11 DEF TokenDelivered
    <2>2. pc[c] = "token"
      BY <1>11 DEF TokenDelivered
    <2> QED
      BY <1>11, <2>1, <2>2
  <1>12. ASSUME NEW c \in Callers, NEW op \in {"request", "send"}, NEW cmd \in Commands,
               Encode(c, op, cmd)
        PROVE  TypeInv'
    BY <1>12 DEF Encode, Calls, Keys, Seqs, NoCall
  <1>13. ASSUME NEW c \in Callers, Register(c) PROVE TypeInv'
    BY <1>13 DEF Register
  <1>14. ASSUME NEW c \in Callers, SendOpen(c) PROVE TypeInv'
    BY <1>14 DEF SendOpen
  <1>15. ASSUME NEW c \in Callers, Publish(c) PROVE TypeInv'
    BY <1>15 DEF Publish
  <1>16. ASSUME NEW c \in Callers, ContextExpires(c) PROVE TypeInv'
    BY <1>16 DEF ContextExpires
  <1>17. ASSUME NEW c \in Callers, CloseBegin(c) PROVE TypeInv'
    BY <1>17 DEF CloseBegin
  <1>18. ASSUME NEW c \in Callers, Unregister(c) PROVE TypeInv'
    BY <1>18 DEF Unregister, Return, Calls, NoCall, Outcomes
  <1>19. ASSUME NEW c \in Callers, Disconnect(c) PROVE TypeInv'
    BY <1>19 DEF Disconnect, Return, Calls, NoCall, Outcomes
  <1>20. ASSUME NEW p \in Callers \cup {Lost}, FailAlreadyClosed(p) PROVE TypeInv'
    BY <1>20 DEF FailAlreadyClosed, AfterFail
  <1>21. ASSUME NEW p \in Callers \cup {Lost}, FailLock(p) PROVE TypeInv'
    BY <1>21 DEF FailLock
  <1>22. ASSUME NEW p \in Callers \cup {Lost}, FailPush(p) PROVE TypeInv'
    <2>1. errors' \in Seq({"malformed", "lost"}) /\ Len(errors') <= BufferSize
      BY <1>22, OfferErrors DEF FailPush
    <2> QED
      BY <1>22, <2>1 DEF FailPush
  <1>23. ASSUME NEW p \in Callers \cup {Lost}, FailClose(p) PROVE TypeInv'
    BY <1>23 DEF FailClose, AfterFail
  <1>24. CASE ConnectionLost
    BY <1>24 DEF ConnectionLost
  <1>25. CASE ReceiveClosed
    BY <1>25 DEF ReceiveClosed
  <1>26. CASE ReceiveLock
    BY <1>26, PayloadType DEF ReceiveLock, Report
  <1>27. CASE TakeReport
    BY <1>27 DEF TakeReport
  <1>28. CASE TakeError
    BY <1>28 DEF TakeError
  <1>29. CASE ReceiveMalformed
    <2>1. errors' \in Seq({"malformed", "lost"}) /\ Len(errors') <= BufferSize
      BY <1>29, OfferErrors DEF ReceiveMalformed
    <2> QED
      BY <1>29, <2>1 DEF ReceiveMalformed
  <1>30. CASE ReceiveDispatch
    <2>1. slot' \in [Callers -> Seq(Reply)] /\ \A c \in Callers : Len(slot'[c]) <= 1
      <3> SUFFICES ASSUME NEW c \in Callers
                   PROVE  slot'[c] \in Seq(Reply) /\ Len(slot'[c]) <= 1
        BY <1>30 DEF ReceiveDispatch, DispatchReplies
      <3>1. slot[c] \in Seq(Reply) /\ Len(slot[c]) <= 1
        OBVIOUS
      <3>2. CASE RepliesFor(c) = {}
        BY <1>30, <3>1, <3>2 DEF ReceiveDispatch, DispatchReplies
      <3>3. CASE RepliesFor(c) # {}
        <4> DEFINE r == CHOOSE r \in RepliesFor(c) : TRUE
        <4>1. r \in Reply
          BY <3>3, PayloadType DEF RepliesFor
        <4>2. slot'[c] = Offer(slot[c], r, 1)
          BY <1>30, <3>3 DEF ReceiveDispatch, DispatchReplies
        <4> HIDE DEF r
        <4> QED
          BY <3>1, <4>1, <4>2, OfferType
      <3> QED
        BY <3>2, <3>3
    <2>2. status' \in [Fields -> Value]
      <3>1. \A f \in Fields : MergeValue(status[f], payload.fields[f]) \in Value
        BY MergeType, PayloadType DEF Delta
      <3> QED
        BY <1>30, <3>1 DEF ReceiveDispatch, MergeStatus
    <2> QED
      BY <1>30, <2>1, <2>2 DEF ReceiveDispatch
  <1>31. CASE ReceiveEnqueue
    <2>1. [id |-> received, fields |-> payload.fields] \in Report
      BY <1>31, PayloadType DEF ReceiveEnqueue, Report
    <2>2. reports' \in Seq(Report) /\ Len(reports') <= BufferSize
      BY <1>31, <2>1, OfferType DEF ReceiveEnqueue
    <2>3. dropped' \in Nat
      BY <1>31 DEF ReceiveEnqueue
    <2> QED
      BY <1>31, <2>2, <2>3 DEF ReceiveEnqueue
  <1>32. ASSUME NEW m \in Payloads, ReceiveBegin(m) PROVE TypeInv'
    BY <1>32 DEF ReceiveBegin
  <1>33. CASE UNCHANGED vars
    BY <1>33 DEF vars
  <1> HIDE DEF TypeInv
  <1> QED
    BY <1>1, <1>2, <1>3, <1>4, <1>5, <1>6, <1>7, <1>8, <1>9, <1>10, <1>11, <1>12,
       <1>13, <1>14, <1>15, <1>16, <1>17, <1>18, <1>19, <1>20, <1>21, <1>22, <1>23,
       <1>24, <1>25, <1>26, <1>27, <1>28, <1>29, <1>30, <1>31, <1>32, <1>33
       DEF Next, CallerNext, SendStep, AwaitStep, FailStep, ReceiverNext, ReceiveStep

\* In every behaviour every variable has its type; in particular the channels
\* keep to their capacities and a Request always has a key.
THEOREM TypeCorrect == Spec => []TypeOK
  <1>1. Spec => []TypeInv
    BY InitTypeInv, NextTypeInv, PTL DEF Spec
  <1>2. TypeInv => TypeOK
    BY DEF TypeInv
  <1> QED
    BY <1>1, <1>2, PTL
-----------------------------------------------------------------------------
(* Layer 2: the mutex *)

\* p.mu is held by exactly the goroutine that is between its lock and unlock,
\* and only in a session that is still open.
Critical == {"push", "close", "dispatch", "enqueue"}

MutexInv ==
    /\ \A p \in Processes : mu = p <=> pc[p] \in Critical
    /\ mu # NoOne => ~closed

LEMMA InitMutexInv == Init => MutexInv
  BY ProcessesAssumption DEF Init, MutexInv, Critical, Processes

LEMMA NextMutexInv == TypeInv /\ MutexInv /\ [Next]_vars => MutexInv'
  <1> SUFFICES ASSUME TypeInv, MutexInv, [Next]_vars PROVE MutexInv'
    OBVIOUS
  <1>0. /\ pc \in [Processes -> AllPCs] /\ \A p \in Processes : pc[p] \in PCs(p)
        /\ call \in [Callers -> Calls]
    BY DEF TypeInv, TypeOK, LocalOK
  <1> USE <1>0, ProcessesAssumption
      DEF MutexInv, Critical, Processes, PCs, CallerPCs, sharedVars, localVars
  <1>1. ASSUME NEW c \in Callers, NEW op \in {"request", "send"}, NEW cmd \in Commands,
               Encode(c, op, cmd)
        PROVE  MutexInv'
    BY <1>1 DEF Encode, Goto
  <1>2. ASSUME NEW c \in Callers, SendRejected(c) PROVE MutexInv'
    BY <1>2 DEF SendRejected, Leave, Return, Goto
  <1>3. ASSUME NEW c \in Callers, SendCancelled(c) PROVE MutexInv'
    BY <1>3 DEF SendCancelled, Leave, Return, Goto
  <1>4. ASSUME NEW c \in Callers, SendClosed(c) PROVE MutexInv'
    BY <1>4 DEF SendClosed, Leave, Return, Goto
  <1>5. ASSUME NEW c \in Callers, PublishOffline(c) PROVE MutexInv'
    BY <1>5 DEF PublishOffline, Leave, Return, Goto
  <1>6. ASSUME NEW c \in Callers, TokenDelivered(c) PROVE MutexInv'
    BY <1>6 DEF TokenDelivered, Leave, Return, Goto
  <1>7. ASSUME NEW c \in Callers, TokenFailed(c) PROVE MutexInv'
    BY <1>7 DEF TokenFailed, Leave, Return, Goto
  <1>8. ASSUME NEW c \in Callers, TokenCancelled(c) PROVE MutexInv'
    BY <1>8 DEF TokenCancelled, Leave, Return, Goto
  <1>9. ASSUME NEW c \in Callers, AwaitCancelled(c) PROVE MutexInv'
    BY <1>9 DEF AwaitCancelled, Leave, Return, Goto
  <1>10. ASSUME NEW c \in Callers, AwaitClosed(c) PROVE MutexInv'
    BY <1>10 DEF AwaitClosed, Leave, Return, Goto
  <1>11. ASSUME NEW c \in Callers, AwaitReply(c) PROVE MutexInv'
    BY <1>11 DEF AwaitReply, Leave, Return, Goto
  <1>12. ASSUME NEW c \in Callers, Register(c) PROVE MutexInv'
    BY <1>12 DEF Register, Goto
  <1>13. ASSUME NEW c \in Callers, SendOpen(c) PROVE MutexInv'
    BY <1>13 DEF SendOpen, Goto
  <1>14. ASSUME NEW c \in Callers, Publish(c) PROVE MutexInv'
    BY <1>14 DEF Publish, Goto
  <1>15. ASSUME NEW c \in Callers, ContextExpires(c) PROVE MutexInv'
    BY <1>15 DEF ContextExpires
  <1>16. ASSUME NEW c \in Callers, CloseBegin(c) PROVE MutexInv'
    BY <1>16 DEF CloseBegin, Goto
  <1>17. ASSUME NEW c \in Callers, Unregister(c) PROVE MutexInv'
    BY <1>17 DEF Unregister, Return, Goto
  <1>18. ASSUME NEW c \in Callers, Disconnect(c) PROVE MutexInv'
    BY <1>18 DEF Disconnect, Return, Goto
  <1>19. ASSUME NEW p \in Callers \cup {Lost}, FailAlreadyClosed(p) PROVE MutexInv'
    BY <1>19 DEF FailAlreadyClosed, Goto, AfterFail
  <1>20. ASSUME NEW p \in Callers \cup {Lost}, FailLock(p) PROVE MutexInv'
    BY <1>20 DEF FailLock, Goto, AfterFail
  <1>21. ASSUME NEW p \in Callers \cup {Lost}, FailPush(p) PROVE MutexInv'
    BY <1>21 DEF FailPush, Goto, AfterFail
  <1>22. ASSUME NEW p \in Callers \cup {Lost}, FailClose(p) PROVE MutexInv'
    BY <1>22 DEF FailClose, Goto, AfterFail
  <1>23. CASE ConnectionLost
    BY <1>23 DEF ConnectionLost, Goto
  <1>24. CASE ReceiveClosed
    BY <1>24 DEF ReceiveClosed, Goto
  <1>25. CASE ReceiveLock
    BY <1>25 DEF ReceiveLock, Goto
  <1>26. CASE ReceiveMalformed
    BY <1>26 DEF ReceiveMalformed
  <1>27. CASE ReceiveDispatch
    BY <1>27 DEF ReceiveDispatch, Goto, DispatchReplies, MergeStatus
  <1>28. CASE ReceiveEnqueue
    BY <1>28 DEF ReceiveEnqueue, Goto
  <1>29. CASE TakeReport
    BY <1>29 DEF TakeReport
  <1>30. CASE TakeError
    BY <1>30 DEF TakeError
  <1>31. ASSUME NEW m \in Payloads, ReceiveBegin(m) PROVE MutexInv'
    BY <1>31 DEF ReceiveBegin, Goto
  <1>32. CASE UNCHANGED vars
    BY <1>32 DEF vars
  <1> QED
    BY <1>1, <1>2, <1>3, <1>4, <1>5, <1>6, <1>7, <1>8, <1>9, <1>10, <1>11, <1>12,
       <1>13, <1>14, <1>15, <1>16, <1>17, <1>18, <1>19, <1>20, <1>21, <1>22, <1>23,
       <1>24, <1>25, <1>26, <1>27, <1>28, <1>29, <1>30, <1>31, <1>32
       DEF Next, CallerNext, SendStep, AwaitStep, FailStep, ReceiverNext, ReceiveStep

LEMMA MutexCorrect == Spec => [](TypeInv /\ MutexInv)
  BY InitTypeInv, NextTypeInv, InitMutexInv, NextMutexInv, PTL DEF Spec

-----------------------------------------------------------------------------
(* Layer 3: closing, the reason of a loss, and the report count *)

\* Between the push of the reason and close(p.done) the reason is there, unless
\* a consumer was faster.
ReasonPushed == pc[Lost] = "close" /\ ~drained => errors # <<>>

CloseInv == DoneClosedOnce /\ ReasonPushed /\ LossHasReason /\ NothingUncounted

LEMMA InitCloseInv == Init => CloseInv
  BY ProcessesAssumption DEF Init, CloseInv, DoneClosedOnce, ReasonPushed, LossHasReason,
     NothingUncounted, Processes

LEMMA NextCloseInv == TypeInv /\ MutexInv /\ CloseInv /\ [Next]_vars => CloseInv'
  <1> SUFFICES ASSUME TypeInv, MutexInv, CloseInv, [Next]_vars PROVE CloseInv'
    OBVIOUS
  <1>0. /\ pc \in [Processes -> AllPCs] /\ \A p \in Processes : pc[p] \in PCs(p)
        /\ SharedOK /\ closes \in Nat /\ taken \in Nat /\ received \in Nat
    BY BoundsAssumption DEF TypeInv, TypeOK, LocalOK, HistoryOK
  <1>r. reports \in Seq(Report) /\ dropped \in Nat /\ Len(reports) \in Nat
    BY <1>0 DEF SharedOK
  <1> USE <1>0, <1>r, ProcessesAssumption
      DEF CloseInv, DoneClosedOnce, ReasonPushed, LossHasReason, NothingUncounted,
          MutexInv, Critical, Processes, PCs, CallerPCs, sharedVars, localVars, historyVars
  <1>1. ASSUME NEW c \in Callers, NEW op \in {"request", "send"}, NEW cmd \in Commands,
               Encode(c, op, cmd)
        PROVE  CloseInv'
    BY <1>1 DEF Encode, Goto
  <1>2. ASSUME NEW c \in Callers, SendRejected(c) PROVE CloseInv'
    BY <1>2 DEF SendRejected, Leave, Return, Goto
  <1>3. ASSUME NEW c \in Callers, SendCancelled(c) PROVE CloseInv'
    BY <1>3 DEF SendCancelled, Leave, Return, Goto
  <1>4. ASSUME NEW c \in Callers, SendClosed(c) PROVE CloseInv'
    BY <1>4 DEF SendClosed, Leave, Return, Goto
  <1>5. ASSUME NEW c \in Callers, PublishOffline(c) PROVE CloseInv'
    BY <1>5 DEF PublishOffline, Leave, Return, Goto
  <1>6. ASSUME NEW c \in Callers, TokenDelivered(c) PROVE CloseInv'
    BY <1>6 DEF TokenDelivered, Leave, Return, Goto
  <1>7. ASSUME NEW c \in Callers, TokenFailed(c) PROVE CloseInv'
    BY <1>7 DEF TokenFailed, Leave, Return, Goto
  <1>8. ASSUME NEW c \in Callers, TokenCancelled(c) PROVE CloseInv'
    BY <1>8 DEF TokenCancelled, Leave, Return, Goto
  <1>9. ASSUME NEW c \in Callers, AwaitCancelled(c) PROVE CloseInv'
    BY <1>9 DEF AwaitCancelled, Leave, Return, Goto
  <1>10. ASSUME NEW c \in Callers, AwaitClosed(c) PROVE CloseInv'
    BY <1>10 DEF AwaitClosed, Leave, Return, Goto
  <1>11. ASSUME NEW c \in Callers, AwaitReply(c) PROVE CloseInv'
    BY <1>11 DEF AwaitReply, Leave, Return, Goto
  <1>12. ASSUME NEW c \in Callers, Register(c) PROVE CloseInv'
    BY <1>12 DEF Register, Goto
  <1>13. ASSUME NEW c \in Callers, SendOpen(c) PROVE CloseInv'
    BY <1>13 DEF SendOpen, Goto
  <1>14. ASSUME NEW c \in Callers, Publish(c) PROVE CloseInv'
    BY <1>14 DEF Publish, Goto
  <1>15. ASSUME NEW c \in Callers, ContextExpires(c) PROVE CloseInv'
    BY <1>15 DEF ContextExpires
  <1>16. ASSUME NEW c \in Callers, CloseBegin(c) PROVE CloseInv'
    BY <1>16 DEF CloseBegin, Goto
  <1>17. ASSUME NEW c \in Callers, Unregister(c) PROVE CloseInv'
    BY <1>17 DEF Unregister, Return, Goto
  <1>18. ASSUME NEW c \in Callers, Disconnect(c) PROVE CloseInv'
    BY <1>18 DEF Disconnect, Return, Goto
  <1>19. ASSUME NEW p \in Callers \cup {Lost}, FailAlreadyClosed(p) PROVE CloseInv'
    BY <1>19 DEF FailAlreadyClosed, Goto, AfterFail
  <1>20. ASSUME NEW p \in Callers \cup {Lost}, FailLock(p) PROVE CloseInv'
    BY <1>20 DEF FailLock, Goto, AfterFail
  <1>21. ASSUME NEW p \in Callers \cup {Lost}, FailPush(p) PROVE CloseInv'
    <2>1. errors' # <<>>
      BY <1>21, OfferErrors DEF FailPush
    <2> QED
      BY <1>21, <2>1 DEF FailPush, Goto
  <1>22. ASSUME NEW p \in Callers \cup {Lost}, FailClose(p) PROVE CloseInv'
    BY <1>22 DEF FailClose, Goto, AfterFail
  <1>23. CASE ConnectionLost
    BY <1>23 DEF ConnectionLost, Goto
  <1>24. CASE ReceiveClosed
    BY <1>24 DEF ReceiveClosed, Goto
  <1>25. CASE ReceiveLock
    BY <1>25 DEF ReceiveLock, Goto
  <1>26. CASE ReceiveMalformed
    <2>1. errors' # <<>>
      BY <1>26, OfferErrors DEF ReceiveMalformed
    <2> QED
      BY <1>26, <2>1 DEF ReceiveMalformed
  <1>27. CASE ReceiveDispatch
    BY <1>27 DEF ReceiveDispatch, Goto, DispatchReplies, MergeStatus
  <1>28. CASE ReceiveEnqueue
    <2>1. Len(reports') + dropped' = Len(reports) + dropped + 1
      BY <1>28 DEF ReceiveEnqueue, Offer
    <2>2. dropped' \in Nat /\ Len(reports') \in Nat
      BY <1>28 DEF ReceiveEnqueue, Offer
    <2> QED
      BY <1>28, <2>1, <2>2 DEF ReceiveEnqueue, Goto
  <1>29. CASE TakeReport
    <2>1. Len(reports') = Len(reports) - 1
      BY <1>29 DEF TakeReport
    <2> QED
      BY <1>29, <2>1 DEF TakeReport
  <1>30. CASE TakeError
    BY <1>30 DEF TakeError
  <1>31. ASSUME NEW m \in Payloads, ReceiveBegin(m) PROVE CloseInv'
    BY <1>31 DEF ReceiveBegin, Goto
  <1>32. CASE UNCHANGED vars
    BY <1>32 DEF vars
  <1> QED
    BY <1>1, <1>2, <1>3, <1>4, <1>5, <1>6, <1>7, <1>8, <1>9, <1>10, <1>11, <1>12,
       <1>13, <1>14, <1>15, <1>16, <1>17, <1>18, <1>19, <1>20, <1>21, <1>22, <1>23,
       <1>24, <1>25, <1>26, <1>27, <1>28, <1>29, <1>30, <1>31, <1>32
       DEF Next, CallerNext, SendStep, AwaitStep, FailStep, ReceiverNext, ReceiveStep

LEMMA CloseCorrect == Spec => [](TypeInv /\ MutexInv /\ CloseInv)
  BY MutexCorrect, InitCloseInv, NextCloseInv, PTL DEF Spec

\* However many callers of Close race with each other and with the loss of the
\* connection, close(p.done) runs at most once, exactly when p.closed is set.
THEOREM ClosedAtMostOnce == Spec => []DoneClosedOnce
  <1>1. CloseInv => DoneClosedOnce
    BY DEF CloseInv
  <1> QED
    BY <1>1, CloseCorrect, PTL

\* A session that died of a lost connection shows it: unless an error was taken
\* since, Errors is not empty once Done is closed.
THEOREM LossIsExplained == Spec => []LossHasReason
  <1>1. CloseInv => LossHasReason
    BY DEF CloseInv
  <1> QED
    BY <1>1, CloseCorrect, PTL

\* For any capacity of the channel, accepted messages are on the channel, taken,
\* or counted as dropped.
THEOREM ReportsAreCounted == Spec => []NothingUncounted
  <1>1. CloseInv => NothingUncounted
    BY DEF CloseInv
  <1> QED
    BY <1>1, CloseCorrect, PTL

-----------------------------------------------------------------------------
(* Layer 4: requests and their replies *)

\* The keys of the calls under way are distinct: their numbers come from p.seq.
KeysDistinct ==
    /\ \A c \in Callers : Active(c) => call[c].key[2] <= seq
    /\ \A c, d \in Callers :
          Active(c) /\ Active(d) /\ call[c].key = call[d].key => c = d

\* Only a request in flight can have been answered, or hold a reply.
AnsweredInFlight ==
    /\ answered \subseteq Callers
    /\ \A c \in answered : InFlight(c)

RequestInv == KeysDistinct /\ PendingExact /\ ReplyIsOwn /\ AnsweredInFlight /\ NoLostReply

LEMMA InitRequestInv == Init => RequestInv
  <1> SUFFICES ASSUME Init PROVE RequestInv
    OBVIOUS
  <1> USE ProcessesAssumption DEF Init
  <1>1. \A c \in Callers : ~Active(c) /\ ~InFlight(c) /\ slot[c] = <<>>
    BY DEF Active, InFlight, Processes, NoCall
  <1>2. KeysDistinct /\ AnsweredInFlight /\ NoLostReply
    BY <1>1 DEF KeysDistinct, AnsweredInFlight, NoLostReply
  <1>3. PendingExact
    BY <1>1 DEF PendingExact, Processes
  <1>4. ReplyIsOwn
    BY <1>1 DEF ReplyIsOwn
  <1> QED
    BY <1>2, <1>3, <1>4 DEF RequestInv


\* A step that changes no entry, no reply and no number, and starts or ends no
\* request between registration and delete, keeps the invariant.
LEMMA SameRequests ==
  ASSUME RequestInv, UNCHANGED <<pending, slot, answered, seq>>,
         \A c \in Callers : /\ InFlight(c)' <=> InFlight(c)
                            /\ InFlight(c) => call'[c] = call[c]
                            /\ Active(c)' => Active(c) /\ call'[c] = call[c]
  PROVE  RequestInv'
  <1> USE DEF RequestInv
  <1>1. KeysDistinct'
    BY DEF KeysDistinct
  <1>2. PendingExact'
    BY DEF PendingExact
  <1>3. ReplyIsOwn'
    <2> SUFFICES ASSUME NEW c \in Callers, NEW i \in DOMAIN slot[c]
                 PROVE  InFlight(c)' /\ slot[c][i].key = call'[c].key
      BY DEF ReplyIsOwn
    <2>1. InFlight(c) /\ slot[c][i].key = call[c].key
      BY DEF ReplyIsOwn
    <2> QED
      BY <2>1
  <1>4. AnsweredInFlight' /\ NoLostReply'
    BY DEF AnsweredInFlight, NoLostReply
  <1> QED
    BY <1>1, <1>2, <1>3, <1>4

\* What a request or a send that leaves early keeps of the calls under way.
LEMMA LeaveSame ==
  ASSUME TypeInv, NEW d \in Callers, NEW o, pc[d] \in {"send", "publish", "token", "await"},
         \/ Leave(d, o)
         \/ Return(d) /\ call[d].op # "request"
         \/ Goto(d, "await") /\ UNCHANGED call
  PROVE  \A c \in Callers : /\ InFlight(c)' <=> InFlight(c)
                            /\ InFlight(c) => call'[c] = call[c]
                            /\ Active(c)' => Active(c) /\ call'[c] = call[c]
  <1>0. /\ pc \in [Processes -> AllPCs] /\ call \in [Callers -> Calls] /\ d \in Processes
        /\ Callers \subseteq Processes
    BY DEF TypeInv, TypeOK, LocalOK, Processes
  <1> SUFFICES ASSUME NEW c \in Callers
               PROVE  /\ InFlight(c)' <=> InFlight(c)
                      /\ InFlight(c) => call'[c] = call[c]
                      /\ Active(c)' => Active(c) /\ call'[c] = call[c]
    OBVIOUS
  <1>1. CASE c # d
    BY <1>0, <1>1 DEF Leave, Return, Goto, InFlight, Active
  <1>2. CASE c = d
    BY <1>0, <1>2 DEF Leave, Return, Goto, InFlight, Active, NoCall
  <1> QED
    BY <1>1, <1>2

LEMMA NextRequestInv == TypeInv /\ RequestInv /\ [Next]_vars => RequestInv'
  <1> SUFFICES ASSUME TypeInv, RequestInv, [Next]_vars PROVE RequestInv'
    OBVIOUS
  <1>0. /\ pc \in [Processes -> AllPCs] /\ \A p \in Processes : pc[p] \in PCs(p)
        /\ call \in [Callers -> Calls] /\ CallOK
        /\ slot \in [Callers -> Seq(Reply)]
        /\ seq \in Nat /\ pending \in [Keys -> Callers \cup {NoOne}] /\ answered \subseteq Callers
        /\ \A c \in Callers : Active(c) => call[c].key \in Keys
        /\ Callers \subseteq Processes
    BY BoundsAssumption DEF TypeInv, TypeOK, SharedOK, LocalOK, HistoryOK, CallOK, Processes
  <1>1. ASSUME NEW c \in Callers, NEW op \in {"request", "send"}, NEW cmd \in Commands,
               Encode(c, op, cmd)
        PROVE  RequestInv'
    <2> DEFINE k == <<cmd, seq + 1>>
    <2>1. /\ call' = [call EXCEPT ![c] = [op |-> op, key |-> k]]
          /\ seq' = seq + 1 /\ ~Active(c) /\ ~InFlight(c)
          /\ UNCHANGED <<pending, slot, answered>>
          /\ pc' \in [Processes -> AllPCs] /\ ~InFlight(c)'
          /\ pc'[c] \in {"register", "send"}
          /\ \A d \in Callers : d # c => pc'[d] = pc[d]
      BY <1>0, <1>1 DEF Encode, Goto, Active, InFlight, historyVars, Processes, AllPCs, CallerPCs
    <2>2. /\ \A d \in Callers : d # c => /\ InFlight(d)' <=> InFlight(d)
                                         /\ Active(d)' <=> Active(d)
                                         /\ call'[d] = call[d]
          /\ call'[c].key = k
      BY <1>0, <2>1 DEF InFlight, Active
    <2>3. KeysDistinct'
      <3>1. \A d \in Callers : d # c /\ Active(d)' => call'[d].key[2] <= seq
        BY <2>2 DEF RequestInv, KeysDistinct
      <3>2. k[2] = seq + 1
        OBVIOUS
      <3>3. \A d \in Callers : Active(d)' => call'[d].key \in Keys
        BY <1>1, NextTypeInv DEF TypeInv, CallOK
      <3>4. \A d \in Callers : Active(d)' => call'[d].key[2] \in Nat
        BY <3>3 DEF Keys, Seqs
      <3> HIDE DEF k
      <3>5. \A d \in Callers : Active(d)' => call'[d].key[2] <= seq'
        BY <1>0, <2>1, <2>2, <3>1, <3>2, <3>4
      <3>6. \A d \in Callers : d # c /\ Active(d)' => call'[d].key # k
        BY <1>0, <3>1, <3>2, <3>4
      <3>7. \A d, e \in Callers : d # c /\ e # c /\ Active(d)' /\ Active(e)'
                                     /\ call'[d].key = call'[e].key => d = e
        BY <2>2 DEF RequestInv, KeysDistinct
      <3> QED
        BY <2>2, <3>5, <3>6, <3>7 DEF KeysDistinct
    <2> HIDE DEF k
    <2>4. PendingExact'
      BY <2>1, <2>2 DEF RequestInv, PendingExact
    <2>5. ReplyIsOwn'
      <3> SUFFICES ASSUME NEW d \in Callers, NEW i \in DOMAIN slot[d]
                   PROVE  InFlight(d)' /\ slot[d][i].key = call'[d].key
        BY <2>1 DEF ReplyIsOwn
      <3>1. InFlight(d) /\ slot[d][i].key = call[d].key
        BY DEF RequestInv, ReplyIsOwn
      <3> QED
        BY <2>1, <2>2, <3>1
    <2>6. AnsweredInFlight' /\ NoLostReply'
      BY <1>0, <2>1, <2>2 DEF RequestInv, AnsweredInFlight, NoLostReply
    <2> QED
      BY <2>3, <2>4, <2>5, <2>6 DEF RequestInv
  <1>2. ASSUME NEW c \in Callers, SendRejected(c) PROVE RequestInv'
    BY <1>2, LeaveSame, SameRequests DEF SendRejected, sharedVars, historyVars
  <1>3. ASSUME NEW c \in Callers, SendCancelled(c) PROVE RequestInv'
    BY <1>3, LeaveSame, SameRequests DEF SendCancelled, sharedVars, historyVars
  <1>4. ASSUME NEW c \in Callers, SendClosed(c) PROVE RequestInv'
    BY <1>4, LeaveSame, SameRequests DEF SendClosed, sharedVars, historyVars
  <1>5. ASSUME NEW c \in Callers, PublishOffline(c) PROVE RequestInv'
    BY <1>5, LeaveSame, SameRequests DEF PublishOffline, sharedVars, historyVars
  <1>6. ASSUME NEW c \in Callers, TokenDelivered(c) PROVE RequestInv'
    BY <1>6, LeaveSame, SameRequests DEF TokenDelivered, sharedVars, historyVars
  <1>7. ASSUME NEW c \in Callers, TokenFailed(c) PROVE RequestInv'
    BY <1>7, LeaveSame, SameRequests DEF TokenFailed, sharedVars, historyVars
  <1>8. ASSUME NEW c \in Callers, TokenCancelled(c) PROVE RequestInv'
    BY <1>8, LeaveSame, SameRequests DEF TokenCancelled, sharedVars, historyVars
  <1>9. ASSUME NEW c \in Callers, AwaitCancelled(c) PROVE RequestInv'
    BY <1>9, LeaveSame, SameRequests DEF AwaitCancelled, sharedVars, historyVars
  <1>10. ASSUME NEW c \in Callers, AwaitClosed(c) PROVE RequestInv'
    BY <1>10, LeaveSame, SameRequests DEF AwaitClosed, sharedVars, historyVars
  <1>11. ASSUME NEW c \in Callers, AwaitReply(c) PROVE RequestInv'
    BY <1>11, LeaveSame, SameRequests DEF AwaitReply, sharedVars, historyVars
  <1>12. ASSUME NEW c \in Callers, Register(c) PROVE RequestInv'
    <2>1. /\ Active(c) /\ ~InFlight(c) /\ InFlight(c)' /\ Active(c)'
          /\ call[c].key \in Keys /\ UNCHANGED <<call, slot, answered, seq>>
          /\ pending' = [pending EXCEPT ![call[c].key] = c]
          /\ \A d \in Callers : d # c => /\ InFlight(d)' <=> InFlight(d)
                                         /\ Active(d)' <=> Active(d)
      BY <1>0, <1>12 DEF Register, Goto, Active, InFlight, CallOK, historyVars
    <2>2. KeysDistinct'
      BY <2>1 DEF RequestInv, KeysDistinct
    <2>3. PendingExact'
      <3>1. \A d \in Callers : d # c /\ InFlight(d) => call[d].key # call[c].key
        BY <1>0, <2>1 DEF RequestInv, KeysDistinct, InFlight, Active
      <3> QED
        BY <1>0, <2>1, <3>1 DEF RequestInv, PendingExact
    <2>4. ReplyIsOwn'
      <3> SUFFICES ASSUME NEW d \in Callers, NEW i \in DOMAIN slot[d]
                   PROVE  InFlight(d)' /\ slot[d][i].key = call[d].key
        BY <2>1 DEF ReplyIsOwn
      <3> QED
        BY <2>1 DEF RequestInv, ReplyIsOwn
    <2>5. AnsweredInFlight' /\ NoLostReply'
      BY <1>0, <2>1 DEF RequestInv, AnsweredInFlight, NoLostReply
    <2> QED
      BY <2>2, <2>3, <2>4, <2>5 DEF RequestInv
  <1>13. ASSUME NEW c \in Callers, SendOpen(c) PROVE RequestInv'
    BY <1>0, <1>13, SameRequests DEF SendOpen, Goto, Active, InFlight, sharedVars, historyVars
  <1>14. ASSUME NEW c \in Callers, Publish(c) PROVE RequestInv'
    BY <1>0, <1>14, SameRequests DEF Publish, Goto, Active, InFlight, sharedVars, historyVars
  <1>15. ASSUME NEW c \in Callers, ContextExpires(c) PROVE RequestInv'
    BY <1>0, <1>15, SameRequests DEF ContextExpires, Goto, Active, InFlight, sharedVars, historyVars
  <1>16. ASSUME NEW c \in Callers, CloseBegin(c) PROVE RequestInv'
    BY <1>0, <1>16, SameRequests DEF CloseBegin, Goto, Active, InFlight, sharedVars, historyVars
  <1>17. ASSUME NEW c \in Callers, Unregister(c) PROVE RequestInv'
    <2>1. /\ InFlight(c) /\ ~InFlight(c)' /\ ~Active(c)'
          /\ call[c].key \in Keys /\ UNCHANGED seq
          /\ slot' = [slot EXCEPT ![c] = <<>>] /\ answered' = answered \ {c}
          /\ pending' = [pending EXCEPT ![call[c].key] = NoOne]
          /\ \A d \in Callers : d # c => /\ InFlight(d)' <=> InFlight(d)
                                         /\ Active(d)' <=> Active(d)
                                         /\ call'[d] = call[d]
      BY <1>0, <1>17 DEF Unregister, Return, Goto, Active, InFlight, CallOK, NoCall
    <2>2. KeysDistinct'
      BY <2>1 DEF RequestInv, KeysDistinct
    <2>3. PendingExact'
      <3>1. \A d \in Callers : d # c /\ InFlight(d) => call[d].key # call[c].key
        BY <1>0, <2>1 DEF RequestInv, KeysDistinct, InFlight, Active
      <3> SUFFICES ASSUME NEW k \in Keys, NEW d \in Callers
                   PROVE  pending'[k] = d <=> InFlight(d)' /\ call'[d].key = k
        BY DEF PendingExact
      <3>2. pending[k] = d <=> InFlight(d) /\ call[d].key = k
        BY DEF RequestInv, PendingExact
      <3>3. CASE d = c
        BY <1>0, <2>1, <3>2, <3>3, ProcessesAssumption DEF Processes
      <3>4. CASE d # c
        BY <1>0, <2>1, <3>1, <3>2, <3>4, ProcessesAssumption DEF Processes
      <3> QED
        BY <3>3, <3>4
    <2>4. ReplyIsOwn'
      <3> SUFFICES ASSUME NEW d \in Callers, NEW i \in DOMAIN slot'[d]
                   PROVE  InFlight(d)' /\ slot'[d][i].key = call'[d].key
        BY DEF ReplyIsOwn
      <3>1. d # c /\ slot'[d] = slot[d]
        BY <1>0, <2>1
      <3>2. InFlight(d) /\ slot[d][i].key = call[d].key
        BY <3>1 DEF RequestInv, ReplyIsOwn
      <3> QED
        BY <2>1, <3>1, <3>2
    <2>5. AnsweredInFlight' /\ NoLostReply'
      BY <1>0, <2>1 DEF RequestInv, AnsweredInFlight, NoLostReply
    <2> QED
      BY <2>2, <2>3, <2>4, <2>5 DEF RequestInv
  <1>18. ASSUME NEW c \in Callers, Disconnect(c) PROVE RequestInv'
    BY <1>0, <1>18, SameRequests DEF Disconnect, Return, Goto, Active, InFlight, CallOK, NoCall, historyVars
  <1>19. ASSUME NEW p \in Callers \cup {Lost}, FailAlreadyClosed(p) PROVE RequestInv'
    BY <1>0, <1>19, ProcessesAssumption, SameRequests
       DEF FailAlreadyClosed, AfterFail, Goto, Active, InFlight, CallOK, Processes, sharedVars, historyVars
  <1>20. ASSUME NEW p \in Callers \cup {Lost}, FailLock(p) PROVE RequestInv'
    BY <1>0, <1>20, ProcessesAssumption, SameRequests
       DEF FailLock, AfterFail, Goto, Active, InFlight, CallOK, Processes, sharedVars, historyVars
  <1>21. ASSUME NEW p \in Callers \cup {Lost}, FailPush(p) PROVE RequestInv'
    BY <1>0, <1>21, ProcessesAssumption, SameRequests
       DEF FailPush, AfterFail, Goto, Active, InFlight, CallOK, Processes, sharedVars, historyVars
  <1>22. ASSUME NEW p \in Callers \cup {Lost}, FailClose(p) PROVE RequestInv'
    BY <1>0, <1>22, ProcessesAssumption, SameRequests
       DEF FailClose, AfterFail, Goto, Active, InFlight, CallOK, Processes, sharedVars, historyVars
  <1>23. CASE ConnectionLost
    BY <1>0, <1>23, ProcessesAssumption, SameRequests
       DEF ConnectionLost, Goto, Active, InFlight, Processes, sharedVars, localVars, historyVars
  <1>24. CASE ReceiveClosed
    BY <1>0, <1>24, ProcessesAssumption, SameRequests
       DEF ReceiveClosed, Goto, Active, InFlight, Processes, sharedVars, localVars, historyVars
  <1>25. CASE ReceiveLock
    BY <1>0, <1>25, ProcessesAssumption, SameRequests
       DEF ReceiveLock, Goto, Active, InFlight, Processes, sharedVars, localVars, historyVars
  <1>26. CASE ReceiveMalformed
    BY <1>0, <1>26, ProcessesAssumption, SameRequests
       DEF ReceiveMalformed, Goto, Active, InFlight, Processes, sharedVars, localVars, historyVars
  <1>27. CASE ReceiveDispatch
    <2>1. /\ UNCHANGED <<pending, call, seq>>
          /\ \A c \in Callers : (InFlight(c)' <=> InFlight(c)) /\ (Active(c)' <=> Active(c))
      BY <1>0, <1>27, ProcessesAssumption
         DEF ReceiveDispatch, Goto, Active, InFlight, Processes
    <2>2. KeysDistinct' /\ PendingExact'
      BY <2>1 DEF RequestInv, KeysDistinct, PendingExact
    <2>3. ASSUME NEW c \in Callers, RepliesFor(c) # {}
          PROVE  \E r \in payload.replies : /\ InFlight(c) /\ call[c].key = r.key
                                            /\ slot'[c] = Offer(slot[c], r, 1)
      <3> DEFINE r == CHOOSE r \in RepliesFor(c) : TRUE
      <3>1. r \in payload.replies /\ pending[r.key] = c
        BY <2>3 DEF RepliesFor
      <3>2. payload.replies \in SUBSET Reply
        BY PayloadType DEF TypeInv, TypeOK, LocalOK
      <3>3. slot'[c] = Offer(slot[c], r, 1)
        BY <1>27, <2>3 DEF ReceiveDispatch, DispatchReplies
      <3> HIDE DEF r
      <3>4. r.key \in Keys
        BY <3>1, <3>2 DEF Reply
      <3>5. InFlight(c) /\ call[c].key = r.key
        BY <3>1, <3>4 DEF RequestInv, PendingExact
      <3> QED
        BY <3>1, <3>3, <3>5
    <2>4. ASSUME NEW c \in Callers, RepliesFor(c) = {}
          PROVE  slot'[c] = slot[c]
      BY <1>27, <2>4 DEF ReceiveDispatch, DispatchReplies
    <2>5. ReplyIsOwn'
      <3> SUFFICES ASSUME NEW c \in Callers, NEW i \in DOMAIN slot'[c]
                   PROVE  InFlight(c) /\ slot'[c][i].key = call[c].key
        BY <2>1 DEF ReplyIsOwn
      <3>1. i \in DOMAIN slot[c] => InFlight(c) /\ slot[c][i].key = call[c].key
        BY DEF RequestInv, ReplyIsOwn
      <3>2. CASE RepliesFor(c) = {}
        BY <2>4, <3>1, <3>2
      <3>3. CASE RepliesFor(c) # {}
        <4>1. PICK r \in payload.replies : /\ InFlight(c) /\ call[c].key = r.key
                                           /\ slot'[c] = Offer(slot[c], r, 1)
          BY <2>3, <3>3
        <4>2. \/ slot'[c] = slot[c]
              \/ Len(slot[c]) = 0 /\ slot'[c] = Append(slot[c], r)
          BY <1>0, <4>1 DEF Offer
        <4>3. slot[c] \in Seq(Reply)
          BY <1>0
        <4>4. CASE slot'[c] = slot[c]
          BY <3>1, <4>4
        <4>5. CASE Len(slot[c]) = 0 /\ slot'[c] = Append(slot[c], r)
          BY <4>1, <4>3, <4>5
        <4> QED
          BY <4>2, <4>4, <4>5
      <3> QED
        BY <3>2, <3>3
    <2>6. \A c \in Callers : slot[c] # <<>> => slot'[c] # <<>>
      <3> SUFFICES ASSUME NEW c \in Callers, slot[c] # <<>> PROVE slot'[c] # <<>>
        OBVIOUS
      <3>1. slot[c] \in Seq(Reply)
        BY <1>0
      <3> QED
        BY <2>3, <2>4, <3>1 DEF Offer
    <2>7. \A c \in answered' : InFlight(c) /\ slot'[c] # <<>>
      <3> SUFFICES ASSUME NEW c \in answered' PROVE InFlight(c) /\ slot'[c] # <<>>
        OBVIOUS
      <3>1. CASE c \in answered
        BY <1>0, <2>6, <3>1 DEF RequestInv, AnsweredInFlight, NoLostReply
      <3>2. CASE c \notin answered
        <4>1. /\ c \in Callers /\ call[c].op = "request" /\ pc[c] \in {"token", "await"}
              /\ \E r \in payload.replies : r.key = call[c].key
          BY <1>27, <3>2 DEF ReceiveDispatch
        <4>2. InFlight(c) /\ call[c].key \in Keys
          BY <1>0, <4>1 DEF InFlight, Active
        <4>3. pending[call[c].key] = c
          BY <4>1, <4>2 DEF RequestInv, PendingExact
        <4>4. RepliesFor(c) # {}
          BY <4>1, <4>3 DEF RepliesFor
        <4>5. slot[c] \in Seq(Reply)
          BY <1>0, <4>1
        <4>6. PICK r \in payload.replies : slot'[c] = Offer(slot[c], r, 1)
          BY <2>3, <4>1, <4>4
        <4>7. r \in Reply
          BY PayloadType DEF TypeInv, TypeOK, LocalOK
        <4>8. Len(slot[c]) <= 1
          BY <4>1 DEF TypeInv, TypeOK, LocalOK
        <4>9. slot'[c] # <<>>
          BY <4>5, <4>6, <4>7, <4>8, OfferType
        <4> QED
          BY <4>2, <4>9
      <3> QED
        BY <3>1, <3>2
    <2>8. AnsweredInFlight' /\ NoLostReply'
      <3>1. answered' \subseteq Callers
        BY <1>0, <1>27 DEF ReceiveDispatch
      <3> QED
        BY <2>1, <2>7, <3>1 DEF AnsweredInFlight, NoLostReply
    <2> QED
      BY <2>2, <2>5, <2>8 DEF RequestInv
  <1>28. CASE ReceiveEnqueue
    BY <1>0, <1>28, ProcessesAssumption, SameRequests
       DEF ReceiveEnqueue, Goto, Active, InFlight, Processes, sharedVars, localVars, historyVars
  <1>29. CASE TakeReport
    BY <1>0, <1>29, ProcessesAssumption, SameRequests
       DEF TakeReport, Goto, Active, InFlight, Processes, sharedVars, localVars, historyVars
  <1>30. CASE TakeError
    BY <1>0, <1>30, ProcessesAssumption, SameRequests
       DEF TakeError, Goto, Active, InFlight, Processes, sharedVars, localVars, historyVars
  <1>31. ASSUME NEW m \in Payloads, ReceiveBegin(m) PROVE RequestInv'
    BY <1>0, <1>31, ProcessesAssumption, SameRequests
       DEF ReceiveBegin, Goto, Active, InFlight, Processes, sharedVars, historyVars
  <1>32. CASE UNCHANGED vars
    BY <1>32, SameRequests DEF vars, sharedVars, localVars, historyVars, Active, InFlight
  <1> QED
    BY <1>1, <1>2, <1>3, <1>4, <1>5, <1>6, <1>7, <1>8, <1>9, <1>10, <1>11, <1>12,
       <1>13, <1>14, <1>15, <1>16, <1>17, <1>18, <1>19, <1>20, <1>21, <1>22, <1>23,
       <1>24, <1>25, <1>26, <1>27, <1>28, <1>29, <1>30, <1>31, <1>32
       DEF Next, CallerNext, SendStep, AwaitStep, FailStep, ReceiverNext, ReceiveStep

LEMMA RequestCorrect == Spec => [](TypeInv /\ MutexInv /\ RequestInv)
  BY MutexCorrect, InitRequestInv, NextRequestInv, PTL DEF Spec

\* For any number of concurrent requests, p.pending holds exactly the requests in
\* flight, each under its own key.
THEOREM PendingIsExact == Spec => []PendingExact
  <1>1. RequestInv => PendingExact
    BY DEF RequestInv
  <1> QED
    BY <1>1, RequestCorrect, PTL

\* Whatever the topic carries, the reply a request finds is the one to its own
\* command.
THEOREM RepliesMatch == Spec => []ReplyIsOwn
  <1>1. RequestInv => ReplyIsOwn
    BY DEF RequestInv
  <1> QED
    BY <1>1, RequestCorrect, PTL

\* A reply that comes after the command was handed over is in the channel of the
\* request, however early it came.
THEOREM RepliesAreKept == Spec => []NoLostReply
  <1>1. RequestInv => NoLostReply
    BY DEF RequestInv
  <1> QED
    BY <1>1, RequestCorrect, PTL

-----------------------------------------------------------------------------
(* Nothing happens after Done *)

Frozen ==
    /\ UNCHANGED <<status, dropped, accepted>>
    /\ Len(reports') <= Len(reports)
    /\ \A c \in Callers : slot'[c] \in {slot[c], <<>>}

LEMMA ClosedStep == TypeInv /\ MutexInv /\ [Next]_vars /\ closed => Frozen
  <1> SUFFICES ASSUME TypeInv, MutexInv, [Next]_vars, closed PROVE Frozen
    OBVIOUS
  <1>0. /\ reports \in Seq(Report) /\ slot \in [Callers -> Seq(Reply)]
        /\ pc[Receiver] \notin {"dispatch", "enqueue"}
    BY ProcessesAssumption DEF TypeInv, TypeOK, SharedOK, LocalOK, MutexInv, Critical, Processes
  <1> USE <1>0 DEF Frozen, sharedVars, localVars, historyVars
  <1>1. ASSUME NEW c \in Callers, NEW op \in {"request", "send"}, NEW cmd \in Commands,
               Encode(c, op, cmd)
        PROVE  Frozen
    BY <1>1 DEF Encode, Goto
  <1>2. ASSUME NEW c \in Callers, SendRejected(c) PROVE Frozen
    BY <1>2 DEF SendRejected, Leave, Return, Goto
  <1>3. ASSUME NEW c \in Callers, SendCancelled(c) PROVE Frozen
    BY <1>3 DEF SendCancelled, Leave, Return, Goto
  <1>4. ASSUME NEW c \in Callers, SendClosed(c) PROVE Frozen
    BY <1>4 DEF SendClosed, Leave, Return, Goto
  <1>5. ASSUME NEW c \in Callers, PublishOffline(c) PROVE Frozen
    BY <1>5 DEF PublishOffline, Leave, Return, Goto
  <1>6. ASSUME NEW c \in Callers, TokenDelivered(c) PROVE Frozen
    BY <1>6 DEF TokenDelivered, Leave, Return, Goto
  <1>7. ASSUME NEW c \in Callers, TokenFailed(c) PROVE Frozen
    BY <1>7 DEF TokenFailed, Leave, Return, Goto
  <1>8. ASSUME NEW c \in Callers, TokenCancelled(c) PROVE Frozen
    BY <1>8 DEF TokenCancelled, Leave, Return, Goto
  <1>9. ASSUME NEW c \in Callers, AwaitCancelled(c) PROVE Frozen
    BY <1>9 DEF AwaitCancelled, Leave, Return, Goto
  <1>10. ASSUME NEW c \in Callers, AwaitClosed(c) PROVE Frozen
    BY <1>10 DEF AwaitClosed, Leave, Return, Goto
  <1>11. ASSUME NEW c \in Callers, AwaitReply(c) PROVE Frozen
    BY <1>11 DEF AwaitReply, Leave, Return, Goto
  <1>12. ASSUME NEW c \in Callers, Register(c) PROVE Frozen
    BY <1>12 DEF Register, Goto
  <1>13. ASSUME NEW c \in Callers, SendOpen(c) PROVE Frozen
    BY <1>13 DEF SendOpen, Goto
  <1>14. ASSUME NEW c \in Callers, Publish(c) PROVE Frozen
    BY <1>14 DEF Publish, Goto
  <1>15. ASSUME NEW c \in Callers, ContextExpires(c) PROVE Frozen
    BY <1>15 DEF ContextExpires
  <1>16. ASSUME NEW c \in Callers, CloseBegin(c) PROVE Frozen
    BY <1>16 DEF CloseBegin, Goto
  <1>17. ASSUME NEW c \in Callers, Unregister(c) PROVE Frozen
    BY <1>17 DEF Unregister, Return, Goto
  <1>18. ASSUME NEW c \in Callers, Disconnect(c) PROVE Frozen
    BY <1>18 DEF Disconnect, Return, Goto
  <1>19. ASSUME NEW p \in Callers \cup {Lost}, FailAlreadyClosed(p) PROVE Frozen
    BY <1>19 DEF FailAlreadyClosed, Goto, AfterFail
  <1>20. ASSUME NEW p \in Callers \cup {Lost}, FailLock(p) PROVE Frozen
    BY <1>20 DEF FailLock, Goto, AfterFail
  <1>21. ASSUME NEW p \in Callers \cup {Lost}, FailPush(p) PROVE Frozen
    BY <1>21 DEF FailPush, Goto, AfterFail
  <1>22. ASSUME NEW p \in Callers \cup {Lost}, FailClose(p) PROVE Frozen
    BY <1>22 DEF FailClose, Goto, AfterFail
  <1>23. CASE ConnectionLost
    BY <1>23 DEF ConnectionLost, Goto
  <1>24. CASE ReceiveClosed
    BY <1>24 DEF ReceiveClosed, Goto
  <1>25. CASE ReceiveLock
    BY <1>25 DEF ReceiveLock, Goto
  <1>26. CASE ReceiveMalformed
    BY <1>26 DEF ReceiveMalformed
  <1>27. CASE ReceiveDispatch
    BY <1>27 DEF ReceiveDispatch, Goto, DispatchReplies, MergeStatus
  <1>28. CASE ReceiveEnqueue
    BY <1>28 DEF ReceiveEnqueue, Goto
  <1>29. CASE TakeReport
    BY <1>29 DEF TakeReport
  <1>30. CASE TakeError
    BY <1>30 DEF TakeError
  <1>31. ASSUME NEW m \in Payloads, ReceiveBegin(m) PROVE Frozen
    BY <1>31 DEF ReceiveBegin, Goto
  <1>32. CASE UNCHANGED vars
    BY <1>32 DEF vars
  <1> QED
    BY <1>1, <1>2, <1>3, <1>4, <1>5, <1>6, <1>7, <1>8, <1>9, <1>10, <1>11, <1>12,
       <1>13, <1>14, <1>15, <1>16, <1>17, <1>18, <1>19, <1>20, <1>21, <1>22, <1>23,
       <1>24, <1>25, <1>26, <1>27, <1>28, <1>29, <1>30, <1>31, <1>32
       DEF Next, CallerNext, SendStep, AwaitStep, FailStep, ReceiverNext, ReceiveStep

\* Once Done is closed no message changes the snapshot, the drop count or a
\* waiting request, and the Reports channel only drains.
THEOREM NothingAfterDone == Spec => ClosedFreezes
  <1>1. TypeInv /\ MutexInv /\ [Next]_vars => [closed => Frozen]_vars
    BY ClosedStep
  <1>2. Spec => [][closed => Frozen]_vars
    BY <1>1, MutexCorrect, PTL DEF Spec
  <1> QED
    BY <1>2 DEF ClosedFreezes, Frozen

-----------------------------------------------------------------------------
(* A snapshot is the document of the reports accepted before it *)

\* The largest of a bounded set of numbers exists.
LEMMA LargestExists ==
  ASSUME NEW ids \in SUBSET Nat, NEW n \in Nat, \A i \in ids : i <= n, ids # {}
  PROVE  \E i \in ids : \A j \in ids : j <= i
  <1> DEFINE R == OpToRel(<, Nat)
             T == {k \in Nat : n - k \in ids}
  <1>1. IsWellFoundedOn(R, Nat)
    BY NatLessThanWellFounded
  <1>2. T \subseteq Nat /\ T # {}
    <2>1. PICK i \in ids : TRUE
      OBVIOUS
    <2>2. n - i \in Nat /\ n - (n - i) = i
      OBVIOUS
    <2> QED
      BY <2>1, <2>2
  <1>3. \A x, y \in Nat : <<x, y>> \in R <=> x < y
    BY DEF OpToRel
  <1> HIDE DEF R
  <1>4. PICK x \in T : \A y \in T : ~ (<<y, x>> \in R)
    BY <1>1, <1>2, WFMin
  <1>5. ASSUME NEW y \in T
        PROVE  x <= y
    <2>1. x \in Nat /\ y \in Nat
      BY <1>2
    <2>2. ~ (y < x)
      BY <1>3, <1>4, <2>1, Zenon
    <2> QED
      BY <2>1, <2>2
  <1>6. x \in Nat /\ n - x \in ids
    OBVIOUS
  <1>7. \A i \in ids : n - i \in Nat /\ n - (n - i) = i
    OBVIOUS
  <1> QED
    BY <1>5, <1>6, <1>7

\* The latest of some report numbers is one of them and the largest; 0 is for none.
LEMMA LatestMax ==
  ASSUME NEW ids \in SUBSET (Nat \ {0}), NEW n \in Nat, \A i \in ids : i <= n
  PROVE  /\ ids = {} => Latest(ids) = 0
         /\ ids # {} => Latest(ids) \in ids
         /\ \A j \in ids : j <= Latest(ids)
         /\ Latest(ids) \in 0..n
  <1>1. CASE ids = {}
    BY <1>1 DEF Latest
  <1>2. CASE ids # {}
    <2>1. \E i \in ids : \A j \in ids : j <= i
      BY <1>2, LargestExists
    <2>2. Latest(ids) \in ids /\ \A j \in ids : j <= Latest(ids)
      BY <1>2, <2>1 DEF Latest
    <2>3. \A l \in ids : l \in 0..n
      OBVIOUS
    <2>4. Latest(ids) \in 0..n
      BY <1>2, <2>2, <2>3, Zenon
    <2> QED
      BY <1>2, <2>2, <2>4
  <1> QED
    BY <1>1, <1>2

\* A number larger than all others becomes the latest.
LEMMA LatestNew ==
  ASSUME NEW ids \in SUBSET (Nat \ {0}), NEW n \in Nat \ {0}, \A i \in ids : i < n
  PROVE  Latest(ids \cup {n}) = n
  <1>1. /\ ids \cup {n} \in SUBSET (Nat \ {0}) /\ ids \cup {n} # {}
        /\ \A i \in ids \cup {n} : i <= n
    OBVIOUS
  <1> DEFINE l == Latest(ids \cup {n})
  <1>2. l \in ids \cup {n} /\ n <= l
    BY <1>1, LatestMax
  <1> HIDE DEF l
  <1>3. \A i \in ids : ~ (n <= i)
    OBVIOUS
  <1>4. l = n
    BY <1>2, <1>3
  <1> QED
    BY <1>4 DEF l

\* The numbers of the reports that give f one of the values in S.
Ids(reps, f, S) == {r.id : r \in {r \in reps : \E v \in S : r.fields[f] = v}}

LEMMA IdsMember ==
  ASSUME NEW reps, NEW f, NEW S, NEW i
  PROVE  i \in Ids(reps, f, S) <=> \E r \in reps : r.id = i /\ r.fields[f] \in S
  BY DEF Ids

\* Adding the newest report makes it the latest on what it says, and changes
\* nothing else.
LEMMA LatestOnAdd ==
  ASSUME NEW reps \in SUBSET Report, NEW n \in 1..MaxReports, NEW d \in Delta, NEW f, NEW S,
         \A r \in reps : r.id < n
  PROVE  LET new == [id |-> n, fields |-> d]
         IN  /\ d[f] \in S => LatestOn(reps \cup {new}, f, S) = n
             /\ d[f] \notin S => LatestOn(reps \cup {new}, f, S) = LatestOn(reps, f, S)
             /\ LatestOn(reps, f, S) \in 0..(n - 1)
  <1> DEFINE new == [id |-> n, fields |-> d]
             ids == Ids(reps, f, S)
             more == Ids(reps \cup {new}, f, S)
  <1>1. /\ LatestOn(reps, f, S) = Latest(ids)
        /\ LatestOn(reps \cup {new}, f, S) = Latest(more)
    BY DEF LatestOn, Ids
  <1>2. new.id = n /\ new.fields[f] = d[f]
    OBVIOUS
  <1>i. \A i : i \in ids <=> \E r \in reps : r.id = i /\ r.fields[f] \in S
    BY IdsMember
  <1>m. \A i : i \in more <=> \E r \in reps \cup {new} : r.id = i /\ r.fields[f] \in S
    BY IdsMember
  <1> HIDE DEF ids, more, new
  <1>a. \A i : i \in more <=> i \in ids \/ (i = n /\ d[f] \in S)
    BY <1>2, <1>i, <1>m
  <1>3. d[f] \in S => more = ids \cup {n}
    BY <1>a
  <1>4. d[f] \notin S => more = ids
    BY <1>a
  <1>5. \A r \in reps : r.id \in Nat \ {0}
    BY BoundsAssumption DEF Report
  <1>6. ids \in SUBSET (Nat \ {0}) /\ \A i \in ids : i < n
    BY <1>5, <1>i
  <1>7. d[f] \in S => Latest(more) = n
    BY <1>3, <1>6, LatestNew
  <1>8. Latest(ids) \in 0..(n - 1)
    <2>1. n - 1 \in Nat /\ \A i \in ids : i <= n - 1
      BY <1>6
    <2> QED
      BY <1>6, <2>1, LatestMax
  <1> QED
    BY <1>1, <1>4, <1>7, <1>8 DEF new
\* A wider set of values has the later report.
LEMMA LatestOnSubset ==
  ASSUME NEW reps \in SUBSET Report, NEW f, NEW S, NEW T, S \subseteq T
  PROVE  LatestOn(reps, f, S) <= LatestOn(reps, f, T)
  <1> DEFINE few == Ids(reps, f, S)
             many == Ids(reps, f, T)
  <1>1. LatestOn(reps, f, S) = Latest(few) /\ LatestOn(reps, f, T) = Latest(many)
    BY DEF LatestOn, Ids
  <1>i. \A i : i \in few <=> \E r \in reps : r.id = i /\ r.fields[f] \in S
    BY IdsMember
  <1>m. \A i : i \in many <=> \E r \in reps : r.id = i /\ r.fields[f] \in T
    BY IdsMember
  <1> HIDE DEF few, many
  <1>2. few \subseteq many
    BY <1>i, <1>m
  <1>3. \A r \in reps : r.id \in Nat \ {0} /\ r.id <= MaxReports
    BY BoundsAssumption DEF Report
  <1>4. many \in SUBSET (Nat \ {0}) /\ \A i \in many : i <= MaxReports
    BY <1>3, <1>m
  <1>5. few \in SUBSET (Nat \ {0}) /\ \A i \in few : i <= MaxReports
    BY <1>2, <1>4
  <1>6. /\ few = {} => Latest(few) = 0
        /\ few # {} => Latest(few) \in few
    BY <1>5, BoundsAssumption, LatestMax
  <1>7. /\ \A j \in many : j <= Latest(many)
        /\ Latest(many) \in 0..MaxReports
    BY <1>4, BoundsAssumption, LatestMax
  <1>8. CASE few = {}
    BY <1>1, <1>6, <1>7, <1>8
  <1>9. CASE few # {}
    <2>1. Latest(few) \in many
      BY <1>2, <1>6, <1>9
    <2> QED
      BY <1>1, <1>7, <2>1
  <1> QED
    BY <1>8, <1>9

\* What DocumentOf says of one field, in terms of the latest reports on it.
Part(scalar, object, i) ==
    IF scalar = 0 /\ object = 0 THEN Absent
    ELSE IF scalar > object THEN [kind |-> "scalar", by |-> scalar, members |-> NoMembers]
    ELSE [kind |-> "object", by |-> 0,
          members |-> [m \in Members |-> IF i[m] > scalar THEN i[m] ELSE 0]]

LatestMembers(reps, f) ==
    [m \in Members |-> LatestOn(reps, f, {o \in SUBSET Members : m \in o})]

LEMMA DocumentPart ==
  ASSUME NEW reps, NEW f \in Fields
  PROVE  DocumentOf(reps)[f] = Part(LatestOn(reps, f, {Scalar}),
                                    LatestOn(reps, f, SUBSET Members), LatestMembers(reps, f))
  <1> DEFINE i == LatestMembers(reps, f)
             scalar == LatestOn(reps, f, {Scalar})
             object == LatestOn(reps, f, SUBSET Members)
  <1>1. \A m \in Members : i[m] = LatestOn(reps, f, {o \in SUBSET Members : m \in o})
    BY DEF LatestMembers
  <1>3. DocumentOf(reps)[f] =
           IF scalar = 0 /\ object = 0 THEN Absent
           ELSE IF scalar > object
           THEN [kind |-> "scalar", by |-> scalar, members |-> NoMembers]
           ELSE [kind |-> "object", by |-> 0,
                 members |-> [m \in Members |->
                     IF LatestOn(reps, f, {o \in SUBSET Members : m \in o}) > scalar
                     THEN LatestOn(reps, f, {o \in SUBSET Members : m \in o}) ELSE 0]]
    BY Zenon DEF DocumentOf
  <1> HIDE DEF scalar, object
  <1>4. [m \in Members |->
                     IF LatestOn(reps, f, {o \in SUBSET Members : m \in o}) > scalar
                     THEN LatestOn(reps, f, {o \in SUBSET Members : m \in o}) ELSE 0]
         = [m \in Members |-> IF i[m] > scalar THEN i[m] ELSE 0]
    BY <1>1
  <1>5. DocumentOf(reps)[f] = Part(scalar, object, i)
    BY <1>3, <1>4, Zenon DEF Part
  <1> QED
    BY <1>5 DEF scalar, object
\* Merging the next delta into a document gives the document with it: one level of
\* mergeObject commutes with reading the history path by path.
LEMMA MergeAdds ==
  ASSUME received \in 1..MaxReports,
         NEW reps \in SUBSET Report, \A r \in reps : r.id < received,
         NEW d \in Delta, NEW f \in Fields
  PROVE  MergeValue(DocumentOf(reps)[f], d[f])
             = DocumentOf(reps \cup {[id |-> received, fields |-> d]})[f]
  <1> DEFINE n == received
             more == reps \cup {[id |-> n, fields |-> d]}
             Objects == SUBSET Members
             s == LatestOn(reps, f, {Scalar})
             o == LatestOn(reps, f, Objects)
             i == LatestMembers(reps, f)
             s2 == LatestOn(more, f, {Scalar})
             o2 == LatestOn(more, f, Objects)
             i2 == LatestMembers(more, f)
  <1>1. DocumentOf(reps)[f] = Part(s, o, i) /\ DocumentOf(more)[f] = Part(s2, o2, i2)
    BY DocumentPart
  <1>7. n \in Nat /\ n > 0 /\ n - 1 \in Nat
    BY BoundsAssumption
  <1>a. ASSUME NEW S
        PROVE  /\ LatestOn(reps, f, S) \in 0..(n - 1)
               /\ d[f] \in S => LatestOn(more, f, S) = n
               /\ d[f] \notin S => LatestOn(more, f, S) = LatestOn(reps, f, S)
    BY LatestOnAdd
  <1>2. /\ s \in 0..(n - 1) /\ o \in 0..(n - 1)
        /\ d[f] = Scalar => s2 = n
        /\ d[f] # Scalar => s2 = s
        /\ d[f] \in Objects => o2 = n
        /\ d[f] \notin Objects => o2 = o
    BY <1>a
  <1>3. ASSUME NEW m \in Members
        PROVE  /\ i[m] \in 0..(n - 1)
               /\ i[m] <= o
               /\ d[f] \in Objects /\ m \in d[f] => i2[m] = n
               /\ ~(d[f] \in Objects /\ m \in d[f]) => i2[m] = i[m]
    <2> DEFINE S == {u \in Objects : m \in u}
    <2>1. i[m] = LatestOn(reps, f, S) /\ i2[m] = LatestOn(more, f, S)
      BY DEF LatestMembers
    <2>2. d[f] \in S <=> d[f] \in Objects /\ m \in d[f]
      OBVIOUS
    <2>3. S \subseteq Objects
      OBVIOUS
    <2> HIDE DEF S
    <2>4. LatestOn(reps, f, S) <= o
      BY <2>3, LatestOnSubset
    <2>5. /\ LatestOn(reps, f, S) \in 0..(n - 1)
          /\ d[f] \in S => LatestOn(more, f, S) = n
          /\ d[f] \notin S => LatestOn(more, f, S) = LatestOn(reps, f, S)
      BY <1>a
    <2> QED
      BY <2>1, <2>2, <2>4, <2>5
  <1>4. i \in [Members -> 0..(n - 1)] /\ i2 \in [Members -> 0..n]
    <2>1. i = [m \in Members |-> i[m]] /\ i2 = [m \in Members |-> i2[m]]
      BY DEF LatestMembers
    <2>2. \A m \in Members : i[m] \in 0..(n - 1) /\ i2[m] \in 0..n
      <3> SUFFICES ASSUME NEW m \in Members PROVE i[m] \in 0..(n - 1) /\ i2[m] \in 0..n
        OBVIOUS
      <3>1. i[m] \in 0..(n - 1) /\ (i2[m] = n \/ i2[m] = i[m])
        BY <1>3
      <3> HIDE DEF i, i2
      <3> QED
        BY <1>7, <3>1
    <2> HIDE DEF i, i2
    <2> QED
      BY <2>1, <2>2
  <1>5. d[f] = Scalar \/ d[f] = Unsaid \/ d[f] \in Objects
    BY DEF Delta
  <1>6. Scalar # Unsaid /\ Scalar \notin Objects /\ Unsaid \notin Objects
    BY DeltaAssumption
  <1> HIDE DEF s, o, i, s2, o2, i2, Objects
  <1>8. MergeValue(Part(s, o, i), d[f]) = Part(s2, o2, i2)
    <2>1. CASE d[f] = Unsaid
      <3>1. s2 = s /\ o2 = o /\ \A m \in Members : i2[m] = i[m]
        BY <1>2, <1>3, <1>6, <2>1
      <3>2. Part(s2, o2, i2) = Part(s, o, i)
        BY <3>1 DEF Part
      <3> QED
        BY <2>1, <3>2 DEF MergeValue
    <2>2. CASE d[f] = Scalar
      <3>1. s2 = n /\ o2 = o /\ n > o
        BY <1>2, <1>6, <1>7, <2>2
      <3>2. Part(s2, o2, i2) = [kind |-> "scalar", by |-> n, members |-> NoMembers]
        BY <1>2, <1>7, <3>1 DEF Part
      <3>3. MergeValue(Part(s, o, i), d[f])
               = [kind |-> "scalar", by |-> n, members |-> NoMembers]
        BY <1>6, <2>2 DEF MergeValue, Absent
      <3> QED
        BY <3>2, <3>3
    <2>3. CASE d[f] \in Objects
      <3> DEFINE old == Part(s, o, i)
                 base == IF old.kind = "object" THEN old.members ELSE NoMembers
      <3>1. s2 = s /\ o2 = n /\ s < n
        BY <1>2, <1>6, <1>7, <2>3
      <3>2. ASSUME NEW m \in Members
            PROVE  base[m] = IF i[m] > s THEN i[m] ELSE 0
        <4>1. CASE s = 0 /\ o = 0
          <5>1. i[m] = 0 /\ old = Absent
            BY <1>3, <4>1 DEF Part
          <5> QED
            BY <4>1, <5>1 DEF Absent, NoMembers
        <4>2. CASE ~(s = 0 /\ o = 0) /\ s > o
          <5>1. ~(i[m] > s) /\ old.kind = "scalar"
            BY <1>2, <1>3, <4>2 DEF Part
          <5> QED
            BY <5>1 DEF NoMembers
        <4>3. CASE ~(s = 0 /\ o = 0) /\ ~(s > o)
          BY <4>3 DEF Part
        <4> QED
          BY <4>1, <4>2, <4>3
      <3>3. MergeValue(old, d[f])
               = [kind |-> "object", by |-> 0,
                  members |-> [m \in Members |-> IF m \in d[f] THEN n ELSE base[m]]]
        BY <1>6, <2>3 DEF MergeValue
      <3>4. Part(s2, o2, i2)
               = [kind |-> "object", by |-> 0,
                  members |-> [m \in Members |-> IF i2[m] > s THEN i2[m] ELSE 0]]
        BY <1>2, <1>7, <3>1 DEF Part
      <3> HIDE DEF base, old
      <3>5. \A m \in Members : (IF m \in d[f] THEN n ELSE base[m])
                                  = IF i2[m] > s THEN i2[m] ELSE 0
        BY <1>3, <2>3, <3>1, <3>2
      <3> QED
        BY <3>3, <3>4, <3>5 DEF old
    <2> QED
      BY <1>5, <2>1, <2>2, <2>3
  <1> QED
    BY <1>1, <1>8
-----------------------------------------------------------------------------
(* Layer 5: the snapshot *)

\* The report receive is working on is accepted, and the only one of its number.
ArrivalKnown ==
    pc[Receiver] \in {"dispatch", "enqueue"} =>
        /\ [id |-> received, fields |-> payload.fields] \in accepted
        /\ \A r \in accepted :
              r.id = received => r = [id |-> received, fields |-> payload.fields]

\* Between the acceptance of a report and its merge the status is the document
\* without it, otherwise that of all accepted reports.
SnapshotInv ==
    /\ \A r \in accepted : r.id <= received
    /\ ArrivalKnown
    /\ status = IF pc[Receiver] = "dispatch"
                THEN DocumentOf({r \in accepted : r.id < received})
                ELSE DocumentOf(accepted)

LEMMA InitSnapshotInv == Init => SnapshotInv
  <1> SUFFICES ASSUME Init PROVE SnapshotInv
    OBVIOUS
  <1>1. pc[Receiver] = "idle" /\ accepted = {} /\ status = [f \in Fields |-> Absent]
    BY DEF Init, Processes
  <1>2. \A f, S : LatestOn({}, f, S) = 0
    <2> SUFFICES ASSUME NEW f, NEW S PROVE LatestOn({}, f, S) = 0
      OBVIOUS
    <2>1. LatestOn({}, f, S) = Latest(Ids({}, f, S))
      BY DEF LatestOn, Ids
    <2>2. Ids({}, f, S) = {}
      BY IdsMember
    <2> QED
      BY <2>1, <2>2 DEF Latest
  <1>3. \A f \in Fields : DocumentOf({})[f] = Absent
    BY <1>2, DocumentPart DEF Part
  <1>4. DocumentOf({}) = [f \in Fields |-> DocumentOf({})[f]]
    BY DEF DocumentOf
  <1> QED
    BY <1>1, <1>3, <1>4 DEF SnapshotInv, ArrivalKnown

\* A step outside receive's critical section.
LEMMA SameSnapshot ==
  ASSUME SnapshotInv, TypeInv, UNCHANGED <<status, accepted, received, payload>>,
         pc'[Receiver] = pc[Receiver]
  PROVE  SnapshotInv'
  BY DEF SnapshotInv, ArrivalKnown

LEMMA NextSnapshotInv == TypeInv /\ SnapshotInv /\ [Next]_vars => SnapshotInv'
  <1> SUFFICES ASSUME TypeInv, SnapshotInv, [Next]_vars PROVE SnapshotInv'
    OBVIOUS
  <1>0. /\ pc \in [Processes -> AllPCs] /\ NumberOK
        /\ received \in 0..MaxReports /\ accepted \subseteq Report
        /\ payload \in Payloads \cup {NoPayload}
        /\ MaxReports \in Nat /\ received \in Nat
    BY BoundsAssumption DEF TypeInv, TypeOK, LocalOK, HistoryOK
  <1> USE <1>0, ProcessesAssumption DEF Processes, sharedVars, localVars, historyVars
  <1>1. ASSUME NEW c \in Callers, NEW op \in {"request", "send"}, NEW cmd \in Commands,
               Encode(c, op, cmd)
        PROVE  SnapshotInv'
    BY <1>1, SameSnapshot DEF Encode, Goto
  <1>2. ASSUME NEW c \in Callers, SendRejected(c) PROVE SnapshotInv'
    BY <1>2, SameSnapshot DEF SendRejected, Leave, Return, Goto
  <1>3. ASSUME NEW c \in Callers, SendCancelled(c) PROVE SnapshotInv'
    BY <1>3, SameSnapshot DEF SendCancelled, Leave, Return, Goto
  <1>4. ASSUME NEW c \in Callers, SendClosed(c) PROVE SnapshotInv'
    BY <1>4, SameSnapshot DEF SendClosed, Leave, Return, Goto
  <1>5. ASSUME NEW c \in Callers, PublishOffline(c) PROVE SnapshotInv'
    BY <1>5, SameSnapshot DEF PublishOffline, Leave, Return, Goto
  <1>6. ASSUME NEW c \in Callers, TokenDelivered(c) PROVE SnapshotInv'
    BY <1>6, SameSnapshot DEF TokenDelivered, Leave, Return, Goto
  <1>7. ASSUME NEW c \in Callers, TokenFailed(c) PROVE SnapshotInv'
    BY <1>7, SameSnapshot DEF TokenFailed, Leave, Return, Goto
  <1>8. ASSUME NEW c \in Callers, TokenCancelled(c) PROVE SnapshotInv'
    BY <1>8, SameSnapshot DEF TokenCancelled, Leave, Return, Goto
  <1>9. ASSUME NEW c \in Callers, AwaitCancelled(c) PROVE SnapshotInv'
    BY <1>9, SameSnapshot DEF AwaitCancelled, Leave, Return, Goto
  <1>10. ASSUME NEW c \in Callers, AwaitClosed(c) PROVE SnapshotInv'
    BY <1>10, SameSnapshot DEF AwaitClosed, Leave, Return, Goto
  <1>11. ASSUME NEW c \in Callers, AwaitReply(c) PROVE SnapshotInv'
    BY <1>11, SameSnapshot DEF AwaitReply, Leave, Return, Goto
  <1>12. ASSUME NEW c \in Callers, Register(c) PROVE SnapshotInv'
    BY <1>12, SameSnapshot DEF Register, Goto
  <1>13. ASSUME NEW c \in Callers, SendOpen(c) PROVE SnapshotInv'
    BY <1>13, SameSnapshot DEF SendOpen, Goto
  <1>14. ASSUME NEW c \in Callers, Publish(c) PROVE SnapshotInv'
    BY <1>14, SameSnapshot DEF Publish, Goto
  <1>15. ASSUME NEW c \in Callers, ContextExpires(c) PROVE SnapshotInv'
    BY <1>15, SameSnapshot DEF ContextExpires
  <1>16. ASSUME NEW c \in Callers, CloseBegin(c) PROVE SnapshotInv'
    BY <1>16, SameSnapshot DEF CloseBegin, Goto
  <1>17. ASSUME NEW c \in Callers, Unregister(c) PROVE SnapshotInv'
    BY <1>17, SameSnapshot DEF Unregister, Return, Goto
  <1>18. ASSUME NEW c \in Callers, Disconnect(c) PROVE SnapshotInv'
    BY <1>18, SameSnapshot DEF Disconnect, Return, Goto
  <1>19. ASSUME NEW p \in Callers \cup {Lost}, FailAlreadyClosed(p) PROVE SnapshotInv'
    BY <1>19, SameSnapshot DEF FailAlreadyClosed, Goto
  <1>20. ASSUME NEW p \in Callers \cup {Lost}, FailLock(p) PROVE SnapshotInv'
    BY <1>20, SameSnapshot DEF FailLock, Goto
  <1>21. ASSUME NEW p \in Callers \cup {Lost}, FailPush(p) PROVE SnapshotInv'
    BY <1>21, SameSnapshot DEF FailPush, Goto
  <1>22. ASSUME NEW p \in Callers \cup {Lost}, FailClose(p) PROVE SnapshotInv'
    BY <1>22, SameSnapshot DEF FailClose, Goto
  <1>23. CASE ConnectionLost
    BY <1>23, SameSnapshot DEF ConnectionLost, Goto
  <1>24. CASE ReceiveMalformed
    BY <1>24, SameSnapshot DEF ReceiveMalformed
  <1>25. CASE TakeReport
    BY <1>25, SameSnapshot DEF TakeReport
  <1>26. CASE TakeError
    BY <1>26, SameSnapshot DEF TakeError
  <1>27. ASSUME NEW m \in Payloads, ReceiveBegin(m) PROVE SnapshotInv'
    <2>1. /\ pc[Receiver] = "idle" /\ pc'[Receiver] = "lock"
          /\ UNCHANGED <<status, accepted, received>>
      BY <1>27 DEF ReceiveBegin, Goto
    <2> QED
      BY <2>1 DEF SnapshotInv, ArrivalKnown
  <1>28. CASE ReceiveClosed
    <2>1. /\ pc[Receiver] = "lock" /\ pc'[Receiver] = "idle"
          /\ UNCHANGED <<status, accepted, received>>
      BY <1>28 DEF ReceiveClosed, Goto
    <2> QED
      BY <2>1 DEF SnapshotInv, ArrivalKnown
  <1>29. CASE ReceiveEnqueue
    <2>1. /\ pc[Receiver] = "enqueue" /\ pc'[Receiver] = "idle"
          /\ UNCHANGED <<status, accepted, received>>
      BY <1>29 DEF ReceiveEnqueue, Goto
    <2> QED
      BY <2>1 DEF SnapshotInv, ArrivalKnown
  <1>30. CASE ReceiveLock
    <2> DEFINE new == [id |-> received + 1, fields |-> payload.fields]
    <2>1. /\ pc[Receiver] = "lock" /\ pc'[Receiver] = "dispatch"
          /\ received' = received + 1 /\ accepted' = accepted \cup {new}
          /\ UNCHANGED <<status, payload>>
      BY <1>30 DEF ReceiveLock, Goto
    <2>2. /\ new.id = received + 1
          /\ \A r \in accepted : r.id <= received /\ r.id \in Nat
      BY <1>0 DEF SnapshotInv, Report
    <2>3. {r \in accepted' : r.id < received'} = accepted
      BY <1>0, <2>1, <2>2
    <2>4. status = DocumentOf(accepted)
      BY <2>1 DEF SnapshotInv
    <2>5. \A r \in accepted' : /\ r.id <= received'
                               /\ r.id = received' => r = new
      BY <1>0, <2>1, <2>2
    <2>6. new = [id |-> received', fields |-> payload'.fields]
      BY <2>1
    <2> HIDE DEF new
    <2>7. ArrivalKnown'
      BY <2>1, <2>5, <2>6 DEF ArrivalKnown
    <2> QED
      BY <2>1, <2>3, <2>4, <2>5, <2>7 DEF SnapshotInv
  <1>31. CASE ReceiveDispatch
    <2> DEFINE new == [id |-> received, fields |-> payload.fields]
               prior == {r \in accepted : r.id < received}
    <2>1. /\ pc[Receiver] = "dispatch" /\ pc'[Receiver] = "enqueue"
          /\ status' = [f \in Fields |-> MergeValue(status[f], payload.fields[f])]
          /\ UNCHANGED <<payload, received, accepted>>
      BY <1>31 DEF ReceiveDispatch, MergeStatus, Goto
    <2>2. /\ received \in 1..MaxReports
          /\ payload.fields \in Delta
      BY <1>0, <2>1, PayloadType DEF NumberOK
    <2>3. accepted = prior \cup {new}
      <3>1. new.id = received /\ new \in accepted
        BY <2>1 DEF SnapshotInv, ArrivalKnown
      <3>2. \A r \in accepted : r.id < received \/ r = new
        BY <1>0, <2>1, <2>2 DEF SnapshotInv, ArrivalKnown, Report
      <3> HIDE DEF new
      <3> QED
        BY <3>1, <3>2
    <2>4. prior \in SUBSET Report /\ \A r \in prior : r.id < received
      BY <1>0
    <2>5. status = DocumentOf(prior)
      BY <2>1 DEF SnapshotInv
    <2> HIDE DEF prior
    <2>6. \A f \in Fields : MergeValue(DocumentOf(prior)[f], payload.fields[f])
                                = DocumentOf(prior \cup {new})[f]
      BY <2>2, <2>4, MergeAdds
    <2>7. DocumentOf(accepted) = [f \in Fields |-> DocumentOf(accepted)[f]]
      BY DEF DocumentOf
    <2> HIDE DEF new
    <2>8. status' = DocumentOf(accepted)
      BY <2>1, <2>3, <2>5, <2>6, <2>7
    <2> QED
      BY <2>1, <2>8 DEF SnapshotInv, ArrivalKnown
  <1>32. CASE UNCHANGED vars
    BY <1>32, SameSnapshot DEF vars
  <1> QED
    BY <1>1, <1>2, <1>3, <1>4, <1>5, <1>6, <1>7, <1>8, <1>9, <1>10, <1>11, <1>12,
       <1>13, <1>14, <1>15, <1>16, <1>17, <1>18, <1>19, <1>20, <1>21, <1>22, <1>23,
       <1>24, <1>25, <1>26, <1>27, <1>28, <1>29, <1>30, <1>31, <1>32
       DEF Next, CallerNext, SendStep, AwaitStep, FailStep, ReceiverNext, ReceiveStep

\* For any reports of any shape, dropped ones included, the snapshot a caller can
\* take is the document all accepted reports add up to.
THEOREM SnapshotsAreComplete == Spec => []SnapshotIsComplete
  <1>1. TypeInv /\ MutexInv /\ SnapshotInv => SnapshotIsComplete
    <2> SUFFICES ASSUME TypeInv, MutexInv, SnapshotInv, mu # Receiver
                 PROVE  status = Document(received)
      BY DEF SnapshotIsComplete
    <2>1. pc[Receiver] # "dispatch"
      BY DEF MutexInv, Critical, Processes
    <2>2. {r \in accepted : r.id <= received} = accepted
      BY DEF SnapshotInv
    <2> QED
      BY <2>1, <2>2 DEF SnapshotInv, Document
  <1>2. Spec => []SnapshotInv
    BY MutexCorrect, InitSnapshotInv, NextSnapshotInv, PTL DEF Spec
  <1> QED
    BY <1>1, <1>2, MutexCorrect, PTL

-----------------------------------------------------------------------------
(* The session implements RequestContract *)

\* A request knows what it will return exactly while its deferred delete is due.
OutcomeInv == \A c \in Callers : outcome[c] # "none" <=> pc[c] = "unregister"

LEMMA LeaveOutcome ==
  ASSUME TypeInv, OutcomeInv, NEW c \in Callers, NEW o, o # "none",
         pc[c] \in {"send", "publish", "token", "await"}, Leave(c, o)
  PROVE  OutcomeInv'
  <1>1. /\ pc \in [Processes -> AllPCs] /\ Callers \subseteq Processes
        /\ outcome \in [Callers -> Outcomes]
    BY DEF TypeInv, TypeOK, LocalOK, Processes
  <1> QED
    BY <1>1 DEF Leave, Return, Goto, OutcomeInv

LEMMA NextOutcomeInv == TypeInv /\ OutcomeInv /\ [Next]_vars => OutcomeInv'
  <1> SUFFICES ASSUME TypeInv, OutcomeInv, [Next]_vars PROVE OutcomeInv'
    OBVIOUS
  <1>0. /\ pc \in [Processes -> AllPCs] /\ Callers \subseteq Processes
        /\ \A p \in Processes : pc[p] \in PCs(p)
        /\ outcome \in [Callers -> Outcomes] /\ slot \in [Callers -> Seq(Reply)]
    BY DEF TypeInv, TypeOK, LocalOK, Processes
  <1> USE <1>0, ProcessesAssumption DEF OutcomeInv, Processes, sharedVars, localVars
  <1>1. ASSUME NEW c \in Callers, NEW op \in {"request", "send"}, NEW cmd \in Commands,
               Encode(c, op, cmd)
        PROVE  OutcomeInv'
    BY <1>1 DEF Encode, Goto
  <1>2. ASSUME NEW c \in Callers, SendRejected(c) PROVE OutcomeInv'
    BY <1>2, LeaveOutcome DEF SendRejected
  <1>3. ASSUME NEW c \in Callers, SendCancelled(c) PROVE OutcomeInv'
    BY <1>3, LeaveOutcome DEF SendCancelled
  <1>4. ASSUME NEW c \in Callers, SendClosed(c) PROVE OutcomeInv'
    BY <1>4, LeaveOutcome DEF SendClosed
  <1>5. ASSUME NEW c \in Callers, PublishOffline(c) PROVE OutcomeInv'
    BY <1>5, LeaveOutcome DEF PublishOffline
  <1>6. ASSUME NEW c \in Callers, TokenFailed(c) PROVE OutcomeInv'
    BY <1>6, LeaveOutcome DEF TokenFailed
  <1>7. ASSUME NEW c \in Callers, TokenCancelled(c) PROVE OutcomeInv'
    BY <1>7, LeaveOutcome DEF TokenCancelled
  <1>8. ASSUME NEW c \in Callers, AwaitCancelled(c) PROVE OutcomeInv'
    BY <1>8, LeaveOutcome DEF AwaitCancelled
  <1>9. ASSUME NEW c \in Callers, AwaitClosed(c) PROVE OutcomeInv'
    BY <1>9, LeaveOutcome DEF AwaitClosed
  <1>10. ASSUME NEW c \in Callers, AwaitReply(c) PROVE OutcomeInv'
    <2>1. slot[c] \in Seq(Reply) /\ slot[c] # <<>>
      BY <1>10 DEF AwaitReply
    <2>2. Head(slot[c]) \in Reply
      BY <2>1
    <2>3. Head(slot[c]).result # "none"
      BY <2>2 DEF Reply, Results
    <2> QED
      BY <1>10, <2>3, LeaveOutcome DEF AwaitReply
  <1>11. ASSUME NEW c \in Callers, TokenDelivered(c) PROVE OutcomeInv'
    BY <1>11 DEF TokenDelivered, Return, Goto
  <1>12. ASSUME NEW c \in Callers, Register(c) PROVE OutcomeInv'
    BY <1>12 DEF Register, Goto
  <1>13. ASSUME NEW c \in Callers, SendOpen(c) PROVE OutcomeInv'
    BY <1>13 DEF SendOpen, Goto
  <1>14. ASSUME NEW c \in Callers, Publish(c) PROVE OutcomeInv'
    BY <1>14 DEF Publish, Goto
  <1>15. ASSUME NEW c \in Callers, ContextExpires(c) PROVE OutcomeInv'
    BY <1>15 DEF ContextExpires
  <1>16. ASSUME NEW c \in Callers, CloseBegin(c) PROVE OutcomeInv'
    BY <1>16 DEF CloseBegin, Goto
  <1>17. ASSUME NEW c \in Callers, Unregister(c) PROVE OutcomeInv'
    BY <1>17 DEF Unregister, Return, Goto
  <1>18. ASSUME NEW c \in Callers, Disconnect(c) PROVE OutcomeInv'
    BY <1>18 DEF Disconnect, Return, Goto
  <1>19. ASSUME NEW p \in Callers \cup {Lost}, FailAlreadyClosed(p) PROVE OutcomeInv'
    BY <1>19 DEF FailAlreadyClosed, AfterFail, Goto
  <1>20. ASSUME NEW p \in Callers \cup {Lost}, FailLock(p) PROVE OutcomeInv'
    BY <1>20 DEF FailLock, Goto
  <1>21. ASSUME NEW p \in Callers \cup {Lost}, FailPush(p) PROVE OutcomeInv'
    BY <1>21 DEF FailPush, Goto
  <1>22. ASSUME NEW p \in Callers \cup {Lost}, FailClose(p) PROVE OutcomeInv'
    BY <1>22 DEF FailClose, AfterFail, Goto
  <1>23. CASE ConnectionLost
    BY <1>23 DEF ConnectionLost, Goto
  <1>24. CASE ReceiveClosed
    BY <1>24 DEF ReceiveClosed, Goto
  <1>25. CASE ReceiveLock
    BY <1>25 DEF ReceiveLock, Goto
  <1>26. CASE ReceiveMalformed
    BY <1>26 DEF ReceiveMalformed
  <1>27. CASE ReceiveDispatch
    BY <1>27 DEF ReceiveDispatch, Goto
  <1>28. CASE ReceiveEnqueue
    BY <1>28 DEF ReceiveEnqueue, Goto
  <1>29. CASE TakeReport
    BY <1>29 DEF TakeReport
  <1>30. CASE TakeError
    BY <1>30 DEF TakeError
  <1>31. ASSUME NEW m \in Payloads, ReceiveBegin(m) PROVE OutcomeInv'
    BY <1>31 DEF ReceiveBegin, Goto
  <1>32. CASE UNCHANGED vars
    BY <1>32 DEF vars
  <1> QED
    BY <1>1, <1>2, <1>3, <1>4, <1>5, <1>6, <1>7, <1>8, <1>9, <1>10, <1>11, <1>12,
       <1>13, <1>14, <1>15, <1>16, <1>17, <1>18, <1>19, <1>20, <1>21, <1>22, <1>23,
       <1>24, <1>25, <1>26, <1>27, <1>28, <1>29, <1>30, <1>31, <1>32
       DEF Next, CallerNext, SendStep, AwaitStep, FailStep, ReceiverNext, ReceiveStep

\* A key is no empty sequence, and neither is a reply.
LEMMA KeyIsKey == ASSUME NEW k \in Keys PROVE k # <<>>
  <1>1. k = <<k[1], k[2]>>
    BY DEF Keys
  <1>2. Len(<<k[1], k[2]>>) = 2 /\ Len(<<>>) = 0
    OBVIOUS
  <1> QED
    BY <1>1, <1>2

LEMMA ReplyIsReply == ASSUME NEW r \in Reply PROVE r # <<>>
  <1>1. DOMAIN r = {"key", "result"}
    BY DEF Reply
  <1>2. DOMAIN <<>> = {}
    OBVIOUS
  <1> QED
    BY <1>1, <1>2

\* The two parts of the refinement mapping that are not variables.
Asked(c) == IF InFlight(c) THEN call[c].key ELSE <<>>
Given(c) == IF slot[c] = <<>> THEN NoReply ELSE Head(slot[c])

Refined == Contract!Next \/ UNCHANGED Contract!contractVars

\* A step that concerns nothing the contract speaks of.
LEMMA SameContract ==
  ASSUME UNCHANGED <<closed, slot, outcome>>,
         \A c \in Callers : /\ InFlight(c)' <=> InFlight(c)
                            /\ InFlight(c) => call'[c] = call[c]
  PROVE  Refined
  <1>1. \A c \in Callers : (IF InFlight(c) THEN call[c].key ELSE <<>>)'
                              = IF InFlight(c) THEN call[c].key ELSE <<>>
    OBVIOUS
  <1> QED
    BY <1>1 DEF Refined, Contract!contractVars

\* A request that leaves send or its select has come to a conclusion; a Send that
\* returns is nothing to the contract.
LEMMA LeaveConcludes ==
  ASSUME TypeInv, OutcomeInv, NEW c \in Callers, NEW v, v # "none", Leave(c, v),
         pc[c] \in {"send", "publish", "token", "await"},
         UNCHANGED <<closed, slot>>,
         \/ v \in {"invalid", "cancelled", "failed"}
         \/ v = "closed" /\ closed
         \/ slot[c] # <<>> /\ v = Head(slot[c]).result
  PROVE  Refined
  <1>0. /\ pc \in [Processes -> AllPCs] /\ Callers \subseteq Processes
        /\ call \in [Callers -> Calls] /\ slot \in [Callers -> Seq(Reply)]
        /\ outcome \in [Callers -> Outcomes] /\ outcome[c] = "none"
        /\ call[c].key \in Keys
    BY DEF TypeInv, TypeOK, LocalOK, CallOK, Active, OutcomeInv, Processes
  <1>1. CASE call[c].op # "request"
    <2>1. /\ Goto(c, "idle") /\ call' = [call EXCEPT ![c] = NoCall]
          /\ outcome' = [outcome EXCEPT ![c] = "none"]
      BY <1>1 DEF Leave, Return
    <2>2. outcome' = outcome
      BY <1>0, <2>1
    <2>3. \A d \in Callers : /\ InFlight(d)' <=> InFlight(d)
                             /\ InFlight(d) => call'[d] = call[d]
      BY <1>0, <1>1, <2>1 DEF Goto, InFlight, NoCall
    <2> QED
      BY <2>2, <2>3, SameContract
  <1>2. CASE call[c].op = "request"
    <2>1. /\ Goto(c, "unregister") /\ UNCHANGED call
          /\ outcome' = [outcome EXCEPT ![c] = v]
      BY <1>2 DEF Leave
    <2>2. \A d \in Callers : InFlight(d)' <=> InFlight(d)
      BY <1>0, <1>2, <2>1 DEF Goto, InFlight
    <2>3. InFlight(c) /\ Asked(c) = call[c].key
      BY <1>2 DEF InFlight, Asked
    <2>4. /\ UNCHANGED <<~closed, [d \in Callers |-> Asked(d)], [d \in Callers |-> Given(d)]>>
          /\ Asked(c) # <<>>
      BY <1>0, <2>1, <2>2, <2>3, KeyIsKey DEF Asked, Given
    <2>5. slot[c] # <<>> => Given(c) = Head(slot[c]) /\ Given(c) # NoReply
      BY <1>0, ReplyIsReply DEF Given, NoReply
    <2>6. \A w : Contract!Conclude(c, w)
               <=> /\ [d \in Callers |-> Asked(d)][c] # <<>>
                   /\ outcome[c] = "none"
                   /\ \/ w \in {"invalid", "cancelled", "failed"}
                      \/ w = "closed" /\ ~~closed
                      \/ /\ [d \in Callers |-> Given(d)][c] # NoReply
                         /\ w = [d \in Callers |-> Given(d)][c].result
                   /\ outcome' = [outcome EXCEPT ![c] = w]
                   /\ UNCHANGED <<~closed, [d \in Callers |-> Asked(d)],
                                  [d \in Callers |-> Given(d)]>>
      BY DEF Contract!Conclude, Asked, Given, NoReply
    <2>7. Contract!Conclude(c, v)
      BY <1>0, <2>1, <2>4, <2>5, <2>6
    <2>8. v \in {"invalid", "cancelled", "failed"} \cup Results \cup {"closed"}
      <3>1. slot[c] # <<>> => Head(slot[c]) \in Reply
        BY <1>0
      <3>2. slot[c] # <<>> => Head(slot[c]).result \in Results
        BY <3>1 DEF Reply
      <3> QED
        BY <3>2
    <2> QED
      BY <2>7, <2>8 DEF Refined, Contract!Next
  <1> QED
    BY <1>1, <1>2

LEMMA OneElement ==
  ASSUME NEW S, NEW s \in Seq(S), s # <<>>, Len(s) <= 1 PROVE Len(s) = 1
  <1>1. Len(s) \in Nat
    OBVIOUS
  <1>2. Len(s) # 0
    OBVIOUS
  <1> QED
    BY <1>1, <1>2

LEMMA NextContract ==
  ASSUME TypeInv, TypeInv', MutexInv, RequestInv, RequestInv', OutcomeInv, [Next]_vars
  PROVE  Refined
  <1>0. /\ pc \in [Processes -> AllPCs] /\ \A p \in Processes : pc[p] \in PCs(p)
        /\ Callers \subseteq Processes /\ CallOK
        /\ call \in [Callers -> Calls] /\ outcome \in [Callers -> Outcomes]
        /\ slot \in [Callers -> Seq(Reply)] /\ \A c \in Callers : Len(slot[c]) <= 1
    BY DEF TypeInv, TypeOK, LocalOK, Processes
  <1> USE <1>0, ProcessesAssumption DEF InFlight, Processes, sharedVars, localVars, historyVars
  <1>1. ASSUME NEW c \in Callers, NEW op \in {"request", "send"}, NEW cmd \in Commands,
               Encode(c, op, cmd)
        PROVE  Refined
    BY <1>1, SameContract DEF Encode, Goto
  <1>2. ASSUME NEW c \in Callers, SendRejected(c) PROVE Refined
    BY <1>2, LeaveConcludes DEF SendRejected
  <1>3. ASSUME NEW c \in Callers, SendCancelled(c) PROVE Refined
    BY <1>3, LeaveConcludes DEF SendCancelled
  <1>4. ASSUME NEW c \in Callers, SendClosed(c) PROVE Refined
    BY <1>4, LeaveConcludes DEF SendClosed
  <1>5. ASSUME NEW c \in Callers, TokenFailed(c) PROVE Refined
    BY <1>5, LeaveConcludes DEF TokenFailed
  <1>6. ASSUME NEW c \in Callers, TokenCancelled(c) PROVE Refined
    BY <1>6, LeaveConcludes DEF TokenCancelled
  <1>7. ASSUME NEW c \in Callers, AwaitCancelled(c) PROVE Refined
    BY <1>7, LeaveConcludes DEF AwaitCancelled
  <1>8. ASSUME NEW c \in Callers, AwaitClosed(c) PROVE Refined
    BY <1>8, LeaveConcludes DEF AwaitClosed
  <1>9. ASSUME NEW c \in Callers, PublishOffline(c) PROVE Refined
    BY <1>9, LeaveConcludes DEF PublishOffline
  <1>10. ASSUME NEW c \in Callers, AwaitReply(c) PROVE Refined
    <2>1. Head(slot[c]) \in Reply
      BY <1>10 DEF AwaitReply
    <2>2. Head(slot[c]).result # "none"
      BY <2>1 DEF Reply, Results
    <2> QED
      BY <1>10, <2>2, LeaveConcludes DEF AwaitReply
  <1>11. ASSUME NEW c \in Callers, TokenDelivered(c) PROVE Refined
    <2>1. call[c].op = "request" => Goto(c, "await") /\ UNCHANGED <<call, outcome>>
      BY <1>11 DEF TokenDelivered
    <2>2. call[c].op # "request" => Return(c)
      BY <1>11 DEF TokenDelivered
    <2>3. pc[c] = "token" /\ UNCHANGED <<closed, slot>>
      BY <1>11 DEF TokenDelivered
    <2>4. outcome' = outcome
      BY <2>1, <2>2, <2>3 DEF Return, OutcomeInv
    <2> QED
      BY <2>1, <2>2, <2>3, <2>4, SameContract DEF Return, Goto
  <1>12. ASSUME NEW c \in Callers, Register(c) PROVE Refined
    <2>0. PICK k \in Keys : k = call[c].key
      BY <1>12 DEF Register, CallOK, Active
    <2>1. /\ pc[c] = "register" /\ pc' = [pc EXCEPT ![c] = "send"]
          /\ UNCHANGED <<closed, call, slot, outcome>>
      BY <1>12 DEF Register, Goto
    <2>2. call[c].op = "request" /\ ~InFlight(c) /\ InFlight(c)'
      BY <2>0, <2>1 DEF CallOK, Active, InFlight
    <2>3. \A d \in Callers : d # c => (InFlight(d)' <=> InFlight(d))
      BY <2>1 DEF InFlight
    <2>4. \A d \in Callers : Asked(d) # k
      <3> SUFFICES ASSUME NEW d \in Callers, InFlight(d), call[d].key = k PROVE FALSE
        BY <2>2, KeyIsKey DEF Asked
      <3>1. d = c
        BY <2>0, <2>1 DEF RequestInv, KeysDistinct, Active, InFlight
      <3> QED
        BY <2>2, <3>1
    <2>5. [d \in Callers |-> Asked(d)]' = [[d \in Callers |-> Asked(d)] EXCEPT ![c] = k]
      BY <2>0, <2>1, <2>2, <2>3 DEF Asked
    <2>6. Contract!Ask(c, k)
      <3>1. Contract!Ask(c, k)
               <=> /\ Asked(c) = <<>>
                   /\ \A d \in Callers : Asked(d) # k
                   /\ [d \in Callers |-> Asked(d)]'
                         = [[d \in Callers |-> Asked(d)] EXCEPT ![c] = k]
                   /\ UNCHANGED <<~closed, [d \in Callers |-> Given(d)], outcome>>
        BY DEF Contract!Ask, Asked, Given, NoReply
      <3>2. Asked(c) = <<>>
        BY <2>2 DEF Asked
      <3>3. UNCHANGED <<~closed, [d \in Callers |-> Given(d)], outcome>>
        BY <2>1 DEF Given
      <3> QED
        BY <2>4, <2>5, <3>1, <3>2, <3>3
    <2> QED
      BY <2>6 DEF Refined, Contract!Next
  <1>13. ASSUME NEW c \in Callers, SendOpen(c) PROVE Refined
    BY <1>13, SameContract DEF SendOpen, Goto
  <1>14. ASSUME NEW c \in Callers, Publish(c) PROVE Refined
    BY <1>14, SameContract DEF Publish, Goto
  <1>15. ASSUME NEW c \in Callers, ContextExpires(c) PROVE Refined
    BY <1>15, SameContract DEF ContextExpires
  <1>16. ASSUME NEW c \in Callers, CloseBegin(c) PROVE Refined
    BY <1>16, SameContract DEF CloseBegin, Goto
  <1>17. ASSUME NEW c \in Callers, Unregister(c) PROVE Refined
    <2>1. /\ pc[c] = "unregister" /\ call[c].op = "request" /\ UNCHANGED closed
          /\ pc' = [pc EXCEPT ![c] = "idle"]
          /\ call' = [call EXCEPT ![c] = NoCall]
          /\ slot' = [slot EXCEPT ![c] = <<>>]
          /\ outcome' = [outcome EXCEPT ![c] = "none"]
      BY <1>17 DEF Unregister, Return, Goto, CallOK, Active
    <2>2. ~InFlight(c)' /\ \A d \in Callers : d # c =>
             (InFlight(d)' <=> InFlight(d)) /\ call'[d] = call[d]
      BY <2>1 DEF InFlight
    <2>3. [d \in Callers |-> Asked(d)]' = [[d \in Callers |-> Asked(d)] EXCEPT ![c] = <<>>]
      BY <2>2 DEF Asked
    <2>4. [d \in Callers |-> Given(d)]' = [[d \in Callers |-> Given(d)] EXCEPT ![c] = <<>>]
      BY <2>1 DEF Given, NoReply
    <2>5. outcome[c] # "none"
      BY <2>1 DEF OutcomeInv
    <2>6. Contract!Return(c)
               <=> /\ outcome[c] # "none"
                   /\ [d \in Callers |-> Asked(d)]'
                         = [[d \in Callers |-> Asked(d)] EXCEPT ![c] = <<>>]
                   /\ [d \in Callers |-> Given(d)]'
                         = [[d \in Callers |-> Given(d)] EXCEPT ![c] = <<>>]
                   /\ outcome' = [outcome EXCEPT ![c] = "none"]
                   /\ UNCHANGED ~closed
      BY DEF Contract!Return, Asked, Given, NoReply
    <2>7. Contract!Return(c)
      BY <2>1, <2>3, <2>4, <2>5, <2>6
    <2> QED
      BY <2>7 DEF Refined, Contract!Next
  <1>18. ASSUME NEW c \in Callers, Disconnect(c) PROVE Refined
    <2>1. outcome[c] = "none"
      BY <1>18 DEF Disconnect, OutcomeInv
    <2> QED
      BY <1>18, <2>1, SameContract DEF Disconnect, Return, Goto
  <1>19. ASSUME NEW p \in Callers \cup {Lost}, FailAlreadyClosed(p) PROVE Refined
    BY <1>19, SameContract DEF FailAlreadyClosed, AfterFail, Goto
  <1>20. ASSUME NEW p \in Callers \cup {Lost}, FailLock(p) PROVE Refined
    BY <1>20, SameContract DEF FailLock, Goto
  <1>21. ASSUME NEW p \in Callers \cup {Lost}, FailPush(p) PROVE Refined
    BY <1>21, SameContract DEF FailPush, Goto
  <1>22. ASSUME NEW p \in Callers \cup {Lost}, FailClose(p) PROVE Refined
    <2>1. ~closed /\ closed'
      BY <1>22 DEF FailClose, MutexInv, Critical
    <2>2. /\ UNCHANGED <<call, slot, outcome>>
          /\ \A c \in Callers : InFlight(c)' <=> InFlight(c)
      BY <1>22 DEF FailClose, AfterFail, Goto, InFlight
    <2>3. UNCHANGED <<[c \in Callers |-> Asked(c)], [c \in Callers |-> Given(c)], outcome>>
      BY <2>2 DEF Asked, Given
    <2>4. Contract!Shut
               <=> /\ ~closed
                   /\ (~closed)' = FALSE
                   /\ UNCHANGED <<[c \in Callers |-> Asked(c)],
                                  [c \in Callers |-> Given(c)], outcome>>
      BY DEF Contract!Shut, Asked, Given, NoReply
    <2>5. Contract!Shut
      BY <2>1, <2>3, <2>4
    <2> QED
      BY <2>5 DEF Refined, Contract!Next
  <1>23. CASE ConnectionLost
    BY <1>23, SameContract DEF ConnectionLost, Goto
  <1>24. CASE ReceiveClosed
    BY <1>24, SameContract DEF ReceiveClosed, Goto
  <1>25. CASE ReceiveLock
    BY <1>25, SameContract DEF ReceiveLock, Goto
  <1>26. CASE ReceiveMalformed
    BY <1>26, SameContract DEF ReceiveMalformed
  <1>27. CASE ReceiveEnqueue
    BY <1>27, SameContract DEF ReceiveEnqueue, Goto
  <1>28. CASE TakeReport
    BY <1>28, SameContract DEF TakeReport
  <1>29. CASE TakeError
    BY <1>29, SameContract DEF TakeError
  <1>30. CASE ReceiveDispatch
    <2>1. /\ UNCHANGED <<closed, call, outcome>> /\ ~closed
          /\ \A c \in Callers : InFlight(c)' <=> InFlight(c)
      BY <1>30 DEF ReceiveDispatch, MutexInv, Critical, Goto, InFlight
    <2>2. UNCHANGED [c \in Callers |-> Asked(c)]
      BY <2>1 DEF Asked
    <2>3. slot' \in [Callers -> Seq(Reply)] /\ \A c \in Callers : Len(slot'[c]) <= 1
      BY DEF TypeInv, TypeOK, LocalOK
    <2>4. ASSUME NEW c \in Callers
          PROVE  /\ Given(c)' \in Reply \cup {NoReply}
                 /\ Given(c)' # Given(c) =>
                       Given(c) = NoReply /\ Given(c)'.key = Asked(c)
      <3>1. Given(c)' \in Reply \cup {NoReply}
        BY <2>3 DEF Given, NoReply
      <3>2. CASE slot[c] # <<>>
        <4>0. slot[c] \in Seq(Reply) /\ Len(slot[c]) <= 1
          OBVIOUS
        <4>1. Len(slot[c]) = 1
          BY <3>2, <4>0, OneElement
        <4>2. slot'[c] = slot[c]
          BY <1>30, <4>0, <4>1 DEF ReceiveDispatch, DispatchReplies, Offer
        <4> QED
          BY <3>1, <4>2 DEF Given
      <3>3. CASE slot[c] = <<>>
        <4>1. CASE slot'[c] = <<>>
          BY <3>1, <3>3, <4>1 DEF Given
        <4>2. CASE slot'[c] # <<>>
          <5>1. 1 \in DOMAIN slot'[c] /\ Head(slot'[c]) = slot'[c][1]
            BY <2>3, <4>2
          <5>2. InFlight(c) /\ slot'[c][1].key = call[c].key
            BY <2>1, <5>1 DEF RequestInv, ReplyIsOwn
          <5>3. Given(c)'.key = Asked(c)
            BY <4>2, <5>1, <5>2 DEF Given, Asked
          <5> QED
            BY <3>1, <3>3, <5>3 DEF Given
        <4> QED
          BY <4>1, <4>2
      <3> QED
        BY <3>2, <3>3
    <2>5. Contract!Answer
               <=> /\ ~closed
                   /\ [c \in Callers |-> Given(c)]' \in [Callers -> Reply \cup {NoReply}]
                   /\ \A c \in Callers :
                         [d \in Callers |-> Given(d)]'[c] # [d \in Callers |-> Given(d)][c]
                           => /\ [d \in Callers |-> Given(d)][c] = NoReply
                              /\ [d \in Callers |-> Given(d)]'[c].key
                                    = [d \in Callers |-> Asked(d)][c]
                   /\ UNCHANGED <<~closed, [c \in Callers |-> Asked(c)], outcome>>
      BY DEF Contract!Answer, Contract!Replies, Reply, Asked, Given, NoReply
    <2>6. Contract!Answer
      BY <2>1, <2>2, <2>4, <2>5
    <2> QED
      BY <2>6 DEF Refined, Contract!Next
  <1>31. ASSUME NEW m \in Payloads, ReceiveBegin(m) PROVE Refined
    BY <1>31, SameContract DEF ReceiveBegin, Goto
  <1>32. CASE UNCHANGED vars
    BY <1>32, SameContract DEF vars
  <1> QED
    BY <1>1, <1>2, <1>3, <1>4, <1>5, <1>6, <1>7, <1>8, <1>9, <1>10, <1>11, <1>12,
       <1>13, <1>14, <1>15, <1>16, <1>17, <1>18, <1>19, <1>20, <1>21, <1>22, <1>23,
       <1>24, <1>25, <1>26, <1>27, <1>28, <1>29, <1>30, <1>31, <1>32
       DEF Next, CallerNext, SendStep, AwaitStep, FailStep, ReceiverNext, ReceiveStep

\* The session refines the abstract contract: with any number of callers, whatever
\* the topic carries and however Close calls and a loss race, every step of the
\* session is a step of RequestContract or invisible to it.
THEOREM ImplementsContract == Spec => KeepsContract
  <1>1. Init => Contract!Init
    <2> SUFFICES ASSUME Init PROVE Contract!Init
      OBVIOUS
    <2>1. \A c \in Callers : ~InFlight(c) /\ slot[c] = <<>>
      BY DEF Init, InFlight, NoCall
    <2>2. ~closed = TRUE /\ outcome = [c \in Callers |-> "none"]
      BY DEF Init
    <2> QED
      BY <2>1, <2>2 DEF Contract!Init
  <1>2. /\ TypeInv /\ MutexInv /\ RequestInv /\ OutcomeInv
        /\ TypeInv' /\ RequestInv' /\ [Next]_vars
        => [Contract!Next]_(Contract!contractVars)
    BY NextContract DEF Refined
  <1>3. Init => OutcomeInv
    BY DEF Init, OutcomeInv, Processes
  <1>4. Spec => []OutcomeInv
    BY <1>3, MutexCorrect, NextOutcomeInv, PTL DEF Spec
  <1>5. Spec => Contract!Spec
    BY <1>1, <1>2, <1>4, RequestCorrect, PTL DEF Spec, Contract!Spec
  <1> QED
    BY <1>5 DEF KeepsContract

-----------------------------------------------------------------------------
(* The CLI's printer commands: each step of one is a step of its session, so   *)
(* that what is proved of the session holds while the command runs.            *)

\* A step of a command does to the session what some goroutine of the session does.
LEMMA CommandStep ==
  ASSUME command \in CliCommands, [CommandNext]_allVars
  PROVE  [Next]_vars /\ command' = command
  <1> USE CliAssumption DEF commandVars, outVars, viewVars
  <1>1. CASE RunAction
    <2>1. \E wire \in Commands : Encode(Cli, "send", wire)
      BY <1>1, CliAssumption DEF RunAction
    <2> QED
      BY <1>1, <2>1 DEF RunAction, Next, CallerNext
  <1>2. CASE SendRuns \/ SendSucceeds \/ SendFails \/ SendTooLate \/ DeliveryFails
    <2>1. SendStep(Cli)
      BY <1>2 DEF SendRuns, SendSucceeds, SendFails, SendTooLate, DeliveryFails, SendStep
    <2> QED
      BY <1>2, <2>1
         DEF SendRuns, SendSucceeds, SendFails, SendTooLate, DeliveryFails, Next, CallerNext
  <1>3. CASE SendTimeout \/ ReturnCloses \/ Exit
    BY <1>3 DEF SendTimeout, ReturnCloses, Exit, Next, CallerNext
  <1>4. CASE CloseRuns
    BY <1>4 DEF CloseRuns, Next
  <1>5. CASE SelectError \/ SelectReport \/ DoneReturns
    BY <1>5 DEF SelectError, SelectReport, DoneReturns, Next
  <1>6. CASE \/ Refuse \/ ReportSent \/ Cancel \/ SelectCancelled \/ SelectDone
             \/ Show \/ ShowFails
    BY <1>6 DEF Refuse, ReportSent, Cancel, SelectCancelled, SelectDone, Show, ShowFails
  <1>7. CASE Accept \/ SessionRuns
    BY <1>7 DEF Accept, SessionRuns, Next, ReceiverNext, ReceiveStep
  <1>8. CASE UNCHANGED allVars
    BY <1>8 DEF allVars
  <1> QED
    BY <1>1, <1>2, <1>3, <1>4, <1>5, <1>6, <1>7, <1>8 DEF CommandNext, OwnStep, BrokerStep

\* A running command is a session.
THEOREM CommandIsSession == CommandSpec => Spec
  <1>1. CommandInit => Init /\ command \in CliCommands
    BY DEF CommandInit
  <1>2. command \in CliCommands /\ [CommandNext]_allVars
        => [Next]_vars /\ (command \in CliCommands)'
    BY CommandStep
  <1> QED
    BY <1>1, <1>2, PTL DEF CommandSpec, Spec

\* What every session keeps to, while a command runs.
SessionInv == TypeInv /\ MutexInv /\ CloseInv /\ SnapshotInv

LEMMA SessionKept == CommandSpec => []SessionInv
  <1>1. Spec => []SnapshotInv
    BY MutexCorrect, InitSnapshotInv, NextSnapshotInv, PTL DEF Spec
  <1> QED
    BY <1>1, CommandIsSession, CloseCorrect, PTL DEF SessionInv

\* Which steps change what: the parts of the state that few steps touch.
LEMMA CommandFrame ==
  ASSUME [CommandNext]_allVars
  PROVE  /\ Accept \/ UNCHANGED <<accepted, received, print>>
         /\ SelectReport \/ ReceiveEnqueue \/ UNCHANGED reports
         /\ SelectReport \/ UNCHANGED current
         /\ Show \/ UNCHANGED shown
  <1> USE DEF commandVars, outVars, viewVars, vars, sharedVars, localVars, historyVars
  <1>1. CASE RunAction \/ SendRuns
    BY <1>1 DEF RunAction, Encode, SendRuns, SendOpen, Publish
  <1>2. CASE SendSucceeds \/ SendFails \/ SendTooLate \/ DeliveryFails
    BY <1>2 DEF SendSucceeds, TokenDelivered, SendFails, SendTooLate, SendCancelled, SendClosed,
                PublishOffline, TokenCancelled, DeliveryFails, TokenFailed
  <1>3. CASE SendTimeout \/ ReturnCloses \/ Exit
    BY <1>3 DEF SendTimeout, ContextExpires, ReturnCloses, CloseBegin, Exit, Disconnect
  <1>4. CASE CloseRuns
    BY <1>4 DEF CloseRuns, FailStep, FailAlreadyClosed, FailLock, FailPush, FailClose
  <1>5. CASE SelectError \/ DoneReturns
    BY <1>5 DEF SelectError, DoneReturns, TakeError
  <1>6. CASE SelectReport
    BY <1>6 DEF SelectReport, TakeReport
  <1>7. CASE \/ Refuse \/ ReportSent \/ Cancel \/ SelectCancelled \/ SelectDone
             \/ Show \/ ShowFails
    BY <1>7 DEF Refuse, ReportSent, Cancel, SelectCancelled, SelectDone, Show, ShowFails
  <1>8. CASE Accept
    BY <1>8 DEF Accept, ReceiveLock
  <1>9. CASE SessionRuns
    BY <1>9 DEF SessionRuns, ConnectionLost, FailStep, FailAlreadyClosed, FailLock, FailPush,
                FailClose, ReceiveMalformed, ReceiveBegin, ReceiveClosed, ReceiveDispatch,
                ReceiveEnqueue
  <1>10. CASE UNCHANGED allVars
    BY <1>10 DEF allVars
  <1> QED
    BY <1>1, <1>2, <1>3, <1>4, <1>5, <1>6, <1>7, <1>8, <1>9, <1>10
       DEF CommandNext, OwnStep, BrokerStep

-----------------------------------------------------------------------------
(* What is shown *)

\* What the reports carry and the command has seen is no newer than what receive has
\* accepted, and what is shown has been the status.
ViewInv ==
    /\ \A i \in DOMAIN reports : reports[i].id <= received
    /\ current.id \in 0..received
    /\ print \subseteq 1..received
    /\ \E n \in 0..received : shown = Document(n)

LEMMA InitViewInv == CommandInit => ViewInv
  <1> SUFFICES ASSUME CommandInit PROVE ViewInv
    OBVIOUS
  <1>1. SnapshotInv /\ pc[Receiver] = "idle" /\ accepted = {} /\ received = 0
    BY InitSnapshotInv DEF CommandInit, Init, Processes
  <1>2. status = DocumentOf(accepted) /\ shown = status
    BY <1>1 DEF SnapshotInv, CommandInit, Init
  <1>3. {r \in accepted : r.id <= 0} = accepted
    BY <1>1
  <1>4. shown = Document(0)
    BY <1>2, <1>3 DEF Document
  <1>5. reports = <<>> /\ current.id = 0 /\ print = {}
    BY DEF CommandInit, Init, NoReport
  <1> QED
    BY <1>1, <1>4, <1>5 DEF ViewInv

\* The document of the first reports stays what it is when further ones are accepted.
LEMMA DocumentStays ==
  ASSUME SessionInv, Accept \/ UNCHANGED <<accepted, received>>
  PROVE  /\ received \in Nat /\ received' \in Nat /\ received <= received'
         /\ \A n \in 0..received : Document(n)' = Document(n)
  <1>1. received \in Nat
    BY BoundsAssumption DEF SessionInv, TypeInv, TypeOK, HistoryOK
  <1>2. CASE UNCHANGED <<accepted, received>>
    BY <1>1, <1>2 DEF Document
  <1>3. CASE Accept
    <2>1. /\ received' = received + 1
          /\ accepted' = accepted \cup {[id |-> received + 1, fields |-> payload.fields]}
      BY <1>3 DEF Accept, ReceiveLock
    <2>2. ASSUME NEW n \in 0..received
          PROVE  {r \in accepted' : r.id <= n} = {r \in accepted : r.id <= n}
      BY <1>1, <2>1
    <2>3. ASSUME NEW n \in 0..received PROVE Document(n)' = Document(n)
      <3>1. Document(n) = DocumentOf({r \in accepted : r.id <= n})
        BY DEF Document
      <3>2. Document(n)' = DocumentOf({r \in accepted' : r.id <= n})
        BY DEF Document
      <3> QED
        BY <2>2, <3>1, <3>2
    <2> QED
      BY <1>1, <2>1, <2>3
  <1> QED
    BY <1>2, <1>3

\* Outside receive's critical section the status is that of all accepted reports.
LEMMA StatusIsDocument ==
  ASSUME SessionInv, mu = NoOne
  PROVE  status = Document(received)
  <1>1. pc[Receiver] # "dispatch"
    BY ProcessesAssumption DEF SessionInv, MutexInv, Critical, Processes
  <1>2. {r \in accepted : r.id <= received} = accepted
    BY DEF SessionInv, SnapshotInv
  <1> QED
    BY <1>1, <1>2 DEF SessionInv, SnapshotInv, Document

LEMMA NextViewInv == SessionInv /\ ViewInv /\ [CommandNext]_allVars => ViewInv'
  <1> SUFFICES ASSUME SessionInv, ViewInv, [CommandNext]_allVars PROVE ViewInv'
    OBVIOUS
  <1>0. /\ received \in Nat /\ received' \in Nat /\ received <= received'
        /\ \A n \in 0..received : Document(n)' = Document(n)
    BY CommandFrame, DocumentStays
  <1>1. \A i \in DOMAIN reports' : reports'[i].id <= received'
    <2>1. reports \in Seq(Report)
      BY DEF SessionInv, TypeInv, TypeOK, SharedOK
    <2>0. ASSUME NEW i \in DOMAIN reports PROVE reports[i].id \in Nat
      <3>1. reports[i] \in Report
        BY <2>1
      <3> QED
        BY <3>1, BoundsAssumption DEF Report
    <2>2. CASE SelectReport
      BY <1>0, <2>0, <2>1, <2>2 DEF ViewInv, SelectReport, TakeReport
    <2>3. CASE ReceiveEnqueue
      <3> DEFINE new == [id |-> received, fields |-> payload.fields]
      <3>1. reports' = Append(reports, new) \/ reports' = reports
        BY <2>3 DEF ReceiveEnqueue, Offer
      <3>2. new.id = received
        OBVIOUS
      <3> HIDE DEF new
      <3>3. CASE reports' = Append(reports, new)
        <4> SUFFICES ASSUME NEW i \in DOMAIN reports' PROVE reports'[i].id <= received'
          OBVIOUS
        <4>1. IF i \in DOMAIN reports THEN reports'[i] = reports[i] ELSE reports'[i] = new
          BY <2>1, <3>3
        <4> QED
          BY <1>0, <2>0, <3>2, <4>1 DEF ViewInv
      <3> QED
        BY <1>0, <2>0, <3>1, <3>3 DEF ViewInv
    <2>4. CASE UNCHANGED reports
      BY <1>0, <2>0, <2>4 DEF ViewInv
    <2> QED
      BY <2>2, <2>3, <2>4, CommandFrame
  <1>2. current'.id \in 0..received'
    <2>1. CASE SelectReport
      <3>1. reports \in Seq(Report) /\ reports # <<>> /\ current' = Head(reports)
        BY <2>1 DEF SelectReport, TakeReport, SessionInv, TypeInv, TypeOK, SharedOK
      <3>2. Head(reports) = reports[1] /\ 1 \in DOMAIN reports /\ Head(reports) \in Report
        BY <3>1
      <3>3. Head(reports).id \in Nat
        BY <3>2, BoundsAssumption DEF Report
      <3> QED
        BY <1>0, <3>1, <3>2, <3>3 DEF ViewInv
    <2>2. CASE UNCHANGED current
      BY <1>0, <2>2 DEF ViewInv
    <2> QED
      BY <2>1, <2>2, CommandFrame
  <1>3. print' \subseteq 1..received'
    <2>1. CASE Accept
      <3>1. received' = received + 1 /\ print' \subseteq print \cup {received + 1}
        BY <2>1 DEF Accept, ReceiveLock
      <3> QED
        BY <1>0, <3>1 DEF ViewInv
    <2>2. CASE UNCHANGED <<accepted, received, print>>
      BY <2>2 DEF ViewInv
    <2> QED
      BY <2>1, <2>2, CommandFrame
  <1>4. \E n \in 0..received' : shown' = Document(n)'
    <2>1. CASE Show
      <3>1. shown' = status /\ status = Document(received)
        BY <2>1, StatusIsDocument DEF Show
      <3> QED
        BY <1>0, <3>1
    <2>2. CASE UNCHANGED shown
      <3>1. PICK n \in 0..received : shown = Document(n)
        BY DEF ViewInv
      <3> QED
        BY <1>0, <2>2, <3>1
    <2> QED
      BY <2>1, <2>2, CommandFrame
  <1> QED
    BY <1>1, <1>2, <1>3, <1>4 DEF ViewInv

\* What is printed on a report is a document no older than that report, and output
\* never goes back to an earlier one, however many reports were dropped between.
THEOREM OutputGoesOn == CommandSpec => OutputAdvances
  <1>1. SessionInv /\ ViewInv /\ [CommandNext]_allVars =>
            [shown' # shown => \E n \in current.id..received :
                                   /\ shown' = Document(n)
                                   /\ \E i \in 0..n : shown = Document(i)]_allVars
    <2> SUFFICES ASSUME SessionInv, ViewInv, [CommandNext]_allVars, shown' # shown
                 PROVE  \E n \in current.id..received :
                            /\ shown' = Document(n)
                            /\ \E i \in 0..n : shown = Document(i)
      OBVIOUS
    <2>1. shown' = status /\ status = Document(received)
      BY CommandFrame, StatusIsDocument DEF Show
    <2>2. received \in Nat
      BY BoundsAssumption DEF SessionInv, TypeInv, TypeOK, HistoryOK
    <2>3. received \in current.id..received /\ \E i \in 0..received : shown = Document(i)
      BY <2>2 DEF ViewInv
    <2> QED
      BY <2>1, <2>3
  <1>2. CommandSpec => []ViewInv
    BY InitViewInv, NextViewInv, SessionKept, PTL DEF CommandSpec
  <1> QED
    BY <1>1, <1>2, SessionKept, PTL DEF CommandSpec, OutputAdvances

-----------------------------------------------------------------------------
(* What a command reports, and what it leaves behind *)

Returning == {"return", "closing", "exit"}

\* What the command's goroutine is doing in the session.
StageInv ==
    /\ step \in {"start", "sending", "sent", "select", "show", "done"} \cup Returning
    /\ step = "sending" => pc[Cli] \in {"send", "publish", "token"} /\ call[Cli].op = "send"
    /\ step = "closing" => pc[Cli] \in {"lock", "close", "disconnect"}
    /\ step \notin {"sending", "closing"} => pc[Cli] = "idle"
    /\ step = "sent" => command \notin Streams
    /\ step \in {"select", "show", "done"} => command \in Streams

\* What has been sent and confirmed by then, and that only a return has a result.
SentInv ==
    /\ step = "start" => sent = 0 /\ confirmed = 0
    /\ step = "sending" => sent = (IF pc[Cli] = "token" THEN 1 ELSE 0) /\ confirmed = 0
    /\ step \in {"sent", "select", "show", "done"} => sent = 1 /\ confirmed = 1
    /\ step \notin Returning => result = "none"
    /\ step = "show" => current # NoReport
    /\ result = "ok" /\ command \notin Streams => sent = 1 /\ confirmed = 1
    /\ result = "refused" => sent = 0
    /\ result = "ok" /\ command = "state" => current # NoReport

\* Before its own Close the command can only see the session closed by a loss, whose
\* reason nobody else takes; after it the session is closed and the connection gone.
\* The bare ErrClosed is that of a session lost before the command was handed over.
EndInv ==
    /\ step \notin Returning => ~drained
    /\ step \notin {"closing", "exit"} /\ closed => closer = Lost
    /\ step = "done" => closed
    /\ step = "closing" /\ pc[Cli] = "disconnect" => closed
    /\ step = "exit" => closed /\ ~connected
    /\ result = "closed" => sent = 0 /\ closed /\ closer = Lost /\ ~drained

LEMMA InitCommandInv == CommandInit => StageInv /\ SentInv /\ EndInv
  BY CliAssumption, ProcessesAssumption
     DEF CommandInit, Init, StageInv, SentInv, EndInv, Returning, Processes

\* The rest of the session leaves the command's goroutine alone, and closes the session
\* only when the connection is lost.
LEMMA OthersStep ==
  ASSUME SessionInv, Accept \/ SessionRuns
  PROVE  /\ pc'[Cli] = pc[Cli] /\ UNCHANGED call
         /\ connected' => connected
         /\ drained' => drained
         /\ closed => closed' /\ closer' = closer
         /\ closed' => closed \/ closer' = Lost
         /\ UNCHANGED <<command, step, result, sent, confirmed, current>>
  <1>0. /\ Cli \in Processes /\ Cli # Receiver /\ Cli # Lost
        /\ pc \in [Processes -> AllPCs] /\ Lost \in Processes
        /\ pc[Lost] = "close" => ~closed
    BY CliAssumption, ProcessesAssumption
       DEF Processes, SessionInv, TypeInv, TypeOK, LocalOK, MutexInv, Critical
  <1> USE <1>0 DEF Goto, commandVars, outVars, viewVars, sharedVars, localVars, historyVars
  <1>1. CASE Accept
    BY <1>1 DEF Accept, ReceiveLock
  <1>2. CASE SessionRuns /\ ConnectionLost
    BY <1>2 DEF SessionRuns, ConnectionLost
  <1>3. CASE SessionRuns /\ FailStep(Lost)
    BY <1>3 DEF SessionRuns, FailStep, FailAlreadyClosed, FailLock, FailPush, FailClose, AfterFail
  <1>4. CASE SessionRuns /\ (ReceiveMalformed \/ \E m \in Payloads : ReceiveBegin(m))
    BY <1>4 DEF SessionRuns, ReceiveMalformed, ReceiveBegin
  <1>5. CASE SessionRuns /\ (ReceiveClosed \/ ReceiveDispatch \/ ReceiveEnqueue)
    BY <1>5 DEF SessionRuns, ReceiveClosed, ReceiveDispatch, ReceiveEnqueue
  <1> QED
    BY <1>1, <1>2, <1>3, <1>4, <1>5 DEF SessionRuns

LEMMA NextCommandInv ==
    /\ SessionInv /\ ViewInv /\ StageInv /\ SentInv /\ EndInv
    /\ [CommandNext]_allVars
    => StageInv' /\ SentInv' /\ EndInv'
  <1> SUFFICES ASSUME SessionInv, ViewInv, StageInv, SentInv, EndInv, [CommandNext]_allVars
               PROVE  StageInv' /\ SentInv' /\ EndInv'
    OBVIOUS
  <1>0. /\ Cli \in Callers /\ Cli \in Processes /\ Cli # Lost
        /\ pc \in [Processes -> AllPCs] /\ call \in [Callers -> Calls]
    BY CliAssumption, ProcessesAssumption DEF Processes, SessionInv, TypeInv, TypeOK, LocalOK
  <1>c. pc[Cli] = "close" => ~closed
    BY <1>0, ProcessesAssumption DEF SessionInv, MutexInv, Critical, Processes
  <1> USE <1>0 DEF StageInv, SentInv, EndInv, Returning, Goto, Return, Leave, commandVars,
          outVars, viewVars, vars, sharedVars, localVars, historyVars
  <1>1. CASE RunAction
    <2>1. call'[Cli].op = "send" /\ pc'[Cli] = "send"
      BY <1>1 DEF RunAction, Encode
    <2> QED
      BY <1>1, <2>1 DEF RunAction, Encode
  <1>2. CASE SendRuns
    BY <1>2 DEF SendRuns, SendOpen, Publish
  <1>3. CASE SendSucceeds
    BY <1>3 DEF SendSucceeds, TokenDelivered
  <1>4. CASE SendFails \/ DeliveryFails
    <2>1. /\ step = "sending" /\ step' = "return" /\ result' = "send failed"
          /\ UNCHANGED <<command, sent, confirmed, current, drained, closed, closer>>
      BY <1>4 DEF SendFails, SendCancelled, PublishOffline, TokenCancelled,
                  DeliveryFails, TokenFailed
    <2>2. pc'[Cli] = "idle"
      BY <1>4 DEF SendFails, SendCancelled, PublishOffline, TokenCancelled,
                  DeliveryFails, TokenFailed
    <2> QED
      BY <2>1, <2>2
  <1>20. CASE SendTooLate
    <2>1. /\ step = "sending" /\ step' = "return" /\ result' = "closed"
          /\ pc[Cli] = "send" /\ pc'[Cli] = "idle" /\ closed
          /\ UNCHANGED <<command, sent, confirmed, current, drained, closed, closer>>
      BY <1>20 DEF SendTooLate, SendClosed
    <2> QED
      BY <2>1
  <1>5. CASE SendTimeout
    BY <1>5 DEF SendTimeout, ContextExpires
  <1>6. CASE SelectError
    <2>1. Head(errors) \in {"malformed", "lost"}
      BY <1>6 DEF SelectError, TakeError, SessionInv, TypeInv, TypeOK, SharedOK
    <2> QED
      BY <1>6, <2>1 DEF SelectError, TakeError
  <1>7. CASE DoneReturns
    <2>1. errors # <<>>
      BY <1>7 DEF DoneReturns, SessionInv, CloseInv, LossHasReason
    <2>2. Head(errors) \in {"malformed", "lost"}
      BY <2>1 DEF SessionInv, TypeInv, TypeOK, SharedOK
    <2> QED
      BY <1>7, <2>1, <2>2 DEF DoneReturns, TakeError
  <1>8. CASE SelectReport
    <2>1. Head(reports).id \in print => current' # NoReport
      <3>1. Head(reports).id \in print => Head(reports).id # 0
        BY BoundsAssumption DEF ViewInv, SessionInv, TypeInv, TypeOK, HistoryOK
      <3> QED
        BY <1>8, <3>1 DEF SelectReport, NoReport
    <2> QED
      BY <1>8, <2>1 DEF SelectReport, TakeReport
  <1>9. CASE Refuse
    BY <1>9 DEF Refuse
  <1>17. CASE ReportSent
    BY <1>17 DEF ReportSent, Streams
  <1>18. CASE Cancel
    BY <1>18 DEF Cancel
  <1>10. CASE SelectCancelled \/ SelectDone
    BY <1>10 DEF SelectCancelled, SelectDone, Streams
  <1>11. CASE Show
    BY <1>11 DEF Show, Streams
  <1>19. CASE ShowFails
    BY <1>19 DEF ShowFails
  <1>12. CASE ReturnCloses
    BY <1>12 DEF ReturnCloses, CloseBegin
  <1>13. CASE CloseRuns
    BY <1>13, <1>c DEF CloseRuns, FailStep, FailAlreadyClosed, FailLock, FailPush, FailClose, AfterFail
  <1>14. CASE Exit
    BY <1>14 DEF Exit, Disconnect
  <1>15. CASE Accept \/ SessionRuns
    BY <1>15, OthersStep
  <1>16. CASE UNCHANGED allVars
    BY <1>16 DEF allVars
  <1> QED
    BY <1>1, <1>2, <1>3, <1>4, <1>5, <1>6, <1>7, <1>8, <1>9, <1>10, <1>11, <1>12,
       <1>13, <1>14, <1>15, <1>16, <1>17, <1>18, <1>19, <1>20 DEF CommandNext, OwnStep, BrokerStep

LEMMA CommandCorrect == CommandSpec => [](SessionInv /\ StageInv /\ SentInv /\ EndInv)
  <1>1. CommandSpec => []ViewInv
    BY InitViewInv, NextViewInv, SessionKept, PTL DEF CommandSpec
  <1> QED
    BY <1>1, InitCommandInv, NextCommandInv, SessionKept, PTL DEF CommandSpec

\* What a command reports is what has happened: ok only for a command that was sent once
\* and delivered, or a status that was shown; and the bare ErrClosed only for a command
\* that was never handed over, not for one whose select saw Done before Errors.
THEOREM ResultsAreEarned == CommandSpec => []ResultIsEarned
  <1>1. SessionInv /\ StageInv /\ SentInv /\ EndInv => ResultIsEarned
    BY DEF SessionInv, CloseInv, LossHasReason, SentInv, EndInv, ResultIsEarned
  <1> QED
    BY <1>1, CommandCorrect, PTL

\* However a command ended, its session is closed, its connection gone and the mutex not
\* its own.
THEOREM NoneLeftOpen == CommandSpec => []NothingLeftOpen
  <1>1. SessionInv /\ StageInv /\ SentInv /\ EndInv => NothingLeftOpen
    BY CliAssumption
       DEF SessionInv, MutexInv, Critical, Processes, StageInv, EndInv, NothingLeftOpen
  <1> QED
    BY <1>1, CommandCorrect, PTL
=============================================================================
