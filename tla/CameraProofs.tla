---------------------------- MODULE CameraProofs ----------------------------
(* Proofs about Camera: its types, the mutex, where the stream stands      *)
(* between calls, and whose deadline the connection has.                   *)
EXTENDS Camera, TLAPS

Reading == {"check", "arm", "io", "close", "cleanup", "clear"}  \* ReadFrame, c.mu held
Bounded == {"io", "close", "cleanup"}                           \* a hook may be running

\* ReadFrame holds c.mu from its Lock to its return, and DialCamera never does.
MutexInv ==
    /\ \A r \in Readers : /\ pc[r] \in Reading \cup {"idle", "lock"}
                          /\ mu = r <=> pc[r] \in Reading
    /\ pc[Dialer] \in {"dial", "arm", "io", "cleanup", "clear", "finish", "end"}

\* Nobody reads, and nothing has been read, before DialCamera has returned a Camera;
\* then it never returns again.
DialInv ==
    ~Dialed => stream = "boundary" /\ \A r \in Readers : pc[r] = "idle"

\* A stream left inside a frame is closed, or being read or closed by the call that
\* reads it.
StreamInv ==
    conn = "open" /\ stream # "boundary" => \E r \in Readers : pc[r] \in {"io", "close"}

\* A call has a hook from connectionContext to its clean-up, and the deadline is that
\* of a call which has yet to clear it.
DeadlineInv ==
    \A u \in Users : /\ hook[u] # "none" <=> pc[u] \in Bounded
                     /\ setter = u => pc[u] \in Bounded \cup {"clear"}

IInv == TypeOK /\ MutexInv /\ DialInv /\ StreamInv /\ DeadlineInv

\* The inductive invariant holds initially.
LEMMA InitEstablishes == Init => IInv
  <1> SUFFICES ASSUME Init PROVE IInv
    OBVIOUS
  <1> USE CameraAssumption DEF Init, Users
  <1>1. TypeOK
    BY DEF TypeOK
  <1>2. MutexInv /\ DialInv /\ StreamInv /\ DeadlineInv
    BY DEF MutexInv, DialInv, StreamInv, DeadlineInv, Dialed, Reading, Bounded
  <1> QED
    BY <1>1, <1>2 DEF IInv

\* Every step preserves the mutex discipline and the order of dial and reads.
LEMMA MutexStep ==
    TypeOK /\ MutexInv /\ DialInv /\ [Next]_vars => MutexInv' /\ DialInv'
  <1> SUFFICES ASSUME TypeOK, MutexInv, DialInv, [Next]_vars PROVE MutexInv' /\ DialInv'
    OBVIOUS
  <1> USE CameraAssumption DEF TypeOK, MutexInv, DialInv, Dialed, Goto, Users, Reading
  <1>1. ASSUME NEW u \in Users, Arm(u) \/ HookStarts(u) \/ HookInterrupts(u) \/ Stop(u)
        PROVE  MutexInv' /\ DialInv'
    BY <1>1 DEF Arm, HookStarts, HookInterrupts, Stop
  <1>2. ASSUME NEW u \in Users, ClearDeadline(u) PROVE MutexInv' /\ DialInv'
    BY <1>2 DEF ClearDeadline
  <1>3. ASSUME NEW u \in Users, ContextDone(u) PROVE MutexInv' /\ DialInv'
    BY <1>3 DEF ContextDone
  <1>4. CASE DialStep
    BY <1>4 DEF DialStep, DialConnects, DialFails, AuthWritten, AuthFails, DialReturns
  <1>5. ASSUME NEW r \in Readers, ReadFrame(r) \/ Lock(r) PROVE MutexInv' /\ DialInv'
    BY <1>5 DEF ReadFrame, Lock
  <1>6. ASSUME NEW r \in Readers, ReaderStep(r) PROVE MutexInv' /\ DialInv'
    BY <1>6 DEF ReaderStep, AlreadyDone, NotDone, ReadCloses
  <1>7. ASSUME NEW r \in Readers, ReadPart(r) \/ ReadWhole(r) \/ ReadFails(r)
        PROVE  MutexInv' /\ DialInv'
    BY <1>7 DEF ReadPart, ReadWhole, ReadFails
  <1>8. CASE Close \/ DeadlinePasses
    BY <1>8 DEF Close, DeadlinePasses
  <1>9. CASE UNCHANGED vars
    BY <1>9 DEF vars
  <1> QED
    BY <1>1, <1>2, <1>3, <1>4, <1>5, <1>6, <1>7, <1>8, <1>9 DEF Next

\* Every step preserves the types, given the mutex discipline it preserves.
LEMMA TypeStep == TypeOK /\ MutexInv' /\ [Next]_vars => TypeOK'
  <1> SUFFICES ASSUME TypeOK, MutexInv', [Next]_vars PROVE TypeOK'
    OBVIOUS
  <1>0. ASSUME mu' \in Readers \cup {NoOne} PROVE mu' # NoOne => pc'[mu'] \notin {"idle", "lock"}
    BY <1>0 DEF MutexInv, Reading
  <1> USE <1>0, CameraAssumption DEF TypeOK, Goto, Users
  <1>1. ASSUME NEW u \in Users, Arm(u) PROVE TypeOK'
    BY <1>1 DEF Arm
  <1>2. ASSUME NEW u \in Users, HookStarts(u) PROVE TypeOK'
    BY <1>2 DEF HookStarts
  <1>13. ASSUME NEW u \in Users, HookInterrupts(u) PROVE TypeOK'
    BY <1>13 DEF HookInterrupts
  <1>3. ASSUME NEW u \in Users, Stop(u) PROVE TypeOK'
    BY <1>3 DEF Stop
  <1>4. ASSUME NEW u \in Users, ClearDeadline(u) PROVE TypeOK'
    BY <1>4 DEF ClearDeadline
  <1>5. ASSUME NEW u \in Users, ContextDone(u) PROVE TypeOK'
    BY <1>5 DEF ContextDone
  <1>6. CASE DialConnects \/ DialFails
    BY <1>6 DEF DialConnects, DialFails
  <1>7. CASE AuthWritten \/ AuthFails \/ DialReturns
    BY <1>7 DEF AuthWritten, AuthFails, DialReturns
  <1>8. ASSUME NEW r \in Readers, ReadFrame(r) \/ Lock(r) PROVE TypeOK'
    BY <1>8 DEF ReadFrame, Lock
  <1>9. ASSUME NEW r \in Readers, ReaderStep(r) PROVE TypeOK'
    BY <1>9 DEF ReaderStep, AlreadyDone, NotDone, ReadCloses
  <1>10. ASSUME NEW r \in Readers, ReadPart(r) \/ ReadWhole(r) \/ ReadFails(r) PROVE TypeOK'
    BY <1>10 DEF ReadPart, ReadWhole, ReadFails
  <1>11. CASE Close \/ DeadlinePasses
    BY <1>11 DEF Close, DeadlinePasses
  <1>12. CASE UNCHANGED vars
    BY <1>12 DEF vars
  <1> QED
    BY <1>1, <1>2, <1>3, <1>4, <1>5, <1>6, <1>7, <1>8, <1>9, <1>10, <1>11, <1>12,
       <1>13 DEF Next, DialStep

\* Every step preserves where the stream may stand.
LEMMA StreamStep ==
    TypeOK /\ MutexInv /\ DialInv /\ StreamInv /\ [Next]_vars => StreamInv'
  <1> SUFFICES ASSUME TypeOK, MutexInv, DialInv, StreamInv, [Next]_vars PROVE StreamInv'
    OBVIOUS
  <1> USE CameraAssumption DEF TypeOK, StreamInv, Goto, Users
  <1>1. ASSUME NEW u \in Users, \/ Arm(u) \/ HookStarts(u) \/ HookInterrupts(u) \/ Stop(u)
                                \/ ClearDeadline(u) \/ ContextDone(u)
        PROVE  StreamInv'
    BY <1>1 DEF Arm, HookStarts, HookInterrupts, Stop, ClearDeadline, ContextDone
  <1>2. CASE DialConnects
    BY <1>2 DEF DialConnects, DialInv, Dialed
  <1>3. CASE DialFails \/ AuthWritten \/ AuthFails \/ DialReturns
    BY <1>3 DEF DialFails, AuthWritten, AuthFails, DialReturns
  <1>4. ASSUME NEW r \in Readers, ReadFrame(r) \/ Lock(r) PROVE StreamInv'
    BY <1>4 DEF ReadFrame, Lock
  <1>5. ASSUME NEW r \in Readers, ReaderStep(r) PROVE StreamInv'
    BY <1>5 DEF ReaderStep, AlreadyDone, NotDone, ReadCloses
  <1>6. ASSUME NEW r \in Readers, ReadPart(r) \/ ReadWhole(r) \/ ReadFails(r)
        PROVE  StreamInv'
    BY <1>6 DEF ReadPart, ReadWhole, ReadFails
  <1>7. CASE Close \/ DeadlinePasses
    BY <1>7 DEF Close, DeadlinePasses
  <1>8. CASE UNCHANGED vars
    BY <1>8 DEF vars
  <1> QED
    BY <1>1, <1>2, <1>3, <1>4, <1>5, <1>6, <1>7, <1>8 DEF Next, DialStep

\* Every step preserves who owns the hooks and the deadline.
LEMMA DeadlineStep == TypeOK /\ DeadlineInv /\ [Next]_vars => DeadlineInv'
  <1> SUFFICES ASSUME TypeOK, DeadlineInv, [Next]_vars PROVE DeadlineInv'
    OBVIOUS
  <1> USE CameraAssumption DEF TypeOK, DeadlineInv, Goto, Users, Bounded
  <1>1. ASSUME NEW u \in Users, Arm(u) \/ HookStarts(u) PROVE DeadlineInv'
    BY <1>1 DEF Arm, HookStarts
  <1>2. ASSUME NEW u \in Users, HookInterrupts(u) PROVE DeadlineInv'
    BY <1>2 DEF HookInterrupts
  <1>3. ASSUME NEW u \in Users, Stop(u) \/ ClearDeadline(u) PROVE DeadlineInv'
    BY <1>3 DEF Stop, ClearDeadline
  <1>4. ASSUME NEW u \in Users, ContextDone(u) PROVE DeadlineInv'
    BY <1>4 DEF ContextDone
  <1>5. CASE DialStep
    BY <1>5 DEF DialStep, DialConnects, DialFails, AuthWritten, AuthFails, DialReturns
  <1>6. ASSUME NEW r \in Readers, ReadFrame(r) \/ Lock(r) PROVE DeadlineInv'
    BY <1>6 DEF ReadFrame, Lock
  <1>7. ASSUME NEW r \in Readers, ReaderStep(r) PROVE DeadlineInv'
    BY <1>7 DEF ReaderStep, AlreadyDone, NotDone, ReadCloses
  <1>8. ASSUME NEW r \in Readers, ReadPart(r) \/ ReadWhole(r) \/ ReadFails(r)
        PROVE  DeadlineInv'
    BY <1>8 DEF ReadPart, ReadWhole, ReadFails
  <1>9. CASE Close \/ DeadlinePasses
    BY <1>9 DEF Close, DeadlinePasses
  <1>10. CASE UNCHANGED vars
    BY <1>10 DEF vars
  <1> QED
    BY <1>1, <1>2, <1>3, <1>4, <1>5, <1>6, <1>7, <1>8, <1>9, <1>10 DEF Next

\* The inductive invariant holds in every reachable state, for any number of readers.
THEOREM CameraInvariant == Spec => []IInv
  <1>1. IInv /\ [Next]_vars => IInv'
    BY TypeStep, MutexStep, StreamStep, DeadlineStep DEF IInv
  <1> QED
    BY InitEstablishes, <1>1, PTL DEF Spec

\* The variables keep their types, and whoever holds c.mu is inside ReadFrame.
THEOREM TypeCorrect == Spec => []TypeOK
  <1>1. IInv => TypeOK
    BY DEF IInv
  <1> QED
    BY <1>1, CameraInvariant, PTL

\* However reads are cancelled, fail, or meet a Close, an open stream that nobody reads
\* stands at the boundary of a frame.
THEOREM AlignedWhenFree == Spec => []OpenIsAligned
  <1>1. IInv => OpenIsAligned
    BY CameraAssumption DEF IInv, TypeOK, MutexInv, StreamInv, OpenIsAligned, Reading
  <1> QED
    BY <1>1, CameraInvariant, PTL

\* No call's deadline, and no hook that may still set one, outlives the call.
THEOREM OwnDeadline == Spec => []DeadlineIsOwn
  <1>1. IInv => DeadlineIsOwn
    BY CameraAssumption
       DEF IInv, TypeOK, MutexInv, DeadlineInv, DeadlineIsOwn, Users, Reading, Bounded
  <1> QED
    BY <1>1, CameraInvariant, PTL
=============================================================================
