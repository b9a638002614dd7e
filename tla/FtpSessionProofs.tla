-------------------------- MODULE FtpSessionProofs --------------------------
(* Proofs about FtpSession: its types, the clean-up, and what nil means.   *)
EXTENDS FtpSession, TLAPS

Dialing == {"dial", "lock", "check", "append"}

\* The hook runs only once the context is done, and cannot get past the mutex while a
\* connection that was still in time is handed out.
HookInv ==
    /\ hook \in {"started", "closing", "finished"} => done
    /\ pc = "append" => hook \in {"armed", "started"}
    /\ hook = "stopped" => pc = "ended"

\* Each connection is dialed once, before it is handed out; one that is open has been
\* handed out or is being dialed; none is open after the deferred clean-up.
ConnInv ==
    /\ pc \in Dialing => target \notin sockets
    /\ pc \in Dialing /\ target = Control => sockets = {} /\ conn[Data] = "none"
    /\ pc = "dial" => conn[target] = "none"
    /\ pc \in {"greeting", "login", "passive"} => conn[Data] = "none"
    /\ pc \in {"greeting", "login", "passive"} => Data \notin sockets
    /\ \A c \in Conns : conn[c] = "open" => c \in sockets \/ (pc \in Dialing /\ c = target)
    /\ pc \in {"stop", "ended"} => \A c \in Conns : conn[c] # "open"

\* err is set as soon as anything fails, and nothing else ends the operation early.
ErrInv ==
    /\ performed = "broken" => err
    /\ pc \in {"quit", "result"} /\ ~err => performed = "whole"
    /\ pc \in Dialing \cup {"greeting", "login", "passive", "command", "transfer", "reply"} =>
           performed # "whole" /\ result = "none"
    /\ pc \in {"quit", "result"} => result = "none"

IInv == TypeOK /\ HookInv /\ ConnInv /\ CleanupIsFinal /\ ErrInv /\ NilMeansPerformed

\* The inductive invariant holds initially.
LEMMA InitEstablishes == Init => IInv
  BY SessionAssumption DEF Init, IInv, TypeOK, HookInv, ConnInv, CleanupIsFinal, ErrInv,
     NilMeansPerformed, Conns, Dialing

\* Every step preserves the types and the mutex discipline.
LEMMA TypeStep == TypeOK /\ HookInv /\ [Next]_vars => TypeOK'
<1> SUFFICES ASSUME TypeOK, HookInv, [Next]_vars PROVE TypeOK'
  OBVIOUS
<1> USE SessionAssumption DEF TypeOK
<1>1. CASE DialStep
  <2>1. CASE Connected BY <2>1 DEF Connected
  <2>2. CASE DialFails BY <2>2 DEF DialFails, DialGivesUp
  <2>3. CASE Lock BY <2>3 DEF Lock
  <2>4. CASE StillLive BY <2>4 DEF StillLive
  <2>5. CASE TooLate BY <2>5 DEF TooLate, DialGivesUp
  <2>6. CASE Append BY <2>6 DEF Append
  <2>7. QED BY <1>1, <2>1, <2>2, <2>3, <2>4, <2>5, <2>6 DEF DialStep
<1>2. CASE LibraryStep
  <2>1. CASE Answered BY <2>1 DEF Answered, Waiting, Proceed, Conns
  <2>2. CASE IOFails BY <2>2 DEF IOFails, Waiting
  <2>3. CASE Quit BY <2>3 DEF Quit
  <2>4. QED BY <1>2, <2>1, <2>2, <2>3 DEF LibraryStep
<1>3. CASE ReturnStep
  <2>1. CASE Result BY <2>1 DEF Result
  <2>2. CASE Cleanup BY <2>2 DEF Cleanup, CloseSockets
  <2>3. CASE Stop BY <2>3 DEF Stop
  <2>4. QED BY <1>3, <2>1, <2>2, <2>3 DEF ReturnStep
<1>4. CASE HookStep
  <2>1. CASE HookStarts BY <2>1 DEF HookStarts
  <2>2. CASE HookLocks BY <2>2 DEF HookLocks
  <2>3. CASE HookCloses BY <2>3 DEF HookCloses, CloseSockets
  <2>4. QED BY <1>4, <2>1, <2>2, <2>3 DEF HookStep
<1>5. CASE ContextDone
  BY <1>5 DEF ContextDone
<1>6. CASE UNCHANGED vars
  BY <1>6 DEF vars
<1>7. QED BY <1>1, <1>2, <1>3, <1>4, <1>5, <1>6 DEF Next

\* Every step preserves what is known of the hook and of the connections.
LEMMA CleanupStep ==
    TypeOK /\ HookInv /\ ConnInv /\ CleanupIsFinal /\ [Next]_vars =>
        HookInv' /\ ConnInv' /\ CleanupIsFinal'
<1> SUFFICES ASSUME TypeOK, HookInv, ConnInv, CleanupIsFinal, [Next]_vars
             PROVE  HookInv' /\ ConnInv' /\ CleanupIsFinal'
  OBVIOUS
<1> USE SessionAssumption DEF TypeOK, HookInv, ConnInv, CleanupIsFinal, Conns, Dialing
<1>1. CASE DialStep
  <2>1. CASE Connected BY <2>1 DEF Connected
  <2>2. CASE DialFails BY <2>2 DEF DialFails, DialGivesUp
  <2>3. CASE Lock BY <2>3 DEF Lock
  <2>4. CASE StillLive BY <2>4 DEF StillLive
  <2>5. CASE TooLate BY <2>5 DEF TooLate, DialGivesUp
  <2>6. CASE Append BY <2>6 DEF Append
  <2>7. QED BY <1>1, <2>1, <2>2, <2>3, <2>4, <2>5, <2>6 DEF DialStep
<1>2. CASE LibraryStep
  <2>1. CASE Answered BY <2>1 DEF Answered, Waiting, WaitsOn, Proceed
  <2>2. CASE IOFails BY <2>2 DEF IOFails, Waiting
  <2>3. CASE Quit BY <2>3 DEF Quit
  <2>4. QED BY <1>2, <2>1, <2>2, <2>3 DEF LibraryStep
<1>3. CASE ReturnStep
  BY <1>3 DEF ReturnStep, Result, Cleanup, Stop, CloseSockets
<1>4. CASE HookStep
  BY <1>4 DEF HookStep, HookStarts, HookLocks, HookCloses, CloseSockets
<1>5. CASE ContextDone
  BY <1>5 DEF ContextDone
<1>6. CASE UNCHANGED vars
  BY <1>6 DEF vars
<1>7. QED BY <1>1, <1>2, <1>3, <1>4, <1>5, <1>6 DEF Next

\* Every step preserves what is known of err and the result.
LEMMA ErrStep ==
    TypeOK /\ ErrInv /\ NilMeansPerformed /\ [Next]_vars => ErrInv' /\ NilMeansPerformed'
<1> SUFFICES ASSUME TypeOK, ErrInv, NilMeansPerformed, [Next]_vars
             PROVE  ErrInv' /\ NilMeansPerformed'
  OBVIOUS
<1> USE DEF TypeOK, ErrInv, NilMeansPerformed, Dialing
<1>1. CASE DialStep
  BY <1>1 DEF DialStep, Connected, DialFails, Lock, StillLive, TooLate, Append, DialGivesUp
<1>2. CASE LibraryStep
  BY <1>2 DEF LibraryStep, Answered, IOFails, Quit, Waiting, WaitsOn, Proceed
<1>3. CASE ReturnStep
  BY <1>3 DEF ReturnStep, Result, Cleanup, Stop
<1>4. CASE HookStep
  BY <1>4 DEF HookStep, HookStarts, HookLocks, HookCloses
<1>5. CASE ContextDone
  BY <1>5 DEF ContextDone
<1>6. CASE UNCHANGED vars
  BY <1>6 DEF vars
<1>7. QED BY <1>1, <1>2, <1>3, <1>4, <1>5, <1>6 DEF Next

\* The inductive invariant holds in every reachable state.
THEOREM SessionInvariant == Spec => []IInv
<1>1. Init => IInv
  BY InitEstablishes
<1>2. IInv /\ [Next]_vars => IInv'
  BY TypeStep, CleanupStep, ErrStep DEF IInv
<1>3. QED BY <1>1, <1>2, PTL DEF Spec

\* The variables keep their types, and the mutex is held where it should be.
THEOREM TypeCorrect == Spec => []TypeOK
<1>1. IInv => TypeOK
  BY DEF IInv
<1>2. QED BY <1>1, SessionInvariant, PTL

\* Once the hook has run, no connection the library holds is open.
THEOREM CleanupFinal == Spec => []CleanupIsFinal
<1>1. IInv => CleanupIsFinal
  BY DEF IInv
<1>2. QED BY <1>1, SessionInvariant, PTL

\* No connection outlives its session.
THEOREM NoneLeftOpen == Spec => []NothingLeftOpen
<1>1. IInv => NothingLeftOpen
  BY DEF IInv, ConnInv, NothingLeftOpen
<1>2. QED BY <1>1, SessionInvariant, PTL

\* session returns nil only after the printer has confirmed the whole operation.
THEOREM NilIsHonest == Spec => []NilMeansPerformed
<1>1. IInv => NilMeansPerformed
  BY DEF IInv
<1>2. QED BY <1>1, SessionInvariant, PTL
=============================================================================
