----------------------------- MODULE LoginProofs -----------------------------
(* Proofs about Login: who reads standard input, what is saved, and the    *)
(* terminal's echo.                                                        *)
EXTENDS Login, TLAPS

\* The goroutine of a prompt outlives it only when the prompt was cancelled, and then
\* login returns, which it does not while it waits.
ReaderInv ==
    /\ reader # "none" => pc \in {"select", "ended", "exited"}
    /\ pc = "select" => result = "none"

\* An answer is a token only if the server granted one; an answer came late only if the
\* context is done, which an interactive login sees before it goes on to save.
TokenInv ==
    /\ answer = "token" => granted
    /\ ~inTime => done
    /\ pc = "save" => granted /\ (interactive => inTime)
    /\ saved => pc \in {"ended", "exited"} /\ SavedIsGranted

\* The echo is off only while the goroutine reads a password: during the prompt, or
\* because it began to read after login had returned.
EchoInv ==
    /\ state
    /\ ~echo => reader = "reading" /\ Secret /\ (pc = "select" \/ late)

IInv == TypeOK /\ ReaderInv /\ TokenInv /\ EchoInv

\* The inductive invariant holds initially.
LEMMA InitEstablishes == Init => IInv
  BY DEF Init, IInv, TypeOK, ReaderInv, TokenInv, EchoInv, SavedIsGranted

\* do returns a token only from a response of a good status without an error in its
\* body; every other response is an error, a challenge or no login.
LEMMA TokenIsGranted ==
  ASSUME NEW r \in Response
  PROVE  /\ do(r) \in {"token", "verifyCode", "other", "error"}
         /\ do(r) = "token" <=> r.status = "2xx" /\ ~r.envelope /\ r.body = "token"
  BY DEF Response, Bodies, do

\* Every step preserves the types.
LEMMA TypeStep ==
    TypeOK /\ ReaderInv /\ [Next]_vars => TypeOK'
  <1> SUFFICES ASSUME TypeOK, ReaderInv, [Next]_vars PROVE TypeOK'
    OBVIOUS
  <1> USE DEF TypeOK, ReaderInv, credential, exchange, terminal
  <1>1. CASE PromptCancelled
    BY <1>1 DEF PromptCancelled, Return
  <1>2. CASE PromptFails
    BY <1>2 DEF PromptFails, Return
  <1>3. CASE PromptReads
    BY <1>3 DEF PromptReads
  <1>4. CASE SelectCancelled
    BY <1>4 DEF SelectCancelled, Return
  <1>5. CASE SelectError
    BY <1>5 DEF SelectError, Return
  <1>6. CASE SelectBlank
    BY <1>6 DEF SelectBlank, Ask
  <1>7. CASE SelectValue
    <2>1. /\ pc = "select" /\ reader' = "none"
          /\ UNCHANGED <<interactive, tty, echo, state, exchange, done, saved, result, late>>
      BY <1>7, Zenon DEF SelectValue
    <2>2. /\ pc' \in {"prompt", "request"} /\ asked' \in {"account", "password", "code"}
          /\ account' \in {"none", "blank", "given"}
      BY <1>7 DEF SelectValue, Ask
    <2>3. password' \in BOOLEAN /\ code' \in BOOLEAN
      BY <1>7, Zenon DEF SelectValue
    <2> QED
      BY <2>1, <2>2, <2>3
  <1>8. CASE ReaderStarts
    <2>1. echo' \in BOOLEAN /\ late' \in BOOLEAN
      BY <1>8, Zenon DEF ReaderStarts
    <2>2. /\ reader' = "reading"
          /\ UNCHANGED <<pc, interactive, tty, credential, asked, state, exchange, done, saved,
                         result>>
      BY <1>8, Zenon DEF ReaderStarts
    <2> QED
      BY <2>1, <2>2
  <1>9. CASE ReaderGets
    <2>1. echo' \in BOOLEAN
      BY <1>9, Zenon DEF ReaderGets
    <2>2. /\ reader' \in {"blank", "value", "error"}
          /\ UNCHANGED <<pc, interactive, tty, credential, asked, state, exchange, done, saved,
                         result, late>>
      BY <1>9, Zenon DEF ReaderGets
    <2> QED
      BY <2>1, <2>2
  <1>10. CASE Rejected
    BY <1>10 DEF Rejected
  <1>11. CASE ServerAnswers
    BY <1>11, TokenIsGranted DEF ServerAnswers
  <1>12. CASE RequestFails
    <2>1. granted' \in BOOLEAN
      BY <1>12, Zenon DEF RequestFails
    <2> QED
      BY <1>12, <2>1 DEF RequestFails
  <1>13. CASE AnswerTooLate
    BY <1>13 DEF AnswerTooLate, Return
  <1>14. CASE TokenAnswered
    BY <1>14 DEF TokenAnswered
  <1>15. CASE CodeWanted
    BY <1>15 DEF CodeWanted, Ask
  <1>16. CASE AskAgain
    BY <1>16 DEF AskAgain, Ask
  <1>17. CASE NotAnswered
    BY <1>17 DEF NotAnswered, Return
  <1>18. CASE SaveSucceeds
    BY <1>18 DEF SaveSucceeds, Return
  <1>19. CASE SaveFails
    BY <1>19 DEF SaveFails, Return
  <1>20. CASE Exit
    BY <1>20 DEF Exit
  <1>21. CASE ContextDone
    BY <1>21 DEF ContextDone
  <1>22. CASE StdinRead \/ StdinFails
    BY <1>22 DEF StdinRead, StdinFails, Return
  <1>23. CASE UNCHANGED vars
    BY <1>23 DEF vars, credential, exchange, terminal
  <1> QED
    BY <1>1, <1>2, <1>3, <1>4, <1>5, <1>6, <1>7, <1>8, <1>9, <1>10, <1>11, <1>12,
       <1>13, <1>14, <1>15, <1>16, <1>17, <1>18, <1>19, <1>20, <1>21, <1>22, <1>23
       DEF Next, StdinStep, PromptStep, SelectStep, ReaderStep, AnswerStep, SaveStep

\* Every step preserves what is known of the goroutine and of the echo.
LEMMA ReaderEchoStep ==
    TypeOK /\ ReaderInv /\ EchoInv /\ [Next]_vars => ReaderInv' /\ EchoInv'
  <1> SUFFICES ASSUME TypeOK, ReaderInv, EchoInv, [Next]_vars PROVE ReaderInv' /\ EchoInv'
    OBVIOUS
  <1> USE DEF TypeOK, ReaderInv, EchoInv, Secret, credential, exchange, terminal
  <1>1. CASE PromptCancelled \/ PromptFails \/ PromptReads
    BY <1>1 DEF PromptCancelled, Return, PromptFails, PromptReads
  <1>2. CASE SelectCancelled \/ SelectError \/ SelectBlank
    BY <1>2 DEF SelectCancelled, Return, SelectError, SelectBlank, Ask
  <1>3. CASE SelectValue
    BY <1>3 DEF SelectValue, Ask
  <1>4. CASE ReaderStarts
    <2>1. /\ reader = "spawned" /\ reader' = "reading" /\ pc # "exited"
          /\ UNCHANGED <<pc, tty, asked, state, result>>
      BY <1>4, Zenon DEF ReaderStarts
    <2>2. CASE Secret
      <3>1. late \/ pc = "ended" => late'
        BY <1>4, <2>2, Zenon DEF ReaderStarts
      <3> QED
        BY <2>1, <2>2, <3>1
    <2>3. CASE ~Secret
      <3>1. echo'
        BY <1>4, <2>1, <2>3 DEF ReaderStarts
      <3> QED
        BY <2>1, <3>1
    <2> QED
      BY <2>2, <2>3
  <1>5. CASE ReaderGets
    <2>1. /\ reader # "none" /\ reader' # "none"
          /\ UNCHANGED <<pc, tty, asked, state, result, late>>
      BY <1>5 DEF ReaderGets
    <2>2. echo'
      <3>1. CASE Secret
        BY <1>5, <3>1, Zenon DEF ReaderGets
      <3>2. CASE ~Secret
        BY <1>5, <3>2, Zenon DEF ReaderGets
      <3> QED
        BY <3>1, <3>2
    <2> QED
      BY <2>1, <2>2
  <1>6. CASE Rejected
    BY <1>6 DEF Rejected
  <1>7. CASE ServerAnswers
    BY <1>7 DEF ServerAnswers
  <1>8. CASE RequestFails
    BY <1>8 DEF RequestFails
  <1>9. CASE AnswerTooLate \/ TokenAnswered \/ CodeWanted
    BY <1>9 DEF AnswerTooLate, Return, TokenAnswered, CodeWanted, Ask
  <1>10. CASE AskAgain \/ NotAnswered
    BY <1>10 DEF AskAgain, Ask, NotAnswered, Return
  <1>11. CASE SaveSucceeds \/ SaveFails
    BY <1>11 DEF SaveSucceeds, Return, SaveFails
  <1>12. CASE Exit \/ ContextDone
    BY <1>12 DEF Exit, ContextDone
  <1>13. CASE StdinRead \/ StdinFails
    BY <1>13 DEF StdinRead, StdinFails, Return
  <1>14. CASE UNCHANGED vars
    BY <1>14 DEF vars, credential, exchange, terminal
  <1> QED
    BY <1>1, <1>2, <1>3, <1>4, <1>5, <1>6, <1>7, <1>8, <1>9, <1>10, <1>11, <1>12, <1>13, <1>14
       DEF Next, StdinStep, PromptStep, SelectStep, ReaderStep, AnswerStep, SaveStep

\* Every step preserves what a token and a saved login stand for.
LEMMA TokenStep ==
    TypeOK /\ TokenInv /\ [Next]_vars => TokenInv'
  <1> SUFFICES ASSUME TypeOK, TokenInv, [Next]_vars PROVE TokenInv'
    OBVIOUS
  <1> USE DEF TypeOK, TokenInv, SavedIsGranted, credential, exchange, terminal
  <1>1. CASE PromptCancelled \/ PromptFails \/ PromptReads
    BY <1>1 DEF PromptCancelled, Return, PromptFails, PromptReads
  <1>2. CASE SelectCancelled \/ SelectError \/ SelectBlank
    BY <1>2 DEF SelectCancelled, Return, SelectError, SelectBlank, Ask
  <1>3. CASE SelectValue
    BY <1>3 DEF SelectValue, Ask
  <1>4. CASE ReaderStarts
    BY <1>4 DEF ReaderStarts
  <1>5. CASE ReaderGets
    BY <1>5 DEF ReaderGets
  <1>6. CASE Rejected
    BY <1>6 DEF Rejected
  <1>7. CASE ServerAnswers
    BY <1>7, TokenIsGranted DEF ServerAnswers
  <1>8. CASE RequestFails
    BY <1>8 DEF RequestFails
  <1>9. CASE AnswerTooLate \/ TokenAnswered \/ CodeWanted
    BY <1>9 DEF AnswerTooLate, Return, TokenAnswered, CodeWanted, Ask
  <1>10. CASE AskAgain \/ NotAnswered
    BY <1>10 DEF AskAgain, Ask, NotAnswered, Return
  <1>11. CASE SaveSucceeds \/ SaveFails
    BY <1>11 DEF SaveSucceeds, Return, SaveFails
  <1>12. CASE Exit \/ ContextDone
    BY <1>12 DEF Exit, ContextDone
  <1>13. CASE StdinRead \/ StdinFails
    BY <1>13 DEF StdinRead, StdinFails, Return
  <1>14. CASE UNCHANGED vars
    BY <1>14 DEF vars, credential, exchange, terminal
  <1> QED
    BY <1>1, <1>2, <1>3, <1>4, <1>5, <1>6, <1>7, <1>8, <1>9, <1>10, <1>11, <1>12, <1>13, <1>14
       DEF Next, StdinStep, PromptStep, SelectStep, ReaderStep, AnswerStep, SaveStep

\* The inductive invariant holds in every reachable state.
THEOREM LoginInvariant == Spec => []IInv
  <1>1. IInv /\ [Next]_vars => IInv'
    BY TypeStep, ReaderEchoStep, TokenStep DEF IInv
  <1> QED
    BY InitEstablishes, <1>1, PTL DEF Spec

\* The variables keep their types, and login has no result before it returns.
THEOREM TypeCorrect == Spec => []TypeOK
  <1>1. IInv => TypeOK
    BY DEF IInv
  <1> QED
    BY <1>1, LoginInvariant, PTL

\* However often the questions are put again, no prompt starts while the goroutine of
\* an earlier one still reads standard input.
THEOREM SingleReader == Spec => []OneReader
  <1>1. IInv => OneReader
    BY DEF IInv, ReaderInv, OneReader
  <1> QED
    BY <1>1, LoginInvariant, PTL

\* Only a token the server has granted is saved, and none that came to an interactive
\* login after the signal.
THEOREM GrantedIsSaved == Spec => []SavedIsGranted
  <1>1. IInv => SavedIsGranted
    BY DEF IInv, TokenInv, SavedIsGranted
  <1> QED
    BY <1>1, LoginInvariant, PTL

\* The process leaves the terminal with its echo, but for a goroutine that began to read
\* a password after login had returned.
THEOREM RestoredEcho == Spec => []EchoRestored
  <1>1. IInv => EchoRestored
    BY DEF IInv, EchoInv, EchoRestored
  <1> QED
    BY <1>1, LoginInvariant, PTL
=============================================================================
