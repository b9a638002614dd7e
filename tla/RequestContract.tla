-------------------------- MODULE RequestContract --------------------------
(***************************************************************************)
(* What Printer.Request promises its callers (bambulab/mqtt.go, the        *)
(* comments on Printer, Send and Request), with no mutex, no queue and no  *)
(* broker: a request is asked under a key nobody else asks under, is       *)
(* answered at most once and only while the session is open, and returns   *)
(* either an error of its own, or ErrClosed when the session is shut, or   *)
(* the reply that answered it.  A session that is shut stays shut.         *)
(***************************************************************************)
CONSTANTS
    Callers,   \* who asks
    Keys,      \* what a reply is matched by
    NoKey,     \* a caller that asks nothing
    Results,   \* what a reply can say
    Errors,    \* a request's own errors: cancelled, not delivered, ...
    NoReply    \* no answer yet

VARIABLES
    open,      \* the session is open
    asking,    \* the key a caller asks under
    answer,    \* the reply a caller has been given
    verdict    \* what the request is about to return

contractVars == <<open, asking, answer, verdict>>

Replies == [key : Keys, result : Results]

Init ==
    /\ open = TRUE
    /\ asking = [c \in Callers |-> NoKey]
    /\ answer = [c \in Callers |-> NoReply]
    /\ verdict = [c \in Callers |-> "none"]

Ask(c, k) ==
    /\ asking[c] = NoKey
    /\ \A d \in Callers : asking[d] # k
    /\ asking' = [asking EXCEPT ![c] = k]
    /\ UNCHANGED <<open, answer, verdict>>

\* A message answers some of the requests that have no answer yet, each with a
\* reply under its own key.
Answer ==
    /\ open
    /\ answer' \in [Callers -> Replies \cup {NoReply}]
    /\ \A c \in Callers :
          answer'[c] # answer[c] => answer[c] = NoReply /\ answer'[c].key = asking[c]
    /\ UNCHANGED <<open, asking, verdict>>

Conclude(c, v) ==
    /\ asking[c] # NoKey
    /\ verdict[c] = "none"
    /\ \/ v \in Errors
       \/ v = "closed" /\ ~open
       \/ answer[c] # NoReply /\ v = answer[c].result
    /\ verdict' = [verdict EXCEPT ![c] = v]
    /\ UNCHANGED <<open, asking, answer>>

Return(c) ==
    /\ verdict[c] # "none"
    /\ asking' = [asking EXCEPT ![c] = NoKey]
    /\ answer' = [answer EXCEPT ![c] = NoReply]
    /\ verdict' = [verdict EXCEPT ![c] = "none"]
    /\ UNCHANGED open

Shut ==
    /\ open
    /\ open' = FALSE
    /\ UNCHANGED <<asking, answer, verdict>>

Next ==
    \/ \E c \in Callers, k \in Keys : Ask(c, k)
    \/ Answer
    \/ \E c \in Callers, v \in Errors \cup Results \cup {"closed"} : Conclude(c, v)
    \/ \E c \in Callers : Return(c)
    \/ Shut

Spec == Init /\ [][Next]_contractVars
=============================================================================
