-------------------------- MODULE PrinterContract ---------------------------
(***************************************************************************)
(* PrinterSession implements RequestContract: a request is asked from its  *)
(* registration to its deferred delete, and is answered when receive puts  *)
(* a reply in its channel.                                                 *)
(***************************************************************************)
EXTENDS PrinterSession

NoReply == <<>>

Contract == INSTANCE RequestContract WITH
    NoKey   <- <<>>,
    Errors  <- {"invalid", "cancelled", "failed"},
    open    <- ~closed,
    asking  <- [c \in Callers |-> IF InFlight(c) THEN call[c].key ELSE <<>>],
    answer  <- [c \in Callers |-> IF slot[c] = <<>> THEN NoReply ELSE Head(slot[c])],
    verdict <- outcome

\* The whole session, with its mutex, its dispatcher, the loss of the connection
\* and concurrent Close calls, keeps what Request promises: a reply is returned
\* only if it came under the request's own key while the session was open, and
\* ErrClosed only from a session that is closed for good.
KeepsContract == Contract!Spec
=============================================================================
