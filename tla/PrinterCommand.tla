--------------------------- MODULE PrinterCommand ---------------------------
(***************************************************************************)
(* The CLI's printer commands (internal/cli/cli.go printer, state.go) on a *)
(* connected Printer.  A control hands one command to the printer, waits   *)
(* for its delivery and ends; watch and state request a full status and    *)
(* then select on the context, Done, Errors and Reports until a reason to  *)
(* return.  All Close the Printer on the way out.  The command is the only *)
(* caller and the only consumer of the session.                            *)
(***************************************************************************)
EXTENDS PrinterSession

CONSTANTS
    Cli,         \* the goroutine that runs the command: no other caller does anything
    CliCommands  \* the printer commands that are run

\* Which section and command of the printer's protocol a CLI command uses.
PlainWire ==
    [watch |-> <<"pushing", "pushall">>, state |-> <<"pushing", "pushall">>,
     pause |-> <<"print", "pause">>, resume |-> <<"print", "resume">>,
     stop |-> <<"print", "stop">>, calibrate |-> <<"print", "calibration">>,
     unload |-> <<"print", "unload_filament">>]

ArgumentWire ==
    [speed |-> <<"print", "print_speed">>, gcode |-> <<"print", "gcode_line">>,
     print_gcode |-> <<"print", "gcode_file">>, print |-> <<"print", "project_file">>]

LightWire == [light |-> <<"system", "ledctrl">>]

\* command sends whatever it is told to.
Wires(c) ==
    IF c \in DOMAIN PlainWire THEN {PlainWire[c]}
    ELSE IF c \in DOMAIN ArgumentWire THEN {ArgumentWire[c]}
    ELSE IF c \in DOMAIN LightWire THEN {LightWire[c]}
    ELSE Commands

AllCommands == DOMAIN PlainWire \cup DOMAIN ArgumentWire \cup DOMAIN LightWire \cup {"command"}

\* The commands that go on to the select loop.
Streams == {"watch", "state"}

\* Those whose arguments are looked at only when the Printer is connected: a blank
\* G-code, no path, no URL, no section or command, fields that are no object.
CheckedLate == {"gcode", "print_gcode", "print", "command"}

ASSUME CliAssumption ==
    /\ Cli \in Callers
    /\ CliCommands \subseteq AllCommands
    /\ UNION {Wires(c) : c \in CliCommands} \subseteq Commands

VARIABLES
    command,    \* the command that runs
    step,       \* where the command is
    cancelled,  \* the command's context is done
    result,     \* what the command returns
    sent,       \* commands handed to the MQTT client
    confirmed,  \* commands it has confirmed the delivery of
    print,      \* numbers of the accepted messages with a "print" section
    current,    \* the report the command is handling
    shown       \* the status it last wrote to its output

outVars     == <<sent, confirmed>>
viewVars    == <<print, current, shown>>
commandVars == <<command, step, cancelled, result, outVars, viewVars>>
allVars     == <<vars, commandVars>>

NoReport == [id |-> 0, fields |-> Silence]

CommandInit ==
    /\ Init
    /\ command \in CliCommands
    /\ step = "start"
    /\ cancelled = FALSE
    /\ result = "none"
    /\ sent = 0
    /\ confirmed = 0
    /\ print = {}
    /\ current = NoReport
    /\ shown = [f \in Fields |-> Absent]

-----------------------------------------------------------------------------
(* The command's one Send; any failure of it ends the command. *)

Refuse ==
    /\ step = "start"
    /\ command \in CheckedLate
    /\ step' = "return"
    /\ result' = "refused"
    /\ UNCHANGED <<vars, command, cancelled, outVars, viewVars>>

RunAction ==
    /\ step = "start"
    /\ \E wire \in Wires(command) : Encode(Cli, "send", wire)
    /\ step' = "sending"
    /\ UNCHANGED <<command, cancelled, result, outVars, viewVars>>

SendRuns ==
    /\ step = "sending"
    /\ \/ SendOpen(Cli) /\ UNCHANGED sent
       \/ Publish(Cli) /\ sent' = sent + 1
    /\ UNCHANGED <<command, step, cancelled, result, confirmed, viewVars>>

SendSucceeds ==
    /\ step = "sending"
    /\ TokenDelivered(Cli)
    /\ confirmed' = confirmed + 1
    /\ step' = IF command \in Streams THEN "select" ELSE "sent"
    /\ UNCHANGED <<command, cancelled, result, sent, viewVars>>

SendFails ==
    /\ step = "sending"
    /\ SendCancelled(Cli) \/ PublishOffline(Cli) \/ TokenCancelled(Cli)
    /\ step' = "return"
    /\ result' = "send failed"
    /\ UNCHANGED <<command, cancelled, outVars, viewVars>>

\* The session was lost before the command could be handed over: Send's ErrClosed is
\* returned as it is, and the reason stays on Errors.
SendTooLate ==
    /\ step = "sending"
    /\ SendClosed(Cli)
    /\ step' = "return"
    /\ result' = "closed"
    /\ UNCHANGED <<command, cancelled, outVars, viewVars>>

\* Mutant of DeliveryFails: a control does not look at the error of its action.
DeliveryIgnored ==
    /\ step = "sending"
    /\ TokenFailed(Cli)
    /\ step' = IF command \in Streams THEN "select" ELSE "sent"
    /\ UNCHANGED <<command, cancelled, result, outVars, viewVars>>

DeliveryFails ==
    /\ step = "sending"
    /\ TokenFailed(Cli)
    /\ step' = "return"
    /\ result' = "send failed"
    /\ UNCHANGED <<command, cancelled, outVars, viewVars>>

\* A control says that its command was sent, if that can be written.
ReportSent ==
    /\ step = "sent"
    /\ step' = "return"
    /\ result' \in {"ok", "output failed"}
    /\ UNCHANGED <<vars, command, cancelled, outVars, viewVars>>

\* A signal, or for state the command's deadline; the context of a Send ends with
\* it, and on its own when the Printer's timeout elapses.
Cancel ==
    /\ ~cancelled
    /\ cancelled' = TRUE
    /\ UNCHANGED <<vars, command, step, result, outVars, viewVars>>

SendTimeout ==
    /\ step = "sending"
    /\ ContextExpires(Cli)
    /\ UNCHANGED commandVars

-----------------------------------------------------------------------------
(* The select loop *)

\* Mutant of SelectCancelled: watch does not look at its context.
SelectCancelledState ==
    /\ step = "select"
    /\ cancelled /\ command = "state"
    /\ step' = "return"
    /\ result' = "cancelled"
    /\ UNCHANGED <<vars, command, cancelled, outVars, viewVars>>

\* watch ends quietly, state with the context's error.
SelectCancelled ==
    /\ step = "select"
    /\ cancelled
    /\ step' = "return"
    /\ result' = IF command = "watch" THEN "ok" ELSE "cancelled"
    /\ UNCHANGED <<vars, command, cancelled, outVars, viewVars>>

SelectError ==
    /\ step = "select"
    /\ TakeError
    /\ step' = "return"
    /\ result' = Head(errors)
    /\ UNCHANGED <<command, cancelled, outVars, viewVars>>

SelectDone ==
    /\ step = "select"
    /\ closed
    /\ step' = "done"
    /\ UNCHANGED <<vars, command, cancelled, result, outVars, viewVars>>

\* Done came first: the reason is looked for without waiting.
DoneReturns ==
    /\ step = "done"
    /\ step' = "return"
    /\ IF errors # <<>> THEN TakeError /\ result' = Head(errors)
                       ELSE UNCHANGED vars /\ result' = "closed"
    /\ UNCHANGED <<command, cancelled, outVars, viewVars>>

\* A report without a "print" section is of no interest.
SelectReport ==
    /\ step = "select"
    /\ TakeReport
    /\ current' = Head(reports)
    /\ step' = IF Head(reports).id \in print THEN "show" ELSE "select"
    /\ UNCHANGED <<command, cancelled, result, outVars, print, shown>>

\* Snapshot and Status read p.state under the read lock.  watch encodes what it
\* read and goes on, state writes it once and returns.
Show ==
    /\ step = "show"
    /\ mu = NoOne
    /\ shown' = status
    /\ IF command = "watch"
       THEN step' = "select" /\ UNCHANGED result
       ELSE step' = "return" /\ result' = "ok"
    /\ UNCHANGED <<vars, command, cancelled, outVars, print, current>>

\* A status that does not decode, or an output that cannot be written.
ShowFails ==
    /\ step = "show"
    /\ mu = NoOne
    /\ step' = "return"
    /\ result' = "output failed"
    /\ UNCHANGED <<vars, command, cancelled, outVars, viewVars>>

\* Mutant of ReturnCloses: an early return on an error skips the Close.
ReturnClosesOnSuccess ==
    /\ step = "return"
    /\ IF result = "ok" THEN CloseBegin(Cli) /\ step' = "closing"
                        ELSE UNCHANGED vars /\ step' = "exit"
    /\ UNCHANGED <<command, cancelled, result, outVars, viewVars>>

\* The deferred Close.
ReturnCloses ==
    /\ step = "return"
    /\ CloseBegin(Cli)
    /\ step' = "closing"
    /\ UNCHANGED <<command, cancelled, result, outVars, viewVars>>

CloseRuns ==
    /\ step = "closing"
    /\ FailStep(Cli)
    /\ UNCHANGED commandVars

Exit ==
    /\ step = "closing"
    /\ Disconnect(Cli)
    /\ step' = "exit"
    /\ UNCHANGED <<command, cancelled, result, outVars, viewVars>>

-----------------------------------------------------------------------------
(* The rest of the session: the dispatcher and the loss of the connection. *)

HasPrint(m) == m.fields # Silence \/ \E r \in m.replies : r.key[1][1] = "print"

Accept ==
    /\ ReceiveLock
    /\ print' = IF HasPrint(payload) THEN print \cup {received + 1} ELSE print
    /\ UNCHANGED <<command, step, cancelled, result, outVars, current, shown>>

SessionRuns ==
    /\ \/ ConnectionLost
       \/ FailStep(Lost)
       \/ ReceiveMalformed
       \/ \E m \in Payloads : ReceiveBegin(m)
       \/ ReceiveClosed
       \/ ReceiveDispatch
       \/ ReceiveEnqueue
    /\ UNCHANGED commandVars

\* Steps that are the command's own, and those the broker decides on.
OwnStep ==
    \/ Refuse \/ RunAction \/ SendRuns \/ SendFails \/ SendTooLate \/ ReportSent
    \/ SelectCancelled \/ SelectError \/ SelectDone \/ SelectReport
    \/ DoneReturns \/ Show \/ ReturnCloses \/ CloseRuns \/ Exit

BrokerStep == SendSucceeds \/ DeliveryFails

CommandNext ==
    OwnStep \/ ShowFails \/ BrokerStep \/ Cancel \/ SendTimeout \/ Accept \/ SessionRuns

CommandSpec == CommandInit /\ [][CommandNext]_allVars

\* The goroutines run, the send's timeout fires, and neither the select nor the
\* mutex starves one who waits; the broker and the printer promise nothing.
CommandFairness ==
    /\ WF_allVars(OwnStep)
    /\ WF_allVars(SendTimeout)
    /\ SF_allVars(SelectCancelled) /\ SF_allVars(SelectDone)
    /\ SF_allVars(Show) /\ SF_allVars(CloseRuns)
    /\ SF_allVars(Accept \/ (ReceiveClosed /\ UNCHANGED commandVars))
    /\ SF_allVars(FailStep(Lost) /\ UNCHANGED commandVars)
    /\ WF_allVars((ReceiveDispatch \/ ReceiveEnqueue) /\ UNCHANGED commandVars)

FairCommandSpec == CommandSpec /\ CommandFairness

-----------------------------------------------------------------------------
(* Properties *)

\* What the command reports is what happened.  The bare ErrClosed, with the reason left
\* unread, comes only of a session lost before anything was sent: once the command is
\* in its select loop it names the reason, whichever of Done and Errors it sees first.
\* A control that ends well has sent its command once and seen its delivery, and one
\* that was refused has sent nothing; state ends well after one look at the status.
ResultIsEarned ==
    /\ result = "closed" => sent = 0 /\ closed /\ errors # <<>>
    /\ result = "ok" /\ command \notin Streams => sent = 1 /\ confirmed = 1
    /\ result = "refused" => sent = 0
    /\ result = "ok" /\ command = "state" => current # NoReport

\* What is printed on a report is the document that the reports accepted up to that
\* one, or up to a later one, add up to, dropped reports included; and watch never
\* goes back to an earlier document.
OutputAdvances ==
    [][shown' # shown =>
          \E n \in current.id..received : /\ shown' = Document(n)
                                          /\ \E i \in 0..n : shown = Document(i)]_allVars

\* However the command ended, it leaves neither an open session nor a connection.
NothingLeftOpen == step = "exit" => closed /\ ~connected /\ mu # Cli

\* README.md:63: state reports the live run state.  Violated: state answers on the
\* first message with a "print" section, be it the reply to another client's
\* command, with a status no report has filled yet.
StateShowsStatus ==
    command = "state" /\ result = "ok" => \E f \in Fields : shown[f] # Absent

\* A cancelled command ends, whatever the printer, the broker and the network do.
CancelEnds == cancelled ~> step = "exit"
=============================================================================
