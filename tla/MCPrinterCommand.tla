-------------------------- MODULE MCPrinterCommand --------------------------
(* Small instances of PrinterCommand for TLC.                               *)
EXTENDS PrinterCommand, TLC

CONSTANTS f1, a

MCCallers     == {Cli}
MCCliCommands == {"watch", "state", "command"}
MCCommands    == {PlainWire.watch, PlainWire.pause, LightWire.light}
MCFields      == {f1}
MCMembers     == {a}

\* Deltas that set an object, add nothing to it or empty what was no object, and
\* replace it by something else; and the printer's reaction to commands of another
\* client: a "print" section that is no status, and a message without one.
Says(value)    == [replies |-> {}, fields |-> f1 :> value]
Reaction(wire) == [replies |-> {[key |-> <<wire, 1>>, result |-> "success"]},
                   fields |-> f1 :> Unsaid]

MCPayloads    == {Says({a}), Says({}), Says(Scalar), Reaction(LightWire.light)}
MCTwoPayloads == {Says({a}), Reaction(PlainWire.pause)}
=============================================================================
