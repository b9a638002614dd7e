-------------------------- MODULE MCPrinterSession --------------------------
(* Small instances of PrinterSession for TLC.                               *)
EXTENDS PrinterContract, TLC

CONSTANTS c1, c2, x, f1, a

MCCallers  == {c1, c2}
MCCommands == {x}
MCFields   == {f1}
MCMembers  == {a}

Answer(n, res) == [key |-> <<x, n>>, result |-> res]

\* A reply to each command the bound allows, in messages that also carry a status
\* delta; to a session that has not sent the command the first is the reply to
\* another client of the same printer, and either may come twice.
MCPayloads ==
    {[replies |-> {Answer(1, "success")}, fields |-> f1 :> {a}],
     [replies |-> {Answer(2, "rejected")}, fields |-> f1 :> Scalar]}

\* For the liveness run: one reply that comes with a delta.
MCOnePayload == {[replies |-> {Answer(1, "success")}, fields |-> f1 :> Scalar]}

Symmetry == Permutations(MCCallers)
=============================================================================
