---------------------------- MODULE FileCommand ----------------------------
(***************************************************************************)
(* One LAN command of the CLI (internal/cli/cli.go files): ls, upload,     *)
(* download, snapshot or rm.  It resolves the printer's address, runs      *)
(* against it, and when a cached address turns out to be stale discovers   *)
(* the printer anew, and runs again if that is harmless.                   *)
(*                                                                         *)
(* Abstractions: an address is where it came from; what answers there is a *)
(* Peer; an error is its class, of which staleAddressError tells some      *)
(* apart; the local output is absent, another's, partial or complete.      *)
(***************************************************************************)
EXTENDS Discovery, PrinterTLS, Naturals, Sequences

Commands == {"ls", "upload", "download", "snapshot", "rm"}
Mutating == {"upload", "rm"}
Saving   == {"download", "snapshot"}

\* Where an address came from: --host, the cache, a discovery.
Hosts == {"given", "cached", "discovered"}

\* What answers at an address: nothing, with or without a refusal; something that
\* does not speak TLS; or a holder of a certificate.
NoCert == [chain |-> "none", san |-> "none", cn |-> "other"]
Peers  == [speaks : {"tls"}, cert : Certificate]
              \cup [speaks : {"refusing", "silent", "plain"}, cert : {NoCert}]

\* The error a connect to the peer ends in before the context is done.
ConnectError(p) ==
    CASE p.speaks = "refusing" -> "network"
      [] p.speaks = "plain"    -> "protocol"
      [] p.speaks = "silent"   -> "none"
      [] OTHER                 -> VerifyConnection(p.cert)

Errors == {"none", "local", "network", "invalid", "hostname", "authority", "identity",
           "protocol", "context", "listen", "undiscovered", "output"}

VARIABLES
    command,
    explicit,  \* whether --host was given
    entry,     \* the address the cache holds for the printer
    pc,
    host,      \* a.host
    fromCache, \* a.hostFromCache
    peer,      \* what answers at it
    error,     \* the error of the last run or of the command
    output,    \* the local file of download and snapshot
    attempts,  \* history: the addresses connected to
    applied    \* history: runs that may have changed the printer's files

lanVars   == <<ctx, listener, announcer>>
hostVars  == <<entry, host, fromCache>>
givenVars == <<command, explicit>>
histVars  == <<attempts, applied>>
vars      == <<lanVars, hostVars, givenVars, histVars, pc, peer, error, output>>

\* The types, and that the attempts are few.
TypeOK ==
    /\ command \in Commands
    /\ explicit \in BOOLEAN
    /\ peer \in Peers
    /\ listener \in {"closed", "open", "over", "done"}
    /\ announcer \in {"nobody", "serial", "other"}
    /\ entry \in Hosts \cup {"none"}
    /\ pc \in {"resolve", "forget", "discover", "open", "connect", "transfer", "create", "write",
               "close", "report", "decide", "end"}
    /\ host \in Hosts \cup {"none"}
    /\ fromCache \in BOOLEAN
    /\ ctx \in {"live", "expired", "cancelled"}
    /\ error \in Errors
    /\ output \in {"absent", "foreign", "partial", "complete"}
    /\ attempts \in Seq(Hosts) /\ Len(attempts) <= 2
    /\ applied \in 0..2

Init ==
    /\ command \in Commands
    /\ explicit \in BOOLEAN
    /\ peer = [speaks |-> "silent", cert |-> NoCert]
    /\ listener = "closed"
    /\ announcer = "nobody"
    /\ entry \in {"none", "cached"}
    /\ pc = "resolve"
    /\ host = "none"
    /\ fromCache = FALSE
    /\ ctx = "live"
    /\ error = "none"
    /\ output \in {"absent", "foreign"}
    /\ attempts = <<>>
    /\ applied = 0

-----------------------------------------------------------------------------
(* resolveLocalPrinter and refreshPrinterIP *)

\* A run against an address begins; whoever answers there is not known before.
Run(h) ==
    /\ host' = h
    /\ peer' \in Peers
    /\ pc' = "open"

ResolveGiven ==
    /\ pc = "resolve" /\ explicit
    /\ Run("given")
    /\ UNCHANGED <<lanVars, givenVars, histVars, entry, fromCache, error, output>>

\* Wrong arguments, no account, no access code.
ResolveFails ==
    /\ pc = "resolve"
    /\ pc' = "end"
    /\ error' = "local"
    /\ UNCHANGED <<lanVars, hostVars, givenVars, histVars, peer, output>>

ResolveCached ==
    /\ pc = "resolve" /\ ~explicit
    /\ entry # "none"
    /\ Run(entry)
    /\ fromCache' = TRUE
    /\ UNCHANGED <<lanVars, givenVars, histVars, entry, error, output>>

ResolveUnknown ==
    /\ pc = "resolve" /\ ~explicit
    /\ entry = "none"
    /\ pc' = "forget"
    /\ UNCHANGED <<lanVars, hostVars, givenVars, histVars, peer, error, output>>

\* forgetPrinterIP: saving the cache may fail, which nobody notices.
Forget ==
    /\ pc = "forget"
    /\ entry' \in {"none", entry}
    /\ pc' = "discover"
    /\ Listen
    /\ UNCHANGED <<ctx, givenVars, histVars, host, fromCache, peer, error, output>>

ListenerRuns ==
    /\ pc = "discover"
    /\ WindowEnds
    /\ UNCHANGED <<ctx, hostVars, givenVars, histVars, pc, peer, error, output>>

\* Mutant of Discovered: a mutating command is run again as well.
DiscoveredRetryingAll ==
    /\ pc = "discover"
    /\ Announced
    /\ entry' \in {"discovered", entry}
    /\ fromCache' = FALSE
    /\ Run("discovered")
    /\ error' = "none"
    /\ UNCHANGED <<ctx, givenVars, histVars, output>>

\* The printer announces itself: its address is remembered, if that can be saved.
\* A first run begins, or a second one, unless it might repeat a change.
Discovered ==
    /\ pc = "discover"
    /\ Announced
    /\ entry' \in {"discovered", entry}
    /\ fromCache' = FALSE
    /\ IF error # "none" /\ command \in Mutating
       THEN /\ pc' = "end" /\ host' = "discovered"
            /\ UNCHANGED <<peer, error>>
       ELSE /\ Run("discovered")
            /\ error' = "none"
    /\ UNCHANGED <<ctx, givenVars, histVars, output>>

\* The discovery fails; an error of the run before is reported with it.
NotDiscovered ==
    /\ pc = "discover"
    /\ \E e \in {"undiscovered", "context", "listen"} : ListenEnds(e) /\ error' = e
    /\ pc' = "end"
    /\ UNCHANGED <<ctx, hostVars, givenVars, histVars, peer, output>>

-----------------------------------------------------------------------------
(* runFileCommand *)

\* The run ends in e; on the connection a done context takes precedence over it.
RunEnds(e) ==
    /\ pc' = "decide"
    /\ error' = IF pc \in {"connect", "transfer"} /\ ctx # "live" THEN "context" ELSE e

\* Mutant of Open: an existing output is opened as well.
OpenExisting ==
    /\ pc = "open"
    /\ pc' = "connect"
    /\ output' = IF command = "download" THEN "partial" ELSE output
    /\ UNCHANGED <<lanVars, hostVars, givenVars, histVars, peer, error>>

\* upload opens its source, download creates its output (never an existing file).
\* Flags that give no valid TLS or client configuration end the run here too.
Open ==
    /\ pc = "open"
    /\ command = "download" => output = "absent"
    /\ pc' = "connect"
    /\ output' = IF command = "download" THEN "partial" ELSE output
    /\ UNCHANGED <<lanVars, hostVars, givenVars, histVars, peer, error>>

OpenFails ==
    /\ pc = "open"
    /\ RunEnds("local")
    /\ UNCHANGED <<lanVars, hostVars, givenVars, histVars, peer, output>>

\* Mutant of Discarded: the incomplete output stays.
DiscardedNever == UNCHANGED output

\* writeNewFile removes what it has created when the write function fails.
Discarded == output' = IF output = "partial" THEN "absent" ELSE output

Connect ==
    /\ pc = "connect" /\ ctx = "live"
    /\ peer.speaks = "tls" /\ ConnectError(peer) = "none"
    /\ attempts' = Append(attempts, host)
    /\ pc' = "transfer"
    /\ UNCHANGED <<lanVars, hostVars, givenVars, applied, peer, error, output>>

\* Mutant of ConnectFails: the dial is not bound to the context.
ConnectFailsUnbounded ==
    /\ pc = "connect"
    /\ attempts' = Append(attempts, host)
    /\ \/ ConnectError(peer) # "none" /\ RunEnds(ConnectError(peer))
       \/ peer.speaks = "tls" /\ RunEnds("network")
    /\ Discarded
    /\ UNCHANGED <<lanVars, hostVars, givenVars, applied, peer>>

\* The peer is not the printer, the network or the protocol fails, or the context
\* ends the wait.
ConnectFails ==
    /\ pc = "connect"
    /\ attempts' = Append(attempts, host)
    /\ \/ ConnectError(peer) # "none" /\ RunEnds(ConnectError(peer))
       \/ peer.speaks = "tls" /\ \E e \in {"network", "protocol"} : RunEnds(e)
       \/ ctx # "live" /\ RunEnds("context")
    /\ Discarded
    /\ UNCHANGED <<lanVars, hostVars, givenVars, applied, peer>>

MayHaveApplied == applied' = IF command \in Mutating THEN applied + 1 ELSE applied

\* The transfer is complete; what is saved is not yet.
Transfer ==
    /\ pc = "transfer" /\ ctx = "live"
    /\ pc' = CASE command = "download" -> "close"
               [] command = "snapshot" -> "create"
               [] OTHER                -> "report"
    /\ MayHaveApplied
    /\ UNCHANGED <<lanVars, hostVars, givenVars, attempts, peer, error, output>>

\* It breaks off: the printer may have carried out the change nevertheless.
TransferFails ==
    /\ pc = "transfer"
    /\ \E e \in {"network", "protocol", "local"} : RunEnds(e)
    /\ \/ MayHaveApplied
       \/ UNCHANGED applied
    /\ Discarded
    /\ UNCHANGED <<lanVars, hostVars, givenVars, attempts, peer>>

\* snapshot creates its output only when it has a frame.
Create ==
    /\ pc = "create"
    /\ output = "absent"
    /\ output' = "partial"
    /\ pc' = "write"
    /\ UNCHANGED <<lanVars, hostVars, givenVars, histVars, peer, error>>

CreateFails ==
    /\ pc = "create"
    /\ RunEnds("local")
    /\ UNCHANGED <<lanVars, hostVars, givenVars, histVars, peer, output>>

Write ==
    /\ pc = "write"
    /\ pc' = "close"
    /\ UNCHANGED <<lanVars, hostVars, givenVars, histVars, peer, error, output>>

CloseFile ==
    /\ pc = "close"
    /\ output' = "complete"
    /\ pc' = "report"
    /\ UNCHANGED <<lanVars, hostVars, givenVars, histVars, peer, error>>

WriteFails ==
    /\ pc \in {"write", "close"}
    /\ Discarded
    /\ RunEnds("local")
    /\ UNCHANGED <<lanVars, hostVars, givenVars, histVars, peer>>

\* The listing or the confirmation is written, or cannot be: the run then ends in the
\* error of that, although everything else is done.
Report ==
    /\ pc = "report"
    /\ \E e \in {"none", "output"} : RunEnds(e)
    /\ UNCHANGED <<lanVars, hostVars, givenVars, histVars, peer, output>>

-----------------------------------------------------------------------------
(* What files does with the error of the run *)

\* Of the four types looked for only *net.OpError is found: x509 returns its
\* CertificateInvalidError, HostnameError and UnknownAuthorityError by value, and
\* errors.As looks for pointers to them.
staleAddressError(e) == e = "network"

Stale == fromCache /\ ctx = "live" /\ staleAddressError(error)

Decide ==
    /\ pc = "decide"
    /\ pc' = IF Stale THEN "forget" ELSE "end"
    /\ UNCHANGED <<lanVars, hostVars, givenVars, histVars, peer, error, output>>

\* --timeout, or a signal.
ContextDone ==
    /\ pc # "end" /\ ctx = "live"
    /\ ctx' \in {"expired", "cancelled"}
    /\ UNCHANGED <<listener, announcer, hostVars, givenVars, histVars, pc, peer, error, output>>

Step ==
    \/ ResolveFails \/ ResolveGiven \/ ResolveCached \/ ResolveUnknown
    \/ Forget \/ ListenerRuns \/ Discovered \/ NotDiscovered
    \/ Open \/ OpenFails \/ Connect \/ ConnectFails \/ Transfer \/ TransferFails
    \/ Create \/ CreateFails \/ Write \/ CloseFile \/ WriteFails \/ Report \/ Decide

Next == Step \/ ContextDone

Spec == Init /\ [][Next]_vars

\* The process runs and its timers fire; a host need not answer.
FairSpec == Spec /\ WF_vars(Step) /\ WF_vars(ContextDone)

-----------------------------------------------------------------------------
(* Properties *)

\* README.md:168: an upload replaces a file, rm removes one; neither is carried
\* out twice by one command, also when the first run broke off half-way.
ChangedAtMostOnce == applied <= 1

\* README.md:169: incomplete output is removed.  When the command is over the output
\* of a download or snapshot is complete or not this command's; and it is complete
\* exactly if the command succeeded or failed only to say so.
OutputIsWhole ==
    pc = "end" =>
        /\ output # "partial"
        /\ output = "complete" <=> command \in Saving /\ error \in {"none", "output"}

\* The second run of a download is not stopped by what the first has left, and
\* a file that was there before is never written or removed.
OutputIsOwn ==
    [][/\ output = "foreign" => output' = "foreign"
       /\ pc = "forget" => output # "partial"]_vars

\* README.md:145: whatever answers at a given, cached or discovered address, only a
\* holder of the printer's own certificate is sent a change, has its files saved, or
\* makes the command a success.
OnlyThePrinter ==
    applied > 0 \/ output = "complete" \/ (pc = "end" /\ error = "none") => Genuine(peer.cert)

\* A discovery that says the printer was not found has listened to the end of its
\* window while the caller still wanted to know, and one that found an address took
\* the word of that printer: a cancelled command is never told the printer is away.
DiscoveryIsHonest ==
    /\ error = "undiscovered" => announcer = "nobody" /\ ctx = "live"
    /\ host = "discovered" => announcer = "serial"

\* Every command ends, at the latest soon after its timeout.
CommandEnds == <>(pc = "end")

\* README.md:79: a cached IP that fails to connect is rediscovered.  Violated: an
\* address that now belongs to another device fails with an x509 error, which is not
\* recognised, and one that swallows packets lasts until the command's own deadline.
FailedIsRediscovered ==
    pc = "end" /\ attempts = <<"cached">> /\ ~Genuine(peer.cert) /\ ctx # "cancelled" =>
        listener # "closed"
=============================================================================
