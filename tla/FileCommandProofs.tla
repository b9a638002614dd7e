-------------------------- MODULE FileCommandProofs --------------------------
(* Proofs about FileCommand: who is sent a change and how often, what      *)
(* becomes of the output, and what a discovery says.                       *)
EXTENDS FileCommand, TLAPS

Discovering == {"forget", "discover"}
Running     == {"open", "connect", "transfer", "create", "write", "close", "report", "decide"}

Reporting   == {"report", "decide", "end"}

\* Where the address of a run is from, and what led to a discovery: an unknown address,
\* or a run against a cached one.  There is no second discovery.
HostInv ==
    /\ pc = "resolve" => host = "none" /\ entry \in {"none", "cached"} /\ ~fromCache
    /\ pc \in Discovering => host = IF fromCache THEN "cached" ELSE "none"
    /\ pc \in Running => host \in Hosts /\ (fromCache <=> host = "cached")

\* No error is kept from one run to the next; one that led to a discovery is.
ErrorInv ==
    /\ pc \in {"resolve", "open", "connect", "transfer", "create", "write", "close", "report"} =>
           error = "none"
    /\ pc \in Discovering => error = IF fromCache THEN "network" ELSE "none"
    /\ error \in {"undiscovered", "listen"} => pc = "end"

\* An address is connected to once; at most two are.
AttemptInv ==
    /\ pc = "resolve" => attempts = <<>>
    /\ pc \in Discovering /\ ~fromCache => attempts = <<>>
    /\ pc \in {"open", "connect"} => Len(attempts) <= IF host = "discovered" THEN 1 ELSE 0
    /\ Len(attempts) <= IF host = "discovered" THEN 2 ELSE 1

\* A run that may repeat a change does not begin.
ChangeInv ==
    /\ applied > 0 => command \in Mutating
    /\ pc \in {"resolve", "open", "connect", "transfer"} => applied = 0
    /\ pc \in Discovering /\ error = "none" => applied = 0
    /\ applied <= 1

\* Where the output is being written, and where it can only be as it was found.
OutputInv ==
    /\ pc \in {"create", "write"} => command = "snapshot"
    /\ pc = "close" => command \in Saving
    /\ pc \in {"write", "close"} => output = "partial"
    /\ pc \in {"connect", "transfer"} /\ command = "download" => output = "partial"
    /\ output = "partial" => \/ pc \in {"write", "close"}
                             \/ pc \in {"connect", "transfer"} /\ command = "download"
    /\ output = "complete" => pc \in Reporting /\ error \in {"none", "output"} /\ command \in Saving
    /\ pc \in Reporting /\ error \in {"none", "output"} /\ command \in Saving => output = "complete"

\* A transfer is with the printer, and so is what comes of one.
PeerInv ==
    /\ pc \in {"transfer", "create", "write", "close", "report"} => Genuine(peer.cert)
    /\ pc \in {"decide", "end"} /\ error \in {"none", "output"} => Genuine(peer.cert)
    /\ applied > 0 => Genuine(peer.cert)

\* A discovery begins with nobody heard, and ends with an announcement or an error.
DiscoveryInv ==
    /\ pc = "discover" => announcer = "nobody"
    /\ DiscoveryIsHonest

IInv ==
    /\ TypeOK /\ HostInv /\ ErrorInv /\ AttemptInv
    /\ ChangeInv /\ OutputInv /\ PeerInv /\ DiscoveryInv

\* The inductive invariant holds initially.
LEMMA InitEstablishes == Init => IInv
  <1> SUFFICES ASSUME Init PROVE IInv
    OBVIOUS
  <1> USE DEF Init
  <1>0. peer \in Peers
    <2>1. [speaks |-> "silent", cert |-> NoCert]
              \in [speaks : {"refusing", "silent", "plain"}, cert : {NoCert}]
      OBVIOUS
    <2> QED
      BY <2>1 DEF Peers
  <1>1. TypeOK
    <2>1. attempts \in Seq(Hosts) /\ Len(attempts) <= 2
      OBVIOUS
    <2>2. /\ command \in Commands /\ explicit \in BOOLEAN /\ fromCache \in BOOLEAN
          /\ entry \in Hosts \cup {"none"} /\ host \in Hosts \cup {"none"}
          /\ error \in Errors
      BY DEF Hosts, Errors
    <2>3. applied \in 0..2
      OBVIOUS
    <2> QED
      BY <1>0, <2>1, <2>2, <2>3 DEF TypeOK
  <1>2. HostInv /\ ErrorInv /\ AttemptInv /\ ChangeInv /\ OutputInv
    BY DEF Reporting, HostInv, ErrorInv, AttemptInv, ChangeInv, OutputInv, Discovering, Running
  <1>3. PeerInv /\ DiscoveryInv
    BY DEF PeerInv, DiscoveryInv, DiscoveryIsHonest
  <1> QED
    BY <1>1, <1>2, <1>3 DEF IInv

\* The identity check of the TLS handshake lets exactly the printer's own certificate
\* through, whichever way it names the printer.
LEMMA OnlyGenuineVerifies ==
  ASSUME NEW cert \in Certificate PROVE VerifyConnection(cert) = "none" <=> Genuine(cert)
  BY DEF Certificate, VerifyConnection, Genuine, IssuedTo

\* A connection is made only to the printer.
LEMMA ConnectIsGenuine == TypeOK /\ Connect => Genuine(peer.cert)
  <1> SUFFICES ASSUME TypeOK, Connect PROVE Genuine(peer.cert)
    OBVIOUS
  <1>1. peer \in Peers /\ peer.speaks = "tls" /\ ConnectError(peer) = "none"
    BY DEF TypeOK, Connect
  <1>2. peer.cert \in Certificate /\ VerifyConnection(peer.cert) = "none"
    BY <1>1 DEF Peers, ConnectError
  <1> QED
    BY <1>2, OnlyGenuineVerifies

\* Whatever fails a connect is an error of a run.
LEMMA ConnectErrorIsError ==
  ASSUME NEW p \in Peers PROVE ConnectError(p) \in Errors \ {"undiscovered", "listen", "output"}
  BY DEF Peers, ConnectError, VerifyConnection, Certificate, NoCert, Errors

\* Every step preserves the types.
LEMMA TypeStep ==
    TypeOK /\ HostInv /\ AttemptInv /\ ChangeInv /\ [Next]_vars => TypeOK'
  <1> SUFFICES ASSUME TypeOK, HostInv, AttemptInv, ChangeInv, [Next]_vars PROVE TypeOK'
    OBVIOUS
  <1> USE DEF TypeOK, HostInv, AttemptInv, ChangeInv, Discovering, Running, Hosts,
          Errors, lanVars, hostVars, givenVars, histVars
  <1>1. CASE ResolveFails \/ ResolveGiven
    BY <1>1 DEF ResolveFails, ResolveGiven, Run
  <1>2. CASE ResolveCached
    BY <1>2 DEF ResolveCached, Run
  <1>3. CASE ResolveUnknown
    BY <1>3 DEF ResolveUnknown
  <1>4. CASE Forget \/ ListenerRuns
    BY <1>4 DEF Forget, Listen, ListenerRuns, WindowEnds
  <1>5. CASE Discovered
    BY <1>5 DEF Discovered, Announced, Run
  <1>6. CASE NotDiscovered
    BY <1>6 DEF NotDiscovered, ListenEnds
  <1>7. CASE Open \/ OpenFails
    BY <1>7 DEF Open, OpenFails, RunEnds
  <1>8. CASE Connect
    BY <1>8 DEF Connect
  <1>9. CASE ConnectFails
    BY <1>9, ConnectErrorIsError DEF ConnectFails, RunEnds, Discarded
  <1>10. CASE Transfer
    BY <1>10 DEF Transfer, MayHaveApplied
  <1>11. CASE TransferFails
    BY <1>11 DEF TransferFails, RunEnds, MayHaveApplied, Discarded
  <1>12. CASE Create \/ CreateFails \/ Write
    BY <1>12 DEF Create, CreateFails, RunEnds, Write
  <1>13. CASE CloseFile \/ WriteFails \/ Report
    BY <1>13 DEF CloseFile, RunEnds, WriteFails, Discarded, Report
  <1>14. CASE Decide \/ ContextDone
    BY <1>14 DEF Decide, Stale, staleAddressError, ContextDone
  <1>15. CASE UNCHANGED vars
    BY <1>15 DEF vars, lanVars, hostVars, givenVars, histVars
  <1> QED
    BY <1>1, <1>2, <1>3, <1>4, <1>5, <1>6, <1>7, <1>8, <1>9, <1>10, <1>11, <1>12,
       <1>13, <1>14, <1>15 DEF Next, Step

\* Every step preserves what is known of the address and of the error.
LEMMA HostStep ==
    TypeOK /\ HostInv /\ ErrorInv /\ [Next]_vars => HostInv' /\ ErrorInv'
  <1> SUFFICES ASSUME TypeOK, HostInv, ErrorInv, [Next]_vars PROVE HostInv' /\ ErrorInv'
    OBVIOUS
  <1> USE DEF TypeOK, HostInv, ErrorInv, Discovering, Running, Hosts, lanVars, hostVars,
          givenVars, histVars
  <1>1. CASE ResolveFails \/ ResolveGiven
    BY <1>1 DEF ResolveFails, ResolveGiven, Run
  <1>2. CASE ResolveCached
    BY <1>2 DEF ResolveCached, Run
  <1>3. CASE ResolveUnknown
    BY <1>3 DEF ResolveUnknown
  <1>4. CASE Forget \/ ListenerRuns
    BY <1>4 DEF Forget, Listen, ListenerRuns, WindowEnds
  <1>5. CASE Discovered
    BY <1>5 DEF Discovered, Announced, Run
  <1>6. CASE NotDiscovered
    BY <1>6 DEF NotDiscovered, ListenEnds
  <1>7. CASE Open \/ OpenFails
    BY <1>7 DEF Open, OpenFails, RunEnds
  <1>8. CASE Connect
    BY <1>8 DEF Connect
  <1>9. CASE ConnectFails
    BY <1>9, ConnectErrorIsError DEF ConnectFails, RunEnds, Discarded
  <1>10. CASE Transfer
    BY <1>10 DEF Transfer, MayHaveApplied
  <1>11. CASE TransferFails
    BY <1>11 DEF TransferFails, RunEnds, MayHaveApplied, Discarded
  <1>12. CASE Create \/ CreateFails \/ Write
    BY <1>12 DEF Create, CreateFails, RunEnds, Write
  <1>13. CASE CloseFile \/ WriteFails \/ Report
    BY <1>13 DEF CloseFile, RunEnds, WriteFails, Discarded, Report
  <1>14. CASE Decide \/ ContextDone
    BY <1>14 DEF Decide, Stale, staleAddressError, ContextDone
  <1>15. CASE UNCHANGED vars
    BY <1>15 DEF vars, lanVars, hostVars, givenVars, histVars
  <1> QED
    BY <1>1, <1>2, <1>3, <1>4, <1>5, <1>6, <1>7, <1>8, <1>9, <1>10, <1>11, <1>12,
       <1>13, <1>14, <1>15 DEF Next, Step

\* Every step preserves how many addresses have been connected to.
LEMMA AttemptStep ==
    TypeOK /\ HostInv /\ AttemptInv /\ [Next]_vars => AttemptInv'
  <1> SUFFICES ASSUME TypeOK, HostInv, AttemptInv, [Next]_vars PROVE AttemptInv'
    OBVIOUS
  <1> USE DEF TypeOK, HostInv, AttemptInv, Discovering, Running, Hosts, lanVars,
          hostVars, givenVars, histVars
  <1>1. CASE ResolveFails \/ ResolveGiven \/ ResolveCached \/ ResolveUnknown
    BY <1>1 DEF ResolveFails, ResolveGiven, Run, ResolveCached, ResolveUnknown
  <1>2. CASE Forget \/ ListenerRuns
    BY <1>2 DEF Forget, Listen, ListenerRuns, WindowEnds
  <1>3. CASE Discovered \/ NotDiscovered
    BY <1>3 DEF Discovered, Announced, Run, NotDiscovered, ListenEnds
  <1>4. CASE Open \/ OpenFails
    BY <1>4 DEF Open, OpenFails, RunEnds
  <1>5. CASE Connect \/ ConnectFails
    BY <1>5 DEF Connect, ConnectFails, RunEnds, Discarded
  <1>6. CASE Transfer \/ TransferFails
    BY <1>6 DEF Transfer, RunEnds, MayHaveApplied, TransferFails, Discarded
  <1>7. CASE Create \/ CreateFails \/ Write
    BY <1>7 DEF Create, CreateFails, RunEnds, Write
  <1>8. CASE CloseFile \/ WriteFails \/ Report
    BY <1>8 DEF CloseFile, RunEnds, WriteFails, Discarded, Report
  <1>9. CASE Decide \/ ContextDone
    BY <1>9 DEF Decide, Stale, staleAddressError, ContextDone
  <1>10. CASE UNCHANGED vars
    BY <1>10 DEF vars, lanVars, hostVars, givenVars, histVars
  <1> QED
    BY <1>1, <1>2, <1>3, <1>4, <1>5, <1>6, <1>7, <1>8, <1>9, <1>10 DEF Next, Step

\* Every step preserves that a change is not repeated.
LEMMA ChangeStep ==
    TypeOK /\ HostInv /\ ErrorInv /\ ChangeInv /\ [Next]_vars => ChangeInv'
  <1> SUFFICES ASSUME TypeOK, HostInv, ErrorInv, ChangeInv, [Next]_vars PROVE ChangeInv'
    OBVIOUS
  <1> USE DEF TypeOK, HostInv, ErrorInv, ChangeInv, Discovering, Running, Hosts,
          lanVars, hostVars, givenVars, histVars
  <1>1. CASE ResolveFails \/ ResolveGiven \/ ResolveCached \/ ResolveUnknown
    BY <1>1 DEF ResolveFails, ResolveGiven, Run, ResolveCached, ResolveUnknown
  <1>2. CASE Forget \/ ListenerRuns
    BY <1>2 DEF Forget, Listen, ListenerRuns, WindowEnds
  <1>3. CASE Discovered \/ NotDiscovered
    BY <1>3 DEF Discovered, Announced, Run, NotDiscovered, ListenEnds
  <1>4. CASE Open \/ OpenFails
    BY <1>4 DEF Open, OpenFails, RunEnds
  <1>5. CASE Connect \/ ConnectFails
    BY <1>5 DEF Connect, ConnectFails, RunEnds, Discarded
  <1>6. CASE Transfer \/ TransferFails
    BY <1>6 DEF Transfer, RunEnds, MayHaveApplied, TransferFails, Discarded
  <1>7. CASE Create \/ CreateFails \/ Write
    BY <1>7 DEF Create, CreateFails, RunEnds, Write
  <1>8. CASE CloseFile \/ WriteFails \/ Report
    BY <1>8 DEF CloseFile, RunEnds, WriteFails, Discarded, Report
  <1>9. CASE Decide \/ ContextDone
    BY <1>9 DEF Decide, Stale, staleAddressError, ContextDone
  <1>10. CASE UNCHANGED vars
    BY <1>10 DEF vars, lanVars, hostVars, givenVars, histVars
  <1> QED
    BY <1>1, <1>2, <1>3, <1>4, <1>5, <1>6, <1>7, <1>8, <1>9, <1>10 DEF Next, Step

\* Every step preserves the state of the output.
LEMMA OutputStep ==
    TypeOK /\ ErrorInv /\ OutputInv /\ [Next]_vars => OutputInv'
  <1> SUFFICES ASSUME TypeOK, ErrorInv, OutputInv, [Next]_vars PROVE OutputInv'
    OBVIOUS
  <1> USE DEF TypeOK, ErrorInv, OutputInv, Discovering, Reporting, Commands, Saving, lanVars,
          hostVars, givenVars, histVars
  <1>1. CASE ResolveFails \/ ResolveGiven \/ ResolveCached \/ ResolveUnknown
    BY <1>1 DEF ResolveFails, ResolveGiven, Run, ResolveCached, ResolveUnknown
  <1>2. CASE Forget \/ ListenerRuns
    BY <1>2 DEF Forget, Listen, ListenerRuns, WindowEnds
  <1>3. CASE Discovered \/ NotDiscovered
    BY <1>3 DEF Discovered, Announced, Run, NotDiscovered, ListenEnds
  <1>4. CASE Open \/ OpenFails
    BY <1>4 DEF Open, OpenFails, RunEnds
  <1>5. CASE Connect \/ ConnectFails
    BY <1>5, ConnectErrorIsError DEF Connect, ConnectFails, RunEnds, Discarded
  <1>6. CASE Transfer \/ TransferFails
    BY <1>6 DEF Transfer, RunEnds, MayHaveApplied, TransferFails, Discarded
  <1>7. CASE Create \/ CreateFails \/ Write
    BY <1>7 DEF Create, CreateFails, RunEnds, Write
  <1>8. CASE CloseFile \/ WriteFails \/ Report
    BY <1>8 DEF CloseFile, RunEnds, WriteFails, Discarded, Report
  <1>9. CASE Decide \/ ContextDone
    BY <1>9 DEF Decide, Stale, staleAddressError, ContextDone
  <1>10. CASE UNCHANGED vars
    BY <1>10 DEF vars, lanVars, hostVars, givenVars, histVars
  <1> QED
    BY <1>1, <1>2, <1>3, <1>4, <1>5, <1>6, <1>7, <1>8, <1>9, <1>10 DEF Next, Step

\* Every step preserves whom the command has dealt with.
LEMMA PeerStep ==
    TypeOK /\ ErrorInv /\ ChangeInv /\ OutputInv /\ PeerInv /\ [Next]_vars => PeerInv'
  <1> SUFFICES ASSUME TypeOK, ErrorInv, ChangeInv, OutputInv, PeerInv, [Next]_vars
               PROVE  PeerInv'
    OBVIOUS
  <1> USE DEF TypeOK, ErrorInv, ChangeInv, OutputInv, PeerInv, Discovering, Reporting, lanVars,
          hostVars, givenVars, histVars
  <1>1. CASE ResolveFails \/ ResolveGiven \/ ResolveCached \/ ResolveUnknown
    BY <1>1 DEF ResolveFails, ResolveGiven, Run, ResolveCached, ResolveUnknown
  <1>2. CASE Forget \/ ListenerRuns
    BY <1>2 DEF Forget, Listen, ListenerRuns, WindowEnds
  <1>3. CASE Discovered \/ NotDiscovered
    BY <1>3 DEF Discovered, Announced, Run, NotDiscovered, ListenEnds
  <1>4. CASE Open \/ OpenFails
    BY <1>4 DEF Open, OpenFails, RunEnds
  <1>5. CASE Connect \/ ConnectFails
    BY <1>5, ConnectIsGenuine, ConnectErrorIsError DEF Connect, ConnectFails, RunEnds, Discarded
  <1>6. CASE Transfer \/ TransferFails
    BY <1>6 DEF Transfer, RunEnds, MayHaveApplied, TransferFails, Discarded
  <1>7. CASE Create \/ CreateFails \/ Write
    BY <1>7 DEF Create, CreateFails, RunEnds, Write
  <1>8. CASE CloseFile \/ WriteFails \/ Report
    BY <1>8 DEF CloseFile, RunEnds, WriteFails, Discarded, Report
  <1>9. CASE Decide \/ ContextDone
    BY <1>9 DEF Decide, Stale, staleAddressError, ContextDone
  <1>10. CASE UNCHANGED vars
    BY <1>10 DEF vars, lanVars, hostVars, givenVars, histVars
  <1> QED
    BY <1>1, <1>2, <1>3, <1>4, <1>5, <1>6, <1>7, <1>8, <1>9, <1>10 DEF Next, Step

\* Every step preserves what a discovery stands for.
LEMMA DiscoveryStep ==
    TypeOK /\ HostInv /\ ErrorInv /\ DiscoveryInv /\ [Next]_vars => DiscoveryInv'
  <1> SUFFICES ASSUME TypeOK, HostInv, ErrorInv, DiscoveryInv, [Next]_vars
               PROVE  DiscoveryInv'
    OBVIOUS
  <1> USE DEF TypeOK, HostInv, ErrorInv, DiscoveryInv, DiscoveryIsHonest, Discovering,
          Running, Hosts, lanVars, hostVars, givenVars, histVars
  <1>1. CASE ResolveFails \/ ResolveGiven \/ ResolveCached \/ ResolveUnknown
    BY <1>1 DEF ResolveFails, ResolveGiven, Run, ResolveCached, ResolveUnknown
  <1>2. CASE Forget \/ ListenerRuns
    BY <1>2 DEF Forget, Listen, ListenerRuns, WindowEnds
  <1>3. CASE Discovered \/ NotDiscovered
    BY <1>3 DEF Discovered, Announced, Run, NotDiscovered, ListenEnds
  <1>4. CASE Open \/ OpenFails
    BY <1>4 DEF Open, OpenFails, RunEnds
  <1>5. CASE Connect \/ ConnectFails
    BY <1>5, ConnectErrorIsError DEF Connect, ConnectFails, RunEnds, Discarded
  <1>6. CASE Transfer \/ TransferFails
    BY <1>6 DEF Transfer, RunEnds, MayHaveApplied, TransferFails, Discarded
  <1>7. CASE Create \/ CreateFails \/ Write
    BY <1>7 DEF Create, CreateFails, RunEnds, Write
  <1>8. CASE CloseFile \/ WriteFails \/ Report
    BY <1>8 DEF CloseFile, RunEnds, WriteFails, Discarded, Report
  <1>9. CASE Decide \/ ContextDone
    BY <1>9 DEF Decide, Stale, staleAddressError, ContextDone
  <1>10. CASE UNCHANGED vars
    BY <1>10 DEF vars, lanVars, hostVars, givenVars, histVars
  <1> QED
    BY <1>1, <1>2, <1>3, <1>4, <1>5, <1>6, <1>7, <1>8, <1>9, <1>10 DEF Next, Step

\* The inductive invariant holds in every reachable state.
THEOREM CommandInvariant == Spec => []IInv
  <1>1. IInv /\ [Next]_vars => IInv'
    BY TypeStep, HostStep, AttemptStep, ChangeStep, OutputStep, PeerStep, DiscoveryStep
       DEF IInv
  <1> QED
    BY InitEstablishes, <1>1, PTL DEF Spec

\* The variables keep their types, and a command connects at most twice.
THEOREM TypeCorrect == Spec => []TypeOK
  <1>1. IInv => TypeOK
    BY DEF IInv
  <1> QED
    BY <1>1, CommandInvariant, PTL

\* An upload or a removal is carried out at most once, though its first run may have
\* broken off half-way, in whatever state, at a stale address.
THEOREM ChangedOnce == Spec => []ChangedAtMostOnce
  <1>1. IInv => ChangedAtMostOnce
    BY DEF IInv, ChangeInv, ChangedAtMostOnce
  <1> QED
    BY <1>1, CommandInvariant, PTL

\* A command that is over has left no incomplete output, and a complete one exactly if it
\* succeeded or failed only to say so.
THEOREM WholeOutput == Spec => []OutputIsWhole
  <1>1. IInv => OutputIsWhole
    BY DEF IInv, Reporting, OutputInv, OutputIsWhole
  <1> QED
    BY <1>1, CommandInvariant, PTL

\* The second run finds nothing of the first, and what was there before stays.
THEOREM OwnOutput == Spec => OutputIsOwn
  <1>1. IInv /\ [Next]_vars => [/\ output = "foreign" => output' = "foreign"
                                /\ pc = "forget" => output # "partial"]_vars
    <2> SUFFICES ASSUME IInv, [Next]_vars, output = "foreign" PROVE output' = "foreign"
      BY DEF IInv, OutputInv
    <2>1. CASE ResolveFails \/ ResolveGiven \/ ResolveCached \/ ResolveUnknown
      BY <2>1 DEF ResolveFails, ResolveGiven, ResolveCached, ResolveUnknown
    <2>2. CASE Forget \/ ListenerRuns \/ Discovered \/ NotDiscovered
      BY <2>2 DEF Forget, ListenerRuns, Discovered, NotDiscovered
    <2>3. CASE Open \/ OpenFails \/ Connect \/ ConnectFails \/ Transfer \/ TransferFails
      BY <2>3 DEF Open, OpenFails, Connect, ConnectFails, Transfer, TransferFails, Discarded
    <2>4. CASE Create \/ CreateFails \/ Write \/ CloseFile \/ WriteFails
      BY <2>4 DEF IInv, OutputInv, Create, CreateFails, Write, CloseFile, WriteFails, Discarded
    <2>5. CASE Report \/ Decide \/ ContextDone
      BY <2>5 DEF Report, Decide, ContextDone
    <2>6. CASE UNCHANGED vars
      BY <2>6 DEF vars
    <2> QED
      BY <2>1, <2>2, <2>3, <2>4, <2>5, <2>6 DEF Next, Step
  <1> QED
    BY <1>1, CommandInvariant, PTL DEF Spec, OutputIsOwn

\* Only a holder of the printer's certificate is sent a change, has its files saved, or
\* makes the command a success.
THEOREM PrinterOnly == Spec => []OnlyThePrinter
  <1>1. IInv => OnlyThePrinter
    BY DEF IInv, Reporting, PeerInv, OutputInv, OnlyThePrinter
  <1> QED
    BY <1>1, CommandInvariant, PTL

\* An address is taken from the printer's own announcement, and the printer said not to
\* be found only when a whole window has passed without one.
THEOREM HonestDiscovery == Spec => []DiscoveryIsHonest
  <1>1. IInv => DiscoveryIsHonest
    BY DEF IInv, DiscoveryInv
  <1> QED
    BY <1>1, CommandInvariant, PTL
=============================================================================
