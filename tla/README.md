# A formal model of bambulab-go

TLA+ modules, TLC configurations and TLAPS proofs for the Go SDK and CLI in this
repository: an MQTT client for Bambu Lab printers, LAN file transfer over implicit FTPS,
the A1/P1 camera stream, and a command line tool around them. Every definition
translates code; `PROJECT.json` maps it to the lines it stands for.

To run: `tlc -config PrinterSession_safety.cfg MCPrinterSession`,
`tlapm PrinterProofs.tla`, and so on. Each cfg belongs to the module named
in the table of runs below.

## 1. The system

| Component | Code | State | Operations | Talks to |
|---|---|---|---|---|
| Printer session | `bambulab/mqtt.go` | mutex, `closed`/`done`, `seq`, `pending`, merged `state`, bounded `reports` and `errors`, `dropped` | `Request`, `Send`, `Close`, `Snapshot`; callbacks `receive`, `fail` | paho MQTT client, its callers |
| MQTT dial | `bambulab/mqtt.go` 85-142 | connect context, tokens, clean-up goroutine | `DialMQTT` | paho, the session's `fail` and `Close` |
| Status merge, decoding | `bambulab/mqtt.go` 227-249, `status.go` | none | `mergeObject`, `Snapshot`, `Status` | session |
| Command constructors | `bambulab/commands.go` | none | argument checks, then `Send` | session |
| Camera stream | `bambulab/camera.go`, `tls.go` 66-78 | connection, its deadline, mutex, position in the stream | `DialCamera`, `ReadFrame`, `Close`, cancellation hook | TLS connection |
| FTPS session | `bambulab/files.go` | sockets handed to the FTP library, mutex | `List`, `Upload`, `Download`, ... through `session` | jlaffaye/ftp |
| LAN discovery | `bambulab/discovery.go` | announcements seen in a window | `DiscoverPrinter(s)` | ssdp-go |
| TLS identity | `bambulab/tls.go` 25-62 | none | `PrinterTLSConfig` | crypto/x509 |
| Cloud client | `bambulab/client.go`, `cloud.go`, `models.go` | access token under a mutex | `LoginContext`, `RefreshToken`, endpoints | HTTP |
| CLI printer commands | `internal/cli/cli.go` 819-932, `state.go` | what was last shown | one command sent, and for `watch` and `state` the loops over `Reports`, `Errors`, `Done` | session |
| CLI file commands | `internal/cli/cli.go` 776-791, 934-1077 | address in use, local output | `ls`, `upload`, `download`, `snapshot`, `rm` with one retry | cache, discovery, FTPS, camera |
| CLI device cache | `internal/cli/device_cache.go` | a JSON file shared by processes | list, look up, remember, forget, clear | cloud, discovery |
| CLI credentials and cloud commands | `internal/cli/config.go`, `cli.go` 157-420, 792-817 | a JSON file shared by processes | load, save, remove, choice of region and token, the requests made with it | cloud |
| CLI login | `internal/cli/cli.go` 587-744, `cmd/bambulab/main.go` | the credential so far, terminal echo, a reading goroutine | `login`, `prompt`, exit | cloud, terminal, signals |

What is hard, and what makes each part correct:

- **Session.** Any number of callers, paho's dispatcher and its connection-lost
  goroutine share one mutex and bounded channels written without blocking. Correct:
  `done` is closed once; a request gets the reply to its own command and no other, even
  when it comes before the publish is confirmed; the snapshot is what every accepted
  report, dropped ones included, adds up to, objects in objects merged and everything else replaced; nothing happens after `Done`; a consumer of a
  lost session finds the reason; every call returns.
- **Dial.** A context ends while paho is still connecting, and a connection breaks
  while the subscription is awaited. Correct: no orphaned connection, no Printer
  handed out that is deaf without showing it.
- **Camera, FTPS.** Blocking I/O without contexts, interrupted from a hook in
  another goroutine. Correct: the hook never hits the next call, nothing stays open,
  everything returns from a silent printer.
- **Files shared by processes** (cache, credentials). Read, change and rename
  interleave, a process may be killed, a save may fail, the machine may lose power.
  Correct: the file is whole, what is used belongs to the account and region it is
  used for, and is fresh.
- **CLI commands.** Loops over several sources, with failures in an order nobody
  chooses, and addresses at which by now anybody may answer. Correct: they end, report what
  happened and why, leave whole files, change the printer at most once, and change no
  other printer.
- **Cloud.** An answer may be an error by its status, by an envelope under a good
  status, or by what is missing in it. Correct: only a granted token is saved, and a token goes to
  the region that issued it.

## 2. Modules

| Module | Models | Extends |
|---|---|---|
| `PrinterSession` | the Printer: `Request`, `Send`, `Close`, `receive`, `fail`, with the mutex explicit | |
| `RequestContract` | abstract: what `Request` promises, without mutex, queues or broker | |
| `PrinterContract` | the refinement mapping from session to contract | `PrinterSession` |
| `PrinterCommand` | `watch`, `state`, the controls and `command`, composed with the session they run on | `PrinterSession` |
| `DialMQTT` | the dial, its clean-up goroutine and the loss handler | |
| `DeviceCache` | the device cache under concurrent processes | |
| `Discovery` | the listener for one printer's announcement, its window and the caller's context | |
| `PrinterTLS` | the identity check over certificates | |
| `FileCommand` | one LAN command: resolve, discover, connect, check identity, transfer, write, retry | `Discovery`, `PrinterTLS` |
| `Camera` | the camera stream and `connectionContext` | |
| `FtpSession` | one FTPS session and the hook that closes its sockets | |
| `CloudClient` | what `do` makes of a response | |
| `Login` | one login with prompt, signals and process exit | `CloudClient` |
| `Credentials` | the credentials file under concurrent processes, kills, power loss, and where its token is sent | |
| `MCPrinterSession`, `MCPrinterCommand`, `MCDeviceCache`, `MCCredentials` | instances for TLC | |
| `PrinterProofs` | theorems about the session, its contract and the command on top of it | `PrinterContract`, `PrinterCommand` |
| `DialMQTTProofs`, `DeviceCacheProofs`, `FileCommandProofs`, `CameraProofs`, `FtpSessionProofs`, `LoginProofs`, `CredentialsProofs` | theorems about the module of that name | that module |

Conventions. A variable has the name of the field or local it stands for; `pc` is where a
goroutine or process stands. History variables, which only properties and the bounds
read, are marked as such. An action is one step between two points at which others can
interfere: a critical section that contains a `select` or a callback is split at
them, a run of local statements is not. "Mutant of X" definitions are X with a
plausible bug; no specification uses them, they show that the properties see the bug.

### How they correspond to the code

- `PrinterSession`: `Encode` is `encode`, then `Register` enters `pending`, `SendOpen`
  and `SendClosed` are the test of `closed` in `send`, `Publish` hands the message to
  paho, `Token...` are `waitToken`, `Await...` the three-way `select` of `Request` and
  the deferred delete follows on every path (`Leave`). `receive` takes the mutex
  (`ReceiveLock`), dispatches replies and merges the status (`ReceiveDispatch`), then
  offers the report or counts the drop (`ReceiveEnqueue`). `fail` is `FailLock`,
  `FailPush`, `FailClose`; `Close` is `fail(nil)` and `Disconnect`. A message is the
  set of replies its sections amount to plus its delta: for each field of `push_status`,
  that it is not mentioned (`Unsaid`), that it is an object and which of its members it
  gives, or that it is anything else (`Scalar`: a number, an array, null). A value of
  the status records what kind it has, the report that set it and, for an object, the report
  that last set each member. `MergeValue` is one level of `mergeObject`'s recursion,
  `MergeStatus` the other. `Document(n)` is the reference: the document the first `n`
  deltas add up to, found path by path from the history instead of step by step. Messages are dispatched one
  after the other: `DialMQTT` leaves paho's `OrderMatters` on. A message that
  arrives after `Disconnect` is still possible, which allows more than paho does.
  Sections have different keys, so the order of the map iteration does not matter.
- `PrinterCommand` adds the command's own state to the session's: the command's goroutine
  `Cli` is the only caller that acts and the only consumer, and its `select` takes any ready case. `Wires` names section and command
  each CLI command sends. A constructor refuses its arguments before anything is sent
  (`Refuse`); those `printer` itself checks before it dials are refused before the model begins.
  When the session was lost before the command is handed over, `Send` returns `ErrClosed` (`mqtt.go:278-280`)
  and `printer` and `state` return it as it is, with the reason still on `Errors` (`SendTooLate`).
- `DialMQTT`: the Connect attempt ends by itself, as the comment at `mqtt.go:123` says; a
  subscription may be unanswered for ever.
- `DeviceCache`: a list or an address is where and when it comes from. Each read of the
  file is one step and each save is two (temporary file, rename), with
  another process free to act between any two. The clock may be set to any time.
- `Discovery`: the visitor of `DiscoverPrinter` over announcements, which are right or wrong
  in each thing `parseAnnouncement` looks at. `over` is the end of the window with no
  regard to the caller's context, which is looked at afterwards (`ListenEnds`).
- `PrinterTLS`: a certificate is how its chain verifies and whether the expected serial is in
  its SAN and its Common Name; `VerifyConnection` is the code's decision, `Genuine` what
  the CA promises of such a certificate, and `FileCommand` compares the two by what is done to the printer.
- `FileCommand`: an address is given, cached or discovered. Who answers there
  is chosen anew for each run: nobody, with or without a refusal, something that is no TLS,
  or the holder of any certificate. An error is its class; `staleAddressError` recognises
  `*net.OpError` only, see the findings. What the command has done may still fail to be printed (`Report`): it
  then ends in an error and leaves a complete output.
- `Camera`: bytes are abstracted to where in a frame the stream stands.
- `FtpSession`: the FTP library's calls are the replies and transfers it waits for. A
  read may fail at any time, which covers the sockets' deadline; liveness does not
  rely on it.
- `Login`: typed text is blank or not. The goroutine `prompt` starts keeps running after a
  cancelled prompt and dies with the process. `--password-stdin` is read by `login` itself (`StdinRead`), which
  heeds no context. `granted` is the history of what the server gave out, `inTime` whether it did before a signal.
- `CloudClient`: a response is its status class, whether there is an error in its envelope, and
  what its body is; `Login` receives any of them.
- `Credentials`: a token is the region that issued it. `disk` is the set of contents the file
  may have after a loss of power: a rename adds to it, and adds a torn file when the
  data was not synced first. `Plan` is `run`'s table of what a command asks the cloud for:
  the list of printers, the API, and for a printer reached over the cloud the preference and the
  broker, whose password is the token.

## 3. Runs

| Run | Module, cfg | Question | Bounds |
|---|---|---|---|
| `session_safety` | `MCPrinterSession`, `PrinterSession_safety` | `TypeOK`, `PendingExact`, `DoneClosedOnce`, `ReplyIsOwn`, `NoLostReply`, `LossHasReason`, `NothingUncounted`, `ClosedFreezes`; `KeepsContract`: the session implements `RequestContract` | 2 callers, 2 commands encoded, 2 messages of 2 kinds with deltas, buffers of 1 |
| `session_liveness` | `MCPrinterSession`, `PrinterSession_liveness` | `EveryCallReturns` | 2 callers, 1 command, 2 messages |
| `command` | `MCPrinterCommand`, `PrinterCommand` | `ResultIsEarned`, `SnapshotIsComplete`, `OutputAdvances`, `NothingLeftOpen`, `CancelEnds` | `watch`, `state`, `command`; 2 messages of 4 kinds and malformed ones |
| `command_state` | `MCPrinterCommand`, `PrinterCommand_state` | finding: `StateShowsStatus` is violated | 2 messages of 2 kinds |
| `dial` | `DialMQTT`, `DialMQTT` | `AbandonedIsHandled`, `PrinterNotDeaf`, `NoOrphan` | 2 dials |
| `device_cache` | `MCDeviceCache`, `DeviceCache` | `TypeOK`, `ListIsOwnAndFresh`, `AddressIsOwnAndFresh` | 2 processes, 2 accounts, 1 printer, 3 clock readings, 2 commands |
| `file_command` | `FileCommand`, `FileCommand` | `ChangedAtMostOnce`, `OutputIsWhole`, `OutputIsOwn`, `OnlyThePrinter`, `DiscoveryIsHonest`, `CommandEnds` | one command, every certificate and host, every announcement |
| `file_stale` | `FileCommand`, `FileCommand_stale` | finding: `FailedIsRediscovered` is violated | as above |
| `camera` | `Camera`, `Camera` | `OpenIsAligned`, `DeadlineIsOwn`, `EveryReadReturns` | 2 readers, a dial |
| `ftp_session` | `FtpSession`, `FtpSession` | `CleanupIsFinal`, `NothingLeftOpen`, `NilMeansPerformed`, `SessionEnds` | one session |
| `login` | `Login`, `Login` | `OneReader`, `SavedIsGranted`, `EchoRestored`, `SignalEnds` | one login, unbounded attempts, every response |
| `credentials` | `MCCredentials`, `Credentials` | `TypeOK`, `TokenStaysInRegion` | 2 processes, 2 regions, unbounded commands |

Type invariants of the session, the cache and the credentials are in their runs, since there
they say something about the code: that the channels keep their capacity and that a file shared by
processes is whole. Those of the other modules only type the model.
`DeviceCache!NoTempLeft` and `Credentials!NoTempLeft` hold for every instance by their proofs and have no run.

Why the bounds are enough:

- Two callers and the two goroutines of paho give every pair of operations that can
  meet; the mutex admits one at a time, so a third caller adds waiters, not new
  steps. Two commands of one name are encoded, by either caller, so that old and new keys of the
  same command meet, and either may be answered twice or before it is sent.
- Buffers of one are full after one element: the second message is the dropped one, which is
  the case the drop properties are about, and it carries a field the first one also set.
- Two levels of nesting, one field and one member tell apart everything `mergeObject` does, since
  each level of the recursion treats every key alone and in the same way: the two
  messages are any two of an object with the member, an empty object, something that is no object
  (array, null), and nothing said of the field. `SnapshotIsComplete` is checked in `command`,
  whose messages are all of these, and not again in the larger `session_safety`.
- The CLI's commands differ for the session in the message they send, in whether a refusal
  comes after the dial, and in what follows the delivery: `watch` and `state` go on, and
  `command`, which can send anything and can be refused, stands for the controls.
- Two processes give the lost update and the returning file of the caches; the
  second account or region is the foreign one. TTLs of 2 and 1 over three clock readings
  have a fresh, a just expired and a future time for each. The starting cache or
  credentials file is any file earlier commands can have left, so a run of bounded
  length starts in the middle of a longer history.
- `Camera`, `FtpSession`, `Login`, `Credentials`, `FileCommand` and `DialMQTT` bound
  nothing but the number of actors: no action depends on a counter.

`CHECK_DEADLOCK FALSE` is set where the system really ends: the command, the dial, the
session or the process is over.

### Fairness

Weak fairness means that goroutines run, timers fire and a call on a closed
connection or a done context returns. Strong fairness is used for one thing
only, waiting for a mutex or a `select` case that comes and goes: Go's mutex hands itself to a
waiter that starves, and `select` chooses at random among ready cases. Nothing is
assumed of the printer, the broker, the cloud, the user or the consumers of the channels.
Three assumptions about the environment are made, each in its module: a context with a
timeout is done eventually, paho's connect attempt ends (`mqtt.go:123`), and an
HTTP request or `DialContext` heeds its context.

Reading the password of `--password-stdin` has no fairness: `io.ReadAll` (`cli.go:606`) ends when the input
does, and since `main` has captured the signals (`main.go:16`) a signal does not end it. `SignalEnds`
therefore promises an end from the moment a login is no longer waiting there.

### Findings

- `command_state`: `state` returns on the first message with a `print` section,
  be it the reply to another client's command, and then shows a status no report has
  filled (`internal/cli/state.go:36`; `README.md:63` promises the live run state).
- `file_stale`: `README.md:79-80` says a cached IP that fails to connect is
  rediscovered. `staleAddressError` (`cli.go:977`) looks for pointers to the three x509 errors
  with `errors.As`, but crypto/x509 returns them by value and `VerifyConnection`
  passes them on, so only `*net.OpError` is ever found. When the cached address by now
  belongs to another device the command fails with the certificate's error, nothing is
  rediscovered or forgotten, and the next command fails in the same way until the entry
  expires. The identity error of a legacy certificate (`tls.go:56-58`) is a plain
  `fmt.Errorf` and is not looked for at all. When the host at the cached address swallows packets
  the connect lasts until the command's own deadline, after which `ctx.Err()` rules the discovery out.

## 4. Proofs

TLC's runs are of small instances; the theorems hold for every value of the constants
that satisfies the modules' `ASSUME`s: any callers, commands, fields, messages and
buffer sizes; any processes, printers, accounts and TTLs; any regions. The
assumptions say only that the actors are different, that sizes are naturals, that
special values are not data, and that a message has each section once.

- **PrinterProofs, the session.** The invariant comes in layers, each preserved by a step that
  starts in the layers above: `TypeInv` (types, where a call has a key, the number of
  the report at hand), `MutexInv` (who is inside a critical section holds the
  mutex, and what is known there), `CloseInv` (who closed, and what is in the
  errors channel), `RequestInv` (keys are taken once, a registered request is in flight, its
  channel holds its own reply). The safety properties are not inductive without them:
  `DoneClosedOnce` needs that between `FailLock` and `FailClose` the session is open and
  the mutex held, and `ReplyIsOwn` that two requests never share a key, which needs
  that the numbers in use are at most `seq` and all different. `NothingAfterDone` proves the action property
  `ClosedFreezes` from the first two layers.
- **PrinterProofs, the snapshot.** `SnapshotInv` says that the status is the document of all accepted
  reports, or, between a report's acceptance and its merge, of all but that one. Its step is the
  lemma `MergeAdds`: one merge of a delta, top-down as `mergeObject` does it, turns the path-wise reference
  of a history into that of the history with one more report. It rests on lemmas about
  what the latest report to touch a path is, and on the well-foundedness of the natural
  numbers, which gives that there is one.
- **PrinterProofs, the contract.** `ImplementsContract`: the initial states of the session map to one of
  `RequestContract`, and each step to a step of it or to a stutter. `Register` is where a
  request asks, `ReceiveDispatch` where any number are answered, `FailClose` where the session shuts;
  `OutcomeInv` says that a request's verdict is known exactly while its deferred delete is due.
- **PrinterProofs, the command.** `CommandIsSession`: the composition only restricts the session, so
  that everything above holds of it. `ViewInv` (what is shown has been the status, what the command
  has seen is no newer than what was accepted) gives `OutputAdvances`; the status
  read at `Show` is that of all accepted reports by `SnapshotInv`. `StageInv` ties the command's step to what its
  goroutine does in the session, `SentInv` says what has been sent and confirmed by each step, and
  `EndInv` that before its own `Close` a command sees the session closed only by a loss: with `LossHasReason`
  this is why a command that has sent its message never ends in `Done` without a reason, and why the bare
  `ErrClosed` of one that has not leaves a reason on `Errors`. `ResultIsEarned` and `NothingLeftOpen` follow.
- **DialMQTTProofs.** `ConnectInv`: a client has a connection only once its connect has succeeded, which a dialer
  sees before it subscribes. `CleanupInv`: the goroutine belongs to a dial that has failed.
  `LossInv`: before a Printer is handed out, and after, it is closed by the loss alone, with the reason,
  and a connection that is gone has its handler running or done. `AbandonedInv`: what a
  failed dial leaves is up to the goroutine.
- **FileCommandProofs.** `OnlyGenuineVerifies`: `VerifyConnection` accepts exactly the genuine
  certificates, so a run that gets as far as the transfer is with the printer (`PeerInv`). `HostInv`, `ErrorInv`
  and `AttemptInv` say where an address is from and that there is one discovery, after an unknown address or
  a connection error at a cached one; `ChangeInv` that a second run begins only while nothing may have been
  changed; `OutputInv` where the output can be partial, and complete. `OwnOutput` proves the action property `OutputIsOwn`.
- **CameraProofs.** `MutexInv`, and `DialInv`: nobody reads before the dial has returned. `StreamInv`: an open stream
  inside a frame is being read, or closed, by the call that reads it. `DeadlineInv`: a call has a
  hook from `connectionContext` to its clean-up, and the connection's deadline is that of a call that has yet to
  clear it; the mutex makes that call the only one.
- **DeviceCacheProofs.** `IInv` is the types, that the file is consistent (every list and
  address is stamped with its own scope and time) and that the copy a process is
  about to save is. The two action properties follow: what is read is consistent, and
  the code's own test of the age does the rest. The invariant is about copies as well
  as the file because a save writes what was read several steps ago.
- **CredentialsProofs.** The file, every content the disk may still hold and every
  configuration a process has read pair a region with its own token; between
  the choice of the region and the rename the process's region is the token's; a
  renamed file was synced. That `disk` is part of the invariant is what makes it
  survive a loss of power.
- **FtpSessionProofs.** `HookInv`: the hook cannot get past the mutex while a connection that
  was in time is being handed out. `ConnInv`: an open connection is
  handed out or being dialed, and each is dialed once. `ErrInv`: `err` is set as soon as
  anything has failed.

- **LoginProofs.** `TokenIsGranted`: `do` gives a token for a response of a good status, without an error in its
  envelope, that has one, and for no other. `ReaderInv`: the goroutine outlives its prompt only
  when that was cancelled, and then `login` returns. `TokenInv`: nothing is a token, or saved, that was not granted.
  The context, once done, stays done: an interactive login that saves has seen it live after the answer.
  `EchoInv`: the echo is off only while a password is being read, in the prompt or late.

Every invariant, every action property and the refinement that the passing runs check is
a theorem; the inductive invariants that the proofs add were checked with TLC, on the runs' instances, before
they were proved. Only model-checked:

- Liveness: `EveryCallReturns`, `CancelEnds`, `NoOrphan`, `CommandEnds`, `EveryReadReturns`,
  `SessionEnds` and `SignalEnds`. They rest on fairness, hence on `ENABLED`, which is out of
  the prover's reach.
- The two findings, which are counterexamples.

## 5. Not modelled

- Objects below the second level of a status; `Status`, which decodes a snapshot into a table of
  field types (it succeeds or fails: `Show` and `ShowFails`); the models of `models.go`.
- The constructors of `commands.go` that no command of the CLI calls: each is a
  check of its arguments and the `Send` that `command` makes too. Flag parsing, formatting, and what is printed.
- The TLS handshake and the verification of a chain, which are crypto/x509's: `PrinterTLS` begins
  with their outcome. The rewriting of the passive address in `files.go` and everything about file
  contents.
- The client's token mutex, `SetAccessToken` and `RefreshToken`: they matter to
  several goroutines of an SDK user, each call is one critical section, and no command of the CLI makes
  two requests at a time. What the endpoints return.
- `DiscoverPrinters`, which collects until the window ends: `Discovery` has its listener, and
  `DeviceCache` takes any subset of the printers for its result.
- A kill in `FileCommand` (a partial output then stays, as for any program), a failing
  `os.Remove` of an incomplete output or a temporary file, a loss of power in `DeviceCache` (its file is not synced; `readDeviceCache` takes
  an unreadable one for an empty cache), a token or a server named on the
  command line in `Credentials`.
- `FileCommand` and `DeviceCache` are not composed: the first knows of the cache only whether it
  holds an address, which another process may have put there or taken away at any time before.
- The 64-bit sequence number's wrap-around.

## 6. Plan

The safety of every module is proved. What is left, in this order:

1. *Abstract specifications.* `RequestContract` says what `Request` promises; the same can be said of
   the shared files (a cache, or credentials, that are read and replaced whole, with the processes' reads
   and renames as the only steps) and of an operation that is cancelled from a hook
   (`Camera`, `FtpSession`), and the refinement proved step by step from the invariants there are.
2. *Exchange.* The theorems now cover what `session_safety` shows on an instance, so its run can
   give room to a composition of `FileCommand` with `DeviceCache`, so that the retry meets
   other processes, and to one of `DialMQTT` with `PrinterCommand`.
3. *Shorter proofs.* The layers of `PrinterProofs` go through the same case split of `Next`; frame lemmas such as
   `SameRequests`, `SameSnapshot` and `SameContract` can carry more of it.
