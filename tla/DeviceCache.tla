---------------------------- MODULE DeviceCache ----------------------------
(***************************************************************************)
(* The cache file of bound devices and LAN addresses                       *)
(* (internal/cli/device_cache.go), which CLI processes that know nothing   *)
(* of each other read, rewrite and remove: the commands that list the      *)
(* account's devices, devices itself, the LAN commands and logout.         *)
(*                                                                         *)
(* Data is abstracted to where it comes from: a device list is the account *)
(* scope (token, region, API server) it was fetched under and the time, an *)
(* address the printer, the scope and the time it was recorded.  A save    *)
(* writes a temporary file and renames it; a process may crash anywhere.   *)
(***************************************************************************)
EXTENDS Integers, FiniteSets

CONSTANTS
    Procs,       \* running CLI processes
    Serials,     \* printers
    Scopes,      \* account scopes
    NoScope,     \* the account scope of a process that has ended
    Missing,     \* no cache file
    Unusable,    \* a file readDeviceCache rejects: its mode, type or JSON
    Torn,        \* a file cut short
    ListTTL,     \* deviceListTTL
    IPTTL,       \* deviceIPTTL
    MaxTime,     \* bound: readings of the wall clock
    MaxCommands  \* bound: commands started

Times     == 0..MaxTime
Zero      == -ListTTL - IPTTL   \* the zero time.Time: older than either TTL
List      == [scope : Scopes, at : Times]
Address   == [serial : Serials, scope : Scopes, at : Times]
NoList    == [at |-> Zero]
NoAddress == [at |-> Zero]
NoCopy    == [at |-> Zero]
NoIP      == [address |-> NoAddress, seenAt |-> Zero]
Entry     == [address : Address, seenAt : Times] \cup {NoIP}
Cache     == [scope : Scopes, updatedAt : Times \cup {Zero}, devices : List \cup {NoList},
              ips : [Serials -> Entry]]

Unreadable == {Missing, Unusable, Torn}

ASSUME CacheAssumption ==
    /\ ListTTL \in Nat \ {0} /\ IPTTL \in Nat \ {0}
    /\ MaxTime \in Nat /\ MaxCommands \in Nat
    /\ NoScope \notin Scopes /\ Unreadable \cap Cache = {} /\ Torn \notin {Missing, Unusable}

VARIABLES
    now,      \* the wall clock, which may be set to any time
    file,     \* the cache file
    temp,     \* whether a process's temporary file exists
    pc,
    cmd,      \* the command a process runs (locals are cleared when it ends)
    scope,    \* its account scope
    copy,     \* the cache it has read and is about to save
    after,    \* where it goes on after the save
    list,     \* the device list it uses
    todo,     \* printers it looks up
    missing,  \* printers it found no usable address for
    found,    \* printers discovered and not yet remembered
    used,     \* the cached address it uses last
    started   \* history: commands started

vars == <<now, file, temp, pc, cmd, scope, copy, after, list, todo, missing, found, used, started>>

Empty(s) == [scope |-> s, updatedAt |-> Zero, devices |-> NoList,
             ips |-> [x \in Serials |-> NoIP]]

\* The types; in particular the file is absent or a complete JSON document unless
\* it was unusable from the start: a crash in the middle of a save never tears it.
TypeOK ==
    /\ now \in Times
    /\ file \in Cache \cup {Missing, Unusable}
    /\ temp \in [Procs -> BOOLEAN]
    /\ pc \in [Procs -> {"idle", "crashed", "list", "cloud", "save", "rename", "lookup", "forget",
                         "discover", "remember", "connect", "logout"}]
    /\ cmd \in [Procs -> {"none", "status", "devices", "file", "logout"}]
    /\ scope \in [Procs -> Scopes \cup {NoScope}]
    /\ copy \in [Procs -> Cache \cup {NoCopy}]
    /\ after \in [Procs -> {"none", "lookup", "discover", "remember"}]
    /\ list \in [Procs -> List \cup {NoList}]
    /\ {todo, missing, found} \subseteq [Procs -> SUBSET Serials]
    /\ used \in [Procs -> Address \cup {NoAddress}]
    /\ started \in 0..MaxCommands

\* Every list and address in c is stamped with its time and is c's own account's.
Consistent(c) ==
    /\ c.devices # NoList => c.devices = [scope |-> c.scope, at |-> c.updatedAt]
    /\ \A s \in Serials : c.ips[s] # NoIP =>
           c.ips[s].address = [serial |-> s, scope |-> c.scope, at |-> c.ips[s].seenAt]

\* The file is what earlier commands have left.
Init ==
    /\ now \in Times
    /\ file \in {Missing, Unusable} \cup {c \in Cache : Consistent(c)}
    /\ temp = [p \in Procs |-> FALSE]
    /\ pc = [p \in Procs |-> "idle"]
    /\ cmd = [p \in Procs |-> "none"]
    /\ scope = [p \in Procs |-> NoScope]
    /\ copy = [p \in Procs |-> NoCopy]
    /\ after = [p \in Procs |-> "none"]
    /\ list = [p \in Procs |-> NoList]
    /\ todo = [p \in Procs |-> {}]
    /\ missing = [p \in Procs |-> {}]
    /\ found = [p \in Procs |-> {}]
    /\ used = [p \in Procs |-> NoAddress]
    /\ started = 0

-----------------------------------------------------------------------------
(* Reading and saving the file *)

Goto(p, label) == pc' = [pc EXCEPT ![p] = label]

\* The process is gone, and its locals with it.
Ends(p, label) ==
    /\ Goto(p, label)
    /\ cmd' = [cmd EXCEPT ![p] = "none"]
    /\ scope' = [scope EXCEPT ![p] = NoScope]
    /\ copy' = [copy EXCEPT ![p] = NoCopy]
    /\ after' = [after EXCEPT ![p] = "none"]
    /\ list' = [list EXCEPT ![p] = NoList]
    /\ todo' = [todo EXCEPT ![p] = {}]
    /\ missing' = [missing EXCEPT ![p] = {}]
    /\ found' = [found EXCEPT ![p] = {}]
    /\ used' = [used EXCEPT ![p] = NoAddress]
    /\ UNCHANGED <<now, started>>

\* Mutant of readDeviceCache: the scope is not compared.
readUnscoped(p) == IF file \in Unreadable THEN Empty(scope[p]) ELSE file

\* A file that cannot be used, or is another account's, reads as an empty cache.
readDeviceCache(p) ==
    IF file \in Unreadable \/ file.scope # scope[p] THEN Empty(scope[p]) ELSE file

\* The process goes on to save c, then continues at next.
Save(p, c, next) ==
    /\ copy' = [copy EXCEPT ![p] = c]
    /\ after' = [after EXCEPT ![p] = next]
    /\ Goto(p, "save")

\* Mutant of SaveWrites: the file is written in place.
SaveWritesInPlace(p) ==
    /\ pc[p] = "save"
    /\ file' = Torn
    /\ temp' = [temp EXCEPT ![p] = TRUE]
    /\ Goto(p, "rename")
    /\ UNCHANGED <<now, cmd, scope, copy, after, list, todo, missing, found, used, started>>

\* saveDeviceCache: the temporary file is created and, perhaps in part, written.
SaveWrites(p) ==
    /\ pc[p] = "save"
    /\ temp' = [temp EXCEPT ![p] = TRUE]
    /\ Goto(p, "rename")
    /\ UNCHANGED <<now, file, cmd, scope, copy, after, list, todo, missing, found, used, started>>

\* The error of a save is ignored by its callers.
SaveEnds(p) ==
    /\ Goto(p, after[p])
    /\ copy' = [copy EXCEPT ![p] = NoCopy]
    /\ after' = [after EXCEPT ![p] = "none"]
    /\ UNCHANGED <<now, cmd, scope, list, todo, missing, found, used, started>>

\* Any step of a save may fail; the temporary file is removed.
SaveFails(p) ==
    /\ pc[p] \in {"save", "rename"}
    /\ SaveEnds(p)
    /\ temp' = [temp EXCEPT ![p] = FALSE]
    /\ UNCHANGED file

Rename(p) ==
    /\ pc[p] = "rename"
    /\ SaveEnds(p)
    /\ file' = copy[p]
    /\ temp' = [temp EXCEPT ![p] = FALSE]

-----------------------------------------------------------------------------
(* boundDevices *)

ListFresh(c) == c.devices # NoList /\ now - c.updatedAt < ListTTL /\ now - c.updatedAt >= 0

ListCached(p) ==
    LET c == readDeviceCache(p) IN
    /\ pc[p] = "list"
    /\ ListFresh(c)
    /\ list' = [list EXCEPT ![p] = c.devices]
    /\ Goto(p, "lookup")
    /\ UNCHANGED <<now, file, temp, cmd, scope, copy, after, todo, missing, found, used, started>>

\* The copy read here is what will be saved with the answer of the cloud.
ListExpired(p) ==
    LET c == readDeviceCache(p) IN
    /\ pc[p] = "list"
    /\ ~ListFresh(c)
    /\ copy' = [copy EXCEPT ![p] = c]
    /\ Goto(p, "cloud")
    /\ UNCHANGED <<now, file, temp, cmd, scope, after, list, todo, missing, found, used, started>>

CloudFails(p) ==
    /\ pc[p] = "cloud"
    /\ Ends(p, "idle")
    /\ UNCHANGED <<file, temp>>

CloudAnswers(p) ==
    LET devices == [scope |-> scope[p], at |-> now] IN
    /\ pc[p] = "cloud"
    /\ list' = [list EXCEPT ![p] = devices]
    /\ Save(p, [copy[p] EXCEPT !.devices = devices, !.updatedAt = now], "lookup")
    /\ UNCHANGED <<now, file, temp, cmd, scope, todo, missing, found, used, started>>

-----------------------------------------------------------------------------
(* Addresses *)

IPFresh(e) == e # NoIP /\ now - e.seenAt >= 0 /\ now - e.seenAt < IPTTL

\* cachedPrinterIP of one printer: the file is read anew for each.
LookupHit(p, s) ==
    LET e == readDeviceCache(p).ips[s] IN
    /\ pc[p] = "lookup"
    /\ s \in todo[p]
    /\ IPFresh(e)
    /\ used' = [used EXCEPT ![p] = e.address]
    /\ todo' = [todo EXCEPT ![p] = @ \ {s}]
    /\ UNCHANGED <<now, file, temp, pc, cmd, scope, copy, after, list, missing, found, started>>

LookupMiss(p, s) ==
    /\ pc[p] = "lookup"
    /\ s \in todo[p]
    /\ ~IPFresh(readDeviceCache(p).ips[s])
    /\ missing' = [missing EXCEPT ![p] = @ \cup {s}]
    /\ todo' = [todo EXCEPT ![p] = @ \ {s}]
    /\ UNCHANGED <<now, file, temp, pc, cmd, scope, copy, after, list, found, used, started>>

\* devices discovers what is missing; a LAN command refreshes its printer's
\* address when there is none, and connects when there is.  No step reads the
\* list again.
LookupNothingMissing(p) ==
    /\ pc[p] = "lookup"
    /\ todo[p] = {} /\ missing[p] = {}
    /\ IF cmd[p] = "file"
       THEN /\ Goto(p, "connect")
            /\ list' = [list EXCEPT ![p] = NoList]
            /\ UNCHANGED <<now, cmd, scope, copy, after, todo, missing, found, used, started>>
       ELSE Ends(p, "idle")
    /\ UNCHANGED <<file, temp>>

LookupMissing(p) ==
    /\ pc[p] = "lookup"
    /\ todo[p] = {} /\ missing[p] # {}
    /\ Goto(p, IF cmd[p] = "file" THEN "forget" ELSE "discover")
    /\ list' = [list EXCEPT ![p] = NoList]
    /\ UNCHANGED <<now, file, temp, cmd, scope, copy, after, todo, missing, found, used, started>>

\* refreshPrinterIP begins with forgetPrinterIP.
Forget(p) ==
    /\ pc[p] = "forget"
    /\ Save(p, [readDeviceCache(p) EXCEPT
                  !.ips = [s \in Serials |-> IF s \in missing[p] THEN NoIP ELSE @[s]]],
            "discover")
    /\ UNCHANGED <<now, file, temp, cmd, scope, list, todo, missing, found, used, started>>

\* Discovery hears some of the printers it waits for.
Discover(p) ==
    /\ pc[p] = "discover"
    /\ \E heard \in SUBSET missing[p] : found' = [found EXCEPT ![p] = heard]
    /\ missing' = [missing EXCEPT ![p] = {}]
    /\ Goto(p, "remember")
    /\ UNCHANGED <<now, file, temp, cmd, scope, copy, after, list, todo, used, started>>

\* Mutant of Remember: saving an address renews the time of the list.
RememberRenewing(p, s) ==
    LET address == [serial |-> s, scope |-> scope[p], at |-> now] IN
    /\ pc[p] = "remember"
    /\ s \in found[p]
    /\ Save(p, [readDeviceCache(p) EXCEPT !.ips[s] = [address |-> address, seenAt |-> now],
                                          !.updatedAt = now],
            "remember")
    /\ found' = [found EXCEPT ![p] = @ \ {s}]
    /\ UNCHANGED <<now, file, temp, cmd, scope, list, todo, missing, used, started>>

\* rememberPrinterIP
Remember(p, s) ==
    LET address == [serial |-> s, scope |-> scope[p], at |-> now] IN
    /\ pc[p] = "remember"
    /\ s \in found[p]
    /\ Save(p, [readDeviceCache(p) EXCEPT !.ips[s] = [address |-> address, seenAt |-> now]],
            "remember")
    /\ found' = [found EXCEPT ![p] = @ \ {s}]
    /\ UNCHANGED <<now, file, temp, cmd, scope, list, todo, missing, used, started>>

RememberDone(p) ==
    /\ pc[p] = "remember"
    /\ found[p] = {}
    /\ Ends(p, "idle")
    /\ UNCHANGED <<file, temp>>

\* A cached address that fails to connect is refreshed.
Connects(p) ==
    /\ pc[p] = "connect"
    /\ Ends(p, "idle")
    /\ UNCHANGED <<file, temp>>

ConnectStale(p) ==
    /\ pc[p] = "connect"
    /\ missing' = [missing EXCEPT ![p] = {used[p].serial}]
    /\ used' = [used EXCEPT ![p] = NoAddress]
    /\ Goto(p, "forget")
    /\ UNCHANGED <<now, file, temp, cmd, scope, copy, after, list, todo, found, started>>

-----------------------------------------------------------------------------
(* Commands *)

\* clearDeviceCache; a file that is missing already is no error.
LogoutClears(p) ==
    /\ pc[p] = "logout"
    /\ file' \in {Missing, file}
    /\ Ends(p, "idle")
    /\ UNCHANGED temp

\* A new process: devices shows every printer's address, a LAN command looks for
\* its own printer's, with or without the device list, status needs the list only.
Start(p) ==
    /\ pc[p] \in {"idle", "crashed"}
    /\ started < MaxCommands
    /\ started' = started + 1
    /\ \/ /\ cmd' = [cmd EXCEPT ![p] = "logout"]
          /\ Goto(p, "logout")
          /\ UNCHANGED todo
       \/ \E c \in {"status", "devices"} :
          /\ cmd' = [cmd EXCEPT ![p] = c]
          /\ Goto(p, "list")
          /\ todo' = [todo EXCEPT ![p] = IF c = "devices" THEN Serials ELSE {}]
       \/ \E s \in Serials, label \in {"list", "lookup"} :
          /\ cmd' = [cmd EXCEPT ![p] = "file"]
          /\ Goto(p, label)
          /\ todo' = [todo EXCEPT ![p] = {s}]
    /\ \E s \in Scopes : scope' = [scope EXCEPT ![p] = s]
    /\ temp' = [temp EXCEPT ![p] = FALSE]
    /\ UNCHANGED <<now, file, copy, after, list, missing, found, used>>

\* The process is killed: what it was about to do is lost.
Crash(p) ==
    /\ pc[p] \notin {"idle", "crashed"}
    /\ Ends(p, "crashed")
    /\ UNCHANGED <<file, temp>>

ClockMoves ==
    /\ now' \in Times \ {now}
    /\ UNCHANGED <<file, temp, pc, cmd, scope, copy, after, list, todo, missing, found, used,
                   started>>

ProcNext(p) ==
    \/ Start(p) \/ Crash(p)
    \/ ListCached(p) \/ ListExpired(p) \/ CloudFails(p) \/ CloudAnswers(p)
    \/ SaveWrites(p) \/ SaveFails(p) \/ Rename(p)
    \/ \E s \in Serials : LookupHit(p, s) \/ LookupMiss(p, s) \/ Remember(p, s)
    \/ LookupNothingMissing(p) \/ LookupMissing(p) \/ Forget(p) \/ Discover(p) \/ RememberDone(p)
    \/ Connects(p) \/ ConnectStale(p) \/ LogoutClears(p)

Next == ClockMoves \/ \E p \in Procs : ProcNext(p)

Spec == Init /\ [][Next]_vars

-----------------------------------------------------------------------------
(* Properties *)

\* A device list, and the access codes in it, is used only under the account it
\* was fetched for and while the clock shows less than an hour since, whatever
\* other accounts' processes read, save, remove or lose meanwhile.
ListIsOwnAndFresh ==
    [][\A p \in Procs : list'[p] # list[p] /\ list'[p] # NoList =>
          /\ list'[p].scope = scope[p]
          /\ now - list'[p].at \in 0..(ListTTL - 1)]_vars

\* An address from the cache is the right printer's, was recorded under the same
\* account, and by the clock less than fifteen minutes ago.
AddressIsOwnAndFresh ==
    [][\A p \in Procs : used'[p] # used[p] /\ used'[p] # NoAddress =>
          /\ used'[p].scope = scope[p]
          /\ used'[p].serial \in todo[p] \ todo'[p]
          /\ now - used'[p].at \in 0..(IPTTL - 1)]_vars

\* Only a crash leaves a temporary file behind: a command that ends, also after
\* a failed save, has removed its own.
NoTempLeft == \A p \in Procs : pc[p] = "idle" => ~temp[p]
=============================================================================
