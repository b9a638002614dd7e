---------------------------- MODULE Credentials ----------------------------
(***************************************************************************)
(* The credentials file (internal/cli/config.go) and what Run does with it *)
(* (internal/cli/cli.go): login saves the token of a region, logout        *)
(* removes the file, every other command reads it and sends the token with *)
(* each of its requests: to the API, and as the password of cloud MQTT.    *)
(* The processes know nothing of each other and may be killed; the machine *)
(* may lose its power, after which the file is one of those that may have  *)
(* reached the disk.                                                       *)
(*                                                                         *)
(* A token is abstracted to the region that issued it.                     *)
(***************************************************************************)
EXTENDS Sequences

CONSTANTS
    Procs,     \* running CLI processes
    Regions,   \* china, global
    Default,   \* the region used when none is named
    NoRegion,  \* no region named, by the command or by the file
    NoToken,
    Missing,   \* no file
    Unusable,  \* a file loadConfig rejects: its mode, type or JSON
    Torn       \* a file cut short

Config   == [region : Regions \cup {NoRegion}, token : Regions \cup {NoToken}]
NoConfig == [region |-> NoRegion, token |-> NoToken]
Request  == [to : Regions, token : Regions, of : Regions \cup {NoRegion}]
NoRequest == [to |-> Default]

\* What the commands ask the cloud for, in order.  The list of bound printers serves
\* those that are about one of them; a printer reached over the cloud needs the
\* account's number, which comes with the preference, and then the broker.
Plan == [account |-> <<"api">>,
         devices |-> <<"bind">>,
         device  |-> <<"bind", "api">>,
         printer |-> <<"bind", "preference", "broker">>,
         files   |-> <<"bind">>]

\* Each endpoint of the API is one request, and so is a connect to the broker.
Asked == {"api", "bind", "preference", "broker"}

ASSUME CredentialsAssumption ==
    /\ Default \in Regions
    /\ NoRegion \notin Regions /\ NoToken \notin Regions
    /\ {Missing, Unusable, Torn} \cap Config = {} /\ Torn \notin {Missing, Unusable}

VARIABLES
    file,    \* the credentials file
    disk,    \* the contents it may have after a loss of power
    temp,    \* a process's temporary file
    pc,
    cmd,     \* the command a process runs
    region,  \* a.region
    cfg,     \* a.cfg
    todo,    \* the requests it has yet to make
    issued,  \* the token of the login's answer
    sent,    \* the request made with a saved token
    outcome  \* how the command ended

vars == <<file, disk, temp, pc, cmd, region, cfg, todo, issued, sent, outcome>>

Contents == Config \cup {Missing, Unusable}

\* The types.  In particular the file is absent or whole: neither a kill nor a loss of
\* power in the middle of a save tears it.
TypeOK ==
    /\ file \in Contents
    /\ disk \in SUBSET Contents
    /\ temp \in [Procs -> {"none", "created", "written", "synced"}]
    /\ pc \in [Procs -> {"idle", "stat", "read", "choose", "request", "login", "create", "write",
                         "sync", "rename", "remove", "killed"}]
    /\ cmd \in [Procs -> {"none", "login", "logout"} \cup DOMAIN Plan]
    /\ region \in [Procs -> Regions \cup {NoRegion}]
    /\ cfg \in [Procs -> Config]
    /\ todo \in [Procs -> Seq(Asked)]
    /\ issued \in [Procs -> Regions \cup {NoToken}]
    /\ sent \in [Procs -> Request \cup {NoRequest}]
    /\ outcome \in [Procs -> {"none", "ok", "error"}]

\* The token of c was issued by the region c names, if it names one.
OwnToken(c) == c.region = NoRegion \/ c.token \in {c.region, NoToken}

Init ==
    /\ file \in {Missing, Unusable} \cup {c \in Config : OwnToken(c)}
    /\ disk = {file}
    /\ temp = [p \in Procs |-> "none"]
    /\ pc = [p \in Procs |-> "idle"]
    /\ cmd = [p \in Procs |-> "none"]
    /\ region = [p \in Procs |-> NoRegion]
    /\ cfg = [p \in Procs |-> NoConfig]
    /\ todo = [p \in Procs |-> <<>>]
    /\ issued = [p \in Procs |-> NoToken]
    /\ sent = [p \in Procs |-> NoRequest]
    /\ outcome = [p \in Procs |-> "none"]

-----------------------------------------------------------------------------
(* Run *)

Goto(p, label) == pc' = [pc EXCEPT ![p] = label]

\* The command ends; its locals go, its outcome and its request stay to be looked at.
Ends(p, how) ==
    /\ Goto(p, "idle")
    /\ outcome' = [outcome EXCEPT ![p] = how]
    /\ region' = [region EXCEPT ![p] = NoRegion]
    /\ cfg' = [cfg EXCEPT ![p] = NoConfig]
    /\ todo' = [todo EXCEPT ![p] = <<>>]
    /\ issued' = [issued EXCEPT ![p] = NoToken]
    /\ UNCHANGED cmd

Locals == <<cmd, region, cfg, todo, issued, outcome>>

\* logout does not look into the file it removes.
Start(p, c, r) ==
    /\ pc[p] = "idle"
    /\ Goto(p, IF c = "logout" THEN "remove" ELSE "stat")
    /\ cmd' = [cmd EXCEPT ![p] = c]
    /\ region' = [region EXCEPT ![p] = r]
    /\ sent' = [sent EXCEPT ![p] = NoRequest]
    /\ outcome' = [outcome EXCEPT ![p] = "none"]
    /\ UNCHANGED <<file, disk, temp, cfg, todo, issued>>

\* loadConfig: the file's type and mode, then its contents, another file by now perhaps.
StatPasses(p) ==
    /\ pc[p] = "stat"
    /\ Goto(p, IF file = Missing THEN "choose" ELSE "read")
    /\ UNCHANGED <<file, disk, temp, Locals, sent>>

StatRejects(p) ==
    /\ pc[p] = "stat"
    /\ file = Unusable
    /\ Ends(p, "error")
    /\ UNCHANGED <<file, disk, temp, sent>>

ReadPasses(p) ==
    /\ pc[p] = "read"
    /\ file \in Config
    /\ cfg' = [cfg EXCEPT ![p] = file]
    /\ Goto(p, "choose")
    /\ UNCHANGED <<file, disk, temp, cmd, region, todo, issued, outcome, sent>>

ReadFails(p) ==
    /\ pc[p] = "read"
    /\ file \notin Config
    /\ Ends(p, "error")
    /\ UNCHANGED <<file, disk, temp, sent>>

\* The region named by the command, else by the file, else the default.
Chosen(p) ==
    IF region[p] # NoRegion THEN region[p]
    ELSE IF cfg[p].region # NoRegion THEN cfg[p].region ELSE Default

\* The saved token is used for a file without region and for the file's own.
Reusable(p) == cfg[p].region \in {NoRegion, Chosen(p)} /\ cfg[p].token # NoToken

Choose(p) ==
    /\ pc[p] = "choose"
    /\ region' = [region EXCEPT ![p] = Chosen(p)]
    /\ IF cmd[p] = "login"
       THEN Goto(p, "login") /\ UNCHANGED todo
       ELSE /\ Reusable(p)
            /\ Goto(p, "request")
            /\ todo' = [todo EXCEPT ![p] = Plan[cmd[p]]]
    /\ UNCHANGED <<file, disk, temp, cmd, cfg, issued, outcome, sent>>

\* No saved token to use: one named by the command is sent, or none is needed on the
\* LAN, or the command fails.
ChooseOther(p) ==
    /\ pc[p] = "choose"
    /\ cmd[p] \in DOMAIN Plan
    /\ \E how \in {"error", "ok"} : (how = "error" => ~Reusable(p)) /\ Ends(p, how)
    /\ UNCHANGED <<file, disk, temp, sent>>

\* The command goes on to its next request, or is through with them.
Proceed(p) ==
    IF Tail(todo[p]) = <<>>
    THEN \E how \in {"error", "ok"} : Ends(p, how)
    ELSE /\ todo' = [todo EXCEPT ![p] = Tail(@)]
         /\ UNCHANGED <<pc, cmd, region, cfg, issued, outcome>>

\* The saved token is sent to the region's server, which may refuse it; or the answer
\* is of no use.
Send(p) ==
    /\ pc[p] = "request"
    /\ sent' = [sent EXCEPT ![p] = [to |-> region[p], token |-> cfg[p].token, of |-> cfg[p].region]]
    /\ Proceed(p) \/ Ends(p, "error")
    /\ UNCHANGED <<file, disk, temp>>

\* The printer is named by the command, or the list of printers is in the cache.
ListKnown(p) ==
    /\ pc[p] = "request"
    /\ Head(todo[p]) = "bind"
    /\ Proceed(p)
    /\ UNCHANGED <<file, disk, temp, sent>>

\* Nothing is sent when the endpoint refuses its arguments, no printer is bound or
\* the context is done.
Refused(p) ==
    /\ pc[p] = "request"
    /\ Ends(p, "error")
    /\ UNCHANGED <<file, disk, temp, sent>>

\* A printer whose host is named is reached on the LAN.
DialLocal(p) ==
    /\ pc[p] = "request"
    /\ Head(todo[p]) = "preference"
    /\ \E how \in {"error", "ok"} : Ends(p, how)
    /\ UNCHANGED <<file, disk, temp, sent>>

LoginAnswered(p) ==
    /\ pc[p] = "login"
    /\ issued' = [issued EXCEPT ![p] = region[p]]
    /\ Goto(p, "create")
    /\ UNCHANGED <<file, disk, temp, cmd, region, cfg, todo, outcome, sent>>

LoginFails(p) ==
    /\ pc[p] = "login"
    /\ Ends(p, "error")
    /\ UNCHANGED <<file, disk, temp, sent>>

\* os.Remove, which a missing file does not fail; the device cache, which goes with it,
\* may yet fail to, and so may telling the user.
Remove(p) ==
    /\ pc[p] = "remove"
    /\ file' = Missing
    /\ disk' = disk \cup {Missing}
    /\ \E how \in {"error", "ok"} : Ends(p, how)
    /\ UNCHANGED <<temp, sent>>

\* The directory does not let the file go, or there is another one in its place.
RemoveFails(p) ==
    /\ pc[p] = "remove"
    /\ file # Missing
    /\ Ends(p, "error")
    /\ UNCHANGED <<file, disk, temp, sent>>

-----------------------------------------------------------------------------
(* saveConfig *)

CreateTemp(p) ==
    /\ pc[p] = "create"
    /\ temp' = [temp EXCEPT ![p] = "created"]
    /\ Goto(p, "write")
    /\ UNCHANGED <<file, disk, Locals, sent>>

\* Mutant of Write: the file is not synced.
WriteOnly(p) ==
    /\ pc[p] = "write"
    /\ temp' = [temp EXCEPT ![p] = "written"]
    /\ Goto(p, "rename")
    /\ UNCHANGED <<file, disk, Locals, sent>>

Write(p) ==
    /\ pc[p] = "write"
    /\ temp' = [temp EXCEPT ![p] = "written"]
    /\ Goto(p, "sync")
    /\ UNCHANGED <<file, disk, Locals, sent>>

Sync(p) ==
    /\ pc[p] = "sync"
    /\ temp' = [temp EXCEPT ![p] = "synced"]
    /\ Goto(p, "rename")
    /\ UNCHANGED <<file, disk, Locals, sent>>

\* A step of the save fails: the deferred os.Remove takes the temporary file away.
SaveFails(p) ==
    /\ pc[p] \in {"create", "write", "sync", "rename"}
    /\ temp' = [temp EXCEPT ![p] = "none"]
    /\ Ends(p, "error")
    /\ UNCHANGED <<file, disk, sent>>

\* Mutant of Saved: the region is the one read from the file.
SavedUnderOldRegion(p) == [region |-> cfg[p].region, token |-> issued[p]]

Saved(p) == [region |-> region[p], token |-> issued[p]]

\* The new file takes the place of the old one.  Before the directory is written back
\* a loss of power may bring the old one back, or find the new one's data missing.
Rename(p) ==
    /\ pc[p] = "rename"
    /\ file' = Saved(p)
    /\ disk' = disk \cup {IF temp[p] = "synced" THEN Saved(p) ELSE Torn}
    /\ temp' = [temp EXCEPT ![p] = "none"]
    /\ \E how \in {"error", "ok"} : Ends(p, how)   \* "error": telling the user failed
    /\ UNCHANGED sent

-----------------------------------------------------------------------------
(* The system around it *)

Stopped(P) ==
    /\ pc' = [p \in Procs |-> IF p \in P THEN "killed" ELSE pc[p]]
    /\ cmd' = [p \in Procs |-> IF p \in P THEN "none" ELSE cmd[p]]
    /\ region' = [p \in Procs |-> IF p \in P THEN NoRegion ELSE region[p]]
    /\ cfg' = [p \in Procs |-> IF p \in P THEN NoConfig ELSE cfg[p]]
    /\ todo' = [p \in Procs |-> IF p \in P THEN <<>> ELSE todo[p]]
    /\ issued' = [p \in Procs |-> IF p \in P THEN NoToken ELSE issued[p]]
    /\ sent' = [p \in Procs |-> IF p \in P THEN NoRequest ELSE sent[p]]
    /\ outcome' = [p \in Procs |-> IF p \in P THEN "none" ELSE outcome[p]]
    /\ UNCHANGED temp

Kill(p) == pc[p] \notin {"idle", "killed"} /\ Stopped({p}) /\ UNCHANGED <<file, disk>>

\* The user can start another command; a temporary file left behind stays unused.
Restart(p) ==
    /\ pc[p] = "killed"
    /\ temp' = [temp EXCEPT ![p] = "none"]
    /\ Goto(p, "idle")
    /\ UNCHANGED <<file, disk, Locals, sent>>

Flush == disk' = {file} /\ UNCHANGED <<file, temp, pc, Locals, sent>>

PowerLoss ==
    /\ file' \in disk
    /\ disk' = {file'}
    /\ Stopped(Procs)

RunStep(p) ==
    \/ \E c \in {"login", "logout"} \cup DOMAIN Plan, r \in Regions \cup {NoRegion} : Start(p, c, r)
    \/ StatPasses(p) \/ StatRejects(p) \/ ReadPasses(p) \/ ReadFails(p) \/ Choose(p)
    \/ ChooseOther(p) \/ Send(p) \/ ListKnown(p) \/ DialLocal(p)
    \/ Refused(p) \/ LoginAnswered(p) \/ LoginFails(p)
    \/ Remove(p) \/ RemoveFails(p)

SaveStep(p) == CreateTemp(p) \/ Write(p) \/ Sync(p) \/ SaveFails(p) \/ Rename(p)

Next == (\E p \in Procs : RunStep(p) \/ SaveStep(p) \/ Kill(p) \/ Restart(p)) \/ Flush \/ PowerLoss

Spec == Init /\ [][Next]_vars

-----------------------------------------------------------------------------
(* Properties *)

\* A saved token is sent only to the region that issued it, whichever region the
\* command names and whoever logs in or out meanwhile; a file that names no region,
\* which login never writes, is trusted for any.
TokenStaysInRegion ==
    \A p \in Procs : sent[p] # NoRequest => sent[p].to = sent[p].token \/ sent[p].of = NoRegion

\* A token stays behind in a temporary file only when its process was killed.
NoTempLeft == \A p \in Procs : pc[p] = "idle" => temp[p] = "none"
=============================================================================
