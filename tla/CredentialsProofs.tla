------------------------- MODULE CredentialsProofs -------------------------
(* Proofs about Credentials: the file is whole and tokens keep to their    *)
(* region for every number of processes and every set of regions.          *)
EXTENDS Credentials, TLAPS

Saving == {"create", "write", "sync", "rename"}

\* Whatever is, or may be, in the file names the region its token is from.
FileInv ==
    /\ file \in Config => OwnToken(file)
    /\ \A c \in disk : c \in Config => OwnToken(c)

\* So does what a process has read; the region it has chosen fits what it sends or saves.
RegionInv ==
    \A p \in Procs :
        /\ OwnToken(cfg[p])
        /\ pc[p] \in {"request", "login"} \cup Saving => region[p] \in Regions
        /\ pc[p] = "request" => Reusable(p) /\ todo[p] # <<>>
        /\ pc[p] \in Saving => issued[p] = region[p]

\* A temporary file exists only during a save, and is synced before it is renamed.
TempInv ==
    \A p \in Procs :
        /\ pc[p] \notin {"write", "sync", "rename", "killed"} => temp[p] = "none"
        /\ pc[p] = "rename" => temp[p] = "synced"

\* Who reads the credentials has a command that needs them.
CommandInv ==
    \A p \in Procs :
        pc[p] \in {"stat", "read", "choose"} => cmd[p] \in {"login"} \cup DOMAIN Plan

IInv == TypeOK /\ FileInv /\ RegionInv /\ TempInv /\ CommandInv /\ TokenStaysInRegion

\* The inductive invariant holds initially.
LEMMA InitEstablishes == Init => IInv
<1> SUFFICES ASSUME Init PROVE IInv
  OBVIOUS
<1> USE CredentialsAssumption DEF Init
<1>1. TypeOK
  BY DEF TypeOK, Contents, Config, NoConfig, NoRequest
<1>2. FileInv
  BY DEF FileInv
<1>3. RegionInv
  BY DEF RegionInv, OwnToken, NoConfig, Saving
<1>4. TempInv /\ CommandInv /\ TokenStaysInRegion
  BY DEF TempInv, CommandInv, TokenStaysInRegion
<1>5. QED BY <1>1, <1>2, <1>3, <1>4 DEF IInv

\* The region Chosen yields is a region.
LEMMA ChosenIsRegion == ASSUME TypeOK, NEW p \in Procs PROVE Chosen(p) \in Regions
  BY CredentialsAssumption DEF TypeOK, Chosen, Config

\* A command that ends without touching the file preserves the invariant.
LEMMA EndsPreserves ==
    ASSUME IInv, NEW p \in Procs, NEW how \in {"error", "ok"}, Ends(p, how),
           pc[p] \in {"stat", "read", "choose", "request", "login", "remove"},
           UNCHANGED <<file, disk, temp, sent>>
    PROVE  IInv'
<1> USE DEF IInv, TypeOK, FileInv, RegionInv, TempInv, CommandInv, TokenStaysInRegion,
        Goto, Saving
<1>1. TypeOK'
  BY DEF Ends, NoConfig, Config
<1>2. FileInv' /\ TempInv' /\ CommandInv' /\ TokenStaysInRegion'
  BY DEF Ends
<1>3. RegionInv'
  BY DEF Ends, Reusable, Chosen, NoConfig, OwnToken
<1>4. QED BY <1>1, <1>2, <1>3

\* A plan is a sequence of requests, and not empty.
LEMMA PlanType ==
    ASSUME NEW c \in DOMAIN Plan PROVE c # "none" /\ Plan[c] \in Seq(Asked) /\ Plan[c] # <<>>
<1>1. c \in {"account", "devices", "device", "printer", "files"}
  BY DEF Plan
<1>2. CASE c = "account"
  <2>1. Plan[c] = <<"api">>
    BY <1>2 DEF Plan
  <2>2. QED BY <1>2, <2>1 DEF Asked
<1>3. CASE c = "devices" \/ c = "files"
  <2>1. Plan[c] = <<"bind">>
    BY <1>3 DEF Plan
  <2>2. QED BY <1>3, <2>1 DEF Asked
<1>4. CASE c = "device"
  <2>1. Plan[c] = <<"bind", "api">>
    BY <1>4 DEF Plan
  <2>2. QED BY <1>4, <2>1 DEF Asked
<1>5. CASE c = "printer"
  <2>1. Plan[c] = <<"bind", "preference", "broker">>
    BY <1>5 DEF Plan
  <2>2. QED BY <1>5, <2>1 DEF Asked
<1>6. QED BY <1>1, <1>2, <1>3, <1>4, <1>5

\* Going on to the next request, with or without having made this one, preserves
\* everything but what is said of the request made.
LEMMA ProceedPreserves ==
    ASSUME IInv, NEW p \in Procs, Proceed(p) \/ Ends(p, "error"), pc[p] = "request",
           UNCHANGED <<file, disk, temp>>,
           sent' \in [Procs -> Request \cup {NoRequest}], TokenStaysInRegion'
    PROVE  IInv'
<1> USE DEF IInv, TypeOK, FileInv, RegionInv, TempInv, CommandInv, Goto, Saving
<1>1. ASSUME NEW how \in {"error", "ok"}, Ends(p, how) PROVE IInv'
  <2>1. TypeOK'
    BY <1>1 DEF Ends, NoConfig, Config
  <2>2. FileInv' /\ TempInv' /\ CommandInv'
    BY <1>1 DEF Ends
  <2>3. RegionInv'
    BY <1>1 DEF Ends, Reusable, Chosen, NoConfig, OwnToken
  <2>4. QED BY <2>1, <2>2, <2>3
<1>2. ASSUME Tail(todo[p]) # <<>>, todo' = [todo EXCEPT ![p] = Tail(@)],
             UNCHANGED <<pc, cmd, region, cfg, issued, outcome>>
      PROVE  IInv'
  <2>1. todo[p] \in Seq(Asked) /\ todo[p] # <<>>
    OBVIOUS
  <2>2. Tail(todo[p]) \in Seq(Asked)
    BY <2>1
  <2>3. TypeOK'
    BY <1>2, <2>2
  <2>4. FileInv' /\ TempInv' /\ CommandInv'
    BY <1>2
  <2>5. RegionInv'
    BY <1>2 DEF Reusable, Chosen, OwnToken
  <2>6. QED BY <2>3, <2>4, <2>5
<1>3. QED BY <1>1, <1>2 DEF Proceed

\* A step of Run preserves the invariant.
LEMMA RunPreserves == ASSUME IInv, NEW p \in Procs, RunStep(p) PROVE IInv'
<1> USE CredentialsAssumption DEF IInv, TypeOK, FileInv, RegionInv, TempInv, CommandInv,
        TokenStaysInRegion, Locals, Goto, Saving
<1>1. ASSUME NEW c \in {"login", "logout"} \cup DOMAIN Plan, NEW r \in Regions \cup {NoRegion}, Start(p, c, r)
      PROVE  IInv'
  <2>1. c # "none"
    BY <1>1, PlanType
  <2>2. TypeOK' /\ FileInv' /\ TempInv' /\ CommandInv'
    BY <1>1 DEF Start
  <2>3. RegionInv'
    BY <1>1 DEF Start, Reusable, Chosen
  <2>4. TokenStaysInRegion'
    BY <1>1, <2>1 DEF Start
  <2>5. QED BY <2>2, <2>3, <2>4
<1>2. CASE StatPasses(p)
  BY <1>2 DEF StatPasses, Reusable, Chosen
<1>3. CASE StatRejects(p)
  BY <1>3, EndsPreserves DEF StatRejects
<1>4. CASE ReadPasses(p)
  BY <1>4 DEF ReadPasses, Reusable, Chosen
<1>5. CASE ReadFails(p)
  BY <1>5, EndsPreserves DEF ReadFails
<1>6. CASE Choose(p)
  <2>1. Chosen(p) \in Regions
    BY ChosenIsRegion
  <2>2. cmd[p] \in {"login"} \cup DOMAIN Plan
    BY <1>6 DEF Choose
  <2>3. /\ region' = [region EXCEPT ![p] = Chosen(p)]
        /\ UNCHANGED <<file, disk, temp, cmd, cfg, issued, outcome, sent>>
    BY <1>6 DEF Choose
  <2>4. pc[p] = "choose" /\ (pc' = [pc EXCEPT ![p] = "login"] \/ pc' = [pc EXCEPT ![p] = "request"])
    BY <1>6 DEF Choose
  <2>5. TypeOK'
    <3>1. todo' \in [Procs -> Seq(Asked)]
      BY <1>6, <2>2, PlanType DEF Choose
    <3>2. region' \in [Procs -> Regions \cup {NoRegion}]
      BY <2>1, <2>3
    <3>3. QED BY <2>3, <2>4, <3>1, <3>2
  <2>6. FileInv'
    BY <2>3
  <2>7. TempInv' /\ CommandInv'
    BY <2>3, <2>4
  <2>8. TokenStaysInRegion'
    BY <2>2, <2>3, <2>4
  <2>9. RegionInv'
    <3>1. ASSUME NEW q \in Procs, q # p
          PROVE  pc'[q] = pc[q] /\ region'[q] = region[q] /\ cfg'[q] = cfg[q]
                   /\ todo'[q] = todo[q] /\ issued'[q] = issued[q]
      BY <1>6, <3>1 DEF Choose
    <3>2. region'[p] = Chosen(p) /\ cfg'[p] = cfg[p] /\ pc'[p] \in {"login", "request"}
      BY <1>6 DEF Choose
    <3>3. pc'[p] = "request" => Reusable(p) /\ todo'[p] # <<>>
      BY <1>6, <2>2, PlanType DEF Choose
    <3>4. QED BY <2>1, <3>1, <3>2, <3>3 DEF Reusable, Chosen
  <2>10. QED BY <2>5, <2>6, <2>7, <2>8, <2>9
<1>7. CASE ChooseOther(p)
  BY <1>7, EndsPreserves DEF ChooseOther
<1>8. CASE Send(p)
  <2>1. cfg[p] \in Config /\ region[p] \in Regions /\ Reusable(p) /\ OwnToken(cfg[p])
    BY <1>8 DEF Send
  <2>2. sent' \in [Procs -> Request \cup {NoRequest}] /\ TokenStaysInRegion'
    BY <1>8, <2>1 DEF Send, Reusable, Chosen, OwnToken, Config, Request
  <2>3. QED BY <1>8, <2>2, ProceedPreserves DEF Send
<1>9. CASE LoginAnswered(p)
  BY <1>9 DEF LoginAnswered, Reusable, Chosen
<1>10. CASE LoginFails(p)
  BY <1>10, EndsPreserves DEF LoginFails
<1>11. CASE Remove(p)
  <2>1. PICK how \in {"error", "ok"} : Ends(p, how)
    BY <1>11 DEF Remove
  <2>2. QED BY <1>11, <2>1 DEF Remove, Ends, Reusable, Chosen, NoConfig, Config, OwnToken, Contents
<1>12. CASE ListKnown(p)
  BY <1>12, ProceedPreserves DEF ListKnown
<1>13. CASE DialLocal(p)
  BY <1>13, EndsPreserves DEF DialLocal
<1>14. CASE Refused(p)
  BY <1>14, EndsPreserves DEF Refused
<1>15. CASE RemoveFails(p)
  BY <1>15, EndsPreserves DEF RemoveFails
<1>16. QED
  BY <1>1, <1>2, <1>3, <1>4, <1>5, <1>6, <1>7, <1>8, <1>9, <1>10, <1>11, <1>12, <1>13, <1>14, <1>15
     DEF RunStep

\* A step of saveConfig preserves the invariant.
LEMMA SavePreserves == ASSUME IInv, NEW p \in Procs, SaveStep(p) PROVE IInv'
<1> USE CredentialsAssumption DEF IInv, TypeOK, FileInv, RegionInv, TempInv, CommandInv,
        TokenStaysInRegion, Locals, Goto, Saving
<1>1. CASE CreateTemp(p)
  BY <1>1 DEF CreateTemp, Reusable, Chosen
<1>2. CASE Write(p)
  BY <1>2 DEF Write, Reusable, Chosen
<1>3. CASE Sync(p)
  BY <1>3 DEF Sync, Reusable, Chosen
<1>4. CASE SaveFails(p)
  <2>1. TypeOK'
    BY <1>4 DEF SaveFails, Ends, NoConfig, Config
  <2>2. RegionInv'
    BY <1>4 DEF SaveFails, Ends, Reusable, Chosen, NoConfig, OwnToken
  <2>3. FileInv' /\ TempInv' /\ CommandInv' /\ TokenStaysInRegion'
    BY <1>4 DEF SaveFails, Ends
  <2>4. QED BY <2>1, <2>2, <2>3
<1>5. CASE Rename(p)
  <2>1. Saved(p) \in Config /\ OwnToken(Saved(p)) /\ temp[p] = "synced"
    BY <1>5 DEF Rename, Saved, Config, OwnToken
  <2>2. TypeOK'
    <3>1. file' \in Contents /\ disk' \in SUBSET Contents
      BY <1>5, <2>1 DEF Rename, Contents
    <3>2. QED BY <1>5, <3>1 DEF Rename, Ends, NoConfig, Config
  <2>3. FileInv'
    BY <1>5, <2>1 DEF Rename, Ends
  <2>4. RegionInv'
    <3>1. ASSUME NEW q \in Procs, q # p
          PROVE  pc'[q] = pc[q] /\ region'[q] = region[q] /\ cfg'[q] = cfg[q]
                   /\ todo'[q] = todo[q] /\ issued'[q] = issued[q]
      BY <1>5, <3>1 DEF Rename, Ends
    <3>2. pc'[p] = "idle" /\ OwnToken(cfg'[p])
      BY <1>5 DEF Rename, Ends, NoConfig, OwnToken
    <3>3. QED BY <3>1, <3>2 DEF Reusable, Chosen, OwnToken
  <2>5. TempInv' /\ CommandInv'
    BY <1>5, <2>1 DEF Rename, Ends
  <2>6. TokenStaysInRegion'
    BY <1>5 DEF Rename
  <2>7. QED BY <2>2, <2>3, <2>4, <2>5, <2>6
<1>6. QED BY <1>1, <1>2, <1>3, <1>4, <1>5 DEF SaveStep

\* Killing processes, by hand or by a loss of power, leaves nothing of them to break it.
LEMMA StopPreserves ==
    ASSUME IInv, NEW P \in SUBSET Procs, Stopped(P), file' \in Contents, disk' \in SUBSET Contents,
           FileInv'
    PROVE  IInv'
<1> USE CredentialsAssumption DEF IInv, Stopped
<1>1. TypeOK'
  BY DEF TypeOK, NoConfig, NoRequest, Config
<1>2. RegionInv'
  BY DEF RegionInv, Reusable, Chosen, NoConfig, OwnToken, Saving
<1>3. TempInv' /\ CommandInv' /\ TokenStaysInRegion'
  BY DEF TempInv, CommandInv, TokenStaysInRegion
<1>4. QED BY <1>1, <1>2, <1>3

\* Every step preserves the invariant.
LEMMA NextPreserves == IInv /\ [Next]_vars => IInv'
<1> SUFFICES ASSUME IInv, [Next]_vars PROVE IInv'
  OBVIOUS
<1>1. ASSUME NEW p \in Procs, RunStep(p) PROVE IInv'
  BY <1>1, RunPreserves
<1>2. ASSUME NEW p \in Procs, SaveStep(p) PROVE IInv'
  BY <1>2, SavePreserves
<1>3. ASSUME NEW p \in Procs, Kill(p) PROVE IInv'
  BY <1>3, StopPreserves DEF Kill, IInv, TypeOK, FileInv
<1>4. ASSUME NEW p \in Procs, Restart(p) PROVE IInv'
  BY <1>4 DEF Restart, Goto, Locals, IInv, TypeOK, FileInv, RegionInv, TempInv, CommandInv,
     TokenStaysInRegion, Reusable, Chosen, Saving
<1>5. CASE Flush
  BY <1>5 DEF Flush, Locals, IInv, TypeOK, FileInv, RegionInv, TempInv, CommandInv,
     TokenStaysInRegion, Reusable, Chosen
<1>6. CASE PowerLoss
  BY <1>6, StopPreserves DEF PowerLoss, IInv, TypeOK, FileInv
<1>7. CASE UNCHANGED vars
  BY <1>7 DEF vars, IInv, TypeOK, FileInv, RegionInv, TempInv, CommandInv,
     TokenStaysInRegion, Reusable, Chosen
<1>8. QED BY <1>1, <1>2, <1>3, <1>4, <1>5, <1>6, <1>7 DEF Next

\* The inductive invariant holds in every reachable state.
THEOREM CredentialsInvariant == Spec => []IInv
<1>1. QED BY InitEstablishes, NextPreserves, PTL DEF Spec

\* The credentials file is absent or whole, after kills and losses of power too.
THEOREM TypeCorrect == Spec => []TypeOK
<1>1. IInv => TypeOK
  BY DEF IInv
<1>2. QED BY <1>1, CredentialsInvariant, PTL

\* A saved token is sent only to the region that issued it.
THEOREM TokensStayInRegion == Spec => []TokenStaysInRegion
<1>1. IInv => TokenStaysInRegion
  BY DEF IInv
<1>2. QED BY <1>1, CredentialsInvariant, PTL

\* A command that was not killed leaves no token in a temporary file.
THEOREM TempsAreRemoved == Spec => []NoTempLeft
<1>1. IInv => NoTempLeft
  BY DEF IInv, TempInv, NoTempLeft
<1>2. QED BY <1>1, CredentialsInvariant, PTL
=============================================================================
