------------------------- MODULE DeviceCacheProofs -------------------------
(* Proofs about DeviceCache, for any processes, printers, accounts and      *)
(* times to live.                                                           *)
EXTENDS DeviceCache, TLAPS

-----------------------------------------------------------------------------
(* What is read from, and put into, a cache. *)

\* An empty cache is one, and consistent.
LEMMA EmptyCache ==
    ASSUME NEW s \in Scopes
    PROVE  Empty(s) \in Cache /\ Empty(s).scope = s /\ Consistent(Empty(s))
BY DEF Empty, Cache, Entry, Consistent, NoIP

\* Putting a device list of the cache's account into a consistent cache, stamped
\* with its time, keeps it consistent.
LEMMA PutList ==
    ASSUME NEW c \in Cache, Consistent(c), NEW t \in Times,
           NEW d, d = [scope |-> c.scope, at |-> t],
           NEW n, n = [c EXCEPT !.devices = d, !.updatedAt = t]
    PROVE  n \in Cache /\ n.scope = c.scope /\ Consistent(n)
<1>1. d \in List
  BY DEF Cache, List
<1>2. /\ n = [scope |-> c.scope, updatedAt |-> t, devices |-> d, ips |-> c.ips]
      /\ c.ips \in [Serials -> Entry] /\ c.scope \in Scopes
  BY DEF Cache
<1>3. n \in Cache /\ n.scope = c.scope
  BY <1>1, <1>2 DEF Cache
<1>4. Consistent(n)
  BY <1>1, <1>2 DEF Consistent
<1> QED
  BY <1>3, <1>4

\* So does replacing the table of addresses by one that is stamped likewise.
LEMMA PutAddresses ==
    ASSUME NEW c \in Cache, Consistent(c), NEW i \in [Serials -> Entry],
           \A s \in Serials : i[s] # NoIP =>
               i[s].address = [serial |-> s, scope |-> c.scope, at |-> i[s].seenAt],
           NEW n, n = [c EXCEPT !.ips = i]
    PROVE  n \in Cache /\ n.scope = c.scope /\ Consistent(n)
<1>1. n = [scope |-> c.scope, updatedAt |-> c.updatedAt, devices |-> c.devices, ips |-> i]
  BY DEF Cache
<1>2. n \in Cache /\ n.scope = c.scope
  BY <1>1 DEF Cache
<1>3. Consistent(n)
  BY <1>1 DEF Consistent
<1> QED
  BY <1>2, <1>3

-----------------------------------------------------------------------------
(* The inductive invariant *)

\* What the file holds and what a process is about to save is consistent; the
\* process knows its account, and has read or looked up what its next step needs.
FileOK == file \notin Unreadable => Consistent(file)

ProcOK(p) ==
    /\ temp[p] => pc[p] \in {"rename", "crashed"}
    /\ pc[p] \notin {"idle", "crashed"} => scope[p] \in Scopes
    /\ pc[p] \in {"save", "rename"} <=> after[p] # "none"
    /\ pc[p] \in {"cloud", "save", "rename"} =>
           copy[p] \in Cache /\ copy[p].scope = scope[p] /\ Consistent(copy[p])
    /\ cmd[p] = "file" /\ (pc[p] \in {"list", "cloud", "lookup"} \/ after[p] = "lookup") =>
           todo[p] # {} \/ missing[p] # {} \/ used[p] \in Address
    /\ pc[p] = "connect" => used[p] \in Address

IInv == TypeOK /\ FileOK /\ \A p \in Procs : ProcOK(p)

\* Reading the file yields a consistent cache of the reader's own account.
LEMMA ReadOwn ==
    ASSUME TypeOK, FileOK, NEW p \in Procs, scope[p] \in Scopes
    PROVE  /\ readDeviceCache(p) \in Cache
           /\ readDeviceCache(p).scope = scope[p]
           /\ Consistent(readDeviceCache(p))
<1>1. CASE file \in Unreadable \/ file.scope # scope[p]
  BY <1>1, EmptyCache DEF readDeviceCache
<1>2. CASE file \notin Unreadable /\ file.scope = scope[p]
  BY <1>2 DEF readDeviceCache, TypeOK, FileOK, Unreadable
<1> QED
  BY <1>1, <1>2

LEMMA InitInv == Init => IInv
<1> SUFFICES ASSUME Init PROVE IInv
  OBVIOUS
<1>1. TypeOK
  BY CacheAssumption DEF Init, TypeOK
<1>2. FileOK
  BY DEF Init, FileOK, Unreadable
<1>3. \A p \in Procs : ProcOK(p)
  BY DEF Init, ProcOK
<1> QED
  BY <1>1, <1>2, <1>3 DEF IInv

-----------------------------------------------------------------------------
(* Every step preserves the invariant. *)

\* What a process may change of its own state.
Others(p) == \A q \in Procs \ {p} :
    /\ temp'[q] = temp[q] /\ pc'[q] = pc[q] /\ cmd'[q] = cmd[q] /\ scope'[q] = scope[q]
    /\ copy'[q] = copy[q] /\ after'[q] = after[q] /\ todo'[q] = todo[q]
    /\ missing'[q] = missing[q] /\ used'[q] = used[q]

LEMMA OthersOK ==
    ASSUME IInv, NEW p \in Procs, Others(p), ProcOK(p)'
    PROVE  \A q \in Procs : ProcOK(q)'
BY DEF IInv, ProcOK, Others

\* The steps that end a process.
LEMMA EndsInv ==
    ASSUME IInv, NEW p \in Procs, NEW label \in {"idle", "crashed"}, Ends(p, label),
           temp' = temp, label = "idle" => ~temp[p], file' \in {file, Missing}
    PROVE  IInv'
<1>1. TypeOK'
  BY DEF IInv, TypeOK, Ends, Goto
<1>2. FileOK'
  BY DEF IInv, FileOK, Consistent, Unreadable
<1>3. ProcOK(p)'
  BY DEF IInv, ProcOK, TypeOK, Ends, Goto
<1>4. Others(p)
  BY DEF IInv, TypeOK, Ends, Goto, Others
<1> QED
  BY <1>1, <1>2, <1>3, <1>4, OthersOK DEF IInv

\* Handing a consistent cache of the own account to saveDeviceCache.
LEMMA SaveOK ==
    ASSUME IInv, NEW p \in Procs, scope[p] \in Scopes, ~temp[p],
           NEW c \in Cache, c.scope = scope[p], Consistent(c),
           NEW next \in {"lookup", "discover", "remember"},
           next = "lookup" /\ cmd[p] = "file" =>
               todo[p] # {} \/ missing[p] # {} \/ used[p] \in Address,
           Save(p, c, next), UNCHANGED <<now, file, temp, cmd, scope, todo, missing, used, started>>,
           list' \in [Procs -> List \cup {NoList}], found' \in [Procs -> SUBSET Serials]
    PROVE  IInv'
<1>1. TypeOK'
  BY DEF IInv, TypeOK, Save, Goto
<1>2. FileOK'
  BY DEF IInv, FileOK, Consistent
<1>3. ProcOK(p)'
  <2>1. pc'[p] = "save" /\ copy'[p] = c /\ after'[p] = next
    BY DEF IInv, TypeOK, Save, Goto
  <2>2. (Consistent(copy[p]))'
    BY <2>1 DEF Consistent
  <2> QED
    BY <2>1, <2>2 DEF ProcOK
<1>4. Others(p)
  BY DEF IInv, TypeOK, Save, Goto, Others
<1> QED
  BY <1>1, <1>2, <1>3, <1>4, OthersOK DEF IInv

\* Steps that neither start nor end a save and keep the file and the account.
LEMMA LocalOK ==
    ASSUME IInv, NEW p \in Procs,
           ListCached(p) \/ ListExpired(p) \/ SaveWrites(p) \/ Discover(p) \/ LookupMissing(p)
           \/ ConnectStale(p) \/ \E s \in Serials : LookupHit(p, s) \/ LookupMiss(p, s)
    PROVE  IInv'
<1> USE DEF IInv
<1>1. FileOK'
  BY DEF FileOK, Consistent, ListCached, ListExpired, SaveWrites, Discover, LookupMissing,
         ConnectStale, LookupHit, LookupMiss
<1>2. Others(p)
  BY DEF TypeOK, Goto, Others, ListCached, ListExpired, SaveWrites, Discover, LookupMissing,
         ConnectStale, LookupHit, LookupMiss
<1>3. CASE ListCached(p)
  <2>1. scope[p] \in Scopes
    BY <1>3 DEF ListCached, ProcOK
  <2>2. readDeviceCache(p).devices \in List \cup {NoList}
    BY <2>1, ReadOwn DEF Cache
  <2>3. TypeOK'
    BY <1>3, <2>2 DEF TypeOK, ListCached, Goto
  <2>4. ProcOK(p)'
    BY <1>3 DEF ProcOK, TypeOK, ListCached, Goto, Consistent
  <2> QED
    BY <1>1, <1>2, <2>3, <2>4, OthersOK
<1>4. CASE ListExpired(p)
  <2>1. scope[p] \in Scopes /\ ~temp[p]
    BY <1>4 DEF ListExpired, ProcOK
  <2>2. /\ readDeviceCache(p) \in Cache /\ readDeviceCache(p).scope = scope[p]
        /\ Consistent(readDeviceCache(p))
    BY <2>1, ReadOwn
  <2>3. TypeOK'
    BY <1>4, <2>2 DEF TypeOK, ListExpired, Goto
  <2>4. pc'[p] = "cloud" /\ copy'[p] = readDeviceCache(p)
    BY <1>4 DEF TypeOK, ListExpired, Goto
  <2>5. (Consistent(copy[p]))'
    BY <2>2, <2>4 DEF Consistent
  <2>6. UNCHANGED <<temp, scope, cmd, after, todo, missing, used>>
    BY <1>4 DEF ListExpired
  <2>7. ProcOK(p)'
    BY <1>4, <2>1, <2>2, <2>4, <2>5, <2>6 DEF ProcOK, ListExpired
  <2> QED
    BY <1>1, <1>2, <2>3, <2>7, OthersOK
<1>5. CASE SaveWrites(p)
  <2>1. TypeOK'
    BY <1>5 DEF TypeOK, SaveWrites, Goto
  <2>2. ProcOK(p)'
    BY <1>5 DEF ProcOK, TypeOK, SaveWrites, Goto, Consistent
  <2> QED
    BY <1>1, <1>2, <2>1, <2>2, OthersOK
<1>6. CASE Discover(p)
  <2>1. TypeOK'
    BY <1>6 DEF TypeOK, Discover, Goto
  <2>2. ProcOK(p)'
    BY <1>6 DEF ProcOK, TypeOK, Discover, Goto, Consistent
  <2> QED
    BY <1>1, <1>2, <2>1, <2>2, OthersOK
<1>7. CASE LookupMissing(p)
  <2>1. TypeOK'
    BY <1>7 DEF TypeOK, LookupMissing, Goto
  <2>2. ProcOK(p)'
    BY <1>7 DEF ProcOK, TypeOK, LookupMissing, Goto, Consistent
  <2> QED
    BY <1>1, <1>2, <2>1, <2>2, OthersOK
<1>8. CASE ConnectStale(p)
  <2>1. TypeOK'
    BY <1>8 DEF TypeOK, ConnectStale, Goto, ProcOK, Address
  <2>2. ProcOK(p)'
    BY <1>8 DEF ProcOK, TypeOK, ConnectStale, Goto, Consistent
  <2> QED
    BY <1>1, <1>2, <2>1, <2>2, OthersOK
<1>9. ASSUME NEW s \in Serials, LookupHit(p, s) PROVE IInv'
  <2>1. scope[p] \in Scopes
    BY <1>9 DEF LookupHit, ProcOK
  <2>2. readDeviceCache(p).ips[s] \in Entry
    BY <2>1, ReadOwn DEF Cache
  <2>3. readDeviceCache(p).ips[s].address \in Address
    BY <1>9, <2>2 DEF Entry, LookupHit, IPFresh
  <2>4. TypeOK'
    BY <1>9, <2>3 DEF TypeOK, LookupHit
  <2>5. used'[p] \in Address
    BY <1>9, <2>3 DEF TypeOK, LookupHit
  <2>6. ProcOK(p)'
    BY <1>9, <2>5 DEF ProcOK, TypeOK, LookupHit, Consistent
  <2> QED
    BY <1>1, <1>2, <2>4, <2>6, OthersOK, <1>9
<1>10. ASSUME NEW s \in Serials, LookupMiss(p, s) PROVE IInv'
  <2>1. TypeOK'
    BY <1>10 DEF TypeOK, LookupMiss
  <2>2. ProcOK(p)'
    BY <1>10 DEF ProcOK, TypeOK, LookupMiss, Consistent
  <2> QED
    BY <1>1, <1>2, <2>1, <2>2, OthersOK, <1>10
<1> QED
  BY <1>3, <1>4, <1>5, <1>6, <1>7, <1>8, <1>9, <1>10

\* The end of a save, with or without the rename.
LEMMA SaveEndsInv ==
    ASSUME IInv, NEW p \in Procs, SaveFails(p) \/ Rename(p)
    PROVE  IInv'
<1> USE DEF IInv
<1>1. /\ SaveEnds(p) /\ temp' = [temp EXCEPT ![p] = FALSE] /\ file' \in {file, copy[p]}
      /\ pc[p] \in {"save", "rename"}
  BY DEF SaveFails, Rename
<1>2. copy[p] \in Cache /\ Consistent(copy[p]) /\ after[p] \in {"lookup", "discover", "remember"}
  BY <1>1 DEF ProcOK, TypeOK
<1>3. TypeOK'
  BY <1>1, <1>2 DEF TypeOK, SaveEnds, Goto
<1>4. FileOK'
  BY <1>1, <1>2 DEF FileOK, Consistent
<1>5. ProcOK(p)'
  BY <1>1, <1>2 DEF ProcOK, TypeOK, SaveEnds, Goto, Consistent
<1>6. Others(p)
  BY <1>1 DEF TypeOK, SaveEnds, Goto, Others
<1> QED
  BY <1>3, <1>4, <1>5, <1>6, OthersOK

\* A new process.
LEMMA StartInv ==
    ASSUME IInv, NEW p \in Procs, Start(p)
    PROVE  IInv'
<1> USE DEF IInv
<1>1. TypeOK'
  BY CacheAssumption DEF TypeOK, Start, Goto
<1>2. FileOK'
  BY DEF FileOK, Start, Consistent
<1>3. ProcOK(p)'
  <2>1. /\ pc'[p] \in {"logout", "list", "lookup"} /\ after'[p] = "none"
        /\ scope'[p] \in Scopes /\ ~temp'[p]
    BY DEF ProcOK, TypeOK, Start, Goto
  <2>2. cmd'[p] = "file" => todo'[p] # {}
    <3>1. \/ cmd' = [cmd EXCEPT ![p] = "logout"]
          \/ \E c \in {"status", "devices"} : cmd' = [cmd EXCEPT ![p] = c]
          \/ \E s \in Serials : todo' = [todo EXCEPT ![p] = {s}]
      BY DEF Start
    <3>2. cmd'[p] \in {"logout", "status", "devices"} \/ \E s \in Serials : todo'[p] = {s}
      BY <3>1 DEF TypeOK
    <3> QED
      BY <3>2
  <2> QED
    BY <2>1, <2>2 DEF ProcOK
<1>4. Others(p)
  BY DEF TypeOK, Start, Goto, Others
<1> QED
  BY <1>1, <1>2, <1>3, <1>4, OthersOK

\* The answer of the cloud is put into the copy read before the request.
LEMMA CloudAnswersInv ==
    ASSUME IInv, NEW p \in Procs, CloudAnswers(p)
    PROVE  IInv'
<1> USE DEF IInv
<1> DEFINE r == copy[p]
           d == [scope |-> scope[p], at |-> now]
           c == [r EXCEPT !.devices = d, !.updatedAt = now]
<1>1. scope[p] \in Scopes /\ now \in Times /\ ~temp[p]
  BY DEF CloudAnswers, ProcOK, TypeOK
<1>2. r \in Cache /\ r.scope = scope[p] /\ Consistent(r)
  BY DEF CloudAnswers, ProcOK
<1>3. /\ Save(p, c, "lookup")
      /\ UNCHANGED <<now, file, temp, cmd, scope, todo, missing, found, used, started>>
  BY DEF CloudAnswers
<1> HIDE DEF r
<1>4. list' \in [Procs -> List \cup {NoList}] /\ found' \in [Procs -> SUBSET Serials]
  BY <1>1 DEF CloudAnswers, TypeOK, List
<1>5. cmd[p] = "file" => todo[p] # {} \/ missing[p] # {} \/ used[p] \in Address
  BY DEF CloudAnswers, ProcOK
<1>6. d = [scope |-> r.scope, at |-> now]
  BY <1>2
<1>7. c = [r EXCEPT !.devices = d, !.updatedAt = now]
  OBVIOUS
<1> HIDE DEF c, d, IInv
<1>8. c \in Cache /\ c.scope = r.scope /\ Consistent(c)
  BY <1>1, <1>2, <1>6, <1>7, PutList
<1> QED
  BY <1>1, <1>2, <1>3, <1>4, <1>5, <1>8, SaveOK

\* forgetPrinterIP and rememberPrinterIP change the entries of what they read.
LEMMA ForgetInv ==
    ASSUME IInv, NEW p \in Procs, Forget(p)
    PROVE  IInv'
<1> USE DEF IInv
<1> DEFINE r == readDeviceCache(p)
           i == [s \in Serials |-> IF s \in missing[p] THEN NoIP ELSE r.ips[s]]
           c == [r EXCEPT !.ips = i]
<1>1. scope[p] \in Scopes /\ ~temp[p]
  BY DEF Forget, ProcOK
<1>2. r \in Cache /\ r.scope = scope[p] /\ Consistent(r)
  BY <1>1, ReadOwn
<1>3. Save(p, c, "discover") /\ UNCHANGED <<now, file, temp, cmd, scope, list, todo, missing,
                                             found, used, started>>
  BY DEF Forget
<1> HIDE DEF r
<1>4. /\ i \in [Serials -> Entry]
      /\ \A s \in Serials : i[s] # NoIP =>
            i[s].address = [serial |-> s, scope |-> r.scope, at |-> i[s].seenAt]
  BY <1>2 DEF Cache, Entry, Consistent
<1> HIDE DEF i
<1>5. c \in Cache /\ c.scope = scope[p] /\ Consistent(c)
  BY <1>2, <1>4, PutAddresses
<1>6. list' \in [Procs -> List \cup {NoList}] /\ found' \in [Procs -> SUBSET Serials]
  BY <1>3 DEF TypeOK
<1> HIDE DEF c, IInv
<1> QED
  BY <1>1, <1>3, <1>5, <1>6, SaveOK

LEMMA RememberInv ==
    ASSUME IInv, NEW p \in Procs, NEW s \in Serials, Remember(p, s)
    PROVE  IInv'
<1> USE DEF IInv
<1> DEFINE r == readDeviceCache(p)
           e == [address |-> [serial |-> s, scope |-> scope[p], at |-> now], seenAt |-> now]
           i == [r.ips EXCEPT ![s] = e]
           c == [r EXCEPT !.ips = i]
<1>1. scope[p] \in Scopes /\ ~temp[p] /\ now \in Times
  BY DEF Remember, ProcOK, TypeOK
<1>2. r \in Cache /\ r.scope = scope[p] /\ Consistent(r)
  BY <1>1, ReadOwn
<1>3. Save(p, c, "remember") /\ UNCHANGED <<now, file, temp, cmd, scope, list, todo, missing,
                                             used, started>>
  BY DEF Remember
<1> HIDE DEF r
<1>4. /\ e \in Entry
      /\ e.address = [serial |-> s, scope |-> r.scope, at |-> e.seenAt]
  BY <1>1, <1>2 DEF Entry, Address
<1> HIDE DEF e
<1>5. /\ i \in [Serials -> Entry]
      /\ \A x \in Serials : i[x] # NoIP =>
            i[x].address = [serial |-> x, scope |-> r.scope, at |-> i[x].seenAt]
  BY <1>2, <1>4 DEF Cache, Consistent
<1> HIDE DEF i
<1>6. c \in Cache /\ c.scope = scope[p] /\ Consistent(c)
  BY <1>2, <1>5, PutAddresses
<1>7. list' \in [Procs -> List \cup {NoList}] /\ found' \in [Procs -> SUBSET Serials]
  BY <1>3 DEF TypeOK, Remember
<1> HIDE DEF c, IInv
<1> QED
  BY <1>1, <1>3, <1>6, <1>7, SaveOK

\* The clock changes nothing but the time.
LEMMA StutterInv ==
    ASSUME IInv, ClockMoves \/ UNCHANGED vars
    PROVE  IInv'
<1> USE DEF IInv
<1>1. TypeOK'
  BY DEF TypeOK, ClockMoves, vars
<1>2. FileOK' /\ \A p \in Procs : ProcOK(p)'
  BY DEF FileOK, ProcOK, Consistent, ClockMoves, vars
<1> QED
  BY <1>1, <1>2

LEMMA StepInv == IInv /\ [Next]_vars => IInv'
<1> SUFFICES ASSUME IInv, [Next]_vars PROVE IInv'
  OBVIOUS
<1>1. ASSUME NEW p \in Procs, ProcNext(p) PROVE IInv'
  <2>1. CASE Start(p)
    BY <2>1, StartInv
  <2>2. CASE Crash(p)
    BY <2>2, EndsInv DEF Crash
  <2>3. CASE CloudFails(p)
    BY <2>3, EndsInv DEF CloudFails, IInv, ProcOK
  <2>4. CASE RememberDone(p)
    BY <2>4, EndsInv DEF RememberDone, IInv, ProcOK
  <2>5. CASE Connects(p)
    BY <2>5, EndsInv DEF Connects, IInv, ProcOK
  <2>6. CASE LogoutClears(p)
    BY <2>6, EndsInv DEF LogoutClears, IInv, ProcOK
  <2>7. CASE LookupNothingMissing(p)
    <3>1. CASE cmd[p] # "file"
      BY <2>7, <3>1, EndsInv DEF LookupNothingMissing, IInv, ProcOK
    <3>2. CASE cmd[p] = "file"
      <4> USE DEF IInv
      <4>1. TypeOK' /\ FileOK'
        BY <2>7, <3>2 DEF TypeOK, FileOK, Consistent, LookupNothingMissing, Goto
      <4>2. ProcOK(p)'
        BY <2>7, <3>2 DEF TypeOK, ProcOK, Consistent, LookupNothingMissing, Goto
      <4>3. Others(p)
        BY <2>7, <3>2 DEF TypeOK, Others, LookupNothingMissing, Goto
      <4> QED
        BY <4>1, <4>2, <4>3, OthersOK
    <3> QED
      BY <3>1, <3>2
  <2>8. CASE SaveFails(p) \/ Rename(p)
    BY <2>8, SaveEndsInv
  <2>9. CASE CloudAnswers(p)
    BY <2>9, CloudAnswersInv
  <2>10. CASE Forget(p)
    BY <2>10, ForgetInv
  <2>11. CASE \E s \in Serials : Remember(p, s)
    BY <2>11, RememberInv
  <2>12. CASE \/ ListCached(p) \/ ListExpired(p) \/ SaveWrites(p) \/ Discover(p)
              \/ LookupMissing(p) \/ ConnectStale(p)
              \/ \E s \in Serials : LookupHit(p, s) \/ LookupMiss(p, s)
    BY <2>12, LocalOK
  <2> QED
    BY <1>1, <2>1, <2>2, <2>3, <2>4, <2>5, <2>6, <2>7, <2>8, <2>9, <2>10, <2>11, <2>12
       DEF ProcNext
<1>2. CASE ClockMoves \/ UNCHANGED vars
  BY <1>2, StutterInv
<1> QED
  BY <1>1, <1>2 DEF Next

-----------------------------------------------------------------------------
(* The theorems *)

\* The invariant holds throughout, for any processes, printers and accounts.
THEOREM CacheInvariant == Spec => []IInv
BY InitInv, StepInv, PTL DEF Spec

\* The types hold; in particular no crash or failed save ever tears the file.
THEOREM TypeCorrect == Spec => []TypeOK
BY CacheInvariant, PTL DEF IInv

\* Only a crash leaves a temporary file behind.
THEOREM TempsAreRemoved == Spec => []NoTempLeft
<1>1. IInv => NoTempLeft
  BY DEF IInv, ProcOK, NoTempLeft
<1> QED
  BY <1>1, CacheInvariant, PTL

\* A list that is used is the account's own and fresh.
THEOREM ListsAreOwnAndFresh == Spec => ListIsOwnAndFresh
<1> DEFINE A == \A p \in Procs : list'[p] # list[p] /\ list'[p] # NoList =>
                   /\ list'[p].scope = scope[p]
                   /\ now - list'[p].at \in 0..(ListTTL - 1)
<1>1. ASSUME IInv, [Next]_vars PROVE A \/ UNCHANGED vars
  <2>1. ASSUME NEW p \in Procs, list'[p] # list[p], list'[p] # NoList
        PROVE  ListCached(p) \/ CloudAnswers(p)
    <3>1. PICK q \in Procs : ProcNext(q)
      BY <1>1, <2>1 DEF Next, ClockMoves, vars
    <3>2. \/ ListCached(q) \/ CloudAnswers(q)
          \/ list' = list \/ list' = [list EXCEPT ![q] = NoList]
      BY <3>1
         DEF ProcNext, Start, Crash, ListCached, ListExpired, CloudFails, CloudAnswers,
             SaveWrites, SaveFails, Rename, SaveEnds, LookupHit, LookupMiss, Remember,
             LookupNothingMissing, LookupMissing, Forget, Discover, RememberDone, Connects,
             ConnectStale, LogoutClears, Ends
    <3> QED
      BY <1>1, <2>1, <3>2 DEF IInv, TypeOK, ListCached, CloudAnswers
  <2>2. ASSUME NEW p \in Procs, CloudAnswers(p)
        PROVE  list'[p].scope = scope[p] /\ now - list'[p].at \in 0..(ListTTL - 1)
    BY <1>1, <2>2, CacheAssumption DEF IInv, TypeOK, CloudAnswers, Times
  <2>3. ASSUME NEW p \in Procs, ListCached(p)
        PROVE  list'[p].scope = scope[p] /\ now - list'[p].at \in 0..(ListTTL - 1)
    <3> DEFINE c == readDeviceCache(p)
    <3>1. scope[p] \in Scopes
      BY <1>1, <2>3 DEF IInv, ProcOK, ListCached
    <3>2. c \in Cache /\ c.scope = scope[p] /\ Consistent(c)
      BY <1>1, <3>1, ReadOwn DEF IInv
    <3>3. list'[p] = c.devices /\ ListFresh(c)
      BY <1>1, <2>3 DEF IInv, TypeOK, ListCached
    <3> HIDE DEF c
    <3>4. list'[p] = [scope |-> scope[p], at |-> c.updatedAt]
      BY <3>2, <3>3 DEF Consistent, ListFresh
    <3>5. now \in Int /\ c.updatedAt \in Int
      BY <1>1, <3>2, CacheAssumption DEF IInv, TypeOK, Times, Cache, Zero
    <3> QED
      BY <3>3, <3>4, <3>5, CacheAssumption DEF ListFresh
  <2> QED
    BY <2>1, <2>2, <2>3
<1> QED
  BY <1>1, CacheInvariant, PTL DEF Spec, ListIsOwnAndFresh

\* An address that is used is the printer's, the account's own and fresh.
THEOREM AddressesAreOwnAndFresh == Spec => AddressIsOwnAndFresh
<1> DEFINE A == \A p \in Procs : used'[p] # used[p] /\ used'[p] # NoAddress =>
                   /\ used'[p].scope = scope[p]
                   /\ used'[p].serial \in todo[p] \ todo'[p]
                   /\ now - used'[p].at \in 0..(IPTTL - 1)
<1>1. ASSUME IInv, [Next]_vars PROVE A \/ UNCHANGED vars
  <2>1. ASSUME NEW p \in Procs, used'[p] # used[p], used'[p] # NoAddress
        PROVE  \E s \in Serials : LookupHit(p, s)
    <3>1. PICK q \in Procs : ProcNext(q)
      BY <1>1, <2>1 DEF Next, ClockMoves, vars
    <3>2. \/ \E s \in Serials : LookupHit(q, s)
          \/ used' = used \/ used' = [used EXCEPT ![q] = NoAddress]
      BY <3>1
         DEF ProcNext, Start, Crash, ListCached, ListExpired, CloudFails, CloudAnswers,
             SaveWrites, SaveFails, Rename, SaveEnds, LookupHit, LookupMiss, Remember,
             LookupNothingMissing, LookupMissing, Forget, Discover, RememberDone, Connects,
             ConnectStale, LogoutClears, Ends
    <3> QED
      BY <1>1, <2>1, <3>2 DEF IInv, TypeOK, LookupHit
  <2>2. ASSUME NEW p \in Procs, NEW s \in Serials, LookupHit(p, s)
        PROVE  /\ used'[p].scope = scope[p]
               /\ used'[p].serial \in todo[p] \ todo'[p]
               /\ now - used'[p].at \in 0..(IPTTL - 1)
    <3> DEFINE c == readDeviceCache(p)
               e == c.ips[s]
    <3>1. scope[p] \in Scopes
      BY <1>1, <2>2 DEF IInv, ProcOK, LookupHit
    <3>2. c \in Cache /\ c.scope = scope[p] /\ Consistent(c)
      BY <1>1, <3>1, ReadOwn DEF IInv
    <3>3. used'[p] = e.address /\ IPFresh(e) /\ s \in todo[p] \ todo'[p]
      BY <1>1, <2>2 DEF IInv, TypeOK, LookupHit
    <3> HIDE DEF c
    <3>4. used'[p] = [serial |-> s, scope |-> scope[p], at |-> e.seenAt]
      BY <3>2, <3>3 DEF Consistent, IPFresh
    <3>5. e \in Entry
      BY <3>2 DEF Cache
    <3>6. now \in Int /\ e.seenAt \in Int
      BY <1>1, <3>3, <3>5 DEF IInv, TypeOK, Times, Entry, IPFresh
    <3> QED
      BY <3>3, <3>4, <3>6, CacheAssumption DEF IPFresh
  <2> QED
    BY <2>1, <2>2
<1> QED
  BY <1>1, CacheInvariant, PTL DEF Spec, AddressIsOwnAndFresh
=============================================================================
